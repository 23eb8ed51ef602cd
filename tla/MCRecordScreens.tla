--------------------------- MODULE MCRecordScreens --------------------------
EXTENDS RecordScreens
=============================================================================
