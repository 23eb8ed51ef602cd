----------------------------- MODULE MCScreens ------------------------------
EXTENDS Screens
=============================================================================
