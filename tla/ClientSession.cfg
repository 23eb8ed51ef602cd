SPECIFICATION FairSpec
CONSTANTS
    Tabs = {"t1"}
    Signers = {"t1"}
    PageCalls = {"data"}
    MaxTokens = 2
    MaxLosses = 1
    MaxReloads = 1
INVARIANTS
    TypeOK
    WaitersHaveRefresh
    OwnTokenNeverRefused
PROPERTIES
    SignedOutForCause
    CallsSettle
    BootEnds
CHECK_DEADLOCK FALSE
