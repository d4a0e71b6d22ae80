CONSTANTS
    Uploads = 1
    MaxAttempts = 2
    Window = 1
    MaxHeight = 4
    MaxStarts = 2
SPECIFICATION FairSpec
INVARIANTS JournalIsSound OneLiveRetry SendAuthorityOnce SealedIsComplete
PROPERTIES WiresSettle
CHECK_DEADLOCK FALSE
