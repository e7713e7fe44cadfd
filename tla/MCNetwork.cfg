SPECIFICATION MCSpec
CONSTANTS
    MaxSize = 3
    Shortened = TRUE
    None = None
CHECK_DEADLOCK FALSE
INVARIANTS
    SentInOrder
    CalledOnce
    ReadsExactly
    CallbacksTracked
    StreamsCounted
    ConnectionsOwned
PROPERTIES
    UplinksLease
    NobodyWaitsForEver
