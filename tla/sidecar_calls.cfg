SPECIFICATION FairSpec
CONSTANTS
    Calls = {"c1", "c2", "c3"}
    MaxSockets = 4
    MaxReconnect = 2
    MaxQueue = 2
    Queueing = TRUE
CHECK_DEADLOCK FALSE
INVARIANTS NeverStranded OneAttempt NoneForgotten
PROPERTIES SentOnce ConnectEnds
