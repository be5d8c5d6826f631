SPECIFICATION MCSpec
CONSTANTS
    Clients = {"a", "b"}
    Windows = {"main"}
    Ops = {"tmark.document.write", "document.getContent", "windows.list"}
    Ids <- MCIds
    IdOf <- MCIdOf
    MaxReq = 2
    MaxStops = 1
    MaxPending = 2
    Timeout = 1
    TTL = 6
    Suspends = TRUE
CHECK_DEADLOCK FALSE
INVARIANTS WriteExclusion EmittedIsAnswered PendingHasServer
PROPERTIES RequestsEnd ImplementsService UnlockedIsLate DrainedEnds
