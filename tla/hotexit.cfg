SPECIFICATION MCSpec
CONSTANTS
    MaxLabel = 1
    MaxDoc = 2
    MaxVer = 1
    MaxAsked = 4
    Budget = 4
CHECK_DEADLOCK FALSE
INVARIANTS OwedIsKept
PROPERTIES SessionIsFresh StartupEnds
