SPECIFICATION MCSpec
CONSTANTS
    Windows = {"main", "doc"}
    Main = "main"
    Paths = {"p"}
    NoPath = "none"
    Texts = {"", "a", "b"}
    Empty = ""
    OnFile <- MCOnFile
    Hash <- MCHash
    Leftovers <- MCLeftovers
    OldTabs = 2
    MaxTabs = 4
    MaxEdits = 3
    MaxEnds = 1
    MaxFailures = 1
    Weeks = TRUE
CHECK_DEADLOCK FALSE
INVARIANTS NothingIsLost
PROPERTIES StaleIsLate UnsavedIsKept
