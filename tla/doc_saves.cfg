SPECIFICATION MCSpec
CHECK_DEADLOCK FALSE
CONSTANTS
    Paths = {"p1"}
    Bodies = {"a", "b", "c", "d"}
    Typed = {"b", "d"}
    Written = {"a", "c"}
    Eols = {"lf"}
    None = None
    Tasks = {"auto", "dialog"}
    Kinds = {"modify"}
    Debounce = FALSE
    Late = FALSE
    Failures = TRUE
    MaxEdits = 2
    MaxOthers = 2
    MaxSaves = 2
INVARIANTS CleanIsPersisted NewestIsRegistered InSyncInTime
PROPERTIES NothingDiscarded OwnSavesInTime
