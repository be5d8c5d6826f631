SPECIFICATION Spec
CONSTANTS
    Tabs = {t1, t2}
    Clients = {c1, c2}
    Nothing = Nothing
    MaxTexts = 3
    MaxRestores = 1
    Limit = 1
CHECK_DEADLOCK FALSE
SYMMETRY Symmetry
INVARIANTS EditorAgrees TypedIsKept TrackedIsSafe
