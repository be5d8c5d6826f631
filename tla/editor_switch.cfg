SPECIFICATION Spec
CONSTANTS
    Tabs = {t1, t2}
    Clients = {}
    Nothing = Nothing
    MaxTexts = 3
    MaxRestores = 1
    Limit = 1
CHECK_DEADLOCK FALSE
INVARIANTS OwnText
