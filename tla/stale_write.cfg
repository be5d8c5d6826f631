SPECIFICATION Spec
CONSTANTS
    Tabs = {t1}
    Clients = {c1}
    Nothing = Nothing
    MaxTexts = 3
    MaxRestores = 1
    Limit = 1
CHECK_DEADLOCK FALSE
INVARIANTS StaleIsRefused
