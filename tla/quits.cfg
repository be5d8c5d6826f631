SPECIFICATION MCSpec
CONSTANTS
    Windows = {"w1", "w2"}
    Initial = {"w1", "w2"}
    Tabs = {"t1"}
    FirstTabs = {"t1"}
    Mac = TRUE
    Inputs = {"quit", "exit", "tab"}
    MaxInputs = 3
    MaxEdits = 2
CHECK_DEADLOCK FALSE
INVARIANTS ExitOnlyAfterAll QuitIsCarriedThere
PROPERTIES LossIsLate QuitEndsThere
