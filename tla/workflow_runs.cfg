SPECIFICATION FairSpec
CONSTANTS
    Windows = {w1, w2}
    Workflows <- TwoWorkflows
    None = None
    MaxRuns = 2
    MaxCancels = 1
    MaxAnswers = 1
CHECK_DEADLOCK FALSE
INVARIANTS ApprovedOnly AnswerIsObeyed
PROPERTIES WindowIsFreed
