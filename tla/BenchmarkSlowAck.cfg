SPECIFICATION Spec
CONSTANTS
    Clients = {c1}
    Count = 2
    Rounds = 1
    CtlBytes = 1
    AskBytes = 1
    MaxWr = 2
    Batch = 2
    SleepCovers = FALSE
INVARIANTS AnswerCompletesFirst
CHECK_DEADLOCK FALSE
