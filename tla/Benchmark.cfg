SPECIFICATION FairSpec
CONSTANTS
    Clients = {c1, c2}
    Count = 3
    Rounds = 2
    CtlBytes = 1
    AskBytes = 1
    MaxWr = 3
    Batch = 2
    SleepCovers = TRUE
INVARIANTS TypeOK ChecksHold QueuesFit NoBlockInUseTwice OwnDescriptor ServerOutlivesClient
PROPERTIES AllServedUnlessByeLost
CHECK_DEADLOCK FALSE
