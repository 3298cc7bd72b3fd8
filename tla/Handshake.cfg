\* Two clients, ports of different kinds, a verbs call that may fail, and the
\* server coming up late.
CONSTANTS
    c1 = c1  c2 = c2
    Clients = {c1, c2}
    MaxTries = 2
    Deployments <- TypicalDeployments
    MaxFaults = 1
SPECIFICATION FairSpec
INVARIANTS TypeOK ReadyWhenJoined FramesAligned MixedPairNeverJoins
PROPERTY EventuallyRunning
\* The peers of a process that aborted may wait for it for ever.
CHECK_DEADLOCK FALSE
