\* The message of the CHECK at rdma_adapter.cc:315.
CONSTANTS
    c1 = c1  c2 = c2
    Clients = {c1}
    MaxTries = 1
    Deployments <- AllDeployments
    MaxFaults = 0
SPECIFICATION Spec
INVARIANT SameMode
CHECK_DEADLOCK FALSE
