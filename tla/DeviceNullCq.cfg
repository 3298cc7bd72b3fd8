\* The FATAL at rdma_device.cc:325-328.
CONSTANTS
    a1 = a1  a2 = a2  a3 = a3  a4 = a4  srv = srv  cl1 = cl1  cl2 = cl2
    Adapters = {a1, a2}
    Servers = {srv}
    ClientSessions = {}
    Towers = {}
    SessionOf <- PlainSessionOf
    SessionId <- OneId
    id = id
    MaxWr = 2
    DefaultCqSize = 8
    DriverMayFail = TRUE
SPECIFICATION Spec
INVARIANT NullCqNeverReturned
CHECK_DEADLOCK FALSE
