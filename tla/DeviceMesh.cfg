\* A process of the mesh service: one server tower, two client towers; a driver
\* that may fail.
CONSTANTS
    a1 = a1  a2 = a2  a3 = a3  a4 = a4  srv = srv  cl1 = cl1  cl2 = cl2
    Adapters = {a1, a2, a3, a4}
    Servers = {srv}
    ClientSessions = {cl1, cl2}
    Towers = {srv, cl1, cl2}
    SessionOf <- MeshSessionOf
    SessionId <- OneId
    id = id
    MaxWr = 2
    DefaultCqSize = 8
    DriverMayFail = TRUE
SPECIFICATION FairSpec
INVARIANTS TypeOK SharedExactlyInSession CqFits OnePollerPerCq
PROPERTY EventuallyServing
\* The process aborts, or all sessions end up in their polling loops.
CHECK_DEADLOCK FALSE
