SPECIFICATION Spec
CONSTANTS
    s1 = s1
    s2 = s2
    a1 = a1
    a2 = a2
    Servers = {s1, s2}
    Alive = {s1, s2}
    Addrs = {a1, a2}
    Pool <- OwnAddress
    NoServer = NoServer
    NoAddr = NoAddr
    MaxXid = 4
    NoAck = NoAck
    InitialAck = NoAck
    MaxInFlight = 2
    MaxFaults = 1
CHECK_DEADLOCK FALSE
INVARIANTS
    TypeOK
    OnlyOfferedRequested
    NewLeaseIsAnswer
    ResumesWithLease
PROPERTIES
    LeaseEventually
