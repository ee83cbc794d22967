SPECIFICATION Spec
CONSTANTS
    s1 = s1
    s2 = s2
    a1 = a1
    a2 = a2
    Servers = {s1, s2}
    Alive = {s2}
    Addrs = {a1, a2}
    Pool <- OwnAddress
    NoServer = NoServer
    NoAddr = NoAddr
    MaxXid = 4
    NoAck = NoAck
    InitialAck <- OldAck
    MaxInFlight = 2
    MaxFaults = 0
CHECK_DEADLOCK FALSE
PROPERTIES
    TimeoutIsTemporary
