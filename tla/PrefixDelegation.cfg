SPECIFICATION Spec
CONSTANTS
    s1 = s1
    s2 = s2
    p1 = p1
    p2 = p2
    Servers = {s1, s2}
    NoServer = NoServer
    Prefixes = {p1, p2}
    Grants <- MCGrants
    MaxGen = 1
    MaxPackets = 2
    MaxFaults = 1
    Additional = {p2}
INVARIANTS
    TypeOK
    ReleaseNamesItsServer
PROPERTIES
    ImplementsRelay
    RenewsAtFirstT1
    LanFollowsProvider
