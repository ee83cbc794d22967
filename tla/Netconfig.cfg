SPECIFICATION Spec
CONSTANTS
    Uplink = Uplink
    Lan = Lan
    Interfaces <- SomeInterfaces
    LanAddr = LanAddr
    Addrs4 = {a1, a2}
    Routers = {r1, r2}
    Prefixes = {p1}
    Rules = {web}
    Tunnels = {peers}
    Families = {ip}
    Absent = Absent
    Bad = Bad
    MaxChanges = 2
    MaxFaults = 1
    MaxPackets = 2
INVARIANTS
    NothingLeftBehind
    DefaultRouteUsable
    AddressesAnnounced
    CountedOnce
PROPERTIES
    EachPartConverges
CHECK_DEADLOCK FALSE
