SPECIFICATION Spec
CONSTANTS
    Ifaces = {uplink0, lan0}
    Sessions = {s1}
    Main = Main
    Size = 2
    MaxArrived = 4
INVARIANTS
    NoPacketTwice
    OnlyUnrecordedMissing
PROPERTIES
    KeepsTheLast
CHECK_DEADLOCK FALSE
