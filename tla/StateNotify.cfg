SPECIFICATION Spec
CONSTANTS
    netconfigd = netconfigd
    radvd = radvd
    Consumers = {netconfigd, radvd}
    ReadsFirst = {radvd}
    MaxVersion = 3
    MaxCrashes = 2
INVARIANTS
    TypeOK
    NoLostWakeup
PROPERTIES
    RenewalHeals
