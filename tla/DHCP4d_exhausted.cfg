SPECIFICATION Spec
CONSTANTS
    c1 = c1
    c2 = c2
    printer = printer
    HW = {c1, c2}
    NoHW = NoHW
    LeaseRange = 2
    LeasePeriod = 1
    NintendoPeriod = 2
    Nintendo = {}
    Hostnames = {}
    ClientNames = {}
    NoName = NoName
    Garbled = Garbled
    InitialLeases <- EmptyFile
    MaxTime = 3
PROPERTIES
    RefusedOnlyWhenExhausted
