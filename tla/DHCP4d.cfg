SPECIFICATION Spec
CONSTANTS
    c1 = c1
    c2 = c2
    printer = printer
    HW = {c1, c2}
    NoHW = NoHW
    LeaseRange = 3
    LeasePeriod = 1
    NintendoPeriod = 2
    Nintendo = {c2}
    Hostnames = {printer}
    ClientNames = {}
    NoName = NoName
    Garbled = printer
    InitialLeases <- StaticFile
    MaxTime = 3
INVARIANTS
    IInv
    NoDoubleBooking
    DurablePromises
    PermanentLeaseKept
    NeverRefused
PROPERTIES
    RenewalNotRefused
    OfferNotInUse
    ImplementsPool
