SPECIFICATION Spec
CONSTANTS
    router = router
    laptop = laptop
    localhost = localhost
    Bases = {router, laptop, localhost}
    Localhost = localhost
    Hostnames <- BothSpellings
    RouterAddr = RouterAddr
    Loopback = Loopback
    LeaseAddrs = {a1, a2}
    OtherAddrs = {v6}
    V6 = {v6}
    Private = {a1, a2, RouterAddr}
    Subs = {www}
    NoSub = NoSub
    LeaseNames <- SharedNames
    Expiries = {0, 1}
    NoName = NoName
    NoAddr = NoAddr
    MaxTime = 2
SYMMETRY LeaseSymmetry
INVARIANTS
    ForwardReverseAgree
    NewestEntryAnswers
    RegisteredLabelResolves
