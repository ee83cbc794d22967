SPECIFICATION LSpec
CONSTANTS
    captured = captured
    lan = lan
    Consumers = {captured}
    ReadsFirst = {captured}
    MaxVersion = 3
    MaxCrashes = 2
    Service = captured
    Hosts = {lan}
    Ids = {1, 2, 3}
    NoId = NoId
INVARIANTS
    NoDeadEntry
    StaysServed
PROPERTIES
    EventuallyServed
