CONSTANTS
    o1 = o1
    o2 = o2
    bmc1 = bmc1
    NoOp = NoOp
    Ops = {o1, o2}
    Provable = {o1}
    Endpoints = {bmc1}
    EndpointOf <- MCEndpointOf
    MaxConcurrentDrives = 1
    MaxFaults = 0
SPECIFICATION FairSpec
INVARIANTS
    TypeOK
PROPERTIES
    EventuallyDecided
