CONSTANTS
    o1 = o1
    o2 = o2
    bmc1 = bmc1
    NoOp = NoOp
    Ops = {o1}
    Provable = {o1}
    Endpoints = {bmc1}
    EndpointOf <- MCEndpointOf
    MaxConcurrentDrives = 1
    MaxFaults = 3
SPECIFICATION FairSpec
PROPERTIES
    ImplementsContract
    EventuallyDecided
