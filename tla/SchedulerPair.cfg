CONSTANTS
    o1 = o1
    o2 = o2
    bmc1 = bmc1
    NoOp = NoOp
    Ops = {o1, o2}
    Provable = {o1}
    Endpoints = {bmc1}
    EndpointOf <- MCEndpointOf
    MaxConcurrentDrives = 2
    MaxFaults = 1
SPECIFICATION Spec
INVARIANTS
    WriteSentAtMostOnce
    SucceededIsReal
    WaitingHasTask
    TrackedFailureIsHonest
    EndpointWritesSerial
    AuditMatchesOutcome
    IInv
