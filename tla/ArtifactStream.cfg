CONSTANTS
    Artifacts = {1, 2}
    Chunks = 2
    Window = 3
    Batches = {0, 3}
    LastBatch = 1
    LastStall = 4
    MaxDamaged = 2
    MaxFaults = 1
SPECIFICATION FairStreamSpec
INVARIANTS
    CenterRefusesOnlyLeftovers
    CursorCoversDelivered
PROPERTIES
    ReadyReachesCenter
CHECK_DEADLOCK FALSE
