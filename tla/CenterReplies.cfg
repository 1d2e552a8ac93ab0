CONSTANTS
    Ops = {1}
    t1 = t1
    t2 = t2
    Targets = {t1, t2}
    RowStates = {"Queued", "WaitingRemote", "Succeeded", "Failed", "Unknown"}
    MaxRequests = 2
    MaxFaults = 1
SYMMETRY TargetSymmetry
SPECIFICATION Spec
INVARIANTS
    TypeOK
    CenterVerdictIsTrue
    ReplyNeverLost
    OnePendingOffer
PROPERTIES
    ImplementsContract
