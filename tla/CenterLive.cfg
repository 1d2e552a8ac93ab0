CONSTANTS
    Ops = {1}
    Targets = {"t1"}
    RowStates = {"Queued", "WaitingRemote", "Succeeded"}
    MaxRequests = 1
    MaxFaults = 2
SPECIFICATION FairSpec
PROPERTIES
    CompletionReachesCenter
