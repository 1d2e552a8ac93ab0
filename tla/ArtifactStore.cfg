CONSTANTS
    Artifacts = {a1}
    NoArtifact = NoArtifact
    Size = 3
    Requests = {r1, r2, r3}
    MaxFaults = 2
SPECIFICATION FairSpec
INVARIANTS
    ProgressIsWritten
    ReadyMatchesDigest
PROPERTIES
    ImplementsContract
    UploadEnds
CHECK_DEADLOCK FALSE
