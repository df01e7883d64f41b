SPECIFICATION DSpec
CONSTANTS
    NoBranch = NoBranch
    Nodes <- MCNodes
    Labels <- MCLabels
    Edges <- MCEdges
    Kind <- MCKind
    OnError <- MCOnError
    ErrorBranch <- MCErrorBranch
    MaxAttempts <- MCAttempts
    MaxConcurrency = 0
    Knobs = {TRUE, FALSE}
    NoCheckpoint = NoCheckpoint
    MaxCrashes = 2
    MaxResumes = 3
INVARIANTS
    StoredFrontierIsConsistent
    CrashCostsOneWave
PROPERTIES
    SavedWorkIsNotRepeated
