SPECIFICATION FairSpec
CONSTANTS
    NoBranch = NoBranch
    Nodes <- MCNodes
    Labels <- MCLabels
    Edges <- MCEdges
    Kind <- MCKind
    OnError <- MCOnError
    ErrorBranch <- MCErrorBranch
    MaxAttempts <- MCAttempts
    MaxConcurrency = 2
INVARIANTS
    TypeOK
    CountersAgree
    RunFollowsEdges
    EndsWhenNothingCanRun
    DecisionTakesOneLabel
    InputsAreWhole
PROPERTIES
    FateIsFinal
    RunReturns
    KeepsPromise
