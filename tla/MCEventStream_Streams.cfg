SPECIFICATION FairSpec
CONSTANTS
    Driver = driver
    Emitters = {n1, n2, n3}
    Setups <- WideNarrowOrLeft
INVARIANTS
    DeliversTheRun
    NobodyWaitsOnAnOpenQueue
PROPERTIES
    StreamEnds
    KeepsToChannel
