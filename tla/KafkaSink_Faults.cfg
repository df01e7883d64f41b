SPECIFICATION FairSpec
CONSTANTS
    Emitters = {p1, p2}
    Flusher = flusher
    Nobody = nobody
    Stale = stale
    Modes = {TRUE, FALSE}
    MaxQueued = 2
    BatchSize = 2
    MaxEvents = 3
    MaxFaults = 2
INVARIANTS
    EveryEventIsAccounted
    PublishedIsInTopic
    FlushMeansSent
PROPERTIES
    EmitterReturns
