SPECIFICATION Spec
CONSTANTS
    Workers = {w1, w2}
    Clients = {c1, c2}
    Jobs = {j1, j2}
    NoJob = nojob
    Modes = {"plain", "stream"}
    MaxPauses = 2
    MaxResumes = 2
    MaxFaults = 2
INVARIANTS
    StartedOnce
    StoreTellsTheSame
    EachTakeCountsOnce
SYMMETRY MCSymmetry
CHECK_DEADLOCK FALSE
