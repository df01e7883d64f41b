SPECIFICATION Spec
CONSTANTS
    a = a
    b = b
    d = d
    Callers = {a, b, d}
    Sockets = {s1, s2, s3}
    Nothing = nothing
    Kind <- Requests
    MaxSize = 2
    MinSize = 0
    MaxUses = 0
    MaxCancels = 1
CHECK_DEADLOCK FALSE
INVARIANTS
    ReadsItsOwnAnswer
