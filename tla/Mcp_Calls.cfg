SPECIFICATION Spec
CONSTANTS
    Callers = {c1, c2}
    Servers = {s1, s2}
    Names = {search}
    Nobody = nobody
    Stale = stale
    AnyServer = anyserver
    MaxCalls = 2
    MaxFaults = 2
INVARIANTS
    OneHandshake
    GreetedBeforeWork
    LockIsServed
