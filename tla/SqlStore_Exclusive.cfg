SPECIFICATION Spec
CONSTANTS
    Callers = {1, 2}
    MaxConnections = 1
    MaxCalls = 3
    MaxFaults = 2
INVARIANT ExclusiveCheckout
