SPECIFICATION Spec
CONSTANTS
    Callers = {1, 2}
    MaxConnections = 2
    MaxCalls = 3
    MaxFaults = 2
INVARIANTS
    PermitsAreExact
PROPERTIES
    OnlyLapsedRowsVanish
