SPECIFICATION FairSpec
CONSTANTS
    Driver = driver
    Emitters = {n1, n2}
    Setups <- OnlyLeftFull
PROPERTIES
    StreamEnds
CHECK_DEADLOCK FALSE
