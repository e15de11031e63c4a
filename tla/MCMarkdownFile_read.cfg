SPECIFICATION Spec
CONSTANTS
    MaxSaves = 2
    MaxCalls = 1
    MaxFaults = 1
    MaxTicks = 4
INVARIANT TypeOK
INVARIANT QuietMeansRead
CHECK_DEADLOCK FALSE
