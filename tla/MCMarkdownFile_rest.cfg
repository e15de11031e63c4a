SPECIFICATION FairSpec
CONSTANTS
    MaxSaves = 1
    MaxCalls = 2
    MaxFaults = 1
    MaxTicks = 3
PROPERTY ComesToRest
CHECK_DEADLOCK FALSE
