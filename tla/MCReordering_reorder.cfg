SPECIFICATION Spec
CONSTANTS
    Here <- FourHere
    There <- OneThere
    MaxTaskResults = 100
    MaxFaults = 1
\* The update ends.
CHECK_DEADLOCK FALSE
INVARIANTS TypeOK EndsAsWanted AlwaysMinimal
PROPERTY ImplementsRearranging
