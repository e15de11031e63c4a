\* A task is moved on the phone while the user removes a line of the file.
SPECIFICATION Spec
CONSTANTS
    InitialFiles <- OnePerList
    InitialServices <- NoPhone
    Targets <- Both
    Tags = {""}
    MaxTaskResults = 100
    Texts = {"a", "d"}
    Names = {"Inbox", "Home"}
    Edits = {"phone move", "remove"}
    MaxEdits = 2
    MaxPasses = 6
    Concurrent = TRUE
    Faulty = {}
    MaxFaults = 0
\* The edits are bounded.
CHECK_DEADLOCK FALSE
INVARIANTS Survives
