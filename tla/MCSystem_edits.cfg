\* Two edits, each after the program has come to rest, in the file or on the phone.
SPECIFICATION Spec
CONSTANTS
    InitialFiles <- WithAndWithoutProjects
    InitialServices <- NoPhone
    Targets <- Both
    Tags = {"", "p", "q", "r"}
    MaxTaskResults = 4
    Texts = {"d"}
    Names = {"Inbox", "Home"}
    Edits = {"add", "retitle", "check", "start", "remove", "add list", "rename", "remove list", "move", "retag", "remove file", "phone add", "phone retitle", "phone check", "phone remove", "phone move", "phone rename", "phone add list", "phone remove list"}
    MaxEdits = 2
    MaxPasses = 6
    Concurrent = FALSE
    Faulty = {}
    MaxFaults = 0
\* The edits are bounded.
CHECK_DEADLOCK FALSE
INVARIANTS TypeOK Agreement UserIsObeyed Settles Survives
PROPERTIES LiveTasksStay
