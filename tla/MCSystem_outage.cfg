\* One edit, and two calls to Google Tasks that fail.
SPECIFICATION Spec
CONSTANTS
    InitialFiles <- OnePerList
    InitialServices <- NoPhone
    Targets <- Both
    Tags = {""}
    MaxTaskResults = 100
    Texts = {"a", "d"}
    Names = {"Inbox", "Home"}
    Edits = {"add", "retitle", "check", "start", "remove", "add list", "rename", "remove list", "phone add", "phone retitle", "phone check", "phone remove", "phone move", "phone rename", "phone add list", "phone remove list"}
    MaxEdits = 1
    MaxPasses = 6
    Concurrent = FALSE
    Faulty = {"google_tasks"}
    MaxFaults = 2
\* The edits are bounded.
CHECK_DEADLOCK FALSE
INVARIANTS Agreement UserIsObeyed
PROPERTIES MarkedBeforePurged
