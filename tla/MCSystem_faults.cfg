\* Two edits, with the program at rest or waiting to retry, and one call that
\* fails, or a crash.
SPECIFICATION Spec
CONSTANTS
    InitialFiles <- OnePerList
    InitialServices <- NoPhone
    Targets <- MarkdownOnly
    Tags = {""}
    MaxTaskResults = 100
    Texts = {"a", "d"}
    Names = {"Inbox", "Home"}
    Edits = {"add", "retitle", "check", "replace", "remove", "move", "add list", "rename", "move list", "remove list"}
    MaxEdits = 2
    MaxPasses = 5
    Concurrent = FALSE
    Faulty = {"store", "markdown", "process"}
    MaxFaults = 1
\* The edits are bounded.
CHECK_DEADLOCK FALSE
INVARIANTS Agreement NothingIsLost
