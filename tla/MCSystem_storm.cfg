\* Edits at any time, and one call that fails, or a write of the file that is
\* cut off.
SPECIFICATION Spec
CONSTANTS
    InitialFiles <- OneList
    InitialServices <- NoPhone
    Targets <- MarkdownOnly
    Tags = {""}
    MaxTaskResults = 100
    Texts = {"a", "d"}
    Names = {"Inbox", "Home"}
    Edits = {"remove", "retitle", "undo", "remove list"}
    MaxEdits = 2
    MaxPasses = 4
    Concurrent = TRUE
    Faulty = {"store", "markdown", "disk"}
    MaxFaults = 1
\* The edits are bounded.
CHECK_DEADLOCK FALSE
INVARIANTS Agreement
PROPERTIES MarkedBeforePurged
