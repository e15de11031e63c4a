\* The last of three lines is replaced.
SPECIFICATION Spec
CONSTANTS
    InitialFiles <- ThreeItems
    InitialServices <- NoPhone
    Targets <- MarkdownOnly
    Tags = {""}
    MaxTaskResults = 100
    Texts = {"a", "d"}
    Names = {"Inbox", "Home"}
    Edits = {"replace"}
    MaxEdits = 1
    MaxPasses = 5
    Concurrent = FALSE
    Faulty = {}
    MaxFaults = 0
\* The edits are bounded.
CHECK_DEADLOCK FALSE
INVARIANTS UserIsObeyed
