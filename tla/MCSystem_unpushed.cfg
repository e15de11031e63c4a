\* There are lists on the phone, and no file yet: one write of it fails.
SPECIFICATION Spec
CONSTANTS
    InitialFiles <- NoFileYet
    InitialServices <- ListsOnPhone
    Targets <- Both
    Tags = {""}
    MaxTaskResults = 100
    Texts = {"a", "d"}
    Names = {"Inbox", "Home"}
    Edits = {}
    MaxEdits = 0
    MaxPasses = 7
    Concurrent = FALSE
    Faulty = {"markdown"}
    MaxFaults = 1
\* The edits are bounded.
CHECK_DEADLOCK FALSE
INVARIANTS UserIsObeyed
