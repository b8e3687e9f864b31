SPECIFICATION Spec
CHECK_DEADLOCK FALSE
CONSTANTS
    Family = {"codex", "claude"}
    First = "codex"
    None = None
    MaxMessages = 4
    MaxSessions = 3
    MaxRefusals = 1
    MaxLosses = 1
    MaxCrashes = 1
    MaxFailures = 1
INVARIANTS
    HistoryKept
    RunsInTheThread
    RunAsChosen
    GivenOnce
    KnowsAll
