SPECIFICATION ProtocolsSpec
CHECK_DEADLOCK FALSE
CONSTANTS
    Question = {"question"}
    Tool = {"asks"}
    Permitted = {"may"}
    Call = {"click"}
    CallOf <- SameCall
    Key = {"yes", "no"}
    Yes = {"yes"}
    MaxAttempts = 3
    MaxRequests = 2
    MaxSeq = 1
    MaxCalls = 2
    MaxLosses = 1
    MaxTurns = 3
    MaxUpdates = 2
    MaxStops = 1
    MaxRuns = 2
    MaxTime = 2
    RunRequest = {"now"}
    MaxAsks = 1
    MaxEdits = 1
    MaxFaults = 1
INVARIANT TypesOK OneAnswer ActedOnce ReceiptFirst DecidedAsSent EachInputOnce
    RunsAsAccepted
PROPERTY DeadlineAnswers HandedBack ContinuedOnce CutOffIsSettled CatchesUp
