SPECIFICATION PhonesSpec
CHECK_DEADLOCK FALSE
CONSTANTS
    Chat = {"chat"}
    Batch = 2
    MaxHead = 3
    MaxFaults = 1
    MaxOpens = 1
    MaxAcks = 1
    Device = {"phone"}
    Intent = {"asks"}
    Attention = {"asks"}
    Asking = {"asks"}
    Tries = 2
    MaxRegistrations = 2
    MaxReports = 2
    MaxChanges = 1
    MaxLost = 1
INVARIANTS
    MarkedWhenStale
    AlertOnce
PROPERTIES
    ReadsAreSeen
    VisibleCatchesUp
    QuietOnceSeen
