SPECIFICATION Spec
CHECK_DEADLOCK FALSE
CONSTANTS
    Message = {1, 2, 3}
    Wake = {1}
    Followup = {}
    Device = {d1}
    MaxText = 1
    MaxRevision = 2
    MaxLists = 2
    MaxReplies = 1
INVARIANT CurrentListReorders
