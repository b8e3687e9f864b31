SPECIFICATION Spec
CHECK_DEADLOCK FALSE
CONSTANTS
    Message = {1, 2, 3}
    Wake = {}
    Followup = {3}
    Device = {d1, d2}
    MaxText = 1
    MaxRevision = 2
    MaxLists = 3
    MaxReplies = 2
SYMMETRY DeviceSymmetry
INVARIANTS
    NoBlindReorder
    NoBlindEdit
PROPERTY KeepsOrder
