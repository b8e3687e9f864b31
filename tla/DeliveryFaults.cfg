SPECIFICATION Spec
CONSTANTS
    Message = {1, 2, 3}
    c1 = c1
    c2 = c2
    Conversation = {c1, c2}
    ConversationOf <- TwoConversations
    Turn = {t1, t2, t3}
    Guidable = {}
    Streaming = {}
    MaxEdits = 1
    MaxFaults = 1
    NoTurn = NoTurn
    NoMessage = NoMessage
SYMMETRY TurnSymmetry
INVARIANTS
    TypeOK
    AtMostOnce
    OwnerDecides
    Reconciled
PROPERTIES
    KeepsPromise
