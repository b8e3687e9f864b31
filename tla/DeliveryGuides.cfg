SPECIFICATION Spec
CHECK_DEADLOCK FALSE
CONSTANTS
    Message = {1, 2}
    c1 = c1
    c2 = c2
    Conversation = {c1, c2}
    ConversationOf <- OneConversation
    Turn = {t1, t2}
    Guidable <- AllButFirst
    Streaming = {t1}
    MaxEdits = 1
    MaxFaults = 2
    NoTurn = NoTurn
    NoMessage = NoMessage
SYMMETRY TurnSymmetry
INVARIANTS
    RetriableNeverRan
PROPERTY StoppedIsFinal
