SPECIFICATION FairSpec
CONSTANTS
    Message = {1, 2}
    c1 = c1
    c2 = c2
    Conversation = {c1, c2}
    ConversationOf <- OneConversation
    Turn = {t1, t2}
    Guidable = {}
    Streaming = {}
    MaxEdits = 0
    MaxFaults = 1
    NoTurn = NoTurn
    NoMessage = NoMessage
PROPERTIES
    QueueMoves
    TurnsSettle
    LostReplyFound
    TickEnds
