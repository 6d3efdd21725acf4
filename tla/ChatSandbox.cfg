SPECIFICATION FairSpec
CONSTANTS
    Chats = {c1, c2, c3}
    Processes = {p1}
    Sessions = {s1}
    Questions = {q1}
    MaxTurns = 2
    MaxClears = 1
    NoChat = NoChat
INVARIANTS
    TypeOK
    AnswersFollowQuestions
    AnsweredIsRemembered
    ClearedStaysGone
    CacheHoldsAnswers
PROPERTY EveryChatEnds
CHECK_DEADLOCK FALSE
