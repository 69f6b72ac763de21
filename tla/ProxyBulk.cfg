SPECIFICATION FairSpec
CONSTANTS
    Servers = {s1, s2}
    MAX_SERVERS = 3
    MAX_ORDER = 2
    MaxRequests = 3
    SEND_LIMIT = 100
INVARIANTS
    TypeOK
    AnswersMatchRequests
    ReadsWithinBuffers
    NothingLeftBehind
    ExecutedAtMostOnce
    OkMeansExecutedInOrder
CHECK_DEADLOCK FALSE
PROPERTY ProcessMultiReturns
