SPECIFICATION Spec
CONSTANTS
    Servers = {s1, s2}
    MAX_SERVERS = 2
    MAX_ORDER = 2
    MaxRequests = 3
    SEND_LIMIT = 100
INVARIANT AnswersMatchRequests
CHECK_DEADLOCK FALSE
