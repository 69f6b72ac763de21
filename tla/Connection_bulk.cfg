SPECIFICATION Spec
CONSTANTS
    c1 = c1
    BYTE = 2
    SHORT = 4
    WORD = 64
    MEMCACHE_HEADER_SIZE = 3
    MAX_KEY_SIZE = 1
    MAX_VALUE_SIZE = 1
    Conn = {c1}
    HEADER_SIZE = 3
    MAX_REQUEST_SIZE = 7
    Requests <- BulkRequests
    ResponseSizes = {3, 7}
    MaxSent <- OneBusyClient
    Window = 2
INVARIANTS
    TypeOK
    BulkBound
    BulkFitsPlugin
    AnsweredInOrder
    WaitsForTheRightEvent
    RequestsAreFramed
CHECK_DEADLOCK FALSE
