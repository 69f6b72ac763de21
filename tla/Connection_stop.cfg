SPECIFICATION FairSpec
CONSTANTS
    c1 = c1
    c2 = c2
    Conn = {c1, c2}
    HEADER_SIZE = 1
    MAX_REQUEST_SIZE = 1
    Requests <- StopRequests
    ResponseSizes = {1}
    MaxSent <- OwnerAndClient
    Window = 1
INVARIANTS
    StopHasOneOwner
PROPERTIES
    SuspendedIsSilent
    OwnerGoneResumes
    EventuallyAnswered
CHECK_DEADLOCK FALSE
