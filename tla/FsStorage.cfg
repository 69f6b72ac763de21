SPECIFICATION FairSpec
CONSTANTS
    k1 = k1
    k2 = k2
    k3 = k3
    byte = byte
    Keys = {k1, k2, k3}
    Bytes = {byte}
    Requests <- MCRequests
    Flags = {0, 1}
    CasValues = {1, 2}
    Dir <- MCDir
    Up <- MCUp
    Rank <- MCRank
    PageSize = 1
    MaxFaults = 1
    Absent = Absent
    NoFile = NoFile
    None = None
INVARIANTS
    NextRequestIntact
PROPERTIES
    ImplementsStore
    ListingComplete
    ListingEnds
