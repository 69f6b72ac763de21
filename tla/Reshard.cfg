SPECIFICATION FairSpec
CONSTANTS
    p1 = p1
    p2 = p2
    Keys = {1, 2}
    Proxies = {p1, p2}
    Rerun = FALSE
    Absent = Absent
    MaxWrites = 2
    MaxRuns = 2
    MaxFaults = 3
INVARIANTS
    ReadsLatest
PROPERTIES
    ProxiesResume
