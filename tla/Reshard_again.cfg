SPECIFICATION Spec
CONSTANTS
    p1 = p1
    p2 = p2
    Keys = {1, 2}
    Proxies = {p1, p2}
    Rerun = TRUE
    Absent = Absent
    MaxWrites = 3
    MaxRuns = 2
    MaxFaults = 2
INVARIANT
    AssumedIsUpToDate
