SPECIFICATION Spec
CONSTANTS
    Procs = {p1, p2, p3}
    Keys = {k1, k2}
    Cmds = {x, y}
    MaxBulk = 3
    MaxBulks = 5
    SyscallLimit = 3
    Liberties = {}
SYMMETRY CommandSymmetry
INVARIANTS
    TypeOK
    NoOtherFreedProcessUsed
    LoadedIsReachable
    OneAnswerEach
CHECK_DEADLOCK FALSE
