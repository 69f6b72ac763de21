SPECIFICATION Spec
CONSTANTS
    Procs = {p1, p2, p3}
    Keys = {k1, k2}
    Cmds = {x, y}
    MaxBulk = 2
    MaxBulks = 3
    SyscallLimit = 3
    Liberties = {}
SYMMETRY CommandSymmetry
INVARIANT NoFreedProcessUsed
CHECK_DEADLOCK FALSE
