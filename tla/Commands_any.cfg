SPECIFICATION Spec
CONSTANTS
    Procs = {p1, p2, p3}
    Keys = {k1, k2}
    Cmds = {x, y}
    MaxBulk = 2
    MaxBulks = 4
    SyscallLimit = 3
    Liberties = {"register_later", "small_buffer", "pipeline_code"}
SYMMETRY CommandSymmetry
INVARIANTS
    RegisterCountExact
    TableIsLive
CHECK_DEADLOCK FALSE
