SPECIFICATION Spec
CONSTANTS
    Buffers = {b1, b2}
    Chunks = {m1, m2, m3}
    Bytes = {x, y}
    Junk = Junk
    NULL = NULL
    INITIAL_BUF_SIZE = 2
    MaxSize = 4
    METADATA = 0
    Mins = {0, 1}
SYMMETRY BufferSymmetry
INVARIANTS
    TypeOK
    OneOwnerPerChunk
    SizesAreTrue
    HoldsItsQueue
    PointersStay
