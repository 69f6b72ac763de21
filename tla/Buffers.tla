------------------------------ MODULE Buffers ------------------------------
(* The receive and send buffers of buffer.c. A buffer is a window           *)
(* start_off..stop_off into a chunk of memory; a chunk whose last byte is    *)
(* consumed goes to a pool that all buffers share, and one that is too small *)
(* is reallocated, which may move it. The callers hold raw pointers into a   *)
(* chunk between buf_get_reader or buf_get_writer and the call that ends the *)
(* use; the other modules take a buffer for a plain queue of bytes, which is *)
(* what this one shows.                                                      *)
EXTENDS Integers, Sequences

CONSTANTS
    Buffers,          \* the struct buffers of the connections and servers
    Chunks,           \* what malloc can return (a bound)
    Bytes,            \* what a caller may write
    Junk,             \* the content of memory nobody has written
    NULL,
    INITIAL_BUF_SIZE,
    MaxSize,          \* the largest size a chunk grows to (a bound)
    METADATA,         \* sizeof(MC_METADATA)
    Mins              \* the min_size arguments of the callers

ASSUME BufferAssumption ==
    /\ MaxSize \in Nat
    /\ INITIAL_BUF_SIZE \in 1 .. MaxSize
    /\ METADATA \in Nat
    /\ Mins \subseteq Nat
    /\ NULL \notin Chunks
    /\ Junk \notin Bytes

VARIABLES
    buf, buf_sz, start_off, stop_off,   \* the fields of each struct buffer
    memory,           \* what each chunk holds
    size,             \* what the allocator gave for each chunk, 0 if free
    pool,             \* the list from mem_pool_first on
    held,             \* the pointer the caller of each buffer works with
    queue             \* the bytes produced and not yet consumed, in order

fields == <<buf, buf_sz, start_off, stop_off>>
vars == <<fields, memory, size, pool, held, queue>>

Addresses == 0 .. MaxSize
Unwritten == [a \in Addresses |-> Junk]
NoPointer == [use |-> "none", buf |-> NULL, at |-> 0, n |-> 0, room |-> 0]

Free == {m \in Chunks : size[m] = 0}

Init ==
    /\ buf = [b \in Buffers |-> NULL]
    /\ buf_sz = [b \in Buffers |-> 0]
    /\ start_off = [b \in Buffers |-> 0]
    /\ stop_off = [b \in Buffers |-> 0]
    /\ memory = [m \in Chunks |-> Unwritten]
    /\ size = [m \in Chunks |-> 0]
    /\ pool = <<>>
    /\ held = [b \in Buffers |-> NoPointer]
    /\ queue = [b \in Buffers |-> <<>>]

buf_get_used(b) == stop_off[b] - start_off[b]

\* What pool_get may return for a buffer without a chunk, and the pool and the
\* allocation it leaves.
\* Mutant: the item stays in the list.
pool_get_KeepsItem ==
    IF pool = <<>>
    THEN {[buf |-> m, buf_sz |-> INITIAL_BUF_SIZE, pool |-> <<>>,
           size |-> [size EXCEPT ![m] = INITIAL_BUF_SIZE]] : m \in Free}
    ELSE {[buf |-> pool[1].buf, buf_sz |-> pool[1].buf_sz, pool |-> pool, size |-> size]}
pool_get ==
    IF pool = <<>>
    THEN {[buf |-> m, buf_sz |-> INITIAL_BUF_SIZE, pool |-> <<>>,
           size |-> [size EXCEPT ![m] = INITIAL_BUF_SIZE]] : m \in Free}
    ELSE {[buf |-> pool[1].buf, buf_sz |-> pool[1].buf_sz, pool |-> Tail(pool), size |-> size]}

\* The chunk _buf_alloc works on: the buffer's own or one of pool_get.
Chunk(b) ==
    IF buf[b] = NULL
    THEN pool_get
    ELSE {[buf |-> buf[b], buf_sz |-> buf_sz[b], pool |-> pool, size |-> size]}

\* The size at which the loop of _buf_alloc stops, from sz on.
\* Mutant: it wants one byte more than was asked for.
Grown_OneMore(sz, stop, min) ==
    {n \in sz .. MaxSize : /\ (n - sz) % INITIAL_BUF_SIZE = 0
                           /\ n > stop + min + 1
                           /\ n = sz \/ n - INITIAL_BUF_SIZE <= stop + min + 1}
Grown(sz, stop, min) ==
    {n \in sz .. MaxSize : /\ (n - sz) % INITIAL_BUF_SIZE = 0
                           /\ n > stop + min
                           /\ n = sz \/ n - INITIAL_BUF_SIZE <= stop + min}

\* What is allocated once the pool is given back to the allocator.
WithoutPool(sz, items) ==
    [m \in Chunks |-> IF \E i \in DOMAIN items : items[i].buf = m THEN 0 ELSE sz[m]]

\* realloc of a chunk to n bytes, in place or elsewhere. When the allocator
\* refuses, st_realloc gives the pool back and tries once more.
st_realloc(b, c, n) ==
    \E refused \in BOOLEAN :
        LET left == IF refused THEN WithoutPool(c.size, c.pool) ELSE c.size IN
        \E to \in {c.buf} \cup {m \in Chunks : left[m] = 0} :
            /\ buf' = [buf EXCEPT ![b] = to]
            /\ pool' = IF refused THEN <<>> ELSE c.pool
            /\ size' = [m \in Chunks |-> IF m = to THEN n ELSE IF m = c.buf THEN 0 ELSE left[m]]
            /\ memory' = [m \in Chunks |->
                            IF m = to
                            THEN [a \in Addresses |-> IF a < c.buf_sz THEN memory[c.buf][a] ELSE Junk]
                            ELSE IF size'[m] = 0 THEN Unwritten ELSE memory[m]]

_buf_alloc(b, min) ==
    \E c \in Chunk(b) : \E n \in Grown(c.buf_sz, stop_off[b], min) :
        /\ buf_sz' = [buf_sz EXCEPT ![b] = n]
        /\ IF n = c.buf_sz
           THEN /\ buf' = [buf EXCEPT ![b] = c.buf]
                /\ pool' = c.pool
                /\ size' = c.size
                /\ UNCHANGED memory
           ELSE st_realloc(b, c, n)

\* The caller asks for room for min bytes and gets the window behind stop_off.
buf_get_writer(b, min) ==
    /\ held[b] = NoPointer
    /\ _buf_alloc(b, min)
    /\ held' = [held EXCEPT ![b] =
                 [use |-> "write", buf |-> buf'[b], at |-> stop_off[b],
                  n |-> buf_sz'[b] - stop_off[b], room |-> buf_sz'[b] - stop_off[b]]]
    /\ UNCHANGED <<start_off, stop_off, queue>>

\* The caller writes s through its pointer, or nothing (recv found no data),
\* and calls buf_produce.
buf_produce(b, s) ==
    /\ held[b].use = "write"
    /\ Len(s) <= held[b].n
    /\ memory' = [memory EXCEPT ![held[b].buf] =
                   [a \in Addresses |->
                      IF a \in held[b].at .. held[b].at + Len(s) - 1
                      THEN s[a - held[b].at + 1]
                      ELSE memory[held[b].buf][a]]]
    /\ stop_off' = [stop_off EXCEPT ![b] = @ + Len(s)]
    /\ queue' = [queue EXCEPT ![b] = @ \o s]
    /\ held' = [held EXCEPT ![b] = NoPointer]
    /\ UNCHANGED <<buf, buf_sz, start_off, size, pool>>

\* The caller takes a pointer to the data.
buf_get_reader(b) ==
    /\ held[b] = NoPointer
    /\ buf_get_used(b) > 0
    /\ held' = [held EXCEPT ![b] =
                 [use |-> "read", buf |-> buf[b], at |-> start_off[b],
                  n |-> buf_get_used(b), room |-> buf_sz[b] - stop_off[b]]]
    /\ UNCHANGED <<fields, memory, size, pool, queue>>

\* The caller returns without consuming: the request is incomplete or bad.
LetGo(b) ==
    /\ held[b].use = "read"
    /\ held' = [held EXCEPT ![b] = NoPointer]
    /\ UNCHANGED <<fields, memory, size, pool, queue>>

\* process_multi of the server makes room behind the requests it was given a
\* pointer to.
process_multi_Reserve(b) ==
    /\ held[b].use = "read"
    /\ _buf_alloc(b, METADATA)
    /\ UNCHANGED <<start_off, stop_off, held, queue>>

\* A chunk goes to the front of the pool, whose links are written into it.
\* Mutant: the item has the size every chunk starts with.
pool_put_Initial(m, sz) ==
    /\ pool' = <<[buf |-> m, buf_sz |-> INITIAL_BUF_SIZE]>> \o pool
    /\ memory' = [memory EXCEPT ![m] = Unwritten]
pool_put(m, sz) ==
    /\ pool' = <<[buf |-> m, buf_sz |-> sz]>> \o pool
    /\ memory' = [memory EXCEPT ![m] = Unwritten]

\* Mutant: the buffer keeps the pointer.
_buf_free_KeepsPointer(b) ==
    /\ pool_put(buf[b], buf_sz[b])
    /\ UNCHANGED <<buf, buf_sz>>
_buf_free(b) ==
    /\ pool_put(buf[b], buf_sz[b])
    /\ buf_sz' = [buf_sz EXCEPT ![b] = 0]
    /\ buf' = [buf EXCEPT ![b] = NULL]

\* The caller is done with the first n bytes. An empty buffer loses its chunk.
\* Mutant: start_off stays.
buf_consume_KeepsStart(b, n) ==
    /\ held[b].use = "read"
    /\ held' = [held EXCEPT ![b] = NoPointer]
    /\ queue' = [queue EXCEPT ![b] = SubSeq(@, n + 1, Len(@))]
    /\ IF start_off[b] + n = stop_off[b]
       THEN /\ start_off' = [start_off EXCEPT ![b] = @ + n]
            /\ stop_off' = [stop_off EXCEPT ![b] = 0]
            /\ _buf_free(b)
       ELSE /\ start_off' = [start_off EXCEPT ![b] = @ + n]
            /\ UNCHANGED <<buf, buf_sz, stop_off, memory, pool>>
    /\ UNCHANGED size
buf_consume(b, n) ==
    /\ held[b].use = "read"
    /\ held' = [held EXCEPT ![b] = NoPointer]
    /\ queue' = [queue EXCEPT ![b] = SubSeq(@, n + 1, Len(@))]
    /\ IF start_off[b] + n = stop_off[b]
       THEN /\ start_off' = [start_off EXCEPT ![b] = 0]
            /\ stop_off' = [stop_off EXCEPT ![b] = 0]
            /\ _buf_free(b)
       ELSE /\ start_off' = [start_off EXCEPT ![b] = @ + n]
            /\ UNCHANGED <<buf, buf_sz, stop_off, memory, pool>>
    /\ UNCHANGED size

\* The last n bytes produced are taken back.
buf_rollback_produced(b, n) ==
    /\ held[b] = NoPointer
    /\ stop_off' = [stop_off EXCEPT ![b] = @ - n]
    /\ queue' = [queue EXCEPT ![b] = SubSeq(@, 1, Len(@) - n)]
    /\ UNCHANGED <<buf, buf_sz, start_off, memory, size, pool, held>>

\* A connection or a server goes; its successor starts with an empty struct.
buf_free(b) ==
    /\ held[b] = NoPointer
    /\ IF buf[b] # NULL THEN _buf_free(b) ELSE UNCHANGED <<buf, buf_sz, memory, pool>>
    /\ start_off' = [start_off EXCEPT ![b] = 0]
    /\ stop_off' = [stop_off EXCEPT ![b] = 0]
    /\ queue' = [queue EXCEPT ![b] = <<>>]
    /\ UNCHANGED <<size, held>>

pool_free ==
    /\ pool # <<>>
    /\ size' = WithoutPool(size, pool)
    /\ pool' = <<>>
    /\ UNCHANGED <<fields, memory, held, queue>>

Next ==
    \/ \E b \in Buffers :
        \/ \E min \in Mins : buf_get_writer(b, min)
        \/ \E n \in 0 .. MaxSize : \E s \in [1 .. n -> Bytes] : buf_produce(b, s)
        \/ buf_get_reader(b)
        \/ LetGo(b)
        \/ process_multi_Reserve(b)
        \/ \E n \in 1 .. buf_get_used(b) : buf_consume(b, n)
        \/ \E n \in 1 .. buf_get_used(b) : buf_rollback_produced(b, n)
        \/ buf_free(b)
    \/ pool_free

Spec == Init /\ [][Next]_vars
----------------------------------------------------------------------------
Pointers == [use : {"none", "read", "write"}, buf : Chunks \cup {NULL},
             at : Nat, n : Nat, room : Nat]
Items == [buf : Chunks, buf_sz : 0 .. MaxSize]

\* The picture in buffer.h: the data lies between start_off and stop_off and
\* inside the chunk.
TypeOK ==
    /\ buf \in [Buffers -> Chunks \cup {NULL}]
    /\ buf_sz \in [Buffers -> 0 .. MaxSize]
    /\ start_off \in [Buffers -> Nat]
    /\ stop_off \in [Buffers -> Nat]
    /\ \A b \in Buffers : start_off[b] <= stop_off[b] /\ stop_off[b] <= buf_sz[b]
    /\ memory \in [Chunks -> [Addresses -> Bytes \cup {Junk}]]
    /\ size \in [Chunks -> 0 .. MaxSize]
    /\ pool \in Seq(Items)
    /\ held \in [Buffers -> Pointers]
    /\ queue \in [Buffers -> Seq(Bytes)]

InBuffer(m) == \E b \in Buffers : buf[b] = m
InPool(m) == \E i \in DOMAIN pool : pool[i].buf = m

\* Every chunk that is allocated belongs to one buffer or is in the pool once,
\* through every exchange by pool_get, pool_put, realloc and pool_free: none is
\* shared and none is lost.
OneOwnerPerChunk ==
    /\ \A m \in Chunks : size[m] > 0 <=> InBuffer(m) \/ InPool(m)
    /\ \A m \in Chunks : ~(InBuffer(m) /\ InPool(m))
    /\ \A b, c \in Buffers : buf[b] = buf[c] /\ buf[b] # NULL => b = c
    /\ \A i, j \in DOMAIN pool : pool[i].buf = pool[j].buf => i = j

\* The size a buffer or an item of the pool records is the one the allocator
\* gave, however often the chunk grew and changed hands.
SizesAreTrue ==
    /\ \A b \in Buffers : buf[b] # NULL => buf_sz[b] = size[buf[b]]
    /\ \A i \in DOMAIN pool : pool[i].buf_sz = size[pool[i].buf]

\* A buffer is a queue: between its offsets lie the bytes that were produced
\* and neither consumed nor taken back, in order, whatever the other buffers do.
HoldsItsQueue ==
    \A b \in Buffers :
        /\ Len(queue[b]) = buf_get_used(b)
        /\ \A i \in 1 .. Len(queue[b]) : memory[buf[b]][start_off[b] + i - 1] = queue[b][i]

\* The pointer of a caller keeps pointing at its data or its window until the
\* caller is done, whatever happens to the other buffers and the pool. The
\* exception is process_multi of the server, which makes room in the buffer it
\* reads from (command.c:121): when no more than METADATA bytes are left behind
\* the requests, the chunk may move and the pointer does not follow.
PointersStay ==
    \A b \in Buffers :
        /\ held[b].use = "write" =>
             held[b].buf = buf[b] /\ held[b].at = stop_off[b] /\ held[b].at + held[b].n = size[buf[b]]
        /\ held[b].use = "read" /\ held[b].room > METADATA =>
             held[b].buf = buf[b] /\ held[b].at = start_off[b] /\ held[b].n = buf_get_used(b)
=============================================================================
