-------------------------- MODULE BuffersInvariant --------------------------
(* The inductive invariant of Buffers, and that allocating, growing and      *)
(* moving a chunk keep it. The invariants are proved together: what a buffer *)
(* holds depends on who owns its chunk, and who owns a chunk on the sizes    *)
(* that went with it through the pool.                                       *)
EXTENDS Buffers, TLAPS

\* A buffer without a chunk has nothing in it.
NoChunkNoData == \A b \in Buffers : buf[b] = NULL => buf_sz[b] = 0

\* A pointer to write to points into a chunk.
WritersHaveChunks == \A b \in Buffers : held[b].use = "write" => buf[b] # NULL

\* The room a reader saw behind its data is still there, unless there was too
\* little and process_multi made more.
RoomIsTrue ==
    \A b \in Buffers : held[b].use = "read" =>
        /\ buf[b] # NULL
        /\ held[b].room > METADATA => held[b].room = buf_sz[b] - stop_off[b]

\* The inductive invariant.
IInv ==
    /\ TypeOK
    /\ OneOwnerPerChunk
    /\ SizesAreTrue
    /\ HoldsItsQueue
    /\ PointersStay
    /\ NoChunkNoData
    /\ WritersHaveChunks
    /\ RoomIsTrue

Record == [buf : Chunks, buf_sz : 1 .. MaxSize,
           pool : Seq(Items), size : [Chunks -> 0 .. MaxSize]]

\* What _buf_alloc relies on once it has a chunk for b: the chunk is b's alone,
\* and the others keep theirs.
Exclusive(b, c) ==
    /\ c \in Record
    /\ c.size[c.buf] = c.buf_sz
    /\ \A d \in Buffers \ {b} : buf[d] # c.buf
    /\ \A d \in Buffers \ {b} : buf[d] # NULL => c.size[buf[d]] = buf_sz[d]
    /\ \A i \in DOMAIN c.pool :
        /\ c.pool[i].buf # c.buf
        /\ c.pool[i].buf_sz = c.size[c.pool[i].buf]
        /\ c.pool[i].buf_sz > 0
        /\ \A d \in Buffers \ {b} : c.pool[i].buf # buf[d]
    /\ \A i, j \in DOMAIN c.pool : c.pool[i].buf = c.pool[j].buf => i = j
    /\ \A m \in Chunks : c.size[m] > 0 =>
        \/ m = c.buf
        \/ \E d \in Buffers \ {b} : buf[d] = m
        \/ \E i \in DOMAIN c.pool : c.pool[i].buf = m
    /\ buf[b] # NULL => c.buf = buf[b] /\ c.buf_sz = buf_sz[b]

\* The initial buffers are empty.
LEMMA InitInv == Init => IInv
  <1> SUFFICES ASSUME Init PROVE IInv
    OBVIOUS
  <1> USE BufferAssumption
  <1>0. \A b \in Buffers : start_off[b] = 0 /\ stop_off[b] = 0 /\ buf_sz[b] = 0
    BY Zenon DEF Init
  <1>a. \A b \in Buffers : Len(queue[b]) = 0
    <2> SUFFICES ASSUME NEW b \in Buffers PROVE Len(queue[b]) = 0
      OBVIOUS
    <2>1. queue[b] = <<>>
      BY Zenon DEF Init
    <2>. QED
      BY <2>1
  <1>1. TypeOK
    <2>1. ASSUME NEW b \in Buffers PROVE start_off[b] <= stop_off[b] /\ stop_off[b] <= buf_sz[b]
      <3>1. start_off[b] = 0 /\ stop_off[b] = 0 /\ buf_sz[b] = 0
        BY <1>0, Zenon
      <3>. QED
        BY <3>1
    <2>2. held \in [Buffers -> Pointers]
      BY DEF Init, NoPointer, Pointers
    <2>3. memory \in [Chunks -> [Addresses -> Bytes \cup {Junk}]]
      BY DEF Init, Unwritten
    <2>. QED
      BY <2>1, <2>2, <2>3 DEF Init, TypeOK
  <1>2. OneOwnerPerChunk
    BY DEF Init, OneOwnerPerChunk, InBuffer, InPool
  <1>3. SizesAreTrue
    BY DEF Init, SizesAreTrue
  <1>4. HoldsItsQueue
    <2> SUFFICES ASSUME NEW b \in Buffers
                 PROVE  /\ Len(queue[b]) = buf_get_used(b)
                        /\ \A i \in 1 .. Len(queue[b]) :
                             memory[buf[b]][start_off[b] + i - 1] = queue[b][i]
      BY Zenon DEF HoldsItsQueue
    <2>1. start_off[b] = 0 /\ stop_off[b] = 0 /\ Len(queue[b]) = 0
      BY <1>0, <1>a, Zenon
    <2>. QED
      BY <2>1 DEF buf_get_used
  <1>5. PointersStay
    BY DEF Init, PointersStay, NoPointer
  <1>. QED
    BY <1>1, <1>2, <1>3, <1>4, <1>5 DEF IInv, NoChunkNoData, WritersHaveChunks, RoomIsTrue, Init, NoPointer

\* A step that changes no variable keeps the invariant.
LEMMA StutterKeeps == IInv /\ UNCHANGED vars => IInv'
  BY DEF IInv, vars, fields, TypeOK, OneOwnerPerChunk, InBuffer, InPool, SizesAreTrue, HoldsItsQueue,
         PointersStay, NoChunkNoData, WritersHaveChunks, RoomIsTrue, buf_get_used

\* The chunk of a buffer, or the one pool_get hands out, is exclusive.
LEMMA ChunkExclusive ==
    ASSUME IInv, NEW b \in Buffers, NEW c \in Chunk(b)
    PROVE  Exclusive(b, c)
  <1> USE BufferAssumption
  <1>0. TypeOK /\ OneOwnerPerChunk /\ SizesAreTrue
    BY DEF IInv
  <1>1. CASE buf[b] # NULL
    <2>1. c = [buf |-> buf[b], buf_sz |-> buf_sz[b], pool |-> pool, size |-> size]
      BY <1>1 DEF Chunk
    <2>2. buf[b] \in Chunks /\ InBuffer(buf[b])
      BY <1>0, <1>1 DEF TypeOK, InBuffer
    <2>3. size[buf[b]] > 0 /\ size[buf[b]] = buf_sz[b]
      BY <1>0, <1>1, <2>2 DEF OneOwnerPerChunk, SizesAreTrue
    <2>4. c \in Record
      BY <1>0, <2>1, <2>2, <2>3 DEF TypeOK, Record
    <2>5. c.buf = buf[b] /\ c.buf_sz = buf_sz[b] /\ c.pool = pool /\ c.size = size
      BY <2>1
    <2>6. \A d \in Buffers \ {b} : buf[d] # c.buf
      BY <1>0, <1>1, <2>5 DEF OneOwnerPerChunk
    <2>7. ASSUME NEW i \in DOMAIN pool
          PROVE  /\ pool[i].buf # buf[b]
                 /\ pool[i].buf_sz > 0
                 /\ \A d \in Buffers \ {b} : pool[i].buf # buf[d]
      <3>1. pool[i] \in Items
        BY <1>0 DEF TypeOK
      <3>2. pool[i].buf \in Chunks /\ InPool(pool[i].buf)
        BY <3>1 DEF Items, InPool
      <3>. QED
        BY <1>0, <3>2 DEF OneOwnerPerChunk, SizesAreTrue, InBuffer
    <2>8. \A m \in Chunks : size[m] > 0 =>
            \/ m = buf[b]
            \/ \E d \in Buffers \ {b} : buf[d] = m
            \/ \E i \in DOMAIN pool : pool[i].buf = m
      <3>1. \A m \in Chunks : size[m] > 0 => InBuffer(m) \/ InPool(m)
        BY <1>0 DEF OneOwnerPerChunk
      <3>. QED
        BY <3>1 DEF InBuffer, InPool
    <2>9. \A i, j \in DOMAIN pool : pool[i].buf = pool[j].buf => i = j
      BY <1>0 DEF OneOwnerPerChunk
    <2>. QED
      BY <1>0, <1>1, <2>3, <2>4, <2>5, <2>6, <2>7, <2>8, <2>9 DEF Exclusive, SizesAreTrue
  <1>2. CASE buf[b] = NULL /\ pool = <<>>
    <2>1. PICK m \in Free : c = [buf |-> m, buf_sz |-> INITIAL_BUF_SIZE, pool |-> <<>>,
                                 size |-> [size EXCEPT ![m] = INITIAL_BUF_SIZE]]
      BY <1>2 DEF Chunk, pool_get
    <2>2. m \in Chunks /\ size[m] = 0
      BY DEF Free
    <2>3. c \in Record
      BY <1>0, <2>1, <2>2 DEF TypeOK, Record
    <2>4. ~InBuffer(m)
      BY <1>0, <2>2 DEF OneOwnerPerChunk
    <2>5. \A n \in Chunks : c.size[n] = IF n = m THEN INITIAL_BUF_SIZE ELSE size[n]
      BY <1>0, <2>1, <2>2 DEF TypeOK
    <2>6. \A n \in Chunks : ~InPool(n)
      BY <1>2 DEF InPool
    <2>. QED
      BY <1>0, <1>2, <2>1, <2>2, <2>3, <2>4, <2>5, <2>6
      DEF Exclusive, TypeOK, OneOwnerPerChunk, SizesAreTrue, InBuffer
  <1>3. CASE buf[b] = NULL /\ pool # <<>>
    <2>1. c = [buf |-> pool[1].buf, buf_sz |-> pool[1].buf_sz, pool |-> Tail(pool), size |-> size]
      BY <1>3 DEF Chunk, pool_get
    <2>2. 1 \in DOMAIN pool /\ pool[1] \in Items
      BY <1>0, <1>3 DEF TypeOK
    <2>a. pool[1].buf \in Chunks /\ pool[1].buf_sz \in 0 .. MaxSize
      BY <2>2 DEF Items
    <2>3. InPool(pool[1].buf)
      BY <2>2 DEF InPool
    <2>4. size[pool[1].buf] = pool[1].buf_sz /\ pool[1].buf_sz > 0
      BY <1>0, <2>2, <2>a, <2>3 DEF OneOwnerPerChunk, SizesAreTrue
    <2>5. /\ Tail(pool) \in Seq(Items)
          /\ \A i \in DOMAIN Tail(pool) : i \in Nat /\ i + 1 \in DOMAIN pool /\ Tail(pool)[i] = pool[i + 1]
          /\ \A i \in DOMAIN pool : i = 1 \/ (i - 1 \in DOMAIN Tail(pool) /\ Tail(pool)[i - 1] = pool[i])
      BY <1>0, <1>3 DEF TypeOK
    <2>6. c \in Record
      BY <1>0, <2>1, <2>a, <2>4, <2>5 DEF TypeOK, Record
    <2>7. ~InBuffer(pool[1].buf)
      BY <1>0, <2>2, <2>a, <2>3 DEF OneOwnerPerChunk
    <2>8. \A i \in DOMAIN c.pool :
            /\ c.pool[i].buf # c.buf
            /\ c.pool[i].buf_sz = c.size[c.pool[i].buf]
            /\ c.pool[i].buf_sz > 0
            /\ \A d \in Buffers \ {b} : c.pool[i].buf # buf[d]
      <3> SUFFICES ASSUME NEW i \in DOMAIN Tail(pool)
                   PROVE  /\ Tail(pool)[i].buf # pool[1].buf
                          /\ Tail(pool)[i].buf_sz = size[Tail(pool)[i].buf]
                          /\ Tail(pool)[i].buf_sz > 0
                          /\ \A d \in Buffers \ {b} : Tail(pool)[i].buf # buf[d]
        BY <2>1
      <3>1. i \in Nat /\ i + 1 \in DOMAIN pool /\ Tail(pool)[i] = pool[i + 1] /\ i + 1 # 1
        BY <2>5
      <3>2. pool[i + 1] \in Items /\ pool[i + 1].buf \in Chunks
        <4>1. pool[i + 1] \in Items
          BY <1>0, <3>1 DEF TypeOK
        <4>. QED
          BY <4>1 DEF Items
      <3>3. InPool(pool[i + 1].buf)
        BY <3>1 DEF InPool
      <3>. QED
        BY <1>0, <2>2, <3>1, <3>2, <3>3 DEF OneOwnerPerChunk, SizesAreTrue, InBuffer
    <2>9. \A i, j \in DOMAIN c.pool : c.pool[i].buf = c.pool[j].buf => i = j
      <3> SUFFICES ASSUME NEW i \in DOMAIN Tail(pool), NEW j \in DOMAIN Tail(pool),
                          Tail(pool)[i].buf = Tail(pool)[j].buf
                   PROVE  i = j
        BY <2>1
      <3>1. i + 1 = j + 1
        BY <1>0, <2>5 DEF OneOwnerPerChunk
      <3>. QED
        BY <2>5, <3>1
    <2>10. \A m \in Chunks : InPool(m) => m = c.buf \/ \E i \in DOMAIN c.pool : c.pool[i].buf = m
      BY <2>1, <2>5, Zenon DEF InPool
    <2>11. \A d \in Buffers \ {b} : buf[d] # c.buf
      BY <2>1, <2>7 DEF InBuffer
    <2>12. \A m \in Chunks : InBuffer(m) => \E d \in Buffers \ {b} : buf[d] = m
      BY <1>3, BufferAssumption DEF InBuffer
    <2>13. \A m \in Chunks : c.size[m] > 0 => m = c.buf \/ (\E d \in Buffers \ {b} : buf[d] = m)
                                \/ \E i \in DOMAIN c.pool : c.pool[i].buf = m
      BY <1>0, <2>1, <2>10, <2>12 DEF OneOwnerPerChunk
    <2>14. c.size[c.buf] = c.buf_sz /\ c.size = size
      BY <2>1, <2>4
    <2>. QED
      BY <1>0, <1>3, <2>6, <2>8, <2>9, <2>11, <2>13, <2>14 DEF Exclusive, SizesAreTrue
  <1>. QED
    BY <1>1, <1>2, <1>3

\* What _buf_alloc does, whether or not the chunk had to grow or to move: b has
\* the chunk to, of n bytes, which nobody else has, with the bytes it had in c.
Placed(b, c, n, to) ==
    /\ n \in c.buf_sz .. MaxSize
    /\ buf' = [buf EXCEPT ![b] = to]
    /\ buf_sz' = [buf_sz EXCEPT ![b] = n]
    /\ \A d \in Buffers \ {b} : buf[d] # to
    /\ size' \in [Chunks -> 0 .. MaxSize] /\ size'[to] = n
    /\ memory' \in [Chunks -> [Addresses -> Bytes \cup {Junk}]]
    /\ pool' \in Seq(Items)
    /\ \A i \in DOMAIN pool' :
        /\ pool'[i].buf # to
        /\ pool'[i].buf_sz = size'[pool'[i].buf]
        /\ pool'[i].buf_sz > 0
        /\ \A d \in Buffers \ {b} : pool'[i].buf # buf[d]
    /\ \A i, j \in DOMAIN pool' : pool'[i].buf = pool'[j].buf => i = j
    /\ \A d \in Buffers \ {b} : buf[d] # NULL =>
        size'[buf[d]] = buf_sz[d] /\ memory'[buf[d]] = memory[buf[d]]
    /\ \A m \in Chunks : size'[m] > 0 =>
        \/ m = to
        \/ \E d \in Buffers \ {b} : buf[d] = m
        \/ \E i \in DOMAIN pool' : pool'[i].buf = m
    /\ \A a \in 0 .. c.buf_sz - 1 : memory'[to][a] = memory[c.buf][a]
    /\ n = c.buf_sz => to = c.buf

\* realloc leaves the grown chunk to b alone, also after the pool was given back.
LEMMA ReallocPlaces ==
    ASSUME IInv, NEW b \in Buffers, NEW c, Exclusive(b, c),
           NEW n \in Nat, n \in c.buf_sz + 1 .. MaxSize, st_realloc(b, c, n),
           buf_sz' = [buf_sz EXCEPT ![b] = n]
    PROVE  \E to \in Chunks : Placed(b, c, n, to)
  <1> USE BufferAssumption
  <1>0. /\ c.buf \in Chunks /\ c.buf_sz \in 1 .. MaxSize
        /\ c.pool \in Seq(Items) /\ c.size \in [Chunks -> 0 .. MaxSize]
    BY DEF Exclusive, Record
  <1>1. PICK refused \in BOOLEAN :
        LET left == IF refused THEN WithoutPool(c.size, c.pool) ELSE c.size IN
        \E to \in {c.buf} \cup {m \in Chunks : left[m] = 0} :
            /\ buf' = [buf EXCEPT ![b] = to]
            /\ pool' = IF refused THEN <<>> ELSE c.pool
            /\ size' = [m \in Chunks |-> IF m = to THEN n ELSE IF m = c.buf THEN 0 ELSE left[m]]
            /\ memory' = [m \in Chunks |->
                            IF m = to
                            THEN [a \in Addresses |-> IF a < c.buf_sz THEN memory[c.buf][a] ELSE Junk]
                            ELSE IF size'[m] = 0 THEN Unwritten ELSE memory[m]]
    BY DEF st_realloc
  <1> DEFINE left == IF refused THEN WithoutPool(c.size, c.pool) ELSE c.size
  <1>2. PICK to \in {c.buf} \cup {m \in Chunks : left[m] = 0} :
            /\ buf' = [buf EXCEPT ![b] = to]
            /\ pool' = IF refused THEN <<>> ELSE c.pool
            /\ size' = [m \in Chunks |-> IF m = to THEN n ELSE IF m = c.buf THEN 0 ELSE left[m]]
            /\ memory' = [m \in Chunks |->
                            IF m = to
                            THEN [a \in Addresses |-> IF a < c.buf_sz THEN memory[c.buf][a] ELSE Junk]
                            ELSE IF size'[m] = 0 THEN Unwritten ELSE memory[m]]
    BY <1>1, Zenon
  <1>3. /\ left \in [Chunks -> 0 .. MaxSize]
        /\ \A m \in Chunks : left[m] = c.size[m] \/ left[m] = 0
        /\ \A d \in Buffers \ {b} : buf[d] # NULL => left[buf[d]] = buf_sz[d]
        /\ \A i \in DOMAIN pool' : pool'[i] \in Items /\ left[pool'[i].buf] = c.size[pool'[i].buf]
        /\ pool' \in Seq(Items)
        /\ \A i \in DOMAIN pool' : i \in DOMAIN c.pool /\ pool'[i] = c.pool[i]
        /\ \A m \in Chunks : left[m] > 0 =>
            \/ m = c.buf
            \/ \E d \in Buffers \ {b} : buf[d] = m
            \/ \E i \in DOMAIN pool' : pool'[i].buf = m
    <2>1. CASE ~refused
      BY <1>0, <1>2, <2>1 DEF Exclusive
    <2>2. CASE refused
      <3>1. left = [m \in Chunks |-> IF \E i \in DOMAIN c.pool : c.pool[i].buf = m THEN 0 ELSE c.size[m]]
        BY <2>2, Zenon DEF WithoutPool
      <3>2. /\ \A m \in Chunks : (\E i \in DOMAIN c.pool : c.pool[i].buf = m) => left[m] = 0
            /\ \A m \in Chunks : ~(\E i \in DOMAIN c.pool : c.pool[i].buf = m) => left[m] = c.size[m]
        BY <3>1, Zenon
      <3>3. left \in [Chunks -> 0 .. MaxSize]
        <4>1. 0 \in 0 .. MaxSize
          OBVIOUS
        <4> HIDE DEF left
        <4>. QED
          BY <1>0, <3>1, <4>1, Zenon
      <3>4. pool' = <<>>
        BY <1>2, <2>2
      <3>5. ASSUME NEW d \in Buffers \ {b}, buf[d] # NULL PROVE left[buf[d]] = buf_sz[d]
        <4>1. buf[d] \in Chunks
          BY <3>5 DEF IInv, TypeOK
        <4>. QED
          BY <3>2, <3>5, <4>1 DEF Exclusive
      <3>6. ASSUME NEW m \in Chunks, left[m] > 0
            PROVE  m = c.buf \/ \E d \in Buffers \ {b} : buf[d] = m
        <4>1. ~(\E i \in DOMAIN c.pool : c.pool[i].buf = m) /\ c.size[m] > 0
          BY <3>2, <3>6
        <4>. QED
          BY <4>1 DEF Exclusive
      <3> HIDE DEF left
      <3>7. pool' \in Seq(Items) /\ DOMAIN pool' = {}
        BY <3>4
      <3>. QED
        BY <3>2, <3>3, <3>5, <3>6, <3>7
    <2>. QED
      BY <2>1, <2>2, SMTT(20)
  <1>4. to \in Chunks /\ (to = c.buf \/ left[to] = 0)
    BY <1>0, <1>2
  <1> HIDE DEF left
  <1>5. /\ \A m \in Chunks : size'[m] = IF m = to THEN n ELSE IF m = c.buf THEN 0 ELSE left[m]
        /\ size' \in [Chunks -> 0 .. MaxSize]
    BY <1>0, <1>2, <1>3
  <1>6. ASSUME NEW d \in Buffers \ {b}
        PROVE  /\ buf[d] # to
               /\ buf[d] # NULL => size'[buf[d]] = buf_sz[d] /\ buf_sz[d] > 0
    <2>1. CASE buf[d] = NULL
      BY <1>4, <2>1
    <2>2. CASE buf[d] # NULL
      <3>1. buf[d] \in Chunks /\ InBuffer(buf[d])
        BY <2>2 DEF IInv, TypeOK, InBuffer
      <3>2. size[buf[d]] > 0 /\ size[buf[d]] = buf_sz[d]
        BY <2>2, <3>1 DEF IInv, OneOwnerPerChunk, SizesAreTrue
      <3>3. buf[d] # c.buf /\ left[buf[d]] = buf_sz[d]
        BY <1>3, <2>2 DEF Exclusive
      <3>4. buf[d] # to
        BY <1>4, <3>2, <3>3
      <3>. QED
        BY <1>5, <3>1, <3>2, <3>3, <3>4
    <2>. QED
      BY <2>1, <2>2
  <1>7. memory' \in [Chunks -> [Addresses -> Bytes \cup {Junk}]]
    <2>1. memory \in [Chunks -> [Addresses -> Bytes \cup {Junk}]]
      BY DEF IInv, TypeOK
    <2>2. [a \in Addresses |-> IF a < c.buf_sz THEN memory[c.buf][a] ELSE Junk]
            \in [Addresses -> Bytes \cup {Junk}]
      BY <1>0, <2>1
    <2>3. Unwritten \in [Addresses -> Bytes \cup {Junk}]
      BY DEF Unwritten
    <2>. QED
      BY <1>2, <2>1, <2>2, <2>3
  <1>8. ASSUME NEW d \in Buffers \ {b}, buf[d] # NULL PROVE memory'[buf[d]] = memory[buf[d]]
    <2>1. buf[d] \in Chunks
      BY <1>8 DEF IInv, TypeOK
    <2>2. size'[buf[d]] # 0 /\ buf[d] # to
      <3>1. buf_sz[d] > 0 /\ size'[buf[d]] = buf_sz[d]
        BY <1>6, <1>8
      <3>. QED
        BY <1>6, <3>1
    <2>. QED
      BY <1>2, <2>1, <2>2, Zenon
  <1>9. \A a \in 0 .. c.buf_sz - 1 : memory'[to][a] = memory[c.buf][a]
    BY <1>0, <1>2, <1>4 DEF Addresses
  <1>10. ASSUME NEW i \in DOMAIN pool'
         PROVE  /\ pool'[i].buf # to
                /\ pool'[i].buf_sz = size'[pool'[i].buf]
                /\ pool'[i].buf_sz > 0
                /\ \A d \in Buffers \ {b} : pool'[i].buf # buf[d]
    <2>1. i \in DOMAIN c.pool /\ pool'[i] = c.pool[i] /\ pool'[i] \in Items
          /\ left[pool'[i].buf] = c.size[pool'[i].buf]
      BY <1>3
    <2>2. pool'[i].buf \in Chunks
      BY <2>1 DEF Items
    <2>3. /\ pool'[i].buf # c.buf
          /\ pool'[i].buf_sz = c.size[pool'[i].buf]
          /\ pool'[i].buf_sz > 0
          /\ \A d \in Buffers \ {b} : pool'[i].buf # buf[d]
      BY <2>1 DEF Exclusive
    <2>. QED
      BY <1>4, <1>5, <2>1, <2>2, <2>3
  <1>11. \A i, j \in DOMAIN pool' : pool'[i].buf = pool'[j].buf => i = j
    BY <1>3 DEF Exclusive
  <1>12. ASSUME NEW m \in Chunks, size'[m] > 0, m # to
         PROVE  \/ \E d \in Buffers \ {b} : buf[d] = m
                \/ \E i \in DOMAIN pool' : pool'[i].buf = m
    <2>1. m # c.buf /\ left[m] > 0
      BY <1>5, <1>12
    <2>. QED
      BY <1>3, <2>1
  <1>13. size'[to] = n /\ n \in c.buf_sz .. MaxSize /\ n # c.buf_sz
    BY <1>0, <1>4, <1>5, SMTT(20)
  <1>14. Placed(b, c, n, to)
    BY <1>2, <1>3, <1>5, <1>6, <1>7, <1>8, <1>9, <1>10, <1>11, <1>12, <1>13, Zenon DEF Placed
  <1>. QED
    BY <1>4, <1>14

\* _buf_alloc gives b a chunk of its own with more than min bytes behind stop_off.
LEMMA AllocPlaces ==
    ASSUME IInv, NEW b \in Buffers, NEW min \in Nat, _buf_alloc(b, min)
    PROVE  \E c \in Record : \E n \in Nat : \E to \in Chunks :
              /\ Exclusive(b, c)
              /\ Placed(b, c, n, to)
              /\ n > stop_off[b] + min
              /\ c.buf_sz > stop_off[b] + min => n = c.buf_sz
  <1> USE BufferAssumption
  <1>0. PICK c \in Chunk(b) : \E n \in Grown(c.buf_sz, stop_off[b], min) :
           /\ buf_sz' = [buf_sz EXCEPT ![b] = n]
           /\ IF n = c.buf_sz
              THEN /\ buf' = [buf EXCEPT ![b] = c.buf]
                   /\ pool' = c.pool
                   /\ size' = c.size
                   /\ UNCHANGED memory
              ELSE st_realloc(b, c, n)
    BY DEF _buf_alloc
  <1>1. PICK n \in Grown(c.buf_sz, stop_off[b], min) :
           /\ buf_sz' = [buf_sz EXCEPT ![b] = n]
           /\ IF n = c.buf_sz
              THEN /\ buf' = [buf EXCEPT ![b] = c.buf]
                   /\ pool' = c.pool
                   /\ size' = c.size
                   /\ UNCHANGED memory
              ELSE st_realloc(b, c, n)
    BY <1>0, Zenon
  <1>2. Exclusive(b, c)
    BY ChunkExclusive
  <1>3. /\ c \in Record /\ c.buf \in Chunks /\ c.buf_sz \in 1 .. MaxSize
        /\ c.pool \in Seq(Items) /\ c.size \in [Chunks -> 0 .. MaxSize]
    BY <1>2 DEF Exclusive, Record
  <1>4. stop_off[b] \in Nat
    BY DEF IInv, TypeOK
  <1>5. /\ n \in c.buf_sz .. MaxSize
        /\ n > stop_off[b] + min
        /\ n = c.buf_sz \/ n - INITIAL_BUF_SIZE <= stop_off[b] + min
        /\ (n - c.buf_sz) % INITIAL_BUF_SIZE = 0
    BY <1>1 DEF Grown
  <1>6. n # c.buf_sz => n >= c.buf_sz + INITIAL_BUF_SIZE
    <2> SUFFICES ASSUME n # c.buf_sz, n < c.buf_sz + INITIAL_BUF_SIZE PROVE FALSE
      BY <1>3, <1>5
    <2> DEFINE k == n - c.buf_sz
    <2>1. k \in 1 .. INITIAL_BUF_SIZE - 1
      BY <1>3, <1>5
    <2>2. \A j \in 1 .. INITIAL_BUF_SIZE - 1 : j % INITIAL_BUF_SIZE = j
      OBVIOUS
    <2>. QED
      BY <1>5, <2>1, <2>2
  <1>7. c.buf_sz > stop_off[b] + min => n = c.buf_sz
    BY <1>3, <1>4, <1>5, <1>6
  <1>8. \E to \in Chunks : Placed(b, c, n, to)
    <2>1. CASE n = c.buf_sz
      <3>1. /\ buf' = [buf EXCEPT ![b] = c.buf] /\ pool' = c.pool /\ size' = c.size
            /\ memory' = memory
        BY <1>1, <2>1
      <3>2. memory \in [Chunks -> [Addresses -> Bytes \cup {Junk}]]
        BY DEF IInv, TypeOK
      <3>3. Placed(b, c, n, c.buf)
        BY <1>1, <1>2, <1>3, <1>5, <2>1, <3>1, <3>2 DEF Exclusive, Placed
      <3>. QED
        BY <1>3, <3>3
    <2>2. CASE n # c.buf_sz
      <3>1. n \in Nat /\ n \in c.buf_sz + 1 .. MaxSize
        BY <1>3, <1>5, <2>2
      <3>2. st_realloc(b, c, n)
        BY <1>1, <2>2
      <3>. QED
        BY <1>1, <1>2, <3>1, <3>2, ReallocPlaces, Zenon
    <2>. QED
      BY <2>1, <2>2
  <1>. QED
    BY <1>2, <1>3, <1>5, <1>7, <1>8

\* After _buf_alloc everyone still owns what they owned, with its bytes, and a
\* pointer moves only when there was no room.
LEMMA AllocKeeps ==
    ASSUME IInv, NEW b \in Buffers, NEW min \in Nat, _buf_alloc(b, min),
           UNCHANGED <<start_off, stop_off, queue>>
    PROVE  /\ OneOwnerPerChunk' /\ SizesAreTrue' /\ HoldsItsQueue' /\ NoChunkNoData'
           /\ held' \in [Buffers -> Pointers] => TypeOK'
           /\ buf'[b] \in Chunks
           /\ buf_sz'[b] > stop_off[b] + min
           /\ \A d \in Buffers \ {b} : buf'[d] = buf[d] /\ buf_sz'[d] = buf_sz[d]
           /\ buf[b] # NULL /\ buf_sz[b] > stop_off[b] + min => buf'[b] = buf[b] /\ buf_sz'[b] = buf_sz[b]
  <1> USE BufferAssumption
  <1>1. PICK c \in Record, n \in Nat, to \in Chunks :
              /\ Exclusive(b, c)
              /\ Placed(b, c, n, to)
              /\ n > stop_off[b] + min
              /\ c.buf_sz > stop_off[b] + min => n = c.buf_sz
    BY AllocPlaces
  <1>2. /\ buf \in [Buffers -> Chunks \cup {NULL}] /\ buf_sz \in [Buffers -> 0 .. MaxSize]
        /\ start_off \in [Buffers -> Nat] /\ stop_off \in [Buffers -> Nat]
        /\ \A d \in Buffers : start_off[d] <= stop_off[d] /\ stop_off[d] <= buf_sz[d]
        /\ queue \in [Buffers -> Seq(Bytes)]
    BY DEF IInv, TypeOK
  <1>3. /\ buf'[b] = to /\ buf_sz'[b] = n
        /\ \A d \in Buffers \ {b} : buf'[d] = buf[d] /\ buf_sz'[d] = buf_sz[d]
        /\ buf' \in [Buffers -> Chunks \cup {NULL}]
    BY <1>1, <1>2 DEF Placed
  <1>4. n \in 1 .. MaxSize /\ c.buf_sz \in 1 .. MaxSize /\ n >= c.buf_sz
    BY <1>1 DEF Placed, Record
  <1>5. buf[b] # NULL => c.buf = buf[b] /\ c.buf_sz = buf_sz[b]
    BY <1>1 DEF Exclusive
  <1>6. stop_off[b] <= n /\ buf_sz' \in [Buffers -> 0 .. MaxSize]
    BY <1>1, <1>2, <1>4, SMTT(20) DEF Placed
  <1>7. held' \in [Buffers -> Pointers] => TypeOK'
    <2>1. \A d \in Buffers : start_off'[d] <= stop_off'[d] /\ stop_off'[d] <= buf_sz'[d]
      BY <1>2, <1>3, <1>6, Zenon
    <2>. QED
      BY <1>1, <1>2, <1>3, <1>6, <2>1, Zenon DEF TypeOK, Placed
  <1>8. ASSUME NEW i \in DOMAIN pool' PROVE pool'[i].buf \in Chunks
    <2>1. pool'[i] \in Items
      <3>1. pool' \in Seq(Items) BY <1>1, Zenon DEF Placed
      <3>. QED BY ONLY <3>1, <1>8
    <2>. QED
      BY <2>1 DEF Items
  <1>9. \A d \in Buffers : buf'[d] # NULL => size'[buf'[d]] = buf_sz'[d] /\ buf_sz'[d] > 0
    <2> SUFFICES ASSUME NEW d \in Buffers, buf'[d] # NULL
                 PROVE  size'[buf'[d]] = buf_sz'[d] /\ buf_sz'[d] > 0
      OBVIOUS
    <2>1. CASE d = b
      BY <1>1, <1>3, <1>4, <2>1 DEF Placed
    <2>2. CASE d # b
      <3>1. buf[d] \in Chunks /\ InBuffer(buf[d]) /\ buf[d] # NULL
        BY <1>2, <1>3, <2>2, SMTT(20) DEF InBuffer
      <3>2. size[buf[d]] > 0 /\ size[buf[d]] = buf_sz[d]
        BY <3>1 DEF IInv, OneOwnerPerChunk, SizesAreTrue
      <3>. QED
        BY <1>1, <1>3, <2>2, <3>1, <3>2, Zenon DEF Placed
    <2>. QED
      BY <2>1, <2>2
  <1>10. SizesAreTrue'
    BY <1>1, <1>9, Zenon DEF SizesAreTrue, Placed
  <1>11. OneOwnerPerChunk'
    <2>1. ASSUME NEW m \in Chunks PROVE size'[m] > 0 <=> InBuffer(m)' \/ InPool(m)'
      <3>1. ASSUME size'[m] > 0 PROVE InBuffer(m)' \/ InPool(m)'
        BY <1>1, <1>3, <3>1, Zenon DEF Placed, InBuffer, InPool
      <3>2. ASSUME InBuffer(m)' PROVE size'[m] > 0
        BY <1>9, <3>2 DEF InBuffer
      <3>3. ASSUME InPool(m)' PROVE size'[m] > 0
        BY <1>1, <3>3 DEF InPool, Placed
      <3>. QED
        BY <3>1, <3>2, <3>3
    <2>2. ASSUME NEW m \in Chunks, InBuffer(m)', InPool(m)' PROVE FALSE
      <3>1. PICK d \in Buffers : buf'[d] = m
        BY <2>2 DEF InBuffer
      <3>2. PICK i \in DOMAIN pool' : pool'[i].buf = m
        BY <2>2 DEF InPool
      <3>3. /\ pool'[i].buf # to
            /\ \A f \in Buffers \ {b} : pool'[i].buf # buf[f]
        BY <1>1, Zenon DEF Placed
      <3>. QED
        BY <1>3, <3>1, <3>2, <3>3
    <2>3. ASSUME NEW d \in Buffers, NEW e \in Buffers, buf'[d] = buf'[e], buf'[d] # NULL
          PROVE  d = e
      BY <1>1, <1>3, <2>3 DEF Placed, IInv, OneOwnerPerChunk
    <2>4. \A i, j \in DOMAIN pool' : pool'[i].buf = pool'[j].buf => i = j
      BY <1>1, Zenon DEF Placed
    <2>. QED
      BY <2>1, <2>2, <2>3, <2>4 DEF OneOwnerPerChunk
  <1>12. HoldsItsQueue'
    <2> SUFFICES ASSUME NEW d \in Buffers
                 PROVE  /\ Len(queue[d]) = buf_get_used(d)
                        /\ \A i \in 1 .. Len(queue[d]) : memory'[buf'[d]][start_off[d] + i - 1] = queue[d][i]
      BY DEF HoldsItsQueue, buf_get_used
    <2>1. /\ Len(queue[d]) = stop_off[d] - start_off[d]
          /\ \A i \in 1 .. Len(queue[d]) : memory[buf[d]][start_off[d] + i - 1] = queue[d][i]
      BY DEF IInv, HoldsItsQueue, buf_get_used
    <2>2. ASSUME NEW i \in 1 .. Len(queue[d]) PROVE memory'[buf'[d]][start_off[d] + i - 1] = queue[d][i]
      <3>1. start_off[d] + i - 1 \in 0 .. buf_sz[d] - 1
        BY <1>2, <2>1, SMTT(20)
      <3>2. buf[d] # NULL
        BY <1>2, <3>1 DEF IInv, NoChunkNoData
      <3>3. CASE d = b
        <4>1. start_off[b] + i - 1 \in 0 .. c.buf_sz - 1 /\ c.buf = buf[b]
          BY <1>5, <3>1, <3>2, <3>3
        <4>2. \A a \in 0 .. c.buf_sz - 1 : memory'[to][a] = memory[c.buf][a]
          BY <1>1, Zenon DEF Placed
        <4>3. memory'[to][start_off[b] + i - 1] = memory[buf[b]][start_off[b] + i - 1]
          BY <4>1, <4>2
        <4>. QED
          BY <1>3, <2>1, <3>3, <4>3
      <3>4. CASE d # b
        BY <1>1, <1>3, <2>1, <3>2, <3>4 DEF Placed
      <3>. QED
        BY <3>3, <3>4
    <2>. QED
      BY <2>1, <2>2 DEF buf_get_used
  <1>13. NoChunkNoData'
    BY <1>3, SMTT(20) DEF IInv, NoChunkNoData
  <1>14. buf[b] # NULL /\ buf_sz[b] > stop_off[b] + min => buf'[b] = buf[b] /\ buf_sz'[b] = buf_sz[b]
    <2>1. n = c.buf_sz => to = c.buf BY <1>1, Zenon DEF Placed
    <2>2. buf[b] # NULL => c.buf = buf[b] /\ c.buf_sz = buf_sz[b] BY <1>5
    <2>3. buf'[b] = to /\ buf_sz'[b] = n /\ (c.buf_sz > stop_off[b] + min => n = c.buf_sz) BY <1>1, <1>3
    <2>. QED
      BY ONLY <2>1, <2>2, <2>3
  <1>. QED
    BY <1>1, <1>3, <1>7, <1>10, <1>11, <1>12, <1>13, <1>14

\* The window a caller gets to write to.
LEMMA GetWriterKeeps ==
    ASSUME IInv, NEW b \in Buffers, NEW min \in Mins, buf_get_writer(b, min)
    PROVE  IInv'
  <1> USE BufferAssumption
  <1> DEFINE p == [use |-> "write", buf |-> buf'[b], at |-> stop_off[b],
                   n |-> buf_sz'[b] - stop_off[b], room |-> buf_sz'[b] - stop_off[b]]
  <1>1. /\ _buf_alloc(b, min) /\ UNCHANGED <<start_off, stop_off, queue>>
        /\ held' = [held EXCEPT ![b] = p]
    BY DEF buf_get_writer
  <1>2. min \in Nat
    BY SMTT(20)
  <1>3. /\ OneOwnerPerChunk' /\ SizesAreTrue' /\ HoldsItsQueue' /\ NoChunkNoData'
        /\ held' \in [Buffers -> Pointers] => TypeOK'
        /\ buf'[b] \in Chunks
        /\ buf_sz'[b] > stop_off[b] + min
        /\ \A d \in Buffers \ {b} : buf'[d] = buf[d] /\ buf_sz'[d] = buf_sz[d]
    BY <1>1, <1>2, AllocKeeps
  <1>4. stop_off[b] \in Nat /\ held \in [Buffers -> Pointers]
    BY SMTT(20) DEF IInv, TypeOK
  <1>5. buf_sz'[b] = size'[buf'[b]] /\ buf_sz'[b] \in Nat
    <2>1. buf_sz'[b] \in 0 .. MaxSize
      <3>1. buf_sz \in [Buffers -> 0 .. MaxSize]
        BY DEF IInv, TypeOK
      <3>2. PICK c \in Chunk(b) : \E n \in Grown(c.buf_sz, stop_off[b], min) : buf_sz' = [buf_sz EXCEPT ![b] = n]
        BY <1>1, Zenon DEF _buf_alloc
      <3>3. c.buf_sz \in Nat
        BY ChunkExclusive, SMTT(40) DEF Exclusive, Record
      <3>. QED
        BY <3>1, <3>2, <3>3 DEF Grown
    <2>. QED
      <3>1. buf_sz'[b] = size'[buf'[b]] BY <1>3, BufferAssumption, Zenon DEF SizesAreTrue
      <3>. QED BY <2>1, <3>1, BufferAssumption
  <1>6. p \in Pointers
    BY <1>3, <1>4, <1>5 DEF Pointers
  <1>7. held' \in [Buffers -> Pointers]
    BY <1>1, <1>4, <1>6
  <1>8. PointersStay'
    <2> SUFFICES ASSUME NEW d \in Buffers
                 PROVE  /\ held'[d].use = "write" =>
                             /\ held'[d].buf = buf'[d] /\ held'[d].at = stop_off'[d]
                             /\ held'[d].at + held'[d].n = size'[buf'[d]]
                        /\ held'[d].use = "read" /\ held'[d].room > METADATA =>
                             /\ held'[d].buf = buf'[d] /\ held'[d].at = start_off'[d]
                             /\ held'[d].n = stop_off'[d] - start_off'[d]
      BY SMTT(20) DEF PointersStay, buf_get_used
    <2>1. CASE d = b
      <3>1. held'[b] = p /\ stop_off' = stop_off
        BY <1>1, <1>4
      <3>2. p.use = "write" /\ p.buf = buf'[b] /\ p.at = stop_off[b] /\ p.n = buf_sz'[b] - stop_off[b]
        OBVIOUS
      <3>3. stop_off[b] + (buf_sz'[b] - stop_off[b]) = size'[buf'[b]]
        BY <1>4, <1>5, SMTT(20)
      <3> HIDE DEF p
      <3>. QED
        BY <2>1, <3>1, <3>2, <3>3
    <2>2. CASE d # b
      <3>1. held'[d] = held[d] /\ buf'[d] = buf[d] /\ stop_off' = stop_off /\ start_off' = start_off
        BY <1>1, <1>3, <1>4, <2>2
      <3>2. size'[buf'[d]] = size[buf[d]] \/ buf[d] = NULL
        BY <1>3, <2>2 DEF IInv, SizesAreTrue
      <3>3. held[d].use = "write" => buf[d] # NULL
        BY SMTT(20) DEF IInv, WritersHaveChunks
      <3>. QED
        BY <3>1, <3>2, <3>3 DEF IInv, PointersStay, buf_get_used
    <2>. QED
      BY <2>1, <2>2
  <1>9. WritersHaveChunks'
    BY <1>1, <1>3, <1>4 DEF IInv, WritersHaveChunks
  <1>10. RoomIsTrue'
    BY <1>1, <1>3, <1>4, SMTT(20) DEF IInv, RoomIsTrue
  <1>. QED
    BY <1>3, <1>7, <1>8, <1>9, <1>10 DEF IInv

\* process_multi makes room behind the requests it reads.
LEMMA ReserveKeeps ==
    ASSUME IInv, NEW b \in Buffers, process_multi_Reserve(b)
    PROVE  IInv'
  <1> USE BufferAssumption
  <1>1. _buf_alloc(b, METADATA) /\ UNCHANGED <<start_off, stop_off, held, queue>> /\ held[b].use = "read"
    BY SMTT(20) DEF process_multi_Reserve
  <1>2. /\ OneOwnerPerChunk' /\ SizesAreTrue' /\ HoldsItsQueue' /\ NoChunkNoData'
        /\ held' \in [Buffers -> Pointers] => TypeOK'
        /\ buf'[b] \in Chunks
        /\ \A d \in Buffers \ {b} : buf'[d] = buf[d] /\ buf_sz'[d] = buf_sz[d]
        /\ buf[b] # NULL /\ buf_sz[b] > stop_off[b] + METADATA => buf'[b] = buf[b] /\ buf_sz'[b] = buf_sz[b]
    BY <1>1, AllocKeeps
  <1>3. held' \in [Buffers -> Pointers]
    BY <1>1 DEF IInv, TypeOK
  <1>4. stop_off[b] \in Nat /\ buf_sz[b] \in Nat
    BY DEF IInv, TypeOK
  <1>5. WritersHaveChunks'
    BY <1>1, <1>2, SMTT(20) DEF IInv, WritersHaveChunks
  <1>6. PointersStay'
    <2> SUFFICES ASSUME NEW d \in Buffers
                 PROVE  /\ held[d].use = "write" =>
                             /\ held[d].buf = buf'[d] /\ held[d].at = stop_off[d]
                             /\ held[d].at + held[d].n = size'[buf'[d]]
                        /\ held[d].use = "read" /\ held[d].room > METADATA =>
                             /\ held[d].buf = buf'[d] /\ held[d].at = start_off[d]
                             /\ held[d].n = stop_off[d] - start_off[d]
      BY <1>1 DEF PointersStay, buf_get_used
    <2>1. CASE d = b
      <3>1. held[b].room > METADATA => buf[b] # NULL /\ held[b].room = buf_sz[b] - stop_off[b]
        BY <1>1 DEF IInv, RoomIsTrue
      <3>2. held[b].room > METADATA => buf'[b] = buf[b]
        BY <1>2, <1>4, <3>1
      <3>. QED
        BY <1>1, <2>1, <3>2 DEF IInv, PointersStay, buf_get_used
    <2>2. CASE d # b
      <3>1. buf'[d] = buf[d]
        BY <1>2, <2>2
      <3>2. size'[buf'[d]] = size[buf[d]] \/ buf[d] = NULL
        BY <1>2, <2>2 DEF IInv, SizesAreTrue
      <3>3. held[d].use = "write" => buf[d] # NULL
        BY DEF IInv, WritersHaveChunks
      <3>. QED
        BY <3>1, <3>2, <3>3 DEF IInv, PointersStay, buf_get_used
    <2>. QED
      BY <2>1, <2>2, Zenon
  <1>7. RoomIsTrue'
    <2>1. ASSUME NEW d \in Buffers, held[d].use = "read"
          PROVE  /\ buf'[d] # NULL
                 /\ held[d].room > METADATA => held[d].room = buf_sz'[d] - stop_off[d]
      <3>1. buf[d] # NULL /\ (held[d].room > METADATA => held[d].room = buf_sz[d] - stop_off[d])
        BY <2>1 DEF IInv, RoomIsTrue
      <3>. QED
        BY <1>2, <1>4, <3>1
    <2>. QED
      BY <1>1, <2>1 DEF RoomIsTrue
  <1>. QED
    BY <1>2, <1>3, <1>5, <1>6, <1>7 DEF IInv
=============================================================================
