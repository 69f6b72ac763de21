--------------------------- MODULE BuffersProofs ---------------------------
(* The other operations keep the invariant of Buffers, and the theorems: the *)
(* buffers of buffer.c are queues, for any number of buffers, chunks, bytes  *)
(* and sizes.                                                                *)
EXTENDS BuffersInvariant

\* What the caller writes through its pointer lands behind the bytes of its own
\* buffer and nowhere else.
LEMMA ProduceKeeps ==
    ASSUME IInv, NEW b \in Buffers, NEW s \in Seq(Bytes), buf_produce(b, s)
    PROVE  IInv'
  <1> USE BufferAssumption
  <1> DEFINE at == held[b].at
  <1>1. /\ held[b].use = "write" /\ Len(s) <= held[b].n
        /\ stop_off' = [stop_off EXCEPT ![b] = @ + Len(s)]
        /\ queue' = [queue EXCEPT ![b] = @ \o s]
        /\ held' = [held EXCEPT ![b] = NoPointer]
        /\ buf' = buf /\ buf_sz' = buf_sz /\ start_off' = start_off /\ size' = size /\ pool' = pool
    BY DEF buf_produce
  <1>2. /\ buf \in [Buffers -> Chunks \cup {NULL}] /\ buf_sz \in [Buffers -> 0 .. MaxSize]
        /\ start_off \in [Buffers -> Nat] /\ stop_off \in [Buffers -> Nat]
        /\ \A d \in Buffers : start_off[d] <= stop_off[d] /\ stop_off[d] <= buf_sz[d]
        /\ queue \in [Buffers -> Seq(Bytes)]
        /\ memory \in [Chunks -> [Addresses -> Bytes \cup {Junk}]]
        /\ held \in [Buffers -> Pointers]
    BY DEF IInv, TypeOK
  <1>3. /\ held[b].buf = buf[b] /\ at = stop_off[b] /\ at + held[b].n = size[buf[b]]
        /\ buf[b] # NULL /\ size[buf[b]] = buf_sz[b]
    BY <1>1 DEF IInv, PointersStay, WritersHaveChunks, SizesAreTrue
  <1>4. held[b].n \in Nat /\ buf[b] \in Chunks /\ Len(s) \in Nat
    BY <1>2, <1>3 DEF Pointers
  <1>5. stop_off[b] + Len(s) <= buf_sz[b] /\ buf_sz[b] <= MaxSize
    BY <1>1, <1>2, <1>3, <1>4
  <1>6. memory' = [memory EXCEPT ![buf[b]] =
                    [a \in Addresses |-> IF a \in at .. at + Len(s) - 1
                                        THEN s[a - at + 1] ELSE memory[buf[b]][a]]]
    BY <1>3 DEF buf_produce
  <1>7. memory' \in [Chunks -> [Addresses -> Bytes \cup {Junk}]]
    <2>1. [a \in Addresses |-> IF a \in at .. at + Len(s) - 1 THEN s[a - at + 1] ELSE memory[buf[b]][a]]
            \in [Addresses -> Bytes \cup {Junk}]
      <3>1. ASSUME NEW a \in Addresses, a \in at .. at + Len(s) - 1 PROVE s[a - at + 1] \in Bytes
        <4>1. a - at + 1 \in 1 .. Len(s)
          BY <1>2, <1>3, <1>4, <3>1 DEF Addresses
        <4>. QED
          BY <4>1
      <3>2. \A a \in Addresses : memory[buf[b]][a] \in Bytes \cup {Junk}
        BY <1>2, <1>4
      <3>. QED
        BY <3>1, <3>2
    <2>. QED
      BY <1>2, <1>4, <1>6, <2>1
  <1>8. NoPointer \in Pointers
    BY DEF NoPointer, Pointers
  <1>9. TypeOK'
    <2>1. stop_off' \in [Buffers -> Nat] /\ queue' \in [Buffers -> Seq(Bytes)]
      BY <1>1, <1>2, <1>4
    <2>2. \A d \in Buffers : start_off'[d] <= stop_off'[d] /\ stop_off'[d] <= buf_sz'[d]
      BY <1>1, <1>2, <1>4, <1>5
    <2>3. held' \in [Buffers -> Pointers]
      BY <1>1, <1>2, <1>8
    <2>. QED
      BY <1>1, <1>2, <1>7, <2>1, <2>2, <2>3 DEF IInv, TypeOK
  <1>10. OneOwnerPerChunk' /\ SizesAreTrue' /\ NoChunkNoData'
    BY <1>1 DEF IInv, OneOwnerPerChunk, SizesAreTrue, NoChunkNoData, InBuffer, InPool
  <1>11. HoldsItsQueue'
    <2> SUFFICES ASSUME NEW d \in Buffers
                 PROVE  /\ Len(queue'[d]) = stop_off'[d] - start_off[d]
                        /\ \A i \in 1 .. Len(queue'[d]) :
                             memory'[buf[d]][start_off[d] + i - 1] = queue'[d][i]
      BY <1>1 DEF HoldsItsQueue, buf_get_used
    <2>1. /\ Len(queue[d]) = stop_off[d] - start_off[d] /\ queue[d] \in Seq(Bytes)
          /\ \A i \in 1 .. Len(queue[d]) : memory[buf[d]][start_off[d] + i - 1] = queue[d][i]
      BY <1>2 DEF IInv, HoldsItsQueue, buf_get_used
    <2>2. CASE d # b
      <3>1. queue'[d] = queue[d] /\ stop_off'[d] = stop_off[d]
        BY <1>1, <1>2, <2>2
      <3>2. ASSUME NEW i \in 1 .. Len(queue[d])
            PROVE  memory'[buf[d]][start_off[d] + i - 1] = queue[d][i]
        <4>1. buf_sz[d] # 0
          BY <1>2, <2>1
        <4>2. buf[d] # NULL /\ buf[d] \in Chunks
          BY <1>2, <4>1 DEF IInv, NoChunkNoData
        <4>3. buf[d] # buf[b]
          BY <2>2, <4>2 DEF IInv, OneOwnerPerChunk
        <4>. QED
          BY <1>2, <1>6, <2>1, <4>2, <4>3
      <3>. QED
        BY <2>1, <3>1, <3>2
    <2>3. CASE d = b
      <3>1. queue'[b] = queue[b] \o s /\ stop_off'[b] = stop_off[b] + Len(s)
        BY <1>1, <1>2
      <3>2. Len(queue'[b]) = Len(queue[b]) + Len(s)
        BY <2>1, <2>3, <3>1
      <3>n. /\ start_off[b] \in Nat /\ stop_off[b] \in Nat /\ Len(s) \in Nat /\ start_off[b] <= stop_off[b]
            /\ Len(queue[b]) = stop_off[b] - start_off[b]
        BY <1>2, <1>4, <2>1, <2>3
      <3>3. ASSUME NEW i \in 1 .. Len(queue'[b])
            PROVE  memory'[buf[b]][start_off[b] + i - 1] = queue'[b][i]
        <4> DEFINE x == start_off[b] + i - 1
        <4>1. x \in Addresses
          BY <1>2, <1>4, <1>5, <2>1, <2>3, <3>2 DEF Addresses
        <4>2. memory'[buf[b]][x] = IF x \in at .. at + Len(s) - 1 THEN s[x - at + 1] ELSE memory[buf[b]][x]
          BY <1>2, <1>4, <1>6, <4>1
        <4>3. CASE i <= Len(queue[b])
          <5>1. x \notin at .. at + Len(s) - 1
            BY <1>2, <1>3, <2>1, <2>3, <4>3
          <5>2. queue'[b][i] = queue[b][i]
            BY <2>1, <2>3, <3>1, <3>2, <4>3
          <5>. QED
            BY <2>1, <2>3, <4>2, <4>3, <5>1, <5>2
        <4>4. CASE i > Len(queue[b])
          <5>1. x \in at .. at + Len(s) - 1 /\ x - at + 1 = i - Len(queue[b])
            <6>1. PICK st \in Nat, n \in Nat, q \in Nat : st = start_off[b] /\ n = Len(s) /\ q = Len(queue[b])
              BY <3>n
            <6>2. at = st + q
              BY <1>3, <3>n, <6>1
            <6>3. PICK j \in 1 .. q + n : j = i /\ j > q
              BY <3>2, <4>4, <6>1
            <6>4. st + j - 1 \in st + q .. st + q + n - 1 /\ st + j - 1 - (st + q) + 1 = j - q
              BY <6>3
            <6>. QED
              BY <6>1, <6>2, <6>3, <6>4, SMTT(20)
          <5>2. queue'[b][i] = s[i - Len(queue[b])]
            BY <2>1, <2>3, <3>1, <3>2, <4>4
          <5>. QED
            BY <4>2, <5>1, <5>2
        <4>. QED
          BY <2>1, <2>3, <3>2, <4>3, <4>4
      <3>4. Len(queue'[b]) = stop_off'[b] - start_off[b]
        BY <3>1, <3>2, <3>n
      <3>. QED
        BY <2>3, <3>3, <3>4
    <2>. QED
      BY <2>2, <2>3
  <1>12. PointersStay' /\ WritersHaveChunks' /\ RoomIsTrue'
    <2>1. ASSUME NEW d \in Buffers
          PROVE  IF d = b THEN held'[d].use = "none" ELSE held'[d] = held[d] /\ stop_off'[d] = stop_off[d]
      BY <1>1, <1>2 DEF NoPointer
    <2>. QED
      BY <1>1, <2>1 DEF IInv, PointersStay, WritersHaveChunks, RoomIsTrue, buf_get_used
  <1>. QED
    BY <1>9, <1>10, <1>11, <1>12 DEF IInv

\* Taking a pointer to read, and letting go of it, changes no buffer.
LEMMA ReaderKeeps ==
    ASSUME IInv, NEW b \in Buffers, buf_get_reader(b) \/ LetGo(b)
    PROVE  IInv'
  <1> USE BufferAssumption
  <1> DEFINE p == [use |-> "read", buf |-> buf[b], at |-> start_off[b],
                   n |-> buf_get_used(b), room |-> buf_sz[b] - stop_off[b]]
  <1>1. /\ buf' = buf /\ buf_sz' = buf_sz /\ start_off' = start_off /\ stop_off' = stop_off
        /\ memory' = memory /\ size' = size /\ pool' = pool /\ queue' = queue
    BY DEF buf_get_reader, LetGo, fields
  <1>2. \/ held' = [held EXCEPT ![b] = NoPointer]
        \/ held' = [held EXCEPT ![b] = p] /\ buf_get_used(b) > 0
    BY DEF buf_get_reader, LetGo
  <1>3. /\ held \in [Buffers -> Pointers] /\ buf[b] \in Chunks \cup {NULL}
        /\ start_off[b] \in Nat /\ stop_off[b] \in Nat /\ buf_sz[b] \in Nat
        /\ start_off[b] <= stop_off[b] /\ stop_off[b] <= buf_sz[b]
    BY DEF IInv, TypeOK
  <1>4. p \in Pointers
    BY <1>3 DEF Pointers, buf_get_used
  <1>5. NoPointer \in Pointers /\ NoPointer.use = "none"
    BY DEF NoPointer, Pointers
  <1>6. held' \in [Buffers -> Pointers]
    BY <1>2, <1>3, <1>4, <1>5
  <1>7. TypeOK'
    BY <1>1, <1>6 DEF IInv, TypeOK
  <1>8. OneOwnerPerChunk' /\ SizesAreTrue' /\ NoChunkNoData' /\ HoldsItsQueue'
    BY <1>1 DEF IInv, OneOwnerPerChunk, SizesAreTrue, NoChunkNoData, InBuffer, InPool,
                HoldsItsQueue, buf_get_used
  <1>9. PointersStay' /\ WritersHaveChunks' /\ RoomIsTrue'
    <2>1. \A d \in Buffers \ {b} : held'[d] = held[d]
      BY <1>2, <1>3
    <2>2. CASE held'[b] = NoPointer
      BY <1>1, <1>5, <2>1, <2>2 DEF IInv, PointersStay, WritersHaveChunks, RoomIsTrue, buf_get_used
    <2>3. CASE held'[b] = p /\ buf_get_used(b) > 0
      <3>1. buf[b] # NULL
        BY <1>3, <2>3 DEF IInv, NoChunkNoData, buf_get_used
      <3>. QED
        BY <1>1, <2>1, <2>3, <3>1 DEF IInv, PointersStay, WritersHaveChunks, RoomIsTrue, buf_get_used
    <2>. QED
      BY <1>2, <1>3, <2>2, <2>3
  <1>. QED
    BY <1>7, <1>8, <1>9 DEF IInv

\* A buffer that gives its chunk to the pool disturbs no other buffer.
LEMMA FreeKeeps ==
    ASSUME IInv, NEW b \in Buffers, buf[b] # NULL, _buf_free(b), size' = size
    PROVE  /\ OneOwnerPerChunk' /\ SizesAreTrue' /\ NoChunkNoData'
           /\ pool' \in Seq(Items)
           /\ buf' \in [Buffers -> Chunks \cup {NULL}] /\ buf_sz' \in [Buffers -> 0 .. MaxSize]
           /\ memory' \in [Chunks -> [Addresses -> Bytes \cup {Junk}]]
           /\ buf'[b] = NULL /\ buf_sz'[b] = 0
           /\ \A d \in Buffers \ {b} :
                /\ buf'[d] = buf[d] /\ buf_sz'[d] = buf_sz[d]
                /\ buf[d] # NULL => memory'[buf[d]] = memory[buf[d]]
  <1> USE BufferAssumption
  <1> DEFINE it == [buf |-> buf[b], buf_sz |-> buf_sz[b]]
  <1>1. /\ pool' = <<it>> \o pool
        /\ memory' = [memory EXCEPT ![buf[b]] = Unwritten]
        /\ buf_sz' = [buf_sz EXCEPT ![b] = 0]
        /\ buf' = [buf EXCEPT ![b] = NULL]
    BY DEF _buf_free, pool_put
  <1>2. /\ buf \in [Buffers -> Chunks \cup {NULL}] /\ buf_sz \in [Buffers -> 0 .. MaxSize]
        /\ memory \in [Chunks -> [Addresses -> Bytes \cup {Junk}]]
        /\ pool \in Seq(Items)
    BY DEF IInv, TypeOK
  <1>3. buf[b] \in Chunks /\ size[buf[b]] = buf_sz[b] /\ it \in Items
    BY <1>2 DEF IInv, SizesAreTrue, Items
  <1>4. Unwritten \in [Addresses -> Bytes \cup {Junk}]
    BY DEF Unwritten
  <1>5. /\ buf' \in [Buffers -> Chunks \cup {NULL}] /\ buf_sz' \in [Buffers -> 0 .. MaxSize]
        /\ memory' \in [Chunks -> [Addresses -> Bytes \cup {Junk}]]
        /\ buf'[b] = NULL /\ buf_sz'[b] = 0
    BY <1>1, <1>2, <1>3, <1>4
  <1>6. ASSUME NEW d \in Buffers \ {b}
        PROVE  /\ buf'[d] = buf[d] /\ buf_sz'[d] = buf_sz[d] /\ (buf[d] # NULL => buf[d] # buf[b])
               /\ buf[d] # NULL => memory'[buf[d]] = memory[buf[d]]
    <2>1. buf[d] # NULL => buf[d] # buf[b] /\ buf[d] \in Chunks
      BY <1>2 DEF IInv, OneOwnerPerChunk
    <2>. QED
      BY <1>1, <1>2, <1>3, <2>1
  <1> HIDE DEF it
  <1>7. /\ pool' \in Seq(Items)
        /\ 1 \in DOMAIN pool' /\ pool'[1] = it
        /\ \A i \in DOMAIN pool' : i = 1 \/ (i - 1 \in DOMAIN pool /\ pool'[i] = pool[i - 1])
        /\ \A i \in DOMAIN pool : i + 1 \in DOMAIN pool' /\ pool'[i + 1] = pool[i]
        /\ DOMAIN pool' \subseteq Nat
    BY <1>1, <1>2, <1>3
  <1>8. it.buf = buf[b] /\ it.buf_sz = buf_sz[b]
    BY DEF it
  <1>9. ASSUME NEW i \in DOMAIN pool PROVE pool[i].buf \in Chunks /\ pool[i].buf # buf[b]
    <2>1. pool[i] \in Items
      BY <1>2
    <2>2. pool[i].buf \in Chunks /\ InPool(pool[i].buf)
      BY <2>1 DEF Items, InPool
    <2>. QED
      BY <1>3, <2>2 DEF IInv, OneOwnerPerChunk, InBuffer
  <1>10. SizesAreTrue'
    <2>1. \A i \in DOMAIN pool' : pool'[i].buf_sz = size[pool'[i].buf]
      BY <1>3, <1>7, <1>8 DEF IInv, SizesAreTrue
    <2>2. \A d \in Buffers : buf'[d] # NULL => buf_sz'[d] = size[buf'[d]]
      BY <1>5, <1>6 DEF IInv, SizesAreTrue
    <2>. QED
      BY <2>1, <2>2 DEF SizesAreTrue
  <1>11. \A m \in Chunks : InBuffer(m)' <=> InBuffer(m) /\ m # buf[b]
    BY <1>3, <1>5, <1>6 DEF InBuffer
  <1>12. \A m \in Chunks : InPool(m)' <=> InPool(m) \/ m = buf[b]
    BY <1>7, <1>8 DEF InPool
  <1>13. ASSUME NEW i \in DOMAIN pool', NEW j \in DOMAIN pool', pool'[i].buf = pool'[j].buf
         PROVE  i = j
    <2>1. CASE i = 1
      BY <1>7, <1>8, <1>9, <1>13, <2>1
    <2>2. CASE j = 1
      BY <1>7, <1>8, <1>9, <1>13, <2>2
    <2>3. CASE i # 1 /\ j # 1
      <3>1. i - 1 \in DOMAIN pool /\ j - 1 \in DOMAIN pool /\ pool[i - 1].buf = pool[j - 1].buf
        BY <1>7, <1>13, <2>3
      <3>2. \A k, l \in DOMAIN pool : pool[k].buf = pool[l].buf => k = l
        BY DEF IInv, OneOwnerPerChunk
      <3>3. i - 1 = j - 1
        BY <3>1, <3>2
      <3>. QED
        BY <1>7, <3>3
    <2>. QED
      BY <2>1, <2>2, <2>3
  <1>14. OneOwnerPerChunk'
    <2>1. InBuffer(buf[b])
      BY DEF InBuffer
    <2>2. \A d, e \in Buffers : buf'[d] = buf'[e] /\ buf'[d] # NULL => d = e
      BY <1>5, <1>6 DEF IInv, OneOwnerPerChunk
    <2>3. \A m \in Chunks : /\ size[m] > 0 <=> InBuffer(m)' \/ InPool(m)'
                            /\ ~(InBuffer(m)' /\ InPool(m)')
      BY <1>3, <1>11, <1>12, <2>1 DEF IInv, OneOwnerPerChunk
    <2>. QED
      BY <1>13, <2>2, <2>3 DEF OneOwnerPerChunk
  <1>15. NoChunkNoData'
    BY <1>5, <1>6 DEF IInv, NoChunkNoData
  <1>. QED
    BY <1>5, <1>6, <1>7, <1>10, <1>14, <1>15

\* A buffer that is emptied, and whose pointer is gone, gives up its chunk.
LEMMA EmptiedKeeps ==
    ASSUME IInv, NEW b \in Buffers, buf[b] # NULL, _buf_free(b), size' = size,
           start_off' = [start_off EXCEPT ![b] = 0], stop_off' = [stop_off EXCEPT ![b] = 0],
           queue' = [queue EXCEPT ![b] = <<>>], held' = [held EXCEPT ![b] = NoPointer]
    PROVE  IInv'
  <1> USE BufferAssumption
  <1>1. /\ OneOwnerPerChunk' /\ SizesAreTrue' /\ NoChunkNoData'
        /\ pool' \in Seq(Items)
        /\ buf' \in [Buffers -> Chunks \cup {NULL}] /\ buf_sz' \in [Buffers -> 0 .. MaxSize]
        /\ memory' \in [Chunks -> [Addresses -> Bytes \cup {Junk}]]
        /\ buf'[b] = NULL /\ buf_sz'[b] = 0
        /\ \A d \in Buffers \ {b} :
             /\ buf'[d] = buf[d] /\ buf_sz'[d] = buf_sz[d]
             /\ buf[d] # NULL => memory'[buf[d]] = memory[buf[d]]
    BY FreeKeeps
  <1>2. /\ start_off \in [Buffers -> Nat] /\ stop_off \in [Buffers -> Nat]
        /\ \A d \in Buffers : start_off[d] <= stop_off[d] /\ stop_off[d] <= buf_sz[d]
        /\ queue \in [Buffers -> Seq(Bytes)] /\ held \in [Buffers -> Pointers]
        /\ size \in [Chunks -> 0 .. MaxSize] /\ buf_sz \in [Buffers -> 0 .. MaxSize]
    BY DEF IInv, TypeOK
  <1>3. NoPointer \in Pointers /\ NoPointer.use = "none"
    BY DEF NoPointer, Pointers
  <1>4. /\ start_off'[b] = 0 /\ stop_off'[b] = 0 /\ queue'[b] = <<>> /\ held'[b].use = "none"
        /\ \A d \in Buffers \ {b} : /\ start_off'[d] = start_off[d] /\ stop_off'[d] = stop_off[d]
                                     /\ queue'[d] = queue[d] /\ held'[d] = held[d]
    BY <1>2, <1>3
  <1>5. TypeOK'
    <2>1. start_off' \in [Buffers -> Nat] /\ stop_off' \in [Buffers -> Nat]
      BY <1>2
    <2>2. queue' \in [Buffers -> Seq(Bytes)]
      BY <1>2
    <2>3. held' \in [Buffers -> Pointers]
      BY <1>2, <1>3
    <2>4. \A d \in Buffers : start_off'[d] <= stop_off'[d] /\ stop_off'[d] <= buf_sz'[d]
      BY <1>1, <1>2, <1>4
    <2>. QED
      BY <1>1, <1>2, <2>1, <2>2, <2>3, <2>4 DEF TypeOK
  <1>6. HoldsItsQueue'
    <2> SUFFICES ASSUME NEW d \in Buffers
                 PROVE  /\ Len(queue'[d]) = stop_off'[d] - start_off'[d]
                        /\ \A i \in 1 .. Len(queue'[d]) :
                             memory'[buf'[d]][start_off'[d] + i - 1] = queue'[d][i]
      BY DEF HoldsItsQueue, buf_get_used
    <2>1. CASE d = b
      <3>1. Len(queue'[b]) = 0
        BY <1>4
      <3>. QED
        BY <1>4, <2>1, <3>1
    <2>2. CASE d # b
      <3>1. /\ Len(queue[d]) = stop_off[d] - start_off[d]
            /\ \A i \in 1 .. Len(queue[d]) : memory[buf[d]][start_off[d] + i - 1] = queue[d][i]
        BY DEF IInv, HoldsItsQueue, buf_get_used
      <3>2. CASE buf[d] # NULL
        BY <1>1, <1>4, <2>2, <3>1, <3>2
      <3>3. CASE buf[d] = NULL
        <4>1. buf_sz[d] = 0
          BY <3>3 DEF IInv, NoChunkNoData
        <4>2. start_off[d] = 0 /\ stop_off[d] = 0
          BY <1>2, <4>1
        <4>. QED
          BY <1>4, <2>2, <3>1, <4>2
      <3>. QED
        BY <3>2, <3>3
    <2>. QED
      BY <2>1, <2>2
  <1>7. PointersStay' /\ WritersHaveChunks' /\ RoomIsTrue'
    <2> SUFFICES ASSUME NEW d \in Buffers
                 PROVE  /\ held'[d].use = "write" =>
                             /\ buf'[d] # NULL
                             /\ held'[d].buf = buf'[d] /\ held'[d].at = stop_off'[d]
                             /\ held'[d].at + held'[d].n = size'[buf'[d]]
                        /\ held'[d].use = "read" =>
                             /\ buf'[d] # NULL
                             /\ held'[d].room > METADATA =>
                                 /\ held'[d].buf = buf'[d] /\ held'[d].at = start_off'[d]
                                 /\ held'[d].n = stop_off'[d] - start_off'[d]
                                 /\ held'[d].room = buf_sz'[d] - stop_off'[d]
      BY DEF PointersStay, WritersHaveChunks, RoomIsTrue, buf_get_used
    <2>1. CASE d = b
      BY <1>4, <2>1
    <2>2. CASE d # b
      <3>1. /\ held'[d] = held[d] /\ buf'[d] = buf[d] /\ buf_sz'[d] = buf_sz[d]
            /\ start_off'[d] = start_off[d] /\ stop_off'[d] = stop_off[d]
        BY <1>1, <1>4, <2>2
      <3>. QED
        BY <3>1 DEF IInv, PointersStay, WritersHaveChunks, RoomIsTrue, buf_get_used
    <2>. QED
      BY <2>1, <2>2
  <1>. QED
    BY <1>1, <1>5, <1>6, <1>7 DEF IInv

\* The offsets agree with the number of bytes that are left.
LEMMA CutLength ==
    \A k, l, q, start, stop \in Nat : q = stop - start =>
        q - l - k = (stop - l) - (start + k)
  OBVIOUS

\* What is left of a sequence without its first k and its last l elements.
LEMMA SubSeqCut ==
    \A q \in Seq(Bytes) : \A k, l \in Nat : k + l <= Len(q) =>
        /\ SubSeq(q, k + 1, Len(q) - l) \in Seq(Bytes)
        /\ Len(SubSeq(q, k + 1, Len(q) - l)) = Len(q) - l - k
        /\ \A i \in 1 .. Len(SubSeq(q, k + 1, Len(q) - l)) : SubSeq(q, k + 1, Len(q) - l)[i] = q[i + k]
  <1> SUFFICES ASSUME NEW q \in Seq(Bytes), NEW k \in Nat, NEW l \in Nat, k + l <= Len(q)
               PROVE  /\ SubSeq(q, k + 1, Len(q) - l) \in Seq(Bytes)
                      /\ Len(SubSeq(q, k + 1, Len(q) - l)) = Len(q) - l - k
                      /\ \A i \in 1 .. Len(SubSeq(q, k + 1, Len(q) - l)) :
                           SubSeq(q, k + 1, Len(q) - l)[i] = q[i + k]
    OBVIOUS
  <1>1. Len(q) \in Nat /\ Len(q) - l \in Nat
    OBVIOUS
  <1>2. \A i \in k + 1 .. Len(q) - l : q[i] \in Bytes
    BY <1>1
  <1>. QED
    BY <1>1, <1>2

\* The first k and the last l bytes of b go, and with them the pointer of the
\* caller.
Cut(b, k, l) ==
    /\ k + l <= buf_get_used(b)
    /\ start_off' = [start_off EXCEPT ![b] = @ + k]
    /\ stop_off' = [stop_off EXCEPT ![b] = @ - l]
    /\ queue' = [queue EXCEPT ![b] = SubSeq(@, k + 1, Len(@) - l)]
    /\ held' = [held EXCEPT ![b] = NoPointer]
    /\ UNCHANGED <<buf, buf_sz, memory, size, pool>>

\* A buffer that is cut at its ends keeps the rest.
LEMMA CutKeeps ==
    ASSUME IInv, NEW b \in Buffers, NEW k \in Nat, NEW l \in Nat, Cut(b, k, l)
    PROVE  IInv'
  <1> USE BufferAssumption
  <1>u. buf' = buf /\ buf_sz' = buf_sz /\ memory' = memory /\ size' = size /\ pool' = pool
    BY DEF Cut
  <1>1. /\ start_off \in [Buffers -> Nat] /\ stop_off \in [Buffers -> Nat]
        /\ \A d \in Buffers : start_off[d] <= stop_off[d] /\ stop_off[d] <= buf_sz[d]
        /\ queue \in [Buffers -> Seq(Bytes)] /\ held \in [Buffers -> Pointers]
        /\ buf_sz \in [Buffers -> 0 .. MaxSize]
    BY DEF IInv, TypeOK
  <1>2. NoPointer \in Pointers /\ NoPointer.use = "none"
    BY DEF NoPointer, Pointers
  <1>3. /\ start_off[b] \in Nat /\ stop_off[b] \in Nat /\ buf_sz[b] \in Nat
        /\ start_off[b] + k <= stop_off[b] - l /\ stop_off[b] <= buf_sz[b]
        /\ stop_off[b] - l \in Nat
    <2>1. k + l <= stop_off[b] - start_off[b]
      BY DEF Cut, buf_get_used
    <2>. QED
      BY <1>1, <2>1
  <1>4. /\ start_off'[b] = start_off[b] + k /\ stop_off'[b] = stop_off[b] - l
        /\ queue'[b] = SubSeq(queue[b], k + 1, Len(queue[b]) - l) /\ held'[b].use = "none"
        /\ \A d \in Buffers \ {b} : /\ start_off'[d] = start_off[d] /\ stop_off'[d] = stop_off[d]
                                     /\ queue'[d] = queue[d] /\ held'[d] = held[d]
    BY <1>1, <1>2 DEF Cut
  <1>5. /\ Len(queue[b]) = stop_off[b] - start_off[b] /\ queue[b] \in Seq(Bytes)
        /\ \A i \in 1 .. Len(queue[b]) : memory[buf[b]][start_off[b] + i - 1] = queue[b][i]
    BY <1>1 DEF IInv, HoldsItsQueue, buf_get_used
  <1>n. Len(queue[b]) = stop_off[b] - start_off[b] /\ Len(queue[b]) \in Nat /\ k + l <= Len(queue[b])
    <2>1. Len(queue[b]) = stop_off[b] - start_off[b]
      BY <1>5
    <2>. QED
      BY <1>3, <2>1
  <1>6. /\ queue'[b] \in Seq(Bytes)
        /\ Len(queue'[b]) = Len(queue[b]) - l - k
        /\ \A i \in 1 .. Len(queue'[b]) : queue'[b][i] = queue[b][i + k]
    <2>1. k + l <= Len(queue[b])
      BY <1>n
    <2>. QED
      <3>1. queue[b] \in Seq(Bytes) /\ queue'[b] = SubSeq(queue[b], k + 1, Len(queue[b]) - l)
        BY <1>4, <1>5
      <3>. QED
        BY <1>n, <2>1, <3>1, SubSeqCut, SMTT(60)
  <1>m. Len(queue'[b]) = Len(queue[b]) - l - k
    BY <1>6
  <1>7. TypeOK'
    <2>1. start_off' \in [Buffers -> Nat] /\ stop_off' \in [Buffers -> Nat]
      BY <1>1, <1>3 DEF Cut
    <2>2. queue' \in [Buffers -> Seq(Bytes)]
      BY <1>1, <1>4, <1>6 DEF Cut
    <2>3. held' \in [Buffers -> Pointers]
      BY <1>1, <1>2 DEF Cut
    <2>4. \A d \in Buffers : start_off'[d] <= stop_off'[d] /\ stop_off'[d] <= buf_sz[d]
      <3>1. start_off'[b] <= stop_off'[b] /\ stop_off'[b] <= buf_sz[b]
        <4>1. start_off'[b] = start_off[b] + k /\ stop_off'[b] = stop_off[b] - l
          BY <1>4
        <4>. QED
          BY <1>3, <4>1
      <3>. QED
        BY <1>1, <1>4, <3>1
    <2>. QED
      BY <1>u, <2>1, <2>2, <2>3, <2>4 DEF IInv, TypeOK
  <1>8. OneOwnerPerChunk' /\ SizesAreTrue' /\ NoChunkNoData'
    BY <1>u DEF IInv, OneOwnerPerChunk, SizesAreTrue, NoChunkNoData, InBuffer, InPool
  <1>9. HoldsItsQueue'
    <2> SUFFICES ASSUME NEW d \in Buffers
                 PROVE  /\ Len(queue'[d]) = stop_off'[d] - start_off'[d]
                        /\ \A i \in 1 .. Len(queue'[d]) :
                             memory[buf[d]][start_off'[d] + i - 1] = queue'[d][i]
      BY <1>u DEF HoldsItsQueue, buf_get_used
    <2>1. CASE d = b
      <3>1. Len(queue'[b]) = stop_off'[b] - start_off'[b]
        <4>1. start_off'[b] = start_off[b] + k /\ stop_off'[b] = stop_off[b] - l
          BY <1>4
        <4>. QED
          <5>1. Len(queue[b]) - l - k = (stop_off[b] - l) - (start_off[b] + k)
            BY <1>3, <1>n, CutLength, SMTT(20)
          <5>. QED
            BY <1>m, <4>1, <5>1
      <3>2. ASSUME NEW i \in 1 .. Len(queue'[b])
            PROVE  memory[buf[b]][start_off'[b] + i - 1] = queue'[b][i]
        <4>1. i + k \in 1 .. Len(queue[b]) /\ start_off'[b] + i - 1 = start_off[b] + (i + k) - 1
          <5>1. start_off'[b] = start_off[b] + k
            BY <1>4
          <5>2. PICK st \in Nat, q \in Nat : st = start_off[b] /\ q = Len(queue[b]) /\ k + l <= q
            BY <1>3, <1>n
          <5>3. PICK j \in 1 .. q - l - k : j = i
            BY <1>m, <5>2
          <5>4. j + k \in 1 .. q /\ (st + k) + j - 1 = st + (j + k) - 1
            BY <5>2, SMTT(20)
          <5>. QED
            BY <5>1, <5>2, <5>3, <5>4
        <4>. QED
          BY <1>5, <1>6, <4>1
      <3>. QED
        BY <2>1, <3>1, <3>2
    <2>2. CASE d # b
      BY <1>4, <2>2 DEF IInv, HoldsItsQueue, buf_get_used
    <2>. QED
      BY <2>1, <2>2
  <1>10. PointersStay' /\ WritersHaveChunks' /\ RoomIsTrue'
    BY <1>4, <1>u DEF IInv, PointersStay, WritersHaveChunks, RoomIsTrue, buf_get_used
  <1>. QED
    BY <1>7, <1>8, <1>9, <1>10 DEF IInv

\* buf_consume takes bytes from the front and gives an empty buffer's chunk back.
LEMMA ConsumeKeeps ==
    ASSUME IInv, NEW b \in Buffers, NEW n \in 1 .. buf_get_used(b), buf_consume(b, n)
    PROVE  IInv'
  <1> USE BufferAssumption
  <1>1. /\ start_off \in [Buffers -> Nat] /\ stop_off \in [Buffers -> Nat]
        /\ queue \in [Buffers -> Seq(Bytes)]
    BY DEF IInv, TypeOK
  <1>2. buf_get_used(b) = stop_off[b] - start_off[b] /\ Len(queue[b]) = buf_get_used(b)
    BY DEF IInv, HoldsItsQueue, buf_get_used
  <1>3. n \in Nat /\ n <= buf_get_used(b) /\ start_off[b] \in Nat /\ stop_off[b] \in Nat
    BY <1>1, <1>2
  <1>4. CASE start_off[b] + n = stop_off[b]
    <2>1. buf[b] # NULL
      BY DEF buf_consume, IInv, RoomIsTrue
    <2>2. n = Len(queue[b])
      BY <1>2, <1>3, <1>4
    <2>3. SubSeq(queue[b], n + 1, Len(queue[b])) = <<>>
      BY <1>3, <2>2
    <2>4. queue' = [queue EXCEPT ![b] = <<>>]
      BY <2>3 DEF buf_consume
    <2>. QED
      BY <1>4, <2>1, <2>4, EmptiedKeeps DEF buf_consume
  <1>5. CASE start_off[b] + n # stop_off[b]
    <2>1. stop_off' = [stop_off EXCEPT ![b] = @ - 0]
      BY <1>1, <1>5 DEF buf_consume
    <2>2. queue' = [queue EXCEPT ![b] = SubSeq(@, n + 1, Len(@) - 0)]
      <3>1. Len(queue[b]) - 0 = Len(queue[b])
        BY <1>2, <1>3
      <3>. QED
        BY <3>1 DEF buf_consume
    <2>3. n + 0 <= buf_get_used(b)
      BY <1>2, <1>3
    <2>4. Cut(b, n, 0)
      BY <1>5, <2>1, <2>2, <2>3 DEF buf_consume, Cut
    <2>. QED
      BY <1>3, <2>4, CutKeeps
  <1>. QED
    BY <1>4, <1>5

\* buf_rollback_produced takes bytes from the end.
LEMMA RollbackKeeps ==
    ASSUME IInv, NEW b \in Buffers, NEW n \in 1 .. buf_get_used(b), buf_rollback_produced(b, n)
    PROVE  IInv'
  <1> USE BufferAssumption
  <1>1. /\ start_off \in [Buffers -> Nat] /\ stop_off \in [Buffers -> Nat]
        /\ held \in [Buffers -> Pointers]
    BY DEF IInv, TypeOK
  <1>2. buf_get_used(b) = stop_off[b] - start_off[b]
    BY DEF buf_get_used
  <1>3. n \in Nat /\ 0 + n <= buf_get_used(b)
    BY <1>1, <1>2
  <1>4. start_off' = [start_off EXCEPT ![b] = @ + 0]
    BY <1>1 DEF buf_rollback_produced
  <1>5. held' = [held EXCEPT ![b] = NoPointer]
    BY <1>1 DEF buf_rollback_produced
  <1>6. queue' = [queue EXCEPT ![b] = SubSeq(@, 0 + 1, Len(@) - n)]
    BY DEF buf_rollback_produced
  <1>7. Cut(b, 0, n)
    BY <1>3, <1>4, <1>5, <1>6 DEF buf_rollback_produced, Cut
  <1>. QED
    BY <1>3, <1>7, CutKeeps

\* buf_free gives the chunk of a buffer back, if it has one.
LEMMA BufFreeKeeps ==
    ASSUME IInv, NEW b \in Buffers, buf_free(b)
    PROVE  IInv'
  <1> USE BufferAssumption
  <1>1. /\ start_off \in [Buffers -> Nat] /\ stop_off \in [Buffers -> Nat]
        /\ queue \in [Buffers -> Seq(Bytes)] /\ held \in [Buffers -> Pointers]
        /\ start_off[b] <= stop_off[b] /\ stop_off[b] <= buf_sz[b]
    BY DEF IInv, TypeOK
  <1>2. held' = [held EXCEPT ![b] = NoPointer] /\ held' = held
    BY <1>1 DEF buf_free
  <1>3. CASE buf[b] # NULL
    BY <1>2, <1>3, EmptiedKeeps DEF buf_free
  <1>4. CASE buf[b] = NULL
    <2>1. buf_sz[b] = 0
      BY <1>4 DEF IInv, NoChunkNoData
    <2>2. start_off[b] = 0 /\ stop_off[b] = 0
      BY <1>1, <2>1
    <2>3. Len(queue[b]) = 0
      BY <2>2 DEF IInv, HoldsItsQueue, buf_get_used
    <2>4. queue[b] = <<>>
      BY <1>1, <2>3
    <2>5. UNCHANGED vars
      BY <1>1, <1>2, <1>4, <2>2, <2>4 DEF buf_free, vars, fields
    <2>. QED
      BY <2>5, StutterKeeps
  <1>. QED
    BY <1>3, <1>4

\* Giving the pool back to the allocator takes no chunk from a buffer.
LEMMA PoolFreeKeeps ==
    ASSUME IInv, pool_free
    PROVE  IInv'
  <1> USE BufferAssumption
  <1>1. /\ size' = WithoutPool(size, pool) /\ pool' = <<>>
        /\ buf' = buf /\ buf_sz' = buf_sz /\ start_off' = start_off /\ stop_off' = stop_off
        /\ memory' = memory /\ held' = held /\ queue' = queue
    BY DEF pool_free, fields
  <1>2. size' = [m \in Chunks |-> IF InPool(m) THEN 0 ELSE size[m]]
    BY <1>1 DEF WithoutPool, InPool
  <1>3. size \in [Chunks -> 0 .. MaxSize] /\ buf \in [Buffers -> Chunks \cup {NULL}]
    BY DEF IInv, TypeOK
  <1>4. /\ \A m \in Chunks : InPool(m) => size'[m] = 0
        /\ \A m \in Chunks : ~InPool(m) => size'[m] = size[m]
        /\ size' \in [Chunks -> 0 .. MaxSize]
    <2>1. 0 \in 0 .. MaxSize
      OBVIOUS
    <2>. QED
      BY <1>2, <1>3, <2>1, Zenon
  <1>5. \A b \in Buffers : buf[b] # NULL => size'[buf[b]] = size[buf[b]]
    BY <1>3, <1>4 DEF IInv, OneOwnerPerChunk, InBuffer
  <1>6. TypeOK'
    <2>1. pool' \in Seq(Items)
      BY <1>1
    <2>. QED
      BY <1>1, <1>4, <2>1 DEF IInv, TypeOK
  <1>7. pool' = <<>> => DOMAIN pool' = {}
    OBVIOUS
  <1>8. OneOwnerPerChunk'
    <2>1. \A m \in Chunks : ~InPool(m)'
      BY <1>1, <1>7 DEF InPool
    <2>2. \A m \in Chunks : InBuffer(m)' <=> InBuffer(m)
      BY <1>1 DEF InBuffer
    <2>3. \A m \in Chunks : size'[m] > 0 <=> InBuffer(m)
      BY <1>3, <1>4 DEF IInv, OneOwnerPerChunk
    <2>4. \A b, c \in Buffers : buf'[b] = buf'[c] /\ buf'[b] # NULL => b = c
      BY <1>1 DEF IInv, OneOwnerPerChunk
    <2>. QED
      BY <1>1, <1>7, <2>1, <2>2, <2>3, <2>4 DEF OneOwnerPerChunk
  <1>9. SizesAreTrue'
    BY <1>1, <1>5, <1>7 DEF IInv, SizesAreTrue
  <1>10. HoldsItsQueue' /\ NoChunkNoData' /\ WritersHaveChunks' /\ RoomIsTrue'
    BY <1>1 DEF IInv, HoldsItsQueue, NoChunkNoData, WritersHaveChunks, RoomIsTrue, buf_get_used
  <1>11. PointersStay'
    BY <1>1, <1>5 DEF IInv, PointersStay, WritersHaveChunks, buf_get_used
  <1>. QED
    BY <1>6, <1>8, <1>9, <1>10, <1>11 DEF IInv

\* Every step of the buffers keeps the invariant.
LEMMA NextInv == IInv /\ [Next]_vars => IInv'
  <1> SUFFICES ASSUME IInv, [Next]_vars PROVE IInv'
    OBVIOUS
  <1>1. ASSUME NEW b \in Buffers, NEW min \in Mins, buf_get_writer(b, min) PROVE IInv'
    BY <1>1, GetWriterKeeps
  <1>2. ASSUME NEW b \in Buffers, NEW n \in 0 .. MaxSize, NEW s \in [1 .. n -> Bytes], buf_produce(b, s)
        PROVE  IInv'
    <2>1. s \in Seq(Bytes)
      BY BufferAssumption
    <2>. QED
      BY <1>2, <2>1, ProduceKeeps
  <1>3. ASSUME NEW b \in Buffers, buf_get_reader(b) \/ LetGo(b) PROVE IInv'
    BY <1>3, ReaderKeeps
  <1>4. ASSUME NEW b \in Buffers, process_multi_Reserve(b) PROVE IInv'
    BY <1>4, ReserveKeeps
  <1>5. ASSUME NEW b \in Buffers, NEW n \in 1 .. buf_get_used(b), buf_consume(b, n) PROVE IInv'
    BY <1>5, ConsumeKeeps
  <1>6. ASSUME NEW b \in Buffers, NEW n \in 1 .. buf_get_used(b), buf_rollback_produced(b, n) PROVE IInv'
    BY <1>6, RollbackKeeps
  <1>7. ASSUME NEW b \in Buffers, buf_free(b) PROVE IInv'
    BY <1>7, BufFreeKeeps
  <1>8. CASE pool_free
    BY <1>8, PoolFreeKeeps
  <1>9. CASE UNCHANGED vars
    BY <1>9, StutterKeeps
  <1>. QED
    BY <1>1, <1>2, <1>3, <1>4, <1>5, <1>6, <1>7, <1>8, <1>9 DEF Next

\* The invariant holds throughout.
THEOREM BufferInvariant == Spec => []IInv
  BY InitInv, NextInv, PTL DEF Spec

\* No chunk is ever shared by two buffers, in use and in the pool, in the pool
\* twice, or lost, for any number of buffers and any history of growing, moving,
\* emptying and freeing.
THEOREM NoChunkShared == Spec => []OneOwnerPerChunk
  <1>1. IInv => OneOwnerPerChunk
    BY DEF IInv
  <1>. QED
    BY <1>1, BufferInvariant, PTL

\* A buffer is the queue its callers take it for: the bytes produced come out in
\* order, once, and no other buffer's write ever reaches them.
THEOREM BuffersAreQueues == Spec => []HoldsItsQueue
  <1>1. IInv => HoldsItsQueue
    BY DEF IInv
  <1>. QED
    BY <1>1, BufferInvariant, PTL

\* A pointer taken from a buffer stays good until its holder is done, as long as
\* more than METADATA bytes were free behind the data it reads.
THEOREM PointersStayGood == Spec => []PointersStay
  <1>1. IInv => PointersStay
    BY DEF IInv
  <1>. QED
    BY <1>1, BufferInvariant, PTL
=============================================================================
