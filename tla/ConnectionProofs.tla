-------------------------- MODULE ConnectionProofs --------------------------
(***************************************************************************)
(* The steps of a connection's callback keep the invariant, and the        *)
(* theorems about Connection, for any number of connections, any request   *)
(* sizes within the assumptions and any length of the history.             *)
(***************************************************************************)
EXTENDS ConnectionInvariant

-----------------------------------------------------------------------------
(* conn_recv.                                                              *)

\* conn_recv moves the socket into recv_buf.
LEMMA RecvIInv ==
    ASSUME IInv, NEW c \in Conn, Recv(c)
    PROVE  IInv'
<1> USE DEF IInv
<1>1. recv_used' \in [Conn -> Nat] /\ sock' \in [Conn -> Nat]
    BY DEF Recv, TypeOK
<1>2. TypeOK'
    BY <1>1, Zenon DEF TypeOK, Recv, Goto, out, events
<1>3. StopHasOneOwner'
    BY DEF Recv, StopHasOneOwner, events
<1>4. CallbackInv'
    BY NoneAssumption DEF Recv, Goto, CallbackInv, events
<1>5. ASSUME NEW d \in Conn PROVE ConnInv(d)'
    <2>1. (InMulti(d)' <=> InMulti(d)) /\ Answering(d)' = Answering(d)
        BY DEF Recv, Goto, InMulti, Answering
    <2>2. CASE d # c
        <3>1. recv_used'[d] = recv_used[d]
            BY <2>2 DEF Recv, TypeOK
        <3>2. QED
            BY <2>1, <3>1, FrameConn DEF Recv, out
    <2>3. CASE d = c
        <3>1. recv_used'[c] = recv_used[c] + sock[c] /\ recv_used[c] \in Nat /\ sock[c] \in Nat
            BY DEF Recv, TypeOK
        <3>2. Stream(c)' /\ AnswerInv(c)'
            BY <2>1, <2>3 DEF ConnInv, Stream, AnswerInv, Answering, Recv, out
        <3>3. quiet_recv_off[c] <= recv_used'[c]
            <4>1. quiet_recv_off[c] \in Nat
                BY DEF TypeOK
            <4>2. quiet_recv_off[c] <= recv_used[c]
                BY DEF ConnInv, BulkInv
            <4>3. QED
                BY <3>1, <4>1, <4>2
        <3>4. BulkInv(c)'
            BY <2>1, <2>3, <3>3 DEF ConnInv, BulkInv, Recv
        <3>5. QED
            BY <2>3, <3>2, <3>4 DEF ConnInv
    <2>4. QED
        BY <2>2, <2>3
<1>6. QED
    BY <1>2, <1>3, <1>4, <1>5

\* conn_recv finds no complete request.
LEMMA RequestMoreDataIInv ==
    ASSUME IInv, NEW c \in Conn, RequestMoreData(c)
    PROVE  IInv'
<1> USE DEF IInv
<1>1. /\ running = c /\ pc = "swallow" /\ handled = 0 /\ handled' = 0
      /\ \/ running' = c /\ pc' = "send" /\ written' = written
         \/ running' = None /\ pc' = "idle" /\ written' = FALSE
    BY DEF RequestMoreData, CallbackInv, Goto, Return
<1>2. TypeOK'
    BY <1>1, Zenon DEF TypeOK, RequestMoreData, client, bulk, out, events
<1>3. StopHasOneOwner'
    BY DEF RequestMoreData, StopHasOneOwner, events
<1>4. CallbackInv'
    BY <1>1, NoneAssumption DEF RequestMoreData, CallbackInv, TypeOK, bulk, events
<1>5. ASSUME NEW d \in Conn PROVE ConnInv(d)'
    <2>1. (InMulti(d)' <=> InMulti(d)) /\ Answering(d)' = Answering(d)
        BY <1>1, NoneAssumption DEF InMulti, Answering
    <2>2. QED
        BY <2>1, FrameConn DEF RequestMoreData, client, bulk, out
<1>6. QED
    BY <1>2, <1>3, <1>4, <1>5

\* conn_recv adds a request to the bulk; if the bulk stays open recv_buf
\* holds fewer than MAX_REQUEST_SIZE bytes, and the bulk is part of it.
LEMMA SwallowIInv ==
    ASSUME IInv, NEW c \in Conn, Swallow(c)
    PROVE  IInv'
<1> USE DEF IInv
<1> DEFINE n == done[c] + requests[c]
           r == NextRequest(c)
<1>1. /\ done[c] \in Nat /\ requests[c] \in Nat /\ recv_used[c] \in Nat
      /\ quiet_recv_off[c] \in Nat /\ sent[c] \in Seq(SentType) /\ Len(sent[c]) \in Nat
    BY DEF TypeOK
<1>2. n \in 0 .. Len(sent[c]) - 1 /\ r = sent[c][n + 1]
    BY <1>1 DEF Swallow, NeedMoreData, NextRequest, ConnInv, BulkInv
<1>3. r.size \in Nat
    <2>1. n + 1 \in 1 .. Len(sent[c])
        BY <1>1, <1>2
    <2>2. sent[c][n + 1] \in SentType
        BY <1>1, <2>1
    <2>3. QED
        BY <1>2, <2>2 DEF SentType
<1>4. quiet_recv_off[c] + r.size <= recv_used[c]
    <2>1. ~(recv_used[c] - quiet_recv_off[c] < r.size)
        BY <1>2 DEF Swallow, NeedMoreData
    <2>2. QED
        BY <1>1, <1>3, <2>1
<1>5. /\ r.size >= HEADER_SIZE /\ r.size <= MAX_REQUEST_SIZE
      /\ EndOf(sent[c], n + 1) = EndOf(sent[c], n) + r.size
    <2>1. n + 1 \in 1 .. Len(sent[c]) /\ (n + 1) - 1 = n /\ n + 1 # 0
        BY <1>1, <1>2
    <2>2. /\ r.end = EndOf(sent[c], (n + 1) - 1) + r.size
          /\ r.size >= HEADER_SIZE
          /\ r.kind # "bad" => r.size <= MAX_REQUEST_SIZE
        BY <1>2, <2>1 DEF ConnInv, Stream, StreamOK
    <2>3. EndOf(sent[c], n + 1) = r.end
        BY <1>2, <2>1 DEF EndOf
    <2>4. r.kind # "bad"
        BY DEF Swallow
    <2>5. QED
        BY <2>1, <2>2, <2>3, <2>4
<1>6. /\ quiet_recv_off' = [quiet_recv_off EXCEPT ![c] = @ + r.size]
      /\ requests' = [requests EXCEPT ![c] = @ + 1]
      /\ running = c /\ running' = c /\ pc = "swallow" /\ handled = 0 /\ handled' = 0
      /\ UNCHANGED <<sent, done, recv_used, send_buf, got>>
      /\ pc' \in {"swallow", "multi"}
      /\ pc' # "multi" => recv_used[c] < MAX_REQUEST_SIZE
    BY DEF Swallow, Goto, CallbackInv, KeepCollecting, client, out
<1> HIDE DEF r
<1>7. TypeOK'
    <2>1. quiet_recv_off' \in [Conn -> Nat] /\ requests' \in [Conn -> Nat]
        <3>1. quiet_recv_off \in [Conn -> Nat] /\ requests \in [Conn -> Nat]
            BY Numbers
        <3>2. /\ quiet_recv_off[c] + r.size \in Nat /\ requests[c] + 1 \in Nat
            BY <1>3, <3>1
        <3>3. QED
            BY <1>6, <3>1, <3>2, Zenon
    <2>2. QED
        BY <1>6, <2>1, Zenon DEF TypeOK, Swallow, Goto, client, out, events
<1>8. StopHasOneOwner'
    BY DEF Swallow, StopHasOneOwner, events
<1>9. CallbackInv'
    <2>1. requests'[c] \in Nat
        BY <1>1, <1>6 DEF TypeOK
    <2>2. QED
        BY <1>6, <2>1, NoneAssumption DEF Swallow, CallbackInv, events
<1>10. ASSUME NEW d \in Conn, d # c PROVE ConnInv(d)'
    <2>1. quiet_recv_off'[d] = quiet_recv_off[d] /\ requests'[d] = requests[d]
        BY <1>6, <1>10 DEF TypeOK
    <2>2. (InMulti(d)' <=> InMulti(d)) /\ Answering(d)' = Answering(d)
        BY <1>6, <1>10 DEF InMulti, Answering
    <2>3. QED
        BY <1>6, <2>1, <2>2, FrameConn
<1>11. ConnInv(c)'
    <2>1. Stream(c)' /\ AnswerInv(c)'
        BY <1>6 DEF ConnInv, Stream, AnswerInv
    <2>2. requests'[c] = requests[c] + 1 /\ quiet_recv_off'[c] = quiet_recv_off[c] + r.size
        BY <1>6 DEF TypeOK
    <2>3. ~InMulti(c)
        BY <1>6 DEF InMulti
    <2>4. /\ quiet_recv_off[c] = EndOf(sent[c], n) - EndOf(sent[c], done[c])
          /\ requests[c] * HEADER_SIZE <= quiet_recv_off[c]
          /\ quiet_recv_off[c] < MAX_REQUEST_SIZE
        BY <2>3 DEF ConnInv, BulkInv
    <2>5. EndOf(sent[c], n) \in Nat /\ EndOf(sent[c], done[c]) \in Nat
        <3>1. n \in 0 .. Len(sent[c]) /\ done[c] \in 0 .. Len(sent[c])
            BY <1>1, <1>2, SMTT(20)
        <3>2. QED
            BY <1>1, <3>1, EndType, Zenon
    <2>6. quiet_recv_off'[c] = EndOf(sent'[c], done'[c] + requests'[c]) - EndOf(sent'[c], done'[c])
        <3>1. done'[c] + requests'[c] = n + 1 /\ sent' = sent /\ done' = done
            BY <1>1, <1>6, <2>2
        <3>2. QED
            BY <1>3, <1>5, <2>2, <2>4, <2>5, <3>1
    <2>7. requests'[c] * HEADER_SIZE <= quiet_recv_off'[c]
        <3>1. (requests[c] + 1) * HEADER_SIZE = requests[c] * HEADER_SIZE + HEADER_SIZE
            BY <1>1, SizesAssumption
        <3>2. requests[c] * HEADER_SIZE \in Nat
            BY <1>1, SizesAssumption
        <3>3. QED
            BY <1>1, <1>3, <1>5, <2>2, <2>4, <3>1, <3>2, SizesAssumption, SMTT(20)
    <2>8. (requests'[c] - 1) * HEADER_SIZE < MAX_REQUEST_SIZE
        <3>1. requests'[c] - 1 = requests[c]
            BY <1>1, <2>2
        <3>2. requests[c] * HEADER_SIZE \in Nat
            BY <1>1, SizesAssumption
        <3>3. QED
            BY <1>1, <2>4, <3>1, <3>2, SizesAssumption
    <2>9. /\ done'[c] + requests'[c] <= Len(sent'[c])
          /\ quiet_recv_off'[c] <= recv_used'[c]
          /\ quiet_recv_off'[c] < 2 * MAX_REQUEST_SIZE
        <3>1. done'[c] + requests'[c] <= Len(sent'[c])
            BY <1>1, <1>2, <1>6, <2>2
        <3>2. quiet_recv_off'[c] <= recv_used'[c]
            BY <1>4, <1>6, <2>2
        <3>3. quiet_recv_off'[c] < 2 * MAX_REQUEST_SIZE
            BY <1>1, <1>3, <1>5, <2>2, <2>4, SizesAssumption
        <3>4. QED
            BY <3>1, <3>2, <3>3
    <2>10. ~InMulti(c)' => quiet_recv_off'[c] < MAX_REQUEST_SIZE
        BY <1>1, <1>3, <1>4, <1>6, <2>2, SizesAssumption DEF InMulti
    <2>11. BulkInv(c)'
        BY <2>6, <2>7, <2>8, <2>9, <2>10 DEF BulkInv
    <2>12. QED
        BY <2>1, <2>11 DEF ConnInv
<1>12. QED
    BY <1>7, <1>8, <1>9, <1>10, <1>11

\* process_multi answers a request; STOP and START change the registrations.
LEMMA ProcessRequestIInv ==
    ASSUME IInv, NEW c \in Conn, ProcessRequest(c)
    PROVE  IInv'
<1> USE DEF IInv
<1>1. /\ running = c /\ pc = "multi" /\ running' = running /\ pc' = pc
      /\ handled' = handled + 1 /\ handled < requests[c]
      /\ UNCHANGED <<client, bulk, got, root, write_only, written, alive>>
      /\ c \in root /\ registered[c] /\ alive
    BY NoneAssumption DEF ProcessRequest, CallbackInv, StopHasOneOwner
<1>2. /\ handled \in Nat /\ requests[c] \in Nat /\ done[c] \in Nat /\ got[c] \in Nat
      /\ send_buf \in [Conn -> Seq([id : Nat, size : Nat])]
    BY DEF TypeOK
<1>3. PICK m \in Nat :
         send_buf' = [send_buf EXCEPT ![c] = Append(@, [id |-> done[c] + handled + 1, size |-> m])]
    BY BoundsAssumption, Zenon DEF ProcessRequest
<1> DEFINE e == [id |-> done[c] + handled + 1, size |-> m]
<1>4. e \in [id : Nat, size : Nat] /\ e.id = done[c] + handled + 1
    BY <1>2
<1>5. /\ send_buf'[c] = Append(send_buf[c], e)
      /\ \A d \in Conn : d # c => send_buf'[d] = send_buf[d]
      /\ send_buf' \in [Conn -> Seq([id : Nat, size : Nat])]
    <2>1. Append(send_buf[c], e) \in Seq([id : Nat, size : Nat])
        <3>1. send_buf[c] \in Seq([id : Nat, size : Nat])
            BY <1>2, Zenon
        <3> HIDE DEF e
        <3>2. QED
            BY <1>4, <3>1
    <2>2. send_buf' = [send_buf EXCEPT ![c] = Append(send_buf[c], e)]
        BY <1>3, Zenon
    <2> HIDE DEF e
    <2>3. QED
        BY <1>2, <2>1, <2>2, Zenon
<1> HIDE DEF e
<1>6. /\ stopped' \in BOOLEAN /\ registered' \in [Conn -> BOOLEAN]
      /\ StopHasOneOwner' /\ registered'[c]
    <2> DEFINE q == sent[c][done[c] + handled + 1]
               starts == q.kind = "start" /\ stopped
    <2>1. /\ stopped' = (q.kind = "stop" \/ (stopped /\ ~starts))
          /\ registered' = CASE q.kind = "stop" -> conn_stop(c)
                             [] starts -> conn_start
                             [] OTHER -> registered
        BY DEF ProcessRequest
    <2>2. CASE q.kind = "stop"
        <3>1. stopped' = TRUE /\ registered' = conn_stop(c)
            BY <2>1, <2>2, Zenon
        <3>2. QED
            BY <1>1, <3>1, Zenon DEF conn_stop, StopHasOneOwner
    <2>3. CASE starts
        <3>1. stopped' = FALSE /\ registered' = conn_start
            BY <2>1, <2>3, Zenon
        <3>2. root' = root
            BY <1>1
        <3>3. registered' \in [Conn -> BOOLEAN] /\ (\A d \in Conn : registered'[d] <=> d \in root)
            <4>1. registered' = [d \in Conn |-> d \in root]
                BY <3>1 DEF conn_start
            <4>2. \A d \in Conn : (d \in root) \in BOOLEAN
                OBVIOUS
            <4>3. registered' \in [Conn -> BOOLEAN]
                BY <4>1, <4>2, Zenon
            <4>4. \A d \in Conn : registered'[d] = (d \in root)
                BY <4>1, Zenon
            <4>5. QED
                BY <4>3, <4>4, Zenon
        <3>4. StopHasOneOwner'
            BY <3>1, <3>2, <3>3 DEF StopHasOneOwner
        <3>5. QED
            BY <1>1, <3>1, <3>3, <3>4, Zenon
    <2>4. CASE q.kind # "stop" /\ ~starts
        <3>1. stopped' = stopped /\ registered' = registered
            BY <2>1, <2>4, SMTT(20) DEF TypeOK
        <3>2. QED
            BY <1>1, <3>1, Zenon DEF StopHasOneOwner, TypeOK
    <2>5. QED
        BY <2>2, <2>3, <2>4
<1>7. TypeOK'
    <2>1. handled' \in Nat
        BY <1>1, <1>2
    <2>2. QED
        BY <1>1, <1>5, <1>6, <2>1, Zenon DEF TypeOK, client, bulk
<1>8. CallbackInv'
    BY <1>1, <1>2, <1>6, NoneAssumption DEF CallbackInv, bulk
<1>9. ASSUME NEW d \in Conn, d # c PROVE ConnInv(d)'
    <2>1. (InMulti(d)' <=> InMulti(d)) /\ Answering(d)' = Answering(d)
        BY <1>1, <1>9 DEF InMulti, Answering
    <2>2. QED
        BY <1>1, <1>5, <1>9, <2>1, FrameConn DEF client, bulk
<1>10. ConnInv(c)'
    <2>1. Stream(c)' /\ BulkInv(c)'
        BY <1>1 DEF ConnInv, Stream, BulkInv, InMulti, client, bulk
    <2>2. AnswerInv(c)'
        <3>1. /\ got[c] + Len(send_buf[c]) = done[c] + handled
              /\ \A i \in 1 .. Len(send_buf[c]) : send_buf[c][i].id = got[c] + i
            BY <1>1 DEF ConnInv, AnswerInv
        <3>2. /\ Len(send_buf[c]) \in Nat /\ Len(send_buf'[c]) = Len(send_buf[c]) + 1
              /\ \A i \in 1 .. Len(send_buf[c]) : send_buf'[c][i] = send_buf[c][i]
              /\ send_buf'[c][Len(send_buf[c]) + 1] = e
            <4>1. send_buf[c] \in Seq([id : Nat, size : Nat])
                BY <1>2
            <4>2. QED
                BY <1>4, <1>5, <4>1
        <3> DEFINE l == Len(send_buf[c])
        <3>3. got[c] \in Nat /\ done[c] \in Nat /\ handled \in Nat
            BY <1>2
        <3>4. /\ l \in Nat /\ got[c] + l = done[c] + handled /\ Len(send_buf'[c]) = l + 1
            BY <3>1, <3>2
        <3> HIDE DEF l
        <3>5. ASSUME NEW i \in 1 .. Len(send_buf'[c]) PROVE send_buf'[c][i].id = got[c] + i
            <4>1. CASE i \in 1 .. Len(send_buf[c])
                BY <3>1, <3>2, <4>1
            <4>2. CASE i = Len(send_buf[c]) + 1
                <5>1. send_buf'[c][i].id = done[c] + handled + 1
                    BY <1>4, <3>2, <4>2
                <5>2. QED
                    <6>1. i = l + 1
                        BY <4>2 DEF l
                    <6>2. QED
                        BY <3>3, <3>4, <5>1, <6>1
            <4>3. QED
                BY <3>2, <4>1, <4>2
        <3>6. got[c] + Len(send_buf'[c]) = done[c] + handled'
            <4>1. handled' = handled + 1
                BY <1>1
            <4>2. QED
                BY <3>3, <3>4, <4>1
        <3>7. QED
            BY <1>1, <3>5, <3>6 DEF AnswerInv, bulk
    <2>3. QED
        BY <2>1, <2>2 DEF ConnInv
<1>11. QED
    BY <1>6, <1>7, <1>8, <1>9, <1>10

\* process_multi returns; what it consumed is part of the bulk.
LEMMA EndMultiIInv ==
    ASSUME IInv, NEW c \in Conn, EndMulti(c)
    PROVE  IInv'
<1> USE DEF IInv
<1>1. /\ running = c /\ pc = "multi" /\ running' = running /\ pc' \in {"send", "swallow"}
      /\ handled' = 0 /\ written' = TRUE /\ handled <= requests[c]
      /\ UNCHANGED <<client, out, events, alive>>
      /\ recv_used' = [recv_used EXCEPT ![c] = @ - Consumed(c)]
      /\ done' = [done EXCEPT ![c] = @ + handled]
      /\ quiet_recv_off' = [quiet_recv_off EXCEPT ![c] = 0]
      /\ requests' = [requests EXCEPT ![c] = 0]
    BY NoneAssumption DEF EndMulti, CallbackInv
<1>2. /\ handled \in Nat /\ requests[c] \in Nat /\ done[c] \in Nat /\ recv_used[c] \in Nat
      /\ sent[c] \in Seq(SentType) /\ Len(sent[c]) \in Nat
    BY DEF TypeOK
<1>3. recv_used[c] - Consumed(c) \in Nat
    <2>1. Consumed(c) = EndOf(sent[c], done[c] + handled) - EndOf(sent[c], done[c])
        BY DEF Consumed, End, EndOf
    <2>2. done[c] + requests[c] <= Len(sent[c])
        BY DEF ConnInv, BulkInv
    <2>3. /\ done[c] \in 0 .. Len(sent[c]) /\ done[c] + handled \in 0 .. Len(sent[c])
          /\ done[c] + requests[c] \in 0 .. Len(sent[c])
          /\ done[c] <= done[c] + handled /\ done[c] + handled <= done[c] + requests[c]
        BY <1>1, <1>2, <2>2
    <2>4. /\ EndOf(sent[c], done[c]) \in Nat /\ EndOf(sent[c], done[c] + handled) \in Nat
          /\ EndOf(sent[c], done[c] + requests[c]) \in Nat
        BY <1>2, <2>3, EndType, SMTT(20)
    <2>5. EndOf(sent[c], done[c] + handled) <= EndOf(sent[c], done[c] + requests[c])
        BY <2>3 DEF ConnInv, Stream, StreamOK
    <2>6. EndOf(sent[c], done[c] + requests[c]) - EndOf(sent[c], done[c]) <= recv_used[c]
        BY DEF ConnInv, BulkInv
    <2>7. QED
        BY <1>2, <2>1, <2>4, <2>5, <2>6
<1>4. TypeOK'
    <2>1. /\ recv_used' \in [Conn -> Nat] /\ done' \in [Conn -> Nat]
          /\ quiet_recv_off' \in [Conn -> Nat] /\ requests' \in [Conn -> Nat]
        BY <1>1, <1>2, <1>3, SMTT(20) DEF TypeOK
    <2>2. QED
        BY <1>1, <2>1, Zenon DEF TypeOK, client, out, events
<1>5. StopHasOneOwner'
    BY <1>1 DEF StopHasOneOwner, events
<1>6. CallbackInv'
    <2>1. requests'[c] = 0
        BY <1>1, Numbers
    <2>2. QED
        BY <1>1, <2>1, NoneAssumption DEF CallbackInv, events
<1>7. ASSUME NEW d \in Conn, d # c PROVE ConnInv(d)'
    <2>1. (InMulti(d)' <=> InMulti(d)) /\ Answering(d)' = Answering(d)
        BY <1>1, <1>7 DEF InMulti, Answering
    <2>2. /\ recv_used'[d] = recv_used[d] /\ done'[d] = done[d]
          /\ quiet_recv_off'[d] = quiet_recv_off[d] /\ requests'[d] = requests[d]
        BY <1>1, <1>7 DEF TypeOK
    <2>3. QED
        BY <1>1, <2>1, <2>2, FrameConn DEF client, out
<1>8. ConnInv(c)'
    <2>1. /\ done'[c] = done[c] + handled /\ requests'[c] = 0 /\ quiet_recv_off'[c] = 0
          /\ recv_used'[c] \in Nat /\ sent' = sent /\ send_buf' = send_buf /\ got' = got
        BY <1>1, <1>3 DEF TypeOK, client, out
    <2>2. Stream(c)'
        BY <2>1 DEF ConnInv, Stream
    <2>3. BulkInv(c)'
        <3>1. done[c] + requests[c] <= Len(sent[c])
            BY DEF ConnInv, BulkInv
        <3>2. done'[c] + requests'[c] = done'[c] /\ done'[c] \in 0 .. Len(sent[c])
            BY <1>1, <1>2, <2>1, <3>1
        <3>3. EndOf(sent[c], done'[c]) \in Nat
            BY <1>2, <3>2, EndType
        <3>4. quiet_recv_off'[c] = EndOf(sent'[c], done'[c] + requests'[c]) - EndOf(sent'[c], done'[c])
            BY <2>1, <3>2, <3>3
        <3>5. QED
            <4>1. /\ done'[c] + requests'[c] <= Len(sent'[c])
                  /\ quiet_recv_off'[c] <= recv_used'[c]
                BY <2>1, <3>2
            <4>2. /\ requests'[c] * HEADER_SIZE <= quiet_recv_off'[c]
                  /\ (requests'[c] - 1) * HEADER_SIZE < MAX_REQUEST_SIZE
                  /\ quiet_recv_off'[c] < MAX_REQUEST_SIZE
                  /\ quiet_recv_off'[c] < 2 * MAX_REQUEST_SIZE
                BY <2>1, SizesAssumption
            <4>3. QED
                BY <3>4, <4>1, <4>2, Zenon DEF BulkInv
    <2>4. AnswerInv(c)'
        <3>1. got[c] + Len(send_buf[c]) = done[c] + handled
            BY <1>1 DEF ConnInv, AnswerInv
        <3>2. \A i \in 1 .. Len(send_buf[c]) : send_buf[c][i].id = got[c] + i
            BY DEF ConnInv, AnswerInv
        <3>3. QED
            BY <1>1, <1>2, <2>1, <3>1, <3>2 DEF AnswerInv
    <2>5. QED
        BY <2>2, <2>3, <2>4 DEF ConnInv
<1>9. QED
    BY <1>4, <1>5, <1>6, <1>7, <1>8

\* What is left of a sequence after its first n elements.
LEMMA Suffix ==
    ASSUME NEW S, NEW s \in Seq(S), NEW n \in 0 .. Len(s)
    PROVE  /\ SubSeq(s, n + 1, Len(s)) \in Seq(S)
           /\ Len(SubSeq(s, n + 1, Len(s))) = Len(s) - n
           /\ \A i \in 1 .. Len(s) - n : SubSeq(s, n + 1, Len(s))[i] = s[n + i]
<1> DEFINE l == Len(s)
           t == SubSeq(s, n + 1, l)
<1>1. l \in Nat /\ n \in Nat /\ n <= l
    OBVIOUS
<1>2. t \in Seq(S)
    OBVIOUS
<1>3. Len(t) = l - n
    BY <1>1
<1>4. ASSUME NEW i \in 1 .. l - n PROVE t[i] = s[n + i]
    <2>1. t[i] = s[(n + 1) + i - 1]
        BY <1>1
    <2>2. (n + 1) + i - 1 = n + i
        BY <1>1
    <2>3. QED
        BY <2>1, <2>2
<1>5. QED
    BY <1>2, <1>3, <1>4

\* conn_send hands a prefix of send_buf to the kernel.
LEMMA SendIInv ==
    ASSUME IInv, NEW c \in Conn, Send(c)
    PROVE  IInv'
<1> USE DEF IInv
<1>1. PICK n \in 0 .. Len(send_buf[c]) :
         /\ send_buf' = [send_buf EXCEPT ![c] = Left(c, n)]
         /\ unread' = [unread EXCEPT ![c] = @ + n]
         /\ got' = [got EXCEPT ![c] = @ + n]
         /\ write_only' = [write_only EXCEPT ![c] = Left(c, n) # <<>>]
         /\ IF Left(c, n) = <<>> /\ ReadOn(c)
            THEN Goto("recv") /\ UNCHANGED written
            ELSE Return
    BY Zenon DEF Send
<1>2. /\ running = c /\ pc = "send" /\ handled = 0
      /\ UNCHANGED <<sent, unsent, sock, peer, bulk, stopped, root, registered, alive>>
    BY DEF Send, CallbackInv
<1>3. /\ handled' = 0
      /\ \/ running' = running /\ pc' = "recv" /\ written' = written
         \/ running' = None /\ pc' = "idle" /\ written' = FALSE
    BY <1>1, <1>2 DEF Goto, Return
<1>4. got[c] \in Nat /\ unread[c] \in Nat /\ done[c] \in Nat /\ n \in Nat
    BY DEF TypeOK
<1>5. send_buf[c] \in Seq([id : Nat, size : Nat])
    BY DEF TypeOK
<1>6. /\ Left(c, n) \in Seq([id : Nat, size : Nat])
      /\ Len(Left(c, n)) = Len(send_buf[c]) - n
      /\ \A i \in 1 .. Len(send_buf[c]) - n : Left(c, n)[i] = send_buf[c][n + i]
    BY <1>5, Suffix, Zenon DEF Left
<1>7. TypeOK'
    <2>1. unread' \in [Conn -> Nat] /\ got' \in [Conn -> Nat]
        BY <1>1, <1>4, Numbers
    <2>2. send_buf' \in [Conn -> Seq([id : Nat, size : Nat])]
        BY <1>1, <1>6 DEF TypeOK
    <2>3. write_only' \in [Conn -> BOOLEAN]
        BY <1>1 DEF TypeOK
    <2>4. running' \in Conn \cup {None} /\ handled' \in Nat /\ written' \in BOOLEAN
        BY <1>2, <1>3, Zenon DEF TypeOK
    <2>5. pc' \in {"idle", "recv", "swallow", "multi", "send"}
        BY <1>3
    <2>6. QED
        BY <1>2, <2>1, <2>2, <2>3, <2>4, <2>5, Zenon DEF TypeOK, bulk
<1>8. StopHasOneOwner'
    BY <1>2 DEF StopHasOneOwner
<1>9. CallbackInv'
    BY <1>2, <1>3, NoneAssumption DEF CallbackInv, bulk, TypeOK
<1>10. ASSUME NEW d \in Conn PROVE (~InMulti(d) /\ ~InMulti(d)') /\ Answering(d) = 0 /\ Answering(d)' = 0
    BY <1>2, <1>3 DEF InMulti, Answering
<1>11. ASSUME NEW d \in Conn, d # c PROVE ConnInv(d)'
    <2>1. send_buf'[d] = send_buf[d] /\ got'[d] = got[d]
        BY <1>1, <1>11 DEF TypeOK
    <2>2. QED
        BY <1>2, <1>10, <2>1, FrameConn DEF bulk
<1>12. ConnInv(c)'
    <2>1. Stream(c)' /\ BulkInv(c)'
        BY <1>2, <1>10 DEF ConnInv, Stream, BulkInv, bulk
    <2>2. AnswerInv(c)'
        <3> DEFINE l == Len(send_buf[c])
        <3>1. l \in Nat /\ n <= l
            BY <1>1, <1>5
        <3>2. /\ got[c] + l = done[c]
              /\ \A i \in 1 .. l : send_buf[c][i].id = got[c] + i
            <4>1. AnswerInv(c)
                BY DEF ConnInv
            <4>2. got[c] + l = done[c] + 0
                BY <1>2, <4>1 DEF AnswerInv
            <4>3. QED
                BY <1>4, <4>1, <4>2 DEF AnswerInv
        <3>3. /\ send_buf'[c] = Left(c, n) /\ got'[c] = got[c] + n /\ done'[c] = done[c]
            BY <1>1, <1>2 DEF TypeOK, bulk
        <3>4. Len(send_buf'[c]) = l - n
            BY <1>6, <3>3
        <3>5. got'[c] + Len(send_buf'[c]) = done'[c]
            <4> HIDE DEF l
            <4>1. got[c] + l = done[c]
                BY <3>2
            <4>2. QED
                BY <1>4, <3>1, <3>3, <3>4, <4>1
        <3>6. ASSUME NEW i \in 1 .. l - n PROVE send_buf'[c][i].id = got'[c] + i
            <4>1. n + i \in 1 .. l
                <5> HIDE DEF l
                <5>1. QED
                    BY <1>4, <3>1
            <4>2. send_buf'[c][i] = send_buf[c][n + i]
                BY <1>6, <3>3
            <4>3. send_buf[c][n + i].id = got[c] + (n + i)
                BY <3>2, <4>1
            <4>4. got[c] + (n + i) = got'[c] + i
                BY <1>4, <3>3
            <4>5. QED
                BY <4>2, <4>3, <4>4
        <3>7. (IF running = c THEN handled ELSE 0)' = 0
            BY <1>3
        <3>8. \A i \in 1 .. Len(send_buf'[c]) : send_buf'[c][i].id = got'[c] + i
            BY <3>4, <3>6
        <3>9. done'[c] + 0 = done'[c]
            BY <1>4, <3>3
        <3>10. QED
            BY <3>5, <3>7, <3>8, <3>9 DEF AnswerInv
    <2>3. QED
        BY <2>1, <2>2 DEF ConnInv
<1>13. QED
    BY <1>7, <1>8, <1>9, <1>11, <1>12


-----------------------------------------------------------------------------
(* The theorems.                                                           *)

\* Every step of a callback preserves the invariant.
LEMMA CallbackStepIInv ==
    ASSUME IInv, NEW c \in Conn, CallbackStep(c)
    PROVE  IInv'
<1>1. CASE RecvClosed(c) \/ FormatBroken(c) \/ SendFailed(c)
    BY <1>1, ConnCloseIInv DEF RecvClosed, FormatBroken, SendFailed
<1>2. QED
    BY <1>1, RecvIInv, RequestMoreDataIInv, SwallowIInv, ProcessRequestIInv, EndMultiIInv, SendIInv
    DEF CallbackStep

\* A step that changes nothing preserves the invariant.
LEMMA StutterIInv ==
    ASSUME IInv, UNCHANGED vars
    PROVE  IInv'
<1> USE DEF IInv, vars, client, bulk, out, events, callback
<1>1. TypeOK'
    BY SMTT(20) DEF TypeOK
<1>2. StopHasOneOwner' /\ CallbackInv'
    BY DEF StopHasOneOwner, CallbackInv
<1>3. ASSUME NEW d \in Conn PROVE ConnInv(d)'
    BY FrameConn DEF InMulti, Answering
<1>4. QED
    BY <1>1, <1>2, <1>3

\* The invariant is inductive.
THEOREM InvariantHolds == Spec => []IInv
<1>1. IInv /\ [Next]_vars => IInv'
    <2> SUFFICES ASSUME IInv, [Next]_vars PROVE IInv'
        OBVIOUS
    <2>1. ASSUME NEW c \in Conn, ClientStep(c) PROVE IInv'
        BY <2>1, ClientRequestIInv, ClientRestIInv, ClientReadIInv, ClientGoneIInv DEF ClientStep
    <2>2. ASSUME NEW c \in Conn, Accept(c) \/ client_callback(c) PROVE IInv'
        BY <2>2, AcceptIInv, ClientCallbackIInv
    <2>3. ASSUME NEW c \in Conn, CallbackStep(c) PROVE IInv'
        BY <2>3, CallbackStepIInv
    <2>4. CASE Quit
        BY <2>4, QuitIInv
    <2>5. CASE UNCHANGED vars
        BY <2>5, StutterIInv
    <2>6. QED
        BY <2>1, <2>2, <2>3, <2>4, <2>5 DEF Next
<1>2. QED
    BY <1>1, InitIInv, PTL DEF Spec

\* Every variable keeps its type; no offset into recv_buf becomes negative.
THEOREM TypeCorrect == Spec => []TypeOK
<1>1. IInv => TypeOK
    BY DEF IInv
<1>2. QED
    BY <1>1, InvariantHolds, PTL

\* A stopped proxy listens to exactly one connection, a running one to all
\* of them (conn_new, conn_close, conn_stop, conn_start).
THEOREM OneOwner == Spec => []StopHasOneOwner
<1>1. IInv => StopHasOneOwner
    BY DEF IInv
<1>2. QED
    BY <1>1, InvariantHolds, PTL

\* A bulk never overruns the proxy's array of MAX_QUIET_REQUESTS servers
\* (conn_recv).
THEOREM BulkIsBounded == Spec => []BulkBound
<1>1. IInv => BulkBound
    <2> SUFFICES ASSUME IInv, NEW c \in Conn PROVE requests[c] <= MAX_QUIET_REQUESTS
        BY DEF BulkBound
    <2>1. requests[c] \in Nat /\ (requests[c] - 1) * HEADER_SIZE < MAX_REQUEST_SIZE
        BY DEF IInv, TypeOK, ConnInv, BulkInv
    <2>2. QED
        BY <2>1, QuietBound
<1>2. QED
    BY <1>1, InvariantHolds, PTL

\* A bulk fits the buffer of a plugin written with libst (conn_recv).
THEOREM BulkFits == Spec => []BulkFitsPlugin
<1>1. IInv => BulkFitsPlugin
    BY DEF IInv, ConnInv, BulkInv, BulkFitsPlugin
<1>2. QED
    BY <1>1, InvariantHolds, PTL

\* Every request taken is answered exactly once, in order (conn_recv,
\* conn_send).
THEOREM AnswersInOrder == Spec => []AnsweredInOrder
<1>1. IInv => AnsweredInOrder
    BY Zenon DEF IInv, TypeOK, ConnInv, AnswerInv, AnsweredInOrder
<1>2. QED
    BY <1>1, InvariantHolds, PTL

\* A suspended connection is silent: only its own callback takes its requests
\* or sends on it, and no suspended connection has one (client_callback,
\* modify_event).
THEOREM Silence == Spec => SuspendedIsSilent
<1> DEFINE Quiet == \A c \in root \cap root' :
                       stopped /\ ~registered[c] => done'[c] = done[c] /\ got'[c] = got[c]
<1>1. IInv /\ [Next]_vars => [Quiet]_vars
    <2> SUFFICES ASSUME IInv, Next, NEW c \in root, c \in root', ~registered[c]
                 PROVE  done'[c] = done[c] /\ got'[c] = got[c]
        OBVIOUS
    <2> USE DEF IInv
    <2>1. c \in Conn /\ running # c
        BY NoneAssumption DEF TypeOK, CallbackInv
    <2>2. done \in [Conn -> Nat] /\ got \in [Conn -> Nat]
        BY Numbers
    <2>3. ASSUME NEW d \in Conn, ClientStep(d) \/ Accept(d) \/ client_callback(d)
          PROVE  done' = done /\ got' = got
        BY <2>3, SMTT(20) DEF ClientStep, ClientRequest, ClientRest, ClientRead, ClientGone, Accept,
                    client_callback, bulk, out
    <2>4. ASSUME NEW d \in Conn, CallbackStep(d)
          PROVE  done'[c] = done[c] /\ got'[c] = got[c]
        <3>1. d # c
            BY <2>1, <2>4 DEF CallbackStep, Recv, RecvClosed, FormatBroken, RequestMoreData, Swallow,
                              ProcessRequest, EndMulti, Send, SendFailed
        <3>2. CASE Recv(d) \/ RequestMoreData(d) \/ Swallow(d) \/ ProcessRequest(d)
            BY <3>2 DEF Recv, RequestMoreData, Swallow, ProcessRequest, bulk, out
        <3>3. CASE EndMulti(d)
            BY <2>1, <2>2, <3>1, <3>3, SMTT(20) DEF EndMulti, out
        <3>4. CASE Send(d)
            BY <2>1, <2>2, <3>1, <3>4 DEF Send, bulk
        <3>5. CASE RecvClosed(d) \/ FormatBroken(d) \/ SendFailed(d)
            <4>1. conn_free({d})
                BY <3>5 DEF RecvClosed, FormatBroken, SendFailed, conn_close
            <4>2. {d} \in SUBSET Conn /\ c \notin {d} /\ TypeOK
                BY <2>4, <3>1
            <4>3. QED
                BY <2>1, <4>1, <4>2, ConnFreeEffect, Zenon
        <3>6. QED
            BY <2>4, <3>2, <3>3, <3>4, <3>5 DEF CallbackStep
    <2>5. CASE Quit
        <3>1. root' = root \ root
            BY <2>5 DEF Quit, conn_free
        <3>2. QED
            BY <3>1
    <2>6. QED
        BY <2>3, <2>4, <2>5 DEF Next
<1>2. QED
    BY <1>1, InvariantHolds, PTL DEF Spec, SuspendedIsSilent

=============================================================================
