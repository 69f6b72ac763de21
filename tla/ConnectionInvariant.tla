------------------------ MODULE ConnectionInvariant -------------------------
(***************************************************************************)
(* The inductive invariant of Connection, and the proof that the initial   *)
(* states satisfy it and that the clients and the event loop preserve it,  *)
(* for any number of connections, any request sizes within the assumptions *)
(* and any length of the history.                                          *)
(***************************************************************************)
EXTENDS Connection, TLAPS

InMulti(c) == running = c /\ pc = "multi"

\* Where the n-th of the requests s ends.
EndOf(s, n) == IF n = 0 THEN 0 ELSE s[n].end

\* The history of a stream: every request ends where the one before it ends,
\* plus its size, and so the ends grow.
StreamOK(s) ==
    /\ \A i \in 1 .. Len(s) :
          /\ s[i].end = EndOf(s, i - 1) + s[i].size
          /\ s[i].size >= HEADER_SIZE
          /\ s[i].kind # "bad" => s[i].size <= MAX_REQUEST_SIZE
    /\ \A i, j \in 0 .. Len(s) : i <= j => EndOf(s, i) <= EndOf(s, j)

Stream(c) == StreamOK(sent[c])

\* quiet_recv_off is the size of the bulk and the bulk is in recv_buf; every
\* request but the last was added while fewer than MAX_REQUEST_SIZE bytes
\* had been received.
BulkInv(c) ==
    /\ done[c] + requests[c] <= Len(sent[c])
    /\ quiet_recv_off[c] = EndOf(sent[c], done[c] + requests[c]) - EndOf(sent[c], done[c])
    /\ quiet_recv_off[c] <= recv_used[c]
    /\ requests[c] * HEADER_SIZE <= quiet_recv_off[c]
    /\ (requests[c] - 1) * HEADER_SIZE < MAX_REQUEST_SIZE
    /\ quiet_recv_off[c] < 2 * MAX_REQUEST_SIZE
    /\ ~InMulti(c) => quiet_recv_off[c] < MAX_REQUEST_SIZE

\* The callback: whose it is, and how far process_multi has come.
CallbackInv ==
    /\ running = None <=> pc = "idle"
    /\ pc # "multi" => handled = 0
    /\ running # None => handled <= requests[running] /\ registered[running] /\ alive

\* What send_buf holds follows what was sent.
AnswerInv(c) ==
    /\ got[c] + Len(send_buf[c]) = done[c] + (IF running = c THEN handled ELSE 0)
    /\ \A i \in 1 .. Len(send_buf[c]) : send_buf[c][i].id = got[c] + i

\* What the invariant says of one connection.
ConnInv(c) == Stream(c) /\ BulkInv(c) /\ AnswerInv(c)

\* The inductive invariant.
IInv ==
    /\ TypeOK
    /\ StopHasOneOwner
    /\ CallbackInv
    /\ \A c \in Conn : ConnInv(c)

Answering(c) == IF running = c THEN handled ELSE 0

-----------------------------------------------------------------------------
(* Facts used in several places.                                           *)

\* Offsets are numbers.
LEMMA EndType ==
    ASSUME NEW s \in Seq(SentType), NEW n \in 0 .. Len(s)
    PROVE  EndOf(s, n) \in Nat
<1>1. CASE n = 0
    BY <1>1 DEF EndOf
<1>2. CASE n # 0
    <2>1. s[n] \in SentType
        BY <1>2
    <2>2. QED
        BY <1>2, <2>1 DEF EndOf, SentType
<1>3. QED
    BY <1>1, <1>2

\* The counters of a connection are numbers.
LEMMA Numbers ==
    TypeOK => /\ done \in [Conn -> Nat] /\ got \in [Conn -> Nat] /\ requests \in [Conn -> Nat]
              /\ recv_used \in [Conn -> Nat] /\ quiet_recv_off \in [Conn -> Nat]
              /\ unread \in [Conn -> Nat] /\ handled \in Nat
BY Zenon DEF TypeOK

\* A client appends a request to its stream.
LEMMA AppendStream ==
    ASSUME NEW s \in Seq(SentType), StreamOK(s), NEW e \in SentType,
           e.end = EndOf(s, Len(s)) + e.size, e.size >= HEADER_SIZE,
           e.kind # "bad" => e.size <= MAX_REQUEST_SIZE,
           NEW t, t = Append(s, e)
    PROVE  /\ t \in Seq(SentType)
           /\ StreamOK(t)
           /\ Len(t) = Len(s) + 1
           /\ \A i \in 0 .. Len(s) : EndOf(t, i) = EndOf(s, i)
<1> DEFINE n == Len(s)
<1>1. /\ n \in Nat /\ t \in Seq(SentType) /\ Len(t) = n + 1
      /\ \A i \in 1 .. n : t[i] = s[i]
      /\ t[n + 1] = e
    OBVIOUS
<1>2. e.size \in Nat
    BY DEF SentType
<1>3. \A i \in 0 .. n : EndOf(s, i) \in Nat
    BY EndType
<1>4. \A i \in 0 .. n : EndOf(t, i) = EndOf(s, i)
    BY <1>1 DEF EndOf
<1>5. EndOf(t, n + 1) = EndOf(s, n) + e.size
    BY <1>1 DEF EndOf
<1>6. \A i \in 1 .. n : /\ s[i].end = EndOf(s, i - 1) + s[i].size
                        /\ s[i].size >= HEADER_SIZE
                        /\ s[i].kind # "bad" => s[i].size <= MAX_REQUEST_SIZE
    BY DEF StreamOK
<1>7. \A i, j \in 0 .. n : i <= j => EndOf(s, i) <= EndOf(s, j)
    BY DEF StreamOK
<1> HIDE DEF n
<1>8. ASSUME NEW i \in 1 .. n + 1
      PROVE  /\ t[i].end = EndOf(t, i - 1) + t[i].size
             /\ t[i].size >= HEADER_SIZE
             /\ t[i].kind # "bad" => t[i].size <= MAX_REQUEST_SIZE
    <2>1. CASE i = n + 1
        <3>1. i - 1 = n /\ t[i] = e /\ EndOf(t, n) = EndOf(s, n)
            BY <1>1, <1>4, <2>1
        <3>2. QED
            BY <3>1 DEF n
    <2>2. CASE i \in 1 .. n
        <3>1. t[i] = s[i] /\ EndOf(t, i - 1) = EndOf(s, i - 1)
            BY <1>1, <1>4, <2>2
        <3>2. QED
            BY <1>6, <2>2, <3>1
    <2>3. QED
        BY <1>1, <2>1, <2>2
<1>9. ASSUME NEW i \in 0 .. n + 1, NEW j \in 0 .. n + 1, i <= j
      PROVE  EndOf(t, i) <= EndOf(t, j)
    <2>1. CASE j \in 0 .. n
        <3>1. i \in 0 .. n
            BY <1>1, <1>9, <2>1
        <3>2. QED
            BY <1>4, <1>7, <1>9, <2>1, <3>1
    <2>2. CASE j = n + 1 /\ i \in 0 .. n
        <3>1. EndOf(s, i) <= EndOf(s, n) /\ EndOf(s, i) \in Nat /\ EndOf(s, n) \in Nat
            BY <1>1, <1>3, <1>7, <2>2
        <3>2. QED
            BY <1>2, <1>4, <1>5, <2>2, <3>1
    <2>3. CASE j = n + 1 /\ i = n + 1
        <3>1. EndOf(t, n + 1) \in Nat
            BY <1>1, <1>2, <1>3, <1>5
        <3>2. QED
            BY <2>3, <3>1
    <2>4. QED
        BY <1>1, <1>9, <2>1, <2>2, <2>3
<1>10. StreamOK(t)
    BY <1>1, <1>8, <1>9 DEF StreamOK
<1>11. QED
    BY <1>1, <1>4, <1>10 DEF n

\* A step that leaves the fields of a connection alone keeps its invariants.
LEMMA FrameConn ==
    ASSUME NEW c \in Conn, ConnInv(c),
           sent'[c] = sent[c], done'[c] = done[c], requests'[c] = requests[c],
           quiet_recv_off'[c] = quiet_recv_off[c], recv_used'[c] = recv_used[c],
           send_buf'[c] = send_buf[c], got'[c] = got[c],
           InMulti(c)' <=> InMulti(c), Answering(c)' = Answering(c)
    PROVE  ConnInv(c)'
<1>1. Stream(c)'
    BY DEF ConnInv, Stream
<1>2. BulkInv(c)'
    BY DEF ConnInv, BulkInv
<1>3. AnswerInv(c)'
    BY DEF ConnInv, AnswerInv, Answering
<1>4. QED
    BY <1>1, <1>2, <1>3 DEF ConnInv

\* A connection that is free has the invariants.
LEMMA FreeConn ==
    ASSUME NEW c \in Conn,
           sent'[c] = <<>>, done'[c] = 0, requests'[c] = 0,
           quiet_recv_off'[c] = 0, recv_used'[c] = 0,
           send_buf'[c] = <<>>, got'[c] = 0, Answering(c)' = 0
    PROVE  ConnInv(c)'
<1>1. Stream(c)'
    BY DEF Stream, StreamOK, EndOf
<1>2. BulkInv(c)'
    BY SizesAssumption DEF BulkInv, EndOf
<1>3. AnswerInv(c)'
    BY DEF AnswerInv, Answering
<1>4. QED
    BY <1>1, <1>2, <1>3 DEF ConnInv

\* While n requests of a bulk but one fit below the largest request, the bulk
\* has at most MAX_QUIET_REQUESTS of them.
LEMMA QuietBound ==
    ASSUME NEW n \in Nat, (n - 1) * HEADER_SIZE < MAX_REQUEST_SIZE
    PROVE  n <= MAX_QUIET_REQUESTS
<1> DEFINE q == MAX_REQUEST_SIZE \div HEADER_SIZE
<1>1. q \in Nat /\ MAX_REQUEST_SIZE < (q + 1) * HEADER_SIZE
    BY SizesAssumption
<1>2. SUFFICES ASSUME n > q + 1 PROVE FALSE
    BY <1>1 DEF MAX_QUIET_REQUESTS
<1>3. (n - 1) * HEADER_SIZE >= (q + 1) * HEADER_SIZE
    <2> HIDE DEF q
    <2>1. PICK k \in Nat : n - 1 = (q + 1) + k
        BY <1>1, <1>2
    <2>2. (n - 1) * HEADER_SIZE = (q + 1) * HEADER_SIZE + k * HEADER_SIZE
        BY <1>1, <2>1, SizesAssumption
    <2>3. k * HEADER_SIZE >= 0
        BY <2>1, SizesAssumption
    <2>4. QED
        BY <1>1, <2>2, <2>3, SizesAssumption
<1>4. QED
    BY <1>1, <1>3, SizesAssumption

-----------------------------------------------------------------------------
(* The initial states.                                                     *)

\* The invariant holds initially.
LEMMA InitIInv == Init => IInv
<1> SUFFICES ASSUME Init PROVE IInv
    OBVIOUS
<1>1. TypeOK
    <2>1. sent \in [Conn -> Seq(SentType)] /\ send_buf \in [Conn -> Seq([id : Nat, size : Nat])]
        BY DEF Init
    <2>2. /\ unsent \in [Conn -> Nat] /\ sock \in [Conn -> Nat] /\ unread \in [Conn -> Nat]
          /\ recv_used \in [Conn -> Nat] /\ quiet_recv_off \in [Conn -> Nat]
          /\ requests \in [Conn -> Nat] /\ done \in [Conn -> Nat] /\ got \in [Conn -> Nat]
        BY DEF Init
    <2>3. /\ peer \in [Conn -> {"up", "fin", "rst"}]
          /\ registered \in [Conn -> BOOLEAN] /\ write_only \in [Conn -> BOOLEAN]
        BY DEF Init
    <2>4. QED
        BY <2>1, <2>2, <2>3, Zenon DEF Init, TypeOK
<1>2. StopHasOneOwner
    BY DEF Init, StopHasOneOwner
<1>3. CallbackInv
    BY DEF Init, CallbackInv
<1>4. ASSUME NEW c \in Conn PROVE ConnInv(c)
    <2>1. Stream(c)
        BY <1>4 DEF Init, Stream, StreamOK, EndOf
    <2>2. BulkInv(c)
        BY <1>4, SizesAssumption DEF Init, BulkInv, EndOf
    <2>3. AnswerInv(c)
        BY <1>4, NoneAssumption DEF Init, AnswerInv
    <2>4. QED
        BY <2>1, <2>2, <2>3 DEF ConnInv
<1>5. QED
    BY <1>1, <1>2, <1>3, <1>4 DEF IInv

-----------------------------------------------------------------------------
(* The clients.                                                            *)

\* A client extends its stream by a request; the bulk lies before it.
LEMMA ClientRequestIInv ==
    ASSUME IInv, NEW c \in Conn, ClientRequest(c)
    PROVE  IInv'
<1> USE DEF IInv
<1>1. PICK r \in Requests : \E k \in 1 .. r.size :
        /\ sent' = [sent EXCEPT ![c] =
                       Append(@, [kind |-> r.kind, quiet |-> r.quiet, size |-> r.size,
                                  end |-> End(c, Len(sent[c])) + r.size])]
        /\ sock' = [sock EXCEPT ![c] = @ + k]
        /\ unsent' = [unsent EXCEPT ![c] = r.size - k]
    BY Zenon DEF ClientRequest
<1>2. /\ r.kind \in {"cmd", "stop", "start", "bad"} /\ r.quiet \in BOOLEAN /\ r.size \in Nat
      /\ r.size >= HEADER_SIZE /\ (r.kind # "bad" => r.size <= MAX_REQUEST_SIZE)
    BY RequestsAssumption DEF RequestType
<1> DEFINE new == [kind |-> r.kind, quiet |-> r.quiet, size |-> r.size,
                   end |-> EndOf(sent[c], Len(sent[c])) + r.size]
<1>3. /\ sent \in [Conn -> Seq(SentType)]
      /\ sent' = [sent EXCEPT ![c] = Append(sent[c], new)]
    BY <1>1 DEF TypeOK, End, EndOf
<1>4. /\ new \in SentType /\ new.end = EndOf(sent[c], Len(sent[c])) + new.size
      /\ new.size >= HEADER_SIZE /\ (new.kind # "bad" => new.size <= MAX_REQUEST_SIZE)
    <2>1. EndOf(sent[c], Len(sent[c])) \in Nat
        BY <1>3, EndType
    <2>2. QED
        BY <1>2, <2>1 DEF SentType
<1> HIDE DEF new
<1>5. /\ sent'[c] \in Seq(SentType)
      /\ StreamOK(sent'[c])
      /\ Len(sent'[c]) = Len(sent[c]) + 1
      /\ \A i \in 0 .. Len(sent[c]) : EndOf(sent'[c], i) = EndOf(sent[c], i)
    <2>1. sent[c] \in Seq(SentType) /\ StreamOK(sent[c])
        BY <1>3 DEF ConnInv, Stream
    <2>2. sent'[c] = Append(sent[c], new)
        BY <1>3
    <2>3. QED
        BY <1>4, <2>1, <2>2, AppendStream, Zenon
<1>6. TypeOK'
    <2>1. sent' \in [Conn -> Seq(SentType)]
        BY <1>3, <1>5
    <2>2. PICK k \in 1 .. r.size : /\ sock' = [sock EXCEPT ![c] = @ + k]
                                  /\ unsent' = [unsent EXCEPT ![c] = r.size - k]
        BY <1>1, Zenon
    <2>3. k \in Nat /\ r.size - k \in Nat
        BY <1>2, <2>2
    <2>4. sock' \in [Conn -> Nat] /\ unsent' \in [Conn -> Nat]
        BY <2>2, <2>3 DEF TypeOK
    <2>5. QED
        BY <2>1, <2>4, Zenon DEF TypeOK, ClientRequest, bulk, out, events, callback
<1>7. StopHasOneOwner' /\ CallbackInv'
    BY DEF ClientRequest, StopHasOneOwner, CallbackInv, bulk, events, callback
<1>8. ASSUME NEW d \in Conn, d # c PROVE ConnInv(d)'
    <2>1. sent'[d] = sent[d]
        BY <1>3, <1>8
    <2>2. QED
        BY <1>8, <2>1, FrameConn
        DEF ClientRequest, InMulti, Answering, bulk, out, callback
<1>9. ConnInv(c)'
    <2>2. Stream(c)'
        BY <1>5 DEF Stream
    <2>3. BulkInv(c)'
        <3>1. /\ done[c] \in Nat /\ requests[c] \in Nat /\ Len(sent[c]) \in Nat
              /\ done[c] + requests[c] <= Len(sent[c])
            BY <1>3 DEF TypeOK, ConnInv, BulkInv
        <3>2. done[c] \in 0 .. Len(sent[c]) /\ done[c] + requests[c] \in 0 .. Len(sent[c])
            BY <3>1
        <3>3. /\ EndOf(sent'[c], done[c]) = EndOf(sent[c], done[c])
              /\ EndOf(sent'[c], done[c] + requests[c]) = EndOf(sent[c], done[c] + requests[c])
              /\ done[c] + requests[c] <= Len(sent'[c])
            BY <1>5, <3>1, <3>2
        <3>4. /\ done' = done /\ requests' = requests /\ recv_used' = recv_used
              /\ quiet_recv_off' = quiet_recv_off /\ (InMulti(c)' <=> InMulti(c))
            BY DEF ClientRequest, bulk, callback, InMulti
        <3>5. QED
            BY <3>3, <3>4 DEF ConnInv, BulkInv
    <2>4. AnswerInv(c)'
        BY DEF ConnInv, AnswerInv, ClientRequest, bulk, out, callback
    <2>5. QED
        BY <2>2, <2>3, <2>4 DEF ConnInv
<1>10. QED
    BY <1>6, <1>7, <1>8, <1>9

\* The rest of a request arrives in the socket.
LEMMA ClientRestIInv ==
    ASSUME IInv, NEW c \in Conn, ClientRest(c)
    PROVE  IInv'
<1> USE DEF IInv
<1>1. TypeOK'
    <2>1. sock' \in [Conn -> Nat] /\ unsent' \in [Conn -> Nat]
        BY DEF TypeOK, ClientRest
    <2>2. QED
        BY <2>1, Zenon DEF TypeOK, ClientRest, bulk, out, events, callback
<1>2. StopHasOneOwner' /\ CallbackInv'
    BY DEF ClientRest, StopHasOneOwner, CallbackInv, bulk, events, callback
<1>3. ASSUME NEW d \in Conn PROVE ConnInv(d)'
    BY FrameConn DEF ClientRest, InMulti, Answering, bulk, out, callback
<1>4. QED
    BY <1>1, <1>2, <1>3

\* A client reads a response.
LEMMA ClientReadIInv ==
    ASSUME IInv, NEW c \in Conn, ClientRead(c)
    PROVE  IInv'
<1> USE DEF IInv
<1>1. TypeOK'
    <2>1. unread' \in [Conn -> Nat]
        BY DEF TypeOK, ClientRead
    <2>2. QED
        BY <2>1, Zenon DEF TypeOK, ClientRead, bulk, out, events, callback
<1>2. StopHasOneOwner' /\ CallbackInv'
    BY DEF ClientRead, StopHasOneOwner, CallbackInv, bulk, events, callback
<1>3. ASSUME NEW d \in Conn PROVE ConnInv(d)'
    BY FrameConn DEF ClientRead, InMulti, Answering, bulk, out, callback
<1>4. QED
    BY <1>1, <1>2, <1>3

\* A client shuts down or is lost.
LEMMA ClientGoneIInv ==
    ASSUME IInv, NEW c \in Conn, ClientGone(c)
    PROVE  IInv'
<1> USE DEF IInv
<1>1. TypeOK'
    BY Zenon DEF TypeOK, ClientGone, bulk, out, events, callback
<1>2. StopHasOneOwner' /\ CallbackInv'
    BY DEF ClientGone, StopHasOneOwner, CallbackInv, bulk, events, callback
<1>3. ASSUME NEW d \in Conn PROVE ConnInv(d)'
    BY FrameConn DEF ClientGone, InMulti, Answering, bulk, out, callback
<1>4. QED
    BY <1>1, <1>2, <1>3

-----------------------------------------------------------------------------
(* The event loop.                                                         *)

\* conn_new registers a connection exactly when the server is not stopped.
LEMMA AcceptIInv ==
    ASSUME IInv, NEW c \in Conn, Accept(c)
    PROVE  IInv'
<1> USE DEF IInv
<1>1. TypeOK'
    BY Zenon DEF TypeOK, Accept, RegisterNew, client, bulk, out, callback
<1>2. StopHasOneOwner'
    <2>1. CASE stopped
        <3>1. PICK o \in root : \A d \in Conn : registered[d] <=> d = o
            BY <2>1 DEF StopHasOneOwner, Accept
        <3>2. \A d \in Conn : registered'[d] <=> d = o
            BY <2>1, <3>1, Zenon DEF Accept, RegisterNew, TypeOK
        <3>3. QED
            BY <2>1, <3>2 DEF Accept, StopHasOneOwner
    <2>2. CASE ~stopped
        BY <2>2, Zenon DEF Accept, RegisterNew, StopHasOneOwner, TypeOK
    <2>3. QED
        BY <2>1, <2>2
<1>3. CallbackInv'
    BY DEF Accept, CallbackInv, bulk, callback
<1>4. ASSUME NEW d \in Conn PROVE ConnInv(d)'
    BY FrameConn DEF Accept, InMulti, Answering, client, bulk, out, callback
<1>5. QED
    BY <1>1, <1>2, <1>3, <1>4

\* client_callback starts only on a registered connection.
LEMMA ClientCallbackIInv ==
    ASSUME IInv, NEW c \in Conn, client_callback(c)
    PROVE  IInv'
<1> USE DEF IInv
<1>1. TypeOK'
    BY Zenon DEF TypeOK, client_callback, client, bulk, out, events
<1>2. StopHasOneOwner'
    BY DEF client_callback, StopHasOneOwner, events
<1>3. pc = "idle" /\ handled = 0 /\ pc' \in {"recv", "send"} /\ running' = c /\ handled' = 0
    BY DEF client_callback, CallbackInv
<1>4. CallbackInv'
    BY <1>3, NoneAssumption, SMTT(20) DEF client_callback, InLoop, CallbackInv, TypeOK, bulk, events
<1>5. ASSUME NEW d \in Conn PROVE ConnInv(d)'
    <2>1. Answering(d)' = Answering(d)
        BY <1>3 DEF Answering
    <2>2. InMulti(d)' <=> InMulti(d)
        BY <1>3 DEF InMulti
    <2>3. QED
        BY <2>1, <2>2, FrameConn DEF client_callback, client, bulk, out
<1>6. QED
    BY <1>1, <1>2, <1>4, <1>5

\* conn_free empties the connections cs and leaves the others alone.
LEMMA ConnFreeEffect ==
    ASSUME TypeOK, NEW cs \in SUBSET Conn, conn_free(cs), NEW d \in Conn
    PROVE  /\ d \in cs => /\ sent'[d] = <<>> /\ done'[d] = 0 /\ requests'[d] = 0
                          /\ quiet_recv_off'[d] = 0 /\ recv_used'[d] = 0
                          /\ send_buf'[d] = <<>> /\ got'[d] = 0
           /\ d \notin cs => /\ sent'[d] = sent[d] /\ done'[d] = done[d]
                             /\ requests'[d] = requests[d]
                             /\ quiet_recv_off'[d] = quiet_recv_off[d]
                             /\ recv_used'[d] = recv_used[d]
                             /\ send_buf'[d] = send_buf[d] /\ got'[d] = got[d]
BY DEF conn_free

\* The types after conn_free.
LEMMA ConnFreeType ==
    ASSUME TypeOK, NEW cs \in SUBSET Conn, conn_free(cs)
    PROVE  /\ sent' \in [Conn -> Seq(SentType)]
           /\ unsent' \in [Conn -> Nat] /\ sock' \in [Conn -> Nat] /\ unread' \in [Conn -> Nat]
           /\ peer' \in [Conn -> {"up", "fin", "rst"}]
           /\ root' \subseteq Conn /\ write_only' \in [Conn -> BOOLEAN]
           /\ recv_used' \in [Conn -> Nat] /\ quiet_recv_off' \in [Conn -> Nat]
           /\ requests' \in [Conn -> Nat] /\ done' \in [Conn -> Nat] /\ got' \in [Conn -> Nat]
           /\ send_buf' \in [Conn -> Seq([id : Nat, size : Nat])]
<1>1. sent' \in [Conn -> Seq(SentType)]
    BY DEF conn_free, TypeOK
<1>2. send_buf' \in [Conn -> Seq([id : Nat, size : Nat])]
    BY DEF conn_free, TypeOK
<1>3. /\ unsent' \in [Conn -> Nat] /\ sock' \in [Conn -> Nat] /\ unread' \in [Conn -> Nat]
      /\ recv_used' \in [Conn -> Nat] /\ quiet_recv_off' \in [Conn -> Nat]
      /\ requests' \in [Conn -> Nat] /\ done' \in [Conn -> Nat] /\ got' \in [Conn -> Nat]
    BY DEF conn_free, TypeOK
<1>4. /\ peer' \in [Conn -> {"up", "fin", "rst"}]
      /\ root' \subseteq Conn /\ write_only' \in [Conn -> BOOLEAN]
    BY Zenon DEF conn_free, TypeOK
<1>5. QED
    BY <1>1, <1>2, <1>3, <1>4

\* conn_close by the connection whose callback runs: when the server is
\* stopped that connection owns the stop, so all the others resume.
LEMMA ConnCloseIInv ==
    ASSUME IInv, NEW c \in Conn, running = c, conn_close(c)
    PROVE  IInv'
<1> USE DEF IInv
<1>1. registered[c] /\ alive /\ running # None /\ c \in root
    BY NoneAssumption DEF CallbackInv, StopHasOneOwner
<1>2. running' = None /\ pc' = "idle" /\ handled' = 0 /\ written' = FALSE /\ alive' = alive
    BY DEF conn_close, Return
<1>3. registered' \in [Conn -> BOOLEAN] /\ stopped' \in BOOLEAN
    <2>1. conn_start \in [Conn -> BOOLEAN] /\ registered \in [Conn -> BOOLEAN]
        BY DEF conn_start, TypeOK
    <2>2. registered' = [conn_start EXCEPT ![c] = FALSE] \/ registered' = [registered EXCEPT ![c] = FALSE]
        BY Zenon DEF conn_close
    <2>3. stopped' \in BOOLEAN
        BY DEF conn_close
    <2>4. QED
        BY <2>1, <2>2, <2>3, Zenon
<1>4. TypeOK'
    BY <1>2, <1>3, ConnFreeType, Zenon DEF TypeOK, conn_close
<1>5. StopHasOneOwner'
    <2>1. stopped' = FALSE /\ root' = root \ {c}
        BY <1>1, Zenon DEF conn_close, Resumes, conn_free
    <2>2. \A d \in Conn : registered'[d] <=> d \in root /\ d # c
        BY <1>1, Zenon DEF conn_close, Resumes, conn_start, StopHasOneOwner, TypeOK
    <2>3. QED
        BY <2>1, <2>2 DEF StopHasOneOwner
<1>6. CallbackInv'
    BY <1>2 DEF CallbackInv
<1>7. ASSUME NEW d \in Conn PROVE ConnInv(d)'
    <2>1. Answering(d)' = 0 /\ ~InMulti(d)'
        BY <1>2, NoneAssumption DEF Answering, InMulti
    <2>2. CASE d = c
        BY <2>1, <2>2, ConnFreeEffect, FreeConn DEF conn_close
    <2>3. CASE d # c
        <3>1. Answering(d) = 0 /\ ~InMulti(d)
            BY <2>3 DEF Answering, InMulti
        <3>2. QED
            BY <2>1, <2>3, <3>1, ConnFreeEffect, FrameConn DEF conn_close
    <2>4. QED
        BY <2>2, <2>3
<1>8. QED
    BY <1>4, <1>5, <1>6, <1>7

\* do_event_loop ends between callbacks and frees every connection.
LEMMA QuitIInv ==
    ASSUME IInv, Quit
    PROVE  IInv'
<1> USE DEF IInv
<1>1. running = None /\ pc = "idle" /\ handled = 0
    BY DEF Quit, CallbackInv
<1>2. running' = None /\ pc' = "idle" /\ handled' = 0 /\ written' = written /\ alive' = FALSE
    BY <1>1 DEF Quit, callback
<1>3. TypeOK'
    <2>1. root \in SUBSET Conn /\ registered' \in [Conn -> BOOLEAN] /\ stopped' \in BOOLEAN
        BY DEF Quit, TypeOK
    <2>2. QED
        BY <1>2, <2>1, ConnFreeType, Zenon DEF TypeOK, Quit
<1>4. StopHasOneOwner' /\ CallbackInv'
    BY <1>2 DEF StopHasOneOwner, CallbackInv
<1>5. ASSUME NEW d \in Conn PROVE ConnInv(d)'
    <2>1. /\ Answering(d)' = 0 /\ ~InMulti(d)' /\ Answering(d) = 0 /\ ~InMulti(d)
          /\ root \in SUBSET Conn
        BY <1>1, <1>2, NoneAssumption, SMTT(20) DEF Answering, InMulti, TypeOK
    <2>2. CASE d \in root
        BY <2>1, <2>2, ConnFreeEffect, FreeConn DEF Quit
    <2>3. CASE d \notin root
        BY <2>1, <2>3, ConnFreeEffect, FrameConn DEF Quit
    <2>4. QED
        BY <2>2, <2>3
<1>6. QED
    BY <1>3, <1>4, <1>5

=============================================================================
