----------------------------- MODULE Connection -----------------------------
(***************************************************************************)
(* Client connections of the smalltable server and of smalltable-proxy:    *)
(* src/src/connection.c, driven by the callbacks of src/src/event_loop.c,  *)
(* with the STOP and START commands of src/src/proxy_sys_command.c.        *)
(*                                                                         *)
(* The event loop has one thread: it dispatches one callback, for the      *)
(* connection `running', and the callback runs to its end while clients    *)
(* and the network go on.  pc says where the callback is:                  *)
(*                                                                         *)
(*   "recv"     at retry_recv in conn_recv                                 *)
(*   "swallow"  at swallow_next_request in conn_recv                       *)
(*   "multi"    inside server->process_multi, one request per step         *)
(*   "send"     at the top of conn_send                                    *)
(*                                                                         *)
(* Byte streams are kept as byte counts against the history `sent' of the  *)
(* requests a client wrote, each with the offset in the stream where it    *)
(* ends; a response is the number of its request.                          *)
(***************************************************************************)
EXTENDS Integers, Sequences, Functions

CONSTANTS
    Conn,               \* connections clients may open
    HEADER_SIZE,        \* MEMCACHE_HEADER_SIZE
    MAX_REQUEST_SIZE,   \* size of the largest sane request
    Requests,           \* requests clients may send, see RequestType
    ResponseSizes,      \* sizes in bytes of the responses
    MaxSent,            \* bound: requests the client of each connection sends
    Window              \* responses the kernel holds for a client that does not read

\* kind: "cmd" any command that leaves the server alone, "stop" and "start"
\* the proxy commands, "bad" a frame that fails the sanity checks.
RequestType == [kind : {"cmd", "stop", "start", "bad"}, quiet : BOOLEAN, size : Nat]

ASSUME SizesAssumption ==
    /\ HEADER_SIZE \in Nat \ {0}
    /\ MAX_REQUEST_SIZE \in Nat
    /\ MAX_REQUEST_SIZE >= HEADER_SIZE

ASSUME RequestsAssumption ==
    /\ Requests \subseteq RequestType
    /\ \A r \in Requests : /\ r.size >= HEADER_SIZE
                           /\ r.kind # "bad" => r.size <= MAX_REQUEST_SIZE

ASSUME BoundsAssumption ==
    /\ ResponseSizes \subseteq Nat
    /\ MaxSent \in [Conn -> Nat]
    /\ Window \in Nat \ {0}

MAX_QUIET_REQUESTS == (MAX_REQUEST_SIZE \div HEADER_SIZE) + 1

None == "none"      \* no callback is running
ASSUME NoneAssumption == None \notin Conn

VARIABLES
    \* clients and the network
    sent,           \* requests the client began to write, in order, with their end offsets
    unsent,         \* bytes of the last of them that it still has to write
    sock,           \* bytes the server may recv()
    peer,           \* "up", "fin" (the client sends no more), "rst" (connection lost)
    unread,         \* responses in the kernel that the client has not read
    \* struct server and struct connection
    stopped,        \* server->stopped
    root,           \* server->root: the connections that exist
    registered,     \* event.flag_registered
    write_only,     \* event.flag_write_only
    recv_used,      \* bytes in recv_buf
    quiet_recv_off, \* bytes at the front of recv_buf that belong to the bulk
    requests,       \* requests in the bulk
    send_buf,       \* responses waiting in send_buf: [id, size]
    \* history
    done,           \* requests consumed from recv_buf
    got,            \* responses handed to the kernel
    \* the running callback
    running, pc, written,
    handled,        \* requests of the bulk that process_multi has answered
    alive           \* FALSE once the event loop has been left

client == <<sent, unsent, sock, peer, unread>>
bulk == <<recv_used, quiet_recv_off, requests, done>>
out == <<send_buf, got>>
events == <<stopped, root, registered, write_only>>
callback == <<running, pc, written, handled>>
vars == <<client, bulk, out, events, callback, alive>>

-----------------------------------------------------------------------------
Init ==
    /\ sent = [c \in Conn |-> <<>>]
    /\ unsent = [c \in Conn |-> 0]
    /\ sock = [c \in Conn |-> 0]
    /\ peer = [c \in Conn |-> "up"]
    /\ unread = [c \in Conn |-> 0]
    /\ stopped = FALSE
    /\ root = {}
    /\ registered = [c \in Conn |-> FALSE]
    /\ write_only = [c \in Conn |-> FALSE]
    /\ recv_used = [c \in Conn |-> 0]
    /\ quiet_recv_off = [c \in Conn |-> 0]
    /\ requests = [c \in Conn |-> 0]
    /\ send_buf = [c \in Conn |-> <<>>]
    /\ done = [c \in Conn |-> 0]
    /\ got = [c \in Conn |-> 0]
    /\ running = None /\ pc = "idle" /\ written = FALSE /\ handled = 0
    /\ alive = TRUE

-----------------------------------------------------------------------------
(* The clients and the network.                                            *)

\* Offset in the stream of c at which its n-th request ends.
End(c, n) == IF n = 0 THEN 0 ELSE sent[c][n].end

\* The client starts to write its next request; its first k bytes arrive.
ClientRequest(c) ==
    /\ c \in root /\ peer[c] = "up"
    /\ unsent[c] = 0 /\ Len(sent[c]) < MaxSent[c]
    /\ \E r \in Requests : \E k \in 1 .. r.size :
          /\ sent' = [sent EXCEPT ![c] =
                         Append(@, [kind |-> r.kind, quiet |-> r.quiet, size |-> r.size,
                                    end |-> End(c, Len(sent[c])) + r.size])]
          /\ sock' = [sock EXCEPT ![c] = @ + k]
          /\ unsent' = [unsent EXCEPT ![c] = r.size - k]
    /\ UNCHANGED <<peer, unread, bulk, out, events, callback, alive>>

\* The rest of the last request arrives.
ClientRest(c) ==
    /\ c \in root /\ peer[c] = "up" /\ unsent[c] > 0
    /\ sock' = [sock EXCEPT ![c] = @ + unsent[c]]
    /\ unsent' = [unsent EXCEPT ![c] = 0]
    /\ UNCHANGED <<sent, peer, unread, bulk, out, events, callback, alive>>

ClientRead(c) ==
    /\ c \in root /\ peer[c] # "rst" /\ unread[c] > 0
    /\ unread' = [unread EXCEPT ![c] = @ - 1]
    /\ UNCHANGED <<sent, unsent, sock, peer, bulk, out, events, callback, alive>>

\* The client shuts its side down (it may still read), or is lost.
ClientGone(c) ==
    /\ c \in root
    /\ \/ peer[c] = "up" /\ peer' = [peer EXCEPT ![c] = "fin"]
       \/ peer[c] # "rst" /\ peer' = [peer EXCEPT ![c] = "rst"]
    /\ UNCHANGED <<sent, unsent, sock, unread, bulk, out, events, callback, alive>>

-----------------------------------------------------------------------------
(* The event loop.                                                         *)

Return == running' = None /\ pc' = "idle" /\ written' = FALSE /\ handled' = 0

Goto(label) == pc' = label /\ UNCHANGED <<running, handled>>

\* Mutant: conn_new registers although the server is stopped.
RegisterNew_Always == TRUE

RegisterNew == ~stopped

\* server_callback and conn_new.
Accept(c) ==
    /\ alive /\ running = None /\ c \notin root
    /\ root' = root \cup {c}
    /\ registered' = [registered EXCEPT ![c] = RegisterNew]
    /\ UNCHANGED <<client, bulk, out, stopped, write_only, callback, alive>>

\* libevent finds the descriptor ready for what the connection waits for.
ReadReady(c) == ~write_only[c] /\ (sock[c] > 0 \/ peer[c] # "up")
WriteReady(c) == write_only[c] /\ (unread[c] < Window \/ peer[c] = "rst")

\* Mutant: unregistering leaves the event in libevent.
InLoop_Unregistered(c) == c \in root

InLoop(c) == registered[c]

client_callback(c) ==
    /\ alive /\ running = None /\ InLoop(c)
    /\ \/ ReadReady(c) /\ pc' = "recv"
       \/ WriteReady(c) /\ pc' = "send"
    /\ running' = c
    /\ UNCHANGED <<client, bulk, out, events, written, handled, alive>>

\* The registration of every connection after conn_start(server).
conn_start == [d \in Conn |-> d \in root]

\* The registration of every connection after conn_stop(server, c).
conn_stop(c) == [d \in Conn |-> d = c /\ registered[c]]

\* conn_free of the connections cs; their sockets and their history go too.
conn_free(cs) ==
    LET Forget(f, v) == [c \in Conn |-> IF c \in cs THEN v ELSE f[c]] IN
    /\ root' = root \ cs
    /\ write_only' = Forget(write_only, FALSE)
    /\ recv_used' = Forget(recv_used, 0) /\ quiet_recv_off' = Forget(quiet_recv_off, 0)
    /\ requests' = Forget(requests, 0) /\ done' = Forget(done, 0)
    /\ send_buf' = Forget(send_buf, <<>>) /\ got' = Forget(got, 0)
    /\ sent' = Forget(sent, <<>>) /\ unsent' = Forget(unsent, 0)
    /\ sock' = Forget(sock, 0) /\ unread' = Forget(unread, 0) /\ peer' = Forget(peer, "up")

\* Mutant: closing the owner of the stop does not resume.
Resumes_Never(c) == FALSE

Resumes(c) == stopped /\ registered[c]

\* conn_close and the end of the callback that called it.
conn_close(c) ==
    /\ stopped' = (stopped /\ ~Resumes(c))
    /\ registered' = [IF Resumes(c) THEN conn_start ELSE registered EXCEPT ![c] = FALSE]
    /\ conn_free({c})
    /\ Return
    /\ UNCHANGED alive

\* signal_quit, then conn_free_all at the end of do_event_loop.
Quit ==
    /\ alive /\ running = None
    /\ alive' = FALSE
    /\ stopped' = (stopped /\ \A c \in root : ~registered[c])
    /\ registered' = [c \in Conn |-> FALSE]
    /\ conn_free(root)
    /\ UNCHANGED callback

-----------------------------------------------------------------------------
(* conn_recv.                                                              *)

\* recv() until the socket is drained: the buffer grows when it is full.
Recv(c) ==
    /\ running = c /\ pc = "recv"
    /\ sock[c] > 0 \/ peer[c] = "up"
    /\ recv_used' = [recv_used EXCEPT ![c] = @ + sock[c]]
    /\ sock' = [sock EXCEPT ![c] = 0]
    /\ written' = FALSE /\ Goto("swallow")
    /\ UNCHANGED <<sent, unsent, peer, unread, quiet_recv_off, requests, done, out, events, alive>>

\* recv() returns 0 or an error other than EAGAIN; with bytes in the socket
\* too, when they filled the buffer and the next recv() finds the end.
RecvClosed(c) ==
    /\ running = c /\ pc = "recv"
    /\ peer[c] # "up"
    /\ conn_close(c)

NextRequest(c) == sent[c][done[c] + requests[c] + 1]

\* reqbuf_get_sane_request_sz answers 0 until the whole request is there,
\* and only then looks at its magic and its lengths.
NeedMoreData(c) ==
    done[c] + requests[c] < Len(sent[c]) =>
        recv_used[c] - quiet_recv_off[c] < NextRequest(c).size

FormatBroken(c) ==
    /\ running = c /\ pc = "swallow" /\ ~NeedMoreData(c)
    /\ NextRequest(c).kind = "bad"
    /\ conn_close(c)

RequestMoreData(c) ==
    /\ running = c /\ pc = "swallow" /\ NeedMoreData(c)
    /\ IF written THEN Goto("send") /\ UNCHANGED written ELSE Return
    /\ UNCHANGED <<client, bulk, out, events, alive>>

\* Mutant: no limit on the bytes collected.
KeepCollecting_NoByteLimit(c) == NextRequest(c).quiet /\ requests[c] < MAX_QUIET_REQUESTS

\* The condition under which the bulk stays open for another request.
KeepCollecting(c) ==
    /\ NextRequest(c).quiet
    /\ recv_used[c] < MAX_REQUEST_SIZE
    /\ requests[c] < MAX_QUIET_REQUESTS

Swallow(c) ==
    /\ running = c /\ pc = "swallow" /\ ~NeedMoreData(c)
    /\ NextRequest(c).kind # "bad"
    /\ quiet_recv_off' = [quiet_recv_off EXCEPT ![c] = @ + NextRequest(c).size]
    /\ requests' = [requests EXCEPT ![c] = @ + 1]
    /\ Goto(IF KeepCollecting(c) THEN "swallow" ELSE "multi")
    /\ UNCHANGED <<client, recv_used, done, out, events, written, alive>>

\* process_multi answers the next request of the bulk; cmd_stop and cmd_start
\* change the server, a START that finds it running answers with an error.
ProcessRequest(c) ==
    /\ running = c /\ pc = "multi" /\ handled < requests[c]
    /\ LET r == sent[c][done[c] + handled + 1]
           starts == r.kind = "start" /\ stopped
       IN  /\ stopped' = (r.kind = "stop" \/ (stopped /\ ~starts))
           /\ registered' = CASE r.kind = "stop" -> conn_stop(c)
                              [] starts -> conn_start
                              [] OTHER -> registered
    /\ \E n \in ResponseSizes :
          send_buf' = [send_buf EXCEPT ![c] =
                          Append(@, [id |-> done[c] + handled + 1, size |-> n])]
    /\ handled' = handled + 1
    /\ UNCHANGED <<client, bulk, got, root, write_only, running, pc, written, alive>>

Used(responses) == FoldFunction(+, 0, [i \in DOMAIN responses |-> responses[i].size])

\* Mutant: the consumed bytes are counted from the start of the stream.
Consumed_FromStart(c) == End(c, done[c] + handled)

Consumed(c) == End(c, done[c] + handled) - End(c, done[c])

\* process_multi returns: it consumed the whole bulk, or (the proxy, when the
\* bulk needs too many back-ends) a non-empty part of it.
EndMulti(c) ==
    /\ running = c /\ pc = "multi" /\ handled > 0
    /\ recv_used' = [recv_used EXCEPT ![c] = @ - Consumed(c)]
    /\ done' = [done EXCEPT ![c] = @ + handled]
    /\ quiet_recv_off' = [quiet_recv_off EXCEPT ![c] = 0]
    /\ requests' = [requests EXCEPT ![c] = 0]
    /\ written' = TRUE /\ handled' = 0
    /\ pc' = IF Used(send_buf[c]) >= MAX_REQUEST_SIZE THEN "send" ELSE "swallow"
    /\ UNCHANGED <<client, out, events, running, alive>>

-----------------------------------------------------------------------------
(* conn_send.                                                              *)

\* Mutant: the buffer is released after a partial send.
Left_Dropped(c, n) == <<>>

\* buf_consume of what send() took.
Left(c, n) == SubSeq(send_buf[c], n + 1, Len(send_buf[c]))

\* Mutant: conn_send never goes back to reading.
ReadOn_Never(c) == FALSE

ReadOn(c) == recv_used[c] > 0

\* send() takes what the kernel has room for; when all is gone the callback
\* reads again if recv_buf holds anything.
Send(c) ==
    /\ running = c /\ pc = "send"
    /\ peer[c] # "rst" \/ send_buf[c] = <<>>
    /\ \E n \in 0 .. Len(send_buf[c]) :
          /\ n = Len(send_buf[c]) \/ unread[c] + n = Window
          /\ unread[c] + n <= Window
          /\ send_buf' = [send_buf EXCEPT ![c] = Left(c, n)]
          /\ unread' = [unread EXCEPT ![c] = @ + n]
          /\ got' = [got EXCEPT ![c] = @ + n]
          /\ write_only' = [write_only EXCEPT ![c] = Left(c, n) # <<>>]
          /\ IF Left(c, n) = <<>> /\ ReadOn(c)
             THEN Goto("recv") /\ UNCHANGED written
             ELSE Return
    /\ UNCHANGED <<sent, unsent, sock, peer, bulk, stopped, root, registered, alive>>

SendFailed(c) ==
    /\ running = c /\ pc = "send"
    /\ peer[c] = "rst" /\ send_buf[c] # <<>>
    /\ conn_close(c)

-----------------------------------------------------------------------------
ClientStep(c) == ClientRequest(c) \/ ClientRest(c) \/ ClientRead(c) \/ ClientGone(c)

CallbackStep(c) ==
    \/ Recv(c) \/ RecvClosed(c)
    \/ FormatBroken(c) \/ RequestMoreData(c) \/ Swallow(c)
    \/ ProcessRequest(c) \/ EndMulti(c)
    \/ Send(c) \/ SendFailed(c)

Next ==
    \/ \E c \in Conn : ClientStep(c) \/ Accept(c) \/ client_callback(c) \/ CallbackStep(c)
    \/ Quit

Spec == Init /\ [][Next]_vars

-----------------------------------------------------------------------------
(* Properties.                                                             *)

SentType == [kind : {"cmd", "stop", "start", "bad"}, quiet : BOOLEAN, size : Nat, end : Nat]

\* Types of the state.
TypeOK ==
    /\ sent \in [Conn -> Seq(SentType)]
    /\ unsent \in [Conn -> Nat] /\ sock \in [Conn -> Nat] /\ unread \in [Conn -> Nat]
    /\ peer \in [Conn -> {"up", "fin", "rst"}]
    /\ stopped \in BOOLEAN
    /\ root \subseteq Conn
    /\ registered \in [Conn -> BOOLEAN] /\ write_only \in [Conn -> BOOLEAN]
    /\ recv_used \in [Conn -> Nat] /\ quiet_recv_off \in [Conn -> Nat]
    /\ requests \in [Conn -> Nat] /\ done \in [Conn -> Nat] /\ got \in [Conn -> Nat]
    /\ send_buf \in [Conn -> Seq([id : Nat, size : Nat])]
    /\ running \in Conn \cup {None}
    /\ pc \in {"idle", "recv", "swallow", "multi", "send"}
    /\ written \in BOOLEAN /\ handled \in Nat /\ alive \in BOOLEAN

\* While the proxy is stopped exactly one connection, the one that asked for
\* it, is registered in the event loop; otherwise every open connection is.
\* So a STOP can always be undone, and a START leaves nobody suspended
\* (conn_new, conn_close, conn_stop and conn_start together).
StopHasOneOwner ==
    alive => IF stopped THEN \E c \in root : \A d \in Conn : registered[d] <=> d = c
                        ELSE \A d \in Conn : registered[d] <=> d \in root

\* The bulk given to process_multi has at most MAX_QUIET_REQUESTS requests,
\* the size of the proxy's array order[] (conn_recv, framing.h:12).
BulkBound == \A c \in Conn : requests[c] <= MAX_QUIET_REQUESTS

\* The bulk is smaller than two largest requests, the size of the buffer in
\* which a plugin that uses libst receives it (conn_recv, READ_REQUESTS_BUF_SZ).
BulkFitsPlugin == \A c \in Conn : quiet_recv_off[c] < 2 * MAX_REQUEST_SIZE

\* Every request that process_multi took is answered once and the answers
\* leave in the order of the requests, over any splitting into bulks,
\* partial sends and re-scans of recv_buf.
AnsweredInOrder ==
    \A c \in root :
        LET answered == done[c] + (IF running = c THEN handled ELSE 0) IN
        /\ got[c] + Len(send_buf[c]) = answered
        /\ \A i \in 1 .. Len(send_buf[c]) : send_buf[c][i].id = got[c] + i

\* Between callbacks a connection waits for the event it needs: for writing
\* exactly when responses are left, and when it waits for reading recv_buf
\* holds no request that could be answered without more input (conn_recv
\* and conn_send call each other to ensure it).
WaitsForTheRightEvent ==
    \A c \in root : running # c =>
        /\ write_only[c] <=> send_buf[c] # <<>>
        /\ ~write_only[c] => NeedMoreData(c) /\ \A i \in 1 .. requests[c] : sent[c][done[c] + i].quiet

\* While the proxy is stopped no request of another connection is taken, and
\* nothing is sent on it (proxy_sys_commands.py:58-84).
SuspendedIsSilent ==
    [][\A c \in root \cap root' :
          stopped /\ ~registered[c] => done'[c] = done[c] /\ got'[c] = got[c]]_vars

-----------------------------------------------------------------------------
(* Liveness.  An iteration of the loop runs the callback of every          *)
(* registered descriptor that is ready, so none of them stays ready and    *)
(* waiting for ever; callbacks terminate, and a client writes what it      *)
(* began and reads what it is sent.                                        *)

Waiting(c) == alive /\ registered[c] /\ (ReadReady(c) \/ WriteReady(c)) /\ running # c

Fairness ==
    \A c \in Conn : /\ []<>~Waiting(c) /\ WF_vars(CallbackStep(c))
                    /\ WF_vars(ClientRead(c)) /\ WF_vars(ClientRest(c))

FairSpec == Spec /\ Fairness

\* A stopped proxy whose owner goes away resumes (conn_close).
OwnerGoneResumes ==
    \A c \in Conn : (alive /\ stopped /\ registered[c] /\ peer[c] # "up") ~> (~stopped \/ ~alive)

\* Once the proxy is no longer stopped, a request that is not quiet is
\* answered, also one that arrived while its connection was suspended or that
\* waited in recv_buf behind a full send_buf, unless the connection ends
\* (conn_recv, conn_send, conn_start).
EventuallyAnswered ==
    <>[](~stopped) =>
        \A c \in Conn : \A n \in 1 .. MaxSent[c] :
            (n <= Len(sent[c]) /\ ~sent[c][n].quiet) ~> (got[c] >= n \/ c \notin root)
=============================================================================
