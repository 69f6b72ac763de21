------------------------------ MODULE ProxyBulk ------------------------------
(***************************************************************************)
(* smalltable-proxy's process_multi: it splits a bulk over the back-end    *)
(* servers, talks to all of them at once and puts the answers back in the  *)
(* order of the requests (src/src/proxy_command.c, proxy_client.c and the  *)
(* select() loop of uevent.c).                                             *)
(*                                                                         *)
(* Requests are numbered in the order in which the client sent them; 0 is  *)
(* the NOOP that the proxy appends.  A response is a run of cells, the     *)
(* first of them its 24 byte header: [id, ok, k, n] is the k-th of n cells *)
(* of the response to id.  callback[s] is the uevent slot of s.            *)
(***************************************************************************)
EXTENDS Integers, Sequences, FiniteSets, SequencesExt

CONSTANTS
    Servers,            \* back-ends of the configuration
    MAX_SERVERS,        \* NELEM(servers): back-ends in one bulk
    MAX_ORDER,          \* NELEM(order): requests in one bulk
    MaxRequests,        \* bound: requests of the client
    SEND_LIMIT          \* 3 * MAX_REQUEST_SIZE in cells: what a back-end buffers

InProxy == "proxy"      \* target of a request that the proxy itself executes
NOOP == 0

ASSUME ConstantsAssumption ==
    /\ InProxy \notin Servers
    /\ MAX_SERVERS \in Nat \ {0} /\ MAX_ORDER \in Nat \ {0} /\ MaxRequests \in Nat
    /\ SEND_LIMIT \in Nat

Request == 1 .. MaxRequests

VARIABLES
    target,         \* where find_st_server sends each request
    \* process_multi
    pc, bulk, requests, servers, order,
    consumed,       \* requests consumed from the connection so far
    answers,        \* what was written to conn->send_buf: [id, ok]
    res_buf,        \* config->res_buf
    broken,         \* a read went beyond the data of a buffer
    \* struct st_server
    sd, callback, send_buf, send_offset, recv_buf, recv_offset, srv_requests, responses,
    \* network and back-ends
    up,             \* the connection behind sd is alive
    to_server, to_proxy,
    server_buf,     \* answers in the back-end's send_buf
    late,           \* requests a back-end still holds from lost connections
    executed        \* requests the back-ends executed, in order

multi == <<pc, bulk, requests, servers, order, consumed, answers, res_buf, broken>>
net == <<up, to_server, to_proxy, server_buf, late, executed>>
srv == <<sd, callback, send_buf, send_offset, recv_buf, recv_offset, srv_requests, responses>>
vars == <<target, multi, srv, net>>

Response(id, ok, n) == [k \in 1 .. n |-> [id |-> id, ok |-> ok, k |-> k, n |-> n]]

-----------------------------------------------------------------------------
Init ==
    /\ target \in [Request -> Servers \cup {InProxy}]
    /\ pc = "idle" /\ bulk = 0 /\ requests = 0 /\ servers = {} /\ order = <<>>
    /\ consumed = 0 /\ answers = <<>> /\ res_buf = <<>> /\ broken = FALSE
    /\ sd = [s \in Servers |-> -1]
    /\ callback = [s \in Servers |-> "none"]
    /\ send_buf = [s \in Servers |-> <<>>] /\ send_offset = [s \in Servers |-> 0]
    /\ recv_buf = [s \in Servers |-> <<>>] /\ recv_offset = [s \in Servers |-> 0]
    /\ srv_requests = [s \in Servers |-> 0] /\ responses = [s \in Servers |-> 0]
    /\ up = [s \in Servers |-> FALSE]
    /\ to_server = [s \in Servers |-> <<>>] /\ to_proxy = [s \in Servers |-> <<>>]
    /\ server_buf = [s \in Servers |-> <<>>] /\ late = [s \in Servers |-> <<>>]
    /\ executed = [s \in Servers |-> <<>>]

-----------------------------------------------------------------------------
(* process_multi: dispatching.                                             *)

\* conn_recv calls process_multi with a bulk of n requests.
Call ==
    /\ pc = "idle" /\ ~broken
    /\ \E n \in 1 .. MaxRequests - consumed : bulk' = n
    /\ pc' = "dispatch" /\ requests' = 0 /\ servers' = {} /\ order' = <<>>
    /\ UNCHANGED <<target, consumed, answers, res_buf, broken, srv, net>>

Current == consumed + requests + 1

DispatchInProxy ==
    /\ pc = "dispatch" /\ requests < bulk /\ requests < MAX_ORDER
    /\ target[Current] = InProxy
    /\ order' = Append(order, InProxy)
    /\ res_buf' = res_buf \o Response(Current, TRUE, 1)
    /\ requests' = requests + 1
    /\ UNCHANGED <<target, pc, bulk, servers, consumed, answers, broken, srv, net>>

\* The eighth server ends the loop before the request is counted.
DispatchToServer ==
    /\ pc = "dispatch" /\ requests < bulk /\ requests < MAX_ORDER
    /\ target[Current] # InProxy
    /\ LET s == target[Current]
           used == IF srv_requests[s] = 0 THEN servers \cup {s} ELSE servers
           full == Cardinality(used) = MAX_SERVERS
       IN  /\ send_buf' = [send_buf EXCEPT ![s] = Append(@, Current)]
           /\ servers' = used
           /\ srv_requests' = [srv_requests EXCEPT ![s] = @ + 1]
           /\ order' = Append(order, s)
           /\ IF full THEN pc' = "noop" /\ UNCHANGED requests
                      ELSE requests' = requests + 1 /\ UNCHANGED pc
    /\ UNCHANGED <<target, bulk, consumed, answers, res_buf, broken, net,
                   sd, callback, send_offset, recv_buf, recv_offset, responses>>

DispatchEnd ==
    /\ pc = "dispatch" /\ (requests = bulk \/ requests = MAX_ORDER)
    /\ pc' = IF servers = {} THEN "collect" ELSE "noop"
    /\ UNCHANGED <<target, bulk, requests, servers, order, consumed, answers, res_buf, broken, srv, net>>

\* A NOOP for every server of the bulk, then process_memcache starts them.
AppendNoops ==
    /\ pc = "noop"
    /\ send_buf' = [s \in Servers |-> IF s \in servers THEN Append(send_buf[s], NOOP) ELSE send_buf[s]]
    /\ srv_requests' = [s \in Servers |-> srv_requests[s] + IF s \in servers THEN 1 ELSE 0]
    /\ callback' = [s \in Servers |-> IF s \in servers THEN "start" ELSE callback[s]]
    /\ pc' = "memcache"
    /\ UNCHANGED <<target, bulk, requests, servers, order, consumed, answers, res_buf, broken, net,
                   sd, send_offset, recv_buf, recv_offset, responses>>
-----------------------------------------------------------------------------
(* struct st_server: the callbacks of proxy_client.c.                      *)

\* Mutant: do_done leaves send_offset as it is.
do_done_KeepsOffset(s) ==
    /\ send_buf' = [send_buf EXCEPT ![s] = <<>>]
    /\ srv_requests' = [srv_requests EXCEPT ![s] = 0]
    /\ responses' = [responses EXCEPT ![s] = 0]
    /\ recv_offset' = [recv_offset EXCEPT ![s] = 0]
    /\ callback' = [callback EXCEPT ![s] = "none"]
    /\ UNCHANGED send_offset

do_done(s) ==
    /\ send_buf' = [send_buf EXCEPT ![s] = <<>>]
    /\ srv_requests' = [srv_requests EXCEPT ![s] = 0]
    /\ responses' = [responses EXCEPT ![s] = 0]
    /\ send_offset' = [send_offset EXCEPT ![s] = 0]
    /\ recv_offset' = [recv_offset EXCEPT ![s] = 0]
    /\ callback' = [callback EXCEPT ![s] = "none"]

\* Mutant: the error for a NOOP has a text too.
ErrorResponse_NoopText(id) == Response(id, FALSE, 2)

\* Mutant: the status of the error is left at OK.
ErrorResponse_StatusOk(id) == Response(id, TRUE, IF id = NOOP THEN 1 ELSE 2)

\* error_from_reqbuf: the text of the error makes a second cell, except for
\* NOOP, whose answer must have 24 bytes.
ErrorResponse(id) == Response(id, FALSE, IF id = NOOP THEN 1 ELSE 2)

\* Mutant: requests with a response are answered again.
Unanswered_All(s) == send_buf[s]

\* Mutant: off by one.
Unanswered_SkipsOne(s) == SubSeq(send_buf[s], responses[s] + 2, Len(send_buf[s]))

\* The requests without a complete response (request_no++ >= srv->responses).
Unanswered(s) == SubSeq(send_buf[s], responses[s] + 1, Len(send_buf[s]))

\* Drop what is incomplete, and answer the rest with CONNECTION_BROKEN.
do_error(s) ==
    /\ recv_buf' = [recv_buf EXCEPT ![s] =
                       SubSeq(@, 1, recv_offset[s])
                           \o FlattenSeq([i \in 1 .. Len(Unanswered(s)) |-> ErrorResponse(Unanswered(s)[i])])]
    /\ do_done(s)

\* The connection ends; the back-end may have received any part of what was
\* on its way to it, and goes on with that.
Disconnect(s) ==
    /\ up' = [up EXCEPT ![s] = FALSE]
    /\ to_server' = [to_server EXCEPT ![s] = <<>>]
    /\ server_buf' = [server_buf EXCEPT ![s] = <<>>]
    /\ \E n \in 0 .. Len(to_server[s]) : late' = [late EXCEPT ![s] = @ \o SubSeq(to_server[s], 1, n)]
    /\ UNCHANGED executed

do_connection_error(s) ==
    /\ sd' = [sd EXCEPT ![s] = -1]
    /\ Disconnect(s)
    /\ to_proxy' = [to_proxy EXCEPT ![s] = <<>>]
    /\ do_error(s)

yield(s, cb) == callback' = [callback EXCEPT ![s] = cb]

\* Mutant: send() starts at the front of the buffer again.
Outgoing_FromFront(s, n) == SubSeq(send_buf[s], 1, send_offset[s] + n)

Outgoing(s, n) == SubSeq(send_buf[s], send_offset[s] + 1, send_offset[s] + n)

\* send() takes n more requests; what goes to a dead peer is lost.
do_write(s, n) ==
    /\ send_offset' = [send_offset EXCEPT ![s] = @ + n]
    /\ to_server' = [to_server EXCEPT ![s] =
                        IF up[s] THEN @ \o Outgoing(s, n) ELSE @]
    /\ yield(s, IF send_offset[s] + n = Len(send_buf[s]) THEN "read" ELSE "write")
    /\ UNCHANGED <<sd, send_buf, recv_buf, recv_offset, srv_requests, responses, up, to_proxy, server_buf, late, executed>>

ToSend(s) == Len(send_buf[s]) - send_offset[s]

\* The servers of the bulk are started before the first select().
do_start(s) ==
    /\ pc = "memcache" /\ callback[s] = "start"
    /\ \/ /\ sd[s] < 0                        \* too early to connect again
          /\ do_error(s) /\ UNCHANGED <<sd, net>>
       \/ /\ sd[s] < 0                        \* net_connect fails
          /\ do_connection_error(s)
       \/ /\ sd[s] < 0                        \* connecting
          /\ sd' = [sd EXCEPT ![s] = 1]
          /\ up' = [up EXCEPT ![s] = TRUE]
          /\ yield(s, "connected")
          /\ UNCHANGED <<send_buf, send_offset, recv_buf, recv_offset, srv_requests, responses,
                         to_server, to_proxy, server_buf, late, executed>>
       \/ /\ sd[s] >= 0
          /\ \E n \in 0 .. ToSend(s) : do_write(s, n)
       \/ /\ sd[s] >= 0 /\ ~up[s]             \* send() fails
          /\ do_connection_error(s)
    /\ UNCHANGED <<target, multi>>

\* uevent_loop runs one callback to its end before the next.
Loop == pc = "memcache" /\ \A s \in Servers : callback[s] \notin {"start", "swallow"}

\* do_connected, then the first do_write; or do_write again.
Writable(s) ==
    /\ Loop /\ callback[s] \in {"connected", "write"}
    /\ \/ /\ up[s] \/ callback[s] = "write"
          /\ \E n \in 1 .. ToSend(s) : do_write(s, n)
       \/ ~up[s] /\ do_connection_error(s)
    /\ UNCHANGED <<target, multi>>

\* do_read: recv() returns some of the bytes that have arrived.
Readable(s) ==
    /\ Loop /\ callback[s] = "read"
    /\ \/ \E n \in 1 .. Len(to_proxy[s]) :
             /\ recv_buf' = [recv_buf EXCEPT ![s] = @ \o SubSeq(to_proxy[s], 1, n)]
             /\ to_proxy' = [to_proxy EXCEPT ![s] = SubSeq(@, n + 1, Len(@))]
             /\ yield(s, "swallow")
             /\ UNCHANGED <<sd, send_buf, send_offset, recv_offset, srv_requests, responses,
                            up, to_server, server_buf, late, executed>>
       \/ ~up[s] /\ to_proxy[s] = <<>> /\ do_connection_error(s)
    /\ UNCHANGED <<target, multi>>

\* Mutant: responses is compared before it is incremented.
LastResponse_OneMore(s) == responses[s] = srv_requests[s]

LastResponse(s) == responses[s] + 1 = srv_requests[s]

\* swallow_next_request in do_read.  Bytes that are not a header are taken
\* for one: the lengths found there are too large, or the magic is wrong.
Swallow(s) ==
    /\ pc = "memcache" /\ callback[s] = "swallow"
    /\ LET rest == SubSeq(recv_buf[s], recv_offset[s] + 1, Len(recv_buf[s]))
           head == rest[1]
           complete == rest # <<>> /\ head.k = 1 /\ head.n <= Len(rest)
           garbage == rest # <<>> /\ head.k # 1
       IN  \/ /\ ~complete
              /\ yield(s, "read")
              /\ UNCHANGED <<sd, send_buf, send_offset, recv_buf, recv_offset, srv_requests, responses, net>>
           \/ garbage /\ do_connection_error(s)
           \/ /\ complete /\ LastResponse(s)
              /\ do_done(s)
              /\ UNCHANGED <<sd, recv_buf, net>>
           \/ /\ complete /\ ~LastResponse(s)
              /\ recv_offset' = [recv_offset EXCEPT ![s] = @ + head.n]
              /\ responses' = [responses EXCEPT ![s] = @ + 1]
              /\ UNCHANGED <<sd, callback, send_buf, send_offset, recv_buf, srv_requests, net>>
    /\ UNCHANGED <<target, multi>>

-----------------------------------------------------------------------------
(* Back-ends and the network.                                              *)

\* The back-end answers its next request; it executes it unless its send_buf
\* is full: then the answer is an INTERNAL_ERROR with a text (sys_commands.c:61).
Execute(s) ==
    /\ to_server[s] # <<>>
    /\ LET id == Head(to_server[s])
           full == Len(server_buf[s]) >= SEND_LIMIT
       IN  /\ to_server' = [to_server EXCEPT ![s] = Tail(@)]
           /\ executed' = [executed EXCEPT ![s] = IF id = NOOP \/ full THEN @ ELSE Append(@, id)]
           /\ \E n \in CASE full -> {2} [] id = NOOP -> {1} [] OTHER -> {1, 2} :
                 server_buf' = [server_buf EXCEPT ![s] = @ \o Response(id, ~full, n)]
    /\ UNCHANGED <<target, multi, srv, up, to_proxy, late>>

\* The back-end sends what it has.
Flush(s) ==
    /\ server_buf[s] # <<>>
    /\ to_proxy' = [to_proxy EXCEPT ![s] = @ \o server_buf[s]]
    /\ server_buf' = [server_buf EXCEPT ![s] = <<>>]
    /\ UNCHANGED <<target, multi, srv, up, to_server, late, executed>>

\* The back-end executes a request that it got over a connection now lost.
ExecuteLate(s) ==
    /\ late[s] # <<>>
    /\ late' = [late EXCEPT ![s] = Tail(@)]
    /\ executed' = [executed EXCEPT ![s] = IF Head(late[s]) = NOOP THEN @ ELSE Append(@, Head(late[s]))]
    /\ UNCHANGED <<target, multi, srv, up, to_server, to_proxy, server_buf>>

\* The connection to the back-end is lost, with any part of what is on its way.
Lose(s) ==
    /\ up[s]
    /\ Disconnect(s)
    /\ \E n \in 0 .. Len(to_proxy[s]) : to_proxy' = [to_proxy EXCEPT ![s] = SubSeq(@, 1, n)]
    /\ UNCHANGED <<target, multi, srv>>

-----------------------------------------------------------------------------
(* process_multi: collecting.                                              *)

\* uevent_loop has no slot left; pop the answers to the NOOPs.
PopNoops ==
    /\ pc = "memcache" /\ \A s \in Servers : callback[s] = "none"
    /\ recv_buf' = [s \in Servers |->
                       IF s \in servers THEN SubSeq(recv_buf[s], 1, Len(recv_buf[s]) - 1) ELSE recv_buf[s]]
    /\ pc' = "collect"
    /\ UNCHANGED <<target, bulk, requests, servers, order, consumed, answers, res_buf, broken, net,
                   sd, callback, send_buf, send_offset, recv_offset, srv_requests, responses>>

\* Copy the next answer; order[] says from which buffer.
Collect ==
    /\ pc = "collect" /\ ~broken /\ Len(answers) < consumed + requests
    /\ LET from == order[Len(answers) - consumed + 1]
           src == IF from = InProxy THEN res_buf ELSE recv_buf[from]
           sane == src # <<>> /\ src[1].k = 1 /\ src[1].n <= Len(src)
           rest == SubSeq(src, src[1].n + 1, Len(src))
       IN  IF ~sane
           THEN broken' = TRUE /\ UNCHANGED <<answers, res_buf, recv_buf>>
           ELSE /\ answers' = Append(answers,
                        [id |-> src[1].id, ok |-> src[1].ok,
                         whole |-> \A k \in 1 .. src[1].n : src[k].id = src[1].id /\ src[k].k = k])
                /\ IF from = InProxy
                   THEN res_buf' = rest /\ UNCHANGED recv_buf
                   ELSE recv_buf' = [recv_buf EXCEPT ![from] = rest] /\ UNCHANGED res_buf
                /\ UNCHANGED broken
    /\ UNCHANGED <<target, pc, bulk, requests, servers, order, consumed, net,
                   sd, callback, send_buf, send_offset, recv_offset, srv_requests, responses>>

\* return(req_buf - start_req_buf), and conn_recv consumes.
Finish ==
    /\ pc = "collect" /\ ~broken /\ Len(answers) = consumed + requests
    /\ consumed' = consumed + requests
    /\ pc' = "idle" /\ bulk' = 0 /\ requests' = 0 /\ servers' = {} /\ order' = <<>>
    /\ UNCHANGED <<target, answers, res_buf, broken, srv, net>>

ProxyStep ==
    \/ DispatchInProxy \/ DispatchToServer \/ DispatchEnd \/ AppendNoops
    \/ \E s \in Servers : do_start(s) \/ Writable(s) \/ Readable(s) \/ Swallow(s)
    \/ PopNoops \/ Collect \/ Finish

BackendStep(s) == Execute(s) \/ Flush(s)

Next ==
    \/ Call
    \/ ProxyStep
    \/ \E s \in Servers : BackendStep(s) \/ ExecuteLate(s) \/ Lose(s)

Spec == Init /\ [][Next]_vars

-----------------------------------------------------------------------------
(* Properties.                                                             *)

Cell == [id : Request \cup {NOOP}, ok : BOOLEAN, k : Nat, n : Nat]

\* Types of the state.
TypeOK ==
    /\ target \in [Request -> Servers \cup {InProxy}]
    /\ pc \in {"idle", "dispatch", "noop", "memcache", "collect"}
    /\ bulk \in 0 .. MaxRequests /\ requests \in 0 .. bulk /\ consumed \in 0 .. MaxRequests
    /\ servers \subseteq Servers /\ order \in Seq(Servers \cup {InProxy})
    /\ answers \in Seq([id : Request \cup {NOOP}, ok : BOOLEAN, whole : BOOLEAN])
    /\ res_buf \in Seq(Cell) /\ broken \in BOOLEAN
    /\ sd \in [Servers -> {-1, 1}] /\ up \in [Servers -> BOOLEAN]
    /\ callback \in [Servers -> {"none", "start", "connected", "write", "read", "swallow"}]
    /\ send_buf \in [Servers -> Seq(Request \cup {NOOP})]
    /\ \A s \in Servers : send_offset[s] \in 0 .. Len(send_buf[s])
    /\ recv_buf \in [Servers -> Seq(Cell)]
    /\ \A s \in Servers : recv_offset[s] \in 0 .. Len(recv_buf[s])
    /\ srv_requests \in [Servers -> Nat] /\ responses \in [Servers -> Nat]
    /\ to_server \in [Servers -> Seq(Request \cup {NOOP})]
    /\ to_proxy \in [Servers -> Seq(Cell)] /\ server_buf \in [Servers -> Seq(Cell)]
    /\ late \in [Servers -> Seq(Request \cup {NOOP})] /\ executed \in [Servers -> Seq(Request)]

\* The i-th answer given to the client is a whole answer to its i-th request,
\* whatever the back-ends' timing and failures (the reassembly by order[]).
AnswersMatchRequests ==
    \A i \in 1 .. Len(answers) : answers[i].id = i /\ answers[i].whole

\* Every buffer is read within its data (lines 98 to 105 of proxy_command.c
\* do not check it).
ReadsWithinBuffers == ~broken

\* Between two bulks nothing is left of the last one: no request, response or
\* count that the next bulk would take for its own (do_done, PopNoops).
NothingLeftBehind ==
    pc = "idle" =>
        /\ res_buf = <<>> /\ Len(answers) = consumed
        /\ \A s \in Servers : /\ send_buf[s] = <<>> /\ recv_buf[s] = <<>>
                              /\ srv_requests[s] = 0 /\ responses[s] = 0
                              /\ send_offset[s] = 0 /\ recv_offset[s] = 0

\* No request is executed twice, whatever is retried or re-scanned.
ExecutedAtMostOnce ==
    \A s \in Servers : \A i, j \in 1 .. Len(executed[s]) : i # j => executed[s][i] # executed[s][j]

\* Requests for one server that are answered without an error have been
\* executed, in the order in which the client sent them; do_error keeps
\* exactly the answers that arrived.
OkMeansExecutedInOrder ==
    LET ok == {i \in 1 .. Len(answers) : answers[i].ok /\ target[i] # InProxy}
        at(i) == CHOOSE k \in 1 .. Len(executed[target[i]]) : executed[target[i]][k] = i
    IN  /\ \A i \in ok : \E k \in 1 .. Len(executed[target[i]]) : executed[target[i]][k] = i
        /\ \A i, j \in ok : i < j /\ target[i] = target[j] => at(i) < at(j)

-----------------------------------------------------------------------------
(* Liveness: every back-end answers what it was sent, or its connection    *)
(* breaks; select() reports a descriptor that stays ready.                 *)

Fairness ==
    /\ WF_vars(ProxyStep)
    /\ \A s \in Servers : /\ WF_vars(BackendStep(s))
                         /\ WF_vars(do_start(s)) /\ WF_vars(Writable(s))
                         /\ WF_vars(Readable(s)) /\ WF_vars(Swallow(s))

FairSpec == Spec /\ Fairness

\* process_multi returns: the proxy, which serves nobody meanwhile, does not
\* hang on a back-end that answers or fails.
ProcessMultiReturns == pc # "idle" ~> pc = "idle"

=============================================================================
