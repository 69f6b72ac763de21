-------------------------------- MODULE Store --------------------------------
(***************************************************************************)
(* What the key-value commands of smalltable promise to a client: a map    *)
(* from keys to items in which GET, SET, ADD, REPLACE and DELETE take      *)
(* effect at one point in time and completely, even if the server dies.    *)
(* When the storage fails a request is refused as if its condition did not *)
(* hold, and has no effect; only an ADD whose lookup failed may store.     *)
(* FsStorage is shown to implement this specification.                     *)
(***************************************************************************)
CONSTANTS
    Keys,
    Requests,       \* [op, key, value, flags, cas]
    Metadata,       \* [flags, cas], kept with every value
    Absent,         \* the item of a key that is not there
    None            \* no request, no response

VARIABLES
    store,          \* store[k]: [value, md] or Absent
    request,        \* what the server works on, or None
    response,       \* [status, item], or None
    failed          \* the storage has failed in the request

vars == <<store, request, response, failed>>

Init ==
    /\ store = [k \in Keys |-> Absent]
    /\ request = None /\ response = None /\ failed = FALSE

Call ==
    /\ request = None
    /\ \E r \in Requests : request' = r
    /\ UNCHANGED <<store, response, failed>>

Answer(status, item) == response' = [status |-> status, item |-> item]

Get ==
    /\ request.op = "get"
    /\ IF store[request.key] = Absent \/ failed' THEN Answer("not_found", Absent)
                                                 ELSE Answer("ok", store[request.key])
    /\ UNCHANGED store

\* The conditions of ADD, REPLACE and of a request with a cas.
MayStore ==
    LET item == store[request.key]
    IN  /\ request.op = "add" => item = Absent
        /\ request.op = "replace" => item # Absent
        /\ request.cas # 0 => (item # Absent /\ item.md.cas = request.cas)

\* The item of the key has not been seen.
Blind == failed /\ request.op = "add" /\ request.cas = 0

Put ==
    /\ request.op \in {"set", "add", "replace"}
    /\ \/ /\ ~MayStore \/ failed'
          /\ \E s \in {"not_found", "exists", "not_stored"} : Answer(s, Absent)
          /\ UNCHANGED store
       \/ /\ MayStore \/ Blind
          /\ \E md \in Metadata :
                /\ md.flags = request.flags
                /\ store' = [store EXCEPT ![request.key] = [value |-> request.value, md |-> md]]
          /\ Answer("ok", Absent)

Delete ==
    /\ request.op = "delete"
    /\ IF store[request.key] = Absent \/ failed' THEN Answer("not_found", Absent) /\ UNCHANGED store
       ELSE Answer("ok", Absent) /\ store' = [store EXCEPT ![request.key] = Absent]

\* A request that is malformed, or for whose answer there is no room.
Reject ==
    /\ \/ request.op = "malformed" /\ Answer("invalid", Absent)
       \/ Answer("internal_error", Absent)
    /\ UNCHANGED store

\* The point at which a request takes effect.
Execute ==
    /\ request # None /\ response = None
    /\ failed' \in {failed, TRUE}
    /\ Get \/ Put \/ Delete \/ Reject
    /\ UNCHANGED request

Fail ==
    /\ request # None /\ response = None
    /\ failed' = TRUE
    /\ UNCHANGED <<store, request, response>>

Reply ==
    /\ response # None
    /\ request' = None /\ response' = None /\ failed' = FALSE
    /\ UNCHANGED store

\* The server dies and is started again; what was executed stays.
Crash == request' = None /\ response' = None /\ failed' = FALSE /\ UNCHANGED store

Next == Call \/ Execute \/ Fail \/ Reply \/ Crash

Spec == Init /\ [][Next]_vars
=============================================================================
