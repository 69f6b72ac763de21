---------------------------- MODULE MCConnection ----------------------------
(* Two connections of which one stops and starts the server.                *)
EXTENDS Connection, TLC

CONSTANTS c1, c2

Req(kinds, quiets, sizes) == [kind : kinds, quiet : quiets, size : sizes]

\* Requests of one byte arrive whole.
StopRequests == Req({"cmd", "stop", "start"}, {FALSE}, {1}) \cup Req({"stop"}, {TRUE}, {1})

\* An owner and a client that may be suspended.
OwnerAndClient == c1 :> 2 @@ c2 :> 1
=============================================================================
