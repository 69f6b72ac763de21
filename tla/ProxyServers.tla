---------------------------- MODULE ProxyServers ----------------------------
(***************************************************************************)
(* The configuration of the proxy together with one of its servers: a new  *)
(* configuration, and a restart, replace the server; bulks are forwarded   *)
(* between the commands, while the proxy is stopped only those of the      *)
(* connection that stopped it.                                             *)
(***************************************************************************)
EXTENDS ProxyConfig, Backoff

vars == <<configuration, server>>

Init == ConfigInit /\ BackoffInit

\* process_multi returns before the next command.
Command == stage = "idle" /\ (cmd_stop \/ cmd_start) /\ UNCHANGED server

SetConfig ==
    /\ stage = "idle" /\ \E t \in Texts : cmd_set_config(t)
    /\ new_st_server /\ UNCHANGED reachable

Restart == load_config /\ new_st_server /\ UNCHANGED reachable

Forward == Ready /\ Stream /\ UNCHANGED configuration

\* The sockets of a process go with it.
Die ==
    /\ Crash \/ (stage = "idle" /\ Abort)
    /\ new_st_server /\ UNCHANGED reachable

Outside == (Lose \/ Return \/ Tick) /\ UNCHANGED configuration

Next ==
    \/ Command \/ SetConfig \/ Restart \/ Forward \/ Die \/ Outside
    \/ (Save \/ SaveFails) /\ UNCHANGED server

\* Requests keep coming while the proxy is not stopped, and what has begun is
\* finished; time passes; save_config goes on.
Spec ==
    /\ Init /\ [][Next]_vars
    /\ WF_vars(Forward /\ (stage = "idle" => ~stopped))
    /\ WF_vars(Tick /\ UNCHANGED configuration) /\ WF_vars(Save /\ UNCHANGED server)

TypeOK == ConfigTypeOK /\ BackoffTypeOK

\* Once a back-end is reachable and stays so, a proxy that goes on running and
\* is not stopped uses it again, whatever failed before and however long: the
\* back-off of do_connection_error ends, and is not begun by being refused.
UsedAgain ==
    <>[](reachable /\ process = "running" /\ ~stopped) => []<>served

=============================================================================
