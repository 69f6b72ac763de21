------------------------------- MODULE Backoff -------------------------------
(***************************************************************************)
(* When the proxy connects to a back-end again after a failure: next_retry *)
(* and delay of one struct st_server (src/src/proxy_client.c).             *)
(*                                                                         *)
(* wait is next_retry minus the present time.  What is longer ago than     *)
(* HORIZON is not told apart.  A back-end that is reachable also answers   *)
(* in the protocol; a socket that is "dead" will report an error.          *)
(***************************************************************************)
EXTENDS Integers

CONSTANTS
    MIN_DELAY,      \* ST_SERVER_MIN_DELAY
    MAX_DELAY,      \* ST_SERVER_MAX_DELAY
    HORIZON         \* bound: how far back next_retry is known

ASSUME DelayAssumption ==
    /\ MIN_DELAY \in Nat \ {0} /\ MAX_DELAY \in Nat /\ HORIZON \in Nat \ {0}
    /\ MIN_DELAY <= MAX_DELAY

VARIABLES
    sd,             \* the socket: "none", "connecting", "open" or "dead"
    wait, delay,
    stage,          \* of the stream: "idle", "connect" or "exchange"
    reachable,      \* the back-end can be connected to
    served          \* the last stream got the back-end's answers

server == <<sd, wait, delay, stage, reachable, served>>

\* new_st_server: to be tried as soon as the clock has advanced.
new_st_server == sd' = "none" /\ wait' = 0 /\ delay' = MIN_DELAY /\ stage' = "idle" /\ served' = FALSE

BackoffInit ==
    /\ sd = "none" /\ wait = 0 /\ delay = MIN_DELAY /\ stage = "idle" /\ served = FALSE
    /\ reachable \in BOOLEAN

-----------------------------------------------------------------------------
\* do_error: every request is answered with an error; do_done.
do_error == stage' = "idle" /\ served' = FALSE

\* Mutant: the delay grows without limit.
do_connection_error_NoMax ==
    /\ sd' = "none" /\ wait' = wait + delay /\ delay' = delay * 2
    /\ do_error

\* The next retry is counted from the one before.
do_connection_error ==
    /\ sd' = "none" /\ wait' = wait + delay
    /\ delay' = IF delay * 2 < MAX_DELAY THEN delay * 2 ELSE MAX_DELAY
    /\ do_error

\* Mutant: being refused starts the delay again.
TooEarly_StartsAgain == wait >= 0 /\ do_error /\ wait' = delay /\ UNCHANGED <<sd, delay>>

\* next_retry is not before the present.
TooEarly == wait >= 0 /\ do_error /\ UNCHANGED <<sd, wait, delay>>

\* net_connect fails at once, or the outcome is known later.
Connect ==
    /\ wait < 0
    /\ \/ ~reachable /\ do_connection_error
       \/ /\ sd' = IF reachable THEN "connecting" ELSE "dead"
          /\ stage' = "connect" /\ UNCHANGED <<wait, delay, served>>

do_start ==
    /\ stage = "idle"
    /\ \/ sd = "none" /\ (TooEarly \/ Connect)
       \/ sd # "none" /\ stage' = "exchange" /\ UNCHANGED <<sd, wait, delay, served>>
    /\ UNCHANGED reachable

do_connected ==
    /\ stage = "connect"
    /\ \/ sd = "dead" /\ do_connection_error
       \/ sd # "dead" /\ sd' = "open" /\ stage' = "exchange" /\ UNCHANGED <<wait, delay, served>>
    /\ UNCHANGED reachable

\* do_write and do_read until do_done, or an error of either.
Exchange ==
    /\ stage = "exchange"
    /\ \/ sd = "dead" /\ do_connection_error
       \/ sd # "dead" /\ stage' = "idle" /\ served' = TRUE /\ UNCHANGED <<sd, wait, delay>>
    /\ UNCHANGED reachable

Stream == do_start \/ do_connected \/ Exchange

\* The back-end dies, with its connections, and returns.
Lose ==
    /\ reachable /\ reachable' = FALSE /\ sd' = IF sd = "none" THEN "none" ELSE "dead"
    /\ UNCHANGED <<wait, delay, stage, served>>

Return == ~reachable /\ reachable' = TRUE /\ UNCHANGED <<sd, wait, delay, stage, served>>

Tick ==
    /\ wait' = IF wait > -HORIZON THEN wait - 1 ELSE wait
    /\ UNCHANGED <<sd, delay, stage, reachable, served>>

\* A configuration may replace the server between two bulks.
Replace == stage = "idle" /\ new_st_server /\ UNCHANGED reachable

BackoffSpec == BackoffInit /\ [][Stream \/ Lose \/ Return \/ Tick \/ Replace]_server

-----------------------------------------------------------------------------
(* Properties.                                                             *)

BackoffTypeOK ==
    /\ sd \in {"none", "connecting", "open", "dead"} /\ wait \in Int /\ delay \in Nat
    /\ stage \in {"idle", "connect", "exchange"} /\ reachable \in BOOLEAN /\ served \in BOOLEAN

\* Whatever fails at whatever moment, after a connection of any length, the
\* proxy is never kept from connecting for longer than ST_SERVER_MAX_DELAY,
\* although do_connection_error adds up the delays.
ShunnedBriefly == wait <= MAX_DELAY

=============================================================================
