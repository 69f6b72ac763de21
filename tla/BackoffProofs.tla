---------------------------- MODULE BackoffProofs ----------------------------
(***************************************************************************)
(* Backoff, for any delays.                                                *)
(***************************************************************************)
EXTENDS Backoff, TLAPS

\* A socket was only made when next_retry had passed, and next_retry moves only
\* when the socket goes.
IInv ==
    /\ BackoffTypeOK /\ ShunnedBriefly /\ delay <= MAX_DELAY
    /\ sd # "none" => wait < 0
    /\ stage # "idle" => sd # "none"

\* A failure, of a socket or of making one.
LEMMA ErrorStep ==
    ASSUME IInv, wait < 0, do_connection_error, UNCHANGED reachable
    PROVE  IInv'
  <1>1. /\ sd' = "none" /\ stage' = "idle" /\ wait' = wait + delay
        /\ delay' = IF delay * 2 < MAX_DELAY THEN delay * 2 ELSE MAX_DELAY
    BY DEF do_connection_error, do_error
  <1>2. reachable' \in BOOLEAN /\ served' \in BOOLEAN
    BY Zenon DEF IInv, BackoffTypeOK, do_connection_error, do_error
  <1>3. /\ delay' \in Nat /\ delay' <= MAX_DELAY /\ wait' \in Int /\ wait' <= MAX_DELAY
    BY <1>1, DelayAssumption DEF IInv, BackoffTypeOK
  <1> QED BY <1>1, <1>2, <1>3 DEF IInv, BackoffTypeOK, ShunnedBriefly

\* A server as new_st_server makes it.
LEMMA NewServer ==
    ASSUME new_st_server, reachable' \in BOOLEAN
    PROVE  IInv'
  <1>1. served' \in BOOLEAN BY Zenon DEF new_st_server
  <1>2. sd' = "none" /\ wait' = 0 /\ delay' = MIN_DELAY /\ stage' = "idle" BY DEF new_st_server
  <1> QED BY <1>1, <1>2, DelayAssumption DEF IInv, BackoffTypeOK, ShunnedBriefly

\* Every step keeps the invariant.
LEMMA BackoffStep ==
    ASSUME IInv, [Stream \/ Lose \/ Return \/ Tick \/ Replace]_server
    PROVE  IInv'
  <1> USE DelayAssumption DEF IInv, BackoffTypeOK, ShunnedBriefly
  <1>1. CASE do_start
    <2>1. CASE sd = "none" /\ TooEarly BY <1>1, <2>1 DEF do_start, TooEarly, do_error
    <2>2. CASE sd = "none" /\ Connect
      <3>1. CASE do_connection_error
        <4>1. wait < 0 /\ UNCHANGED reachable BY <1>1, <2>2 DEF do_start, Connect
        <4> QED BY ONLY IInv, <3>1, <4>1, ErrorStep
      <3>2. CASE ~do_connection_error
        <4>1. /\ wait < 0 /\ sd' \in {"connecting", "dead"} /\ stage' = "connect"
              /\ UNCHANGED <<wait, delay, served, reachable>>
          BY ONLY <1>1, <2>2, <3>2 DEF do_start, Connect
        <4> QED BY <4>1
      <3> QED BY <3>1, <3>2
    <2>3. CASE sd # "none"
      BY <1>1, <2>3 DEF do_start
    <2> QED BY <1>1, <2>1, <2>2, <2>3 DEF do_start
  <1>2. CASE do_connected \/ Exchange
    <2>1. UNCHANGED reachable BY <1>2 DEF do_connected, Exchange
    <2>2. CASE sd = "dead" /\ do_connection_error
      BY ONLY IInv, <2>1, <2>2, ErrorStep DEF IInv
    <2>3. CASE sd # "dead" /\ stage = "connect" /\ sd' = "open" /\ stage' = "exchange"
               /\ UNCHANGED <<wait, delay, served>>
      BY <2>1, <2>3
    <2>4. CASE stage' = "idle" /\ served' = TRUE /\ UNCHANGED <<sd, wait, delay>>
      BY <2>1, <2>4
    <2> QED BY <1>2, <2>2, <2>3, <2>4 DEF do_connected, Exchange
  <1>3. CASE Lose BY <1>3 DEF Lose
  <1>4. CASE Return BY <1>4 DEF Return
  <1>5. CASE Tick BY <1>5 DEF Tick
  <1>6. CASE Replace BY <1>6, NewServer DEF Replace
  <1>7. CASE UNCHANGED server BY <1>7 DEF server
  <1> QED BY <1>1, <1>2, <1>3, <1>4, <1>5, <1>6, <1>7 DEF Stream

\* For any delays, and whatever fails, do_connection_error never keeps the proxy
\* from connecting for longer than ST_SERVER_MAX_DELAY.
THEOREM NeverShunnedLonger == BackoffSpec => []ShunnedBriefly
  <1>1. BackoffInit => IInv
    <2> SUFFICES ASSUME BackoffInit PROVE IInv OBVIOUS
    <2>1. served \in BOOLEAN /\ reachable \in BOOLEAN BY Zenon DEF BackoffInit
    <2>2. sd = "none" /\ wait = 0 /\ delay = MIN_DELAY /\ stage = "idle" BY DEF BackoffInit
    <2> QED BY <2>1, <2>2, DelayAssumption DEF IInv, BackoffTypeOK, ShunnedBriefly
  <1>2. IInv /\ [Stream \/ Lose \/ Return \/ Tick \/ Replace]_server => IInv' BY BackoffStep
  <1>3. IInv => ShunnedBriefly BY DEF IInv
  <1> QED BY <1>1, <1>2, <1>3, PTL DEF BackoffSpec

=============================================================================
