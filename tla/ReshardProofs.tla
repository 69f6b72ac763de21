---------------------------- MODULE ReshardProofs ----------------------------
(***************************************************************************)
(* The commands to the proxies, the faults and the ends of the loops keep  *)
(* the invariant, and the theorems about Reshard, for any keys and         *)
(* proxies, and any number of writes, tries and faults, when ADD begins on *)
(* an empty server.                                                        *)
(***************************************************************************)
EXTENDS ReshardInvariant

-----------------------------------------------------------------------------
\* Commands and faults that leave the keys alone.
LEMMA KeysSame ==
    ASSUME IInv, UNCHANGED <<data, phase, todo, listed, relisted, boundary, toget, fetched, todel,
                            latest, blurred, disturbed, lost, writes>>
    PROVE  /\ Stamps' /\ Fresh' /\ Tracked' /\ Moved'
           /\ (Quiet' => Quiet /\ strays' = strays) => Exact' /\ CatchesUp'
  <1> USE DEF IInv
  <1>1. \A k : FirstCopy(k)' = FirstCopy(k) /\ SecondCopy(k)' = SecondCopy(k)
    BY SMTT(20) DEF FirstCopy, SecondCopy
  <1>2. Stamps' /\ Fresh' /\ Moved' BY DEF Stamps, Fresh, Moved, AllCopied
  <1>3. Tracked' BY <1>1 DEF Tracked, Kept
  <1>4. ASSUME Quiet' => Quiet /\ strays' = strays PROVE Exact' /\ CatchesUp'
    <2>1. Exact' BY <1>4 DEF Exact
    <2>2. CatchesUp' BY <1>1, <1>4 DEF CatchesUp, Kept
    <2> QED BY <2>1, <2>2
  <1> QED BY <1>2, <1>3, <1>4, SMTT(20)

\* STOP.
LEMMA StopStep == ASSUME IInv, NEW p \in Proxies, Stop(p) PROVE IInv'
  <1> USE DEF IInv
  <1>1. /\ phase = "stopping" /\ p \in remaining /\ linked[p] /\ remaining' = remaining \ {p}
        /\ stopped' = [stopped EXCEPT ![p] = TRUE]
        /\ UNCHANGED <<data, conf, saved, strays, phase, linked, todo, listed, relisted, boundary,
                       toget, fetched, todel, assumed>>
        /\ UNCHANGED <<latest, blurred, disturbed, lost, reverted, writes, runs, faults>>
    BY DEF Stop, Command, ghosts
  <1>2. stopped \in [Proxies -> BOOLEAN] BY DEF TypeOK
  <1>3. /\ stopped' \in [Proxies -> BOOLEAN] /\ stopped'[p] = TRUE
        /\ \A q \in Proxies : q # p => stopped'[q] = stopped[q]
    BY <1>1, <1>2, Zenon
  <1>4. TypeOK' BY <1>1, <1>3 DEF TypeOK
  <1>5. Stamps' /\ Fresh' /\ Tracked' /\ Moved' BY <1>1, KeysSame, SMTT(20)
  <1>6. Configs' /\ Exact' /\ CatchesUp'
    BY <1>1 DEF Configs, CatchesUp, Exact, Running
  <1>7. Locks' BY <1>1, <1>3 DEF Locks
  <1>8. AtHome'
    <2>1. ~Switched /\ ~Split /\ \A k : Home(k) = "old" BY <1>1, NotSwitched DEF Running
    <2>2. \A k : Home(k)' = "old" BY <1>1, <2>1 DEF Switched, Home
    <2>3. \A k : Arrived(k) => Arrived(k)' BY <1>1, <2>1, <2>2 DEF Arrived
    <2> QED BY <1>1, <2>1, <2>3 DEF AtHome
  <1> QED BY <1>1, <1>4, <1>5, <1>6, <1>7, <1>8

\* START, and the end of the connection that sent STOP.
LEMMA StartStep ==
    ASSUME IInv, NEW p \in Proxies, Start(p) \/ Resume(p)
    PROVE  IInv'
  <1> USE DEF IInv
  <1>1. /\ remaining' \subseteq remaining /\ stopped' = [stopped EXCEPT ![p] = FALSE]
        /\ UNCHANGED <<data, conf, saved, strays, phase, linked, todo, listed, relisted, boundary,
                       toget, fetched, todel, assumed>>
        /\ UNCHANGED <<latest, blurred, disturbed, lost, reverted, writes, runs, faults>>
        /\ (phase = "starting" \/ (~linked[p] /\ remaining' = remaining))
    BY DEF Start, Resume, Command, ghosts, manager
  <1>2. stopped \in [Proxies -> BOOLEAN] BY DEF TypeOK
  <1>3. /\ stopped' \in [Proxies -> BOOLEAN] /\ stopped'[p] = FALSE
        /\ \A q \in Proxies : q # p => stopped'[q] = stopped[q]
    BY <1>1, <1>2, Zenon
  <1>4. TypeOK' BY <1>1, <1>3 DEF TypeOK
  <1>5. Quiet' => Quiet /\ strays' = strays BY <1>1, <1>3 DEF Quiet
  <1>6. Stamps' /\ Fresh' /\ Tracked' /\ Moved' /\ Exact' /\ CatchesUp' BY <1>1, <1>5, KeysSame, SMTT(20)
  <1>7. Configs' BY <1>1 DEF Configs, Running
  <1>8. Locks' BY <1>1, <1>3, SMTT(20) DEF Locks
  <1>9. AtHome'
    <2>1. Split => Split'
      <3> SUFFICES ASSUME Split PROVE Split' OBVIOUS
      <3>1. PICK a, q \in Proxies : ~stopped[a] /\ conf[a] = "old" /\ conf[q] = "new" BY DEF Split
      <3>2. ~stopped'[a] BY <1>3, <3>1, SMTT(20)
      <3> QED BY <1>1, <3>1, <3>2 DEF Split
    <2>2. \A k : Home(k)' = Home(k) BY <1>1 DEF Home, Switched
    <2>3. \A k : Arrived(k) => Arrived(k)' BY <1>1, <2>2 DEF Arrived
    <2> QED BY <1>1, <2>1, <2>3 DEF AtHome
  <1> QED BY <1>1, <1>4, <1>6, <1>7, <1>8, <1>9

\* The first proxy with the new configuration, if all others are stopped, finds
\* on the new server what was on the old one; if they are not, they are split.
LEMMA SwitchHome ==
    ASSUME IInv, NEW p \in Proxies, phase = "configuring", linked[p],
           conf' \in [Proxies -> {"old", "new"}], conf'[p] = "new",
           \A q \in Proxies : q # p => conf'[q] = conf[q] /\ stopped'[q] = stopped[q],
           UNCHANGED <<data, boundary, latest, blurred, lost, reverted>>
    PROVE  AtHome'
  <1> USE DEF IInv
  <1>1. stopped[p] BY DEF Locks
  <1>2. \A q \in Proxies : conf[q] \in {"old", "new"} BY DEF TypeOK
  <1>3. Switched' BY SMTT(20) DEF Switched
  <1>4. CASE Split
    <2>1. PICK a, q \in Proxies : ~stopped[a] /\ conf[a] = "old" /\ conf[q] = "new" BY <1>4, SMTT(20) DEF Split
    <2>2. ~stopped'[a] /\ conf'[a] = "old" BY <1>1, <2>1
    <2> QED BY <2>2 DEF AtHome, Split
  <1>5. CASE ~Split /\ Switched
    <2>1. \A k : Home(k)' = Home(k) BY <1>3, <1>5 DEF Home
    <2>2. \A k : Arrived(k) => Arrived(k)' BY <2>1 DEF Arrived
    <2> QED BY <1>5, <2>2 DEF AtHome
  <1>6. CASE ~Split /\ ~Switched
    <2> SUFFICES ASSUME ~Split', ~reverted, NEW k \in Keys \ blurred, k \notin lost
                 PROVE  data[Home(k)'][k] = latest[k]
      BY <1>6 DEF AtHome, Arrived, Home
    <2>1. \A a \in Proxies : a # p => stopped[a]
      BY <1>2, <1>6, SMTT(20) DEF Split, Switched
    <2>2. Quiet BY <1>1, <2>1 DEF Quiet
    <2>3. k >= boundary => data["new"][k] = data["old"][k] BY <2>2 DEF CatchesUp, Kept
    <2>4. data["old"][k] = latest[k] BY <1>6 DEF AtHome, Arrived, Home
    <2> QED BY <1>3, <2>3, <2>4, SMTT(20) DEF Home
  <1> QED BY <1>4, <1>5, <1>6, SMTT(20)

\* SET_CONFIG.
LEMMA SetConfigStep == ASSUME IInv, NEW p \in Proxies, SetConfig(p) PROVE IInv'
  <1> USE DEF IInv
  <1>1. /\ phase = "configuring" /\ p \in remaining /\ linked[p] /\ remaining' = remaining \ {p}
        /\ conf' = [conf EXCEPT ![p] = "new"]
        /\ UNCHANGED <<data, stopped, strays, phase, linked, todo, listed, relisted, boundary, toget,
                       fetched, todel, assumed>>
        /\ UNCHANGED <<latest, blurred, disturbed, lost, reverted, writes, runs>>
    BY DEF SetConfig, Command
  <1>2. /\ conf' \in [Proxies -> {"old", "new"}] /\ conf'[p] = "new"
        /\ \A q \in Proxies : q # p => conf'[q] = conf[q]
    BY <1>1 DEF TypeOK
  <1>9. /\ saved' \in [Proxies -> {"old", "new"}]
        /\ \A q \in Proxies : q # p => saved'[q] = saved[q]
    <2>1. saved' = saved \/ saved' = [saved EXCEPT ![p] = "new"] BY DEF SetConfig
    <2> QED BY <2>1 DEF TypeOK
  <1>10. faults' \in 0 .. MaxFaults
    <2>1. faults' = faults \/ Fails BY DEF SetConfig
    <2> QED BY <2>1, FaultCounted DEF TypeOK
  <1>3. TypeOK' BY <1>1, <1>2, <1>9, <1>10, SMTT(20) DEF TypeOK
  <1>4. Quiet' => Quiet /\ strays' = strays BY <1>1 DEF Quiet
  <1>5. Stamps' /\ Fresh' /\ Tracked' /\ Moved' /\ Exact' /\ CatchesUp' BY <1>1, <1>4, KeysSame
  <1>6. Configs' BY <1>1, <1>2, <1>9, SMTT(20) DEF Configs, Running
  <1>7. Locks' BY <1>1, SMTT(20) DEF Locks
  <1>8. AtHome' BY <1>1, <1>2, SwitchHome
  <1> QED BY <1>1, <1>3, <1>5, <1>6, <1>7, <1>8, SMTT(20)

\* A proxy dies.
LEMMA CrashStep == ASSUME IInv, NEW p \in Proxies, Crash(p) PROVE IInv'
  <1> USE DEF IInv
  <1>1. /\ Fails
        /\ stopped' = [stopped EXCEPT ![p] = FALSE] /\ linked' = [linked EXCEPT ![p] = FALSE]
        /\ UNCHANGED <<data, strays, phase, todo, listed, relisted, boundary, toget, fetched, todel,
                       remaining, assumed>>
        /\ UNCHANGED <<latest, blurred, disturbed, lost, writes, runs>>
    BY DEF Crash
  <1>2. stopped \in [Proxies -> BOOLEAN] /\ linked \in [Proxies -> BOOLEAN] BY DEF TypeOK
  <1>3. /\ stopped' \in [Proxies -> BOOLEAN] /\ stopped'[p] = FALSE
        /\ \A q \in Proxies : q # p => stopped'[q] = stopped[q]
    BY <1>1, <1>2, Zenon
  <1>4. /\ linked' \in [Proxies -> BOOLEAN] /\ linked'[p] = FALSE
        /\ \A q \in Proxies : q # p => linked'[q] = linked[q]
    BY <1>1, <1>2, Zenon
  <1>5. /\ saved' \in [Proxies -> {"old", "new"}] /\ \A q \in Proxies : q # p => saved'[q] = saved[q]
        /\ saved'[p] = saved[p] \/ (saved'[p] = "new" /\ phase = "configuring" /\ linked[p])
    BY DEF TypeOK, Crash
  <1>6. /\ conf' \in [Proxies -> {"old", "new"}] /\ \A q \in Proxies : q # p => conf'[q] = conf[q]
        /\ conf'[p] = saved'[p]
    <2>1. conf \in [Proxies -> {"old", "new"}] /\ conf' = [conf EXCEPT ![p] = saved'[p]]
      BY DEF TypeOK, Crash
    <2> QED BY <1>5, <2>1
  <1>7. reverted' = (reverted \/ (conf[p] = "new" /\ conf'[p] = "old")) BY Zenon DEF Crash
  <1>8. reverted' \in BOOLEAN /\ (reverted => reverted') BY <1>7, Zenon
  <1>9. \/ conf'[p] = conf[p] /\ reverted' = reverted
        \/ conf'[p] = "new" /\ phase = "configuring" /\ linked[p] /\ reverted' = reverted
        \/ conf[p] = "new" /\ reverted'
    <2>1. CASE conf'[p] = conf[p]
      <3>1. ~(conf[p] = "new" /\ conf'[p] = "old") BY <2>1
      <3>2. reverted \in BOOLEAN BY DEF TypeOK
      <3>3. reverted' = reverted BY <1>7, <3>1, <3>2, Zenon
      <3> QED BY <2>1, <3>3, Zenon
    <2>2. CASE conf'[p] = "new" /\ conf[p] = "old"
      <3>1. saved[p] # "new" BY <2>2 DEF Configs
      <3>2. phase = "configuring" /\ linked[p] BY <1>5, <1>6, <2>2, <3>1
      <3>3. ~(conf[p] = "new" /\ conf'[p] = "old") BY <2>2
      <3>4. reverted \in BOOLEAN BY DEF TypeOK
      <3>5. reverted' = reverted BY <1>7, <3>3, <3>4, Zenon
      <3> QED BY <2>2, <3>2, <3>5, Zenon
    <2>3. CASE conf'[p] = "old" /\ conf[p] = "new" BY <1>7, <2>3, Zenon
    <2>4. conf[p] \in {"old", "new"} /\ conf'[p] \in {"old", "new"} BY <1>6 DEF TypeOK
    <2> QED BY <2>1, <2>2, <2>3, <2>4
  <1>10. TypeOK'
    <2>1. faults' \in 0 .. MaxFaults BY <1>1, FaultCounted
    <2> QED BY <1>1, <1>3, <1>4, <1>5, <1>6, <1>8, <2>1, SMTT(20) DEF TypeOK
  <1>11. Quiet' => Quiet /\ strays' = strays BY <1>1, <1>3 DEF Quiet
  <1>12. Stamps' /\ Fresh' /\ Tracked' /\ Moved' /\ Exact' /\ CatchesUp' BY <1>1, <1>11, KeysSame
  <1>13. Configs'
    <2>1. \A q \in Proxies : saved'[q] = "new" => conf'[q] = "new" BY <1>5, <1>6 DEF Configs
    <2>2. CASE phase \in Running
      <3>1. conf'[p] = "old" BY <1>9, <2>2 DEF Configs, Running
      <3> QED BY <1>1, <1>6, <2>1, <2>2, <3>1 DEF Configs, Running
    <2>3. CASE phase \notin Running
      <3>1. ~reverted' => (~reverted /\ (conf'[p] = conf[p] \/ conf'[p] = "new")) BY <1>8, <1>9
      <3> QED BY <1>1, <1>6, <2>1, <2>3, <3>1 DEF Configs
    <2> QED BY <2>2, <2>3
  <1>14. Locks' BY <1>1, <1>3, <1>4 DEF Locks
  <1>15. AtHome'
    <2>1. CASE conf'[p] = conf[p] /\ reverted' = reverted
      <3>1. \A q \in Proxies : conf'[q] = conf[q] BY <1>6, <2>1, SMTT(20)
      <3>2. Split => Split'
        <4> SUFFICES ASSUME Split PROVE Split' OBVIOUS
        <4>1. PICK a, q \in Proxies : ~stopped[a] /\ conf[a] = "old" /\ conf[q] = "new" BY DEF Split
        <4>2. ~stopped'[a] BY <1>3, <4>1
        <4> QED BY <3>1, <4>1, <4>2 DEF Split
      <3>3. \A k : Home(k)' = Home(k) BY <1>1, <3>1 DEF Home, Switched
      <3>4. \A k : Arrived(k) => Arrived(k)' BY <1>1, <3>3 DEF Arrived
      <3> QED BY <1>1, <2>1, <3>2, <3>4 DEF AtHome
    <2>2. CASE conf'[p] = "new" /\ phase = "configuring" /\ linked[p] /\ reverted' = reverted
      BY <1>1, <1>3, <1>6, <2>2, SwitchHome, Zenon
    <2>3. CASE reverted' BY <2>3 DEF AtHome
    <2> QED BY <1>9, <2>1, <2>2, <2>3
  <1> QED BY <1>10, <1>12, <1>13, <1>14, <1>15

\* A SET fails on the old server: only a file is left behind.
LEMMA StrayStep == ASSUME IInv, NEW p \in Proxies, NEW k \in Keys, SetFails(p, k) PROVE IInv'
  <1> USE DEF IInv
  <1>1. /\ Fails /\ strays' = strays \cup {k} /\ ~stopped[p]
        /\ UNCHANGED <<data, conf, saved, stopped, phase, linked, todo, listed, relisted, boundary,
                       toget, fetched, todel, remaining, assumed>>
        /\ UNCHANGED <<latest, blurred, disturbed, lost, reverted, writes, runs>>
    BY DEF SetFails, manager
  <1>2. faults' \in 0 .. MaxFaults BY <1>1, FaultCounted
  <1>3. TypeOK' BY <1>1, <1>2, SMTT(20) DEF TypeOK
  <1>4. Quiet' => Quiet /\ strays' = strays BY <1>1 DEF Quiet
  <1>5. Stamps' /\ Fresh' /\ Tracked' /\ Moved' /\ Exact' /\ CatchesUp' BY <1>1, <1>4, KeysSame
  <1>6. Configs' /\ Locks' BY <1>1 DEF Configs, Locks
  <1> QED BY <1>1, <1>3, <1>5, <1>6, HomeSame

\* A GET or DELETE of the manager fails: its key is lost, and no other.
LEMMA CallFailsStep == ASSUME IInv, NEW k \in Keys, CallFails(k) PROVE IInv'
  <1> USE DEF IInv
  <1>1. /\ Fails /\ lost' = lost \cup {k} /\ phase \in {"copying", "updating", "cleaning"}
        /\ toget' \in {toget, toget \ {k}} /\ todel' \in {todel, todel \ {k}}
        /\ UNCHANGED <<data, conf, saved, stopped, strays, phase, linked, todo, listed, relisted,
                       boundary, fetched, remaining, assumed>>
        /\ UNCHANGED <<latest, blurred, disturbed, reverted, writes, runs>>
    BY DEF CallFails, cluster
  <1>2. faults' \in 0 .. MaxFaults BY <1>1, FaultCounted
  <1>3. TypeOK' BY <1>1, <1>2, SMTT(20) DEF TypeOK
  <1>4. Stamps' /\ Configs' /\ Locks' /\ Exact' /\ Moved'
    BY <1>1 DEF Stamps, Configs, Locks, Exact, Moved
  <1>5. Fresh' BY <1>1 DEF Fresh
  <1>6. \A j \in Kept' : j \in Kept /\ j # k BY <1>1 DEF Kept
  <1>7. \A j : j # k => (FirstCopy(j) => FirstCopy(j)') /\ (SecondCopy(j) => SecondCopy(j)')
    BY <1>1 DEF FirstCopy, SecondCopy
  <1>8. Tracked' BY <1>1, <1>6, <1>7 DEF Tracked
  <1>9. CatchesUp' BY <1>1, <1>6, <1>7 DEF CatchesUp, Quiet
  <1>10. AtHome' BY <1>1, HomeSame
  <1> QED BY <1>3, <1>4, <1>5, <1>8, <1>9, <1>10

\* The loops end.  After the second listing the keys that have changed are
\* copied again and those that are gone are removed: no other was copied wrongly.
LEMMA LoopStep == ASSUME IInv, Loop PROVE IInv'
  <1> USE DEF IInv
  <1>1. CASE Finish BY <1>1, ExitStep DEF Finish, ghosts, TypeOK
  <1>2. ASSUME ~Finish
        PROVE  /\ UNCHANGED <<data, conf, saved, stopped, strays, linked, listed, boundary, fetched, assumed,
                              latest, blurred, reverted, writes, runs, faults>>
               /\ AtHome' /\ Stamps'
    <2>1. UNCHANGED <<data, conf, saved, stopped, strays, linked, listed, boundary, fetched, assumed,
                      latest, blurred, reverted, writes, runs, faults>>
      BY <1>2 DEF Loop, Stopped, Relisted, Updated, Configured, Started, kept, cluster
    <2>2. lost \subseteq lost'
      BY <1>2 DEF Loop, Stopped, Relisted, Updated, Configured, Started
    <2> QED BY <2>1, <2>2, HomeSame DEF Stamps
  <1>3. CASE Stopped
    <2>1. /\ phase = "stopping" /\ remaining = {} /\ phase' = "relisting" /\ todo' = Keys
          /\ disturbed' = FALSE /\ UNCHANGED <<relisted, toget, todel, remaining, lost>>
      BY <1>3 DEF Stopped
    <2>2. ~Finish BY <2>1, SMTT(20) DEF Finish
    <2>3. TypeOK' BY <1>2, <2>1, <2>2, Zenon DEF TypeOK, Phases
    <2>4. Configs' /\ Locks' /\ CatchesUp' /\ Moved'
      BY <1>2, <2>1, <2>2 DEF Configs, Locks, CatchesUp, Moved, Running
    <2>5. Fresh' BY <1>2, <2>1, <2>2 DEF Fresh, AllCopied
    <2>6. Tracked' BY <1>2, <2>1, <2>2 DEF Tracked, FirstCopy, Kept
    <2>7. Exact' BY <1>2, <2>1, <2>2 DEF Exact, Fresh
    <2> QED BY <1>2, <2>2, <2>3, <2>4, <2>5, <2>6, <2>7
  <1>4. CASE Relisted
    <2> DEFINE upd == {x \in relisted : x[2] >= boundary}
    <2>1. /\ phase = "relisting" /\ todo = {} /\ relisted' = upd /\ toget' = Names(upd \ listed)
          /\ todel' = Names(listed) \ Names(upd) /\ phase' = "updating"
          /\ UNCHANGED <<todo, remaining, disturbed>>
      BY <1>4 DEF Relisted, Changed, Removed
    <2>0. /\ lost \subseteq lost' /\ lost' \subseteq Keys
          /\ strays # {} => \A k \in Keys : (data["old"][k] # Absent /\ k >= boundary /\ k \notin lost')
                                            => k \in Names(upd)
      BY <1>4 DEF Relisted, TypeOK, Held
    <2>2. ~Finish BY <2>1 DEF Finish
    <2>3. upd \in SUBSET Entry /\ (upd \ listed) \in SUBSET Entry /\ listed \in SUBSET Entry
      BY DataTypes
    <2>4. \A x \in upd : x \in relisted /\ x[2] >= boundary OBVIOUS
    <2>5. \A x \in relisted : x[2] >= boundary => x \in upd OBVIOUS
    <2> HIDE DEF upd
    <2>6. toget' \subseteq Keys /\ todel' \subseteq Keys BY <2>1, <2>3, NamesOf, SMTT(20)
    <2>7. TypeOK' BY <1>2, <2>1, <2>2, <2>3, <2>6, <2>0, Zenon DEF TypeOK, Phases, Entry
    <2>8. Configs' /\ Locks' /\ Tracked' /\ Exact' /\ Fresh' /\ Moved'
      BY <1>2, <2>1, <2>2, <2>4 DEF Configs, Locks, Moved, Running, Tracked, Exact, Fresh
    <2>9. CatchesUp'
      <3> SUFFICES ASSUME Quiet, NEW k \in Kept', k >= boundary PROVE SecondCopy(k)'
        BY <1>2, <2>1, <2>2 DEF CatchesUp, Quiet
      <3>0. k \in Kept /\ k \notin lost' BY <1>2, <2>0, <2>2 DEF Kept
      <3>1. k \in Keys /\ k \notin toget /\ fetched[k] = Absent
        BY <2>1, <3>0 DEF Kept, Fresh, AllCopied, Nothing
      <3>2. CASE data["old"][k] = Absent
        <4>1. \A x \in relisted : data["old"][x[2]] # Absent BY <2>1 DEF Exact
        <4>2. \A x \in upd : x[2] # k BY ONLY <2>4, <3>2, <4>1
        <4>3. k \notin Names(upd) /\ k \notin Names(upd \ listed) BY ONLY <4>2, SMTT(20) DEF Names
        <4>4. data["new"][k] # Absent => k \in Names(listed) BY <2>1, <3>1 DEF Fresh
        <4> QED BY <1>2, <2>1, <2>2, <3>1, <3>2, <4>3, <4>4 DEF SecondCopy
      <3>3. CASE data["old"][k] # Absent
        <4> DEFINE e == <<data["old"][k].stamp, k>>
        <4>0. e[2] = k OBVIOUS
        <4>1. ASSUME strays = {} PROVE e \in upd
          <5>1. e \in relisted BY <2>1, <3>1, <3>3, <4>1 DEF Exact
          <5> QED BY <2>5, <4>0, <5>1
        <4>6. ASSUME strays # {} PROVE e \in upd
          <5>1. k \in Names(upd) BY <2>0, <3>0, <3>1, <3>3, <4>6
          <5>2. PICK x \in upd : x[2] = k BY <2>3, <5>1, NamesOf
          <5>3. x \in Entry /\ x = <<x[1], x[2]>> BY <2>3, <5>2, Entries2
          <5>4. x[1] = data["old"][x[2]].stamp BY <2>1, <2>4, <5>2 DEF Exact
          <5> QED BY <5>2, <5>3, <5>4
        <4>2. e \in upd /\ e[2] = k BY <4>0, <4>1, <4>6, Zenon
        <4> HIDE DEF e
        <4>3. k \in Names(upd) /\ k \notin todel' BY <2>1, <4>2, SMTT(20) DEF Names
        <4>4. CASE e \in listed
          <5>1. FirstCopy(k) BY <2>1, <3>0, <3>3, <4>4 DEF Tracked, e
          <5>2. data["new"][k] = data["old"][k] BY <3>1, <5>1, SMTT(20) DEF FirstCopy
          <5> QED BY <1>2, <2>2, <3>1, <3>3, <4>3, <5>2, SMTT(20) DEF SecondCopy
        <4>5. CASE e \notin listed
          <5>1. k \in toget' BY <2>1, <4>2, <4>5 DEF Names
          <5> QED BY <1>2, <2>2, <3>3, <4>3, <5>1 DEF SecondCopy
        <4> QED BY <4>4, <4>5
      <3> QED BY <3>2, <3>3, SMTT(20)
    <2> QED BY <1>2, <2>2, <2>7, <2>8, <2>9
  <1>5. CASE Updated
    <2>1. /\ phase = "updating" /\ AllCopied /\ todel = {} /\ phase' = "configuring"
          /\ remaining' = Proxies /\ UNCHANGED <<relisted, todo, toget, todel, disturbed, lost>>
      BY <1>5 DEF Updated
    <2>2. ~Finish BY <2>1, SMTT(20) DEF Finish
    <2>3. TypeOK' BY <1>2, <2>1, <2>2, SMTT(20) DEF TypeOK, Phases
    <2>4. Configs' /\ Locks' /\ Moved' /\ Fresh' /\ Tracked' /\ Exact'
      BY <1>2, <2>1, <2>2 DEF Configs, Locks, Moved, Running, Fresh, Tracked, Exact
    <2>5. CatchesUp'
      <3> SUFFICES ASSUME Quiet, NEW k \in Kept, k >= boundary
                   PROVE  data["new"][k] = data["old"][k]
        BY <1>2, <2>1, <2>2 DEF CatchesUp, Kept, Quiet
      <3>1. SecondCopy(k) /\ k \in Keys BY <2>1 DEF CatchesUp, Kept
      <3>2. fetched[k] = Absent /\ k \notin toget BY <2>1, <3>1 DEF AllCopied, Nothing
      <3> QED BY <2>1, <3>1, <3>2, SMTT(20) DEF SecondCopy
    <2> QED BY <1>2, <2>2, <2>3, <2>4, <2>5
  <1>6. CASE Configured
    <2>1. /\ phase = "configuring" /\ remaining = {} /\ phase' = "starting"
          /\ remaining' = Proxies /\ UNCHANGED <<relisted, todo, toget, todel, disturbed, lost>>
      BY <1>6 DEF Configured
    <2>2. ~Finish BY <2>1, SMTT(20) DEF Finish
    <2>3. TypeOK' BY <1>2, <2>1, <2>2, SMTT(20) DEF TypeOK, Phases
    <2>4. Configs' /\ Locks' /\ Moved' /\ Fresh' /\ Tracked' /\ Exact' /\ CatchesUp'
      BY <1>2, <2>1, <2>2 DEF Configs, Locks, Moved, Running, Fresh, Tracked, Exact, CatchesUp
    <2> QED BY <1>2, <2>2, <2>3, <2>4
  <1>7. CASE Started
    <2>1. /\ phase = "starting" /\ phase' = "cleaning" /\ todel' = Names(relisted)
          /\ UNCHANGED <<relisted, todo, toget, remaining, disturbed, lost>>
      BY <1>7 DEF Started
    <2>2. ~Finish BY <2>1 DEF Finish
    <2>3. relisted \in SUBSET Entry BY DataTypes
    <2>4. todel' \subseteq Keys /\ \A k \in todel' : k >= boundary
      BY <2>1, <2>3, NamesOf, SMTT(20) DEF Moved
    <2>5. TypeOK' BY <1>2, <2>1, <2>2, <2>4, SMTT(20) DEF TypeOK, Phases
    <2>6. Configs' /\ Locks' /\ Moved' /\ Fresh' /\ Tracked' /\ Exact' /\ CatchesUp'
      BY <1>2, <2>1, <2>2, <2>4
      DEF Configs, Locks, Moved, Running, Fresh, Tracked, Exact, CatchesUp
    <2> QED BY <1>2, <2>2, <2>5, <2>6
  <1> QED BY <1>1, <1>3, <1>4, <1>5, <1>6, <1>7 DEF Loop

-----------------------------------------------------------------------------
(* Theorems.                                                               *)

\* Every step keeps the invariant.
LEMMA InvStep == IInv /\ [Next]_vars => IInv'
  <1> SUFFICES ASSUME IInv, [Next]_vars PROVE IInv' OBVIOUS
  <1>1. CASE Client BY <1>1, ClientStep, StrayStep DEF Client
  <1>2. CASE Begin BY <1>2, BeginStep
  <1>3. CASE Step
    <2>1. CASE key_difference BY <2>1, DifferenceStep
    <2>2. CASE Copied BY <2>2, CopiedStep
    <2>3. CASE Broken BY <2>3, ExitStep DEF Broken, ghosts, IInv, TypeOK
    <2>4. CASE Loop BY <2>4, LoopStep
    <2>5. ASSUME NEW k \in Keys, ListKey(k) \/ Get(k) \/ Put(k) \/ Remove(k) \/ Clean(k) PROVE IInv'
      BY <2>5, ListStep, GetStep, PutStep, RemoveStep, CleanStep
    <2>6. ASSUME NEW p \in Proxies, Stop(p) \/ SetConfig(p) \/ Start(p) PROVE IInv'
      BY <2>6, StopStep, SetConfigStep, StartStep
    <2> QED BY <1>3, <2>1, <2>2, <2>3, <2>4, <2>5, <2>6, SMTT(20) DEF Step
  <1>4. CASE Fault
    <2>1. CASE Die
      <3>1. faults' \in 0 .. MaxFaults BY <2>1, FaultCounted DEF Die, IInv
      <3> QED BY <2>1, <3>1, ExitStep DEF Die
    <2>2. ASSUME NEW p \in Proxies, Crash(p) PROVE IInv' BY <2>2, CrashStep
    <2>3. ASSUME NEW k \in Keys, CallFails(k) PROVE IInv' BY <2>3, CallFailsStep
    <2> QED BY <1>4, <2>1, <2>2, <2>3 DEF Fault
  <1>5. ASSUME NEW p \in Proxies, Resume(p) PROVE IInv' BY <1>5, StartStep
  <1>6. CASE UNCHANGED vars
    <2>1. /\ UNCHANGED <<data, conf, saved, stopped, strays, phase, linked, todo, listed, relisted, boundary, toget,
                         fetched, todel, remaining, assumed>>
          /\ UNCHANGED <<latest, blurred, disturbed, lost, reverted, writes, runs, faults>>
      BY <1>6 DEF vars, cluster, manager, ghosts
    <2>2. Quiet' => Quiet /\ strays' = strays BY <2>1, SMTT(20) DEF Quiet
    <2>3. Stamps' /\ Fresh' /\ Tracked' /\ Moved' /\ Exact' /\ CatchesUp' BY <2>1, <2>2, KeysSame, SMTT(20)
    <2>4. TypeOK' /\ Configs' /\ Locks' BY <2>1 DEF IInv, TypeOK, Configs, Locks
    <2> QED BY <2>1, <2>3, <2>4, HomeSame DEF IInv
  <1> QED BY <1>1, <1>2, <1>3, <1>4, <1>5, <1>6 DEF Next

\* Whatever keys, proxies and servers' contents there are, and wherever the
\* manager or a proxy dies, a save of a configuration fails or a call to a server
\* does, each proxy that serves clients finds every key with the item that was
\* last set, if ADD begins only on an empty server (do_add).  The exceptions are
\* those of ReadsLatest: no key is missing but the ones that the manager missed for
\* a stray file or a failed call or took for unchanged, and none at all unless
\* proxies were left with two configurations or one came back with an old one.
THEOREM LatestIsRead == Spec /\ ~Rerun => []ReadsLatest
  <1>1. IInv => ReadsLatest BY RouteHome DEF IInv, ReadsLatest, AtHome, Arrived
  <1> QED BY <1>1, InvInit, InvStep, PTL DEF Spec

\* Type correctness of the manager's and the cluster's state (do_add).
THEOREM ReshardTypes == Spec /\ ~Rerun => []TypeOK
  <1>1. IInv => TypeOK BY DEF IInv
  <1> QED BY <1>1, InvInit, InvStep, PTL DEF Spec

=============================================================================
