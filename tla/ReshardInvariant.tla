-------------------------- MODULE ReshardInvariant --------------------------
(***************************************************************************)
(* The inductive invariant of Reshard, and the proof that the initial      *)
(* states satisfy it and that the clients, the listings and the copying of *)
(* keys preserve it, for any keys and proxies, and any number of writes,   *)
(* tries and faults, when ADD begins on an empty server.                   *)
(***************************************************************************)
EXTENDS Reshard, TLAPS

Quiet == \A p \in Proxies : stopped[p]
Running == {"listing", "copying", "stopping", "relisting", "updating"}
Kept == Keys \ (blurred \cup lost)

\* No stamp is ahead of the clock.
Stamps ==
    /\ \A k \in Keys : data["old"][k] # Absent => data["old"][k].stamp <= writes
    /\ \A x \in listed : x[1] <= writes

\* Which configurations the proxies have; none has saved one that it does not have.
Configs ==
    /\ \A p \in Proxies : saved[p] = "new" => conf[p] = "new"
    /\ phase \in Running => \A p \in Proxies : conf[p] = "old"
    /\ (phase = "configuring" /\ ~reverted) => \A p \in Proxies \ remaining : conf[p] = "new"
    /\ (phase \in {"starting", "cleaning"} /\ ~reverted) => \A p \in Proxies : conf[p] = "new"

\* A proxy that the manager has stopped is stopped, or its connection is gone.
Locks ==
    /\ phase = "stopping" => \A p \in Proxies \ remaining : linked[p] => stopped[p]
    /\ phase \in {"relisting", "updating", "configuring"} =>
          \A p \in Proxies : linked[p] => stopped[p]

\* What is on the new server was listed, and nothing is under way between copies.
Fresh ==
    /\ phase = "listing" => data["new"] = Nothing
    /\ phase \in {"copying", "stopping", "relisting"} =>
          \A k \in Keys : (data["new"][k] # Absent \/ fetched[k] # Absent \/ k \in toget)
                             => k \in Names(listed)
    /\ phase \in {"idle", "listing", "stopping", "relisting"} => AllCopied
    /\ phase \in {"listing", "copying", "stopping"} => relisted = {}

\* The first copy of k is under way, or done.
FirstCopy(k) ==
    \/ k \in toget
    \/ fetched[k] # Absent /\ fetched[k] = data["old"][k]
    \/ fetched[k] = Absent /\ data["new"][k] = data["old"][k]

\* A key that still has the stamp it was listed with has been copied, or will be.
Tracked ==
    phase \in {"copying", "stopping", "relisting"} =>
        \A k \in Kept : (data["old"][k] # Absent /\ <<data["old"][k].stamp, k>> \in listed)
                           => FirstCopy(k)

\* What the second listing has found, with all proxies stopped, is there, and it
\* has found all that is there unless there are stray files.
Exact ==
    (phase = "relisting" /\ Quiet) =>
        /\ \A x \in relisted : data["old"][x[2]] # Absent /\ x[1] = data["old"][x[2]].stamp
        /\ strays = {} => /\ ~disturbed
                          /\ \A k \in Keys \ todo : data["old"][k] # Absent
                                                      => <<data["old"][k].stamp, k>> \in relisted

\* The second copy of k, or its removal, is under way or done.
SecondCopy(k) ==
    \/ k \in toget /\ k \notin todel /\ data["old"][k] # Absent
    \/ k \notin toget /\ k \notin todel /\ fetched[k] # Absent /\ fetched[k] = data["old"][k]
    \/ k \notin toget /\ k \in todel /\ fetched[k] = Absent /\ data["old"][k] = Absent
    \/ k \notin toget /\ k \notin todel /\ fetched[k] = Absent /\ data["new"][k] = data["old"][k]

\* With all proxies stopped the new server catches up with the old one.
CatchesUp ==
    /\ (phase = "updating" /\ Quiet) => \A k \in Kept : k >= boundary => SecondCopy(k)
    /\ (phase = "configuring" /\ Quiet) =>
          \A k \in Kept : k >= boundary => data["new"][k] = data["old"][k]

\* Only keys that have moved are removed from the old server.
Moved ==
    /\ phase \in {"updating", "configuring", "starting"} => \A x \in relisted : x[2] >= boundary
    /\ phase = "cleaning" => \A k \in todel : k >= boundary

\* Where the current item of k is, unless the manager has lost it on the way there.
Switched == \E q \in Proxies : conf[q] = "new"
Home(k) == IF Switched /\ k >= boundary THEN "new" ELSE "old"
Arrived(k) == (k \in lost /\ Home(k) = "new") \/ data[Home(k)][k] = latest[k]
AtHome == Split \/ reverted \/ \A k \in Keys \ blurred : Arrived(k)

\* The inductive invariant.
IInv ==
    /\ TypeOK /\ Stamps /\ Configs /\ Locks /\ Fresh /\ Tracked /\ Exact /\ CatchesUp
    /\ Moved /\ AtHome /\ ~Rerun

-----------------------------------------------------------------------------
(* Helpers.                                                                *)

Maps == [Keys -> Item \cup {Absent}]
Entry == (1 .. MaxWrites) \X Keys

\* One item of one server changes.
LEMMA Write ==
    ASSUME data \in [Servers -> Maps], NEW s \in Servers, NEW k \in Keys,
           NEW v \in Item \cup {Absent}, data' = [data EXCEPT ![s][k] = v]
    PROVE  /\ data' \in [Servers -> Maps] /\ data'[s][k] = v
           /\ \A t \in Servers, j \in Keys : (t # s \/ j # k) => data'[t][j] = data[t][j]
           /\ \A t \in Servers : t # s => data'[t] = data[t]
  <1>1. data[s] \in Maps OBVIOUS
  <1>2. data'[s] = [data[s] EXCEPT ![k] = v] /\ \A t \in Servers : t # s => data'[t] = data[t]
    OBVIOUS
  <1>3. data'[s] \in Maps BY <1>1, <1>2 DEF Maps
  <1>4. data' \in [Servers -> Maps] BY <1>3, Zenon
  <1>5. data'[s][k] = v /\ \A j \in Keys : j # k => data'[s][j] = data[s][j]
    BY <1>1, <1>2 DEF Maps
  <1> QED BY <1>2, <1>4, <1>5, Zenon

\* The parts of an entry of a listing.
LEMMA Entries2 ==
    ASSUME NEW x \in Entry
    PROVE  x = <<x[1], x[2]>> /\ x[1] \in 1 .. MaxWrites /\ x[2] \in Keys
  BY DEF Entry

\* The names in a listing.
LEMMA NamesOf ==
    ASSUME NEW L \in SUBSET Entry
    PROVE  /\ Names(L) \subseteq Keys
           /\ \A s, k : <<s, k>> \in L => k \in Names(L)
           /\ \A k \in Names(L) : \E x \in L : x[2] = k
  <1>1. \A x \in L : x[2] \in Keys BY Entries2
  <1>2. \A s, k : <<s, k>>[2] = k OBVIOUS
  <1> QED BY <1>1, <1>2 DEF Names

\* What an item is.
LEMMA ItemFields ==
    ASSUME NEW i \in Item
    PROVE  i.stamp \in 1 .. MaxWrites /\ i # Absent
  BY AbsentAssumption DEF Item

\* Types of what the manager reads.
LEMMA DataTypes ==
    ASSUME TypeOK
    PROVE  /\ data \in [Servers -> Maps] /\ "old" \in Servers /\ "new" \in Servers
           /\ data["old"] \in Maps /\ data["new"] \in Maps /\ fetched \in Maps /\ latest \in Maps
           /\ listed \in SUBSET Entry /\ relisted \in SUBSET Entry
           /\ writes \in Nat /\ boundary \in Nat
           /\ \A k \in Keys : k \in Nat
  BY ConstantsAssumption DEF TypeOK, Maps, Entry, Servers

\* An item on a server has a stamp.
LEMMA Stamped ==
    ASSUME TypeOK, NEW s \in Servers, NEW k \in Keys, data[s][k] # Absent
    PROVE  data[s][k] \in Item /\ data[s][k].stamp \in 1 .. MaxWrites
                                /\ <<data[s][k].stamp, k>> \in Entry
  <1>1. data[s] \in Maps BY DataTypes
  <1>2. data[s][k] \in Item BY <1>1 DEF Maps
  <1> QED BY <1>2, ItemFields DEF Entry

\* The invariant holds at the start.
LEMMA InvInit == Init /\ ~Rerun => IInv
  <1> SUFFICES ASSUME Init, ~Rerun PROVE IInv OBVIOUS
  <1>1. Nothing \in Maps /\ \A k \in Keys : Nothing[k] = Absent BY DEF Nothing, Maps
  <1>2. data \in [Servers -> Maps] /\ data["old"] = Nothing /\ data["new"] = Nothing
    BY <1>1 DEF Init, Servers
  <1>3. /\ conf \in [Proxies -> {"old", "new"}] /\ saved \in [Proxies -> {"old", "new"}]
        /\ stopped \in [Proxies -> BOOLEAN] /\ linked \in [Proxies -> BOOLEAN]
    BY DEF Init
  <1>4. /\ writes \in 0 .. MaxWrites /\ runs \in 0 .. MaxRuns /\ faults \in 0 .. MaxFaults
        /\ boundary \in Nat
    BY ConstantsAssumption DEF Init
  <1>5. TypeOK BY <1>1, <1>2, <1>3, <1>4, Zenon DEF Init, TypeOK, Phases, Maps
  <1>6. Stamps BY <1>1, <1>2 DEF Init, Stamps
  <1>7. Configs /\ Locks /\ Tracked /\ Exact /\ CatchesUp /\ Moved
    BY DEF Init, Configs, Locks, Tracked, Exact, CatchesUp, Moved, Running
  <1>8. Fresh BY DEF Init, Fresh, AllCopied
  <1>9. AtHome
    <2>1. ~Switched BY DEF Init, Switched
    <2>2. \A k \in Keys : Home(k) = "old" BY <2>1 DEF Home
    <2> QED BY <1>2, <2>2 DEF Init, AtHome, Arrived
  <1> QED BY <1>5, <1>6, <1>7, <1>8, <1>9 DEF IInv

-----------------------------------------------------------------------------
(* Clients.                                                                *)

\* A proxy that serves asks the server where the item is.
LEMMA RouteHome ==
    ASSUME ~Split, TypeOK, NEW p \in Proxies, ~stopped[p], NEW k \in Keys
    PROVE  Route(p, k) = Home(k)
  <1>1. conf[p] \in {"old", "new"} BY DEF TypeOK
  <1>2. CASE conf[p] = "new" BY <1>2 DEF Route, Home, Switched
  <1>3. CASE conf[p] = "old" BY <1>3 DEF Route, Home, Switched, Split
  <1> QED BY <1>1, <1>2, <1>3

\* A SET or DELETE with a stamp that the manager has not seen, unless the key is
\* blurred.
LEMMA ClientWrite ==
    ASSUME IInv, NEW p \in Proxies, NEW k \in Keys, ~stopped[p], NEW v \in Item \cup {Absent},
           data' = [data EXCEPT ![Route(p, k)][k] = v], latest' = [latest EXCEPT ![k] = v],
           writes' \in 0 .. MaxWrites, writes <= writes', v # Absent => v.stamp <= writes',
           k \in blurred' \/ v = Absent \/ <<v.stamp, k>> \notin listed,
           blurred \subseteq blurred', blurred' \subseteq Keys, disturbed' \in BOOLEAN,
           UNCHANGED <<conf, saved, stopped, strays, lost, reverted, runs, faults>>,
           UNCHANGED manager
    PROVE  IInv'
  <1> USE DEF IInv
  <1>0. UNCHANGED <<phase, linked, todo, listed, relisted, boundary, toget, fetched, todel,
                    remaining, assumed>>
    BY DEF manager
  <1> DEFINE s == Route(p, k)
  <1>1. s \in Servers BY DEF Route, Servers
  <1>2. data \in [Servers -> Maps] /\ latest \in Maps BY DataTypes
  <1>3. /\ data' \in [Servers -> Maps] /\ data'[s][k] = v
        /\ \A t \in Servers, j \in Keys : (t # s \/ j # k) => data'[t][j] = data[t][j]
        /\ \A t \in Servers : t # s => data'[t] = data[t]
    <2>1. data' = [data EXCEPT ![s][k] = v] OBVIOUS
    <2> HIDE DEF s
    <2> QED BY <1>1, <1>2, <2>1, Write, Zenon
  <1>4. /\ latest' \in Maps /\ latest'[k] = v
        /\ \A j \in Keys : j # k => latest'[j] = latest[j]
    BY <1>2 DEF Maps
  <1>5. "old" \in Servers /\ "new" \in Servers BY DEF Servers
  <1>6. phase \in Running => s = "old" BY DEF Configs, Route
  <1>7. phase \in Running => data'["new"] = data["new"] BY <1>3, <1>5, <1>6
  <1> HIDE DEF s
  <1>8. \A j \in Keys : data'["old"][j] = data["old"][j] \/ (j = k /\ data'["old"][j] = v)
    BY <1>3, <1>5
  <1>9. Kept' \subseteq Kept BY DEF Kept
  <1>10. TypeOK' BY <1>0, <1>3, <1>4 DEF TypeOK, Maps
  <1>11. Stamps'
    <2>1. ASSUME NEW j \in Keys, data'["old"][j] # Absent
          PROVE  data'["old"][j].stamp <= writes'
      <3>1. CASE data'["old"][j] = v BY <2>1, <3>1
      <3>2. CASE data'["old"][j] = data["old"][j]
        <4>1. data["old"][j].stamp \in 1 .. MaxWrites /\ data["old"][j].stamp <= writes
          BY <2>1, <3>2, <1>5, Stamped, Zenon DEF Stamps
        <4> QED BY <3>2, <4>1, DataTypes
      <3> QED BY <1>8, <3>1, <3>2
    <2>2. ASSUME NEW x \in listed PROVE x[1] <= writes'
      <3>1. x[1] \in 1 .. MaxWrites /\ x[1] <= writes BY DataTypes, Entries2 DEF Stamps
      <3> QED BY <3>1, DataTypes
    <2> QED BY <1>0, <2>1, <2>2 DEF Stamps
  <1>12. Configs' /\ Locks' /\ Moved' BY <1>0 DEF Configs, Locks, Moved
  <1>13. Fresh' BY <1>0, <1>7 DEF Fresh, AllCopied, Running
  <1>14. Tracked'
    <2> SUFFICES ASSUME phase \in {"copying", "stopping", "relisting"}, NEW j \in Kept',
                        data'["old"][j] # Absent, <<data'["old"][j].stamp, j>> \in listed
                 PROVE  FirstCopy(j)'
      BY <1>0 DEF Tracked
    <2>1. data'["new"] = data["new"] BY <1>7 DEF Running
    <2>2. j \in Keys /\ j \in Kept BY <1>9 DEF Kept
    <2>3. data'["old"][j] = data["old"][j] BY <1>8, <2>2 DEF Kept
    <2>4. FirstCopy(j) BY <2>2, <2>3 DEF Tracked
    <2> QED BY <1>0, <2>1, <2>3, <2>4 DEF FirstCopy
  <1>15. Exact' /\ CatchesUp' BY DEF Exact, CatchesUp, Quiet
  <1>16. AtHome'
    <2>1. Split' = Split BY DEF Split
    <2>2. \A j \in Keys : Home(j)' = Home(j) BY <1>0 DEF Home, Switched
    <2>3. ASSUME ~Split, ~reverted, NEW j \in Keys \ blurred' PROVE Arrived(j)'
      <3>1. j \in Keys /\ j \in Keys \ blurred /\ Home(j) \in Servers BY DEF Home, Servers
      <3>2. CASE j = k
        <4>1. Home(j) = s BY <2>3, <3>2, RouteHome DEF s
        <4>2. data'[Home(j)][j] = latest'[j] BY <1>3, <1>4, <3>2, <4>1
        <4> QED BY <2>2, <3>1, <4>2 DEF Arrived
      <3>3. CASE j # k
        <4>1. data'[Home(j)][j] = data[Home(j)][j] BY <1>3, <3>1, <3>3
        <4>2. Arrived(j) BY <2>3, <3>1 DEF AtHome
        <4> QED BY <1>4, <2>2, <3>1, <3>3, <4>1, <4>2 DEF Arrived
      <3> QED BY <3>2, <3>3
    <2> QED BY <2>1, <2>3 DEF AtHome
  <1> QED BY <1>10, <1>11, <1>12, <1>13, <1>14, <1>15, <1>16

\* Both are such steps.
LEMMA ClientStep ==
    ASSUME IInv, NEW p \in Proxies, NEW k \in Keys, Set(p, k) \/ Delete(p, k)
    PROVE  IInv'
  <1>2. CASE Set(p, k)
    <2>1. PICK stamp \in {writes + 1} \cup {s \in 1 .. writes : <<s, k>> \in listed} :
             LET item == [value |-> writes + 1, stamp |-> stamp]
             IN  /\ data' = [data EXCEPT ![Route(p, k)][k] = item]
                 /\ latest' = [latest EXCEPT ![k] = item]
                 /\ blurred' = IF stamp = writes + 1 THEN blurred ELSE blurred \cup {k}
      BY <1>2, Zenon DEF Set
    <2> DEFINE item == [value |-> writes + 1, stamp |-> stamp]
    <2>2. /\ ~stopped[p] /\ writes < MaxWrites /\ writes' = writes + 1
          /\ UNCHANGED <<conf, saved, stopped, strays, disturbed, lost, reverted, runs, faults>>
          /\ UNCHANGED manager
      BY <1>2 DEF Set
    <2>3. writes \in Nat /\ MaxWrites \in Nat BY DataTypes, ConstantsAssumption DEF IInv
    <2>4. /\ stamp \in 1 .. writes + 1 /\ writes' \in 0 .. MaxWrites /\ writes <= writes'
          /\ stamp \in 1 .. MaxWrites /\ writes + 1 \in 1 .. MaxWrites
      BY <2>1, <2>2, <2>3
    <2>5. item \in Item /\ item.stamp = stamp BY <2>4 DEF Item
    <2>6. stamp <= writes' BY <2>2, <2>3, <2>4
    <2>7. k \in blurred' \/ <<stamp, k>> \notin listed
      <3>1. CASE stamp = writes + 1
        <4>1. \A x \in listed : x[1] <= writes BY DEF IInv, Stamps
        <4>2. <<stamp, k>> \in listed => stamp <= writes
          <5>1. <<stamp, k>>[1] = stamp OBVIOUS
          <5> QED BY <4>1, <5>1
        <4> QED BY <2>3, <3>1, <4>2
      <3>2. CASE stamp # writes + 1 BY <2>1, <3>2
      <3> QED BY <3>1, <3>2
    <2>8. /\ blurred \subseteq blurred' /\ blurred' \subseteq Keys /\ disturbed' \in BOOLEAN
      BY <2>1, <2>2 DEF IInv, TypeOK
    <2>9. data' = [data EXCEPT ![Route(p, k)][k] = item] /\ latest' = [latest EXCEPT ![k] = item]
      BY <2>1
    <2> HIDE DEF item
    <2> QED BY <2>2, <2>4, <2>5, <2>6, <2>7, <2>8, <2>9, ClientWrite, Zenon
  <1>3. CASE Delete(p, k)
    <2>1. /\ ~stopped[p] /\ data' = [data EXCEPT ![Route(p, k)][k] = Absent]
          /\ latest' = [latest EXCEPT ![k] = Absent]
          /\ UNCHANGED <<conf, saved, stopped, strays, blurred, lost, reverted, writes, runs, faults>>
          /\ UNCHANGED manager
      BY <1>3 DEF Delete
    <2>2. disturbed' \in BOOLEAN
      <3>1. disturbed' = (disturbed \/ phase \in {"listing", "relisting"}) BY <1>3 DEF Delete
      <3> QED BY <3>1, Zenon
    <2>3. /\ writes' \in 0 .. MaxWrites /\ writes <= writes' /\ blurred \subseteq blurred'
          /\ blurred' \subseteq Keys
      BY <2>1, DataTypes DEF IInv, TypeOK
    <2>4. Absent \in Item \cup {Absent} OBVIOUS
    <2> QED BY <2>1, <2>2, <2>3, <2>4, ClientWrite, Zenon
  <1> QED BY <1>2, <1>3

-----------------------------------------------------------------------------
(* The manager.                                                            *)

\* Nothing that says where items are has changed.
LEMMA HomeSame ==
    ASSUME AtHome, UNCHANGED <<data, conf, stopped, boundary, latest, blurred, reverted>>,
           lost \subseteq lost'
    PROVE  AtHome'
  <1>1. Split' = Split BY DEF Split
  <1>2. \A k : Home(k)' = Home(k) BY DEF Home, Switched
  <1>3. \A k : Arrived(k) => Arrived(k)' BY <1>2 DEF Arrived
  <1> QED BY <1>1, <1>3 DEF AtHome

\* No proxy is switched before SET_CONFIG.
LEMMA NotSwitched ==
    ASSUME Configs, phase \in Running
    PROVE  ~Switched /\ ~Split /\ \A k : Home(k) = "old"
  BY DEF Configs, Switched, Split, Home

\* A fault is counted.
LEMMA FaultCounted == ASSUME TypeOK, Fails PROVE faults' \in 0 .. MaxFaults
  <1>1. faults \in 0 .. MaxFaults /\ MaxFaults \in Nat BY ConstantsAssumption DEF TypeOK
  <1> QED BY <1>1 DEF Fails

\* The process ends.
LEMMA ExitStep ==
    ASSUME IInv, Exit, UNCHANGED <<latest, blurred, disturbed, lost, reverted, writes, runs>>,
           faults' \in 0 .. MaxFaults
    PROVE  IInv'
  <1> USE DEF IInv
  <1>1. /\ phase' = "idle" /\ todo' = {} /\ toget' = {} /\ fetched' = Nothing /\ todel' = {}
        /\ remaining' = {} /\ UNCHANGED <<data, conf, saved, stopped, strays, listed, relisted, boundary, assumed>>
    BY DEF Exit, cluster
  <1>2. linked' \in [Proxies -> BOOLEAN] BY DEF Exit
  <1>3. Nothing \in [Keys -> Item \cup {Absent}] BY DEF Nothing
  <1>4. TypeOK' BY <1>1, <1>2, <1>3 DEF TypeOK, Phases
  <1>5. Stamps' BY <1>1 DEF Stamps
  <1>6. Configs' /\ Locks' /\ Tracked' /\ Exact' /\ CatchesUp' /\ Moved'
    BY <1>1 DEF Configs, Locks, Tracked, Exact, CatchesUp, Moved, Running
  <1>7. Fresh' BY <1>1 DEF Fresh, AllCopied
  <1> QED BY <1>1, <1>4, <1>5, <1>6, <1>7, HomeSame

\* ADD begins.
LEMMA BeginStep == ASSUME IInv, Begin PROVE IInv'
  <1> USE DEF IInv
  <1>1. /\ phase = "idle" /\ phase' = "listing" /\ todo' = Keys /\ listed' = {} /\ relisted' = {}
        /\ runs < MaxRuns /\ runs' = runs + 1 /\ disturbed' = FALSE /\ lost' = {}
        /\ \A p \in Proxies : ~stopped[p] /\ conf[p] = "old"
        /\ UNCHANGED <<data, conf, saved, stopped, strays, boundary, toget, fetched, todel, remaining, assumed>>
        /\ UNCHANGED <<latest, blurred, reverted, writes, faults>>
    BY DEF Begin, cluster
  <1>2. data["new"] = Nothing
    <2>1. \A k \in Keys : data["new"][k] = Absent BY DEF Begin, Held
    <2>2. data["new"] \in Maps BY DataTypes
    <2> QED BY <2>1, <2>2, Zenon DEF Maps, Nothing
  <1>3. linked' \in [Proxies -> BOOLEAN] BY DEF Begin
  <1>4. runs' \in 0 .. MaxRuns BY <1>1, ConstantsAssumption DEF TypeOK
  <1>5. TypeOK' BY <1>1, <1>3, <1>4, Zenon DEF TypeOK, Phases
  <1>6. Stamps' BY <1>1 DEF Stamps
  <1>7. Configs' /\ Locks' /\ Tracked' /\ Exact' /\ CatchesUp' /\ Moved'
    BY <1>1 DEF Configs, Locks, Tracked, Exact, CatchesUp, Moved, Running
  <1>8. Fresh' BY <1>1, <1>2, Zenon DEF Fresh, AllCopied
  <1>9. AtHome'
    <2>1. ~Split /\ \A k : Home(k) = "old" BY <1>1 DEF Switched, Split, Home
    <2>2. \A k : Home(k)' = "old" BY <1>1 DEF Switched, Home
    <2>3. \A k : Arrived(k) => Arrived(k)' BY <1>1, <2>1, <2>2 DEF Arrived
    <2> QED BY <1>1, <2>1, <2>3 DEF AtHome
  <1> QED BY <1>1, <1>5, <1>6, <1>7, <1>8, <1>9

\* get_keys reaches a key.
LEMMA ListStep == ASSUME IInv, NEW k \in Keys, ListKey(k) PROVE IInv'
  <1> USE DEF IInv
  <1>1. /\ phase \in {"listing", "relisting"} /\ k \in todo
        /\ UNCHANGED <<data, conf, saved, stopped, strays, phase, linked, boundary, toget, fetched, todel,
                       remaining, assumed>>
        /\ UNCHANGED <<latest, blurred, disturbed, lost, reverted, writes, runs, faults>>
    BY DEF ListKey, cluster, ghosts
  <1>0. todo' \subseteq Keys /\ (strays = {} => todo' = todo \ {k}) BY DEF ListKey, TypeOK
  <1>2. PICK found \in {Entries(k)} \cup (IF disturbed \/ strays # {} THEN {{}} ELSE {}) :
           IF phase = "listing" THEN listed' = listed \cup found /\ UNCHANGED relisted
                                ELSE relisted' = relisted \cup found /\ UNCHANGED listed
    BY Zenon DEF ListKey
  <1>3. found = Entries(k) \/ ((disturbed \/ strays # {}) /\ found = {}) BY Zenon
  <1>4. \A x \in found : data["old"][k] # Absent /\ x = <<data["old"][k].stamp, k>>
    BY <1>3 DEF Entries
  <1>5. ASSUME NEW x \in found
        PROVE  x \in Entry /\ x[1] <= writes /\ x[2] = k
    <2>1. data["old"][k] # Absent /\ x = <<data["old"][k].stamp, k>> BY <1>4
    <2>2. x \in Entry BY <2>1, Stamped, DataTypes
    <2> QED BY <2>1, <2>2 DEF Stamps
  <1>6. TypeOK'
    <2>1. listed' \in SUBSET Entry /\ relisted' \in SUBSET Entry BY <1>2, <1>5, DataTypes
    <2> QED BY <1>0, <1>1, <2>1 DEF TypeOK, Entry
  <1>7. Stamps'
    <2>1. \A x \in listed' : x[1] <= writes BY <1>2, <1>5 DEF Stamps
    <2> QED BY <1>1, <2>1 DEF Stamps
  <1>8. Configs' /\ Locks' /\ CatchesUp' /\ Moved'
    BY <1>1 DEF Configs, Locks, CatchesUp, Moved, Running
  <1>9. Fresh'
    <2>1. CASE phase = "listing" BY <1>1, <1>2, <2>1 DEF Fresh, AllCopied
    <2>2. CASE phase = "relisting" BY <1>1, <1>2, <2>2 DEF Fresh, AllCopied
    <2> QED BY <1>1, <2>1, <2>2
  <1>10. Tracked'
    <2>1. CASE phase = "listing" BY <1>1, <2>1 DEF Tracked
    <2>2. CASE phase = "relisting" BY <1>1, <1>2, <2>2 DEF Tracked, FirstCopy, Kept
    <2> QED BY <1>1, <2>1, <2>2
  <1>11. Exact'
    <2> SUFFICES ASSUME phase = "relisting", Quiet
                 PROVE  /\ \A x \in relisted' : /\ data["old"][x[2]] # Absent
                                                /\ x[1] = data["old"][x[2]].stamp
                        /\ strays = {} =>
                              /\ ~disturbed
                              /\ \A j \in Keys \ todo' : data["old"][j] # Absent
                                                         => <<data["old"][j].stamp, j>> \in relisted'
      BY <1>1, Zenon DEF Exact, Quiet
    <2>1. relisted' = relisted \cup found BY <1>2
    <2>2. ASSUME NEW x \in relisted'
          PROVE  data["old"][x[2]] # Absent /\ x[1] = data["old"][x[2]].stamp
      <3>1. CASE x \in relisted BY <3>1 DEF Exact
      <3>2. CASE x \in found
        <4>1. data["old"][k] # Absent /\ x = <<data["old"][k].stamp, k>> BY <1>4, <3>2
        <4>2. x[1] = data["old"][k].stamp /\ x[2] = k BY <4>1
        <4> QED BY <4>1, <4>2
      <3> QED BY <2>1, <3>1, <3>2
    <2>3. ASSUME strays = {}
          PROVE  /\ ~disturbed
                 /\ \A j \in Keys \ todo' : data["old"][j] # Absent
                                            => <<data["old"][j].stamp, j>> \in relisted'
      <3>1. ~disturbed BY <2>3 DEF Exact
      <3>2. found = Entries(k) BY <1>3, <2>3, <3>1, Zenon
      <3>3. ASSUME NEW j \in Keys \ todo', data["old"][j] # Absent
            PROVE  <<data["old"][j].stamp, j>> \in relisted'
        <4>1. CASE j = k BY <2>1, <3>2, <3>3, <4>1 DEF Entries
        <4>2. CASE j # k
          <5>1. j \in Keys \ todo BY <1>0, <2>3, <4>2
          <5> QED BY <2>1, <2>3, <3>3, <5>1 DEF Exact
        <4> QED BY <4>1, <4>2
      <3> QED BY <3>1, <3>3
    <2> QED BY <2>2, <2>3
  <1> QED BY <1>1, <1>6, <1>7, <1>8, <1>9, <1>10, <1>11, HomeSame

\* key_difference chooses the boundary and what to copy.
LEMMA DifferenceStep == ASSUME IInv, key_difference PROVE IInv'
  <1> USE DEF IInv
  <1>1. /\ phase = "listing" /\ todo = {}
        /\ UNCHANGED <<latest, blurred, disturbed, lost, reverted, writes, runs, faults>>
    BY DEF key_difference, ghosts
  <1>2. CASE Exit BY <1>1, <1>2, ExitStep DEF TypeOK
  <1>3. CASE ~Exit
    <2>1. PICK b \in Names(listed) \cup {k + 1 : k \in strays} :
             LET moved == {x \in listed : x[2] >= b}
             IN  /\ phase' = "copying" /\ boundary' = b /\ listed' = moved
                 /\ toget' = Names(moved) \ Held("new")
                 /\ assumed' = Names(moved) \cap Held("new")
                 /\ todel' = Held("new") \ Names(moved)
                 /\ UNCHANGED <<cluster, linked, todo, relisted, fetched, remaining>>
      BY <1>3 DEF key_difference
    <2> DEFINE moved == {x \in listed : x[2] >= b}
    <2>2. /\ phase' = "copying" /\ boundary' = b /\ listed' = moved
          /\ UNCHANGED <<data, conf, saved, stopped, strays, linked, todo, relisted, fetched, remaining>>
      BY <2>1 DEF cluster
    <2>3. Held("new") = {}
      BY <1>1 DEF Held, Fresh, Nothing
    <2>4. toget' = Names(moved) /\ assumed' = {} /\ todel' = {} BY <2>1, <2>3
    <2>5. moved \in SUBSET Entry /\ moved \subseteq listed BY DataTypes
    <2> HIDE DEF moved
    <2>6. b \in Nat /\ Names(moved) \subseteq Keys
      <3>1. Names(listed) \subseteq Nat BY DataTypes, NamesOf
      <3>2. \A k \in strays : k \in Nat BY ConstantsAssumption DEF TypeOK
      <3> QED BY <2>5, <3>1, <3>2, NamesOf
    <2>7. TypeOK' BY <1>1, <2>2, <2>4, <2>5, <2>6 DEF TypeOK, Phases, Entry
    <2>8. Stamps' BY <1>1, <2>2, <2>5, Zenon DEF Stamps
    <2>9. Configs' /\ Locks' /\ CatchesUp' /\ Moved' /\ Exact'
      <3>1. Configs' BY <1>1, <2>2 DEF Configs, Running
      <3>2. Locks' /\ Moved' BY <2>2 DEF Locks, Moved
      <3>3. CatchesUp' /\ Exact' BY <2>2 DEF CatchesUp, Exact
      <3> QED BY <3>1, <3>2, <3>3
    <2>10. Fresh' BY <1>1, <2>2, <2>4 DEF Fresh, Nothing, AllCopied
    <2>11. Tracked'
      <3> SUFFICES ASSUME NEW k \in Kept, <<data["old"][k].stamp, k>> \in moved
                   PROVE  k \in toget'
        BY <1>1, <2>2, SMTT(20) DEF Tracked, FirstCopy, Kept
      <3> QED BY <2>4, <2>5, NamesOf
    <2>12. AtHome'
      <3>1. ~Switched /\ ~Split /\ \A k : Home(k) = "old" BY <1>1, NotSwitched DEF Running
      <3>2. ~Switched' /\ ~Split' BY <2>2, <3>1 DEF Switched, Split
      <3>3. \A k : Home(k)' = "old" BY <3>2 DEF Home
      <3>4. \A k : Arrived(k) => Arrived(k)' BY <1>1, <2>2, <3>1, <3>3 DEF Arrived
      <3> QED BY <1>1, <3>1, <3>4 DEF AtHome
    <2> QED BY <2>7, <2>8, <2>9, <2>10, <2>11, <2>12, Zenon
  <1> QED BY <1>2, <1>3

\* clone_get_multi gets a key from the old server.
LEMMA GetStep == ASSUME IInv, NEW k \in Keys, Get(k) PROVE IInv'
  <1> USE DEF IInv
  <1>1. /\ phase \in {"copying", "updating"} /\ k \in toget /\ toget' = toget \ {k}
        /\ fetched' = [fetched EXCEPT ![k] = data["old"][k]]
        /\ UNCHANGED <<data, conf, saved, stopped, strays, phase, linked, todo, listed, relisted, boundary, todel,
                       remaining, assumed>>
        /\ UNCHANGED <<latest, blurred, disturbed, lost, reverted, writes, runs, faults>>
    BY DEF Get, cluster, ghosts
  <1>2. data["old"] \in Maps /\ fetched \in Maps BY DataTypes, SMTT(20)
  <1>3. /\ fetched' \in Maps /\ fetched'[k] = data["old"][k]
        /\ \A j \in Keys : j # k => fetched'[j] = fetched[j]
    BY <1>1, <1>2, Zenon DEF Maps
  <1>4. TypeOK' BY <1>1, <1>3, SMTT(20) DEF TypeOK, Maps
  <1>5. Stamps' BY <1>1, Zenon DEF Stamps
  <1>6. Configs' /\ Locks' /\ Moved' /\ Exact'
    BY <1>1 DEF Configs, Locks, Moved, Exact, Running
  <1>7. Fresh'
    <2> SUFFICES ASSUME phase = "copying", NEW j \in Keys,
                        data["new"][j] # Absent \/ fetched'[j] # Absent \/ j \in toget'
                 PROVE  j \in Names(listed)
      BY <1>1 DEF Fresh
    <2> QED BY <1>1, <1>3 DEF Fresh
  <1>8. Tracked'
    <2> SUFFICES ASSUME phase = "copying", NEW j \in Kept, data["old"][j] # Absent,
                        <<data["old"][j].stamp, j>> \in listed
                 PROVE  FirstCopy(j)'
      BY <1>1 DEF Tracked, Kept
    <2>1. FirstCopy(j) /\ j \in Keys BY SMTT(20) DEF Tracked, Kept
    <2> QED BY <1>1, <1>3, <2>1 DEF FirstCopy
  <1>9. CatchesUp'
    <2> SUFFICES ASSUME phase = "updating", Quiet, NEW j \in Kept, j >= boundary
                 PROVE  SecondCopy(j)'
      BY <1>1 DEF CatchesUp, Kept, Quiet
    <2>1. SecondCopy(j) /\ j \in Keys BY DEF CatchesUp, Kept
    <2> QED BY <1>1, <1>3, <2>1 DEF SecondCopy
  <1> QED BY <1>1, <1>4, <1>5, <1>6, <1>7, <1>8, <1>9, HomeSame

\* A change of the new server, before SET_CONFIG, moves no current item.
LEMMA HomeBefore ==
    ASSUME IInv, phase \in Running,
           UNCHANGED <<conf, stopped, boundary, latest, blurred, lost, reverted>>,
           \A j \in Keys : data'["old"][j] = data["old"][j]
    PROVE  AtHome'
  <1>1. ~Switched /\ ~Split /\ \A k : Home(k) = "old" BY NotSwitched DEF IInv
  <1>2. ~Switched' /\ \A k : Home(k)' = "old" BY <1>1 DEF Switched, Home
  <1>3. \A k \in Keys : Arrived(k) => Arrived(k)' BY <1>1, <1>2 DEF Arrived
  <1> QED BY <1>1, <1>3 DEF IInv, AtHome

\* clone_set_multi puts one on the new server.
LEMMA PutStep == ASSUME IInv, NEW k \in Keys, Put(k) PROVE IInv'
  <1> USE DEF IInv
  <1>1. /\ phase \in {"copying", "updating"} /\ toget = {} /\ fetched[k] # Absent
        /\ data' = [data EXCEPT !["new"][k] = fetched[k]]
        /\ fetched' = [fetched EXCEPT ![k] = Absent]
        /\ UNCHANGED <<conf, saved, stopped, strays, phase, linked, todo, listed, relisted, boundary,
                       toget, todel, remaining, assumed>>
        /\ UNCHANGED <<latest, blurred, disturbed, lost, reverted, writes, runs, faults>>
    BY DEF Put, ghosts
  <1>2. /\ data \in [Servers -> Maps] /\ fetched \in Maps /\ "new" \in Servers /\ "old" \in Servers
        /\ fetched[k] \in Item \cup {Absent}
    BY DataTypes DEF Maps
  <1>3. /\ data' \in [Servers -> Maps] /\ data'["new"][k] = fetched[k]
        /\ \A t \in Servers, j \in Keys : (t # "new" \/ j # k) => data'[t][j] = data[t][j]
    <2>1. data'["new"] = [data["new"] EXCEPT ![k] = fetched[k]] /\ data'["old"] = data["old"]
      BY <1>1, <1>2
    <2>2. data["new"] \in Maps /\ data["old"] \in Maps BY <1>2
    <2>3. data'["new"] \in Maps BY <1>2, <2>1, <2>2 DEF Maps
    <2>4. data' \in [Servers -> Maps] BY <1>1, <1>2, <2>1, <2>2, <2>3 DEF Servers
    <2>5. /\ data'["new"][k] = fetched[k]
          /\ \A j \in Keys : j # k => data'["new"][j] = data["new"][j]
      BY <2>1, <2>2 DEF Maps
    <2> QED BY <2>1, <2>4, <2>5, Zenon DEF Servers
  <1>4. /\ fetched' \in Maps /\ fetched'[k] = Absent
        /\ \A j \in Keys : j # k => fetched'[j] = fetched[j]
    BY <1>1, <1>2 DEF Maps
  <1>5. /\ \A j \in Keys : data'["old"][j] = data["old"][j]
        /\ \A j \in Keys : j # k => data'["new"][j] = data["new"][j]
    BY <1>2, <1>3
  <1>6. TypeOK' BY <1>1, <1>3, <1>4 DEF TypeOK, Maps
  <1>7. Stamps' BY <1>1, <1>5 DEF Stamps
  <1>8. Configs' /\ Locks' /\ Moved' /\ Exact'
    BY <1>1 DEF Configs, Locks, Moved, Exact, Running
  <1>9. Fresh'
    <2> SUFFICES ASSUME phase = "copying", NEW j \in Keys,
                        data'["new"][j] # Absent \/ fetched'[j] # Absent \/ j \in toget
                 PROVE  j \in Names(listed)
      BY <1>1 DEF Fresh
    <2> QED BY <1>1, <1>4, <1>5 DEF Fresh
  <1>10. Tracked'
    <2> SUFFICES ASSUME phase = "copying", NEW j \in Kept, data["old"][j] # Absent,
                        <<data["old"][j].stamp, j>> \in listed
                 PROVE  FirstCopy(j)'
      BY <1>1, <1>5 DEF Tracked, Kept
    <2>1. FirstCopy(j) /\ j \in Keys BY DEF Tracked, Kept
    <2> QED BY <1>1, <1>3, <1>4, <1>5, <2>1 DEF FirstCopy
  <1>11. CatchesUp'
    <2> SUFFICES ASSUME phase = "updating", Quiet, NEW j \in Kept, j >= boundary
                 PROVE  SecondCopy(j)'
      BY <1>1 DEF CatchesUp, Kept, Quiet
    <2>1. SecondCopy(j) /\ j \in Keys BY DEF CatchesUp, Kept
    <2> QED BY <1>1, <1>3, <1>4, <1>5, <2>1 DEF SecondCopy
  <1>12. AtHome' BY <1>1, <1>5, HomeBefore DEF Running
  <1> QED BY <1>1, <1>6, <1>7, <1>8, <1>9, <1>10, <1>11, <1>12

\* delete_multi on the new server.
LEMMA RemoveStep == ASSUME IInv, NEW k \in Keys, Remove(k) PROVE IInv'
  <1> USE DEF IInv
  <1>1. /\ phase = "updating" /\ toget = {} /\ fetched = Nothing /\ k \in todel
        /\ todel' = todel \ {k} /\ data' = [data EXCEPT !["new"][k] = Absent]
        /\ UNCHANGED <<conf, saved, stopped, strays, phase, linked, todo, listed, relisted, boundary,
                       toget, fetched, remaining, assumed>>
        /\ UNCHANGED <<latest, blurred, disturbed, lost, reverted, writes, runs, faults>>
    BY DEF Remove, AllCopied, ghosts
  <1>2. data \in [Servers -> Maps] /\ "new" \in Servers /\ "old" \in Servers BY DataTypes
  <1>3. /\ data' \in [Servers -> Maps] /\ data'["new"][k] = Absent
        /\ \A t \in Servers, j \in Keys : (t # "new" \/ j # k) => data'[t][j] = data[t][j]
    <2>1. data'["new"] = [data["new"] EXCEPT ![k] = Absent] /\ data'["old"] = data["old"]
      BY <1>1, <1>2
    <2>2. data["new"] \in Maps /\ data["old"] \in Maps BY <1>2
    <2>3. data'["new"] \in Maps BY <1>2, <2>1, <2>2 DEF Maps
    <2>4. data' \in [Servers -> Maps] BY <1>1, <1>2, <2>1, <2>2, <2>3 DEF Servers
    <2>5. /\ data'["new"][k] = Absent
          /\ \A j \in Keys : j # k => data'["new"][j] = data["new"][j]
      BY <2>1, <2>2 DEF Maps
    <2> QED BY <2>1, <2>4, <2>5, Zenon DEF Servers
  <1>4. /\ \A j \in Keys : data'["old"][j] = data["old"][j]
        /\ \A j \in Keys : j # k => data'["new"][j] = data["new"][j]
    BY <1>2, <1>3
  <1>5. TypeOK' BY <1>1, <1>3 DEF TypeOK, Maps
  <1>6. Stamps' BY <1>1, <1>4, SMTT(20) DEF Stamps
  <1>7. Configs' /\ Locks' /\ Moved' /\ Exact' /\ Fresh' /\ Tracked'
    <2>1. Configs' BY <1>1, Zenon DEF Configs
    <2>2. Locks' BY <1>1, Zenon DEF Locks, Running
    <2>3. Moved' /\ Exact' /\ Fresh' /\ Tracked' BY <1>1, Zenon DEF Moved, Exact, Fresh, Tracked
    <2> QED BY <2>1, <2>2, <2>3
  <1>8. CatchesUp'
    <2> SUFFICES ASSUME Quiet, NEW j \in Kept, j >= boundary
                 PROVE  SecondCopy(j)'
      BY <1>1 DEF CatchesUp, Kept, Quiet
    <2>1. SecondCopy(j) /\ j \in Keys BY <1>1 DEF CatchesUp, Kept
    <2>2. fetched[j] = Absent BY <1>1, <2>1 DEF Nothing
    <2> QED BY <1>1, <1>3, <1>4, <2>1, <2>2, Zenon DEF SecondCopy
  <1>9. AtHome' BY <1>1, <1>4, HomeBefore DEF Running
  <1> QED BY <1>1, <1>5, <1>6, <1>7, <1>8, <1>9

\* delete_multi on the old server.
LEMMA CleanStep == ASSUME IInv, NEW k \in Keys, Clean(k) PROVE IInv'
  <1> USE DEF IInv
  <1>1. /\ phase = "cleaning" /\ k \in todel
        /\ todel' = todel \ {k} /\ data' = [data EXCEPT !["old"][k] = Absent]
        /\ UNCHANGED <<conf, saved, stopped, strays, phase, linked, todo, listed, relisted, boundary,
                       toget, fetched, remaining, assumed>>
        /\ UNCHANGED <<latest, blurred, disturbed, lost, reverted, writes, runs, faults>>
    BY DEF Clean, ghosts
  <1>2. data \in [Servers -> Maps] /\ "new" \in Servers /\ "old" \in Servers BY DataTypes
  <1>3. data'["old"] = [data["old"] EXCEPT ![k] = Absent] /\ data'["new"] = data["new"]
    BY <1>1, <1>2
  <1>4. data["new"] \in Maps /\ data["old"] \in Maps BY <1>2
  <1>5. data'["old"] \in Maps BY <1>3, <1>4 DEF Maps
  <1>6. data' \in [Servers -> Maps] BY <1>1, <1>2, <1>3, <1>4, <1>5 DEF Servers
  <1>7. /\ data'["old"][k] = Absent
        /\ \A j \in Keys : j # k => data'["old"][j] = data["old"][j]
    BY <1>3, <1>4, SMTT(20) DEF Maps
  <1>8. TypeOK' BY <1>1, <1>6 DEF TypeOK, Maps
  <1>9. Stamps' BY <1>1, <1>7, SMTT(20) DEF Stamps
  <1>10. Configs' /\ Locks' /\ Moved' /\ Exact' /\ Fresh' /\ Tracked' /\ CatchesUp'
    BY <1>1, Zenon DEF Configs, Locks, Moved, Exact, Running, Fresh, Tracked, CatchesUp
  <1>11. AtHome'
    <2> SUFFICES ASSUME ~reverted PROVE AtHome' BY <1>1 DEF AtHome
    <2>1. Switched /\ ~Split
      <3>1. \A p \in Proxies : conf[p] = "new" BY <1>1 DEF Configs
      <3> QED BY <3>1, ConstantsAssumption DEF Switched, Split
    <2>2. Switched' BY <1>1, <2>1 DEF Switched
    <2>3. k >= boundary BY <1>1 DEF Moved
    <2>4. \A j : Home(j)' = Home(j) BY <1>1, <2>1, <2>2 DEF Home
    <2>5. ASSUME NEW j \in Keys \ blurred PROVE Arrived(j)'
      <3>1. j \in Keys /\ Arrived(j) BY <2>1 DEF AtHome
      <3>2. data'[Home(j)][j] = data[Home(j)][j]
        <4>1. CASE j >= boundary BY <1>3, <2>1, <4>1 DEF Home
        <4>2. CASE ~(j >= boundary) BY <1>7, <2>3, <3>1, <4>2 DEF Home
        <4> QED BY <4>1, <4>2
      <3> QED BY <1>1, <2>4, <3>1, <3>2 DEF Arrived
    <2> QED BY <1>1, <2>5 DEF AtHome
  <1> QED BY <1>1, <1>8, <1>9, <1>10, <1>11

\* The first copy has come to its end.
LEMMA CopiedStep == ASSUME IInv, Copied PROVE IInv'
  <1> USE DEF IInv
  <1>1. phase = "copying" /\ AllCopied /\ UNCHANGED <<latest, blurred, disturbed, lost, reverted, writes, runs, faults>>
    BY SMTT(20) DEF Copied, ghosts
  <1>2. CASE Exit BY <1>1, <1>2, ExitStep, Zenon DEF TypeOK
  <1>3. CASE ~Exit
    <2>1. /\ phase' = "stopping" /\ remaining' = Proxies
          /\ UNCHANGED <<data, conf, saved, stopped, strays, linked, todo, listed, relisted, boundary, toget, fetched,
                         todel, assumed>>
      BY <1>3 DEF Copied, cluster
    <2>2. TypeOK' BY <1>1, <2>1, SMTT(20) DEF TypeOK, Phases
    <2>3. Stamps' /\ Configs' /\ Locks' /\ CatchesUp' /\ Moved' /\ Exact'
      BY <1>1, <2>1, Zenon DEF Stamps, Configs, Locks, CatchesUp, Moved, Exact, Running
    <2>4. Fresh' BY <1>1, <2>1 DEF Fresh, AllCopied
    <2>5. Tracked' BY <1>1, <2>1 DEF Tracked, FirstCopy, Kept
    <2> QED BY <1>1, <2>1, <2>2, <2>3, <2>4, <2>5, HomeSame
  <1> QED BY <1>2, <1>3

=============================================================================
