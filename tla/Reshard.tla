------------------------------- MODULE Reshard -------------------------------
(***************************************************************************)
(* Moving keys to a new server while clients go on: the ADD action of      *)
(* client/smalltable/manager.py, the proxies that it stops, configures and *)
(* starts (src/src/proxy_sys_command.c, connection.c), and the two servers.*)
(*                                                                         *)
(* The manager lists and copies while the proxies run, stops them, lists   *)
(* and copies what has changed meanwhile, switches every proxy to the new  *)
(* configuration and starts it, and removes the moved keys from the old    *)
(* server.  It may die, a proxy may be restarted, and a system call of a   *)
(* server or proxy may fail, at any point.                                 *)
(***************************************************************************)
EXTENDS Integers

CONSTANTS
    Keys,           \* numbers, in the order of key_cmp
    Proxies,
    Rerun,          \* ADD is tried again on a server that holds keys of an earlier try
    Absent,
    MaxWrites, MaxRuns, MaxFaults   \* bounds

ASSUME ConstantsAssumption ==
    /\ Keys \subseteq Nat /\ Proxies # {} /\ Rerun \in BOOLEAN
    /\ MaxWrites \in Nat /\ MaxRuns \in Nat /\ MaxFaults \in Nat

Servers == {"old", "new"}

\* The value is the number of the SET that wrote it, and the stamp is the i_cas
\* of get_filename_i_cas, made from the time of that SET.
Item == [value : 1 .. MaxWrites, stamp : 1 .. MaxWrites]

ASSUME AbsentAssumption == Absent \notin Item

Phases == {"idle", "listing", "copying", "stopping", "relisting", "updating", "configuring",
           "starting", "cleaning"}

VARIABLES
    data,           \* data[s][k]: item of k on server s, or Absent
    conf,           \* conf[p]: "old", or "new" with the new server from the boundary on
    saved,          \* saved[p]: the one in the file that p is restarted with
    stopped,        \* stopped[p]: the manager's STOP is in force
    strays,         \* keys that a failed SET has left a second file of on the old server
    \* the manager
    phase,
    linked,         \* linked[p]: its connection to p is open
    todo,           \* keys that the listing has not reached
    listed,         \* <<i_cas, key>> of the first listing of the old server
    relisted,       \* and of the second one
    boundary,       \* boundry, the first key that moves
    toget, fetched, \* clone_get_multi: keys to get, items that it got
    todel,          \* keys to delete
    remaining,      \* proxies that a loop has not reached
    assumed,        \* keys that "were_ok" counts
    \* what the properties need
    latest,         \* latest[k]: item that the last SET of k wrote, or Absent
    blurred,        \* keys that were set without a change of i_cas
    disturbed,      \* a key was deleted on the old server during the listing
    lost,           \* keys that the manager missed: in the second listing, if there were
                    \* strays, or because a GET or DELETE failed
    reverted,       \* a proxy came back with the configuration before the one it had
    writes, runs, faults

cluster == <<data, conf, saved, stopped, strays>>
manager == <<phase, linked, todo, listed, relisted, boundary, toget, fetched, todel, remaining,
             assumed>>
ghosts == <<latest, blurred, disturbed, lost, reverted, writes, runs, faults>>
vars == <<cluster, manager, ghosts>>

Nothing == [k \in Keys |-> Absent]

Init ==
    /\ data = [s \in Servers |-> Nothing]
    /\ conf = [p \in Proxies |-> "old"] /\ saved = conf
    /\ stopped = [p \in Proxies |-> FALSE] /\ strays = {}
    /\ phase = "idle" /\ linked = [p \in Proxies |-> FALSE]
    /\ todo = {} /\ listed = {} /\ relisted = {} /\ boundary = 0
    /\ toget = {} /\ fetched = Nothing /\ todel = {} /\ remaining = {} /\ assumed = {}
    /\ latest = Nothing /\ blurred = {} /\ disturbed = FALSE
    /\ lost = {} /\ reverted = FALSE
    /\ writes = 0 /\ runs = 0 /\ faults = 0

Names(listing) == {x[2] : x \in listing}
Fails == faults < MaxFaults /\ faults' = faults + 1
Held(s) == {k \in Keys : data[s][k] # Absent}

-----------------------------------------------------------------------------
(* Clients, through a proxy that is not stopped.                           *)

\* find_st_server
Route(p, k) == IF conf[p] = "new" /\ k >= boundary THEN "new" ELSE "old"

\* The i_cas is a new one, or one that the manager has seen before if the clock
\* has not advanced.
Set(p, k) ==
    /\ ~stopped[p] /\ writes < MaxWrites /\ writes' = writes + 1
    /\ \E stamp \in {writes + 1} \cup {s \in 1 .. writes : <<s, k>> \in listed} :
          LET item == [value |-> writes + 1, stamp |-> stamp]
          IN  /\ data' = [data EXCEPT ![Route(p, k)][k] = item]
              /\ latest' = [latest EXCEPT ![k] = item]
              /\ blurred' = IF stamp = writes + 1 THEN blurred ELSE blurred \cup {k}
    /\ UNCHANGED <<conf, saved, stopped, strays, manager, disturbed, lost, reverted, runs, faults>>

\* fs_set fails on the old server after it has opened the second file.  The next
\* SET of the key would take that file with it; here it stays, which adds to
\* what the manager may meet.
SetFails(p, k) ==
    /\ ~stopped[p] /\ Route(p, k) = "old" /\ Fails
    /\ strays' = strays \cup {k}
    /\ UNCHANGED <<data, conf, saved, stopped, manager, latest, blurred, disturbed, lost, reverted,
                   writes, runs>>

Delete(p, k) ==
    /\ ~stopped[p]
    /\ data' = [data EXCEPT ![Route(p, k)][k] = Absent]
    /\ latest' = [latest EXCEPT ![k] = Absent]
    /\ disturbed' = (disturbed \/ phase \in {"listing", "relisting"})
    /\ UNCHANGED <<conf, saved, stopped, strays, manager, blurred, lost, reverted, writes, runs,
                   faults>>

-----------------------------------------------------------------------------
(* The manager.                                                            *)

\* main and check_health: every proxy answers, and all have the same
\* configuration; do_add: the new server is not in it.
Begin ==
    /\ phase = "idle" /\ runs < MaxRuns
    /\ \A p \in Proxies : ~stopped[p] /\ conf[p] = "old"
    /\ Rerun \/ Held("new") = {}
    /\ phase' = "listing" /\ runs' = runs + 1
    /\ linked' = [p \in Proxies |-> TRUE] /\ todo' = Keys
    /\ listed' = {} /\ relisted' = {} /\ disturbed' = FALSE /\ lost' = {}
    /\ UNCHANGED <<cluster, boundary, toget, fetched, todel, remaining, assumed,
                   latest, blurred, reverted, writes, faults>>

\* The process ends: its connections are closed.
Exit ==
    /\ phase' = "idle" /\ linked' = [p \in Proxies |-> FALSE]
    /\ todo' = {} /\ toget' = {} /\ fetched' = Nothing /\ todel' = {} /\ remaining' = {}
    /\ UNCHANGED <<cluster, listed, relisted, boundary, assumed>>

\* get_keys reaches a key.  It may miss one if the key it would go on from has
\* been deleted, and if a stray file is the last of a page: the walk goes on where
\* the name of that file would be, further on or further back.
Entries(k) == IF data["old"][k] = Absent THEN {} ELSE {<<data["old"][k].stamp, k>>}

ListKey(k) ==
    /\ phase \in {"listing", "relisting"} /\ k \in todo
    /\ todo' \in {todo \ {k}} \cup (IF strays = {} THEN {} ELSE {Keys})
    /\ \E found \in {Entries(k)} \cup (IF disturbed \/ strays # {} THEN {{}} ELSE {}) :
          IF phase = "listing" THEN listed' = listed \cup found /\ UNCHANGED relisted
                               ELSE relisted' = relisted \cup found /\ UNCHANGED listed
    /\ UNCHANGED <<cluster, phase, linked, boundary, toget, fetched, todel, remaining, assumed,
                   ghosts>>

\* key_difference, after the listing.  The boundary is a name that was listed; that
\* of a stray file comes after its key.  Strays are neither found nor deleted as keys.
key_difference ==
    /\ phase = "listing" /\ todo = {}
    /\ \/ /\ listed = {} /\ Exit        \* IndexError
       \/ \E b \in Names(listed) \cup {k + 1 : k \in strays} :
             LET moved == {x \in listed : x[2] >= b}
             IN  /\ phase' = "copying" /\ boundary' = b /\ listed' = moved
                 /\ toget' = Names(moved) \ Held("new")
                 /\ assumed' = Names(moved) \cap Held("new")
                 /\ todel' = Held("new") \ Names(moved)
                 /\ UNCHANGED <<cluster, linked, todo, relisted, fetched, remaining>>
    /\ UNCHANGED ghosts

\* clone_get_multi on the old server, and clone_set_multi on the new one.
Get(k) ==
    /\ phase \in {"copying", "updating"} /\ k \in toget
    /\ toget' = toget \ {k} /\ fetched' = [fetched EXCEPT ![k] = data["old"][k]]
    /\ UNCHANGED <<cluster, phase, linked, todo, listed, relisted, boundary, todel, remaining,
                   assumed, ghosts>>

Put(k) ==
    /\ phase \in {"copying", "updating"} /\ toget = {} /\ fetched[k] # Absent
    /\ data' = [data EXCEPT !["new"][k] = fetched[k]]
    /\ fetched' = [fetched EXCEPT ![k] = Absent]
    /\ UNCHANGED <<conf, saved, stopped, strays, phase, linked, todo, listed, relisted, boundary,
                   toget, todel, remaining, assumed, ghosts>>

AllCopied == toget = {} /\ fetched = Nothing

\* Keys of the new server to delete are a set, and slicing it a TypeError.
Copied ==
    /\ phase = "copying" /\ AllCopied
    /\ IF todel # {} THEN Exit
       ELSE /\ phase' = "stopping" /\ remaining' = Proxies
            /\ UNCHANGED <<cluster, linked, todo, listed, relisted, boundary, toget, fetched,
                           todel, assumed>>
    /\ UNCHANGED ghosts

\* One command to every proxy, in the phases that have one.  A connection that
\* is broken raises.
Command(ph, p) == phase = ph /\ p \in remaining /\ linked[p] /\ remaining' = remaining \ {p}

Stop(p) ==
    /\ Command("stopping", p) /\ stopped' = [stopped EXCEPT ![p] = TRUE]
    /\ UNCHANGED <<data, conf, saved, strays, phase, linked, todo, listed, relisted, boundary, toget,
                   fetched, todel, assumed, ghosts>>

\* cmd_set_config answers OK, whether save_config has saved it or not.
SetConfig(p) ==
    /\ Command("configuring", p) /\ stopped[p] /\ conf' = [conf EXCEPT ![p] = "new"]
    /\ \/ saved' = [saved EXCEPT ![p] = "new"] /\ UNCHANGED faults
       \/ Fails /\ UNCHANGED saved
    /\ UNCHANGED <<data, stopped, strays, phase, linked, todo, listed, relisted, boundary, toget,
                   fetched, todel, assumed, latest, blurred, disturbed, lost, reverted, writes, runs>>

Start(p) ==
    /\ Command("starting", p) /\ stopped' = [stopped EXCEPT ![p] = FALSE]
    /\ UNCHANGED <<data, conf, saved, strays, phase, linked, todo, listed, relisted, boundary, toget,
                   fetched, todel, assumed, ghosts>>

Broken ==
    /\ phase \in {"stopping", "configuring", "starting"}
    /\ \E p \in remaining : ~linked[p]
    /\ Exit /\ UNCHANGED ghosts

\* Mutant: all that was listed first is taken for unchanged.
Changed_None(upd) == {}

\* new_keys and del_keys of do_add.
Changed(upd) == Names(upd \ listed)
Removed(upd) == Names(listed) \ Names(upd)

\* The loops of do_add come to their ends, one after the other.
kept == <<cluster, linked, listed, boundary, fetched, assumed, latest, blurred, reverted, writes,
          runs, faults>>

Stopped ==
    /\ phase = "stopping" /\ remaining = {}
    /\ phase' = "relisting" /\ todo' = Keys /\ disturbed' = FALSE
    /\ UNCHANGED <<kept, relisted, toget, todel, remaining, lost>>

Relisted ==
    /\ phase = "relisting" /\ todo = {}
    /\ LET upd == {x \in relisted : x[2] >= boundary}
       IN  /\ relisted' = upd /\ toget' = Changed(upd) /\ todel' = Removed(upd)
           /\ lost' = IF strays = {} THEN lost
                      ELSE lost \cup ({k \in Held("old") : k >= boundary} \ Names(upd))
    /\ phase' = "updating"
    /\ UNCHANGED <<kept, todo, remaining, disturbed>>

Updated ==
    /\ phase = "updating" /\ AllCopied /\ todel = {}
    /\ phase' = "configuring" /\ remaining' = Proxies
    /\ UNCHANGED <<kept, relisted, todo, toget, todel, disturbed, lost>>

Configured ==
    /\ phase = "configuring" /\ remaining = {}
    /\ phase' = "starting" /\ remaining' = Proxies
    /\ UNCHANGED <<kept, relisted, todo, toget, todel, disturbed, lost>>

Started ==
    /\ phase = "starting" /\ remaining = {}
    /\ phase' = "cleaning" /\ todel' = Names(relisted)
    /\ UNCHANGED <<kept, relisted, todo, toget, remaining, disturbed, lost>>

\* delete_multi on the new server.
Remove(k) ==
    /\ phase = "updating" /\ AllCopied /\ k \in todel /\ todel' = todel \ {k}
    /\ data' = [data EXCEPT !["new"][k] = Absent]
    /\ UNCHANGED <<conf, saved, stopped, strays, phase, linked, todo, listed, relisted, boundary,
                   toget, fetched, remaining, assumed, ghosts>>

\* delete_multi on the old server.
Clean(k) ==
    /\ phase = "cleaning" /\ k \in todel /\ todel' = todel \ {k}
    /\ data' = [data EXCEPT !["old"][k] = Absent]
    /\ UNCHANGED <<conf, saved, stopped, strays, phase, linked, todo, listed, relisted, boundary,
                   toget, fetched, remaining, assumed, ghosts>>

Finish == phase = "cleaning" /\ todel = {} /\ Exit /\ UNCHANGED ghosts

-----------------------------------------------------------------------------
(* Faults.                                                                 *)

\* The manager dies, or a command to a server raises.  So does a stray file on the
\* new server, which key_difference takes for a key to delete.
Die ==
    /\ phase # "idle" /\ Fails
    /\ Exit /\ UNCHANGED <<latest, blurred, disturbed, lost, reverted, writes, runs>>

\* A GET or DELETE of the manager fails on the server: "not found", which
\* clone_get_multi and delete_multi pass over.
CallFails(k) ==
    /\ Fails
    /\ \/ /\ phase \in {"copying", "updating"} /\ k \in toget
          /\ toget' = toget \ {k} /\ UNCHANGED todel
       \/ /\ phase \in {"updating", "cleaning"} /\ AllCopied
          /\ k \in todel /\ todel' = todel \ {k} /\ UNCHANGED toget
    /\ lost' = lost \cup {k}
    /\ UNCHANGED <<cluster, phase, linked, todo, listed, relisted, boundary, fetched, remaining,
                   assumed, latest, blurred, disturbed, reverted, writes, runs>>

\* Mutant: closing the connection that sent STOP leaves the server stopped.
Resume_StaysStopped(p) == stopped[p] /\ ~linked[p] /\ UNCHANGED vars

\* conn_close of the connection that sent STOP starts the server.
Resume(p) ==
    /\ stopped[p] /\ ~linked[p]
    /\ stopped' = [stopped EXCEPT ![p] = FALSE]
    /\ UNCHANGED <<data, conf, saved, strays, manager, ghosts>>

\* A proxy dies and is started again with the configuration it saved; that may
\* be the new one if it dies in the SET_CONFIG.
Crash(p) ==
    /\ Fails
    /\ stopped' = [stopped EXCEPT ![p] = FALSE] /\ linked' = [linked EXCEPT ![p] = FALSE]
    /\ \/ saved' = saved
       \/ /\ phase = "configuring" /\ p \in remaining /\ linked[p]
          /\ saved' = [saved EXCEPT ![p] = "new"]
    /\ conf' = [conf EXCEPT ![p] = saved'[p]]
    /\ reverted' = (reverted \/ (conf[p] = "new" /\ conf'[p] = "old"))
    /\ UNCHANGED <<data, strays, phase, todo, listed, relisted, boundary, toget, fetched, todel,
                   remaining, assumed, latest, blurred, disturbed, lost, writes, runs>>

-----------------------------------------------------------------------------
Client == \E p \in Proxies, k \in Keys : Set(p, k) \/ Delete(p, k) \/ SetFails(p, k)

Loop == Stopped \/ Relisted \/ Updated \/ Configured \/ Started \/ Finish

Step ==
    \/ key_difference \/ Copied \/ Broken \/ Loop
    \/ \E k \in Keys : ListKey(k) \/ Get(k) \/ Put(k) \/ Remove(k) \/ Clean(k)
    \/ \E p \in Proxies : Stop(p) \/ SetConfig(p) \/ Start(p)

Fault == Die \/ (\E k \in Keys : CallFails(k)) \/ \E p \in Proxies : Crash(p)

Next == Client \/ Begin \/ Step \/ Fault \/ \E p \in Proxies : Resume(p)

Spec == Init /\ [][Next]_vars

\* The manager goes on, and a proxy gets round to a connection that is closed.
FairSpec == Spec /\ WF_vars(Step) /\ \A p \in Proxies : WF_vars(Resume(p))

-----------------------------------------------------------------------------
(* Properties.                                                             *)

TypeOK ==
    /\ data \in [Servers -> [Keys -> Item \cup {Absent}]]
    /\ conf \in [Proxies -> {"old", "new"}] /\ saved \in [Proxies -> {"old", "new"}]
    /\ stopped \in [Proxies -> BOOLEAN] /\ strays \subseteq Keys
    /\ phase \in Phases /\ linked \in [Proxies -> BOOLEAN]
    /\ todo \subseteq Keys /\ toget \subseteq Keys /\ todel \subseteq Keys /\ assumed \subseteq Keys
    /\ listed \subseteq (1 .. MaxWrites) \X Keys /\ relisted \subseteq (1 .. MaxWrites) \X Keys
    /\ boundary \in Nat /\ fetched \in [Keys -> Item \cup {Absent}] /\ remaining \subseteq Proxies
    /\ latest \in [Keys -> Item \cup {Absent}] /\ blurred \subseteq Keys
    /\ disturbed \in BOOLEAN /\ lost \subseteq Keys /\ reverted \in BOOLEAN
    /\ writes \in 0 .. MaxWrites /\ runs \in 0 .. MaxRuns /\ faults \in 0 .. MaxFaults

\* A proxy still serves the old configuration after another one got the new one.
Split == \E p, q \in Proxies : ~stopped[p] /\ conf[p] = "old" /\ conf[q] = "new"

\* Whatever the manager does and wherever it dies, each proxy that serves
\* clients finds every key with the item that was last set, on the server it
\* asks.  Excepted are a key that was set again with the same i_cas, one that the
\* manager missed for a stray file or a failed call, the time after proxies
\* with both configurations were left running, and that after a proxy was
\* restarted with the old configuration because the new one was not saved.
ReadsLatest ==
    \/ Split \/ reverted
    \/ \A p \in Proxies, k \in Keys \ (blurred \cup lost) :
          ~stopped[p] => data[Route(p, k)][k] = latest[k]

\* key_difference assumes that what the new server holds is up to date: when
\* the proxies are switched, it has the items of the old server.
AssumedIsUpToDate ==
    phase = "configuring" =>
        \A k \in assumed \ (blurred \cup lost) : data["new"][k] = data["old"][k]

\* A proxy that was stopped for a resharding serves its clients again, also if
\* the manager dies on the way; only a stray file may keep the manager listing.
ProxiesResume == \A p \in Proxies : stopped[p] ~> (~stopped[p] \/ strays # {})

=============================================================================
