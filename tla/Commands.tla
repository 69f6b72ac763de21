------------------------------ MODULE Commands ------------------------------
(***************************************************************************)
(* The command table of the server and the plugin processes that register  *)
(* in it: process_multi and the table of src/src/command.c, the process    *)
(* life cycle and system calls of process.c, CODE_LOAD, CODE_UNLOAD and    *)
(* CODE_CHECK of code_commands.c.                                          *)
(*                                                                         *)
(* A bulk is answered group by group, a group being a run of requests with *)
(* the same table entry.  A plugin is any sequence of system calls; what   *)
(* libst and the Python client never do is allowed by Liberties:           *)
(*                                                                         *)
(*   "register_twice"  registering a command that one already owns         *)
(*   "register_later"  registering while serving requests                  *)
(*   "small_buffer"    a buffer of MAX_REQUEST_SIZE, where libst has twice *)
(*                     that                                                *)
(*   "pipeline_code"   other requests in the bulk of a CODE command        *)
(***************************************************************************)
EXTENDS Integers, Sequences, FiniteSets

CONSTANTS
    Procs,          \* plugin processes that may be started, each once
    Keys,           \* names of plugins
    Cmds,           \* opcodes that are not built in
    MaxBulk,        \* bound: requests in a bulk
    MaxBulks,       \* bound: bulks
    SyscallLimit,   \* system calls in one process_run (syscall_limit)
    Liberties       \* see above

ASSUME ConstantsAssumption ==
    /\ MaxBulk \in Nat /\ MaxBulks \in Nat /\ SyscallLimit \in Nat
    /\ Liberties \subseteq {"register_twice", "register_later", "small_buffer", "pipeline_code"}

NULL == "null"
ASSUME NullAssumption == NULL \notin Procs /\ {"load", "unload", "check"} \cap Procs = {}

CodeRequest == [op : {"load", "unload", "check"}, key : Keys]
PluginRequest == [op : {"plugin"}, cmd : Cmds]

VARIABLES
    table,          \* cmd_pointers[cmd].ptr
    flags,          \* CMD_FLAG_PREFETCH of cmd_pointers[cmd].flags
    state,          \* "new" before process_new, "live", "freed"
    key, registercnt, user_buf_sz, send_sz,     \* struct process
    bulk, pos,      \* the bulk of process_multi and how many requests it scanned
    group_start, group,                         \* the group and its entry, <<ptr, flags>>
    next,           \* the entry read for the next group
    send_buf,       \* responses to the bulk: [id, by]
    done,           \* requests of the group answered by builtin_commands_callback
    pc, running, syscalls,                      \* process_run
    died,           \* the process that process_commands_callback freed for the previous group
    freed_used,     \* a callback was given a process after process_free
    overdrawn,      \* a roll-back took more than send_buf held
    bulks

process == <<table, flags, state, key, registercnt, user_buf_sz, send_sz>>
scan == <<bulk, pos, group_start, group, next, bulks>>
run == <<pc, running, syscalls, done>>
ghosts == <<died, freed_used, overdrawn>>
vars == <<process, scan, run, send_buf, ghosts>>

Init ==
    /\ table = [c \in Cmds |-> NULL] /\ flags = [c \in Cmds |-> FALSE]
    /\ state = [p \in Procs |-> "new"]
    /\ key \in [Procs -> Keys]
    /\ registercnt = [p \in Procs |-> 0]
    /\ user_buf_sz = [p \in Procs |-> 0]
    /\ send_sz = [p \in Procs |-> 0]
    /\ bulk = <<>> /\ pos = 0 /\ group_start = 1 /\ group = <<NULL, FALSE>> /\ next = <<NULL, FALSE>>
    /\ send_buf = <<>> /\ done = 0
    /\ pc = "idle" /\ running = NULL /\ syscalls = 0
    /\ died = NULL /\ freed_used = FALSE /\ overdrawn = FALSE /\ bulks = 0

Owned(p) == {c \in Cmds : table[c] = p}

-----------------------------------------------------------------------------
(* process_multi.                                                          *)

\* Bulks of the clients.
Bulks ==
    LET all == UNION {[1 .. n -> CodeRequest \cup PluginRequest] : n \in 1 .. MaxBulk}
    IN  {b \in all : "pipeline_code" \in Liberties \/ Len(b) = 1
                        \/ \A i \in DOMAIN b : b[i].op = "plugin"}

NewBulk ==
    /\ pc = "idle" /\ bulks < MaxBulks
    /\ bulk' \in Bulks
    /\ pc' = "scan" /\ pos' = 0 /\ group_start' = 1 /\ send_buf' = <<>> /\ bulks' = bulks + 1
    /\ died' = NULL
    /\ UNCHANGED <<process, group, next, running, syscalls, done, freed_used, overdrawn>>

\* ptr and flags of cmd_pointers[cmd] for the i-th request.
Entry(i) == IF bulk[i].op = "plugin" THEN <<table[bulk[i].cmd], flags[bulk[i].cmd]>>
                                     ELSE <<bulk[i].op, FALSE>>
group_ptr == group[1]

GroupEmpty == group_start > pos

\* The next request joins the group, or starts the first one.
Scan ==
    /\ pc = "scan" /\ pos < Len(bulk)
    /\ GroupEmpty \/ group = Entry(pos + 1)
    /\ group' = Entry(pos + 1)
    /\ pos' = pos + 1
    /\ UNCHANGED <<process, bulk, group_start, next, bulks, run, send_buf, ghosts>>

\* Another group begins: its entry is read before the callback of the
\* previous group runs.
RunGroup ==
    /\ pc = "scan" /\ ~GroupEmpty
    /\ IF pos < Len(bulk) THEN group # Entry(pos + 1) /\ next' = Entry(pos + 1) ELSE UNCHANGED next
    /\ pc' = "group" /\ done' = 0
    /\ UNCHANGED <<process, bulk, pos, group, group_start, bulks, running, syscalls, send_buf, ghosts>>

GroupSize == pos - group_start + 1

\* The callback of the group has returned.
EndGroup ==
    /\ group_start' = pos + 1
    /\ group' = next /\ next' = <<NULL, FALSE>>
    /\ IF pos < Len(bulk) THEN pos' = pos + 1 /\ pc' = "scan"
                          ELSE UNCHANGED pos /\ pc' = "idle"
    /\ running' = NULL /\ syscalls' = 0 /\ done' = 0
    /\ UNCHANGED <<bulk, bulks>>

-----------------------------------------------------------------------------
(* process_free, and the processes after it.                               *)

\* Mutant: the commands of the process stay in the table.
Unregistered_Kept(p) == table

\* The table after every command of p is unregistered.
Unregistered(p) == [c \in Cmds |-> IF table[c] = p THEN NULL ELSE table[c]]

\* Mutant: only the first command is counted.
Dropped_One(p) == IF Owned(p) = {} THEN 0 ELSE 1

Dropped(p) == Cardinality(Owned(p))

process_free(p) ==
    /\ table' = Unregistered(p)
    /\ flags' = [c \in Cmds |-> flags[c] /\ table[c] # p]
    /\ registercnt' = [registercnt EXCEPT ![p] = @ - Dropped(p)]
    /\ state' = [state EXCEPT ![p] = "freed"]

Reply(id, by) == send_buf' = Append(send_buf, [id |-> id, by |-> by])

\* The answer to the current request of a built-in group.
BuiltinReply(by) == Reply(group_start + done, by) /\ done' = done + 1

find_process(k) == {p \in Procs : Owned(p) # {} /\ key[p] = k}

BuiltinDone ==
    /\ pc = "group" /\ group_ptr \notin Procs /\ done = GroupSize
    /\ EndGroup /\ died' = NULL
    /\ UNCHANGED <<process, send_buf, freed_used, overdrawn>>

Current == bulk[group_start + done]

\* cmd_unknown and cmd_code_check only answer.
UnknownOrCheck ==
    /\ pc = "group" /\ group_ptr \in {NULL, "check"} /\ done < GroupSize
    /\ BuiltinReply("server")
    /\ UNCHANGED <<process, scan, pc, running, syscalls, ghosts>>

\* The process is freed, unless there is none or the request is refused because
\* send_buf is full.
cmd_code_unload ==
    /\ pc = "group" /\ group_ptr = "unload" /\ done < GroupSize
    /\ \/ UNCHANGED process
       \/ /\ \E p \in find_process(Current.key) : process_free(p)
          /\ UNCHANGED <<key, user_buf_sz, send_sz>>
    /\ BuiltinReply("server")
    /\ UNCHANGED <<scan, pc, running, syscalls, ghosts>>

\* send_buf is full, the plugin is loaded already or does not compile, or it
\* starts to run.
cmd_code_load ==
    /\ pc = "group" /\ group_ptr = "load" /\ done < GroupSize
    /\ \/ /\ BuiltinReply("server")
          /\ UNCHANGED <<process, pc, running>>
       \/ /\ find_process(Current.key) = {}
          /\ \E p \in Procs : /\ state[p] = "new" /\ key[p] = Current.key
                              /\ state' = [state EXCEPT ![p] = "live"]
                              /\ running' = p
          /\ pc' = "loading"
          /\ UNCHANGED <<table, flags, key, registercnt, user_buf_sz, send_sz, send_buf, done>>
    /\ UNCHANGED <<scan, syscalls, ghosts>>

-----------------------------------------------------------------------------
(* process_commands_callback.                                              *)

\* Mutant: what the process wrote is left in send_buf.
TakenBack_Nothing(p) == send_buf

\* buf_rollback_produced of send_sz.
TakenBack(p) == SubSeq(send_buf, 1, Len(send_buf) - send_sz[p])

\* The error exit: take back what the process wrote, answer every request of
\* the group with UNKNOWN_COMMAND, free the process.
GroupFails(p) ==
    /\ overdrawn' = (overdrawn \/ send_sz[p] > Len(send_buf))
    /\ died' = p
    /\ send_buf' = TakenBack(p) \o [i \in 1 .. GroupSize |-> [id |-> group_start + i - 1, by |-> "server"]]
    /\ process_free(p)
    /\ UNCHANGED <<key, user_buf_sz, send_sz, freed_used>>
    /\ EndGroup

\* The callback is given a process that is gone: what it does is undefined.
UsesFreed ==
    /\ pc = "group" /\ group_ptr \in Procs /\ state[group_ptr] # "live"
    /\ freed_used' = TRUE /\ pc' = "undefined"
    /\ UNCHANGED <<process, scan, running, syscalls, done, send_buf, died, overdrawn>>

\* The group does not fit into the process's buffer: send_sz is still that of
\* the previous call.
BufferTooSmall ==
    /\ pc = "group" /\ group_ptr \in Procs /\ state[group_ptr] = "live"
    /\ user_buf_sz[group_ptr] < GroupSize
    /\ GroupFails(group_ptr)

Serve ==
    /\ pc = "group" /\ group_ptr \in Procs /\ state[group_ptr] = "live"
    /\ user_buf_sz[group_ptr] >= GroupSize
    /\ send_sz' = [send_sz EXCEPT ![group_ptr] = 0]
    /\ pc' = "serving" /\ running' = group_ptr
    /\ UNCHANGED <<table, flags, state, key, registercnt, user_buf_sz, scan, syscalls, done, send_buf, ghosts>>

-----------------------------------------------------------------------------
(* process_run: the system calls of the running process.                   *)

\* Mutant: system calls are not limited.
MaySyscall_NoLimit == pc \in {"loading", "serving"}

MaySyscall == pc \in {"loading", "serving"} /\ syscalls < SyscallLimit

\* The process goes on after the call.
Continue == syscalls' = syscalls + 1 /\ UNCHANGED <<pc, running, done>>

\* The previous owner of the command loses it, and is freed if it counts no
\* other command.
syscall_register(c) ==
    LET looser == table[c]
        loses(p) == p = looser /\ p # running
        dies(p) == loses(p) /\ registercnt[p] = 1
    IN  /\ MaySyscall /\ Continue
        /\ pc = "loading" \/ "register_later" \in Liberties
        /\ looser # running \/ "register_twice" \in Liberties
        /\ state' = [p \in Procs |-> IF dies(p) THEN "freed" ELSE state[p]]
        /\ table' = [d \in Cmds |-> CASE d = c -> running
                                      [] d # c /\ table[d] \in Procs /\ dies(table[d]) -> NULL
                                      [] OTHER -> table[d]]
        /\ \E f \in BOOLEAN :
              flags' = [d \in Cmds |-> IF d = c THEN f ELSE flags[d] /\ ~(table[d] \in Procs /\ dies(table[d]))]
        /\ registercnt' = [p \in Procs |-> CASE p = running -> registercnt[p] + 1
                                             [] dies(p) -> registercnt[p] - Cardinality(Owned(p))
                                             [] loses(p) /\ ~dies(p) -> registercnt[p] - 1
                                             [] OTHER -> registercnt[p]]
        /\ UNCHANGED <<key, user_buf_sz, send_sz, scan, send_buf, ghosts>>

syscall_unregister(c) ==
    /\ MaySyscall /\ Continue
    /\ table[c] = running
    /\ table' = [table EXCEPT ![c] = NULL]
    /\ flags' = [flags EXCEPT ![c] = FALSE]
    /\ registercnt' = [registercnt EXCEPT ![running] = @ - 1]
    /\ UNCHANGED <<state, key, user_buf_sz, send_sz, scan, send_buf, ghosts>>

\* The process writes its next response.
syscall_writeresponses ==
    /\ MaySyscall /\ Continue
    /\ pc = "serving" /\ send_sz[running] < GroupSize
    /\ Reply(group_start + send_sz[running], running)
    /\ send_sz' = [send_sz EXCEPT ![running] = @ + 1]
    /\ UNCHANGED <<table, flags, state, key, registercnt, user_buf_sz, scan, ghosts>>

BufferSizes == {MaxBulk} \cup (IF "small_buffer" \in Liberties THEN {1} ELSE {})

\* Mutant: a process may wait for requests without a command.
MayWait_Always == TRUE

MayWait == registercnt[running] # 0

\* The process waits for requests and process_run returns 0: CODE_LOAD has
\* succeeded, or the group is answered (a process that answers at all
\* answers every request of it).
syscall_readrequests ==
    /\ MaySyscall /\ MayWait
    /\ \E n \in BufferSizes : user_buf_sz' = [user_buf_sz EXCEPT ![running] = n]
    /\ \/ /\ pc = "loading"
          /\ BuiltinReply("server") /\ pc' = "group" /\ running' = NULL /\ syscalls' = 0
          /\ UNCHANGED <<scan, died>>
       \/ /\ pc = "serving" /\ send_sz[running] = GroupSize
          /\ EndGroup /\ died' = NULL /\ UNCHANGED send_buf
    /\ UNCHANGED <<table, flags, state, key, registercnt, send_sz, freed_used, overdrawn>>

\* The process exits, faults, is killed (time, system calls, a buffer that is
\* too small, too much output), or waits for requests without an answer.
LoadFails ==
    /\ pc = "loading"
    /\ process_free(running)
    /\ BuiltinReply("server") /\ pc' = "group" /\ running' = NULL /\ syscalls' = 0
    /\ UNCHANGED <<key, user_buf_sz, send_sz, scan, ghosts>>

ServeFails == pc = "serving" /\ GroupFails(running)

Next ==
    \/ NewBulk \/ Scan \/ RunGroup
    \/ BuiltinDone \/ UnknownOrCheck \/ cmd_code_unload \/ cmd_code_load
    \/ UsesFreed \/ BufferTooSmall \/ Serve
    \/ \E c \in Cmds : syscall_register(c) \/ syscall_unregister(c)
    \/ syscall_writeresponses \/ syscall_readrequests \/ LoadFails \/ ServeFails

Spec == Init /\ [][Next]_vars

-----------------------------------------------------------------------------
(* Properties.                                                             *)

Entries == (Procs \cup {NULL, "load", "unload", "check"}) \X BOOLEAN

\* Types of the state.
TypeOK ==
    /\ table \in [Cmds -> Procs \cup {NULL}] /\ flags \in [Cmds -> BOOLEAN]
    /\ state \in [Procs -> {"new", "live", "freed"}]
    /\ key \in [Procs -> Keys] /\ registercnt \in [Procs -> Nat]
    /\ user_buf_sz \in [Procs -> Nat] /\ send_sz \in [Procs -> Nat]
    /\ bulk \in Seq(CodeRequest \cup PluginRequest) /\ pos \in 0 .. Len(bulk)
    /\ group \in Entries /\ next \in Entries /\ group_start \in 1 .. Len(bulk) + 1
    /\ send_buf \in Seq([id : Nat, by : Procs \cup {"server"}]) /\ done \in 0 .. Len(bulk)
    /\ pc \in {"idle", "scan", "group", "loading", "serving", "undefined"}
    /\ running \in Procs \cup {NULL} /\ (running \in Procs <=> pc \in {"loading", "serving"})
    /\ syscalls \in 0 .. SyscallLimit /\ bulks \in 0 .. MaxBulks
    /\ died \in Procs \cup {NULL} /\ freed_used \in BOOLEAN /\ overdrawn \in BOOLEAN

\* registercnt counts the commands of a live process, and process_free finds
\* it 0 after it has unregistered them (the check of process.c:85); the other
\* way round, a take-over frees exactly the processes that own nothing else.
RegisterCountExact == \A p \in Procs : registercnt[p] = Cardinality(Owned(p))

\* The table refers to live processes only.
TableIsLive == \A c \in Cmds : table[c] # NULL => state[table[c]] = "live"

\* A callback is given a freed process in one case only: the process has just
\* died while it served the previous group, and the group is its own too, with
\* a command of other flags; so never one that a client has unloaded or that
\* another plugin has replaced.  And no roll-back removes more than send_buf
\* holds (process_multi, process_commands_callback).
NoOtherFreedProcessUsed == (freed_used => group_ptr = died) /\ ~overdrawn

\* Each group is run with the entry of a process that is there ("Group commands
\* and run callback for that group", process_multi).
NoFreedProcessUsed == ~freed_used

\* Between bulks every live process owns a command, so that CODE_CHECK and
\* CODE_UNLOAD find it, and there is at most one for a key.
LoadedIsReachable ==
    pc = "idle" => /\ \A p \in Procs : state[p] = "live" => Owned(p) # {}
                   /\ \A p, q \in Procs : state[p] = "live" /\ state[q] = "live" /\ key[p] = key[q] => p = q

\* Every request of the bulk gets exactly one answer, in the order of the
\* requests, also when plugins die in the middle of their output.
OneAnswerEach ==
    pc = "idle" => /\ Len(send_buf) = Len(bulk)
                   /\ \A i \in 1 .. Len(send_buf) : send_buf[i].id = i
=============================================================================
