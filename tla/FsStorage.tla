------------------------------ MODULE FsStorage ------------------------------
(***************************************************************************)
(* The key-value commands (src/src/sys_commands.c) on the storage layer    *)
(* (storage.c) and the engine that keeps one file per key (sto_fs.c), with *)
(* a server that may die between any two system calls, and a client that   *)
(* lists all keys page by page (client/smalltable/simpleclient.py).        *)
(*                                                                         *)
(* A file is <<k, "">>, the item of key k, or <<k, ".new">>, where SET     *)
(* writes it.  No key is escaped to a name with a dot, so the two never    *)
(* clash; but a file that is left behind under its second name is listed,  *)
(* as a key of that name.  A content is a sequence of blocks: those of the *)
(* value, and the metadata behind them.                                    *)
(***************************************************************************)
EXTENDS Integers, Sequences, FiniteSets

CONSTANTS
    Keys,
    Bytes,          \* blocks of values
    Requests,       \* requests of clients: [op, key, value, flags, cas]
    Flags,
    CasValues,      \* non-zero 64 bit numbers
    Dir,            \* Dir[f]: leaf directory that the hash of a name selects
    Up(_),          \* Up(d): directory above the leaf directory d
    Rank,           \* Rank[f]: place of a name in the order of its directory
    PageSize,       \* names that fit into a response of GET_KEYS
    MaxFaults,      \* bound: crashes and failed system calls
    Absent, NoFile, None

Kinds == {"", ".new"}
Files == Keys \X Kinds
Leaves == {Dir[f] : f \in Files}
Directories == Leaves \cup {Up(d) : d \in Leaves}

Ops == {"get", "set", "add", "replace", "delete", "malformed"}
Metadata == [flags : Flags, cas : CasValues]
Block == Bytes \cup Metadata
Item == [value : Seq(Block), md : Block]
Statuses == {"ok", "not_found", "exists", "not_stored", "invalid", "internal_error"}
Responses == [status : Statuses, item : Item \cup {Absent}]

ASSUME ConstantsAssumption ==
    /\ Requests \subseteq [op : Ops, key : Keys, value : Seq(Bytes), flags : Flags, cas : Nat]
    /\ CasValues \subseteq Nat \ {0} /\ 1 \in CasValues
    /\ NoFile \notin Seq(Block) /\ Absent \notin Item
    /\ None \notin Requests /\ None \notin Responses /\ None \notin Files

ASSUME PlacesAssumption ==
    /\ IsFiniteSet(Keys)
    /\ Dir \in [Files -> Nat] /\ Rank \in [Files -> Nat]
    /\ \A f, g \in Files : Rank[f] = Rank[g] => f = g
    /\ PageSize \in Nat \ {0} /\ MaxFaults \in Nat
    /\ \A d \in Leaves : Up(d) \notin Leaves

VARIABLES
    disk,           \* disk[f]: content of a file, or NoFile
    dirs,           \* directories that exist
    request,        \* the request in the server, or None
    response,       \* its response, or None
    pc,             \* where the server is in it
    written,        \* fs_set: blocks written so far
    faults,         \* crashes and failed system calls so far
    failed,         \* a system call has failed in the request
    behind,         \* what stands behind the value in the receive buffer
    \* the client that lists
    listing, cursor, seen,
    present,        \* keys that have been there since it began
    skipped,        \* directories it entered with a cursor that is not there
    phantoms        \* it met a file that was left behind

server == <<disk, dirs, request, response, pc, written, behind, faults, failed>>
lister == <<listing, cursor, seen, present, skipped, phantoms>>
vars == <<server, lister>>

Init ==
    /\ disk = [f \in Files |-> NoFile] /\ dirs = {}
    /\ request = None /\ response = None /\ pc = "idle"
    /\ written = 0 /\ behind = "next_request" /\ faults = 0 /\ failed = FALSE
    /\ listing = FALSE /\ cursor = None /\ seen = {}
    /\ present = {} /\ skipped = {} /\ phantoms = FALSE

-----------------------------------------------------------------------------
(* storage.c                                                               *)

\* A file without room for the metadata counts as absent.
Decode(c) ==
    IF c = NoFile THEN Absent
    ELSE IF Len(c) < 1 THEN Absent
    ELSE [value |-> [i \in 1 .. Len(c) - 1 |-> c[i]], md |-> c[Len(c)]]

storage_get(k) == Decode(disk[<<k, "">>])

\* md.cas = ++unique_number || ++unique_number: a truth value, never false.
UniqueCas == 1

NewMetadata(r) == [flags |-> r.flags, cas |-> UniqueCas]

\* storage_set hands the value over with the metadata behind it.
Content(r) == Append(r.value, NewMetadata(r))

-----------------------------------------------------------------------------
(* The commands.                                                           *)

Call ==
    /\ request = None
    /\ \E r \in Requests : request' = r
    /\ pc' = "command"
    /\ UNCHANGED <<disk, dirs, response, written, behind, faults, failed, lister>>

\* A command is over: its response goes to the send buffer.
Return(status, item) ==
    /\ response' = [status |-> status, item |-> item]
    /\ pc' = "done"

Reply ==
    /\ pc = "done"
    /\ request' = None /\ response' = None /\ pc' = "idle" /\ failed' = FALSE
    /\ UNCHANGED <<disk, dirs, written, behind, faults, lister>>

InvalidArguments ==
    /\ pc = "command" /\ request.op = "malformed"
    /\ Return("invalid", Absent)
    /\ UNCHANGED <<disk, dirs, request, written, behind, faults, failed, lister>>

\* builtin_commands_callback executes no request while send_buf is full.
SendBufferFull ==
    /\ pc = "command"
    /\ Return("internal_error", Absent)
    /\ UNCHANGED <<disk, dirs, request, written, behind, faults, failed, lister>>

SystemCallFails == faults < MaxFaults /\ faults' = faults + 1 /\ failed' = TRUE

\* What a command finds for its key: nothing if open, fstat or read fails.  A
\* SET without a cas does not look.
Looks(r) == r.op # "set" \/ r.cas # 0
Finds(item) ==
    \/ item = storage_get(request.key) /\ UNCHANGED <<faults, failed>>
    \/ item = Absent /\ Looks(request) /\ SystemCallFails

cmd_get ==
    /\ pc = "command" /\ request.op = "get"
    /\ \E item \in {storage_get(request.key), Absent} :
          /\ Finds(item)
          /\ IF item = Absent THEN Return("not_found", Absent) ELSE Return("ok", item)
    /\ UNCHANGED <<disk, dirs, request, written, behind, lister>>

\* The lookup before SET, ADD and REPLACE, and what it makes of the request.
Refusal(r, item) ==
    IF r.cas # 0 /\ item = Absent THEN "not_found"
    ELSE IF r.cas # 0 /\ item.md.cas # r.cas THEN "not_stored"
    ELSE IF r.op = "add" /\ item # Absent THEN "exists"
    ELSE IF r.op = "replace" /\ item = Absent THEN "not_found"
    ELSE "ok"

\* cmd_set up to fs_set; storage_set puts the metadata behind the value.
cmd_set ==
    /\ pc = "command" /\ request.op \in {"set", "add", "replace"}
    /\ \E item \in {storage_get(request.key), Absent} :
          /\ Finds(item)
          /\ IF Refusal(request, item) = "ok"
             THEN pc' = "open" /\ behind' = "metadata" /\ UNCHANGED response
             ELSE Return(Refusal(request, item), Absent) /\ UNCHANGED behind
    /\ UNCHANGED <<disk, dirs, request, written, lister>>

\* fs_del: whatever the error of unlink is, the key counts as not found.
cmd_delete ==
    /\ pc = "command" /\ request.op = "delete"
    /\ LET f == <<request.key, "">>
       IN  \/ /\ disk[f] # NoFile /\ disk' = [disk EXCEPT ![f] = NoFile]
             /\ Return("ok", Absent) /\ present' = present \ {request.key}
             /\ UNCHANGED <<faults, failed>>
          \/ /\ (disk[f] = NoFile /\ UNCHANGED <<faults, failed>>) \/ SystemCallFails
             /\ Return("not_found", Absent) /\ UNCHANGED <<disk, present>>
    /\ UNCHANGED <<dirs, request, written, behind, listing, cursor, seen, skipped, phantoms>>

-----------------------------------------------------------------------------
(* fs_set: open the new file, write it, rename it.                         *)

\* Mutant: the file is written in place.
PathNew_InPlace == <<request.key, "">>

Path == <<request.key, "">>
PathNew == <<request.key, ".new">>
LeafDir == Dir[Path]

fs_set_open ==
    /\ pc = "open"
    /\ IF LeafDir \in dirs
       THEN /\ disk' = [disk EXCEPT ![PathNew] = <<>>]
            /\ pc' = "write" /\ written' = 0
       ELSE pc' = "mkdir" /\ UNCHANGED <<disk, written>>
    /\ UNCHANGED <<dirs, request, response, behind, faults, failed, lister>>

\* mkdir of the leaf fails as long as the directory above it is missing.
fs_set_mkdir ==
    /\ pc = "mkdir"
    /\ IF Up(LeafDir) \in dirs
       THEN dirs' = dirs \cup {LeafDir} /\ pc' = "open"
       ELSE dirs' = dirs \cup {Up(LeafDir)} /\ UNCHANGED pc
    /\ UNCHANGED <<disk, request, response, written, behind, faults, failed, lister>>

NewContent == Content(request)

\* One write(); it may write less than it was asked to.
fs_set_write ==
    /\ pc = "write" /\ written < Len(NewContent)
    /\ \E n \in written + 1 .. Len(NewContent) :
          /\ disk' = [disk EXCEPT ![PathNew] = SubSeq(NewContent, 1, n)]
          /\ written' = n
    /\ UNCHANGED <<dirs, request, response, pc, behind, faults, failed, lister>>

\* Mutant: an error returns before the bytes are restored.
storage_set_ret_EarlyReturn(status) ==
    /\ behind' = IF status = "ok" THEN "next_request" ELSE behind
    /\ written' = 0
    /\ Return(status, Absent)

\* storage_set restores what it overwrote behind the value.
storage_set_ret(status) ==
    /\ behind' = "next_request" /\ written' = 0
    /\ Return(status, Absent)

fs_set_rename ==
    /\ pc = "write" /\ written = Len(NewContent)
    /\ disk' = [disk EXCEPT ![Path] = disk[PathNew], ![PathNew] = NoFile]
    /\ storage_set_ret("ok")
    /\ UNCHANGED <<dirs, request, faults, failed, lister>>

\* A system call fails: the new file, if there is one, stays behind.
fs_set_error ==
    /\ pc \in {"open", "mkdir", "write"} /\ SystemCallFails
    /\ storage_set_ret("not_stored")
    /\ UNCHANGED <<disk, dirs, request, lister>>

\* The server dies, wherever it is, and is started on the files it left.  Its
\* connections break, which ends the loop of the client that lists.
Crash ==
    /\ faults < MaxFaults /\ faults' = faults + 1
    /\ request' = None /\ response' = None /\ pc' = "idle"
    /\ written' = 0 /\ behind' = "next_request" /\ failed' = FALSE
    /\ listing' = FALSE /\ cursor' = None /\ seen' = {}
    /\ present' = {} /\ skipped' = {} /\ phantoms' = FALSE
    /\ UNCHANGED <<disk, dirs>>

-----------------------------------------------------------------------------
(* GET_KEYS: fs_get_keys walks the directories in order, from the one that *)
(* the cursor hashes to, and the files of that one from the cursor on.     *)

Existing == {f \in Files : disk[f] # NoFile}
LeftBehind == {f \in Existing : f[2] = ".new"}
Container(f) == Dir[<<f[1], "">>]

Before(f, g) ==
    \/ Container(f) < Container(g)
    \/ Container(f) = Container(g) /\ Rank[f] < Rank[g]

\* strcmp finds the file of the cursor in its directory.
Found(c) == c[2] = "" /\ disk[c] # NoFile

\* Mutant: the cursor itself is listed again.
After_RepeatsCursor(c) ==
    IF c = None THEN Existing
    ELSE {f \in Existing : \/ Container(f) > Dir[c]
                           \/ Container(f) = Dir[c] /\ Found(c) /\ Rank[f] >= Rank[c]}

\* Mutant: the rest of the directory of the cursor is left out.
After_NextDirectory(c) ==
    IF c = None THEN Existing ELSE {f \in Existing : Container(f) > Dir[c]}

After(c) ==
    IF c = None THEN Existing
    ELSE {f \in Existing : \/ Container(f) > Dir[c]
                           \/ Container(f) = Dir[c] /\ Found(c) /\ Rank[f] > Rank[c]}

\* As many names as fit into the response, in the order of the walk.
Page(c) == {f \in After(c) : Cardinality({g \in After(c) : Before(g, f)}) < PageSize}

Skips(c) == IF c = None THEN {} ELSE IF Found(c) THEN {} ELSE {Dir[c]}

ListStart ==
    /\ ~listing /\ listing' = TRUE
    /\ present' = {k \in Keys : <<k, "">> \in Existing}
    /\ UNCHANGED <<server, cursor, seen, skipped, phantoms>>

ListPage ==
    /\ listing /\ request = None /\ After(cursor) # {}
    /\ \E f \in Page(cursor) : (\A g \in Page(cursor) : ~Before(f, g)) /\ cursor' = f
    /\ seen' = seen \cup Page(cursor)
    /\ skipped' = skipped \cup Skips(cursor)
    /\ phantoms' = (phantoms \/ LeftBehind # {})
    /\ UNCHANGED <<server, listing, present>>

ListEnd ==
    /\ listing /\ request = None /\ After(cursor) = {}
    /\ listing' = FALSE /\ cursor' = None /\ seen' = {}
    /\ present' = {} /\ skipped' = {} /\ phantoms' = FALSE
    /\ UNCHANGED server

-----------------------------------------------------------------------------
Put == fs_set_open \/ fs_set_mkdir \/ fs_set_write \/ fs_set_rename \/ fs_set_error
Command == InvalidArguments \/ SendBufferFull \/ cmd_get \/ cmd_set \/ cmd_delete \/ Put \/ Reply
List == ListStart \/ ListPage \/ ListEnd

Next == Call \/ Command \/ Crash \/ List

Spec == Init /\ [][Next]_vars

\* The event loop gets round to the connection of the client that lists,
\* however busy the others are.
FairSpec == Spec /\ WF_vars(Command) /\ SF_vars(ListPage \/ ListEnd)

-----------------------------------------------------------------------------
(* Properties.                                                             *)

TypeOK ==
    /\ disk \in [Files -> Seq(Block) \cup {NoFile}]
    /\ dirs \subseteq Directories
    /\ request \in Requests \cup {None} /\ response \in Responses \cup {None}
    /\ pc \in {"idle", "command", "open", "mkdir", "write", "done"}
    /\ faults \in 0 .. MaxFaults /\ failed \in BOOLEAN
    /\ written \in Nat /\ behind \in {"next_request", "metadata"}
    /\ listing \in BOOLEAN /\ cursor \in Files \cup {None} /\ seen \subseteq Files
    /\ present \subseteq Keys /\ skipped \subseteq Leaves /\ phantoms \in BOOLEAN

\* The commands on one file per key are those of the abstract store: each
\* takes effect at once and as a whole, also when the server dies between the
\* system calls of fs_set, and what was answered survives.  A GET, SET, REPLACE
\* or DELETE in which a system call fails changes nothing and is refused; so is
\* an ADD, unless it was the lookup that failed (fs_get, fs_set, fs_del).
Abstract == INSTANCE Store WITH store <- [k \in Keys |-> storage_get(k)]

ImplementsStore == Abstract!Spec

\* storage_set borrows the bytes behind the value, which belong to the next
\* request in the receive buffer: they are back on every way out of it.
NextRequestIntact == pc \in {"idle", "command", "done"} => behind = "next_request"

\* A client that lists all keys gets every key that was there all the time,
\* except for those in a directory whose cursor was deleted between two
\* pages, and as long as no crashed or failed SET left a file behind.
ListingComplete ==
    [][ListEnd => \/ phantoms \/ LeftBehind # {}
                  \/ \A k \in present : \/ <<k, "">> \in seen
                                         \/ Dir[<<k, "">>] \in skipped \cup Skips(cursor)]_vars

\* The loop of the client that lists comes to its end, however often keys are
\* set and deleted meanwhile, unless it meets a file that was left behind.
ListingEnds == listing ~> (~listing \/ phantoms)

=============================================================================
