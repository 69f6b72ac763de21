--------------------------- MODULE FsStorageProofs ---------------------------
(***************************************************************************)
(* The files of FsStorage implement Store, for any keys, requests and      *)
(* blocks, and any number of crashes and failed system calls; and a client *)
(* that lists all keys misses none that was there all the time, for any    *)
(* keys, directories and page size.                                        *)
(***************************************************************************)
EXTENDS FsStorage, FiniteSetTheorems, TLAPS

Setting == {"open", "mkdir", "write"}

\* An ADD whose lookup failed.
Blind == failed /\ request.op = "add" /\ request.cas = 0

\* Where the server is in a request, and what it holds there.
Control ==
    /\ pc = "idle" <=> request = None
    /\ pc = "done" <=> response # None
    /\ pc \in {"idle", "command"} => ~failed
    /\ pc \in Setting => /\ request.op \in {"set", "add", "replace"}
                         /\ Refusal(request, storage_get(request.key)) = "ok" \/ Blind

\* A file under its final name is complete: its metadata is there.
Complete == \A k \in Keys : disk[<<k, "">>] # NoFile => Len(disk[<<k, "">>]) >= 1

\* The file under its second name has what fs_set has written so far.
Written == pc = "write" => /\ written <= Len(NewContent)
                           /\ disk[PathNew] = SubSeq(NewContent, 1, written)

\* The inductive invariant.
IInv == TypeOK /\ Control /\ Complete /\ Written /\ NextRequestIntact

-----------------------------------------------------------------------------
(* Contents and items.                                                     *)

\* The fields of a request.
LEMMA RequestFields ==
    ASSUME NEW r \in Requests
    PROVE  /\ r.op \in Ops /\ r.key \in Keys /\ r.value \in Seq(Bytes)
           /\ r.flags \in Flags /\ r.cas \in Nat
  BY ConstantsAssumption, Zenon

\* The metadata that cmd_set makes.
LEMMA MetadataType ==
    ASSUME NEW r \in Requests
    PROVE  NewMetadata(r) \in Metadata /\ NewMetadata(r).flags = r.flags
  BY RequestFields, ConstantsAssumption DEF NewMetadata, Metadata, UniqueCas

\* What storage_set hands over: the value, and one block behind it.
LEMMA ContentType ==
    ASSUME NEW r \in Requests
    PROVE  /\ Content(r) \in Seq(Block) /\ Len(Content(r)) = Len(r.value) + 1
           /\ Len(r.value) \in Nat
           /\ Content(r)[Len(Content(r))] = NewMetadata(r)
           /\ \A i \in 1 .. Len(r.value) : Content(r)[i] = r.value[i]
  <1> DEFINE v == r.value
             m == NewMetadata(r)
  <1>1. v \in Seq(Block) /\ m \in Block
    <2>1. v \in Seq(Bytes) /\ m \in Metadata BY RequestFields, MetadataType
    <2>2. Bytes \subseteq Block /\ Metadata \subseteq Block BY DEF Block
    <2> HIDE DEF v, m
    <2> QED BY <2>1, <2>2
  <1>2. Content(r) = Append(v, m) BY DEF Content
  <1> HIDE DEF v, m
  <1>3. /\ Append(v, m) \in Seq(Block) /\ Len(Append(v, m)) = Len(v) + 1
        /\ Len(v) \in Nat
        /\ Append(v, m)[Len(v) + 1] = m
        /\ \A i \in 1 .. Len(v) : Append(v, m)[i] = v[i]
    BY <1>1
  <1> QED BY <1>2, <1>3 DEF v, m

\* What is read back from a complete file is the item that was written.
LEMMA DecodeContent ==
    ASSUME NEW r \in Requests
    PROVE  Decode(Content(r)) = [value |-> r.value, md |-> NewMetadata(r)]
  <1> DEFINE c == Content(r)
  <1>1. /\ c \in Seq(Block) /\ Len(c) = Len(r.value) + 1 /\ Len(r.value) \in Nat
        /\ c[Len(c)] = NewMetadata(r) /\ \A i \in 1 .. Len(r.value) : c[i] = r.value[i]
    BY ContentType
  <1>2. c # NoFile BY <1>1, ConstantsAssumption
  <1> HIDE DEF c
  <1>3. ~(Len(c) < 1) /\ Len(c) - 1 = Len(r.value) BY <1>1
  <1>4. [i \in 1 .. Len(r.value) |-> c[i]] = r.value
    <2>1. r.value \in Seq(Bytes) BY RequestFields
    <2>2. r.value = [i \in 1 .. Len(r.value) |-> r.value[i]] BY <2>1
    <2>3. [i \in 1 .. Len(r.value) |-> c[i]] = [i \in 1 .. Len(r.value) |-> r.value[i]]
      BY <1>1, Zenon
    <2> QED BY <2>2, <2>3, Zenon
  <1>5. Decode(c) = [value |-> r.value, md |-> NewMetadata(r)]
    BY <1>1, <1>2, <1>3, <1>4, Zenon DEF Decode
  <1> QED BY <1>5 DEF c

\* A content is read as an item, or as nothing if there is none.
LEMMA DecodeType ==
    ASSUME NEW c \in Seq(Block) \cup {NoFile}
    PROVE  /\ Decode(c) \in Item \cup {Absent}
           /\ c = NoFile => Decode(c) = Absent
           /\ (c # NoFile /\ Len(c) >= 1) => Decode(c) \in Item /\ Decode(c) # Absent
  <1>1. CASE c = NoFile BY <1>1 DEF Decode
  <1>2. CASE c # NoFile /\ Len(c) < 1 
    <2>1. c \in Seq(Block) /\ Len(c) \in Nat BY <1>2
    <2> QED BY <1>2, <2>1 DEF Decode
  <1>3. CASE c # NoFile /\ ~(Len(c) < 1)
    <2>1. c \in Seq(Block) /\ Len(c) \in Nat BY <1>3
    <2>2. Len(c) \in 1 .. Len(c) /\ Len(c) - 1 \in Nat BY <2>1, <1>3
    <2>3. c[Len(c)] \in Block BY <2>1, <2>2
    <2> DEFINE v == [i \in 1 .. Len(c) - 1 |-> c[i]]
    <2>4. v \in Seq(Block) 
      <3>1. \A i \in 1 .. Len(c) - 1 : c[i] \in Block BY <2>1, <2>2
      <3>2. v \in [1 .. Len(c) - 1 -> Block] BY <3>1, Zenon
      <3> QED BY <3>2, <2>2
    <2>5. Decode(c) = [value |-> v, md |-> c[Len(c)]] BY <1>3, Zenon DEF Decode
    <2> HIDE DEF v
    <2>6. Decode(c) \in Item BY <2>3, <2>4, <2>5 DEF Item
    <2> QED BY <2>6, <1>3, ConstantsAssumption
  <1> QED BY <1>1, <1>2, <1>3

-----------------------------------------------------------------------------
(* The invariant.                                                          *)

\* The names of the file of a request.
LEMMA PathTypes ==
    ASSUME NEW k \in Keys
    PROVE  /\ <<k, "">> \in Files /\ <<k, ".new">> \in Files
           /\ \A j \in Keys : <<j, "">> # <<k, ".new">>
           /\ \A j \in Keys : <<j, "">> = <<k, "">> => j = k
  BY Zenon DEF Files, Kinds

\* What a content of a file is.
LEMMA StoredType ==
    ASSUME TypeOK, NEW k \in Keys
    PROVE  /\ disk[<<k, "">>] \in Seq(Block) \cup {NoFile}
           /\ storage_get(k) \in Item \cup {Absent}
           /\ disk[<<k, "">>] = NoFile => storage_get(k) = Absent
           /\ (disk[<<k, "">>] # NoFile /\ Len(disk[<<k, "">>]) >= 1) => storage_get(k) # Absent
  <1>1. disk[<<k, "">>] \in Seq(Block) \cup {NoFile} BY PathTypes, Zenon DEF TypeOK
  <1> QED BY <1>1, DecodeType, Zenon DEF storage_get

\* A refusal is one of four answers.
LEMMA RefusalType ==
    ASSUME NEW r, NEW item
    PROVE  Refusal(r, item) \in {"ok", "not_found", "exists", "not_stored"}
  BY DEF Refusal

\* A part of what storage_set hands over.
LEMMA PartType ==
    ASSUME NEW r \in Requests, NEW n \in 0 .. Len(Content(r))
    PROVE  SubSeq(Content(r), 1, n) \in Seq(Block)
  <1> DEFINE c == Content(r)
  <1>1. c \in Seq(Block) BY ContentType
  <1> HIDE DEF c
  <1>2. n \in 0 .. Len(c) BY DEF c
  <1>3. SubSeq(c, 1, n) \in Seq(Block) BY <1>1, <1>2
  <1> QED BY <1>3 DEF c

\* All of it.
LEMMA WholePart ==
    ASSUME NEW r \in Requests
    PROVE  SubSeq(Content(r), 1, Len(Content(r))) = Content(r)
  <1> DEFINE c == Content(r)
  <1>1. c \in Seq(Block) BY ContentType
  <1> HIDE DEF c
  <1>2. SubSeq(c, 1, Len(c)) = c BY <1>1
  <1> QED BY <1>2 DEF c

\* A response has its type.
LEMMA ReturnType ==
    ASSUME NEW status \in Statuses, NEW item \in Item \cup {Absent}, Return(status, item)
    PROVE  response' \in Responses /\ response' # None /\ pc' = "done"
  BY ConstantsAssumption DEF Return, Responses

\* No request is None, and no response.
LEMMA Nothing ==
    /\ \A r \in Requests : r # None
    /\ \A r \in Responses : r # None
  BY ConstantsAssumption, Zenon

\* The invariant holds at the start.
LEMMA InvInit == Init => IInv
  <1> SUFFICES ASSUME Init PROVE IInv OBVIOUS
  <1>1. TypeOK
    <2>1. disk \in [Files -> Seq(Block) \cup {NoFile}] BY DEF Init
    <2>2. faults \in 0 .. MaxFaults BY PlacesAssumption DEF Init
    <2> QED BY <2>1, <2>2, Zenon DEF Init, TypeOK
  <1>2. Control /\ Written BY DEF Init, Control, Written, Setting
  <1>3. Complete BY PathTypes, Zenon DEF Init, Complete
  <1> QED BY <1>1, <1>2, <1>3 DEF Init, IInv, NextRequestIntact

\* The client that lists changes nothing of the server.
LEMMA ListStep == ASSUME IInv, List PROVE IInv' /\ UNCHANGED server
  <1>1. UNCHANGED server BY Zenon DEF List, ListStart, ListPage, ListEnd
  <1>2. UNCHANGED <<disk, dirs, request, response, pc, written, behind, faults, failed>>
    BY <1>1 DEF server
  <1>3. /\ listing' \in BOOLEAN /\ cursor' \in Files \cup {None} /\ seen' \subseteq Files
        /\ present' \subseteq Keys /\ skipped' \subseteq Leaves /\ phantoms' \in BOOLEAN
    <2> DEFINE P == Page(cursor)
               K == Skips(cursor)
    <2>1. P \subseteq Files
      <3>1. P \subseteq After(cursor) BY DEF Page
      <3>2. After(cursor) \subseteq Files BY DEF After, Existing
      <3> HIDE DEF P
      <3> QED BY <3>1, <3>2
    <2>2. K \subseteq Leaves
      BY DEF Skips, Leaves, IInv, TypeOK
    <2>3. CASE ListStart BY <2>3, Zenon DEF ListStart, IInv, TypeOK
    <2>4. CASE ListPage
      <3>1. /\ \E f \in P : cursor' = f
            /\ seen' = seen \cup P /\ skipped' = skipped \cup K
            /\ phantoms' = (phantoms \/ LeftBehind # {})
            /\ UNCHANGED <<listing, present>>
        BY <2>4 DEF ListPage
      <3>2. phantoms' \in BOOLEAN BY <3>1, Zenon
      <3> HIDE DEF P, K
      <3> QED BY <2>1, <2>2, <3>1, <3>2 DEF IInv, TypeOK
    <2>5. CASE ListEnd BY <2>5, Zenon DEF ListEnd
    <2> QED BY <2>3, <2>4, <2>5 DEF List
  <1>4. TypeOK' BY <1>2, <1>3 DEF IInv, TypeOK
  <1>5. Control' /\ Complete' /\ Written' /\ NextRequestIntact'
    BY <1>2, Zenon DEF IInv, Control, Blind, Complete, Written, NextRequestIntact, storage_get,
                NewContent, PathNew
  <1> QED BY <1>1, <1>4, <1>5 DEF IInv

\* A request arrives, is answered, or is lost with the server.
LEMMA SessionStep == ASSUME IInv, Call \/ Reply \/ Crash PROVE IInv'
  <1>1. CASE Call
    <2>1. request' \in Requests /\ pc' = "command" /\ response = None
      BY <1>1 DEF Call, IInv, Control
    <2>2. TypeOK' BY <1>1, <2>1, Zenon DEF Call, lister, IInv, TypeOK
    <2>3. Complete' BY <1>1, Zenon DEF Call, IInv, Complete
    <2>4. ~failed' BY <1>1, Nothing DEF Call, IInv, Control
    <2>6. Control' /\ Written' BY <1>1, <2>1, <2>4, Nothing DEF Call, Control, Written, Setting
    <2>5. behind' = "next_request" BY <1>1 DEF Call, IInv, Control, NextRequestIntact
    <2> QED BY <2>2, <2>3, <2>5, <2>6 DEF IInv, NextRequestIntact
  <1>2. CASE Reply
    <2>1. TypeOK' BY <1>2, Zenon DEF Reply, lister, IInv, TypeOK
    <2>2. Complete' BY <1>2, Zenon DEF Reply, IInv, Complete
    <2>3. Control' /\ Written' BY <1>2 DEF Reply, Control, Written, Setting
    <2>4. behind' = "next_request" BY <1>2 DEF Reply, IInv, NextRequestIntact
    <2> QED BY <2>1, <2>2, <2>3, <2>4 DEF IInv, NextRequestIntact
  <1>3. CASE Crash
    <2>1. faults' \in 0 .. MaxFaults /\ written' \in Nat
      BY <1>3, PlacesAssumption DEF Crash, IInv, TypeOK
    <2>2. TypeOK' BY <1>3, <2>1, Zenon DEF Crash, IInv, TypeOK
    <2>3. Complete' BY <1>3, Zenon DEF Crash, IInv, Complete
    <2>4. Control' /\ Written' BY <1>3 DEF Crash, Control, Written, Setting
    <2> QED BY <1>3, <2>2, <2>3, <2>4 DEF Crash, IInv, NextRequestIntact
  <1> QED BY <1>1, <1>2, <1>3

\* The commands that answer in one step without changing a file.
LEMMA AnswerStep ==
    ASSUME IInv, pc = "command", NEW status \in Statuses, NEW item \in Item \cup {Absent},
           Return(status, item), UNCHANGED <<dirs, request, written, behind>>,
           faults' \in 0 .. MaxFaults, failed' \in BOOLEAN,
           UNCHANGED <<listing, cursor, seen, skipped, phantoms>>,
           present' \subseteq Keys, disk' \in [Files -> Seq(Block) \cup {NoFile}], Complete'
    PROVE  IInv'
  <1>1. response' \in Responses /\ response' # None /\ pc' = "done" BY ReturnType
  <1>2. request # None BY DEF IInv, Control
  <1>3. TypeOK' BY <1>1 DEF IInv, TypeOK
  <1>4. Control' /\ Written' BY <1>1, <1>2 DEF Control, Written, Setting
  <1>5. behind = "next_request" BY DEF IInv, NextRequestIntact
  <1> QED BY <1>3, <1>4, <1>5 DEF IInv, NextRequestIntact

\* A system call that fails is counted.
LEMMA FaultType ==
    ASSUME TypeOK, UNCHANGED <<faults, failed>> \/ SystemCallFails
    PROVE  faults' \in 0 .. MaxFaults /\ failed' \in BOOLEAN
  <1>1. faults' \in 0 .. MaxFaults
    <2>1. faults \in 0 .. MaxFaults /\ MaxFaults \in Nat BY PlacesAssumption DEF TypeOK
    <2>2. faults' = faults \/ (faults < MaxFaults /\ faults' = faults + 1)
      BY Zenon DEF SystemCallFails
    <2> QED BY ONLY <2>1, <2>2
  <1>2. failed' \in BOOLEAN BY Zenon DEF TypeOK, SystemCallFails
  <1> QED BY <1>1, <1>2

\* GET, DELETE, and requests that are rejected.
LEMMA ImmediateStep ==
    ASSUME IInv, InvalidArguments \/ SendBufferFull \/ cmd_get \/ cmd_delete
    PROVE  IInv'
  <1>1. request \in Requests /\ request.key \in Keys /\ TypeOK
    <2>1. pc = "command" BY Zenon DEF InvalidArguments, SendBufferFull, cmd_get, cmd_delete
    <2>2. request \in Requests BY <2>1 DEF IInv, Control, TypeOK
    <2> QED BY <2>2, RequestFields DEF IInv
  <1> DEFINE k == request.key
             same == /\ UNCHANGED <<dirs, request, written, behind>>
                     /\ UNCHANGED <<listing, cursor, seen, skipped, phantoms>>
             counted == faults' \in 0 .. MaxFaults /\ failed' \in BOOLEAN
  <1>2. CASE InvalidArguments \/ SendBufferFull
    <2>1. PICK s \in Statuses : Return(s, Absent)
      BY <1>2 DEF InvalidArguments, SendBufferFull, Statuses
    <2>2. same /\ UNCHANGED <<disk, present>> /\ UNCHANGED <<faults, failed>> /\ pc = "command"
      BY <1>2 DEF InvalidArguments, SendBufferFull, lister
    <2>3. Complete' BY <2>2, Zenon DEF IInv, Complete
    <2>4. counted BY <1>1, <2>2, FaultType
    <2> QED BY <2>1, <2>2, <2>3, <2>4, AnswerStep DEF IInv, TypeOK
  <1>3. CASE cmd_get
    <2>1. storage_get(k) \in Item \cup {Absent} BY <1>1, StoredType, Zenon
    <2>2. PICK i \in {storage_get(k), Absent} :
             /\ Finds(i)
             /\ IF i = Absent THEN Return("not_found", Absent) ELSE Return("ok", i)
      BY <1>3, Zenon DEF cmd_get
    <2>3. i \in Item \cup {Absent} BY <2>1, <2>2, Zenon
    <2>4. PICK s \in Statuses : Return(s, i) BY <2>2 DEF Statuses
    <2>5. same /\ UNCHANGED <<disk, present>> /\ pc = "command" BY ONLY <1>3 DEF cmd_get, lister
    <2>6. Complete' BY <2>5, Zenon DEF IInv, Complete
    <2>7. counted
      <3>1. UNCHANGED <<faults, failed>> \/ SystemCallFails BY <2>2 DEF Finds
      <3> QED BY <1>1, <3>1, FaultType
    <2> QED BY <2>3, <2>4, <2>5, <2>6, <2>7, AnswerStep DEF IInv, TypeOK
  <1>4. CASE cmd_delete
    <2>1. PICK s \in Statuses : Return(s, Absent) BY <1>4 DEF cmd_delete, Statuses
    <2>2. same /\ pc = "command" /\ present' \in {present, present \ {k}} BY <1>4 DEF cmd_delete
    <2>3. disk' = disk \/ disk' = [disk EXCEPT ![<<k, "">>] = NoFile] BY <1>4 DEF cmd_delete
    <2>4. disk' \in [Files -> Seq(Block) \cup {NoFile}] BY <1>1, <2>3, Zenon DEF TypeOK
    <2>5. Complete'
      <3> SUFFICES ASSUME NEW j \in Keys, disk'[<<j, "">>] # NoFile
                   PROVE  Len(disk'[<<j, "">>]) >= 1
        BY Zenon DEF Complete
      <3>1. <<j, "">> \in Files BY PathTypes, Zenon
      <3>2. disk'[<<j, "">>] = disk[<<j, "">>] BY <1>1, <2>3, <3>1, Zenon DEF TypeOK
      <3> QED BY <3>2, Zenon DEF IInv, Complete
    <2>6. present' \subseteq Keys BY <1>1, <2>2 DEF TypeOK
    <2>7. counted
      <3>1. UNCHANGED <<faults, failed>> \/ SystemCallFails BY <1>4 DEF cmd_delete
      <3> QED BY <1>1, <3>1, FaultType
    <2> QED BY <2>1, <2>2, <2>4, <2>5, <2>6, <2>7, AnswerStep
  <1> QED BY <1>2, <1>3, <1>4

\* SET, ADD and REPLACE up to the first system call of fs_set.
LEMMA SetStep == ASSUME IInv, cmd_set PROVE IInv'
  <1>1. pc = "command" /\ request.op \in {"set", "add", "replace"} BY DEF cmd_set
  <1>2. request \in Requests /\ request # None /\ response = None /\ behind = "next_request"
    BY <1>1 DEF IInv, Control, TypeOK, NextRequestIntact
  <1>3. UNCHANGED <<disk, dirs, request, written>> /\ UNCHANGED lister BY DEF cmd_set
  <1>4. Complete' BY <1>3, Zenon DEF IInv, Complete
  <1>5. PICK item \in {storage_get(request.key), Absent} :
           /\ Finds(item)
           /\ IF Refusal(request, item) = "ok"
              THEN pc' = "open" /\ behind' = "metadata" /\ UNCHANGED response
              ELSE Return(Refusal(request, item), Absent) /\ UNCHANGED behind
    BY Zenon DEF cmd_set
  <1>6. faults' \in 0 .. MaxFaults /\ failed' \in BOOLEAN
    <2>1. UNCHANGED <<faults, failed>> \/ SystemCallFails BY <1>5 DEF Finds
    <2> QED BY <2>1, FaultType DEF IInv
  <1> DEFINE refusal == Refusal(request, item)
  <1>7. CASE refusal = "ok"
    <2>1. pc' = "open" /\ behind' = "metadata" /\ response' = response BY <1>5, <1>7
    <2>2. TypeOK' BY <1>3, <1>6, <2>1 DEF lister, IInv, TypeOK
    <2>3. (Refusal(request, storage_get(request.key)) = "ok" \/ Blind)'
      <3>1. CASE item = storage_get(request.key)
        <4>1. Refusal(request, storage_get(request.key)) = "ok" BY <1>7, <3>1
        <4> QED BY <1>3, <4>1, Zenon DEF storage_get
      <3>2. CASE item = Absent /\ Looks(request) /\ SystemCallFails
        <4>1. request.op = "add" /\ request.cas = 0
          BY <1>1, <1>7, <3>2 DEF Refusal, Looks
        <4> QED BY <1>3, <3>2, <4>1, Zenon DEF Blind, SystemCallFails
      <3> QED BY <1>5, <3>1, <3>2 DEF Finds
    <2>4. Control' BY <1>1, <1>2, <1>3, <2>1, <2>3 DEF Control, Setting
    <2> QED BY <1>4, <2>1, <2>2, <2>4 DEF IInv, Written, NextRequestIntact
  <1>8. CASE refusal # "ok"
    <2>1. refusal \in Statuses BY RefusalType DEF Statuses
    <2>2. Return(refusal, Absent) /\ UNCHANGED behind BY <1>5, <1>8
    <2> HIDE DEF refusal
    <2>3. UNCHANGED <<listing, cursor, seen, present, skipped, phantoms>> BY <1>3 DEF lister
    <2> QED BY <1>1, <1>3, <1>4, <1>6, <2>1, <2>2, <2>3, AnswerStep DEF IInv, TypeOK
  <1> QED BY <1>7, <1>8

\* What fs_set knows of its request.
LEMMA SettingFacts ==
    ASSUME IInv, pc \in Setting
    PROVE  /\ request \in Requests /\ request # None /\ response = None
           /\ request.key \in Keys /\ Path \in Files /\ PathNew \in Files
           /\ NewContent = Content(request)
           /\ LeafDir \in Directories /\ Up(LeafDir) \in Directories
  <1>1. pc # "idle" /\ pc # "done" BY DEF Setting
  <1>2. request \in Requests /\ request # None /\ response = None
    BY <1>1 DEF IInv, Control, TypeOK
  <1>3. request.key \in Keys BY <1>2, RequestFields
  <1>4. Path \in Files /\ PathNew \in Files BY <1>3, PathTypes, Zenon DEF Path, PathNew
  <1>5. LeafDir \in Leaves BY <1>4 DEF LeafDir, Leaves
  <1> QED BY <1>2, <1>3, <1>4, <1>5 DEF NewContent, Directories

\* A system call of fs_set that leaves every final name as it is keeps the
\* invariant, if it keeps what it knows of the new file.
LEMMA SystemCall ==
    ASSUME IInv, pc \in Setting, pc' \in Setting,
           UNCHANGED <<request, response, behind, faults, failed>>, UNCHANGED lister,
           dirs' \subseteq Directories, written' \in Nat,
           disk' \in [Files -> Seq(Block) \cup {NoFile}],
           \A k \in Keys : disk'[<<k, "">>] = disk[<<k, "">>],
           Written'
    PROVE  IInv'
  <1>1. TypeOK' BY Zenon DEF lister, IInv, TypeOK, Setting
  <1>2. Complete' BY Zenon DEF IInv, Complete
  <1>3. storage_get(request.key)' = storage_get(request.key)
    BY SettingFacts, Zenon DEF storage_get
  <1>4. Control'
    <2>1. (Refusal(request, storage_get(request.key)) = "ok" \/ Blind)'
      BY <1>3, Zenon DEF IInv, Control, Blind
    <2> QED BY <2>1, SettingFacts, Zenon DEF IInv, Control, Setting
  <1>5. NextRequestIntact' BY Zenon DEF NextRequestIntact, Setting
  <1> QED BY <1>1, <1>2, <1>4, <1>5, Zenon DEF IInv

\* fs_set returns: the receive buffer is restored.
LEMMA SetReturn ==
    ASSUME IInv, pc \in Setting, NEW status \in Statuses, storage_set_ret(status),
           UNCHANGED <<dirs, request>>, UNCHANGED lister,
           faults' \in 0 .. MaxFaults, failed' \in BOOLEAN,
           disk' \in [Files -> Seq(Block) \cup {NoFile}], Complete'
    PROVE  IInv'
  <1>1. behind' = "next_request" /\ written' = 0 /\ Return(status, Absent)
    BY DEF storage_set_ret
  <1>2. response' \in Responses /\ response' # None /\ pc' = "done" BY <1>1, ReturnType
  <1>3. TypeOK' BY <1>1, <1>2 DEF lister, IInv, TypeOK
  <1>4. Control' /\ Written' BY <1>2, SettingFacts DEF Control, Written, Setting
  <1> QED BY <1>1, <1>3, <1>4 DEF IInv, NextRequestIntact

\* The system calls of fs_set.
LEMMA PutStep == ASSUME IInv, Put PROVE IInv'
  <1>0. pc \in Setting
    BY DEF Put, fs_set_open, fs_set_mkdir, fs_set_write, fs_set_rename, fs_set_error, Setting
  <1> DEFINE r == request
  <1>1. /\ r \in Requests /\ r.key \in Keys /\ Path \in Files /\ PathNew \in Files
        /\ NewContent = Content(r) /\ LeafDir \in Directories /\ Up(LeafDir) \in Directories
    BY <1>0, SettingFacts
  <1>2. disk \in [Files -> Seq(Block) \cup {NoFile}] BY DEF IInv, TypeOK
  <1>3. \A k \in Keys : <<k, "">> \in Files /\ <<k, "">> # PathNew
    BY <1>1, PathTypes, Zenon DEF PathNew
  <1>4. CASE fs_set_open
    <2>1. CASE LeafDir \in dirs
      <3>1. disk' = [disk EXCEPT ![PathNew] = <<>>] /\ pc' = "write" /\ written' = 0
        BY <1>4, <2>1 DEF fs_set_open
      <3>2. UNCHANGED <<dirs, request, response, behind, faults, failed>> /\ UNCHANGED lister
        BY <1>4 DEF fs_set_open
      <3>3. disk' \in [Files -> Seq(Block) \cup {NoFile}] /\ disk'[PathNew] = <<>>
        BY <1>1, <1>2, <3>1
      <3>4. \A k \in Keys : disk'[<<k, "">>] = disk[<<k, "">>] BY <1>2, <1>3, <3>1, Zenon
      <3>5. Written'
        <4>1. NewContent' = NewContent /\ PathNew' = PathNew
          BY <3>2 DEF NewContent, PathNew
        <4>2. NewContent \in Seq(Block) BY <1>1, ContentType
        <4>3. SubSeq(NewContent, 1, 0) = <<>> /\ 0 <= Len(NewContent) BY <4>2
        <4> QED BY <3>1, <3>3, <4>1, <4>3 DEF Written
      <3>6. pc' \in Setting /\ dirs' \subseteq Directories /\ written' \in Nat
        BY <3>1, <3>2 DEF Setting, IInv, TypeOK
      <3> QED BY <1>0, <3>2, <3>3, <3>4, <3>5, <3>6, SystemCall, Zenon
    <2>2. CASE LeafDir \notin dirs
      <3>1. /\ pc' = "mkdir" /\ UNCHANGED <<disk, written, dirs, request, response, behind, faults, failed>>
            /\ UNCHANGED lister
        BY <1>4, <2>2 DEF fs_set_open
      <3>2. Written' /\ pc' \in Setting BY <3>1 DEF Written, Setting
      <3>3. dirs' \subseteq Directories /\ written' \in Nat BY <3>1 DEF IInv, TypeOK
      <3> QED BY <1>0, <1>2, <3>1, <3>2, <3>3, SystemCall
    <2> QED BY <2>1, <2>2
  <1>5. CASE fs_set_mkdir
    <2>1. /\ UNCHANGED <<disk, written, request, response, behind, faults, failed>> /\ UNCHANGED lister
          /\ pc' \in {"open", "mkdir"}
          /\ dirs' = dirs \cup {LeafDir} \/ dirs' = dirs \cup {Up(LeafDir)}
      BY <1>5 DEF fs_set_mkdir
    <2>2. Written' /\ pc' \in Setting BY <2>1 DEF Written, Setting
    <2>3. dirs' \subseteq Directories /\ written' \in Nat BY <1>1, <2>1, SMTT(20) DEF IInv, TypeOK
    <2> QED BY <1>0, <1>2, <2>1, <2>2, <2>3, SystemCall
  <1>6. CASE fs_set_write
    <2>1. PICK n \in written + 1 .. Len(NewContent) :
             disk' = [disk EXCEPT ![PathNew] = SubSeq(NewContent, 1, n)] /\ written' = n
      BY <1>6, Zenon DEF fs_set_write
    <2>2. pc = "write" /\ UNCHANGED <<dirs, request, response, pc, behind, faults, failed>> /\ UNCHANGED lister
      BY <1>6 DEF fs_set_write
    <2>3. n \in 0 .. Len(Content(r)) /\ n \in Nat
      <3>1. written \in Nat BY DEF IInv, TypeOK
      <3>2. Len(NewContent) \in Nat BY <1>1, ContentType
      <3>3. n \in 0 .. Len(NewContent) BY <3>1, <3>2
      <3> QED BY <1>1, <3>2, <3>3
    <2>4. SubSeq(NewContent, 1, n) \in Seq(Block) BY <1>1, <2>3, PartType
    <2>5. /\ disk' \in [Files -> Seq(Block) \cup {NoFile}]
          /\ disk'[PathNew] = SubSeq(NewContent, 1, n)
      BY <1>1, <1>2, <2>1, <2>4, Zenon
    <2>6. \A k \in Keys : disk'[<<k, "">>] = disk[<<k, "">>] BY <1>2, <1>3, <2>1, Zenon
    <2>7. Written'
      <3>1. NewContent' = NewContent /\ PathNew' = PathNew BY <2>2 DEF NewContent, PathNew
      <3>2. n <= Len(NewContent) BY <1>1, <2>3
      <3> QED BY <2>1, <2>5, <3>1, <3>2, Zenon DEF Written
    <2>8. pc' \in Setting /\ dirs' \subseteq Directories /\ written' \in Nat
      BY <2>1, <2>2, <2>3 DEF Setting, IInv, TypeOK
    <2> QED BY <1>0, <2>2, <2>5, <2>6, <2>7, <2>8, SystemCall, Zenon
  <1>7. CASE fs_set_rename
    <2>1. /\ disk' = [disk EXCEPT ![Path] = disk[PathNew], ![PathNew] = NoFile]
          /\ storage_set_ret("ok") /\ UNCHANGED <<dirs, request, faults, failed>> /\ UNCHANGED lister
      BY <1>7 DEF fs_set_rename
    <2>2. disk' \in [Files -> Seq(Block) \cup {NoFile}] BY <1>1, <1>2, <2>1
    <2>3. disk[PathNew] = Content(r) /\ Len(Content(r)) >= 1
      <3>1. disk[PathNew] = SubSeq(NewContent, 1, Len(NewContent))
        BY <1>7 DEF fs_set_rename, IInv, Written
      <3> QED BY <1>1, <3>1, WholePart, ContentType
    <2>4. Complete'
      <3> SUFFICES ASSUME NEW k \in Keys, disk'[<<k, "">>] # NoFile
                   PROVE  Len(disk'[<<k, "">>]) >= 1
        BY Zenon DEF Complete
      <3>1. CASE <<k, "">> = Path
        <4>1. disk'[<<k, "">>] = disk[PathNew] BY <1>1, <1>2, <1>3, <2>1, <3>1, Zenon
        <4> QED BY <2>3, <4>1, Zenon
      <3>2. CASE <<k, "">> # Path
        <4>1. disk'[<<k, "">>] = disk[<<k, "">>] BY <1>1, <1>2, <1>3, <2>1, <3>2, Zenon
        <4> QED BY <4>1, Zenon DEF IInv, Complete
      <3> QED BY <3>1, <3>2, Zenon
    <2> QED BY <1>0, <2>1, <2>2, <2>4, SetReturn DEF IInv, TypeOK, Statuses
  <1>8. CASE fs_set_error
    <2>1. /\ storage_set_ret("not_stored") /\ UNCHANGED <<disk, dirs, request>> /\ UNCHANGED lister
          /\ SystemCallFails
      BY <1>8 DEF fs_set_error
    <2>2. faults' \in 0 .. MaxFaults /\ failed' \in BOOLEAN BY <2>1, FaultType DEF IInv
    <2>3. Complete' BY <2>1, Zenon DEF IInv, Complete
    <2> QED BY <1>0, <1>2, <2>1, <2>2, <2>3, SetReturn DEF Statuses
  <1> QED BY <1>4, <1>5, <1>6, <1>7, <1>8 DEF Put

\* Every step keeps the invariant.
LEMMA InvStep == IInv /\ [Next]_vars => IInv'
  <1> SUFFICES ASSUME IInv, [Next]_vars PROVE IInv' OBVIOUS
  <1>1. CASE Call \/ Reply \/ Crash BY <1>1, SessionStep
  <1>2. CASE InvalidArguments \/ SendBufferFull \/ cmd_get \/ cmd_delete BY <1>2, ImmediateStep
  <1>3. CASE cmd_set BY <1>3, SetStep
  <1>4. CASE Put BY <1>4, PutStep
  <1>5. CASE List BY <1>5, ListStep
  <1>6. CASE UNCHANGED vars
    <2>1. UNCHANGED <<disk, dirs, request, response, pc, written, behind, faults, failed>>
          /\ UNCHANGED <<listing, cursor, seen, present, skipped, phantoms>>
      BY <1>6 DEF vars, server, lister
    <2>2. TypeOK' BY <2>1 DEF IInv, TypeOK
    <2>3. Control' /\ Complete' /\ Written' /\ NextRequestIntact'
      BY <2>1, Zenon DEF IInv, Control, Blind, Complete, Written, NextRequestIntact, storage_get,
                  NewContent, PathNew
    <2> QED BY <2>2, <2>3 DEF IInv
  <1> QED BY <1>1, <1>2, <1>3, <1>4, <1>5, <1>6 DEF Next, Command

\* The invariant holds all the time.
LEMMA Invariance == Spec => []IInv
  BY InvInit, InvStep, PTL DEF Spec

\* Files, requests and responses keep their types (src/src/sto_fs.c).
THEOREM TypeCorrect == Spec => []TypeOK
  <1>1. IInv => TypeOK BY DEF IInv
  <1> QED BY <1>1, Invariance, PTL

\* storage_set gives back the bytes behind the value on every way out of it
\* (src/src/storage.c), whatever fs_set returns.
THEOREM BufferRestored == Spec => []NextRequestIntact
  <1>1. IInv => NextRequestIntact BY DEF IInv
  <1> QED BY <1>1, Invariance, PTL

-----------------------------------------------------------------------------
(* The refinement.                                                         *)

\* The abstract store.
items == [k \in Keys |-> storage_get(k)]

\* Nothing under a final name changes: the abstract store stays.
LEMMA SameItems ==
    ASSUME \A k \in Keys : disk'[<<k, "">>] = disk[<<k, "">>]
    PROVE  items' = items
  BY Zenon DEF items, storage_get

\* One final name changes: so does one item.
LEMMA OneItem ==
    ASSUME NEW key \in Keys, NEW c, disk'[<<key, "">>] = c,
           \A k \in Keys \ {key} : disk'[<<k, "">>] = disk[<<k, "">>]
    PROVE  items' = [items EXCEPT ![key] = Decode(c)]
  <1>1. items' = [k \in Keys |-> storage_get(k)'] BY Zenon DEF items
  <1>2. \A k \in Keys : storage_get(k)' = IF k = key THEN Decode(c) ELSE storage_get(k)
    BY Zenon DEF storage_get
  <1> QED BY <1>1, <1>2, Zenon DEF items

\* A step that the store does not see.
LEMMA Stutter ==
    ASSUME items' = items, UNCHANGED <<request, response, failed>>
    PROVE  UNCHANGED Abstract!vars
  BY DEF Abstract!vars, items

\* A session step is one of the store.
LEMMA SessionRefines ==
    ASSUME IInv, Call \/ Reply \/ Crash
    PROVE  Abstract!Next
  <1>1. disk' = disk BY DEF Call, Reply, Crash
  <1>2. items' = items BY <1>1, SameItems
  <1>3. CASE Call BY <1>2, <1>3 DEF Call, Abstract!Call, Abstract!Next, items
  <1>4. CASE Reply
    <2>1. response # None BY <1>4 DEF Reply, IInv, Control
    <2> QED BY <1>2, <1>4, <2>1 DEF Reply, Abstract!Reply, Abstract!Next, items
  <1>5. CASE Crash BY <1>2, <1>5 DEF Crash, Abstract!Crash, Abstract!Next, items
  <1> QED BY <1>3, <1>4, <1>5

\* What a running request is to the store.
LEMMA Running ==
    ASSUME IInv, pc # "idle", pc # "done"
    PROVE  /\ request \in Requests /\ request # None /\ response = None
           /\ request.key \in Keys /\ items[request.key] = storage_get(request.key)
  <1>1. request \in Requests /\ request # None /\ response = None
    BY DEF IInv, Control, TypeOK
  <1>2. request.key \in Keys BY <1>1, RequestFields
  <1> QED BY <1>1, <1>2, Zenon DEF items

\* What fs_set and cmd_set may refuse, and what they may store.
LEMMA MayStoreIff ==
    ASSUME IInv, pc # "idle", pc # "done", request.op \in {"set", "add", "replace"}
    PROVE  Refusal(request, storage_get(request.key)) = "ok" <=> Abstract!MayStore
  <1>1. items[request.key] = storage_get(request.key) BY Running
  <1> QED BY <1>1 DEF Refusal, Abstract!MayStore, items

\* A request is executed if one of the commands of the store is.
LEMMA Executes ==
    ASSUME IInv, pc # "idle", pc # "done", request' = request,
           UNCHANGED failed \/ SystemCallFails,
           Abstract!Get \/ Abstract!Put \/ Abstract!Delete \/ Abstract!Reject
    PROVE  Abstract!Next
  <1>1. failed' \in {failed, TRUE} BY DEF SystemCallFails
  <1> QED BY <1>1, Running DEF Abstract!Execute, Abstract!Next

\* A refusal is one of the store, for an item or for a failure.
LEMMA RefusalRefines ==
    ASSUME IInv, pc # "idle", pc # "done", request.op \in {"set", "add", "replace"},
           NEW status \in {"not_found", "exists", "not_stored"},
           Return(status, Absent), disk' = disk, request' = request,
           \/ UNCHANGED failed /\ Refusal(request, storage_get(request.key)) # "ok"
           \/ SystemCallFails
    PROVE  Abstract!Next
  <1>1. items' = items BY SameItems
  <1>2. ~Abstract!MayStore \/ failed' BY MayStoreIff DEF SystemCallFails
  <1>3. \E s \in {"not_found", "exists", "not_stored"} : Abstract!Answer(s, Absent)
    BY DEF Return, Abstract!Answer
  <1>4. Abstract!Put BY <1>1, <1>2, <1>3, Zenon DEF Abstract!Put, items
  <1> QED BY <1>4, Executes

\* GET and DELETE answer what the store answers.
LEMMA ImmediateRefines ==
    ASSUME IInv, InvalidArguments \/ SendBufferFull \/ cmd_get \/ cmd_delete
    PROVE  Abstract!Next
  <1>1. pc = "command" /\ request' = request
    BY Zenon DEF InvalidArguments, SendBufferFull, cmd_get, cmd_delete
  <1> DEFINE k == request.key
  <1>2. k \in Keys /\ items[k] = storage_get(k) /\ request # None /\ response = None
    BY <1>1, Running
  <1>3. ~failed BY <1>1 DEF IInv, Control
  <1>4. CASE InvalidArguments \/ SendBufferFull
    <2>1. disk' = disk /\ failed' = failed BY <1>4 DEF InvalidArguments, SendBufferFull
    <2>2. items' = items BY <2>1, SameItems
    <2>3. Abstract!Reject
      BY <1>4, <2>2 DEF InvalidArguments, SendBufferFull, Return, Abstract!Reject,
                        Abstract!Answer, items
    <2> QED BY <1>1, <2>1, <2>3, Executes
  <1>5. CASE cmd_get
    <2>1. items' = items BY <1>5, SameItems DEF cmd_get
    <2>2. PICK i \in {storage_get(k), Absent} :
             /\ Finds(i)
             /\ IF i = Absent THEN Return("not_found", Absent) ELSE Return("ok", i)
      BY <1>5, Zenon DEF cmd_get
    <2>3. \/ i = items[k] /\ failed' = failed
          \/ i = Absent /\ SystemCallFails
      BY <1>2, <2>2 DEF Finds
    <2>4. IF items[k] = Absent \/ failed' THEN Return("not_found", Absent)
                                          ELSE Return("ok", items[k])
      <3>1. CASE i = items[k] /\ failed' = failed
        <4>1. ~failed' BY <1>3, <3>1, Zenon
        <4> QED BY <2>2, <3>1, <4>1, Zenon
      <3>2. CASE i = Absent /\ SystemCallFails
        <4>1. failed' BY <3>2, Zenon DEF SystemCallFails
        <4>2. Return("not_found", Absent) BY <2>2, <3>2, Zenon
        <4> QED BY <4>1, <4>2, Zenon
      <3> QED BY <2>3, <3>1, <3>2
    <2>5. Abstract!Get
      BY <1>5, <2>1, <2>4 DEF cmd_get, Return, Abstract!Get, Abstract!Answer, items
    <2> QED BY <1>1, <2>3, <2>5, Executes
  <1>6. CASE cmd_delete
    <2> DEFINE deleted == /\ disk' = [disk EXCEPT ![<<k, "">>] = NoFile] /\ disk[<<k, "">>] # NoFile
                          /\ Return("ok", Absent) /\ failed' = failed
               kept == /\ disk' = disk /\ Return("not_found", Absent)
                       /\ (disk[<<k, "">>] = NoFile /\ failed' = failed) \/ SystemCallFails
    <2>1. request.op = "delete" /\ (deleted \/ kept) BY <1>6, Zenon DEF cmd_delete
    <2>2. disk[<<k, "">>] = NoFile <=> items[k] = Absent
      <3>1. disk[<<k, "">>] # NoFile => Len(disk[<<k, "">>]) >= 1 BY <1>2, Zenon DEF IInv, Complete
      <3> QED BY <1>2, <3>1, StoredType, Zenon DEF IInv
    <2>3. CASE deleted
      <3>1. disk \in [Files -> Seq(Block) \cup {NoFile}] /\ <<k, "">> \in Files
        BY <1>2, PathTypes, Zenon DEF IInv, TypeOK
      <3>2. disk'[<<k, "">>] = NoFile BY <2>3, <3>1, Zenon
      <3>3. \A j \in Keys \ {k} : disk'[<<j, "">>] = disk[<<j, "">>]
        <4> SUFFICES ASSUME NEW j \in Keys, j # k PROVE disk'[<<j, "">>] = disk[<<j, "">>]
          BY Zenon
        <4>1. <<j, "">> \in Files /\ <<j, "">> # <<k, "">> BY <1>2, PathTypes, Zenon
        <4> QED BY <2>3, <3>1, <4>1, Zenon
      <3>4. items' = [items EXCEPT ![k] = Absent]
        <4>1. Decode(NoFile) = Absent BY DEF Decode
        <4> QED BY <1>2, <3>2, <3>3, <4>1, OneItem, Zenon
      <3>5. items[k] # Absent /\ ~failed' /\ Abstract!Answer("ok", Absent)
        BY <1>3, <2>2, <2>3, Zenon DEF Return, Abstract!Answer
      <3>6. Abstract!Delete BY <2>1, <3>4, <3>5, Zenon DEF Abstract!Delete, items
      <3> QED BY <1>1, <2>3, <3>6, Executes
    <2>4. CASE kept
      <3>1. items' = items BY <2>4, SameItems
      <3>2. items[k] = Absent \/ failed' BY <2>2, <2>4, Zenon DEF SystemCallFails
      <3>3. Abstract!Answer("not_found", Absent) BY <2>4, Zenon DEF Return, Abstract!Answer
      <3>4. Abstract!Delete BY <2>1, <3>1, <3>2, <3>3, Zenon DEF Abstract!Delete, items
      <3> QED BY <1>1, <2>4, <3>4, Executes
    <2> QED BY <2>1, <2>3, <2>4
  <1> QED BY <1>4, <1>5, <1>6

\* fs_set takes effect when the new file gets its final name, and not before.
LEMMA PutRefines ==
    ASSUME IInv, Put
    PROVE  Abstract!Next \/ UNCHANGED Abstract!vars
  <1>0. pc \in Setting
    BY DEF Put, fs_set_open, fs_set_mkdir, fs_set_write, fs_set_rename, fs_set_error, Setting
  <1> DEFINE r == request
             k == request.key
  <1>1. /\ r \in Requests /\ k \in Keys /\ Path \in Files /\ PathNew \in Files
        /\ NewContent = Content(r) /\ items[k] = storage_get(k) /\ r # None /\ response = None
    BY <1>0, SettingFacts, Running DEF Setting
  <1>2. disk \in [Files -> Seq(Block) \cup {NoFile}] BY DEF IInv, TypeOK
  <1>3. \A j \in Keys : <<j, "">> \in Files /\ <<j, "">> # PathNew
    BY <1>1, PathTypes, Zenon DEF PathNew
  <1>4. CASE fs_set_open \/ fs_set_mkdir \/ fs_set_write
    <2>1. \/ disk' = disk
          \/ \E c : disk' = [disk EXCEPT ![PathNew] = c]
      BY <1>4 DEF fs_set_open, fs_set_mkdir, fs_set_write
    <2>2. \A j \in Keys : disk'[<<j, "">>] = disk[<<j, "">>] BY <1>2, <1>3, <2>1, Zenon
    <2>3. items' = items BY <2>2, SameItems, Zenon
    <2>4. UNCHANGED <<request, response, failed>>
      BY <1>4 DEF fs_set_open, fs_set_mkdir, fs_set_write
    <2> QED BY <2>3, <2>4, Stutter
  <1>5. CASE fs_set_rename
    <2>1. disk' = [disk EXCEPT ![Path] = disk[PathNew], ![PathNew] = NoFile]
      BY <1>5 DEF fs_set_rename
    <2>2. disk[PathNew] = Content(r)
      <3>1. disk[PathNew] = SubSeq(NewContent, 1, Len(NewContent))
        BY <1>5 DEF fs_set_rename, IInv, Written
      <3> QED BY <1>1, <3>1, WholePart
    <2>3. disk'[<<k, "">>] = Content(r) BY <1>1, <1>2, <1>3, <2>1, <2>2, Zenon DEF Path
    <2>4. \A j \in Keys \ {k} : disk'[<<j, "">>] = disk[<<j, "">>]
      <3> SUFFICES ASSUME NEW j \in Keys, j # k PROVE disk'[<<j, "">>] = disk[<<j, "">>]
        BY Zenon
      <3>1. <<j, "">> \in Files /\ <<j, "">> # PathNew /\ <<j, "">> # Path
        BY <1>1, <1>3, PathTypes, Zenon DEF Path
      <3> QED BY <1>2, <2>1, <3>1, Zenon
    <2>5. items' = [items EXCEPT ![k] = [value |-> r.value, md |-> NewMetadata(r)]]
      <3>1. items' = [items EXCEPT ![k] = Decode(Content(r))]
        BY <1>1, <2>3, <2>4, OneItem, Zenon
      <3>2. Decode(Content(r)) = [value |-> r.value, md |-> NewMetadata(r)]
        BY <1>1, DecodeContent
      <3> QED BY <3>1, <3>2, Zenon
    <2>6. NewMetadata(r) \in Metadata /\ NewMetadata(r).flags = r.flags
      BY <1>1, MetadataType
    <2>7. r.op \in {"set", "add", "replace"} /\ (Refusal(r, storage_get(k)) = "ok" \/ Blind)
      BY <1>0 DEF IInv, Control
    <2>8. Abstract!MayStore \/ Abstract!Blind
      BY <1>0, <2>7, MayStoreIff DEF Setting, Blind, Abstract!Blind
    <2>9. request' = r /\ failed' = failed /\ response' = [status |-> "ok", item |-> Absent]
      BY <1>5 DEF fs_set_rename, storage_set_ret, Return
    <2>10. Abstract!Put
      BY <2>5, <2>6, <2>7, <2>8, <2>9, Zenon DEF Abstract!Put, Abstract!Answer, items
    <2> QED BY <1>0, <2>9, <2>10, Executes DEF Setting
  <1>6. CASE fs_set_error
    <2>1. Return("not_stored", Absent) /\ disk' = disk /\ request' = request /\ SystemCallFails
      BY <1>6 DEF fs_set_error, storage_set_ret
    <2>2. request.op \in {"set", "add", "replace"} BY <1>0 DEF IInv, Control
    <2> QED BY <1>0, <2>1, <2>2, RefusalRefines DEF Setting
  <1> QED BY <1>4, <1>5, <1>6 DEF Put

\* cmd_set refuses as the store does, or goes on to fs_set.
LEMMA SetRefines ==
    ASSUME IInv, cmd_set
    PROVE  Abstract!Next \/ UNCHANGED Abstract!vars
  <1>1. /\ pc = "command" /\ request.op \in {"set", "add", "replace"}
        /\ disk' = disk /\ request' = request
    BY DEF cmd_set
  <1>2. PICK item \in {storage_get(request.key), Absent} :
           /\ Finds(item)
           /\ IF Refusal(request, item) = "ok"
              THEN pc' = "open" /\ behind' = "metadata" /\ UNCHANGED response
              ELSE Return(Refusal(request, item), Absent) /\ UNCHANGED behind
    BY Zenon DEF cmd_set
  <1>3. \/ item = storage_get(request.key) /\ failed' = failed
        \/ SystemCallFails
    BY <1>2 DEF Finds
  <1> DEFINE refusal == Refusal(request, item)
  <1>4. CASE refusal = "ok"
    <2>1. response' = response BY <1>2, <1>4
    <2>2. items' = items BY <1>1, SameItems
    <2>3. CASE failed' = failed BY <1>1, <2>1, <2>2, <2>3, Stutter
    <2>4. CASE SystemCallFails
      <3>1. request # None /\ response = None BY <1>1, Running
      <3> QED BY <1>1, <2>1, <2>2, <2>4, <3>1 DEF SystemCallFails, Abstract!Fail, Abstract!Next, items
    <2> QED BY <1>3, <2>3, <2>4
  <1>5. CASE refusal # "ok"
    <2>1. Return(refusal, Absent) BY <1>2, <1>5
    <2>2. refusal \in {"not_found", "exists", "not_stored"} BY <1>5, RefusalType
    <2>3. \/ UNCHANGED failed /\ Refusal(request, storage_get(request.key)) # "ok"
          \/ SystemCallFails
      BY <1>3, <1>5
    <2> HIDE DEF refusal
    <2> QED BY <1>1, <2>1, <2>2, <2>3, RefusalRefines
  <1> QED BY <1>4, <1>5

\* The files behave as the store: GET, SET, ADD, REPLACE and DELETE take
\* effect at one point and as a whole (sys_commands.c, storage.c, sto_fs.c),
\* wherever the server dies and whatever system call of a command fails.
THEOREM Refinement == Spec => ImplementsStore
  <1>1. Init => Abstract!Init
    <2> SUFFICES ASSUME Init PROVE Abstract!Init OBVIOUS
    <2>1. \A k \in Keys : storage_get(k) = Absent
      BY PathTypes, Zenon DEF Init, storage_get, Decode
    <2> QED BY <2>1, Zenon DEF Init, Abstract!Init
  <1>2. IInv /\ [Next]_vars => [Abstract!Next]_(Abstract!vars)
    <2> SUFFICES ASSUME IInv, [Next]_vars
                 PROVE  Abstract!Next \/ UNCHANGED Abstract!vars
      OBVIOUS
    <2>1. CASE Call \/ Reply \/ Crash BY <2>1, SessionRefines
    <2>2. CASE InvalidArguments \/ SendBufferFull \/ cmd_get \/ cmd_delete
      BY <2>2, ImmediateRefines
    <2>3. CASE cmd_set BY <2>3, SetRefines
    <2>4. CASE Put BY <2>4, PutRefines
    <2>5. CASE UNCHANGED server \/ UNCHANGED vars
      <3>1. UNCHANGED <<disk, request, response, failed>> BY <2>5 DEF server, vars
      <3>2. items' = items BY <3>1, SameItems
      <3> QED BY <3>1, <3>2, Stutter
    <2>6. CASE List BY <2>5, <2>6, ListStep
    <2> QED BY <2>1, <2>2, <2>3, <2>4, <2>5, <2>6 DEF Next, Command
  <1> QED BY <1>1, <1>2, Invariance, PTL DEF Spec, ImplementsStore, Abstract!Spec

-----------------------------------------------------------------------------
(* Listing the keys.                                                       *)

File(k) == <<k, "">>

\* The cursor has not reached the file of k.
Ahead(k) == cursor = None \/ Before(cursor, File(k))

\* What the client has got, and what it still will get: the inductive
\* invariant of the listing.
Covered ==
    /\ ~listing => (cursor = None /\ seen = {} /\ present = {} /\ skipped = {} /\ ~phantoms)
    /\ \A k \in present : disk[File(k)] # NoFile
    /\ ~phantoms => /\ cursor # None => cursor[2] = ""
                    /\ \A k \in present : \/ File(k) \in seen \/ Dir[File(k)] \in skipped
                                          \/ Ahead(k)

LInv == IInv /\ Covered

-----------------------------------------------------------------------------
(* The order of the walk.                                                  *)

\* Where a file stands.
LEMMA PlaceTypes ==
    ASSUME NEW f \in Files
    PROVE  /\ Container(f) \in Nat /\ Rank[f] \in Nat
           /\ f[2] = "" => (Container(f) = Dir[f] /\ f = File(f[1]) /\ f[1] \in Keys)
  <1>1. f[1] \in Keys /\ f = <<f[1], f[2]>> BY DEF Files
  <1>2. <<f[1], "">> \in Files BY <1>1, PathTypes, Zenon
  <1> QED BY <1>1, <1>2, PlacesAssumption, Zenon DEF Container, File

\* The walk passes any two files in one order or the other.
LEMMA Total ==
    ASSUME NEW f \in Files, NEW g \in Files, f # g
    PROVE  Before(f, g) \/ Before(g, f)
  <1>1. /\ Container(f) \in Nat /\ Container(g) \in Nat /\ Rank[f] \in Nat /\ Rank[g] \in Nat
        /\ Rank[f] # Rank[g]
    BY PlaceTypes, PlacesAssumption, Zenon
  <1> QED BY <1>1 DEF Before

\* The order is transitive.
LEMMA Transitive ==
    ASSUME NEW f \in Files, NEW g \in Files, NEW h \in Files, Before(f, g), Before(g, h)
    PROVE  Before(f, h)
  <1>1. /\ Container(f) \in Nat /\ Container(g) \in Nat /\ Container(h) \in Nat
        /\ Rank[f] \in Nat /\ Rank[g] \in Nat /\ Rank[h] \in Nat
    BY PlaceTypes, Zenon
  <1> QED BY <1>1 DEF Before

\* The files are finitely many.
LEMMA FinitelyMany == IsFiniteSet(Files)
  <1>1. IsFiniteSet({""}) /\ IsFiniteSet({".new"}) BY FS_Singleton, Zenon
  <1>2. Kinds = {""} \cup {".new"} BY DEF Kinds
  <1>3. IsFiniteSet(Kinds) BY <1>1, <1>2, FS_Union, Zenon
  <1> QED BY <1>3, FS_Product, PlacesAssumption DEF Files

\* A page ends before every file that it leaves out.
LEMMA PageEnds ==
    ASSUME NEW c, NEW p \in Page(c), NEW f \in After(c) \ Page(c)
    PROVE  Before(p, f)
  <1> DEFINE A == After(c)
             Earlier(x) == {g \in A : Before(g, x)}
  <1>1. A \subseteq Files BY DEF After, Existing
  <1>2. p \in A /\ f \in A /\ p # f BY DEF Page
  <1>3. Cardinality(Earlier(p)) < PageSize /\ ~(Cardinality(Earlier(f)) < PageSize)
    BY DEF Page
  <1> HIDE DEF A
  <1>4. IsFiniteSet(Earlier(p)) /\ IsFiniteSet(Earlier(f)) BY <1>1, FinitelyMany, FS_Subset
  <1>5. CASE Before(f, p)
    <2>1. Earlier(f) \subseteq Earlier(p) BY <1>1, <1>2, <1>5, Transitive
    <2>2. Cardinality(Earlier(f)) <= Cardinality(Earlier(p)) BY <1>4, <2>1, FS_Subset
    <2>3. Cardinality(Earlier(f)) \in Nat /\ Cardinality(Earlier(p)) \in Nat
      BY <1>4, FS_CardinalityType
    <2> HIDE DEF Earlier
    <2> QED BY <1>3, <2>2, <2>3, PlacesAssumption
  <1> QED BY <1>1, <1>2, <1>5, Total

\* A key ahead of the cursor is in the rest of the walk, unless the cursor is
\* gone and the rest of its directory is skipped.
LEMMA AheadIsAfter ==
    ASSUME LInv, ~phantoms, NEW k \in present, Ahead(k), Dir[File(k)] \notin Skips(cursor)
    PROVE  File(k) \in After(cursor)
  <1>1. k \in Keys /\ File(k) \in Files BY PathTypes, Zenon DEF LInv, IInv, TypeOK, File
  <1>2. File(k) \in Existing BY <1>1, Zenon DEF LInv, Covered, Existing
  <1>3. CASE cursor = None BY <1>2, <1>3 DEF After
  <1>4. CASE cursor # None
    <2>1. cursor \in Files /\ cursor[2] = "" BY <1>4, Zenon DEF LInv, Covered, IInv, TypeOK
    <2>2. Before(cursor, File(k)) BY <1>4 DEF Ahead
    <2>3. /\ Container(cursor) = Dir[cursor] /\ Dir[cursor] \in Nat /\ Rank[cursor] \in Nat
          /\ Container(File(k)) = Dir[File(k)] /\ Dir[File(k)] \in Nat /\ Rank[File(k)] \in Nat
      BY <1>1, <2>1, PlaceTypes, Zenon DEF File
    <2>4. CASE Dir[File(k)] = Dir[cursor]
      <3>1. Found(cursor) BY <1>4, <2>4 DEF Skips
      <3>2. Rank[File(k)] > Rank[cursor] BY <2>2, <2>3, <2>4 DEF Before
      <3> QED BY <1>2, <1>4, <2>3, <2>4, <3>1, <3>2 DEF After
    <2>5. CASE Dir[File(k)] # Dir[cursor]
      <3>1. Container(File(k)) > Dir[cursor] BY <2>2, <2>3, <2>5 DEF Before
      <3> QED BY <1>2, <1>4, <3>1 DEF After
    <2> QED BY <2>4, <2>5
  <1> QED BY <1>3, <1>4

-----------------------------------------------------------------------------
(* The invariant.                                                          *)

\* It is there at the start.
LEMMA CoveredInit == Init => Covered
  BY DEF Init, Covered

\* A step that deletes no key, and is none of the listing, keeps it.
LEMMA CoveredSame ==
    ASSUME LInv, UNCHANGED <<listing, cursor, seen, skipped, phantoms>>, present' \subseteq present,
           ~listing => present' = present,
           \A k \in present' : disk[File(k)] # NoFile => disk'[File(k)] # NoFile
    PROVE  Covered'
  <1>1. ~listing' => (cursor' = None /\ seen' = {} /\ present' = {} /\ skipped' = {} /\ ~phantoms')
    BY SMTT(20) DEF LInv, Covered
  <1>2. \A k \in present' : disk'[File(k)] # NoFile BY Zenon DEF LInv, Covered
  <1>3. \A k \in present' : Ahead(k)' = Ahead(k) BY SMTT(20) DEF Ahead, Before, Container
  <1>4. ~phantoms' => /\ cursor' # None => cursor'[2] = ""
                      /\ \A k \in present' : \/ File(k) \in seen' \/ Dir[File(k)] \in skipped'
                                             \/ Ahead(k)'
    BY <1>3, Zenon DEF LInv, Covered
  <1> QED BY <1>1, <1>2, <1>4, Zenon DEF Covered

\* DELETE takes its key out; fs_set only makes files.
LEMMA ServerCovered ==
    ASSUME LInv, Call \/ Command
    PROVE  Covered'
  <1>0. disk \in [Files -> Seq(Block) \cup {NoFile}] /\ present \subseteq Keys
    BY DEF LInv, IInv, TypeOK
  <1>1. CASE cmd_delete
    <2>0. UNCHANGED <<listing, cursor, seen, skipped, phantoms>> BY <1>1 DEF cmd_delete
    <2>1. \/ disk' = [disk EXCEPT ![File(request.key)] = NoFile] /\ present' = present \ {request.key}
          \/ disk' = disk /\ present' = present
      BY <1>1, Zenon DEF cmd_delete, File
    <2>2. \A k \in present' : disk'[File(k)] = disk[File(k)]
      <3> SUFFICES ASSUME NEW k \in present', disk' # disk PROVE disk'[File(k)] = disk[File(k)]
        OBVIOUS
      <3>1. k \in Keys /\ k # request.key BY <1>0, <2>1
      <3>2. File(k) \in Files /\ File(k) # File(request.key) BY <3>1, PathTypes, Zenon DEF File
      <3> QED BY <1>0, <2>1, <3>2, Zenon
    <2>3. ~listing => present' = present BY <2>1 DEF LInv, Covered
    <2>4. present' \subseteq present BY <2>1
    <2> QED BY <2>0, <2>2, <2>3, <2>4, CoveredSame
  <1>2. CASE Put
    <2>1. pc \in Setting /\ UNCHANGED lister
      BY <1>2 DEF Put, fs_set_open, fs_set_mkdir, fs_set_write, fs_set_rename, fs_set_error, Setting
    <2>2. /\ Path \in Files /\ PathNew \in Files /\ request \in Requests
          /\ NewContent = Content(request)
      BY <2>1, SettingFacts DEF LInv
    <2>3. \A k \in Keys : File(k) \in Files /\ File(k) # PathNew
      BY <2>1, SettingFacts, PathTypes, Zenon DEF LInv, PathNew, File
    <2>4. CASE fs_set_rename
      <3>1. disk' = [disk EXCEPT ![Path] = disk[PathNew], ![PathNew] = NoFile]
        BY <2>4 DEF fs_set_rename
      <3>2. disk[PathNew] # NoFile
        <4>1. disk[PathNew] = SubSeq(NewContent, 1, Len(NewContent))
          BY <2>4 DEF fs_set_rename, LInv, IInv, Written
        <4>2. disk[PathNew] \in Seq(Block) BY <2>2, <4>1, WholePart, ContentType
        <4> QED BY <4>2, ConstantsAssumption
      <3>3. \A k \in present : disk[File(k)] # NoFile => disk'[File(k)] # NoFile
        BY <1>0, <2>2, <2>3, <3>1, <3>2, Zenon
      <3> QED BY <2>1, <3>3, CoveredSame DEF lister
    <2>5. CASE fs_set_open \/ fs_set_mkdir \/ fs_set_write \/ fs_set_error
      <3>1. disk' = disk \/ \E c : disk' = [disk EXCEPT ![PathNew] = c]
        BY <2>5 DEF fs_set_open, fs_set_mkdir, fs_set_write, fs_set_error
      <3>2. \A k \in present : disk'[File(k)] = disk[File(k)] BY <1>0, <2>3, <3>1, Zenon
      <3> QED BY <2>1, <3>2, CoveredSame DEF lister
    <2> QED BY <1>2, <2>4, <2>5 DEF Put
  <1>3. CASE Call \/ Reply \/ InvalidArguments \/ SendBufferFull \/ cmd_get \/ cmd_set
    <2>1. disk' = disk /\ UNCHANGED lister
      BY ONLY <1>3 DEF Call, Reply, InvalidArguments, SendBufferFull, cmd_get, cmd_set
    <2> QED BY <2>1, CoveredSame DEF lister
  <1> QED BY <1>1, <1>2, <1>3 DEF Command

\* A page moves the cursor behind what it returns, and no further.
LEMMA PageCovered ==
    ASSUME LInv, ListPage
    PROVE  Covered'
  <1>1. PICK p \in Page(cursor) : cursor' = p BY DEF ListPage
  <1>2. /\ listing' = listing /\ listing /\ present' = present /\ disk' = disk
        /\ seen' = seen \cup Page(cursor) /\ skipped' = skipped \cup Skips(cursor)
        /\ phantoms' = (phantoms \/ LeftBehind # {})
    BY DEF ListPage, server
  <1>3. p \in Existing /\ p \in Files BY DEF Page, After, Existing
  <1>4. ASSUME ~phantoms'
        PROVE  /\ cursor' # None => cursor'[2] = ""
               /\ \A k \in present : \/ File(k) \in seen' \/ Dir[File(k)] \in skipped'
                                      \/ Ahead(k)'
    <2>1. ~phantoms /\ LeftBehind = {} BY <1>2, <1>4, Zenon
    <2>2. p[2] = ""
      <3>1. p[2] # ".new" BY <1>3, <2>1 DEF LeftBehind
      <3> QED BY <1>3, <3>1, Zenon DEF Files, Kinds
    <2>3. ASSUME NEW k \in present, File(k) \notin seen', Dir[File(k)] \notin skipped'
          PROVE  Ahead(k)'
      <3>1. /\ File(k) \notin seen /\ File(k) \notin Page(cursor)
            /\ Dir[File(k)] \notin skipped /\ Dir[File(k)] \notin Skips(cursor)
        BY <1>2, <2>3
      <3>2. Ahead(k) BY <2>1, <3>1, Zenon DEF LInv, Covered
      <3>3. File(k) \in After(cursor) BY <2>1, <3>1, <3>2, AheadIsAfter
      <3>4. Before(p, File(k)) BY <3>1, <3>3, PageEnds, SMTT(20)
      <3> QED BY <1>1, <3>4, Zenon DEF Ahead, Before, Container
    <2> QED BY <1>1, <2>2, <2>3, Zenon
  <1>5. \A k \in present' : disk'[File(k)] # NoFile BY <1>2, Zenon DEF LInv, Covered
  <1> QED BY <1>2, <1>4, <1>5, Zenon DEF Covered

\* Every step keeps it.
LEMMA CoveredStep == LInv /\ [Next]_vars => Covered'
  <1> SUFFICES ASSUME LInv, [Next]_vars PROVE Covered' OBVIOUS
  <1>1. CASE Call \/ Command BY <1>1, ServerCovered, SMTT(20)
  <1>2. CASE Crash \/ ListEnd BY <1>2, Zenon DEF Crash, ListEnd, Covered
  <1>3. CASE ListStart
    <2>1. /\ disk' = disk /\ listing' /\ cursor' = None /\ ~phantoms'
          /\ present' = {k \in Keys : <<k, "">> \in Existing}
      BY <1>3, Zenon DEF ListStart, server, LInv, Covered
    <2>2. \A k \in present' : disk'[File(k)] # NoFile BY <2>1, Zenon DEF Existing, File
    <2>3. \A k \in present' : Ahead(k)' BY <2>1, Zenon DEF Ahead
    <2> QED BY <2>1, <2>2, <2>3, Zenon DEF Covered
  <1>4. CASE ListPage BY <1>4, PageCovered
  <1>5. CASE UNCHANGED vars
    <2>1. disk' = disk /\ UNCHANGED lister BY <1>5 DEF vars, server
    <2> QED BY <2>1, CoveredSame DEF lister
  <1> QED BY <1>1, <1>2, <1>3, <1>4, <1>5 DEF Next, List

\* The loop of get_keys ends with every key that was there from its start on
\* (client/smalltable/simpleclient.py, fs_get_keys), but for the two cases
\* that ListingComplete names: a deleted cursor and a file left behind.
THEOREM CompleteListing == Spec => ListingComplete
  <1>1. Init => LInv BY InvInit, CoveredInit DEF LInv
  <1>2. LInv /\ [Next]_vars => LInv' BY InvStep, CoveredStep DEF LInv
  <1>3. LInv /\ [Next]_vars =>
          [ListEnd => \/ phantoms \/ LeftBehind # {}
                      \/ \A k \in present : \/ <<k, "">> \in seen
                                             \/ Dir[<<k, "">>] \in skipped \cup Skips(cursor)]_vars
    <2> SUFFICES ASSUME LInv, ListEnd, ~phantoms, NEW k \in present,
                        File(k) \notin seen, Dir[File(k)] \notin skipped \cup Skips(cursor)
                 PROVE  FALSE
      BY Zenon DEF File
    <2>1. Ahead(k) BY Zenon DEF LInv, Covered
    <2>2. File(k) \in After(cursor) BY <2>1, AheadIsAfter
    <2> QED BY <2>2 DEF ListEnd
  <1> QED BY <1>1, <1>2, <1>3, PTL DEF Spec, ListingComplete
=============================================================================
