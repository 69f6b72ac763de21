----------------------------- MODULE ProxyConfig -----------------------------
(***************************************************************************)
(* The configuration of smalltable-proxy: the trees of servers and proxies *)
(* (src/src/st_server.c, st_proxy.c), SET_CONFIG (proxy_sys_command.c) and *)
(* the file that survives the process (proxy_config.c).                    *)
(*                                                                         *)
(* A text is a sequence of lines that are not empty, with or without a     *)
(* newline after the last.  A key is a sequence of bytes.  A tree is Nil   *)
(* or <<left, key, right>>.                                                *)
(***************************************************************************)
EXTENDS Integers, Sequences, FiniteSets, SequencesExt, FiniteSetsExt

CONSTANTS
    MAX_CONFIG_LINES,
    Texts,          \* what SET_CONFIG is called with
    RequestKeys,    \* keys of requests
    MaxLoads,       \* bound: SET_CONFIGs that are loaded
    MaxFaults       \* bound: crashes, and failures to save

VARIABLES
    process,        \* "running" or "down"
    tree,           \* config->servers
    config,         \* the hosts in config->servers and config->proxies
    stopped,        \* conn->server->stopped
    command,        \* where in save_config: "none", "open", "write" or "rename"
    file, file_new, \* config_path and config_path_new
    cut,            \* which of them, "file" or "file_new", a failed write has left incomplete
    valid,          \* configurations that a restart may find
    fatal,          \* the lines that SET_CONFIG failed to load after all
    loads, faults

disk == <<file, file_new, cut>>
bounds == <<loads, faults>>
configuration == <<process, tree, config, stopped, command, disk, valid, fatal, bounds>>

-----------------------------------------------------------------------------
(* Trees.                                                                  *)

key_cmp(a, b) ==
    LET differ == {i \in 1 .. Min({Len(a), Len(b)}) : a[i] # b[i]}
    IN  IF differ = {} THEN Len(a) - Len(b) ELSE a[Min(differ)] - b[Min(differ)]

Nil == <<>>

RECURSIVE KeysOf(_)
KeysOf(t) == IF t = Nil THEN {} ELSE KeysOf(t[1]) \cup {t[2]} \cup KeysOf(t[3])

\* The trees of these keys in every shape; rb_insert_color and rb_erase make
\* some of them.
RECURSIVE Shapes(_)
Shapes(keys) ==
    IF keys = {} THEN {Nil}
    ELSE UNION {{<<l, k, r>> : l \in Shapes({x \in keys : key_cmp(x, k) < 0}),
                               r \in Shapes({x \in keys : key_cmp(x, k) > 0})} : k \in keys}

\* A key that is there already leaves the tree as it is.
RECURSIVE st_server_insert(_, _)
st_server_insert(t, k) ==
    IF t = Nil THEN <<Nil, k, Nil>>
    ELSE LET result == key_cmp(k, t[2])
         IN  <<IF result < 0 THEN st_server_insert(t[1], k) ELSE t[1],
               t[2],
               IF result > 0 THEN st_server_insert(t[3], k) ELSE t[3]>>

\* The next greater key, as a set of at most one.
rb_next(root, k) ==
    LET greater == {x \in KeysOf(root) : key_cmp(x, k) > 0}
    IN  {x \in greater : \A y \in greater : key_cmp(x, y) <= 0}

\* Mutant: the key at which the next server begins is left to this one.
Covers_TooMuch(root, node, k) == \A right \in rb_next(root, node) : key_cmp(k, right) <= 0

Covers(root, node, k) == \A right \in rb_next(root, node) : key_cmp(k, right) < 0

\* The server, as a set of at most one, from a node on downwards.
RECURSIVE Find(_, _, _)
Find(root, t, k) ==
    CASE t = Nil                   -> {}
      [] key_cmp(k, t[2]) < 0      -> Find(root, t[1], k)
      [] Covers(root, t[2], k)     -> {t[2]}
      [] OTHER                     -> Find(root, t[3], k)

find_st_server(k) == Find(tree, tree, k)

-----------------------------------------------------------------------------
(* Texts.                                                                  *)

Comment == <<"comment">>
Bad == <<"bad">>        \* refused by get_host_port, atoi or decode_hex, or unknown

NoText == [lines |-> <<>>, newline |-> FALSE]

\* split_line gives up looking for the end of the last line that it has room
\* for: a newline, or more lines, become part of its last argument.
Glued(line, more) == IF line = Comment \/ (line[1] = "proxy" /\ ~more) THEN line ELSE Bad

split_line(text) ==
    LET n == Len(text.lines)
        last == text.lines[MAX_CONFIG_LINES]
    IN  IF n < MAX_CONFIG_LINES \/ (n = MAX_CONFIG_LINES /\ ~text.newline) THEN text.lines
        ELSE Append(SubSeq(text.lines, 1, MAX_CONFIG_LINES - 1), Glued(last, n > MAX_CONFIG_LINES))

Of(lines, kind) == SelectSeq(lines, LAMBDA l : l[1] = kind)

\* The real load, and the trial.  A line is <<"proxy", host>> or <<"server", host, key>>.
Duplicates(lines) ==
    LET ks == [i \in DOMAIN Of(lines, "server") |-> Of(lines, "server")[i][3]]
        Before(i) == FoldLeft(st_server_insert, Nil, SubSeq(ks, 1, i - 1))
    IN  \/ \E i \in DOMAIN ks : st_server_insert(Before(i), ks[i]) = Before(i)
        \/ ~IsInjective(Of(lines, "proxy"))

\* Mutant: the trial load skips the lines.
load_config_from_string_Fails_Lenient(lines, testing) ==
    \/ Of(lines, "proxy") = <<>> \/ Of(lines, "server") = <<>>
    \/ ~testing /\ (Of(lines, "bad") # <<>> \/ Duplicates(lines))

load_config_from_string_Fails(lines, testing) ==
    \/ Of(lines, "bad") # <<>>
    \/ Of(lines, "proxy") = <<>> \/ Of(lines, "server") = <<>>
    \/ ~testing /\ Duplicates(lines)

Loaded(lines) == ToSet(Of(lines, "proxy")) \cup ToSet(Of(lines, "server"))

Keys(c) == {l[3] : l \in {x \in c : x[1] = "server"}}

\* Two comments, the proxies, and the servers in the order of their keys.
config_to_string(c) ==
    [lines |-> <<Comment, Comment>> \o SetToSeq({x \in c : x[1] = "proxy"})
                 \o SetToSortSeq({x \in c : x[1] = "server"}, LAMBDA a, b : key_cmp(a[3], b[3]) < 0),
     newline |-> TRUE]

\* What load_config makes of the beginning of a line: a server without its key,
\* or with a part of it, a proxy with a part of its port, or an error.
Beginnings(line) ==
    CASE line[1] = "server" -> {Bad} \cup {<<"server", line[2], SubSeq(line[3], 1, n)>> :
                                            n \in 0 .. Len(line[3]) - 1}
      [] line[1] = "proxy"  -> {Bad, <<"proxy", "cut">>}
      [] OTHER              -> {line}

\* What is left of a text of which only a part was written: some lines, and
\* perhaps the beginning of one more.
CutTexts(text) ==
    LET lines(n) == SubSeq(text.lines, 1, n)
        Cut(n) == {lines(n)} \cup {Append(lines(n), l) : l \in Beginnings(text.lines[n + 1])}
    IN  {[lines |-> l, newline |-> FALSE] : l \in UNION {Cut(n) : n \in 0 .. Len(text.lines) - 1}}

-----------------------------------------------------------------------------
(* The process.                                                            *)

ConfigInit ==
    /\ process = "down" /\ tree = Nil /\ config = {} /\ stopped = FALSE /\ command = "none"
    /\ file \in {t \in Texts : ~load_config_from_string_Fails(split_line(t), FALSE)}
    /\ file_new = NoText /\ cut = {}
    /\ valid = {Loaded(split_line(file))} /\ fatal = <<>>
    /\ loads = 0 /\ faults = 0

\* Mutant: the old servers stay.
Install_NoFlush(lines) ==
    config' = Loaded(lines) /\ tree' \in Shapes(KeysOf(tree) \cup Keys(Loaded(lines)))

\* flush_config and the real load into empty trees.
Install(lines) == config' = Loaded(lines) /\ tree' \in Shapes(Keys(Loaded(lines)))

Down == process' = "down" /\ tree' = Nil /\ config' = {} /\ stopped' = FALSE /\ command' = "none"

\* The start of the process: load_config.  If it fails, so does every later start.
load_config ==
    /\ process = "down" /\ ~load_config_from_string_Fails(split_line(file), FALSE)
    /\ process' = "running" /\ Install(split_line(file)) /\ valid' = {Loaded(split_line(file))}
    /\ UNCHANGED <<stopped, command, disk, fatal, bounds>>

Ready == process = "running" /\ command = "none"

\* A second STOP is answered too; the owner's connection may close (conn_close).
cmd_stop ==
    /\ Ready /\ stopped' = TRUE
    /\ UNCHANGED <<process, tree, config, command, disk, valid, fatal, bounds>>

cmd_start ==
    /\ Ready /\ stopped /\ stopped' = FALSE
    /\ UNCHANGED <<process, tree, config, command, disk, valid, fatal, bounds>>

\* Refused: the trial load fails, or the proxy is not stopped.
Refuse(lines) == ~stopped \/ load_config_from_string_Fails(lines, TRUE)

\* What only the real load sees is fatal.
cmd_set_config(text) ==
    LET lines == split_line(text)
    IN  /\ Ready /\ ~Refuse(lines) /\ loads < MaxLoads /\ loads' = loads + 1
        /\ IF load_config_from_string_Fails(lines, FALSE)
           THEN Down /\ fatal' = lines /\ UNCHANGED valid
           ELSE /\ Install(lines) /\ command' = "open" /\ valid' = valid \cup {Loaded(lines)}
                /\ UNCHANGED <<process, stopped, fatal>>
        /\ UNCHANGED <<disk, faults>>

-----------------------------------------------------------------------------
(* save_config, and how it fails; the answer is OK in either case.         *)

\* Mutant: the file itself is opened for writing.
fopen_new_InPlace ==
    /\ command = "open" /\ command' = "write" /\ file' = NoText
    /\ UNCHANGED <<file_new, cut, valid, faults>>

fopen_new ==
    /\ command = "open" /\ command' = "write" /\ file_new' = NoText /\ cut' = cut \ {"file_new"}
    /\ UNCHANGED <<file, valid, faults>>

\* fputs and fclose.  Nothing looks at their results: on a full disk a part of
\* the text is written and rename follows all the same.
fputs_new ==
    /\ command = "write" /\ command' = "rename"
    /\ \/ file_new' = config_to_string(config) /\ UNCHANGED <<cut, faults>>
       \/ /\ file_new' \in CutTexts(config_to_string(config)) /\ cut' = cut \cup {"file_new"}
          /\ faults < MaxFaults /\ faults' = faults + 1
    /\ UNCHANGED <<file, valid>>

rename_new ==
    /\ command = "rename" /\ command' = "none" /\ file' = file_new /\ file_new' = NoText
    /\ cut' = IF "file_new" \in cut THEN {"file"} ELSE {}
    /\ valid' = {config} /\ UNCHANGED faults

Save ==
    /\ fopen_new \/ fputs_new \/ rename_new
    /\ UNCHANGED <<process, tree, config, stopped, fatal, loads>>

\* fopen or rename fails, or the text is larger than MAX_CONFIG_SIZE.
SaveFails ==
    /\ command # "none" /\ command' = "none" /\ faults < MaxFaults /\ faults' = faults + 1
    /\ UNCHANGED <<process, tree, config, stopped, disk, valid, fatal, loads>>

\* The process dies, at any point.
Crash ==
    /\ process = "running" /\ faults < MaxFaults /\ faults' = faults + 1 /\ Down
    /\ UNCHANGED <<disk, valid, fatal, loads>>

\* process_multi: assert( NULL != srv ).
Abort ==
    /\ Ready /\ \E k \in RequestKeys : find_st_server(k) = {}
    /\ faults < MaxFaults /\ faults' = faults + 1 /\ Down
    /\ UNCHANGED <<disk, valid, fatal, loads>>

-----------------------------------------------------------------------------
(* Properties.                                                             *)

ConfigTypeOK ==
    /\ process \in {"running", "down"} /\ stopped \in BOOLEAN
    /\ command \in {"none", "open", "write", "rename"}
    /\ tree \in Shapes(Keys(config))
    /\ process = "running" => config # {}
    /\ cut \subseteq {"file", "file_new"}
    /\ loads \in 0 .. MaxLoads /\ faults \in 0 .. MaxFaults

\* The order of the keys: a prefix comes first, else the first byte that differs.
AtMost(a, b) ==
    \/ IsPrefix(a, b)
    \/ \E i \in DOMAIN a \cap DOMAIN b : a[i] < b[i] /\ \A j \in 1 .. i - 1 : a[j] = b[j]

\* find_st_server, whatever shape the tree has: the owner of a key is the
\* server with the greatest key that is at most it, and there is none only if
\* all servers' keys are greater.
FindIsOwner ==
    \A k \in RequestKeys :
        LET below == {x \in Keys(config) : AtMost(x, k)}
        IN  find_st_server(k) = {x \in below : \A y \in below : AtMost(y, x)}

\* The process dies at any point of SET_CONFIG, fopen or rename fails, or a
\* write is cut short in a save that does not get as far as rename: load_config
\* finds the configuration before or the one after, complete, and after a
\* SET_CONFIG that has been saved only that.  Two cases are excepted in which
\* save_config has put in place what cannot be read back: a text that fputs or
\* fclose has not written to its end (cut), until the next one is saved, and one
\* of MAX_CONFIG_LINES lines or more, the two comments included.
RestartKeepsConfig ==
    /\ process = "running" => config \in valid
    /\ \/ "file" \in cut \/ Len(file.lines) >= MAX_CONFIG_LINES
       \/ /\ ~load_config_from_string_Fails(split_line(file), FALSE)
          /\ Loaded(split_line(file)) \in valid

\* The trial load sees all that the real one does, but for a host or a key that
\* is there twice: nothing else makes SET_CONFIG end the process.
FatalOnlyOnDuplicate ==
    fatal # <<>> =>
        \E i, j \in DOMAIN fatal : /\ i < j /\ fatal[i][1] = fatal[j][1]
                                   /\ fatal[i] = fatal[j] \/ (fatal[i][1] = "server" /\ fatal[i][3] = fatal[j][3])

=============================================================================
