---------------------------- MODULE MCFsStorage ----------------------------
(* Three keys, two of them in one directory.                                *)
EXTENDS FsStorage, TLC

CONSTANTS k1, k2, k3, byte

\* k1 and k2 share a directory; the name k1.new would hash to the last one and
\* k3.new to the first one.
MCDir == [f \in Keys \X {"", ".new"} |->
            CASE f \in {<<k1, "">>, <<k2, "">>} -> 2
              [] f = <<k3, "">> -> 3
              [] f = <<k1, ".new">> -> 4
              [] OTHER -> 1]

MCUp(d) == 10 + (d % 2)

\* k1, k1.new, k2, k2.new, ...
MCRank == [f \in Keys \X {"", ".new"} |->
            (CASE f[1] = k1 -> 0 [] f[1] = k2 -> 2 [] f[1] = k3 -> 4)
              + (IF f[2] = "" THEN 0 ELSE 1)]

Req(ops, key, value, flags, cas) ==
    [op : ops, key : {key}, value : {value}, flags : {flags}, cas : {cas}]

\* Every command and both outcomes of every condition on k1, with two items
\* that differ in value and flags; k2 and k3 come and go around it.
MCRequests ==
    Req({"set", "get", "delete"}, k1, <<byte>>, 0, 0)
        \cup Req({"add", "replace"}, k1, <<>>, 1, 0)
        \cup Req({"set"}, k1, <<>>, 1, 1) \cup Req({"replace"}, k1, <<>>, 1, 2)
        \cup Req({"set", "delete"}, k2, <<>>, 0, 0)
        \cup Req({"set", "malformed"}, k3, <<>>, 0, 0)

=============================================================================
