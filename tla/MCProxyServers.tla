--------------------------- MODULE MCProxyServers ---------------------------
(* An instance of ProxyServers. *)
EXTENDS ProxyServers

P1 == <<"proxy", "p1">>
A == <<"server", "a", <<>>>>
B == <<"server", "b", <<1>>>>
C == <<"server", "c", <<1, 0>>>>
C1 == <<"server", "c", <<1>>>>

\* One to three servers, three of which make the file that is saved one line
\* too long; no server for the smallest keys; keys that are there twice; a line
\* that is refused.
MCTexts ==
    {[lines |-> l, newline |-> TRUE] :
        l \in {<<P1, C, A>>, <<P1, B, A, C>>, <<P1, B>>, <<P1, A, B, C1>>, <<P1, A, Bad>>}}

MCRequestKeys == {<<>>, <<0>>, <<1>>, <<0, 1>>, <<1, 0>>, <<1, 1>>}
=============================================================================
