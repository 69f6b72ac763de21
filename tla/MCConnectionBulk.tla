-------------------------- MODULE MCConnectionBulk --------------------------
(* One busy connection, with requests of the smallest and the largest size   *)
(* that the framing lets through.                                            *)
EXTENDS Connection, Framing, TLC

CONSTANT c1

ASSUME SameSizes == HEADER_SIZE = MEMCACHE_HEADER_SIZE /\ MAX_REQUEST_SIZE = LargestRequest

\* With a header of 3 bytes and a largest request of 7, a bulk may have 3
\* requests.
BulkRequests ==
    [kind : {"cmd"}, quiet : BOOLEAN, size : {HEADER_SIZE, MAX_REQUEST_SIZE}]
        \cup [kind : {"bad"}, quiet : {FALSE}, size : {HEADER_SIZE}]

OneBusyClient == c1 :> 4

\* Wherever conn_recv stands in the bytes it has received, and whatever lengths
\* the header there has, wrapped around or not: a request that
\* reqbuf_get_sane_request_sz accepts is there as a whole, consists of exactly
\* the header, extras, key and value that unpack_request takes out of it and is
\* within MAX_REQUEST_SIZE, as Connection assumes; data is waited for only while
\* it is missing; and no negative size but -1 reaches the default case.
RequestsAreFramed == \A c \in Conn : Framed[recv_used[c] - quiet_recv_off[c]]
=============================================================================
