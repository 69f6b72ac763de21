------------------------------- MODULE Framing -------------------------------
(***************************************************************************)
(* How conn_recv finds a request in the bytes it has received              *)
(* (src/src/framing.c): the lengths come from the client in fields of 8,   *)
(* 16 and 32 bits and are added and compared in C's integers.  Connection  *)
(* takes from here that a request which is not malformed ends where its    *)
(* lengths say and is no larger than MAX_REQUEST_SIZE.                     *)
(***************************************************************************)
EXTENDS Integers

CONSTANTS
    BYTE, SHORT, WORD,      \* 2^8, 2^16 and 2^32
    MEMCACHE_HEADER_SIZE, MAX_KEY_SIZE, MAX_VALUE_SIZE

\* MAX_REQUEST_SIZE, without the 32 bytes that it has to spare.
LargestRequest == MEMCACHE_HEADER_SIZE + BYTE + MAX_KEY_SIZE + MAX_VALUE_SIZE

ASSUME WidthAssumption ==
    /\ {BYTE, SHORT, WORD, MEMCACHE_HEADER_SIZE, MAX_KEY_SIZE, MAX_VALUE_SIZE} \subseteq Nat \ {0}
    /\ LargestRequest < WORD \div 2

\* struct memcache_header; of the magic only whether it is the right one.
memcache_header ==
    [magic : BOOLEAN, extras_length : 0 .. BYTE - 1, key_length : 0 .. SHORT - 1,
     body_length : 0 .. WORD - 1]

\* An unsigned sum in an int.
AsInt(n) == IF n % WORD < WORD \div 2 THEN n % WORD ELSE (n % WORD) - WORD

\* value_sz of unpack_request, and value_length.
ValueLength(h) == (h.body_length - h.extras_length - h.key_length) % WORD

\* Mutant: the length of the value is an int.
ValueTooBig_Signed(h) == AsInt(ValueLength(h)) > MAX_VALUE_SIZE

ValueTooBig(h) == ValueLength(h) > MAX_VALUE_SIZE

\* 0: more data is needed; -1: the request is broken.
reqbuf_get_sane_request_sz(h, buf_sz) ==
    LET request_sz == AsInt(h.body_length + MEMCACHE_HEADER_SIZE)
    IN  IF buf_sz < MEMCACHE_HEADER_SIZE \/ buf_sz < request_sz THEN 0
        ELSE IF \/ ~h.magic
                \/ h.body_length < h.extras_length + h.key_length
                \/ ValueTooBig(h)
                \/ h.key_length > MAX_KEY_SIZE THEN -1
        ELSE request_sz

-----------------------------------------------------------------------------
\* What conn_recv may rely on when it has buf_sz bytes, whatever lengths they
\* begin with.
Framed[buf_sz \in 0 .. WORD \div 2 - 1] ==
    \A h \in memcache_header :
        LET sz == reqbuf_get_sane_request_sz(h, buf_sz)
            parts == MEMCACHE_HEADER_SIZE + h.extras_length + h.key_length + ValueLength(h)
        IN  \/ sz = -1
            \/ sz = 0 /\ buf_sz < MEMCACHE_HEADER_SIZE + h.body_length
            \/ sz \in 1 .. buf_sz /\ sz = parts /\ sz <= LargestRequest

=============================================================================
