------------------------------ MODULE MCReshard ------------------------------
(* Two proxies and two keys that move, or stay, with any boundary.          *)
EXTENDS Reshard, TLC

CONSTANTS p1, p2
=============================================================================
