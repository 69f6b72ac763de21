----------------------------- MODULE MCBuffers -----------------------------
(* An instance of Buffers in which two buffers share three chunks.          *)
EXTENDS Buffers, TLC

\* The allocator and the bytes have no order; neither have the buffers.
BufferSymmetry == Permutations(Buffers) \cup Permutations(Chunks) \cup Permutations(Bytes)
=============================================================================
