------------------------------ MODULE MCRingBuf ------------------------------
(* Instance of RingBuf for TLC: two writers and a reader on three entries. *)
EXTENDS RingBuf
=============================================================================
