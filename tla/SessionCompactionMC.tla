------------------------- MODULE SessionCompactionMC -------------------------
(* Instances of SessionCompaction for TLC. *)
EXTENDS SessionCompaction, TLC
=============================================================================
