-------------------------- MODULE BackgroundWorkMC --------------------------
(* Instances of BackgroundWork for TLC. *)
EXTENDS BackgroundWork

CONSTANTS turn, subA, s1
=============================================================================
