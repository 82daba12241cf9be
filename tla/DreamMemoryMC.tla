--------------------------- MODULE DreamMemoryMC ---------------------------
(* Instances of DreamMemory for TLC. *)
EXTENDS DreamMemory, TLC

CONSTANTS cronDream, userDream

Dreamers == Permutations(Dreamer)
=============================================================================
