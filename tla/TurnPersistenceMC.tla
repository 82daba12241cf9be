------------------------- MODULE TurnPersistenceMC -------------------------
(* Instances of TurnPersistence for TLC. *)
EXTENDS TurnPersistence, TLC
============================================================================
