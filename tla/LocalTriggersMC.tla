-------------------------- MODULE LocalTriggersMC --------------------------
(* Instances of LocalTriggers for TLC. *)
EXTENDS LocalTriggers, TLC

CONSTANTS t1, t2

MCOf == [d \in Delivery |-> IF d = 2 THEN t2 ELSE t1]
============================================================================
