--------------------------- MODULE CronServiceMC ---------------------------
(* Instances of CronService for TLC. *)
EXTENDS CronService, TLC

CONSTANTS often, once, late, sys

MCTime == [j \in Job |-> IF j \in {often, late} THEN 2 ELSE 1]
============================================================================
