---------------------------- MODULE TriggerQueue ----------------------------
(***************************************************************************)
(* What local triggers promise: an at-least-once queue.  A delivery that   *)
(* was accepted stays queued, and is handed to the agent at most           *)
(* MaxAttempts times, until it is settled with a recorded outcome, given   *)
(* up, or withdrawn together with its trigger.                             *)
(***************************************************************************)
EXTENDS Naturals

CONSTANTS
  Delivery,    \* deliveries
  MaxAttempts  \* _MAX_DELIVERY_ATTEMPTS

VARIABLES
  status,   \* "unsent", "queued", "settled", "failed" or "withdrawn"
  outcome,  \* what the run record of a settled delivery says
  turns     \* how often a delivery was submitted to the agent

vars == <<status, outcome, turns>>

Init ==
  /\ status = [d \in Delivery |-> "unsent"]
  /\ outcome = [d \in Delivery |-> "none"]
  /\ turns = [d \in Delivery |-> 0]

Enqueue(d) ==
  /\ status[d] = "unsent"
  /\ status' = [status EXCEPT ![d] = "queued"]
  /\ UNCHANGED <<outcome, turns>>

Attempt(d) ==
  /\ status[d] = "queued" /\ turns[d] < MaxAttempts
  /\ turns' = [turns EXCEPT ![d] = @ + 1]
  /\ UNCHANGED <<status, outcome>>

Settle(d) ==
  /\ status[d] = "queued"
  /\ status' = [status EXCEPT ![d] = "settled"]
  /\ \E o \in {"ok", "error"} : outcome' = [outcome EXCEPT ![d] = o]
  /\ UNCHANGED turns

GiveUp(d) ==
  /\ status[d] = "queued"
  /\ status' = [status EXCEPT ![d] = "failed"]
  /\ UNCHANGED <<outcome, turns>>

\* Deleting a trigger withdraws all its deliveries, past and future.
Withdraw(D) ==
  /\ status' = [d \in Delivery |-> IF d \in D THEN "withdrawn" ELSE status[d]]
  /\ outcome' = [d \in Delivery |-> IF d \in D THEN "none" ELSE outcome[d]]
  /\ UNCHANGED turns

Next ==
  \/ \E d \in Delivery : Enqueue(d) \/ Attempt(d) \/ Settle(d) \/ GiveUp(d)
  \/ \E D \in SUBSET Delivery : Withdraw(D)

Spec == Init /\ [][Next]_vars
=============================================================================
