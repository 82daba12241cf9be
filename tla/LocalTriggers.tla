--------------------------- MODULE LocalTriggers ---------------------------
(***************************************************************************)
(* Local triggers: the trigger store, the delivery files in the inbox,     *)
(* processing and failed directories, "nanobot trigger" in other           *)
(* processes, and the gateway's worker, which may be killed between any    *)
(* two file operations and starts again with a recovery.                   *)
(*                                                                         *)
(* Every store operation holds the file lock.  Within the gateway the      *)
(* worker is interrupted only where it sleeps or awaits the agent's turn.  *)
(***************************************************************************)
EXTENDS Naturals, FiniteSets

CONSTANTS
  Trigger,      \* trigger ids
  Delivery,     \* deliveries, numbered in the order of their file names
  Of,           \* [Delivery -> Trigger]
  NoFile,       \* stands for "no such file"
  MaxAttempts,  \* _MAX_DELIVERY_ATTEMPTS (10)
  BatchSize,    \* batch_size (20)
  MaxFaults     \* bound of the number of crashes, cancellations and I/O errors

ASSUME TriggerAssumption ==
  /\ Delivery \subseteq Nat
  /\ Of \in [Delivery -> Trigger]
  /\ NoFile \notin Nat
  /\ {MaxAttempts, BatchSize} \subseteq Nat \ {0}
  /\ MaxFaults \in Nat

VARIABLES
  trigger,     \* triggers.json: "none", "on" (enabled), "off" or "deleted"
  last,        \* last_status of a trigger
  inbox,       \* attempts in the delivery file, per directory
  processing,
  failed,
  record,      \* status in the run record of a delivery
  worker,      \* where run_local_trigger_queue is
  held,        \* the claimed deliveries in its memory, with their attempts
  turns,       \* history: how often a delivery was submitted to the agent
  sent,        \* history: deliveries that were enqueued
  faults       \* number of faults so far

directories == <<inbox, processing, failed>>
triggerVars == <<trigger, last, directories, record, worker, held, turns, sent, faults>>

Attempts == 0..MaxAttempts
File == Attempts \union {NoFile}
NoFiles == [d \in Delivery |-> NoFile]
In(dir) == {d \in Delivery : dir[d] # NoFile}
Statuses == {"none", "queued", "processing", "ok", "error", "retrying", "interrupted"}

TriggerTypeOK ==
  /\ trigger \in [Trigger -> {"none", "on", "off", "deleted"}]
  /\ last \in [Trigger -> {"none", "ok", "error"}]
  /\ inbox \in [Delivery -> File] /\ processing \in [Delivery -> File]
  /\ failed \in [Delivery -> File] /\ held \in [Delivery -> File]
  /\ record \in [Delivery -> Statuses]
  /\ worker \in {"off", "recovering", "polling", "asleep", "delivering", "awaiting"}
  /\ turns \in [Delivery -> Nat]
  /\ sent \subseteq Delivery
  /\ faults \in 0..MaxFaults

TriggerInit ==
  /\ trigger = [t \in Trigger |-> "none"]
  /\ last = [t \in Trigger |-> "none"]
  /\ inbox = NoFiles /\ processing = NoFiles /\ failed = NoFiles /\ held = NoFiles
  /\ record = [d \in Delivery |-> "none"]
  /\ worker = "off"
  /\ turns = [d \in Delivery |-> 0]
  /\ sent = {}
  /\ faults = 0

----------------------------------------------------------------------------
(* The store's operations, as parts of the actions.                        *)

\* The first n files of a directory; the delivery the worker is busy with.
First(S, n) == {d \in S : Cardinality({e \in S : e < d}) < n}
Current(S, d) == d \in S /\ \A e \in S : d <= e

\* Mutants: a retry that forgets to count; a result that is not recorded; a
\* start without recovery.
UncountedRetry(d, a) == inbox' = [inbox EXCEPT ![d] = a] /\ UNCHANGED failed
Unrecorded(d, s) == UNCHANGED record
SkipsRecovery == TRUE

\* _retry_delivery_unlocked, up to the write: the claimed file comes second.
Rewrite(d, a) ==
  IF a + 1 >= MaxAttempts
  THEN failed' = [failed EXCEPT ![d] = MaxAttempts] /\ UNCHANGED inbox
  ELSE inbox' = [inbox EXCEPT ![d] = a + 1] /\ UNCHANGED failed

\* record_delivery finds no deleted trigger.
Noted(d, s) ==
  last' = [last EXCEPT ![Of[d]] = IF trigger[Of[d]] \in {"on", "off"} THEN s ELSE @]

\* write_delivery_run_record.
Recorded(d, s) == record' = [record EXCEPT ![d] = s]

Fault == faults < MaxFaults /\ faults' = faults + 1

Unlinked(dir, D) == [d \in Delivery |-> IF d \in D THEN NoFile ELSE dir[d]]

Off == worker' = "off" /\ held' = NoFiles

----------------------------------------------------------------------------
(* Users: /trigger, the WebUI of the gateway, "nanobot trigger".           *)

Create(t) ==
  /\ trigger[t] = "none"
  /\ trigger' = [trigger EXCEPT ![t] = "on"]
  /\ UNCHANGED <<last, directories, record, worker, held, turns, sent, faults>>

AtAwait == worker \in {"asleep", "awaiting"}

Enable(t, s) ==
  /\ AtAwait
  /\ trigger[t] \in {"on", "off"}
  /\ trigger' = [trigger EXCEPT ![t] = s]
  /\ UNCHANGED <<last, directories, record, worker, held, turns, sent, faults>>

\* delete saves the store, then unlinks the files of the trigger one by one;
\* killed meanwhile, it leaves some of them behind.
Delete(t) == LET mine == {d \in Delivery : Of[d] = t} IN
  /\ AtAwait
  /\ trigger[t] \in {"on", "off"}
  /\ trigger' = [trigger EXCEPT ![t] = "deleted"]
  /\ \E I, P, F \in SUBSET mine :
       /\ inbox' = Unlinked(inbox, I)
       /\ processing' = Unlinked(processing, P)
       /\ failed' = Unlinked(failed, F)
       /\ \/ I = mine /\ P = mine /\ F = mine /\ UNCHANGED <<worker, held, faults>>
          \/ (P # {} => I = mine) /\ (F # {} => P = mine) /\ Off /\ Fault
  /\ UNCHANGED <<last, record, turns, sent>>

\* enqueue; a process killed before the run record is written leaves the file.
Enqueue(d) ==
  /\ d \notin sent
  /\ trigger[Of[d]] = "on"
  /\ sent' = sent \union {d}
  /\ inbox' = [inbox EXCEPT ![d] = 0]
  /\ \/ Recorded(d, "queued") /\ UNCHANGED faults
     \/ Fault /\ UNCHANGED record
  /\ UNCHANGED <<trigger, last, processing, failed, worker, held, turns>>

----------------------------------------------------------------------------
(* The worker.                                                             *)

StartWorker ==
  /\ worker = "off"
  /\ worker' = "recovering"
  /\ UNCHANGED <<trigger, last, directories, record, held, turns, sent, faults>>

\* recover_processing_deliveries, one file; killed before the unlink, both
\* files stay.
Recover(d) ==
  /\ worker = "recovering"
  /\ Current(In(processing), d)
  /\ Rewrite(d, processing[d])
  /\ \/ processing' = [processing EXCEPT ![d] = NoFile] /\ UNCHANGED <<worker, held, faults>>
     \/ Off /\ Fault /\ UNCHANGED processing
  /\ UNCHANGED <<trigger, last, record, turns, sent>>

AllRecovered == In(processing) = {}

Recovered ==
  /\ worker = "recovering" /\ AllRecovered
  /\ worker' = "polling"
  /\ UNCHANGED <<trigger, last, directories, record, held, turns, sent, faults>>

\* claim_deliveries moves the files one by one.
Claim ==
  /\ worker \in {"polling", "asleep"}
  /\ In(inbox) # {}
  /\ \E n \in 1..BatchSize : LET D == First(In(inbox), n) IN
       /\ inbox' = Unlinked(inbox, D)
       /\ processing' = [d \in Delivery |-> IF d \in D THEN inbox[d] ELSE processing[d]]
       /\ \/ /\ n = BatchSize
             /\ held' = [d \in Delivery |-> IF d \in D THEN inbox[d] ELSE NoFile]
             /\ worker' = "delivering"
             /\ UNCHANGED faults
          \/ Off /\ Fault
  /\ UNCHANGED <<trigger, last, failed, record, turns, sent>>

Sleep ==
  /\ worker = "polling" /\ In(inbox) = {}
  /\ worker' = "asleep"
  /\ UNCHANGED <<trigger, last, directories, record, held, turns, sent, faults>>

BatchDone ==
  /\ worker = "delivering" /\ In(held) = {}
  /\ worker' = "polling"
  /\ UNCHANGED <<trigger, last, directories, record, held, turns, sent, faults>>

\* _deliver_delivery, up to the await of submit_turn.
Submit(d) ==
  /\ worker = "delivering" /\ Current(In(held), d)
  /\ trigger[Of[d]] = "on"
  /\ worker' = "awaiting"
  /\ turns' = [turns EXCEPT ![d] = @ + 1]
  /\ Recorded(d, "processing")
  /\ UNCHANGED <<trigger, last, directories, held, sent, faults>>

\* The result is noted, recorded, and the claimed file unlinked; killed before
\* the unlink, the worker leaves it to the next recovery.
Complete(d, s) ==
  /\ Noted(d, s)
  /\ Recorded(d, s)
  /\ \/ /\ processing' = [processing EXCEPT ![d] = NoFile]
        /\ held' = [held EXCEPT ![d] = NoFile]
        /\ worker' = "delivering"
        /\ UNCHANGED faults
     \/ Off /\ Fault /\ UNCHANGED processing
  /\ UNCHANGED <<trigger, inbox, failed, turns, sent>>

\* _TerminalDeliveryError: the trigger is gone or disabled.
Drop(d) ==
  /\ worker = "delivering" /\ Current(In(held), d)
  /\ trigger[Of[d]] # "on"
  /\ Complete(d, "error")

\* The turn was answered, or failed with an AutomationTurnError.
TurnEnds(d) ==
  /\ worker = "awaiting" /\ Current(In(held), d)
  /\ \E s \in {"ok", "error"} : Complete(d, s)

\* Any other exception: the store cannot be read or written before the turn is
\* submitted, or the result of a turn that is over cannot be noted.
StorageFails(d) ==
  /\ worker \in {"delivering", "awaiting"} /\ Current(In(held), d)
  /\ Fault
  /\ Rewrite(d, held[d])
  /\ processing' = [processing EXCEPT ![d] = NoFile]
  /\ Recorded(d, IF held[d] + 1 >= MaxAttempts THEN "error" ELSE "retrying")
  /\ Noted(d, "error")
  /\ held' = [held EXCEPT ![d] = NoFile]
  /\ worker' = "delivering"
  /\ UNCHANGED <<trigger, turns, sent>>

\* Shutdown: the delivery in progress is retried, the rest of the batch stays
\* in processing.
Cancelled(d) ==
  /\ worker = "awaiting" /\ Current(In(held), d)
  /\ Fault
  /\ Rewrite(d, held[d])
  /\ processing' = [processing EXCEPT ![d] = NoFile]
  /\ Recorded(d, "interrupted")
  /\ Off
  /\ UNCHANGED <<trigger, last, turns, sent>>

\* Killed, or cancelled in its sleep.
Crash ==
  /\ worker # "off"
  /\ Fault
  /\ Off
  /\ UNCHANGED <<trigger, last, directories, record, turns, sent>>

----------------------------------------------------------------------------
Users ==
  \/ \E t \in Trigger : Create(t) \/ Delete(t) \/ \E s \in {"on", "off"} : Enable(t, s)
  \/ \E d \in Delivery : Enqueue(d)

Worker ==
  \/ StartWorker \/ Recovered \/ Claim \/ Sleep \/ BatchDone
  \/ \E d \in Delivery : Recover(d) \/ Submit(d) \/ Drop(d) \/ TurnEnds(d)

Faults == Crash \/ \E d \in Delivery : StorageFails(d) \/ Cancelled(d)

TriggerNext == Users \/ Worker \/ Faults

TriggerSpec == TriggerInit /\ [][TriggerNext]_triggerVars

\* The gateway is started again, its worker runs, and a submitted turn ends.
TriggerFairSpec == TriggerSpec /\ WF_triggerVars(Worker)

----------------------------------------------------------------------------
(* Properties.                                                             *)

\* While the worker serves, a delivery is in one directory only and the files
\* in processing are the ones it holds: nothing is handled twice at a time.
OneCopy ==
  /\ In(processing) \subseteq In(held) \/ worker \in {"off", "recovering"}
  /\ In(inbox) \intersect In(held) = {}

\* A delivery that keeps killing the gateway is tried at most MaxAttempts times,
\* across any number of crashes and restarts.
TurnsBounded == \A d \in Delivery : turns[d] <= MaxAttempts

\* The promise seen from outside.  Files of a deleted trigger do not count.
Waiting(d) == inbox[d] # NoFile \/ processing[d] # NoFile
StatusOf(d) ==
  IF trigger[Of[d]] = "deleted" THEN "withdrawn"
  ELSE IF d \notin sent THEN "unsent"
  ELSE IF Waiting(d) THEN "queued"
  ELSE IF failed[d] # NoFile THEN "failed" ELSE "settled"
OutcomeOf(d) == IF StatusOf(d) = "settled" THEN record[d] ELSE "none"

Queue == INSTANCE TriggerQueue WITH
  status <- [d \in Delivery |-> StatusOf(d)],
  outcome <- [d \in Delivery |-> OutcomeOf(d)]

\* Through crashes, retries and recoveries the files behave as the queue: no
\* delivery is lost, settled without a record, or taken up again once settled.
ImplementsQueue == Queue!Spec

\* Every accepted delivery is settled, given up, or withdrawn.
DeliverySettles == \A d \in Delivery : d \in sent ~> ~Waiting(d)
=============================================================================
