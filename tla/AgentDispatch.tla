--------------------------- MODULE AgentDispatch ---------------------------
(***************************************************************************)
(* The dispatch core of the agent loop: the inbound bus, AgentLoop.run,    *)
(* AgentLoop._dispatch with its per-session lock, its concurrency gate and *)
(* its mid-turn pending queues, the automation turn coordinator that cron  *)
(* and local triggers share, process_direct, and the /stop and /new        *)
(* commands.                                                               *)
(*                                                                         *)
(* asyncio runs one task at a time and switches only where an await really *)
(* suspends, so one action is the code between two suspension points.  The *)
(* bus queues are unbounded and the runtime-event subscribers only publish *)
(* to them, so neither suspends a task.                                    *)
(***************************************************************************)
EXTENDS Naturals, Sequences, FiniteSets, SequencesExt

CONSTANTS
  Msg,            \* messages, and the asyncio task each of them becomes
  Session,        \* effective session keys
  Kind,           \* [Msg -> Kinds]: what a message is
  Key,            \* [Msg -> Session]: the effective session key of a message
  NoMsg,          \* stands for "no message"
  MaxConcurrent,  \* permits of _concurrency_gate
  QueueCap,       \* maxsize of a pending queue (20)
  InjectLimit,    \* _MAX_INJECTIONS_PER_TURN (3)
  InjectCycles    \* _MAX_INJECTION_CYCLES (5)

\* user: chat input; auto: a cron or local-trigger turn; stop, reset: /stop and
\* /new; direct: a process_direct call; cont, autocont: the internal
\* continuation of a user or of an automation turn.
Kinds == {"user", "auto", "stop", "reset", "direct", "cont", "autocont"}

ASSUME DispatchAssumption ==
  /\ Kind \in [Msg -> Kinds]
  /\ Key \in [Msg -> Session]
  /\ NoMsg \notin Msg
  /\ {MaxConcurrent, QueueCap, InjectLimit, InjectCycles} \subseteq Nat \ {0}

VARIABLES
  looping,    \* AgentLoop._running
  inbound,    \* bus.inbound
  ready,      \* created dispatch tasks that have not taken their first step
  pc,         \* where each message, or its task, is
  lockOwner,  \* holder of each session lock
  lockWait,   \* FIFO waiters of each session lock
  gate,       \* holders of a gate permit
  gateWait,   \* FIFO waiters of the gate
  queue,      \* the pending queue object a turn creates
  registered, \* _pending_queues: the turn whose queue is registered
  deferred,   \* deferred_queues of the coordinators
  active,     \* _active_tasks
  cancelled,  \* tasks with a cancellation request not yet delivered
  awaiting,   \* tasks a /stop or /new is waiting for
  command,    \* the command AgentLoop.run is executing inline
  waiter,     \* the future AutomationTurnCoordinator.submit awaits
  cycles      \* injection cycles used by a turn

locks == <<lockOwner, lockWait, gate, gateWait>>
turns == <<queue, registered, cycles>>
vars == <<looping, inbound, ready, pc, locks, turns, deferred, active,
          cancelled, awaiting, command, waiter>>

InTurn   == {"turn", "putting", "resetting"}
Holding  == InTurn \union {"gatewait"}
Tasked   == Holding \union {"created", "lockwait"}
Settled  == {"done", "failed", "cancelled", "injected", "discarded"}
Phases   == {"new", "queued", "inline"} \union Tasked \union Settled
Futures  == {"none", "waiting", "inline", "answered", "error", "abandoned"}

Automation(m) == Kind[m] \in {"auto", "autocont"}

TypeOK ==
  /\ looping \in BOOLEAN
  /\ inbound \in Seq(Msg) /\ ready \in Seq(Msg) /\ gateWait \in Seq(Msg)
  /\ pc \in [Msg -> Phases]
  /\ lockOwner \in [Session -> Msg \union {NoMsg}]
  /\ lockWait \in [Session -> Seq(Msg)]
  /\ gate \subseteq Msg /\ cancelled \subseteq Msg
  /\ queue \in [Msg -> Seq(Msg)]
  /\ registered \in [Session -> Msg \union {NoMsg}]
  /\ deferred \in [Session -> Seq(Msg)]
  /\ active \in [Session -> SUBSET Msg]
  /\ awaiting \in [Msg -> SUBSET Msg]
  /\ command \in Msg \union {NoMsg}
  /\ waiter \in [Msg -> Futures]
  /\ cycles \in [Msg -> 0..InjectCycles]

Init ==
  /\ looping = FALSE
  /\ inbound = <<>> /\ ready = <<>> /\ gateWait = <<>>
  /\ pc = [m \in Msg |-> "new"]
  /\ lockOwner = [k \in Session |-> NoMsg]
  /\ lockWait = [k \in Session |-> <<>>]
  /\ gate = {} /\ cancelled = {}
  /\ queue = [m \in Msg |-> <<>>]
  /\ registered = [k \in Session |-> NoMsg]
  /\ deferred = [k \in Session |-> <<>>]
  /\ active = [k \in Session |-> {}]
  /\ awaiting = [m \in Msg |-> {}]
  /\ command = NoMsg
  /\ waiter = [m \in Msg |-> "none"]
  /\ cycles = [m \in Msg |-> 0]

----------------------------------------------------------------------------
(* Helpers shared by the actions.                                          *)

Without(s, m) == LET at == {i \in DOMAIN s : s[i] = m} IN
  IF at = {} THEN s ELSE RemoveAt(s, CHOOSE i \in at : TRUE)

\* Mutants: forgetting the deferred turns; forgetting the leftovers; reporting
\* only successes; releasing a lock that somebody else holds; leaving the
\* queue registered; a permit too many; never deferring.
WakeNobody(k, leftovers) == inbound' = inbound \o leftovers /\ UNCHANGED deferred
DropLeftovers(k, leftovers) ==
  /\ inbound' = inbound \o (IF deferred[k] = <<>> THEN <<>> ELSE <<Head(deferred[k])>>)
  /\ deferred' = [deferred EXCEPT ![k] = IF @ = <<>> THEN @ ELSE Tail(@)]
ResolveAnswered(m, result) ==
  waiter' = [waiter EXCEPT ![m] =
    IF @ \in {"waiting", "inline"} /\ result = "answered" THEN result ELSE @]
ReleasedAnyway(m) == [lockOwner EXCEPT ![Key[m]] = NoMsg]
StillRegistered(m) == registered
GateOpenTooWide(m) == gateWait = <<>> /\ Cardinality(gate) <= MaxConcurrent
NeverDeferrable(m) == FALSE

\* Messages m leaves behind go back to the bus, then publish_next_deferred_turn
\* hands at most one deferred automation turn of the session to the bus.
WakeNext(k, leftovers) ==
  /\ inbound' = inbound \o leftovers
                 \o (IF deferred[k] = <<>> THEN <<>> ELSE <<Head(deferred[k])>>)
  /\ deferred' = [deferred EXCEPT ![k] = IF @ = <<>> THEN @ ELSE Tail(@)]

\* AutomationTurnCoordinator.complete: only a pending future takes a result.
Resolve(m, result) ==
  waiter' = [waiter EXCEPT ![m] = IF @ \in {"waiting", "inline"} THEN result ELSE @]

\* Only the holder's exit frees the lock; only the owner unregisters its queue.
Released(m) == [lockOwner EXCEPT ![Key[m]] = IF @ = m THEN NoMsg ELSE @]
Unregistered(m) == [registered EXCEPT ![Key[m]] = IF @ = m THEN NoMsg ELSE @]

GateOpen(m) == gateWait = <<>> /\ Cardinality(gate) < MaxConcurrent

\* The turn proper starts: the owner of lock and permit registers its queue.
BeginTurn(m) ==
  /\ gate' = gate \union {m}
  /\ pc' = [pc EXCEPT ![m] = "turn"]
  /\ registered' = [registered EXCEPT ![Key[m]] = m]

\* "async with lock, gate", once the lock is held.
EnterGate(m) ==
  \/ /\ Kind[m] = "direct"
     /\ pc' = [pc EXCEPT ![m] = "turn"]
     /\ UNCHANGED <<gate, gateWait, registered>>
  \/ /\ Kind[m] # "direct"
     /\ GateOpen(m)
     /\ BeginTurn(m)
     /\ UNCHANGED gateWait
  \/ /\ Kind[m] # "direct"
     /\ ~GateOpen(m)
     /\ gateWait' = Append(gateWait, m)
     /\ pc' = [pc EXCEPT ![m] = "gatewait"]
     /\ UNCHANGED <<gate, registered>>

\* The first stretch of _dispatch and of process_direct.
EnterLock(m) == LET k == Key[m] IN
  \/ /\ lockOwner[k] = NoMsg /\ lockWait[k] = <<>>
     /\ lockOwner' = [lockOwner EXCEPT ![k] = m]
     /\ EnterGate(m)
     /\ UNCHANGED lockWait
  \/ /\ lockOwner[k] # NoMsg \/ lockWait[k] # <<>>
     /\ lockWait' = [lockWait EXCEPT ![k] = Append(@, m)]
     /\ pc' = [pc EXCEPT ![m] = "lockwait"]
     /\ UNCHANGED <<lockOwner, gate, gateWait, registered>>

----------------------------------------------------------------------------
(* Producers: channels, the coordinators' callers, SDK calls.              *)

StartLoop ==
  /\ ~looping
  /\ looping' = TRUE
  /\ UNCHANGED <<inbound, ready, pc, locks, turns, deferred, active, cancelled,
                 awaiting, command, waiter>>

Receive(m) ==
  /\ pc[m] = "new" /\ Kind[m] \in {"user", "stop", "reset"}
  /\ inbound' = Append(inbound, m)
  /\ pc' = [pc EXCEPT ![m] = "queued"]
  /\ UNCHANGED <<looping, ready, locks, turns, deferred, active, cancelled,
                 awaiting, command, waiter>>

Submit(m) ==
  /\ pc[m] = "new" /\ Kind[m] = "auto"
  /\ \/ /\ looping
        /\ inbound' = Append(inbound, m)
        /\ pc' = [pc EXCEPT ![m] = "queued"]
        /\ waiter' = [waiter EXCEPT ![m] = "waiting"]
        /\ UNCHANGED <<locks, registered>>
     \/ /\ ~looping
        /\ EnterLock(m)
        /\ waiter' = [waiter EXCEPT ![m] = "inline"]
        /\ UNCHANGED inbound
  /\ UNCHANGED <<looping, ready, queue, cycles, deferred, active, cancelled,
                 awaiting, command>>

\* The caller of submit is cancelled.  Its finally forgets the future; a turn
\* it dispatched inline is cancelled with it.
AbandonSubmit(m) ==
  /\ waiter[m] \in {"waiting", "inline"}
  /\ waiter' = [waiter EXCEPT ![m] = "abandoned"]
  /\ cancelled' = IF waiter[m] = "inline" THEN cancelled \union {m} ELSE cancelled
  /\ UNCHANGED <<looping, inbound, ready, pc, locks, turns, deferred, active,
                 awaiting, command>>

CallDirect(m) ==
  /\ pc[m] = "new" /\ Kind[m] = "direct"
  /\ EnterLock(m)
  /\ UNCHANGED <<looping, inbound, ready, queue, cycles, deferred, active,
                 cancelled, awaiting, command, waiter>>

----------------------------------------------------------------------------
(* AgentLoop.run: one consumed message.                                    *)

Consuming(m) ==
  /\ looping /\ command = NoMsg
  /\ inbound # <<>> /\ m = Head(inbound)
  /\ inbound' = Tail(inbound)

\* _cancel_active_tasks, up to its first await, on behalf of command m.
CancelActive(m) == LET k == Key[m] IN
  /\ cancelled' = cancelled \union {t \in active[k] \ {m} : pc[t] \in Tasked}
  /\ awaiting' = [awaiting EXCEPT ![m] = active[k] \ {m}]
  /\ active' = [active EXCEPT ![k] = {}]

\* The tests of run(), in its order: a command run inside run() itself (/stop
\* always, /new while a turn is active), an automation turn that waits for the
\* active session, a follow-up for which the active turn's queue has room.
Inline(m) == Kind[m] = "stop" \/ (Kind[m] = "reset" /\ registered[Key[m]] # NoMsg)
Deferrable(m) == Automation(m) /\ registered[Key[m]] # NoMsg
Routable(m) == LET owner == registered[Key[m]] IN
  /\ ~Inline(m) /\ ~Deferrable(m)
  /\ owner # NoMsg /\ Len(queue[owner]) < QueueCap

RunInline(m) ==
  /\ Consuming(m)
  /\ Inline(m)
  /\ CancelActive(m)
  /\ command' = m
  /\ pc' = [pc EXCEPT ![m] = "inline"]
  /\ UNCHANGED <<looping, ready, locks, turns, deferred, waiter>>

\* Every awaited task has ended; cmd_stop also drops a queue still registered.
FinishInline(m) == LET k == Key[m]
                       owner == registered[k]
                       drops == Kind[m] = "stop" /\ owner # NoMsg IN
  /\ command = m
  /\ \A t \in awaiting[m] : pc[t] \notin Tasked
  /\ command' = NoMsg
  /\ awaiting' = [awaiting EXCEPT ![m] = {}]
  /\ IF drops
     THEN /\ registered' = [registered EXCEPT ![k] = NoMsg]
          /\ queue' = [queue EXCEPT ![owner] = <<>>]
          /\ pc' = [t \in Msg |-> IF t = m THEN "done"
                                  ELSE IF t \in Range(queue[owner]) THEN "discarded"
                                  ELSE pc[t]]
     ELSE /\ pc' = [pc EXCEPT ![m] = "done"]
          /\ UNCHANGED <<registered, queue>>
  /\ UNCHANGED <<looping, inbound, ready, locks, cycles, deferred, active,
                 cancelled, waiter>>

Defer(m) ==
  /\ Consuming(m)
  /\ Deferrable(m)
  /\ deferred' = [deferred EXCEPT ![Key[m]] = Append(@, m)]
  /\ UNCHANGED <<looping, ready, pc, locks, turns, active, cancelled, awaiting,
                 command, waiter>>

Route(m) ==
  /\ Consuming(m)
  /\ Routable(m)
  /\ queue' = [queue EXCEPT ![registered[Key[m]]] = Append(@, m)]
  /\ UNCHANGED <<looping, ready, pc, locks, registered, cycles, deferred, active,
                 cancelled, awaiting, command, waiter>>

\* No active queue, or a full one: a new dispatch task.
CreateTask(m) ==
  /\ Consuming(m)
  /\ ~Inline(m) /\ ~Deferrable(m) /\ ~Routable(m)
  /\ ready' = Append(ready, m)
  /\ pc' = [pc EXCEPT ![m] = "created"]
  /\ active' = [active EXCEPT ![Key[m]] = @ \union {m}]
  /\ UNCHANGED <<looping, locks, turns, deferred, cancelled, awaiting, command, waiter>>

----------------------------------------------------------------------------
(* AgentLoop._dispatch: one task, on its way to its turn.                  *)

\* First step of a created task, in creation order.  A task cancelled before it
\* never runs a line of _dispatch, not even its finally blocks.
StartTask(m) ==
  /\ ready # <<>> /\ m = Head(ready)
  /\ ready' = Tail(ready)
  /\ \/ /\ m \notin cancelled
        /\ EnterLock(m)
        /\ UNCHANGED <<active, cancelled>>
     \/ /\ m \in cancelled
        /\ pc' = [pc EXCEPT ![m] = "cancelled"]
        /\ active' = [active EXCEPT ![Key[m]] = @ \ {m}]
        /\ cancelled' = cancelled \ {m}
        /\ UNCHANGED <<locks, registered>>
  /\ UNCHANGED <<looping, inbound, queue, cycles, deferred, awaiting, command, waiter>>

AcquireLock(m) == LET k == Key[m] IN
  /\ pc[m] = "lockwait" /\ m \notin cancelled
  /\ lockOwner[k] = NoMsg /\ lockWait[k] # <<>> /\ m = Head(lockWait[k])
  /\ lockOwner' = [lockOwner EXCEPT ![k] = m]
  /\ lockWait' = [lockWait EXCEPT ![k] = Tail(@)]
  /\ EnterGate(m)
  /\ UNCHANGED <<looping, inbound, ready, queue, cycles, deferred, active,
                 cancelled, awaiting, command, waiter>>

AcquireGate(m) ==
  /\ pc[m] = "gatewait" /\ m \notin cancelled
  /\ gateWait # <<>> /\ m = Head(gateWait)
  /\ Cardinality(gate) < MaxConcurrent
  /\ gateWait' = Tail(gateWait)
  /\ BeginTurn(m)
  /\ UNCHANGED <<looping, inbound, ready, lockOwner, lockWait, queue, cycles,
                 deferred, active, cancelled, awaiting, command, waiter>>

\* Cancelled while waiting for lock or gate: only the outer finally runs.
CancelWaiting(m) == LET k == Key[m] IN
  /\ m \in cancelled /\ pc[m] \in {"lockwait", "gatewait"}
  /\ lockWait' = [lockWait EXCEPT ![k] = Without(@, m)]
  /\ gateWait' = Without(gateWait, m)
  /\ lockOwner' = Released(m)
  /\ pc' = [pc EXCEPT ![m] = "cancelled"]
  /\ WakeNext(k, <<>>)
  /\ active' = [active EXCEPT ![k] = @ \ {m}]
  /\ cancelled' = cancelled \ {m}
  /\ UNCHANGED <<looping, ready, gate, turns, awaiting, command, waiter>>

----------------------------------------------------------------------------
(* The turn and the end of _dispatch.                                      *)

\* _drain_pending on behalf of the runner: at most InjectLimit follow-ups, in at
\* most InjectCycles rounds.  What it took, and how many it took:
Taken(m) == LET n == Len(queue[m]) IN
  IF cycles[m] = InjectCycles THEN 0 ELSE IF n < InjectLimit THEN n ELSE InjectLimit
Injected(m) == {queue[m][i] : i \in 1..Taken(m)}

Inject(m) ==
  /\ pc[m] = "turn" /\ m \notin cancelled
  /\ Taken(m) > 0
  /\ cycles' = [cycles EXCEPT ![m] = @ + 1]
  /\ queue' = [queue EXCEPT ![m] = SubSeq(@, Taken(m) + 1, Len(@))]
  /\ pc' = [t \in Msg |-> IF t \in Injected(m) THEN "injected" ELSE pc[t]]
  /\ UNCHANGED <<looping, inbound, ready, locks, registered, deferred, active,
                 cancelled, awaiting, command, waiter>>

\* The end of _dispatch: the queue is unregistered and its leftovers go back
\* to the bus, one deferred turn follows them, lock and permit are released.
Leave(m, leftovers) == LET k == Key[m] IN
  /\ registered' = Unregistered(m)
  /\ queue' = [queue EXCEPT ![m] = <<>>]
  /\ cycles' = [cycles EXCEPT ![m] = 0]
  /\ lockOwner' = Released(m)
  /\ gate' = gate \ {m}
  /\ active' = [active EXCEPT ![k] = @ \ {m}]
  /\ cancelled' = cancelled \ {m}
  /\ IF Kind[m] = "direct"
     THEN UNCHANGED <<inbound, deferred>>
     ELSE WakeNext(k, leftovers)
  /\ UNCHANGED <<looping, ready, lockWait, gateWait, command>>

FinishTurn(m) ==
  /\ pc[m] = "turn" /\ m \notin cancelled /\ Kind[m] # "reset"
  /\ pc' = [pc EXCEPT ![m] = "done"]
  /\ Resolve(m, "answered")
  /\ Leave(m, queue[m])
  /\ UNCHANGED awaiting

FailTurn(m) ==
  /\ pc[m] = "turn" /\ m \notin cancelled /\ Kind[m] # "reset"
  /\ pc' = [pc EXCEPT ![m] = "failed"]
  /\ Resolve(m, "error")
  /\ Leave(m, queue[m])
  /\ UNCHANGED awaiting

CancelTurn(m) ==
  /\ pc[m] \in {"turn", "putting"} /\ m \in cancelled
  /\ pc' = [pc EXCEPT ![m] = "cancelled"]
  /\ Resolve(m, "error")
  /\ Leave(m, queue[m])
  /\ UNCHANGED awaiting

\* The continuation of a turn keeps the turn's session and metadata.
Continuations(m) ==
  {c \in Msg : /\ pc[c] = "new" /\ Key[c] = Key[m]
               /\ Kind[c] = (IF Automation(m) THEN "autocont" ELSE "cont")}

\* Iteration budget exhausted under an active goal: the runner drains once more,
\* then maybe_continue_turn puts the continuation into the turn's own queue.
\* The turn ends at once if the put has room, else it blocks in the put.
ContinueTurn(m) ==
  /\ pc[m] = "turn" /\ m \notin cancelled
  /\ Kind[m] \in {"user", "auto", "cont", "autocont"}
  /\ LET rest == SubSeq(queue[m], Taken(m) + 1, Len(queue[m])) IN
     \/ /\ Len(rest) < QueueCap
        /\ \E c \in Continuations(m) :
             /\ pc' = [t \in Msg |-> IF t = m THEN "done"
                                     ELSE IF t = c THEN "queued"
                                     ELSE IF t \in Injected(m) THEN "injected" ELSE pc[t]]
             /\ Resolve(m, "answered")
             /\ Leave(m, Append(rest, c))
             /\ UNCHANGED awaiting
     \/ /\ Len(rest) >= QueueCap
        /\ Continuations(m) # {}
        /\ pc' = [t \in Msg |-> IF t = m THEN "putting"
                                ELSE IF t \in Injected(m) THEN "injected" ELSE pc[t]]
        /\ queue' = [queue EXCEPT ![m] = rest]
        /\ UNCHANGED <<looping, inbound, ready, locks, registered, cycles, deferred,
                       active, cancelled, awaiting, command, waiter>>

\* /new as a turn of its own: it cancels and awaits the session's other tasks
\* (its own cancellation is swallowed), then ends.
BeginReset(m) ==
  /\ pc[m] = "turn" /\ Kind[m] = "reset" /\ m \notin cancelled
  /\ pc' = [pc EXCEPT ![m] = "resetting"]
  /\ CancelActive(m)
  /\ UNCHANGED <<looping, inbound, ready, locks, turns, deferred, command, waiter>>

FinishReset(m) ==
  /\ pc[m] = "resetting" /\ m \notin cancelled
  /\ \A t \in awaiting[m] : pc[t] \notin Tasked
  /\ pc' = [pc EXCEPT ![m] = "done"]
  /\ awaiting' = [awaiting EXCEPT ![m] = {}]
  /\ Leave(m, queue[m])
  /\ UNCHANGED waiter

----------------------------------------------------------------------------
Run(m) ==
  \/ RunInline(m) \/ FinishInline(m) \/ Defer(m) \/ Route(m) \/ CreateTask(m)

Task(m) ==
  \/ StartTask(m) \/ AcquireLock(m) \/ AcquireGate(m) \/ CancelWaiting(m)
  \/ Inject(m) \/ FinishTurn(m) \/ FailTurn(m) \/ CancelTurn(m)
  \/ ContinueTurn(m) \/ BeginReset(m) \/ FinishReset(m)

Environment(m) ==
  \/ Receive(m) \/ Submit(m) \/ AbandonSubmit(m) \/ CallDirect(m)

Next == StartLoop \/ \E m \in Msg : Run(m) \/ Task(m) \/ Environment(m)

Spec == Init /\ [][Next]_vars

\* The loop is started, run() keeps consuming, and every task that can take a
\* step takes it: model and tool calls return, fail or time out.
Fairness ==
  /\ WF_vars(StartLoop)
  /\ WF_vars(\E m \in Msg : Run(m))
  /\ \A m \in Msg : /\ WF_vars(StartTask(m) \/ CancelWaiting(m) \/ CancelTurn(m))
                    /\ WF_vars(AcquireLock(m) \/ AcquireGate(m))
                    /\ WF_vars(FinishTurn(m) \/ FailTurn(m) \/ BeginReset(m) \/ FinishReset(m))

FairSpec == Spec /\ Fairness

----------------------------------------------------------------------------
(* Properties.                                                             *)

\* Turns of one session never overlap: past its lock there is at most one task,
\* dispatched or direct, whatever the order of creation and cancellation.
OneTurnPerSession ==
  \A m, n \in Msg :
    m # n /\ Key[m] = Key[n] => ~(pc[m] \in Holding /\ pc[n] \in Holding)

\* NANOBOT_MAX_CONCURRENT_REQUESTS bounds the dispatched turns that run at once.
GateRespected ==
  Cardinality({m \in Msg : Kind[m] # "direct" /\ pc[m] \in InTurn}) <= MaxConcurrent

\* Follow-ups are only ever routed to the task that holds the session lock and
\* is still in its turn, never to a queue whose turn has ended.
RoutedToLockHolder ==
  \A k \in Session : registered[k] # NoMsg =>
    lockOwner[k] = registered[k] /\ pc[registered[k]] \in InTurn

\* The places a message waits in: the bus, a pending queue, the deferred list.
Where(m) ==
  {<<"bus", i>> : i \in {j \in DOMAIN inbound : inbound[j] = m}}
  \union (UNION {{<<t, i>> : i \in {j \in DOMAIN queue[t] : queue[t][j] = m}} : t \in Msg})
  \union (UNION {{<<k, i>> : i \in {j \in DOMAIN deferred[k] : deferred[k][j] = m}} : k \in Session})

\* A message handed to the bus waits in exactly one place until it is a task,
\* an injection or a discard; nothing is lost or duplicated on the way through
\* routing, deferral, fallback, cancellation and the republishing of leftovers.
NoMessageLost ==
  \A m \in Msg : Cardinality(Where(m)) = (IF pc[m] = "queued" THEN 1 ELSE 0)

\* A cron or trigger turn is a turn of its own, never injected into a live one.
AutomationNotInjected == \A m \in Msg : pc[m] = "injected" => ~Automation(m)

\* Everything that reaches the bus is eventually a finished turn or part of one.
EveryMessageSettles == \A m \in Msg : pc[m] = "queued" ~> pc[m] \in Settled

\* submit returns to its caller.
SubmitReturns == \A m \in Msg : waiter[m] = "waiting" ~> waiter[m] # "waiting"
=============================================================================
