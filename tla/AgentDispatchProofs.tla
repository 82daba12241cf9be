------------------------ MODULE AgentDispatchProofs ------------------------
(* TLAPS proofs about AgentDispatch, for every set of messages and sessions. *)
EXTENDS AgentDispatch, FiniteSetTheorems, SequenceTheorems, TLAPS

----------------------------------------------------------------------------
(* Lemmas about the sequence operators the actions use.                    *)

\* Taking a cancelled task out of a FIFO of waiters leaves a FIFO of tasks.
LEMMA WithoutType ==
  ASSUME NEW s \in Seq(Msg), NEW m \in Msg
  PROVE  Without(s, m) \in Seq(Msg)
<1> DEFINE at == {i \in DOMAIN s : s[i] = m}
<1>1. CASE at = {}
  BY <1>1 DEF Without
<1>2. CASE at # {}
  <2> DEFINE c == CHOOSE i \in at : TRUE
  <2>0. c \in at
    BY <1>2
  <2>1. c \in 1..Len(s) /\ Without(s, m) = RemoveAt(s, c)
    BY <1>2, <2>0 DEF Without
  <2> HIDE DEF c
  <2>2. 1 \in Int /\ c - 1 \in Int /\ c + 1 \in Int /\ Len(s) \in Int
    BY <2>1
  <2>3. /\ \A i \in 1..(c - 1) : s[i] \in Msg
        /\ \A i \in (c + 1)..Len(s) : s[i] \in Msg
    BY <2>1
  <2>4. SubSeq(s, 1, c - 1) \in Seq(Msg) /\ SubSeq(s, c + 1, Len(s)) \in Seq(Msg)
    BY <2>2, <2>3, SubSeqProperties
  <2> QED
    BY <2>1, <2>4, ConcatProperties DEF RemoveAt
<1> QED
  BY <1>1, <1>2

\* What a drain leaves is a suffix of the queue.
LEMMA RestType ==
  ASSUME TypeOK, NEW m \in Msg
  PROVE  /\ Taken(m) \in 0..Len(queue[m])
         /\ SubSeq(queue[m], Taken(m) + 1, Len(queue[m])) \in Seq(Msg)
         /\ \A i \in DOMAIN SubSeq(queue[m], Taken(m) + 1, Len(queue[m])) :
              \E j \in DOMAIN queue[m] :
                SubSeq(queue[m], Taken(m) + 1, Len(queue[m]))[i] = queue[m][j]
<1> DEFINE q == queue[m]
           n == Taken(m)
<1>1. q \in Seq(Msg)
  BY DEF TypeOK
<1>2. n \in 0..Len(q)
  BY <1>1, DispatchAssumption DEF Taken, TypeOK
<1>3. \A i \in (n + 1)..Len(q) : q[i] \in Msg
  BY <1>1, <1>2
<1>4. /\ SubSeq(q, n + 1, Len(q)) \in Seq(Msg)
      /\ Len(SubSeq(q, n + 1, Len(q))) = IF n + 1 <= Len(q) THEN Len(q) - (n + 1) + 1 ELSE 0
      /\ \A i \in 1..(Len(q) - (n + 1) + 1) : SubSeq(q, n + 1, Len(q))[i] = q[(n + 1) + i - 1]
  <2> HIDE DEF q, n
  <2>1. n + 1 \in Int /\ Len(q) \in Int
    BY <1>1, <1>2
  <2> QED
    BY <1>3, <2>1, SubSeqProperties
<1>5. \A i \in DOMAIN SubSeq(q, n + 1, Len(q)) :
        \E j \in DOMAIN q : SubSeq(q, n + 1, Len(q))[i] = q[j]
  <2> HIDE DEF q, n
  <2> SUFFICES ASSUME NEW i \in DOMAIN SubSeq(q, n + 1, Len(q))
               PROVE  \E j \in DOMAIN q : SubSeq(q, n + 1, Len(q))[i] = q[j]
    OBVIOUS
  <2>1. i \in 1..(Len(q) - n) /\ n + i \in 1..Len(q)
    BY <1>1, <1>2, <1>4
  <2>2. SubSeq(q, n + 1, Len(q))[i] = q[n + i]
    BY <1>1, <1>2, <1>4, <2>1
  <2>3. n + i \in DOMAIN q
    BY <1>1, <2>1
  <2> QED
    BY <2>2, <2>3
<1> QED
  BY <1>2, <1>4, <1>5

----------------------------------------------------------------------------
(* Typing of the shared helpers.                                           *)

\* Republishing leftovers and one deferred turn keeps bus and deferred lists typed.
LEMMA WakeNextType ==
  ASSUME TypeOK, NEW k \in Session, NEW rest \in Seq(Msg), WakeNext(k, rest)
  PROVE  inbound' \in Seq(Msg) /\ deferred' \in [Session -> Seq(Msg)]
<1>1. deferred[k] \in Seq(Msg) /\ inbound \in Seq(Msg)
  BY DEF TypeOK
<1>2. (IF deferred[k] = <<>> THEN <<>> ELSE <<Head(deferred[k])>>) \in Seq(Msg)
  BY <1>1
<1>3. (IF deferred[k] = <<>> THEN deferred[k] ELSE Tail(deferred[k])) \in Seq(Msg)
  BY <1>1
<1>4. inbound \o rest \in Seq(Msg)
  BY <1>1
<1>5. inbound' \in Seq(Msg)
  BY <1>2, <1>4, ConcatProperties DEF WakeNext
<1> QED
  BY <1>3, <1>5 DEF WakeNext, TypeOK

\* The phases the actions assign are phases.
LEMMA PhaseMembers ==
  Settled \union Tasked \union {"new", "queued", "inline"} \subseteq Phases
  /\ {"turn", "putting", "resetting", "gatewait", "lockwait", "created"} \subseteq Phases
  /\ {"done", "failed", "cancelled", "injected", "discarded", "inline", "queued"} \subseteq Phases
BY DEF Phases, Tasked, Holding, InTurn, Settled

\* Taking the permit and registering the queue keeps the types.
LEMMA BeginTurnType ==
  ASSUME TypeOK, NEW m \in Msg, BeginTurn(m)
  PROVE  /\ gate' \subseteq Msg /\ pc' \in [Msg -> Phases]
         /\ registered' \in [Session -> Msg \union {NoMsg}]
<1>1. gate' \subseteq Msg
  BY DEF TypeOK, BeginTurn
<1>2. pc' \in [Msg -> Phases]
  BY PhaseMembers DEF TypeOK, BeginTurn
<1>3. registered' \in [Session -> Msg \union {NoMsg}]
  BY DEF TypeOK, BeginTurn
<1> QED
  BY <1>1, <1>2, <1>3

\* So does passing, or waiting for, the gate.
LEMMA EnterGateType ==
  ASSUME TypeOK, NEW m \in Msg, EnterGate(m)
  PROVE  /\ gate' \subseteq Msg /\ gateWait' \in Seq(Msg) /\ pc' \in [Msg -> Phases]
         /\ registered' \in [Session -> Msg \union {NoMsg}]
<1>1. CASE BeginTurn(m) /\ UNCHANGED gateWait
  BY <1>1, BeginTurnType DEF TypeOK
<1>2. CASE /\ pc' = [pc EXCEPT ![m] = "turn"]
           /\ UNCHANGED <<gate, gateWait, registered>>
  BY <1>2, PhaseMembers DEF TypeOK
<1>3. CASE /\ gateWait' = Append(gateWait, m)
           /\ pc' = [pc EXCEPT ![m] = "gatewait"]
           /\ UNCHANGED <<gate, registered>>
  BY <1>3, PhaseMembers DEF TypeOK
<1> QED
  BY <1>1, <1>2, <1>3 DEF EnterGate

\* So does the first stretch of a dispatched task or of a direct call.
LEMMA EnterLockType ==
  ASSUME TypeOK, NEW m \in Msg, EnterLock(m)
  PROVE  /\ lockOwner' \in [Session -> Msg \union {NoMsg}]
         /\ lockWait' \in [Session -> Seq(Msg)]
         /\ gate' \subseteq Msg /\ gateWait' \in Seq(Msg) /\ pc' \in [Msg -> Phases]
         /\ registered' \in [Session -> Msg \union {NoMsg}]
<1>1. Key[m] \in Session /\ lockWait[Key[m]] \in Seq(Msg)
  BY DispatchAssumption DEF TypeOK
<1>2. Append(lockWait[Key[m]], m) \in Seq(Msg)
  BY <1>1
<1>3. CASE lockOwner' = [lockOwner EXCEPT ![Key[m]] = m] /\ EnterGate(m) /\ UNCHANGED lockWait
  BY <1>1, <1>3, EnterGateType DEF TypeOK
<1>4. CASE /\ lockWait' = [lockWait EXCEPT ![Key[m]] = Append(@, m)]
           /\ pc' = [pc EXCEPT ![m] = "lockwait"]
           /\ UNCHANGED <<lockOwner, gate, gateWait, registered>>
  BY <1>2, <1>4, PhaseMembers DEF TypeOK
<1> QED
  BY <1>3, <1>4 DEF EnterLock

\* Resolving the future of a submitter leaves it one of its states.
LEMMA ResolveType ==
  ASSUME TypeOK, NEW m \in Msg, NEW result \in Futures, Resolve(m, result)
  PROVE  waiter' \in [Msg -> Futures]
BY DEF TypeOK, Resolve

\* The finally blocks of _dispatch keep the types.
LEMMA LeaveType ==
  ASSUME TypeOK, NEW m \in Msg, NEW rest \in Seq(Msg), Leave(m, rest)
  PROVE  /\ registered' \in [Session -> Msg \union {NoMsg}]
         /\ queue' \in [Msg -> Seq(Msg)] /\ cycles' \in [Msg -> 0..InjectCycles]
         /\ lockOwner' \in [Session -> Msg \union {NoMsg}]
         /\ gate' \subseteq Msg /\ cancelled' \subseteq Msg
         /\ active' \in [Session -> SUBSET Msg]
         /\ inbound' \in Seq(Msg) /\ deferred' \in [Session -> Seq(Msg)]
         /\ UNCHANGED <<looping, ready, lockWait, gateWait, command>>
<1>1. Key[m] \in Session
  BY DispatchAssumption
<1>2. inbound' \in Seq(Msg) /\ deferred' \in [Session -> Seq(Msg)]
  BY <1>1, WakeNextType DEF Leave, TypeOK
<1>3. cycles' \in [Msg -> 0..InjectCycles]
  BY DispatchAssumption DEF Leave, TypeOK
<1>4. queue' \in [Msg -> Seq(Msg)]
  BY DEF Leave, TypeOK
<1> QED
  BY <1>1, <1>2, <1>3, <1>4 DEF Leave, TypeOK, Released, Unregistered

----------------------------------------------------------------------------
(* Every action keeps the types.                                           *)

\* Channels, submitters and direct callers keep the types.
LEMMA EnvironmentType ==
  ASSUME TypeOK, NEW m \in Msg, Environment(m)
  PROVE  TypeOK'
<1>1. CASE Receive(m)
  BY <1>1, PhaseMembers DEF Receive, TypeOK, locks, turns
<1>2. CASE Submit(m)
  <2>1. CASE /\ inbound' = Append(inbound, m) /\ pc' = [pc EXCEPT ![m] = "queued"]
             /\ waiter' = [waiter EXCEPT ![m] = "waiting"]
             /\ UNCHANGED <<locks, registered>>
    BY <1>2, <2>1, PhaseMembers DEF Submit, TypeOK, locks, Futures
  <2>2. CASE EnterLock(m) /\ waiter' = [waiter EXCEPT ![m] = "inline"] /\ UNCHANGED inbound
    BY <1>2, <2>2, EnterLockType DEF Submit, TypeOK, Futures
  <2> QED
    BY <1>2, <2>1, <2>2 DEF Submit
<1>3. CASE AbandonSubmit(m)
  BY <1>3 DEF AbandonSubmit, TypeOK, locks, turns, Futures
<1>4. CASE CallDirect(m)
  BY <1>4, EnterLockType DEF CallDirect, TypeOK
<1> QED
  BY <1>1, <1>2, <1>3, <1>4 DEF Environment

\* Cancelling the tasks of a session keeps the types.
LEMMA CancelActiveType ==
  ASSUME TypeOK, NEW m \in Msg, CancelActive(m)
  PROVE  /\ cancelled' \subseteq Msg /\ awaiting' \in [Msg -> SUBSET Msg]
         /\ active' \in [Session -> SUBSET Msg]
<1>1. active[Key[m]] \subseteq Msg
  BY DispatchAssumption DEF TypeOK
<1> QED
  BY <1>1 DEF CancelActive, TypeOK

\* One message consumed by AgentLoop.run keeps the types.
LEMMA RunType ==
  ASSUME TypeOK, NEW m \in Msg, Run(m)
  PROVE  TypeOK'
<1>1. Key[m] \in Session
  BY DispatchAssumption
<1>2. Consuming(m) => inbound' \in Seq(Msg)
  BY DEF Consuming, TypeOK
<1>3. CASE RunInline(m)
  BY <1>2, <1>3, CancelActiveType, PhaseMembers DEF RunInline, TypeOK, locks, turns
<1>4. CASE FinishInline(m)
  <2>1. pc' \in [Msg -> Phases]
    BY <1>4, PhaseMembers DEF FinishInline, TypeOK
  <2>2. queue' \in [Msg -> Seq(Msg)] /\ registered' \in [Session -> Msg \union {NoMsg}]
    <3>1. CASE UNCHANGED <<registered, queue>>
      BY <3>1 DEF TypeOK
    <3>2. CASE /\ registered' = [registered EXCEPT ![Key[m]] = NoMsg]
               /\ queue' = [queue EXCEPT ![registered[Key[m]]] = <<>>]
      <4>1. <<>> \in Seq(Msg)
        OBVIOUS
      <4>2. queue' \in [Msg -> Seq(Msg)]
        BY <3>2, <4>1 DEF TypeOK
      <4> QED
        BY <3>2, <4>2 DEF TypeOK
    <3>3. \/ UNCHANGED <<registered, queue>>
          \/ /\ registered' = [registered EXCEPT ![Key[m]] = NoMsg]
             /\ queue' = [queue EXCEPT ![registered[Key[m]]] = <<>>]
      BY <1>4, Zenon DEF FinishInline
    <3> QED
      BY <3>1, <3>2, <3>3
  <2>3. awaiting' \in [Msg -> SUBSET Msg] /\ command' \in Msg \union {NoMsg}
    BY <1>4 DEF FinishInline, TypeOK
  <2> QED
    BY <1>4, <2>1, <2>2, <2>3 DEF FinishInline, TypeOK, locks
<1>5. CASE Defer(m)
  <2>1. Append(deferred[Key[m]], m) \in Seq(Msg)
    BY <1>1 DEF TypeOK
  <2> QED
    BY <1>1, <1>2, <1>5, <2>1 DEF Defer, TypeOK, locks, turns
<1>6. CASE Route(m)
  <2>1. registered[Key[m]] \in Msg
    BY <1>1, <1>6 DEF Route, Routable, TypeOK
  <2>2. Append(queue[registered[Key[m]]], m) \in Seq(Msg)
    BY <2>1 DEF TypeOK
  <2> QED
    BY <1>2, <1>6, <2>1, <2>2 DEF Route, TypeOK, locks
<1>7. CASE CreateTask(m)
  <2>1. ready' \in Seq(Msg) /\ pc' \in [Msg -> Phases]
    BY <1>7, PhaseMembers DEF CreateTask, TypeOK
  <2>2. active' \in [Session -> SUBSET Msg]
    BY <1>1, <1>7 DEF CreateTask, TypeOK
  <2> QED
    BY <1>2, <1>7, <2>1, <2>2 DEF CreateTask, TypeOK, locks, turns
<1> QED
  BY <1>3, <1>4, <1>5, <1>6, <1>7 DEF Run

\* A task on its way to its turn keeps the types.
LEMMA EntryType ==
  ASSUME TypeOK, NEW m \in Msg,
         StartTask(m) \/ AcquireLock(m) \/ AcquireGate(m) \/ CancelWaiting(m)
  PROVE  TypeOK'
<1>1. Key[m] \in Session
  BY DispatchAssumption
<1>2. CASE StartTask(m)
  <2>1. ready' \in Seq(Msg)
    BY <1>2 DEF StartTask, TypeOK
  <2>2. CASE EnterLock(m) /\ UNCHANGED <<active, cancelled>>
    BY <1>2, <2>1, <2>2, EnterLockType DEF StartTask, TypeOK
  <2>3. CASE /\ pc' = [pc EXCEPT ![m] = "cancelled"]
             /\ active' = [active EXCEPT ![Key[m]] = @ \ {m}]
             /\ cancelled' = cancelled \ {m}
             /\ UNCHANGED <<locks, registered>>
    BY <1>1, <1>2, <2>1, <2>3, PhaseMembers DEF StartTask, TypeOK, locks
  <2> QED
    BY <1>2, <2>2, <2>3 DEF StartTask
<1>3. CASE AcquireLock(m)
  <2>1. lockWait[Key[m]] \in Seq(Msg) /\ lockWait[Key[m]] # <<>>
    BY <1>1, <1>3 DEF AcquireLock, TypeOK
  <2>2. Tail(lockWait[Key[m]]) \in Seq(Msg)
    BY <2>1
  <2> QED
    BY <1>1, <1>3, <2>2, EnterGateType DEF AcquireLock, TypeOK
<1>4. CASE AcquireGate(m)
  <2>1. gateWait' \in Seq(Msg)
    BY <1>4 DEF AcquireGate, TypeOK
  <2> QED
    BY <1>4, <2>1, BeginTurnType DEF AcquireGate, TypeOK
<1>5. CASE CancelWaiting(m)
  <2>1. Without(lockWait[Key[m]], m) \in Seq(Msg) /\ Without(gateWait, m) \in Seq(Msg)
    BY <1>1, WithoutType DEF TypeOK
  <2>2. inbound' \in Seq(Msg) /\ deferred' \in [Session -> Seq(Msg)]
    <3>1. WakeNext(Key[m], <<>>) /\ <<>> \in Seq(Msg)
      BY <1>5 DEF CancelWaiting
    <3> QED
      BY <1>1, <3>1, WakeNextType
  <2>3. lockOwner' \in [Session -> Msg \union {NoMsg}] /\ active' \in [Session -> SUBSET Msg]
    BY <1>1, <1>5 DEF CancelWaiting, Released, TypeOK
  <2> QED
    BY <1>1, <1>5, <2>1, <2>2, <2>3, PhaseMembers DEF CancelWaiting, TypeOK, turns
<1> QED
  BY <1>2, <1>3, <1>4, <1>5

\* Every way a turn proceeds or ends keeps the types.
LEMMA TurnType ==
  ASSUME TypeOK, NEW m \in Msg,
         \/ Inject(m) \/ FinishTurn(m) \/ FailTurn(m) \/ CancelTurn(m)
         \/ ContinueTurn(m) \/ BeginReset(m) \/ FinishReset(m)
  PROVE  TypeOK'
<1>1. queue[m] \in Seq(Msg) /\ {"answered", "error"} \subseteq Futures
  BY DEF TypeOK, Futures
<1>2. CASE Inject(m)
  <2>1. cycles' \in [Msg -> 0..InjectCycles]
    <3>1. InjectCycles \in Nat /\ cycles[m] \in 0..InjectCycles /\ cycles[m] # InjectCycles
      BY <1>2, DispatchAssumption DEF Inject, Taken, TypeOK
    <3>2. cycles[m] + 1 \in 0..InjectCycles
      BY <3>1
    <3> QED
      BY <1>2, <3>2 DEF Inject, TypeOK
  <2>2. pc' \in [Msg -> Phases]
    BY <1>2, PhaseMembers DEF Inject, TypeOK
  <2> QED
    BY <1>2, <2>1, <2>2, RestType DEF Inject, TypeOK, locks
<1>3. CASE FinishTurn(m)
  <2>1. pc' \in [Msg -> Phases] /\ waiter' \in [Msg -> Futures]
    BY <1>1, <1>3, PhaseMembers, ResolveType DEF FinishTurn, TypeOK
  <2> QED
    BY <1>1, <1>3, <2>1, LeaveType DEF FinishTurn, TypeOK
<1>4. CASE FailTurn(m)
  <2>1. pc' \in [Msg -> Phases] /\ waiter' \in [Msg -> Futures]
    BY <1>1, <1>4, PhaseMembers, ResolveType DEF FailTurn, TypeOK
  <2> QED
    BY <1>1, <1>4, <2>1, LeaveType DEF FailTurn, TypeOK
<1>5. CASE CancelTurn(m)
  <2>1. pc' \in [Msg -> Phases] /\ waiter' \in [Msg -> Futures]
    BY <1>1, <1>5, PhaseMembers, ResolveType DEF CancelTurn, TypeOK
  <2> QED
    BY <1>1, <1>5, <2>1, LeaveType DEF CancelTurn, TypeOK
<1>6. CASE ContinueTurn(m)
  <2> DEFINE rest == SubSeq(queue[m], Taken(m) + 1, Len(queue[m]))
  <2>1. rest \in Seq(Msg)
    BY RestType
  <2>2. ASSUME NEW c \in Continuations(m), Resolve(m, "answered"),
               Leave(m, Append(rest, c)), UNCHANGED awaiting,
               pc' = [t \in Msg |-> IF t = m THEN "done" ELSE IF t = c THEN "queued"
                                    ELSE IF t \in Injected(m) THEN "injected" ELSE pc[t]]
        PROVE  TypeOK'
    <3> HIDE DEF rest
    <3>1. Append(rest, c) \in Seq(Msg)
      BY <2>1 DEF Continuations
    <3>2. pc' \in [Msg -> Phases]
      BY <2>2, PhaseMembers DEF TypeOK
    <3>3. waiter' \in [Msg -> Futures]
      BY <1>1, <2>2, ResolveType
    <3> QED
      BY <2>2, <3>1, <3>2, <3>3, LeaveType DEF TypeOK
  <2>3. CASE /\ pc' = [t \in Msg |-> IF t = m THEN "putting"
                                     ELSE IF t \in Injected(m) THEN "injected" ELSE pc[t]]
             /\ queue' = [queue EXCEPT ![m] = rest]
             /\ UNCHANGED <<looping, inbound, ready, locks, registered, cycles, deferred,
                            active, cancelled, awaiting, command, waiter>>
    <3>1. pc' \in [Msg -> Phases]
      BY <2>3, PhaseMembers DEF TypeOK
    <3> HIDE DEF rest
    <3> QED
      BY <2>1, <2>3, <3>1 DEF TypeOK, locks
  <2> QED
    BY <1>6, <2>2, <2>3 DEF ContinueTurn
<1>7. CASE BeginReset(m)
  BY <1>7, CancelActiveType, PhaseMembers DEF BeginReset, TypeOK, locks, turns
<1>8. CASE FinishReset(m)
  <2>1. pc' \in [Msg -> Phases] /\ awaiting' \in [Msg -> SUBSET Msg]
    BY <1>8, PhaseMembers DEF FinishReset, TypeOK
  <2> QED
    BY <1>1, <1>8, <2>1, LeaveType DEF FinishReset, TypeOK
<1> QED
  BY <1>2, <1>3, <1>4, <1>5, <1>6, <1>7, <1>8

\* Every variable keeps its type, whatever messages, sessions and limits there are.
THEOREM TypeCorrect == Spec => []TypeOK
<1>1. Init => TypeOK
  <2> SUFFICES ASSUME Init PROVE TypeOK
    OBVIOUS
  <2>1. <<>> \in Seq(Msg) /\ 0 \in 0..InjectCycles /\ "new" \in Phases /\ "none" \in Futures
    BY DispatchAssumption, PhaseMembers DEF Futures
  <2> QED
    BY <2>1 DEF Init, TypeOK
<1>2. TypeOK /\ [Next]_vars => TypeOK'
  <2> SUFFICES ASSUME TypeOK, [Next]_vars PROVE TypeOK'
    OBVIOUS
  <2>1. CASE StartLoop
    BY <2>1 DEF StartLoop, TypeOK, locks, turns
  <2>2. ASSUME NEW m \in Msg, Run(m) \/ Task(m) \/ Environment(m)
        PROVE  TypeOK'
    BY <2>2, RunType, EnvironmentType, EntryType, TurnType DEF Task
  <2>3. CASE UNCHANGED vars
    BY <2>3 DEF vars, locks, turns, TypeOK
  <2> QED
    BY <2>1, <2>2, <2>3 DEF Next
<1> QED
  BY <1>1, <1>2, PTL DEF Spec

----------------------------------------------------------------------------
(* Mutual exclusion of the turns of a session.  OneTurnPerSession is not    *)
(* inductive: it says nothing of the lock.  LockInv ties the two together. *)

LockInv == \A m \in Msg : pc[m] \in Holding => lockOwner[Key[m]] = m

\* A task that enters the lock finds it free, or waits.
LEMMA EnterLockOwner ==
  ASSUME TypeOK, LockInv, NEW m \in Msg, EnterLock(m)
  PROVE  LockInv'
<1>1. Key[m] \in Session /\ m # NoMsg
  BY DispatchAssumption
<1>2. CASE lockOwner[Key[m]] = NoMsg /\ lockOwner' = [lockOwner EXCEPT ![Key[m]] = m] /\ EnterGate(m)
  <2>1. \A t \in Msg \ {m} : pc'[t] = pc[t]
    BY <1>2 DEF EnterGate, BeginTurn, TypeOK
  <2>2. \A t \in Msg : t # NoMsg /\ Key[t] \in Session
    BY DispatchAssumption
  <2> QED
    BY <1>1, <1>2, <2>1, <2>2 DEF LockInv, TypeOK
<1>3. CASE pc' = [pc EXCEPT ![m] = "lockwait"] /\ UNCHANGED lockOwner
  BY <1>3 DEF LockInv, TypeOK, Holding, InTurn
<1> QED
  BY <1>2, <1>3 DEF EnterLock

\* Releasing leaves the lock of every other holder alone.
LEMMA ReleasedOwner ==
  ASSUME TypeOK, LockInv, NEW m \in Msg, lockOwner' = Released(m),
         pc'[m] \notin Holding,
         \A t \in Msg : pc'[t] \in Holding => pc[t] \in Holding
  PROVE  LockInv'
<1> SUFFICES ASSUME NEW t \in Msg, pc'[t] \in Holding
             PROVE  lockOwner'[Key[t]] = t
  BY DEF LockInv
<1>1. t # m /\ lockOwner[Key[t]] = t /\ Key[t] \in Session /\ Key[m] \in Session
  BY DispatchAssumption DEF LockInv
<1> QED
  BY <1>1 DEF Released, TypeOK

\* Nothing else moves a task past the lock.
LEMMA SameOwner ==
  ASSUME LockInv, UNCHANGED lockOwner,
         \A t \in Msg : pc'[t] \in Holding => pc[t] \in Holding
  PROVE  LockInv'
BY DEF LockInv

\* Every step keeps LockInv: the lock moves only with the task that leaves.
LEMMA StepOwner ==
  ASSUME TypeOK, LockInv, NEW m \in Msg, Run(m) \/ Task(m) \/ Environment(m)
  PROVE  LockInv'
<1> USE DEF Holding, InTurn
<1>1. CASE Receive(m)
  <2>1. \A t \in Msg : pc'[t] \in Holding => pc[t] \in Holding
    BY <1>1 DEF Receive, TypeOK
  <2> QED
    BY <1>1, <2>1, SameOwner DEF Receive, locks
<1>2. CASE Submit(m)
  <2>1. CASE EnterLock(m)
    BY <2>1, EnterLockOwner
  <2>2. CASE pc' = [pc EXCEPT ![m] = "queued"] /\ UNCHANGED locks
    BY <2>2, SameOwner DEF TypeOK, locks
  <2> QED
    BY <1>2, <2>1, <2>2 DEF Submit
<1>3. CASE AbandonSubmit(m)
  BY <1>3, SameOwner DEF AbandonSubmit, locks
<1>4. CASE CallDirect(m)
  BY <1>4, EnterLockOwner DEF CallDirect
<1>5. CASE RunInline(m)
  <2>1. \A t \in Msg : pc'[t] \in Holding => pc[t] \in Holding
    BY <1>5 DEF RunInline, TypeOK
  <2> QED
    BY <1>5, <2>1, SameOwner DEF RunInline, locks
<1>6. CASE FinishInline(m)
  <2>1. \A t \in Msg : pc'[t] \in Holding => pc[t] \in Holding
    <3>1. \/ pc' = [pc EXCEPT ![m] = "done"]
          \/ pc' = [t \in Msg |-> IF t = m THEN "done"
                                  ELSE IF t \in Range(queue[registered[Key[m]]])
                                       THEN "discarded" ELSE pc[t]]
      BY <1>6, Zenon DEF FinishInline
    <3> QED
      BY <3>1 DEF TypeOK
  <2> QED
    BY <1>6, <2>1, SameOwner DEF FinishInline, locks
<1>7. CASE Defer(m) \/ Route(m)
  BY <1>7, SameOwner DEF Defer, Route, locks
<1>8. CASE CreateTask(m)
  <2>1. \A t \in Msg : pc'[t] \in Holding => pc[t] \in Holding
    BY <1>8 DEF CreateTask, TypeOK
  <2> QED
    BY <1>8, <2>1, SameOwner DEF CreateTask, locks
<1>9. CASE StartTask(m)
  <2>1. CASE EnterLock(m)
    BY <2>1, EnterLockOwner
  <2>2. CASE pc' = [pc EXCEPT ![m] = "cancelled"] /\ UNCHANGED locks
    BY <2>2, SameOwner DEF TypeOK, locks
  <2> QED
    BY <1>9, <2>1, <2>2 DEF StartTask
<1>10. CASE AcquireLock(m)
  <2>1. \A t \in Msg : t # NoMsg /\ Key[t] \in Session
    BY DispatchAssumption
  <2>2. \A t \in Msg \ {m} : pc'[t] = pc[t]
    BY <1>10 DEF AcquireLock, EnterGate, BeginTurn, TypeOK
  <2>3. /\ lockOwner[Key[m]] = NoMsg
        /\ lockOwner' = [lockOwner EXCEPT ![Key[m]] = m]
    BY <1>10 DEF AcquireLock
  <2> QED
    BY <2>1, <2>2, <2>3 DEF LockInv, TypeOK
<1>11. CASE AcquireGate(m)
  BY <1>11, SameOwner DEF AcquireGate, BeginTurn, TypeOK
<1>12. CASE CancelWaiting(m)
  BY <1>12, ReleasedOwner DEF CancelWaiting, TypeOK
<1>13. CASE Inject(m)
  <2>1. \A t \in Msg : pc'[t] \in Holding => pc[t] \in Holding
    BY <1>13 DEF Inject, TypeOK
  <2> QED
    BY <1>13, <2>1, SameOwner DEF Inject, locks
<1>14. CASE FinishTurn(m) \/ FailTurn(m) \/ CancelTurn(m) \/ FinishReset(m)
  <2>1. /\ pc'[m] \notin Holding
        /\ \A t \in Msg : pc'[t] \in Holding => pc[t] \in Holding
    BY <1>14 DEF FinishTurn, FailTurn, CancelTurn, FinishReset, TypeOK
  <2>2. lockOwner' = Released(m)
    BY <1>14 DEF FinishTurn, FailTurn, CancelTurn, FinishReset, Leave
  <2> QED
    BY <2>1, <2>2, ReleasedOwner
<1>15. CASE ContinueTurn(m)
  <2> DEFINE rest == SubSeq(queue[m], Taken(m) + 1, Len(queue[m]))
  <2>1. ASSUME NEW c \in Continuations(m), Leave(m, Append(rest, c)),
               pc' = [t \in Msg |-> IF t = m THEN "done" ELSE IF t = c THEN "queued"
                                    ELSE IF t \in Injected(m) THEN "injected" ELSE pc[t]]
        PROVE  LockInv'
    <3>1. /\ pc'[m] \notin Holding
          /\ \A t \in Msg : pc'[t] \in Holding => pc[t] \in Holding
      BY <2>1
    <3> QED
      BY <2>1, <3>1, ReleasedOwner DEF Leave
  <2>2. CASE /\ pc' = [t \in Msg |-> IF t = m THEN "putting"
                                     ELSE IF t \in Injected(m) THEN "injected" ELSE pc[t]]
             /\ UNCHANGED lockOwner
    <3>1. pc[m] = "turn"
      BY <1>15 DEF ContinueTurn
    <3> QED
      BY <2>2, <3>1, SameOwner
  <2> QED
    BY <1>15, <2>1, <2>2 DEF ContinueTurn, locks
<1>16. CASE BeginReset(m)
  BY <1>16, SameOwner DEF BeginReset, locks, TypeOK
<1> QED
  BY <1>1, <1>2, <1>3, <1>4, <1>5, <1>6, <1>7, <1>8, <1>9, <1>10, <1>11, <1>12,
     <1>13, <1>14, <1>15, <1>16 DEF Run, Task, Environment

\* Whatever is created, cancelled, requeued or called directly, two turns of one
\* session never run at once.
THEOREM SessionMutualExclusion == Spec => []OneTurnPerSession
<1>1. Init => LockInv
  BY DEF Init, LockInv, Holding, InTurn
<1>2. TypeOK /\ LockInv /\ [Next]_vars => LockInv'
  <2> SUFFICES ASSUME TypeOK, LockInv, [Next]_vars PROVE LockInv'
    OBVIOUS
  <2>1. CASE StartLoop
    BY <2>1 DEF StartLoop, LockInv, locks
  <2>2. CASE UNCHANGED vars
    BY <2>2 DEF vars, locks, LockInv
  <2> QED
    BY <2>1, <2>2, StepOwner DEF Next
<1>3. LockInv => OneTurnPerSession
  BY DEF LockInv, OneTurnPerSession
<1> QED
  BY <1>1, <1>2, <1>3, TypeCorrect, PTL DEF Spec

----------------------------------------------------------------------------
(* The concurrency gate.  Its permits are counted, and every dispatched    *)
(* turn holds one, so GateRespected follows although it counts turns.      *)

GateInv ==
  /\ IsFiniteSet(gate) /\ Cardinality(gate) <= MaxConcurrent
  /\ \A m \in Msg : Kind[m] # "direct" /\ pc[m] \in InTurn => m \in gate

\* A permit is taken only while one is free.
LEMMA BeginTurnGate ==
  ASSUME TypeOK, GateInv, NEW m \in Msg, Cardinality(gate) < MaxConcurrent, BeginTurn(m)
  PROVE  GateInv'
<1>1. gate' = gate \union {m} /\ \A t \in Msg \ {m} : pc'[t] = pc[t]
  BY DEF BeginTurn, TypeOK
<1>2. IsFiniteSet(gate') /\ Cardinality(gate') \in Nat /\ Cardinality(gate) \in Nat
  BY <1>1, FS_AddElement, FS_CardinalityType DEF GateInv
<1>3. Cardinality(gate') = Cardinality(gate) \/ Cardinality(gate') = Cardinality(gate) + 1
  BY <1>1, FS_AddElement DEF GateInv
<1>4. Cardinality(gate') <= MaxConcurrent
  BY <1>2, <1>3, DispatchAssumption DEF GateInv
<1> QED
  BY <1>1, <1>2, <1>4 DEF GateInv

\* A step that starts no turn and frees no permit keeps GateInv.
LEMMA SameGate ==
  ASSUME GateInv, UNCHANGED gate,
         \A t \in Msg : pc'[t] \in InTurn => pc[t] \in InTurn
  PROVE  GateInv'
BY DEF GateInv

\* A direct call runs its turn without a permit; a dispatched task waits for one.
LEMMA EnterGateGate ==
  ASSUME TypeOK, GateInv, NEW m \in Msg, EnterGate(m)
  PROVE  GateInv'
<1>1. CASE GateOpen(m) /\ BeginTurn(m)
  BY <1>1, BeginTurnGate DEF GateOpen
<1>2. CASE Kind[m] = "direct" /\ pc' = [pc EXCEPT ![m] = "turn"] /\ UNCHANGED gate
  BY <1>2 DEF GateInv, TypeOK
<1>3. CASE pc' = [pc EXCEPT ![m] = "gatewait"] /\ UNCHANGED gate
  BY <1>3, SameGate DEF TypeOK, InTurn
<1> QED
  BY <1>1, <1>2, <1>3 DEF EnterGate

\* Waiting for the lock takes no permit.
LEMMA EnterLockGate ==
  ASSUME TypeOK, GateInv, NEW m \in Msg, EnterLock(m)
  PROVE  GateInv'
<1>1. CASE EnterGate(m)
  BY <1>1, EnterGateGate
<1>2. CASE pc' = [pc EXCEPT ![m] = "lockwait"] /\ UNCHANGED gate
  BY <1>2, SameGate DEF TypeOK, InTurn
<1> QED
  BY <1>1, <1>2 DEF EnterLock

\* A turn gives its permit back only in the step in which it ends.
LEMMA LeaveGate ==
  ASSUME TypeOK, GateInv, NEW m \in Msg, gate' = gate \ {m}, pc'[m] \notin InTurn,
         \A t \in Msg : pc'[t] \in InTurn => pc[t] \in InTurn
  PROVE  GateInv'
<1>1. IsFiniteSet(gate') /\ Cardinality(gate') <= Cardinality(gate)
  BY FS_Subset DEF GateInv
<1>2. Cardinality(gate) \in Nat /\ Cardinality(gate') \in Nat
  BY <1>1, FS_CardinalityType DEF GateInv
<1>3. Cardinality(gate') <= MaxConcurrent
  BY <1>1, <1>2, DispatchAssumption DEF GateInv
<1> QED
  BY <1>1, <1>3 DEF GateInv

\* Every step keeps GateInv.
LEMMA StepGate ==
  ASSUME TypeOK, GateInv, NEW m \in Msg, Run(m) \/ Task(m) \/ Environment(m)
  PROVE  GateInv'
<1> USE DEF InTurn
<1>1. CASE Receive(m)
  <2>1. \A t \in Msg : pc'[t] \in InTurn => pc[t] \in InTurn
    BY <1>1 DEF Receive, TypeOK
  <2> QED
    BY <1>1, <2>1, SameGate DEF Receive, locks
<1>2. CASE Submit(m)
  <2>1. CASE EnterLock(m)
    BY <2>1, EnterLockGate
  <2>2. CASE pc' = [pc EXCEPT ![m] = "queued"] /\ UNCHANGED locks
    BY <2>2, SameGate DEF TypeOK, locks
  <2> QED
    BY <1>2, <2>1, <2>2 DEF Submit
<1>3. CASE AbandonSubmit(m)
  BY <1>3, SameGate DEF AbandonSubmit, locks
<1>4. CASE CallDirect(m)
  BY <1>4, EnterLockGate DEF CallDirect
<1>5. CASE RunInline(m)
  <2>1. \A t \in Msg : pc'[t] \in InTurn => pc[t] \in InTurn
    BY <1>5 DEF RunInline, TypeOK
  <2> QED
    BY <1>5, <2>1, SameGate DEF RunInline, locks
<1>6. CASE FinishInline(m)
  <2>1. \A t \in Msg : pc'[t] \in InTurn => pc[t] \in InTurn
    <3>1. \/ pc' = [pc EXCEPT ![m] = "done"]
          \/ pc' = [t \in Msg |-> IF t = m THEN "done"
                                  ELSE IF t \in Range(queue[registered[Key[m]]])
                                       THEN "discarded" ELSE pc[t]]
      BY <1>6, Zenon DEF FinishInline
    <3> QED
      BY <3>1 DEF TypeOK
  <2> QED
    BY <1>6, <2>1, SameGate DEF FinishInline, locks
<1>7. CASE Defer(m) \/ Route(m)
  BY <1>7, SameGate DEF Defer, Route, locks
<1>8. CASE CreateTask(m)
  <2>1. \A t \in Msg : pc'[t] \in InTurn => pc[t] \in InTurn
    BY <1>8 DEF CreateTask, TypeOK
  <2> QED
    BY <1>8, <2>1, SameGate DEF CreateTask, locks
<1>9. CASE StartTask(m)
  <2>1. CASE EnterLock(m)
    BY <2>1, EnterLockGate
  <2>2. CASE pc' = [pc EXCEPT ![m] = "cancelled"] /\ UNCHANGED locks
    BY <2>2, SameGate DEF TypeOK, locks
  <2> QED
    BY <1>9, <2>1, <2>2 DEF StartTask
<1>10. CASE AcquireLock(m)
  BY <1>10, EnterGateGate DEF AcquireLock
<1>11. CASE AcquireGate(m)
  BY <1>11, BeginTurnGate DEF AcquireGate
<1>12. CASE CancelWaiting(m)
  <2>1. \A t \in Msg : pc'[t] \in InTurn => pc[t] \in InTurn
    BY <1>12 DEF CancelWaiting, TypeOK
  <2> QED
    BY <1>12, <2>1, SameGate DEF CancelWaiting
<1>13. CASE Inject(m)
  <2>1. \A t \in Msg : pc'[t] \in InTurn => pc[t] \in InTurn
    BY <1>13 DEF Inject, TypeOK
  <2> QED
    BY <1>13, <2>1, SameGate DEF Inject, locks
<1>14. CASE FinishTurn(m) \/ FailTurn(m) \/ CancelTurn(m) \/ FinishReset(m)
  <2>1. /\ pc'[m] \notin InTurn
        /\ \A t \in Msg : pc'[t] \in InTurn => pc[t] \in InTurn
    BY <1>14 DEF FinishTurn, FailTurn, CancelTurn, FinishReset, TypeOK
  <2>2. gate' = gate \ {m}
    BY <1>14 DEF FinishTurn, FailTurn, CancelTurn, FinishReset, Leave
  <2> QED
    BY <2>1, <2>2, LeaveGate
<1>15. CASE ContinueTurn(m)
  <2> DEFINE rest == SubSeq(queue[m], Taken(m) + 1, Len(queue[m]))
  <2>1. ASSUME NEW c \in Continuations(m), Leave(m, Append(rest, c)),
               pc' = [t \in Msg |-> IF t = m THEN "done" ELSE IF t = c THEN "queued"
                                    ELSE IF t \in Injected(m) THEN "injected" ELSE pc[t]]
        PROVE  GateInv'
    <3>1. /\ pc'[m] \notin InTurn
          /\ \A t \in Msg : pc'[t] \in InTurn => pc[t] \in InTurn
      BY <2>1
    <3> QED
      BY <2>1, <3>1, LeaveGate DEF Leave
  <2>2. CASE /\ pc' = [t \in Msg |-> IF t = m THEN "putting"
                                     ELSE IF t \in Injected(m) THEN "injected" ELSE pc[t]]
             /\ UNCHANGED gate
    <3>1. pc[m] = "turn"
      BY <1>15 DEF ContinueTurn
    <3> QED
      BY <2>2, <3>1, SameGate
  <2> QED
    BY <1>15, <2>1, <2>2 DEF ContinueTurn, locks
<1>16. CASE BeginReset(m)
  BY <1>16, SameGate DEF BeginReset, locks, TypeOK
<1> QED
  BY <1>1, <1>2, <1>3, <1>4, <1>5, <1>6, <1>7, <1>8, <1>9, <1>10, <1>11, <1>12,
     <1>13, <1>14, <1>15, <1>16 DEF Run, Task, Environment

\* NANOBOT_MAX_CONCURRENT_REQUESTS is a bound on the dispatched turns that run
\* at once, whatever is cancelled while it waits for a permit or holds one.
THEOREM ConcurrencyBounded == Spec => []GateRespected
<1>1. Init => GateInv
  <2> SUFFICES ASSUME Init PROVE GateInv
    OBVIOUS
  <2>1. IsFiniteSet(gate) /\ Cardinality(gate) = 0
    BY FS_EmptySet DEF Init
  <2> QED
    BY <2>1, DispatchAssumption DEF Init, GateInv, InTurn
<1>2. TypeOK /\ GateInv /\ [Next]_vars => GateInv'
  <2> SUFFICES ASSUME TypeOK, GateInv, [Next]_vars PROVE GateInv'
    OBVIOUS
  <2>1. CASE StartLoop
    BY <2>1 DEF StartLoop, GateInv, locks
  <2>2. CASE UNCHANGED vars
    BY <2>2 DEF vars, locks, GateInv
  <2> QED
    BY <2>1, <2>2, StepGate DEF Next
<1>3. GateInv => GateRespected
  <2> SUFFICES ASSUME GateInv PROVE GateRespected
    OBVIOUS
  <2> DEFINE running == {m \in Msg : Kind[m] # "direct" /\ pc[m] \in InTurn}
  <2>1. running \subseteq gate
    BY DEF GateInv
  <2>2. Cardinality(running) <= Cardinality(gate) /\ IsFiniteSet(running)
    BY <2>1, FS_Subset DEF GateInv
  <2>3. Cardinality(running) \in Nat /\ Cardinality(gate) \in Nat
    BY <2>2, FS_CardinalityType DEF GateInv
  <2> HIDE DEF running
  <2>4. Cardinality(running) <= MaxConcurrent
    BY <2>2, <2>3, DispatchAssumption DEF GateInv
  <2> QED
    BY <2>4 DEF GateRespected, running
<1> QED
  BY <1>1, <1>2, <1>3, TypeCorrect, PTL DEF Spec

----------------------------------------------------------------------------
(* Automation turns are never injected: a drain takes what is in a queue,  *)
(* so the invariant has to speak of the queues too.                        *)

OnlyFollowUps(q) == \A i \in DOMAIN q : ~Automation(q[i])

AutomationInv ==
  /\ \A t \in Msg : OnlyFollowUps(queue[t])
  /\ AutomationNotInjected

\* Emptying one queue and injecting nothing keeps the invariant.
LEMMA EmptiedQueue ==
  ASSUME TypeOK, AutomationInv, NEW m \in Msg,
         queue' = [queue EXCEPT ![m] = <<>>],
         \A t \in Msg : pc'[t] = "injected" => pc[t] = "injected"
  PROVE  AutomationInv'
<1>1. OnlyFollowUps(<<>>)
  BY DEF OnlyFollowUps
<1> QED
  BY <1>1 DEF AutomationInv, AutomationNotInjected, OnlyFollowUps, Automation, TypeOK

\* A step that injects nothing and leaves the queues alone keeps AutomationInv.
LEMMA SameQueues ==
  ASSUME AutomationInv, UNCHANGED queue,
         \A t \in Msg : pc'[t] = "injected" => pc[t] = "injected"
  PROVE  AutomationInv'
BY DEF AutomationInv, AutomationNotInjected, OnlyFollowUps, Automation

\* What a drain takes, and what it leaves, are follow-ups.
LEMMA DrainedFollowUps ==
  ASSUME TypeOK, AutomationInv, NEW m \in Msg
  PROVE  /\ \A t \in Injected(m) : ~Automation(t)
         /\ OnlyFollowUps(SubSeq(queue[m], Taken(m) + 1, Len(queue[m])))
<1>1. queue[m] \in Seq(Msg) /\ Taken(m) \in 0..Len(queue[m])
  BY RestType DEF TypeOK
<1>2. \A i \in 1..Taken(m) : i \in DOMAIN queue[m]
  BY <1>1
<1>3. \A t \in Injected(m) : ~Automation(t)
  BY <1>2 DEF Injected, AutomationInv, OnlyFollowUps
<1>4. OnlyFollowUps(SubSeq(queue[m], Taken(m) + 1, Len(queue[m])))
  BY RestType DEF AutomationInv, OnlyFollowUps
<1> QED
  BY <1>3, <1>4

\* A task on its way to its turn injects nothing.
LEMMA EnterLockQueues ==
  ASSUME TypeOK, AutomationInv, NEW m \in Msg, EnterLock(m) \/ EnterGate(m), UNCHANGED queue
  PROVE  AutomationInv'
<1>1. \A t \in Msg : pc'[t] = "injected" => pc[t] = "injected"
  <2>1. ASSUME EnterGate(m) PROVE \A t \in Msg : pc'[t] = "injected" => pc[t] = "injected"
    BY <2>1 DEF EnterGate, BeginTurn, TypeOK
  <2>2. ASSUME EnterLock(m), ~EnterGate(m)
        PROVE  \A t \in Msg : pc'[t] = "injected" => pc[t] = "injected"
    BY <2>2 DEF EnterLock, TypeOK
  <2> QED
    BY <2>1, <2>2
<1> QED
  BY <1>1, SameQueues

\* Every step keeps AutomationInv: run() defers what it must not route.
LEMMA StepAutomation ==
  ASSUME TypeOK, AutomationInv, NEW m \in Msg, Run(m) \/ Task(m) \/ Environment(m)
  PROVE  AutomationInv'
<1>1. CASE Receive(m) \/ RunInline(m) \/ CreateTask(m) \/ CancelWaiting(m) \/ BeginReset(m)
  <2>1. \A t \in Msg : pc'[t] = "injected" => pc[t] = "injected"
    BY <1>1 DEF Receive, RunInline, CreateTask, CancelWaiting, BeginReset, TypeOK
  <2> QED
    BY <1>1, <2>1, SameQueues
    DEF Receive, RunInline, CreateTask, CancelWaiting, BeginReset, turns
<1>2. CASE Submit(m)
  <2>1. CASE EnterLock(m)
    BY <1>2, <2>1, EnterLockQueues DEF Submit
  <2>2. CASE pc' = [pc EXCEPT ![m] = "queued"]
    BY <1>2, <2>2, SameQueues DEF Submit, TypeOK
  <2> QED
    BY <1>2, <2>1, <2>2 DEF Submit
<1>3. CASE AbandonSubmit(m) \/ Defer(m) \/ AcquireGate(m)
  <2>1. \A t \in Msg : pc'[t] = "injected" => pc[t] = "injected"
    BY <1>3 DEF AbandonSubmit, Defer, AcquireGate, BeginTurn, TypeOK
  <2> QED
    BY <1>3, <2>1, SameQueues DEF AbandonSubmit, Defer, AcquireGate, turns
<1>4. CASE CallDirect(m) \/ AcquireLock(m)
  BY <1>4, EnterLockQueues DEF CallDirect, AcquireLock
<1>5. CASE StartTask(m)
  <2>1. CASE EnterLock(m)
    BY <1>5, <2>1, EnterLockQueues DEF StartTask
  <2>2. CASE pc' = [pc EXCEPT ![m] = "cancelled"]
    BY <1>5, <2>2, SameQueues DEF StartTask, TypeOK
  <2> QED
    BY <1>5, <2>1, <2>2 DEF StartTask
<1>6. CASE Route(m)
  <2>1. ~Automation(m) /\ registered[Key[m]] \in Msg
    BY <1>6, DispatchAssumption DEF Route, Routable, Deferrable, TypeOK
  <2>2. PICK t \in Msg : queue' = [queue EXCEPT ![t] = Append(@, m)]
    BY <1>6, <2>1 DEF Route
  <2>3. queue[t] \in Seq(Msg) /\ OnlyFollowUps(queue[t])
    BY DEF AutomationInv, TypeOK
  <2>4. OnlyFollowUps(Append(queue[t], m))
    <3> SUFFICES ASSUME NEW i \in DOMAIN Append(queue[t], m)
                 PROVE  ~Automation(Append(queue[t], m)[i])
      BY DEF OnlyFollowUps
    <3>1. CASE i = Len(queue[t]) + 1
      BY <2>1, <2>3, <3>1
    <3>2. CASE i \in DOMAIN queue[t]
      <4>1. Append(queue[t], m)[i] = queue[t][i]
        BY <2>3, <3>2
      <4> QED
        BY <2>3, <3>2, <4>1 DEF OnlyFollowUps
    <3> QED
      BY <2>3, <3>1, <3>2
  <2>5. \A s \in Msg : OnlyFollowUps(queue'[s])
    BY <2>2, <2>4 DEF AutomationInv, TypeOK
  <2>6. UNCHANGED pc
    BY <1>6 DEF Route
  <2> QED
    BY <2>5, <2>6 DEF AutomationInv, AutomationNotInjected, Automation, OnlyFollowUps
<1>7. CASE FinishInline(m)
  <2>1. \/ pc' = [pc EXCEPT ![m] = "done"] /\ UNCHANGED queue
        \/ /\ registered[Key[m]] # NoMsg
           /\ queue' = [queue EXCEPT ![registered[Key[m]]] = <<>>]
           /\ pc' = [t \in Msg |-> IF t = m THEN "done"
                                   ELSE IF t \in Range(queue[registered[Key[m]]])
                                        THEN "discarded" ELSE pc[t]]
    BY <1>7, Zenon DEF FinishInline
  <2>2. \A t \in Msg : pc'[t] = "injected" => pc[t] = "injected"
    BY <2>1 DEF TypeOK
  <2>3. registered[Key[m]] \in Msg \union {NoMsg}
    BY DispatchAssumption DEF TypeOK
  <2> QED
    BY <2>1, <2>2, <2>3, EmptiedQueue, SameQueues
<1>8. CASE Inject(m)
  <2>1. queue' = [queue EXCEPT ![m] = SubSeq(queue[m], Taken(m) + 1, Len(queue[m]))]
    BY <1>8 DEF Inject
  <2>2. \A t \in Msg : pc'[t] = "injected" => pc[t] = "injected" \/ t \in Injected(m)
    BY <1>8 DEF Inject
  <2> QED
    BY <2>1, <2>2, DrainedFollowUps
    DEF AutomationInv, AutomationNotInjected, OnlyFollowUps, Automation, TypeOK
<1>9. CASE FinishTurn(m) \/ FailTurn(m) \/ CancelTurn(m) \/ FinishReset(m)
  <2>1. \A t \in Msg : pc'[t] = "injected" => pc[t] = "injected"
    BY <1>9 DEF FinishTurn, FailTurn, CancelTurn, FinishReset, TypeOK
  <2>2. queue' = [queue EXCEPT ![m] = <<>>]
    BY <1>9 DEF FinishTurn, FailTurn, CancelTurn, FinishReset, Leave
  <2> QED
    BY <2>1, <2>2, EmptiedQueue
<1>10. CASE ContinueTurn(m)
  <2> DEFINE rest == SubSeq(queue[m], Taken(m) + 1, Len(queue[m]))
  <2>1. OnlyFollowUps(rest) /\ OnlyFollowUps(<<>>)
    <3>1. OnlyFollowUps(<<>>)
      BY DEF OnlyFollowUps
    <3>2. OnlyFollowUps(rest)
      BY DrainedFollowUps
    <3> QED
      BY <3>1, <3>2
  <2> HIDE DEF rest
  <2>2. queue' = [queue EXCEPT ![m] = <<>>] \/ queue' = [queue EXCEPT ![m] = rest]
    BY <1>10 DEF ContinueTurn, Leave, rest
  <2>3. \A t \in Msg : OnlyFollowUps(queue'[t])
    BY <2>1, <2>2 DEF AutomationInv, TypeOK
  <2>4. \A t \in Msg : pc'[t] = "injected" => pc[t] = "injected" \/ t \in Injected(m)
    BY <1>10 DEF ContinueTurn
  <2> QED
    BY <2>3, <2>4, DrainedFollowUps
    DEF AutomationInv, AutomationNotInjected, OnlyFollowUps, Automation
<1> QED
  BY <1>1, <1>2, <1>3, <1>4, <1>5, <1>6, <1>7, <1>8, <1>9, <1>10 DEF Run, Task, Environment

\* A cron or trigger turn always gets a turn of its own: it is deferred while
\* the session is busy, and no drain of the runner ever finds it in a queue.
THEOREM AutomationHasItsOwnTurn == Spec => []AutomationNotInjected
<1>1. Init => AutomationInv
  BY DEF Init, AutomationInv, AutomationNotInjected, OnlyFollowUps
<1>2. TypeOK /\ AutomationInv /\ [Next]_vars => AutomationInv'
  <2> SUFFICES ASSUME TypeOK, AutomationInv, [Next]_vars PROVE AutomationInv'
    OBVIOUS
  <2>1. CASE StartLoop
    BY <2>1, SameQueues DEF StartLoop, turns
  <2>2. CASE UNCHANGED vars
    BY <2>2, SameQueues DEF vars, turns
  <2> QED
    BY <2>1, <2>2, StepAutomation DEF Next
<1>3. AutomationInv => AutomationNotInjected
  BY DEF AutomationInv
<1> QED
  BY <1>1, <1>2, <1>3, TypeCorrect, PTL DEF Spec

----------------------------------------------------------------------------
(* Where messages wait.  The bus, the pending queues and the lists of       *)
(* deferred turns are one family of sequences; a step drops the head of     *)
(* one, adds to one, or moves from one to another.                          *)

Bus == <<"bus">>
PendingOf(t) == <<"pending", t>>
DeferredOf(k) == <<"deferred", k>>
Place == {Bus} \union {PendingOf(t) : t \in Msg} \union {DeferredOf(k) : k \in Session}

Family(b, q, d) ==
  [p \in Place |-> IF p = Bus THEN b ELSE IF p[1] = "pending" THEN q[p[2]] ELSE d[p[2]]]

\* No message stands twice in the family.
Scattered(f) ==
  \A p, q \in Place : \A i \in DOMAIN f[p], j \in DOMAIN f[q] :
    f[p][i] = f[q][j] => p = q /\ i = j

Contents(f) == {m \in Msg : \E p \in Place : \E i \in DOMAIN f[p] : f[p][i] = m}

Waits(f, S) == f \in [Place -> Seq(Msg)] /\ Scattered(f) /\ Contents(f) = S

LEMMA Sequence ==
  ASSUME NEW s \in Seq(Msg)
  PROVE  Len(s) \in Nat /\ DOMAIN s = 1..Len(s) /\ \A i \in DOMAIN s : s[i] \in Msg
BY LenProperties, ElementOfSeq

\* Dropping the first n of one place.
LEMMA Dropped ==
  ASSUME NEW f, NEW S, Waits(f, S), NEW p \in Place, NEW n \in 0..Len(f[p])
  PROVE  /\ Waits([f EXCEPT ![p] = SubSeq(f[p], n + 1, Len(f[p]))], S \ {f[p][i] : i \in 1..n})
         /\ {f[p][i] : i \in 1..n} \subseteq S
<1> DEFINE s == f[p]
           r == SubSeq(s, n + 1, Len(s))
           g == [f EXCEPT ![p] = r]
           out == {s[i] : i \in 1..n}
<1>1. s \in Seq(Msg) /\ Len(s) \in Nat /\ DOMAIN s = 1..Len(s) /\ n \in Nat /\ n <= Len(s)
  BY Sequence DEF Waits
<1>2. /\ r \in Seq(Msg) /\ DOMAIN r = 1..Len(s) - n
      /\ \A i \in 1..Len(s) - n : r[i] = s[n + i]
  <2>1. \A i \in n + 1..Len(s) : s[i] \in Msg
    BY <1>1, Sequence
  <2>2. /\ r \in Seq(Msg) /\ Len(r) = (IF n + 1 <= Len(s) THEN Len(s) - (n + 1) + 1 ELSE 0)
        /\ \A i \in 1..Len(s) - (n + 1) + 1 : r[i] = s[n + 1 + i - 1]
    BY <1>1, <2>1, SubSeqProperties
  <2> HIDE DEF r
  <2>3. Len(r) = Len(s) - n /\ DOMAIN r = 1..Len(r)
    BY <1>1, <2>2, Sequence
  <2> QED
    BY <1>1, <2>2, <2>3
<1> HIDE DEF r
<1>3. g \in [Place -> Seq(Msg)] /\ g[p] = r /\ \A q \in Place \ {p} : g[q] = f[q]
  BY <1>2 DEF Waits
<1> HIDE DEF g
\* each message of g was in f, at a place that only shifts
<1>4. \A i \in DOMAIN r : n + i \in DOMAIN s /\ r[i] = s[n + i]
  BY <1>1, <1>2
<1>5. Scattered(g)
  <2> SUFFICES ASSUME NEW a \in Place, NEW b \in Place, NEW i \in DOMAIN g[a], NEW j \in DOMAIN g[b],
                      g[a][i] = g[b][j]
               PROVE  a = b /\ i = j
    BY DEF Scattered
  <2>0. Scattered(f)
    BY DEF Waits
  <2>1. CASE a = p /\ b = p
    <3>1. n + i \in DOMAIN f[p] /\ n + j \in DOMAIN f[p] /\ f[p][n + i] = f[p][n + j]
      BY <1>3, <1>4, <2>1
    <3>2. n + i = n + j
      BY <2>0, <3>1 DEF Scattered
    <3>3. i \in Nat /\ j \in Nat
      BY <1>1, <1>2, <1>3, <2>1
    <3> QED
      BY <1>1, <2>1, <3>2, <3>3
  <2>2. CASE a = p /\ b # p
    <3>1. n + i \in DOMAIN f[p] /\ j \in DOMAIN f[b] /\ f[p][n + i] = f[b][j]
      BY <1>3, <1>4, <2>2
    <3> QED
      BY <2>0, <2>2, <3>1 DEF Scattered
  <2>3. CASE a # p /\ b = p
    <3>1. i \in DOMAIN f[a] /\ n + j \in DOMAIN f[p] /\ f[a][i] = f[p][n + j]
      BY <1>3, <1>4, <2>3
    <3> QED
      BY <2>0, <2>3, <3>1 DEF Scattered
  <2>4. CASE a # p /\ b # p
    BY <1>3, <2>0, <2>4 DEF Scattered
  <2> QED
    BY <2>1, <2>2, <2>3, <2>4
<1>6. Contents(g) = S \ out /\ out \subseteq S
  <2>1. Contents(f) = S /\ Scattered(f)
    BY DEF Waits
  <2>2. ASSUME NEW x \in out
        PROVE  x \in S /\ x \notin Contents(g)
    <3>1. PICK i \in 1..n : x = f[p][i]
      OBVIOUS
    <3>2. i \in DOMAIN f[p] /\ x \in Msg
      BY <1>1, <3>1, Sequence
    <3>3. ASSUME NEW a \in Place, NEW j \in DOMAIN g[a], g[a][j] = x
          PROVE  FALSE
      <4>1. CASE a = p
        <5>1. n + j \in DOMAIN f[p] /\ f[p][n + j] = x /\ j \in 1..Len(s) - n
          BY <1>2, <1>3, <1>4, <3>3, <4>1
        <5>2. n + j = i
          BY <2>1, <3>1, <3>2, <5>1 DEF Scattered
        <5> QED
          BY <1>1, <5>1, <5>2
      <4>2. CASE a # p
        <5>1. j \in DOMAIN f[a] /\ f[a][j] = x
          BY <1>3, <3>3, <4>2
        <5> QED
          BY <2>1, <3>1, <3>2, <4>2, <5>1 DEF Scattered
      <4> QED
        BY <4>1, <4>2
    <3> QED
      BY <2>1, <3>1, <3>2, <3>3 DEF Contents
  <2>3. ASSUME NEW x \in Contents(g)
        PROVE  x \in S
    <3>0. PICK a \in Place : \E i \in DOMAIN g[a] : g[a][i] = x
      BY <2>3 DEF Contents
    <3>1. PICK i \in DOMAIN g[a] : g[a][i] = x
      BY <3>0
    <3>2. CASE a = p
      BY <1>3, <1>4, <2>1, <2>3, <3>1, <3>2 DEF Contents
    <3>3. CASE a # p
      BY <1>3, <2>1, <2>3, <3>1, <3>3 DEF Contents
    <3> QED
      BY <3>2, <3>3
  <2>4. ASSUME NEW x \in S, x \notin out
        PROVE  x \in Contents(g)
    <3>0. PICK a \in Place : \E i \in DOMAIN f[a] : f[a][i] = x /\ x \in Msg
      BY <2>1 DEF Contents
    <3>1. PICK i \in DOMAIN f[a] : f[a][i] = x /\ x \in Msg
      BY <3>0
    <3>2. CASE a = p
      <4>1. ~(i \in 1..n)
        BY <2>4, <3>1, <3>2
      <4> DEFINE j == i - n
      <4>2. j \in 1..Len(s) - n /\ n + j = i
        BY <1>1, <3>1, <3>2, <4>1
      <4>3. j \in DOMAIN g[p] /\ g[p][j] = x
        BY <1>2, <1>3, <3>1, <3>2, <4>2
      <4> HIDE DEF j
      <4> QED
        BY <3>1, <4>3 DEF Contents
    <3>3. CASE a # p
      BY <1>3, <3>1, <3>3 DEF Contents
    <3> QED
      BY <3>2, <3>3
  <2> HIDE DEF out
  <2> QED
    BY <2>2, <2>3, <2>4
<1> QED
  BY <1>3, <1>5, <1>6 DEF Waits, g, r

\* Adding messages that wait nowhere to the end of one place.
LEMMA Extended ==
  ASSUME NEW f, NEW S, Waits(f, S), NEW p \in Place, NEW s \in Seq(Msg),
         \A i, j \in DOMAIN s : s[i] = s[j] => i = j,
         \A i \in DOMAIN s : s[i] \notin S
  PROVE  Waits([f EXCEPT ![p] = f[p] \o s], S \union {s[i] : i \in DOMAIN s})
<1> DEFINE old == f[p]
           r == old \o s
           n == Len(old)
           g == [f EXCEPT ![p] = r]
           new == {s[i] : i \in DOMAIN s}
<1>1. /\ old \in Seq(Msg) /\ n \in Nat /\ DOMAIN old = 1..n
      /\ Len(s) \in Nat /\ DOMAIN s = 1..Len(s) /\ \A i \in DOMAIN s : s[i] \in Msg
  BY Sequence DEF Waits
<1>2. /\ r \in Seq(Msg) /\ DOMAIN r = 1..n + Len(s)
      /\ \A i \in 1..n + Len(s) : r[i] = IF i <= n THEN old[i] ELSE s[i - n]
  <2>1. /\ r \in Seq(Msg) /\ Len(r) = n + Len(s)
        /\ \A i \in 1..n + Len(s) : r[i] = IF i <= n THEN old[i] ELSE s[i - n]
    BY <1>1, ConcatProperties
  <2> HIDE DEF r
  <2> QED
    BY <2>1, Sequence
<1> HIDE DEF r, old, n
<1>3. /\ \A i \in DOMAIN old : i \in DOMAIN r /\ r[i] = old[i]
      /\ \A i \in DOMAIN s : n + i \in DOMAIN r /\ r[n + i] = s[i]
      /\ \A i \in DOMAIN r : \/ i \in DOMAIN old /\ r[i] = old[i]
                             \/ i - n \in DOMAIN s /\ r[i] = s[i - n]
  <2>1. \A i \in DOMAIN old : i \in DOMAIN r /\ r[i] = old[i]
    BY <1>1, <1>2
  <2>2. \A i \in DOMAIN s : n + i \in DOMAIN r /\ r[n + i] = s[i]
    <3> TAKE i \in DOMAIN s
    <3>1. n + i \in 1..n + Len(s) /\ ~(n + i <= n) /\ (n + i) - n = i
      BY <1>1
    <3> QED
      BY <1>2, <3>1
  <2>3. \A i \in DOMAIN r : \/ i \in DOMAIN old /\ r[i] = old[i]
                            \/ i - n \in DOMAIN s /\ r[i] = s[i - n]
    BY <1>1, <1>2
  <2> QED
    BY <2>1, <2>2, <2>3
<1>4. g \in [Place -> Seq(Msg)] /\ g[p] = r /\ old = f[p] /\ \A q \in Place \ {p} : g[q] = f[q]
  BY <1>2 DEF Waits, old
<1> HIDE DEF g
<1>5. Contents(f) = S /\ Scattered(f)
  BY DEF Waits
\* a message of g was in f at the same place, or is one of the new ones
<1>6. ASSUME NEW a \in Place, NEW i \in DOMAIN g[a]
      PROVE  \/ i \in DOMAIN f[a] /\ g[a][i] = f[a][i] /\ g[a][i] \in S
             \/ a = p /\ i - n \in DOMAIN s /\ g[a][i] = s[i - n] /\ g[a][i] \notin S
  <2>1. \A b \in Place : \A j \in DOMAIN f[b] : f[b][j] \in S
    <3>1. \A b \in Place : f[b] \in Seq(Msg)
      BY DEF Waits
    <3> QED
      BY <1>5, <3>1, Sequence DEF Contents
  <2>2. CASE a = p
    BY <1>3, <1>4, <2>1, <2>2
  <2>3. CASE a # p
    BY <1>4, <2>1, <2>3
  <2> QED
    BY <2>2, <2>3
<1>7. Scattered(g)
  <2> SUFFICES ASSUME NEW a \in Place, NEW b \in Place, NEW i \in DOMAIN g[a], NEW j \in DOMAIN g[b],
                      g[a][i] = g[b][j]
               PROVE  a = b /\ i = j
    BY DEF Scattered
  <2>1. CASE g[a][i] \in S
    BY <1>5, <1>6, <2>1 DEF Scattered
  <2>2. CASE g[a][i] \notin S
    <3>1. a = p /\ b = p /\ i - n \in DOMAIN s /\ j - n \in DOMAIN s /\ s[i - n] = s[j - n]
      BY <1>6, <2>2
    <3>2. i - n = j - n
      BY <3>1
    <3>3. i \in Nat /\ j \in Nat
      BY <1>1, <1>2, <1>4, <3>1
    <3> QED
      BY <1>1, <3>1, <3>2, <3>3
  <2> QED
    BY <2>1, <2>2
<1>8. Contents(g) = S \union new
  <2>1. ASSUME NEW x \in Contents(g)
        PROVE  x \in S \union new
    <3>0. PICK a \in Place : \E i \in DOMAIN g[a] : g[a][i] = x
      BY <2>1 DEF Contents
    <3>1. PICK i \in DOMAIN g[a] : g[a][i] = x
      BY <3>0
    <3> QED
      BY <1>6, <3>1
  <2>2. ASSUME NEW x \in S
        PROVE  x \in Contents(g)
    <3>0. PICK a \in Place : \E i \in DOMAIN f[a] : f[a][i] = x /\ x \in Msg
      BY <1>5 DEF Contents
    <3>1. PICK i \in DOMAIN f[a] : f[a][i] = x /\ x \in Msg
      BY <3>0
    <3>2. CASE a = p
      BY <1>3, <1>4, <3>1, <3>2 DEF Contents
    <3>3. CASE a # p
      BY <1>4, <3>1, <3>3 DEF Contents
    <3> QED
      BY <3>2, <3>3
  <2>3. ASSUME NEW x \in new
        PROVE  x \in Contents(g)
    <3>1. PICK i \in DOMAIN s : x = s[i]
      OBVIOUS
    <3>2. x \in Msg /\ n + i \in DOMAIN g[p] /\ g[p][n + i] = x
      BY <1>1, <1>3, <1>4, <3>1
    <3> DEFINE j == n + i
    <3> HIDE DEF j
    <3> QED
      BY <3>2 DEF Contents, j
  <2> HIDE DEF new
  <2> QED
    BY <2>1, <2>2, <2>3
<1> QED
  BY <1>4, <1>7, <1>8 DEF Waits, g, r, old

\* The family of the bus, the pending queues and the deferred turns.
Lists(b, q, d) == b \in Seq(Msg) /\ q \in [Msg -> Seq(Msg)] /\ d \in [Session -> Seq(Msg)]

Flows(b, q, d, S) == Lists(b, q, d) /\ Waits(Family(b, q, d), S)

LEMMA PlaceKinds ==
  /\ Bus \in Place
  /\ \A t \in Msg : PendingOf(t) \in Place
  /\ \A k \in Session : DeferredOf(k) \in Place
  /\ \A t \in Msg : PendingOf(t) # Bus /\ PendingOf(t)[1] = "pending" /\ PendingOf(t)[2] = t
  /\ \A k \in Session : DeferredOf(k) # Bus /\ DeferredOf(k)[1] # "pending" /\ DeferredOf(k)[2] = k
  /\ \A p \in Place : \/ p = Bus
                      \/ \E t \in Msg : p = PendingOf(t)
                      \/ \E k \in Session : p = DeferredOf(k)
<1>1. /\ Bus \in Place
      /\ \A t \in Msg : PendingOf(t) \in Place
      /\ \A k \in Session : DeferredOf(k) \in Place
      /\ \A p \in Place : \/ p = Bus \/ \E t \in Msg : p = PendingOf(t)
                          \/ \E k \in Session : p = DeferredOf(k)
  BY DEF Place
<1>2. Bus[1] = "bus" /\ \A t : PendingOf(t)[1] = "pending" /\ PendingOf(t)[2] = t
  BY DEF Bus, PendingOf
<1>3. \A k : DeferredOf(k)[1] = "deferred" /\ DeferredOf(k)[2] = k
  BY DEF DeferredOf
<1> QED
  BY <1>1, <1>2, <1>3

LEMMA FamilyAt ==
  ASSUME NEW b, NEW q, NEW d, Lists(b, q, d)
  PROVE  /\ Family(b, q, d) \in [Place -> Seq(Msg)]
         /\ Family(b, q, d)[Bus] = b
         /\ \A t \in Msg : Family(b, q, d)[PendingOf(t)] = q[t]
         /\ \A k \in Session : Family(b, q, d)[DeferredOf(k)] = d[k]
<1> DEFINE f == Family(b, q, d)
<1>1. \A p \in Place : f[p] = IF p = Bus THEN b ELSE IF p[1] = "pending" THEN q[p[2]] ELSE d[p[2]]
  BY DEF Family
<1> HIDE DEF f
<1>2. f[Bus] = b /\ (\A t \in Msg : f[PendingOf(t)] = q[t]) /\ \A k \in Session : f[DeferredOf(k)] = d[k]
  BY <1>1, PlaceKinds
<1>3. DOMAIN f = Place /\ f = [p \in Place |-> f[p]]
  BY DEF Family, f
<1>4. \A p \in Place : f[p] \in Seq(Msg)
  BY <1>2, PlaceKinds DEF Lists
<1> QED
  BY <1>2, <1>3, <1>4 DEF f

\* Two families that agree on the bus, the queues and the lists are equal.
LEMMA SameFamily ==
  ASSUME NEW b, NEW q, NEW d, Lists(b, q, d), NEW g \in [Place -> Seq(Msg)],
         g[Bus] = b, \A t \in Msg : g[PendingOf(t)] = q[t], \A k \in Session : g[DeferredOf(k)] = d[k]
  PROVE  g = Family(b, q, d)
<1> DEFINE f == Family(b, q, d)
<1>1. /\ f \in [Place -> Seq(Msg)] /\ f[Bus] = b
      /\ \A t \in Msg : f[PendingOf(t)] = q[t]
  BY FamilyAt
<1>5. \A k \in Session : f[DeferredOf(k)] = d[k]
  BY FamilyAt
<1> HIDE DEF f
<1>2. ASSUME NEW p \in Place
      PROVE  g[p] = f[p]
  <2>1. p = Bus \/ (\E t \in Msg : p = PendingOf(t)) \/ \E k \in Session : p = DeferredOf(k)
    BY PlaceKinds
  <2>2. CASE p = Bus
    BY <1>1, <2>2
  <2>3. CASE \E t \in Msg : p = PendingOf(t)
    <3>1. PICK t \in Msg : p = PendingOf(t)
      BY <2>3
    <3> QED
      BY <1>1, <3>1
  <2>4. CASE \E k \in Session : p = DeferredOf(k)
    <3>1. PICK k \in Session : p = DeferredOf(k)
      BY <2>4
    <3> QED
      BY <1>5, <3>1
  <2> QED
    BY <2>1, <2>2, <2>3, <2>4
<1>3. g = [p \in Place |-> g[p]] /\ f = [p \in Place |-> f[p]]
  BY <1>1
<1>4. g = f
  BY <1>2, <1>3
<1> QED
  BY <1>4 DEF f

\* Replacing one member.
Put(f, p, x) == [f EXCEPT ![p] = x]

LEMMA FamilyExcept ==
  ASSUME NEW b, NEW q, NEW d, Lists(b, q, d), NEW x \in Seq(Msg)
  PROVE  /\ Put(Family(b, q, d), Bus, x) = Family(x, q, d) /\ Lists(x, q, d)
         /\ \A t \in Msg : /\ Put(Family(b, q, d), PendingOf(t), x) = Family(b, Put(q, t, x), d)
                           /\ Lists(b, Put(q, t, x), d)
         /\ \A k \in Session : /\ Put(Family(b, q, d), DeferredOf(k), x) = Family(b, q, Put(d, k, x))
                               /\ Lists(b, q, Put(d, k, x))
<1> DEFINE f == Family(b, q, d)
<1>1. /\ f \in [Place -> Seq(Msg)] /\ f[Bus] = b
      /\ \A t \in Msg : f[PendingOf(t)] = q[t]
      /\ \A k \in Session : f[DeferredOf(k)] = d[k]
  BY FamilyAt
<1> HIDE DEF f
<1>2. [f EXCEPT ![Bus] = x] = Family(x, q, d) /\ Lists(x, q, d)
  <2> DEFINE g == [f EXCEPT ![Bus] = x]
  <2>1. g \in [Place -> Seq(Msg)] /\ g[Bus] = x /\ \A p \in Place \ {Bus} : g[p] = f[p]
    BY <1>1, PlaceKinds
  <2>2. Lists(x, q, d)
    BY DEF Lists
  <2> HIDE DEF g
  <2>4. (\A t \in Msg : g[PendingOf(t)] = q[t]) /\ \A k \in Session : g[DeferredOf(k)] = d[k]
    BY <1>1, <2>1, PlaceKinds
  <2>3. g = Family(x, q, d)
    BY <2>1, <2>2, <2>4, SameFamily
  <2> QED
    BY <2>2, <2>3 DEF g
<1>3. ASSUME NEW t \in Msg
      PROVE  [f EXCEPT ![PendingOf(t)] = x] = Family(b, [q EXCEPT ![t] = x], d) /\ Lists(b, [q EXCEPT ![t] = x], d)
  <2> DEFINE g == [f EXCEPT ![PendingOf(t)] = x]
             r == [q EXCEPT ![t] = x]
  <2>1. g \in [Place -> Seq(Msg)] /\ g[PendingOf(t)] = x /\ \A p \in Place \ {PendingOf(t)} : g[p] = f[p]
    BY <1>1, PlaceKinds
  <2>2. Lists(b, r, d) /\ r[t] = x /\ \A u \in Msg \ {t} : r[u] = q[u]
    BY DEF Lists
  <2>3. \A u \in Msg : PendingOf(u) = PendingOf(t) => u = t
    BY DEF PendingOf
  <2>4. Bus # PendingOf(t) /\ \A k \in Session : DeferredOf(k) # PendingOf(t)
    BY PlaceKinds
  <2> HIDE DEF g, r
  <2>5. g[Bus] = b /\ (\A u \in Msg : g[PendingOf(u)] = r[u]) /\ \A k \in Session : g[DeferredOf(k)] = d[k]
    BY <1>1, <2>1, <2>2, <2>3, <2>4, PlaceKinds
  <2>6. g = Family(b, r, d)
    BY <2>1, <2>2, <2>5, SameFamily
  <2> QED
    BY <2>2, <2>6 DEF g, r
<1>4. ASSUME NEW k \in Session
      PROVE  /\ [f EXCEPT ![DeferredOf(k)] = x] = Family(b, q, [d EXCEPT ![k] = x])
             /\ Lists(b, q, [d EXCEPT ![k] = x])
  <2> DEFINE g == [f EXCEPT ![DeferredOf(k)] = x]
             r == [d EXCEPT ![k] = x]
  <2>1. g \in [Place -> Seq(Msg)] /\ g[DeferredOf(k)] = x /\ \A p \in Place \ {DeferredOf(k)} : g[p] = f[p]
    BY <1>1, PlaceKinds
  <2>2. Lists(b, q, r) /\ r[k] = x /\ \A u \in Session \ {k} : r[u] = d[u]
    BY DEF Lists
  <2>3. \A u \in Session : DeferredOf(u) = DeferredOf(k) => u = k
    BY DEF DeferredOf
  <2>4. Bus # DeferredOf(k) /\ \A t \in Msg : PendingOf(t) # DeferredOf(k)
    BY PlaceKinds
  <2> HIDE DEF g, r
  <2>5. g[Bus] = b /\ (\A t \in Msg : g[PendingOf(t)] = q[t]) /\ \A u \in Session : g[DeferredOf(u)] = r[u]
    BY <1>1, <2>1, <2>2, <2>3, <2>4, PlaceKinds
  <2>6. g = Family(b, q, r)
    BY <2>1, <2>2, <2>5, SameFamily
  <2> QED
    BY <2>2, <2>6 DEF g, r
<1> QED
  BY <1>2, <1>3, <1>4 DEF f, Put

----------------------------------------------------------------------------
(* The moves a step makes.                                                 *)

\* s can be added to a family that holds S.
Fresh(s, S) == /\ \A i, j \in DOMAIN s : s[i] = s[j] => i = j
               /\ \A i \in DOMAIN s : s[i] \notin S

First(s, n) == {s[i] : i \in 1..n}
Rest(s, n) == SubSeq(s, n + 1, Len(s))

LEMMA RestSeq ==
  ASSUME NEW s \in Seq(Msg), NEW n \in 0..Len(s)
  PROVE  /\ Rest(s, n) \in Seq(Msg) /\ Len(Rest(s, n)) = Len(s) - n
         /\ \A i \in DOMAIN Rest(s, n) : n + i \in DOMAIN s /\ Rest(s, n)[i] = s[n + i]
<1> DEFINE r == Rest(s, n)
<1>1. Len(s) \in Nat /\ n \in Nat /\ n <= Len(s) /\ DOMAIN s = 1..Len(s)
  BY Sequence
<1>2. \A i \in n + 1..Len(s) : s[i] \in Msg
  BY <1>1, Sequence
<1>3. /\ r \in Seq(Msg) /\ Len(r) = (IF n + 1 <= Len(s) THEN Len(s) - (n + 1) + 1 ELSE 0)
      /\ \A i \in 1..Len(s) - (n + 1) + 1 : r[i] = s[n + 1 + i - 1]
  BY <1>1, <1>2, SubSeqProperties DEF Rest
<1> HIDE DEF r
<1>4. Len(r) = Len(s) - n /\ DOMAIN r = 1..Len(r)
  BY <1>1, <1>3, Sequence
<1>5. \A i \in DOMAIN r : n + i \in DOMAIN s /\ r[i] = s[n + i]
  BY <1>1, <1>3, <1>4
<1> QED
  BY <1>3, <1>4, <1>5 DEF r

LEMMA DroppedAt ==
  ASSUME NEW f, NEW S, Waits(f, S), NEW p \in Place, NEW s, s = f[p], NEW n \in 0..Len(s)
  PROVE  Waits(Put(f, p, Rest(s, n)), S \ First(s, n)) /\ First(s, n) \subseteq S
BY Dropped DEF Put, Rest, First

LEMMA ExtendedAt ==
  ASSUME NEW f, NEW S, Waits(f, S), NEW p \in Place, NEW old, old = f[p],
         NEW s \in Seq(Msg), Fresh(s, S)
  PROVE  Waits(Put(f, p, old \o s), S \union Range(s))
<1>1. \A i, j \in DOMAIN s : s[i] = s[j] => i = j
  BY DEF Fresh
<1>2. \A i \in DOMAIN s : s[i] \notin S
  BY DEF Fresh
<1>3. Waits([f EXCEPT ![p] = f[p] \o s], S \union {s[i] : i \in DOMAIN s})
  BY <1>1, <1>2, Extended
<1> QED
  BY <1>3 DEF Put, Range

\* The first n messages of the bus, of a queue or of a deferred list are taken.
LEMMA DropBus ==
  ASSUME NEW b, NEW q, NEW d, NEW S, Flows(b, q, d, S), NEW n \in 0..Len(b)
  PROVE  /\ Flows(Rest(b, n), q, d, S \ First(b, n))
         /\ First(b, n) \subseteq S
<1> DEFINE f == Family(b, q, d)
           x == Rest(b, n)
<1>1. Lists(b, q, d) /\ Waits(f, S) /\ f[Bus] = b /\ Bus \in Place
  BY FamilyAt, PlaceKinds DEF Flows
<1>2. b \in Seq(Msg)
  BY <1>1 DEF Lists
<1>3. x \in Seq(Msg)
  BY <1>2, RestSeq
<1> HIDE DEF x
<1>4. Put(f, Bus, x) = Family(x, q, d) /\ Lists(x, q, d)
  BY <1>1, <1>3, FamilyExcept
<1> HIDE DEF f
<1>5. Waits(Put(f, Bus, x), S \ First(b, n)) /\ First(b, n) \subseteq S
  BY <1>1, DroppedAt DEF x
<1> QED
  BY <1>4, <1>5 DEF Flows, f, x

LEMMA DropQueue ==
  ASSUME NEW b, NEW q, NEW d, NEW S, Flows(b, q, d, S), NEW t \in Msg, NEW n \in 0..Len(q[t])
  PROVE  /\ Flows(b, Put(q, t, Rest(q[t], n)), d, S \ First(q[t], n))
         /\ First(q[t], n) \subseteq S
<1> DEFINE f == Family(b, q, d)
           x == Rest(q[t], n)
<1>1. Lists(b, q, d) /\ Waits(f, S) /\ f[PendingOf(t)] = q[t] /\ PendingOf(t) \in Place
  BY FamilyAt, PlaceKinds DEF Flows
<1>2. q[t] \in Seq(Msg)
  BY <1>1 DEF Lists
<1>3. x \in Seq(Msg)
  BY <1>2, RestSeq
<1> HIDE DEF x
<1>4. Put(f, PendingOf(t), x) = Family(b, Put(q, t, x), d) /\ Lists(b, Put(q, t, x), d)
  BY <1>1, <1>3, FamilyExcept
<1> HIDE DEF f
<1>5. Waits(Put(f, PendingOf(t), x), S \ First(q[t], n)) /\ First(q[t], n) \subseteq S
  BY <1>1, DroppedAt DEF x
<1> QED
  BY <1>4, <1>5 DEF Flows, f, x

LEMMA DropDeferred ==
  ASSUME NEW b, NEW q, NEW d, NEW S, Flows(b, q, d, S), NEW k \in Session, NEW n \in 0..Len(d[k])
  PROVE  /\ Flows(b, q, Put(d, k, Rest(d[k], n)), S \ First(d[k], n))
         /\ First(d[k], n) \subseteq S
<1> DEFINE f == Family(b, q, d)
           x == Rest(d[k], n)
<1>1. Lists(b, q, d) /\ Waits(f, S) /\ f[DeferredOf(k)] = d[k] /\ DeferredOf(k) \in Place
  BY FamilyAt, PlaceKinds DEF Flows
<1>2. d[k] \in Seq(Msg)
  BY <1>1 DEF Lists
<1>3. x \in Seq(Msg)
  BY <1>2, RestSeq
<1> HIDE DEF x
<1>4. Put(f, DeferredOf(k), x) = Family(b, q, Put(d, k, x)) /\ Lists(b, q, Put(d, k, x))
  BY <1>1, <1>3, FamilyExcept
<1> HIDE DEF f
<1>5. Waits(Put(f, DeferredOf(k), x), S \ First(d[k], n)) /\ First(d[k], n) \subseteq S
  BY <1>1, DroppedAt DEF x
<1> QED
  BY <1>4, <1>5 DEF Flows, f, x

\* Fresh messages are added to the bus, to a queue or to a deferred list.
LEMMA ExtendBus ==
  ASSUME NEW b, NEW q, NEW d, NEW S, Flows(b, q, d, S), NEW s \in Seq(Msg), Fresh(s, S)
  PROVE  Flows(b \o s, q, d, S \union Range(s))
<1> DEFINE f == Family(b, q, d)
           x == b \o s
<1>1. Lists(b, q, d) /\ Waits(f, S) /\ f[Bus] = b /\ Bus \in Place
  BY FamilyAt, PlaceKinds DEF Flows
<1>2. b \in Seq(Msg)
  BY <1>1 DEF Lists
<1>3. x \in Seq(Msg)
  BY <1>2, ConcatProperties
<1> HIDE DEF x
<1>4. Put(f, Bus, x) = Family(x, q, d) /\ Lists(x, q, d)
  BY <1>1, <1>3, FamilyExcept
<1> HIDE DEF f
<1>5. Waits(Put(f, Bus, x), S \union Range(s))
  BY <1>1, ExtendedAt DEF x
<1> QED
  BY <1>4, <1>5 DEF Flows, f, x

LEMMA ExtendQueue ==
  ASSUME NEW b, NEW q, NEW d, NEW S, Flows(b, q, d, S), NEW t \in Msg, NEW s \in Seq(Msg), Fresh(s, S)
  PROVE  Flows(b, Put(q, t, q[t] \o s), d, S \union Range(s))
<1> DEFINE f == Family(b, q, d)
           x == q[t] \o s
<1>1. Lists(b, q, d) /\ Waits(f, S) /\ f[PendingOf(t)] = q[t] /\ PendingOf(t) \in Place
  BY FamilyAt, PlaceKinds DEF Flows
<1>2. q[t] \in Seq(Msg)
  BY <1>1 DEF Lists
<1>3. x \in Seq(Msg)
  BY <1>2, ConcatProperties
<1> HIDE DEF x
<1>4. Put(f, PendingOf(t), x) = Family(b, Put(q, t, x), d) /\ Lists(b, Put(q, t, x), d)
  BY <1>1, <1>3, FamilyExcept
<1> HIDE DEF f
<1>5. Waits(Put(f, PendingOf(t), x), S \union Range(s))
  BY <1>1, ExtendedAt DEF x
<1> QED
  BY <1>4, <1>5 DEF Flows, f, x

LEMMA ExtendDeferred ==
  ASSUME NEW b, NEW q, NEW d, NEW S, Flows(b, q, d, S), NEW k \in Session, NEW s \in Seq(Msg), Fresh(s, S)
  PROVE  Flows(b, q, Put(d, k, d[k] \o s), S \union Range(s))
<1> DEFINE f == Family(b, q, d)
           x == d[k] \o s
<1>1. Lists(b, q, d) /\ Waits(f, S) /\ f[DeferredOf(k)] = d[k] /\ DeferredOf(k) \in Place
  BY FamilyAt, PlaceKinds DEF Flows
<1>2. d[k] \in Seq(Msg)
  BY <1>1 DEF Lists
<1>3. x \in Seq(Msg)
  BY <1>2, ConcatProperties
<1> HIDE DEF x
<1>4. Put(f, DeferredOf(k), x) = Family(b, q, Put(d, k, x)) /\ Lists(b, q, Put(d, k, x))
  BY <1>1, <1>3, FamilyExcept
<1> HIDE DEF f
<1>5. Waits(Put(f, DeferredOf(k), x), S \union Range(s))
  BY <1>1, ExtendedAt DEF x
<1> QED
  BY <1>4, <1>5 DEF Flows, f, x

LEMMA HeadTaken ==
  ASSUME NEW s \in Seq(Msg), s # <<>>
  PROVE  /\ 1 \in 0..Len(s) /\ Rest(s, 1) = Tail(s) /\ First(s, 1) = {Head(s)}
         /\ Head(s) \in Msg /\ Tail(s) \in Seq(Msg)
<1>1. Len(s) \in Nat \ {0} /\ Head(s) = s[1]
  BY EmptySeq
<1>2. Head(s) \in Msg /\ Tail(s) \in Seq(Msg) /\ Tail(s) = SubSeq(s, 2, Len(s))
  BY HeadTailProperties, TailIsSubSeq
<1>3. First(s, 1) = {Head(s)}
  <2>1. \A i : i \in 1..1 <=> i = 1
    OBVIOUS
  <2> QED
    BY <1>1, <2>1 DEF First
<1> QED
  BY <1>1, <1>2, <1>3 DEF Rest

LEMMA AllTaken ==
  ASSUME NEW s \in Seq(Msg)
  PROVE  Len(s) \in 0..Len(s) /\ Rest(s, Len(s)) = <<>> /\ First(s, Len(s)) = Range(s)
<1>1. Len(s) \in Nat /\ DOMAIN s = 1..Len(s)
  BY Sequence
<1> QED
  BY <1>1, SubSeqEmpty DEF Rest, First, Range

LEMMA OneFresh ==
  ASSUME NEW m \in Msg, NEW S, m \notin S
  PROVE  <<m>> \in Seq(Msg) /\ Fresh(<<m>>, S) /\ Range(<<m>>) = {m}
<1>1. <<m>> \in Seq(Msg) /\ DOMAIN <<m>> = {1} /\ <<m>>[1] = m
  OBVIOUS
<1> DEFINE s == <<m>>
<1> HIDE DEF s
<1>2. Fresh(s, S) /\ Range(s) = {m}
  BY <1>1 DEF Fresh, Range, s
<1> QED
  BY <1>1, <1>2 DEF s

\* What stands in one place stands nowhere else.
LEMMA DistinctInQueue ==
  ASSUME NEW b, NEW q, NEW d, NEW S, Flows(b, q, d, S), NEW t \in Msg
  PROVE  q[t] \in Seq(Msg) /\ Fresh(q[t], S \ Range(q[t])) /\ Range(q[t]) \subseteq S
<1> DEFINE f == Family(b, q, d)
<1>1. Lists(b, q, d) /\ Waits(f, S) /\ f[PendingOf(t)] = q[t] /\ PendingOf(t) \in Place
  BY FamilyAt, PlaceKinds DEF Flows
<1> HIDE DEF f
<1>2. q[t] \in Seq(Msg)
  BY <1>1 DEF Lists
<1>3. \A i, j \in DOMAIN q[t] : q[t][i] = q[t][j] => i = j
  BY <1>1 DEF Waits, Scattered
<1>4. \A i \in DOMAIN q[t] : q[t][i] \in S
  BY <1>1, <1>2, Sequence DEF Waits, Contents
<1> QED
  BY <1>2, <1>3, <1>4 DEF Fresh, Range

LEMMA DistinctDeferred ==
  ASSUME NEW b, NEW q, NEW d, NEW S, Flows(b, q, d, S), NEW k \in Session, d[k] # <<>>
  PROVE  Head(d[k]) \in S /\ d[k] \in Seq(Msg)
<1>1. d[k] \in Seq(Msg)
  BY DEF Flows, Lists
<1> QED
  BY <1>1, HeadTaken, DropDeferred

\* run() takes the head of the bus.
LEMMA TakenFromBus ==
  ASSUME NEW b, NEW q, NEW d, NEW S, Flows(b, q, d, S), b # <<>>
  PROVE  Head(b) \in S /\ Head(b) \in Msg /\ Flows(Tail(b), q, d, S \ {Head(b)})
<1>1. b \in Seq(Msg)
  BY DEF Flows, Lists
<1>2. 1 \in 0..Len(b) /\ Rest(b, 1) = Tail(b) /\ First(b, 1) = {Head(b)} /\ Head(b) \in Msg
  BY <1>1, HeadTaken
<1>3. Flows(Rest(b, 1), q, d, S \ First(b, 1)) /\ First(b, 1) \subseteq S
  BY <1>2, DropBus
<1> QED
  BY <1>2, <1>3

\* A message that waits nowhere is put on the bus, in a queue or in a deferred list.
LEMMA PutOnBus ==
  ASSUME NEW b, NEW q, NEW d, NEW S, Flows(b, q, d, S), NEW m \in Msg, m \notin S
  PROVE  Flows(Append(b, m), q, d, S \union {m}) /\ Append(b, m) = b \o <<m>>
<1>1. b \in Seq(Msg)
  BY DEF Flows, Lists
<1>2. Flows(b \o <<m>>, q, d, S \union Range(<<m>>)) /\ Range(<<m>>) = {m}
  BY OneFresh, ExtendBus
<1> QED
  BY <1>1, <1>2, AppendIsConcat

LEMMA PutInQueue ==
  ASSUME NEW b, NEW q, NEW d, NEW S, Flows(b, q, d, S), NEW t \in Msg, NEW m \in Msg, m \notin S
  PROVE  Flows(b, Put(q, t, Append(q[t], m)), d, S \union {m})
<1>1. q[t] \in Seq(Msg)
  BY DEF Flows, Lists
<1>2. Flows(b, Put(q, t, q[t] \o <<m>>), d, S \union Range(<<m>>)) /\ Range(<<m>>) = {m}
  BY OneFresh, ExtendQueue
<1>3. Append(q[t], m) = q[t] \o <<m>>
  BY <1>1, AppendIsConcat
<1> QED
  BY <1>2, <1>3

LEMMA PutDeferred ==
  ASSUME NEW b, NEW q, NEW d, NEW S, Flows(b, q, d, S), NEW k \in Session, NEW m \in Msg, m \notin S
  PROVE  Flows(b, q, Put(d, k, Append(d[k], m)), S \union {m})
<1>1. d[k] \in Seq(Msg)
  BY DEF Flows, Lists
<1>2. Flows(b, q, Put(d, k, d[k] \o <<m>>), S \union Range(<<m>>)) /\ Range(<<m>>) = {m}
  BY OneFresh, ExtendDeferred
<1>3. Append(d[k], m) = d[k] \o <<m>>
  BY <1>1, AppendIsConcat
<1> QED
  BY <1>2, <1>3

\* A queue is dropped, or its messages go back to the bus.
LEMMA QueueDropped ==
  ASSUME NEW b, NEW q, NEW d, NEW S, Flows(b, q, d, S), NEW t \in Msg
  PROVE  Flows(b, Put(q, t, <<>>), d, S \ Range(q[t])) /\ Range(q[t]) \subseteq S
<1>1. q[t] \in Seq(Msg)
  BY DEF Flows, Lists
<1>2. Len(q[t]) \in 0..Len(q[t]) /\ Rest(q[t], Len(q[t])) = <<>> /\ First(q[t], Len(q[t])) = Range(q[t])
  BY <1>1, AllTaken
<1>3. /\ Flows(b, Put(q, t, Rest(q[t], Len(q[t]))), d, S \ First(q[t], Len(q[t])))
      /\ First(q[t], Len(q[t])) \subseteq S
  BY <1>2, DropQueue
<1> QED
  BY <1>2, <1>3

LEMMA QueueReturned ==
  ASSUME NEW b, NEW q, NEW d, NEW S, Flows(b, q, d, S), NEW t \in Msg
  PROVE  Flows(b \o q[t], Put(q, t, <<>>), d, S)
<1> DEFINE s == q[t]
           r == Put(q, t, <<>>)
           O == S \ Range(s)
<1>1. s \in Seq(Msg) /\ Fresh(s, O) /\ Range(s) \subseteq S
  BY DistinctInQueue
<1>2. Flows(b, r, d, O)
  BY QueueDropped
<1>3. O \union Range(s) = S
  BY <1>1
<1> HIDE DEF s, r, O
<1>4. Flows(b \o s, r, d, O \union Range(s))
  BY <1>1, <1>2, ExtendBus
<1> QED
  BY <1>3, <1>4 DEF s, r

\* publish_next_deferred_turn: one deferred turn goes back to the bus.
LEMMA DeferredReturned ==
  ASSUME NEW b, NEW q, NEW d, NEW S, Flows(b, q, d, S), NEW k \in Session, d[k] # <<>>
  PROVE  Flows(b \o <<Head(d[k])>>, q, Put(d, k, Tail(d[k])), S)
<1> DEFINE s == d[k]
           h == Head(s)
           r == Put(d, k, Tail(s))
           O == S \ {h}
<1>1. s \in Seq(Msg) /\ s # <<>>
  BY DEF Flows, Lists
<1>2. 1 \in 0..Len(s) /\ Rest(s, 1) = Tail(s) /\ First(s, 1) = {h} /\ h \in Msg
  BY <1>1, HeadTaken
<1>3. Flows(b, q, r, O) /\ h \in S
  BY <1>2, DropDeferred
<1> HIDE DEF h, r, s
<1>4. Flows(b \o <<h>>, q, r, O \union {h})
  <2>1. h \notin O
    OBVIOUS
  <2> HIDE DEF O
  <2>2. Flows(Append(b, h), q, r, O \union {h}) /\ Append(b, h) = b \o <<h>>
    BY <1>2, <1>3, <2>1, PutOnBus
  <2> QED
    BY <2>2
<1>5. O \union {h} = S
  BY <1>3
<1> QED
  BY <1>4, <1>5 DEF h, r, s

LEMMA Woken ==
  ASSUME NEW q, NEW S, NEW k \in Session, NEW rest,
         Flows(inbound \o rest, q, deferred, S), WakeNext(k, rest)
  PROVE  Flows(inbound', q, deferred', S)
<1> DEFINE b == inbound \o rest
           s == deferred[k]
<1>1. b \in Seq(Msg) /\ deferred \in [Session -> Seq(Msg)] /\ s \in Seq(Msg)
  BY DEF Flows, Lists
<1>2. /\ inbound' = b \o (IF s = <<>> THEN <<>> ELSE <<Head(s)>>)
      /\ deferred' = [deferred EXCEPT ![k] = IF s = <<>> THEN s ELSE Tail(s)]
  BY DEF WakeNext
<1>3. Flows(b, q, deferred, S)
  OBVIOUS
<1> HIDE DEF b
<1>4. CASE s = <<>>
  <2>1. inbound' = b /\ deferred' = deferred
    BY <1>1, <1>2, <1>4, ConcatEmptySeq
  <2> QED
    BY <1>3, <2>1
<1>5. CASE s # <<>>
  <2>1. inbound' = b \o <<Head(s)>> /\ deferred' = Put(deferred, k, Tail(s))
    BY <1>2, <1>5 DEF Put
  <2>2. Flows(b \o <<Head(s)>>, q, Put(deferred, k, Tail(s)), S)
    BY <1>3, <1>5, DeferredReturned
  <2> QED
    BY <2>1, <2>2
<1> QED
  BY <1>4, <1>5

----------------------------------------------------------------------------
(* No message is lost on its way.  FlowInv names what the places hold: the  *)
(* messages whose phase is "queued", each once.  The rest is what it takes  *)
(* to keep it: a created task stands once in ready, the command that runs   *)
(* inline is not queued, a registered queue belongs to a dispatched turn    *)
(* of its session, and process_direct has no queue of its own.              *)

Queued == {m \in Msg : pc[m] = "queued"}

FlowInv == Flows(inbound, queue, deferred, Queued)

ReadyInv == /\ \A i \in DOMAIN ready : pc[ready[i]] = "created"
            /\ \A i, j \in DOMAIN ready : ready[i] = ready[j] => i = j

CommandInv == command # NoMsg => pc[command] = "inline"

RegisteredInv ==
  \A k \in Session : registered[k] # NoMsg =>
    /\ Key[registered[k]] = k /\ Kind[registered[k]] # "direct"
    /\ pc[registered[k]] \in InTurn

DirectInv == \A m \in Msg : Kind[m] = "direct" => queue[m] = <<>>

PlaceInv == FlowInv /\ ReadyInv /\ CommandInv /\ RegisteredInv /\ DirectInv

\* process_direct takes no permit, so it never waits for one.
GateWaitInv == \A m \in Msg : pc[m] = "gatewait" => Kind[m] # "direct"

LEMMA StepGateWait ==
  ASSUME TypeOK, GateWaitInv, NEW m \in Msg, Run(m) \/ Task(m) \/ Environment(m)
  PROVE  GateWaitInv'
<1>1. CASE EnterLock(m) \/ EnterGate(m)
  BY <1>1 DEF EnterLock, EnterGate, BeginTurn, TypeOK, GateWaitInv
<1>2. CASE \A t \in Msg : pc'[t] = "gatewait" => pc[t] = "gatewait"
  BY <1>2 DEF GateWaitInv
<1>3. CASE Environment(m)
  BY <1>1, <1>2, <1>3 DEF Environment, Receive, Submit, AbandonSubmit, CallDirect, TypeOK
<1>4. CASE RunInline(m) \/ Defer(m) \/ Route(m) \/ CreateTask(m)
  BY <1>2, <1>4 DEF RunInline, Defer, Route, CreateTask, TypeOK
<1>5. CASE FinishInline(m)
  <2>1. \/ pc' = [pc EXCEPT ![m] = "done"]
        \/ pc' = [t \in Msg |-> IF t = m THEN "done"
                                ELSE IF t \in Range(queue[registered[Key[m]]])
                                     THEN "discarded" ELSE pc[t]]
    BY <1>5, Zenon DEF FinishInline
  <2> QED
    BY <1>2, <2>1 DEF TypeOK
<1>6. CASE StartTask(m)
  BY <1>1, <1>2, <1>6 DEF StartTask, TypeOK
<1>7. CASE AcquireLock(m)
  BY <1>1, <1>7 DEF AcquireLock
<1>8. CASE AcquireGate(m) \/ CancelWaiting(m) \/ BeginReset(m)
  BY <1>2, <1>8 DEF AcquireGate, BeginTurn, CancelWaiting, BeginReset, TypeOK
<1>9. CASE Inject(m)
  BY <1>2, <1>9 DEF Inject
<1>10. CASE FinishTurn(m) \/ FailTurn(m) \/ CancelTurn(m) \/ FinishReset(m)
  BY <1>2, <1>10 DEF FinishTurn, FailTurn, CancelTurn, FinishReset, TypeOK
<1>11. CASE ContinueTurn(m)
  BY <1>2, <1>11 DEF ContinueTurn
<1> QED
  BY <1>3, <1>4, <1>5, <1>6, <1>7, <1>8, <1>9, <1>10, <1>11 DEF Run, Task

\* What a task does between taking its first step and its turn.
LEMMA EnteredPhase ==
  ASSUME TypeOK, NEW m \in Msg, EnterLock(m) \/ EnterGate(m)
  PROVE  /\ pc'[m] \in {"turn", "gatewait", "lockwait"}
         /\ \A t \in Msg \ {m} : pc'[t] = pc[t]
         /\ \/ registered' = registered
            \/ /\ registered' = [registered EXCEPT ![Key[m]] = m]
               /\ pc'[m] = "turn" /\ Kind[m] # "direct"
<1>1. ASSUME EnterGate(m)
      PROVE  /\ pc'[m] \in {"turn", "gatewait", "lockwait"}
             /\ \A t \in Msg \ {m} : pc'[t] = pc[t]
             /\ \/ registered' = registered
                \/ /\ registered' = [registered EXCEPT ![Key[m]] = m]
                   /\ pc'[m] = "turn" /\ Kind[m] # "direct"
  BY <1>1 DEF EnterGate, BeginTurn, TypeOK
<1>2. ASSUME pc' = [pc EXCEPT ![m] = "lockwait"], UNCHANGED registered
      PROVE  /\ pc'[m] \in {"turn", "gatewait", "lockwait"}
             /\ \A t \in Msg \ {m} : pc'[t] = pc[t]
             /\ registered' = registered
  BY <1>2 DEF TypeOK
<1> QED
  BY <1>1, <1>2 DEF EnterLock

\* Nothing moves, nothing starts or stops waiting.
LEMMA SamePlaces ==
  ASSUME FlowInv, UNCHANGED <<inbound, queue, deferred>>,
         \A t \in Msg : pc'[t] = "queued" <=> pc[t] = "queued"
  PROVE  FlowInv'
<1>1. Queued' = Queued
  BY DEF Queued
<1> QED
  BY <1>1 DEF FlowInv

LEMMA SameReady ==
  ASSUME ReadyInv, TypeOK, UNCHANGED ready, \A t \in Msg : pc[t] = "created" => pc'[t] = "created"
  PROVE  ReadyInv'
<1>1. \A i \in DOMAIN ready : ready[i] \in Msg
  BY Sequence DEF TypeOK
<1> QED
  BY <1>1 DEF ReadyInv

LEMMA SameCommand ==
  ASSUME CommandInv, TypeOK, UNCHANGED command, \A t \in Msg : pc[t] = "inline" => pc'[t] = "inline"
  PROVE  CommandInv'
BY DEF CommandInv, TypeOK

LEMMA SameRegistered ==
  ASSUME RegisteredInv, TypeOK, UNCHANGED registered,
         \A t \in Msg : pc[t] \in InTurn => pc'[t] \in InTurn
  PROVE  RegisteredInv'
<1> SUFFICES ASSUME NEW k \in Session, registered[k] # NoMsg
             PROVE  /\ Key[registered[k]] = k /\ Kind[registered[k]] # "direct"
                    /\ pc'[registered[k]] \in InTurn
  BY DEF RegisteredInv
<1>1. registered[k] \in Msg
  BY DEF TypeOK
<1> QED
  BY <1>1 DEF RegisteredInv

LEMMA BegunRegistered ==
  ASSUME RegisteredInv, TypeOK, NEW m \in Msg, registered' = [registered EXCEPT ![Key[m]] = m],
         pc'[m] = "turn", Kind[m] # "direct", \A t \in Msg : pc[t] \in InTurn => pc'[t] \in InTurn
  PROVE  RegisteredInv'
<1> SUFFICES ASSUME NEW k \in Session, registered'[k] # NoMsg
             PROVE  /\ Key[registered'[k]] = k /\ Kind[registered'[k]] # "direct"
                    /\ pc'[registered'[k]] \in InTurn
  BY DEF RegisteredInv
<1>1. registered[k] \in Msg \union {NoMsg} /\ Key[m] \in Session
  BY DispatchAssumption DEF TypeOK
<1>2. CASE k = Key[m]
  BY <1>1, <1>2 DEF TypeOK, InTurn
<1>3. CASE k # Key[m]
  BY <1>1, <1>3 DEF TypeOK, RegisteredInv
<1> QED
  BY <1>2, <1>3

LEMMA LeftRegistered ==
  ASSUME RegisteredInv, TypeOK, NEW m \in Msg, registered' = Unregistered(m),
         \A t \in Msg \ {m} : pc[t] \in InTurn => pc'[t] \in InTurn
  PROVE  RegisteredInv'
<1> SUFFICES ASSUME NEW k \in Session, registered'[k] # NoMsg
             PROVE  /\ Key[registered'[k]] = k /\ Kind[registered'[k]] # "direct"
                    /\ pc'[registered'[k]] \in InTurn
  BY DEF RegisteredInv
<1>1. registered[k] \in Msg \union {NoMsg} /\ Key[m] \in Session
  BY DispatchAssumption DEF TypeOK
<1>2. registered'[k] = registered[k] /\ registered[k] # NoMsg
  BY <1>1 DEF Unregistered, TypeOK
<1>3. registered[k] # m
  BY <1>1, <1>2 DEF Unregistered, TypeOK, RegisteredInv
<1> QED
  BY <1>1, <1>2, <1>3 DEF RegisteredInv

\* The three parts that a step of a task to its turn cannot disturb.
LEMMA Entered ==
  ASSUME TypeOK, PlaceInv, NEW m \in Msg, EnterLock(m) \/ EnterGate(m),
         pc[m] \in {"new", "created", "lockwait"}, UNCHANGED <<inbound, queue, deferred, command>>
  PROVE  FlowInv' /\ CommandInv' /\ RegisteredInv' /\ DirectInv'
<1>1. /\ pc'[m] \in {"turn", "gatewait", "lockwait"}
      /\ \A t \in Msg \ {m} : pc'[t] = pc[t]
      /\ \/ registered' = registered
         \/ /\ registered' = [registered EXCEPT ![Key[m]] = m]
            /\ pc'[m] = "turn" /\ Kind[m] # "direct"
  BY EnteredPhase
<1>2. /\ \A t \in Msg : pc'[t] = "queued" <=> pc[t] = "queued"
      /\ \A t \in Msg : pc[t] = "inline" => pc'[t] = "inline"
      /\ \A t \in Msg : pc[t] \in InTurn => pc'[t] \in InTurn
  BY <1>1 DEF InTurn
<1>3. FlowInv' /\ CommandInv' /\ DirectInv'
  BY <1>2, SamePlaces, SameCommand DEF PlaceInv, DirectInv
<1>4. RegisteredInv'
  BY <1>1, <1>2, SameRegistered, BegunRegistered DEF PlaceInv
<1> QED
  BY <1>3, <1>4

\* A producer hands its message to the bus, or runs it as a task of its own.
LEMMA EnvironmentPlaces ==
  ASSUME TypeOK, PlaceInv, NEW m \in Msg, Environment(m)
  PROVE  PlaceInv'
<1>1. ASSUME pc[m] = "new", inbound' = Append(inbound, m), pc' = [pc EXCEPT ![m] = "queued"],
             UNCHANGED <<ready, queue, registered, deferred, command>>
      PROVE  PlaceInv'
  <2>1. /\ m \notin Queued /\ Queued' = Queued \union {m}
        /\ \A t \in Msg : pc[t] = "created" => pc'[t] = "created"
        /\ \A t \in Msg : pc[t] = "inline" => pc'[t] = "inline"
        /\ \A t \in Msg : pc[t] \in InTurn => pc'[t] \in InTurn
    BY <1>1 DEF Queued, TypeOK, InTurn
  <2> DEFINE S == Queued
  <2>2. Flows(inbound, queue, deferred, S) /\ m \notin S
    BY <2>1 DEF PlaceInv, FlowInv
  <2> HIDE DEF S
  <2>3. Flows(Append(inbound, m), queue, deferred, S \union {m})
    BY <2>2, PutOnBus
  <2>4. FlowInv'
    BY <1>1, <2>1, <2>3 DEF FlowInv, S
  <2>5. ReadyInv' /\ CommandInv' /\ RegisteredInv' /\ DirectInv'
    BY <1>1, <2>1, SameReady, SameCommand, SameRegistered DEF PlaceInv, DirectInv
  <2> QED
    BY <2>4, <2>5 DEF PlaceInv
<1>2. ASSUME pc[m] = "new", EnterLock(m), UNCHANGED <<inbound, ready, queue, deferred, command>>
      PROVE  PlaceInv'
  <2>1. FlowInv' /\ CommandInv' /\ RegisteredInv' /\ DirectInv'
    BY <1>2, Entered
  <2>2. \A t \in Msg : pc[t] = "created" => pc'[t] = "created"
    BY <1>2, EnteredPhase
  <2> QED
    BY <1>2, <2>1, <2>2, SameReady DEF PlaceInv
<1>3. CASE Receive(m)
  BY <1>1, <1>3 DEF Receive, turns
<1>4. CASE Submit(m)
  BY <1>1, <1>2, <1>4 DEF Submit
<1>5. CASE AbandonSubmit(m)
  BY <1>5, SamePlaces, SameReady, SameCommand, SameRegistered
  DEF AbandonSubmit, turns, PlaceInv, DirectInv
<1>6. CASE CallDirect(m)
  BY <1>2, <1>6 DEF CallDirect
<1> QED
  BY <1>3, <1>4, <1>5, <1>6 DEF Environment

\* What run() consumes was queued, and is nowhere once it is off the bus.
LEMMA Consumed ==
  ASSUME TypeOK, PlaceInv, NEW m \in Msg, Consuming(m)
  PROVE  /\ pc[m] = "queued" /\ command = NoMsg
         /\ Flows(inbound', queue, deferred, Queued \ {m}) /\ m \notin Queued \ {m}
<1> DEFINE S == Queued
<1>1. inbound # <<>> /\ m = Head(inbound) /\ inbound' = Tail(inbound) /\ command = NoMsg
  BY DEF Consuming
<1>2. Flows(inbound, queue, deferred, S)
  BY DEF PlaceInv, FlowInv
<1> HIDE DEF S
<1>3. m \in S /\ Flows(Tail(inbound), queue, deferred, S \ {m})
  BY <1>1, <1>2, TakenFromBus
<1>4. pc[m] = "queued"
  BY <1>3 DEF S, Queued
<1> QED
  BY <1>1, <1>3, <1>4 DEF S

LEMMA DeferPlaces ==
  ASSUME TypeOK, PlaceInv, NEW m \in Msg, Defer(m)
  PROVE  PlaceInv'
<1> DEFINE S == Queued \ {m}
<1>1. /\ Consuming(m) /\ deferred' = Put(deferred, Key[m], Append(deferred[Key[m]], m))
      /\ UNCHANGED <<queue, pc, ready, command, registered>> /\ Key[m] \in Session
  BY DispatchAssumption DEF Defer, Put, turns
<1>2. Flows(inbound', queue, deferred, S) /\ m \notin S /\ S \union {m} = Queued
  BY <1>1, Consumed DEF Queued
<1> HIDE DEF S
<1>3. Flows(inbound', queue, Put(deferred, Key[m], Append(deferred[Key[m]], m)), S \union {m})
  BY <1>1, <1>2, PutDeferred
<1>4. FlowInv'
  BY <1>1, <1>2, <1>3 DEF FlowInv, Queued
<1> QED
  BY <1>1, <1>4, SameReady, SameCommand, SameRegistered DEF PlaceInv, DirectInv

LEMMA RoutePlaces ==
  ASSUME TypeOK, PlaceInv, NEW m \in Msg, Route(m)
  PROVE  PlaceInv'
<1> DEFINE S == Queued \ {m}
           o == registered[Key[m]]
<1>1. /\ Consuming(m) /\ queue' = Put(queue, o, Append(queue[o], m)) /\ o # NoMsg
      /\ UNCHANGED <<deferred, pc, ready, command, registered>> /\ Key[m] \in Session
  BY DispatchAssumption DEF Route, Routable, Put
<1>2. Flows(inbound', queue, deferred, S) /\ m \notin S /\ S \union {m} = Queued
  BY <1>1, Consumed DEF Queued
<1>3. o \in Msg /\ Kind[o] # "direct"
  BY <1>1 DEF TypeOK, PlaceInv, RegisteredInv
<1> HIDE DEF S, o
<1>4. Flows(inbound', Put(queue, o, Append(queue[o], m)), deferred, S \union {m})
  BY <1>2, <1>3, PutInQueue
<1>5. FlowInv'
  BY <1>1, <1>2, <1>4 DEF FlowInv, Queued
<1>6. DirectInv'
  BY <1>1, <1>3 DEF DirectInv, PlaceInv, Put, TypeOK
<1> QED
  BY <1>1, <1>5, <1>6, SameReady, SameCommand, SameRegistered DEF PlaceInv

LEMMA InlinePlaces ==
  ASSUME TypeOK, PlaceInv, NEW m \in Msg, RunInline(m)
  PROVE  PlaceInv'
<1>1. /\ Consuming(m) /\ pc' = [pc EXCEPT ![m] = "inline"] /\ command' = m
      /\ UNCHANGED <<queue, deferred, ready, registered>>
  BY DEF RunInline, turns
<1>2. pc[m] = "queued" /\ Flows(inbound', queue, deferred, Queued \ {m})
  BY <1>1, Consumed
<1>3. /\ Queued' = Queued \ {m} /\ pc'[m] = "inline"
      /\ \A t \in Msg : pc[t] = "created" => pc'[t] = "created"
      /\ \A t \in Msg : pc[t] \in InTurn => pc'[t] \in InTurn
  BY <1>1, <1>2 DEF Queued, InTurn, TypeOK
<1>4. FlowInv'
  BY <1>1, <1>2, <1>3 DEF FlowInv
<1> QED
  BY <1>1, <1>3, <1>4, SameReady, SameRegistered DEF PlaceInv, DirectInv, CommandInv

LEMMA CreatePlaces ==
  ASSUME TypeOK, PlaceInv, NEW m \in Msg, CreateTask(m)
  PROVE  PlaceInv'
<1>1. /\ Consuming(m) /\ pc' = [pc EXCEPT ![m] = "created"] /\ ready' = Append(ready, m)
      /\ UNCHANGED <<queue, deferred, command, registered>>
  BY DEF CreateTask, turns
<1>2. pc[m] = "queued" /\ Flows(inbound', queue, deferred, Queued \ {m})
  BY <1>1, Consumed
<1>3. /\ Queued' = Queued \ {m} /\ pc'[m] = "created"
      /\ \A t \in Msg : pc[t] = "created" => pc'[t] = "created"
      /\ \A t \in Msg : pc[t] = "inline" => pc'[t] = "inline"
      /\ \A t \in Msg : pc[t] \in InTurn => pc'[t] \in InTurn
  BY <1>1, <1>2 DEF Queued, InTurn, TypeOK
<1>4. FlowInv'
  BY <1>1, <1>2, <1>3 DEF FlowInv
<1>5. ReadyInv'
  <2>1. ready \in Seq(Msg) /\ Len(ready) \in Nat /\ DOMAIN ready = 1..Len(ready)
    BY Sequence DEF TypeOK
  <2>2. \A i \in DOMAIN ready : ready[i] \in Msg /\ pc[ready[i]] = "created" /\ ready[i] # m
    BY <1>2, <2>1, Sequence DEF PlaceInv, ReadyInv
  <2>3. /\ DOMAIN ready' = 1..Len(ready) + 1 /\ ready'[Len(ready) + 1] = m
        /\ \A i \in 1..Len(ready) : ready'[i] = ready[i]
    BY <1>1, <2>1, AppendProperties
  <2>4. \A i \in DOMAIN ready' : pc'[ready'[i]] = "created"
    BY <1>3, <2>1, <2>2, <2>3
  <2>5. \A i, j \in DOMAIN ready' : ready'[i] = ready'[j] => i = j
    <3>1. \A i, j \in DOMAIN ready : ready[i] = ready[j] => i = j
      BY DEF PlaceInv, ReadyInv
    <3> QED
      BY <2>1, <2>2, <2>3, <3>1
  <2> QED
    BY <2>4, <2>5 DEF ReadyInv
<1> QED
  BY <1>1, <1>3, <1>4, <1>5, SameCommand, SameRegistered DEF PlaceInv, DirectInv

\* The end of /stop discards what waits in the queue it drops, and nothing else.
LEMMA FinishInlinePlaces ==
  ASSUME TypeOK, PlaceInv, NEW m \in Msg, FinishInline(m)
  PROVE  PlaceInv'
<1> DEFINE k == Key[m]
           o == registered[k]
<1>1. /\ command = m /\ command' = NoMsg /\ pc[m] = "inline" /\ k \in Session /\ m # NoMsg
      /\ UNCHANGED <<inbound, ready, deferred>>
  BY DispatchAssumption DEF FinishInline, PlaceInv, CommandInv
<1>2. CASE pc' = [pc EXCEPT ![m] = "done"] /\ UNCHANGED <<registered, queue>>
  <2>1. /\ \A t \in Msg : pc'[t] = "queued" <=> pc[t] = "queued"
        /\ \A t \in Msg : pc[t] = "created" => pc'[t] = "created"
        /\ \A t \in Msg : pc[t] \in InTurn => pc'[t] \in InTurn
    BY <1>1, <1>2 DEF InTurn, TypeOK
  <2> QED
    BY <1>1, <1>2, <2>1, SamePlaces, SameReady, SameRegistered DEF PlaceInv, CommandInv, DirectInv
<1>3. CASE /\ o # NoMsg
           /\ registered' = [registered EXCEPT ![k] = NoMsg]
           /\ queue' = [queue EXCEPT ![o] = <<>>]
           /\ pc' = [t \in Msg |-> IF t = m THEN "done"
                                   ELSE IF t \in Range(queue[o]) THEN "discarded" ELSE pc[t]]
  <2>1. o \in Msg
    BY <1>1, <1>3 DEF TypeOK
  <2> DEFINE S == Queued
             out == Range(queue[o])
  <2>2. Flows(inbound, queue, deferred, S)
    BY DEF PlaceInv, FlowInv
  <2> HIDE DEF S
  <2>3. Flows(inbound, Put(queue, o, <<>>), deferred, S \ out) /\ out \subseteq S
    BY <2>1, <2>2, QueueDropped
  <2> HIDE DEF out
  <2>4. pc' = [t \in Msg |-> IF t = m THEN "done" ELSE IF t \in out THEN "discarded" ELSE pc[t]]
    BY <1>3 DEF out
  <2>5. \A t \in out : pc[t] = "queued" /\ t \in Msg
    BY <2>3 DEF S, Queued
  <2>6. /\ Queued' = S \ out
        /\ \A t \in Msg : pc[t] = "created" => pc'[t] = "created"
        /\ \A t \in Msg : pc[t] \in InTurn => pc'[t] \in InTurn
    BY <1>1, <2>4, <2>5 DEF S, Queued, InTurn
  <2>7. FlowInv'
    BY <1>1, <1>3, <2>3, <2>6 DEF FlowInv, Put
  <2>8. RegisteredInv'
    <3> SUFFICES ASSUME NEW l \in Session, registered'[l] # NoMsg
                 PROVE  /\ Key[registered'[l]] = l /\ Kind[registered'[l]] # "direct"
                        /\ pc'[registered'[l]] \in InTurn
      BY DEF RegisteredInv
    <3>1. registered'[l] = registered[l] /\ registered[l] \in Msg
      BY <1>3 DEF TypeOK
    <3> QED
      BY <2>6, <3>1 DEF PlaceInv, RegisteredInv
  <2>9. DirectInv'
    BY <1>3, <2>1 DEF DirectInv, PlaceInv, TypeOK
  <2> QED
    BY <1>1, <2>6, <2>7, <2>8, <2>9, SameReady DEF PlaceInv, CommandInv
<1> QED
  BY <1>2, <1>3, Zenon DEF FinishInline

\* The head of ready is created, and is not created twice.
LEMMA Started ==
  ASSUME TypeOK, PlaceInv, NEW m \in Msg, StartTask(m), pc'[m] # "queued",
         \A t \in Msg \ {m} : pc'[t] = pc[t]
  PROVE  pc[m] = "created" /\ ReadyInv'
<1>1. ready \in Seq(Msg) /\ ready # <<>> /\ m = Head(ready) /\ ready' = Tail(ready)
  BY DEF StartTask, TypeOK
<1>2. Len(ready) \in Nat \ {0} /\ DOMAIN ready = 1..Len(ready) /\ m = ready[1]
  BY <1>1, EmptySeq, Sequence
<1>3. pc[m] = "created"
  BY <1>2 DEF PlaceInv, ReadyInv
<1>4. DOMAIN ready' = 1..Len(ready) - 1 /\ \A i \in 1..Len(ready) - 1 : ready'[i] = ready[i + 1]
  <2>1. Tail(ready) \in Seq(Msg) /\ Len(Tail(ready)) = Len(ready) - 1
        /\ \A i \in 1..Len(Tail(ready)) : Tail(ready)[i] = ready[i + 1]
    BY <1>1, HeadTailProperties
  <2> QED
    BY <1>1, <1>2, <2>1, Sequence
<1>5. \A i \in DOMAIN ready' : i + 1 \in DOMAIN ready /\ ready'[i] = ready[i + 1] /\ i + 1 # 1
  BY <1>2, <1>4
<1>6. \A i, j \in DOMAIN ready : ready[i] = ready[j] => i = j
  BY DEF PlaceInv, ReadyInv
<1>7. \A i \in DOMAIN ready' : pc'[ready'[i]] = "created"
  <2> TAKE i \in DOMAIN ready'
  <2>1. i + 1 \in DOMAIN ready /\ ready'[i] = ready[i + 1] /\ ready[i + 1] # m
    BY <1>2, <1>5, <1>6
  <2>2. ready[i + 1] \in Msg /\ pc[ready[i + 1]] = "created"
    BY <1>1, <2>1, Sequence DEF PlaceInv, ReadyInv
  <2> QED
    BY <2>1, <2>2
<1>8. \A i, j \in DOMAIN ready' : ready'[i] = ready'[j] => i = j
  <2> TAKE i \in DOMAIN ready', j \in DOMAIN ready'
  <2>1. ready'[i] = ready'[j] => i + 1 = j + 1
    BY <1>5, <1>6
  <2> QED
    BY <1>2, <1>4, <2>1
<1> QED
  BY <1>3, <1>7, <1>8 DEF ReadyInv

LEMMA StartPlaces ==
  ASSUME TypeOK, PlaceInv, NEW m \in Msg, StartTask(m)
  PROVE  PlaceInv'
<1>1. UNCHANGED <<inbound, queue, deferred, command>>
  BY DEF StartTask
<1>2. CASE EnterLock(m)
  <2>1. pc'[m] # "queued" /\ \A t \in Msg \ {m} : pc'[t] = pc[t]
    BY <1>2, EnteredPhase
  <2>2. pc[m] = "created" /\ ReadyInv'
    BY <2>1, Started
  <2> QED
    BY <1>1, <1>2, <2>2, Entered DEF PlaceInv
<1>3. CASE pc' = [pc EXCEPT ![m] = "cancelled"] /\ UNCHANGED registered
  <2>1. pc'[m] = "cancelled" /\ \A t \in Msg \ {m} : pc'[t] = pc[t]
    BY <1>3 DEF TypeOK
  <2>2. pc[m] = "created" /\ ReadyInv'
    BY <2>1, Started
  <2>3. /\ \A t \in Msg : pc'[t] = "queued" <=> pc[t] = "queued"
        /\ \A t \in Msg : pc[t] = "inline" => pc'[t] = "inline"
        /\ \A t \in Msg : pc[t] \in InTurn => pc'[t] \in InTurn
    BY <2>1, <2>2 DEF InTurn
  <2> QED
    BY <1>1, <1>3, <2>2, <2>3, SamePlaces, SameCommand, SameRegistered DEF PlaceInv, DirectInv
<1> QED
  BY <1>2, <1>3 DEF StartTask

LEMMA AcquirePlaces ==
  ASSUME TypeOK, PlaceInv, GateWaitInv, NEW m \in Msg, AcquireLock(m) \/ AcquireGate(m)
  PROVE  PlaceInv'
<1>1. CASE AcquireLock(m)
  <2>1. EnterGate(m) /\ pc[m] = "lockwait" /\ UNCHANGED <<inbound, ready, queue, deferred, command>>
    BY <1>1 DEF AcquireLock
  <2>2. \A t \in Msg : pc[t] = "created" => pc'[t] = "created"
    BY <2>1, EnteredPhase
  <2> QED
    BY <2>1, <2>2, Entered, SameReady DEF PlaceInv
<1>2. CASE AcquireGate(m) /\ Kind[m] # "direct"
  <2>1. /\ BeginTurn(m) /\ pc[m] = "gatewait"
        /\ UNCHANGED <<inbound, ready, queue, deferred, command>>
    BY <1>2 DEF AcquireGate
  <2>2. /\ pc'[m] = "turn"
        /\ \A t \in Msg : pc'[t] = "queued" <=> pc[t] = "queued"
        /\ \A t \in Msg : pc[t] = "created" => pc'[t] = "created"
        /\ \A t \in Msg : pc[t] = "inline" => pc'[t] = "inline"
        /\ \A t \in Msg : pc[t] \in InTurn => pc'[t] \in InTurn
    BY <2>1 DEF BeginTurn, InTurn, TypeOK
  <2>3. RegisteredInv'
    BY <1>2, <2>1, <2>2, BegunRegistered DEF BeginTurn, PlaceInv
  <2> QED
    BY <2>1, <2>2, <2>3, SamePlaces, SameReady, SameCommand DEF PlaceInv, DirectInv
<1>3. AcquireGate(m) => Kind[m] # "direct"
  BY DEF AcquireGate, GateWaitInv
<1> QED
  BY <1>1, <1>2, <1>3

\* A task that stops waiting hands one deferred turn back to the bus.
LEMMA CancelWaitingPlaces ==
  ASSUME TypeOK, PlaceInv, NEW m \in Msg, CancelWaiting(m)
  PROVE  PlaceInv'
<1>1. /\ pc[m] \in {"lockwait", "gatewait"} /\ pc' = [pc EXCEPT ![m] = "cancelled"]
      /\ WakeNext(Key[m], <<>>) /\ Key[m] \in Session
      /\ UNCHANGED <<ready, queue, registered, command>>
  BY DispatchAssumption DEF CancelWaiting, turns
<1>2. /\ \A t \in Msg : pc'[t] = "queued" <=> pc[t] = "queued"
      /\ \A t \in Msg : pc[t] = "created" => pc'[t] = "created"
      /\ \A t \in Msg : pc[t] = "inline" => pc'[t] = "inline"
      /\ \A t \in Msg : pc[t] \in InTurn => pc'[t] \in InTurn
  BY <1>1 DEF InTurn, TypeOK
<1>3. inbound \o <<>> = inbound
  BY ConcatEmptySeq DEF TypeOK
<1> DEFINE S == Queued
<1>4. Flows(inbound \o <<>>, queue, deferred, S)
  BY <1>3 DEF PlaceInv, FlowInv
<1>5. Queued' = S
  BY <1>2 DEF Queued
<1> HIDE DEF S
<1>6. Flows(inbound', queue, deferred', S)
  BY <1>1, <1>4, Woken
<1>7. FlowInv'
  BY <1>1, <1>5, <1>6 DEF FlowInv
<1> QED
  BY <1>1, <1>2, <1>7, SameReady, SameCommand, SameRegistered DEF PlaceInv, DirectInv

\* What a drain takes is queued, and what it leaves still waits.
LEMMA Drained ==
  ASSUME TypeOK, PlaceInv, NEW m \in Msg
  PROVE  /\ Flows(inbound, Put(queue, m, Rest(queue[m], Taken(m))), deferred, Queued \ Injected(m))
         /\ \A t \in Injected(m) : t \in Msg /\ pc[t] = "queued"
<1> DEFINE S == Queued
           n == Taken(m)
<1>1. n \in 0..Len(queue[m]) /\ Flows(inbound, queue, deferred, S) /\ Injected(m) = First(queue[m], n)
  BY RestType DEF PlaceInv, FlowInv, Injected, First
<1> HIDE DEF S, n
<1>2. /\ Flows(inbound, Put(queue, m, Rest(queue[m], n)), deferred, S \ First(queue[m], n))
      /\ First(queue[m], n) \subseteq S
  BY <1>1, DropQueue
<1> QED
  BY <1>1, <1>2 DEF S, n, Queued

LEMMA InjectPlaces ==
  ASSUME TypeOK, PlaceInv, NEW m \in Msg, Inject(m)
  PROVE  PlaceInv'
<1> DEFINE out == Injected(m)
<1>1. /\ queue' = Put(queue, m, Rest(queue[m], Taken(m)))
      /\ pc' = [t \in Msg |-> IF t \in out THEN "injected" ELSE pc[t]]
      /\ UNCHANGED <<inbound, deferred, ready, registered, command>> /\ Taken(m) > 0
  BY DEF Inject, Put, Rest
<1>2. /\ Flows(inbound, Put(queue, m, Rest(queue[m], Taken(m))), deferred, Queued \ out)
      /\ \A t \in out : t \in Msg /\ pc[t] = "queued"
  BY Drained
<1>3. Kind[m] # "direct"
  <2>1. Taken(m) \in 0..Len(queue[m]) /\ (queue[m] = <<>> => Len(queue[m]) = 0)
    BY RestType
  <2>2. queue[m] # <<>>
    BY <1>1, <2>1
  <2> QED
    BY <2>2 DEF PlaceInv, DirectInv
<1> HIDE DEF out
<1>4. /\ Queued' = Queued \ out
      /\ \A t \in Msg : pc[t] = "created" => pc'[t] = "created"
      /\ \A t \in Msg : pc[t] = "inline" => pc'[t] = "inline"
      /\ \A t \in Msg : pc[t] \in InTurn => pc'[t] \in InTurn
  BY <1>1, <1>2 DEF InTurn, Queued
<1>5. FlowInv'
  BY <1>1, <1>2, <1>4 DEF FlowInv
<1>6. DirectInv'
  BY <1>1, <1>3 DEF PlaceInv, DirectInv, Put, TypeOK
<1> QED
  BY <1>1, <1>4, <1>5, <1>6, SameReady, SameCommand, SameRegistered DEF PlaceInv

\* The end of _dispatch, with the messages of the queue as leftovers.
LEMMA LeavePlaces ==
  ASSUME TypeOK, PlaceInv, NEW m \in Msg, Leave(m, queue[m]), pc[m] \in InTurn,
         pc'[m] \in {"done", "failed", "cancelled"}, \A t \in Msg \ {m} : pc'[t] = pc[t]
  PROVE  PlaceInv'
<1>1. /\ registered' = Unregistered(m) /\ queue' = Put(queue, m, <<>>)
      /\ IF Kind[m] = "direct" THEN UNCHANGED <<inbound, deferred>> ELSE WakeNext(Key[m], queue[m])
      /\ UNCHANGED <<ready, command>> /\ Key[m] \in Session
  BY DispatchAssumption DEF Leave, Put
<1>2. /\ \A t \in Msg : pc'[t] = "queued" <=> pc[t] = "queued"
      /\ \A t \in Msg : pc[t] = "created" => pc'[t] = "created"
      /\ \A t \in Msg : pc[t] = "inline" => pc'[t] = "inline"
  BY DEF InTurn
<1> DEFINE S == Queued
<1>3. Queued' = S
  BY <1>2 DEF Queued
<1>4. Flows(inbound, queue, deferred, S)
  BY DEF PlaceInv, FlowInv
<1> HIDE DEF S
<1>5. ASSUME Kind[m] = "direct" PROVE FlowInv'
  <2>1. queue[m] = <<>> /\ queue \in [Msg -> Seq(Msg)]
    BY <1>5 DEF PlaceInv, DirectInv, TypeOK
  <2>2. queue' = queue
    BY <1>1, <2>1 DEF Put
  <2> QED
    BY <1>1, <1>3, <1>4, <1>5, <2>2 DEF FlowInv
<1>6. ASSUME Kind[m] # "direct" PROVE FlowInv'
  <2>1. Flows(inbound \o queue[m], queue', deferred, S)
    BY <1>1, <1>4, QueueReturned
  <2>2. Flows(inbound', queue', deferred', S)
    BY <1>1, <1>6, <2>1, Woken
  <2> QED
    BY <1>3, <2>2 DEF FlowInv
<1>7. RegisteredInv'
  BY <1>1, LeftRegistered DEF PlaceInv
<1>8. DirectInv'
  BY <1>1 DEF PlaceInv, DirectInv, Put, TypeOK
<1> QED
  BY <1>1, <1>2, <1>5, <1>6, <1>7, <1>8, SameReady, SameCommand DEF PlaceInv

\* The continuation joins the leftovers, or waits for the queue to have room.
LEMMA ContinuePlaces ==
  ASSUME TypeOK, PlaceInv, NEW m \in Msg, ContinueTurn(m)
  PROVE  PlaceInv'
<1> DEFINE out == Injected(m)
           rest == Rest(queue[m], Taken(m))
           q == Put(queue, m, rest)
           S == Queued \ out
<1>1. pc[m] = "turn" /\ Kind[m] # "direct" /\ Key[m] \in Session
  BY DispatchAssumption DEF ContinueTurn
<1>2. Flows(inbound, q, deferred, S) /\ \A t \in out : t \in Msg /\ pc[t] = "queued"
  BY Drained
<1>3. rest \in Seq(Msg) /\ q[m] = rest /\ Put(q, m, <<>>) = Put(queue, m, <<>>)
  <2>1. rest \in Seq(Msg)
    BY RestType DEF Rest
  <2> HIDE DEF rest
  <2> QED
    BY <2>1 DEF Put, TypeOK
<1>4. ASSUME NEW c \in Continuations(m), Leave(m, Append(rest, c)),
             pc' = [t \in Msg |-> IF t = m THEN "done" ELSE IF t = c THEN "queued"
                                  ELSE IF t \in out THEN "injected" ELSE pc[t]]
      PROVE  PlaceInv'
  <2>1. /\ registered' = Unregistered(m) /\ queue' = Put(queue, m, <<>>)
        /\ WakeNext(Key[m], Append(rest, c)) /\ UNCHANGED <<ready, command>>
    BY <1>1, <1>4 DEF Leave, Put
  <2>2. c \in Msg /\ pc[c] = "new" /\ c # m /\ c \notin S
    BY <1>1 DEF Continuations, Queued
  <2> HIDE DEF out
  <2>3. /\ Queued' = S \union {c}
        /\ \A t \in Msg : pc[t] = "created" => pc'[t] = "created"
        /\ \A t \in Msg : pc[t] = "inline" => pc'[t] = "inline"
        /\ \A t \in Msg \ {m} : pc[t] \in InTurn => pc'[t] \in InTurn
    BY <1>1, <1>2, <1>4, <2>2 DEF Queued, InTurn
  <2> HIDE DEF rest, q, S
  <2>4. Flows(inbound \o rest, Put(q, m, <<>>), deferred, S)
    BY <1>2, <1>3, QueueReturned
  <2> DEFINE b == inbound \o rest
             r == Put(q, m, <<>>)
             T == S \union {c}
  <2>5. Flows(b, r, deferred, S)
    BY <2>4
  <2> HIDE DEF b, r
  <2>6. Flows(Append(b, c), r, deferred, T) /\ Append(b, c) = b \o <<c>>
    BY <2>2, <2>5, PutOnBus
  <2>7. b \o <<c>> = inbound \o Append(rest, c)
    <3>1. inbound \in Seq(Msg) /\ <<c>> \in Seq(Msg)
      BY <2>2 DEF TypeOK
    <3>2. (inbound \o rest) \o <<c>> = inbound \o (rest \o <<c>>)
      BY <1>3, <3>1, ConcatAssociative
    <3>3. Append(rest, c) = rest \o <<c>>
      BY <1>3, <2>2, AppendIsConcat
    <3> QED
      BY <3>2, <3>3 DEF b
  <2> HIDE DEF T
  <2> DEFINE more == Append(rest, c)
  <2>8. Flows(inbound \o more, r, deferred, T) /\ WakeNext(Key[m], more)
    BY <2>1, <2>6, <2>7
  <2> HIDE DEF more
  <2>9. Flows(inbound', r, deferred', T)
    BY <1>1, <2>8, Woken
  <2>10. FlowInv'
    BY <1>3, <2>1, <2>3, <2>9 DEF FlowInv, r, T
  <2>11. RegisteredInv'
    BY <2>1, <2>3, LeftRegistered DEF PlaceInv
  <2>12. DirectInv'
    BY <2>1 DEF PlaceInv, DirectInv, Put, TypeOK
  <2> QED
    BY <2>1, <2>3, <2>10, <2>11, <2>12, SameReady, SameCommand DEF PlaceInv
<1>5. CASE /\ pc' = [t \in Msg |-> IF t = m THEN "putting"
                                   ELSE IF t \in out THEN "injected" ELSE pc[t]]
           /\ queue' = q
           /\ UNCHANGED <<inbound, ready, registered, deferred, command>>
  <2>1. m \notin out
    BY <1>1, <1>2
  <2> HIDE DEF out, q, rest
  <2>2. /\ Queued' = S
        /\ \A t \in Msg : pc[t] = "created" => pc'[t] = "created"
        /\ \A t \in Msg : pc[t] = "inline" => pc'[t] = "inline"
        /\ \A t \in Msg : pc[t] \in InTurn => pc'[t] \in InTurn
    BY <1>1, <1>2, <1>5, <2>1 DEF Queued, InTurn
  <2>3. FlowInv'
    BY <1>2, <1>5, <2>2 DEF FlowInv
  <2>4. DirectInv'
    BY <1>1, <1>5 DEF PlaceInv, DirectInv, q, Put, TypeOK
  <2> QED
    BY <1>5, <2>2, <2>3, <2>4, SameReady, SameCommand, SameRegistered DEF PlaceInv
<1> QED
  BY <1>4, <1>5 DEF ContinueTurn, Rest, Put

\* The turn proper, and its ends.
LEMMA TurnPlaces ==
  ASSUME TypeOK, PlaceInv, NEW m \in Msg,
         FinishTurn(m) \/ FailTurn(m) \/ CancelTurn(m) \/ BeginReset(m) \/ FinishReset(m)
  PROVE  PlaceInv'
<1>1. CASE FinishTurn(m) \/ FailTurn(m) \/ CancelTurn(m) \/ FinishReset(m)
  <2>1. /\ Leave(m, queue[m]) /\ pc[m] \in InTurn
        /\ pc'[m] \in {"done", "failed", "cancelled"} /\ \A t \in Msg \ {m} : pc'[t] = pc[t]
    BY <1>1 DEF FinishTurn, FailTurn, CancelTurn, FinishReset, InTurn, TypeOK
  <2> QED
    BY <2>1, LeavePlaces
<1>2. CASE BeginReset(m)
  <2>1. /\ pc[m] = "turn" /\ pc' = [pc EXCEPT ![m] = "resetting"]
        /\ UNCHANGED <<inbound, ready, queue, registered, deferred, command>>
    BY <1>2 DEF BeginReset, turns
  <2>2. /\ \A t \in Msg : pc'[t] = "queued" <=> pc[t] = "queued"
        /\ \A t \in Msg : pc[t] = "created" => pc'[t] = "created"
        /\ \A t \in Msg : pc[t] = "inline" => pc'[t] = "inline"
        /\ \A t \in Msg : pc[t] \in InTurn => pc'[t] \in InTurn
    BY <2>1 DEF InTurn, TypeOK
  <2> QED
    BY <2>1, <2>2, SamePlaces, SameReady, SameCommand, SameRegistered DEF PlaceInv, DirectInv
<1> QED
  BY <1>1, <1>2

LEMMA StepPlaces ==
  ASSUME TypeOK, PlaceInv, GateWaitInv, NEW m \in Msg, Run(m) \/ Task(m) \/ Environment(m)
  PROVE  PlaceInv'
BY EnvironmentPlaces, DeferPlaces, RoutePlaces, InlinePlaces, CreatePlaces, FinishInlinePlaces,
   StartPlaces, AcquirePlaces, CancelWaitingPlaces, InjectPlaces, ContinuePlaces, TurnPlaces
DEF Run, Task

LEMMA FirstPlaces ==
  ASSUME Init
  PROVE  PlaceInv /\ GateWaitInv
<1>1. /\ Lists(inbound, queue, deferred) /\ inbound = <<>>
      /\ \A t \in Msg : queue[t] = <<>>
  BY DEF Init, Lists
<1>2. \A k \in Session : deferred[k] = <<>>
  BY DEF Init
<1> DEFINE f == Family(inbound, queue, deferred)
<1>3. f \in [Place -> Seq(Msg)] /\ f[Bus] = inbound /\ \A t \in Msg : f[PendingOf(t)] = queue[t]
  BY <1>1, FamilyAt
<1>4. \A k \in Session : f[DeferredOf(k)] = deferred[k]
  BY <1>1, FamilyAt
<1> HIDE DEF f
<1>5. ASSUME NEW p \in Place PROVE f[p] = <<>>
  <2>1. p = Bus \/ (\E t \in Msg : p = PendingOf(t)) \/ \E k \in Session : p = DeferredOf(k)
    BY PlaceKinds
  <2>2. CASE p = Bus
    BY <1>1, <1>3, <2>2
  <2>3. CASE \E t \in Msg : p = PendingOf(t)
    <3>1. PICK t \in Msg : p = PendingOf(t)
      BY <2>3
    <3> QED
      BY <1>1, <1>3, <3>1
  <2>4. CASE \E k \in Session : p = DeferredOf(k)
    <3>1. PICK k \in Session : p = DeferredOf(k)
      BY <2>4
    <3> QED
      BY <1>2, <1>4, <3>1
  <2> QED
    BY <2>1, <2>2, <2>3, <2>4
<1>6. \A p \in Place : DOMAIN f[p] = {}
  BY <1>5
<1>7. Waits(f, {})
  BY <1>3, <1>6 DEF Waits, Scattered, Contents
<1>8. Queued = {}
  BY DEF Init, Queued
<1>9. FlowInv
  BY <1>1, <1>7, <1>8 DEF FlowInv, Flows, f
<1>10. ReadyInv /\ CommandInv /\ RegisteredInv /\ DirectInv /\ GateWaitInv
  BY DEF Init, ReadyInv, CommandInv, RegisteredInv, DirectInv, GateWaitInv
<1> QED
  BY <1>9, <1>10 DEF PlaceInv

\* The invariants of the dispatch loop, in every reachable state.
LEMMA PlacesKept == Spec => [](TypeOK /\ LockInv /\ PlaceInv /\ GateWaitInv)
<1>1. Init => LockInv /\ PlaceInv /\ GateWaitInv
  <2>1. Init => LockInv
    BY DEF Init, LockInv, Holding, InTurn
  <2> QED
    BY <2>1, FirstPlaces
<1>2. TypeOK /\ LockInv /\ PlaceInv /\ GateWaitInv /\ [Next]_vars => LockInv' /\ PlaceInv' /\ GateWaitInv'
  <2> SUFFICES ASSUME TypeOK, LockInv, PlaceInv, GateWaitInv, [Next]_vars
               PROVE  LockInv' /\ PlaceInv' /\ GateWaitInv'
    OBVIOUS
  <2>1. CASE StartLoop \/ UNCHANGED vars
    <3>1. UNCHANGED <<inbound, ready, pc, lockOwner, queue, registered, deferred, command>>
      BY <2>1 DEF StartLoop, vars, locks, turns
    <3> QED
      BY <3>1, SamePlaces, SameReady, SameCommand, SameRegistered
      DEF PlaceInv, DirectInv, GateWaitInv, LockInv
  <2> QED
    BY <2>1, StepOwner, StepPlaces, StepGateWait DEF Next
<1> QED
  BY <1>1, <1>2, TypeCorrect, PTL DEF Spec

\* A follow-up is only ever routed into the queue of a turn that holds its
\* session's lock and is still running: whatever ends a turn (its answer, an
\* error, a /stop, a /new) also takes its queue out of _pending_queues.
THEOREM FollowUpsReachTheTurn == Spec => []RoutedToLockHolder
<1>1. TypeOK /\ LockInv /\ PlaceInv => RoutedToLockHolder
  <2> SUFFICES ASSUME TypeOK, LockInv, RegisteredInv, NEW k \in Session, registered[k] # NoMsg
               PROVE  lockOwner[k] = registered[k] /\ pc[registered[k]] \in InTurn
    BY DEF RoutedToLockHolder, PlaceInv
  <2>1. registered[k] \in Msg
    BY DEF TypeOK
  <2> QED
    BY <2>1 DEF RegisteredInv, LockInv, Holding
<1> QED
  BY <1>1, PlacesKept, PTL

\* A message handed to the bus waits in exactly one place, and in no place once
\* it is a task, part of a turn or discarded: routing, deferral, the fallback of
\* a full queue, cancellation and the republishing of leftovers lose nothing and
\* repeat nothing.
THEOREM EveryMessageWaitsOnce == Spec => []NoMessageLost
<1>1. FlowInv => NoMessageLost
  <2> SUFFICES ASSUME FlowInv, NEW m \in Msg
               PROVE  Cardinality(Where(m)) = IF pc[m] = "queued" THEN 1 ELSE 0
    BY DEF NoMessageLost
  <2> DEFINE f == Family(inbound, queue, deferred)
             W == Where(m)
  <2>1. /\ Scattered(f) /\ Contents(f) = Queued /\ f[Bus] = inbound
        /\ \A t \in Msg : f[PendingOf(t)] = queue[t]
    BY FamilyAt DEF FlowInv, Flows, Waits
  <2>2. \A k \in Session : f[DeferredOf(k)] = deferred[k]
    BY FamilyAt DEF FlowInv, Flows
  <2> HIDE DEF f
  \* Where names the places by bus, turn and session
  <2>3. \A x : x \in W <=> \/ \E i \in DOMAIN inbound : inbound[i] = m /\ x = <<"bus", i>>
                           \/ \E t \in Msg : \E i \in DOMAIN queue[t] : queue[t][i] = m /\ x = <<t, i>>
                           \/ \E k \in Session : \E i \in DOMAIN deferred[k] :
                                deferred[k][i] = m /\ x = <<k, i>>
    <3> DEFINE A == {<<"bus", i>> : i \in {j \in DOMAIN inbound : inbound[j] = m}}
               B == UNION {{<<t, i>> : i \in {j \in DOMAIN queue[t] : queue[t][j] = m}} : t \in Msg}
               C == UNION {{<<k, i>> : i \in {j \in DOMAIN deferred[k] : deferred[k][j] = m}} :
                           k \in Session}
    <3>1. W = A \union B \union C
      BY DEF Where
    <3>2. \A x : x \in A <=> \E i \in DOMAIN inbound : inbound[i] = m /\ x = <<"bus", i>>
      OBVIOUS
    <3>3. \A x : x \in B <=> \E t \in Msg : \E i \in DOMAIN queue[t] : queue[t][i] = m /\ x = <<t, i>>
      OBVIOUS
    <3>4. \A x : x \in C <=> \E k \in Session : \E i \in DOMAIN deferred[k] :
                               deferred[k][i] = m /\ x = <<k, i>>
      OBVIOUS
    <3> HIDE DEF A, B, C, W
    <3> QED
      BY <3>1, <3>2, <3>3, <3>4
  <2> HIDE DEF W
  <2>4. CASE pc[m] # "queued"
    <3>1. \A p \in Place : \A i \in DOMAIN f[p] : f[p][i] # m
      BY <2>1, <2>4 DEF Contents, Queued
    <3>2. \A x : x \notin W
      BY <2>1, <2>2, <2>3, <3>1, PlaceKinds
    <3>3. W = {}
      BY <3>2
    <3> QED
      BY <2>4, <3>3, FS_EmptySet DEF W
  <2>5. CASE pc[m] = "queued"
    <3>1. PICK p \in Place : \E i \in DOMAIN f[p] : f[p][i] = m
      BY <2>1, <2>5 DEF Contents, Queued
    <3>2. PICK i \in DOMAIN f[p] : f[p][i] = m
      BY <3>1
    <3>3. \A q \in Place : \A j \in DOMAIN f[q] : f[q][j] = m => q = p /\ j = i
      BY <2>1, <3>2 DEF Scattered
    <3>4. \E x : W = {x}
      <4>1. p = Bus \/ (\E t \in Msg : p = PendingOf(t)) \/ \E k \in Session : p = DeferredOf(k)
        BY PlaceKinds
      <4>2. CASE p = Bus
        <5>1. \A x : x \in W <=> x = <<"bus", i>>
          BY <2>1, <2>2, <2>3, <3>2, <3>3, <4>2, PlaceKinds
        <5>2. W = {<<"bus", i>>}
          BY <5>1
        <5> QED
          BY <5>2
      <4>3. CASE \E t \in Msg : p = PendingOf(t)
        <5>1. PICK t \in Msg : p = PendingOf(t)
          BY <4>3
        <5>2. \A u \in Msg : PendingOf(u) = p => u = t
          BY <5>1 DEF PendingOf
        <5>3. \A x : x \in W <=> x = <<t, i>>
          BY <2>1, <2>2, <2>3, <3>2, <3>3, <5>1, <5>2, PlaceKinds
        <5>4. W = {<<t, i>>}
          BY <5>3
        <5> QED
          BY <5>4
      <4>4. CASE \E k \in Session : p = DeferredOf(k)
        <5>1. PICK k \in Session : p = DeferredOf(k)
          BY <4>4
        <5>2. \A u \in Session : DeferredOf(u) = p => u = k
          BY <5>1 DEF DeferredOf
        <5>3. \A x : x \in W <=> x = <<k, i>>
          BY <2>1, <2>2, <2>3, <3>2, <3>3, <5>1, <5>2, PlaceKinds
        <5>4. W = {<<k, i>>}
          BY <5>3
        <5> QED
          BY <5>4
      <4> QED
        BY <4>1, <4>2, <4>3, <4>4
    <3> QED
      BY <2>5, <3>4, FS_Singleton DEF W
  <2> QED
    BY <2>4, <2>5
<1> QED
  BY <1>1, PlacesKept, PTL DEF PlaceInv

============================================================================
