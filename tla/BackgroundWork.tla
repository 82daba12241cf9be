--------------------------- MODULE BackgroundWork ---------------------------
(***************************************************************************)
(* The background work of one chat: its turn, the subagents that the turn  *)
(* spawns (agent/subagent.py, agent/tools/spawn.py), the exec sessions     *)
(* they all use, and /stop (command/builtin.py cmd_stop).  What a subagent *)
(* answers goes over the bus into the pending queue of the running turn,   *)
(* which waits for it (agent/loop.py _drain_pending), or starts a turn.    *)
(* The dispatch of messages has a module of its own, AgentDispatch; here   *)
(* the answer of a subagent is where it is on its way to a turn.           *)
(*                                                                         *)
(* A cancellation is the next thing that happens to its task, as from      *)
(* Python 3.12 on: wait_for of 3.11 may lose one that meets its result.    *)
(***************************************************************************)
EXTENDS ExecSessions

CONSTANTS
  Turn,          \* the caller that is the chat's turn; the others are subagents
  MaxSubagents,  \* max_concurrent_subagents
  MaxTurns,      \* bound of the turns that a user's message starts
  MaxStops       \* bound of the /stop

ASSUME BackgroundAssumption ==
  /\ Turn \in Caller
  /\ MaxSubagents \in Nat \ {0}
  /\ {MaxTurns, MaxStops} \subseteq Nat

Sub == Caller \ {Turn}

VARIABLES
  task,     \* the asyncio task of each caller
  doomed,   \* tasks whose cancellation is on its way
  mail,     \* where the answer of each subagent is
  stop,     \* what /stop waits for
  turns,    \* number of turns started by a user
  stops     \* number of /stop

vars == <<execVars, task, doomed, mail, stop, turns, stops>>

Live == {"running", "waiting", "ending"}
Running == {a \in Sub : task[a] = "running"}
InPlace(place) == {a \in Sub : mail[a] = place}
Idle(c) == task[c] = "running" /\ call[c] = NoCall /\ c \notin doomed
Moved(from, to) == [a \in Sub |-> IF mail[a] = from THEN to ELSE mail[a]]
Ends(c, how) == task' = [task EXCEPT ![c] = how] /\ doomed' = doomed \ {c}

-----------------------------------------------------------------------------
(* The turn. *)

\* A message of the user starts a turn, or the answer of a subagent does.  The loop that
\* reads the bus is busy while it executes /stop.
StartTurn ==
  /\ task[Turn] \notin Live /\ stop = "no"
  /\ \/ turns < MaxTurns /\ turns' = turns + 1 /\ UNCHANGED mail
     \/ /\ \E a \in InPlace("bus") : mail' = [mail EXCEPT ![a] = "read"]
        /\ UNCHANGED turns
  /\ task' = [task EXCEPT ![Turn] = "running"]
  /\ UNCHANGED <<execVars, doomed, stop, stops>>

\* The answer of a subagent is put into the pending queue of the turn that runs.
Inject(a) ==
  /\ mail[a] = "bus" /\ task[Turn] \in Live /\ stop = "no"
  /\ mail' = [mail EXCEPT ![a] = "pending"]
  /\ UNCHANGED <<execVars, task, doomed, stop, turns, stops>>

\* SpawnTool.execute: the limit, then a task.
Spawn(a) ==
  /\ Idle(Turn)
  /\ task[a] = "none" /\ Cardinality(Running) < MaxSubagents
  /\ task' = [task EXCEPT ![a] = "running"]
  /\ UNCHANGED <<execVars, doomed, mail, stop, turns, stops>>

\* _drain_pending, after tools were executed and before the turn ends: what is pending is
\* read; with nothing pending the turn waits for the subagents that run.  After
\* _MAX_INJECTION_CYCLES it does neither.
Drain ==
  /\ Idle(Turn)
  /\ \/ /\ mail' = Moved("pending", "read")
        /\ task' = [task EXCEPT ![Turn] = IF InPlace("pending") # {} THEN "running"
                                          ELSE IF Running # {} THEN "waiting" ELSE "ending"]
     \/ task' = [task EXCEPT ![Turn] = "ending"] /\ UNCHANGED mail
  /\ UNCHANGED <<execVars, doomed, stop, turns, stops>>

\* An answer arrived, or 300 s have passed.
WaitEnds ==
  /\ task[Turn] = "waiting" /\ Turn \notin doomed
  /\ mail' = Moved("pending", "read")
  /\ task' = [task EXCEPT ![Turn] = IF InPlace("pending") # {} THEN "running" ELSE "ending"]
  /\ UNCHANGED <<execVars, doomed, stop, turns, stops>>

\* Mutant: what is left in the pending queue is not published again.
TurnOverForgetful(how) ==
  /\ Ends(Turn, how)
  /\ mail' = Moved("pending", "gone")

\* The end of _dispatch: what is left in the pending queue is published again.
TurnOver(how) ==
  /\ Ends(Turn, how)
  /\ mail' = Moved("pending", "bus")

\* A turn in the middle of its tools goes on when nothing was read.
Continue ==
  /\ task[Turn] = "ending" /\ Turn \notin doomed
  /\ task' = [task EXCEPT ![Turn] = "running"]
  /\ UNCHANGED <<execVars, doomed, mail, stop, turns, stops>>

EndTurn ==
  /\ task[Turn] = "ending" /\ Turn \notin doomed
  /\ TurnOver("none")
  /\ UNCHANGED <<execVars, stop, turns, stops>>

-----------------------------------------------------------------------------
(* The subagents. *)

\* _run_subagent has its result, or an Exception, and announces it.
Announce(a) ==
  /\ Idle(a)
  /\ Ends(a, "announced")
  /\ mail' = [mail EXCEPT ![a] = "bus"]
  /\ UNCHANGED <<execVars, stop, turns, stops>>

\* A tool call of a caller that nobody cancelled raises CancelledError: the turn ends
\* without an answer, a subagent without an announcement.
StruckTask(c) ==
  /\ c \notin doomed
  /\ Struck(c)
  /\ IF c = Turn THEN TurnOver("none") ELSE Ends(c, "struck") /\ UNCHANGED mail
  /\ UNCHANGED <<stop, turns, stops>>

-----------------------------------------------------------------------------
(* /stop. *)

\* _cancel_active_tasks: the turn is cancelled and waited for.
Stop ==
  /\ stop = "no" /\ stops < MaxStops
  /\ stops' = stops + 1
  /\ doomed' = IF task[Turn] \in Live THEN doomed \cup {Turn} ELSE doomed
  /\ stop' = "turn"
  /\ UNCHANGED <<execVars, task, mail, turns>>

\* cancel_by_session, with the turn over.
StopSubagents ==
  /\ stop = "turn" /\ task[Turn] \notin Live
  /\ doomed' = doomed \cup Running
  /\ stop' = "subagents"
  /\ UNCHANGED <<execVars, task, mail, turns, stops>>

\* They are over, and /stop is answered.
Stopped ==
  /\ stop = "subagents" /\ doomed = {}
  /\ stop' = "no"
  /\ UNCHANGED <<execVars, task, doomed, mail, turns, stops>>

\* CancelledError reaches a task, in the call it is in if it is in one.
Cancelled(c) ==
  /\ c \in doomed
  /\ CancelCall(c)
  /\ IF c = Turn THEN TurnOver("none") ELSE Ends(c, "stopped") /\ UNCHANGED mail
  /\ UNCHANGED <<stop, turns, stops>>

-----------------------------------------------------------------------------

Init ==
  /\ ExecInit
  /\ task = [c \in Caller |-> "none"]
  /\ doomed = {} /\ stop = "no" /\ turns = 0 /\ stops = 0
  /\ mail = [a \in Sub |-> "none"]

Rest == UNCHANGED <<task, doomed, mail, stop, turns, stops>>

BeginCall(c) == Idle(c) /\ Begin(c) /\ Rest

Step(c) == c \notin doomed /\ CallStep(c) /\ Rest

Next ==
  \/ StartTurn \/ Drain \/ WaitEnds \/ Continue \/ EndTurn
  \/ \E a \in Sub : Spawn(a) \/ Inject(a) \/ Announce(a)
  \/ \E c \in Caller : BeginCall(c) \/ StruckTask(c) \/ Cancelled(c) \/ Step(c)
  \/ \E s \in Sid : ProcessStep(s) /\ Rest
  \/ Stop \/ StopSubagents \/ Stopped

\* Every wait of the code has a timeout but that for a process to take its input, and a
\* wait_for ends after 120 s; a killed process exits; the model ends its turns.
Fairness ==
  /\ \A c \in Caller :
       /\ WF_vars(c \notin doomed /\ CallStep(c) /\ call[c].at # "input" /\ Rest)
       /\ WF_vars(c \notin doomed /\ InputRefused(c) /\ Exited(call[c].sid) /\ Rest)
       /\ SF_vars(c \notin doomed /\ GraceOver(c) /\ call'[c].at # "again" /\ Rest)
       /\ WF_vars(StruckTask(c))
       /\ WF_vars(Cancelled(c))
  /\ \A s \in Sid : WF_vars(proc[s] = "dying" /\ Exit(s) /\ Rest)
  /\ SF_vars(Drain) /\ WF_vars(WaitEnds) /\ SF_vars(EndTurn) /\ WF_vars(StartTurn)
  /\ \A a \in Sub : SF_vars(Inject(a))
  /\ WF_vars(StopSubagents) /\ WF_vars(Stopped)

Spec == Init /\ [][Next]_vars /\ Fairness

-----------------------------------------------------------------------------
(* Properties. *)

\* A subagent that is over was announced exactly once, or was stopped, or was struck by a
\* CancelledError that nobody sent it (subagent.py _run_subagent, whose handler is for
\* Exception).  That only comes from a session that two calls used at once, or one of
\* whose calls /stop cancelled.  No announcement is lost on its way to a turn, not even with
\* the turn that was to read it, and one in a pending queue has a turn that will.
AnswersKept ==
  /\ \A a \in Sub : mail[a] \in IF task[a] = "announced" THEN {"bus", "pending", "read"}
                                 ELSE {"none"}
  /\ InPlace("pending") # {} => task[Turn] \in Live
  /\ \A c \in Caller : call[c].at = "drain" /\ reader[call[c].sid] = "cut" => call[c].sid \in disturbed
  /\ \A c \in Caller : call[c] # NoCall => task[c] = "running"
  /\ stop = "subagents" => Running \subseteq doomed

Stuck(c) == call[c].at = "input" /\ ~Exited(call[c].sid)

\* No call waits forever for another, for a lock or a process, except one that writes to a
\* process that takes no input; and what a subagent announced is read by a turn, in the end,
\* unless the turn is stuck in such a call (agent/loop.py _drain_pending, _dispatch).
Settles ==
  /\ \A c \in Caller : call[c] # NoCall ~> call[c] = NoCall \/ Stuck(c)
  /\ \A a \in Sub : mail[a] = "bus" ~> mail[a] = "read" \/ Stuck(Turn)
=============================================================================
