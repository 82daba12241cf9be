------------------------------ MODULE AgentRun ------------------------------
(***************************************************************************)
(* One turn of the agent, from its first request to its reply: the loop of *)
(* AgentRunner._run_core (agent/runner.py) with the tools, the repetition  *)
(* of malformed, empty and truncated responses, the follow-ups that arrive *)
(* meanwhile, the sustained goal and the final request when the iterations *)
(* are used up; and what of it the user sees, in the stream and as the     *)
(* reply (agent/loop.py).  Each request is one of ModelRequest.            *)
(*                                                                         *)
(* Left out: what is in the messages (TurnPersistence), the reasoning, the *)
(* progress notices, tool errors that end the run (subagents only), the    *)
(* message tool's suppression of the reply.                                *)
(***************************************************************************)
EXTENDS ModelRequest

CONSTANTS
  MaxIterations, \* max_iterations
  MaxEmpties,    \* _MAX_EMPTY_RETRIES
  MaxLengths,    \* _MAX_LENGTH_RECOVERIES
  MaxCycles,     \* _MAX_INJECTION_CYCLES
  MaxFollowUps   \* bound of the follow-ups; at most _MAX_INJECTIONS_PER_TURN

ASSUME RunAssumption ==
  /\ {MaxIterations, MaxEmpties} \subseteq Nat \ {0}
  /\ {MaxLengths, MaxCycles} \subseteq Nat /\ MaxFollowUps \in 0..3

VARIABLES
  run,      \* the state of the loop
  pending,  \* follow-ups in the pending queue
  goal,     \* a sustained goal is active
  unread,   \* history: follow-ups were taken that no request has carried yet
  lost      \* history: the requests by whose kind a part of the answer came that
            \* neither the stream nor the reply shows

vars == <<requestVars, run, pending, goal, unread, lost>>

\* What a request is for: an iteration, once more after malformed tool calls,
\* without tools after more of them, a text after empty ones, the last word.
Purposes == {"main", "again", "untooled", "finalize", "budget"}

Init ==
  /\ \E streaming, persistent, active \in BOOLEAN :
       /\ run = [stage |-> "ask", streaming |-> streaming, persistent |-> persistent,
                 finalize |-> ~active, iteration |-> 0, empties |-> 0, lengths |-> 0,
                 cycles |-> 0, followUps |-> 0]
       /\ goal = active
  /\ request = NoRequest /\ breaker = Closed /\ images \in BOOLEAN /\ view = Quiet
  /\ pending = 0 /\ unread = FALSE /\ lost = {}

-----------------------------------------------------------------------------
\* Mutant: the repetition does not stream.
RequestStreamsOnce(r, purpose) ==
  LET looped == purpose \in {"main", "again"} IN
  /\ request' = Started(purpose = "main" /\ r.streaming, looped /\ ~r.streaming, r.persistent)
  /\ run' = [r EXCEPT !.stage = purpose]
  /\ unread' = FALSE

\* A request for this purpose is sent; only those of the loop stream.
Request(r, purpose) ==
  LET looped == purpose \in {"main", "again"} IN
  /\ request' = Started(looped /\ r.streaming, looped /\ ~r.streaming, r.persistent)
  /\ run' = [r EXCEPT !.stage = purpose]
  /\ unread' = FALSE

\* The next iteration of the loop.
Continue(r) ==
  /\ run' = [r EXCEPT !.stage = "ask", !.iteration = @ + 1]
  /\ request' = NoRequest

Done(r, reason) ==
  /\ run' = [r EXCEPT !.stage = reason]
  /\ request' = NoRequest

Answered == request.stage = "returned"

EndStream(resuming) == view' = IF run.streaming THEN Ended(view, resuming) ELSE view

\* A part of the answer: shown if it was streamed, or if it is the reply of a
\* turn that does not stream.
Lost(isReply) ==
  lost' = IF (run.streaming /\ request.streamed = "text") \/ (~run.streaming /\ isReply)
          THEN lost ELSE lost \union {run.stage}

\* _drain_injections, up to _MAX_INJECTION_CYCLES times.
Drains == run.cycles < MaxCycles /\ pending > 0
Drain == pending' = 0 /\ unread' = TRUE
Drained == [run EXCEPT !.cycles = @ + 1]
NoDrain == ~Drains /\ UNCHANGED <<pending, unread>>

-----------------------------------------------------------------------------
FollowUp ==
  /\ run.followUps < MaxFollowUps
  /\ run.stage \in {"ask", "tools", "failed", "emptied"} \union Purposes
  /\ pending' = pending + 1
  /\ run' = [run EXCEPT !.followUps = @ + 1]
  /\ UNCHANGED <<requestVars, goal, unread, lost>>

Ask ==
  /\ run.stage = "ask" /\ run.iteration < MaxIterations
  /\ Request(run, "main")
  /\ UNCHANGED <<breaker, images, view, pending, goal, lost>>

\* All tool calls were malformed: the request is repeated, then without tools.
Malformed ==
  /\ Answered /\ request.reply = "badtools"
  /\ Request(run, IF run.stage = "main" THEN "again" ELSE "untooled")
  /\ UNCHANGED <<breaker, images, view, pending, goal, lost>>

CallTools ==
  /\ Answered /\ request.reply = "tools"
  /\ EndStream(TRUE)
  /\ run' = [run EXCEPT !.stage = "tools"] /\ request' = NoRequest
  /\ UNCHANGED <<breaker, images, pending, goal, unread, lost>>

\* The tools have run (they may have set or completed a goal).
ToolsDone ==
  LET r == [run EXCEPT !.empties = 0, !.lengths = 0] IN
  /\ run.stage = "tools"
  /\ goal' \in BOOLEAN
  /\ \/ Drains /\ Drain /\ Continue([r EXCEPT !.cycles = @ + 1])
     \/ NoDrain /\ Continue(r)
  /\ UNCHANGED <<breaker, images, view, lost>>

\* An empty response: once more, then a request for nothing but a text.
EmptyAnswer ==
  LET r == [run EXCEPT !.empties = @ + 1] IN
  /\ Answered /\ request.reply = "empty" /\ run.stage \in {"main", "again", "untooled"}
  /\ EndStream(FALSE)
  /\ IF r.empties < MaxEmpties THEN Continue(r) /\ UNCHANGED unread ELSE Request(r, "finalize")
  /\ UNCHANGED <<breaker, images, pending, goal, lost>>

Truncates == request.reply = "length" /\ run.lengths < MaxLengths

\* A truncated response: the model is to continue where it left off.
Truncated ==
  /\ Answered /\ Truncates /\ run.stage # "budget"
  /\ EndStream(TRUE)
  /\ Lost(FALSE)
  /\ Continue([run EXCEPT !.lengths = @ + 1])
  /\ UNCHANGED <<breaker, images, pending, goal, unread>>

\* An answer: the loop goes on with the follow-ups, or with the goal, or ends.
Answer ==
  /\ Answered /\ request.reply \in {"answer", "length"} /\ ~Truncates /\ run.stage # "budget"
  /\ \/ Drains /\ Drain /\ Continue(Drained) /\ Lost(FALSE) /\ EndStream(TRUE)
     \/ NoDrain /\ goal /\ Continue(run) /\ Lost(FALSE) /\ EndStream(TRUE)
     \/ NoDrain /\ ~goal /\ Done(run, "completed") /\ Lost(TRUE) /\ EndStream(FALSE)
  /\ UNCHANGED <<breaker, images, goal>>

\* An error, or no text at last: follow-ups let the loop go on.
NoAnswer ==
  /\ Answered /\ run.stage # "budget"
  /\ \/ request.reply \in Errors
     \/ request.reply = "empty" /\ run.stage = "finalize"
  /\ \/ Drains /\ Drain /\ Continue(Drained) /\ EndStream(TRUE)
     \/ /\ NoDrain /\ EndStream(FALSE)
        /\ Done(run, IF request.reply = "empty" THEN "emptied" ELSE "failed")
  /\ UNCHANGED <<breaker, images, goal, lost>>

\* They are looked for once more, the error or the notice being the reply else:
\* the error is sent, the notice is taken for streamed.
NoAnswerEnds ==
  /\ run.stage \in {"failed", "emptied"}
  /\ \/ Drains /\ Drain /\ Continue(Drained) /\ UNCHANGED lost
     \/ /\ NoDrain
        /\ Done(run, IF run.stage = "failed" THEN "error" ELSE "empty_final_response")
        /\ lost' = IF run.streaming /\ run.stage = "emptied" THEN lost \union {"finalize"} ELSE lost
  /\ UNCHANGED <<breaker, images, view, goal>>

-----------------------------------------------------------------------------
(* The iterations are used up. *)

\* loop.py: the last word is pushed through the stream, unless the goal goes on
\* in another turn; the reply is then left out.
LastWord(v) ==
  IF goal THEN view' = v /\ Done(run, "continued")
  ELSE /\ view' = IF run.streaming THEN Ended(v, FALSE) ELSE v
       /\ Done(run, "max_iterations")

\* The follow-ups are taken, so that the last request accounts for them.
Budget ==
  /\ run.stage = "ask" /\ run.iteration = MaxIterations
  /\ pending' = IF Drains THEN 0 ELSE pending
  /\ IF run.finalize THEN Request(run, "budget") /\ UNCHANGED view
     ELSE unread' = (unread \/ Drains) /\ LastWord(view)
  /\ UNCHANGED <<breaker, images, goal, lost>>

\* Mutant: the follow-ups are taken after the last request.
BudgetDrainsLate ==
  /\ Answered /\ run.stage = "budget"
  /\ LastWord(view)
  /\ pending' = IF Drains THEN 0 ELSE pending
  /\ unread' = (unread \/ Drains)
  /\ UNCHANGED <<breaker, images, goal, lost>>

\* Its answer, or a fixed text, is the last word.
BudgetAnswered ==
  /\ Answered /\ run.stage = "budget"
  /\ LastWord(view)
  /\ UNCHANGED <<breaker, images, pending, goal, unread, lost>>

\* /stop: the task is cancelled where it awaits; no stream is ended.
Cancel ==
  /\ run.stage \in Purposes \union {"tools"} /\ ~Answered
  /\ Done(run, "cancelled")
  /\ UNCHANGED <<breaker, images, view, pending, goal, unread, lost>>

Requesting ==
  /\ run.stage \in Purposes
  /\ RequestStep(IF run.stage \in {"main", "again"} THEN Good ELSE {"answer", "length", "empty"})
  /\ UNCHANGED <<run, pending, goal, unread, lost>>

RunStep ==
  \/ Ask \/ Malformed \/ CallTools \/ ToolsDone \/ EmptyAnswer \/ Truncated \/ Answer
  \/ NoAnswer \/ NoAnswerEnds \/ Budget \/ BudgetAnswered

Environment == Others /\ UNCHANGED <<run, pending, goal, unread, lost>>

Next == Requesting \/ RunStep \/ FollowUp \/ Cancel \/ Environment

Spec == Init /\ [][Next]_vars

-----------------------------------------------------------------------------
Ends == {"completed", "error", "empty_final_response", "max_iterations", "continued", "cancelled"}

\* The loop's counters keep to their limits, and a request is in flight exactly
\* while the loop waits for one.
TypeOK ==
  /\ RequestTypeOK
  /\ run.stage \in {"ask", "tools", "failed", "emptied"} \union Purposes \union Ends
  /\ run.iteration \in 0..MaxIterations /\ run.empties \in 0..MaxIterations
  /\ run.lengths \in 0..MaxLengths /\ run.cycles \in 0..MaxCycles
  /\ (request.stage = "none") <=> (run.stage \notin Purposes)
  /\ pending \in 0..MaxFollowUps /\ {goal, unread} \subseteq BOOLEAN
  /\ lost \subseteq Purposes

\* Every text that a streaming turn keeps as a part of its answer has been shown
\* in the stream, whatever retries, repetitions, follow-ups and limits it went
\* through; but not one that came of a request without tools.
StreamShowsAnswer == run.streaming => lost \subseteq {"untooled", "finalize"}

\* When a streaming turn has ended by itself its stream is closed for good, and
\* when the goal goes on in another turn, no text is left in an open segment.
StreamClosed ==
  run.streaming /\ run.stage \in Ends \ {"cancelled"} =>
    view.segment = <<>> /\ (run.stage = "continued" \/ view.stream = "final")

\* The run, its request and the breaker that all sessions share are consistent,
\* no error came back early, and an ended run has left its stream as it should.
RunInv == TypeOK /\ BreakerConsistent /\ NoEarlySurrender /\ StreamClosed

\* A follow-up that the turn took is put before the model, though it came during
\* the last request or the last iteration; unless the last request is left out,
\* which was decided when the turn began with a goal.
FollowUpsRead ==
  run.stage \in Ends \ {"cancelled", "continued"} /\ run.finalize => ~unread

=============================================================================
