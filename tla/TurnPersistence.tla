--------------------------- MODULE TurnPersistence ---------------------------
(***************************************************************************)
(* What the turns of one session write, and what is left of them after a   *)
(* /stop, an exception or a crash: agent/loop.py's turn states with the    *)
(* checkpoints of agent/runner.py and the session store's cache and file.  *)
(*                                                                         *)
(* The session lock makes turns exclusive (AgentDispatch), so there is one *)
(* turn at a time.  An action is the code between two awaits, except that  *)
(* the process may also die between the two saves of a command.            *)
(*                                                                         *)
(* Left out: the consolidation cursor (last_consolidated stays 0), and     *)
(* iterations that leave no message, as the retry of a blank response.     *)
(***************************************************************************)
EXTENDS SessionHistory

CONSTANTS
  NoCheckpoint,   \* stands for "no runtime_checkpoint in the metadata"
  MaxIterations,  \* max_iterations of the runner (200)
  MaxCycles,      \* _MAX_INJECTION_CYCLES (5)
  FileCap,        \* FILE_MAX_MESSAGES (2000)
  MaxRounds,      \* _MAX_GOAL_CONTINUATION_ROUNDS (12)
  MaxTurns,       \* bound of the number of turns
  MaxFollowUps,   \* bound of the number of follow-up messages
  MaxFaults       \* bound of the number of cancellations, errors and crashes

ASSUME PersistenceAssumption ==
  /\ {MaxIterations, MaxCycles, FileCap} \subseteq Nat \ {0}
  /\ {MaxRounds, MaxTurns, MaxFollowUps, MaxFaults} \subseteq Nat
  /\ NoCheckpoint \notin [last : {"call", "answer"}, turn : Nat, iter : Nat, done : BOOLEAN]

VARIABLES
  session,   \* the cached Session: messages, pending_user_turn, runtime_checkpoint
  file,      \* its file
  turn,      \* the running turn: stage, kind, number, responses so far, new messages
  queued,    \* a goal continuation waits to be dispatched
  rounds,    \* goal continuation rounds used (of one goal: never reset here)
  followups, \* number of follow-ups drained so far
  archived,  \* messages given to the archive (raw_archive, or /new's snapshot)
  seen,      \* history: prompts given to a model, and responses published
  faults     \* number of faults so far

vars == <<session, file, turn, queued, rounds, followups, archived, seen, faults>>

Iterations == 0..MaxIterations + 1
Messages == [kind : Kinds, turn : 0..MaxTurns, iter : Iterations]
Msg(kind, n, k) == [kind |-> kind, turn |-> n, iter |-> k]
Closing == Msg("closing", 0, 0)

Checkpoints == [last : {"call", "answer"}, turn : 1..MaxTurns, iter : Iterations, done : BOOLEAN]
Checkpoint(last, n, k, done) == [last |-> last, turn |-> n, iter |-> k, done |-> done]
Stores == [msgs : Seq(Messages), pending : BOOLEAN, ckpt : Checkpoints \union {NoCheckpoint}]

Stages == {"idle", "restored", "replying", "model", "tools", "save", "respond"}
TurnKinds == {"none", "message", "continuation", "system"}
Turns == [stage : Stages, kind : TurnKinds, n : 0..MaxTurns, k : Iterations,
          new : Seq(Messages), out : Messages]

TypeOK ==
  /\ session \in Stores /\ file \in Stores
  /\ turn \in Turns
  /\ queued \in BOOLEAN /\ rounds \in 0..MaxRounds /\ followups \in 0..MaxFollowUps
  /\ archived \subseteq Messages /\ seen \subseteq Messages
  /\ faults \in 0..MaxFaults

NoTurn(n) == [stage |-> "idle", kind |-> "none", n |-> n, k |-> 0, new |-> <<>>, out |-> Closing]

Init ==
  /\ session = [msgs |-> <<>>, pending |-> FALSE, ckpt |-> NoCheckpoint]
  /\ file = session
  /\ turn = NoTurn(0)
  /\ queued = FALSE /\ rounds = 0 /\ followups = 0
  /\ archived = {} /\ seen = {} /\ faults = 0

-----------------------------------------------------------------------------
Ended == turn' = NoTurn(turn.n)

\* The store: SessionManager.save replaces the file in one rename.
Save(s) == session' = s /\ file' = s

\* The messages _restore_runtime_checkpoint makes of a checkpoint.
Restored(c) ==
  IF c.last = "answer" THEN <<Msg("answer", c.turn, c.iter)>>
  ELSE <<Msg("call", c.turn, c.iter), Msg(IF c.done THEN "result" ELSE "lost", c.turn, c.iter)>>

RestoreCheckpoint(s) ==
  LET r == Restored(s.ckpt)
  IN  [msgs |-> s.msgs \o From(r, Overlap(s.msgs, r) + 1),
       pending |-> FALSE, ckpt |-> NoCheckpoint]

\* _restore_pending_user_turn
ClosePending(s) ==
  [s EXCEPT !.pending = FALSE,
            !.msgs = IF @ # <<>> /\ IsUser(@[Len(@)]) THEN Append(@, Closing) ELSE @]

\* _state_restore, and the same two calls of _process_system_message.
Begin(kind) ==
  /\ turn.stage = "idle" /\ turn.n < MaxTurns
  /\ kind = "continuation" => queued
  /\ queued' = (queued /\ kind # "continuation")
  /\ CASE session.ckpt # NoCheckpoint -> Save(RestoreCheckpoint(session))
       [] session.ckpt = NoCheckpoint /\ session.pending -> Save(ClosePending(session))
       [] OTHER -> UNCHANGED <<session, file>>
  /\ turn' = [NoTurn(turn.n + 1) EXCEPT !.stage = "restored", !.kind = kind]
  /\ UNCHANGED <<rounds, followups, archived, seen, faults>>

Prompt == Msg("prompt", turn.n, 0)

\* Mutant: the session is not saved.
Unsaved(m) ==
  /\ session' = [session EXCEPT !.msgs = Append(@, m), !.pending = TRUE]
  /\ UNCHANGED file

\* _persist_user_message_early
PersistEarly(m) == Save([session EXCEPT !.msgs = Append(@, m), !.pending = TRUE])

\* _state_command with a shortcut command that is not /new: the user message
\* is saved, then the reply, and the flag is only cleared in memory.
CommandPrompt ==
  /\ turn.stage = "restored" /\ turn.kind = "message"
  /\ PersistEarly(Msg("command", turn.n, 0))
  /\ turn' = [turn EXCEPT !.stage = "replying"]
  /\ UNCHANGED <<queued, rounds, followups, archived, seen, faults>>

CommandReply ==
  LET reply == Msg("reply", turn.n, 0)
      with == [session EXCEPT !.msgs = Append(@, reply)]
  IN  /\ turn.stage = "replying"
      /\ file' = with
      /\ session' = [with EXCEPT !.pending = FALSE]
      /\ turn' = [turn EXCEPT !.stage = "respond", !.out = reply]
      /\ UNCHANGED <<queued, rounds, followups, archived, seen, faults>>

\* cmd_new: the messages go to a background archive task, the session is
\* cleared (its flags are not) and saved.
Clear(s) ==
  /\ Save([s EXCEPT !.msgs = <<>>])
  /\ archived' = archived \union Range(s.msgs)

CommandNew ==
  /\ turn.stage = "restored" /\ turn.kind = "message"
  /\ Clear(session)
  /\ turn' = [turn EXCEPT !.stage = "respond"]
  /\ UNCHANGED <<queued, rounds, followups, seen, faults>>

\* _state_build, and what _process_system_message does before it runs the
\* agent: a subagent's announcement is saved without the pending flag.
Build ==
  /\ turn.stage = "restored"
  /\ CASE turn.kind = "message" -> PersistEarly(Prompt) /\ seen' = seen \union {Prompt}
       [] turn.kind = "system" ->
            /\ Save([session EXCEPT !.msgs = Append(@, Msg("announce", turn.n, 0))])
            /\ seen' = seen \union {Msg("announce", turn.n, 0)}
       [] OTHER -> UNCHANGED <<session, file, seen>>
  /\ turn' = [turn EXCEPT !.stage = "model"]
  /\ UNCHANGED <<queued, rounds, followups, archived, faults>>

-----------------------------------------------------------------------------
\* AgentRunner._run_core.  Response k of the model, k = turn.k + 1.
Response == turn.k + 1

\* _set_runtime_checkpoint
SetCheckpoint(last, done) ==
  Save([session EXCEPT !.ckpt = Checkpoint(last, turn.n, Response, done)])

\* _try_drain_injections with one follow-up or none.  _append_injected_messages
\* merges it into a user message before it, which is the turn's own prompt
\* when nothing is new yet.
Drain(drained) ==
  /\ followups' = followups + (IF drained THEN 1 ELSE 0)
  /\ followups' <= MaxFollowUps

\* The cycles of follow-ups are counted.  While nothing is new, every response so far was
\* one of them; later ones are bounded by MaxFollowUps alone.
CyclesLeft == turn.new = <<>> => turn.k < MaxCycles

With(new, drained) ==
  LET all == turn.new \o new
      merged == IF all = <<>> THEN turn.kind # "system" ELSE IsUser(all[Len(all)])
  IN  IF drained /\ ~merged THEN Append(all, Msg("followup", turn.n, Response)) ELSE all

\* The loop goes on, or is left with the answer that _state_respond sends.
GoOn(all) == turn' = [turn EXCEPT !.k = Response, !.new = all, !.stage = "model"]
Leave(all) ==
  turn' = [turn EXCEPT !.k = Response, !.new = all, !.stage = "save", !.out = all[Len(all)]]

CallTools ==
  /\ turn.stage = "model" /\ turn.k < MaxIterations
  /\ SetCheckpoint("call", FALSE)
  /\ turn' = [turn EXCEPT !.stage = "tools", !.new = Append(@, Msg("call", turn.n, Response))]
  /\ UNCHANGED <<queued, rounds, followups, archived, seen, faults>>

ToolsDone ==
  /\ turn.stage = "tools"
  /\ SetCheckpoint("call", TRUE)
  /\ \E drained \in BOOLEAN :
       Drain(drained) /\ GoOn(With(<<Msg("result", turn.n, Response)>>, drained))
  /\ UNCHANGED <<queued, rounds, archived, seen, faults>>

\* An answer in place leaves the loop, unless a follow-up came meanwhile.
LastAnswer(new) ==
  \E drained \in BOOLEAN :
    Drain(drained) /\ IF drained THEN GoOn(With(new, TRUE)) ELSE Leave(With(new, FALSE))

\* A fatal tool error: no checkpoint of the results.
ToolsFail ==
  /\ turn.stage = "tools"
  /\ LastAnswer(<<Msg("result", turn.n, Response), Msg("answer", turn.n, Response)>>)
  /\ UNCHANGED <<session, file, queued, rounds, archived, seen, faults>>

Answer ==
  /\ turn.stage = "model" /\ turn.k < MaxIterations
  /\ SetCheckpoint("answer", TRUE)
  /\ LastAnswer(<<Msg("answer", turn.n, Response)>>)
  /\ UNCHANGED <<queued, rounds, archived, seen, faults>>

\* A model error or an empty answer: no checkpoint.  The follow-ups are drained
\* before the placeholder goes in, and again after it.  A truncated answer that
\* is asked to go on is the last case with a follow-up: a user message of the
\* runner's own (as is the reminder of an active goal, in Answer).
PoorAnswer ==
  /\ turn.stage = "model" /\ turn.k < MaxIterations
  /\ \/ CyclesLeft /\ Drain(TRUE) /\ GoOn(With(<<>>, TRUE))
     \/ LastAnswer(<<Msg("answer", turn.n, Response)>>)
  /\ UNCHANGED <<session, file, queued, rounds, archived, seen, faults>>

\* Mutant: the round limit of continuations is not looked at.
ContinueForEver(goal) ==
  /\ turn.stage = "model" /\ turn.k = MaxIterations
  /\ queued' = TRUE /\ rounds' = rounds + 1
  /\ turn' = [turn EXCEPT !.stage = "save"]
  /\ UNCHANGED <<session, file, followups, archived, seen, faults>>

\* The budget is used up: drain once more, then a last answer without tools,
\* or with an active goal a continuation of the turn (maybe_continue_turn),
\* which drops that answer again.
Exhausted(goal) ==
  /\ turn.stage = "model" /\ turn.k = MaxIterations
  /\ \E drained \in BOOLEAN :
       /\ drained => CyclesLeft
       /\ Drain(drained)
       /\ IF goal
          THEN /\ turn.kind # "system" /\ rounds < MaxRounds
               /\ queued' = TRUE /\ rounds' = rounds + 1
               /\ turn' = [turn EXCEPT !.new = With(<<>>, drained), !.stage = "save"]
          ELSE /\ Leave(Append(With(<<>>, drained), Msg("answer", turn.n, Response)))
               /\ UNCHANGED <<queued, rounds>>
  /\ UNCHANGED <<session, file, archived, seen, faults>>

-----------------------------------------------------------------------------
\* Mutants: the checkpoint outlives its turn; trimmed messages are thrown away.
StaleCheckpoint ==
  [msgs |-> RetainRecent(session.msgs \o turn.new, FileCap),
   pending |-> FALSE, ckpt |-> session.ckpt]
NoArchive == {}

\* _state_save: _save_turn, enforce_file_cap, both flags, one save.
Saved ==
  [msgs |-> RetainRecent(session.msgs \o turn.new, FileCap),
   pending |-> FALSE, ckpt |-> NoCheckpoint]

Trimmed == Range(session.msgs \o turn.new) \ Range(Saved.msgs)

SaveTurn ==
  /\ turn.stage = "save"
  /\ Save(Saved)
  /\ archived' = archived \union Trimmed
  /\ turn' = [turn EXCEPT !.stage = "respond"]
  /\ UNCHANGED <<queued, rounds, followups, seen, faults>>

\* _state_respond and the publication in _dispatch.
Respond ==
  /\ turn.stage = "respond"
  /\ seen' = seen \union ({turn.out} \ {Closing})
  /\ Ended
  /\ UNCHANGED <<session, file, queued, rounds, followups, archived, faults>>

-----------------------------------------------------------------------------
Fault == faults < MaxFaults /\ faults' = faults + 1
Interruptible == turn.stage \in {"restored", "model", "tools", "save"}

\* _dispatch's handler of CancelledError.
AfterCancel == IF session.ckpt = NoCheckpoint THEN session ELSE RestoreCheckpoint(session)

Cancel ==
  /\ Fault /\ Interruptible /\ Ended
  /\ IF session.ckpt = NoCheckpoint THEN UNCHANGED <<session, file>> ELSE Save(AfterCancel)
  /\ UNCHANGED <<queued, rounds, followups, archived, seen>>

\* /new beside a running turn: the turn is cancelled, then the session cleared.
NewBesideTurn ==
  /\ Fault /\ Interruptible /\ Ended
  /\ Clear(AfterCancel)
  /\ UNCHANGED <<queued, rounds, followups, seen>>

\* An exception in a turn: nothing is undone.
Fail ==
  /\ Fault /\ Interruptible /\ Ended
  /\ UNCHANGED <<session, file, queued, rounds, followups, archived, seen>>

\* The one save that is let fail here is the turn's last one: the cached
\* session is then ahead of its file.
SaveFails ==
  /\ Fault /\ turn.stage = "save" /\ Ended
  /\ session' = Saved
  /\ archived' = archived \union Trimmed
  /\ UNCHANGED <<file, queued, rounds, followups, seen>>

\* The process dies; the next one loads the file.
Crash ==
  /\ Fault /\ Ended
  /\ session' = file
  /\ queued' = FALSE
  /\ UNCHANGED <<file, rounds, followups, archived, seen>>

\* An orderly shutdown flushes every cached session (flush_all).
Shutdown ==
  /\ Fault /\ turn.stage = "idle"
  /\ Save(session)
  /\ queued' = FALSE
  /\ UNCHANGED <<turn, rounds, followups, archived, seen>>

Next ==
  \/ \E kind \in TurnKinds \ {"none"} : Begin(kind)
  \/ CommandPrompt \/ CommandReply \/ CommandNew \/ Build
  \/ CallTools \/ ToolsDone \/ ToolsFail \/ Answer \/ PoorAnswer
  \/ \E goal \in BOOLEAN : Exhausted(goal)
  \/ SaveTurn \/ Respond
  \/ Cancel \/ NewBesideTurn \/ Fail \/ SaveFails \/ Crash \/ Shutdown

Spec == Init /\ [][Next]_vars

-----------------------------------------------------------------------------
(* Properties.  The stored history is the one a crash leaves behind: file.  *)

\* A tool result without its call is refused by the providers: no history
\* that is kept, in the cache or in the file, holds one, whatever was
\* restored, saved or trimmed.
NoOrphanResult ==
  \A s \in {session.msgs, file.msgs} : LegalStart(s) = 0

\* Nor does a call stay without its result: what an interrupted batch leaves
\* gets error results.  Only the file cap, where it cuts inside a turn, parts
\* the two, and then the result is in the archive.
CallsAnswered ==
  \A s \in {session.msgs, file.msgs} : \A i \in DOMAIN s :
    s[i].kind = "call" => \/ i < Len(s) /\ Declares(s[i], s[i + 1])
                          \/ \E r \in archived : Declares(s[i], r)

\* The same message is never stored twice, nor a batch of tools both as
\* finished and as interrupted: restoring a checkpoint is idempotent.
NothingTwice ==
  \A s \in {session.msgs, file.msgs} : \A i \in DOMAIN s : \A j \in 1..i - 1 :
    /\ s[i] # Closing
    /\ <<s[i].turn, s[i].iter>> = <<s[j].turn, s[j].iter>>
    => s[i].kind # s[j].kind /\ ~(IsTool(s[i]) /\ IsTool(s[j]))

\* A turn that ends early is closed before the next user message goes in:
\* two prompts are never adjacent.
TurnsClosed ==
  \A s \in {session.msgs, file.msgs} : \A i \in 1..Len(s) - 1 :
    ~({s[i].kind, s[i + 1].kind} \subseteq {"prompt", "command"})

\* What is stored is a history that every provider accepts: paired, nothing twice, and
\* with every turn closed.
HistoryLegal == NoOrphanResult /\ CallsAnswered /\ NothingTwice /\ TurnsClosed

\* What a model was prompted with and what the user was answered survives
\* any crash: it is in the file, or was handed to the archive.
SeenIsDurable == seen \subseteq Range(file.msgs) \union archived

\* The file never loses a message that was not handed to the archive.
FileKeepsAll == [][Range(file.msgs) \subseteq Range(file'.msgs) \union archived']_vars

=============================================================================
