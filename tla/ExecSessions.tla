---------------------------- MODULE ExecSessions ----------------------------
(***************************************************************************)
(* Long-running shell commands (agent/tools/exec_session.py): the table of *)
(* exec sessions, the reader that moves what a process writes to a buffer, *)
(* and the calls exec, write_stdin and list_exec_sessions of the turns and *)
(* subagents of one chat, which share the sessions.  A caller makes one    *)
(* call at a time, since the tools are exclusive.  Every await is a step   *)
(* of its own, and every wait with a timeout may end at any moment.        *)
(*                                                                         *)
(* What a process writes is counted in chunks.  The readers of its two     *)
(* outputs are one.  Left out: the safety guard of exec, the truncation of *)
(* an output, exec without a session, the check of a session's owner.      *)
(***************************************************************************)
EXTENDS Naturals, Sequences, SequencesExt, FiniteSets

CONSTANTS
  Caller,       \* the turn and the subagents
  Sid,          \* session ids, each used once
  NoSid,
  MaxSessions,  \* max_sessions of the manager
  MaxChunks     \* bound of the chunks a process writes

ASSUME ExecAssumption ==
  /\ NoSid \notin Sid
  /\ {MaxSessions, MaxChunks} \subseteq Nat \ {0}

VARIABLES
  table,   \* _sessions
  proc,    \* the process of a session: none, running, dying (killed), exited
  made,    \* chunks a process wrote
  buffer,  \* chunks read and not yet taken by a poll (_chunks)
  unread,  \* chunks not yet read
  reader,  \* the reader tasks: none, reading, done, cut (cancelled)
  lock,    \* the manager's lock: the holder, then those who wait
  call,    \* the call each caller is in
  shown,   \* history: chunks that were in the result of a call
  disturbed \* history: sessions that two calls used at once, or with a call cancelled

sessions == <<table, proc, made, buffer, unread, reader>>
results == <<shown, disturbed>>
execVars == <<sessions, lock, call, results>>

NoCall == [at |-> "idle", op |-> "none", sid |-> NoSid, stale |-> {}, got |-> 0]

Exited(s) == proc[s] = "exited"
\* Sessions that a poll has just marked as accessed (last_access).
Polled == {call[c].sid : c \in {c \in Caller : call[c].at \in
                                  {"wait", "latekill", "drain", "grace", "pop", "popEarly", "again"}}}

\* process.kill(): the signal is sent at once, the exit is seen later.
Signalled(s) == [proc EXCEPT ![s] = IF @ = "running" THEN "dying" ELSE @]

MoveTo(c, at) == call' = [call EXCEPT ![c].at = at]
Return(c) == call' = [call EXCEPT ![c] = NoCall]
Queue(c) == lock' = Append(lock, c)
\* asyncio.Lock: the holder releases it, or a waiter gives up.
Without(s, c) == LET at == {i \in DOMAIN s : s[i] = c} IN
  IF at = {} THEN s ELSE RemoveAt(s, CHOOSE i \in at : TRUE)
Release(c) == lock' = Without(lock, c)

-----------------------------------------------------------------------------
(* The processes. *)

\* A process writes.
Produce(s) ==
  /\ proc[s] = "running" /\ made[s] < MaxChunks
  /\ made' = [made EXCEPT ![s] = @ + 1]
  /\ unread' = [unread EXCEPT ![s] = @ + 1]
  /\ UNCHANGED <<table, proc, buffer, reader, lock, call, results>>

\* A process exits, by itself or killed.
Exit(s) ==
  /\ proc[s] \in {"running", "dying"}
  /\ proc' = [proc EXCEPT ![s] = "exited"]
  /\ UNCHANGED <<table, made, buffer, unread, reader, lock, call, results>>

\* _read_stream.  A child of an exited process may keep the output open, so that its end
\* need not come.
ReadStream(s) ==
  /\ reader[s] = "reading"
  /\ \/ /\ unread[s] > 0
        /\ buffer' = [buffer EXCEPT ![s] = @ + unread[s]]
        /\ unread' = [unread EXCEPT ![s] = 0]
        /\ UNCHANGED reader
     \/ /\ unread[s] = 0 /\ Exited(s)
        /\ reader' = [reader EXCEPT ![s] = "done"]
        /\ UNCHANGED <<buffer, unread>>
  /\ UNCHANGED <<table, proc, made, lock, call, results>>

-----------------------------------------------------------------------------
(* A call up to its poll. *)

\* exec with yield_time_ms, write_stdin, list_exec_sessions: each takes the lock first.
\* Which of them it is, and with which arguments, is chosen where it first matters.
Begin(c) ==
  /\ call[c] = NoCall
  /\ MoveTo(c, "lock") /\ Queue(c)
  /\ UNCHANGED <<sessions, results>>

\* The lock is taken; _cleanup_locked decides which sessions were idle for too long.
Acquire(c) ==
  /\ call[c].at \in {"lock", "again"} /\ Head(lock) = c
  /\ \E stale \in SUBSET (table \ Polled) :
       call' = [call EXCEPT ![c].at = "clean", ![c].stale = stale]
  /\ UNCHANGED <<sessions, lock, results>>

\* The loop of _cleanup_locked.
Clean(c) ==
  /\ call[c].at = "clean"
  /\ \E s \in call[c].stale :
       /\ table' = table \ {s}
       /\ proc' = Signalled(s)
       /\ call' = [call EXCEPT ![c].stale = @ \ {s}]
  /\ UNCHANGED <<made, buffer, unread, reader, lock, results>>

Cleaned(c) == call[c].at = "clean" /\ call[c].stale = {}

\* start: the limit; the process is created under the lock.
Start(c) ==
  /\ Cleaned(c) /\ call[c].sid = NoSid
  /\ IF Cardinality(table) >= MaxSessions THEN Return(c) /\ Release(c)
     ELSE MoveTo(c, "spawn") /\ UNCHANGED lock
  /\ UNCHANGED <<sessions, results>>

Spawned(c) ==
  /\ call[c].at = "spawn"
  /\ \/ \E s \in Sid :
          /\ proc[s] = "none"
          /\ table' = table \cup {s}
          /\ proc' = [proc EXCEPT ![s] = "running"]
          /\ reader' = [reader EXCEPT ![s] = "reading"]
          /\ call' = [call EXCEPT ![c].at = "wait", ![c].op = "start", ![c].sid = s]
     \/ Return(c) /\ UNCHANGED <<table, proc, reader>>  \* it cannot be created
  /\ Release(c)
  /\ UNCHANGED <<made, buffer, unread, results>>

\* list; and a write to a session that is not there, or with input to one that has exited.
List(c) ==
  /\ Cleaned(c) /\ call[c].sid = NoSid
  /\ Return(c) /\ Release(c)
  /\ UNCHANGED <<sessions, results>>

\* write does not find the session: KeyError, and what a wait_for gathered is lost.
Missing(c) ==
  /\ Cleaned(c) /\ call[c].sid \notin table
  /\ call[c].sid # NoSid
  /\ Return(c) /\ Release(c)
  /\ UNCHANGED <<sessions, shown, disturbed>>

\* write finds the session: it writes to it unless that has exited, terminates it, or only
\* polls, which is what a wait_for does when it comes again.
Find(c) ==
  /\ Cleaned(c)
  /\ \E s \in IF call[c].sid = NoSid THEN table ELSE table \cap {call[c].sid},
        at \in {"input", "kill", "wait"} :
       /\ call[c].sid # NoSid => at = "wait"
       /\ at = "input" => ~Exited(s)
       /\ call' = [call EXCEPT ![c].at = at, ![c].op = "write", ![c].sid = s]
       /\ proc' = IF at = "kill" THEN Signalled(s) ELSE proc
       /\ disturbed' = IF \E d \in Caller \ {c} : call[d].sid = s
                       THEN disturbed \cup {s} ELSE disturbed
  /\ Release(c)
  /\ UNCHANGED <<table, made, buffer, unread, reader, shown>>

\* The input was accepted, which a process need never do; terminate may be given with it.
InputTaken(c) ==
  /\ call[c].at = "input" /\ ~Exited(call[c].sid)
  /\ \/ MoveTo(c, "kill") /\ proc' = Signalled(call[c].sid)
     \/ MoveTo(c, "wait") /\ UNCHANGED proc
  /\ UNCHANGED <<table, made, buffer, unread, reader, lock, results>>

\* The pipe is broken.
InputRefused(c) ==
  /\ call[c].at = "input"
  /\ Return(c)
  /\ UNCHANGED <<sessions, lock, results>>

\* kill has waited for the exit, for at most 5 s.
Killed(c) ==
  /\ call[c].at = "kill"
  /\ MoveTo(c, "wait")
  /\ UNCHANGED <<sessions, lock, results>>

-----------------------------------------------------------------------------
(* The poll. *)

\* The end of a poll takes the buffered output.  One that sees the process exited removes
\* the session.
Take(c, at) ==
  LET s == call[c].sid
      got == call[c].got + buffer[s]
  IN  /\ buffer' = [buffer EXCEPT ![s] = 0]
      /\ IF Exited(s)
         THEN /\ call' = [call EXCEPT ![c].at = at, ![c].got = got]
              /\ Queue(c)
              /\ UNCHANGED shown
         ELSE /\ Return(c)
              /\ shown' = [shown EXCEPT ![s] = @ + got]
              /\ UNCHANGED lock

\* A wait_for has not seen its text and polls again.
TakeAndRepeat(c) ==
  LET s == call[c].sid IN
  /\ call[c].op = "write" /\ ~Exited(s)
  /\ buffer' = [buffer EXCEPT ![s] = 0]
  /\ call' = [call EXCEPT ![c].at = "again", ![c].got = @ + buffer[s]]
  /\ Queue(c)
  /\ UNCHANGED shown

\* A poll once it need not wait for the process: for the end of the output, for some output,
\* or, with yield_time_ms = 0, not at all.
AwaitOutput(c) ==
  \/ /\ MoveTo(c, IF Exited(call[c].sid) THEN "drain" ELSE "grace")
     /\ UNCHANGED <<buffer, lock, shown>>
  \/ ~Exited(call[c].sid) /\ Take(c, "pop")

\* Mutant: the readers are not waited for.
WaitOverUndrained(c) ==
  /\ call[c].at = "wait"
  /\ Take(c, "pop")
  /\ UNCHANGED <<table, proc, made, unread, reader, disturbed>>

\* The process exited, or the wait timed out; past the deadline the process is killed.
WaitOver(c) ==
  /\ call[c].at = "wait"
  /\ \/ AwaitOutput(c) /\ UNCHANGED proc
     \/ /\ ~Exited(call[c].sid)
        /\ MoveTo(c, "latekill")
        /\ proc' = Signalled(call[c].sid)
        /\ UNCHANGED <<buffer, lock, shown>>
  /\ UNCHANGED <<table, made, unread, reader, disturbed>>

LateKilled(c) ==
  /\ call[c].at = "latekill"
  /\ AwaitOutput(c)
  /\ UNCHANGED <<table, proc, made, unread, reader, disturbed>>

\* Mutant: the wait for the readers has no timeout.
DrainedUntimed(c) ==
  /\ call[c].at = "drain" /\ reader[call[c].sid] = "done"
  /\ Take(c, "pop")
  /\ UNCHANGED <<table, proc, made, unread, reader, disturbed>>

\* The readers are done, or 2 s have passed: wait_for cancels the gather and with it them.
Drained(c) ==
  LET s == call[c].sid IN
  /\ call[c].at = "drain" /\ reader[s] # "cut"
  /\ Take(c, "pop")
  /\ reader' = [reader EXCEPT ![s] = IF @ = "reading" THEN "cut" ELSE @]
  /\ UNCHANGED <<table, proc, made, unread, disturbed>>

\* The readers were cancelled by another poll, or by the cancellation of one: the gather
\* raises CancelledError, which no handler of a tool call stops.
Struck(c) ==
  /\ call[c].at = "drain" /\ reader[call[c].sid] = "cut"
  /\ Return(c)
  /\ UNCHANGED <<sessions, lock, shown, disturbed>>

\* _wait_for_buffered_output has found some output, or 0.1 s have passed.  A process that
\* exited meanwhile is reported as done, and the readers are not waited for.
GraceOver(c) ==
  /\ call[c].at = "grace"
  /\ Take(c, "popEarly") \/ TakeAndRepeat(c)
  /\ UNCHANGED <<table, proc, made, unread, reader, disturbed>>

\* The session is removed, and the call returns.
Pop(c) ==
  LET s == call[c].sid IN
  /\ call[c].at \in {"pop", "popEarly"} /\ Head(lock) = c
  /\ table' = table \ {s}
  /\ shown' = [shown EXCEPT ![s] = @ + call[c].got]
  /\ Return(c) /\ Release(c)
  /\ UNCHANGED <<proc, made, buffer, unread, reader, disturbed>>

\* The caller is cancelled.  A process that is being created is killed by asyncio; the
\* readers are cancelled with the gather that waits for them.
CancelCall(c) ==
  /\ reader' = [s \in Sid |-> IF call[c].at = "drain" /\ call[c].sid = s /\ reader[s] = "reading"
                              THEN "cut" ELSE reader[s]]
  /\ disturbed' = disturbed \cup ({call[c].sid} \ {NoSid})
  /\ Return(c) /\ Release(c)
  /\ UNCHANGED <<table, proc, made, buffer, unread, shown>>

-----------------------------------------------------------------------------

ExecInit ==
  /\ table = {} /\ lock = <<>>
  /\ proc = [s \in Sid |-> "none"]
  /\ reader = [s \in Sid |-> "none"]
  /\ made = [s \in Sid |-> 0] /\ unread = made /\ buffer = made /\ shown = made
  /\ call = [c \in Caller |-> NoCall]
  /\ disturbed = {}

ProcessStep(s) == Produce(s) \/ Exit(s) \/ ReadStream(s)

\* The steps of a call after its begin that end it or bring it nearer to its end.
CallStep(c) ==
  \/ Acquire(c) \/ Clean(c) \/ Start(c) \/ Spawned(c) \/ List(c)
  \/ Missing(c) \/ Find(c)
  \/ InputTaken(c) \/ InputRefused(c) \/ Killed(c)
  \/ WaitOver(c) \/ LateKilled(c) \/ Drained(c) \/ GraceOver(c) \/ Pop(c)

-----------------------------------------------------------------------------
(* Properties. *)

\* The limit of the sessions is kept by callers that start at once: each still has room
\* when its process has been created.  No process runs that no caller can reach
\* (exec_session.py start, write, _cleanup_locked): it is in the table, whose sessions have
\* readers, or was killed.  The lock is held and awaited only by callers in a call, and no
\* chunk is counted twice.
SessionsInv ==
  /\ Cardinality(table) <= MaxSessions
  /\ \A c \in Caller : call[c].at = "spawn" => Cardinality(table) < MaxSessions
  /\ \A s \in Sid : proc[s] = "running" => s \in table
  /\ \A s \in table : proc[s] # "none" /\ reader[s] # "none"
  /\ \A c \in Caller : (\E i \in DOMAIN lock : lock[i] = c) <=>
                       call[c].at \in {"lock", "again", "clean", "spawn", "pop", "popEarly"}
  /\ \A i, j \in DOMAIN lock : lock[i] = lock[j] => i = j
  /\ \A s \in Sid : shown[s] + buffer[s] + unread[s] <= made[s]

\* A session is removed with its exit reported only when its callers were shown all that
\* the process wrote (exec_session.py poll; tests/tools/test_exec_session_tools.py
\* test_write_stdin_preserves_completed_session_output_until_polled), unless its readers
\* were cut off, as by a child that keeps the output open for 2 s, two calls used it at
\* once or one was cancelled, or the process exited in the poll's grace time.
OutputComplete ==
  \A c \in Caller : call[c].at = "pop" =>
    LET s == call[c].sid IN
    \/ shown[s] + call[c].got = made[s]
    \/ reader[s] = "cut" \/ s \in disturbed
\* The table and the processes are consistent, and no output is cut off.
ExecInv == SessionsInv /\ OutputComplete
=============================================================================
