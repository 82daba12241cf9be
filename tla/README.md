# TLA+ models of nanobot

nanobot is a personal agent runtime: chat channels, schedulers and SDK callers
hand messages to one asyncio process, which runs one agent turn per message and
sends the answers back. This directory holds TLA+ models of the parts of it
whose correctness depends on order: the dispatcher, the two schedulers, what the
turns of a session write and compact, what a turn asks of the model and shows of
the answer, how that reaches a chat, long-term memory, and background work. Paths
below are relative to `src/nanobot/`.

## 1. The system

    channel --> MessageBus.inbound --> AgentLoop.run --> _dispatch (task)
                                                            |  lock, gate, pending queue
    CronService, LocalTriggers --submit--> coordinator      v
                                                       turn: AgentRunner <-> provider, tools
                                                            |  session file
    channel <-- ChannelManager <-- MessageBus.outbound <----+

Everything runs in one event loop. A task is switched out only where an `await`
really suspends, which is what the models' atomicity is built on: one action is
the code between two suspension points.

### Inventory

| Component | State it keeps | Operations | What is hard | What makes it correct |
|---|---|---|---|---|
| Message bus (`bus/queue.py`) | two unbounded queues | publish, consume | nothing by itself | FIFO |
| Dispatcher (`agent/loop.py` `run`, `_dispatch`) | session locks, gate, pending queues, active tasks | consume, route, defer, create task, enter lock and gate, inject, finish, fail, cancel | tasks created, overflowing and cancelled in any order | one turn per session, the gate bound, no message lost, everything settles |
| Automation coordination (`agent/automation_turns.py`) | futures by turn id, deferred lists | submit, defer_if_active, complete, publish_next_deferred | a turn that ends on an unusual path | every submitter is answered, every deferred turn is woken |
| Goal continuation (`session/turn_continuation.py`) | goal state and rounds in session metadata | maybe_continue_turn, save boundary | a put into the turn's own bounded queue | the turn ends |
| Commands (`command/builtin.py`) | none | /stop, /new, others | awaiting tasks that change what the command reads next | /stop drops what waits |
| Turn persistence (`agent/loop.py` states, `session/manager.py` save) | history, checkpoint and pending-turn flag in session metadata, on disk | early persist, checkpoint, restore, save, cancel | a crash between any two steps | no user message is lost or duplicated |
| Session store (`session/manager.py`) | cache, one file per session | get_or_create, save, invalidate, fork, truncate | cache against file | the history given to a model is legal |
| Idle and token compaction (`agent/autocompact.py`, `agent/memory.py`) | archive marks, consolidation cursor | check_expired, archive, consolidate | awaits an LLM between reading and replacing a history | nothing unarchived is dropped |
| Agent runner (`agent/runner.py`) | message list of a turn | request, tool batch, injection, finalise | budget, cancellation, tool/result pairing | every tool call has a result |
| Subagents (`agent/subagent.py`) | running tasks by session | spawn, run, announce, cancel | announcements racing the turn | announced once, limit kept |
| Cron (`cron/service.py`, `cron/bound_runner.py`) | job store, action log, timer | add, remove, enable, update, run, timer | store reload and timer cancellation around an await | a job runs when due, edits survive |
| Local triggers (`triggers/`) | trigger store, inbox, processing and failed directories | create, delete, enqueue, claim, complete, retry, recover | crash between two file operations | at least once, never silently lost |
| Outbound delivery (`channels/manager.py`) | outbound queue, held message | coalesce, suppress, send with retry | merging across streams, cancelled sends | the deltas of a stream arrive in order |
| Runtime events (`bus/runtime_events.py`) | subscribers | publish | handlers awaited in line | handlers only publish |
| Context governance (`agent/context_governance.py`, `session/manager.py` get_history) | ids compacted in a run | window, repair, compact, snip | several cuts through one list of calls and results | the service accepts the request, and it holds what is asked |
| Dream memory (`agent/memory.py`, `utils/gitstore.py`) | journal, cursors, memory files, commits | append, Dream run, commit, restore, compact | runs beside turns, restores and kills | no entry is skipped, no edit is lost |
| Exec sessions (`agent/tools/exec_session.py`) | table of processes, buffers, reader tasks | start, write, poll, kill, clean up | callers that share a session and are cancelled | limit kept, output whole, nobody waits for good |
| Other tools (`agent/tools/`) | file reads, MCP connections | tool calls | stale files | not modelled |
| Providers (`providers/`) | circuit breaker, retry state of a request | chat, stream, retry, fail over | two layers that repeat a stream | no error too early, no attempts mixed |
| Channels (`channels/*.py`) | stream buffers | receive, send, send_delta | requests that fail or whose answer is lost | a stream is shown whole, once, in order |
| Pairing (`pairing/store.py`) | approved senders, pending codes | request, approve, deny, revoke | expiry | one code, one sender |
| Gateway, API, SDK, WebUI, CLI | HTTP handlers and static state | requests | mostly request and response | not modelled |

## 2. Plan

Done, in this order:

1. `AgentDispatch`: dispatcher, coordination, /stop, /new, continuation.
2. `CronService`: job store, timer, actions of a second process.
3. `TriggerQueue` and `LocalTriggers`: the promise of local triggers, and the
   delivery files, worker, crash and recovery that implement it.
4. `SessionHistory` and `TurnPersistence`: what a turn writes, with crashes.
5. `OutboundFifo` and `OutboundDispatch`: coalescing, the held message, retry and
   suppression implement a FIFO; what four kinds of channels show of a stream.
6. `SessionCompaction`: idle and token compaction, file cap and /new beside the
   turns of a session.
7. `ModelRequest` and `AgentRun`: a request with retries, failover and breaker, and
   the run of a turn over such requests.
8. `ContextGovernance`, `ProviderWire` and `RequestContext`: what each request of a
   turn contains and what two providers send of it.
9. `DreamMemory`: the journal, Dream runs, version control.
10. `ExecSessions` and `BackgroundWork`: exec sessions, subagents and /stop.

11. Proofs, in the order of the table below: `AgentDispatchProofs`,
    `ScheduleProofs`, `TurnPersistenceProofs`, `AgentRunProofs`,
    `OutboundDispatchProofs`, `BackgroundWorkProofs`, `MemoryProofs`,
    `RequestContextProofs`.

Left, in this order:

12. `PromptSeen` and `WireLegal` of `RequestContext`: what the conversions of the two
    providers leave of a request.
13. Late: MCP reconnection, pairing, receiving in channels.

## 3. Modules

| Module | Models | State |
|---|---|---|
| `AgentDispatch` | bus, `run`, `_dispatch`, coordinators, `process_direct`, /stop, /new | queues, locks, gate, the phase of each task, futures |
| `AgentDispatchProofs` | theorems: mutual exclusion, concurrency, turn separation, routing, no message lost | that of `AgentDispatch` |
| `CronService` | `cron/service.py` in a gateway beside other processes | store, file, action file, timer, tick and manual run in progress |
| `TriggerQueue` | the abstract at-least-once queue | status, outcome and attempts of a delivery |
| `LocalTriggers` | `triggers/local_store.py`, `local_runner.py` | trigger file, three directories, run records, the worker |
| `ScheduleProofs` | theorems: memory and file of the cron service agree, no job vanishes or returns, completed once; attempts at a delivery are bounded, and the trigger files implement `TriggerQueue` | those of `CronService` and `LocalTriggers` |
| `SessionHistory` | pure functions on a message list | none |
| `TurnPersistence` | the turn's states, checkpoints, session cache and file | cached session, file, running turn |
| `TurnPersistenceProofs` | theorems: nothing seen or stored is lost, the history is legal | that of `TurnPersistence` |
| `OutboundFifo` | the abstract promise: handled once, in order | to do, done |
| `OutboundDispatch` | `channels/manager.py`, streams of four channels | queue, held message, message being sent, buffers, screens |
| `OutboundDispatchProofs` | theorems: that it implements `OutboundFifo`, nothing shown is taken back, ended streams are shown whole | that of `OutboundDispatch` |
| `SessionCompaction` | `agent/autocompact.py`, the Consolidator of `agent/memory.py`, /new, title generator | the copies of a session, file, archive, turn, worker |
| `ModelRequest` | `providers/base.py` retries, `providers/fallback_provider.py` | one request, the breaker, the stream's segment |
| `AgentRun` | `agent/runner.py` `_run_core`, the reply of `agent/loop.py` | `ModelRequest`'s, and the run |
| `AgentRunProofs` | theorems: request, breaker, stream and loop keep together | that of `AgentRun` |
| `ContextGovernance` | `get_history`, `agent/context.py` merging, `agent/context_governance.py` | none |
| `ProviderWire` | the conversions of `openai_compat_provider.py` and `anthropic_provider.py` | none |
| `RequestContext` | the requests of one turn | stored history, the run's messages, the request, compacted ids |
| `RequestContextProofs` | theorems: a request gives up no more than it must, is the same when made again, and what is compacted stays so | that of `RequestContext` |
| `DreamMemory` | journal and Dream of `agent/memory.py`, `utils/gitstore.py`, /dream, /dream-restore | journal, cursors, memory files, commits, runs |
| `MemoryProofs` | theorems: journal ordered, no entry skipped, no edit lost; no message of a session lost or archived twice, /new stays new | those of `DreamMemory` and `SessionCompaction` |
| `ExecSessions` | `agent/tools/exec_session.py` | table, processes, buffers, readers, lock, calls |
| `BackgroundWork` | subagents, a turn's wait for them, /stop | `ExecSessions`', tasks, announcements |

The `...MC` modules only give constants their values. Each module stands for one
owner of state; they meet at narrow places that both sides state: a submitted
turn ends (`LocalTriggers`, `CronService` assume of `on_job` and `submit` what
`SubmitReturns` says of `AgentDispatch`), one turn per session at a time
(`TurnPersistence`, `SessionCompaction`, `AgentRun` and `BackgroundWork` assume
`OneTurnPerSession`), and what a history may look like (`RequestContext` begins with
the histories that `HistoryLegal` allows, and with damaged ones). `AgentRun`,
`RequestContext` and `BackgroundWork` compose: they extend the modules of the parts
and their Next joins the steps of both.

**AgentDispatch.** A message is also the asyncio task it becomes; `pc[m]` says
where it is, from the bus over the pending queue, the deferred list, the lock and
the gate to its end. `Receive`, `Submit`, `CallDirect` are the callers; `RunInline`,
`Defer`, `Route` and `CreateTask` the four ways `run()` disposes of a message;
`StartTask` to `AcquireGate` the two `async with`; `Inject`, `FinishTurn`,
`FailTurn`, `CancelTurn`, `ContinueTurn` a turn; `BeginReset`/`FinishReset` the
/new that runs as a turn of its own. Cancellation is a request (`cancelled`) that
is delivered at the task's next suspension, so a task can be asked to stop while
it is created, waits, runs or has just been handed the lock.

**CronService.** `store` is memory, `disk` is jobs.json, `actions` the effect of
action.jsonl. A tick is `OnTimer` (which begins the first due job) and one
`FinishJob` per job, because only `on_job` suspends; `RunJob`/`FinishRun` are the
same of a manual run, `attached` telling whether the job object it holds is still
in the store. `External...` are the `nanobot cron` of another process,
`CrashInMerge` a kill between the two writes of `_merge_action`, which loses the actions: `life`
says so of their jobs ("lost"), until one of them is acted on again. `Operations`
switches the environment's operations per instance.

**LocalTriggers.** A delivery file is its attempt count; a directory is a function
from deliveries to counts. Each action is one store operation under the file lock
or one step of the worker, and where an operation makes two file changes the
worker may be killed in between. `turns` and `sent` are history.

**TurnPersistence.** An action is the code between two awaits of a turn: `Begin`
(restore), `CommandPrompt`/`CommandReply`/`CommandNew`, `Build` (early save),
`CallTools`, `ToolsDone`, `ToolsFail`, `Answer`, `PoorAnswer`, `Exhausted` (an
iteration of the runner with its checkpoints and injections), `SaveTurn`,
`Respond`. `Cancel`, `NewBesideTurn`, `Fail`, `SaveFails`, `Crash` and `Shutdown`
may come at any await. A message is its kind, turn and iteration; the calls of one
iteration and their results are one message each, since a batch is gathered before
any of it is stored. `RetainRecent`, `LegalStart` and `Overlap` are the code's
functions with their special cases.

**OutboundDispatch.** `Begin` to `Respond` and `Extra` are what a turn publishes: a
streamed segment, its end, tools, the next segment, the reply, notices and
follow-ups. `Take` is the dispatcher up to its first request: coalescing
(`Merged`, `SetAside`), suppression (`Repeats`), and a `...Delta` or `...End` is one
attempt of one channel, whose outcome is one of success, failure, success with a
lost answer, and after the last attempt abandonment. `queue`, `held` and `current`
are the code's three places of a message; `Units` reads them back as what was
published, which is the refinement mapping to `OutboundFifo`. `screen` is what can
be read in a chat.

**SessionCompaction.** Session objects are cells (`store.objs`) so that a turn, the
consolidation and the cache may hold different copies of one session, as they do
after `invalidate`. `Begin` to `FinishTurn` are a turn, `ConsolidateStart`/`...Step`,
`IdleStart`/`IdleStep` the two compactions with their await, which `Decide` chains;
`Deliver`, `New`, `Titled`, `ArchiveSnapshot` and `Crash` come in between. `wiped`,
`exposed`, `dropped`, `upsets` name, for the properties, what the known races touched.

**ModelRequest, AgentRun.** A request goes through `Attempt` (the breaker is asked),
the primary's outcome, the fallbacks and back to the retry loop (`Conclude`). `view`
is the open segment of the user's stream and how the stream was ended last, so that
two layers that repeat a call can be seen to mix. `AgentRun`'s actions are named for
the branches of `_run_core`; each `Request` starts one of `ModelRequest`.

**ContextGovernance, ProviderWire, RequestContext.** The first two are functions on
lists of messages, in the order in which the code applies them; a message is its
role, a text id, its calls and a weight in tokens. `Stored...` build a history,
`StartTurn`/`StartAnnouncement` take the view of it, `RunTools` and `Continue` are
iterations, each of which prepares a new request with `Ask`.

**DreamMemory.** A run is one step before its turn, its edits, and one step after it
(`EndDream`, `AbortDream`), which is how the code suspends. A journal line is a cursor
and the number of the archiving it came from, and a selection of lines is the set of
their places in the file; memory files are the set of entries they
took something from; a commit is memory and cursor. Kills within the journal, its
counter and the Dream cursor's file are `KillInAppend` and `KillInCursor`; `recounted`
remembers that a kill made the numbers go back. /dream-restore writes the memory files first
and the cursor last: `DreamRestore` is the one that comes to its end, `DreamRestoreCut` the one
that a kill or an error cuts anywhere. `KillOrCutEdit` is any other kill, and a kill or an error
within an edit of a memory file, which leaves the file empty.

**ExecSessions, BackgroundWork.** `call[c]` says at which await a tool call stands;
`Acquire` to `Find` are under the manager's lock, `WaitOver` to `Pop` the poll.
`disturbed` records the sessions used by two calls at once or by a cancelled one.
`BackgroundWork` adds the tasks that make the calls: `Spawn`, `Drain` and `WaitEnds`
of the turn, `Announce`, and `Stop` to `Stopped`, the steps of /stop between its
awaits. A cancellation is a task in `doomed` and the next thing that happens to it, as
from Python 3.12 on; in 3.11 `wait_for` may lose one that meets its result.

Commented definitions named *Mutant* are the plausible bugs that each property
was seen to catch; no specification uses them.

## 4. Runs and bounds

| Run | Question | Instance |
|---|---|---|
| `dispatch_safety` | one turn per session, gate bound, routing, no message lost or doubled | three users, a continuation, /stop, /new in one session, a user in a second; gate 1, queue 1 |
| `dispatch_live` | everything settles, submitters are told, deferred turns wake | a user, two automation turns, a direct call |
| `cron_safety` | jobs neither vanish nor return, file and memory agree, no completed occurrence repeats | two one-shots and a system job, all API calls, another process, crashes, also in a merge |
| `cron_live` | due jobs run, external edits are merged and saved, or lost by name | a repeating and a one-shot job, stops, stale edits, a crash in a merge |
| `triggers` | the files implement `TriggerQueue`, attempts bounded, deliveries settle | two triggers with a delivery each, two attempts, three faults |
| `turn_persistence` | stored history legal, complete, without duplicates, durable | three turns of two iterations, one cycle of follow-ups, a continuation, cap 5, two faults |
| `outbound` | a FIFO, streams shown whole, once, in order; never stuck | one session, each of four channel kinds, two segments, three chunks of which one is blank, a notice or follow-up, two attempts, two faults |
| `compaction` | nothing lost or archived twice, cursor in range, /new stays new | window 2, suffix 1, file cap 3, two rounds, two turns or commands, four of delivery, /new, title, crash |
| `agent_run` | attempts not mixed, no early error, stream shows the answer, follow-ups read | two fallbacks, threshold 2, one retry, two iterations, one follow-up, goal or none, streaming or not |
| `request_context` | requests are legal for two providers, or empty where no cut of the list can be legal, and hold what users ask; governance gives up no more than it must and does not change its mind | all histories of two blocks, windows 4 and 20, two iterations, a budget that one to four long results exceed, three id policies |
| `dream_memory` | journal ordered, nothing behind the cursor unconsidered, no edits lost | two dreamers, with and without git, five of: four archivings, three runs, two restores, three faults (kills, commits or writes that fail) |
| `background_work` | slots, lock and output of exec sessions; announcements; everything settles | a turn, a subagent, one slot and session, one chunk, two user turns, one /stop |

A row's invariant may be a conjunction of named parts: `ServiceInv` includes that
edits of another process are kept, `HistoryLegal` that turns are closed, `ScreenInv`
that ended streams are shown, `RunInv` that no error comes back early and the stream
is closed, `ExecInv` that output is complete; the parts are named and explained in
the modules. `TypeOK` of `AgentDispatch` and `TriggerTypeOK` of `LocalTriggers` are proved and not run.

Why these bounds: the pending queue, the gate, the injection limits and the
batch are set to 1 or 2 so that they overflow with the messages at hand, which at
20, 3 and 5 would need dozens of messages and no new case. A session's follow-ups
need one message that runs, one that waits and one that overflows; mutual
exclusion between sessions needs one other. In `cron_*` the clock runs to 3, past
every job's time and one repetition. Two attempts distinguish the first, the
retried and the exhausted delivery, and three faults are one more than that. In
`turn_persistence` two faults let a fault hit the recovery from another, the third
turn sees the result, and a cap of 5 cuts inside a turn (one turn leaves up to
seven messages) as well as between turns. `outbound` has two faults, one to be retried
and one to use up the attempts, and three chunks so that a failed one has a
neighbour on both sides. In `compaction` a turn says two messages, so that with a
window of 2 the second turn already overflows, and the cap of 3 cuts through it; four
other events let a /new meet what a title, a delivery or another /new has left (with three
turns and two such events the run finds nothing else). In
`agent_run` two fallbacks are the least that have a next one, a threshold of 2 the
least at which a failure need not open the circuit. In `request_context` a window of 4
cuts a stored turn and 20 does not; Target is the code's 85% of Budget; four results of an
MCP server, which are moved to a file but never compacted, are the fewest that with their call
exceed what is left for messages. In
`dream_memory` the line of entry 2 is longer than the tail that is read back, and four
entries are twice what compaction keeps and what a batch takes; five events are
an archiving, a run, a restore and one that is cut, or two archivings, a run and a cut restore;
the invariants were also checked with seven events of one dreamer without restores (3.7 million states). `background_work` was also run
without its temporal property with two sessions (2.2 million states) and with two
subagents (345 thousand), with the same result. Deadlock is not checked: every instance
ends when its messages, its clock or its faults are used up.

Safety runs use no fairness. In the liveness runs it is weak, and of these kinds:

- asyncio runs a ready task, a released lock or permit goes to its first waiter,
  and `run()` takes the next message (`AgentDispatch`). Each turn ends: a model
  call has a timeout, tools have theirs, and iterations are counted. No fairness
  is put on callers, injections or continuations.
- the clock advances, a ready timer is run, `on_job` ends (`CronService`), and a
  gateway that was stopped exits: strong fairness there, since calls that arrive
  meanwhile may keep interrupting that step but not for ever.
- the gateway is started again and its worker goes on (`LocalTriggers`), which
  the finite number of faults lets it do.
- the dispatcher task goes on (`OutboundDispatch`), as every send is bounded by its
  attempts.
- a call goes on, as each of its waits has a timeout, except that for a process to
  take its input, on which no fairness is put; a killed process exits; a wait_for
  ends after at most 120 s, and a turn comes to its end (both strong, as other steps
  interrupt them); `run()` takes the next message unless it executes /stop
  (`BackgroundWork`).

## 5. Seen while modelling

Every run passes: the properties state what the code keeps, and name as exceptions
the cases below in which it does not. Several of those differ from what a comment, a
test or a document says; where one does it is quoted.

Dispatch and commands. An automation turn that /stop ends before its turn proper begins never
answers its submitter (`docs/webui.md:156`, "marks the run failed"). `maybe_continue_turn` awaits
a put on the bounded queue that only its own turn drains (`loop.py:1149`). A /stop that cancels
the only other turn of a session before it starts strands a turn deferred behind it. `cmd_stop`
looks for the pending queue after the cancelled turn has put its messages back on the bus
(`command/builtin.py:178`). A follow-up drained before the turn has any new message is merged into
the prompt, which the save boundary leaves out.

Schedulers. An API call while the timer executes a job cancels that execution, and
the due job begins again (`cron/service.py:538`; `tests/cron/test_cron_service.py:961`
"Each job should have run exactly once, not looped"). A kill in `_merge_action` loses
the actions of other processes. `run_job` restores a running flag that `stop` cleared,
and its result is lost when `list_jobs` reloads the store. While a tick runs nothing is
reloaded, so that a job removed then comes back with the edit another process had left for
it in the action file. Recovery charges an attempt
to claimed deliveries that were never tried (`docs/webui.md:150`, "requeued").

Sessions. A checkpoint replaces the one before, so a /stop keeps only the turn's last
iteration (`loop.py:1109`). A slice of a goal whose responses were all empty or failed, each
followed by a follow-up that is merged into the prompt, says nothing of its own; when they use
up `max_tool_iterations`, its save leaves the prompt open, and the next prompt goes in beside
it. The five cycles (`runner.py:70`) and the one repetition of an empty answer prevent this
for any configured limit above six. Without a user message in its range the file cap keeps a
window from the latest one and archives the newest messages (`session/manager.py:393`).
`compact_idle_session` writes back a copy it made before its await; deliveries, shortcut
commands and direct turns do not take its lock (`agent/memory.py:1091` "single
lock-protected path"). A /new during a consolidation is followed by the cursor the
consolidation had computed; during an idle compaction the old messages come back. A /new clears
only the Session object of the cache (`command/builtin.py:271`): the title generator, or a
consolidation that began before an invalidation, may hold another copy whose save brings the
messages back ("Stop active task and start a fresh session"). `FreshAfterNew` excepts that by
name (`"copy"`); it had been checked with fewer events, in which no copy was old enough, and its
proof found the case. The archive that /new starts in the background is lost with the process. Deliveries that the window hides are never archived.

Requests and answers. A plain turn replies with the last piece of a truncated answer
only; an answer followed by an injected follow-up or a goal continuation is not sent.
Answers of requests without tools are marked as streamed in streaming turns and then
dropped by the ChannelManager (`channels/manager.py:521`). Inline `<think>` counts as
streamed text, so an error after it is neither retried nor failed over. "Half-open: allow
one probe attempt" (`fallback_provider.py:113`) lets every session probe. An exception of
the Copilot token exchange bypasses failover. A repetition after malformed tool calls goes
on in the same segment, and /stop ends no segment.

Context. The turn for a subagent's announcement ends with it as an assistant message,
which both providers drop when a user message is left
(`tests/providers/test_enforce_role_alternation.py:135` "must not be silently dropped").
`MICROCOMPACT_KEEP_RECENT` has no effect. Compaction precedes snipping, so that a long
history makes the newest result a summary first. `inflight_start_index` counts unrepaired
messages (`agent/runner.py:377`, `agent/context_governance.py:481`): a repair that removes messages
hides the turn's first results from the compactor, and one that inserts more error results than
that, for three or more calls of earlier turns, lets it summarise an earlier turn's result.
`HistoryWhole` excepts histories with unanswered calls; it had held in every instance of two
stored turns. Where the results of one response exceed the budget and there is no user message in
the list, as in a turn for a subagent's announcement in a session without stored prompts,
`_legal_history_tail` drops every message (`agent/context_governance.py:432`): the request has
the system message only. The run reaches this in three steps; `WireLegal` excepts it by name
(`NoRoom`: no other cut would be legal), and with unique ids the request is empty in no other case
(checked once beside the run). With
providers that give ids again, a new result may be shown compacted at once, and in a
damaged history a result may be paired with the wrong call. The OpenAI conversion drops
the text beside tool calls. `get_history` keeps a delivery before the first user message,
which the token limit drops again.

Delivery. A failed end loses the text in Matrix, a retried delta is doubled in Telegram's
buffer, Mattermost shows neither blank deltas nor the text before tools. A reply's
fingerprint is recorded before it is sent. Two sessions that stream into one Telegram chat
throw each other's buffer away, since buffers are found by the chat alone (`channels/telegram.py:448`,
`channels/telegram.py:1000`) and a topic of a group is a session of its own
(`channels/telegram.py:1131`): what the first had said so far stays as it was shown last, and its
end finds no buffer. The instance has one session per chat, and `ChatsAreRight` assumes it.

Memory. The Dream cursor moves when the memory files differ from the last commit, so that
edits left by a turn, by another run or by a failed commit make a failed run skip its
batch. A restore beside a run in flight is followed by that run's cursor. A restore that a kill
or an error cuts before its last file leaves older or empty memory files under the cursor of
before, as `.dream_cursor` is written last (`utils/gitstore.py:474`, `agent/memory.py:76`), and
Dream never reads what they lost again unless the restore is repeated; an edit cut within
`write_text` does the same to one file. `Considered` excepts what was in the files before. A completed run
that edits nothing never moves the cursor and is repeated until compaction drops its
entries, read or not. The line after a torn one is lost with it, and an emptied
`.dream_cursor` makes Dream read everything again. Three kills while lines are written can make
the cursor numbers go back: the next cursor is one more than the last readable line's, else than
the counter's, and if the counter alone moved (its line lost), a start with Dream disabled has
put the Dream cursor there, and a kill loses the counter too, then that number is given again to
an entry that Dream considers read (`agent/memory.py:295`, `cli/commands.py:177`). `Considered`
excepts exactly that (`recounted`).

Background work. A poll that its 2 s limit or /stop cuts while it waits for the readers
cancels them and leaves the session in the table: each later poll raises CancelledError
into a caller nobody stopped, whose turn ends without a word or whose subagent is never
announced ("I'll notify you when it completes", `agent/subagent.py:208`). A process that
exits in the 0.1 s grace time is removed though its last output may be unread. A wait_for
loses what it gathered when another call removed the session. A write to a process that
takes no input waits until /stop, since deadlines are enforced by polls only. Exited
sessions that nobody polls keep their slots until they have been idle long enough.

MCP connections (read, not modelled). `connect_missing_servers` does not take the reload lock: a
`process_direct` during a reload or a refresh, which have taken the server out of `_mcp_stacks`,
connects it again, and the later of the two replaces the stack of the other, which nothing closes
then. `run()` connects once, before its loop (`loop.py:934`), so that a failed or cancelled
connection is not tried again for a message of the bus, as the log says ("will retry next
message", `agent/tools/mcp.py:1140`): it waits for a direct turn or a reload.

## 6. Proofs

Every theorem holds for all values of the constants that satisfy the assumptions their modules
name (`...Assumption`: limits are numbers, positive where the code's are, and a value that stands
for "none" is not one of the set; `KeysAssumption`: a chat is not also the id of a stream); no set
of messages, sessions or callers needs to be finite. Three hypotheses are about the instance: `Room`
in `TurnPersistenceProofs`, `Undisturbed` in `ScheduleProofs` and `Private` in
`OutboundDispatchProofs`. Each is needed, as the code does otherwise (section 5), and only by the
theorems named below with it.

**AgentDispatchProofs.** `TypeCorrect` first, by one lemma per group of actions
and helpers. `SessionMutualExclusion`: `OneTurnPerSession` is not inductive, since
a task may only enter when nobody holds the lock; the strengthening is that each
task past the lock is its `lockOwner`, and mutual exclusion follows as an owner is
one value. `ConcurrencyBounded`: each dispatched task in a turn is in `gate`, and
`gate` is a finite set of at most `MaxConcurrent`; what has to be shown of each
step is that permits come back exactly once, also from tasks cancelled while they
wait. `AutomationHasItsOwnTurn`: pending queues contain follow-ups only.
`FollowUpsReachTheTurn` and `EveryMessageWaitsOnce` rest on `PlaceInv`. A waiting
message is seen as an element of a place (the bus, a turn's pending queue, a
session's deferred list), and `FlowInv` says that the places together hold each
message that is queued once and none other, so that a step has only to say what it
took from one place and put into another; a registered queue belongs to a dispatched
turn of its session, without which a message could be routed to a turn that has left.

**TurnPersistenceProofs.** `Inv` is `TypeOK`, `Located` (what the turn's stage
says of its number and iteration, without which a response or a checkpoint could
be out of range) and `Kept`: what was seen is in the file or the archive, the file
is covered by the cached session and the archive, and the answer on its way is
about to be saved or is saved already. The first part alone is not inductive: a
save writes the cache over the file, so the cache must cover the file first.
`StepStored` shows once that no step makes the file lose a message the archive
does not get; `NothingSeenIsLost` and `FileNeverLoses` follow. `RetainTyped` and
`OverlapBounded` need the existence of maxima of bounded sets of numbers, which
`LeastElement` and `GreatestElement` derive from the well-foundedness of the
natural numbers, as an induction theorem cannot be instantiated here.

`HistoryPaired` and `HistoryStaysLegal` are about what is in the lists. `Legal` restates the parts
of `HistoryLegal` as facts about neighbours and pairs, which windows and joined lists inherit
(`WindowLinked`, `ConcatLegal`); `LegalStartIs` and `LegalWindow` say what
`find_legal_message_start` leaves of such a list, `RetainLegal` what the file cap does: a call at
the end of the window has its result among the messages handed to the archive. The inductive
invariant `Histories` says of cache and file that they are legal, that of the running turn only
its opening is stored, that nothing of the response which a checkpoint stands for is stored (so
`NoOverlap`: restoring never has to drop anything), and that the session is marked as pending
after a prompt; of the running turn, that its new messages are legal by themselves and numbered by
their response. That two prompts are never adjacent needs `Room`, the hypothesis of
`HistoryStaysLegal`: fewer cycles of follow-ups than iterations, and a file cap above one. Without
it TLC finds the open prompt of section 5. The other three parts, `HistoryPaired`, hold for all
bounds.

**ScheduleProofs.** Of `CronService`: `Base` says of memory, file, action file, timer and the job in
progress what holds whatever happens; `GatewayConsistent` follows without condition.
`ServiceConsistent` and `CompletesOnce` are for an instance that is `Undisturbed`: nobody
calls stop() within the process, and no other process writes back a job it read before. Both do
lose an edit or repeat an occurrence in this code (section 5), so that without the condition the
properties are false; reloads, kills, all calls of the API, additions and removals
of another process, ticks and manual runs remain. A kill between the two writes of a merge loses
actions too; there the property makes the exception, for the jobs concerned. `JobRecorded` gives, for each history of a
job, where it may be known (memory, file, action file); `Occurrences` says that the next run
of a job, wherever it is recorded, is never one that was completed.

Of `LocalTriggers`: `Inv` consists of the types, what the worker's phase says
of `held`, and `Counted`: which counts a file can have given the submissions so far,
and which run records go with which files. `AttemptsBounded` and
`NothingHandledTwice` follow from it. `QueueImplemented` maps `status` and
`outcome` by `StatusOf` and `OutcomeOf`; the steps of the worker that move files
without consequence to the promise are stutters (`RefSilent`, `RefClaim`), and
every other action is one step of `TriggerQueue`.

**OutboundDispatchProofs.** What is proved first is what `FlattenSeq`, `Merged` and
`SetAside` do to sequences of any length, by induction. `FifoImplemented` then only has to
show that each step leaves the units that were published as they are, or moves the first of
them to those handled. For `NothingLostOrRepeated`, `Buffered` says of each buffer that its post
shows a beginning of its text and that no other buffer has the post, without which an edit of
one stream could take back the text of another; `Printed` says that a fingerprint was recorded
for a text that was handed over or is at hand.

`ChatsAreRight` needs to know what was written before it can say what is to be read. `Log` is all
that was published, handled or not; as no step changes it except by publishing (the refinement
again), `Written` holds of it through all merging and holding back: the chunks of a stream come
in their order and before its end, and a session ends one stream before it begins the next.
`Displayed` then says of each buffer and each post which chunks it has: those handled so far,
unless a recorded failure explains what is missing, and of an ended stream all of them. Posts are
found by the id that the buffer keeps; what a retry may repeat is bounded by the answers that
were lost. `Private`, a Telegram chat is one session's, is a hypothesis of this theorem only.

**AgentRunProofs.** Two layers. `RequestInv` is about the request, the breaker and the
stream: which of the flags for "something was streamed" can be up at which stage, that the
segment has the text of one attempt unless it is of malformed tool calls, and what is left to
try. `LoopInv` ties them to the stage of the loop. `ConcludeInv` shows once what comes back of a
request to the loop; there is one lemma per branch of `_run_core`.

**BackgroundWorkProofs.** `LedgerOK` states that no output is counted twice as the existence of
an assignment of every chunk to one holder (shown, buffer, unread, a call, lost): sums over
callers would need induction, moving a chunk between holders does not. `CountedOK` is the
stronger fact of sessions that nobody disturbed and whose readers were not cut, where the
one call that uses the session (`AloneOK`) has what is missing. `CutOK`: readers that were cut
are the affair of the call that cut them, so that a stray CancelledError needs a disturbed
session. `MailOK` and `TasksOK` place every announcement, and say that a pending one has a
live turn and that a call belongs to a running task.

**MemoryProofs.** Of `DreamMemory`: the next cursor is above all cursors of the file and the counter, hence
a new line keeps the file in order, and compaction keeps the newest line, hence it does not
lower the next cursor. Until a kill loses a number with its line (`recounted`), the next cursor
is also above the cursor of the workspace, of each commit and of each run in flight, so that
nothing archived later is behind one of them. `Passed` says of a cursor that all
lines up to it are known; a run's last line passes since a batch is the oldest lines
after the cursor it read (`BatchFits`, from the order of `Oldest`). A write that is cut moves
entries from the memory files to the excused ones, so that they stay known to the cursors that
stay, in the workspace and in runs that go on (`WorkingKnown`, `RunsKeep`). The proof found
the exception: `Considered` had been stated and checked with two faults, and fails with three
(section 5).

Of `SessionCompaction`: `NothingLost` speaks of the session as it is now, but any copy that a turn,
an archiving or the title generator holds, and the file, may become the session. `Fits` says of
each that its messages are in the order in which they were said, younger than the last /new, and
that all which is `Owed` (said with one copy alive, neither archived nor in a snapshot) is behind
its cursor. An await is between two steps, so `JobOK` says that what the archiving was given is
still what its continuation will drop: exactly the messages the cursor will pass, or those an idle
compaction does not keep. It stays so because whoever writes meanwhile only appends, and that in
turn rests on the lock (`QueueOK`): a turn at work has left the queue, a waiting one has said
nothing yet, and what a turn leaves behind comes before the next turn. `MessagesKept`, `NewIsNew`
and the cursor's range follow. That nothing is archived twice needs a second layer, `Sorted`,
which holds until something is upset: a message is in one copy, and in no copy that would archive
it again once it is archived or in a snapshot. The lemmas about the file cap and the idle suffix
(`RetainRecent`, `DropForIdle`) state where in a list the window they keep begins and ends.

**RequestContextProofs.** First what a chain of cuts and repairs does to a list of any
length. Each step of the governor is described by an injection into the list it got:
`Shed` (placeholders, nameless calls and orphans go, the results of named calls stay),
`BackfillIs` (what is added is no result that was there), `Shortens` (what compaction has done
after its k-th candidate, and why), `Sent` (the request as a whole). The recursive functions
(`Fold`, `FlattenSeq`) are shown to exist once (`Recursion`, `FlattensExists`), by induction as
below. `PrepareIs`, `PrepareAgain` and `PrepareMinimal` are then about `prepare_for_model` alone:
which results it may compact, that it is idempotent when ids are unique, and what is
left when a request does not fit. That needs lists that are `Good` (each result once, after
its call, under its id), `Anchored` (no orphans), and for some of it `Complete` (no
unanswered call) and `Clean` (nothing to remove); `GetHistoryIs`, `JoinedIs` and `ExchangeIs` show
that what the turn starts from and appends to is. `IInv` joins the two: the request was
prepared from the run's list, with a set of ids that were called in it. That this set stays
true as the list grows is `CalledKept`, and both theorems follow.

**Induction.** The library's induction theorems take the formula as an operator, which the
provers cannot instantiate. The proofs use the well-foundedness of the natural numbers for a
set instead: the least element of the set of counterexamples is contradicted. This proves what a
recursive function computes for every argument when its equation can be derived
(`FlattenSeq` in `OutboundDispatchProofs`, `Fold` in `RequestContextProofs`).

Model-checked only: everything about liveness (`Settles` and its like, which are beyond the
prover, as is ENABLED), and two properties of `RequestContext`: `WireLegal` and `PromptSeen` are
about what is left after the conversions of `ProviderWire`, whose lemmas are not written yet.

## 7. Not modelled

The components with status `not_modelled` in `PROJECT.json`, with reasons. Within
the modelled ones:

- `AgentDispatch`: the contents of messages; priority commands other than /stop and /new (they
  answer without touching shared state); idle compaction, which `run()` schedules on its timeout
  (`SessionCompaction`); a unified session is the instance where all keys are equal.
- `CronService`: file system errors, cron expressions (a schedule is a period or
  an instant), the migration of old stores.
- `LocalTriggers`: delivery files that cannot be parsed, and two gateways on one
  workspace.
- `TurnPersistence`: the consolidation cursor (it stays 0), iterations that leave
  no message, failures of saves other than the last of a turn, equality of
  contents of different messages (the overlap of a checkpoint compares contents),
  and /new's archive task, which is taken to succeed (both are in
  `SessionCompaction`). Goal continuation rounds
  count one goal and are not reset.
- `OutboundDispatch`: delays, long texts that are split, media, shutdown.
- `SessionCompaction`: checkpoints, follow-ups and tool messages of a turn, disk
  errors, the text of summaries.
- `ModelRequest`, `AgentRun`: streaming as progress, without stream recovery
  (`agent/runner.py:818`); delays, reasoning, tool errors that end a run
  (subagents), the breaker of the Responses API in `openai_compat_provider.py`.
- `RequestContext`: what tokens are counted by; the prompt's texts and media; other
  providers' formats.
- `DreamMemory`: the old HISTORY.md, damage by other programs, two processes on one
  workspace, short commit hashes that collide, and liveness: the code promises none,
  as a batch with nothing to keep is read again. A line torn inside a multi-byte character
  makes whole-file reads raise `UnicodeDecodeError` (`agent/memory.py:430`) where the model
  passes it over: the model allows more than the code does there, so the safety properties stand.
- `ExecSessions`, `BackgroundWork`: the safety guard of commands, truncation of output,
  shutdown (sessions are not closed), a session's owner, as all callers belong to one
  chat.

The other components are adapters of external services (channels, HTTP, MCP servers),
request handlers over the stores that are modelled (WebUI, API, SDK), one-user set-up
dialogues (CLI), and parsing or conversion without state. They are most of the
repository's lines, and what could go wrong in them is in the services they call or in
their formats rather than in an order of steps.
