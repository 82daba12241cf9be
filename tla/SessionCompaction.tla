------------------------- MODULE SessionCompaction -------------------------
(***************************************************************************)
(* One session and everything that compacts it: the consolidation before   *)
(* and after each turn (agent/memory.py), the compaction of an idle        *)
(* session (agent/autocompact.py), the file cap and /new.  All of them     *)
(* work on Session objects of the store (session/manager.py), which a turn *)
(* keeps for as long as it runs while the store's cache may move to        *)
(* another copy; those that await a model hold the Consolidator's lock.    *)
(*                                                                         *)
(* A message is its kind and the order in which it was said.  A model call *)
(* that fails is archived raw instead of summarised; both count as         *)
(* archived.  Left out: the checkpoints and follow-ups of a turn and its   *)
(* tool messages (TurnPersistence), disk errors, the summaries' text.      *)
(***************************************************************************)
EXTENDS SessionHistory, SequencesExt

CONSTANTS
  Window,            \* max_messages: how many messages a prompt replays
  Suffix,            \* _RECENT_SUFFIX_MESSAGES
  FileCap,           \* FILE_MAX_MESSAGES
  MaxRounds,         \* _MAX_CONSOLIDATION_ROUNDS
  MaxTurns,          \* bound of the turns, commands included
  MaxSessionEvents   \* bound of the deliveries, /new, titles and crashes together

ASSUME CompactionAssumption ==
  /\ {Window, Suffix, FileCap, MaxRounds} \subseteq Nat \ {0}
  /\ {MaxTurns, MaxSessionEvents} \subseteq Nat

VARIABLES
  store,     \* the live Session objects, the cached one, and the file
  lock,      \* who holds (first) or waits for the consolidation lock
  job,       \* the archiving that the holder awaits
  turn,      \* the turn of the session: its stage, kind and Session object
  title,     \* the Session object the title generator holds (0: none)
  snapshots, \* messages that /new left to a background archiving
  archived,  \* messages in history.jsonl, in a summary or raw
  said,      \* number of messages so far
  exposed,   \* history: said while more than one copy could be written back
  upsets,    \* history: the kinds of archiving during which /new came; a "copy", when
             \* /new left another one that had messages; a "fork", when the idle
             \* compaction loaded a copy beside one that was held; a "crash"
  dropped,   \* history: messages that were in a snapshot when the process died
  twice,     \* history: archived more than once
  wiped,     \* history: how many messages were said before the last /new
  turns, events  \* numbers of turns and of other events, for the bounds

sessionVars == <<store, lock, job, turn, title, snapshots, archived, said, exposed,
                 upsets, dropped, twice, wiped, turns, events>>

Workers == {"turn", "after", "idle"}
Ids == 1..4  \* the cache, the turn, the holder and the title generator each hold one
Empty == [msgs |-> <<>>, cursor |-> 0, pending |-> FALSE]
NoJob == [kind |-> "none", ref |-> 0, end |-> 0, chunk |-> {}, keep |-> <<>>, rounds |-> 0]
NoTurn == [stage |-> "none", kind |-> "bus", ref |-> 0]

Numbers(s) == {s[i].n : i \in DOMAIN s}
Unarchived(o) == From(o.msgs, o.cursor + 1)  \* messages[last_consolidated:]

-----------------------------------------------------------------------------
(* The store: session/manager.py. *)

\* Session.__post_init__ resets a cursor beyond the messages.
Loaded(f) == IF f.cursor <= Len(f.msgs) THEN f ELSE [f EXCEPT !.cursor = 0]

Held == {turn.ref, job.ref, title} \ {0}

\* get_or_create.
Fetch(st) ==
  IF st.cache # 0 THEN st
  ELSE LET id == Min(Ids \ Held)
       IN  [st EXCEPT !.objs[id] = Loaded(st.file), !.cache = id]

Invalidate(st) == [st EXCEPT !.cache = 0]
Save(st, r) == [st EXCEPT !.file = st.objs[r], !.cache = r]
Edit(st, r, o) == [st EXCEPT !.objs[r] = o]
Rewrite(st, r, o) == Save(Edit(st, r, o), r)
Say(o, from, kinds) ==
  [o EXCEPT !.msgs = @ \o [i \in DOMAIN kinds |-> [kind |-> kinds[i], n |-> from + i]]]

\* The session as the next one to fetch it finds it.
Session == Fetch(store).objs[Fetch(store).cache]

\* retain_recent_legal_suffix(Suffix, extend_to_user=True): the number of
\* messages it drops from the front of s.
DropForIdle(s) ==
  LET first == Len(s) - Suffix
      before == {i \in 1..first + 1 : IsUser(s[i])}
      after == {i \in first + 1..Len(s) : IsUser(s[i])}
  IN  IF first <= 0 THEN 0
      ELSE IF before # {} THEN Max(before) - 1
      ELSE IF after # {} THEN Min(after) - 1 ELSE first

\* recent_message_start_index and the alignment of _replay_overflow_boundary:
\* the number of messages of s that a prompt does not replay.
HiddenByWindow(s) ==
  LET first == Len(s) - Window
      WithDelivery(u, from) == IF u - 1 > from /\ s[u - 1].kind = "delivery" THEN u - 2 ELSE u - 1
      inside == {i \in first + 1..Len(s) : IsUser(s[i])}
      before == {i \in 1..first : IsUser(s[i])}
  IN  IF first <= 0 THEN 0
      ELSE IF inside # {} THEN WithDelivery(Min(inside), first)
      ELSE IF before # {} THEN WithDelivery(Max(before), 0) ELSE first

-----------------------------------------------------------------------------
CompactionInit ==
  /\ store = [objs |-> [i \in Ids |-> Empty], cache |-> 0, file |-> Empty]
  /\ lock = <<>> /\ job = NoJob /\ turn = NoTurn /\ title = 0
  /\ snapshots = {} /\ archived = {} /\ said = 0
  /\ exposed = {} /\ upsets = {} /\ dropped = {} /\ twice = {} /\ wiped = 0
  /\ turns = 0 /\ events = 0

\* k messages are added while st is the store.  They are exposed when another
\* copy is alive, when the idle compaction has already chosen what it keeps, or
\* after a history was cleared under a consolidation.
Spoken(st, k) ==
  /\ said' = said + k
  /\ exposed' = IF \/ Cardinality(({st.cache} \union Held) \ {0}) > 1
                   \/ job.kind = "idle"
                   \/ upsets \intersect {"overflow", "round"} # {}
                THEN exposed \union (said + 1 .. said + k) ELSE exposed

Archive(ns) ==
  /\ archived' = archived \union ns
  /\ twice' = twice \union (archived \intersect ns)

\* _restore_pending_user_turn: a turn that was cut off gets a closing message.
ClosingSays(o) == IF o.pending /\ o.msgs # <<>> /\ IsUser(o.msgs[Len(o.msgs)]) THEN 1 ELSE 0
Closed(o) ==
  [Say(o, said, SubSeq(<<"answer">>, 1, ClosingSays(o))) EXCEPT !.pending = FALSE]
Restore(st) == IF st.objs[st.cache].pending
               THEN Rewrite(st, st.cache, Closed(st.objs[st.cache])) ELSE st

-----------------------------------------------------------------------------
(* A turn: agent/loop.py. *)

\* With the session lock, _dispatch or process_direct: RESTORE, COMPACT, and
\* BUILD up to the consolidation, which queues for its lock.
Begin(kind) ==
  LET st == Fetch(store) IN
  /\ turn.stage = "none" /\ turns < MaxTurns
  /\ store' = Restore(st)
  /\ Spoken(st, ClosingSays(st.objs[st.cache]))
  /\ turn' = [stage |-> "wait", kind |-> kind, ref |-> st.cache]
  /\ lock' = Append(lock, "turn")
  /\ turns' = turns + 1
  /\ UNCHANGED <<job, title, snapshots, archived, upsets, dropped, twice, wiped, events>>

\* A shortcut command: _state_command stores it and its reply; the mark of a
\* pending turn is cleared in memory only.
Command ==
  LET st == Fetch(store)
      r == st.cache
      k == ClosingSays(st.objs[r])
      o == Say(Restore(st).objs[r], said + k, <<"command", "reply">>)
  IN
  /\ turn.stage = "none" /\ turns < MaxTurns
  /\ store' = Edit(Rewrite(st, r, [o EXCEPT !.pending = TRUE]), r, o)
  /\ Spoken(st, k + 2)
  /\ turns' = turns + 1
  /\ UNCHANGED <<lock, job, turn, title, snapshots, archived, upsets, dropped, twice, wiped, events>>

\* The consolidation lock is released; a turn that held it goes on: it stores
\* the user message, in the Session object it has had since RESTORE.
Release(st) ==
  /\ job' = NoJob
  /\ lock' = Tail(lock)
  /\ IF Head(lock) = "turn"
     THEN /\ store' = Rewrite(st, turn.ref,
                        [Say(st.objs[turn.ref], said, <<"prompt">>) EXCEPT !.pending = TRUE])
          /\ Spoken(st, 1)
          /\ turn' = [turn EXCEPT !.stage = "run"]
     ELSE store' = st /\ UNCHANGED <<turn, said, exposed>>

\* _set_runtime_checkpoint: a running turn saves its Session object.
Checkpoint ==
  /\ turn.stage = "run"
  /\ store' = Save(store, turn.ref)
  /\ UNCHANGED <<lock, job, turn, title, snapshots, archived, said, exposed, upsets, dropped, twice, wiped, turns, events>>

\* Mutant: the file cap leaves the cursor where it was.
FinishTurnOldCursor ==
  LET o == Say(store.objs[turn.ref], said, <<"answer">>)
      kept == RetainRecent(o.msgs, FileCap)
      cut == {i \in 1..Len(o.msgs) : o.msgs[i] \notin Range(kept)}
      capped == IF cut = {} THEN o
                ELSE [o EXCEPT !.msgs = kept]
  IN
  /\ turn.stage = "run"
  /\ store' = Rewrite(store, turn.ref, [capped EXCEPT !.pending = FALSE])
  /\ Spoken(store, 1)
  /\ Archive({o.msgs[i].n : i \in {j \in cut : j > o.cursor}})
  /\ lock' = Append(lock, "after")
  /\ turn' = NoTurn
  /\ \/ UNCHANGED <<title, events>>
     \/ /\ title = 0 /\ events < MaxSessionEvents
        /\ title' = turn.ref
        /\ events' = events + 1
  /\ UNCHANGED <<job, snapshots, upsets, dropped, wiped, turns>>

\* _state_save: the answer, the file cap, the consolidation in the background;
\* then the title generator of a WebUI chat may start.
FinishTurn ==
  LET o == Say(store.objs[turn.ref], said, <<"answer">>)
      kept == RetainRecent(o.msgs, FileCap)
      cut == {i \in 1..Len(o.msgs) : o.msgs[i] \notin Range(kept)}
      capped == IF cut = {} THEN o
                ELSE [o EXCEPT !.msgs = kept, !.cursor = Cardinality((1..o.cursor) \ cut)]
  IN
  /\ turn.stage = "run"
  /\ store' = Rewrite(store, turn.ref, [capped EXCEPT !.pending = FALSE])
  /\ Spoken(store, 1)
  /\ Archive({o.msgs[i].n : i \in {j \in cut : j > o.cursor}})
  /\ lock' = Append(lock, "after")
  /\ turn' = NoTurn
  /\ \/ UNCHANGED <<title, events>>
     \/ /\ title = 0 /\ events < MaxSessionEvents
        /\ title' = turn.ref
        /\ events' = events + 1
  /\ UNCHANGED <<job, snapshots, upsets, dropped, wiped, turns>>

\* A turn is cancelled: it leaves the lock, and what it awaited is void.
Cancelled ==
  /\ turn' = NoTurn
  /\ lock' = IF turn.stage = "wait"
             THEN RemoveAt(lock, CHOOSE i \in DOMAIN lock : lock[i] = "turn") ELSE lock
  /\ job' = IF lock # <<>> /\ Head(lock) = "turn" THEN NoJob ELSE job

\* /stop, or the end of a direct call's caller.
StopTurn ==
  /\ turn.stage # "none"
  /\ Cancelled
  /\ store' = Fetch(store)
  /\ UNCHANGED <<title, snapshots, archived, said, exposed, upsets, dropped, twice, wiped, turns, events>>

-----------------------------------------------------------------------------
(* Consolidator.maybe_consolidate_by_tokens. *)

AwaitArchive(st, ref, kind, end, rounds) ==
  LET o == st.objs[ref] IN
  /\ store' = st
  /\ job' = [kind |-> kind, ref |-> ref, end |-> end, rounds |-> rounds, keep |-> <<>>,
             chunk |-> Numbers(SubSeq(o.msgs, o.cursor + 1, end))]
  /\ UNCHANGED <<lock, turn, said, exposed>>

\* pick_consolidation_boundary: where a turn begins behind the cursor.
Boundaries(o) == {i \in o.cursor + 1..Len(o.msgs) - 1 : IsUser(o.msgs[i + 1])}

\* The rounds: the prompt fits, or another chunk is archived.
Decide(st, ref, rounds) ==
  \/ Release(st)
  \/ /\ rounds < MaxRounds
     /\ \E b \in Boundaries(st.objs[ref]) : AwaitArchive(st, ref, "round", b, rounds + 1)

ConsolidateStart ==
  LET st == Fetch(store)
      o == st.objs[st.cache]
      hidden == HiddenByWindow(Unarchived(o))
  IN
  /\ lock # <<>> /\ Head(lock) \in {"turn", "after"} /\ job = NoJob
  /\ IF hidden > 0
     THEN AwaitArchive(st, st.cache, "overflow", o.cursor + hidden, 0)
     ELSE Decide(st, st.cache, 0)
  /\ UNCHANGED <<title, snapshots, archived, upsets, dropped, twice, wiped, turns, events>>

\* Mutant: a failed summary does not move the cursor, so that its chunk comes again.
ConsolidateStepAgain(ok) ==
  LET o == [store.objs[job.ref] EXCEPT !.cursor = IF ok THEN job.end ELSE @]
      st == Rewrite(store, job.ref, o)
  IN
  /\ job.kind \in {"overflow", "round"}
  /\ Archive(job.chunk)
  /\ IF ok \/ job.kind = "overflow" THEN Decide(st, job.ref, job.rounds) ELSE Release(st)
  /\ UNCHANGED <<title, snapshots, upsets, dropped, wiped, turns, events>>

\* The archiving returns: a summary, or the raw messages (ok is FALSE), after
\* which a round is the last one.  The cursor goes where it was to go before.
ConsolidateStep(ok) ==
  LET o == [store.objs[job.ref] EXCEPT !.cursor = job.end]
      st == Rewrite(store, job.ref, o)
  IN
  /\ job.kind \in {"overflow", "round"}
  /\ Archive(job.chunk)
  /\ IF ok \/ job.kind = "overflow" THEN Decide(st, job.ref, job.rounds) ELSE Release(st)
  /\ UNCHANGED <<title, snapshots, upsets, dropped, wiped, turns, events>>

-----------------------------------------------------------------------------
(* AutoCompact.check_expired and Consolidator.compact_idle_session. *)

\* Sessions of turns on the bus are left alone; those of direct calls are not.
CheckExpired ==
  /\ \A i \in DOMAIN lock : lock[i] # "idle"
  /\ ~(turn.stage # "none" /\ turn.kind = "bus")
  /\ store' = Fetch(store)
  /\ DropForIdle(Unarchived(Session)) > 0
  /\ lock' = Append(lock, "idle")
  /\ UNCHANGED <<job, turn, title, snapshots, archived, said, exposed, upsets, dropped,
                 twice, wiped, turns, events>>

IdleStart ==
  LET st == Fetch(Invalidate(store))
      o == st.objs[st.cache]
      s == Unarchived(o)
      cut == DropForIdle(s)
  IN
  /\ lock # <<>> /\ Head(lock) = "idle" /\ job = NoJob
  /\ IF cut > 0
     THEN /\ store' = st
          /\ job' = [kind |-> "idle", ref |-> st.cache, end |-> 0, rounds |-> 0,
                     keep |-> From(s, cut + 1), chunk |-> Numbers(SubSeq(s, 1, cut))]
          /\ UNCHANGED <<lock, turn, said, exposed>>
     ELSE Release(IF s = <<>> THEN Save(st, st.cache)
                  ELSE Rewrite(st, st.cache, [o EXCEPT !.msgs = s, !.cursor = 0]))
  /\ upsets' = IF Held = {} THEN upsets ELSE upsets \union {"fork"}
  /\ UNCHANGED <<title, snapshots, archived, dropped, twice, wiped, turns, events>>

\* The archiving returns: the session becomes what was to be kept of it.
IdleStep ==
  /\ job.kind = "idle"
  /\ Archive(job.chunk)
  /\ Release(Rewrite(store, job.ref,
                     [store.objs[job.ref] EXCEPT !.msgs = job.keep, !.cursor = 0]))
  /\ UNCHANGED <<title, snapshots, upsets, dropped, wiped, turns, events>>

-----------------------------------------------------------------------------
(* The others that write to a session. *)

\* cli/commands.py _deliver_to_channel records a message sent to the chat.
Deliver ==
  LET st == Fetch(store) IN
  /\ events < MaxSessionEvents
  /\ store' = Rewrite(st, st.cache, Say(st.objs[st.cache], said, <<"delivery">>))
  /\ Spoken(st, 1)
  /\ events' = events + 1
  /\ UNCHANGED <<lock, job, turn, title, snapshots, archived, upsets, dropped, twice, wiped, turns>>

\* /new clears one Session object; the archiving or the title generator holds another
\* that has messages.
OtherCopy(st) ==
  IF \E r \in {job'.ref, title} \ {0, st.cache} : st.objs[r].msgs # <<>> THEN {"copy"} ELSE {}

\* Mutant: /new empties the file and leaves the Session object as it is.
NewElsewhere ==
  LET st == IF turn.stage = "none" THEN Restore(Fetch(store)) ELSE Fetch(store)
      k == IF turn.stage = "none" THEN ClosingSays(Session) ELSE 0
      o == st.objs[st.cache]
      snapshot == Numbers(Unarchived(o))
  IN
  /\ turn.stage = "none" \/ turn.kind = "bus"
  /\ events < MaxSessionEvents
  /\ Cancelled
  /\ store' = [Invalidate(st) EXCEPT !.file = Empty]
  /\ snapshots' = IF snapshot = {} THEN snapshots ELSE snapshots \union {snapshot}
  /\ upsets' = upsets \union ({job'.kind} \ {"none"}) \union OtherCopy(st)
  /\ Spoken(st, k)
  /\ wiped' = said'
  /\ events' = events + 1
  /\ UNCHANGED <<title, archived, dropped, twice, turns>>

\* cmd_new: as a turn of its own, or while a turn of the bus runs.  The turn is
\* cancelled, the session cleared, its messages archived in the background.
New ==
  LET st == IF turn.stage = "none" THEN Restore(Fetch(store)) ELSE Fetch(store)
      k == IF turn.stage = "none" THEN ClosingSays(Session) ELSE 0
      o == st.objs[st.cache]
      snapshot == Numbers(Unarchived(o))
  IN
  /\ turn.stage = "none" \/ turn.kind = "bus"
  /\ events < MaxSessionEvents
  /\ Cancelled
  /\ store' = Invalidate(Rewrite(st, st.cache, [o EXCEPT !.msgs = <<>>, !.cursor = 0]))
  /\ snapshots' = IF snapshot = {} THEN snapshots ELSE snapshots \union {snapshot}
  /\ upsets' = upsets \union ({job'.kind} \ {"none"}) \union OtherCopy(st)
  /\ Spoken(st, k)
  /\ wiped' = said'
  /\ events' = events + 1
  /\ UNCHANGED <<title, archived, dropped, twice, turns>>

ArchiveSnapshot(ns) ==
  /\ snapshots' = snapshots \ {ns}
  /\ Archive(ns)
  /\ UNCHANGED <<store, lock, job, turn, title, said, exposed, upsets, dropped, wiped, turns, events>>

\* session/webui_turns.py: the title is stored in the object fetched before
\* the model was asked for it, or there is none.
Titled ==
  /\ title # 0
  /\ title' = 0
  /\ \/ UNCHANGED store
     \/ store' = Save(store, title)
  /\ UNCHANGED <<lock, job, turn, snapshots, archived, said, exposed, upsets, dropped,
                 twice, wiped, turns, events>>

\* The process dies; an archive file may be written and the session not yet.
Crash ==
  /\ events < MaxSessionEvents
  /\ events' = events + 1
  /\ store' = [store EXCEPT !.objs = [i \in Ids |-> Empty], !.cache = 0]
  /\ lock' = <<>> /\ job' = NoJob /\ turn' = NoTurn /\ title' = 0
  /\ snapshots' = {} /\ dropped' = dropped \union (UNION snapshots)
  /\ \/ UNCHANGED <<archived, twice>>
     \/ job # NoJob /\ Archive(job.chunk)
  /\ upsets' = upsets \union {"crash"}
  /\ UNCHANGED <<said, exposed, wiped, turns>>

CompactionNext ==
  \/ \E kind \in {"bus", "direct"} : Begin(kind)
  \/ Command \/ Checkpoint \/ FinishTurn \/ StopTurn
  \/ ConsolidateStart \/ \E ok \in BOOLEAN : ConsolidateStep(ok)
  \/ CheckExpired \/ IdleStart \/ IdleStep
  \/ Deliver \/ New \/ (\E ns \in snapshots : ArchiveSnapshot(ns)) \/ Titled
  \/ Crash

CompactionSpec == CompactionInit /\ [][CompactionNext]_sessionVars

-----------------------------------------------------------------------------
Record == [msgs : Seq([kind : Kinds \union {"delivery"}, n : Nat \ {0}]), cursor : Nat,
           pending : BOOLEAN]

\* Every object of the store is a Session, no worker queues twice for the lock,
\* an archiving is awaited only under it, and only said messages are archived.
TypeOK ==
  /\ store.objs \in [Ids -> Record] /\ store.cache \in Ids \union {0} /\ store.file \in Record
  /\ \A i \in DOMAIN lock : lock[i] \in Workers /\ \A j \in DOMAIN lock : lock[i] = lock[j] => i = j
  /\ job.kind \in {"none", "overflow", "round", "idle"} /\ (job # NoJob => lock # <<>>)
  /\ turn \in [stage : {"none", "wait", "run"}, kind : {"bus", "direct"}, ref : Ids \union {0}]
  /\ title \in Ids \union {0}
  /\ said \in 0..3 * MaxTurns + MaxSessionEvents
  /\ {archived, exposed, dropped, twice} \subseteq SUBSET (1..said)
  /\ snapshots \subseteq SUBSET (1..said)
  /\ upsets \subseteq {"overflow", "round", "idle", "copy", "fork", "crash"} /\ wiped \in 0..said
  /\ turns \in 0..MaxTurns /\ events \in 0..MaxSessionEvents

\* No message is lost while the session has one copy: what was said is still
\* before the model, or archived, or about to be.  (The consolidation's cursor,
\* the file cap, the compaction of the idle session and /new may each drop
\* messages, at any moment of a turn or of each other's archiving.)
NothingLost ==
  (1..said) \ (exposed \union dropped)
    \subseteq archived \union (UNION snapshots) \union Numbers(Unarchived(Session))

\* The cursor stays within the messages of every copy, unless /new cleared them
\* while a consolidation was archiving: nothing else shortens a history that a
\* consolidation is at work on.
CursorInRange ==
  upsets \intersect {"overflow", "round"} = {} =>
    \A r \in ({store.cache} \union Held) \ {0} : store.objs[r].cursor <= Len(store.objs[r].msgs)

\* No message is archived twice unless the process died between the archive and
\* the session, /new came during an archiving, or there were two copies.
ArchivedOnce == upsets = {} => twice = {}

\* The copies, locks and tasks are well formed, no cursor is out of range, and nothing
\* was archived twice.
CompactionInv == TypeOK /\ CursorInRange /\ ArchivedOnce

\* After /new the model sees no message said before it, unless the idle session was
\* being compacted, or the archiving or the title generator held another copy that
\* had messages: /new clears only the Session object of the cache.
FreshAfterNew ==
  upsets \intersect {"idle", "copy"} = {} => \A n \in Numbers(Unarchived(Session)) : n > wiped
=============================================================================
