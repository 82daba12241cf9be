---------------------------- MODULE DreamMemory ----------------------------
(***************************************************************************)
(* Long-term memory (agent/memory.py MemoryStore, utils/gitstore.py): the  *)
(* journal history.jsonl, to which conversations are archived, and Dream,  *)
(* which reads it in batches and edits the memory files.  Dream runs as    *)
(* the cron job of the gateway (cli/commands.py on_cron_job) and as the    *)
(* task of a /dream command (command/builtin.py cmd_dream), beside turns   *)
(* that edit the same files and /dream-restore.  A run suspends only while *)
(* its turn is processed: before it and after it each run is one step.     *)
(*                                                                         *)
(* An entry is the number of the archiving it came from.  The memory files *)
(* are the set of entries they took something from, and of notes that      *)
(* ordinary turns left.  Left out: the migration of HISTORY.md, damage of  *)
(* the journal by other programs, what a prompt truncates, Dream sessions. *)
(***************************************************************************)
EXTENDS Naturals, Sequences, SequencesExt, FiniteSetsExt

CONSTANTS
  Dreamer,     \* the cron job and the /dream commands
  Note,        \* what an ordinary turn writes into a memory file
  LongEntry,   \* entries whose line is longer than the tail that is read
  BatchSize,   \* max_entries of build_dream_prompt
  MaxHistory,  \* max_history_entries
  MaxEntries,  \* bound of the archivings
  MaxRuns,     \* bound of the Dream runs
  MaxRestores, \* bound of the /dream-restore
  MaxFaults,   \* bound of the kills, failed commits and failed writes
  MaxEvents    \* bound of all four together

ASSUME DreamAssumption ==
  /\ {BatchSize, MaxHistory} \subseteq Nat \ {0}
  /\ {MaxEntries, MaxRuns, MaxRestores, MaxFaults, MaxEvents} \subseteq Nat
  /\ LongEntry \subseteq Nat
  /\ Note \notin Nat

VARIABLES
  file,        \* the lines of history.jsonl
  torn,        \* whether its last line has no end
  counter,     \* .cursor; 0: missing or unreadable
  memory,      \* the memory files
  dreamCursor, \* .dream_cursor; 0: missing or unreadable
  git,         \* whether the workspace is under version control
  commits,     \* the trees of the commits: memory and cursor
  run,         \* what each dreamer is doing
  born,        \* number of archivings so far
  excused,     \* history: entries that may be behind the cursor without a trace, see Considered
  settled,     \* history: what runs wrote that were over and committed
  recounted,   \* history: a kill lost the number of a line that was lost before
  runs, restores, faults  \* numbers of runs, restores, faults; for the bounds

vars == <<file, torn, counter, memory, dreamCursor, git, commits, run, born,
          excused, settled, recounted, runs, restores, faults>>

Entry == 1..MaxEntries
Bad == [cursor |-> 0, entry |-> 0]  \* a line that is no JSON object
NoRun == [phase |-> "idle", batch |-> {}, last |-> 0, learned |-> {}]
Within == born + runs + restores + faults < MaxEvents
Working == [memory |-> memory, cursor |-> dreamCursor]  \* the tracked files
HeadTree == Last(commits)

-----------------------------------------------------------------------------
(* The journal. *)

\* _iter_valid_entries: lines that cannot be read are passed over.  Lines are
\* chosen by their places in the file.
Readable == {i \in DOMAIN file : file[i] # Bad}
Oldest(places, n) == {i \in places : Cardinality({j \in places : j <= i}) <= n}
Newest(places, n) == {i \in places : Cardinality({j \in places : j >= i}) <= n}

\* The lines at these places, in their order.
Lines(places) ==
  [k \in 1..Cardinality(places) |->
     file[CHOOSE i \in places : Cardinality({j \in places : j <= i}) = k]]

Cursors(lines) == {0} \cup {l.cursor : l \in ToSet(lines)}

\* Mutant: only the last line is looked at.
NextCursorOfTail == IF file = <<>> THEN 1 ELSE Last(file).cursor + 1

\* _next_cursor: the counter and the last line are trusted when they can be read; the
\* whole file is searched when the last line cannot, or is longer than the tail read.
NextCursor ==
  LET lastLine == IF file = <<>> THEN Bad ELSE Last(file)
      tail == IF lastLine = Bad \/ lastLine.entry \in LongEntry
              THEN Max(Cursors(file))
              ELSE lastLine.cursor
  IN  Max({counter, tail}) + 1

\* read_unprocessed_history.
Unprocessed == {i \in Readable : file[i].cursor > dreamCursor}

\* The file with a line more; what follows a torn line becomes a part of it.
Extended(line) == IF torn THEN file ELSE Append(file, line)

\* append_history, called by every archiving of a conversation.
AppendHistory ==
  /\ born < MaxEntries /\ Within
  /\ born' = born + 1
  /\ file' = Extended([cursor |-> NextCursor, entry |-> born + 1])
  /\ torn' = FALSE
  /\ counter' = NextCursor
  /\ UNCHANGED <<memory, dreamCursor, git, commits, run, excused,
                 settled, recounted, runs, restores, faults>>

\* compact_history: the newest entries are kept, and the file is replaced as a whole.
CompactHistory ==
  IF Cardinality(Readable) <= MaxHistory
  THEN UNCHANGED <<file, torn>>
  ELSE file' = Lines(Newest(Readable, MaxHistory)) /\ torn' = FALSE

-----------------------------------------------------------------------------
(* Version control of the memory files. *)

\* dream_content_diff: the memory files against the last commit, .dream_cursor left out.
ContentDiff == git /\ memory # HeadTree.memory

\* auto_commit of the tracked files: nothing when they are those of the last commit.
Committed(tree) == IF ~git \/ tree = HeadTree THEN commits ELSE Append(commits, tree)

\* Mutant: .dream_cursor is not one of the tracked files.
DreamRestoreFiles(k) ==
  /\ git /\ restores < MaxRestores /\ Within
  /\ k \in 2..Len(commits)
  /\ memory' = commits[k - 1].memory
  /\ commits' = Committed([memory |-> commits[k - 1].memory, cursor |-> dreamCursor])
  /\ restores' = restores + 1
  /\ run' = [d \in Dreamer |-> [run[d] EXCEPT !.learned = {}]]
  /\ UNCHANGED <<file, torn, counter, dreamCursor, git, born, excused, settled, recounted, runs, faults>>

\* The entries that the cursors of these runs will pass.
Ahead(r) == {l.entry : l \in {l \in ToSet(file) : \E d \in Dreamer : l.cursor <= r[d].last}}

\* revert: the tracked files as they were before the commit, and a commit of that.  It
\* replaces what was not committed, also what a run in flight has written.
DreamRestore(k) ==
  /\ git /\ restores < MaxRestores /\ Within
  /\ k \in 2..Len(commits)
  /\ memory' = commits[k - 1].memory
  /\ dreamCursor' = commits[k - 1].cursor
  /\ commits' = Committed(commits[k - 1])
  /\ restores' = restores + 1
  /\ excused' = excused \cup Ahead(run)
  /\ run' = [d \in Dreamer |-> [run[d] EXCEPT !.learned = {}]]
  /\ UNCHANGED <<file, torn, counter, git, born, settled, recounted, runs, faults>>

\* A kill, or an error that is caught: then the runs go on, with what is left of their edits.
Interrupted ==
  /\ faults < MaxFaults /\ Within
  /\ faults' = faults + 1
  /\ \/ run' = [d \in Dreamer |-> NoRun]
     \/ run' = [d \in Dreamer |-> [run[d] EXCEPT !.learned = @ \cap memory']]

\* revert cut short, by a kill or by an error, which it catches.  It writes SOUL.md, USER.md,
\* MEMORY.md and then .dream_cursor, each emptied first, and commits: what the memory files
\* hold is new, old or gone, and the cursor is the old one unless they are all new.
DreamRestoreCut(k) ==
  /\ git /\ restores < MaxRestores
  /\ k \in 2..Len(commits)
  /\ \/ /\ memory' \in SUBSET (memory \cup commits[k - 1].memory)
        /\ UNCHANGED dreamCursor
     \/ /\ memory' = commits[k - 1].memory
        /\ dreamCursor' \in {0, commits[k - 1].cursor}
  /\ Interrupted
  /\ excused' = excused \cup (IF dreamCursor' = dreamCursor THEN memory \ memory' ELSE Ahead(run'))
  /\ restores' = restores + 1
  /\ UNCHANGED <<file, torn, counter, git, commits, born, settled, recounted, runs>>

-----------------------------------------------------------------------------
(* A Dream run. *)

\* The end of every run: commit, unless that fails, and compact.
CommitAndCompact(cursor, fails) ==
  /\ fails => git /\ faults < MaxFaults /\ Within
  /\ faults' = IF fails THEN faults + 1 ELSE faults
  /\ commits' = IF fails THEN commits
                ELSE Committed([memory |-> memory, cursor |-> cursor])
  /\ CompactHistory

Settle(d, fails) ==
  settled' = IF git /\ ~fails THEN settled \cup run[d].learned ELSE settled

\* build_dream_prompt: the oldest unprocessed entries; the cursor they end at.
BeginDream(d) ==
  LET batch == Oldest(Unprocessed, BatchSize) IN
  /\ run[d] = NoRun /\ runs < MaxRuns /\ Within
  /\ Unprocessed # {}
  /\ run' = [run EXCEPT ![d] = [phase |-> "turn", batch |-> {file[i].entry : i \in batch},
                                last |-> file[Max(batch)].cursor, learned |-> {}]]
  /\ runs' = runs + 1
  /\ UNCHANGED <<file, torn, counter, memory, dreamCursor, git, commits, born, excused,
                 settled, recounted, restores, faults>>

\* Nothing to process: the run returns, through its finally block.
NothingToDream(d) ==
  /\ run[d] = NoRun
  /\ Unprocessed = {}
  /\ \E fails \in BOOLEAN : CommitAndCompact(dreamCursor, fails)
  /\ UNCHANGED <<counter, memory, dreamCursor, git, run, born, excused,
                 settled, recounted, runs, restores>>

\* The turn of a run edits a memory file from one of its entries.
DreamEdit(d) ==
  /\ \E e \in run[d].batch \ memory :
       /\ memory' = memory \cup {e}
       /\ run' = [run EXCEPT ![d].learned = @ \cup {e}]
  /\ UNCHANGED <<file, torn, counter, dreamCursor, git, commits, born, excused, settled, recounted,
                 runs, restores, faults>>

\* The turn is over: the cursor moves to the end of the batch when the memory files differ
\* from the last commit, whoever changed them and whether or not the turn completed;
\* without version control, when it completed.
EndDream(d) ==
  /\ run[d].phase = "turn"
  /\ \E completed, fails \in BOOLEAN :
       LET productive == ContentDiff \/ (~git /\ completed)
           cursor == IF productive THEN run[d].last ELSE dreamCursor
       IN  /\ dreamCursor' = cursor
           /\ CommitAndCompact(cursor, fails)
           /\ Settle(d, fails)
           /\ excused' = IF productive THEN excused \cup (run[d].batch \ memory) ELSE excused
  /\ run' = [run EXCEPT ![d] = NoRun]
  /\ UNCHANGED <<counter, memory, git, born, recounted, runs, restores>>

\* Mutant: a run that raises does not commit.
AbortDreamBare(d) ==
  /\ run[d].phase = "turn"
  /\ Settle(d, FALSE)
  /\ run' = [run EXCEPT ![d] = NoRun]
  /\ UNCHANGED <<file, torn, counter, memory, dreamCursor, git, commits, born, excused, recounted,
                 runs, restores, faults>>

\* set_last_dream_cursor is called: unless the turn changed nothing.
MovesCursor(d) == run[d].phase = "turn" /\ (git => ContentDiff)

\* The turn raises, or is cancelled by a change of the schedule or a shutdown, or the
\* cursor's file cannot be written and is left empty.
AbortDream(d) ==
  /\ run[d].phase = "turn"
  /\ dreamCursor' = dreamCursor \/ (MovesCursor(d) /\ dreamCursor' = 0)
  /\ \E fails \in BOOLEAN : CommitAndCompact(dreamCursor', fails) /\ Settle(d, fails)
  /\ run' = [run EXCEPT ![d] = NoRun]
  /\ UNCHANGED <<counter, memory, git, born, excused, recounted, runs, restores>>

-----------------------------------------------------------------------------
(* What happens around it. *)

\* A turn of a user edits a memory file.
TurnEdit ==
  /\ Note \notin memory
  /\ memory' = memory \cup {Note}
  /\ UNCHANGED <<file, torn, counter, dreamCursor, git, commits, run, born, excused,
                 settled, recounted, runs, restores, faults>>

\* The gateway starts with Dream disabled (_advance_dream_cursor_if_behind).
IsBehind == (\A d \in Dreamer : run[d] = NoRun) /\ dreamCursor < NextCursor - 1
StartWithoutDream ==
  /\ IsBehind
  /\ dreamCursor' = NextCursor - 1
  /\ excused' = excused \cup {l.entry : l \in ToSet(file)}
  /\ UNCHANGED <<file, torn, counter, memory, git, commits, run, born, settled, recounted, runs,
                 restores, faults>>

\* A kill within what follows: no finally block runs.
Killed ==
  /\ faults < MaxFaults /\ Within
  /\ faults' = faults + 1
  /\ run' = [d \in Dreamer |-> NoRun]
  /\ UNCHANGED <<git, commits, settled, runs, restores>>

\* A kill outside of what follows, or a kill or an error while a memory file is edited:
\* write_text empties the file first.
KillOrCutEdit ==
  /\ memory' \in SUBSET memory
  /\ Interrupted
  /\ excused' = excused \cup (memory \ memory')
  /\ UNCHANGED <<file, torn, counter, dreamCursor, git, commits, born, settled, recounted, runs,
                 restores>>

\* A kill in append_history: within the line, before the counter, or while the counter is
\* rewritten.
KillInAppend ==
  /\ Killed
  /\ born < MaxEntries /\ Within
  /\ born' = born + 1
  /\ \/ file' = Extended(Bad) /\ torn' = TRUE /\ UNCHANGED counter
     \/ /\ file' = Extended([cursor |-> NextCursor, entry |-> born + 1])
        /\ torn' = FALSE
        /\ counter' \in {counter, 0}
  /\ recounted' = (recounted \/ NextCursor' < NextCursor)
  /\ UNCHANGED <<memory, dreamCursor, excused>>

\* A kill while set_last_dream_cursor rewrites its file: the file is left empty.
KillInCursor ==
  /\ IsBehind \/ \E d \in Dreamer : MovesCursor(d)
  /\ Killed
  /\ dreamCursor' = 0
  /\ UNCHANGED <<file, torn, counter, memory, excused, born, recounted>>

-----------------------------------------------------------------------------

Init ==
  /\ file = <<>> /\ torn = FALSE /\ counter = 0
  /\ memory = {} /\ dreamCursor = 0
  /\ git \in BOOLEAN
  /\ commits = IF git THEN <<Working>> ELSE <<>>
  /\ run = [d \in Dreamer |-> NoRun]
  /\ born = 0
  /\ excused = {} /\ settled = {} /\ recounted = FALSE
  /\ runs = 0 /\ restores = 0 /\ faults = 0

Next ==
  \/ AppendHistory \/ TurnEdit \/ StartWithoutDream \/ KillOrCutEdit \/ KillInAppend \/ KillInCursor
  \/ \E k \in 1..Len(commits) : DreamRestore(k) \/ DreamRestoreCut(k)
  \/ \E d \in Dreamer :
       BeginDream(d) \/ NothingToDream(d) \/ DreamEdit(d) \/ EndDream(d) \/ AbortDream(d)

Spec == Init /\ [][Next]_vars

-----------------------------------------------------------------------------
(* Properties. *)

Trees == {Working} \cup ToSet(commits)

\* Every archived entry that can be read has a cursor of its own, larger than those before
\* it, whatever kills left of the journal and its counter (memory.py append_history,
\* _next_cursor), the entries are in the order of the archivings, and a torn line is last.
JournalInv ==
  /\ \A l \in ToSet(file) : l = Bad \/ (l.entry \in 1..born /\ l.cursor \in 1..l.entry)
  /\ \A i, j \in Readable : i < j =>
       file[i].cursor < file[j].cursor /\ file[i].entry < file[j].entry
  /\ torn => file # <<>> /\ Last(file) = Bad
  /\ counter <= born /\ \A t \in Trees : t.cursor <= born
  /\ git = (commits # <<>>)
  /\ \A d \in Dreamer : run[d].learned \subseteq run[d].batch /\ run[d].batch \subseteq 1..born

\* No entry is behind the Dream cursor that Dream did not consider (memory.py
\* build_dream_prompt, command/builtin.py cmd_dream, utils/gitstore.py revert): in the
\* workspace and in every version that /dream-restore can bring back, what is behind the
\* cursor has left something in the memory files of that version, was dismissed by a run
\* that completed, or was passed over on purpose by a start without Dream.  Excused are
\*  - the batches of runs that did not complete and yet moved the cursor, since the files
\*    differed from the last commit;
\*  - what a /dream-restore beside a run in flight turned back, as far as that run's cursor
\*    goes, since the run moves the cursor over it again;
\*  - what a write of the memory files that was cut short took out of them, by a kill or an
\*    error: revert writes .dream_cursor last, so the cursor stays ahead of older files,
\*    and so it does when an edit leaves a file empty.
\* All bets are off once three kills made the numbers go back: a line lost to a torn one had
\* a number, which a start without Dream took for the cursor, and with a second such line
\* its counter was lost as well.
Considered ==
  ~recounted => \A t \in Trees : \A l \in ToSet(file) : l # Bad /\ l.cursor <= t.cursor =>
    l.entry \in t.memory \cup excused

\* What a run wrote is never beyond recovery once the run is over, completed or not, and
\* its commit did not fail (the finally block of a run, auto_commit): it is in the files
\* or in a commit.
EditsRecoverable == settled \subseteq UNION {t.memory : t \in Trees}
=============================================================================
