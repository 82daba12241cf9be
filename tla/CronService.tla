---------------------------- MODULE CronService ----------------------------
(***************************************************************************)
(* CronService: the job store in memory and in jobs.json, the action file  *)
(* through which other processes hand over their edits, the timer, and     *)
(* manual runs, in a gateway process that stops, crashes and restarts.     *)
(*                                                                         *)
(* Only on_job suspends, so every handler is one action, except that a     *)
(* timer tick and run_job are split where they await the job.  The action  *)
(* file is kept as its effect, the last action of each job.                *)
(***************************************************************************)
EXTENDS Naturals, FiniteSetsExt

CONSTANTS
  Job,             \* job ids
  System,          \* the system jobs registered at start (dream, heartbeat)
  OneShot,         \* jobs with an "at" schedule; the others repeat
  DeleteAfterRun,  \* one-shot jobs deleted when they have run
  Time,            \* [Job -> Nat \ {0}]: at_ms of a one-shot, else every_ms
  NoJob,           \* stands for "no job"
  MaxSleep,        \* max_sleep_ms
  MaxTime,         \* bound of the clock; at it every wait is over
  MaxRuns,         \* bound of the number of manual runs
  Operations       \* what the environment does in an instance

ASSUME CronAssumption ==
  /\ System \subseteq Job /\ OneShot \subseteq Job /\ DeleteAfterRun \subseteq OneShot
  /\ NoJob \notin Job
  /\ Time \in [Job -> Nat \ {0}]
  /\ MaxSleep \in Nat \ {0} /\ MaxTime \in Nat /\ MaxRuns \in Nat

VARIABLES
  now,      \* the wall clock
  disk,     \* jobs.json
  actions,  \* action.jsonl: the last action on each job, not yet merged
  up,       \* the gateway process lives
  running,  \* _running
  store,    \* _store
  timer,    \* the timer task; "running" is _timer_active
  wake,     \* when the timer's sleep ends
  due,      \* due_jobs the tick has still to execute
  current,  \* the job the tick is executing, and the time it was due
  manual,   \* the run_job call in progress
  runs,     \* how many there were
  edit,     \* an edit another process has read but not yet appended
  life,     \* history: whether a job was added, removed, or spent, or its last action lost
  fired,    \* history: due times whose execution the timer began
  finished  \* history: due times whose execution the timer completed

gateway == <<up, running, store, timer, wake, due, current, manual, runs>>
files == <<disk, actions>>
history == <<life, fired, finished>>
vars == <<now, gateway, files, edit, history>>

\* A job: in the list or not, enabled, and next_run_at_ms with 0 for None.
Entry == [known : BOOLEAN, enabled : BOOLEAN, next : Nat]
Absent == [known |-> FALSE, enabled |-> FALSE, next |-> 0]
Action == [op : {"none", "put", "del"}, entry : Entry]
NoAction == [op |-> "none", entry |-> Absent]
Nothing == [job |-> NoJob, at |-> 0]
NoRun == [job |-> NoJob, attached |-> FALSE, was |-> FALSE]
NoEdit == [job |-> NoJob, entry |-> Absent]

TypeOK ==
  /\ now \in 0..MaxTime /\ wake \in Nat /\ runs \in 0..MaxRuns
  /\ up \in BOOLEAN /\ running \in BOOLEAN
  /\ disk \in [Job -> Entry] /\ store \in [Job -> Entry]
  /\ actions \in [Job -> Action]
  /\ timer \in {"none", "sleeping", "running"}
  /\ due \subseteq Job
  /\ current \in [job : Job \union {NoJob}, at : Nat]
  /\ manual \in [job : Job \union {NoJob}, attached : BOOLEAN, was : BOOLEAN]
  /\ edit \in [job : Job \union {NoJob}, entry : Entry]
  /\ life \in [Job -> {"fresh", "live", "gone", "spent", "lost"}]
  /\ fired \in [Job -> SUBSET Nat] /\ finished \in [Job -> SUBSET Nat]

Init ==
  /\ now = 0 /\ wake = 0 /\ runs = 0
  /\ up = FALSE /\ running = FALSE /\ timer = "none"
  /\ disk = [j \in Job |-> Absent] /\ store = [j \in Job |-> Absent]
  /\ actions = [j \in Job |-> NoAction]
  /\ due = {} /\ current = Nothing /\ manual = NoRun /\ edit = NoEdit
  /\ life = [j \in Job |-> IF j \in System THEN "live" ELSE "fresh"]
  /\ fired = [j \in Job |-> {}] /\ finished = [j \in Job |-> {}]

----------------------------------------------------------------------------
(* Pure parts.                                                             *)

\* Mutant: a job that ran is not advanced.
NotAdvanced(j, e) == e

\* _compute_next_run: a one-shot in the past has no next run.
NextRun(j, t) ==
  IF j \in OneShot THEN (IF Time[j] > t THEN Time[j] ELSE 0) ELSE t + Time[j]

Fresh(j) == [known |-> TRUE, enabled |-> TRUE, next |-> NextRun(j, now)]
Edited(j, b) == [known |-> TRUE, enabled |-> b, next |-> IF b THEN NextRun(j, now) ELSE 0]

\* _execute_job, on the job object, after on_job has returned or failed.
Executed(j, e) ==
  IF j \in DeleteAfterRun \/ ~e.known THEN Absent
  ELSE IF j \in OneShot THEN [e EXCEPT !.enabled = FALSE, !.next = 0]
  ELSE [e EXCEPT !.next = NextRun(j, now)]

\* _load_jobs followed by _merge_action: what a fresh reader of the files sees.
View == [j \in Job |-> CASE actions[j].op = "put" -> actions[j].entry
                         [] actions[j].op = "del" -> Absent
                         [] OTHER -> disk[j]]

IsDue(s, j) == s[j].enabled /\ s[j].next # 0 /\ s[j].next <= now

----------------------------------------------------------------------------
(* _load_store, _save_store and _arm_timer, as parts of the handlers.      *)

\* Mutants: clearing the action file without saving; not re-arming.
UnsavedDisk(run) == disk
NeverArm(s) == timer' = "none" /\ wake' = 0 /\ due' = {} /\ current' = Nothing

\* _load_store replaces every job object, except during a timer tick.
Reloads == timer # "running"
Loaded == IF Reloads THEN View ELSE store

\* A running service that merged something clears the action file and saves.
Merges(run) ==
  Reloads /\ run /\ \E j \in Job : \/ actions[j].op = "put"
                                   \/ actions[j].op = "del" /\ disk[j].known
LoadedActions(run) == IF Merges(run) THEN [j \in Job |-> NoAction] ELSE actions
LoadedDisk(run) == IF Merges(run) THEN View ELSE disk

\* run_job goes on holding the job object it looked up before the reload.
Detached == [manual EXCEPT !.attached = @ /\ ~Reloads]

\* The handlers' last statement; cancelling the old timer ends the tick too.
Save(s) == disk' = s
Arm(s) ==
  /\ timer' = "sleeping" /\ due' = {} /\ current' = Nothing
  /\ wake' = now + Min({MaxSleep} \union
       {IF s[j].next > now THEN s[j].next - now ELSE 0 :
          j \in {i \in Job : s[i].enabled /\ s[i].next # 0}})

NoTimer == timer' = "none" /\ wake' = 0 /\ due' = {} /\ current' = Nothing

\* add_job, remove_job, enable_job and update_job end alike: a running service
\* saves and re-arms, a stopped one appends to the action file.
Commit(j, e) ==
  /\ store' = [Loaded EXCEPT ![j] = e]
  /\ manual' = Detached
  /\ \/ /\ running
        /\ Save([Loaded EXCEPT ![j] = e])
        /\ actions' = LoadedActions(TRUE)
        /\ Arm([Loaded EXCEPT ![j] = e])
     \/ /\ ~running
        /\ actions' = [actions EXCEPT ![j] =
             [op |-> IF e.known THEN "put" ELSE "del", entry |-> e]]
        /\ UNCHANGED <<disk, timer, wake, due, current>>
  /\ UNCHANGED <<now, runs, up, running, edit, fired, finished>>

----------------------------------------------------------------------------
(* The gateway's API.                                                      *)

\* register_system_job for each system job, then start().
Start ==
  /\ ~up
  /\ LET s == [j \in Job |-> IF j \in System THEN Fresh(j)
                             ELSE IF View[j].enabled
                                  THEN [View[j] EXCEPT !.next = NextRun(j, now)]
                                  ELSE View[j]]
     IN store' = s /\ disk' = s /\ Arm(s)
  /\ up' = TRUE /\ running' = TRUE
  /\ actions' = LoadedActions(TRUE)
  /\ UNCHANGED <<now, runs, manual, edit, history>>

Stop ==
  /\ "stop" \in Operations
  /\ up /\ running
  /\ running' = FALSE
  /\ NoTimer
  /\ UNCHANGED <<now, runs, up, store, manual, files, edit, history>>

\* The process ends: after stop(), or killed at any await.
Exit ==
  /\ "crash" \in Operations \/ ~running
  /\ up
  /\ up' = FALSE /\ running' = FALSE
  /\ store' = [j \in Job |-> Absent] /\ manual' = NoRun
  /\ NoTimer
  /\ UNCHANGED <<now, runs, files, edit, history>>

\* Killed inside _merge_action, which clears the action file before it saves: in a call of
\* the running service, or in start() unless a system job's registration has just saved.
CrashInMerge ==
  /\ "merge_crash" \in Operations
  /\ Merges(running \/ (~up /\ System = {}))
  /\ actions' = LoadedActions(TRUE)
  /\ life' = [j \in Job |-> IF View[j] # disk[j] THEN "lost" ELSE life[j]]
  /\ up' = FALSE /\ running' = FALSE
  /\ store' = [j \in Job |-> Absent] /\ manual' = NoRun
  /\ NoTimer
  /\ UNCHANGED <<now, runs, disk, edit, fired, finished>>

\* list_jobs, get_job and status.
ListJobs ==
  /\ "list" \in Operations
  /\ up
  /\ store' = Loaded /\ manual' = Detached
  /\ disk' = LoadedDisk(running) /\ actions' = LoadedActions(running)
  /\ UNCHANGED <<now, runs, up, running, timer, wake, due, current, edit, history>>

AddJob(j) ==
  /\ "add" \in Operations
  /\ up /\ life[j] = "fresh"
  /\ Commit(j, Fresh(j))
  /\ life' = [life EXCEPT ![j] = "live"]

RemoveJob(j) ==
  /\ "remove" \in Operations
  /\ up /\ j \notin System /\ Loaded[j].known
  /\ Commit(j, Absent)
  /\ life' = [life EXCEPT ![j] = "gone"]

\* enable_job(b); update_job of a job whose enabled flag is b ends the same way.
EditJob(j, b) ==
  /\ "edit" \in Operations
  /\ up /\ j \notin System /\ Loaded[j].known
  /\ Commit(j, Edited(j, b))
  /\ life' = [life EXCEPT ![j] = IF @ = "lost" THEN "live" ELSE @]

----------------------------------------------------------------------------
(* The timer.                                                              *)

\* tick(): asleep until wake, then _on_timer if the service still runs.
OnTimer ==
  /\ up /\ timer = "sleeping" /\ (now >= wake \/ now = MaxTime)
  /\ \/ /\ ~running
        /\ NoTimer
        /\ UNCHANGED <<store, manual, files, history>>
     \/ /\ running
        /\ \A j \in Job : ~IsDue(View, j)
        /\ store' = View /\ Save(View)
        /\ actions' = LoadedActions(TRUE)
        /\ manual' = Detached
        /\ Arm(View)
        /\ UNCHANGED history
     \/ /\ running
        /\ \E j \in Job :
             /\ IsDue(View, j)
             /\ timer' = "running"
             /\ current' = [job |-> j, at |-> View[j].next]
             /\ due' = {i \in Job \ {j} : IsDue(View, i)}
             /\ fired' = [fired EXCEPT ![j] = @ \union {View[j].next}]
        /\ store' = View /\ disk' = LoadedDisk(TRUE)
        /\ actions' = LoadedActions(TRUE)
        /\ manual' = Detached
        /\ UNCHANGED <<wake, life, finished>>
  /\ UNCHANGED <<now, runs, up, running, edit>>

\* on_job returned or failed: the result is recorded, and the next due job is
\* executed, or the tick ends with a save and a new timer.
FinishJob == LET j == current.job
                 s == [store EXCEPT ![j] = Executed(j, @)] IN
  /\ up /\ timer = "running"
  /\ store' = s
  /\ finished' = [finished EXCEPT ![j] = @ \union {current.at}]
  /\ life' = [life EXCEPT ![j] = IF j \in DeleteAfterRun /\ @ = "live" THEN "spent" ELSE @]
  /\ \/ /\ due = {}
        /\ Save(s)
        /\ Arm(s)
        /\ UNCHANGED fired
     \/ /\ \E i \in due :
             /\ current' = [job |-> i, at |-> s[i].next]
             /\ due' = due \ {i}
             /\ fired' = [fired EXCEPT ![i] = @ \union {s[i].next}]
        /\ UNCHANGED <<disk, timer, wake>>
  /\ UNCHANGED <<now, runs, up, running, manual, actions, edit>>

----------------------------------------------------------------------------
(* run_job, the "run now" of the WebUI; one call at a time.                *)

RunJob(j) ==
  /\ runs < MaxRuns
  /\ up /\ manual.job = NoJob
  /\ Loaded[j].known /\ Loaded[j].enabled /\ j \notin System
  /\ manual' = [job |-> j, attached |-> TRUE, was |-> running]
  /\ runs' = runs + 1
  /\ running' = TRUE
  /\ store' = Loaded
  /\ disk' = LoadedDisk(TRUE) /\ actions' = LoadedActions(TRUE)
  /\ UNCHANGED <<now, up, timer, wake, due, current, edit, history>>

\* Only a job object that is still in the store takes the result with it; the
\* deletion of a one-shot goes by id.
FinishRun == LET j == manual.job
                 s == IF manual.attached \/ j \in DeleteAfterRun
                      THEN [store EXCEPT ![j] = Executed(j, @)] ELSE store IN
  /\ up /\ j # NoJob
  /\ store' = s
  /\ Save(s)
  /\ running' = manual.was
  /\ manual' = NoRun
  /\ life' = [life EXCEPT ![j] = IF j \in DeleteAfterRun /\ @ = "live" THEN "spent" ELSE @]
  /\ IF manual.was THEN Arm(s) ELSE UNCHANGED <<timer, wake, due, current>>
  /\ UNCHANGED <<now, runs, up, actions, edit, fired, finished>>

----------------------------------------------------------------------------
(* Another process, "nanobot agent" with a service that never starts.      *)

ExternalAdd(j) ==
  /\ "external_add" \in Operations
  /\ life[j] = "fresh"
  /\ actions' = [actions EXCEPT ![j] = [op |-> "put", entry |-> Fresh(j)]]
  /\ life' = [life EXCEPT ![j] = "live"]
  /\ UNCHANGED <<now, gateway, disk, edit, fired, finished>>

ExternalRemove(j) ==
  /\ "external_remove" \in Operations
  /\ j \notin System /\ View[j].known
  /\ actions' = [actions EXCEPT ![j] = [op |-> "del", entry |-> Absent]]
  /\ life' = [life EXCEPT ![j] = "gone"]
  /\ UNCHANGED <<now, gateway, disk, edit, fired, finished>>

\* It writes the whole job it read, whatever the gateway did in between.
ExternalRead(j, b) ==
  /\ "external_edit" \in Operations
  /\ edit.job = NoJob
  /\ j \notin System /\ View[j].known
  /\ edit' = [job |-> j, entry |-> Edited(j, b)]
  /\ UNCHANGED <<now, gateway, files, history>>

ExternalWrite ==
  /\ edit.job # NoJob
  /\ actions' = [actions EXCEPT ![edit.job] = [op |-> "put", entry |-> edit.entry]]
  /\ edit' = NoEdit
  /\ life' = [life EXCEPT ![edit.job] = IF @ = "lost" THEN "live" ELSE @]
  /\ UNCHANGED <<now, gateway, disk, fired, finished>>

Elapse ==
  /\ now < MaxTime
  /\ now' = now + 1
  /\ UNCHANGED <<gateway, files, edit, history>>

----------------------------------------------------------------------------
Gateway ==
  \/ Start \/ Stop \/ Exit \/ CrashInMerge \/ ListJobs \/ OnTimer \/ FinishJob \/ FinishRun
  \/ \E j \in Job : AddJob(j) \/ RemoveJob(j) \/ RunJob(j) \/ \E b \in BOOLEAN : EditJob(j, b)

External ==
  \/ ExternalWrite
  \/ \E j \in Job : \/ ExternalAdd(j) \/ ExternalRemove(j)
                    \/ \E b \in BOOLEAN : ExternalRead(j, b)

Next == Gateway \/ External \/ Elapse

Spec == Init /\ [][Next]_vars

\* Time passes, a ready timer task is run, on_job ends (turns end or time out),
\* a stopped gateway goes on to exit whatever is called meanwhile, and one that
\* has exited is started again.
FairSpec ==
  /\ Spec
  /\ WF_vars(Elapse) /\ WF_vars(Start) /\ WF_vars(OnTimer)
  /\ WF_vars(FinishJob) /\ WF_vars(FinishRun)
  /\ SF_vars(~running /\ Exit)

----------------------------------------------------------------------------
(* Properties.                                                             *)

\* Between ticks a running service keeps nothing in memory only: what the API
\* answered, and what a tick recorded, would survive a crash.
MemoryMatchesDisk == running /\ timer # "running" => store = disk

\* A removed job is never seen again, whichever process removed it and whatever
\* was in memory or in the action file at that moment, unless the removal was lost
\* by a kill within a merge.
RemovedStayRemoved == \A j \in Job : life[j] = "gone" => ~View[j].known

\* A job somebody added is on record until it is removed or spent, or a kill within a
\* merge lost an action on it.
AddedStayKnown == \A j \in Job : life[j] = "live" /\ j \notin System => View[j].known

\* While the service runs, something will call _on_timer again.
RunningHasTimer == running /\ (manual.job = NoJob \/ manual.was) => timer # "none"

\* What was added is on record and what was removed is not, whichever process
\* did it, across reloads, merges, ticks, manual runs and crashes.  Of the actions
\* that a kill within a merge loses (CrashInMerge) it says nothing.
EditsKept == RemovedStayRemoved /\ AddedStayKnown

\* The service at rest: its data are well formed, memory is on disk, the timer is
\* armed, and no edit was lost.
ServiceInv == TypeOK /\ MemoryMatchesDisk /\ RunningHasTimer /\ EditsKept

\* Even when executions are cut short, none that completed is repeated.
OccurrenceCompletesOnce ==
  [][\A j \in Job : FinishJob /\ current.job = j => current.at \notin finished[j]]_vars

\* A job that is due is executed, disabled, re-timed or removed.
DueJobRuns ==
  \A j \in Job, t \in 1..MaxTime :
    (up /\ View[j].enabled /\ View[j].next = t) ~>
      (t \in fired[j] \/ ~View[j].enabled \/ View[j].next # t)

\* The job is in jobs.json with this flag, and no action on it is left to merge.
Merged(j, b) == actions[j].op = "none" /\ disk[j].known /\ disk[j].enabled = b

\* What another process adds, enables or disables gets into jobs.json: a running service
\* merges the action and saves the result (_merge_action), unless a later action of another
\* process takes its place, the job is removed, or, as the code clears the action file
\* before it saves, a kill in between loses the action.  The gateway of the instance does
\* not itself enable or disable the job meanwhile.
ExternalSeen ==
  \A j \in Job, b \in BOOLEAN :
    (actions[j].op = "put" /\ actions[j].entry.enabled = b) ~>
      \/ Merged(j, b)
      \/ actions[j].op = "put" /\ actions[j].entry.enabled # b
      \/ actions[j].op = "del" \/ life[j] \in {"gone", "lost"}
=============================================================================
