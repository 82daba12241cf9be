--------------------------- MODULE ScheduleProofs ---------------------------
(***************************************************************************)
(* Theorems about what starts turns without a message: the cron service    *)
(* (CronService), then local triggers (LocalTriggers).                     *)
(*                                                                         *)
(* CronService, for any jobs, times and operations.  What the gateway      *)
(* keeps is sound whatever happens (Base); that no edit is lost and no     *)
(* occurrence completed twice holds while nobody calls stop() and no other *)
(* process rewrites a job it read before (Undisturbed), and not without    *)
(* that; what a kill inside a merge loses is excepted by the property.     *)
(*                                                                         *)
(* LocalTriggers, for every set of triggers and deliveries: for every      *)
(* delivery the count in its file, the worker's memory and the number of   *)
(* turns agree up to the turn in progress (Counted), through every retry,  *)
(* recovery and kill.  From this, attempts are bounded and the files       *)
(* implement the queue.                                                    *)
(***************************************************************************)
EXTENDS CronService, LocalTriggers, WellFoundedInduction, TLAPS

\* The least of a set of numbers is one of them.
LEMMA MinType ==
  ASSUME NEW S \in SUBSET Nat, S # {}
  PROVE  Min(S) \in S
  <1> DEFINE R == OpToRel(<, Nat)
  <1>1. IsWellFoundedOn(R, Nat)
    BY NatLessThanWellFounded
  <1>2. R = {ss \in Nat \X Nat : ss[1] < ss[2]}
    BY Zenon DEF OpToRel
  <1> HIDE DEF R
  <1>3. PICK x \in S : \A y \in S : ~(<<y, x>> \in R)
    BY <1>1, WFMin
  <1>4. ASSUME NEW y \in S PROVE x <= y
    <2>1. ~(y < x)
      BY <1>2, <1>3
    <2> QED
      BY <2>1
  <1> QED
    BY <1>4 DEF Min

-----------------------------------------------------------------------------
(* The data of the jobs. *)

\* A job that is not in the list has nothing left of it.
Sound(e) == e \in Entry /\ (e.known \/ e = Absent)

SoundStore(s) == s \in [Job -> Entry] /\ \A j \in Job : Sound(s[j])

SoundActions(a) == a \in [Job -> Action] /\ \A j \in Job : a[j].op = "put" => a[j].entry.known

LEMMA AbsentSound == Absent \in Entry /\ Sound(Absent) /\ ~Absent.known /\ ~Absent.enabled /\ Absent.next = 0
  BY DEF Absent, Entry, Sound

LEMMA NextRunType ==
  ASSUME NEW j \in Job, NEW t \in Nat
  PROVE  NextRun(j, t) \in Nat /\ (NextRun(j, t) = 0 \/ NextRun(j, t) > t)
  BY CronAssumption DEF NextRun

LEMMA FreshType ==
  ASSUME NEW j \in Job, now \in Nat
  PROVE  /\ Sound(Fresh(j)) /\ Fresh(j).known
         /\ Fresh(j).next = 0 \/ Fresh(j).next > now
  BY NextRunType DEF Fresh, Sound, Entry

LEMMA EditedType ==
  ASSUME NEW j \in Job, NEW b \in BOOLEAN, now \in Nat
  PROVE  /\ Sound(Edited(j, b)) /\ Edited(j, b).known
         /\ Edited(j, b).next = 0 \/ Edited(j, b).next > now
  BY NextRunType DEF Edited, Sound, Entry

LEMMA ExecutedType ==
  ASSUME NEW j \in Job, NEW e, Sound(e), now \in Nat
  PROVE  /\ Sound(Executed(j, e))
         /\ ~e.known => Executed(j, e) = Absent
         /\ j \in DeleteAfterRun => Executed(j, e) = Absent
         /\ j \notin DeleteAfterRun => Executed(j, e).known = e.known
         /\ Executed(j, e).next = 0 \/ Executed(j, e).next > now
  BY NextRunType, AbsentSound DEF Executed, Sound, Entry

LEMMA ViewType ==
  ASSUME SoundStore(disk), SoundActions(actions)
  PROVE  SoundStore(View)
  BY AbsentSound DEF SoundStore, SoundActions, View, Sound, Action

-----------------------------------------------------------------------------
(* What holds whatever happens. *)

EditSound == edit.job # NoJob => edit.job \in Job /\ edit.entry.known

Ticking == timer = "running" => current.job \in Job

Base ==
  /\ TypeOK /\ SoundStore(store) /\ SoundStore(disk) /\ SoundActions(actions) /\ EditSound
  /\ Ticking /\ MemoryMatchesDisk /\ RunningHasTimer

LEMMA BaseFacts ==
  ASSUME Base
  PROVE  /\ now \in Nat /\ now <= MaxTime /\ MaxTime \in Nat /\ wake \in Nat /\ runs \in 0..MaxRuns
         /\ MaxRuns \in Nat /\ MaxSleep \in Nat
         /\ up \in BOOLEAN /\ running \in BOOLEAN /\ timer \in {"none", "sleeping", "running"}
         /\ SoundStore(store) /\ SoundStore(disk) /\ SoundStore(View) /\ SoundActions(actions)
         /\ View \in [Job -> Entry] /\ store \in [Job -> Entry] /\ disk \in [Job -> Entry]
         /\ actions \in [Job -> Action]
         /\ current \in [job : Job \union {NoJob}, at : Nat] /\ due \subseteq Job
         /\ manual \in [job : Job \union {NoJob}, attached : BOOLEAN, was : BOOLEAN]
         /\ edit \in [job : Job \union {NoJob}, entry : Entry]
         /\ life \in [Job -> {"fresh", "live", "gone", "spent", "lost"}]
         /\ fired \in [Job -> SUBSET Nat] /\ finished \in [Job -> SUBSET Nat]
  <1>1. SoundStore(View) /\ View \in [Job -> Entry]
    BY ViewType DEF Base, SoundStore
  <1> QED
    BY <1>1, CronAssumption DEF Base, TypeOK

\* What a fresh reader of the files sees is what the store holds after a reload,
\* and what the files hold once it is merged.
LEMMA LoadedType ==
  ASSUME Base, NEW run
  PROVE  /\ SoundStore(Loaded) /\ SoundStore(LoadedDisk(run)) /\ SoundActions(LoadedActions(run))
         /\ Loaded \in [Job -> Entry] /\ LoadedDisk(run) \in [Job -> Entry]
         /\ LoadedActions(run) \in [Job -> Action]
         /\ Reloads => Loaded = View
         /\ ~Reloads => Loaded = store /\ LoadedDisk(run) = disk /\ LoadedActions(run) = actions
  <1>1. SoundActions([j \in Job |-> NoAction])
    BY AbsentSound DEF SoundActions, NoAction, Action
  <1> QED
    BY <1>1, BaseFacts DEF Loaded, LoadedDisk, LoadedActions, Merges, SoundStore, SoundActions

\* A running service has on disk what it has loaded.
LEMMA LoadedIsSaved ==
  ASSUME Base, Reloads
  PROVE  LoadedDisk(TRUE) = View
  <1>1. CASE Merges(TRUE)
    BY <1>1 DEF LoadedDisk
  <1>2. CASE ~Merges(TRUE)
    <2>1. ASSUME NEW j \in Job PROVE View[j] = disk[j]
      <3>1. actions[j].op # "put" /\ (actions[j].op = "del" => ~disk[j].known)
        BY <1>2 DEF Merges
      <3>2. Sound(disk[j])
        BY BaseFacts DEF SoundStore
      <3> QED
        BY <3>1, <3>2 DEF View, Sound
    <2>2. View = disk
      BY <2>1, BaseFacts
    <2> QED
      BY <1>2, <2>2 DEF LoadedDisk
  <1> QED
    BY <1>1, <1>2

LEMMA DetachedType ==
  ASSUME Base
  PROVE  /\ Detached \in [job : Job \union {NoJob}, attached : BOOLEAN, was : BOOLEAN]
         /\ Detached.job = manual.job /\ Detached.was = manual.was
         /\ Detached.attached => manual.attached
  <1> DEFINE a == manual.attached /\ ~Reloads
  <1>1. a \in BOOLEAN
    BY BaseFacts
  <1>2. Detached = [manual EXCEPT !.attached = a]
    BY BaseFacts DEF Detached
  <1>3. a => manual.attached
    OBVIOUS
  <1> HIDE DEF a
  <1> QED
    BY <1>1, <1>2, <1>3, BaseFacts

LEMMA ArmType ==
  ASSUME Base, NEW s \in [Job -> Entry], Arm(s)
  PROVE  timer' = "sleeping" /\ due' = {} /\ current' = Nothing /\ wake' \in Nat
  <1> DEFINE J == {i \in Job : s[i].enabled /\ s[i].next # 0}
             W == {IF s[j].next > now THEN s[j].next - now ELSE 0 : j \in J}
             S == {MaxSleep} \union W
  <1>1. \A j \in J : s[j].next \in Nat
    BY DEF Entry
  <1>2. S \in SUBSET Nat /\ S # {}
    <2>1. ASSUME NEW j \in J PROVE (IF s[j].next > now THEN s[j].next - now ELSE 0) \in Nat
      <3> DEFINE n == s[j].next
      <3>1. n \in Nat /\ now \in Nat
        BY <1>1, BaseFacts
      <3> HIDE DEF n
      <3>2. (IF n > now THEN n - now ELSE 0) \in Nat
        BY <3>1
      <3> QED
        BY <3>2 DEF n
    <2> HIDE DEF J
    <2>2. W \subseteq Nat
      BY <2>1
    <2> HIDE DEF W
    <2> QED
      BY <2>2, BaseFacts
  <1>3. timer' = "sleeping" /\ due' = {} /\ current' = Nothing /\ wake' = now + Min(S)
    BY DEF Arm
  <1> HIDE DEF S
  <1>4. Min(S) \in Nat
    BY <1>2, MinType
  <1> QED
    BY <1>3, <1>4, BaseFacts

LEMMA NothingType == Nothing \in [job : Job \union {NoJob}, at : Nat]
                     /\ NoRun \in [job : Job \union {NoJob}, attached : BOOLEAN, was : BOOLEAN]
                     /\ NoRun.job = NoJob /\ Nothing.job = NoJob
  BY DEF Nothing, NoRun

\* One job of a store replaced.
LEMMA Replaced ==
  ASSUME NEW s, SoundStore(s), NEW j \in Job, NEW e, Sound(e), NEW t, t = [s EXCEPT ![j] = e]
  PROVE  SoundStore(t) /\ t \in [Job -> Entry] /\ t[j] = e /\ \A i \in Job \ {j} : t[i] = s[i]
  BY DEF SoundStore, Sound

-----------------------------------------------------------------------------
(* Every step keeps the base. *)

LifeType == life' \in [Job -> {"fresh", "live", "gone", "spent", "lost"}]

LEMMA CommitBase ==
  ASSUME Base, NEW j \in Job, NEW e, Sound(e), Commit(j, e), LifeType
  PROVE  Base'
  <1> DEFINE s == [Loaded EXCEPT ![j] = e]
             a == [op |-> IF e.known THEN "put" ELSE "del", entry |-> e]
  <1>1. SoundStore(s) /\ s \in [Job -> Entry]
    BY LoadedType, Replaced
  <1>2. /\ store' = s /\ manual' = Detached
        /\ UNCHANGED <<now, runs, up, running, edit, fired, finished>>
    BY DEF Commit
  <1>3. \/ /\ running /\ disk' = s /\ actions' = LoadedActions(TRUE) /\ Arm(s)
        \/ /\ ~running /\ actions' = [actions EXCEPT ![j] = a]
           /\ UNCHANGED <<disk, timer, wake, due, current>>
    BY DEF Commit, Save
  <1> HIDE DEF s
  <1>4. CASE running /\ disk' = s /\ actions' = LoadedActions(TRUE) /\ Arm(s)
    BY <1>1, <1>2, <1>4, ArmType, LoadedType, DetachedType, BaseFacts, NothingType
       DEF Base, TypeOK, LifeType, MemoryMatchesDisk, RunningHasTimer, EditSound, Ticking
  <1>5. CASE ~running /\ actions' = [actions EXCEPT ![j] = a]
             /\ UNCHANGED <<disk, timer, wake, due, current>>
    <2>1. a \in Action /\ (a.op = "put" => a.entry.known)
      BY DEF Action, Sound
    <2> HIDE DEF a
    <2>2. SoundActions(actions') /\ actions' \in [Job -> Action]
      BY <1>5, <2>1, BaseFacts DEF SoundActions
    <2> QED
      BY <1>1, <1>2, <1>5, <2>2, DetachedType, BaseFacts
         DEF Base, TypeOK, LifeType, MemoryMatchesDisk, RunningHasTimer, EditSound, Ticking
  <1> QED
    BY <1>3, <1>4, <1>5

\* The store with which the service starts.
Started == [j \in Job |-> IF j \in System THEN Fresh(j)
                          ELSE IF View[j].enabled THEN [View[j] EXCEPT !.next = NextRun(j, now)]
                          ELSE View[j]]

LEMMA StartedType ==
  ASSUME Base
  PROVE  /\ SoundStore(Started) /\ Started \in [Job -> Entry]
         /\ \A j \in Job \ System : Started[j].known = View[j].known
         /\ \A j \in Job \ System : ~View[j].known => Started[j] = View[j]
         /\ \A j \in System : Started[j].known
         /\ \A j \in Job : Started[j].enabled => Started[j].next = 0 \/ Started[j].next > now
  <1>1. ASSUME NEW j \in Job
        PROVE  /\ Sound(Started[j])
               /\ j \notin System => Started[j].known = View[j].known
               /\ j \notin System /\ ~View[j].known => Started[j] = View[j]
               /\ j \in System => Started[j].known
               /\ Started[j].enabled => Started[j].next = 0 \/ Started[j].next > now
    <2>1. CASE j \in System
      BY <2>1, FreshType, BaseFacts DEF Started
    <2>2. CASE j \notin System /\ View[j].enabled
      <3>1. Started[j] = [View[j] EXCEPT !.next = NextRun(j, now)]
        BY <2>2 DEF Started
      <3>2. Sound(View[j]) /\ View[j].known /\ View[j] \in Entry
        BY <2>2, BaseFacts, AbsentSound DEF SoundStore, Sound
      <3>3. NextRun(j, now) \in Nat /\ (NextRun(j, now) = 0 \/ NextRun(j, now) > now)
        BY NextRunType, BaseFacts
      <3> QED
        BY <2>2, <3>1, <3>2, <3>3 DEF Sound, Entry
    <2>3. CASE j \notin System /\ ~View[j].enabled
      <3>1. Started[j] = View[j] /\ Sound(View[j])
        BY <2>3, BaseFacts DEF Started, SoundStore
      <3> QED
        BY <2>3, <3>1
    <2> QED
      BY <2>1, <2>2, <2>3
  <1>2. Started = [j \in Job |-> Started[j]]
    BY DEF Started
  <1> QED
    BY <1>1, <1>2, CronAssumption DEF SoundStore, Sound

LEMMA StartBase ==
  ASSUME Base, Start
  PROVE  Base'
  <1>1. /\ store' = Started /\ disk' = Started /\ Arm(Started) /\ up' = TRUE /\ running' = TRUE
        /\ actions' = LoadedActions(TRUE) /\ UNCHANGED <<now, runs, manual, edit, history>>
    BY DEF Start, Started
  <1> QED
    BY <1>1, StartedType, ArmType, LoadedType, BaseFacts, NothingType
       DEF Base, TypeOK, history, MemoryMatchesDisk, RunningHasTimer, EditSound, Ticking

LEMMA EmptyStore == SoundStore([j \in Job |-> Absent]) /\ [j \in Job |-> Absent] \in [Job -> Entry]
  BY AbsentSound DEF SoundStore

LEMMA StopBase ==
  ASSUME Base, Stop \/ Exit \/ CrashInMerge
  PROVE  Base'
  <1>1. /\ running' = FALSE /\ up' \in BOOLEAN /\ NoTimer
        /\ UNCHANGED <<now, runs, disk, edit, fired, finished>>
        /\ \/ UNCHANGED <<store, manual>>
           \/ store' = [j \in Job |-> Absent] /\ manual' = NoRun
        /\ actions' = actions \/ actions' = LoadedActions(TRUE)
    BY BaseFacts DEF Stop, Exit, CrashInMerge, files, history
  <1>2. SoundStore(store') /\ store' \in [Job -> Entry]
        /\ manual' \in [job : Job \union {NoJob}, attached : BOOLEAN, was : BOOLEAN]
    BY <1>1, EmptyStore, NothingType, BaseFacts
  <1>3. SoundActions(actions') /\ actions' \in [Job -> Action]
    <2>1. SoundActions(LoadedActions(TRUE)) /\ LoadedActions(TRUE) \in [Job -> Action]
      BY LoadedType
    <2>2. CASE actions' = actions
      BY <2>2, BaseFacts DEF SoundActions
    <2>3. CASE actions' = LoadedActions(TRUE)
      BY <2>1, <2>3 DEF SoundActions
    <2> QED
      BY <1>1, <2>2, <2>3
  <1>4. LifeType
    BY BaseFacts DEF Stop, Exit, CrashInMerge, history, LifeType
  <1> QED
    BY <1>1, <1>2, <1>3, <1>4, BaseFacts, NothingType
       DEF Base, TypeOK, LifeType, NoTimer, MemoryMatchesDisk, RunningHasTimer, EditSound, Ticking

LEMMA ListJobsBase ==
  ASSUME Base, ListJobs
  PROVE  Base'
  <1>1. /\ store' = Loaded /\ manual' = Detached /\ disk' = LoadedDisk(running)
        /\ actions' = LoadedActions(running)
        /\ UNCHANGED <<now, runs, up, running, timer, wake, due, current, edit, history>>
    BY DEF ListJobs
  <1>2. running /\ timer # "running" => Loaded = LoadedDisk(running)
    BY LoadedIsSaved, LoadedType, BaseFacts DEF Reloads
  <1>3. /\ SoundStore(store') /\ store' \in [Job -> Entry] /\ SoundStore(disk') /\ disk' \in [Job -> Entry]
        /\ SoundActions(actions') /\ actions' \in [Job -> Action]
    BY <1>1, LoadedType
  <1> QED
    BY <1>1, <1>2, <1>3, DetachedType, BaseFacts
       DEF Base, TypeOK, history, MemoryMatchesDisk, RunningHasTimer, EditSound, Ticking

LEMMA OnTimerBase ==
  ASSUME Base, OnTimer
  PROVE  Base'
  <1>1. /\ timer = "sleeping" /\ Reloads
        /\ UNCHANGED <<now, runs, up, running, edit>>
        /\ \/ ~running /\ NoTimer /\ UNCHANGED <<store, manual, files, history>>
           \/ /\ running /\ store' = View /\ disk' = View /\ actions' = LoadedActions(TRUE)
              /\ manual' = Detached /\ Arm(View) /\ UNCHANGED history
           \/ \E j \in Job :
                /\ running /\ timer' = "running"
                /\ current' = [job |-> j, at |-> View[j].next]
                /\ due' = {i \in Job \ {j} : IsDue(View, i)}
                /\ fired' = [fired EXCEPT ![j] = @ \union {View[j].next}]
                /\ store' = View /\ disk' = LoadedDisk(TRUE) /\ actions' = LoadedActions(TRUE)
                /\ manual' = Detached /\ UNCHANGED <<wake, life, finished>>
    BY DEF OnTimer, Reloads, Save
  <1>2. CASE ~running /\ NoTimer /\ UNCHANGED <<store, manual, files, history>>
    BY <1>1, <1>2, BaseFacts, NothingType
       DEF Base, TypeOK, NoTimer, files, history, MemoryMatchesDisk, RunningHasTimer, EditSound, Ticking
  <1>3. CASE /\ running /\ store' = View /\ disk' = View /\ actions' = LoadedActions(TRUE)
             /\ manual' = Detached /\ Arm(View) /\ UNCHANGED history
    BY <1>1, <1>3, ArmType, LoadedType, DetachedType, BaseFacts, NothingType
       DEF Base, TypeOK, history, MemoryMatchesDisk, RunningHasTimer, EditSound, Ticking
  <1>4. ASSUME NEW j \in Job,
               running /\ timer' = "running",
               current' = [job |-> j, at |-> View[j].next],
               due' = {i \in Job \ {j} : IsDue(View, i)},
               fired' = [fired EXCEPT ![j] = @ \union {View[j].next}],
               store' = View /\ disk' = LoadedDisk(TRUE) /\ actions' = LoadedActions(TRUE),
               manual' = Detached /\ UNCHANGED <<wake, life, finished>>
        PROVE  Base'
    <2>1. View[j].next \in Nat
      BY BaseFacts DEF Entry
    <2>2. fired' \in [Job -> SUBSET Nat]
      BY <1>4, <2>1, BaseFacts
    <2>3. current' \in [job : Job \union {NoJob}, at : Nat] /\ current'.job \in Job /\ due' \subseteq Job
      BY <1>4, <2>1
    <2>4. /\ SoundStore(store') /\ store' \in [Job -> Entry] /\ SoundStore(disk')
          /\ disk' \in [Job -> Entry] /\ SoundActions(actions') /\ actions' \in [Job -> Action]
      BY <1>4, LoadedType, BaseFacts
    <2> QED
      BY <1>1, <1>4, <2>2, <2>3, <2>4, DetachedType, BaseFacts
         DEF Base, TypeOK, MemoryMatchesDisk, RunningHasTimer, EditSound, Ticking
  <1> QED
    BY <1>1, <1>2, <1>3, <1>4

LEMMA FinishJobBase ==
  ASSUME Base, FinishJob
  PROVE  Base'
  <1> DEFINE j == current.job
             e == Executed(j, store[j])
             s == [store EXCEPT ![j] = Executed(j, @)]
  <1>1. j \in Job /\ current.at \in Nat
    BY BaseFacts DEF Base, Ticking, FinishJob
  <1>2. Sound(e)
    BY <1>1, ExecutedType, BaseFacts DEF SoundStore
  <1>3. SoundStore(s) /\ s \in [Job -> Entry]
    <2>1. s = [store EXCEPT ![j] = e]
      BY BaseFacts
    <2> HIDE DEF s, e, j
    <2> QED
      BY <1>1, <1>2, <2>1, BaseFacts, Replaced
  <1>4. /\ timer = "running" /\ store' = s
        /\ finished' = [finished EXCEPT ![j] = @ \union {current.at}]
        /\ life' = [life EXCEPT ![j] = IF j \in DeleteAfterRun /\ @ = "live" THEN "spent" ELSE @]
        /\ \/ disk' = s /\ Arm(s) /\ UNCHANGED fired
           \/ \E i \in due :
                /\ current' = [job |-> i, at |-> s[i].next] /\ due' = due \ {i}
                /\ fired' = [fired EXCEPT ![i] = @ \union {s[i].next}]
                /\ UNCHANGED <<disk, timer, wake>>
        /\ UNCHANGED <<now, runs, up, running, manual, actions, edit>>
    BY DEF FinishJob, Save
  <1> HIDE DEF s, e
  <1>5. finished' \in [Job -> SUBSET Nat] /\ life' \in [Job -> {"fresh", "live", "gone", "spent", "lost"}]
    BY <1>1, <1>4, BaseFacts
  <1>6. CASE disk' = s /\ Arm(s) /\ UNCHANGED fired
    BY <1>3, <1>4, <1>5, <1>6, ArmType, BaseFacts, NothingType
       DEF Base, TypeOK, MemoryMatchesDisk, RunningHasTimer, EditSound, Ticking
  <1>7. ASSUME NEW i \in due,
               current' = [job |-> i, at |-> s[i].next] /\ due' = due \ {i},
               fired' = [fired EXCEPT ![i] = @ \union {s[i].next}],
               UNCHANGED <<disk, timer, wake>>
        PROVE  Base'
    <2>1. i \in Job /\ s[i].next \in Nat
      BY <1>3, BaseFacts DEF Entry
    <2>2. fired' \in [Job -> SUBSET Nat] /\ due' \subseteq Job
      BY <1>7, <2>1, BaseFacts
    <2>3. current' \in [job : Job \union {NoJob}, at : Nat] /\ current'.job \in Job
      BY <1>7, <2>1
    <2> QED
      BY <1>3, <1>4, <1>5, <1>7, <2>2, <2>3, BaseFacts
         DEF Base, TypeOK, MemoryMatchesDisk, RunningHasTimer, EditSound, Ticking
  <1> QED
    BY <1>4, <1>6, <1>7

LEMMA RunJobBase ==
  ASSUME Base, NEW j \in Job, RunJob(j)
  PROVE  Base'
  <1>1. /\ runs < MaxRuns /\ manual.job = NoJob /\ runs' = runs + 1 /\ running' = TRUE
        /\ manual' = [job |-> j, attached |-> TRUE, was |-> running]
        /\ store' = Loaded /\ disk' = LoadedDisk(TRUE) /\ actions' = LoadedActions(TRUE)
        /\ UNCHANGED <<now, up, timer, wake, due, current, edit, history>>
    BY DEF RunJob
  <1>2. timer # "running" => Loaded = LoadedDisk(TRUE)
    BY LoadedIsSaved, LoadedType DEF Reloads
  <1>3. /\ SoundStore(store') /\ store' \in [Job -> Entry] /\ SoundStore(disk') /\ disk' \in [Job -> Entry]
        /\ SoundActions(actions') /\ actions' \in [Job -> Action]
    BY <1>1, LoadedType
  <1>4. manual' \in [job : Job \union {NoJob}, attached : BOOLEAN, was : BOOLEAN]
        /\ manual'.job = j /\ manual'.was = running /\ runs' \in 0..MaxRuns
    BY <1>1, BaseFacts
  <1> QED
    BY <1>1, <1>2, <1>3, <1>4, BaseFacts, CronAssumption
       DEF Base, TypeOK, history, MemoryMatchesDisk, RunningHasTimer, EditSound, Ticking

LEMMA FinishRunStore ==
  ASSUME Base, FinishRun
  PROVE  LET j == manual.job
             s == IF manual.attached \/ j \in DeleteAfterRun
                  THEN [store EXCEPT ![j] = Executed(j, @)] ELSE store
         IN  /\ j \in Job /\ SoundStore(s) /\ s \in [Job -> Entry]
             /\ store' = s /\ disk' = s
             /\ (s[j] = store[j] /\ j \notin DeleteAfterRun) \/ s[j] = Executed(j, store[j])
             /\ \A i \in Job \ {j} : s[i] = store[i]
  <1> DEFINE j == manual.job
             e == Executed(j, store[j])
             s == IF manual.attached \/ j \in DeleteAfterRun
                  THEN [store EXCEPT ![j] = Executed(j, @)] ELSE store
  <1>1. j \in Job /\ store' = s /\ disk' = s
    BY BaseFacts DEF FinishRun, Save
  <1>2. Sound(e)
    BY <1>1, ExecutedType, BaseFacts DEF SoundStore
  <1>3. (s = store /\ j \notin DeleteAfterRun) \/ s = [store EXCEPT ![j] = e]
    BY BaseFacts
  <1> HIDE DEF s, e, j
  <1>4. /\ SoundStore(s) /\ s \in [Job -> Entry]
        /\ ((s[j] = store[j] /\ j \notin DeleteAfterRun) \/ s[j] = e)
        /\ \A i \in Job \ {j} : s[i] = store[i]
    BY <1>1, <1>2, <1>3, BaseFacts, Replaced
  <1> QED
    BY <1>1, <1>4 DEF s, e, j

LEMMA FinishRunBase ==
  ASSUME Base, FinishRun
  PROVE  Base'
  <1> DEFINE j == manual.job
  <1>1. PICK s : s \in [Job -> Entry] /\ SoundStore(s) /\ store' = s /\ disk' = s
                 /\ (IF manual.was THEN Arm(s) ELSE UNCHANGED <<timer, wake, due, current>>)
    BY FinishRunStore DEF FinishRun
  <1>2. /\ j \in Job /\ running' = manual.was /\ manual' = NoRun
        /\ life' = [life EXCEPT ![j] = IF j \in DeleteAfterRun /\ @ = "live" THEN "spent" ELSE @]
        /\ UNCHANGED <<now, runs, up, actions, edit, fired, finished>>
    BY BaseFacts DEF FinishRun
  <1>3. life' \in [Job -> {"fresh", "live", "gone", "spent", "lost"}] /\ running' \in BOOLEAN
    BY <1>2, BaseFacts
  <1>4. CASE manual.was /\ Arm(s)
    BY <1>1, <1>2, <1>3, <1>4, ArmType, BaseFacts, NothingType
       DEF Base, TypeOK, MemoryMatchesDisk, RunningHasTimer, EditSound, Ticking
  <1>5. CASE ~manual.was /\ UNCHANGED <<timer, wake, due, current>>
    BY <1>1, <1>2, <1>3, <1>5, BaseFacts, NothingType
       DEF Base, TypeOK, MemoryMatchesDisk, RunningHasTimer, EditSound, Ticking
  <1> QED
    BY <1>1, <1>4, <1>5

LEMMA ExternalBase ==
  ASSUME Base, External
  PROVE  Base'
  <1>1. CASE ExternalWrite
    <2>1. /\ edit.job \in Job /\ edit.entry.known /\ edit.entry \in Entry
          /\ actions' = [actions EXCEPT ![edit.job] = [op |-> "put", entry |-> edit.entry]]
          /\ edit' = NoEdit /\ UNCHANGED <<now, gateway, disk, fired, finished>>
      BY <1>1, BaseFacts DEF ExternalWrite, Base, EditSound
    <2>4. LifeType
      BY <1>1, <2>1, BaseFacts DEF ExternalWrite, LifeType
    <2>2. SoundActions(actions') /\ actions' \in [Job -> Action]
      BY <2>1, BaseFacts DEF SoundActions, Action
    <2>3. NoEdit \in [job : Job \union {NoJob}, entry : Entry] /\ NoEdit.job = NoJob
      BY AbsentSound DEF NoEdit
    <2> QED
      BY <2>1, <2>2, <2>3, <2>4, BaseFacts
         DEF Base, TypeOK, LifeType, gateway, MemoryMatchesDisk, RunningHasTimer, EditSound, Ticking
  <1>2. ASSUME NEW j \in Job, ExternalAdd(j) \/ ExternalRemove(j)
        PROVE  Base'
    <2>1. PICK op \in {"put", "del"}, e \in Entry :
            /\ op = "put" => e.known
            /\ actions' = [actions EXCEPT ![j] = [op |-> op, entry |-> e]]
      BY <1>2, FreshType, AbsentSound, BaseFacts DEF ExternalAdd, ExternalRemove, Sound
    <2>2. /\ UNCHANGED <<now, gateway, disk, edit, fired, finished>>
          /\ life' \in [Job -> {"fresh", "live", "gone", "spent", "lost"}]
      BY <1>2, BaseFacts DEF ExternalAdd, ExternalRemove
    <2>3. SoundActions(actions') /\ actions' \in [Job -> Action]
      BY <2>1, BaseFacts DEF SoundActions, Action
    <2> QED
      BY <2>2, <2>3, BaseFacts
         DEF Base, TypeOK, gateway, MemoryMatchesDisk, RunningHasTimer, EditSound, Ticking
  <1>3. ASSUME NEW j \in Job, NEW b \in BOOLEAN, ExternalRead(j, b)
        PROVE  Base'
    <2>1. edit' = [job |-> j, entry |-> Edited(j, b)] /\ UNCHANGED <<now, gateway, files, history>>
      BY <1>3 DEF ExternalRead
    <2>2. Edited(j, b) \in Entry /\ Edited(j, b).known
      BY EditedType, BaseFacts DEF Sound
    <2> QED
      BY <2>1, <2>2, BaseFacts
         DEF Base, TypeOK, gateway, files, history, MemoryMatchesDisk, RunningHasTimer, EditSound, Ticking
  <1> QED
    BY <1>1, <1>2, <1>3 DEF External

LEMMA EditsBase ==
  ASSUME Base, NEW j \in Job, AddJob(j) \/ RemoveJob(j) \/ \E b \in BOOLEAN : EditJob(j, b)
  PROVE  Base'
  <1>1. PICK e : Sound(e) /\ Commit(j, e)
    BY FreshType, EditedType, AbsentSound, BaseFacts DEF AddJob, RemoveJob, EditJob
  <1>2. LifeType
    BY BaseFacts DEF AddJob, RemoveJob, EditJob, LifeType
  <1> QED
    BY <1>1, <1>2, CommitBase

LEMMA BaseInit == Init => Base
  <1> SUFFICES ASSUME Init PROVE Base
    OBVIOUS
  <1>1. SoundStore(store) /\ SoundStore(disk) /\ store \in [Job -> Entry] /\ disk \in [Job -> Entry]
    BY EmptyStore DEF Init
  <1>2. SoundActions(actions) /\ actions \in [Job -> Action]
    BY AbsentSound DEF Init, SoundActions, NoAction, Action
  <1>3. edit \in [job : Job \union {NoJob}, entry : Entry] /\ edit.job = NoJob
    BY AbsentSound DEF Init, NoEdit
  <1>4. /\ manual \in [job : Job \union {NoJob}, attached : BOOLEAN, was : BOOLEAN]
        /\ current \in [job : Job \union {NoJob}, at : Nat]
    BY NothingType DEF Init
  <1>5. /\ life \in [Job -> {"fresh", "live", "gone", "spent", "lost"}]
        /\ fired \in [Job -> SUBSET Nat] /\ finished \in [Job -> SUBSET Nat]
    BY DEF Init
  <1>6. now \in 0..MaxTime /\ wake \in Nat /\ runs \in 0..MaxRuns
    BY CronAssumption DEF Init
  <1> QED
    BY <1>1, <1>2, <1>3, <1>4, <1>5, <1>6
       DEF Init, Base, TypeOK, MemoryMatchesDisk, RunningHasTimer, EditSound, Ticking

LEMMA BaseNext == Base /\ [Next]_vars => Base'
  <1> SUFFICES ASSUME Base, [Next]_vars PROVE Base'
    OBVIOUS
  <1>1. CASE Gateway
    <2>1. ASSUME NEW j \in Job, AddJob(j) \/ RemoveJob(j) \/ (\E b \in BOOLEAN : EditJob(j, b))
          PROVE  Base'
      BY <2>1, EditsBase
    <2>2. ASSUME NEW j \in Job, RunJob(j)
          PROVE  Base'
      BY <2>2, RunJobBase
    <2> QED
      BY <1>1, <2>1, <2>2, StartBase, StopBase, ListJobsBase, OnTimerBase, FinishJobBase,
         FinishRunBase DEF Gateway
  <1>2. CASE Elapse
    BY <1>2, BaseFacts DEF Elapse, Base, TypeOK, gateway, files, history, MemoryMatchesDisk,
                           RunningHasTimer, EditSound, Ticking
  <1>3. CASE UNCHANGED vars
    BY <1>3 DEF vars, gateway, files, history, Base, TypeOK, MemoryMatchesDisk, RunningHasTimer,
                EditSound, Ticking
  <1> QED
    BY <1>1, <1>2, <1>3, ExternalBase DEF Next

LEMMA BaseInvariant == Spec => []Base
  <1>1. Init => Base
    BY BaseInit
  <1>2. Base /\ [Next]_vars => Base'
    BY BaseNext
  <1> QED
    BY <1>1, <1>2, PTL DEF Spec

\* Whatever is called, by whichever process, and wherever the gateway dies: the
\* data of the jobs are well formed, a running service keeps nothing in memory
\* only between ticks, and it always has a timer.
THEOREM GatewayConsistent == Spec => [](TypeOK /\ MemoryMatchesDisk /\ RunningHasTimer)
  <1>1. Base => TypeOK /\ MemoryMatchesDisk /\ RunningHasTimer
    BY DEF Base
  <1> QED
    BY <1>1, BaseInvariant, PTL

-----------------------------------------------------------------------------
(* What holds while the gateway is undisturbed: what was added and removed. *)

\* The service is not stopped within its process, and no other process writes back a
\* job it read before: both do lose an edit.
Undisturbed == Operations \intersect {"stop", "external_edit"} = {}

Alive ==
  /\ running <=> up
  /\ manual.job # NoJob => manual.was
  /\ timer = "running" => up
  /\ edit.job = NoJob

\* Where a job is known, by what happened to it: a job that only another process
\* added is in the action file alone, and one that only another process removed
\* is still on disk and in memory.
JobRecorded(j) ==
  /\ life[j] \in {"fresh", "gone"} => j \notin System
  /\ life[j] = "fresh" => actions[j].op = "none" /\ ~store[j].known /\ ~disk[j].known
  /\ actions[j].op = "put" => ~store[j].known /\ ~disk[j].known /\ life[j] # "gone"
  /\ actions[j].op = "del" => life[j] = "gone"
  /\ life[j] = "gone" /\ actions[j].op # "del" => (up => ~store[j].known) /\ ~disk[j].known
  /\ life[j] = "live" /\ j \notin System /\ actions[j].op # "put" =>
       (up => store[j].known) /\ disk[j].known

Kept == Alive /\ \A j \in Job : JobRecorded(j)

\* A reload and the merge that may follow it keep the record.
LEMMA LoadedRecorded ==
  ASSUME Base, Kept, Reloads \/ up, NEW j \in Job
  PROVE  /\ life[j] = "fresh" =>
              LoadedActions(TRUE)[j].op = "none" /\ ~Loaded[j].known /\ ~LoadedDisk(TRUE)[j].known
         /\ LoadedActions(TRUE)[j].op = "put" =>
              ~Reloads /\ ~Loaded[j].known /\ ~LoadedDisk(TRUE)[j].known /\ life[j] # "gone"
         /\ LoadedActions(TRUE)[j].op = "del" => life[j] = "gone"
         /\ life[j] = "gone" /\ LoadedActions(TRUE)[j].op # "del" =>
              ~Loaded[j].known /\ ~LoadedDisk(TRUE)[j].known
         /\ life[j] = "live" /\ j \notin System /\ LoadedActions(TRUE)[j].op # "put" =>
              Loaded[j].known /\ LoadedDisk(TRUE)[j].known
  <1>1. JobRecorded(j)
    BY DEF Kept
  <1>2. CASE ~Reloads
    <2>1. Loaded = store /\ LoadedDisk(TRUE) = disk /\ LoadedActions(TRUE) = actions /\ up
      BY <1>2, LoadedType
    <2> QED
      BY <1>1, <1>2, <2>1 DEF JobRecorded
  <1>3. CASE Reloads
    <2>1. Loaded = View /\ LoadedDisk(TRUE) = View
      BY <1>3, LoadedType, LoadedIsSaved
    <2>2. /\ actions[j].op \in {"none", "put", "del"}
          /\ View[j].known <=> (actions[j].op = "put" \/ (actions[j].op = "none" /\ disk[j].known))
      <3>1. actions[j].op \in {"none", "put", "del"} /\ (actions[j].op = "put" => actions[j].entry.known)
        BY BaseFacts DEF SoundActions, Action
      <3> QED
        BY <3>1, AbsentSound DEF View
    <2>3. CASE Merges(TRUE)
      <3>1. LoadedActions(TRUE)[j].op = "none"
        BY <2>3 DEF LoadedActions, NoAction
      <3> QED
        BY <1>1, <2>1, <2>2, <3>1 DEF JobRecorded
    <2>4. CASE ~Merges(TRUE)
      <3>1. LoadedActions(TRUE) = actions /\ actions[j].op # "put"
        BY <1>3, <2>4 DEF LoadedActions, Merges
      <3> QED
        BY <1>1, <2>1, <2>2, <3>1 DEF JobRecorded
    <2> QED
      BY <2>3, <2>4
  <1> QED
    BY <1>2, <1>3

\* Nothing but a reload changes the record.
LEMMA ReloadKept ==
  ASSUME Base, Kept, up, store' = Loaded, disk' \in {Loaded, LoadedDisk(TRUE)}, actions' = LoadedActions(TRUE),
         UNCHANGED <<up, life>>, NEW j \in Job
  PROVE  JobRecorded(j)'
  <1>1. life[j] \in {"fresh", "gone"} => j \notin System
    BY DEF Kept, JobRecorded
  <1>2. life'[j] = life[j] /\ store'[j] = Loaded[j]
        /\ (disk'[j] = Loaded[j] \/ disk'[j] = LoadedDisk(TRUE)[j])
        /\ actions'[j] = LoadedActions(TRUE)[j]
    OBVIOUS
  <1>3. CASE disk'[j] = Loaded[j]
    BY <1>1, <1>2, <1>3, LoadedRecorded DEF JobRecorded
  <1>4. CASE disk'[j] = LoadedDisk(TRUE)[j]
    BY <1>1, <1>2, <1>4, LoadedRecorded DEF JobRecorded
  <1> QED
    BY <1>2, <1>3, <1>4

\* The end of add_job, remove_job, enable_job and update_job, when the store has
\* been saved.
LEMMA CommitKept ==
  ASSUME Base, Kept, up, NEW j \in Job, NEW e, Sound(e), Commit(j, e),
         \A i \in Job \ {j} : life'[i] = life[i],
         \/ life'[j] = "live" /\ e.known /\ life[j] = "fresh"
         \/ life'[j] = "gone" /\ ~e.known /\ Loaded[j].known /\ j \notin System
         \/ life'[j] = (IF life[j] = "lost" THEN "live" ELSE life[j]) /\ e.known /\ Loaded[j].known
  PROVE  Kept'
  <1> DEFINE s == [Loaded EXCEPT ![j] = e]
  <1>1. /\ store' = s /\ disk' = s /\ actions' = LoadedActions(TRUE) /\ Arm(s)
        /\ manual' = Detached /\ UNCHANGED <<up, running, edit>>
    BY DEF Commit, Save, Kept, Alive
  <1>2. SoundStore(s) /\ s \in [Job -> Entry] /\ s[j] = e /\ \A i \in Job \ {j} : s[i] = Loaded[i]
    BY LoadedType, Replaced
  <1>3. timer' = "sleeping"
    BY <1>1, <1>2, ArmType
  <1> HIDE DEF s
  <1>4. Alive'
    BY <1>1, <1>3, DetachedType DEF Kept, Alive
  <1>5. ASSUME NEW i \in Job, i # j PROVE JobRecorded(i)'
    <2>1. life'[i] = life[i] /\ store'[i] = Loaded[i] /\ disk'[i] = Loaded[i]
      BY <1>1, <1>2, <1>5, BaseFacts
    <2>2. life[i] \in {"fresh", "gone"} => i \notin System
      BY DEF Kept, JobRecorded
    <2> QED
      BY <1>1, <2>1, <2>2, LoadedRecorded DEF JobRecorded
  <1>6. JobRecorded(j)'
    <2>1. store'[j] = e /\ disk'[j] = e
      BY <1>1, <1>2, BaseFacts
    <2>2. life[j] \in {"fresh", "gone"} => j \notin System
      BY DEF Kept, JobRecorded
    <2> QED
      BY <1>1, <2>1, <2>2, LoadedRecorded DEF JobRecorded
  <1> QED
    BY <1>4, <1>5, <1>6 DEF Kept

LEMMA EditsStepKept ==
  ASSUME Base, Kept, NEW j \in Job, AddJob(j) \/ RemoveJob(j) \/ \E b \in BOOLEAN : EditJob(j, b)
  PROVE  Kept'
  <1>0. life[j] \in {"fresh", "live", "gone", "spent", "lost"}
    BY BaseFacts
  <1>1. CASE AddJob(j)
    <2> DEFINE e == Fresh(j)
    <2>1. up /\ life[j] = "fresh" /\ Commit(j, e) /\ Sound(e) /\ e.known
      BY <1>1, FreshType, BaseFacts DEF AddJob
    <2>2. life'[j] = "live" /\ \A i \in Job \ {j} : life'[i] = life[i]
      BY <1>1, BaseFacts DEF AddJob
    <2> HIDE DEF e
    <2> QED
      BY <2>1, <2>2, CommitKept
  <1>2. CASE RemoveJob(j)
    <2>1. /\ up /\ j \notin System /\ Loaded[j].known /\ Commit(j, Absent)
          /\ life'[j] = "gone" /\ \A i \in Job \ {j} : life'[i] = life[i]
      BY <1>2, BaseFacts DEF RemoveJob
    <2> QED
      BY <2>1, AbsentSound, CommitKept
  <1>3. ASSUME NEW b \in BOOLEAN, EditJob(j, b)
        PROVE  Kept'
    <2>1. /\ up /\ Loaded[j].known /\ Commit(j, Edited(j, b))
          /\ Sound(Edited(j, b)) /\ Edited(j, b).known
      BY <1>3, EditedType, BaseFacts DEF EditJob
    <2>2. /\ life'[j] = (IF life[j] = "lost" THEN "live" ELSE life[j])
          /\ \A i \in Job \ {j} : life'[i] = life[i]
      BY <1>3, BaseFacts DEF EditJob
    <2> QED
      BY <2>1, <2>2, CommitKept
  <1> QED
    BY <1>1, <1>2, <1>3

LEMMA StartKept ==
  ASSUME Base, Kept, Start
  PROVE  Kept'
  <1>1. /\ store' = Started /\ disk' = Started /\ Arm(Started) /\ up' = TRUE /\ running' = TRUE
        /\ actions' = LoadedActions(TRUE) /\ UNCHANGED <<manual, edit, life>> /\ ~up
    BY DEF Start, Started, history
  <1>2. Reloads /\ Loaded = View /\ timer' = "sleeping"
    BY <1>1, StartedType, ArmType, LoadedType DEF Kept, Alive, Reloads
  <1>3. Alive'
    BY <1>1, <1>2 DEF Kept, Alive
  <1>4. ASSUME NEW j \in Job PROVE JobRecorded(j)'
    <2>1. life[j] \in {"fresh", "gone"} => j \notin System
      BY DEF Kept, JobRecorded
    <2>2. IF j \in System THEN Started[j].known ELSE Started[j].known = View[j].known
      BY StartedType
    <2>3. /\ life'[j] = life[j] /\ store'[j] = Started[j] /\ disk'[j] = Started[j]
          /\ actions'[j] = LoadedActions(TRUE)[j] /\ up'
      BY <1>1
    <2> QED
      BY <1>2, <2>1, <2>2, <2>3, LoadedRecorded DEF JobRecorded
  <1> QED
    BY <1>3, <1>4 DEF Kept

LEMMA ExitKept ==
  ASSUME Base, Kept, Exit
  PROVE  Kept'
  <1>1. /\ up' = FALSE /\ running' = FALSE /\ store' = [j \in Job |-> Absent] /\ manual' = NoRun
        /\ timer' = "none" /\ UNCHANGED <<disk, actions, edit, life>>
    BY DEF Exit, NoTimer, files, history
  <1>2. ASSUME NEW j \in Job PROVE JobRecorded(j)'
    <2>1. JobRecorded(j) /\ ~store'[j].known
      BY <1>1, AbsentSound DEF Kept
    <2> QED
      BY <1>1, <2>1 DEF JobRecorded
  <1> QED
    BY <1>1, <1>2, NothingType DEF Kept, Alive

\* A kill inside a merge: an action it loses is on record as lost, and the files are
\* as if there had been none.
LEMMA CrashInMergeKept ==
  ASSUME Base, Kept, CrashInMerge
  PROVE  Kept'
  <1>1. /\ up' = FALSE /\ running' = FALSE /\ store' = [j \in Job |-> Absent] /\ manual' = NoRun
        /\ timer' = "none" /\ UNCHANGED <<disk, edit>> /\ Merges(TRUE)
        /\ life' = [j \in Job |-> IF View[j] # disk[j] THEN "lost" ELSE life[j]]
        /\ actions' = LoadedActions(TRUE)
    BY BaseFacts DEF CrashInMerge, Merges, NoTimer
  <1>2. ASSUME NEW j \in Job PROVE JobRecorded(j)'
    <2>1. JobRecorded(j) /\ ~store'[j].known /\ disk'[j] = disk[j]
      BY <1>1, AbsentSound DEF Kept
    <2>2. actions'[j].op = "none"
      BY <1>1 DEF LoadedActions, NoAction
    <2>3. CASE View[j] # disk[j]
      <3>1. life'[j] = "lost"
        BY <1>1, <2>3
      <3> QED
        BY <2>2, <3>1 DEF JobRecorded
    <2>4. CASE View[j] = disk[j]
      <3>1. life'[j] = life[j]
        BY <1>1, <2>4
      <3>2. /\ actions[j].op = "put" => disk[j].known
            /\ actions[j].op = "del" => ~disk[j].known
        BY <2>4, BaseFacts, AbsentSound DEF View, SoundActions
      <3> QED
        BY <1>1, <2>1, <2>2, <3>1, <3>2 DEF JobRecorded
    <2> QED
      BY <2>3, <2>4
  <1> QED
    BY <1>1, <1>2, NothingType DEF Kept, Alive

LEMMA ListJobsKept ==
  ASSUME Base, Kept, ListJobs
  PROVE  Kept'
  <1>1. /\ up /\ running = TRUE /\ store' = Loaded /\ manual' = Detached
        /\ disk' = LoadedDisk(TRUE) /\ actions' = LoadedActions(TRUE)
        /\ UNCHANGED <<up, running, timer, edit, life>>
    BY BaseFacts DEF ListJobs, Kept, Alive, history
  <1> QED
    BY <1>1, ReloadKept, DetachedType DEF Kept, Alive

LEMMA OnTimerKept ==
  ASSUME Base, Kept, OnTimer
  PROVE  Kept'
  <1>1. /\ Reloads /\ up /\ UNCHANGED <<up, running, edit, life>>
        /\ store' = View /\ actions' = LoadedActions(TRUE) /\ manual' = Detached
        /\ disk' = View \/ disk' = LoadedDisk(TRUE)
    BY DEF OnTimer, Reloads, Save, Kept, Alive, history
  <1>2. Loaded = View
    BY <1>1, LoadedType
  <1> QED
    BY <1>1, <1>2, ReloadKept, DetachedType DEF Kept, Alive

\* A job whose execution ended, with what the store says of it afterwards.
LEMMA ExecutedRecorded ==
  ASSUME Base, Kept, up, NEW j \in Job, NEW s,
         (s[j] = store[j] /\ j \notin DeleteAfterRun) \/ s[j] = Executed(j, store[j]),
         \A i \in Job \ {j} : s[i] = store[i],
         store' = s, disk' = s \/ disk' = disk, UNCHANGED <<actions, up>>,
         life' = [life EXCEPT ![j] = IF j \in DeleteAfterRun /\ @ = "live" THEN "spent" ELSE @],
         NEW i \in Job
  PROVE  JobRecorded(i)'
  <1>1. JobRecorded(i) /\ up'
    BY DEF Kept
  <1>2. CASE i # j
    <2>1. store'[i] = store[i] /\ life'[i] = life[i] /\ (disk'[i] = store[i] \/ disk'[i] = disk[i])
          /\ actions'[i] = actions[i]
      BY <1>2, BaseFacts
    <2> QED
      BY <1>1, <2>1 DEF JobRecorded
  <1>3. CASE i = j
    <2>1. Sound(store[j])
      BY BaseFacts DEF SoundStore
    <2>2. /\ ~store[j].known => ~s[j].known
          /\ j \in DeleteAfterRun => ~s[j].known
          /\ j \notin DeleteAfterRun => (s[j].known <=> store[j].known)
      BY <2>1, ExecutedType, BaseFacts, AbsentSound
    <2>3. /\ life'[j] = (IF j \in DeleteAfterRun /\ life[j] = "live" THEN "spent" ELSE life[j])
          /\ store'[j] = s[j] /\ (disk'[j] = s[j] \/ disk'[j] = disk[j]) /\ actions'[j] = actions[j]
      BY BaseFacts
    <2> QED
      BY <1>1, <1>3, <2>2, <2>3 DEF JobRecorded
  <1> QED
    BY <1>2, <1>3

\* What FinishJob makes of the store.
LEMMA FinishJobStore ==
  ASSUME Base, FinishJob
  PROVE  LET j == current.job
             s == [store EXCEPT ![j] = Executed(j, @)]
         IN  /\ j \in Job /\ up /\ timer = "running" /\ store' = s
             /\ s \in [Job -> Entry] /\ s[j] = Executed(j, store[j])
             /\ \A i \in Job \ {j} : s[i] = store[i]
             /\ finished' = [finished EXCEPT ![j] = @ \union {current.at}]
             /\ life' = [life EXCEPT ![j] = IF j \in DeleteAfterRun /\ @ = "live" THEN "spent" ELSE @]
             /\ \/ disk' = s /\ Arm(s)
                \/ /\ UNCHANGED <<disk, timer>>
                   /\ \E i \in due : current' = [job |-> i, at |-> s[i].next] /\ due' = due \ {i}
             /\ UNCHANGED <<now, up, running, manual, actions, edit>>
  <1> DEFINE j == current.job
             e == Executed(j, store[j])
             s == [store EXCEPT ![j] = Executed(j, @)]
  <1>1. j \in Job
    BY BaseFacts DEF Base, Ticking, FinishJob
  <1>2. Sound(e) /\ s = [store EXCEPT ![j] = e]
    BY <1>1, ExecutedType, BaseFacts DEF SoundStore
  <1>3. s \in [Job -> Entry] /\ s[j] = e /\ \A i \in Job \ {j} : s[i] = store[i]
    <2>1. SoundStore(store)
      BY BaseFacts
    <2> HIDE DEF s, e, j
    <2>2. store \in [Job -> Entry] /\ e \in Entry
      BY <1>2, <2>1 DEF SoundStore, Sound
    <2> QED
      BY <1>1, <1>2, <2>2
  <1>4. /\ up /\ timer = "running" /\ store' = s
        /\ finished' = [finished EXCEPT ![j] = @ \union {current.at}]
        /\ life' = [life EXCEPT ![j] = IF j \in DeleteAfterRun /\ @ = "live" THEN "spent" ELSE @]
        /\ UNCHANGED <<now, up, running, manual, actions, edit>>
    BY Zenon DEF FinishJob
  <1>5. \/ disk' = s /\ Arm(s)
        \/ /\ UNCHANGED <<disk, timer>>
           /\ \E i \in due : current' = [job |-> i, at |-> s[i].next] /\ due' = due \ {i}
    BY Zenon DEF FinishJob, Save
  <1> HIDE DEF s, e, j
  <1>6. \/ disk' = s /\ Arm(s)
        \/ /\ UNCHANGED <<disk, timer>>
           /\ \E i \in due : current' = [job |-> i, at |-> s[i].next] /\ due' = due \ {i}
    BY <1>5
  <1>7. s[j] = Executed(j, store[j])
    BY <1>3 DEF e
  <1> QED
    BY <1>1, <1>3, <1>4, <1>6, <1>7, Zenon DEF s, j

LEMMA FinishJobKept ==
  ASSUME Base, Kept, FinishJob
  PROVE  Kept'
  <1> DEFINE j == current.job
  <1>1. PICK s : /\ j \in Job /\ up /\ timer = "running" /\ store' = s /\ s \in [Job -> Entry]
                 /\ s[j] = Executed(j, store[j])
                 /\ \A i \in Job \ {j} : s[i] = store[i]
                 /\ life' = [life EXCEPT ![j] = IF j \in DeleteAfterRun /\ @ = "live" THEN "spent" ELSE @]
                 /\ (disk' = s /\ Arm(s)) \/ UNCHANGED <<disk, timer>>
                 /\ UNCHANGED <<up, running, manual, actions, edit>>
    BY FinishJobStore
  <1> HIDE DEF j
  <1>2. Alive'
    BY <1>1, ArmType DEF Kept, Alive
  <1>3. \A i \in Job : JobRecorded(i)'
    BY <1>1, ExecutedRecorded
  <1> QED
    BY <1>2, <1>3 DEF Kept

LEMMA RunJobKept ==
  ASSUME Base, Kept, NEW j \in Job, RunJob(j)
  PROVE  Kept'
  <1>1. /\ up /\ running = TRUE /\ running' = TRUE
        /\ manual' = [job |-> j, attached |-> TRUE, was |-> running]
        /\ store' = Loaded /\ disk' = LoadedDisk(TRUE) /\ actions' = LoadedActions(TRUE)
        /\ UNCHANGED <<up, timer, edit, life>>
    BY BaseFacts DEF RunJob, Kept, Alive, history
  <1>2. Alive'
    BY <1>1 DEF Kept, Alive
  <1>3. \A i \in Job : JobRecorded(i)'
    BY <1>1, ReloadKept
  <1> QED
    BY <1>2, <1>3 DEF Kept

LEMMA FinishRunKept ==
  ASSUME Base, Kept, FinishRun
  PROVE  Kept'
  <1> DEFINE j == manual.job
  <1>1. PICK s : /\ j \in Job /\ s \in [Job -> Entry] /\ store' = s /\ disk' = s
                 /\ (s[j] = store[j] /\ j \notin DeleteAfterRun) \/ s[j] = Executed(j, store[j])
                 /\ \A i \in Job \ {j} : s[i] = store[i]
                 /\ (manual.was => Arm(s))
    BY FinishRunStore DEF FinishRun
  <1>2. /\ up /\ running' = manual.was /\ manual' = NoRun /\ j # NoJob
        /\ life' = [life EXCEPT ![j] = IF j \in DeleteAfterRun /\ @ = "live" THEN "spent" ELSE @]
        /\ UNCHANGED <<up, actions, edit>>
    BY BaseFacts DEF FinishRun
  <1>3. manual.was = TRUE /\ NoRun.job = NoJob
    BY <1>2, BaseFacts, NothingType DEF Kept, Alive
  <1>4. timer' = "sleeping"
    BY <1>1, <1>3, ArmType
  <1> HIDE DEF j
  <1>5. Alive'
    BY <1>2, <1>3, <1>4 DEF Kept, Alive
  <1>6. \A i \in Job : JobRecorded(i)'
    BY <1>1, <1>2, ExecutedRecorded
  <1> QED
    BY <1>5, <1>6 DEF Kept

LEMMA ExternalKept ==
  ASSUME Base, Kept, Undisturbed, External
  PROVE  Kept'
  <1>1. ASSUME NEW j \in Job, ExternalAdd(j) \/ ExternalRemove(j)
        PROVE  Kept'
    <2>1. UNCHANGED <<up, running, store, timer, manual, disk, edit>>
      BY <1>1 DEF ExternalAdd, ExternalRemove, gateway
    <2>2. Alive'
      BY <2>1 DEF Kept, Alive
    <2>3. \/ life[j] = "fresh" /\ life'[j] = "live" /\ actions'[j].op = "put"
          \/ j \notin System /\ life'[j] = "gone" /\ actions'[j].op = "del"
      BY <1>1, BaseFacts DEF ExternalAdd, ExternalRemove
    <2>4. \A i \in Job \ {j} : life'[i] = life[i] /\ actions'[i] = actions[i]
      BY <1>1, BaseFacts DEF ExternalAdd, ExternalRemove
    <2>5. ASSUME NEW i \in Job PROVE JobRecorded(i)'
      <3>1. JobRecorded(i)
        BY DEF Kept
      <3>2. CASE i = j
        BY <2>1, <2>3, <3>1, <3>2 DEF JobRecorded
      <3>3. CASE i # j
        BY <2>1, <2>4, <3>1, <3>3 DEF JobRecorded
      <3> QED
        BY <3>2, <3>3
    <2> QED
      BY <2>2, <2>5 DEF Kept
  <1>2. ~ExternalWrite /\ \A j \in Job, b \in BOOLEAN : ~ExternalRead(j, b)
    BY DEF ExternalWrite, ExternalRead, Kept, Alive, Undisturbed
  <1> QED
    BY <1>1, <1>2 DEF External

LEMMA KeptInit == Init => Kept
  <1> SUFFICES ASSUME Init PROVE Kept
    OBVIOUS
  <1>1. Alive
    BY NothingType, AbsentSound DEF Init, Alive, NoEdit
  <1>2. ASSUME NEW j \in Job PROVE JobRecorded(j)
    <2>1. /\ ~store[j].known /\ ~disk[j].known /\ actions[j].op = "none"
          /\ life[j] = (IF j \in System THEN "live" ELSE "fresh")
      BY AbsentSound DEF Init, NoAction
    <2> QED
      BY <2>1 DEF JobRecorded
  <1> QED
    BY <1>1, <1>2 DEF Kept

LEMMA KeptNext == Undisturbed /\ Base /\ Kept /\ [Next]_vars => Kept'
  <1> SUFFICES ASSUME Undisturbed, Base, Kept, [Next]_vars PROVE Kept'
    OBVIOUS
  <1>1. CASE Gateway
    <2>1. ~Stop
      BY DEF Stop, Undisturbed
    <2>2. CASE Start \/ Exit \/ CrashInMerge \/ ListJobs \/ OnTimer \/ FinishJob \/ FinishRun
      BY <2>2, StartKept, ExitKept, CrashInMergeKept, ListJobsKept, OnTimerKept, FinishJobKept, FinishRunKept
    <2>3. ASSUME NEW j \in Job, AddJob(j) \/ RemoveJob(j) \/ RunJob(j) \/ \E b \in BOOLEAN : EditJob(j, b)
          PROVE  Kept'
      BY <2>3, EditsStepKept, RunJobKept
    <2> QED
      BY <1>1, <2>1, <2>2, <2>3 DEF Gateway
  <1>2. CASE Elapse
    BY <1>2 DEF Elapse, gateway, files, history, Kept, Alive, JobRecorded
  <1>3. CASE UNCHANGED vars
    BY <1>3 DEF vars, gateway, files, history, Kept, Alive, JobRecorded
  <1> QED
    BY <1>1, <1>2, <1>3, ExternalKept DEF Next

\* The record is what a fresh reader of the files sees.
LEMMA KeptIsEditsKept == Base /\ Kept => EditsKept
  <1> SUFFICES ASSUME Base, Kept, NEW j \in Job
               PROVE  /\ life[j] = "gone" => ~View[j].known
                      /\ life[j] = "live" /\ j \notin System => View[j].known
    BY DEF EditsKept, RemovedStayRemoved, AddedStayKnown
  <1>1. JobRecorded(j) /\ actions[j].op \in {"none", "put", "del"}
        /\ (actions[j].op = "put" => actions[j].entry.known)
    BY BaseFacts DEF Kept, SoundActions, Action
  <1>2. View[j].known <=> (actions[j].op = "put" \/ (actions[j].op = "none" /\ disk[j].known))
    BY <1>1, AbsentSound DEF View
  <1> QED
    BY <1>1, <1>2 DEF JobRecorded

\* As long as the gateway is undisturbed, and whatever else happens (crashes at
\* any await, restarts, ticks, manual runs, edits by the gateway and additions and
\* removals by other processes), what was added stays on record until it is
\* removed or spent, and what was removed stays away.  The jobs whose last action a
\* kill inside a merge lost are excepted, and stay so until they are acted on again.
THEOREM ServiceConsistent ==
  ASSUME Undisturbed
  PROVE  Spec => []ServiceInv
  <1>1. Init => Base /\ Kept
    BY BaseInit, KeptInit
  <1>2. Base /\ Kept /\ [Next]_vars => (Base /\ Kept)'
    BY BaseNext, KeptNext
  <1>3. Base /\ Kept => ServiceInv
    BY KeptIsEditsKept DEF ServiceInv, Base
  <1> QED
    BY <1>1, <1>2, <1>3, PTL DEF Spec

-----------------------------------------------------------------------------
(* What a timer tick completed is not due again. *)

Ahead(e, j) == e.enabled /\ e.next # 0 => e.next \notin finished[j]

Past == \A j \in Job : \A t \in finished[j] : t <= now

AllAhead == \A j \in Job : /\ Ahead(store[j], j)
                           /\ actions[j].op = "put" => Ahead(actions[j].entry, j)

TickDue ==
  timer = "running" =>
    /\ current.job \in Job \ due /\ IsDue(store, current.job)
    /\ current.at = store[current.job].next
    /\ \A i \in due : IsDue(store, i)

Occurrences == Past /\ AllAhead /\ TickDue

\* A next run that lies in the future is ahead of everything that was completed.
LEMMA FutureAhead ==
  ASSUME Base, Past, NEW j \in Job, NEW e \in Entry, e.enabled => e.next = 0 \/ e.next > now
  PROVE  Ahead(e, j)
  <1>1. \A t \in finished[j] : t \in Nat /\ t <= now
    BY BaseFacts DEF Past
  <1>2. e.next \in Nat /\ now \in Nat
    BY BaseFacts DEF Entry
  <1> QED
    BY <1>1, <1>2 DEF Ahead

LEMMA AbsentAhead == ASSUME NEW j \in Job PROVE Ahead(Absent, j)
  BY AbsentSound DEF Ahead

\* So are the jobs a reload brings into memory, and the actions it leaves.
LEMMA LoadedAhead ==
  ASSUME Base, Kept, AllAhead, up, NEW j \in Job
  PROVE  /\ Ahead(Loaded[j], j)
         /\ LoadedActions(TRUE)[j].op = "put" => Ahead(LoadedActions(TRUE)[j].entry, j)
  <1>1. LoadedActions(TRUE)[j] = actions[j] \/ LoadedActions(TRUE)[j].op = "none"
    BY DEF LoadedActions, NoAction
  <1>2. CASE ~Reloads
    BY <1>1, <1>2, LoadedType DEF AllAhead
  <1>3. CASE Reloads
    <2>1. Loaded = View /\ store = disk
      BY <1>3, LoadedType DEF Base, MemoryMatchesDisk, Kept, Alive, Reloads
    <2>2. (View[j] = actions[j].entry /\ actions[j].op = "put") \/ View[j] = Absent \/ View[j] = store[j]
      BY <2>1 DEF View
    <2> QED
      BY <1>1, <2>1, <2>2, AbsentAhead DEF AllAhead
  <1> QED
    BY <1>2, <1>3

\* A step that completes nothing, and leaves the timer asleep, needs only the
\* jobs it writes to be ahead.
LEMMA QuietStep ==
  ASSUME Base, Occurrences, UNCHANGED <<now, finished>>, timer' # "running",
         \A j \in Job : Ahead(store'[j], j),
         \A j \in Job : actions'[j].op = "put" => Ahead(actions'[j].entry, j)
  PROVE  Occurrences'
  BY DEF Occurrences, Past, AllAhead, TickDue, Ahead

\* A reload within a handler.
LEMMA ReloadOccurrences ==
  ASSUME Base, Kept, Occurrences, up, store' = Loaded, actions' = LoadedActions(TRUE),
         UNCHANGED <<now, finished, timer, due, current>>
  PROVE  Occurrences'
  <1>1. /\ \A j \in Job : Ahead(store'[j], j)
        /\ \A j \in Job : actions'[j].op = "put" => Ahead(actions'[j].entry, j)
    BY LoadedAhead DEF Occurrences
  <1>2. CASE timer # "running"
    BY <1>1, <1>2, QuietStep
  <1>3. CASE timer = "running"
    <2>1. store' = store
      BY <1>3, LoadedType DEF Reloads
    <2> QED
      BY <1>1, <2>1 DEF Occurrences, Past, AllAhead, TickDue, Ahead, IsDue
  <1> QED
    BY <1>2, <1>3

LEMMA EditsOccurrences ==
  ASSUME Base, Kept, Occurrences, NEW j \in Job, AddJob(j) \/ RemoveJob(j) \/ \E b \in BOOLEAN : EditJob(j, b)
  PROVE  Occurrences'
  <1>1. PICK e : /\ Sound(e) /\ Commit(j, e) /\ up
                 /\ e.enabled => e.next = 0 \/ e.next > now
    BY FreshType, EditedType, AbsentSound, BaseFacts DEF AddJob, RemoveJob, EditJob
  <1> DEFINE s == [Loaded EXCEPT ![j] = e]
  <1>2. /\ store' = s /\ actions' = LoadedActions(TRUE) /\ Arm(s) /\ UNCHANGED <<now, finished>>
    BY <1>1 DEF Commit, Save, Kept, Alive
  <1>3. s \in [Job -> Entry] /\ s[j] = e /\ \A i \in Job \ {j} : s[i] = Loaded[i]
    BY <1>1, LoadedType, Replaced
  <1> HIDE DEF s
  <1>4. timer' = "sleeping"
    BY <1>2, <1>3, ArmType
  <1>5. Ahead(e, j)
    BY <1>1, FutureAhead DEF Sound, Occurrences
  <1>6. \A i \in Job : Ahead(store'[i], i)
    BY <1>1, <1>2, <1>3, <1>5, LoadedAhead DEF Occurrences
  <1>7. \A i \in Job : actions'[i].op = "put" => Ahead(actions'[i].entry, i)
    BY <1>1, <1>2, LoadedAhead DEF Occurrences
  <1> QED
    BY <1>2, <1>4, <1>6, <1>7, QuietStep

LEMMA StartOccurrences ==
  ASSUME Base, Kept, Occurrences, Start
  PROVE  Occurrences'
  <1>1. /\ store' = Started /\ Arm(Started) /\ actions' = LoadedActions(TRUE) /\ UNCHANGED <<now, finished>>
    BY DEF Start, Started, history
  <1>2. Started \in [Job -> Entry] /\ \A j \in Job : Started[j].enabled => Started[j].next = 0 \/ Started[j].next > now
    BY StartedType
  <1>3. timer' = "sleeping"
    BY <1>1, <1>2, ArmType
  <1>4. \A j \in Job : Ahead(store'[j], j)
    BY <1>1, <1>2, FutureAhead DEF Occurrences
  <1>5. \A j \in Job : actions'[j].op = "put" => Ahead(actions'[j].entry, j)
    BY <1>1 DEF LoadedActions, NoAction, Occurrences, AllAhead
  <1> QED
    BY <1>1, <1>3, <1>4, <1>5, QuietStep

LEMMA ExitOccurrences ==
  ASSUME Base, Occurrences, Exit \/ CrashInMerge
  PROVE  Occurrences'
  <1>1. /\ store' = [j \in Job |-> Absent] /\ timer' = "none" /\ UNCHANGED <<now, finished>>
        /\ actions' = actions \/ actions' = LoadedActions(TRUE)
    BY DEF Exit, CrashInMerge, NoTimer, files, history
  <1>2. \A j \in Job : actions'[j] = actions[j] \/ actions'[j].op = "none"
    <2>1. \A j \in Job : LoadedActions(TRUE)[j] = actions[j] \/ LoadedActions(TRUE)[j].op = "none"
      BY DEF LoadedActions, NoAction
    <2> QED
      BY <1>1, <2>1
  <1> QED
    BY <1>1, <1>2, AbsentAhead, QuietStep DEF Occurrences, AllAhead

LEMMA OnTimerOccurrences ==
  ASSUME Base, Kept, Occurrences, OnTimer
  PROVE  Occurrences'
  <1>1. /\ Reloads /\ up /\ store' = View /\ actions' = LoadedActions(TRUE) /\ UNCHANGED <<now, finished>>
    BY DEF OnTimer, Reloads, Save, Kept, Alive, history
  <1>2. Loaded = View
    BY <1>1, LoadedType
  <1>3. /\ \A j \in Job : Ahead(store'[j], j)
        /\ \A j \in Job : actions'[j].op = "put" => Ahead(actions'[j].entry, j)
    BY <1>1, <1>2, LoadedAhead DEF Occurrences
  <1>4. CASE timer' = "running"
    <2>1. ~Arm(View)
      BY <1>4, ArmType, BaseFacts
    <2>2. \E j \in Job : /\ IsDue(View, j) /\ current' = [job |-> j, at |-> View[j].next]
                         /\ due' = {i \in Job \ {j} : IsDue(View, i)}
      BY <2>1, <1>4 DEF OnTimer, Kept, Alive
    <2>3. TickDue'
      BY <1>1, <2>2 DEF TickDue, IsDue
    <2> QED
      BY <1>1, <1>3, <2>3 DEF Occurrences, Past, AllAhead, Ahead
  <1>5. CASE timer' # "running"
    BY <1>1, <1>3, <1>5, QuietStep
  <1> QED
    BY <1>4, <1>5

LEMMA FinishJobOccurrences ==
  ASSUME Base, Kept, Occurrences, FinishJob
  PROVE  Occurrences'
  <1> DEFINE j == current.job
             e == Executed(j, store[j])
  <1>1. PICK s : /\ j \in Job /\ timer = "running" /\ store' = s /\ s \in [Job -> Entry]
                 /\ s[j] = e /\ \A i \in Job \ {j} : s[i] = store[i]
                 /\ finished' = [finished EXCEPT ![j] = @ \union {current.at}]
                 /\ \/ Arm(s)
                    \/ \E i \in due : current' = [job |-> i, at |-> s[i].next] /\ due' = due \ {i}
                 /\ UNCHANGED <<now, actions>>
    BY FinishJobStore
  <1>2. /\ j \notin due /\ IsDue(store, j) /\ current.at = store[j].next
        /\ \A i \in due : IsDue(store, i)
    BY <1>1 DEF Occurrences, TickDue
  <1>3. /\ Sound(store[j]) /\ store[j].next \in Nat /\ current.at <= now /\ store[j].known /\ now \in Nat
    BY <1>1, <1>2, BaseFacts, AbsentSound DEF SoundStore, Sound, Entry, IsDue
  <1>4. Sound(e) /\ (e.next = 0 \/ e.next > now) /\ e.next \in Nat
    BY <1>1, <1>3, ExecutedType DEF Sound, Entry
  <1> HIDE DEF e, j
  <1>5. /\ finished'[j] = finished[j] \union {current.at}
        /\ \A i \in Job \ {j} : finished'[i] = finished[i]
    BY <1>1, BaseFacts
  <1>6. Past'
    BY <1>1, <1>3, <1>5 DEF Occurrences, Past
  <1>7. ASSUME NEW i \in Job
        PROVE  /\ Ahead(store[i], i)'
               /\ (actions[i].op = "put" => Ahead(actions[i].entry, i))'
    <2>1. CASE i = j
      <3>1. current.at \in Nat /\ \A t \in finished[j] : t <= now /\ t \in Nat
        BY <1>1, <1>2, <1>3, BaseFacts DEF Occurrences, Past
      <3>2. \A t \in finished'[j] : t <= now /\ t \in Nat
        BY <1>3, <1>5, <3>1
      <3>3. e.next # 0 => e.next \notin finished'[j]
        BY <1>3, <1>4, <3>2
      <3>4. store'[i] = e /\ finished'[i] = finished'[j]
        BY <1>1, <2>1
      <3>5. Ahead(store[i], i)'
        BY <3>3, <3>4 DEF Ahead
      <3>6. actions[j].op # "put"
        BY <1>1, <1>3 DEF Kept, JobRecorded
      <3> QED
        BY <1>1, <2>1, <3>5, <3>6
    <2>2. CASE i # j
      <3>1. /\ store'[i] = store[i] /\ finished'[i] = finished[i] /\ actions'[i] = actions[i]
        BY <1>1, <1>5, <2>2
      <3> QED
        BY <3>1 DEF Occurrences, AllAhead, Ahead
    <2> QED
      BY <2>1, <2>2
  <1>8. TickDue'
    <2>1. CASE Arm(s)
      BY <1>1, <2>1, ArmType DEF TickDue
    <2>2. ASSUME NEW i \in due, current' = [job |-> i, at |-> s[i].next], due' = due \ {i}
          PROVE  TickDue'
      <3>1. \A k \in due : k \in Job /\ store'[k] = store[k]
        BY <1>1, <1>2, BaseFacts
      <3> QED
        BY <1>1, <1>2, <2>2, <3>1 DEF TickDue, IsDue
    <2> QED
      BY <1>1, <2>1, <2>2
  <1> QED
    BY <1>6, <1>7, <1>8 DEF Occurrences, AllAhead

LEMMA FinishRunOccurrences ==
  ASSUME Base, Kept, Occurrences, FinishRun
  PROVE  Occurrences'
  <1> DEFINE j == manual.job
             e == Executed(j, store[j])
  <1>1. PICK s : /\ j \in Job /\ s \in [Job -> Entry] /\ store' = s
                 /\ s[j] = store[j] \/ s[j] = e
                 /\ \A i \in Job \ {j} : s[i] = store[i]
                 /\ (manual.was => Arm(s))
    BY FinishRunStore DEF FinishRun
  <1>2. UNCHANGED <<now, actions, finished>> /\ manual.was = TRUE
    BY BaseFacts DEF FinishRun, Kept, Alive
  <1>3. timer' = "sleeping"
    BY <1>1, <1>2, ArmType
  <1>4. Sound(e) /\ (e.next = 0 \/ e.next > now)
    BY <1>1, ExecutedType, BaseFacts DEF SoundStore
  <1> HIDE DEF e, j
  <1>5. Ahead(e, j)
    BY <1>1, <1>4, FutureAhead DEF Sound, Occurrences
  <1>6. \A i \in Job : Ahead(store'[i], i)
    BY <1>1, <1>5 DEF Occurrences, AllAhead
  <1>7. \A i \in Job : actions'[i].op = "put" => Ahead(actions'[i].entry, i)
    BY <1>2 DEF Occurrences, AllAhead
  <1> QED
    BY <1>2, <1>3, <1>6, <1>7, QuietStep

LEMMA ExternalOccurrences ==
  ASSUME Base, Kept, Undisturbed, Occurrences, External
  PROVE  Occurrences'
  <1>1. ASSUME NEW j \in Job, ExternalAdd(j) \/ ExternalRemove(j)
        PROVE  Occurrences'
    <2>1. UNCHANGED <<now, finished, store, timer, due, current>>
      BY <1>1 DEF ExternalAdd, ExternalRemove, gateway
    <2>2. /\ actions'[j].op = "put" => Ahead(actions'[j].entry, j)
          /\ \A i \in Job \ {j} : actions'[i] = actions[i]
      <3>1. Ahead(Fresh(j), j)
        BY FreshType, FutureAhead, BaseFacts DEF Sound, Occurrences
      <3> QED
        BY <1>1, <3>1, BaseFacts DEF ExternalAdd, ExternalRemove
    <2> QED
      BY <2>1, <2>2 DEF Occurrences, Past, AllAhead, TickDue, Ahead, IsDue
  <1>2. ~ExternalWrite /\ \A j \in Job, b \in BOOLEAN : ~ExternalRead(j, b)
    BY DEF ExternalWrite, ExternalRead, Kept, Alive, Undisturbed
  <1> QED
    BY <1>1, <1>2 DEF External

LEMMA OccurrencesInit == Init => Occurrences
  BY AbsentSound, AbsentAhead DEF Init, Occurrences, Past, AllAhead, TickDue, NoAction

LEMMA OccurrencesNext == Undisturbed /\ Base /\ Kept /\ Occurrences /\ [Next]_vars => Occurrences'
  <1> SUFFICES ASSUME Undisturbed, Base, Kept, Occurrences, [Next]_vars PROVE Occurrences'
    OBVIOUS
  <1>1. CASE Gateway
    <2>1. ~Stop
      BY DEF Stop, Undisturbed
    <2>2. CASE Start \/ Exit \/ CrashInMerge \/ OnTimer \/ FinishJob \/ FinishRun
      BY <2>2, StartOccurrences, ExitOccurrences, OnTimerOccurrences, FinishJobOccurrences,
         FinishRunOccurrences
    <2>3. CASE ListJobs
      <3>1. /\ up /\ store' = Loaded /\ actions' = LoadedActions(TRUE)
            /\ UNCHANGED <<now, finished, timer, due, current>>
        BY <2>3, BaseFacts DEF ListJobs, history, Kept, Alive
      <3> QED
        BY <3>1, ReloadOccurrences
    <2>4. ASSUME NEW j \in Job, RunJob(j)
          PROVE  Occurrences'
      <3>1. /\ up /\ store' = Loaded /\ actions' = LoadedActions(TRUE)
            /\ UNCHANGED <<now, finished, timer, due, current>>
        BY <2>4 DEF RunJob, history
      <3> QED
        BY <3>1, ReloadOccurrences
    <2>5. ASSUME NEW j \in Job, AddJob(j) \/ RemoveJob(j) \/ \E b \in BOOLEAN : EditJob(j, b)
          PROVE  Occurrences'
      BY <2>5, EditsOccurrences
    <2> QED
      BY <1>1, <2>1, <2>2, <2>3, <2>4, <2>5 DEF Gateway
  <1>2. CASE Elapse
    <2>1. /\ now' = now + 1 /\ UNCHANGED <<store, actions, timer, due, current, finished>>
      BY <1>2 DEF Elapse, gateway, files, history
    <2>2. \A j \in Job : store[j].next \in Nat /\ \A t \in finished[j] : t \in Nat
      BY BaseFacts DEF Entry
    <2>3. Past'
      BY <2>1, <2>2, BaseFacts DEF Occurrences, Past
    <2>4. \A j \in Job : IsDue(store, j) => IsDue(store, j)'
      BY <2>1, <2>2, BaseFacts DEF IsDue
    <2>5. TickDue'
      BY <2>1, <2>4, BaseFacts DEF Occurrences, TickDue
    <2> QED
      BY <2>1, <2>3, <2>5 DEF Occurrences, AllAhead, Ahead
  <1>3. CASE UNCHANGED vars
    BY <1>3 DEF vars, gateway, files, history, Occurrences, Past, AllAhead, TickDue, Ahead, IsDue
  <1> QED
    BY <1>1, <1>2, <1>3, ExternalOccurrences DEF Next

\* As long as the gateway is undisturbed, an occurrence whose execution a timer
\* tick completed is not executed by a tick again: not by a reload between the
\* execution and the save, not after a crash that lost the result, and not when
\* the job is edited, run by hand or removed and merged while it executes.
THEOREM CompletesOnce ==
  ASSUME Undisturbed
  PROVE  Spec => OccurrenceCompletesOnce
  <1>1. Init => Base /\ Kept /\ Occurrences
    BY BaseInit, KeptInit, OccurrencesInit
  <1>2. Base /\ Kept /\ Occurrences /\ [Next]_vars => (Base /\ Kept /\ Occurrences)'
    BY BaseNext, KeptNext, OccurrencesNext
  <1>3. Base /\ Occurrences => \A j \in Job : FinishJob /\ current.job = j => current.at \notin finished[j]
    BY DEF Occurrences, TickDue, AllAhead, Ahead, IsDue, FinishJob
  <1> QED
    BY <1>1, <1>2, <1>3, PTL DEF Spec, OccurrenceCompletesOnce

----------------------------------------------------------------------------
(* Local triggers. *)

\* What the files of a delivery, the worker's memory and the count of turns
\* have to do with each other.  The count of a file is ahead of the turns, by
\* one turn at most for a claimed file whose delivery was submitted.
Counted(d) ==
  /\ d \notin sent => /\ inbox[d] = NoFile /\ processing[d] = NoFile
                      /\ failed[d] = NoFile /\ held[d] = NoFile /\ turns[d] = 0
  /\ inbox[d] # NoFile => inbox[d] < MaxAttempts /\ turns[d] <= inbox[d]
  /\ processing[d] # NoFile =>
       /\ processing[d] < MaxAttempts /\ turns[d] <= processing[d] + 1
       /\ worker \in {"off", "recovering"} \/ held[d] # NoFile
  /\ held[d] # NoFile =>
       /\ held[d] < MaxAttempts /\ turns[d] <= held[d] + 1
       /\ worker \in {"delivering", "awaiting"}
       /\ inbox[d] = NoFile
       /\ processing[d] = held[d] \/ (processing[d] = NoFile /\ trigger[Of[d]] = "deleted")
       /\ (worker = "awaiting" /\ Current(In(held), d)) \/ turns[d] <= held[d]
  /\ inbox[d] # NoFile /\ processing[d] # NoFile => processing[d] + 1 < MaxAttempts
  /\ failed[d] # NoFile /\ trigger[Of[d]] # "deleted" =>
       /\ inbox[d] = NoFile /\ held[d] = NoFile
       /\ processing[d] = NoFile \/ processing[d] + 1 >= MaxAttempts
  /\ turns[d] <= MaxAttempts

Inv == TriggerTypeOK /\ \A d \in Delivery : Counted(d)

LEMMA InvInit == TriggerInit => Inv
  BY TriggerAssumption DEF TriggerInit, Inv, TriggerTypeOK, Counted, NoFiles, File, Attempts, Statuses


\* Steps that leave the files of d, the worker and the history alone.
LEMMA FrameSound ==
  ASSUME Inv, NEW d \in Delivery,
         UNCHANGED <<directories, worker, held, turns, sent>>,
         trigger[Of[d]] = "deleted" => trigger'[Of[d]] = "deleted",
         trigger'[Of[d]] = "deleted" => trigger[Of[d]] = "deleted"
  PROVE  Counted(d)'
  BY DEF Inv, Counted, directories, In, Current

LEMMA InvCreate == ASSUME Inv, NEW t \in Trigger, Create(t) PROVE Inv'
  <1>1. TriggerTypeOK'
    BY DEF Inv, TriggerTypeOK, Create, directories
  <1>2. ASSUME NEW d \in Delivery PROVE Counted(d)'
    <2>1. Of[d] \in Trigger
      BY TriggerAssumption
    <2>2. trigger'[Of[d]] = "deleted" <=> trigger[Of[d]] = "deleted"
      BY <2>1 DEF Inv, TriggerTypeOK, Create
    <2> QED
      BY <2>2, FrameSound DEF Create
  <1> QED
    BY <1>1, <1>2 DEF Inv

LEMMA InvEnable == ASSUME Inv, NEW t \in Trigger, NEW s \in {"on", "off"}, Enable(t, s) PROVE Inv'
  <1>1. TriggerTypeOK'
    BY DEF Inv, TriggerTypeOK, Enable, directories
  <1>2. ASSUME NEW d \in Delivery PROVE Counted(d)'
    <2>1. Of[d] \in Trigger
      BY TriggerAssumption
    <2>2. trigger'[Of[d]] = "deleted" <=> trigger[Of[d]] = "deleted"
      BY <2>1 DEF Inv, TriggerTypeOK, Enable
    <2> QED
      BY <2>2, FrameSound DEF Enable
  <1> QED
    BY <1>1, <1>2 DEF Inv

LEMMA InvDelete == ASSUME Inv, NEW t \in Trigger, Delete(t) PROVE Inv'
  <1> DEFINE mine == {d \in Delivery : Of[d] = t}
  <1>1. PICK I, P, F \in SUBSET mine :
          /\ inbox' = Unlinked(inbox, I)
          /\ processing' = Unlinked(processing, P)
          /\ failed' = Unlinked(failed, F)
          /\ \/ I = mine /\ P = mine /\ F = mine /\ UNCHANGED <<worker, held, faults>>
             \/ (P # {} => I = mine) /\ (F # {} => P = mine) /\ Off /\ Fault
    BY DEF Delete
  <1>2. TriggerTypeOK'
    BY <1>1, TriggerAssumption DEF Inv, TriggerTypeOK, Delete, Unlinked, Off, Fault, NoFiles, File
  <1>3. ASSUME NEW d \in Delivery PROVE Counted(d)'
    <2>1. /\ Counted(d) /\ Of[d] \in Trigger
          /\ UNCHANGED <<turns, sent>> /\ trigger' = [trigger EXCEPT ![t] = "deleted"]
      BY TriggerAssumption DEF Inv, Delete
    <2>2. \/ UNCHANGED <<worker, held>>
          \/ worker' = "off" /\ held'[d] = NoFile
      BY <1>1 DEF Off, NoFiles
    <2>3. /\ inbox'[d] = IF d \in I THEN NoFile ELSE inbox[d]
          /\ processing'[d] = IF d \in P THEN NoFile ELSE processing[d]
          /\ failed'[d] = IF d \in F THEN NoFile ELSE failed[d]
      BY <1>1 DEF Unlinked
    <2>4. \/ d \in mine /\ trigger'[Of[d]] = "deleted"
          \/ d \notin mine /\ trigger'[Of[d]] = trigger[Of[d]]
      BY <2>1 DEF Inv, TriggerTypeOK
    <2>5. d \notin mine => d \notin I /\ d \notin P /\ d \notin F
      OBVIOUS
    <2>6. UNCHANGED held => (Current(In(held), d) <=> Current(In(held), d)')
      BY DEF Current, In
    <2>7. UNCHANGED <<worker, held>> => (d \in mine => d \in P)
      BY <1>1 DEF Delete, AtAwait, Off
    <2> HIDE DEF mine
    <2> QED
      BY <2>1, <2>2, <2>3, <2>4, <2>5, <2>6 DEF Counted
  <1> QED
    BY <1>2, <1>3 DEF Inv

LEMMA InvEnqueue == ASSUME Inv, NEW t \in Delivery, Enqueue(t) PROVE Inv'
  <1>1. TriggerTypeOK'
    BY TriggerAssumption DEF Inv, TriggerTypeOK, Enqueue, Recorded, Fault, File, Attempts, Statuses
  <1>2. ASSUME NEW d \in Delivery PROVE Counted(d)'
    <2>1. Counted(d) /\ Counted(t)
      BY DEF Inv
    <2>2. Of[d] \in Trigger /\ MaxAttempts \in Nat \ {0}
      BY TriggerAssumption
    <2>3. /\ UNCHANGED <<trigger, processing, failed, worker, held, turns>>
          /\ inbox'[d] = IF d = t THEN 0 ELSE inbox[d]
          /\ d \in sent' <=> d \in sent \/ d = t
          /\ t \notin sent /\ trigger[Of[t]] = "on"
      BY DEF Enqueue, Inv, TriggerTypeOK
    <2> QED
      BY <2>1, <2>2, <2>3 DEF Counted, In, Current
  <1> QED
    BY <1>1, <1>2 DEF Inv

----------------------------------------------------------------------------
(* The worker.                                                             *)

\* Start, Recovered, Sleep and BatchDone move the worker only.
LEMMA InvMove == ASSUME Inv, StartWorker \/ Recovered \/ Sleep \/ BatchDone PROVE Inv'
  <1>1. TriggerTypeOK'
    BY DEF Inv, TriggerTypeOK, StartWorker, Recovered, Sleep, BatchDone, directories
  <1>2. ASSUME NEW d \in Delivery PROVE Counted(d)'
    <2>1. Counted(d) /\ UNCHANGED <<trigger, inbox, processing, failed, held, turns, sent>>
      BY DEF Inv, StartWorker, Recovered, Sleep, BatchDone, directories
    <2>2. CASE StartWorker
      BY <2>1, <2>2 DEF StartWorker, Counted, In, Current
    <2>3. CASE Recovered
      <3>1. processing[d] = NoFile
        BY <2>3 DEF Recovered, AllRecovered, In
      <3> QED
        BY <2>1, <2>3, <3>1 DEF Recovered, Counted
    <2>4. CASE Sleep
      BY <2>1, <2>4 DEF Sleep, Counted
    <2>5. CASE BatchDone
      <3>1. held[d] = NoFile
        BY <2>5 DEF BatchDone, In
      <3> QED
        BY <2>1, <2>5, <3>1 DEF BatchDone, Counted
    <2> QED
      BY <2>2, <2>3, <2>4, <2>5
  <1> QED
    BY <1>1, <1>2 DEF Inv

LEMMA RewriteType ==
  ASSUME TriggerTypeOK, NEW d \in Delivery, NEW a \in Attempts, Rewrite(d, a)
  PROVE  inbox' \in [Delivery -> File] /\ failed' \in [Delivery -> File]
  BY TriggerAssumption DEF TriggerTypeOK, Rewrite, File, Attempts

LEMMA RewriteEffect ==
  ASSUME TriggerTypeOK, NEW d \in Delivery, NEW a \in Attempts, Rewrite(d, a)
  PROVE  /\ \A e \in Delivery \ {d} : inbox'[e] = inbox[e] /\ failed'[e] = failed[e]
         /\ \/ a + 1 >= MaxAttempts /\ failed'[d] = MaxAttempts /\ inbox'[d] = inbox[d]
            \/ a + 1 < MaxAttempts /\ failed'[d] = failed[d] /\ inbox'[d] = a + 1
  BY TriggerAssumption DEF TriggerTypeOK, Rewrite, File, Attempts

LEMMA InvRecover == ASSUME Inv, NEW c \in Delivery, Recover(c) PROVE Inv'
  <1> DEFINE a == processing[c]
  <1>1. /\ a \in Attempts /\ a # NoFile /\ a < MaxAttempts /\ MaxAttempts \in Nat \ {0}
        /\ Rewrite(c, a) /\ worker = "recovering"
        /\ UNCHANGED <<trigger, last, record, turns, sent>>
    BY TriggerAssumption DEF Inv, TriggerTypeOK, Counted, Recover, Current, In, File
  <1>2. \/ processing' = [processing EXCEPT ![c] = NoFile] /\ UNCHANGED <<worker, held, faults>>
        \/ Off /\ Fault /\ UNCHANGED processing
    BY DEF Recover
  <1>3. TriggerTypeOK'
    BY <1>1, <1>2, RewriteType, TriggerAssumption
    DEF Inv, TriggerTypeOK, Off, Fault, NoFiles, File
  <1>4. ASSUME NEW d \in Delivery PROVE Counted(d)'
    <2>1. Counted(d) /\ Counted(c) /\ NoFile \notin Nat
      BY TriggerAssumption DEF Inv
    <2>2. held[d] = NoFile /\ held'[d] = NoFile /\ worker' \in {"off", "recovering"}
      BY <1>1, <1>2, <2>1 DEF Counted, Off, NoFiles
    <2>3. /\ turns[d] \in Nat /\ inbox[d] \in File /\ processing[d] \in File
          /\ processing'[d] = processing[d] \/ (processing'[d] = NoFile /\ d = c)
      BY <1>2 DEF Inv, TriggerTypeOK
    <2>4. CASE d # c
      <3>1. inbox'[d] = inbox[d] /\ failed'[d] = failed[d]
        BY <1>1, <2>4, RewriteEffect DEF Inv
      <3> QED
        BY <1>1, <2>1, <2>2, <2>3, <2>4, <3>1 DEF Counted
    <2>5. CASE d = c
      <3>1. \/ a + 1 >= MaxAttempts /\ inbox'[d] = inbox[d]
            \/ a + 1 < MaxAttempts /\ inbox'[d] = a + 1 /\ failed'[d] = failed[d]
        BY <1>1, <2>5, RewriteEffect DEF Inv
      <3> QED
        BY <1>1, <2>1, <2>2, <2>3, <2>5, <3>1 DEF Counted, File, Attempts
    <2> QED
      BY <2>4, <2>5
  <1> QED
    BY <1>3, <1>4 DEF Inv

LEMMA InvClaim == ASSUME Inv, Claim PROVE Inv'
  <1>1. PICK n \in 1..BatchSize : LET D == First(In(inbox), n) IN
       /\ inbox' = Unlinked(inbox, D)
       /\ processing' = [d \in Delivery |-> IF d \in D THEN inbox[d] ELSE processing[d]]
       /\ \/ /\ n = BatchSize
             /\ held' = [d \in Delivery |-> IF d \in D THEN inbox[d] ELSE NoFile]
             /\ worker' = "delivering"
             /\ UNCHANGED faults
          \/ Off /\ Fault
    BY DEF Claim
  <1> DEFINE D == First(In(inbox), n)
  <1>2. D \subseteq Delivery /\ \A d \in D : inbox[d] # NoFile
    BY DEF First, In
  <1>3. worker \in {"polling", "asleep"} /\ UNCHANGED <<trigger, last, failed, record, turns, sent>>
    BY DEF Claim
  <1>4. TriggerTypeOK'
    <2>1. TriggerTypeOK /\ NoFile \in File
      BY DEF Inv, File
    <2>2. inbox' \in [Delivery -> File] /\ processing' \in [Delivery -> File]
      BY <1>1, <2>1 DEF TriggerTypeOK, Unlinked
    <2>3. held' \in [Delivery -> File] /\ faults' \in 0..MaxFaults
      BY <1>1, <2>1, TriggerAssumption DEF TriggerTypeOK, Off, Fault, NoFiles
    <2>4. worker' \in {"delivering", "off"}
      BY <1>1 DEF Off
    <2> QED
      BY <1>3, <2>1, <2>2, <2>3, <2>4 DEF TriggerTypeOK
  <1>5. ASSUME NEW d \in Delivery PROVE Counted(d)'
    <2>1. Counted(d) /\ NoFile \notin Nat /\ turns[d] \in Nat /\ MaxAttempts \in Nat
      BY TriggerAssumption DEF Inv, TriggerTypeOK
    <2>2. held[d] = NoFile /\ processing[d] = NoFile
      BY <1>3, <2>1 DEF Counted
    <2>3. \/ d \in D /\ inbox'[d] = NoFile /\ processing'[d] = inbox[d]
          \/ d \notin D /\ inbox'[d] = inbox[d] /\ processing'[d] = NoFile
      BY <1>1, <2>2 DEF Unlinked
    <2>4. \/ worker' = "off" /\ held'[d] = NoFile
          \/ worker' = "delivering" /\ held'[d] = processing'[d]
      BY <1>1, <2>2, <2>3 DEF Off, NoFiles
    <2>5. d \in D => inbox[d] # NoFile /\ inbox[d] \in Attempts
      BY <1>2 DEF Inv, TriggerTypeOK, File
    <2> HIDE DEF D
    <2> QED
      BY <1>3, <2>1, <2>2, <2>3, <2>4, <2>5 DEF Counted, Attempts
  <1> QED
    BY <1>4, <1>5 DEF Inv

LEMMA InvSubmit == ASSUME Inv, NEW c \in Delivery, Submit(c) PROVE Inv'
  <1>1. TriggerTypeOK'
    BY DEF Inv, TriggerTypeOK, Submit, Recorded, directories, Statuses
  <1>2. ASSUME NEW d \in Delivery PROVE Counted(d)'
    <2>1. /\ Counted(d) /\ Counted(c) /\ turns[d] \in Nat /\ held[d] \in File /\ Delivery \subseteq Nat
          /\ MaxAttempts \in Nat
      BY TriggerAssumption DEF Inv, TriggerTypeOK
    <2>2. /\ UNCHANGED <<trigger, inbox, processing, failed, held, sent>>
          /\ worker = "delivering" /\ worker' = "awaiting" /\ c \in In(held)
          /\ turns'[d] = IF d = c THEN turns[d] + 1 ELSE turns[d]
          /\ Current(In(held), c)
      BY DEF Inv, TriggerTypeOK, Submit, directories, Current
    <2>3. held[d] # NoFile => turns[d] <= held[d] /\ held[d] \in Attempts
      BY <2>1, <2>2 DEF Counted, File
    <2>4. Current(In(held), c)'
      BY <2>2 DEF Current, In
    <2>5. held[c] # NoFile /\ c \in sent
      BY <2>1, <2>2 DEF In, Counted
    <2> QED
      BY <2>1, <2>2, <2>3, <2>4, <2>5 DEF Counted, Attempts
  <1> QED
    BY <1>1, <1>2 DEF Inv

\* The delivery the worker is busy with, and the others it holds.
LEMMA CurrentUnique ==
  ASSUME NEW S \in SUBSET Delivery, NEW c \in Delivery, NEW d \in Delivery,
         Current(S, c), Current(S, d)
  PROVE  c = d
  BY TriggerAssumption DEF Current

\* Steps that end the work on c.  They leave the others alone, or go off.
LEMMA ReleaseSound ==
  ASSUME Inv, NEW c \in Delivery, NEW d \in Delivery, d # c,
         Current(In(held), c), worker \in {"delivering", "awaiting"},
         UNCHANGED <<trigger, turns, sent>>,
         inbox'[d] = inbox[d], failed'[d] = failed[d], processing'[d] = processing[d],
         \/ worker' = "delivering" /\ held'[d] = held[d]
         \/ worker' = "off" /\ held'[d] = NoFile
  PROVE  Counted(d)'
  <1>1. Counted(d) /\ turns[d] \in Nat /\ held[d] \in File
    BY DEF Inv, TriggerTypeOK
  <1>2. ~Current(In(held), d)
    BY CurrentUnique DEF In
  <1> QED
    BY <1>1, <1>2 DEF Counted

LEMMA CompleteStep ==
  ASSUME Inv, NEW c \in Delivery, NEW s \in {"ok", "error"}, Complete(c, s),
         Current(In(held), c), worker \in {"delivering", "awaiting"}
  PROVE  Inv'
  <1>1. /\ UNCHANGED <<trigger, inbox, failed, turns, sent>>
        /\ \/ /\ processing' = [processing EXCEPT ![c] = NoFile]
              /\ held' = [held EXCEPT ![c] = NoFile]
              /\ worker' = "delivering"
              /\ UNCHANGED faults
           \/ Off /\ Fault /\ UNCHANGED processing
    BY DEF Complete
  <1>2. TriggerTypeOK'
    <2>1. last' \in [Trigger -> {"none", "ok", "error"}] /\ record' \in [Delivery -> Statuses]
      BY TriggerAssumption DEF Complete, Noted, Recorded, Inv, TriggerTypeOK, Statuses
    <2>2. /\ processing' \in [Delivery -> File] /\ held' \in [Delivery -> File]
          /\ worker' \in {"delivering", "off"} /\ faults' \in 0..MaxFaults
      BY <1>1, TriggerAssumption DEF Inv, TriggerTypeOK, Off, Fault, NoFiles, File
    <2> QED
      BY <1>1, <2>1, <2>2 DEF Inv, TriggerTypeOK
  <1>3. ASSUME NEW d \in Delivery PROVE Counted(d)'
    <2>1. CASE d # c
      BY <1>1, <2>1, ReleaseSound DEF Inv, TriggerTypeOK, Off, NoFiles
    <2>2. CASE d = c
      <3>1. Counted(d) /\ held[d] # NoFile
        BY <2>2 DEF Inv, Current, In
      <3>2. /\ held'[d] = NoFile
            /\ \/ worker' = "delivering" /\ processing'[d] = NoFile
               \/ worker' = "off" /\ processing'[d] = processing[d]
        BY <1>1, <2>2 DEF Inv, TriggerTypeOK, Off, NoFiles
      <3> QED
        BY <1>1, <3>1, <3>2 DEF Counted
    <2> QED
      BY <2>1, <2>2
  <1> QED
    BY <1>2, <1>3 DEF Inv

\* Drop and TurnEnds both end in a completion.
LEMMA InvComplete ==
  ASSUME Inv, NEW c \in Delivery, Drop(c) \/ TurnEnds(c) PROVE Inv'
  BY CompleteStep DEF Drop, TurnEnds

----------------------------------------------------------------------------
(* Faults.                                                                 *)

\* StorageFails and Cancelled both retry the current delivery.
LEMMA RetryStep ==
  ASSUME Inv, NEW c \in Delivery, Rewrite(c, held[c]),
         Current(In(held), c), worker \in {"delivering", "awaiting"},
         processing' = [processing EXCEPT ![c] = NoFile],
         record' \in [Delivery -> Statuses],
         last' \in [Trigger -> {"none", "ok", "error"}],
         UNCHANGED <<trigger, turns, sent>>, Fault,
         \/ worker' = "delivering" /\ held' = [held EXCEPT ![c] = NoFile]
         \/ Off
  PROVE  Inv'
  <1>1. /\ held[c] \in Attempts /\ held[c] < MaxAttempts /\ turns[c] <= held[c] + 1
        /\ inbox[c] = NoFile /\ c \in sent
    <2>1. Counted(c) /\ held[c] # NoFile /\ held[c] \in File
      BY DEF Inv, TriggerTypeOK, Current, In
    <2> QED
      BY <2>1 DEF Counted, File
  <1>2. TriggerTypeOK'
    <2>1. inbox' \in [Delivery -> File] /\ failed' \in [Delivery -> File]
      BY <1>1, RewriteType DEF Inv
    <2>2. /\ processing' \in [Delivery -> File] /\ held' \in [Delivery -> File]
          /\ worker' \in {"delivering", "off"} /\ faults' \in 0..MaxFaults
      BY TriggerAssumption DEF Inv, TriggerTypeOK, Off, Fault, NoFiles, File
    <2> QED
      BY <2>1, <2>2 DEF Inv, TriggerTypeOK
  <1>3. ASSUME NEW d \in Delivery PROVE Counted(d)'
    <2>1. CASE d # c
      <3>1. inbox'[d] = inbox[d] /\ failed'[d] = failed[d] /\ processing'[d] = processing[d]
        BY <1>1, <2>1, RewriteEffect DEF Inv, TriggerTypeOK
      <3>2. \/ worker' = "delivering" /\ held'[d] = held[d]
            \/ worker' = "off" /\ held'[d] = NoFile
        BY <2>1 DEF Inv, TriggerTypeOK, Off, NoFiles
      <3> QED
        BY <2>1, <3>1, <3>2, ReleaseSound
    <2>2. CASE d = c
      <3>1. /\ Counted(d) /\ turns[d] \in Nat /\ MaxAttempts \in Nat /\ NoFile \notin Nat
        BY TriggerAssumption DEF Inv, TriggerTypeOK
      <3>2. \/ held[c] + 1 >= MaxAttempts /\ inbox'[c] = NoFile
            \/ held[c] + 1 < MaxAttempts /\ inbox'[c] = held[c] + 1 /\ failed'[c] = failed[c]
        BY <1>1, RewriteEffect DEF Inv
      <3>3. held'[c] = NoFile /\ processing'[c] = NoFile
        BY DEF Inv, TriggerTypeOK, Off, NoFiles
      <3>4. failed[c] # NoFile => trigger[Of[c]] = "deleted"
        <4>1. held[c] # NoFile
          BY DEF Current, In
        <4> QED
          BY <2>2, <3>1, <4>1 DEF Counted
      <3> QED
        BY <1>1, <2>2, <3>1, <3>2, <3>3, <3>4 DEF Counted, Attempts
    <2> QED
      BY <2>1, <2>2
  <1> QED
    BY <1>2, <1>3 DEF Inv

LEMMA InvStorageFails == ASSUME Inv, NEW c \in Delivery, StorageFails(c) PROVE Inv'
  <1>1. last' \in [Trigger -> {"none", "ok", "error"}] /\ record' \in [Delivery -> Statuses]
    BY TriggerAssumption DEF StorageFails, Noted, Recorded, Inv, TriggerTypeOK, Statuses
  <1> QED
    BY <1>1, RetryStep DEF StorageFails

LEMMA InvCancelled == ASSUME Inv, NEW c \in Delivery, Cancelled(c) PROVE Inv'
  <1>1. last' \in [Trigger -> {"none", "ok", "error"}] /\ record' \in [Delivery -> Statuses]
    BY DEF Cancelled, Recorded, Inv, TriggerTypeOK, Statuses
  <1> QED
    BY <1>1, RetryStep DEF Cancelled

LEMMA InvCrash == ASSUME Inv, Crash PROVE Inv'
  <1>1. TriggerTypeOK'
    BY TriggerAssumption DEF Inv, TriggerTypeOK, Crash, Off, Fault, NoFiles, File, directories
  <1>2. ASSUME NEW d \in Delivery PROVE Counted(d)'
    <2>1. /\ Counted(d) /\ worker' = "off" /\ held'[d] = NoFile
          /\ UNCHANGED <<trigger, inbox, processing, failed, turns, sent>>
      BY DEF Inv, Crash, Off, NoFiles, directories
    <2> QED
      BY <2>1 DEF Counted
  <1> QED
    BY <1>1, <1>2 DEF Inv

LEMMA InvStutter == ASSUME Inv, UNCHANGED triggerVars PROVE Inv'
  <1>1. TriggerTypeOK'
    BY DEF Inv, TriggerTypeOK, triggerVars, directories
  <1>2. ASSUME NEW d \in Delivery PROVE Counted(d)'
    BY FrameSound DEF triggerVars
  <1> QED
    BY <1>1, <1>2 DEF Inv

LEMMA InvNext == Inv /\ [TriggerNext]_triggerVars => Inv'
  <1> SUFFICES ASSUME Inv, [TriggerNext]_triggerVars PROVE Inv'
    OBVIOUS
  <1>1. CASE Users
    BY <1>1, InvCreate, InvDelete, InvEnable, InvEnqueue DEF Users
  <1>2. CASE Worker
    BY <1>2, InvMove, InvClaim, InvRecover, InvSubmit, InvComplete DEF Worker
  <1>3. CASE Faults
    BY <1>3, InvCrash, InvStorageFails, InvCancelled DEF Faults
  <1> QED
    BY <1>1, <1>2, <1>3, InvStutter DEF TriggerNext

\* The inductive invariant holds in every reachable state.
THEOREM Invariance == TriggerSpec => []Inv
  BY InvInit, InvNext, PTL DEF TriggerSpec

\* Every variable of the trigger queue keeps its type.
THEOREM TypeCorrect == TriggerSpec => []TriggerTypeOK
  <1>1. Inv => TriggerTypeOK
    BY DEF Inv
  <1> QED
    BY <1>1, Invariance, PTL

\* However often the gateway is killed and restarted, a delivery is submitted to
\* the agent at most MaxAttempts times.
THEOREM AttemptsBounded == TriggerSpec => []TurnsBounded
  <1>1. Inv => TurnsBounded
    BY DEF Inv, Counted, TurnsBounded
  <1> QED
    BY <1>1, Invariance, PTL

\* A serving worker holds exactly the files in processing that are not deleted,
\* and none that also waits in the inbox.
THEOREM NothingHandledTwice == TriggerSpec => []OneCopy
  <1>1. Inv => OneCopy
    BY DEF Inv, TriggerTypeOK, Counted, OneCopy, In
  <1> QED
    BY <1>1, Invariance, PTL

----------------------------------------------------------------------------
(* The files implement the queue.                                          *)

\* Nothing changes in the queue if no delivery changes its status and outcome.
LEMMA QueueStutter ==
  ASSUME UNCHANGED turns,
         \A d \in Delivery : StatusOf(d)' = StatusOf(d) /\ OutcomeOf(d)' = OutcomeOf(d)
  PROVE  UNCHANGED Queue!vars
  BY DEF Queue!vars

\* A delivery whose files, trigger and record stay keeps its status and outcome.
LEMMA SameFiles ==
  ASSUME NEW d \in Delivery,
         trigger'[Of[d]] = "deleted" <=> trigger[Of[d]] = "deleted",
         d \in sent' <=> d \in sent,
         Waiting(d)' <=> Waiting(d),
         failed'[d] = failed[d] \/ Waiting(d),
         record'[d] = record[d] \/ StatusOf(d) # "settled"
  PROVE  StatusOf(d)' = StatusOf(d) /\ OutcomeOf(d)' = OutcomeOf(d)
  BY DEF StatusOf, OutcomeOf

\* One delivery takes a step of the queue.
LEMMA QueueStep ==
  ASSUME NEW c \in Delivery, UNCHANGED turns,
         \A d \in Delivery \ {c} : StatusOf(d)' = StatusOf(d) /\ OutcomeOf(d)' = OutcomeOf(d),
         \/ StatusOf(c) = "unsent" /\ StatusOf(c)' = "queued" /\ OutcomeOf(c)' = OutcomeOf(c)
         \/ StatusOf(c) = "queued" /\ StatusOf(c)' = "failed" /\ OutcomeOf(c)' = OutcomeOf(c)
         \/ StatusOf(c) = "queued" /\ StatusOf(c)' = "settled" /\ OutcomeOf(c)' \in {"ok", "error"}
         \/ StatusOf(c)' = StatusOf(c) /\ OutcomeOf(c)' = OutcomeOf(c)
  PROVE  [Queue!Next]_(Queue!vars)
  <1> DEFINE st == [d \in Delivery |-> StatusOf(d)]
             oc == [d \in Delivery |-> OutcomeOf(d)]
  <1>1. st' = [st EXCEPT ![c] = StatusOf(c)'] /\ oc' = [oc EXCEPT ![c] = OutcomeOf(c)']
    OBVIOUS
  <1>2. CASE StatusOf(c) = "unsent" /\ StatusOf(c)' = "queued" /\ OutcomeOf(c)' = OutcomeOf(c)
    BY <1>1, <1>2 DEF Queue!Next, Queue!Enqueue
  <1>3. CASE StatusOf(c) = "queued" /\ StatusOf(c)' = "failed" /\ OutcomeOf(c)' = OutcomeOf(c)
    BY <1>1, <1>3 DEF Queue!Next, Queue!GiveUp
  <1>4. CASE StatusOf(c) = "queued" /\ StatusOf(c)' = "settled" /\ OutcomeOf(c)' \in {"ok", "error"}
    BY <1>1, <1>4 DEF Queue!Next, Queue!Settle
  <1>5. CASE StatusOf(c)' = StatusOf(c) /\ OutcomeOf(c)' = OutcomeOf(c)
    BY <1>5, QueueStutter
  <1> QED
    BY <1>2, <1>3, <1>4, <1>5

LEMMA RefInit == TriggerInit => Queue!Init
  <1> SUFFICES ASSUME TriggerInit PROVE Queue!Init
    OBVIOUS
  <1>1. \A d \in Delivery : StatusOf(d) = "unsent" /\ OutcomeOf(d) = "none"
    BY TriggerAssumption DEF TriggerInit, StatusOf, OutcomeOf
  <1> QED
    BY <1>1 DEF Queue!Init, TriggerInit

\* Steps of the worker and of triggers that no delivery shows.
LEMMA RefSilent ==
  ASSUME Inv,
         \/ \E t \in Trigger : Create(t) \/ \E s \in {"on", "off"} : Enable(t, s)
         \/ StartWorker \/ Recovered \/ Sleep \/ BatchDone \/ Crash \/ UNCHANGED triggerVars
  PROVE  UNCHANGED Queue!vars
  <1>1. UNCHANGED <<inbox, processing, failed, record, turns, sent>>
    BY DEF Create, Enable, StartWorker, Recovered, Sleep, BatchDone, Crash, triggerVars, directories
  <1>2. ASSUME NEW d \in Delivery PROVE trigger'[Of[d]] = "deleted" <=> trigger[Of[d]] = "deleted"
    <2>1. Of[d] \in Trigger /\ trigger \in [Trigger -> {"none", "on", "off", "deleted"}]
      BY TriggerAssumption DEF Inv, TriggerTypeOK
    <2>2. CASE \E t \in Trigger : Create(t)
      BY <2>1, <2>2 DEF Create
    <2>3. CASE \E t \in Trigger : \E s \in {"on", "off"} : Enable(t, s)
      BY <2>1, <2>3 DEF Enable
    <2>4. CASE StartWorker \/ Recovered \/ Sleep \/ BatchDone \/ Crash \/ UNCHANGED triggerVars
      BY <2>4 DEF StartWorker, Recovered, Sleep, BatchDone, Crash, triggerVars
    <2> QED
      BY <2>2, <2>3, <2>4
  <1>3. ASSUME NEW d \in Delivery
        PROVE  StatusOf(d)' = StatusOf(d) /\ OutcomeOf(d)' = OutcomeOf(d)
    BY <1>1, <1>2, SameFiles DEF Waiting
  <1> QED
    BY <1>1, <1>3, QueueStutter

LEMMA RefClaim == ASSUME Inv, Claim PROVE UNCHANGED Queue!vars
  <1>1. UNCHANGED <<trigger, failed, record, turns, sent>>
    BY DEF Claim
  <1>2. ASSUME NEW d \in Delivery PROVE Waiting(d)' <=> Waiting(d)
    <2>1. PICK D \in SUBSET Delivery :
            /\ \A e \in D : inbox[e] # NoFile
            /\ inbox' = Unlinked(inbox, D)
            /\ processing' = [e \in Delivery |-> IF e \in D THEN inbox[e] ELSE processing[e]]
      BY DEF Claim, First, In
    <2> QED
      BY <2>1 DEF Waiting, Unlinked
  <1>3. ASSUME NEW d \in Delivery
        PROVE  StatusOf(d)' = StatusOf(d) /\ OutcomeOf(d)' = OutcomeOf(d)
    BY <1>1, <1>2, SameFiles
  <1> QED
    BY <1>1, <1>3, QueueStutter

LEMMA RefDelete == ASSUME Inv, NEW t \in Trigger, Delete(t) PROVE Queue!Next
  <1> DEFINE mine == {d \in Delivery : Of[d] = t}
  <1>1. /\ trigger' = [trigger EXCEPT ![t] = "deleted"]
        /\ UNCHANGED <<record, turns, sent>>
        /\ \A d \in Delivery \ mine : inbox'[d] = inbox[d] /\ processing'[d] = processing[d]
                                      /\ failed'[d] = failed[d]
    BY DEF Delete, Unlinked
  <1>2. ASSUME NEW d \in mine PROVE StatusOf(d)' = "withdrawn" /\ OutcomeOf(d)' = "none"
    BY <1>1 DEF Inv, TriggerTypeOK, StatusOf, OutcomeOf
  <1>3. ASSUME NEW d \in Delivery \ mine
        PROVE  StatusOf(d)' = StatusOf(d) /\ OutcomeOf(d)' = OutcomeOf(d)
    <2>1. trigger'[Of[d]] = trigger[Of[d]]
      BY <1>1, TriggerAssumption DEF Inv, TriggerTypeOK
    <2> QED
      BY <1>1, <2>1, SameFiles DEF Waiting
  <1> HIDE DEF mine
  <1>4. mine \in SUBSET Delivery
    BY DEF mine
  <1>5. Queue!Withdraw(mine)
    BY <1>1, <1>2, <1>3, <1>4 DEF Queue!Withdraw
  <1> QED
    BY <1>4, <1>5 DEF Queue!Next

LEMMA RefEnqueue == ASSUME Inv, NEW c \in Delivery, Enqueue(c) PROVE [Queue!Next]_(Queue!vars)
  <1>1. /\ UNCHANGED <<trigger, processing, failed, turns>>
        /\ c \notin sent /\ sent' = sent \union {c} /\ trigger[Of[c]] = "on"
        /\ inbox'[c] = 0 /\ 0 # NoFile
        /\ \A d \in Delivery \ {c} : inbox'[d] = inbox[d] /\ record'[d] = record[d]
    BY TriggerAssumption DEF Enqueue, Recorded, Inv, TriggerTypeOK
  <1>2. ASSUME NEW d \in Delivery \ {c}
        PROVE  StatusOf(d)' = StatusOf(d) /\ OutcomeOf(d)' = OutcomeOf(d)
    BY <1>1, SameFiles DEF Waiting
  <1>3. StatusOf(c) = "unsent" /\ StatusOf(c)' = "queued" /\ OutcomeOf(c)' = OutcomeOf(c)
    BY <1>1 DEF StatusOf, OutcomeOf, Waiting
  <1> QED
    BY <1>1, <1>2, <1>3, QueueStep

LEMMA RefRecover == ASSUME Inv, NEW c \in Delivery, Recover(c) PROVE [Queue!Next]_(Queue!vars)
  <1>1. /\ processing[c] \in Attempts /\ processing[c] # NoFile /\ c \in sent
        /\ Rewrite(c, processing[c]) /\ NoFile \notin Nat /\ MaxAttempts \in Nat
        /\ inbox[c] = NoFile \/ processing[c] + 1 < MaxAttempts
    BY TriggerAssumption DEF Inv, TriggerTypeOK, Counted, Recover, Current, In, File
  <1>2. /\ UNCHANGED <<trigger, record, turns, sent>>
        /\ \/ processing'[c] = NoFile
           \/ processing'[c] = processing[c]
        /\ \A d \in Delivery \ {c} : processing'[d] = processing[d]
    BY DEF Recover, Inv, TriggerTypeOK
  <1>3. ASSUME NEW d \in Delivery \ {c}
        PROVE  StatusOf(d)' = StatusOf(d) /\ OutcomeOf(d)' = OutcomeOf(d)
    BY <1>1, <1>2, SameFiles, RewriteEffect DEF Inv, Waiting
  <1>4. \/ processing[c] + 1 >= MaxAttempts /\ failed'[c] # NoFile /\ inbox'[c] = NoFile
        \/ inbox'[c] # NoFile
    BY <1>1, RewriteEffect DEF Inv, Attempts
  <1>5. \/ StatusOf(c) = "queued" /\ StatusOf(c)' = "failed" /\ OutcomeOf(c)' = OutcomeOf(c)
        \/ StatusOf(c)' = StatusOf(c) /\ OutcomeOf(c)' = OutcomeOf(c)
    BY <1>1, <1>2, <1>4 DEF StatusOf, OutcomeOf, Waiting
  <1> QED
    BY <1>2, <1>3, <1>5, QueueStep

LEMMA RefSubmit == ASSUME Inv, NEW c \in Delivery, Submit(c) PROVE Queue!Next
  <1>1. /\ held[c] # NoFile /\ held[c] \in Attempts /\ turns[c] \in Nat /\ MaxAttempts \in Nat
        /\ c \in sent /\ processing[c] # NoFile /\ turns[c] <= held[c] /\ held[c] < MaxAttempts
    BY TriggerAssumption DEF Inv, TriggerTypeOK, Counted, Submit, Current, In, File
  <1>2. /\ UNCHANGED <<trigger, inbox, processing, failed, sent>>
        /\ trigger[Of[c]] = "on" /\ turns' = [turns EXCEPT ![c] = @ + 1]
        /\ \A d \in Delivery \ {c} : record'[d] = record[d]
    BY DEF Submit, Recorded, directories, Inv, TriggerTypeOK
  <1>3. StatusOf(c) = "queued" /\ turns[c] < MaxAttempts
    BY <1>1, <1>2 DEF StatusOf, Waiting, Attempts
  <1>4. ASSUME NEW d \in Delivery
        PROVE  StatusOf(d)' = StatusOf(d) /\ OutcomeOf(d)' = OutcomeOf(d)
    BY <1>2, <1>3, SameFiles DEF Waiting
  <1>5. Queue!Attempt(c)
    BY <1>2, <1>3, <1>4 DEF Queue!Attempt
  <1> QED
    BY <1>5 DEF Queue!Next

LEMMA RefComplete ==
  ASSUME Inv, NEW c \in Delivery, Drop(c) \/ TurnEnds(c) PROVE [Queue!Next]_(Queue!vars)
  <1>1. PICK s \in {"ok", "error"} : Complete(c, s)
    BY DEF Drop, TurnEnds
  <1>2. /\ held[c] # NoFile /\ inbox[c] = NoFile /\ c \in sent
        /\ trigger[Of[c]] # "deleted" => processing[c] # NoFile /\ failed[c] = NoFile
    BY TriggerAssumption DEF Inv, TriggerTypeOK, Counted, Drop, TurnEnds, Current, In
  <1>3. /\ UNCHANGED <<trigger, inbox, failed, turns, sent>>
        /\ processing'[c] \in {NoFile, processing[c]} /\ record'[c] = s
        /\ \A d \in Delivery \ {c} : processing'[d] = processing[d] /\ record'[d] = record[d]
    BY <1>1 DEF Complete, Recorded, Inv, TriggerTypeOK
  <1>4. ASSUME NEW d \in Delivery \ {c}
        PROVE  StatusOf(d)' = StatusOf(d) /\ OutcomeOf(d)' = OutcomeOf(d)
    BY <1>3, SameFiles DEF Waiting
  <1>5. \/ StatusOf(c) = "queued" /\ StatusOf(c)' = "settled" /\ OutcomeOf(c)' \in {"ok", "error"}
        \/ StatusOf(c)' = StatusOf(c) /\ OutcomeOf(c)' = OutcomeOf(c)
    BY <1>2, <1>3 DEF StatusOf, OutcomeOf, Waiting
  <1> QED
    BY <1>3, <1>4, <1>5, QueueStep

LEMMA RefRetry ==
  ASSUME Inv, NEW c \in Delivery, StorageFails(c) \/ Cancelled(c)
  PROVE  [Queue!Next]_(Queue!vars)
  <1>1. /\ held[c] # NoFile /\ held[c] \in Attempts /\ inbox[c] = NoFile /\ c \in sent
        /\ Rewrite(c, held[c]) /\ NoFile \notin Nat /\ MaxAttempts \in Nat
        /\ trigger[Of[c]] # "deleted" => processing[c] # NoFile
    BY TriggerAssumption DEF Inv, TriggerTypeOK, Counted, StorageFails, Cancelled, Current, In, File
  <1>2. /\ UNCHANGED <<trigger, turns, sent>>
        /\ processing'[c] = NoFile
        /\ \A d \in Delivery \ {c} : processing'[d] = processing[d] /\ record'[d] = record[d]
    BY DEF StorageFails, Cancelled, Recorded, Inv, TriggerTypeOK
  <1>3. ASSUME NEW d \in Delivery \ {c}
        PROVE  StatusOf(d)' = StatusOf(d) /\ OutcomeOf(d)' = OutcomeOf(d)
    BY <1>1, <1>2, SameFiles, RewriteEffect DEF Inv, Waiting
  <1>4. \/ failed'[c] # NoFile /\ inbox'[c] = NoFile
        \/ inbox'[c] # NoFile
    BY <1>1, RewriteEffect DEF Inv, Attempts
  <1>5. \/ StatusOf(c) = "queued" /\ StatusOf(c)' = "failed" /\ OutcomeOf(c)' = OutcomeOf(c)
        \/ StatusOf(c)' = StatusOf(c) /\ OutcomeOf(c)' = OutcomeOf(c)
    BY <1>1, <1>2, <1>4 DEF StatusOf, OutcomeOf, Waiting
  <1> QED
    BY <1>2, <1>3, <1>5, QueueStep

LEMMA RefNext == ASSUME Inv, [TriggerNext]_triggerVars PROVE [Queue!Next]_(Queue!vars)
  <1>1. CASE Users
    BY <1>1, RefSilent, RefDelete, RefEnqueue DEF Users
  <1>2. CASE Worker
    BY <1>2, RefSilent, RefClaim, RefRecover, RefSubmit, RefComplete DEF Worker
  <1>3. CASE Faults
    BY <1>3, RefSilent, RefRetry DEF Faults
  <1>4. CASE UNCHANGED triggerVars
    BY <1>4, RefSilent
  <1> QED
    BY <1>1, <1>2, <1>3, <1>4 DEF TriggerNext

\* Through every crash, retry and recovery, the three directories behave as the
\* at-least-once queue: no accepted delivery is lost, settled without a record,
\* tried more than MaxAttempts times, or taken up again once it is settled.
THEOREM QueueImplemented == TriggerSpec => ImplementsQueue
  <1>1. TriggerSpec => Queue!Init
    BY RefInit, PTL DEF TriggerSpec
  <1>2. Inv /\ [TriggerNext]_triggerVars => [Queue!Next]_(Queue!vars)
    BY RefNext
  <1> QED
    BY <1>1, <1>2, Invariance, PTL DEF TriggerSpec, ImplementsQueue, Queue!Spec

=============================================================================
