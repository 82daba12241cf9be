---------------------------- MODULE MemoryProofs ----------------------------
(***************************************************************************)
(* Theorems about what the agent remembers: the journal that Dream reads   *)
(* (DreamMemory), then the session that is compacted (SessionCompaction).  *)
(*                                                                         *)
(* DreamMemory, for every set of dreamers, every size of a batch and of    *)
(* the journal, and any number of archivings, runs, restores and kills:    *)
(* the journal stays in order, no entry gets behind the Dream cursor       *)
(* unconsidered, and what a run that is over wrote is not lost.            *)
(*                                                                         *)
(* The argument.  (1) The next cursor is above all that the file and the   *)
(* counter hold, so the file stays in order; compaction keeps the newest   *)
(* line, so the next cursor never goes back by it.  (2) It goes back only  *)
(* when a kill loses a number together with its line; until then it is     *)
(* above the Dream cursor of the workspace, of all commits and of all runs *)
(* in flight, so that what is archived later is not behind any of them.    *)
(* (3) What a run's cursor would pass is in its batch or was accounted for *)
(* when it began, and stays so when a write that is cut short takes it out *)
(* of memory, since it is excused then.  (4) What a run has learned is in  *)
(* memory while it runs, and what is settled is in a commit.               *)
(*                                                                         *)
(* SessionCompaction, for every window, suffix, file cap and number of     *)
(* rounds, turns and other events: nothing said is lost or archived twice, *)
(* and nothing comes back after /new, but for the exceptions that the      *)
(* properties name.                                                        *)
(*                                                                         *)
(* The argument.  (1) Every copy that can become the session again, and    *)
(* the file, has its messages in the order in which they were said, since  *)
(* the last /new, and has yet to archive all that is Owed: what was said   *)
(* while one copy was alive and is neither archived nor handed to /new's   *)
(* archiving (Fits, Stocked).  (2) A consolidation archives exactly what   *)
(* its cursor will pass, an idle compaction what it will not keep, and     *)
(* both are still so when the model answers, since whoever writes to the   *)
(* copy meanwhile only appends to it (JobOK).  (3) That no one else clears *)
(* the copy follows from the lock: a turn that runs holds no place in it   *)
(* and a turn that waits says nothing yet (QueueOK).  (4) Until /new, a    *)
(* second copy or a crash upsets the session, a message is in one copy     *)
(* only, and in none that has yet to archive it once it is gone (Sorted).  *)
(***************************************************************************)
EXTENDS DreamMemory, SessionCompaction, FiniteSetTheorems, SequenceTheorems, WellFoundedInduction, TLAPS

Memories == SUBSET (Nat \cup {Note})
Line == [cursor : Nat, entry : Nat]
Tree == [memory : Memories, cursor : Nat]
Run == [phase : {"idle", "turn"}, batch : SUBSET Nat, last : Nat, learned : SUBSET Nat]

\* A line is one that cannot be read, or has the number of an archiving and a
\* cursor that is no larger.
LineOK(l) == l = Bad \/ (l.entry \in 1..born /\ l.cursor \in 1..l.entry)

FileOK == \A i \in DOMAIN file : LineOK(file[i])
OrderOK == \A i, j \in Readable : i < j =>
             file[i].cursor < file[j].cursor /\ file[i].entry < file[j].entry
TornOK == torn => file # <<>> /\ Last(file) = Bad
FilesOK ==
  /\ file \in Seq(Line) /\ torn \in BOOLEAN
  /\ born \in Nat /\ counter \in 0..born
  /\ FileOK /\ OrderOK /\ TornOK

\* A cursor may stand at c when the entries that are known are accounted for:
\* no later archiving gets it again, and all behind it are known.
Passed(c, known) ==
  /\ c < NextCursor
  /\ \A i \in Readable : file[i].cursor <= c => file[i].entry \in known

\* A version of the tracked files, with x excused and b archivings so far.
TreeFits(t, x, b) ==
  /\ t \in Tree /\ t.cursor <= b
  /\ recounted \/ Passed(t.cursor, t.memory \cup x)

\* A run beside memory files m: its cursor may move to the end of its batch.
RunFits(r, m, x, b) ==
  /\ r \in Run
  /\ r.learned \subseteq r.batch /\ r.learned \subseteq m /\ r.batch \subseteq 1..b
  /\ r.last <= b
  /\ recounted \/ Passed(r.last, r.batch \cup m \cup x)

CommitsOK ==
  /\ commits \in Seq(Tree) /\ git = (commits # <<>>)
  /\ \A i \in DOMAIN commits : TreeFits(commits[i], excused, born)
RunsOK ==
  /\ run = [d \in Dreamer |-> run[d]]
  /\ \A d \in Dreamer : RunFits(run[d], memory, excused, born)
SettledOK == \A e \in settled : \E i \in DOMAIN commits : e \in commits[i].memory

DreamOK ==
  /\ recounted \in BOOLEAN
  /\ FilesOK /\ CommitsOK /\ TreeFits(Working, excused, born) /\ RunsOK /\ SettledOK

-----------------------------------------------------------------------------
(* Greatest elements and ranks. *)

LEMMA LeastElement ==
  ASSUME NEW T \in SUBSET Nat, T # {}
  PROVE  \E x \in T : \A y \in T : x <= y
<1> DEFINE R == {ss \in Nat \X Nat : ss[1] < ss[2]}
<1>1. OpToRel(<, Nat) = R
  BY DEF OpToRel
<1>2. IsWellFoundedOn(R, Nat)
  BY <1>1, NatLessThanWellFounded
<1>3. PICK x \in T : \A y \in T : ~ (<<y, x>> \in R)
  BY <1>2, WFMin
<1>4. \A y \in T : y < x => <<y, x>> \in R
  OBVIOUS
<1>5. \A y \in T : ~ (y < x)
  BY <1>3, <1>4
<1> HIDE DEF R
<1> QED
  BY <1>5

LEMMA GreatestElement ==
  ASSUME NEW n \in Nat, NEW T \in SUBSET (0..n), T # {}
  PROVE  Max(T) \in T /\ \A y \in T : y <= Max(T)
<1> DEFINE D == {n - y : y \in T}
<1>1. D \in SUBSET Nat
  OBVIOUS
<1>2. D # {}
  <2> PICK y \in T : TRUE
    OBVIOUS
  <2> n - y \in D
    OBVIOUS
  <2> QED
    OBVIOUS
<1>3. PICK x \in T : \A y \in T : n - x <= n - y
  <2>1. PICK z \in D : \A w \in D : z <= w
    BY <1>1, <1>2, LeastElement
  <2>2. PICK x \in T : z = n - x
    OBVIOUS
  <2>3. \A y \in T : n - y \in D
    OBVIOUS
  <2> QED
    BY <2>1, <2>2, <2>3
<1>4. \A y \in T : x >= y
  BY <1>3
<1>5. Max(T) \in T /\ \A y \in T : Max(T) >= y
  BY <1>4 DEF Max
<1> QED
  BY <1>5

RankIn(S, i) == Cardinality({j \in S : j <= i})

\* The number of elements up to one of a set of places grows with that one.
LEMMA RankStrict ==
  ASSUME NEW n \in Nat, NEW S \in SUBSET (1..n)
  PROVE  /\ IsFiniteSet(S) /\ Cardinality(S) \in Nat
         /\ \A i \in S : RankIn(S, i) \in 1..Cardinality(S)
         /\ \A i, j \in S : i < j => RankIn(S, i) < RankIn(S, j)
<1>0. \A i \in S : i \in Nat
  OBVIOUS
<1>1. IsFiniteSet(S)
  <2>1. IsFiniteSet(1..n)
    BY FS_Interval
  <2> QED
    BY <2>1, FS_Subset, Zenon
<1>2. Cardinality(S) \in Nat
  BY <1>1, FS_CardinalityType
<1>3. \A i \in S : IsFiniteSet({j \in S : j <= i}) /\ RankIn(S, i) \in Nat
                   /\ RankIn(S, i) <= Cardinality(S)
  <2> TAKE i \in S
  <2>1. {j \in S : j <= i} \in SUBSET S
    OBVIOUS
  <2> QED
    BY <1>1, <2>1, FS_Subset, FS_CardinalityType DEF RankIn
<1>4. \A i \in S : RankIn(S, i) # 0
  <2> TAKE i \in S
  <2>1. i \in {j \in S : j <= i}
    OBVIOUS
  <2> QED
    BY <1>3, <2>1, FS_EmptySet DEF RankIn
<1>5. ASSUME NEW i \in S, NEW j \in S, i < j
      PROVE  RankIn(S, i) < RankIn(S, j)
  <2> DEFINE A == {k \in S : k <= i}
             B == {k \in S : k <= j}
  <2>0. i \in Nat /\ j \in Nat
    BY <1>0
  <2>1. A \in SUBSET B
    <3> SUFFICES ASSUME NEW k \in S, k <= i
                 PROVE  k <= j
      OBVIOUS
    <3>1. k \in Nat
      BY <1>0
    <3> QED
      BY <1>5, <2>0, <3>1
  <2>2. j \in B /\ j \notin A
    BY <1>5, <2>0
  <2>3. IsFiniteSet(B) /\ Cardinality(A) \in Nat /\ Cardinality(B) \in Nat
    BY <1>3 DEF RankIn
  <2> HIDE DEF A, B
  <2>4. Cardinality(A) <= Cardinality(B) /\ Cardinality(A) # Cardinality(B)
    BY <2>1, <2>2, <2>3, FS_Subset
  <2>5. Cardinality(A) < Cardinality(B)
    BY <2>3, <2>4
  <2> QED
    BY <2>5 DEF A, B, RankIn
<1>6. \A i \in S : RankIn(S, i) \in 1..Cardinality(S)
  <2> TAKE i \in S
  <2> DEFINE k == RankIn(S, i)
             c == Cardinality(S)
  <2>1. k \in Nat /\ k <= c /\ k # 0 /\ c \in Nat
    BY <1>2, <1>3, <1>4
  <2> HIDE DEF k, c
  <2>2. k \in 1..c
    BY <2>1
  <2> QED
    BY <2>2 DEF k, c
<1> QED
  BY <1>1, <1>2, <1>5, <1>6

\* Every number up to the size of the set is the rank of one place in it.
LEMMA RankExists ==
  ASSUME NEW n \in Nat, NEW S \in SUBSET (1..n), NEW k \in 1..Cardinality(S)
  PROVE  \E i \in S : RankIn(S, i) = k
<1> DEFINE N == Cardinality(S)
           f == [i \in S |-> RankIn(S, i)]
<1>1. IsFiniteSet(S) /\ N \in Nat
  BY RankStrict
<1>2. f \in [S -> 1..N]
  BY RankStrict
<1>a. \A i \in S : i \in Nat
  OBVIOUS
<1>b. \A i, j \in S : i < j => RankIn(S, i) < RankIn(S, j)
  BY RankStrict
<1>c. \A i \in S : RankIn(S, i) \in Nat
  <2>1. \A i \in S : RankIn(S, i) \in 1..N
    BY RankStrict
  <2> HIDE DEF N
  <2> QED
    BY <1>1, <2>1
<1>3. ASSUME NEW i \in S, NEW j \in S, f[i] = f[j]
      PROVE  i = j
  <2> DEFINE x == RankIn(S, i)
             y == RankIn(S, j)
  <2>1. x = y /\ x \in Nat /\ y \in Nat
    BY <1>3, <1>c
  <2>2. (i < j => x < y) /\ (j < i => y < x)
    BY <1>b
  <2>3. i \in Nat /\ j \in Nat
    BY <1>a
  <2> HIDE DEF x, y, f
  <2> QED
    BY <2>1, <2>2, <2>3
<1> HIDE DEF f
<1>4. f \in Injection(S, 1..N)
  BY <1>2, <1>3, Zenon DEF Injection, IsInjective
<1>5. IsFiniteSet(1..N) /\ Cardinality(1..N) = N
  BY <1>1, FS_Interval
<1>6. f \in Surjection(S, 1..N)
  BY <1>4, <1>5, FS_Injection
<1>7. PICK i \in S : f[i] = k
  BY <1>6 DEF Surjection
<1> QED
  BY <1>7 DEF f

-----------------------------------------------------------------------------
(* The journal. *)

\* Lines gives the lines at the places in their order, each of them once.
LEMMA LinesInOrder ==
  ASSUME file \in Seq(Line), NEW W \in SUBSET (1..Len(file))
  PROVE  /\ Lines(W) \in Seq(Line)
         /\ \E at \in [1..Cardinality(W) -> W] :
              /\ DOMAIN Lines(W) = 1..Cardinality(W)
              /\ \A k \in 1..Cardinality(W) : Lines(W)[k] = file[at[k]]
              /\ \A k, l \in 1..Cardinality(W) : k < l => at[k] < at[l]
              /\ \A i \in W : \E k \in 1..Cardinality(W) : at[k] = i
<1> DEFINE c == Cardinality(W)
           at == [k \in 1..c |-> CHOOSE i \in W : RankIn(W, i) = k]
<1>1. Len(file) \in Nat /\ DOMAIN file = 1..Len(file)
  OBVIOUS
<1>2. c \in Nat /\ \A i \in W : RankIn(W, i) \in 1..c
  BY <1>1, RankStrict
<1>3. \A i, j \in W : i < j => RankIn(W, i) < RankIn(W, j)
  BY <1>1, RankStrict
<1>4. \A k \in 1..c : at[k] \in W /\ RankIn(W, at[k]) = k
  <2> TAKE k \in 1..c
  <2>1. \E i \in W : RankIn(W, i) = k
    BY <1>1, RankExists
  <2> QED
    BY <2>1
<1>5. at \in [1..c -> W]
  BY <1>4
<1>6. \A k \in 1..c : Lines(W)[k] = file[at[k]]
  BY DEF Lines, RankIn
<1>7. DOMAIN Lines(W) = 1..c
  BY DEF Lines
<1>8. Lines(W) \in Seq(Line)
  <2>1. Lines(W) = [k \in 1..c |-> file[at[k]]]
    BY DEF Lines, RankIn
  <2> HIDE DEF c, at
  <2>2. \A k \in 1..c : file[at[k]] \in Line
    <3> TAKE k \in 1..c
    <3>1. at[k] \in 1..Len(file)
      BY <1>5
    <3>2. \A j \in 1..Len(file) : file[j] \in Line
      BY <1>1
    <3> QED
      BY <3>1, <3>2, Zenon
  <2> QED
    BY <1>2, <2>1, <2>2
<1>9. \A i \in W : i \in Nat
  BY <1>1
<1>10. ASSUME NEW k \in 1..c, NEW l \in 1..c, k < l
       PROVE  at[k] < at[l]
  <2> DEFINE i == at[k]
             j == at[l]
  <2>1. i \in W /\ j \in W /\ RankIn(W, i) = k /\ RankIn(W, j) = l
    BY <1>4
  <2> HIDE DEF i, j
  <2>2. i # j
    BY <1>2, <1>10, <2>1
  <2>3. ~ (j < i)
    BY <1>2, <1>3, <1>10, <2>1
  <2>4. i < j
    BY <1>9, <2>1, <2>2, <2>3
  <2> QED
    BY <2>4 DEF i, j
<1>11. ASSUME NEW i \in W
       PROVE  \E k \in 1..c : at[k] = i
  <2> DEFINE k == RankIn(W, i)
             j == at[k]
  <2>1. k \in 1..c
    BY <1>2
  <2>2. j \in W /\ RankIn(W, j) = k
    BY <1>4, <2>1
  <2>3. ~ (i < j) /\ ~ (j < i)
    <3> k \in Nat
      BY <1>2, <2>1
    <3> HIDE DEF j
    <3> QED
      BY <1>3, <2>2
  <2>4. i = j
    <3> i \in Nat /\ j \in Nat
      BY <1>9, <2>2
    <3> HIDE DEF j
    <3> QED
      BY <2>3
  <2> QED
    BY <2>1, <2>4
<1> HIDE DEF c, at
<1>12. \E f \in [1..c -> W] :
         /\ DOMAIN Lines(W) = 1..c
         /\ \A k \in 1..c : Lines(W)[k] = file[f[k]]
         /\ \A k, l \in 1..c : k < l => f[k] < f[l]
         /\ \A i \in W : \E k \in 1..c : f[k] = i
  BY <1>5, <1>6, <1>7, <1>10, <1>11
<1> QED
  BY <1>8, <1>12 DEF c

\* The next cursor is above the counter and every cursor in the file, and no
\* higher than that needs.
Reached(n) == n = 0 \/ n <= counter \/ \E i \in Readable : n <= file[i].cursor

LEMMA NextAbove ==
  ASSUME FilesOK
  PROVE  /\ NextCursor \in 1..born + 1
         /\ counter < NextCursor
         /\ \A i \in Readable : file[i].cursor < NextCursor
         /\ Reached(NextCursor - 1)
<1> DEFINE lastLine == IF file = <<>> THEN Bad ELSE Last(file)
           tail == IF lastLine = Bad \/ lastLine.entry \in LongEntry
                   THEN Max(Cursors(file)) ELSE lastLine.cursor
<1>1. /\ file \in Seq(Line) /\ born \in Nat /\ counter \in 0..born
      /\ Len(file) \in Nat /\ DOMAIN file = 1..Len(file)
  BY DEF FilesOK
<1>2. \A i \in DOMAIN file : file[i].cursor \in 0..born
  <2> TAKE i \in DOMAIN file
  <2>1. LineOK(file[i])
    BY DEF FilesOK, FileOK
  <2>2. CASE file[i] = Bad
    BY <1>1, <2>2 DEF Bad
  <2>3. CASE file[i] # Bad
    <3>1. file[i].entry \in 1..born /\ file[i].cursor \in 1..file[i].entry
      BY <2>1, <2>3 DEF LineOK
    <3> DEFINE e == file[i].entry
               k == file[i].cursor
    <3>2. e \in 1..born /\ k \in 1..e
      BY <3>1
    <3> HIDE DEF e, k
    <3>3. k \in 0..born
      BY <1>1, <3>2
    <3> QED
      BY <3>3 DEF k
  <2> QED
    BY <2>2, <2>3
<1>3. /\ Cursors(file) \in SUBSET (0..born) /\ 0 \in Cursors(file)
      /\ \A i \in DOMAIN file : file[i].cursor \in Cursors(file)
      /\ \A x \in Cursors(file) : x = 0 \/ \E i \in DOMAIN file : x = file[i].cursor
  <2>1. Cursors(file) = {0} \cup {file[i].cursor : i \in DOMAIN file}
    BY DEF Cursors, ToSet
  <2> QED
    BY <1>1, <1>2, <2>1
<1>4. tail \in 0..born /\ (\A i \in DOMAIN file : file[i].cursor <= tail)
      /\ (tail = 0 \/ \E i \in DOMAIN file : tail = file[i].cursor)
  <2>1. CASE lastLine = Bad \/ lastLine.entry \in LongEntry
    <3>1. tail = Max(Cursors(file))
      BY <2>1
    <3> HIDE DEF tail
    <3>2. Cursors(file) # {}
      BY <1>3
    <3>3. tail \in Cursors(file) /\ \A y \in Cursors(file) : y <= tail
      BY <1>1, <1>3, <3>1, <3>2, GreatestElement
    <3> QED
      BY <1>1, <1>3, <3>3
  <2>2. CASE ~ (lastLine = Bad \/ lastLine.entry \in LongEntry)
    <3>1. file # <<>> /\ lastLine = file[Len(file)] /\ tail = file[Len(file)].cursor
      BY <2>2 DEF Last
    <3> DEFINE n == Len(file)
    <3>2. n \in DOMAIN file
      BY <1>1, <3>1
    <3>3. n \in Readable
      BY <2>2, <3>1, <3>2 DEF Readable
    <3>4. ASSUME NEW i \in DOMAIN file
          PROVE  file[i].cursor <= file[n].cursor
      <4>1. file[i].cursor \in 0..born /\ file[n].cursor \in 0..born
        BY <1>2, <3>2
      <4>2. CASE file[i] = Bad
        BY <1>1, <4>1, <4>2 DEF Bad
      <4>3. CASE i = n
        BY <1>1, <4>1, <4>3
      <4>4. CASE file[i] # Bad /\ i # n
        <5>1. i \in Readable
          BY <4>4 DEF Readable
        <5>2. i < n
          BY <1>1, <4>4
        <5>3. file[i].cursor < file[n].cursor
          BY <3>3, <5>1, <5>2 DEF FilesOK, OrderOK
        <5> QED
          BY <1>1, <4>1, <5>3
      <4> QED
        BY <4>2, <4>3, <4>4
    <3>5. tail = file[n].cursor
      BY <3>1
    <3> HIDE DEF tail, n
    <3> QED
      BY <1>2, <3>2, <3>4, <3>5
  <2> QED
    BY <2>1, <2>2
<1>5. NextCursor = Max({counter, tail}) + 1
  BY DEF NextCursor
<1> HIDE DEF tail
<1>6. Max({counter, tail}) \in {counter, tail} /\ counter <= Max({counter, tail})
      /\ tail <= Max({counter, tail})
  <2>1. {counter, tail} \in SUBSET (0..born) /\ {counter, tail} # {}
    BY <1>1, <1>4
  <2> QED
    BY <1>1, <2>1, GreatestElement
<1> DEFINE m == Max({counter, tail})
<1>7. m \in 0..born /\ counter <= m /\ tail <= m /\ m \in {counter, tail} /\ NextCursor = m + 1
  BY <1>1, <1>4, <1>5, <1>6
<1> HIDE DEF m
<1>8. NextCursor \in 1..born + 1 /\ counter < NextCursor /\ NextCursor - 1 = m
  BY <1>1, <1>7
<1>9. ASSUME NEW i \in Readable
      PROVE  file[i].cursor < NextCursor
  <2>1. i \in DOMAIN file
    BY DEF Readable
  <2>2. file[i].cursor \in 0..born /\ file[i].cursor <= tail
    BY <1>2, <1>4, <2>1
  <2> QED
    BY <1>1, <1>4, <1>7, <2>2
<1>10. Reached(m)
  <2>1. CASE m = counter
    BY <1>1, <2>1 DEF Reached
  <2>2. CASE m = tail /\ tail # 0
    <3>1. PICK i \in DOMAIN file : tail = file[i].cursor
      BY <1>4, <2>2
    <3>2. i \in Readable
      BY <2>2, <3>1 DEF Readable, Bad
    <3>3. m <= file[i].cursor
      BY <1>7, <2>2, <3>1
    <3> QED
      BY <3>2, <3>3 DEF Reached
  <2>3. CASE m = 0
    BY <2>3 DEF Reached
  <2> QED
    BY <1>7, <2>1, <2>2, <2>3
<1> QED
  BY <1>8, <1>9, <1>10

\* Compaction leaves lines of the file in their order, among them the newest,
\* so that the next cursor stays.
LEMMA CompactKeeps ==
  ASSUME FilesOK, CompactHistory
  PROVE  /\ file' \in Seq(Line) /\ torn' \in BOOLEAN /\ TornOK'
         /\ \A k \in DOMAIN file' : \E i \in DOMAIN file : file'[k] = file[i]
         /\ \A k, l \in Readable' : k < l =>
              \E i, j \in Readable : i < j /\ file'[k] = file[i] /\ file'[l] = file[j]
         /\ \A i \in Readable : \E k \in Readable' : file[i].cursor <= file'[k].cursor
<1>1. /\ file \in Seq(Line) /\ torn \in BOOLEAN /\ TornOK /\ OrderOK
      /\ Len(file) \in Nat /\ DOMAIN file = 1..Len(file)
  BY DEF FilesOK
<1>a. \A i \in DOMAIN file : file[i] \in Line /\ file[i].cursor \in Nat
  <2>1. \A i \in DOMAIN file : file[i] \in Line
    BY <1>1
  <2> QED
    BY <2>1 DEF Line
<1>b. MaxHistory \in Nat /\ 1 <= MaxHistory
  BY DreamAssumption
<1>2. CASE UNCHANGED <<file, torn>>
  <2>1. file' = file /\ torn' = torn
    BY <1>2
  <2>2. Readable' = Readable
    BY <2>1 DEF Readable
  <2>3. TornOK'
    BY <1>1, <2>1 DEF TornOK
  <2>4. \A i \in Readable : i \in DOMAIN file
    BY DEF Readable
  <2>5. \A i \in Readable : file[i].cursor <= file[i].cursor
    BY <1>a, <2>4
  <2> QED
    BY <1>1, <2>1, <2>2, <2>3, <2>5
<1>3. CASE /\ Cardinality(Readable) > MaxHistory
           /\ file' = Lines(Newest(Readable, MaxHistory)) /\ torn' = FALSE
  <2> DEFINE W == Newest(Readable, MaxHistory)
  <2>1. W \in SUBSET Readable /\ Readable \in SUBSET (1..Len(file))
    BY <1>1 DEF Newest, Readable
  <2>0. W \in SUBSET (1..Len(file))
    BY <2>1
  <2> DEFINE c == Cardinality(W)
  <2> HIDE DEF W
  <2>2. PICK at \in [1..c -> W] :
          /\ DOMAIN Lines(W) = 1..c
          /\ \A k \in 1..c : Lines(W)[k] = file[at[k]]
          /\ \A k, l \in 1..c : k < l => at[k] < at[l]
          /\ \A i \in W : \E k \in 1..c : at[k] = i
    BY <1>1, <2>0, LinesInOrder
  <2>3. Lines(W) \in Seq(Line)
    BY <1>1, <2>0, LinesInOrder
  <2> HIDE DEF c
  <2>4. \A i \in Readable : \E j \in W : file[i].cursor <= file[j].cursor
    <3> SUFFICES ASSUME NEW i0 \in Readable
                 PROVE  \E j \in W : file[i0].cursor <= file[j].cursor
      OBVIOUS
    <3>1. Readable \in SUBSET (0..Len(file)) /\ Readable # {}
      BY <1>1, <2>1
    <3> DEFINE m == Max(Readable)
    <3>2. m \in Readable /\ \A y \in Readable : y <= m
      BY <1>1, <3>1, GreatestElement
    <3> HIDE DEF m
    <3>3. {j \in Readable : j >= m} = {m}
      <4>1. \A j \in Readable : j \in Nat
        BY <1>1, <2>1
      <4> QED
        BY <3>2, <4>1
    <3>4. Cardinality({j \in Readable : j >= m}) <= MaxHistory
      <4>1. Cardinality({m}) = 1
        BY FS_Singleton
      <4> QED
        BY <1>b, <3>3, <4>1
    <3>5. m \in W
      BY <3>2, <3>4 DEF W, Newest
    <3>6. i0 \in DOMAIN file /\ m \in DOMAIN file
      BY <3>2 DEF Readable
    <3>7. file[i0].cursor <= file[m].cursor
      <4>1. CASE i0 = m
        BY <1>a, <3>6, <4>1
      <4>2. CASE i0 # m
        <5>1. i0 < m
          BY <1>1, <3>2, <3>6, <4>2
        <5>2. file[i0].cursor < file[m].cursor
          BY <1>1, <3>2, <5>1 DEF OrderOK
        <5> QED
          BY <1>a, <3>6, <5>2
      <4> QED
        BY <4>1, <4>2
    <3> QED
      BY <3>5, <3>7
  <2>5. file' = Lines(W) /\ torn' = FALSE
    BY <1>3 DEF W
  <2>6. DOMAIN file' = 1..c /\ (\A k \in 1..c : at[k] \in W /\ file'[k] = file[at[k]])
        /\ \A i \in W : \E k \in 1..c : at[k] = i
    BY <2>2, <2>5
  <2>7. \A i \in W : i \in DOMAIN file /\ file[i] # Bad
    BY <2>1 DEF Readable
  <2>8. Readable' = 1..c
    <3>1. Readable' = {k \in DOMAIN file' : file'[k] # Bad}
      BY DEF Readable
    <3> QED
      BY <2>6, <2>7, <3>1
  <2>9. \A k \in DOMAIN file' : \E i \in DOMAIN file : file'[k] = file[i]
    BY <2>6, <2>7
  <2>10. \A k, l \in Readable' : k < l =>
           \E i, j \in Readable : i < j /\ file'[k] = file[i] /\ file'[l] = file[j]
    <3> SUFFICES ASSUME NEW k \in 1..c, NEW l \in 1..c, k < l
                 PROVE  \E i, j \in Readable : i < j /\ file'[k] = file[i] /\ file'[l] = file[j]
      BY <2>8
    <3>1. at[k] < at[l]
      BY <2>2
    <3>2. at[k] \in Readable /\ at[l] \in Readable
      BY <2>1, <2>6
    <3>3. file'[k] = file[at[k]] /\ file'[l] = file[at[l]]
      BY <2>6
    <3> QED
      BY <3>1, <3>2, <3>3
  <2>11. \A i \in Readable : \E k \in Readable' : file[i].cursor <= file'[k].cursor
    <3> SUFFICES ASSUME NEW i \in Readable
                 PROVE  \E k \in 1..c : file[i].cursor <= file'[k].cursor
      BY <2>8
    <3>1. PICK j \in W : file[i].cursor <= file[j].cursor
      BY <2>4
    <3>2. PICK k \in 1..c : at[k] = j
      BY <2>6
    <3>3. file'[k] = file[j]
      BY <2>6, <3>2
    <3> QED
      BY <3>1, <3>3
  <2>12. TornOK'
    BY <2>5 DEF TornOK
  <2> QED
    BY <2>3, <2>5, <2>9, <2>10, <2>11, <2>12
<1> QED
  <2>1. Cardinality(Readable) \in Nat
    <3>1. Readable \in SUBSET (1..Len(file))
      BY <1>1 DEF Readable
    <3> QED
      BY <1>1, <3>1, RankStrict
  <2>2. \/ UNCHANGED <<file, torn>>
        \/ /\ Cardinality(Readable) > MaxHistory
           /\ file' = Lines(Newest(Readable, MaxHistory)) /\ torn' = FALSE
    BY <1>b, <2>1 DEF CompactHistory
  <2> QED
    BY <1>2, <1>3, <2>2

LEMMA NextAboveThen ==
  FilesOK' => /\ NextCursor' \in 1..born' + 1
              /\ counter' < NextCursor'
              /\ \A i \in Readable' : file'[i].cursor < NextCursor'
<1>1. FilesOK => /\ NextCursor \in 1..born + 1
                 /\ counter < NextCursor
                 /\ \A i \in Readable : file[i].cursor < NextCursor
  BY NextAbove
<1>2. (FilesOK => /\ NextCursor \in 1..born + 1
                  /\ counter < NextCursor
                  /\ \A i \in Readable : file[i].cursor < NextCursor)'
  BY <1>1, PTL
<1> QED
  BY <1>2

\* What a step may do to the journal: the lines that can be read were there
\* before, or have the next cursor.
Keeps == \A k \in Readable' :
  (\E i \in Readable : file'[k] = file[i]) \/ file'[k].cursor = NextCursor

LEMMA LinesTyped ==
  ASSUME FilesOK
  PROVE  /\ Len(file) \in Nat /\ DOMAIN file = 1..Len(file)
         /\ \A i \in DOMAIN file : file[i] \in Line /\ file[i].cursor \in Nat /\ file[i].entry \in Nat
         /\ \A i \in Readable : /\ i \in DOMAIN file /\ i \in Nat /\ file[i] # Bad
                                /\ file[i].entry \in 1..born /\ file[i].cursor \in 1..born
<1>1. file \in Seq(Line) /\ born \in Nat /\ FileOK
  BY DEF FilesOK
<1>2. Len(file) \in Nat /\ DOMAIN file = 1..Len(file)
  BY <1>1
<1>3. \A i \in DOMAIN file : file[i] \in Line
  BY <1>1
<1>4. \A i \in DOMAIN file : file[i].cursor \in Nat /\ file[i].entry \in Nat
  BY <1>3 DEF Line
<1>5. ASSUME NEW i \in Readable
      PROVE  /\ i \in DOMAIN file /\ i \in Nat /\ file[i] # Bad
             /\ file[i].entry \in 1..born /\ file[i].cursor \in 1..born
  <2>1. i \in DOMAIN file /\ file[i] # Bad
    BY DEF Readable
  <2>2. file[i].entry \in 1..born /\ file[i].cursor \in 1..file[i].entry
    BY <1>1, <2>1 DEF FileOK, LineOK
  <2> DEFINE e == file[i].entry
             k == file[i].cursor
  <2>3. e \in 1..born /\ k \in 1..e
    BY <2>2
  <2> HIDE DEF e, k
  <2>4. k \in 1..born
    BY <1>1, <2>3
  <2> QED
    BY <1>2, <2>1, <2>2, <2>4 DEF k
<1> QED
  BY <1>2, <1>3, <1>4, <1>5

LEMMA FilesSame ==
  ASSUME FilesOK, UNCHANGED <<file, torn, counter, born>>
  PROVE  FilesOK' /\ Keeps /\ NextCursor <= NextCursor'
<1>1. file' = file /\ torn' = torn /\ counter' = counter /\ born' = born
  OBVIOUS
<1>2. Readable' = Readable
  BY <1>1 DEF Readable
<1>3. FileOK' /\ OrderOK' /\ TornOK'
  BY <1>1, <1>2 DEF FilesOK, FileOK, LineOK, OrderOK, TornOK
<1>4. FilesOK'
  BY <1>1, <1>3 DEF FilesOK
<1>5. Keeps
  BY <1>1, <1>2 DEF Keeps
<1>6. NextCursor' = NextCursor
  BY <1>1 DEF NextCursor, Cursors
<1>7. NextCursor \in 1..born + 1 /\ born \in Nat
  BY NextAbove DEF FilesOK
<1> QED
  BY <1>4, <1>5, <1>6, <1>7

LEMMA FilesCompact ==
  ASSUME FilesOK, CompactHistory, UNCHANGED <<counter, born>>
  PROVE  FilesOK' /\ Keeps /\ NextCursor <= NextCursor'
<1>1. /\ file' \in Seq(Line) /\ torn' \in BOOLEAN /\ TornOK'
      /\ \A k \in DOMAIN file' : \E i \in DOMAIN file : file'[k] = file[i]
      /\ \A k, l \in Readable' : k < l =>
           \E i, j \in Readable : i < j /\ file'[k] = file[i] /\ file'[l] = file[j]
      /\ \A i \in Readable : \E k \in Readable' : file[i].cursor <= file'[k].cursor
  BY CompactKeeps
<1>2. born' = born /\ counter' = counter /\ born \in Nat /\ counter \in 0..born
  BY DEF FilesOK
<1>3. FileOK'
  <2> SUFFICES ASSUME NEW k \in DOMAIN file'
               PROVE  LineOK(file[k])'
    BY DEF FileOK
  <2>1. PICK i \in DOMAIN file : file'[k] = file[i]
    BY <1>1
  <2>2. LineOK(file[i])
    BY DEF FilesOK, FileOK
  <2> QED
    BY <1>2, <2>1, <2>2 DEF LineOK
<1>4. OrderOK'
  <2> SUFFICES ASSUME NEW k \in Readable', NEW l \in Readable', k < l
               PROVE  file'[k].cursor < file'[l].cursor /\ file'[k].entry < file'[l].entry
    BY DEF OrderOK
  <2>1. PICK i \in Readable, j \in Readable : i < j /\ file'[k] = file[i] /\ file'[l] = file[j]
    BY <1>1
  <2> QED
    BY <2>1 DEF FilesOK, OrderOK
<1>5. FilesOK'
  BY <1>1, <1>2, <1>3, <1>4 DEF FilesOK
<1>6. Keeps
  <2> SUFFICES ASSUME NEW k \in Readable'
               PROVE  \E i \in Readable : file'[k] = file[i]
    BY DEF Keeps
  <2>1. k \in DOMAIN file' /\ file'[k] # Bad
    BY DEF Readable
  <2>2. PICK i \in DOMAIN file : file'[k] = file[i]
    BY <1>1, <2>1
  <2>3. i \in Readable
    BY <2>1, <2>2 DEF Readable
  <2> QED
    BY <2>2, <2>3
<1>7. NextCursor <= NextCursor'
  <2> DEFINE m == NextCursor
             n == NextCursor'
  <2>1. m \in 1..born + 1 /\ Reached(m - 1)
    BY NextAbove
  <2>2. n \in 1..born + 1 /\ counter < n /\ \A k \in Readable' : file'[k].cursor < n
    BY <1>2, <1>5, NextAboveThen
  <2> SUFFICES m <= n
    OBVIOUS
  <2> HIDE DEF m, n
  <2>3. CASE m - 1 = 0
    BY <1>2, <2>1, <2>2, <2>3
  <2>4. CASE m - 1 <= counter
    BY <1>2, <2>1, <2>2, <2>4
  <2>5. CASE \E i \in Readable : m - 1 <= file[i].cursor
    <3>1. PICK i \in Readable : m - 1 <= file[i].cursor
      BY <2>5
    <3>2. PICK k \in Readable' : file[i].cursor <= file'[k].cursor
      BY <1>1
    <3>3. PICK j \in Readable : file'[k] = file[j]
      <4>1. k \in DOMAIN file' /\ file'[k] # Bad
        BY DEF Readable
      <4>2. PICK j \in DOMAIN file : file'[k] = file[j]
        BY <1>1, <4>1
      <4> QED
        BY <4>1, <4>2 DEF Readable
    <3>4. file[i].cursor \in 1..born /\ file[j].cursor \in 1..born
      BY LinesTyped
    <3> PICK x \in Nat : x = file[i].cursor
      BY <1>2, <3>4
    <3> PICK y \in Nat : y = file[j].cursor
      BY <1>2, <3>4
    <3>5. m - 1 <= x /\ x <= y /\ y < n
      BY <2>2, <3>1, <3>2, <3>3
    <3> QED
      BY <1>2, <2>1, <2>2, <3>5
  <2> QED
    BY <2>1, <2>3, <2>4, <2>5 DEF Reached
<1> QED
  BY <1>5, <1>6, <1>7

\* A line is appended, with the next cursor and the number of the archiving;
\* or a part of it, or it is lost to a torn line.
LEMMA FilesAppend ==
  ASSUME FilesOK, NEW line,
         born' = born + 1, counter' \in 0..born', file' = Extended(line),
         \/ line = Bad /\ torn' = TRUE
         \/ line = [cursor |-> NextCursor, entry |-> born + 1] /\ torn' = FALSE
  PROVE  FilesOK' /\ Keeps
<1>1. /\ file \in Seq(Line) /\ born \in Nat /\ FileOK /\ OrderOK /\ TornOK
      /\ torn \in BOOLEAN /\ torn' \in BOOLEAN
  BY DEF FilesOK
<1>2. NextCursor \in 1..born + 1 /\ \A i \in Readable : file[i].cursor < NextCursor
  BY NextAbove
<1>3. /\ Len(file) \in Nat /\ DOMAIN file = 1..Len(file)
      /\ \A i \in Readable : /\ i \in DOMAIN file /\ file[i] # Bad
                             /\ file[i].entry \in 1..born /\ file[i].cursor \in 1..born
  BY LinesTyped
<1>4. CASE torn
  <2>1. file' = file /\ Readable' = Readable
    BY <1>4 DEF Extended, Readable
  <2>2. TornOK'
    BY <1>1, <1>4, <2>1 DEF TornOK
  <2>3. FileOK'
    <3> SUFFICES ASSUME NEW i \in DOMAIN file
                 PROVE  LineOK(file[i])'
      BY <2>1 DEF FileOK
    <3>1. LineOK(file[i])
      BY <1>1 DEF FileOK
    <3>2. file[i].entry \in 1..born => file[i].entry \in 1..born'
      BY <1>1
    <3> QED
      BY <2>1, <3>1, <3>2 DEF LineOK
  <2>4. OrderOK'
    BY <1>1, <2>1 DEF OrderOK
  <2>5. FilesOK'
    BY <1>1, <2>1, <2>2, <2>3, <2>4 DEF FilesOK
  <2> QED
    BY <2>1, <2>5 DEF Keeps
<1>5. CASE ~torn
  <2> DEFINE n == Len(file)
  <2>1. file' = Append(file, line)
    BY <1>5 DEF Extended
  <2>2. line \in Line
    BY <1>1, <1>2 DEF Line, Bad
  <2>3. /\ file' \in Seq(Line) /\ Len(file') = n + 1 /\ DOMAIN file' = 1..n + 1
        /\ file'[n + 1] = line /\ \A i \in 1..n : file'[i] = file[i]
    BY <1>1, <1>3, <2>1, <2>2
  <2> HIDE DEF n
  <2>n. n \in Nat /\ DOMAIN file = 1..n
    BY <1>3 DEF n
  <2>4. FileOK'
    <3> SUFFICES ASSUME NEW i \in 1..n + 1
                 PROVE  LineOK(file[i])'
      BY <2>3 DEF FileOK
    <3>1. CASE i \in 1..n
      <4>1. LineOK(file[i])
        BY <1>1, <2>n, <3>1 DEF FileOK
      <4>2. file[i].entry \in 1..born => file[i].entry \in 1..born'
        BY <1>1
      <4>3. file'[i] = file[i]
        BY <2>3, <3>1
      <4> QED
        BY <4>1, <4>2, <4>3 DEF LineOK
    <3>2. CASE i = n + 1
      <4>1. file'[i] = line
        BY <2>3, <3>2
      <4>2. line = Bad \/ (line.entry \in 1..born' /\ line.cursor \in 1..line.entry)
        BY <1>1, <1>2
      <4> QED
        BY <4>1, <4>2 DEF LineOK
    <3> QED
      BY <2>n, <3>1, <3>2
  <2>5. \A k \in Readable' : \/ k \in Readable /\ file'[k] = file[k] /\ k \in 1..n
                             \/ /\ k = n + 1 /\ file'[k] = line
                                /\ line = [cursor |-> NextCursor, entry |-> born + 1]
    <3> TAKE k \in Readable'
    <3>1. k \in 1..n + 1 /\ file'[k] # Bad
      BY <2>3 DEF Readable
    <3>2. CASE k \in 1..n
      BY <2>3, <2>n, <3>1, <3>2 DEF Readable
    <3>3. CASE k = n + 1
      BY <2>3, <3>1, <3>3
    <3> QED
      BY <2>n, <3>1, <3>2, <3>3
  <2>6. OrderOK'
    <3> SUFFICES ASSUME NEW k \in Readable', NEW l \in Readable', k < l
                 PROVE  file'[k].cursor < file'[l].cursor /\ file'[k].entry < file'[l].entry
      BY DEF OrderOK
    <3>1. CASE l \in 1..n
      <4>1. k \in Readable /\ l \in Readable /\ file'[k] = file[k] /\ file'[l] = file[l]
        BY <2>5, <2>n, <3>1
      <4> QED
        BY <1>1, <4>1 DEF OrderOK
    <3>2. CASE l = n + 1
      <4>1. /\ file'[l] = line /\ line = [cursor |-> NextCursor, entry |-> born + 1]
            /\ k \in Readable /\ file'[k] = file[k]
        BY <2>5, <2>n, <3>2
      <4>2. file[k].entry \in 1..born /\ file[k].cursor < NextCursor
        BY <1>2, <1>3, <4>1
      <4>3. file[k].entry < born + 1
        BY <1>1, <4>2
      <4> QED
        BY <4>1, <4>2, <4>3
    <3> QED
      BY <2>5, <3>1, <3>2
  <2>7. TornOK'
    <3>1. CASE torn'
      <4>1. line = Bad /\ file'[n + 1] = Bad /\ Len(file') = n + 1
        BY <2>3, <3>1
      <4>2. file' # <<>>
        BY <2>3, <2>n
      <4> QED
        BY <4>1, <4>2 DEF TornOK, Last
    <3>2. CASE ~torn'
      BY <3>2 DEF TornOK
    <3> QED
      BY <3>1, <3>2
  <2>8. FilesOK'
    BY <1>1, <2>3, <2>4, <2>6, <2>7 DEF FilesOK
  <2>9. Keeps
    BY <2>5 DEF Keeps
  <2> QED
    BY <2>8, <2>9
<1> QED
  BY <1>1, <1>4, <1>5

-----------------------------------------------------------------------------
(* Versions, runs and steps. *)

\* Whatever was passed stays passed when more is known.
LEMMA PassedMore ==
  ASSUME NEW c, NEW K, NEW L, K \subseteq L, Passed(c, K)
  PROVE  Passed(c, L)
BY DEF Passed

LEMMA PassedNothing ==
  ASSUME FilesOK, NEW K
  PROVE  Passed(0, K)
<1>1. NextCursor \in 1..born + 1 /\ born \in Nat
  BY NextAbove DEF FilesOK
<1>2. \A i \in Readable : file[i].cursor \in 1..born
  BY LinesTyped
<1>3. \A i \in Readable : ~ (file[i].cursor <= 0)
  BY <1>1, <1>2
<1> QED
  BY <1>1, <1>3 DEF Passed

LEMMA NoRunFits ==
  ASSUME FilesOK, NEW m, NEW x, NEW b \in Nat
  PROVE  RunFits(NoRun, m, x, b)
<1>1. Passed(0, {} \cup m \cup x)
  BY PassedNothing
<1>2. NoRun \in Run
  BY DEF NoRun, Run
<1> QED
  BY <1>1, <1>2 DEF RunFits, NoRun

LEMMA RunFitsMore ==
  ASSUME NEW r, NEW m, NEW x, NEW b \in Nat, RunFits(r, m, x, b),
         NEW n, NEW y, NEW c \in Nat, m \subseteq n, x \subseteq y, b <= c
  PROVE  RunFits(r, n, y, c)
<1>1. r.batch \subseteq 1..c /\ r.last <= c /\ r.learned \subseteq n
  <2>1. r \in Run /\ r.batch \subseteq 1..b /\ r.last <= b /\ r.learned \subseteq m
    BY DEF RunFits
  <2>2. r.last \in Nat
    BY <2>1 DEF Run
  <2> QED
    BY <2>1, <2>2
<1>2. recounted \/ Passed(r.last, r.batch \cup n \cup y)
  <2>1. r.batch \cup m \cup x \subseteq r.batch \cup n \cup y
    OBVIOUS
  <2> QED
    BY <2>1, PassedMore DEF RunFits
<1> QED
  BY <1>1, <1>2 DEF RunFits

LEMMA TreeFitsMore ==
  ASSUME NEW t, NEW x, NEW b \in Nat, TreeFits(t, x, b),
         NEW y, NEW c \in Nat, x \subseteq y, b <= c
  PROVE  TreeFits(t, y, c)
<1>1. t \in Tree /\ t.cursor <= c
  <2>1. t \in Tree /\ t.cursor <= b
    BY DEF TreeFits
  <2>2. t.cursor \in Nat
    BY <2>1 DEF Tree
  <2> QED
    BY <2>1, <2>2
<1>2. recounted \/ Passed(t.cursor, t.memory \cup y)
  <2>1. t.memory \cup x \subseteq t.memory \cup y
    OBVIOUS
  <2> QED
    BY <2>1, PassedMore DEF TreeFits
<1> QED
  BY <1>1, <1>2 DEF TreeFits

\* What may happen to the commits: the version of the workspace is added.
Grows ==
  /\ commits' \in Seq(Tree) /\ git' = git /\ git' = (commits' # <<>>)
  /\ \A i \in DOMAIN commits' :
       commits'[i] = Working' \/ \E j \in DOMAIN commits : commits'[i] = commits[j]
  /\ \A j \in DOMAIN commits : \E i \in DOMAIN commits' : commits'[i] = commits[j]

\* What is passed stays passed in a step that keeps the journal, unless it makes
\* the numbers go back.
LEMMA PassedThen ==
  ASSUME FilesOK, FilesOK', Keeps, NextCursor <= NextCursor',
         NEW c \in Nat, NEW K, Passed(c, K)
  PROVE  Passed(c, K)'
<1>1. NextCursor \in 1..born + 1 /\ NextCursor' \in 1..born' + 1 /\ born \in Nat /\ born' \in Nat
  BY NextAbove, NextAboveThen DEF FilesOK
<1> DEFINE m == NextCursor
           n == NextCursor'
<1>2. m \in Nat /\ n \in Nat /\ m <= n /\ c < m
  BY <1>1 DEF Passed
<1>3. ASSUME NEW k \in Readable', file'[k].cursor <= c
      PROVE  file'[k].entry \in K
  <2>1. CASE file'[k].cursor = m
    BY <1>2, <1>3, <2>1
  <2>2. CASE \E i \in Readable : file'[k] = file[i]
    BY <1>3, <2>2 DEF Passed
  <2> QED
    BY <2>1, <2>2 DEF Keeps
<1>4. c < n
  <2> HIDE DEF m, n
  <2> QED
    BY <1>2
<1> QED
  BY <1>3, <1>4 DEF Passed

\* A step preserves the invariant when the journal, the commits, the version of
\* the workspace, the runs and what is settled fit.
LEMMA StepOK ==
  ASSUME DreamOK, FilesOK', Keeps, Grows,
         recounted' \in BOOLEAN,
         recounted' \/ (~recounted /\ NextCursor <= NextCursor'),
         born <= born', excused \subseteq excused',
         TreeFits(Working', excused', born'),
         run' = [d \in Dreamer |-> run'[d]],
         \A d \in Dreamer : RunFits(run'[d], memory', excused', born'),
         \A e \in settled' : e \in settled \/ \E i \in DOMAIN commits' : e \in commits'[i].memory
  PROVE  DreamOK'
<1>1. FilesOK /\ born \in Nat /\ born' \in Nat
  BY DEF DreamOK, FilesOK
<1>2. ASSUME NEW c \in Nat, NEW K, recounted \/ Passed(c, K)
      PROVE  recounted' \/ /\ c < NextCursor'
                           /\ \A k \in Readable' : file'[k].cursor <= c => file'[k].entry \in K
  <2>1. CASE recounted'
    BY <2>1
  <2>2. CASE ~recounted /\ NextCursor <= NextCursor'
    <3>1. Passed(c, K)'
      BY <1>1, <1>2, <2>2, PassedThen
    <3> QED
      BY <3>1 DEF Passed
  <2> QED
    BY <2>1, <2>2
<1>3. ASSUME NEW t, TreeFits(t, excused', born')
      PROVE  /\ t \in Tree /\ t.cursor <= born'
             /\ recounted' \/ /\ t.cursor < NextCursor'
                              /\ \A k \in Readable' :
                                   file'[k].cursor <= t.cursor => file'[k].entry \in t.memory \cup excused'
  <2>1. PICK K : K = t.memory \cup excused'
    OBVIOUS
  <2>2. t \in Tree /\ t.cursor <= born' /\ (recounted \/ Passed(t.cursor, K))
    BY <1>3, <2>1 DEF TreeFits
  <2>3. t.cursor \in Nat
    BY <2>2 DEF Tree
  <2>4. recounted' \/ /\ t.cursor < NextCursor'
                      /\ \A k \in Readable' : file'[k].cursor <= t.cursor => file'[k].entry \in K
    BY <1>2, <2>2, <2>3
  <2> QED
    BY <2>1, <2>2, <2>4
<1>4. CommitsOK'
  <2>1. \A i \in DOMAIN commits' : TreeFits(commits'[i], excused', born')
    <3> TAKE i \in DOMAIN commits'
    <3>1. CASE commits'[i] = Working'
      BY <3>1
    <3>2. CASE \E j \in DOMAIN commits : commits'[i] = commits[j]
      <4>1. PICK j \in DOMAIN commits : commits'[i] = commits[j]
        BY <3>2
      <4>2. TreeFits(commits[j], excused, born)
        BY DEF DreamOK, CommitsOK
      <4>3. TreeFits(commits[j], excused', born')
        BY <1>1, <4>2, TreeFitsMore
      <4> QED
        BY <4>1, <4>3
    <3> QED
      BY <3>1, <3>2 DEF Grows
  <2>2. ASSUME NEW i \in DOMAIN commits'
        PROVE  TreeFits(commits[i], excused, born)'
    <3>1. PICK t : t = commits'[i]
      OBVIOUS
    <3>2. TreeFits(t, excused', born')
      BY <2>1, <3>1
    <3>3. /\ t \in Tree /\ t.cursor <= born'
          /\ recounted' \/ /\ t.cursor < NextCursor'
                           /\ \A k \in Readable' :
                                file'[k].cursor <= t.cursor => file'[k].entry \in t.memory \cup excused'
      BY <1>3, <3>2
    <3> QED
      BY <3>1, <3>3 DEF TreeFits, Passed
  <2> QED
    BY <2>2 DEF CommitsOK, Grows
<1>5. TreeFits(Working, excused, born)'
  <2>1. PICK t : t = Working'
    OBVIOUS
  <2>2. /\ t \in Tree /\ t.cursor <= born'
        /\ recounted' \/ /\ t.cursor < NextCursor'
                         /\ \A k \in Readable' :
                              file'[k].cursor <= t.cursor => file'[k].entry \in t.memory \cup excused'
    BY <1>3, <2>1
  <2> QED
    BY <2>1, <2>2 DEF TreeFits, Passed
<1>6. ASSUME NEW d \in Dreamer
      PROVE  RunFits(run[d], memory, excused, born)'
  <2>1. PICK r, m, x : r = run'[d] /\ m = memory' /\ x = excused'
    OBVIOUS
  <2>2. RunFits(r, m, x, born')
    BY <2>1
  <2>3. PICK K : K = r.batch \cup m \cup x
    OBVIOUS
  <2>4. /\ r \in Run /\ r.last \in Nat /\ r.learned \subseteq r.batch /\ r.learned \subseteq m
        /\ r.batch \subseteq 1..born' /\ r.last <= born' /\ (recounted \/ Passed(r.last, K))
    BY <2>2, <2>3 DEF RunFits, Run
  <2>5. recounted' \/ /\ r.last < NextCursor'
                      /\ \A k \in Readable' : file'[k].cursor <= r.last => file'[k].entry \in K
    BY <1>2, <2>4
  <2> QED
    BY <2>1, <2>3, <2>4, <2>5 DEF RunFits, Passed
<1>7. RunsOK'
  BY <1>6 DEF RunsOK
<1>8. SettledOK'
  <2> SUFFICES ASSUME NEW e \in settled'
               PROVE  \E i \in DOMAIN commits' : e \in commits'[i].memory
    BY DEF SettledOK
  <2>1. CASE e \in settled
    <3>1. PICK j \in DOMAIN commits : e \in commits[j].memory
      BY <2>1 DEF DreamOK, SettledOK
    <3>2. PICK i \in DOMAIN commits' : commits'[i] = commits[j]
      BY DEF Grows
    <3> QED
      BY <3>1, <3>2
  <2> QED
    BY <2>1
<1> QED
  BY <1>4, <1>5, <1>7, <1>8 DEF DreamOK

-----------------------------------------------------------------------------
(* Parts that several actions share. *)

LEMMA SameCommits ==
  ASSUME DreamOK, UNCHANGED <<git, commits>>
  PROVE  Grows
BY DEF DreamOK, CommitsOK, Grows

\* A commit of the workspace as it is after the step.
LEMMA Committing ==
  ASSUME DreamOK, git' = git, Working' \in Tree, commits' = Committed(Working')
  PROVE  Grows /\ (git => \E i \in DOMAIN commits' : commits'[i] = Working')
<1>1. commits \in Seq(Tree) /\ git = (commits # <<>>)
  BY DEF DreamOK, CommitsOK
<1>2. Len(commits) \in Nat /\ DOMAIN commits = 1..Len(commits)
  BY <1>1
<1>3. CASE ~git
  <2>1. commits' = commits
    BY <1>3 DEF Committed
  <2> QED
    BY <1>1, <1>3, <2>1 DEF Grows
<1>4. CASE git /\ Working' = HeadTree
  <2>1. commits' = commits
    BY <1>4 DEF Committed
  <2>a. commits # <<>>
    BY <1>1, <1>4
  <2>b. Len(commits) # 0
    BY <1>1, <2>a
  <2>2. Len(commits) \in DOMAIN commits /\ Working' = commits[Len(commits)]
    BY <1>2, <1>4, <2>b DEF HeadTree, Last
  <2> QED
    BY <1>1, <2>1, <2>2 DEF Grows
<1>5. CASE git /\ Working' # HeadTree
  <2> PICK w \in Tree : w = Working'
    OBVIOUS
  <2> DEFINE n == Len(commits)
  <2>1. commits' = Append(commits, w)
    BY <1>5 DEF Committed
  <2>2. /\ commits' \in Seq(Tree) /\ commits' # <<>> /\ DOMAIN commits' = 1..n + 1
        /\ commits'[n + 1] = w /\ \A i \in 1..n : commits'[i] = commits[i]
    BY <1>1, <2>1
  <2> HIDE DEF n
  <2>3. n \in Nat /\ DOMAIN commits = 1..n
    BY <1>2 DEF n
  <2>4. \A i \in DOMAIN commits' : commits'[i] = w \/ \E j \in DOMAIN commits : commits'[i] = commits[j]
    <3> SUFFICES ASSUME NEW i \in 1..n + 1
                 PROVE  commits'[i] = w \/ \E j \in 1..n : commits'[i] = commits[j]
      BY <2>2, <2>3
    <3>1. CASE i = n + 1
      BY <2>2, <3>1
    <3>2. CASE i \in 1..n
      BY <2>2, <3>2
    <3> QED
      BY <2>3, <3>1, <3>2
  <2>5. \A j \in DOMAIN commits : \E i \in DOMAIN commits' : commits'[i] = commits[j]
    <3> SUFFICES ASSUME NEW j \in 1..n
                 PROVE  \E i \in 1..n + 1 : commits'[i] = commits[j]
      BY <2>2, <2>3
    <3>1. j \in 1..n + 1
      BY <2>3
    <3> QED
      BY <2>2, <3>1
  <2>6. n + 1 \in DOMAIN commits'
    BY <2>2, <2>3
  <2>7. git' = (commits' # <<>>)
    BY <1>5, <2>2
  <2> QED
    BY <2>2, <2>4, <2>5, <2>6, <2>7 DEF Grows
<1> QED
  BY <1>3, <1>4, <1>5

\* The end of a run: the journal is compacted; the workspace is committed, and
\* with it what the run has learned.
LEMMA RunEnds ==
  ASSUME DreamOK, NEW fails \in BOOLEAN, CommitAndCompact(dreamCursor', fails),
         Working' \in Tree, UNCHANGED <<counter, memory, git, born>>
  PROVE  /\ FilesOK' /\ Keeps /\ NextCursor <= NextCursor' /\ Grows
         /\ git /\ ~fails => \E i \in DOMAIN commits' : commits'[i].memory = memory
<1>1. FilesOK' /\ Keeps /\ NextCursor <= NextCursor'
  BY FilesCompact DEF DreamOK, CommitAndCompact
<1>2. Working' = [memory |-> memory, cursor |-> dreamCursor']
  BY DEF Working
<1>3. CASE fails
  <2>1. commits' = commits
    BY <1>3 DEF CommitAndCompact
  <2> QED
    BY <1>1, <1>3, <2>1, SameCommits
<1>4. CASE ~fails
  <2>1. commits' = Committed(Working')
    BY <1>2, <1>4 DEF CommitAndCompact
  <2>2. Grows /\ (git => \E i \in DOMAIN commits' : commits'[i] = Working')
    BY <2>1, Committing
  <2> QED
    BY <1>1, <1>2, <2>2
<1> QED
  BY <1>3, <1>4

LEMMA RunsMore ==
  ASSUME DreamOK, run' = run, memory \subseteq memory', excused \subseteq excused',
         born' \in Nat, born <= born'
  PROVE  /\ run' = [d \in Dreamer |-> run'[d]]
         /\ \A d \in Dreamer : RunFits(run'[d], memory', excused', born')
<1>1. \A d \in Dreamer : RunFits(run[d], memory, excused, born)
  BY DEF DreamOK, RunsOK
<1>2. born \in Nat
  BY DEF DreamOK, FilesOK
<1>3. \A d \in Dreamer : RunFits(run[d], memory', excused', born')
  BY <1>1, <1>2, RunFitsMore
<1>4. run' = [d \in Dreamer |-> run'[d]]
  BY DEF DreamOK, RunsOK
<1> QED
  BY <1>3, <1>4

\* One run changes, the others go on.
LEMMA RunsBut ==
  ASSUME DreamOK, NEW d \in Dreamer, NEW r, run' = [run EXCEPT ![d] = r],
         memory \subseteq memory', excused \subseteq excused', born' = born,
         RunFits(r, memory', excused', born')
  PROVE  /\ run' = [e \in Dreamer |-> run'[e]]
         /\ \A e \in Dreamer : RunFits(run'[e], memory', excused', born')
<1>1. \A e \in Dreamer : RunFits(run[e], memory, excused, born)
  BY DEF DreamOK, RunsOK
<1>2. born \in Nat /\ born' \in Nat /\ born <= born'
  BY DEF DreamOK, FilesOK
<1>3. \A e \in Dreamer : RunFits(run[e], memory', excused', born')
  BY <1>1, <1>2, RunFitsMore
<1>4. run = [e \in Dreamer |-> run[e]]
  BY DEF DreamOK, RunsOK
<1>5. run' = [e \in Dreamer |-> IF e = d THEN r ELSE run[e]]
  BY <1>4
<1>6. run' = [e \in Dreamer |-> run'[e]]
  BY <1>5
<1>7. \A e \in Dreamer : run'[e] = IF e = d THEN r ELSE run[e]
  BY <1>5
<1> QED
  BY <1>3, <1>6, <1>7

\* No run survives a kill.
LEMMA RunsNone ==
  ASSUME DreamOK, run' = [d \in Dreamer |-> NoRun], born' \in Nat
  PROVE  /\ run' = [d \in Dreamer |-> run'[d]]
         /\ \A d \in Dreamer : RunFits(run'[d], memory', excused', born')
<1>1. RunFits(NoRun, memory', excused', born')
  BY NoRunFits DEF DreamOK
<1> QED
  BY <1>1

\* The cursor of the workspace stays, and all that was accounted for is.
LEMMA WorkingKnown ==
  ASSUME DreamOK, dreamCursor' = dreamCursor, memory' \in Memories,
         memory \cup excused \subseteq memory' \cup excused', born' \in Nat, born <= born'
  PROVE  TreeFits(Working', excused', born')
<1>1. TreeFits(Working, excused, born) /\ born \in Nat
  BY DEF DreamOK, FilesOK
<1>2. Working = [memory |-> memory, cursor |-> dreamCursor]
      /\ Working' = [memory |-> memory', cursor |-> dreamCursor]
  BY DEF Working
<1>3. dreamCursor \in Nat /\ dreamCursor <= born
      /\ (recounted \/ Passed(dreamCursor, memory \cup excused))
  BY <1>1, <1>2 DEF TreeFits, Tree
<1>4. recounted \/ Passed(dreamCursor, memory' \cup excused')
  BY <1>3, PassedMore
<1>5. Working' \in Tree /\ dreamCursor <= born'
  BY <1>1, <1>2, <1>3 DEF Tree
<1> QED
  BY <1>2, <1>4, <1>5 DEF TreeFits

LEMMA WorkingMore ==
  ASSUME DreamOK, dreamCursor' = dreamCursor, memory \subseteq memory', memory' \in Memories,
         excused \subseteq excused', born' \in Nat, born <= born'
  PROVE  TreeFits(Working', excused', born')
<1>1. memory \cup excused \subseteq memory' \cup excused'
  OBVIOUS
<1> QED
  BY <1>1, WorkingKnown

\* The cursor of the workspace goes to c.
LEMMA WorkingAt ==
  ASSUME DreamOK, NEW c \in Nat, dreamCursor' = c, c <= born', memory' = memory,
         recounted \/ Passed(c, memory \cup excused')
  PROVE  TreeFits(Working', excused', born')
<1>1. memory \in Memories
  BY DEF DreamOK, TreeFits, Tree, Working
<1>2. Working' = [memory |-> memory, cursor |-> c]
  BY DEF Working
<1>3. Working' \in Tree
  BY <1>1, <1>2 DEF Tree
<1> QED
  BY <1>2, <1>3 DEF TreeFits

LEMMA WorkingTyped ==
  ASSUME DreamOK
  PROVE  memory \in Memories /\ dreamCursor \in Nat /\ dreamCursor <= born /\ Working \in Tree
BY DEF DreamOK, TreeFits, Tree, Working

-----------------------------------------------------------------------------
(* The actions. *)

LEMMA StepAppendHistory ==
  ASSUME DreamOK, AppendHistory
  PROVE  DreamOK'
<1>1. FilesOK /\ recounted \in BOOLEAN /\ born \in Nat
  BY DEF DreamOK, FilesOK
<1>2. NextCursor \in 1..born + 1
  BY <1>1, NextAbove
<1>3. /\ born' = born + 1 /\ torn' = FALSE /\ counter' = NextCursor /\ recounted' = recounted
      /\ file' = Extended([cursor |-> NextCursor, entry |-> born + 1])
      /\ run' = run /\ memory' = memory /\ excused' = excused /\ dreamCursor' = dreamCursor
      /\ settled' = settled /\ UNCHANGED <<git, commits>>
  BY DEF AppendHistory
<1>4. FilesOK' /\ Keeps
  <2>1. counter' \in 0..born'
    BY <1>1, <1>2, <1>3
  <2> QED
    BY <1>1, <1>3, <2>1, FilesAppend
<1>5. NextCursor <= NextCursor'
  <2>1. counter' < NextCursor' /\ NextCursor' \in 1..born' + 1
    BY <1>4, NextAboveThen
  <2> QED
    BY <1>1, <1>2, <1>3, <2>1
<1>6. born' \in Nat /\ born <= born'
  BY <1>1, <1>3
<1>7. TreeFits(Working', excused', born')
  BY <1>3, <1>6, WorkingTyped, WorkingMore
<1>8. /\ run' = [d \in Dreamer |-> run'[d]]
      /\ \A d \in Dreamer : RunFits(run'[d], memory', excused', born')
  BY <1>3, <1>6, RunsMore
<1>9. Grows
  BY <1>3, SameCommits
<1> QED
  BY <1>1, <1>3, <1>4, <1>5, <1>6, <1>7, <1>8, <1>9, StepOK

LEMMA StepTurnEdit ==
  ASSUME DreamOK, TurnEdit
  PROVE  DreamOK'
<1>1. FilesOK /\ recounted \in BOOLEAN /\ born \in Nat
  BY DEF DreamOK, FilesOK
<1>2. /\ memory' = memory \cup {Note} /\ run' = run /\ excused' = excused
      /\ dreamCursor' = dreamCursor /\ settled' = settled /\ recounted' = recounted
      /\ born' = born /\ UNCHANGED <<file, torn, counter, born>> /\ UNCHANGED <<git, commits>>
  BY DEF TurnEdit
<1>3. FilesOK' /\ Keeps /\ NextCursor <= NextCursor'
  BY <1>1, <1>2, FilesSame
<1>4. memory' \in Memories
  BY <1>2, WorkingTyped DEF Memories
<1>5. TreeFits(Working', excused', born')
  BY <1>1, <1>2, <1>4, WorkingMore
<1>6. /\ run' = [d \in Dreamer |-> run'[d]]
      /\ \A d \in Dreamer : RunFits(run'[d], memory', excused', born')
  BY <1>1, <1>2, RunsMore
<1>7. Grows
  BY <1>2, SameCommits
<1> QED
  BY <1>1, <1>2, <1>3, <1>5, <1>6, <1>7, StepOK

LEMMA StepStartWithoutDream ==
  ASSUME DreamOK, StartWithoutDream
  PROVE  DreamOK'
<1>1. FilesOK /\ recounted \in BOOLEAN /\ born \in Nat
  BY DEF DreamOK, FilesOK
<1>2. /\ memory' = memory /\ run' = run /\ dreamCursor' = NextCursor - 1
      /\ excused' = excused \cup {l.entry : l \in ToSet(file)}
      /\ settled' = settled /\ recounted' = recounted
      /\ born' = born /\ UNCHANGED <<file, torn, counter, born>> /\ UNCHANGED <<git, commits>>
  BY DEF StartWithoutDream
<1>3. FilesOK' /\ Keeps /\ NextCursor <= NextCursor'
  BY <1>1, <1>2, FilesSame
<1> PICK c \in Nat : c = NextCursor - 1 /\ c <= born /\ c < NextCursor
  <2>1. NextCursor \in 1..born + 1
    BY <1>1, NextAbove
  <2> QED
    BY <1>1, <2>1
<1>4. Passed(c, memory \cup excused')
  <2>1. \A i \in Readable : file[i].entry \in excused'
    <3> TAKE i \in Readable
    <3>1. i \in DOMAIN file
      BY DEF Readable
    <3>2. file[i] \in ToSet(file)
      BY <3>1 DEF ToSet
    <3> QED
      BY <1>2, <3>2
  <2> QED
    BY <2>1 DEF Passed
<1>5. TreeFits(Working', excused', born')
  BY <1>2, <1>4, WorkingAt
<1>a. excused \subseteq excused' /\ born <= born' /\ memory \subseteq memory'
  BY <1>1, <1>2
<1>6. /\ run' = [d \in Dreamer |-> run'[d]]
      /\ \A d \in Dreamer : RunFits(run'[d], memory', excused', born')
  BY <1>1, <1>2, <1>a, RunsMore
<1>7. Grows
  BY <1>2, SameCommits
<1> QED
  BY <1>1, <1>2, <1>3, <1>5, <1>6, <1>7, <1>a, StepOK

LEMMA StepKillInCursor ==
  ASSUME DreamOK, KillInCursor
  PROVE  DreamOK'
<1>1. FilesOK /\ recounted \in BOOLEAN /\ born \in Nat
  BY DEF DreamOK, FilesOK
<1>2. /\ memory' = memory /\ run' = [e \in Dreamer |-> NoRun] /\ dreamCursor' = 0
      /\ excused' = excused /\ settled' = settled /\ recounted' = recounted
      /\ born' = born /\ UNCHANGED <<file, torn, counter, born>> /\ UNCHANGED <<git, commits>>
  BY DEF KillInCursor, Killed
<1>3. FilesOK' /\ Keeps /\ NextCursor <= NextCursor'
  BY <1>1, <1>2, FilesSame
<1>4. TreeFits(Working', excused', born')
  <2>1. Passed(0, memory \cup excused')
    BY <1>1, PassedNothing
  <2> QED
    BY <1>1, <1>2, <2>1, WorkingAt
<1>5. /\ run' = [e \in Dreamer |-> run'[e]]
      /\ \A e \in Dreamer : RunFits(run'[e], memory', excused', born')
  BY <1>1, <1>2, RunsNone
<1>6. Grows
  BY <1>2, SameCommits
<1> QED
  BY <1>1, <1>2, <1>3, <1>4, <1>5, <1>6, StepOK

LEMMA StepKillInAppend ==
  ASSUME DreamOK, KillInAppend
  PROVE  DreamOK'
<1>1. FilesOK /\ recounted \in BOOLEAN /\ born \in Nat /\ counter \in 0..born
  BY DEF DreamOK, FilesOK
<1>2. /\ memory' = memory /\ run' = [d \in Dreamer |-> NoRun] /\ dreamCursor' = dreamCursor
      /\ excused' = excused /\ settled' = settled /\ born' = born + 1
      /\ recounted' = (recounted \/ NextCursor' < NextCursor) /\ UNCHANGED <<git, commits>>
  BY DEF KillInAppend, Killed
<1>3. born' \in Nat /\ born <= born'
  BY <1>1, <1>2
<1>4. FilesOK' /\ Keeps
  <2>1. CASE file' = Extended(Bad) /\ torn' = TRUE /\ counter' = counter
    <3>1. counter' \in 0..born'
      BY <1>1, <1>2, <2>1
    <3> QED
      BY <1>1, <1>2, <2>1, <3>1, FilesAppend
  <2>2. CASE /\ file' = Extended([cursor |-> NextCursor, entry |-> born + 1])
             /\ torn' = FALSE /\ counter' \in {counter, 0}
    <3>1. counter' \in 0..born'
      BY <1>1, <1>2, <2>2
    <3> QED
      BY <1>1, <1>2, <2>2, <3>1, FilesAppend
  <2> QED
    BY <2>1, <2>2 DEF KillInAppend
<1>5. recounted' \in BOOLEAN /\ (recounted' \/ (~recounted /\ NextCursor <= NextCursor'))
  <2>1. NextCursor \in 1..born + 1 /\ NextCursor' \in 1..born' + 1
    BY <1>1, <1>4, NextAbove, NextAboveThen
  <2> DEFINE m == NextCursor
             n == NextCursor'
  <2>2. m \in Nat /\ n \in Nat
    BY <1>1, <1>3, <2>1
  <2>3. recounted' = (recounted \/ n < m)
    BY <1>2
  <2> HIDE DEF m, n
  <2>4. n < m \/ m <= n
    BY <2>2
  <2>6. recounted' \in BOOLEAN
    BY <2>3
  <2>7. CASE m <= n
    BY <1>1, <2>3, <2>6, <2>7 DEF m, n
  <2>8. CASE n < m
    BY <2>3, <2>6, <2>8 DEF m, n
  <2> QED
    BY <2>4, <2>7, <2>8
<1>6. TreeFits(Working', excused', born')
  BY <1>2, <1>3, WorkingTyped, WorkingMore
<1>7. /\ run' = [d \in Dreamer |-> run'[d]]
      /\ \A d \in Dreamer : RunFits(run'[d], memory', excused', born')
  BY <1>2, <1>3, RunsNone
<1>8. Grows
  BY <1>2, SameCommits
<1> QED
  BY <1>2, <1>3, <1>4, <1>5, <1>6, <1>7, <1>8, StepOK

\* What was behind the cursor is accounted for; what is between it and the end
\* of the batch is the batch, because the batch is the oldest of it.
LEMMA BatchFits ==
  ASSUME DreamOK, Unprocessed # {}
  PROVE  RunFits([phase |-> "turn",
                  batch |-> {file[i].entry : i \in Oldest(Unprocessed, BatchSize)},
                  last |-> file[Max(Oldest(Unprocessed, BatchSize))].cursor,
                  learned |-> {}], memory, excused, born)
<1> DEFINE U == Unprocessed
           B == Oldest(U, BatchSize)
           m == Max(B)
           n == Len(file)
<1>1. FilesOK /\ born \in Nat /\ OrderOK
  BY DEF DreamOK, FilesOK
<1>2. /\ n \in Nat /\ DOMAIN file = 1..n
      /\ \A i \in Readable : /\ i \in DOMAIN file /\ i \in Nat
                             /\ file[i].entry \in 1..born /\ file[i].cursor \in 1..born
  BY <1>1, LinesTyped
<1>3. U \in SUBSET (1..n) /\ U \subseteq Readable
  BY <1>2 DEF Unprocessed
<1>a. B = {i \in U : RankIn(U, i) <= BatchSize}
  BY DEF Oldest, RankIn
<1>b. BatchSize \in Nat /\ 1 <= BatchSize
  BY DreamAssumption
<1>u. U # {} /\ U = {i \in Readable : file[i].cursor > dreamCursor}
  BY DEF Unprocessed
<1> HIDE DEF U, B, n
<1>4. B # {}
  <2>1. \A i \in U : i \in Nat
    BY <1>3
  <2>2. PICK i \in U : \A j \in U : i <= j
    BY <1>u, <2>1, LeastElement
  <2>3. {j \in U : j <= i} = {i}
    BY <2>1, <2>2
  <2>4. RankIn(U, i) = 1
    BY <2>3, FS_Singleton DEF RankIn
  <2> QED
    BY <1>a, <1>b, <2>2, <2>4
<1>5. m \in B /\ \A i \in B : i <= m
  <2>1. B \in SUBSET (0..n)
    <3>1. B \subseteq U
      BY <1>a
    <3> QED
      BY <1>2, <1>3, <3>1
  <2> QED
    BY <1>2, <1>4, <2>1, GreatestElement
<1> HIDE DEF m
<1>6. m \in U /\ RankIn(U, m) <= BatchSize /\ m \in Readable
  BY <1>a, <1>3, <1>5
<1>7. ASSUME NEW i \in U, file[i].cursor <= file[m].cursor
      PROVE  i \in B
  <2>1. i \in Readable /\ i \in Nat /\ m \in Nat
    BY <1>2, <1>3, <1>6
  <2>2. ~ (m < i)
    <3>1. m < i => file[m].cursor < file[i].cursor
      BY <1>1, <1>6, <2>1 DEF OrderOK
    <3> PICK x \in Nat : x = file[m].cursor
      BY <1>1, <1>2, <1>6
    <3> PICK y \in Nat : y = file[i].cursor
      BY <1>1, <1>2, <2>1
    <3>2. y <= x
      BY <1>7
    <3> QED
      BY <3>1, <3>2
  <2>3. CASE i = m
    BY <1>5, <2>3
  <2>4. CASE i < m
    <3>1. RankIn(U, i) < RankIn(U, m) /\ RankIn(U, i) \in 1..Cardinality(U)
          /\ RankIn(U, m) \in 1..Cardinality(U) /\ Cardinality(U) \in Nat
      BY <1>2, <1>3, <1>6, <2>4, RankStrict
    <3> PICK x \in Nat : x = RankIn(U, i)
      BY <3>1
    <3> PICK y \in Nat : y = RankIn(U, m)
      BY <3>1
    <3>2. x < y /\ y <= BatchSize
      BY <1>6, <3>1
    <3>3. x <= BatchSize
      BY <1>b, <3>2
    <3> QED
      BY <1>a, <3>3
  <2> QED
    BY <2>1, <2>2, <2>3, <2>4
<1> DEFINE K == {file[i].entry : i \in B}
           c == file[m].cursor
<1>8. c \in Nat /\ c <= born /\ c < NextCursor
  BY <1>1, <1>2, <1>6, NextAbove
<1>9. K \subseteq 1..born
  <2>1. B \subseteq Readable
    BY <1>a, <1>3
  <2> QED
    BY <1>2, <2>1
<1>10. recounted \/ Passed(c, K \cup memory \cup excused)
  <2>1. CASE recounted
    BY <2>1
  <2>2. CASE ~recounted
    <3>1. Passed(dreamCursor, memory \cup excused)
      BY <2>2 DEF DreamOK, TreeFits, Working
    <3>d. dreamCursor \in Nat
      BY WorkingTyped
    <3>2. ASSUME NEW i \in Readable, file[i].cursor <= c
          PROVE  file[i].entry \in K \cup memory \cup excused
      <4>1. CASE file[i].cursor <= dreamCursor
        BY <3>1, <4>1 DEF Passed
      <4>2. CASE ~ (file[i].cursor <= dreamCursor)
        <5>1. file[i].cursor \in Nat
          BY <1>1, <1>2
        <5>2. i \in U
          BY <1>u, <3>d, <4>2, <5>1
        <5>3. i \in B
          BY <1>7, <3>2, <5>2
        <5> QED
          BY <5>3
      <4> QED
        BY <4>1, <4>2
    <3> QED
      BY <1>8, <3>2 DEF Passed
  <2> QED
    BY <2>1, <2>2
<1> HIDE DEF K, c
<1> DEFINE r == [phase |-> "turn", batch |-> K, last |-> c, learned |-> {}]
<1>11. K \in SUBSET Nat
  BY <1>1, <1>9
<1>12. r \in Run
  BY <1>8, <1>11 DEF Run
<1>13. r.batch = K /\ r.last = c /\ r.learned = {}
  OBVIOUS
<1>14. RunFits(r, memory, excused, born)
  <2> HIDE DEF r
  <2> QED
    BY <1>8, <1>9, <1>10, <1>12, <1>13 DEF RunFits
<1> QED
  BY <1>14 DEF K, c, m, B, U

LEMMA StepBeginDream ==
  ASSUME DreamOK, NEW d \in Dreamer, BeginDream(d)
  PROVE  DreamOK'
<1> DEFINE r == [phase |-> "turn",
                 batch |-> {file[i].entry : i \in Oldest(Unprocessed, BatchSize)},
                 last |-> file[Max(Oldest(Unprocessed, BatchSize))].cursor,
                 learned |-> {}]
<1>1. FilesOK /\ recounted \in BOOLEAN /\ born \in Nat
  BY DEF DreamOK, FilesOK
<1>2. /\ memory' = memory /\ dreamCursor' = dreamCursor
      /\ excused' = excused /\ settled' = settled /\ recounted' = recounted
      /\ born' = born /\ UNCHANGED <<file, torn, counter, born>> /\ UNCHANGED <<git, commits>>
      /\ run' = [run EXCEPT ![d] = r] /\ Unprocessed # {}
  BY DEF BeginDream
<1>3. FilesOK' /\ Keeps /\ NextCursor <= NextCursor'
  BY <1>1, <1>2, FilesSame
<1>4. TreeFits(Working', excused', born')
  BY <1>1, <1>2, WorkingTyped, WorkingMore
<1>5. RunFits(r, memory', excused', born')
  BY <1>2, BatchFits
<1> HIDE DEF r
<1>6. /\ run' = [e \in Dreamer |-> run'[e]]
      /\ \A e \in Dreamer : RunFits(run'[e], memory', excused', born')
  BY <1>2, <1>5, RunsBut
<1>7. Grows
  BY <1>2, SameCommits
<1> QED
  BY <1>1, <1>2, <1>3, <1>4, <1>6, <1>7, StepOK

LEMMA StepNothingToDream ==
  ASSUME DreamOK, NEW d \in Dreamer, NothingToDream(d)
  PROVE  DreamOK'
<1>1. FilesOK /\ recounted \in BOOLEAN /\ born \in Nat
  BY DEF DreamOK, FilesOK
<1>2. /\ memory' = memory /\ run' = run /\ dreamCursor' = dreamCursor
      /\ excused' = excused /\ settled' = settled /\ recounted' = recounted
      /\ born' = born /\ UNCHANGED <<counter, memory, git, born>>
  BY DEF NothingToDream
<1> PICK fails \in BOOLEAN : CommitAndCompact(dreamCursor, fails)
  BY DEF NothingToDream
<1>3. Working' \in Tree
  BY <1>2, WorkingTyped DEF Working
<1>4. CommitAndCompact(dreamCursor', fails)
  BY <1>2
<1>5. FilesOK' /\ Keeps /\ NextCursor <= NextCursor' /\ Grows
  BY <1>2, <1>3, <1>4, RunEnds
<1>6. TreeFits(Working', excused', born')
  BY <1>1, <1>2, WorkingTyped, WorkingMore
<1>7. /\ run' = [e \in Dreamer |-> run'[e]]
      /\ \A e \in Dreamer : RunFits(run'[e], memory', excused', born')
  BY <1>1, <1>2, RunsMore
<1> QED
  BY <1>1, <1>2, <1>5, <1>6, <1>7, StepOK

LEMMA StepDreamEdit ==
  ASSUME DreamOK, NEW d \in Dreamer, DreamEdit(d)
  PROVE  DreamOK'
<1>1. FilesOK /\ recounted \in BOOLEAN /\ born \in Nat
  BY DEF DreamOK, FilesOK
<1>2. /\ excused' = excused /\ settled' = settled /\ recounted' = recounted
      /\ dreamCursor' = dreamCursor /\ born' = born
      /\ UNCHANGED <<file, torn, counter, born>> /\ UNCHANGED <<git, commits>>
  BY DEF DreamEdit
<1> PICK e \in run[d].batch \ memory :
      /\ memory' = memory \cup {e}
      /\ run' = [run EXCEPT ![d].learned = @ \cup {e}]
  BY DEF DreamEdit
<1> PICK o : o = run[d]
  OBVIOUS
<1> DEFINE r == [o EXCEPT !.learned = @ \cup {e}]
<1>3. FilesOK' /\ Keeps /\ NextCursor <= NextCursor'
  BY <1>1, <1>2, FilesSame
<1>4. RunFits(o, memory, excused, born)
  BY DEF DreamOK, RunsOK
<1>5. o \in Run /\ o.learned \subseteq o.batch /\ o.learned \subseteq memory
      /\ o.batch \subseteq 1..born /\ o.last <= born
      /\ (recounted \/ Passed(o.last, o.batch \cup memory \cup excused))
  BY <1>4 DEF RunFits
<1>6. e \in 1..born /\ e \in Nat
  BY <1>1, <1>5
<1>7. memory' \in Memories
  BY <1>6, WorkingTyped DEF Memories
<1>8. TreeFits(Working', excused', born')
  BY <1>1, <1>2, <1>7, WorkingMore
<1>9. r \in Run /\ r.batch = o.batch /\ r.last = o.last /\ r.learned = o.learned \cup {e}
  BY <1>5, <1>6 DEF Run
<1>10. RunFits(r, memory', excused', born')
  <2>1. o.batch \cup memory \cup excused \subseteq r.batch \cup memory' \cup excused'
    BY <1>2, <1>9
  <2> HIDE DEF r
  <2>2. recounted \/ Passed(r.last, r.batch \cup memory' \cup excused')
    BY <1>5, <1>9, <2>1, PassedMore
  <2>3. r.learned \subseteq r.batch /\ r.learned \subseteq memory'
    BY <1>5, <1>9
  <2> QED
    BY <1>2, <1>5, <1>9, <2>2, <2>3 DEF RunFits
<1>11. run' = [run EXCEPT ![d] = r]
  OBVIOUS
<1> HIDE DEF r
<1>12. memory \subseteq memory'
  OBVIOUS
<1>13. /\ run' = [x \in Dreamer |-> run'[x]]
       /\ \A x \in Dreamer : RunFits(run'[x], memory', excused', born')
  BY <1>2, <1>10, <1>11, <1>12, RunsBut
<1>14. Grows
  BY <1>2, SameCommits
<1>15. /\ recounted' \in BOOLEAN /\ born <= born' /\ excused \subseteq excused'
       /\ recounted' \/ (~recounted /\ NextCursor <= NextCursor')
       /\ \A x \in settled' : x \in settled \/ \E i \in DOMAIN commits' : x \in commits'[i].memory
  BY <1>1, <1>2, <1>3
<1> QED
  BY <1>3, <1>8, <1>13, <1>14, <1>15, StepOK, Zenon

\* When a run is over, its batch is accounted for if the cursor moves to its
\* end, and what it has learned is in memory, and so in the commit.
LEMMA RunLeaves ==
  ASSUME DreamOK, NEW d \in Dreamer, NEW fails \in BOOLEAN,
         CommitAndCompact(dreamCursor', fails), Settle(d, fails),
         run' = [run EXCEPT ![d] = NoRun], excused \subseteq excused',
         UNCHANGED <<counter, memory, git, born, recounted>>,
         TreeFits(Working', excused', born')
  PROVE  DreamOK'
<1>1. FilesOK /\ recounted \in BOOLEAN /\ born \in Nat
  BY DEF DreamOK, FilesOK
<1>2. memory' = memory /\ recounted' = recounted /\ born' = born
      /\ UNCHANGED <<counter, memory, git, born>>
  OBVIOUS
<1>3. Working' \in Tree
  BY DEF TreeFits
<1>4. FilesOK' /\ Keeps /\ NextCursor <= NextCursor' /\ Grows
  BY <1>2, <1>3, RunEnds
<1>5. git /\ ~fails => \E i \in DOMAIN commits' : commits'[i].memory = memory
  BY <1>2, <1>3, RunEnds
<1>6. run[d].learned \subseteq memory
  BY DEF DreamOK, RunsOK, RunFits
<1>7. \A e \in settled' : e \in settled \/ \E i \in DOMAIN commits' : e \in commits'[i].memory
  <2>1. CASE git /\ ~fails
    <3>1. settled' = settled \cup run[d].learned
      BY <2>1 DEF Settle
    <3> QED
      BY <1>5, <1>6, <2>1, <3>1
  <2>2. CASE ~ (git /\ ~fails)
    BY <2>2 DEF Settle
  <2> QED
    BY <2>1, <2>2
<1>8. RunFits(NoRun, memory', excused', born')
  BY <1>1, <1>2, NoRunFits
<1>9. /\ run' = [e \in Dreamer |-> run'[e]]
      /\ \A e \in Dreamer : RunFits(run'[e], memory', excused', born')
  BY <1>2, <1>8, RunsBut
<1> QED
  BY <1>1, <1>2, <1>4, <1>7, <1>9, StepOK

LEMMA StepEndDream ==
  ASSUME DreamOK, NEW d \in Dreamer, EndDream(d)
  PROVE  DreamOK'
<1> PICK completed \in BOOLEAN, fails \in BOOLEAN :
      LET productive == ContentDiff \/ (~git /\ completed)
          cursor == IF productive THEN run[d].last ELSE dreamCursor
      IN  /\ dreamCursor' = cursor
          /\ CommitAndCompact(cursor, fails)
          /\ Settle(d, fails)
          /\ excused' = IF productive THEN excused \cup (run[d].batch \ memory) ELSE excused
  BY DEF EndDream
<1> DEFINE productive == ContentDiff \/ (~git /\ completed)
<1>1. /\ dreamCursor' = IF productive THEN run[d].last ELSE dreamCursor
      /\ excused' = IF productive THEN excused \cup (run[d].batch \ memory) ELSE excused
      /\ CommitAndCompact(dreamCursor', fails) /\ Settle(d, fails)
  OBVIOUS
<1> HIDE DEF productive
<1>2. born \in Nat /\ memory' = memory /\ run' = [run EXCEPT ![d] = NoRun] /\ born' = born
      /\ UNCHANGED <<counter, memory, git, born, recounted>>
  BY DEF DreamOK, FilesOK, EndDream
<1>3. TreeFits(Working', excused', born')
  <2>1. CASE productive
    <3> PICK o : o = run[d]
      OBVIOUS
    <3>1. RunFits(o, memory, excused, born)
      BY DEF DreamOK, RunsOK
    <3>2. o.last \in Nat /\ o.last <= born
          /\ (recounted \/ Passed(o.last, o.batch \cup memory \cup excused))
      BY <3>1 DEF RunFits, Run
    <3>3. dreamCursor' = o.last /\ excused' = excused \cup (o.batch \ memory)
      BY <1>1, <2>1
    <3>4. o.batch \cup memory \cup excused \subseteq memory \cup excused'
      BY <3>3
    <3>5. recounted \/ Passed(o.last, memory \cup excused')
      BY <3>2, <3>4, PassedMore
    <3> QED
      BY <1>2, <3>2, <3>3, <3>5, WorkingAt
  <2>2. CASE ~productive
    <3>1. dreamCursor' = dreamCursor /\ excused' = excused
      BY <1>1, <2>2
    <3> QED
      BY <1>2, <3>1, WorkingTyped, WorkingMore
  <2> QED
    BY <2>1, <2>2
<1>4. excused \subseteq excused'
  BY <1>1
<1> QED
  BY <1>1, <1>2, <1>3, <1>4, RunLeaves

LEMMA StepAbortDream ==
  ASSUME DreamOK, NEW d \in Dreamer, AbortDream(d)
  PROVE  DreamOK'
<1> PICK fails \in BOOLEAN : CommitAndCompact(dreamCursor', fails) /\ Settle(d, fails)
  BY DEF AbortDream
<1>1. /\ excused' = excused /\ memory' = memory /\ born' = born
      /\ born \in Nat /\ run' = [run EXCEPT ![d] = NoRun]
      /\ UNCHANGED <<counter, memory, git, born, recounted>>
  BY DEF DreamOK, FilesOK, AbortDream
<1>2. dreamCursor' = dreamCursor \/ dreamCursor' = 0
  BY DEF AbortDream
<1>3. TreeFits(Working', excused', born')
  <2>1. CASE dreamCursor' = dreamCursor
    BY <1>1, <2>1, WorkingTyped, WorkingMore
  <2>2. CASE dreamCursor' = 0
    <3>1. Passed(0, memory \cup excused')
      BY PassedNothing DEF DreamOK
    <3>2. 0 \in Nat /\ 0 <= born'
      BY <1>1
    <3> QED
      BY <1>1, <2>2, <3>1, <3>2, WorkingAt
  <2> QED
    BY <1>2, <2>1, <2>2
<1> QED
  BY <1>1, <1>3, RunLeaves

\* What a run's cursor would pass counts as ahead of it.
LEMMA AheadHolds ==
  ASSUME NEW r, NEW d \in Dreamer, NEW i \in Readable, file[i].cursor <= r[d].last
  PROVE  file[i].entry \in Ahead(r)
<1>1. file[i] \in ToSet(file)
  BY DEF Readable, ToSet
<1> QED
  BY <1>1 DEF Ahead

\* A run goes on when some of what it learned is gone from the memory files.
LEMMA RunLearnsLess ==
  ASSUME NEW o, NEW m, NEW x, NEW b, RunFits(o, m, x, b),
         NEW n, NEW y, recounted \/ Passed(o.last, o.batch \cup n \cup y)
  PROVE  /\ RunFits([o EXCEPT !.learned = @ \cap n], n, y, b)
         /\ RunFits([o EXCEPT !.learned = {}], n, y, b)
<1>1. o \in Run /\ o.learned \subseteq o.batch /\ o.batch \subseteq 1..b /\ o.last <= b
  BY DEF RunFits
<1>2. ASSUME NEW s \in SUBSET o.learned, s \subseteq n
      PROVE  RunFits([o EXCEPT !.learned = s], n, y, b)
  <2> DEFINE r == [o EXCEPT !.learned = s]
  <2>1. r \in Run /\ r.batch = o.batch /\ r.last = o.last /\ r.learned = s
    BY <1>1 DEF Run
  <2> HIDE DEF r
  <2>2. RunFits(r, n, y, b)
    BY <1>1, <1>2, <2>1 DEF RunFits
  <2> QED
    BY <2>2 DEF r
<1>3. o.learned \cap n \in SUBSET o.learned /\ o.learned \cap n \subseteq n
  OBVIOUS
<1>4. {} \in SUBSET o.learned /\ {} \subseteq n
  OBVIOUS
<1> QED
  BY <1>2, <1>3, <1>4, Zenon

\* A version comes back.  The runs in flight go on without what they learned;
\* all that their cursors would pass is excused.
LEMMA StepDreamRestore ==
  ASSUME DreamOK, NEW k \in 1..Len(commits), DreamRestore(k)
  PROVE  DreamOK'
<1>1. FilesOK /\ recounted \in BOOLEAN /\ born \in Nat /\ commits \in Seq(Tree)
  BY DEF DreamOK, FilesOK, CommitsOK
<1>2. k \in 2..Len(commits) /\ k - 1 \in DOMAIN commits
  BY <1>1 DEF DreamRestore
<1> PICK t \in Tree : t = commits[k - 1] /\ TreeFits(t, excused, born)
  BY <1>1, <1>2 DEF DreamOK, CommitsOK
<1>3. /\ memory' = t.memory /\ dreamCursor' = t.cursor /\ commits' = Committed(t)
      /\ excused' = excused \cup Ahead(run)
      /\ run' = [d \in Dreamer |-> [run[d] EXCEPT !.learned = {}]]
      /\ git' = git /\ settled' = settled /\ recounted' = recounted /\ born' = born
      /\ UNCHANGED <<file, torn, counter, born>>
  BY DEF DreamRestore
<1>4. FilesOK' /\ Keeps /\ NextCursor <= NextCursor'
  BY <1>1, <1>3, FilesSame
<1>5. Working' = t
  BY <1>3 DEF Working, Tree
<1>6. Grows
  BY <1>3, <1>5, Committing
<1>8. excused \subseteq excused'
  BY <1>3
<1>9. TreeFits(Working', excused', born')
  BY <1>1, <1>3, <1>5, <1>8, TreeFitsMore
<1>10. ASSUME NEW d \in Dreamer
       PROVE  RunFits(run'[d], memory', excused', born')
  <2> PICK o : o = run[d]
    OBVIOUS
  <2>1. RunFits(o, memory, excused, born)
    BY DEF DreamOK, RunsOK
  <2>2. recounted \/ Passed(o.last, o.batch \cup memory' \cup excused')
    <3>1. \A i \in Readable : file[i].cursor <= o.last => file[i].entry \in excused'
      BY <1>3, AheadHolds
    <3> QED
      BY <2>1, <3>1 DEF RunFits, Passed
  <2>3. RunFits([o EXCEPT !.learned = {}], memory', excused', born)
    BY <2>1, <2>2, RunLearnsLess
  <2> QED
    BY <1>3, <2>3
<1>11. run' = [d \in Dreamer |-> run'[d]]
  BY <1>3
<1>12. \A e \in settled' : e \in settled \/ \E i \in DOMAIN commits' : e \in commits'[i].memory
  BY <1>3
<1>13. /\ recounted' \in BOOLEAN /\ born <= born'
       /\ recounted' \/ (~recounted /\ NextCursor <= NextCursor')
  BY <1>1, <1>3, <1>4
<1> QED
  BY <1>4, <1>6, <1>8, <1>9, <1>10, <1>11, <1>12, <1>13, StepOK

\* The runs of a step that was interrupted: those that go on keep their ends.
LEMMA RunsCut ==
  ASSUME DreamOK, Interrupted, born' = born,
         \A d \in Dreamer :
           recounted \/ Passed(run[d].last, run[d].batch \cup memory' \cup excused')
  PROVE  /\ run' = [d \in Dreamer |-> run'[d]]
         /\ \A d \in Dreamer : RunFits(run'[d], memory', excused', born')
<1>1. CASE run' = [d \in Dreamer |-> NoRun]
  BY <1>1, RunsNone DEF DreamOK, FilesOK
<1>2. CASE run' = [d \in Dreamer |-> [run[d] EXCEPT !.learned = @ \cap memory']]
  <2>1. ASSUME NEW d \in Dreamer
        PROVE  RunFits(run'[d], memory', excused', born')
    <3> PICK o : o = run[d]
      OBVIOUS
    <3>1. RunFits(o, memory, excused, born)
      BY DEF DreamOK, RunsOK
    <3>2. run'[d] = [o EXCEPT !.learned = @ \cap memory']
      BY <1>2
    <3>3. RunFits([o EXCEPT !.learned = @ \cap memory'], memory', excused', born)
      BY <3>1, RunLearnsLess
    <3> QED
      BY <3>2, <3>3
  <2> QED
    BY <1>2, <2>1
<1> QED
  BY <1>1, <1>2 DEF Interrupted

\* The cursor stays, and what the memory files lose is excused.
LEMMA RunsKeep ==
  ASSUME DreamOK, memory \cup excused \subseteq memory' \cup excused', NEW d \in Dreamer
  PROVE  recounted \/ Passed(run[d].last, run[d].batch \cup memory' \cup excused')
<1> PICK o : o = run[d]
  OBVIOUS
<1>1. RunFits(o, memory, excused, born)
  BY DEF DreamOK, RunsOK
<1>2. o.batch \cup memory \cup excused \subseteq o.batch \cup memory' \cup excused'
  OBVIOUS
<1>3. recounted \/ Passed(o.last, o.batch \cup memory' \cup excused')
  BY <1>1, <1>2, PassedMore DEF RunFits
<1> QED
  BY <1>3

\* What a kill or an error takes out of the memory files is excused.
LEMMA StepKillOrCutEdit ==
  ASSUME DreamOK, KillOrCutEdit
  PROVE  DreamOK'
<1>1. FilesOK /\ recounted \in BOOLEAN /\ born \in Nat
  BY DEF DreamOK, FilesOK
<1>2. /\ memory' \subseteq memory /\ dreamCursor' = dreamCursor
      /\ excused' = excused \cup (memory \ memory') /\ settled' = settled
      /\ recounted' = recounted /\ born' = born
      /\ UNCHANGED <<file, torn, counter, born>> /\ UNCHANGED <<git, commits>>
  BY DEF KillOrCutEdit
<1>3. FilesOK' /\ Keeps /\ NextCursor <= NextCursor'
  BY <1>1, <1>2, FilesSame
<1>4. memory \cup excused \subseteq memory' \cup excused'
  BY <1>2
<1>5. TreeFits(Working', excused', born')
  <2>1. memory' \in Memories
    BY <1>2, WorkingTyped DEF Memories
  <2> QED
    BY <1>1, <1>2, <1>4, <2>1, WorkingKnown
<1>6. /\ run' = [d \in Dreamer |-> run'[d]]
      /\ \A d \in Dreamer : RunFits(run'[d], memory', excused', born')
  <2>1. \A d \in Dreamer :
          recounted \/ Passed(run[d].last, run[d].batch \cup memory' \cup excused')
    BY <1>4, RunsKeep
  <2> QED
    BY <1>2, <2>1, RunsCut DEF KillOrCutEdit
<1>7. Grows
  BY <1>2, SameCommits
<1> QED
  BY <1>1, <1>2, <1>3, <1>5, <1>6, <1>7, StepOK

\* A version comes back in part: what the memory files lose is excused while the
\* cursor stays; once the cursor is written, they are those of the version.
LEMMA StepDreamRestoreCut ==
  ASSUME DreamOK, NEW k \in 1..Len(commits), DreamRestoreCut(k)
  PROVE  DreamOK'
<1>1. FilesOK /\ recounted \in BOOLEAN /\ born \in Nat /\ commits \in Seq(Tree)
  BY DEF DreamOK, FilesOK, CommitsOK
<1>2. k \in 2..Len(commits) /\ k - 1 \in DOMAIN commits
  BY <1>1 DEF DreamRestoreCut
<1> PICK t \in Tree : t = commits[k - 1] /\ TreeFits(t, excused, born)
  BY <1>1, <1>2 DEF DreamOK, CommitsOK
<1>3. /\ git' = git /\ commits' = commits /\ settled' = settled /\ recounted' = recounted
      /\ born' = born /\ UNCHANGED <<file, torn, counter, born>>
      /\ excused' = excused \cup
           (IF dreamCursor' = dreamCursor THEN memory \ memory' ELSE Ahead(run'))
  BY DEF DreamRestoreCut
<1>4. \/ memory' \in SUBSET (memory \cup t.memory) /\ dreamCursor' = dreamCursor
      \/ memory' = t.memory /\ dreamCursor' \in {0, t.cursor}
  BY DEF DreamRestoreCut
<1>5. FilesOK' /\ Keeps /\ NextCursor <= NextCursor'
  BY <1>1, <1>3, FilesSame
<1>6. Grows
  BY <1>3, SameCommits
<1>7. excused \subseteq excused'
  BY <1>3
<1>8. memory' \in Memories
  BY <1>4, WorkingTyped DEF Tree, Memories
<1>9. dreamCursor' = dreamCursor => memory \cup excused \subseteq memory' \cup excused'
  BY <1>3
<1>10. TreeFits(Working', excused', born')
  <2>1. CASE dreamCursor' = dreamCursor
    BY <1>1, <1>3, <1>8, <1>9, <2>1, WorkingKnown
  <2>2. CASE memory' = t.memory /\ dreamCursor' = t.cursor
    <3>1. Working' = t
      BY <2>2 DEF Working, Tree
    <3> QED
      BY <1>1, <1>3, <1>7, <3>1, TreeFitsMore
  <2>3. CASE dreamCursor' = 0
    <3>1. Working' = [memory |-> memory', cursor |-> 0] /\ Working' \in Tree
      BY <1>8, <2>3 DEF Working, Tree
    <3>2. Passed(0, memory' \cup excused')
      BY <1>1, PassedNothing
    <3> QED
      BY <1>1, <1>3, <3>1, <3>2 DEF TreeFits
  <2> QED
    BY <1>4, <2>1, <2>2, <2>3
<1>11. /\ run' = [d \in Dreamer |-> run'[d]]
       /\ \A d \in Dreamer : RunFits(run'[d], memory', excused', born')
  <2>1. CASE dreamCursor' = dreamCursor
    <3>1. \A d \in Dreamer :
            recounted \/ Passed(run[d].last, run[d].batch \cup memory' \cup excused')
      BY <1>9, <2>1, RunsKeep
    <3> QED
      BY <1>3, <3>1, RunsCut DEF DreamRestoreCut
  <2>2. CASE dreamCursor' # dreamCursor /\ run' = [d \in Dreamer |-> NoRun]
    BY <1>1, <1>3, <2>2, RunsNone
  <2>3. CASE /\ dreamCursor' # dreamCursor
             /\ run' = [d \in Dreamer |-> [run[d] EXCEPT !.learned = @ \cap memory']]
    <3>1. ASSUME NEW d \in Dreamer
          PROVE  recounted \/ Passed(run[d].last, run[d].batch \cup memory' \cup excused')
      <4> PICK o : o = run[d]
        OBVIOUS
      <4>1. RunFits(o, memory, excused, born)
        BY DEF DreamOK, RunsOK
      <4>2. run'[d].last = o.last
        BY <2>3, <4>1 DEF RunFits, Run
      <4>3. \A i \in Readable : file[i].cursor <= o.last => file[i].entry \in excused'
        <5> SUFFICES ASSUME NEW i \in Readable, file[i].cursor <= o.last
                     PROVE  file[i].entry \in excused'
          OBVIOUS
        <5> PICK r : r = run'
          OBVIOUS
        <5>1. file[i].entry \in Ahead(r)
          BY <4>2, AheadHolds
        <5> QED
          BY <1>3, <2>3, <5>1
      <4>4. recounted \/ Passed(o.last, o.batch \cup memory' \cup excused')
        BY <4>1, <4>3 DEF RunFits, Passed
      <4> QED
        BY <4>4
    <3> QED
      BY <1>3, <3>1, RunsCut DEF DreamRestoreCut
  <2> QED
    BY <2>1, <2>2, <2>3 DEF DreamRestoreCut, Interrupted
<1>12. \A e \in settled' : e \in settled \/ \E i \in DOMAIN commits' : e \in commits'[i].memory
  BY <1>3
<1>13. /\ recounted' \in BOOLEAN /\ born <= born'
       /\ recounted' \/ (~recounted /\ NextCursor <= NextCursor')
  BY <1>1, <1>3, <1>5
<1> QED
  BY <1>5, <1>6, <1>7, <1>10, <1>11, <1>12, <1>13, StepOK

LEMMA StepStutter ==
  ASSUME DreamOK, UNCHANGED vars
  PROVE  DreamOK'
<1>1. FilesOK /\ recounted \in BOOLEAN /\ born \in Nat
  BY DEF DreamOK, FilesOK
<1>2. /\ memory' = memory /\ run' = run /\ excused' = excused
      /\ dreamCursor' = dreamCursor /\ settled' = settled /\ recounted' = recounted
      /\ born' = born /\ UNCHANGED <<file, torn, counter, born>> /\ UNCHANGED <<git, commits>>
  BY DEF vars
<1>3. FilesOK' /\ Keeps /\ NextCursor <= NextCursor'
  BY <1>1, <1>2, FilesSame
<1>4. TreeFits(Working', excused', born')
  BY <1>1, <1>2, WorkingTyped, WorkingMore
<1>5. /\ run' = [d \in Dreamer |-> run'[d]]
      /\ \A d \in Dreamer : RunFits(run'[d], memory', excused', born')
  BY <1>1, <1>2, RunsMore
<1>6. Grows
  BY <1>2, SameCommits
<1> QED
  BY <1>1, <1>2, <1>3, <1>4, <1>5, <1>6, StepOK

LEMMA DreamInit ==
  ASSUME Init
  PROVE  DreamOK
<1>1. /\ file = <<>> /\ torn = FALSE /\ counter = 0 /\ memory = {} /\ dreamCursor = 0
      /\ git \in BOOLEAN /\ commits = (IF git THEN <<Working>> ELSE <<>>)
      /\ run = [d \in Dreamer |-> NoRun] /\ born = 0 /\ excused = {} /\ settled = {}
      /\ recounted = FALSE
  BY DEF Init
<1>2. Readable = {}
  BY <1>1 DEF Readable
<1>3. FilesOK
  <2>1. file \in Seq(Line) /\ DOMAIN file = {}
    BY <1>1
  <2>2. FileOK /\ OrderOK /\ TornOK
    BY <1>1, <1>2, <2>1 DEF FileOK, OrderOK, TornOK
  <2>3. torn = FALSE /\ born = 0 /\ counter = 0
    BY <1>1
  <2>4. born \in Nat /\ counter \in 0..born
    BY <2>3
  <2>5. torn \in BOOLEAN
    BY <2>3
  <2> QED
    BY <2>1, <2>2, <2>4, <2>5 DEF FilesOK
<1>4. Working = [memory |-> {}, cursor |-> 0] /\ Working \in Tree
  BY <1>1 DEF Working, Tree, Memories
<1>5. TreeFits(Working, excused, born)
  <2>1. Passed(0, {} \cup excused)
    BY <1>3, PassedNothing
  <2> QED
    BY <1>1, <1>4, <2>1 DEF TreeFits
<1>6. CommitsOK
  <2>1. CASE git
    <3>1. commits = <<Working>>
      BY <1>1, <2>1
    <3>2. commits \in Seq(Tree) /\ commits # <<>> /\ \A i \in DOMAIN commits : commits[i] = Working
      BY <1>4, <3>1
    <3> QED
      BY <1>5, <2>1, <3>2 DEF CommitsOK
  <2>2. CASE ~git
    BY <1>1, <2>2 DEF CommitsOK
  <2> QED
    BY <2>1, <2>2
<1>7. RunsOK
  <2>1. RunFits(NoRun, memory, excused, born)
    BY <1>1, <1>3, NoRunFits
  <2> QED
    BY <1>1, <2>1 DEF RunsOK
<1> QED
  BY <1>1, <1>3, <1>5, <1>6, <1>7 DEF DreamOK, SettledOK

LEMMA DreamInvariant == Spec => []DreamOK
<1>1. Init => DreamOK
  BY DreamInit
<1>2. DreamOK /\ [Next]_vars => DreamOK'
  <2> SUFFICES ASSUME DreamOK, [Next]_vars
               PROVE  DreamOK'
    OBVIOUS
  <2>1. CASE AppendHistory
    BY <2>1, StepAppendHistory
  <2>2. CASE TurnEdit
    BY <2>2, StepTurnEdit
  <2>3. CASE StartWithoutDream
    BY <2>3, StepStartWithoutDream
  <2>4. CASE KillOrCutEdit
    BY <2>4, StepKillOrCutEdit
  <2>5. CASE KillInAppend
    BY <2>5, StepKillInAppend
  <2>6. ASSUME NEW k \in 1..Len(commits), DreamRestore(k) \/ DreamRestoreCut(k)
        PROVE  DreamOK'
    BY <2>6, StepDreamRestore, StepDreamRestoreCut
  <2>7. ASSUME NEW d \in Dreamer,
               \/ BeginDream(d) \/ NothingToDream(d) \/ DreamEdit(d) \/ EndDream(d)
               \/ AbortDream(d)
        PROVE  DreamOK'
    BY <2>7, StepBeginDream, StepNothingToDream, StepDreamEdit, StepEndDream, StepAbortDream
  <2>8. CASE KillInCursor
    BY <2>8, StepKillInCursor
  <2>9. CASE UNCHANGED vars
    BY <2>9, StepStutter
  <2> QED
    BY <2>1, <2>2, <2>3, <2>4, <2>5, <2>6, <2>7, <2>8, <2>9 DEF Next
<1> QED
  BY <1>1, <1>2, PTL DEF Spec

-----------------------------------------------------------------------------
(* What follows. *)

LEMMA TreesFit ==
  ASSUME DreamOK, NEW t \in Trees
  PROVE  TreeFits(t, excused, born)
BY DEF DreamOK, CommitsOK, Trees, ToSet

\* The journal stays in order whatever kills, torn lines, lost counters and
\* compactions do to it (memory.py append_history, _next_cursor,
\* compact_history): every entry that can be read has a cursor of its own, in
\* the order of the archivings, and no cursor of the workspace, of a commit or
\* of a run is ahead of them.
THEOREM JournalOrdered == Spec => []JournalInv
<1>1. DreamOK => JournalInv
  <2> SUFFICES ASSUME DreamOK
               PROVE  JournalInv
    OBVIOUS
  <2>1. FilesOK /\ born \in Nat /\ counter \in 0..born
    BY DEF DreamOK, FilesOK
  <2>2. \A l \in ToSet(file) : l = Bad \/ (l.entry \in 1..born /\ l.cursor \in 1..l.entry)
    BY <2>1 DEF FilesOK, FileOK, LineOK, ToSet
  <2>3. \A t \in Trees : t.cursor <= born
    BY TreesFit DEF TreeFits
  <2>4. \A d \in Dreamer : run[d].learned \subseteq run[d].batch /\ run[d].batch \subseteq 1..born
    BY DEF DreamOK, RunsOK, RunFits
  <2>5. counter <= born
    BY <2>1
  <2>6. git = (commits # <<>>)
    BY DEF DreamOK, CommitsOK
  <2>7. /\ \A i, j \in Readable : i < j =>
             file[i].cursor < file[j].cursor /\ file[i].entry < file[j].entry
        /\ torn => file # <<>> /\ Last(file) = Bad
    BY <2>1 DEF FilesOK, OrderOK, TornOK
  <2> QED
    BY <2>2, <2>3, <2>4, <2>5, <2>6, <2>7 DEF JournalInv
<1> QED
  BY <1>1, DreamInvariant, PTL

\* No entry gets behind the Dream cursor of the workspace, or of a version that
\* /dream-restore can bring back, that Dream did not consider (memory.py
\* build_dream_prompt, cmd_dream, gitstore.py revert), while no kill has made
\* the numbers go back.  Restores and edits may be cut short anywhere; what that
\* takes out of the memory files under a cursor that stays is among the excused.
THEOREM EntriesConsidered == Spec => []Considered
<1>1. DreamOK => Considered
  <2> SUFFICES ASSUME DreamOK, ~recounted, NEW t \in Trees, NEW l \in ToSet(file),
                      l # Bad, l.cursor <= t.cursor
               PROVE  l.entry \in t.memory \cup excused
    BY DEF Considered
  <2>1. Passed(t.cursor, t.memory \cup excused)
    BY TreesFit DEF TreeFits
  <2>2. PICK i \in DOMAIN file : l = file[i]
    BY DEF ToSet
  <2>3. i \in Readable
    BY <2>2 DEF Readable
  <2> QED
    BY <2>1, <2>2, <2>3 DEF Passed
<1> QED
  BY <1>1, DreamInvariant, PTL

\* What a Dream run wrote is in the files or in a commit once the run is over
\* and its commit did not fail (the finally block of a run, auto_commit,
\* revert), through restores, other runs and kills.
THEOREM NoEditLost == Spec => []EditsRecoverable
<1>1. DreamOK => EditsRecoverable
  <2> SUFFICES ASSUME DreamOK, NEW e \in settled
               PROVE  \E t \in Trees : e \in t.memory
    BY DEF EditsRecoverable
  <2>1. PICK i \in DOMAIN commits : e \in commits[i].memory
    BY DEF DreamOK, SettledOK
  <2>2. commits[i] \in Trees
    BY DEF Trees, ToSet
  <2> QED
    BY <2>1, <2>2
<1> QED
  BY <1>1, DreamInvariant, PTL

-----------------------------------------------------------------------------
(* SessionCompaction. *)

-----------------------------------------------------------------------------
(* The Session objects. *)

Messages == [kind : Kinds \union {"delivery"}, n : Nat \ {0}]
Stores == [objs : [Ids -> Record], cache : Ids \union {0}, file : Record]

\* The messages of a list are in the order in which they were said.
Ordered(s) == \A i, j \in 1..Len(s) : i < j => s[i].n < s[j].n

\* Nothing cleared the history under a consolidation; how far back the messages of a
\* copy may go; the messages that are neither archived nor given up.
Calm == upsets \intersect {"overflow", "round"} = {}
Limit == IF upsets \intersect {"idle", "copy"} = {} THEN wiped ELSE 0
Owed == (1..said) \ (exposed \union dropped \union archived \union UNION snapshots)

\* A copy that can become the session again: its messages are from low to n, and
\* the model still sees those of owed.
Fits(o, n, low, tight, owed) ==
  /\ o \in Record
  /\ \A i \in 1..Len(o.msgs) : low < o.msgs[i].n /\ o.msgs[i].n <= n
  /\ Ordered(o.msgs)
  /\ tight => o.cursor <= Len(o.msgs)
  /\ owed \subseteq Numbers(Unarchived(o))

\* So are the copies of a store that held names, the cached one, and the file.
Stocked(st, held, n, low, tight, owed) ==
  /\ st \in Stores
  /\ \A r \in (held \union {st.cache}) \ {0} : Fits(st.objs[r], n, low, tight, owed)
  /\ Fits(st.file, n, low, tight, owed)

-----------------------------------------------------------------------------
(* The invariant. *)

\* The lock is a queue; what a turn leaves behind is in it before the next turn.
QueueOK(q, stage) ==
  /\ q \in Seq(Workers)
  /\ \A i, j \in 1..Len(q) : q[i] = q[j] => i = j
  /\ \A i, j \in 1..Len(q) : q[i] = "turn" /\ q[j] = "after" => j < i
  /\ stage = "wait" <=> \E i \in 1..Len(q) : q[i] = "turn"
  /\ stage = "run" => \A i \in 1..Len(q) : q[i] # "after"

TurnOK(t) ==
  /\ t \in [stage : {"none", "wait", "run"}, kind : {"bus", "direct"}, ref : Ids \union {0}]
  /\ t.stage = "none" <=> t.ref = 0

\* What each stage of a turn has yet to say.
ToSay(t) == IF t.stage = "wait" THEN 2 ELSE IF t.stage = "run" THEN 1 ELSE 0

CountsOK ==
  /\ said \in Nat /\ turns \in 0..MaxTurns /\ events \in 0..MaxSessionEvents
  /\ said + ToSay(turn) <= 3 * turns + events
  /\ wiped \in 0..said
  /\ archived \subseteq 1..said /\ exposed \subseteq 1..said /\ dropped \subseteq 1..said
  /\ twice \subseteq 1..said /\ snapshots \subseteq SUBSET (1..said)
  /\ upsets \subseteq {"overflow", "round", "idle", "copy", "fork", "crash"}
  /\ Calm \/ Owed = {}

ControlOK == QueueOK(lock, turn.stage) /\ TurnOK(turn) /\ title \in Ids \union {0}

Jobs == [kind : {"overflow", "round", "idle"}, ref : Ids, end : Nat, chunk : SUBSET (1..said),
         keep : Seq(Messages), rounds : Nat]

\* The messages in a record of their own.
Alone(s) == [msgs |-> s, cursor |-> 0, pending |-> FALSE]

\* A consolidation archives what is behind the cursor of its copy, up to where the
\* cursor will be; an idle compaction archives what it does not keep.
Consolidates(o) ==
  /\ o.cursor <= job.end /\ job.end <= Len(o.msgs)
  /\ job.chunk = Numbers(SubSeq(o.msgs, o.cursor + 1, job.end))
JobOK ==
  \/ job = NoJob
  \/ /\ job \in Jobs /\ job.kind # "idle"
     /\ lock # <<>> /\ lock[1] \in {"turn", "after"}
     /\ Calm => Consolidates(store.objs[job.ref])
  \/ /\ job \in Jobs /\ job.kind = "idle"
     /\ lock # <<>> /\ lock[1] = "idle"
     /\ Fits(Alone(job.keep), said, Limit, Calm, Owed \ job.chunk)

StoreOK == Stocked(store, Held, said, Limit, Calm, Owed)

SafeOK == CountsOK /\ ControlOK /\ JobOK /\ StoreOK

-----------------------------------------------------------------------------
(* While nothing is upset, every message is in one place only. *)

Gone == archived \union UNION snapshots

\* The file is the cached copy; no copy has yet to archive what is gone, and no
\* message is in two copies.
Single(st, held, gone) ==
  /\ st.cache # 0 => /\ st.file.msgs = st.objs[st.cache].msgs
                     /\ st.file.cursor = st.objs[st.cache].cursor
  /\ \A r \in (held \union {st.cache}) \ {0} : Numbers(Unarchived(st.objs[r])) \intersect gone = {}
  /\ \A r1, r2 \in (held \union {st.cache}) \ {0} : r1 # r2 =>
       Numbers(st.objs[r1].msgs) \intersect Numbers(st.objs[r2].msgs) = {}

\* A session that is not cached is new.
Emptied == store.cache = 0 => store.file.msgs = <<>> /\ job = NoJob

SnapshotsApart ==
  \A a \in snapshots : a \intersect archived = {} /\ \A b \in snapshots : a # b => a \intersect b = {}

\* An idle compaction archives a part of its copy and keeps another.
IdleApart ==
  job.kind = "idle" =>
    /\ turn.stage # "run"
    /\ job.chunk \subseteq Numbers(Unarchived(store.objs[job.ref]))
    /\ Numbers(job.keep) \subseteq Numbers(Unarchived(store.objs[job.ref]))
    /\ job.chunk \intersect Numbers(job.keep) = {}

Sorted == twice = {} /\ Emptied /\ Single(store, Held, Gone) /\ SnapshotsApart /\ IdleApart
OnceOK == upsets = {} => Sorted
-----------------------------------------------------------------------------
(* Lists. *)

\* Min and Max are in the set that they are of.
LEMMA MinIn ==
  ASSUME NEW T \in SUBSET Nat, T # {}
  PROVE  Min(T) \in T /\ \A y \in T : Min(T) <= y
BY LeastElement DEF Min

\* SubSeq, by its places.
LEMMA Part ==
  ASSUME NEW S, NEW s \in Seq(S), NEW a \in Nat \ {0}, NEW b \in 0..Len(s)
  PROVE  /\ SubSeq(s, a, b) \in Seq(S)
         /\ Len(SubSeq(s, a, b)) = IF a <= b THEN b - a + 1 ELSE 0
         /\ \A i \in 1..Len(SubSeq(s, a, b)) :
              SubSeq(s, a, b)[i] = s[a + i - 1] /\ a + i - 1 \in 1..Len(s)
<1>1. Len(s) \in Nat /\ a \in Nat /\ b \in Nat
  OBVIOUS
<1> QED
  BY <1>1

\* Two lists joined, by their places.
LEMMA TwoParts ==
  ASSUME NEW S, NEW s \in Seq(S), NEW t \in Seq(S)
  PROVE  /\ s \o t \in Seq(S) /\ Len(s \o t) = Len(s) + Len(t)
         /\ \A i \in 1..Len(s) : (s \o t)[i] = s[i]
         /\ \A i \in 1..Len(t) : (s \o t)[Len(s) + i] = t[i]
         /\ \A i \in 1..Len(s) + Len(t) : i > Len(s) => (s \o t)[i] = t[i - Len(s)]
OBVIOUS

LEMMA PartNumbers ==
  ASSUME NEW s \in Seq(Messages), NEW a \in Nat \ {0}, NEW b \in 0..Len(s), NEW x
  PROVE  x \in Numbers(SubSeq(s, a, b)) <=> \E i \in 1..Len(s) : a <= i /\ i <= b /\ s[i].n = x
<1> DEFINE w == SubSeq(s, a, b)
<1>1. /\ w \in Seq(Messages) /\ Len(w) = IF a <= b THEN b - a + 1 ELSE 0
      /\ \A i \in 1..Len(w) : w[i] = s[a + i - 1] /\ a + i - 1 \in 1..Len(s)
  BY Part
<1>2. Len(s) \in Nat /\ a \in Nat /\ b \in Nat /\ DOMAIN w = 1..Len(w)
  BY <1>1
<1> HIDE DEF w
<1>3. ASSUME x \in Numbers(w) PROVE \E i \in 1..Len(s) : a <= i /\ i <= b /\ s[i].n = x
  <2>1. PICK i \in 1..Len(w) : w[i].n = x
    BY <1>2, <1>3 DEF Numbers
  <2>2. a + i - 1 \in 1..Len(s) /\ a <= a + i - 1 /\ a + i - 1 <= b /\ s[a + i - 1].n = x
    BY <1>1, <1>2, <2>1
  <2> QED
    BY <2>2
<1>4. ASSUME NEW i \in 1..Len(s), a <= i, i <= b, s[i].n = x PROVE x \in Numbers(w)
  <2>1. i - a + 1 \in 1..Len(w) /\ a + (i - a + 1) - 1 = i
    BY <1>1, <1>2, <1>4
  <2>2. w[i - a + 1].n = x
    BY <1>1, <1>4, <2>1
  <2> QED
    BY <1>2, <2>1, <2>2 DEF Numbers
<1> QED
  BY <1>3, <1>4 DEF w

LEMMA ListNumbers ==
  ASSUME NEW s \in Seq(Messages), NEW x
  PROVE  x \in Numbers(s) <=> \E i \in 1..Len(s) : s[i].n = x
BY DEF Numbers

LEMMA RecordIs ==
  ASSUME NEW o
  PROVE  o \in Record <=> /\ o = [msgs |-> o.msgs, cursor |-> o.cursor, pending |-> o.pending]
                          /\ o.msgs \in Seq(Messages) /\ o.cursor \in Nat /\ o.pending \in BOOLEAN
BY DEF Record, Messages

\* What a copy has yet to archive, by its places.
LEMMA UnarchivedIs ==
  ASSUME NEW o \in Record
  PROVE  /\ Unarchived(o) \in Seq(Messages)
         /\ Len(Unarchived(o)) = IF o.cursor <= Len(o.msgs) THEN Len(o.msgs) - o.cursor ELSE 0
         /\ \A i \in 1..Len(Unarchived(o)) :
              Unarchived(o)[i] = o.msgs[o.cursor + i] /\ o.cursor + i \in 1..Len(o.msgs)
<1> DEFINE s == o.msgs  c == o.cursor
<1>1. s \in Seq(Messages) /\ c \in Nat /\ Len(s) \in Nat /\ c + 1 \in Nat \ {0} /\ Len(s) \in 0..Len(s)
  BY RecordIs
<1>2. Unarchived(o) = SubSeq(s, c + 1, Len(s))
  BY DEF Unarchived, From
<1> HIDE DEF s, c
<1> DEFINE w == SubSeq(s, c + 1, Len(s))
<1>3. /\ w \in Seq(Messages) /\ Len(w) = IF c + 1 <= Len(s) THEN Len(s) - (c + 1) + 1 ELSE 0
      /\ \A i \in 1..Len(w) : w[i] = s[(c + 1) + i - 1] /\ (c + 1) + i - 1 \in 1..Len(s)
  BY <1>1, Part
<1> HIDE DEF w
<1>4. Len(w) = (IF c <= Len(s) THEN Len(s) - c ELSE 0)
  BY <1>1, <1>3
<1>5. \A i \in 1..Len(w) : w[i] = s[c + i] /\ c + i \in 1..Len(s)
  BY <1>1, <1>3
<1> QED
  BY <1>2, <1>3, <1>4, <1>5 DEF s, c, w

LEMMA UnarchivedNumbers ==
  ASSUME NEW o \in Record, NEW x
  PROVE  x \in Numbers(Unarchived(o)) <=>
           \E i \in 1..Len(o.msgs) : o.cursor < i /\ o.msgs[i].n = x
<1>1. o.msgs \in Seq(Messages) /\ o.cursor \in Nat /\ Len(o.msgs) \in 0..Len(o.msgs) /\ o.cursor + 1 \in Nat \ {0}
  BY RecordIs
<1>2. x \in Numbers(SubSeq(o.msgs, o.cursor + 1, Len(o.msgs))) <=>
        \E i \in 1..Len(o.msgs) : o.cursor + 1 <= i /\ i <= Len(o.msgs) /\ o.msgs[i].n = x
  BY <1>1, PartNumbers
<1> QED
  BY <1>1, <1>2 DEF Unarchived, From

LEMMA CopyIs ==
  ASSUME NEW o \in Record
  PROVE  /\ o.msgs \in Seq(Messages) /\ Len(o.msgs) \in Nat /\ o.cursor \in Nat /\ o.pending \in BOOLEAN
         /\ \A i \in 1..Len(o.msgs) : o.msgs[i] \in Messages /\ o.msgs[i].n \in Nat
<1>1. o.msgs \in Seq(Messages) /\ o.cursor \in Nat /\ o.pending \in BOOLEAN
  BY RecordIs
<1>2. Len(o.msgs) \in Nat /\ \A i \in 1..Len(o.msgs) : o.msgs[i] \in Messages
  BY <1>1
<1>3. \A m \in Messages : m.n \in Nat
  BY DEF Messages
<1> QED
  BY <1>1, <1>2, <1>3

\* A copy with another list of messages, another cursor, another mark.
Changed(o, s, c) == [o EXCEPT !.msgs = s, !.cursor = c]

LEMMA CopyMade ==
  ASSUME NEW o \in Record
  PROVE  /\ \A s \in Seq(Messages), c \in Nat : Changed(o, s, c) = [msgs |-> s, cursor |-> c, pending |-> o.pending]
         /\ \A s \in Seq(Messages) : [o EXCEPT !.msgs = s] = [msgs |-> s, cursor |-> o.cursor, pending |-> o.pending]
         /\ \A c \in Nat : [o EXCEPT !.cursor = c] = [msgs |-> o.msgs, cursor |-> c, pending |-> o.pending]
         /\ \A b \in BOOLEAN : [o EXCEPT !.pending = b] = [msgs |-> o.msgs, cursor |-> o.cursor, pending |-> b]
<1> DEFINE k == o.cursor  m == o.msgs  x == o.pending
<1>1. o = [msgs |-> m, cursor |-> k, pending |-> x] /\ m \in Seq(Messages) /\ k \in Nat /\ x \in BOOLEAN
  BY RecordIs
<1> HIDE DEF m, k, x
<1>2. \A s : [o EXCEPT !.msgs = s] = [msgs |-> s, cursor |-> k, pending |-> x]
  BY <1>1
<1>3. ASSUME NEW s, NEW c
      PROVE  Changed(o, s, c) = [msgs |-> s, cursor |-> c, pending |-> x]
  <2> DEFINE p == [o EXCEPT !.msgs = s]
  <2>1. p = [msgs |-> s, cursor |-> k, pending |-> x]
    BY <1>2
  <2> HIDE DEF p
  <2>2. [p EXCEPT !.cursor = c] = [msgs |-> s, cursor |-> c, pending |-> x]
    BY <2>1
  <2> QED
    BY <2>2 DEF p, Changed
<1>4. \A c : [o EXCEPT !.cursor = c] = [msgs |-> m, cursor |-> c, pending |-> x]
  BY <1>1
<1>5. \A b : [o EXCEPT !.pending = b] = [msgs |-> m, cursor |-> k, pending |-> b]
  BY <1>1
<1> QED
  BY <1>2, <1>3, <1>4, <1>5 DEF k, m, x

MadeOf(p, o, s, c) == p \in Record /\ p.msgs = s /\ p.cursor = c /\ p.pending = o.pending

LEMMA CopyWith ==
  ASSUME NEW o \in Record, NEW s \in Seq(Messages), NEW c \in Nat
  PROVE  MadeOf(Changed(o, s, c), o, s, c)
<1>1. Changed(o, s, c) = [msgs |-> s, cursor |-> c, pending |-> o.pending] /\ o.pending \in BOOLEAN
  BY CopyMade, CopyIs
<1> QED
  BY <1>1, RecordIs DEF MadeOf
-----------------------------------------------------------------------------
(* What the operations make of a copy. *)

LEMMA FitsMore ==
  ASSUME NEW o, NEW n \in Nat, NEW n2 \in Nat, NEW low \in Nat, NEW low2 \in Nat,
         NEW tight, NEW tight2, NEW owed, NEW owed2,
         Fits(o, n, low, tight, owed), n <= n2, low2 <= low, tight2 => tight, owed2 \subseteq owed
  PROVE  Fits(o, n2, low2, tight2, owed2)
<1>1. /\ o \in Record /\ Ordered(o.msgs) /\ owed \subseteq Numbers(Unarchived(o))
      /\ tight => o.cursor <= Len(o.msgs)
      /\ \A i \in 1..Len(o.msgs) : low < o.msgs[i].n /\ o.msgs[i].n <= n
  BY DEF Fits
<1>2. \A i \in 1..Len(o.msgs) : o.msgs[i].n \in Nat
  BY <1>1, CopyIs
<1>3. \A i \in 1..Len(o.msgs) : low2 < o.msgs[i].n /\ o.msgs[i].n <= n2
  BY <1>1, <1>2
<1> QED
  BY <1>1, <1>3 DEF Fits

Sayings == Seq(Kinds \union {"delivery"})

\* Say appends, in the order of saying.
LEMMA SayIs ==
  ASSUME NEW o \in Record, NEW n \in Nat, NEW kinds \in Sayings
  PROVE  /\ Say(o, n, kinds) \in Record
         /\ Say(o, n, kinds).cursor = o.cursor /\ Say(o, n, kinds).pending = o.pending
         /\ Len(Say(o, n, kinds).msgs) = Len(o.msgs) + Len(kinds)
         /\ \A i \in 1..Len(o.msgs) : Say(o, n, kinds).msgs[i] = o.msgs[i]
         /\ \A i \in 1..Len(kinds) : Say(o, n, kinds).msgs[Len(o.msgs) + i].n = n + i
         /\ \A i \in 1..Len(o.msgs) + Len(kinds) : i > Len(o.msgs) =>
              Say(o, n, kinds).msgs[i].n = n + (i - Len(o.msgs))
<1> DEFINE t == [i \in DOMAIN kinds |-> [kind |-> kinds[i], n |-> n + i]]
           s == o.msgs
<1>1. kinds \in Seq(Kinds \union {"delivery"}) /\ Len(kinds) \in Nat /\ DOMAIN kinds = 1..Len(kinds)
  BY DEF Sayings
<1>2. t \in Seq(Messages) /\ Len(t) = Len(kinds)
  <2>1. \A i \in 1..Len(kinds) : [kind |-> kinds[i], n |-> n + i] \in Messages
    BY <1>1 DEF Messages
  <2> QED
    BY <1>1, <2>1
<1>3. \A i \in 1..Len(t) : t[i].n = n + i
  BY <1>1, <1>2
<1>4. s \in Seq(Messages) /\ Len(s) \in Nat
  BY RecordIs
<1>5. Say(o, n, kinds) = [o EXCEPT !.msgs = s \o t]
  BY DEF Say
<1> HIDE DEF t, s
<1>6. /\ s \o t \in Seq(Messages) /\ Len(s \o t) = Len(s) + Len(t)
      /\ \A i \in 1..Len(s) : (s \o t)[i] = s[i]
      /\ \A i \in 1..Len(t) : (s \o t)[Len(s) + i] = t[i]
      /\ \A i \in 1..Len(s) + Len(t) : i > Len(s) => (s \o t)[i] = t[i - Len(s)]
  BY <1>2, <1>4, TwoParts
<1>7. Say(o, n, kinds) \in Record
  BY <1>5, <1>6 DEF Record, Messages
<1>8. Say(o, n, kinds).msgs = s \o t /\ Say(o, n, kinds).cursor = o.cursor /\ Say(o, n, kinds).pending = o.pending
  BY <1>5, RecordIs
<1>9. \A i \in 1..Len(s) + Len(t) : i > Len(s) => (s \o t)[i].n = n + (i - Len(s))
  <2> TAKE i \in 1..Len(s) + Len(t)
  <2> HAVE i > Len(s)
  <2>1. i - Len(s) \in 1..Len(t)
    BY <1>2, <1>4, <1>1
  <2> QED
    BY <1>3, <1>6, <2>1
<1> QED
  BY <1>2, <1>3, <1>6, <1>7, <1>8, <1>9 DEF s

LEMMA FitsSay ==
  ASSUME NEW o, NEW n \in Nat, NEW low \in Nat, NEW tight, NEW owed, NEW kinds \in Sayings,
         NEW extra, Fits(o, n, low, tight, owed), low <= n,
         extra \subseteq n + 1 .. n + Len(kinds), tight \/ extra = {}
  PROVE  Fits(Say(o, n, kinds), n + Len(kinds), low, tight, owed \union extra)
<1> DEFINE p == Say(o, n, kinds)  a == Len(o.msgs)  k == Len(kinds)
<1>0. o \in Record
  BY DEF Fits
<1>1. /\ p \in Record /\ p.cursor = o.cursor /\ Len(p.msgs) = a + k
      /\ \A i \in 1..a : p.msgs[i] = o.msgs[i]
      /\ \A i \in 1..k : p.msgs[a + i].n = n + i
      /\ \A i \in 1..a + k : i > a => p.msgs[i].n = n + (i - a)
  BY <1>0, SayIs
<1>2. a \in Nat /\ k \in Nat /\ o.cursor \in Nat /\ \A i \in 1..a : o.msgs[i].n \in Nat
  BY <1>0, CopyIs DEF Sayings
<1>3. /\ \A i \in 1..a : low < o.msgs[i].n /\ o.msgs[i].n <= n
      /\ \A i, j \in 1..a : i < j => o.msgs[i].n < o.msgs[j].n
      /\ tight => o.cursor <= a
      /\ owed \subseteq Numbers(Unarchived(o))
  BY DEF Fits, Ordered
<1> HIDE DEF p, a, k
<1>4. \A i \in 1..a + k : low < p.msgs[i].n /\ p.msgs[i].n <= n + k
  <2> TAKE i \in 1..a + k
  <2>1. CASE i <= a
    <3>1. i \in 1..a
      BY <1>2, <2>1
    <3>2. p.msgs[i].n = o.msgs[i].n /\ o.msgs[i].n \in Nat /\ low < o.msgs[i].n /\ o.msgs[i].n <= n
      BY <1>1, <1>2, <1>3, <3>1
    <3> QED
      BY <1>2, <3>2
  <2>2. CASE i > a
    <3>1. p.msgs[i].n = n + (i - a)
      BY <1>1, <2>2
    <3> QED
      BY <1>2, <2>2, <3>1
  <2> QED
    BY <1>2, <2>1, <2>2
<1>5. \A i, j \in 1..a + k : i < j => p.msgs[i].n < p.msgs[j].n
  <2> TAKE i, j \in 1..a + k
  <2> HAVE i < j
  <2>1. CASE j <= a
    <3>1. i \in 1..a /\ j \in 1..a
      BY <1>2, <2>1
    <3> QED
      BY <1>1, <1>3, <3>1
  <2>2. CASE i <= a /\ j > a
    <3>1. p.msgs[i].n <= n /\ p.msgs[i].n \in Nat
      BY <1>1, <1>2, <1>3, <2>2
    <3>2. p.msgs[j].n = n + (j - a)
      BY <1>1, <2>2
    <3> QED
      BY <1>2, <2>2, <3>1, <3>2
  <2>3. CASE i > a /\ j > a
    BY <1>1, <1>2, <2>3
  <2> QED
    BY <1>2, <2>1, <2>2, <2>3
<1>6. tight => p.cursor <= Len(p.msgs)
  BY <1>1, <1>2, <1>3
<1>7. \A x \in owed : x \in Numbers(Unarchived(p))
  <2> TAKE x \in owed
  <2>1. PICK i \in 1..a : o.cursor < i /\ o.msgs[i].n = x
    BY <1>0, <1>3, UnarchivedNumbers DEF a
  <2>2. i \in 1..Len(p.msgs) /\ p.cursor < i /\ p.msgs[i].n = x
    BY <1>1, <1>2, <2>1
  <2> QED
    BY <1>1, <2>2, UnarchivedNumbers
<1>8. \A x \in extra : x \in Numbers(Unarchived(p))
  <2> TAKE x \in extra
  <2>1. x \in n + 1 .. n + k /\ tight
    BY DEF k
  <2>2. a + (x - n) \in 1..Len(p.msgs) /\ p.cursor < a + (x - n) /\ p.msgs[a + (x - n)].n = x
    BY <1>1, <1>2, <1>3, <2>1
  <2> QED
    BY <1>1, <2>2, UnarchivedNumbers
<1> QED
  BY <1>1, <1>4, <1>5, <1>6, <1>7, <1>8 DEF Fits, Ordered, p, a, k

\* The mark of a pending turn is neither here nor there.
LEMMA FitsPending ==
  ASSUME NEW o, NEW n, NEW low, NEW tight, NEW owed, NEW b \in BOOLEAN,
         Fits(o, n, low, tight, owed)
  PROVE  Fits([o EXCEPT !.pending = b], n, low, tight, owed)
<1> DEFINE p == [o EXCEPT !.pending = b]
<1>1. o \in Record
  BY DEF Fits
<1>2. p \in Record /\ p.msgs = o.msgs /\ p.cursor = o.cursor
  BY <1>1 DEF Record
<1>3. Unarchived(p) = Unarchived(o)
  BY <1>2 DEF Unarchived
<1> HIDE DEF p
<1> QED
  BY <1>2, <1>3 DEF Fits, p

LEMMA FitsEmpty ==
  ASSUME NEW o \in Record, NEW n, NEW low, NEW tight
  PROVE  Fits([o EXCEPT !.msgs = <<>>, !.cursor = 0], n, low, tight, {})
<1> DEFINE p == [o EXCEPT !.msgs = <<>>, !.cursor = 0]
<1>0. p = Changed(o, <<>>, 0) /\ <<>> \in Seq(Messages) /\ 0 \in Nat
  BY DEF Changed
<1> HIDE DEF p
<1>1. p \in Record /\ p.msgs = <<>> /\ p.cursor = 0
  BY <1>0, CopyWith DEF MadeOf
<1>2. Fits(p, n, low, tight, {})
  BY <1>1 DEF Fits, Ordered
<1> QED
  BY <1>2 DEF p

LEMMA EmptyFits ==
  ASSUME NEW n, NEW low, NEW tight
  PROVE  Fits(Empty, n, low, tight, {})
<1>1. Empty \in Record /\ Empty.msgs = <<>> /\ Empty.cursor = 0
  BY DEF Record, Empty
<1> QED
  BY <1>1 DEF Fits, Ordered

\* The cursor moves past what was archived.
LEMMA FitsArchived ==
  ASSUME NEW o, NEW n, NEW low, NEW tight, NEW owed, NEW e \in Nat, NEW chunk,
         Fits(o, n, low, tight, owed), o.cursor <= e, e <= Len(o.msgs),
         chunk = Numbers(SubSeq(o.msgs, o.cursor + 1, e))
  PROVE  Fits([o EXCEPT !.cursor = e], n, low, tight, owed \ chunk)
<1> DEFINE p == [o EXCEPT !.cursor = e]
<1>1. o \in Record /\ owed \subseteq Numbers(Unarchived(o))
  BY DEF Fits
<1>2. p \in Record /\ p.msgs = o.msgs /\ p.cursor = e
  BY <1>1 DEF Record
<1>3. o.msgs \in Seq(Messages) /\ o.cursor + 1 \in Nat \ {0} /\ e \in 0..Len(o.msgs) /\ o.cursor \in Nat
  BY <1>1, RecordIs
<1> HIDE DEF p
<1>4. \A x \in owed \ chunk : x \in Numbers(Unarchived(p))
  <2> TAKE x \in owed \ chunk
  <2>1. PICK i \in 1..Len(o.msgs) : o.cursor < i /\ o.msgs[i].n = x
    BY <1>1, UnarchivedNumbers
  <2>2. ~(i <= e)
    <3>1. x \in chunk <=> \E k \in 1..Len(o.msgs) : o.cursor + 1 <= k /\ k <= e /\ o.msgs[k].n = x
      BY <1>3, PartNumbers
    <3> QED
      BY <1>3, <2>1, <3>1
  <2> QED
    BY <1>2, <1>3, <2>1, <2>2, UnarchivedNumbers
<1> QED
  BY <1>2, <1>4 DEF Fits, p

\* Where nothing is owed, the cursor may be anywhere.
LEMMA FitsLoose ==
  ASSUME NEW o, NEW n, NEW low, NEW owed, NEW e \in Nat, Fits(o, n, low, FALSE, owed)
  PROVE  Fits([o EXCEPT !.cursor = e], n, low, FALSE, {})
<1> DEFINE p == [o EXCEPT !.cursor = e]
<1>1. o \in Record
  BY DEF Fits
<1>2. p \in Record /\ p.msgs = o.msgs /\ p.cursor = e
  BY <1>1 DEF Record
<1> HIDE DEF p
<1> QED
  BY <1>2 DEF Fits, p

LEMMA FitsLoaded ==
  ASSUME NEW o, NEW n, NEW low, NEW tight, NEW owed, Fits(o, n, low, tight, owed)
  PROVE  Fits(Loaded(o), n, low, tight, owed)
<1>1. o \in Record /\ owed \subseteq Numbers(Unarchived(o))
  BY DEF Fits
<1>2. CASE o.cursor <= Len(o.msgs)
  BY <1>2 DEF Loaded
<1>3. CASE ~(o.cursor <= Len(o.msgs))
  <2> DEFINE p == [o EXCEPT !.cursor = 0]
  <2>1. p \in Record /\ p.msgs = o.msgs /\ p.cursor = 0 /\ Loaded(o) = p
    BY <1>1, <1>3 DEF Record, Loaded
  <2> HIDE DEF p
  <2>2. o.cursor \in Nat /\ Len(o.msgs) \in Nat
    BY <1>1, RecordIs
  <2>3. \A x \in owed : x \in Numbers(Unarchived(p))
    BY <1>1, <2>1, <2>2, UnarchivedNumbers
  <2>4. tight => p.cursor <= Len(p.msgs)
    BY <2>1, <2>2
  <2> QED
    BY <2>1, <2>3, <2>4 DEF Fits
<1> QED
  BY <1>2, <1>3

\* The messages behind the cursor alone, or an end of them.
LEMMA FitsEnd ==
  ASSUME NEW o, NEW n \in Nat, NEW low \in Nat, NEW tight, NEW owed, NEW p \in Record,
         NEW k \in 0..Len(Unarchived(o)), Fits(o, n, low, tight, owed),
         p.msgs = From(Unarchived(o), k + 1), p.cursor = 0
  PROVE  Fits(p, n, low, tight, owed \ Numbers(SubSeq(Unarchived(o), 1, k)))
<1> DEFINE s == o.msgs  c == o.cursor  u == Unarchived(o)  t == p.msgs
           head == Numbers(SubSeq(u, 1, k))
<1>1. /\ o \in Record /\ owed \subseteq Numbers(u)
      /\ \A i \in 1..Len(s) : low < s[i].n /\ s[i].n <= n
      /\ \A i, j \in 1..Len(s) : i < j => s[i].n < s[j].n
  BY DEF Fits, Ordered
<1>2. /\ u \in Seq(Messages) /\ Len(u) \in Nat /\ k \in 0..Len(u) /\ k \in Nat /\ c \in Nat /\ Len(s) \in Nat
      /\ \A i \in 1..Len(u) : u[i] = s[c + i] /\ c + i \in 1..Len(s)
  BY <1>1, UnarchivedIs, CopyIs
<1>3. /\ t \in Seq(Messages) /\ Len(t) = Len(u) - k
      /\ \A i \in 1..Len(t) : t[i] = u[k + i] /\ k + i \in 1..Len(u)
  <2>1. k + 1 \in Nat \ {0} /\ Len(u) \in 0..Len(u) /\ t = SubSeq(u, k + 1, Len(u))
    BY <1>2 DEF From
  <2> HIDE DEF u, t
  <2>2. /\ t \in Seq(Messages) /\ Len(t) = IF k + 1 <= Len(u) THEN Len(u) - (k + 1) + 1 ELSE 0
        /\ \A i \in 1..Len(t) : t[i] = u[(k + 1) + i - 1] /\ (k + 1) + i - 1 \in 1..Len(u)
    BY <1>2, <2>1, Part
  <2>3. \A i \in 1..Len(t) : (k + 1) + i - 1 = k + i
    BY <1>2, <2>2
  <2> QED
    BY <1>2, <2>2, <2>3
<1>4. \A i \in 1..Len(t) : t[i] = s[c + (k + i)] /\ c + (k + i) \in 1..Len(s)
  <2> HIDE DEF u, t, s, c
  <2> QED
    BY <1>2, <1>3
<1> HIDE DEF s, c, u, t, head
<1>5. \A i \in 1..Len(t) : low < t[i].n /\ t[i].n <= n
  BY <1>1, <1>4
<1>6. \A i, j \in 1..Len(t) : i < j => t[i].n < t[j].n
  <2> TAKE i, j \in 1..Len(t)
  <2> HAVE i < j
  <2>1. c + (k + i) < c + (k + j)
    BY <1>2
  <2> QED
    BY <1>1, <1>4, <2>1
<1>7. ASSUME NEW x \in owed, x \notin head PROVE x \in Numbers(t)
  <2>1. PICK i \in 1..Len(u) : u[i].n = x
    <3>1. x \in Numbers(u)
      BY <1>1, <1>7
    <3> QED
      BY <1>2, <3>1, ListNumbers
  <2>2. ~(i <= k)
    <3>1. x \in Numbers(SubSeq(u, 1, k)) <=> \E j \in 1..Len(u) : 1 <= j /\ j <= k /\ u[j].n = x
      <4>1. 1 \in Nat \ {0}
        OBVIOUS
      <4> QED
        BY <1>2, <4>1, PartNumbers
    <3>2. x \notin Numbers(SubSeq(u, 1, k))
      BY <1>7 DEF head
    <3> QED
      BY <1>2, <2>1, <3>1, <3>2
  <2>3. i - k \in 1..Len(t) /\ k + (i - k) = i
    BY <1>2, <1>3, <2>1, <2>2
  <2>4. t[i - k].n = x
    BY <1>3, <2>1, <2>3
  <2> QED
    BY <1>3, <2>3, <2>4, ListNumbers
<1>8. Unarchived(p) = t
  <2>1. Unarchived(p) = SubSeq(t, 1, Len(t))
    BY DEF Unarchived, From, t
  <2> QED
    BY <1>3, <2>1
<1>9. tight => p.cursor <= Len(p.msgs)
  BY <1>3 DEF t
<1> QED
  BY <1>5, <1>6, <1>7, <1>8, <1>9 DEF Fits, Ordered, t, head, u

\* How much of a list the idle compaction drops, and a prompt does not replay.
LEMMA DropBounded ==
  ASSUME NEW s \in Seq(Messages)
  PROVE  DropForIdle(s) \in 0..Len(s)
<1> DEFINE first == Len(s) - Suffix
           before == {i \in 1..first + 1 : IsUser(s[i])}
           after == {i \in first + 1..Len(s) : IsUser(s[i])}
<1>1. Len(s) \in Nat /\ Suffix \in Nat \ {0}
  BY CompactionAssumption
<1>2. CASE first <= 0
  BY <1>1, <1>2 DEF DropForIdle
<1>3. CASE ~(first <= 0) /\ before # {}
  <2>1. before \in SUBSET (0..Len(s))
    BY <1>1, <1>3
  <2>2. Max(before) \in before
    BY <1>1, <1>3, <2>1, GreatestElement
  <2>3. DropForIdle(s) = Max(before) - 1
    BY <1>3 DEF DropForIdle
  <2>4. Max(before) \in 1..Len(s)
    BY <1>1, <1>3, <2>2
  <2> HIDE DEF before
  <2> QED
    BY <1>1, <2>3, <2>4
<1>4. CASE ~(first <= 0) /\ before = {} /\ after # {}
  <2>1. after \in SUBSET Nat
    BY <1>1, <1>4
  <2>2. Min(after) \in after
    BY <1>4, <2>1, MinIn
  <2>3. DropForIdle(s) = Min(after) - 1
    BY <1>4 DEF DropForIdle
  <2>4. Min(after) \in 1..Len(s)
    BY <1>1, <1>4, <2>2
  <2> HIDE DEF after
  <2> QED
    BY <1>1, <2>3, <2>4
<1>5. CASE ~(first <= 0) /\ before = {} /\ after = {}
  <2>1. DropForIdle(s) = first
    BY <1>5 DEF DropForIdle
  <2> QED
    BY <1>1, <1>5, <2>1
<1> QED
  BY <1>2, <1>3, <1>4, <1>5

LEMMA HiddenBounded ==
  ASSUME NEW s \in Seq(Messages)
  PROVE  HiddenByWindow(s) \in 0..Len(s)
<1> DEFINE first == Len(s) - Window
           WithDelivery(u, from) == IF u - 1 > from /\ s[u - 1].kind = "delivery" THEN u - 2 ELSE u - 1
           inside == {i \in first + 1..Len(s) : IsUser(s[i])}
           before == {i \in 1..first : IsUser(s[i])}
<1>1. Len(s) \in Nat /\ Window \in Nat \ {0}
  BY CompactionAssumption
<1>2. CASE first <= 0
  BY <1>1, <1>2 DEF HiddenByWindow
<1>0. ASSUME NEW u \in 1..Len(s), NEW from \in Nat
      PROVE  WithDelivery(u, from) \in 0..Len(s)
  BY <1>1
<1>3. CASE ~(first <= 0) /\ inside # {}
  <2>1. inside \in SUBSET Nat /\ first \in Nat
    BY <1>1, <1>3
  <2>2. Min(inside) \in inside
    BY <1>3, <2>1, MinIn
  <2>3. HiddenByWindow(s) = WithDelivery(Min(inside), first)
    BY <1>3 DEF HiddenByWindow
  <2>4. Min(inside) \in 1..Len(s)
    BY <1>1, <1>3, <2>2
  <2> HIDE DEF inside, WithDelivery, first
  <2> QED
    BY <1>0, <2>1, <2>3, <2>4
<1>4. CASE ~(first <= 0) /\ inside = {} /\ before # {}
  <2>1. before \in SUBSET (0..Len(s))
    BY <1>1, <1>4
  <2>2. Max(before) \in before
    BY <1>1, <1>4, <2>1, GreatestElement
  <2>3. HiddenByWindow(s) = WithDelivery(Max(before), 0)
    BY <1>4 DEF HiddenByWindow
  <2>4. Max(before) \in 1..Len(s)
    BY <1>1, <1>4, <2>2
  <2> HIDE DEF before, WithDelivery, first
  <2> QED
    BY <1>0, <2>3, <2>4
<1>5. CASE ~(first <= 0) /\ inside = {} /\ before = {}
  <2>1. HiddenByWindow(s) = first
    BY <1>5 DEF HiddenByWindow
  <2> QED
    BY <1>1, <1>5, <2>1
<1> QED
  BY <1>2, <1>3, <1>4, <1>5

-----------------------------------------------------------------------------
(* The file cap: enforce_file_cap keeps a window of the list.               *)

LEMMA LegalStartIn ==
  ASSUME NEW S, NEW s \in Seq(S)
  PROVE  LegalStart(s) \in 0..Len(s)
<1> DEFINE cut[j \in 1..Len(s)] ==
      /\ IsTool(s[j])
      /\ \A k \in 1..j-1 : Declares(s[k], s[j]) => \E m \in k+1..j-1 : cut[m]
    C == {0} \union {j \in 1..Len(s) : cut[j]}
<1>1. LegalStart(s) = Max(C)
  BY DEF LegalStart
<1> HIDE DEF cut
<1>2. C \in SUBSET (0..Len(s)) /\ C # {} /\ Len(s) \in Nat
  OBVIOUS
<1> HIDE DEF C
<1>3. Max(C) \in C
  BY <1>2, GreatestElement
<1> QED
  BY <1>1, <1>2, <1>3

\* A window of a list is its part from a to b; an end of a window is a window.
IsWindow(t, s) == \E a \in 1..Len(s) + 1, b \in 0..Len(s) : a <= b + 1 /\ t = SubSeq(s, a, b)

LEMMA WindowFrom ==
  ASSUME NEW s \in Seq(Messages), NEW t, IsWindow(t, s), NEW k \in 1..Len(t) + 1
  PROVE  IsWindow(From(t, k), s)
<1>1. PICK a \in 1..Len(s) + 1, b \in 0..Len(s) : a <= b + 1 /\ t = SubSeq(s, a, b)
  BY DEF IsWindow
<1>2. Len(s) \in Nat /\ a \in Nat \ {0} /\ b \in Nat /\ k \in Nat
  <2>1. Len(s) \in Nat
    OBVIOUS
  <2> QED
    BY <2>1
<1>3. /\ t \in Seq(Messages) /\ Len(t) = b - a + 1
      /\ \A i \in 1..Len(t) : t[i] = s[a + i - 1]
  BY <1>1, <1>2, Part
<1> DEFINE w == From(t, k)  v == SubSeq(s, a + k - 1, b)
<1>4. w \in Seq(Messages) /\ Len(w) = Len(t) - k + 1 /\ \A i \in 1..Len(w) : w[i] = t[k + i - 1] /\ k + i - 1 \in 1..Len(t)
  <2>1. k \in Nat \ {0} /\ Len(t) \in 0..Len(t) /\ k <= Len(t) + 1
    BY <1>2, <1>3
  <2> HIDE DEF w
  <2>2. /\ w \in Seq(Messages) /\ Len(w) = IF k <= Len(t) THEN Len(t) - k + 1 ELSE 0
        /\ \A i \in 1..Len(w) : w[i] = t[k + i - 1] /\ k + i - 1 \in 1..Len(t)
    BY <1>3, <2>1, Part DEF w, From
  <2> QED
    BY <1>2, <1>3, <2>1, <2>2
<1>5. v \in Seq(Messages) /\ Len(v) = b - a - k + 2 /\ \A i \in 1..Len(v) : v[i] = s[(a + k - 1) + i - 1]
  <2>1. a + k - 1 \in Nat \ {0} /\ a + k - 1 <= b + 1
    BY <1>2, <1>3
  <2> HIDE DEF v
  <2>2. /\ v \in Seq(Messages) /\ Len(v) = IF a + k - 1 <= b THEN b - (a + k - 1) + 1 ELSE 0
        /\ \A i \in 1..Len(v) : v[i] = s[(a + k - 1) + i - 1]
    BY <2>1, Part DEF v
  <2> QED
    BY <1>2, <2>1, <2>2
<1> HIDE DEF w, v
<1>6. Len(w) = Len(v) /\ \A i \in 1..Len(w) : w[i] = v[i]
  <2>1. Len(w) = Len(v) /\ Len(w) \in Nat
    BY <1>2, <1>3, <1>4, <1>5
  <2>2. ASSUME NEW i \in 1..Len(w) PROVE w[i] = v[i]
    <3>1. a + (k + i - 1) - 1 = (a + k - 1) + i - 1
      BY <1>2, <2>1
    <3> QED
      BY <1>3, <1>4, <1>5, <2>1, <3>1
  <2> QED
    BY <2>1, <2>2
<1>7. w = v
  BY <1>4, <1>5, <1>6, SeqEqual
<1>8. a + k - 1 \in 1..Len(s) + 1 /\ a + k - 1 <= b + 1
  BY <1>2, <1>3
<1> QED
  BY <1>7, <1>8 DEF IsWindow, w, v

LEMMA RetainIsWindow ==
  ASSUME NEW s \in Seq(Messages), NEW max \in Nat \ {0}
  PROVE  IsWindow(RetainRecent(s, max), s)
<1> DEFINE n == Len(s)
           Users(t) == {i \in 1..Len(t) : IsUser(t[i])}
           tail == From(s, n - max + 1)
           u == Max(Users(s))
           aligned == IF Users(tail) # {} THEN From(tail, Min(Users(tail)))
                      ELSE IF Users(s) # {} THEN SubSeq(s, u, Min({u + max - 1, n}))
                      ELSE tail
<1>1. n \in Nat /\ max \in Nat /\ max # 0
  OBVIOUS
<1>0. IsWindow(s, s)
  <2>1. s = SubSeq(s, 1, n) /\ 1 \in 1..n + 1 /\ n \in 0..n /\ 1 <= n + 1
    BY <1>1
  <2> QED
    BY <2>1 DEF IsWindow
<1>2. CASE n <= max
  BY <1>0, <1>2 DEF RetainRecent
<1>3. CASE n > max
  <2>1. IsWindow(tail, s) /\ tail \in Seq(Messages) /\ Len(tail) \in Nat
    <3>1. n - max + 1 \in 1..n + 1 /\ n - max + 1 \in Nat \ {0} /\ n \in 0..n
      BY <1>1, <1>3
    <3>2. SubSeq(s, n - max + 1, n) \in Seq(Messages)
      BY <3>1, Part
    <3> QED
      BY <1>0, <3>1, <3>2, WindowFrom DEF From
  <2>2. RetainRecent(s, max) = From(aligned, LegalStart(aligned) + 1)
    BY <1>1, <1>3 DEF RetainRecent
  <2>3. IsWindow(aligned, s)
    <3>1. CASE Users(tail) # {}
      <4>1. Users(tail) \in SUBSET Nat
        OBVIOUS
      <4>2. Min(Users(tail)) \in Users(tail)
        BY <3>1, <4>1, MinIn
      <4>3. Min(Users(tail)) \in 1..Len(tail) + 1
        BY <2>1, <4>2
      <4>4. aligned = From(tail, Min(Users(tail)))
        BY <3>1
      <4> HIDE DEF tail, Users, aligned
      <4> QED
        BY <2>1, <4>3, <4>4, WindowFrom
    <3>2. CASE Users(tail) = {} /\ Users(s) # {}
      <4>1. Users(s) \in SUBSET (0..n)
        OBVIOUS
      <4>2. Max(Users(s)) \in Users(s)
        BY <1>1, <3>2, <4>1, GreatestElement
      <4>3. PICK k \in 1..n : k = u
        BY <4>2
      <4>4. PICK d : d = Min({k + max - 1, n})
        OBVIOUS
      <4>5. d \in 0..n /\ k <= d + 1
        <5>1. {k + max - 1, n} \in SUBSET Nat /\ {k + max - 1, n} # {}
          BY <1>1
        <5>2. d \in {k + max - 1, n} /\ d <= k + max - 1 /\ d <= n
          BY <4>4, <5>1, MinIn
        <5> QED
          BY <1>1, <5>2
      <4>6. aligned = SubSeq(s, k, d)
        <5>1. aligned = SubSeq(s, u, Min({u + max - 1, n}))
          BY <3>2
        <5> HIDE DEF aligned, u
        <5> QED
          BY <4>3, <4>4, <5>1
      <4>7. k \in 1..n + 1
        BY <1>1
      <4> HIDE DEF aligned
      <4> QED
        BY <4>5, <4>6, <4>7 DEF IsWindow
    <3>3. CASE Users(tail) = {} /\ Users(s) = {}
      BY <2>1, <3>3
    <3> QED
      BY <3>1, <3>2, <3>3
  <2> HIDE DEF aligned
  <2>4. aligned \in Seq(Messages)
    <3>1. PICK a \in 1..Len(s) + 1, b \in 0..Len(s) : aligned = SubSeq(s, a, b)
      BY <2>3 DEF IsWindow
    <3> QED
      BY <3>1, Part
  <2>5. LegalStart(aligned) + 1 \in 1..Len(aligned) + 1
    BY <2>4, LegalStartIn
  <2> QED
    BY <2>2, <2>3, <2>5, WindowFrom
<1> QED
  BY <1>1, <1>2, <1>3

\* FinishTurn's capped, and the numbers of what it archives.
CutBy(o) == {i \in 1..Len(o.msgs) : o.msgs[i] \notin Range(RetainRecent(o.msgs, FileCap))}
Capped(o) ==
  IF CutBy(o) = {} THEN o
  ELSE [o EXCEPT !.msgs = RetainRecent(o.msgs, FileCap), !.cursor = Cardinality((1..o.cursor) \ CutBy(o))]
CutNumbers(o) == {o.msgs[i].n : i \in {j \in CutBy(o) : j > o.cursor}}

\* T is what is outside of the window a to b of the places up to m.
Outside(T, m, a, b) == T \subseteq 1..m /\ \A i \in 1..m : i \in T <=> ~(a <= i /\ i <= b)

\* What is cut is what is outside of a window a to b.
LEMMA CutIs ==
  ASSUME NEW o \in Record, Ordered(o.msgs)
  PROVE  \E a, b \in Nat :
           /\ a # 0 /\ a <= b + 1 /\ b <= Len(o.msgs) /\ RetainRecent(o.msgs, FileCap) = SubSeq(o.msgs, a, b)
           /\ Outside(CutBy(o), Len(o.msgs), a, b)
<1> DEFINE s == o.msgs
<1>1. s \in Seq(Messages) /\ Len(s) \in Nat /\ \A i \in 1..Len(s) : s[i].n \in Nat
  BY CopyIs
<1>2. FileCap \in Nat \ {0}
  BY CompactionAssumption
<1>3. PICK a \in 1..Len(s) + 1, b \in 0..Len(s) : a <= b + 1 /\ RetainRecent(s, FileCap) = SubSeq(s, a, b)
  BY <1>1, <1>2, RetainIsWindow DEF IsWindow
<1>4. a \in Nat \ {0} /\ b \in Nat
  BY <1>1
<1>0. \A i, j \in 1..Len(s) : i < j => s[i].n < s[j].n
  BY DEF Ordered
<1>6. \A i \in 1..Len(s) : i \in CutBy(o) <=> s[i] \notin Range(SubSeq(s, a, b))
  BY <1>3 DEF CutBy
<1> HIDE DEF s
<1> DEFINE w == SubSeq(s, a, b)
<1>5. /\ w \in Seq(Messages) /\ Len(w) = IF a <= b THEN b - a + 1 ELSE 0
      /\ \A i \in 1..Len(w) : w[i] = s[a + i - 1] /\ a + i - 1 \in 1..Len(s)
  BY <1>1, <1>4, Part
<1>9. DOMAIN w = 1..Len(w)
  BY <1>5
<1> HIDE DEF w
<1>7. \A i \in 1..Len(s) : s[i] \in Range(w) <=> (a <= i /\ i <= b)
  <2> TAKE i \in 1..Len(s)
  <2>1. ASSUME s[i] \in Range(w) PROVE a <= i /\ i <= b
    <3>1. PICK j \in 1..Len(w) : s[i] = w[j]
      BY <1>9, <2>1 DEF Range
    <3>2. a + j - 1 \in 1..Len(s) /\ a <= a + j - 1 /\ a + j - 1 <= b /\ s[i] = s[a + j - 1]
      BY <1>1, <1>4, <1>5, <3>1
    <3>3. i = a + j - 1
      <4> PICK k \in 1..Len(s) : k = a + j - 1
        BY <3>2
      <4>2. s[i].n = s[k].n /\ s[k].n \in Nat
        BY <1>1, <3>2
      <4>3. (i < k => s[i].n < s[k].n) /\ (k < i => s[k].n < s[i].n)
        BY <1>0
      <4>1. ~(i < k) /\ ~(k < i)
        <5> DEFINE x == s[i].n  y == s[k].n
        <5> HIDE DEF x, y
        <5>1. x = y /\ y \in Nat /\ (i < k => x < y) /\ (k < i => y < x)
          BY <4>2, <4>3 DEF x, y
        <5> QED
          BY <5>1
      <4> QED
        BY <1>1, <4>1
    <3> QED
      BY <3>2, <3>3
  <2>2. ASSUME a <= i, i <= b PROVE s[i] \in Range(w)
    <3>1. i - a + 1 \in 1..Len(w) /\ a + (i - a + 1) - 1 = i
      BY <1>1, <1>4, <1>5, <2>2
    <3>2. w[i - a + 1] = s[i]
      BY <1>5, <3>1
    <3> QED
      BY <1>9, <3>1, <3>2 DEF Range
  <2> QED
    BY <2>1, <2>2
<1>8. \A i \in 1..Len(s) : i \in CutBy(o) <=> ~(a <= i /\ i <= b)
  BY <1>6, <1>7 DEF w
<1>11. CutBy(o) \subseteq 1..Len(s)
  BY DEF CutBy, s
<1>10. a # 0 /\ b <= Len(s)
  BY <1>1
<1> QED
  BY <1>3, <1>4, <1>8, <1>10, <1>11 DEF s, Outside

\* d places of the window from a to b are up to c.
Places(d, c, a, b, m) ==
  /\ d \in Nat
  /\ c <= m => d = (IF c < a THEN 0 ELSE IF c <= b THEN c - a + 1 ELSE b - a + 1)

\* The cursor counts what it had passed of the window.
LEMMA CappedCursor ==
  ASSUME NEW c \in Nat, NEW a \in Nat \ {0}, NEW b \in Nat, a <= b + 1, NEW m \in Nat, b <= m,
         NEW T, Outside(T, m, a, b)
  PROVE  Places(Cardinality((1..c) \ T), c, a, b, m)
<1>1. IsFiniteSet(1..c)
  BY FS_Interval
<1>2. IsFiniteSet((1..c) \ T)
  BY <1>1, FS_Subset
<1>3. Cardinality((1..c) \ T) \in Nat
  BY <1>2, FS_CardinalityType
<1>4. ASSUME c <= m
      PROVE  Cardinality((1..c) \ T) = (IF c < a THEN 0 ELSE IF c <= b THEN c - a + 1 ELSE b - a + 1)
  <2> DEFINE d == IF c <= b THEN c ELSE b
  <2>1. d \in Nat /\ a \in Int /\ d \in Int
    OBVIOUS
  <2>2. (1..c) \ T = a..d
    BY <1>4 DEF Outside
  <2>3. Cardinality(a..d) = IF a > d THEN 0 ELSE d - a + 1
    BY <2>1, FS_Interval
  <2>4. (IF a > d THEN 0 ELSE d - a + 1) = (IF c < a THEN 0 ELSE IF c <= b THEN c - a + 1 ELSE b - a + 1)
    OBVIOUS
  <2> HIDE DEF d
  <2> QED
    BY <2>2, <2>3, <2>4
<1> QED
  BY <1>3, <1>4 DEF Places

\* w has what s has from place a to b.
Picture(w, s, a, b) ==
  /\ w \in Seq(Messages) /\ Len(w) = b - a + 1
  /\ \A i \in 1..Len(w) : w[i] = s[a + i - 1] /\ a + i - 1 \in 1..Len(s)

\* A copy that keeps the window from a to b of its list.
LEMMA CappedWith ==
  ASSUME NEW o \in Record, NEW a \in Nat, NEW b \in Nat, a # 0, a <= b + 1, b <= Len(o.msgs),
         NEW T, Outside(T, Len(o.msgs), a, b),
         NEW p, p = Changed(o, SubSeq(o.msgs, a, b), Cardinality((1..o.cursor) \ T))
  PROVE  \E w, d : MadeOf(p, o, w, d) /\ Places(d, o.cursor, a, b, Len(o.msgs)) /\ Picture(w, o.msgs, a, b)
<1>0. PICK w : w = SubSeq(o.msgs, a, b)
  OBVIOUS
<1>1. PICK d : d = Cardinality((1..o.cursor) \ T)
  OBVIOUS
<1>2. o.msgs \in Seq(Messages) /\ Len(o.msgs) \in Nat /\ o.cursor \in Nat
  BY CopyIs
<1>3. /\ w \in Seq(Messages) /\ Len(w) = IF a <= b THEN b - a + 1 ELSE 0
      /\ \A i \in 1..Len(w) : w[i] = o.msgs[a + i - 1] /\ a + i - 1 \in 1..Len(o.msgs)
  <2>1. a \in Nat \ {0} /\ b \in 0..Len(o.msgs)
    BY <1>2
  <2> QED
    BY <1>0, <1>2, <2>1, Part
<1>4. Picture(w, o.msgs, a, b)
  BY <1>3 DEF Picture
<1>5. Places(d, o.cursor, a, b, Len(o.msgs))
  <2>1. PICK m \in Nat : m = Len(o.msgs)
    BY <1>2
  <2>2. PICK c \in Nat : c = o.cursor
    BY <1>2
  <2>3. Outside(T, m, a, b) /\ b <= m /\ a \in Nat \ {0}
    BY <2>1
  <2>4. Places(Cardinality((1..c) \ T), c, a, b, m)
    BY <2>3, CappedCursor
  <2> QED
    BY <1>1, <2>1, <2>2, <2>4
<1>6. p = Changed(o, w, d) /\ w \in Seq(Messages) /\ d \in Nat
  BY <1>0, <1>1, <1>3, <1>5 DEF Places
<1>7. MadeOf(p, o, w, d)
  BY <1>6, CopyWith
<1> QED
  BY <1>4, <1>5, <1>7

\* The file cap keeps the order, archives what is cut behind the cursor, and leaves
\* the rest behind the cursor.
LEMMA CappedIs ==
  ASSUME NEW o \in Record, Ordered(o.msgs)
  PROVE  /\ Capped(o) \in Record /\ Ordered(Capped(o).msgs)
         /\ \A i \in 1..Len(Capped(o).msgs) : \E j \in 1..Len(o.msgs) : Capped(o).msgs[i] = o.msgs[j]
         /\ o.cursor <= Len(o.msgs) => Capped(o).cursor <= Len(Capped(o).msgs)
         /\ Numbers(Unarchived(o)) \ CutNumbers(o) \subseteq Numbers(Unarchived(Capped(o)))
         /\ CutNumbers(o) \subseteq Numbers(Unarchived(o))
         /\ o.cursor <= Len(o.msgs) =>
              Numbers(Unarchived(Capped(o))) \subseteq Numbers(Unarchived(o)) \ CutNumbers(o)
<1> DEFINE s == o.msgs  c == o.cursor  p == Capped(o)  m == Len(s)
<1>1. s \in Seq(Messages) /\ m \in Nat /\ c \in Nat /\ \A i \in 1..m : s[i] \in Messages /\ s[i].n \in Nat
  BY CopyIs
<1>0. \A i, j \in 1..m : i < j => s[i].n < s[j].n
  BY DEF Ordered
<1>2. \A x : x \in CutNumbers(o) <=> \E i \in 1..m : i \in CutBy(o) /\ c < i /\ s[i].n = x
  BY <1>1 DEF CutNumbers, CutBy
<1>3. \A x : x \in Numbers(Unarchived(o)) <=> \E i \in 1..m : c < i /\ s[i].n = x
  BY UnarchivedNumbers
<1>4. CutNumbers(o) \subseteq Numbers(Unarchived(o))
  BY <1>2, <1>3
<1>9. \A i, j \in 1..m : s[i].n = s[j].n => i = j
  <2> TAKE i, j \in 1..m
  <2>1. s[i].n \in Nat /\ s[j].n \in Nat /\ (i < j => s[i].n < s[j].n) /\ (j < i => s[j].n < s[i].n)
    BY <1>0, <1>1
  <2> DEFINE x == s[i].n  y == s[j].n
  <2> HIDE DEF x, y
  <2>2. x \in Nat /\ y \in Nat /\ (i < j => x < y) /\ (j < i => y < x)
    BY <2>1 DEF x, y
  <2>3. x = y => i = j
    BY <1>1, <2>2
  <2> QED
    BY <2>3 DEF x, y
<1>5. CASE CutBy(o) = {}
  <2>1. p = o
    BY <1>5 DEF Capped
  <2>2. CutNumbers(o) = {}
    BY <1>5 DEF CutNumbers
  <2> QED
    BY <1>4, <2>1, <2>2
<1>6. CASE CutBy(o) # {}
  <2>1. PICK a, b \in Nat :
          /\ a # 0 /\ a <= b + 1 /\ b <= m /\ RetainRecent(s, FileCap) = SubSeq(s, a, b)
          /\ Outside(CutBy(o), m, a, b)
    BY CutIs
  <2>0. \A i \in 1..m : i \in CutBy(o) <=> ~(a <= i /\ i <= b)
    BY <2>1 DEF Outside
  <2>2. p = Changed(o, SubSeq(s, a, b), Cardinality((1..c) \ CutBy(o)))
    BY <1>6, <2>1 DEF Capped, Changed
  <2>11. PICK w, d : MadeOf(p, o, w, d) /\ Places(d, c, a, b, m) /\ Picture(w, s, a, b)
    BY <2>1, <2>2, CappedWith
  <2>3. /\ w \in Seq(Messages) /\ Len(w) = b - a + 1 /\ b \in Nat
        /\ \A i \in 1..Len(w) : w[i] = s[a + i - 1] /\ a + i - 1 \in 1..m
    BY <2>11 DEF Picture
  <2>4. /\ d \in Nat
        /\ c <= m => d = (IF c < a THEN 0 ELSE IF c <= b THEN c - a + 1 ELSE b - a + 1)
    BY <2>11 DEF Places
  <2>5. p \in Record /\ p.msgs = w /\ p.cursor = d
    BY <2>11 DEF MadeOf
  <2>6. \A x : x \in Numbers(Unarchived(p)) <=> \E i \in 1..Len(w) : d < i /\ w[i].n = x
    BY <2>5, UnarchivedNumbers
  <2> HIDE DEF s, c, p, m
  <2>7. \A i, j \in 1..Len(w) : i < j => w[i].n < w[j].n
    <3> TAKE i, j \in 1..Len(w)
    <3> HAVE i < j
    <3>1. a + i - 1 < a + j - 1
      BY <2>1, <2>3
    <3> QED
      BY <1>0, <2>3, <3>1
  <2>8. c <= m => d <= Len(w)
    BY <1>1, <2>1, <2>3, <2>4
  <2>9. ASSUME NEW x \in Numbers(Unarchived(o)), x \notin CutNumbers(o)
        PROVE  x \in Numbers(Unarchived(p))
    <3>1. PICK i \in 1..m : c < i /\ s[i].n = x
      BY <1>3
    <3>2. i \notin CutBy(o)
      BY <1>2, <2>9, <3>1
    <3>3. a <= i /\ i <= b /\ c <= m
      <4>1. a <= i /\ i <= b
        BY <2>0, <3>2
      <4> QED
        BY <1>1, <3>1, <4>1
    <3>4. i - a + 1 \in 1..Len(w) /\ d < i - a + 1 /\ a + (i - a + 1) - 1 = i
      BY <1>1, <2>1, <2>3, <2>4, <3>1, <3>3
    <3>5. w[i - a + 1].n = x
      BY <2>3, <3>1, <3>4
    <3> QED
      BY <2>6, <3>4, <3>5
  <2>10. ASSUME c <= m, NEW x \in Numbers(Unarchived(p))
         PROVE  x \in Numbers(Unarchived(o)) /\ x \notin CutNumbers(o)
    <3>1. PICK i \in 1..Len(w) : d < i /\ w[i].n = x
      BY <2>6, <2>10
    <3>2. PICK k \in 1..m : k = a + i - 1
      BY <2>3
    <3>3. s[k].n = x /\ a <= k /\ k <= b /\ c < k
      <4>1. s[k].n = x
        BY <2>3, <3>1, <3>2
      <4>2. i \in Nat /\ 1 <= i /\ i <= b - a + 1
        BY <2>3
      <4>3. a <= k /\ k <= b
        BY <2>3, <3>2, <4>2
      <4>4. c < k
        <5>1. d = (IF c < a THEN 0 ELSE IF c <= b THEN c - a + 1 ELSE b - a + 1) /\ d < i
          BY <2>4, <2>10, <3>1
        <5> QED
          BY <1>1, <2>3, <2>4, <3>2, <4>2, <5>1
      <4> QED
        BY <4>1, <4>3, <4>4
    <3>4. x \notin CutNumbers(o)
      <4> SUFFICES ASSUME x \in CutNumbers(o) PROVE FALSE
        OBVIOUS
      <4>1. PICK j \in 1..m : j \in CutBy(o) /\ s[j].n = x
        BY <1>2
      <4>2. j = k
        BY <1>9, <3>3, <4>1
      <4> QED
        BY <2>0, <3>3, <4>1, <4>2
    <3> QED
      BY <1>3, <3>3, <3>4
  <2> QED
    BY <1>4, <2>3, <2>5, <2>7, <2>8, <2>9, <2>10 DEF Ordered, s, c, p, m
<1> QED
  BY <1>5, <1>6

LEMMA FitsCapped ==
  ASSUME NEW o, NEW n \in Nat, NEW low \in Nat, NEW tight, NEW owed,
         Fits(o, n, low, tight, owed)
  PROVE  Fits(Capped(o), n, low, tight, owed \ CutNumbers(o))
<1>1. /\ o \in Record /\ Ordered(o.msgs) /\ owed \subseteq Numbers(Unarchived(o))
      /\ tight => o.cursor <= Len(o.msgs)
      /\ \A i \in 1..Len(o.msgs) : low < o.msgs[i].n /\ o.msgs[i].n <= n
  BY DEF Fits
<1>2. /\ Capped(o) \in Record /\ Ordered(Capped(o).msgs)
      /\ \A i \in 1..Len(Capped(o).msgs) : \E j \in 1..Len(o.msgs) : Capped(o).msgs[i] = o.msgs[j]
      /\ o.cursor <= Len(o.msgs) => Capped(o).cursor <= Len(Capped(o).msgs)
      /\ Numbers(Unarchived(o)) \ CutNumbers(o) \subseteq Numbers(Unarchived(Capped(o)))
  BY <1>1, CappedIs
<1>3. \A i \in 1..Len(Capped(o).msgs) : low < Capped(o).msgs[i].n /\ Capped(o).msgs[i].n <= n
  BY <1>1, <1>2
<1>4. owed \ CutNumbers(o) \subseteq Numbers(Unarchived(Capped(o)))
  BY <1>1, <1>2
<1> QED
  BY <1>1, <1>2, <1>3, <1>4 DEF Fits

-----------------------------------------------------------------------------
(* The store's operations. *)

LEMMA StoreIs ==
  ASSUME NEW st
  PROVE  st \in Stores <=> /\ st = [objs |-> st.objs, cache |-> st.cache, file |-> st.file]
                           /\ st.objs \in [Ids -> Record] /\ st.cache \in Ids \union {0} /\ st.file \in Record
BY DEF Stores

\* st2 is st with o in place r, and with this cache and file.
Placed(st2, st, r, o, c, f) ==
  /\ st2 \in Stores /\ st2.cache = c /\ st2.file = f /\ st2.objs[r] = o
  /\ \A q \in Ids : q # r => st2.objs[q] = st.objs[q]

LEMMA EditIs ==
  ASSUME NEW st \in Stores, NEW r \in Ids, NEW o \in Record
  PROVE  Placed(Edit(st, r, o), st, r, o, st.cache, st.file)
<1> DEFINE A == st.objs  B == st.cache  C == st.file
<1>1. st = [objs |-> A, cache |-> B, file |-> C] /\ A \in [Ids -> Record] /\ B \in Ids \union {0} /\ C \in Record
  BY StoreIs
<1> HIDE DEF A, B, C
<1>2. Edit(st, r, o) = [objs |-> [A EXCEPT ![r] = o], cache |-> B, file |-> C]
  BY <1>1 DEF Edit
<1>3. [A EXCEPT ![r] = o] \in [Ids -> Record] /\ [A EXCEPT ![r] = o][r] = o
      /\ \A q \in Ids : q # r => [A EXCEPT ![r] = o][q] = A[q]
  BY <1>1
<1>4. Edit(st, r, o) \in Stores
  BY <1>1, <1>2, <1>3 DEF Stores
<1> QED
  BY <1>2, <1>3, <1>4 DEF Placed, A, B, C

LEMMA SaveIs ==
  ASSUME NEW st \in Stores, NEW r \in Ids
  PROVE  /\ Save(st, r) \in Stores /\ Save(st, r).cache = r /\ Save(st, r).file = st.objs[r]
         /\ Save(st, r).objs = st.objs
<1> DEFINE A == st.objs  B == st.cache  C == st.file
<1>1. st = [objs |-> A, cache |-> B, file |-> C] /\ A \in [Ids -> Record] /\ B \in Ids \union {0} /\ C \in Record
  BY StoreIs
<1> HIDE DEF A, B, C
<1>2. [st EXCEPT !.file = A[r]] = [objs |-> A, cache |-> B, file |-> A[r]]
  BY <1>1
<1>3. Save(st, r) = [objs |-> A, cache |-> r, file |-> A[r]]
  <2> DEFINE p == [st EXCEPT !.file = A[r]]
  <2>1. Save(st, r) = [p EXCEPT !.cache = r]
    BY DEF Save, A
  <2>2. p = [objs |-> A, cache |-> B, file |-> A[r]]
    BY <1>2
  <2> HIDE DEF p
  <2> QED
    BY <2>1, <2>2
<1>4. A[r] \in Record
  BY <1>1
<1>5. Save(st, r) \in Stores
  BY <1>1, <1>3, <1>4 DEF Stores
<1> QED
  BY <1>3, <1>5 DEF A, B, C

LEMMA RewriteIs ==
  ASSUME NEW st \in Stores, NEW r \in Ids, NEW o \in Record
  PROVE  Placed(Rewrite(st, r, o), st, r, o, r, o)
<1>1. Placed(Edit(st, r, o), st, r, o, st.cache, st.file)
  BY EditIs
<1> DEFINE e == Edit(st, r, o)
<1>2. e \in Stores /\ e.objs[r] = o /\ \A q \in Ids : q # r => e.objs[q] = st.objs[q]
  BY <1>1 DEF Placed
<1>3. Rewrite(st, r, o) = Save(e, r)
  BY DEF Rewrite
<1> HIDE DEF e
<1>4. /\ Save(e, r) \in Stores /\ Save(e, r).cache = r /\ Save(e, r).file = e.objs[r]
      /\ Save(e, r).objs = e.objs
  BY <1>2, SaveIs
<1> QED
  BY <1>2, <1>3, <1>4 DEF Placed

LEMMA InvalidateIs ==
  ASSUME NEW st \in Stores
  PROVE  /\ Invalidate(st) \in Stores /\ Invalidate(st).cache = 0
         /\ Invalidate(st).file = st.file /\ Invalidate(st).objs = st.objs
<1> DEFINE A == st.objs  B == st.cache  C == st.file
<1>1. st = [objs |-> A, cache |-> B, file |-> C] /\ A \in [Ids -> Record] /\ B \in Ids \union {0} /\ C \in Record
  BY StoreIs
<1> HIDE DEF A, B, C
<1>2. Invalidate(st) = [objs |-> A, cache |-> 0, file |-> C]
  BY <1>1 DEF Invalidate
<1>3. Invalidate(st) \in Stores
  BY <1>1, <1>2 DEF Stores
<1> QED
  BY <1>2, <1>3 DEF A, B, C

LEMMA FreeId == Min(Ids \ Held) \in Ids /\ Min(Ids \ Held) \notin Held
<1>1. Ids \ Held # {}
  <2>1. {1, 2, 3, 4} \subseteq Ids
    BY DEF Ids
  <2> QED
    BY <2>1 DEF Held
<1>2. Ids \ Held \in SUBSET Nat
  BY DEF Ids
<1> QED
  BY <1>1, <1>2, MinIn

LEMMA LoadedRecord ==
  ASSUME NEW o \in Record
  PROVE  Loaded(o) \in Record
<1>1. o.msgs \in Seq(Messages) /\ 0 \in Nat
  BY CopyIs
<1>2. [o EXCEPT !.cursor = 0] = [msgs |-> o.msgs, cursor |-> 0, pending |-> o.pending] /\ o.pending \in BOOLEAN
  BY <1>1, CopyMade, CopyIs
<1>3. [o EXCEPT !.cursor = 0] \in Record
  BY <1>1, <1>2, RecordIs
<1> QED
  BY <1>3 DEF Loaded

\* get_or_create: st2 is st when the session is cached, and else has its file in a
\* place that nobody holds.
Fetched(st2, st) ==
  /\ st2 \in Stores /\ st2.cache \in Ids /\ st2.file = st.file
  /\ st.cache # 0 => st2 = st
  /\ st.cache = 0 => /\ st2.cache \notin Held
                     /\ Placed(st2, st, st2.cache, Loaded(st.file), st2.cache, st.file)

LEMMA FetchIs ==
  ASSUME NEW st \in Stores
  PROVE  Fetched(Fetch(st), st)
<1> DEFINE A == st.objs  B == st.cache  C == st.file  id == Min(Ids \ Held)  o == Loaded(st.file)
<1>1. st = [objs |-> A, cache |-> B, file |-> C] /\ A \in [Ids -> Record] /\ B \in Ids \union {0} /\ C \in Record
  BY StoreIs
<1>2. id \in Ids /\ id \notin Held
  BY FreeId
<1>3. o \in Record
  BY <1>1, LoadedRecord
<1>4. CASE B # 0
  BY <1>1, <1>4 DEF Fetch, Fetched
<1>5. CASE B = 0
  <2>1. Fetch(st) = [st EXCEPT !.objs[id] = o, !.cache = id]
    BY <1>5 DEF Fetch
  <2> DEFINE e == [st EXCEPT !.objs[id] = o]
  <2>2. Fetch(st) = [e EXCEPT !.cache = id]
    BY <2>1
  <2> HIDE DEF A, B, C, id, o
  <2>3. e = [objs |-> [A EXCEPT ![id] = o], cache |-> B, file |-> C]
    BY <1>1
  <2> HIDE DEF e
  <2>4. Fetch(st) = [objs |-> [A EXCEPT ![id] = o], cache |-> id, file |-> C]
    BY <2>2, <2>3
  <2>5. [A EXCEPT ![id] = o] \in [Ids -> Record] /\ [A EXCEPT ![id] = o][id] = o
        /\ \A q \in Ids : q # id => [A EXCEPT ![id] = o][q] = A[q]
    BY <1>1, <1>2, <1>3
  <2>6. Fetch(st) \in Stores
    BY <1>1, <1>2, <2>4, <2>5 DEF Stores
  <2>7. Placed(Fetch(st), st, id, o, id, C)
    BY <2>4, <2>5, <2>6 DEF Placed, A
  <2>8. Fetch(st).cache = id /\ Fetch(st).file = C
    BY <2>4
  <2> QED
    BY <1>2, <1>5, <2>6, <2>7, <2>8 DEF Fetched, B, C, o
<1> QED
  BY <1>4, <1>5

-----------------------------------------------------------------------------
(* What the operations leave of a store that is well stocked. *)

LEMMA StockedMore ==
  ASSUME NEW st, NEW held, NEW held2, NEW n \in Nat, NEW n2 \in Nat, NEW low \in Nat, NEW low2 \in Nat,
         NEW tight, NEW tight2, NEW owed, NEW owed2,
         Stocked(st, held, n, low, tight, owed), held2 \subseteq held \union {0, st.cache},
         n <= n2, low2 <= low, tight2 => tight, owed2 \subseteq owed
  PROVE  Stocked(st, held2, n2, low2, tight2, owed2)
<1>1. /\ st \in Stores /\ Fits(st.file, n, low, tight, owed)
      /\ \A r \in (held \union {st.cache}) \ {0} : Fits(st.objs[r], n, low, tight, owed)
  BY DEF Stocked
<1>2. \A o : Fits(o, n, low, tight, owed) => Fits(o, n2, low2, tight2, owed2)
  BY FitsMore
<1>3. \A r \in (held2 \union {st.cache}) \ {0} : r \in (held \union {st.cache}) \ {0}
  OBVIOUS
<1> QED
  BY <1>1, <1>2, <1>3 DEF Stocked

\* Where a place of the store gets another object, which the file gets too or not.
LEMMA StockedPlaced ==
  ASSUME NEW st, NEW held \in SUBSET (Ids \union {0}), NEW n \in Nat, NEW low \in Nat, NEW tight, NEW owed,
         Stocked(st, held, n, low, tight, owed),
         NEW st2, NEW r \in Ids, NEW o, NEW f, Placed(st2, st, r, o, r, f),
         NEW held2 \in SUBSET (Ids \union {0}), held2 \subseteq held \union {0, st.cache, r},
         NEW n2 \in Nat, NEW low2 \in Nat, NEW tight2, NEW owed2,
         Fits(o, n2, low2, tight2, owed2), Fits(f, n2, low2, tight2, owed2),
         n <= n2, low2 <= low, tight2 => tight,
         owed2 \subseteq owed \/ held2 \subseteq {0, r}
  PROVE  Stocked(st2, held2, n2, low2, tight2, owed2)
<1>1. /\ st2 \in Stores /\ st2.cache = r /\ st2.file = f /\ st2.objs[r] = o
      /\ \A q \in Ids : q # r => st2.objs[q] = st.objs[q]
  BY DEF Placed
<1>2. \A q \in (held \union {st.cache}) \ {0} : Fits(st.objs[q], n, low, tight, owed)
  BY DEF Stocked
<1>3. \A q \in (held2 \union {st2.cache}) \ {0} : Fits(st2.objs[q], n2, low2, tight2, owed2)
  <2> TAKE q \in (held2 \union {st2.cache}) \ {0}
  <2>1. CASE q = r
    BY <1>1, <2>1
  <2>2. CASE q # r
    <3>1. q \in Ids /\ q \in held2 /\ q \in (held \union {st.cache}) \ {0}
      BY <1>1, <2>2
    <3>2. st2.objs[q] = st.objs[q] /\ Fits(st.objs[q], n, low, tight, owed)
      BY <1>1, <1>2, <2>2, <3>1
    <3>3. owed2 \subseteq owed
      BY <2>2, <3>1
    <3> QED
      BY <3>2, <3>3, FitsMore
  <2> QED
    BY <2>1, <2>2
<1> QED
  BY <1>1, <1>3 DEF Stocked

LEMMA StockedRewrite ==
  ASSUME NEW st, NEW held \in SUBSET (Ids \union {0}), NEW n \in Nat, NEW low \in Nat, NEW tight, NEW owed,
         Stocked(st, held, n, low, tight, owed),
         NEW r \in Ids, NEW o,
         NEW held2 \in SUBSET (Ids \union {0}), held2 \subseteq held \union {0, st.cache, r},
         NEW n2 \in Nat, NEW low2 \in Nat, NEW tight2, NEW owed2,
         Fits(o, n2, low2, tight2, owed2),
         n <= n2, low2 <= low, tight2 => tight,
         owed2 \subseteq owed \/ held2 \subseteq {0, r}
  PROVE  Stocked(Rewrite(st, r, o), held2, n2, low2, tight2, owed2)
<1>1. st \in Stores /\ o \in Record
  BY DEF Stocked, Fits
<1>2. Placed(Rewrite(st, r, o), st, r, o, r, o)
  BY <1>1, RewriteIs
<1> QED
  BY <1>2, StockedPlaced

\* The cached object is changed in memory only.
LEMMA StockedEdit ==
  ASSUME NEW st, NEW held \in SUBSET (Ids \union {0}), NEW n \in Nat, NEW low \in Nat, NEW tight, NEW owed,
         Stocked(st, held, n, low, tight, owed), st.cache \in Ids,
         NEW o, Fits(o, n, low, tight, owed)
  PROVE  Stocked(Edit(st, st.cache, o), held, n, low, tight, owed)
<1>1. st \in Stores /\ o \in Record /\ Fits(st.file, n, low, tight, owed)
  BY DEF Stocked, Fits
<1> DEFINE r == st.cache
<1>2. Placed(Edit(st, r, o), st, r, o, r, st.file)
  BY <1>1, EditIs
<1>3. held \subseteq held \union {0, r, r} /\ r \in Ids /\ n <= n /\ low <= low
  OBVIOUS
<1> QED
  BY <1>1, <1>2, <1>3, StockedPlaced

LEMMA StockedSave ==
  ASSUME NEW st, NEW held, NEW n, NEW low, NEW tight, NEW owed,
         Stocked(st, held, n, low, tight, owed), NEW r \in Ids, r \in held \union {st.cache}
  PROVE  Stocked(Save(st, r), held, n, low, tight, owed)
<1>0. r # 0
  BY DEF Ids
<1>1. /\ st \in Stores /\ Fits(st.objs[r], n, low, tight, owed)
      /\ \A q \in (held \union {st.cache}) \ {0} : Fits(st.objs[q], n, low, tight, owed)
  BY <1>0 DEF Stocked
<1>2. Save(st, r) \in Stores /\ Save(st, r).cache = r /\ Save(st, r).file = st.objs[r] /\ Save(st, r).objs = st.objs
  BY <1>1, SaveIs
<1>3. \A q \in (held \union {r}) \ {0} : q \in (held \union {st.cache}) \ {0}
  BY <1>0
<1> QED
  BY <1>1, <1>2, <1>3 DEF Stocked

LEMMA StockedInvalidate ==
  ASSUME NEW st, NEW held, NEW n, NEW low, NEW tight, NEW owed,
         Stocked(st, held, n, low, tight, owed)
  PROVE  Stocked(Invalidate(st), held, n, low, tight, owed)
<1>1. /\ st \in Stores /\ Fits(st.file, n, low, tight, owed)
      /\ \A q \in (held \union {st.cache}) \ {0} : Fits(st.objs[q], n, low, tight, owed)
  BY DEF Stocked
<1>2. Invalidate(st) \in Stores /\ Invalidate(st).cache = 0 /\ Invalidate(st).file = st.file /\ Invalidate(st).objs = st.objs
  BY <1>1, InvalidateIs
<1> QED
  BY <1>1, <1>2 DEF Stocked

LEMMA HeldIn ==
  ASSUME ControlOK, JobOK
  PROVE  Held \in SUBSET Ids /\ Held \in SUBSET (Ids \union {0}) /\ job.ref \in Ids \union {0}
<1>1. turn.ref \in Ids \union {0} /\ title \in Ids \union {0}
  BY DEF ControlOK, TurnOK
<1>2. job.ref \in Ids \union {0}
  BY DEF JobOK, Jobs, NoJob
<1> QED
  BY <1>1, <1>2 DEF Held

LEMMA StockedFetch ==
  ASSUME NEW st, Held \in SUBSET (Ids \union {0}), NEW n \in Nat, NEW low \in Nat, NEW tight, NEW owed,
         Stocked(st, Held, n, low, tight, owed)
  PROVE  Stocked(Fetch(st), Held, n, low, tight, owed)
<1>1. st \in Stores /\ Fits(st.file, n, low, tight, owed)
  BY DEF Stocked
<1>2. Fetched(Fetch(st), st)
  BY <1>1, FetchIs
<1>3. CASE st.cache # 0
  BY <1>2, <1>3 DEF Fetched
<1>4. CASE st.cache = 0
  <2> DEFINE r == Fetch(st).cache
  <2>1. r \in Ids /\ Placed(Fetch(st), st, r, Loaded(st.file), r, st.file)
    BY <1>2, <1>4 DEF Fetched
  <2>2. Fits(Loaded(st.file), n, low, tight, owed)
    BY <1>1, FitsLoaded
  <2>3. Held \subseteq Held \union {0, st.cache, r} /\ n <= n /\ low <= low
    OBVIOUS
  <2> HIDE DEF r
  <2> QED
    BY <1>1, <2>1, <2>2, <2>3, StockedPlaced
<1> QED
  BY <1>3, <1>4

-----------------------------------------------------------------------------
(* The closing message of a turn that was cut off. *)

\* o2 is o, or o with more messages behind.
Extends(o2, o) ==
  /\ o2 \in Record /\ o2.cursor = o.cursor /\ Len(o.msgs) <= Len(o2.msgs)
  /\ \A i \in 1..Len(o.msgs) : o2.msgs[i] = o.msgs[i]

LEMMA ExtendsSelf == ASSUME NEW o \in Record PROVE Extends(o, o)
BY CopyIs DEF Extends

LEMMA ExtendsSay ==
  ASSUME NEW o \in Record, NEW n \in Nat, NEW kinds \in Sayings
  PROVE  Extends(Say(o, n, kinds), o)
<1>1. /\ Say(o, n, kinds) \in Record
      /\ Say(o, n, kinds).cursor = o.cursor
      /\ Len(Say(o, n, kinds).msgs) = Len(o.msgs) + Len(kinds)
      /\ \A i \in 1..Len(o.msgs) : Say(o, n, kinds).msgs[i] = o.msgs[i]
  BY SayIs
<1>2. Len(o.msgs) \in Nat /\ Len(kinds) \in Nat
  BY CopyIs DEF Sayings
<1> QED
  BY <1>1, <1>2 DEF Extends

LEMMA ExtendsTwice ==
  ASSUME NEW o \in Record, NEW o2, NEW o3, Extends(o2, o), Extends(o3, o2)
  PROVE  Extends(o3, o)
<1>1. Len(o.msgs) \in Nat /\ Len(o2.msgs) \in Nat /\ Len(o3.msgs) \in Nat
  BY CopyIs DEF Extends
<1>2. 1..Len(o.msgs) \subseteq 1..Len(o2.msgs)
  BY <1>1 DEF Extends
<1> QED
  BY <1>1, <1>2 DEF Extends

LEMMA ExtendsPending ==
  ASSUME NEW o \in Record, NEW b \in BOOLEAN
  PROVE  Extends([o EXCEPT !.pending = b], o)
<1>1. [o EXCEPT !.pending = b] = [msgs |-> o.msgs, cursor |-> o.cursor, pending |-> b]
  BY CopyMade
<1>2. o.msgs \in Seq(Messages) /\ o.cursor \in Nat /\ Len(o.msgs) \in Nat
  BY CopyIs
<1> DEFINE p == [o EXCEPT !.pending = b]
<1>3. p.msgs = o.msgs /\ p.cursor = o.cursor /\ p.pending = b
  BY <1>1
<1>4. p \in Record
  BY <1>1, <1>2 DEF Record, Messages
<1> QED
  BY <1>2, <1>3, <1>4 DEF Extends

\* What is said at the end of a turn that was cut off.
ClosingWords(o) == SubSeq(<<"answer">>, 1, ClosingSays(o))

LEMMA ClosingIs ==
  ASSUME NEW o
  PROVE  /\ ClosingSays(o) \in {0, 1} /\ ClosingWords(o) \in Sayings
         /\ Len(ClosingWords(o)) = ClosingSays(o)
<1>1. ClosingSays(o) \in {0, 1}
  BY DEF ClosingSays
<1>2. <<"answer">> \in Sayings /\ Len(<<"answer">>) = 1
  BY DEF Sayings, Kinds
<1>3. CASE ClosingSays(o) = 0
  <2>1. SubSeq(<<"answer">>, 1, 0) \in Sayings /\ Len(SubSeq(<<"answer">>, 1, 0)) = 0
    BY <1>2 DEF Sayings
  <2> QED
    BY <1>3, <2>1 DEF ClosingWords
<1>4. CASE ClosingSays(o) = 1
  <2>1. SubSeq(<<"answer">>, 1, 1) \in Sayings /\ Len(SubSeq(<<"answer">>, 1, 1)) = 1
    BY <1>2 DEF Sayings
  <2> QED
    BY <1>4, <2>1 DEF ClosingWords
<1> QED
  BY <1>1, <1>3, <1>4

LEMMA ClosedIs ==
  ASSUME NEW o \in Record, said \in Nat
  PROVE  Closed(o) \in Record /\ Extends(Closed(o), o)
<1> DEFINE q == Say(o, said, ClosingWords(o))
<1>1. ClosingWords(o) \in Sayings
  BY ClosingIs
<1>2. q \in Record /\ Extends(q, o)
  BY <1>1, SayIs, ExtendsSay
<1>3. Closed(o) = [q EXCEPT !.pending = FALSE]
  BY DEF Closed, ClosingWords
<1> HIDE DEF q
<1>4. Extends(Closed(o), q)
  BY <1>2, <1>3, ExtendsPending
<1> QED
  BY <1>2, <1>4, ExtendsTwice DEF Extends

LEMMA FitsClosed ==
  ASSUME NEW o, said \in Nat, NEW low \in Nat, NEW tight, NEW owed,
         NEW extra, Fits(o, said, low, tight, owed), low <= said,
         extra \subseteq said + 1 .. said + ClosingSays(o), tight \/ extra = {}
  PROVE  Fits(Closed(o), said + ClosingSays(o), low, tight, owed \union extra)
<1> DEFINE q == Say(o, said, ClosingWords(o))
<1>1. ClosingWords(o) \in Sayings /\ Len(ClosingWords(o)) = ClosingSays(o)
  BY ClosingIs
<1>2. Fits(q, said + ClosingSays(o), low, tight, owed \union extra)
  BY <1>1, FitsSay
<1>3. Closed(o) = [q EXCEPT !.pending = FALSE]
  BY DEF Closed, ClosingWords
<1> DEFINE n == said + ClosingSays(o)  all == owed \union extra
<1> HIDE DEF q, n, all
<1>4. Fits(q, n, low, tight, all)
  BY <1>2 DEF n, all
<1>5. Fits([q EXCEPT !.pending = FALSE], n, low, tight, all)
  BY <1>4, FitsPending
<1> QED
  BY <1>3, <1>5 DEF n, all

LEMMA RestoreIs ==
  ASSUME NEW st \in Stores, st.cache \in Ids, said \in Nat
  PROVE  /\ Restore(st) \in Stores /\ Restore(st).cache = st.cache
         /\ \A q \in Ids : q # st.cache => Restore(st).objs[q] = st.objs[q]
         /\ Extends(Restore(st).objs[st.cache], st.objs[st.cache])
         /\ st.objs[st.cache].pending => Restore(st).objs[st.cache] = Closed(st.objs[st.cache])
         /\ ~st.objs[st.cache].pending => Restore(st) = st /\ ClosingSays(st.objs[st.cache]) = 0
<1> DEFINE r == st.cache  o == st.objs[r]
<1>1. o \in Record
  BY StoreIs
<1>2. CASE o.pending
  <2>1. Restore(st) = Rewrite(st, r, Closed(o))
    BY <1>2 DEF Restore
  <2>2. Closed(o) \in Record /\ Extends(Closed(o), o)
    BY <1>1, ClosedIs
  <2>3. Placed(Restore(st), st, r, Closed(o), r, Closed(o))
    BY <2>1, <2>2, RewriteIs
  <2> QED
    BY <1>2, <2>2, <2>3 DEF Placed
<1>3. CASE ~o.pending
  <2>1. Restore(st) = st /\ ClosingSays(o) = 0
    BY <1>3 DEF Restore, ClosingSays
  <2> QED
    BY <1>1, <1>3, <2>1, ExtendsSelf
<1> QED
  BY <1>2, <1>3

LEMMA FitsRestored ==
  ASSUME NEW st \in Stores, st.cache \in Ids, said \in Nat, NEW low \in Nat, NEW tight, NEW owed,
         Fits(st.objs[st.cache], said, low, tight, owed), low <= said,
         NEW extra, extra \subseteq said + 1 .. said + ClosingSays(st.objs[st.cache]), tight \/ extra = {}
  PROVE  Fits(Restore(st).objs[st.cache], said + ClosingSays(st.objs[st.cache]), low, tight, owed \union extra)
<1> DEFINE o == st.objs[st.cache]
<1>1. CASE o.pending
  <2>1. Restore(st).objs[st.cache] = Closed(o)
    BY <1>1, RestoreIs
  <2> HIDE DEF o
  <2>2. Fits(Closed(o), said + ClosingSays(o), low, tight, owed \union extra)
    <3>1. Fits(o, said, low, tight, owed) /\ extra \subseteq said + 1 .. said + ClosingSays(o)
      BY DEF o
    <3> QED
      BY <3>1, FitsClosed
  <2> QED
    BY <2>1, <2>2 DEF o
<1>2. CASE ~o.pending
  <2>1. Restore(st) = st /\ ClosingSays(o) = 0
    BY <1>2, RestoreIs
  <2>2. extra = {} /\ said + 0 = said
    BY <2>1
  <2> QED
    BY <2>1, <2>2
<1> QED
  BY <1>1, <1>2

LEMMA StockedRestore ==
  ASSUME NEW st, Held \in SUBSET (Ids \union {0}), st.cache \in Ids, said \in Nat,
         NEW low \in Nat, NEW tight, NEW owed, Stocked(st, Held, said, low, tight, owed), low <= said,
         NEW extra, extra \subseteq said + 1 .. said + ClosingSays(st.objs[st.cache]), tight \/ extra = {},
         extra = {} \/ Held \subseteq {0, st.cache}
  PROVE  Stocked(Restore(st), Held, said + ClosingSays(st.objs[st.cache]), low, tight, owed \union extra)
<1> DEFINE r == st.cache  o == st.objs[r]  n == said + ClosingSays(o)
<1>1. st \in Stores /\ Fits(o, said, low, tight, owed)
  <2>1. r # 0
    BY DEF Ids
  <2> QED
    BY <2>1 DEF Stocked
<1>2. ClosingSays(o) \in {0, 1} /\ n \in Nat /\ said <= n
  BY ClosingIs
<1>3. CASE o.pending
  <2>1. Restore(st) = Rewrite(st, r, Closed(o))
    BY <1>3 DEF Restore
  <2>2. Fits(Closed(o), n, low, tight, owed \union extra)
    BY <1>1, FitsClosed
  <2>3. owed \union extra \subseteq owed \/ Held \subseteq {0, r}
    OBVIOUS
  <2>4. Held \subseteq Held \union {0, st.cache, r} /\ low <= low
    OBVIOUS
  <2> HIDE DEF n, o, r
  <2>5. r \in Ids
    BY DEF r
  <2>6. Stocked(Rewrite(st, r, Closed(o)), Held, n, low, tight, owed \union extra)
    BY <1>1, <1>2, <2>2, <2>3, <2>4, <2>5, StockedRewrite DEF r
  <2> QED
    BY <2>1, <2>6 DEF n, o, r
<1>4. CASE ~o.pending
  <2>1. Restore(st) = st /\ ClosingSays(o) = 0
    BY <1>1, <1>4, RestoreIs
  <2>2. extra = {} /\ n = said
    BY <2>1
  <2> QED
    BY <2>1, <2>2
<1> QED
  BY <1>3, <1>4

-----------------------------------------------------------------------------
(* The queue for the lock. *)

LEMMA QueueIs ==
  ASSUME NEW q, NEW stage, QueueOK(q, stage)
  PROVE  /\ q \in Seq(Workers) /\ Len(q) \in Nat /\ DOMAIN q = 1..Len(q)
         /\ \A i \in 1..Len(q) : q[i] \in Workers
         /\ \A i, j \in 1..Len(q) : q[i] = q[j] => i = j
         /\ \A i, j \in 1..Len(q) : q[i] = "turn" /\ q[j] = "after" => j < i
         /\ stage = "wait" <=> \E i \in 1..Len(q) : q[i] = "turn"
         /\ stage = "run" => \A i \in 1..Len(q) : q[i] # "after"
<1>1. q \in Seq(Workers)
  BY DEF QueueOK
<1>2. Len(q) \in Nat /\ DOMAIN q = 1..Len(q) /\ \A i \in 1..Len(q) : q[i] \in Workers
  BY <1>1
<1> QED
  BY <1>2 DEF QueueOK

LEMMA AppendIs ==
  ASSUME NEW q \in Seq(Workers), NEW w \in Workers
  PROVE  /\ Append(q, w) \in Seq(Workers) /\ Len(Append(q, w)) = Len(q) + 1
         /\ Append(q, w) # <<>> /\ Append(q, w)[Len(q) + 1] = w
         /\ \A i \in 1..Len(q) : Append(q, w)[i] = q[i]
         /\ q # <<>> => Append(q, w)[1] = q[1]
<1>1. Len(q) \in Nat /\ (q # <<>> => 1 \in 1..Len(q))
  OBVIOUS
<1>2. /\ Append(q, w) \in Seq(Workers) /\ Len(Append(q, w)) = Len(q) + 1
      /\ Append(q, w)[Len(q) + 1] = w
      /\ \A i \in 1..Len(q) : Append(q, w)[i] = q[i]
  OBVIOUS
<1>3. Append(q, w) # <<>>
  <2> DEFINE p == Append(q, w)
  <2>1. Len(p) # 0
    BY <1>1, <1>2
  <2> HIDE DEF p
  <2>2. p # <<>>
    BY <2>1
  <2> QED
    BY <2>2 DEF p
<1> QED
  BY <1>1, <1>2, <1>3

LEMMA QueueTurn ==
  ASSUME NEW q, QueueOK(q, "none")
  PROVE  QueueOK(Append(q, "turn"), "wait")
<1> DEFINE p == Append(q, "turn")  n == Len(q)
<1>1. /\ q \in Seq(Workers) /\ n \in Nat
      /\ \A i, j \in 1..n : q[i] = q[j] => i = j
      /\ \A i \in 1..n : q[i] # "turn"
  BY QueueIs
<1>2. /\ p \in Seq(Workers) /\ Len(p) = n + 1 /\ p[n + 1] = "turn" /\ \A i \in 1..n : p[i] = q[i]
  BY <1>1, AppendIs DEF Workers
<1> HIDE DEF p, n
<1>3. \A i \in 1..n + 1 : i \in 1..n \/ i = n + 1
  BY <1>1
<1>4. n + 1 \in 1..n + 1 /\ \A i \in 1..n : i < n + 1
  BY <1>1
<1>5. \A i, j \in 1..n + 1 : p[i] = p[j] => i = j
  BY <1>1, <1>2, <1>3
<1>6. \A i, j \in 1..n + 1 : p[i] = "turn" /\ p[j] = "after" => j < i
  BY <1>1, <1>2, <1>3, <1>4
<1> QED
  BY <1>2, <1>4, <1>5, <1>6 DEF QueueOK, p

LEMMA QueueAfter ==
  ASSUME NEW q, QueueOK(q, "run")
  PROVE  QueueOK(Append(q, "after"), "none")
<1> DEFINE p == Append(q, "after")  n == Len(q)
<1>1. /\ q \in Seq(Workers) /\ n \in Nat
      /\ \A i, j \in 1..n : q[i] = q[j] => i = j
      /\ \A i \in 1..n : q[i] # "turn" /\ q[i] # "after"
  BY QueueIs
<1>2. /\ p \in Seq(Workers) /\ Len(p) = n + 1 /\ p[n + 1] = "after" /\ \A i \in 1..n : p[i] = q[i]
  BY <1>1, AppendIs DEF Workers
<1> HIDE DEF p, n
<1>3. \A i \in 1..n + 1 : i \in 1..n \/ i = n + 1
  BY <1>1
<1>5. \A i, j \in 1..n + 1 : p[i] = p[j] => i = j
  BY <1>1, <1>2, <1>3
<1>6. \A i \in 1..n + 1 : p[i] # "turn"
  BY <1>1, <1>2, <1>3
<1> QED
  BY <1>2, <1>5, <1>6 DEF QueueOK, p

LEMMA QueueIdle ==
  ASSUME NEW q, NEW stage, QueueOK(q, stage), \A i \in 1..Len(q) : q[i] # "idle"
  PROVE  QueueOK(Append(q, "idle"), stage)
<1> DEFINE p == Append(q, "idle")  n == Len(q)
<1>1. /\ q \in Seq(Workers) /\ n \in Nat
      /\ \A i, j \in 1..n : q[i] = q[j] => i = j
      /\ \A i, j \in 1..n : q[i] = "turn" /\ q[j] = "after" => j < i
      /\ stage = "wait" <=> \E i \in 1..n : q[i] = "turn"
      /\ stage = "run" => \A i \in 1..n : q[i] # "after"
  BY QueueIs
<1>2. /\ p \in Seq(Workers) /\ Len(p) = n + 1 /\ p[n + 1] = "idle" /\ \A i \in 1..n : p[i] = q[i]
  BY <1>1, AppendIs DEF Workers
<1>7. \A i \in 1..n : q[i] # "idle"
  OBVIOUS
<1> HIDE DEF p, n
<1>3. /\ \A i \in 1..n + 1 : i \in 1..n \/ i = n + 1
      /\ \A i \in 1..n : i \in 1..n + 1
  BY <1>1
<1>5. \A i, j \in 1..n + 1 : p[i] = p[j] => i = j
  BY <1>1, <1>2, <1>3, <1>7
<1>6. \A i, j \in 1..n + 1 : p[i] = "turn" /\ p[j] = "after" => j < i
  BY <1>1, <1>2, <1>3
<1>8. stage = "wait" <=> \E i \in 1..n + 1 : p[i] = "turn"
  BY <1>1, <1>2, <1>3
<1>9. stage = "run" => \A i \in 1..n + 1 : p[i] # "after"
  BY <1>1, <1>2, <1>3
<1> QED
  BY <1>2, <1>5, <1>6, <1>8, <1>9 DEF QueueOK, p

\* p is q without its place k.
Without(p, q, k) ==
  /\ p \in Seq(Workers) /\ Len(p) = Len(q) - 1
  /\ \A i \in 1..Len(p) : p[i] = q[IF i < k THEN i ELSE i + 1]

LEMMA QueueWithout ==
  ASSUME NEW q, NEW stage, QueueOK(q, stage), NEW k \in 1..Len(q), NEW p, Without(p, q, k)
  PROVE  /\ QueueOK(p, IF q[k] = "turn" THEN "none" ELSE stage)
         /\ q[k] = "turn" /\ k = 1 => QueueOK(p, "run")
         /\ k # 1 => p # <<>> /\ p[1] = q[1]
<1> DEFINE n == Len(q)
<1>1. /\ q \in Seq(Workers) /\ n \in Nat
      /\ \A i, j \in 1..n : q[i] = q[j] => i = j
      /\ \A i, j \in 1..n : q[i] = "turn" /\ q[j] = "after" => j < i
      /\ stage = "wait" <=> \E i \in 1..n : q[i] = "turn"
      /\ stage = "run" => \A i \in 1..n : q[i] # "after"
  BY QueueIs
<1> DEFINE f == [i \in 1..n - 1 |-> IF i < k THEN i ELSE i + 1]
<1>2. p \in Seq(Workers) /\ Len(p) = n - 1 /\ \A i \in 1..n - 1 : p[i] = q[f[i]]
  BY DEF Without
<1>9. k \in 1..n
  OBVIOUS
<1> HIDE DEF n
<1>3. /\ \A i \in 1..n - 1 : f[i] \in 1..n /\ f[i] # k
      /\ \A i, j \in 1..n - 1 : i < j <=> f[i] < f[j]
      /\ \A i, j \in 1..n - 1 : f[i] = f[j] => i = j
      /\ \A j \in 1..n : j # k => \E i \in 1..n - 1 : f[i] = j
  <2>1. \A i \in 1..n - 1 : f[i] \in 1..n /\ f[i] # k
    BY <1>1, <1>9
  <2>2. \A i, j \in 1..n - 1 : i < j <=> f[i] < f[j]
    BY <1>1, <1>9
  <2>3. \A i, j \in 1..n - 1 : f[i] = f[j] => i = j
    BY <1>1, <1>9
  <2>4. ASSUME NEW j \in 1..n, j # k PROVE \E i \in 1..n - 1 : f[i] = j
    <3>1. CASE j < k
      <4>1. j \in 1..n - 1 /\ f[j] = j
        BY <1>1, <1>9, <3>1
      <4> QED
        BY <4>1
    <3>2. CASE j > k
      <4>1. j - 1 \in 1..n - 1 /\ f[j - 1] = j
        BY <1>1, <1>9, <3>2
      <4> QED
        BY <4>1
    <3> QED
      BY <1>1, <1>9, <2>4, <3>1, <3>2
  <2> QED
    BY <2>1, <2>2, <2>3, <2>4
<1> DEFINE m == n - 1
<1>4. /\ Len(p) = m /\ p \in Seq(Workers) /\ \A i \in 1..m : p[i] = q[f[i]]
      /\ \A i \in 1..m : f[i] \in 1..n /\ f[i] # k
      /\ \A i, j \in 1..m : i < j <=> f[i] < f[j]
      /\ \A i, j \in 1..m : f[i] = f[j] => i = j
      /\ \A j \in 1..n : j # k => \E i \in 1..m : f[i] = j
  BY <1>2, <1>3
<1> HIDE DEF f, m
<1>5. \A i, j \in 1..m : p[i] = p[j] => i = j
  <2> TAKE i, j \in 1..m
  <2> HAVE p[i] = p[j]
  <2>1. f[i] \in 1..n /\ f[j] \in 1..n /\ q[f[i]] = q[f[j]]
    BY <1>4
  <2>2. f[i] = f[j]
    BY <1>1, <2>1
  <2> QED
    BY <1>4, <2>2
<1>6. \A i, j \in 1..m : p[i] = "turn" /\ p[j] = "after" => j < i
  <2> TAKE i, j \in 1..m
  <2> HAVE p[i] = "turn" /\ p[j] = "after"
  <2>2. f[i] \in 1..n /\ f[j] \in 1..n /\ q[f[i]] = "turn" /\ q[f[j]] = "after"
    BY <1>4
  <2>1. f[j] < f[i]
    BY <1>1, <2>2
  <2> QED
    BY <1>4, <2>1
<1>7. ASSUME q[k] = "turn" PROVE QueueOK(p, "none") /\ (k = 1 => QueueOK(p, "run"))
  <2>1. \A i \in 1..m : p[i] # "turn"
    BY <1>1, <1>4, <1>7, <1>9
  <2>2. QueueOK(p, "none")
    BY <1>4, <1>5, <1>6, <2>1 DEF QueueOK
  <2>3. ASSUME k = 1 PROVE \A i \in 1..m : p[i] # "after"
    <3> SUFFICES ASSUME NEW i \in 1..m, p[i] = "after" PROVE FALSE
      OBVIOUS
    <3>1. f[i] < 1 /\ f[i] \in 1..n
      BY <1>1, <1>4, <1>7, <1>9, <2>3
    <3> QED
      BY <1>1, <3>1
  <2>4. k = 1 => QueueOK(p, "run")
    BY <1>4, <1>5, <1>6, <2>1, <2>3 DEF QueueOK
  <2> QED
    BY <2>2, <2>4
<1>8. ASSUME q[k] # "turn" PROVE QueueOK(p, stage)
  <2>3. ASSUME stage = "wait" PROVE \E i \in 1..m : p[i] = "turn"
    <3>1. PICK j \in 1..n : q[j] = "turn"
      BY <1>1, <2>3
    <3>2. j # k
      BY <1>8, <3>1
    <3>3. PICK i \in 1..m : f[i] = j
      BY <1>4, <3>2
    <3> QED
      BY <1>4, <3>1, <3>3
  <2>4. ASSUME NEW i \in 1..m, p[i] = "turn" PROVE stage = "wait"
    BY <1>1, <1>4, <2>4
  <2>1. stage = "wait" <=> \E i \in 1..m : p[i] = "turn"
    BY <2>3, <2>4
  <2>2. stage = "run" => \A i \in 1..m : p[i] # "after"
    BY <1>1, <1>4
  <2> QED
    BY <1>4, <1>5, <1>6, <2>1, <2>2 DEF QueueOK
<1>10. ASSUME k # 1 PROVE p # <<>> /\ p[1] = q[1]
  <2>1. 1 \in 1..n - 1 /\ 1 < k
    BY <1>1, <1>9, <1>10
  <2>2. f[1] = 1
    BY <2>1 DEF f
  <2>3. Len(p) # 0
    BY <1>1, <1>2, <2>1
  <2> QED
    BY <1>2, <2>1, <2>2, <2>3
<1> QED
  BY <1>7, <1>8, <1>10

LEMMA TailIs ==
  ASSUME NEW q \in Seq(Workers), q # <<>>
  PROVE  1 \in 1..Len(q) /\ Head(q) = q[1] /\ Without(Tail(q), q, 1)
<1>1. Len(q) \in Nat /\ Len(q) # 0 /\ Head(q) = q[1]
  OBVIOUS
<1>2. Tail(q) \in Seq(Workers) /\ Len(Tail(q)) = Len(q) - 1 /\ \A i \in 1..Len(Tail(q)) : Tail(q)[i] = q[i + 1]
  OBVIOUS
<1>3. \A i \in 1..Len(Tail(q)) : (IF i < 1 THEN i ELSE i + 1) = i + 1
  BY <1>1, <1>2
<1> QED
  BY <1>1, <1>2, <1>3 DEF Without

LEMMA RemoveIs ==
  ASSUME NEW q \in Seq(Workers), NEW k \in 1..Len(q)
  PROVE  Without(RemoveAt(q, k), q, k)
<1> DEFINE n == Len(q)  a == SubSeq(q, 1, k - 1)  b == SubSeq(q, k + 1, n)
<1>1. n \in Nat /\ k \in Nat /\ 1 <= k /\ k <= n
  OBVIOUS
<1>2. /\ a \in Seq(Workers) /\ Len(a) = k - 1 /\ \A i \in 1..Len(a) : a[i] = q[i]
  <2>1. 1 \in Nat \ {0} /\ k - 1 \in 0..Len(q)
    BY <1>1
  <2>2. /\ a \in Seq(Workers) /\ Len(a) = IF 1 <= k - 1 THEN k - 1 - 1 + 1 ELSE 0
        /\ \A i \in 1..Len(a) : a[i] = q[1 + i - 1]
    BY <2>1, Part
  <2> HIDE DEF a
  <2>3. Len(a) = k - 1
    BY <1>1, <2>2
  <2>4. \A i \in 1..Len(a) : 1 + i - 1 = i
    BY <1>1, <2>3
  <2> QED
    BY <2>2, <2>3, <2>4
<1>3. /\ b \in Seq(Workers) /\ Len(b) = n - k /\ \A i \in 1..Len(b) : b[i] = q[k + i]
  <2>1. k + 1 \in Nat \ {0} /\ n \in 0..Len(q)
    BY <1>1
  <2>2. /\ b \in Seq(Workers) /\ Len(b) = IF k + 1 <= n THEN n - (k + 1) + 1 ELSE 0
        /\ \A i \in 1..Len(b) : b[i] = q[(k + 1) + i - 1]
    BY <2>1, Part
  <2> HIDE DEF b, n
  <2>3. Len(b) = n - k
    BY <1>1, <2>2
  <2>4. \A i \in 1..Len(b) : (k + 1) + i - 1 = k + i
    BY <1>1, <2>3
  <2> QED
    BY <2>2, <2>3, <2>4
<1>4. RemoveAt(q, k) = a \o b
  BY DEF RemoveAt
<1>8. a \in Seq(Workers) /\ b \in Seq(Workers)
  BY <1>2, <1>3
<1> HIDE DEF a, b, n
<1>5. /\ a \o b \in Seq(Workers) /\ Len(a \o b) = Len(a) + Len(b)
      /\ \A i \in 1..Len(a) : (a \o b)[i] = a[i]
      /\ \A i \in 1..Len(a) + Len(b) : i > Len(a) => (a \o b)[i] = b[i - Len(a)]
  BY <1>8, TwoParts
<1>6. \A i \in 1..Len(a \o b) : (a \o b)[i] = q[IF i < k THEN i ELSE i + 1]
  <2> TAKE i \in 1..Len(a \o b)
  <2>0. i \in 1..n - 1 /\ i \in Nat
    BY <1>1, <1>2, <1>3, <1>5
  <2>1. CASE i < k
    <3>1. i \in 1..Len(a)
      BY <1>1, <1>2, <2>0, <2>1
    <3> QED
      BY <1>2, <1>5, <2>1, <3>1
  <2>2. CASE ~(i < k)
    <3>1. i > Len(a) /\ i - Len(a) \in 1..Len(b) /\ k + (i - Len(a)) = i + 1 /\ i \in 1..Len(a) + Len(b)
      BY <1>1, <1>2, <1>3, <2>0, <2>2
    <3>2. (a \o b)[i] = b[i - Len(a)] /\ b[i - Len(a)] = q[k + (i - Len(a))]
      BY <1>3, <1>5, <3>1
    <3> QED
      BY <2>2, <3>1, <3>2
  <2> QED
    BY <2>1, <2>2
<1>7. Len(a \o b) = n - 1
  BY <1>1, <1>2, <1>3, <1>5
<1> QED
  BY <1>4, <1>5, <1>6, <1>7 DEF Without, n

-----------------------------------------------------------------------------
(* What is said, and what is owed. *)

\* The copies that are alive are one.
Lone(st) == \A a, b \in (Held \union {st.cache}) \ {0} : a = b

LEMMA OneIsLone ==
  ASSUME ControlOK, JobOK, NEW st, st.cache \in Ids \union {0},
         ~(Cardinality(({st.cache} \union Held) \ {0}) > 1)
  PROVE  Lone(st)
<1> DEFINE S == ({st.cache} \union Held) \ {0}
<1>1. S \in SUBSET Ids
  BY HeldIn
<1> SUFFICES ASSUME NEW a \in S, NEW b \in S, a # b PROVE FALSE
  BY DEF Lone
<1> HIDE DEF S
<1>2. IsFiniteSet(Ids)
  <2>1. 1 \in Int /\ 4 \in Int
    OBVIOUS
  <2>2. IsFiniteSet(1..4)
    BY ONLY <2>1, FS_Interval
  <2> QED
    BY <2>2 DEF Ids
<1>3. IsFiniteSet(S) /\ Cardinality(S) \in Nat
  BY <1>1, <1>2, FS_Subset, FS_CardinalityType
<1>4. IsFiniteSet({a}) /\ Cardinality({a}) = 1
  BY FS_Singleton
<1>5. IsFiniteSet({a} \union {b}) /\ Cardinality({a} \union {b}) = 2
  <2>1. Cardinality({a} \union {b}) = Cardinality({a}) + 1 /\ IsFiniteSet({a} \union {b})
    <3>1. b \notin {a}
      OBVIOUS
    <3> QED
      BY <1>4, <3>1, FS_AddElement
  <2> QED
    BY <1>4, <2>1
<1>6. {a} \union {b} \in SUBSET S
  OBVIOUS
<1>7. Cardinality({a} \union {b}) <= Cardinality(S)
  BY <1>3, <1>6, FS_Subset
<1> QED
  BY <1>3, <1>5, <1>7 DEF S

\* k messages more; those of extra are not exposed.
Heard(st, k, extra) ==
  /\ k \in Nat /\ said' = said + k /\ extra \subseteq said + 1 .. said + k
  /\ exposed \subseteq exposed' /\ exposed' \subseteq 1..said + k
  /\ (1..said + k) \ exposed' \subseteq ((1..said) \ exposed) \union extra
  /\ extra = {} \/ (Lone(st) /\ job.kind # "idle" /\ Calm)

LEMMA SpokenIs ==
  ASSUME CountsOK, ControlOK, JobOK, NEW st, st.cache \in Ids \union {0}, NEW k \in Nat, Spoken(st, k)
  PROVE  \E extra : Heard(st, k, extra)
<1>1. said \in Nat /\ exposed \subseteq 1..said
  BY DEF CountsOK
<1> DEFINE new == said + 1 .. said + k
<1>2. 1..said + k = (1..said) \union new
  BY <1>1
<1>3. CASE exposed' = exposed \union new
  <2>1. Heard(st, k, {})
    BY <1>1, <1>2, <1>3 DEF Heard, Spoken
  <2> QED
    BY <2>1
<1>4. CASE /\ exposed' = exposed /\ ~(Cardinality(({st.cache} \union Held) \ {0}) > 1)
           /\ job.kind # "idle" /\ Calm
  <2>1. Lone(st)
    BY <1>4, OneIsLone
  <2>2. Heard(st, k, new)
    BY <1>1, <1>2, <1>4, <2>1 DEF Heard, Spoken
  <2> QED
    BY <2>2
<1> QED
  BY <1>3, <1>4 DEF Spoken, Calm

LEMMA NothingHeard ==
  ASSUME CountsOK, said' = said, exposed' = exposed, NEW st
  PROVE  Heard(st, 0, {})
BY DEF Heard, CountsOK

\* What leaves a snapshot is archived or given up.
Handed == UNION snapshots \subseteq (UNION snapshots') \union archived' \union dropped'

LEMMA OwedMore ==
  ASSUME NEW st, NEW k, NEW extra, Heard(st, k, extra),
         archived \subseteq archived', dropped \subseteq dropped', Handed
  PROVE  Owed' \subseteq (Owed \union extra) \ (archived' \union UNION snapshots')
BY DEF Owed, Heard, Handed

LEMMA CountsStep ==
  ASSUME CountsOK, NEW st, NEW k, NEW extra, Heard(st, k, extra),
         archived \subseteq archived', dropped \subseteq dropped', Handed,
         archived' \subseteq 1..said', dropped' \subseteq 1..said', twice' \subseteq 1..said',
         snapshots' \subseteq SUBSET (1..said'), wiped' \in 0..said',
         upsets' \subseteq {"overflow", "round", "idle", "copy", "fork", "crash"},
         turns' \in 0..MaxTurns, events' \in 0..MaxSessionEvents,
         said' + ToSay(turn') <= 3 * turns' + events',
         (Calm => Calm') \/ Owed' = {}
  PROVE  CountsOK'
<1>1. Owed' \subseteq Owed \union extra
  BY OwedMore
<1>2. ~Calm => Owed = {} /\ extra = {}
  BY DEF CountsOK, Heard
<1>3. Calm' \/ Owed' = {}
  BY <1>1, <1>2
<1>4. said' \in Nat /\ exposed' \subseteq 1..said'
  BY DEF Heard, CountsOK
<1> QED
  BY <1>3, <1>4 DEF CountsOK

LEMMA LimitIs ==
  ASSUME CountsOK
  PROVE  Limit \in Nat /\ Limit <= said /\ said \in Nat
BY DEF Limit, CountsOK

\* The same upsets, or those that only mark a fork or a crash.
LEMMA SameUpsets ==
  ASSUME wiped' = wiped, \E x \in {"fork", "crash"} : upsets' = upsets \/ upsets' = upsets \union {x}
  PROVE  Calm' = Calm /\ Limit' = Limit
BY DEF Calm, Limit

LEMMA SamePart ==
  ASSUME NEW o \in Record, NEW o2, Extends(o2, o), NEW e \in Nat, e <= Len(o.msgs)
  PROVE  Numbers(SubSeq(o2.msgs, o2.cursor + 1, e)) = Numbers(SubSeq(o.msgs, o.cursor + 1, e))
<1> DEFINE s == o.msgs  s2 == o2.msgs  c == o.cursor
<1>1. s \in Seq(Messages) /\ s2 \in Seq(Messages) /\ c \in Nat /\ Len(s) \in Nat /\ Len(s2) \in Nat
  BY CopyIs DEF Extends
<1>2. o2.cursor = c /\ Len(s) <= Len(s2) /\ \A i \in 1..Len(s) : s2[i] = s[i]
  BY DEF Extends
<1> HIDE DEF s, s2, c
<1>3. c + 1 \in Nat \ {0} /\ e \in 0..Len(s) /\ e \in 0..Len(s2)
  BY <1>1, <1>2 DEF s
<1>4. \A x : x \in Numbers(SubSeq(s, c + 1, e)) <=> \E i \in 1..Len(s) : c + 1 <= i /\ i <= e /\ s[i].n = x
  BY <1>1, <1>3, PartNumbers
<1>5. \A x : x \in Numbers(SubSeq(s2, c + 1, e)) <=> \E i \in 1..Len(s2) : c + 1 <= i /\ i <= e /\ s2[i].n = x
  BY <1>1, <1>3, PartNumbers
<1>6. \A i \in 1..Len(s2) : i <= e => i \in 1..Len(s)
  BY <1>1, <1>3
<1>7. \A i \in 1..Len(s) : i \in 1..Len(s2)
  BY <1>1, <1>2
<1>8. \A x : x \in Numbers(SubSeq(s2, c + 1, e)) <=> x \in Numbers(SubSeq(s, c + 1, e))
  BY <1>2, <1>4, <1>5, <1>6, <1>7
<1> QED
  BY <1>2, <1>8 DEF s, s2, c

\* Another one's job goes on.
LEMMA JobKept ==
  ASSUME CountsOK, JobOK, CountsOK', job' = job, said <= said', store \in Stores,
         lock # <<>> => lock' # <<>> /\ lock'[1] = lock[1],
         Limit' <= Limit, Calm' => Calm, job.kind = "idle" => Owed' \subseteq Owed,
         job # NoJob /\ job.kind # "idle" /\ Calm' => Extends(store'.objs[job.ref], store.objs[job.ref])
  PROVE  JobOK'
<1>0. said \in Nat /\ said' \in Nat /\ Limit \in Nat /\ Limit' \in Nat /\ 1..said \subseteq 1..said'
  BY DEF Limit, CountsOK
<1>1. CASE job = NoJob
  BY <1>1 DEF JobOK
<1>2. CASE job # NoJob /\ job.kind # "idle"
  <2>1. job \in Jobs /\ lock # <<>> /\ lock[1] \in {"turn", "after"} /\ (Calm => Consolidates(store.objs[job.ref]))
    BY <1>2 DEF JobOK
  <2>2. job \in Jobs'
    BY <1>0, <2>1 DEF Jobs
  <2>3. ASSUME Calm' PROVE Consolidates(store.objs[job.ref])'
    <3>0. PICK o, o2 : o = store.objs[job.ref] /\ o2 = store'.objs[job.ref]
      OBVIOUS
    <3>1. o \in Record /\ Extends(o2, o) /\ Consolidates(o) /\ job.end \in Nat
      <4>1. job.ref \in Ids /\ job.end \in Nat
        BY <2>1 DEF Jobs
      <4> QED
        BY <1>2, <2>1, <2>3, <3>0, <4>1 DEF Stores
    <3>2. o.cursor <= job.end /\ job.end <= Len(o.msgs) /\ job.chunk = Numbers(SubSeq(o.msgs, o.cursor + 1, job.end))
      BY <3>1 DEF Consolidates
    <3>3. Numbers(SubSeq(o2.msgs, o2.cursor + 1, job.end)) = Numbers(SubSeq(o.msgs, o.cursor + 1, job.end))
      BY <3>1, <3>2, SamePart
    <3>4. o2.cursor = o.cursor /\ job.end <= Len(o2.msgs)
      <4>1. Len(o.msgs) \in Nat /\ Len(o2.msgs) \in Nat /\ Len(o.msgs) <= Len(o2.msgs) /\ o2.cursor = o.cursor
        BY <3>1, CopyIs DEF Extends
      <4> QED
        BY <3>1, <3>2, <4>1
    <3>5. job.end' = job.end /\ job.chunk' = job.chunk /\ store.objs[job.ref]' = o2
      BY <3>0
    <3>6. o2.cursor <= job.end /\ job.end <= Len(o2.msgs) /\ job.chunk = Numbers(SubSeq(o2.msgs, o2.cursor + 1, job.end))
      BY <3>2, <3>3, <3>4
    <3> QED
      BY <3>5, <3>6 DEF Consolidates
  <2> QED
    BY <1>2, <2>1, <2>2, <2>3 DEF JobOK
<1>3. CASE job # NoJob /\ job.kind = "idle"
  <2>1. job \in Jobs /\ lock # <<>> /\ lock[1] = "idle" /\ Fits(Alone(job.keep), said, Limit, Calm, Owed \ job.chunk)
    BY <1>3 DEF JobOK
  <2>2. job \in Jobs'
    BY <1>0, <2>1 DEF Jobs
  <2>3. Fits(Alone(job.keep), said', Limit', Calm', Owed' \ job.chunk)
    <3>1. Owed' \ job.chunk \subseteq Owed \ job.chunk
      BY <1>3
    <3> QED
      BY <1>0, <2>1, <3>1, FitsMore
  <2> QED
    BY <1>3, <2>1, <2>2, <2>3 DEF JobOK
<1> QED
  BY <1>1, <1>2, <1>3

-----------------------------------------------------------------------------
(* The steps keep the copies safe. *)

LEMMA HeardIs ==
  ASSUME NEW st, NEW k, NEW extra, Heard(st, k, extra)
  PROVE  /\ k \in Nat /\ said' = said + k /\ extra \subseteq said + 1 .. said + k
         /\ Calm \/ extra = {}
         /\ job.kind = "idle" => extra = {}
         /\ \A r \in (Held \union {st.cache}) \ {0} : extra = {} \/ Held \subseteq {0, r}
BY DEF Heard, Lone

LEMMA SafeIs ==
  ASSUME SafeOK
  PROVE  /\ CountsOK /\ ControlOK /\ JobOK /\ StoreOK
         /\ said \in Nat /\ Limit \in Nat /\ Limit <= said
         /\ Held \in SUBSET (Ids \union {0}) /\ store \in Stores
         /\ QueueOK(lock, turn.stage) /\ TurnOK(turn) /\ title \in Ids \union {0}
         /\ job.ref \in Ids \union {0}
         /\ Stocked(store, Held, said, Limit, Calm, Owed)
<1>1. CountsOK /\ ControlOK /\ JobOK /\ StoreOK
  BY DEF SafeOK
<1>2. Held \in SUBSET (Ids \union {0}) /\ job.ref \in Ids \union {0}
  BY <1>1, HeldIn
<1>3. store \in Stores
  BY <1>1 DEF StoreOK, Stocked
<1> QED
  BY <1>1, <1>2, <1>3, LimitIs DEF ControlOK, StoreOK

\* The session as get_or_create finds it.
LEMMA SessionFetched ==
  ASSUME SafeOK, NEW st, st = Fetch(store)
  PROVE  /\ Stocked(st, Held, said, Limit, Calm, Owed)
         /\ st \in Stores /\ st.cache \in Ids
         /\ Fits(st.objs[st.cache], said, Limit, Calm, Owed) /\ st.objs[st.cache] \in Record
         /\ \A r \in Held : st.objs[r] = store.objs[r]
<1>1. /\ said \in Nat /\ Limit \in Nat /\ Held \in SUBSET (Ids \union {0}) /\ store \in Stores
      /\ Stocked(store, Held, said, Limit, Calm, Owed)
  BY SafeIs
<1>2. Stocked(st, Held, said, Limit, Calm, Owed)
  BY <1>1, StockedFetch
<1>3. Fetched(st, store)
  BY <1>1, FetchIs
<1>4. st \in Stores /\ st.cache \in Ids
  BY <1>3 DEF Fetched
<1>5. \A r \in Held : st.objs[r] = store.objs[r]
  <2>1. 0 \notin Held
    BY DEF Held
  <2> QED
    BY <1>1, <1>3, <2>1 DEF Fetched, Placed
<1>6. st.cache # 0
  BY <1>4 DEF Ids
<1>7. Fits(st.objs[st.cache], said, Limit, Calm, Owed)
  BY <1>2, <1>6 DEF Stocked
<1> QED
  BY <1>2, <1>4, <1>5, <1>7 DEF Fits

LEMMA StepBegin ==
  ASSUME SafeOK, NEW kind \in {"bus", "direct"}, Begin(kind)
  PROVE  SafeOK'
<1> DEFINE st == Fetch(store)  r == st.cache  k == ClosingSays(st.objs[r])
<1>1. /\ turn.stage = "none" /\ turns < MaxTurns /\ store' = Restore(st)
      /\ Spoken(st, k) /\ turn' = [stage |-> "wait", kind |-> kind, ref |-> r]
      /\ lock' = Append(lock, "turn") /\ turns' = turns + 1
      /\ job' = job /\ title' = title /\ snapshots' = snapshots /\ archived' = archived
      /\ upsets' = upsets /\ dropped' = dropped /\ twice' = twice /\ wiped' = wiped /\ events' = events
  BY DEF Begin
<1>2. /\ Stocked(st, Held, said, Limit, Calm, Owed) /\ st \in Stores /\ r \in Ids
      /\ \A q \in Held : st.objs[q] = store.objs[q]
  BY SessionFetched
<1>3. /\ CountsOK /\ ControlOK /\ JobOK /\ said \in Nat /\ Limit \in Nat /\ Limit <= said
      /\ Held \in SUBSET (Ids \union {0}) /\ store \in Stores
      /\ QueueOK(lock, turn.stage) /\ TurnOK(turn) /\ title \in Ids \union {0} /\ job.ref \in Ids \union {0}
  BY SafeIs
<1> HIDE DEF st
<1>4. k \in {0, 1}
  BY ClosingIs
<1>5. PICK extra : Heard(st, k, extra)
  BY <1>1, <1>2, <1>3, <1>4, SpokenIs
<1>6. Calm' = Calm /\ Limit' = Limit
  BY <1>1, SameUpsets
<1>7. CountsOK'
  <2>1. Handed /\ archived \subseteq archived' /\ dropped \subseteq dropped'
    BY <1>1 DEF Handed
  <2>2. said' = said + k /\ 1..said \subseteq 1..said + k
    BY <1>3, <1>4, <1>5 DEF Heard
  <2>3. said' + ToSay(turn') <= 3 * turns' + events'
    BY <1>1, <1>3, <1>4, <2>2 DEF CountsOK, ToSay
  <2>4. turns' \in 0..MaxTurns
    BY <1>1, <1>3, CompactionAssumption DEF CountsOK
  <2>5. wiped' \in 0..said'
    BY <1>1, <1>3, <1>4, <2>2 DEF CountsOK
  <2>6. /\ archived' \subseteq 1..said' /\ dropped' \subseteq 1..said' /\ twice' \subseteq 1..said'
        /\ snapshots' \subseteq SUBSET (1..said')
        /\ upsets' \subseteq {"overflow", "round", "idle", "copy", "fork", "crash"}
        /\ events' \in 0..MaxSessionEvents
    BY <1>1, <1>3, <2>2 DEF CountsOK
  <2> QED
    BY <1>3, <1>5, <1>6, <2>1, <2>3, <2>4, <2>5, <2>6, CountsStep
<1>8. ControlOK'
  <2>1. QueueOK(lock', "wait")
    BY <1>1, <1>3, QueueTurn
  <2>2. TurnOK(turn') /\ turn'.stage = "wait"
    BY <1>1, <1>2 DEF TurnOK, Ids
  <2> QED
    BY <1>1, <1>3, <2>1, <2>2 DEF ControlOK
<1>9. Owed' \subseteq Owed \union extra
  BY <1>1, <1>5, OwedMore DEF Handed
<1>10. (extra = {} \/ Held \subseteq {0, r}) /\ (Calm \/ extra = {}) /\ extra \subseteq said + 1 .. said + k
       /\ (job.kind = "idle" => extra = {})
  <2>1. r \in (Held \union {r}) \ {0}
    BY <1>2 DEF Ids
  <2> QED
    BY <1>5, <2>1, HeardIs
<1>11. Stocked(store', Held, said + k, Limit, Calm, Owed \union extra)
  BY <1>1, <1>2, <1>3, <1>10, StockedRestore
<1>12. /\ store'.cache = r
       /\ \A q \in Ids : q # r => store'.objs[q] = st.objs[q]
       /\ Extends(store'.objs[r], st.objs[r])
  BY <1>1, <1>2, <1>3, RestoreIs
<1>13. StoreOK'
  <2>1. Held' \subseteq Held \union {0, store'.cache}
    BY <1>1, <1>12 DEF Held
  <2>2. said + k \in Nat /\ said + k <= said + k /\ Limit <= Limit /\ said' = said + k
    BY <1>3, <1>4, <1>5 DEF Heard
  <2>3. Stocked(store', Held', said + k, Limit, Calm, Owed')
    BY <1>3, <1>9, <1>11, <2>1, <2>2, StockedMore
  <2> QED
    BY <1>6, <2>2, <2>3 DEF StoreOK
<1>14. JobOK'
  <2>1. lock # <<>> => lock' # <<>> /\ lock'[1] = lock[1]
    <3>1. lock \in Seq(Workers) /\ "turn" \in Workers
      BY <1>3, QueueIs DEF Workers
    <3> QED
      BY <1>1, <3>1, AppendIs
  <2>2. job # NoJob => Extends(store'.objs[job.ref], store.objs[job.ref])
    <3> SUFFICES ASSUME job # NoJob PROVE Extends(store'.objs[job.ref], store.objs[job.ref])
      OBVIOUS
    <3>1. job.ref \in Ids /\ job.ref \in Held
      BY <1>3 DEF JobOK, Jobs, Held, Ids
    <3>2. st.objs[job.ref] = store.objs[job.ref] /\ store.objs[job.ref] \in Record
      BY <1>2, <1>3, <3>1 DEF Stores
    <3>3. CASE job.ref = r
      BY <1>12, <3>2, <3>3
    <3>4. CASE job.ref # r
      BY <1>12, <3>1, <3>2, <3>4, ExtendsSelf
    <3> QED
      BY <3>3, <3>4
  <2>3. job.kind = "idle" => Owed' \subseteq Owed
    BY <1>9, <1>10
  <2>4. said <= said' /\ Limit' <= Limit
    BY <1>3, <1>4, <1>5, <1>6 DEF Heard
  <2> QED
    BY <1>1, <1>3, <1>6, <1>7, <2>1, <2>2, <2>3, <2>4, JobKept
<1> QED
  BY <1>7, <1>8, <1>13, <1>14 DEF SafeOK

LEMMA JobAt ==
  ASSUME SafeOK, job # NoJob
  PROVE  job.ref \in Ids /\ job.ref \in Held /\ store.objs[job.ref] \in Record /\ job \in Jobs /\ lock # <<>>
<1>1. JobOK /\ store \in Stores
  BY SafeIs
<1>2. job \in Jobs /\ job.ref \in Ids /\ job.ref \in Held /\ lock # <<>>
  BY <1>1 DEF JobOK, Jobs, Held, Ids
<1> QED
  BY <1>1, <1>2 DEF Stores

\* A step without a word, after which no count is lower.
LEMMA QuietCounts ==
  ASSUME CountsOK, said' = said, exposed' = exposed, wiped' = wiped, upsets' = upsets, turns' = turns,
         ToSay(turn') <= ToSay(turn), events' \in 0..MaxSessionEvents, events <= events',
         archived \subseteq archived', dropped \subseteq dropped', Handed,
         archived' \subseteq 1..said, dropped' \subseteq 1..said, twice' \subseteq 1..said,
         snapshots' \subseteq SUBSET (1..said)
  PROVE  CountsOK' /\ Calm' = Calm /\ Limit' = Limit /\ Owed' \subseteq Owed \ (archived' \union UNION snapshots')
<1>1. Heard(store, 0, {})
  BY NothingHeard
<1>2. Calm' = Calm /\ Limit' = Limit
  BY SameUpsets
<1>3. said' + ToSay(turn') <= 3 * turns' + events'
  <2>1. ToSay(turn) \in Nat /\ ToSay(turn') \in Nat /\ events \in Nat /\ events' \in Nat /\ turns \in Nat /\ said \in Nat
    BY DEF ToSay, CountsOK
  <2>2. said + ToSay(turn) <= 3 * turns + events
    BY DEF CountsOK
  <2> QED
    BY <2>1, <2>2
<1>4. /\ archived' \subseteq 1..said' /\ dropped' \subseteq 1..said' /\ twice' \subseteq 1..said'
      /\ snapshots' \subseteq SUBSET (1..said') /\ wiped' \in 0..said' /\ turns' \in 0..MaxTurns
      /\ upsets' \subseteq {"overflow", "round", "idle", "copy", "fork", "crash"}
  BY DEF CountsOK
<1>5. CountsOK'
  BY <1>1, <1>2, <1>3, <1>4, CountsStep
<1>6. Owed' \subseteq (Owed \union {}) \ (archived' \union UNION snapshots')
  BY <1>1, OwedMore
<1> QED
  BY <1>2, <1>5, <1>6

LEMMA StepCheckpoint ==
  ASSUME SafeOK, Checkpoint
  PROVE  SafeOK'
<1>1. /\ turn.stage = "run" /\ store' = Save(store, turn.ref)
      /\ lock' = lock /\ job' = job /\ turn' = turn /\ title' = title /\ snapshots' = snapshots
      /\ archived' = archived /\ said' = said /\ exposed' = exposed /\ upsets' = upsets
      /\ dropped' = dropped /\ twice' = twice /\ wiped' = wiped /\ turns' = turns /\ events' = events
  BY DEF Checkpoint
<1>2. /\ CountsOK /\ ControlOK /\ JobOK /\ store \in Stores /\ said \in Nat
      /\ Stocked(store, Held, said, Limit, Calm, Owed)
  BY SafeIs
<1>3. turn.ref \in Ids /\ turn.ref \in Held
  BY <1>1, <1>2 DEF ControlOK, TurnOK, Held
<1>4. CountsOK' /\ Calm' = Calm /\ Limit' = Limit /\ Owed' = Owed /\ Held' = Held /\ ControlOK'
  BY <1>1, <1>2 DEF CountsOK, Calm, Limit, Owed, Held, ControlOK, ToSay
<1>5. Stocked(store', Held, said, Limit, Calm, Owed)
  BY <1>1, <1>2, <1>3, StockedSave
<1>6. StoreOK'
  BY <1>1, <1>4, <1>5 DEF StoreOK
<1>7. store'.objs = store.objs
  BY <1>1, <1>2, <1>3, SaveIs
<1>8. job # NoJob => Extends(store'.objs[job.ref], store.objs[job.ref])
  BY <1>7, JobAt, ExtendsSelf
<1>9. Limit \in Nat
  BY SafeIs
<1>10. JobOK'
  <2>1. said <= said' /\ Limit' <= Limit
    BY <1>1, <1>2, <1>4, <1>9
  <2> QED
    BY <1>1, <1>2, <1>4, <1>8, <2>1, JobKept
<1> QED
  BY <1>4, <1>6, <1>10 DEF SafeOK

LEMMA CancelledIs ==
  ASSUME SafeOK, Cancelled
  PROVE  /\ turn' = NoTurn /\ QueueOK(lock', "none") /\ TurnOK(turn') /\ ToSay(turn') = 0
         /\ job' = NoJob \/ (job' = job /\ (lock # <<>> => lock' # <<>> /\ lock'[1] = lock[1]))
<1>1. QueueOK(lock, turn.stage)
  BY SafeIs
<1>2. /\ lock \in Seq(Workers) /\ Len(lock) \in Nat /\ DOMAIN lock = 1..Len(lock)
      /\ turn.stage = "wait" <=> \E i \in 1..Len(lock) : lock[i] = "turn"
  BY <1>1, QueueIs
<1>3. turn' = NoTurn /\ TurnOK(turn') /\ ToSay(turn') = 0
  BY DEF Cancelled, NoTurn, TurnOK, ToSay
<1>4. CASE turn.stage = "wait"
  <2> DEFINE k == CHOOSE i \in DOMAIN lock : lock[i] = "turn"
  <2>1. k \in 1..Len(lock) /\ lock[k] = "turn"
    BY <1>2, <1>4
  <2>2. lock' = RemoveAt(lock, k)
    BY <1>4 DEF Cancelled
  <2> HIDE DEF k
  <2>3. Without(lock', lock, k)
    BY <1>2, <2>1, <2>2, RemoveIs
  <2>4. QueueOK(lock', "none") /\ (k # 1 => lock' # <<>> /\ lock'[1] = lock[1])
    BY <1>1, <2>1, <2>3, QueueWithout
  <2>5. CASE k = 1
    <3>1. lock # <<>> /\ Head(lock) = "turn"
      BY <1>2, <2>1, <2>5
    <3>2. job' = NoJob
      BY <3>1 DEF Cancelled
    <3> QED
      BY <1>3, <2>4, <3>2
  <2>6. CASE k # 1
    <3>1. job' = NoJob \/ job' = job
      BY DEF Cancelled
    <3> QED
      BY <1>3, <2>4, <2>6, <3>1
  <2> QED
    BY <2>5, <2>6
<1>5. CASE turn.stage # "wait"
  <2>1. lock' = lock /\ (job' = NoJob \/ job' = job)
    BY <1>5 DEF Cancelled
  <2>2. QueueOK(lock, "none")
    <3>1. \A i \in 1..Len(lock) : lock[i] # "turn"
      BY <1>2, <1>5
    <3> QED
      BY <1>1, <3>1 DEF QueueOK
  <2> QED
    BY <1>3, <2>1, <2>2
<1> QED
  BY <1>4, <1>5

LEMMA StepStopTurn ==
  ASSUME SafeOK, StopTurn
  PROVE  SafeOK'
<1>1. /\ Cancelled /\ store' = Fetch(store)
      /\ title' = title /\ snapshots' = snapshots
      /\ archived' = archived /\ said' = said /\ exposed' = exposed /\ upsets' = upsets
      /\ dropped' = dropped /\ twice' = twice /\ wiped' = wiped /\ turns' = turns /\ events' = events
  BY DEF StopTurn
<1>2. /\ CountsOK /\ ControlOK /\ JobOK /\ store \in Stores /\ said \in Nat /\ Limit \in Nat
      /\ title \in Ids \union {0} /\ Held \in SUBSET (Ids \union {0})
  BY SafeIs
<1>3. /\ turn' = NoTurn /\ QueueOK(lock', "none") /\ TurnOK(turn') /\ ToSay(turn') = 0
      /\ job' = NoJob \/ (job' = job /\ (lock # <<>> => lock' # <<>> /\ lock'[1] = lock[1]))
  BY <1>1, CancelledIs
<1>4. CountsOK' /\ Calm' = Calm /\ Limit' = Limit /\ Owed' \subseteq Owed
  <2>1. ToSay(turn') <= ToSay(turn) /\ events' \in 0..MaxSessionEvents /\ events <= events'
    BY <1>1, <1>2, <1>3 DEF CountsOK, ToSay
  <2>2. /\ archived' \subseteq 1..said /\ dropped' \subseteq 1..said /\ twice' \subseteq 1..said
        /\ snapshots' \subseteq SUBSET (1..said) /\ Handed
        /\ archived \subseteq archived' /\ dropped \subseteq dropped'
    BY <1>1, <1>2 DEF CountsOK, Handed
  <2> QED
    BY <1>1, <1>2, <2>1, <2>2, QuietCounts
<1>5. ControlOK'
  BY <1>1, <1>2, <1>3 DEF ControlOK, NoTurn
<1>6. Held' \subseteq Held
  BY <1>1, <1>3 DEF Held, NoTurn, NoJob
<1>7. /\ Stocked(store', Held, said, Limit, Calm, Owed)
      /\ \A q \in Held : store'.objs[q] = store.objs[q]
  BY <1>1, SessionFetched
<1>8. StoreOK'
  <2>1. Stocked(store', Held', said, Limit, Calm, Owed')
    BY <1>2, <1>4, <1>6, <1>7, StockedMore
  <2> QED
    BY <1>1, <1>4, <2>1 DEF StoreOK
<1>9. JobOK'
  <2>1. CASE job' = NoJob
    BY <2>1 DEF JobOK
  <2>2. CASE job' = job /\ (lock # <<>> => lock' # <<>> /\ lock'[1] = lock[1])
    <3>1. job # NoJob => Extends(store'.objs[job.ref], store.objs[job.ref])
      BY <1>7, JobAt, ExtendsSelf
    <3>2. said <= said' /\ Limit' <= Limit
      BY <1>1, <1>2, <1>4
    <3> QED
      BY <1>1, <1>2, <1>4, <2>2, <3>1, <3>2, JobKept
  <2> QED
    BY <1>3, <2>1, <2>2
<1> QED
  BY <1>4, <1>5, <1>8, <1>9 DEF SafeOK

LEMMA StepDeliver ==
  ASSUME SafeOK, Deliver
  PROVE  SafeOK'
<1> DEFINE st == Fetch(store)  r == st.cache  o == Say(st.objs[r], said, <<"delivery">>)
<1>1. /\ events < MaxSessionEvents /\ store' = Rewrite(st, r, o)
      /\ Spoken(st, 1) /\ events' = events + 1
      /\ lock' = lock /\ job' = job /\ turn' = turn /\ title' = title /\ snapshots' = snapshots
      /\ archived' = archived /\ upsets' = upsets
      /\ dropped' = dropped /\ twice' = twice /\ wiped' = wiped /\ turns' = turns
  BY DEF Deliver
<1>2. /\ Stocked(st, Held, said, Limit, Calm, Owed) /\ st \in Stores /\ r \in Ids
      /\ Fits(st.objs[r], said, Limit, Calm, Owed) /\ st.objs[r] \in Record
      /\ \A q \in Held : st.objs[q] = store.objs[q]
  BY SessionFetched
<1>3. /\ CountsOK /\ ControlOK /\ JobOK /\ said \in Nat /\ Limit \in Nat /\ Limit <= said
      /\ Held \in SUBSET (Ids \union {0}) /\ store \in Stores
  BY SafeIs
<1>4. <<"delivery">> \in Sayings /\ Len(<<"delivery">>) = 1
  BY DEF Sayings
<1>5. o \in Record /\ Extends(o, st.objs[r])
  BY <1>2, <1>3, <1>4, SayIs, ExtendsSay
<1> HIDE DEF st
<1>6. PICK extra : Heard(st, 1, extra)
  BY <1>1, <1>2, <1>3, SpokenIs
<1>7. Calm' = Calm /\ Limit' = Limit
  BY <1>1, SameUpsets
<1>8. said' = said + 1 /\ extra \subseteq said + 1 .. said + 1 /\ 1..said \subseteq 1..said + 1
      /\ (Calm \/ extra = {}) /\ (job.kind = "idle" => extra = {})
  BY <1>3, <1>6, HeardIs
<1>9. extra = {} \/ Held \subseteq {0, r}
  <2>1. r \in (Held \union {r}) \ {0}
    BY <1>2 DEF Ids
  <2> QED
    BY <1>6, <2>1, HeardIs
<1>10. CountsOK'
  <2>1. Handed /\ archived \subseteq archived' /\ dropped \subseteq dropped'
    BY <1>1 DEF Handed
  <2>2. said' + ToSay(turn') <= 3 * turns' + events'
    BY <1>1, <1>3, <1>8 DEF CountsOK, ToSay
  <2>3. events' \in 0..MaxSessionEvents
    BY <1>1, <1>3, CompactionAssumption DEF CountsOK
  <2>4. wiped' \in 0..said'
    BY <1>1, <1>3, <1>8 DEF CountsOK
  <2>5. /\ archived' \subseteq 1..said' /\ dropped' \subseteq 1..said' /\ twice' \subseteq 1..said'
        /\ snapshots' \subseteq SUBSET (1..said') /\ turns' \in 0..MaxTurns
        /\ upsets' \subseteq {"overflow", "round", "idle", "copy", "fork", "crash"}
    BY <1>1, <1>3, <1>8 DEF CountsOK
  <2> QED
    BY <1>3, <1>6, <1>7, <2>1, <2>2, <2>3, <2>4, <2>5, CountsStep
<1>11. ControlOK' /\ Held' = Held
  BY <1>1, <1>3 DEF ControlOK, Held
<1>12. Owed' \subseteq Owed \union extra
  BY <1>1, <1>6, OwedMore DEF Handed
<1>13. Fits(o, said + 1, Limit, Calm, Owed \union extra)
  <2>1. extra \subseteq said + 1 .. said + Len(<<"delivery">>)
    BY <1>4, <1>8
  <2>2. Fits(o, said + Len(<<"delivery">>), Limit, Calm, Owed \union extra)
    BY <1>2, <1>3, <1>4, <1>8, <2>1, FitsSay
  <2> QED
    BY <1>4, <2>2
<1> HIDE DEF o, r
<1>14. StoreOK'
  <2>1. said + 1 \in Nat /\ said <= said + 1 /\ said + 1 <= said + 1 /\ Limit <= Limit
    BY <1>3
  <2>2. Owed' \subseteq Owed \/ Held \subseteq {0, r}
    BY <1>9, <1>12
  <2>3. Fits(o, said + 1, Limit, Calm, Owed')
    BY <1>3, <1>12, <1>13, <2>1, FitsMore
  <2>4. r \in Ids /\ Held \subseteq Held \union {0, st.cache, r}
    BY <1>2
  <2>5. Stocked(Rewrite(st, r, o), Held, said + 1, Limit, Calm, Owed')
    BY <1>2, <1>3, <2>1, <2>2, <2>3, <2>4, StockedRewrite
  <2> QED
    BY <1>1, <1>7, <1>8, <1>11, <2>5 DEF StoreOK
<1>15. JobOK'
  <2>1. job # NoJob => Extends(store'.objs[job.ref], store.objs[job.ref])
    <3> SUFFICES ASSUME job # NoJob PROVE Extends(store'.objs[job.ref], store.objs[job.ref])
      OBVIOUS
    <3>1. job.ref \in Ids /\ job.ref \in Held /\ store.objs[job.ref] \in Record
      BY JobAt
    <3>2. Placed(store', st, r, o, r, o)
      BY <1>1, <1>2, <1>5, RewriteIs
    <3>3. CASE job.ref = r
      BY <1>2, <1>5, <3>1, <3>2, <3>3 DEF Placed
    <3>4. CASE job.ref # r
      BY <1>2, <3>1, <3>2, <3>4, ExtendsSelf DEF Placed
    <3> QED
      BY <3>3, <3>4
  <2>2. job.kind = "idle" => Owed' \subseteq Owed
    BY <1>8, <1>12
  <2>3. said <= said' /\ Limit' <= Limit
    BY <1>3, <1>7, <1>8
  <2> QED
    BY <1>1, <1>3, <1>7, <1>10, <2>1, <2>2, <2>3, JobKept
<1> QED
  BY <1>10, <1>11, <1>14, <1>15 DEF SafeOK

LEMMA StepCommand ==
  ASSUME SafeOK, Command
  PROVE  SafeOK'
<1> DEFINE st == Fetch(store)  r == st.cache  k == ClosingSays(st.objs[r])
           words == <<"command", "reply">>
           o == Say(Restore(st).objs[r], said + k, words)
           p == [o EXCEPT !.pending = TRUE]
<1>1. /\ turn.stage = "none" /\ turns < MaxTurns /\ store' = Edit(Rewrite(st, r, p), r, o)
      /\ Spoken(st, k + 2) /\ events' = events
      /\ lock' = lock /\ job' = job /\ turn' = turn /\ title' = title /\ snapshots' = snapshots
      /\ archived' = archived /\ upsets' = upsets
      /\ dropped' = dropped /\ twice' = twice /\ wiped' = wiped /\ turns' = turns + 1
  BY DEF Command
<1>2. /\ Stocked(st, Held, said, Limit, Calm, Owed) /\ st \in Stores /\ r \in Ids
      /\ Fits(st.objs[r], said, Limit, Calm, Owed) /\ st.objs[r] \in Record
      /\ \A q \in Held : st.objs[q] = store.objs[q]
  BY SessionFetched
<1>3. /\ CountsOK /\ ControlOK /\ JobOK /\ said \in Nat /\ Limit \in Nat /\ Limit <= said
      /\ Held \in SUBSET (Ids \union {0}) /\ store \in Stores
  BY SafeIs
<1>4. words \in Sayings /\ Len(words) = 2
  BY DEF Sayings, Kinds
<1> HIDE DEF st, words
<1>16. k \in {0, 1}
  BY ClosingIs
<1>5. o \in Record /\ Extends(o, st.objs[r]) /\ p \in Record /\ Extends(p, st.objs[r])
  <2> DEFINE x == Restore(st).objs[r]
  <2>1. Restore(st) \in Stores /\ Extends(x, st.objs[r])
    BY <1>2, <1>3, RestoreIs
  <2>2. x \in Record /\ said + k \in Nat
    BY <1>3, <1>16, <2>1 DEF Extends
  <2> HIDE DEF x, k
  <2>3. Extends(Say(x, said + k, words), x)
    BY <1>4, <2>2, ExtendsSay
  <2>4. o = Say(x, said + k, words)
    BY DEF x
  <2> HIDE DEF o
  <2>5. o \in Record /\ Extends(o, st.objs[r])
    BY <1>2, <2>1, <2>3, <2>4, ExtendsTwice DEF Extends
  <2>6. Extends(p, o)
    BY <2>5, ExtendsPending
  <2>7. Extends(p, st.objs[r])
    BY <1>2, <2>5, <2>6, ExtendsTwice
  <2> QED
    BY <2>5, <2>6, <2>7 DEF Extends
<1>6. PICK extra : Heard(st, k + 2, extra)
  BY <1>1, <1>2, <1>3, <1>16, SpokenIs
<1>7. Calm' = Calm /\ Limit' = Limit
  BY <1>1, SameUpsets
<1>8. said' = said + (k + 2) /\ extra \subseteq said + 1 .. said + (k + 2) /\ 1..said \subseteq 1..said + (k + 2)
      /\ (Calm \/ extra = {}) /\ (job.kind = "idle" => extra = {})
  BY <1>3, <1>6, <1>16, HeardIs
<1>9. extra = {} \/ Held \subseteq {0, r}
  <2>1. r \in (Held \union {r}) \ {0}
    BY <1>2 DEF Ids
  <2> QED
    BY <1>6, <2>1, HeardIs
<1>10. CountsOK'
  <2>1. Handed /\ archived \subseteq archived' /\ dropped \subseteq dropped'
    BY <1>1 DEF Handed
  <2>2. said' + ToSay(turn') <= 3 * turns' + events'
    BY <1>1, <1>3, <1>8, <1>16 DEF CountsOK, ToSay
  <2>3. turns' \in 0..MaxTurns
    BY <1>1, <1>3, CompactionAssumption DEF CountsOK
  <2>4. wiped' \in 0..said'
    BY <1>1, <1>3, <1>8, <1>16 DEF CountsOK
  <2>5. /\ archived' \subseteq 1..said' /\ dropped' \subseteq 1..said' /\ twice' \subseteq 1..said'
        /\ snapshots' \subseteq SUBSET (1..said') /\ events' \in 0..MaxSessionEvents
        /\ upsets' \subseteq {"overflow", "round", "idle", "copy", "fork", "crash"}
    BY <1>1, <1>3, <1>8 DEF CountsOK
  <2> QED
    BY <1>3, <1>6, <1>7, <2>1, <2>2, <2>3, <2>4, <2>5, CountsStep
<1>11. ControlOK' /\ Held' = Held
  BY <1>1, <1>3 DEF ControlOK, Held
<1>12. Owed' \subseteq Owed \union extra
  BY <1>1, <1>6, OwedMore DEF Handed
<1>13. Fits(o, said + (k + 2), Limit, Calm, Owed \union extra)
  <2> DEFINE x == Restore(st).objs[r]  e1 == extra \intersect (said + 1 .. said + k)
             e2 == extra \intersect (said + k + 1 .. said + k + 2)
  <2>1. e1 \subseteq said + 1 .. said + k /\ (Calm \/ e1 = {}) /\ (Calm \/ e2 = {})
        /\ e2 \subseteq said + k + 1 .. said + k + 2
    BY <1>8
  <2>2. (Owed \union e1) \union e2 = Owed \union extra
    <3>1. said + 1 .. said + (k + 2) \subseteq (said + 1 .. said + k) \union (said + k + 1 .. said + k + 2)
      BY <1>3, <1>16
    <3> QED
      BY <1>8, <3>1
  <2> HIDE DEF e1, e2
  <2>3. Fits(x, said + k, Limit, Calm, Owed \union e1)
    BY <1>2, <1>3, <2>1, FitsRestored
  <2>4. said + k \in Nat /\ Limit <= said + k /\ (said + k) + 2 = said + (k + 2)
    BY <1>3, <1>16
  <2>5. PICK n, oe : n = said + k /\ oe = Owed \union e1
    OBVIOUS
  <2> HIDE DEF x, k
  <2>6. o = Say(x, n, words)
    BY <2>5 DEF x
  <2> HIDE DEF o
  <2>7. Fits(x, n, Limit, Calm, oe) /\ n \in Nat /\ Limit <= n /\ e2 \subseteq n + 1 .. n + Len(words)
    BY <1>4, <2>1, <2>3, <2>4, <2>5
  <2>8. Fits(Say(x, n, words), n + Len(words), Limit, Calm, oe \union e2)
    BY <1>3, <1>4, <2>1, <2>7, FitsSay
  <2> QED
    BY <1>4, <2>2, <2>4, <2>5, <2>6, <2>8
<1>17. Fits(p, said + (k + 2), Limit, Calm, Owed \union extra)
  <2> DEFINE n == said + (k + 2)  all == Owed \union extra
  <2> HIDE DEF n, all, o
  <2>1. Fits(o, n, Limit, Calm, all)
    BY <1>13 DEF n, all
  <2>2. Fits(p, n, Limit, Calm, all)
    BY <2>1, FitsPending
  <2> QED
    BY <2>2 DEF n, all
<1> DEFINE n == said + (k + 2)
<1>18. n \in Nat /\ said <= n /\ n <= n /\ Limit <= Limit /\ said' = n
  BY <1>3, <1>8, <1>16
<1> HIDE DEF o, p, r, k, n
<1>14. StoreOK'
  <2>2. Owed' \subseteq Owed \/ Held \subseteq {0, r}
    BY <1>9, <1>12
  <2>3. Fits(o, n, Limit, Calm, Owed') /\ Fits(p, n, Limit, Calm, Owed')
    BY <1>3, <1>12, <1>13, <1>17, <1>18, FitsMore DEF n
  <2>4. r \in Ids /\ Held \subseteq Held \union {0, st.cache, r}
    BY <1>2
  <2>5. Stocked(Rewrite(st, r, p), Held, n, Limit, Calm, Owed')
    BY <1>2, <1>3, <1>18, <2>2, <2>3, <2>4, StockedRewrite
  <2>6. PICK s2 : s2 = Rewrite(st, r, p)
    OBVIOUS
  <2>7. s2.cache = r
    BY <1>2, <1>5, <2>4, <2>6, RewriteIs DEF Placed
  <2>8. Stocked(Edit(s2, s2.cache, o), Held, n, Limit, Calm, Owed')
    BY <1>3, <1>18, <2>3, <2>4, <2>5, <2>6, <2>7, StockedEdit
  <2>9. store' = Edit(s2, s2.cache, o)
    BY <1>1, <2>6, <2>7
  <2> QED
    BY <1>7, <1>11, <1>18, <2>8, <2>9 DEF StoreOK
<1>15. JobOK'
  <2>1. job # NoJob => Extends(store'.objs[job.ref], store.objs[job.ref])
    <3> SUFFICES ASSUME job # NoJob PROVE Extends(store'.objs[job.ref], store.objs[job.ref])
      OBVIOUS
    <3>1. job.ref \in Ids /\ job.ref \in Held /\ store.objs[job.ref] \in Record
      BY JobAt
    <3>0. PICK s2 : s2 = Rewrite(st, r, p)
      OBVIOUS
    <3>2. Placed(s2, st, r, p, r, p) /\ r \in Ids
      BY <1>2, <1>5, <3>0, RewriteIs DEF r
    <3>5. s2 \in Stores /\ \A q \in Ids : q # r => s2.objs[q] = st.objs[q]
      BY <3>2 DEF Placed
    <3>6. Placed(store', s2, r, o, s2.cache, s2.file)
      BY <1>1, <1>5, <3>0, <3>2, <3>5, EditIs
    <3>3. CASE job.ref = r
      BY <1>2, <1>5, <3>1, <3>6, <3>3 DEF Placed
    <3>4. CASE job.ref # r
      BY <1>2, <3>1, <3>5, <3>6, <3>4, ExtendsSelf DEF Placed
    <3> QED
      BY <3>3, <3>4
  <2>2. job.kind = "idle" => Owed' \subseteq Owed
    BY <1>8, <1>12
  <2>3. said <= said' /\ Limit' <= Limit
    BY <1>3, <1>7, <1>18
  <2> QED
    BY <1>1, <1>3, <1>7, <1>10, <2>1, <2>2, <2>3, JobKept
<1> QED
  BY <1>10, <1>11, <1>14, <1>15 DEF SafeOK

LEMMA StepFinishTurn ==
  ASSUME SafeOK, FinishTurn
  PROVE  SafeOK'
<1> DEFINE r == turn.ref  o == Say(store.objs[r], said, <<"answer">>)
           q == [Capped(o) EXCEPT !.pending = FALSE]  ns == CutNumbers(o)
<1>1. /\ turn.stage = "run" /\ store' = Rewrite(store, r, q)
      /\ Spoken(store, 1) /\ Archive(ns) /\ lock' = Append(lock, "after") /\ turn' = NoTurn
      /\ (title' = title /\ events' = events) \/ (events < MaxSessionEvents /\ title' = r /\ events' = events + 1)
      /\ job' = job /\ snapshots' = snapshots /\ upsets' = upsets /\ dropped' = dropped
      /\ wiped' = wiped /\ turns' = turns
  BY DEF FinishTurn, Capped, CutBy, CutNumbers
<1>3. /\ CountsOK /\ ControlOK /\ JobOK /\ said \in Nat /\ Limit \in Nat /\ Limit <= said
      /\ Held \in SUBSET (Ids \union {0}) /\ store \in Stores
      /\ QueueOK(lock, turn.stage) /\ TurnOK(turn) /\ title \in Ids \union {0}
      /\ Stocked(store, Held, said, Limit, Calm, Owed)
  BY SafeIs
<1>2. r \in Ids /\ r \in Held /\ r # 0 /\ store.cache \in Ids \union {0}
  BY <1>1, <1>3 DEF TurnOK, Held, Ids, Stores
<1>4. Fits(store.objs[r], said, Limit, Calm, Owed) /\ store.objs[r] \in Record
  BY <1>2, <1>3 DEF Stocked, Fits
<1>5. <<"answer">> \in Sayings /\ Len(<<"answer">>) = 1
  BY DEF Sayings, Kinds
<1>6. PICK extra : Heard(store, 1, extra)
  BY <1>1, <1>2, <1>3, SpokenIs
<1>7. Calm' = Calm /\ Limit' = Limit
  BY <1>1, SameUpsets
<1>8. said' = said + 1 /\ extra \subseteq said + 1 .. said + 1 /\ 1..said \subseteq 1..said + 1
      /\ (Calm \/ extra = {}) /\ (job.kind = "idle" => extra = {})
  BY <1>3, <1>6, HeardIs
<1>9. extra = {} \/ Held \subseteq {0, r}
  BY <1>2, <1>6, HeardIs
<1> DEFINE all == Owed \union extra
<1>10. Fits(o, said + 1, Limit, Calm, all)
  <2>1. extra \subseteq said + 1 .. said + Len(<<"answer">>)
    BY <1>5, <1>8
  <2>2. Fits(o, said + Len(<<"answer">>), Limit, Calm, all)
    BY <1>3, <1>4, <1>5, <1>8, <2>1, FitsSay
  <2> QED
    BY <1>5, <2>2
<1>11. ns \subseteq 1..said + 1
  <2> HIDE DEF o, all
  <2>1. o \in Record /\ Ordered(o.msgs) /\ \A i \in 1..Len(o.msgs) : Limit < o.msgs[i].n /\ o.msgs[i].n <= said + 1
    BY <1>10 DEF Fits
  <2>2. ns \subseteq Numbers(Unarchived(o))
    BY <2>1, CappedIs
  <2>3. \A i \in 1..Len(o.msgs) : o.msgs[i].n \in Nat
    BY <2>1, CopyIs
  <2>4. \A i \in 1..Len(o.msgs) : o.msgs[i].n \in 1..said + 1
    BY <1>3, <2>1, <2>3
  <2>5. \A x \in ns : \E i \in 1..Len(o.msgs) : o.msgs[i].n = x
    BY <2>1, <2>2, UnarchivedNumbers
  <2> QED
    BY <2>4, <2>5
<1>12. archived' = archived \union ns /\ twice' \subseteq twice \union archived
  BY <1>1 DEF Archive
<1> HIDE DEF r, o, q, ns, all
<1>13. CountsOK'
  <2>1. Handed /\ archived \subseteq archived' /\ dropped \subseteq dropped'
    BY <1>1, <1>12 DEF Handed
  <2>2. said' + ToSay(turn') <= 3 * turns' + events' /\ events' \in 0..MaxSessionEvents
    <3>1. ToSay(turn) = 1 /\ ToSay(turn') = 0
      BY <1>1 DEF ToSay, NoTurn
    <3>2. said + 1 <= 3 * turns + events /\ turns \in Nat /\ events \in Nat /\ MaxSessionEvents \in Nat /\ events <= MaxSessionEvents
      BY <1>3, <3>1, CompactionAssumption DEF CountsOK
    <3> QED
      BY <1>1, <1>3, <1>8, <3>1, <3>2
  <2>4. wiped' \in 0..said'
    BY <1>1, <1>3, <1>8 DEF CountsOK
  <2>5. /\ archived' \subseteq 1..said' /\ dropped' \subseteq 1..said' /\ twice' \subseteq 1..said'
        /\ snapshots' \subseteq SUBSET (1..said') /\ turns' \in 0..MaxTurns
        /\ upsets' \subseteq {"overflow", "round", "idle", "copy", "fork", "crash"}
    BY <1>1, <1>3, <1>8, <1>11, <1>12 DEF CountsOK
  <2> QED
    BY <1>3, <1>6, <1>7, <2>1, <2>2, <2>4, <2>5, CountsStep
<1>14. ControlOK' /\ Held' \subseteq Held
  <2>1. QueueOK(lock', "none")
    BY <1>1, <1>3, QueueAfter
  <2>2. TurnOK(NoTurn) /\ NoTurn.stage = "none" /\ NoTurn.ref = 0
    BY DEF NoTurn, TurnOK
  <2>3. title' \in Ids \union {0}
    BY <1>1, <1>2, <1>3
  <2>4. Held' \subseteq Held
    BY <1>1, <1>2, <2>2 DEF Held
  <2> QED
    BY <1>1, <2>1, <2>2, <2>3, <2>4 DEF ControlOK
<1>15. Owed' \subseteq all \ ns
  BY <1>1, <1>6, <1>12, OwedMore DEF Handed, all
<1>16. Fits(q, said + 1, Limit, Calm, all \ ns)
  <2>1. Fits(Capped(o), said + 1, Limit, Calm, all \ ns)
    BY <1>3, <1>10, FitsCapped DEF ns
  <2> DEFINE x == Capped(o)  n == said + 1  rest == all \ ns
  <2> HIDE DEF x, n, rest
  <2>2. Fits(x, n, Limit, Calm, rest)
    BY <2>1 DEF x, n, rest
  <2>3. Fits([x EXCEPT !.pending = FALSE], n, Limit, Calm, rest)
    BY <2>2, FitsPending
  <2> QED
    BY <2>3 DEF x, n, rest, q
<1>17. StoreOK'
  <2>1. said + 1 \in Nat /\ said <= said + 1 /\ said + 1 <= said + 1 /\ Limit <= Limit
    BY <1>3
  <2>2. Owed' \subseteq Owed \/ Held' \subseteq {0, r}
    BY <1>9, <1>14, <1>15 DEF all
  <2>3. Fits(q, said + 1, Limit, Calm, Owed')
    BY <1>3, <1>15, <1>16, <2>1, FitsMore
  <2>4. r \in Ids /\ Held' \subseteq Held \union {0, store.cache, r} /\ Held' \in SUBSET (Ids \union {0})
    BY <1>2, <1>3, <1>14
  <2>5. Stocked(Rewrite(store, r, q), Held', said + 1, Limit, Calm, Owed')
    BY <1>3, <2>1, <2>2, <2>3, <2>4, StockedRewrite
  <2> QED
    BY <1>1, <1>7, <1>8, <2>5 DEF StoreOK
<1>18. JobOK'
  <2>1. job = NoJob \/ job.kind = "idle"
    <3> SUFFICES ASSUME job # NoJob, job.kind # "idle" PROVE FALSE
      OBVIOUS
    <3>1. lock # <<>> /\ lock[1] \in {"turn", "after"}
      BY <1>3 DEF JobOK
    <3>2. /\ lock \in Seq(Workers) /\ Len(lock) \in Nat
          /\ \A i \in 1..Len(lock) : lock[i] # "turn" /\ lock[i] # "after"
      BY <1>1, <1>3, QueueIs
    <3>3. 1 \in 1..Len(lock)
      BY <3>1, <3>2, TailIs
    <3> QED
      BY <3>1, <3>2, <3>3
  <2>2. job.kind = "idle" => Owed' \subseteq Owed
    BY <1>8, <1>15 DEF all
  <2>3. said <= said' /\ Limit' <= Limit
    BY <1>3, <1>7, <1>8
  <2>4. lock # <<>> => lock' # <<>> /\ lock'[1] = lock[1]
    <3>1. lock \in Seq(Workers) /\ "after" \in Workers
      BY <1>3, QueueIs DEF Workers
    <3> QED
      BY <1>1, <3>1, AppendIs
  <2> QED
    BY <1>1, <1>3, <1>7, <1>13, <2>1, <2>2, <2>3, <2>4, JobKept
<1> QED
  BY <1>13, <1>14, <1>17, <1>18 DEF SafeOK

LEMMA StepCheckExpired ==
  ASSUME SafeOK, CheckExpired
  PROVE  SafeOK'
<1>1. /\ \A i \in DOMAIN lock : lock[i] # "idle"
      /\ store' = Fetch(store) /\ lock' = Append(lock, "idle")
      /\ job' = job /\ turn' = turn /\ title' = title /\ snapshots' = snapshots
      /\ archived' = archived /\ said' = said /\ exposed' = exposed /\ upsets' = upsets
      /\ dropped' = dropped /\ twice' = twice /\ wiped' = wiped /\ turns' = turns /\ events' = events
  BY DEF CheckExpired
<1>2. /\ CountsOK /\ ControlOK /\ JobOK /\ store \in Stores /\ said \in Nat /\ Limit \in Nat
      /\ QueueOK(lock, turn.stage)
  BY SafeIs
<1>4. CountsOK' /\ Calm' = Calm /\ Limit' = Limit /\ Owed' = Owed /\ Held' = Held
  BY <1>1, <1>2 DEF CountsOK, Calm, Limit, Owed, Held, ToSay
<1>3. lock \in Seq(Workers) /\ DOMAIN lock = 1..Len(lock) /\ "idle" \in Workers
  BY <1>2, QueueIs DEF Workers
<1>5. ControlOK'
  <2>1. QueueOK(lock', turn.stage)
    BY <1>1, <1>2, <1>3, QueueIdle
  <2> QED
    BY <1>1, <1>2, <2>1 DEF ControlOK
<1>6. /\ Stocked(store', Held, said, Limit, Calm, Owed)
      /\ \A q \in Held : store'.objs[q] = store.objs[q]
  BY <1>1, SessionFetched
<1>7. StoreOK'
  BY <1>1, <1>4, <1>6 DEF StoreOK
<1>8. JobOK'
  <2>1. job # NoJob => Extends(store'.objs[job.ref], store.objs[job.ref])
    BY <1>6, JobAt, ExtendsSelf
  <2>2. said <= said' /\ Limit' <= Limit
    BY <1>1, <1>2, <1>4
  <2>3. lock # <<>> => lock' # <<>> /\ lock'[1] = lock[1]
    BY <1>1, <1>3, AppendIs
  <2> QED
    BY <1>1, <1>2, <1>4, <2>1, <2>2, <2>3, JobKept
<1> QED
  BY <1>4, <1>5, <1>7, <1>8 DEF SafeOK

LEMMA StepArchiveSnapshot ==
  ASSUME SafeOK, NEW ns \in snapshots, ArchiveSnapshot(ns)
  PROVE  SafeOK'
<1>1. /\ snapshots' = snapshots \ {ns} /\ Archive(ns)
      /\ store' = store /\ lock' = lock /\ job' = job /\ turn' = turn /\ title' = title
      /\ said' = said /\ exposed' = exposed /\ upsets' = upsets
      /\ dropped' = dropped /\ wiped' = wiped /\ turns' = turns /\ events' = events
  BY DEF ArchiveSnapshot
<1>2. /\ CountsOK /\ ControlOK /\ JobOK /\ store \in Stores /\ said \in Nat /\ Limit \in Nat
      /\ Stocked(store, Held, said, Limit, Calm, Owed)
  BY SafeIs
<1>3. archived' = archived \union ns /\ twice' \subseteq twice \union ns
  BY <1>1 DEF Archive
<1>4. CountsOK' /\ Calm' = Calm /\ Limit' = Limit /\ Owed' \subseteq Owed
  <2>1. ToSay(turn') <= ToSay(turn) /\ events' \in 0..MaxSessionEvents /\ events <= events'
    BY <1>1, <1>2 DEF CountsOK, ToSay
  <2>2. Handed
    BY <1>1, <1>3 DEF Handed
  <2>3. /\ archived' \subseteq 1..said /\ dropped' \subseteq 1..said /\ twice' \subseteq 1..said
        /\ snapshots' \subseteq SUBSET (1..said)
        /\ archived \subseteq archived' /\ dropped \subseteq dropped'
    BY <1>1, <1>2, <1>3 DEF CountsOK
  <2> QED
    BY <1>1, <1>2, <2>1, <2>2, <2>3, QuietCounts
<1>5. ControlOK' /\ Held' = Held
  BY <1>1, <1>2 DEF ControlOK, Held
<1>6. StoreOK'
  <2>1. said <= said /\ Limit <= Limit /\ Held \subseteq Held \union {0, store.cache}
    BY <1>2
  <2>2. Stocked(store, Held, said, Limit, Calm, Owed')
    BY <1>2, <1>4, <2>1, StockedMore
  <2> QED
    BY <1>1, <1>4, <1>5, <2>2 DEF StoreOK
<1>7. JobOK'
  <2>1. job # NoJob => Extends(store'.objs[job.ref], store.objs[job.ref])
    BY <1>1, JobAt, ExtendsSelf
  <2>2. said <= said' /\ Limit' <= Limit
    BY <1>1, <1>2, <1>4
  <2> QED
    BY <1>1, <1>2, <1>4, <2>1, <2>2, JobKept
<1> QED
  BY <1>4, <1>5, <1>6, <1>7 DEF SafeOK

LEMMA StepTitled ==
  ASSUME SafeOK, Titled
  PROVE  SafeOK'
<1>1. /\ title # 0 /\ title' = 0 /\ (store' = store \/ store' = Save(store, title))
      /\ lock' = lock /\ job' = job /\ turn' = turn /\ snapshots' = snapshots
      /\ archived' = archived /\ said' = said /\ exposed' = exposed /\ upsets' = upsets
      /\ dropped' = dropped /\ twice' = twice /\ wiped' = wiped /\ turns' = turns /\ events' = events
  BY DEF Titled
<1>2. /\ CountsOK /\ ControlOK /\ JobOK /\ store \in Stores /\ said \in Nat /\ Limit \in Nat
      /\ Stocked(store, Held, said, Limit, Calm, Owed) /\ title \in Ids \union {0}
  BY SafeIs
<1>3. title \in Ids /\ title \in Held
  BY <1>1, <1>2 DEF Held
<1>4. CountsOK' /\ Calm' = Calm /\ Limit' = Limit /\ Owed' = Owed /\ Held' \subseteq Held /\ ControlOK'
  BY <1>1, <1>2 DEF CountsOK, Calm, Limit, Owed, Held, ControlOK, ToSay
<1>5. Stocked(store', Held, said, Limit, Calm, Owed)
  BY <1>1, <1>2, <1>3, StockedSave
<1>6. StoreOK'
  <2>1. said <= said /\ Limit <= Limit /\ Held' \subseteq Held \union {0, store'.cache}
    BY <1>2, <1>4
  <2>2. Stocked(store', Held', said, Limit, Calm, Owed)
    BY <1>2, <1>5, <2>1, StockedMore
  <2> QED
    BY <1>1, <1>4, <2>2 DEF StoreOK
<1>7. store'.objs = store.objs
  BY <1>1, <1>2, <1>3, SaveIs
<1>10. JobOK'
  <2>1. job # NoJob => Extends(store'.objs[job.ref], store.objs[job.ref])
    BY <1>7, JobAt, ExtendsSelf
  <2>2. said <= said' /\ Limit' <= Limit
    BY <1>1, <1>2, <1>4
  <2> QED
    BY <1>1, <1>2, <1>4, <2>1, <2>2, JobKept
<1> QED
  BY <1>4, <1>6, <1>10 DEF SafeOK

LEMMA StepSessionCrash ==
  ASSUME SafeOK, Crash
  PROVE  SafeOK'
<1>1. /\ events < MaxSessionEvents /\ events' = events + 1
      /\ store' = [store EXCEPT !.objs = [i \in Ids |-> Empty], !.cache = 0]
      /\ lock' = <<>> /\ job' = NoJob /\ turn' = NoTurn /\ title' = 0
      /\ snapshots' = {} /\ dropped' = dropped \union (UNION snapshots)
      /\ (archived' = archived /\ twice' = twice) \/ (job # NoJob /\ Archive(job.chunk))
      /\ upsets' = upsets \union {"crash"}
      /\ said' = said /\ exposed' = exposed /\ wiped' = wiped /\ turns' = turns
  BY DEF Crash
<1>2. /\ CountsOK /\ ControlOK /\ JobOK /\ store \in Stores /\ said \in Nat /\ Limit \in Nat
      /\ Stocked(store, Held, said, Limit, Calm, Owed)
  BY SafeIs
<1>3. archived \subseteq archived' /\ archived' \subseteq 1..said /\ twice' \subseteq 1..said
  <2>1. CASE archived' = archived /\ twice' = twice
    BY <1>2, <2>1 DEF CountsOK
  <2>2. CASE job # NoJob /\ Archive(job.chunk)
    <3>1. job.chunk \subseteq 1..said
      BY <2>2, JobAt DEF Jobs
    <3> QED
      BY <1>2, <2>2, <3>1 DEF CountsOK, Archive
  <2> QED
    BY <1>1, <2>1, <2>2
<1>4. Calm' = Calm /\ Limit' = Limit /\ Heard(store, 0, {})
  BY <1>1, <1>2, SameUpsets, NothingHeard
<1>5. UNION snapshots' = {} /\ UNION snapshots \subseteq 1..said
  BY <1>1, <1>2 DEF CountsOK
<1>6. Handed /\ dropped \subseteq dropped'
  BY <1>1 DEF Handed
<1>7. Owed' \subseteq Owed
  BY <1>3, <1>4, <1>6, OwedMore
<1>8. CountsOK'
  <2>1. said' + ToSay(turn') <= 3 * turns' + events' /\ events' \in 0..MaxSessionEvents
    <3>1. ToSay(turn) \in Nat /\ ToSay(turn') = 0
      BY <1>1 DEF ToSay, NoTurn
    <3>2. said + ToSay(turn) <= 3 * turns + events /\ turns \in Nat /\ events \in Nat /\ MaxSessionEvents \in Nat
      BY <1>2, CompactionAssumption DEF CountsOK
    <3> QED
      BY <1>1, <1>2, <3>1, <3>2
  <2>2. /\ dropped' \subseteq 1..said' /\ archived' \subseteq 1..said' /\ twice' \subseteq 1..said'
        /\ snapshots' \subseteq SUBSET (1..said') /\ wiped' \in 0..said' /\ turns' \in 0..MaxTurns
        /\ upsets' \subseteq {"overflow", "round", "idle", "copy", "fork", "crash"}
    BY <1>1, <1>2, <1>3, <1>5 DEF CountsOK
  <2> QED
    BY <1>2, <1>3, <1>4, <1>6, <2>1, <2>2, CountsStep
<1>9. ControlOK' /\ Held' = {} /\ JobOK'
  <2>1. QueueOK(<<>>, "none") /\ TurnOK(NoTurn) /\ NoTurn.stage = "none"
    BY DEF QueueOK, TurnOK, NoTurn
  <2> QED
    BY <1>1, <2>1 DEF ControlOK, Held, NoTurn, NoJob, JobOK
<1>10. StoreOK'
  <2>1. store'.cache = 0 /\ store'.file = store.file /\ store' \in Stores
    <3>1. [i \in Ids |-> Empty] \in [Ids -> Record]
      BY DEF Empty, Record
    <3> DEFINE A == store.objs  B == store.cache  C == store.file  E == [i \in Ids |-> Empty]
    <3>2. store = [objs |-> A, cache |-> B, file |-> C] /\ C \in Record
      BY <1>2, StoreIs
    <3> HIDE DEF A, B, C, E
    <3>3. store' = [store EXCEPT !.objs = E, !.cache = 0]
      BY <1>1 DEF E
    <3>4. store' = [objs |-> E, cache |-> 0, file |-> C]
      BY <3>2, <3>3
    <3>5. E \in [Ids -> Record]
      BY <3>1 DEF E
    <3> QED
      BY <3>2, <3>4, <3>5 DEF Stores, C
  <2>2. Fits(store.file, said, Limit, Calm, Owed) /\ said <= said /\ Limit <= Limit
    BY <1>2 DEF Stocked
  <2>3. Fits(store.file, said, Limit, Calm, Owed')
    BY <1>2, <1>7, <2>2, FitsMore
  <2> QED
    BY <1>1, <1>4, <1>9, <2>1, <2>3 DEF StoreOK, Stocked
<1> QED
  BY <1>8, <1>9, <1>10 DEF SafeOK

\* What the steps that hold the lock leave alone.
LockFrame ==
  /\ title' = title /\ snapshots' = snapshots /\ dropped' = dropped /\ wiped' = wiped
  /\ turns' = turns /\ events' = events
  /\ upsets' = upsets \/ upsets' = upsets \union {"fork"}
  /\ archived \subseteq archived' /\ archived' \subseteq 1..said /\ twice' \subseteq 1..said

LEMMA LockCounts ==
  ASSUME SafeOK, LockFrame, NEW st, NEW k, NEW extra, Heard(st, k, extra),
         k + ToSay(turn') <= ToSay(turn)
  PROVE  /\ CountsOK' /\ Calm' = Calm /\ Limit' = Limit
         /\ Owed' \subseteq (Owed \union extra) \ archived'
<1>1. CountsOK /\ said \in Nat
  BY SafeIs
<1>2. k \in Nat /\ said' = said + k /\ 1..said \subseteq 1..said'
  BY <1>1, HeardIs
<1>3. Calm' = Calm /\ Limit' = Limit
  BY SameUpsets DEF LockFrame
<1>4. Handed /\ dropped \subseteq dropped' /\ archived \subseteq archived'
  BY DEF LockFrame, Handed
<1>5. said' + ToSay(turn') <= 3 * turns' + events'
  <2>1. ToSay(turn) \in Nat /\ ToSay(turn') \in Nat
    BY DEF ToSay
  <2>2. said + ToSay(turn) <= 3 * turns + events /\ turns \in Nat /\ events \in Nat
    BY <1>1 DEF CountsOK
  <2>3. turns' = turns /\ events' = events
    BY DEF LockFrame
  <2> QED
    BY <1>1, <1>2, <2>1, <2>2, <2>3
<1>6. wiped' \in 0..said'
  BY <1>1, <1>2 DEF CountsOK, LockFrame
<1>7. /\ archived' \subseteq 1..said' /\ dropped' \subseteq 1..said' /\ twice' \subseteq 1..said'
      /\ snapshots' \subseteq SUBSET (1..said') /\ turns' \in 0..MaxTurns /\ events' \in 0..MaxSessionEvents
      /\ upsets' \subseteq {"overflow", "round", "idle", "copy", "fork", "crash"}
  BY <1>1, <1>2 DEF CountsOK, LockFrame
<1>8. CountsOK'
  BY <1>1, <1>3, <1>4, <1>5, <1>6, <1>7, CountsStep
<1> QED
  BY <1>3, <1>4, <1>8, OwedMore

LEMMA ReleaseSafe ==
  ASSUME SafeOK, LockFrame, lock # <<>>, NEW st, NEW owed, Stocked(st, Held, said, Limit, Calm, owed),
         Release(st), Owed \ archived' \subseteq owed
  PROVE  SafeOK'
<1>1. /\ CountsOK /\ ControlOK /\ JobOK /\ said \in Nat /\ Limit \in Nat /\ Limit <= said
      /\ Held \in SUBSET (Ids \union {0})
      /\ QueueOK(lock, turn.stage) /\ TurnOK(turn) /\ title \in Ids \union {0}
  BY SafeIs
<1>2. job' = NoJob /\ lock' = Tail(lock)
  BY DEF Release
<1>3. lock \in Seq(Workers) /\ 1 \in 1..Len(lock) /\ Head(lock) = lock[1] /\ Without(lock', lock, 1)
  BY <1>1, <1>2, QueueIs, TailIs
<1>4. JobOK'
  BY <1>2 DEF JobOK
<1>5. title' = title /\ st \in Stores
  BY DEF LockFrame, Stocked
<1>6. CASE Head(lock) = "turn"
  <2> DEFINE r == turn.ref  o == Say(st.objs[r], said, <<"prompt">>)  q == [o EXCEPT !.pending = TRUE]
  <2>1. store' = Rewrite(st, r, q) /\ Spoken(st, 1) /\ turn' = [turn EXCEPT !.stage = "run"]
    BY <1>6 DEF Release
  <2>2. turn.stage = "wait"
    BY <1>1, <1>3, <1>6, QueueIs
  <2>3. r \in Ids /\ r \in Held /\ r # 0 /\ st.cache \in Ids \union {0}
    BY <1>1, <1>5, <2>2 DEF TurnOK, Held, Ids, Stores
  <2>4. TurnOK(turn') /\ turn'.stage = "run" /\ turn'.ref = r
    BY <1>1, <2>1, <2>2, <2>3 DEF TurnOK
  <2>5. PICK extra : Heard(st, 1, extra)
    BY <1>1, <2>1, <2>3, SpokenIs
  <2>6. said' = said + 1 /\ extra \subseteq said + 1 .. said + 1 /\ (Calm \/ extra = {})
        /\ (extra = {} \/ Held \subseteq {0, r})
    BY <2>3, <2>5, HeardIs
  <2>7. ToSay(turn) = 2 /\ ToSay(turn') = 1
    BY <2>2, <2>4 DEF ToSay
  <2>8. CountsOK' /\ Calm' = Calm /\ Limit' = Limit /\ Owed' \subseteq owed \union extra
    <3>1. 1 + ToSay(turn') <= ToSay(turn)
      BY <2>7
    <3> QED
      BY <2>5, <3>1, LockCounts
  <2>9. QueueOK(lock', "run")
    BY <1>1, <1>3, <1>6, QueueWithout
  <2>10. ControlOK' /\ Held' \subseteq Held
    BY <1>1, <1>2, <1>5, <2>4, <2>9 DEF ControlOK, Held, NoJob
  <2>11. Fits(q, said + 1, Limit, Calm, owed \union extra)
    <3>1. <<"prompt">> \in Sayings /\ Len(<<"prompt">>) = 1
      BY DEF Sayings, Kinds
    <3>2. Fits(st.objs[r], said, Limit, Calm, owed)
      BY <2>3 DEF Stocked
    <3> DEFINE all == owed \union extra  n == said + 1
    <3>3. Fits(o, said + Len(<<"prompt">>), Limit, Calm, all)
      <4>1. extra \subseteq said + 1 .. said + Len(<<"prompt">>)
        BY <2>6, <3>1
      <4> QED
        BY <1>1, <2>6, <3>1, <3>2, <4>1, FitsSay
    <3> HIDE DEF all, n, o
    <3>4. Fits(o, n, Limit, Calm, all)
      BY <3>1, <3>3 DEF n
    <3>5. Fits(q, n, Limit, Calm, all)
      BY <3>4, FitsPending
    <3> QED
      BY <3>5 DEF n, all
  <2> HIDE DEF r, o, q
  <2>12. StoreOK'
    <3>1. said + 1 \in Nat /\ said <= said + 1 /\ said + 1 <= said + 1 /\ Limit <= Limit
      BY <1>1
    <3>2. Owed' \subseteq owed \/ Held' \subseteq {0, r}
      BY <2>6, <2>8, <2>10
    <3>3. Fits(q, said + 1, Limit, Calm, Owed')
      BY <1>1, <2>8, <2>11, <3>1, FitsMore
    <3>4. Held' \subseteq Held \union {0, st.cache, r} /\ Held' \in SUBSET (Ids \union {0})
      BY <1>1, <2>10
    <3>5. Stocked(Rewrite(st, r, q), Held', said + 1, Limit, Calm, Owed')
      BY <1>1, <2>3, <3>1, <3>2, <3>3, <3>4, StockedRewrite
    <3> QED
      BY <2>1, <2>6, <2>8, <3>5 DEF StoreOK
  <2> QED
    BY <1>4, <2>8, <2>10, <2>12 DEF SafeOK
<1>7. CASE Head(lock) # "turn"
  <2>1. store' = st /\ turn' = turn /\ said' = said /\ exposed' = exposed
    BY <1>7 DEF Release
  <2>2. Heard(st, 0, {})
    BY <1>1, <2>1, NothingHeard
  <2>3. CountsOK' /\ Calm' = Calm /\ Limit' = Limit /\ Owed' \subseteq owed
    <3>1. ToSay(turn) \in Nat
      BY DEF ToSay
    <3>2. 0 + ToSay(turn') <= ToSay(turn)
      BY <2>1, <3>1
    <3> QED
      BY <2>2, <3>2, LockCounts
  <2>4. QueueOK(lock', turn.stage)
    BY <1>1, <1>3, <1>7, QueueWithout
  <2>5. ControlOK' /\ Held' \subseteq Held
    BY <1>1, <1>2, <1>5, <2>1, <2>4 DEF ControlOK, Held, NoJob
  <2>6. StoreOK'
    <3>1. said <= said /\ Limit <= Limit /\ Held' \subseteq Held \union {0, st.cache}
      BY <1>1, <2>5
    <3>2. Stocked(st, Held', said, Limit, Calm, Owed')
      BY <1>1, <2>3, <3>1, StockedMore
    <3> QED
      BY <2>1, <2>3, <3>2 DEF StoreOK
  <2> QED
    BY <1>4, <2>3, <2>5, <2>6 DEF SafeOK
<1> QED
  BY <1>6, <1>7

\* Another archiving is awaited, in a store that is well stocked.
LEMMA AwaitSafe ==
  ASSUME SafeOK, LockFrame, lock # <<>>, lock[1] \in {"turn", "after"},
         NEW st, NEW owed, Stocked(st, Held, said, Limit, Calm, owed),
         NEW ref \in Ids, ref \in Held \union {st.cache}, NEW kind \in {"overflow", "round"},
         NEW end \in Nat, NEW rounds \in Nat, AwaitArchive(st, ref, kind, end, rounds),
         st.objs[ref].cursor <= end, end <= Len(st.objs[ref].msgs), Owed \ archived' \subseteq owed
  PROVE  SafeOK'
<1>1. /\ CountsOK /\ ControlOK /\ JobOK /\ said \in Nat /\ Limit \in Nat
      /\ Held \in SUBSET (Ids \union {0}) /\ title \in Ids \union {0}
  BY SafeIs
<1>2. PICK o : o = st.objs[ref]
  OBVIOUS
<1> DEFINE chunk == Numbers(SubSeq(o.msgs, o.cursor + 1, end))
<1>3. /\ store' = st /\ lock' = lock /\ turn' = turn /\ said' = said /\ exposed' = exposed
      /\ job' = [kind |-> kind, ref |-> ref, end |-> end, rounds |-> rounds, keep |-> <<>>, chunk |-> chunk]
  BY <1>2 DEF AwaitArchive
<1>4. ref # 0 /\ Fits(o, said, Limit, Calm, owed) /\ o \in Record
  <2>1. ref # 0
    BY DEF Ids
  <2> QED
    BY <1>2, <2>1 DEF Stocked, Fits
<1>5. chunk \subseteq 1..said
  <2>1. o.msgs \in Seq(Messages) /\ o.cursor + 1 \in Nat \ {0} /\ end \in 0..Len(o.msgs)
    BY <1>2, <1>4, CopyIs
  <2>2. \A x \in chunk : \E i \in 1..Len(o.msgs) : o.msgs[i].n = x
    BY <2>1, PartNumbers
  <2>3. \A i \in 1..Len(o.msgs) : Limit < o.msgs[i].n /\ o.msgs[i].n <= said /\ o.msgs[i].n \in Nat
    BY <1>4, CopyIs DEF Fits
  <2>4. \A i \in 1..Len(o.msgs) : o.msgs[i].n \in 1..said
    BY <1>1, <2>3
  <2> QED
    BY <2>2, <2>4
<1> HIDE DEF chunk
<1>6. Heard(st, 0, {})
  BY <1>1, <1>3, NothingHeard
<1>7. CountsOK' /\ Calm' = Calm /\ Limit' = Limit /\ Owed' \subseteq owed
  <2>1. ToSay(turn) \in Nat
    BY DEF ToSay
  <2>2. 0 + ToSay(turn') <= ToSay(turn)
    BY <1>3, <2>1
  <2> QED
    BY <1>6, <2>2, LockCounts
<1>8. ControlOK' /\ Held' \subseteq Held \union {st.cache}
  BY <1>1, <1>3 DEF ControlOK, Held, LockFrame
<1>9. StoreOK'
  <2>1. said <= said /\ Limit <= Limit /\ Held' \subseteq Held \union {0, st.cache}
    BY <1>1, <1>8
  <2>2. Stocked(st, Held', said, Limit, Calm, Owed')
    BY <1>1, <1>7, <2>1, StockedMore
  <2> QED
    BY <1>3, <1>7, <2>2 DEF StoreOK
<1>10. JobOK'
  <2>1. job'.kind = kind /\ job'.ref = ref /\ job'.end = end /\ job'.chunk = chunk
    BY <1>3
  <2>2. <<>> \in Seq(Messages)
    OBVIOUS
  <2>3. job' \in Jobs'
    BY <1>3, <1>5, <2>2 DEF Jobs
  <2>4. o = store.objs[job.ref]' /\ o.cursor <= end /\ end <= Len(o.msgs)
    BY <1>2, <1>3, <2>1
  <2>5. Consolidates(store.objs[job.ref])'
    BY <2>1, <2>4 DEF Consolidates, chunk
  <2>6. kind # "idle"
    OBVIOUS
  <2> QED
    BY <1>3, <2>1, <2>3, <2>5, <2>6 DEF JobOK
<1> QED
  BY <1>7, <1>8, <1>9, <1>10 DEF SafeOK

LEMMA DecideSafe ==
  ASSUME SafeOK, LockFrame, lock # <<>>, lock[1] \in {"turn", "after"},
         NEW st, NEW owed, Stocked(st, Held, said, Limit, Calm, owed),
         NEW ref \in Ids, ref \in Held \union {st.cache},
         NEW rounds \in Nat, Decide(st, ref, rounds), Owed \ archived' \subseteq owed
  PROVE  SafeOK'
<1>1. CASE Release(st)
  BY <1>1, ReleaseSafe
<1>2. CASE \E b \in Boundaries(st.objs[ref]) : AwaitArchive(st, ref, "round", b, rounds + 1)
  <2>1. PICK b \in Boundaries(st.objs[ref]) : AwaitArchive(st, ref, "round", b, rounds + 1)
    BY <1>2
  <2>2. ref # 0
    BY DEF Ids
  <2>3. st.objs[ref] \in Record
    BY <2>2 DEF Stocked, Fits
  <2>4. st.objs[ref].cursor \in Nat /\ Len(st.objs[ref].msgs) \in Nat
    BY <2>3, CopyIs
  <2>5. b \in Nat /\ st.objs[ref].cursor <= b /\ b <= Len(st.objs[ref].msgs) /\ rounds + 1 \in Nat
    BY <2>4 DEF Boundaries
  <2> QED
    BY <2>1, <2>5, AwaitSafe
<1> QED
  BY <1>1, <1>2 DEF Decide

LEMMA StepConsolidateStart ==
  ASSUME SafeOK, ConsolidateStart
  PROVE  SafeOK'
<1> DEFINE st == Fetch(store)  o == st.objs[st.cache]  hidden == HiddenByWindow(Unarchived(o))
<1>1. /\ lock # <<>> /\ Head(lock) \in {"turn", "after"}
      /\ IF hidden > 0 THEN AwaitArchive(st, st.cache, "overflow", o.cursor + hidden, 0)
                       ELSE Decide(st, st.cache, 0)
      /\ title' = title /\ snapshots' = snapshots /\ archived' = archived /\ upsets' = upsets
      /\ dropped' = dropped /\ twice' = twice /\ wiped' = wiped /\ turns' = turns /\ events' = events
  BY DEF ConsolidateStart
<1>2. /\ Stocked(st, Held, said, Limit, Calm, Owed) /\ st.cache \in Ids /\ o \in Record
  BY SessionFetched
<1>3. LockFrame /\ lock[1] \in {"turn", "after"}
  <2>1. CountsOK /\ QueueOK(lock, turn.stage)
    BY SafeIs
  <2>2. lock \in Seq(Workers)
    BY <2>1, QueueIs
  <2> QED
    BY <1>1, <2>1, <2>2, TailIs DEF LockFrame, CountsOK
<1>4. Owed \ archived' \subseteq Owed
  OBVIOUS
<1>5. CASE hidden > 0
  <2>1. Unarchived(o) \in Seq(Messages) /\ Len(Unarchived(o)) = IF o.cursor <= Len(o.msgs) THEN Len(o.msgs) - o.cursor ELSE 0
    BY <1>2, UnarchivedIs
  <2>2. hidden \in 0..Len(Unarchived(o))
    BY <2>1, HiddenBounded
  <2>3. o.cursor \in Nat /\ Len(o.msgs) \in Nat
    BY <1>2, CopyIs
  <2> DEFINE a == o.cursor  b == Len(o.msgs)  m == Len(Unarchived(o))
  <2> HIDE DEF hidden, o, a, b, m
  <2>6. a + hidden \in Nat /\ a <= a + hidden /\ a + hidden <= b
    <3>1. a \in Nat /\ b \in Nat /\ m = (IF a <= b THEN b - a ELSE 0) /\ hidden \in 0..m
      BY <2>1, <2>2, <2>3 DEF a, b, m
    <3> QED
      BY <1>5, <3>1
  <2>4. o.cursor + hidden \in Nat /\ o.cursor <= o.cursor + hidden /\ o.cursor + hidden <= Len(o.msgs)
    BY <2>6 DEF a, b
  <2>5. AwaitArchive(st, st.cache, "overflow", o.cursor + hidden, 0)
    BY <1>1, <1>5 DEF hidden, o
  <2> HIDE DEF st
  <2>7. st.objs[st.cache].cursor <= o.cursor + hidden /\ o.cursor + hidden <= Len(st.objs[st.cache].msgs)
    BY <2>4 DEF o
  <2> QED
    BY <1>1, <1>2, <1>3, <1>4, <2>4, <2>5, <2>7, AwaitSafe
<1>6. CASE ~(hidden > 0)
  <2>1. Decide(st, st.cache, 0)
    BY <1>1, <1>6
  <2> HIDE DEF st
  <2> QED
    BY <1>1, <1>2, <1>3, <1>4, <2>1, DecideSafe
<1> QED
  BY <1>5, <1>6

LEMMA StepConsolidateStep ==
  ASSUME SafeOK, NEW ok \in BOOLEAN, ConsolidateStep(ok)
  PROVE  SafeOK'
<1> DEFINE r == job.ref  o == [store.objs[r] EXCEPT !.cursor = job.end]  st == Rewrite(store, r, o)
<1>1. /\ job.kind \in {"overflow", "round"} /\ Archive(job.chunk)
      /\ IF ok \/ job.kind = "overflow" THEN Decide(st, r, job.rounds) ELSE Release(st)
      /\ title' = title /\ snapshots' = snapshots /\ upsets' = upsets
      /\ dropped' = dropped /\ wiped' = wiped /\ turns' = turns /\ events' = events
  BY DEF ConsolidateStep
<1>2. /\ CountsOK /\ JobOK /\ said \in Nat /\ Limit \in Nat /\ Held \in SUBSET (Ids \union {0}) /\ store \in Stores
      /\ Stocked(store, Held, said, Limit, Calm, Owed)
  BY SafeIs
<1>3. /\ job \in Jobs /\ lock # <<>> /\ lock[1] \in {"turn", "after"}
      /\ Calm => Consolidates(store.objs[r])
  BY <1>1, <1>2 DEF JobOK, NoJob
<1>4. r \in Ids /\ r \in Held /\ r # 0 /\ job.end \in Nat /\ job.rounds \in Nat /\ job.chunk \subseteq 1..said
  BY <1>3 DEF Jobs, Held, Ids
<1>5. Fits(store.objs[r], said, Limit, Calm, Owed)
  BY <1>2, <1>4 DEF Stocked
<1> DEFINE rest == Owed \ job.chunk
<1>6. Fits(o, said, Limit, Calm, rest)
  <2>1. CASE Calm
    <3>1. PICK x : x = store.objs[r]
      OBVIOUS
    <3>2. Fits(x, said, Limit, Calm, Owed) /\ x.cursor <= job.end /\ job.end <= Len(x.msgs)
          /\ job.chunk = Numbers(SubSeq(x.msgs, x.cursor + 1, job.end))
      BY <1>3, <1>5, <2>1, <3>1 DEF Consolidates
    <3>3. PICK e, c : e = job.end /\ c = job.chunk
      OBVIOUS
    <3>4. Fits([x EXCEPT !.cursor = e], said, Limit, Calm, Owed \ c)
      BY <1>4, <3>2, <3>3, FitsArchived
    <3> QED
      BY <3>1, <3>3, <3>4
  <2>2. CASE ~Calm
    <3>1. Calm = FALSE
      BY <2>2 DEF Calm
    <3>2. Owed = {} /\ rest = {}
      BY <1>2, <2>2 DEF CountsOK
    <3>3. PICK x, e : x = store.objs[r] /\ e = job.end
      OBVIOUS
    <3>4. Fits(x, said, Limit, FALSE, Owed)
      BY <1>5, <3>1, <3>3
    <3>5. Fits([x EXCEPT !.cursor = e], said, Limit, FALSE, {})
      BY <1>4, <3>3, <3>4, FitsLoose
    <3> HIDE DEF rest
    <3> QED
      BY <3>1, <3>2, <3>3, <3>5
  <2> QED
    BY <2>1, <2>2
<1>7. archived' = archived \union job.chunk /\ twice' \subseteq twice \union archived
  BY <1>1 DEF Archive
<1>8. LockFrame /\ Owed \ archived' \subseteq rest
  BY <1>1, <1>2, <1>4, <1>7 DEF LockFrame, CountsOK
<1> HIDE DEF o, rest
<1>9. Stocked(st, Held, said, Limit, Calm, rest) /\ st.cache = r
  <2>1. said <= said /\ Limit <= Limit /\ Held \subseteq Held \union {0, store.cache, r} /\ rest \subseteq Owed
    BY <1>2 DEF rest
  <2>2. Stocked(st, Held, said, Limit, Calm, rest)
    BY <1>2, <1>4, <1>6, <2>1, StockedRewrite
  <2>3. Placed(st, store, r, o, r, o)
    BY <1>2, <1>4, <1>6, RewriteIs DEF Fits
  <2> QED
    BY <2>2, <2>3 DEF Placed
<1> HIDE DEF st
<1>10. CASE ok \/ job.kind = "overflow"
  <2>1. Decide(st, r, job.rounds)
    BY <1>1, <1>10
  <2> QED
    BY <1>3, <1>4, <1>8, <1>9, <2>1, DecideSafe
<1>11. CASE ~(ok \/ job.kind = "overflow")
  <2>1. Release(st)
    BY <1>1, <1>11
  <2> QED
    BY <1>3, <1>8, <1>9, <2>1, ReleaseSafe
<1> QED
  BY <1>10, <1>11

LEMMA FitsAlike ==
  ASSUME NEW a, NEW n, NEW low, NEW tight, NEW owed, Fits(a, n, low, tight, owed),
         NEW p \in Record, p.msgs = a.msgs, p.cursor = a.cursor
  PROVE  Fits(p, n, low, tight, owed)
<1>1. Unarchived(p) = Unarchived(a)
  BY DEF Unarchived
<1> QED
  BY <1>1 DEF Fits

LEMMA AloneIs ==
  ASSUME NEW s \in Seq(Messages)
  PROVE  Alone(s) \in Record /\ Alone(s).msgs = s /\ Alone(s).cursor = 0
BY DEF Alone, Record, Messages

\* What is behind the cursor, in place of the list.
LEMMA FitsTail ==
  ASSUME NEW o, NEW n \in Nat, NEW low \in Nat, NEW tight, NEW owed, Fits(o, n, low, tight, owed)
  PROVE  Fits(Changed(o, Unarchived(o), 0), n, low, tight, owed)
<1>1. o \in Record
  BY DEF Fits
<1>2. Unarchived(o) \in Seq(Messages) /\ 0 \in Nat
  BY <1>1, UnarchivedIs
<1>3. PICK s : s = Unarchived(o)
  OBVIOUS
<1>4. PICK p : p = Changed(o, s, 0)
  OBVIOUS
<1>5. p \in Record /\ p.msgs = s /\ p.cursor = 0
  <2>1. MadeOf(p, o, s, 0)
    BY <1>1, <1>2, <1>3, <1>4, CopyWith
  <2> QED
    BY <2>1 DEF MadeOf
<1>6. s \in Seq(Messages) /\ Len(s) \in Nat /\ 0 \in 0..Len(s)
  BY <1>2, <1>3
<1>7. From(s, 0 + 1) = s
  <2>1. SubSeq(s, 1, Len(s)) = s
    BY <1>6, SubSeqFull
  <2> QED
    BY <2>1 DEF From
<1>8. Numbers(SubSeq(s, 1, 0)) = {}
  <2>1. \A x : x \notin Numbers(SubSeq(s, 1, 0))
    <3>1. 1 \in Nat \ {0} /\ 0 \in 0..Len(s)
      BY <1>6
    <3>2. \A x : x \in Numbers(SubSeq(s, 1, 0)) <=> \E i \in 1..Len(s) : 1 <= i /\ i <= 0 /\ s[i].n = x
      BY <1>6, <3>1, PartNumbers
    <3> QED
      BY <1>6, <3>2
  <2> QED
    BY <2>1
<1>9. Fits(p, n, low, tight, owed \ Numbers(SubSeq(s, 1, 0)))
  <2>1. 0 \in 0..Len(Unarchived(o)) /\ p.msgs = From(Unarchived(o), 0 + 1)
    BY <1>3, <1>5, <1>6, <1>7
  <2>2. Fits(p, n, low, tight, owed \ Numbers(SubSeq(Unarchived(o), 1, 0)))
    BY <1>5, <2>1, FitsEnd
  <2> QED
    BY <1>3, <2>2
<1>10. owed \ Numbers(SubSeq(s, 1, 0)) = owed
  BY <1>8
<1> QED
  BY <1>3, <1>4, <1>9, <1>10

\* compact_idle_session begins with a copy of its own.
LEMMA Reloaded ==
  ASSUME SafeOK, NEW st, st = Fetch(Invalidate(store))
  PROVE  /\ Stocked(st, Held, said, Limit, Calm, Owed)
         /\ st \in Stores /\ st.cache \in Ids /\ st.cache \notin Held
         /\ Fits(st.objs[st.cache], said, Limit, Calm, Owed) /\ st.objs[st.cache] \in Record
         /\ Placed(st, store, st.cache, Loaded(store.file), st.cache, store.file)
<1>1. /\ said \in Nat /\ Limit \in Nat /\ Held \in SUBSET (Ids \union {0}) /\ store \in Stores
      /\ Stocked(store, Held, said, Limit, Calm, Owed)
  BY SafeIs
<1>2. PICK s1 : s1 = Invalidate(store)
  OBVIOUS
<1>3. s1 \in Stores /\ s1.cache = 0 /\ s1.file = store.file /\ s1.objs = store.objs
  BY <1>1, <1>2, InvalidateIs
<1>4. Stocked(s1, Held, said, Limit, Calm, Owed)
  BY <1>1, <1>2, StockedInvalidate
<1>5. Stocked(st, Held, said, Limit, Calm, Owed)
  BY <1>1, <1>2, <1>4, StockedFetch
<1>6. Fetched(st, s1)
  BY <1>2, <1>3, FetchIs
<1>7. st \in Stores /\ st.cache \in Ids /\ st.cache \notin Held
      /\ Placed(st, s1, st.cache, Loaded(s1.file), st.cache, s1.file)
  BY <1>3, <1>6 DEF Fetched
<1>8. Placed(st, store, st.cache, Loaded(store.file), st.cache, store.file)
  BY <1>3, <1>7 DEF Placed
<1>9. st.cache # 0
  BY <1>7 DEF Ids
<1>10. Fits(st.objs[st.cache], said, Limit, Calm, Owed)
  BY <1>5, <1>9 DEF Stocked
<1> QED
  BY <1>5, <1>7, <1>8, <1>10 DEF Fits

LEMMA StepIdleStart ==
  ASSUME SafeOK, IdleStart
  PROVE  SafeOK'
<1> DEFINE st == Fetch(Invalidate(store))  r == st.cache  o == st.objs[r]
           s == Unarchived(o)  cut == DropForIdle(s)
           keep == From(s, cut + 1)  chunk == Numbers(SubSeq(s, 1, cut))
           st2 == IF s = <<>> THEN Save(st, r) ELSE Rewrite(st, r, Changed(o, s, 0))
<1>1. /\ lock # <<>> /\ Head(lock) = "idle"
      /\ IF cut > 0
         THEN /\ store' = st
              /\ job' = [kind |-> "idle", ref |-> r, end |-> 0, rounds |-> 0, keep |-> keep, chunk |-> chunk]
              /\ lock' = lock /\ turn' = turn /\ said' = said /\ exposed' = exposed
         ELSE Release(st2)
      /\ upsets' = upsets \/ upsets' = upsets \union {"fork"}
      /\ title' = title /\ snapshots' = snapshots /\ archived' = archived
      /\ dropped' = dropped /\ twice' = twice /\ wiped' = wiped /\ turns' = turns /\ events' = events
  BY DEF IdleStart, Changed
<1>2. /\ Stocked(st, Held, said, Limit, Calm, Owed) /\ r \in Ids /\ o \in Record
      /\ Fits(o, said, Limit, Calm, Owed)
  BY Reloaded
<1>3. /\ CountsOK /\ ControlOK /\ JobOK /\ said \in Nat /\ Limit \in Nat /\ Held \in SUBSET (Ids \union {0})
      /\ QueueOK(lock, turn.stage) /\ title \in Ids \union {0}
  BY SafeIs
<1>4. LockFrame /\ lock[1] = "idle"
  <2>1. lock \in Seq(Workers)
    BY <1>3, QueueIs
  <2> QED
    BY <1>1, <1>3, <2>1, TailIs DEF LockFrame, CountsOK
<1> HIDE DEF st
<1>5. s \in Seq(Messages) /\ cut \in 0..Len(s) /\ Len(s) \in Nat
  <2>1. s \in Seq(Messages)
    BY <1>2, UnarchivedIs
  <2> QED
    BY <2>1, DropBounded
<1>6. CASE cut > 0
  <2>1. keep \in Seq(Messages)
    <3>1. cut + 1 \in Nat \ {0} /\ Len(s) \in 0..Len(s)
      BY <1>5
    <3> HIDE DEF s, cut
    <3>2. SubSeq(s, cut + 1, Len(s)) \in Seq(Messages)
      BY <1>5, <3>1, Part
    <3> QED
      BY <3>2 DEF From
  <2>2. chunk \subseteq Numbers(s)
    <3>1. 1 \in Nat \ {0}
      OBVIOUS
    <3> HIDE DEF s, cut
    <3>2. \A x : x \in chunk <=> \E i \in 1..Len(s) : 1 <= i /\ i <= cut /\ s[i].n = x
      BY <1>5, <3>1, PartNumbers
    <3> QED
      BY <1>5, <3>2, ListNumbers
  <2>3. chunk \subseteq 1..said
    <3>1. \A i \in 1..Len(o.msgs) : Limit < o.msgs[i].n /\ o.msgs[i].n <= said /\ o.msgs[i].n \in Nat
      BY <1>2, CopyIs DEF Fits
    <3>2. \A i \in 1..Len(o.msgs) : o.msgs[i].n \in 1..said
      BY <1>3, <3>1
    <3>3. \A x \in Numbers(s) : \E i \in 1..Len(o.msgs) : o.msgs[i].n = x
      BY <1>2, UnarchivedNumbers
    <3> QED
      BY <2>2, <3>2, <3>3
  <2>4. Fits(Alone(keep), said, Limit, Calm, Owed \ chunk)
    <3>1. Alone(keep) \in Record /\ Alone(keep).msgs = keep /\ Alone(keep).cursor = 0
      BY <2>1, AloneIs
    <3>2. PICK p, k : p = Alone(keep) /\ k = cut
      OBVIOUS
    <3>3. p \in Record /\ k \in 0..Len(Unarchived(o)) /\ p.msgs = From(Unarchived(o), k + 1) /\ p.cursor = 0
      BY <1>5, <3>1, <3>2
    <3> HIDE DEF o, cut
    <3>4. Fits(p, said, Limit, Calm, Owed \ Numbers(SubSeq(Unarchived(o), 1, k)))
      BY <1>2, <1>3, <3>3, FitsEnd
    <3> QED
      BY <3>2, <3>4
  <2> HIDE DEF keep, chunk, cut
  <2>5. Heard(st, 0, {})
    BY <1>1, <1>3, <1>6, NothingHeard
  <2>6. CountsOK' /\ Calm' = Calm /\ Limit' = Limit /\ Owed' \subseteq Owed
    <3>1. ToSay(turn) \in Nat
      BY DEF ToSay
    <3>2. 0 + ToSay(turn') <= ToSay(turn)
      BY <1>1, <1>6, <3>1
    <3> QED
      BY <1>4, <2>5, <3>2, LockCounts
  <2>7. ControlOK' /\ Held' \subseteq Held \union {st.cache}
    BY <1>1, <1>3, <1>6 DEF ControlOK, Held
  <2>8. StoreOK'
    <3>1. said <= said /\ Limit <= Limit /\ Held' \subseteq Held \union {0, st.cache}
      BY <1>3, <2>7
    <3>2. Stocked(st, Held', said, Limit, Calm, Owed')
      BY <1>2, <1>3, <2>6, <3>1, StockedMore
    <3> QED
      BY <1>1, <1>6, <2>6, <3>2 DEF StoreOK
  <2>9. JobOK'
    <3>1. job'.kind = "idle" /\ job'.chunk = chunk /\ job'.keep = keep /\ job' \in Jobs'
      BY <1>1, <1>2, <1>6, <2>1, <2>3 DEF Jobs
    <3>2. Fits(Alone(keep), said', Limit', Calm', Owed' \ chunk)
      <4>1. Owed' \ chunk \subseteq Owed \ chunk /\ said <= said /\ Limit <= Limit /\ said' = said
        BY <1>1, <1>3, <1>6, <2>6
      <4>2. Fits(Alone(keep), said, Limit, Calm, Owed' \ chunk)
        BY <1>3, <2>4, <4>1, FitsMore
      <4> QED
        BY <2>6, <4>1, <4>2
    <3> QED
      BY <1>1, <1>4, <1>6, <3>1, <3>2 DEF JobOK
  <2> QED
    BY <2>6, <2>7, <2>8, <2>9 DEF SafeOK
<1>7. CASE ~(cut > 0)
  <2>1. Release(st2)
    BY <1>1, <1>7
  <2>2. Stocked(st2, Held, said, Limit, Calm, Owed)
    <3>1. Stocked(Save(st, r), Held, said, Limit, Calm, Owed)
      BY <1>2, StockedSave
    <3>2. Fits(Changed(o, s, 0), said, Limit, Calm, Owed)
      <4> HIDE DEF o
      <4> QED
        BY <1>2, <1>3, FitsTail
    <3> DEFINE p == Changed(o, s, 0)
    <3> HIDE DEF p
    <3>3. Stocked(Rewrite(st, r, p), Held, said, Limit, Calm, Owed)
      <4>1. said <= said /\ Limit <= Limit /\ Held \subseteq Held \union {0, st.cache, r}
        BY <1>3
      <4>2. Fits(p, said, Limit, Calm, Owed)
        BY <3>2 DEF p
      <4> QED
        BY <1>2, <1>3, <4>1, <4>2, StockedRewrite
    <3> QED
      BY <3>1, <3>3 DEF p
  <2>3. Owed \ archived' \subseteq Owed
    OBVIOUS
  <2> HIDE DEF st2
  <2> QED
    BY <1>1, <1>4, <2>1, <2>2, <2>3, ReleaseSafe
<1> QED
  BY <1>6, <1>7

LEMMA StepIdleStep ==
  ASSUME SafeOK, IdleStep
  PROVE  SafeOK'
<1> DEFINE r == job.ref  o == Changed(store.objs[r], job.keep, 0)  st == Rewrite(store, r, o)
<1>1. /\ job.kind = "idle" /\ Archive(job.chunk) /\ Release(st)
      /\ title' = title /\ snapshots' = snapshots /\ upsets' = upsets
      /\ dropped' = dropped /\ wiped' = wiped /\ turns' = turns /\ events' = events
  BY DEF IdleStep, Changed
<1>2. /\ CountsOK /\ JobOK /\ said \in Nat /\ Limit \in Nat /\ Held \in SUBSET (Ids \union {0}) /\ store \in Stores
      /\ Stocked(store, Held, said, Limit, Calm, Owed)
  BY SafeIs
<1>3. /\ job \in Jobs /\ lock # <<>> /\ Fits(Alone(job.keep), said, Limit, Calm, Owed \ job.chunk)
  BY <1>1, <1>2 DEF JobOK, NoJob
<1>4. r \in Ids /\ job.keep \in Seq(Messages) /\ job.chunk \subseteq 1..said
  BY <1>3 DEF Jobs
<1> DEFINE rest == Owed \ job.chunk
<1>5. Fits(o, said, Limit, Calm, rest)
  <2>1. store.objs[r] \in Record /\ 0 \in Nat
    BY <1>2, <1>4 DEF Stores
  <2>2. MadeOf(o, store.objs[r], job.keep, 0)
    BY <1>4, <2>1, CopyWith
  <2>3. o \in Record /\ o.msgs = Alone(job.keep).msgs /\ o.cursor = Alone(job.keep).cursor
    BY <1>4, <2>2, AloneIs DEF MadeOf
  <2> HIDE DEF o, rest
  <2>4. Fits(Alone(job.keep), said, Limit, Calm, rest)
    BY <1>3 DEF rest
  <2>5. PICK a, n, low, t : a = Alone(job.keep) /\ n = said /\ low = Limit /\ t = Calm
    OBVIOUS
  <2>6. Fits(o, n, low, t, rest)
    BY <2>3, <2>4, <2>5, FitsAlike
  <2> QED
    BY <2>5, <2>6
<1>6. archived' = archived \union job.chunk /\ twice' \subseteq twice \union archived
  BY <1>1 DEF Archive
<1>7. LockFrame /\ Owed \ archived' \subseteq rest
  BY <1>1, <1>2, <1>4, <1>6 DEF LockFrame, CountsOK
<1> HIDE DEF o, rest
<1>8. Stocked(st, Held, said, Limit, Calm, rest)
  <2>1. said <= said /\ Limit <= Limit /\ Held \subseteq Held \union {0, store.cache, r} /\ rest \subseteq Owed
    BY <1>2 DEF rest
  <2> QED
    BY <1>2, <1>4, <1>5, <2>1, StockedRewrite
<1> HIDE DEF st
<1> QED
  BY <1>1, <1>3, <1>7, <1>8, ReleaseSafe

\* /new has the session as get_or_create finds it, closed first where no turn runs.
LEMMA NewStore ==
  ASSUME SafeOK, NEW st, NEW k,
         st = IF turn.stage = "none" THEN Restore(Fetch(store)) ELSE Fetch(store),
         k = IF turn.stage = "none" THEN ClosingSays(Session) ELSE 0
  PROVE  /\ k \in {0, 1} /\ st \in Stores /\ st.cache \in Ids
         /\ \A q \in Held : q # st.cache => st.objs[q] = store.objs[q]
         /\ \A extra : Heard(st, k, extra) => Stocked(st, Held, said + k, Limit, Calm, Owed \union extra)
<1>1. PICK f : f = Fetch(store)
  OBVIOUS
<1>2. /\ Stocked(f, Held, said, Limit, Calm, Owed) /\ f \in Stores /\ f.cache \in Ids
      /\ \A q \in Held : f.objs[q] = store.objs[q]
  BY <1>1, SessionFetched
<1>3. said \in Nat /\ Limit \in Nat /\ Limit <= said /\ Held \in SUBSET (Ids \union {0})
  BY SafeIs
<1>4. CASE turn.stage = "none"
  <2>1. st = Restore(f) /\ k = ClosingSays(f.objs[f.cache]) /\ k \in {0, 1}
    BY <1>1, <1>4, ClosingIs DEF Session
  <2>2. /\ st \in Stores /\ st.cache = f.cache
        /\ \A q \in Ids : q # f.cache => st.objs[q] = f.objs[q]
    BY <1>2, <1>3, <2>1, RestoreIs
  <2>3. ASSUME NEW extra, Heard(st, k, extra)
        PROVE  Stocked(st, Held, said + k, Limit, Calm, Owed \union extra)
    <3>1. f.cache \in (Held \union {st.cache}) \ {0}
      BY <1>2, <2>2 DEF Ids
    <3>2. (extra = {} \/ Held \subseteq {0, f.cache}) /\ (Calm \/ extra = {})
          /\ extra \subseteq said + 1 .. said + ClosingSays(f.objs[f.cache])
      BY <2>1, <2>3, <3>1, HeardIs
    <3>3. Stocked(Restore(f), Held, said + ClosingSays(f.objs[f.cache]), Limit, Calm, Owed \union extra)
      BY <1>2, <1>3, <3>2, StockedRestore
    <3> QED
      BY <2>1, <3>3
  <2>4. \A q \in Held : q # st.cache => st.objs[q] = store.objs[q]
    <3>1. 0 \notin Held
      BY DEF Held
    <3> QED
      BY <1>2, <1>3, <2>2, <3>1
  <2>5. st.cache \in Ids
    BY <1>2, <2>2
  <2> QED
    BY <2>1, <2>2, <2>3, <2>4, <2>5
<1>5. CASE turn.stage # "none"
  <2>1. st = f /\ k = 0
    BY <1>1, <1>5
  <2>2. ASSUME NEW extra, Heard(st, k, extra)
        PROVE  Stocked(st, Held, said + k, Limit, Calm, Owed \union extra)
    <3>1. said + k = said /\ extra = {}
      BY <1>3, <2>1, <2>2, HeardIs
    <3>2. Owed \union extra = Owed
      BY <3>1
    <3> QED
      BY <1>2, <2>1, <3>1, <3>2
  <2> QED
    BY <1>2, <2>1, <2>2
<1> QED
  BY <1>4, <1>5

LEMMA StepNew ==
  ASSUME SafeOK, New
  PROVE  SafeOK'
<1>0. PICK st, k : /\ st = IF turn.stage = "none" THEN Restore(Fetch(store)) ELSE Fetch(store)
                   /\ k = IF turn.stage = "none" THEN ClosingSays(Session) ELSE 0
  OBVIOUS
<1> DEFINE r == st.cache  o == st.objs[r]  p == [o EXCEPT !.msgs = <<>>, !.cursor = 0]
           s2 == Rewrite(st, r, p)  snapshot == Numbers(Unarchived(o))
<1>1. /\ events < MaxSessionEvents /\ Cancelled /\ store' = Invalidate(s2)
      /\ snapshots' = IF snapshot = {} THEN snapshots ELSE snapshots \union {snapshot}
      /\ upsets' = upsets \union ({job'.kind} \ {"none"}) \union OtherCopy(st)
      /\ Spoken(st, k) /\ wiped' = said' /\ events' = events + 1
      /\ title' = title /\ archived' = archived /\ dropped' = dropped /\ twice' = twice /\ turns' = turns
  BY <1>0 DEF New
<1>2. /\ k \in {0, 1} /\ st \in Stores /\ r \in Ids
      /\ \A q \in Held : q # r => st.objs[q] = store.objs[q]
      /\ \A extra : Heard(st, k, extra) => Stocked(st, Held, said + k, Limit, Calm, Owed \union extra)
  BY <1>0, NewStore
<1>3. /\ CountsOK /\ ControlOK /\ JobOK /\ said \in Nat /\ Limit \in Nat /\ Limit <= said
      /\ Held \in SUBSET (Ids \union {0}) /\ store \in Stores /\ title \in Ids \union {0}
  BY SafeIs
<1>4. /\ turn' = NoTurn /\ QueueOK(lock', "none") /\ TurnOK(turn') /\ ToSay(turn') = 0
      /\ job' = NoJob \/ (job' = job /\ (lock # <<>> => lock' # <<>> /\ lock'[1] = lock[1]))
  BY <1>1, CancelledIs
<1>5. PICK extra : Heard(st, k, extra)
  BY <1>1, <1>2, <1>3, SpokenIs
<1>6. Stocked(st, Held, said + k, Limit, Calm, Owed \union extra)
  BY <1>2, <1>5
<1>7. said' = said + k /\ said + k \in Nat /\ said <= said + k /\ 1..said \subseteq 1..said + k
  BY <1>2, <1>3, <1>5, HeardIs
<1>8. r # 0 /\ Fits(o, said + k, Limit, Calm, Owed \union extra) /\ o \in Record
  <2>1. r # 0
    BY <1>2 DEF Ids
  <2> QED
    BY <1>6, <2>1 DEF Stocked, Fits
<1> HIDE DEF o, p, s2, snapshot
\* Everything that the model saw is in the snapshot.
<1>9. Owed' = {}
  <2>1. Owed \union extra \subseteq snapshot
    BY <1>8 DEF Fits, snapshot
  <2>2. Handed
    BY <1>1 DEF Handed
  <2>3. Owed' \subseteq (Owed \union extra) \ (archived' \union UNION snapshots')
    BY <1>1, <1>5, <2>2, OwedMore
  <2>4. snapshot \subseteq UNION snapshots'
    BY <1>1
  <2> QED
    BY <2>1, <2>3, <2>4
<1>10. snapshot \subseteq 1..said + k
  <2>1. \A i \in 1..Len(o.msgs) : Limit < o.msgs[i].n /\ o.msgs[i].n <= said + k /\ o.msgs[i].n \in Nat
    BY <1>8, CopyIs DEF Fits
  <2>2. \A i \in 1..Len(o.msgs) : o.msgs[i].n \in 1..said + k
    BY <1>3, <1>7, <2>1
  <2>3. \A x \in snapshot : \E i \in 1..Len(o.msgs) : o.msgs[i].n = x
    BY <1>8, UnarchivedNumbers DEF snapshot
  <2> QED
    BY <2>2, <2>3
<1>11. job'.kind \in {"none", "overflow", "round", "idle"} /\ OtherCopy(st) \subseteq {"copy"}
  BY <1>3, <1>4 DEF NoJob, JobOK, Jobs, OtherCopy
<1>12. CountsOK'
  <2>1. Handed /\ archived \subseteq archived' /\ dropped \subseteq dropped'
    BY <1>1 DEF Handed
  <2>2. said' + ToSay(turn') <= 3 * turns' + events' /\ events' \in 0..MaxSessionEvents
    <3>1. ToSay(turn) \in Nat
      BY DEF ToSay
    <3>2. said + ToSay(turn) <= 3 * turns + events /\ turns \in Nat /\ events \in Nat /\ MaxSessionEvents \in Nat
      BY <1>3, CompactionAssumption DEF CountsOK
    <3> QED
      BY <1>1, <1>2, <1>3, <1>4, <1>7, <3>1, <3>2
  <2>3. wiped' \in 0..said'
    BY <1>1, <1>7
  <2>4. /\ archived' \subseteq 1..said' /\ dropped' \subseteq 1..said' /\ twice' \subseteq 1..said'
        /\ snapshots' \subseteq SUBSET (1..said') /\ turns' \in 0..MaxTurns
    BY <1>1, <1>3, <1>7, <1>10 DEF CountsOK
  <2>5. upsets' \subseteq {"overflow", "round", "idle", "copy", "fork", "crash"}
    BY <1>1, <1>3, <1>11 DEF CountsOK
  <2> QED
    BY <1>3, <1>5, <1>9, <2>1, <2>2, <2>3, <2>4, <2>5, CountsStep
<1>13. ControlOK'
  BY <1>1, <1>3, <1>4 DEF ControlOK, NoTurn
<1>14. Held' = {job'.ref, title} \ {0} /\ Held' \subseteq Held
  BY <1>1, <1>4 DEF Held, NoTurn, NoJob
<1>15. (Calm' => Calm) /\ Limit' \in Nat /\ (Limit' = said + k \/ Limit' <= Limit)
  BY <1>1, <1>3, <1>7 DEF Calm, Limit
<1>16. Limit' = said + k \/ Limit' = 0
  BY <1>1, <1>7 DEF Limit
<1>17. Fits(p, said + k, Limit', Calm', {})
  BY <1>8, FitsEmpty DEF p
<1>18. /\ s2 \in Stores /\ s2.file = p /\ s2.objs[r] = p
       /\ \A q \in Ids : q # r => s2.objs[q] = st.objs[q]
  BY <1>2, <1>17, RewriteIs DEF Fits, Placed, s2
<1>19. store' \in Stores /\ store'.cache = 0 /\ store'.file = p /\ store'.objs = s2.objs
  BY <1>1, <1>18, InvalidateIs
<1>20. ASSUME NEW q \in Held' PROVE Fits(store'.objs[q], said + k, Limit', Calm', {})
  <2>1. CASE q = r
    BY <1>17, <1>18, <1>19, <2>1
  <2>2. CASE q # r
    <3>1. q \in Ids /\ q \in Held /\ q # 0
      BY <1>3, <1>14, <1>20
    <3>2. PICK x : x = st.objs[q]
      OBVIOUS
    <3>3. store'.objs[q] = x
      BY <1>18, <1>19, <2>2, <3>1, <3>2
    <3>4. Fits(x, said + k, Limit, Calm, Owed \union extra)
      BY <1>6, <3>1, <3>2 DEF Stocked
    <3>5. CASE Limit' <= Limit
      <4>1. said + k <= said + k /\ {} \subseteq Owed \union extra
        BY <1>7
      <4> QED
        BY <1>3, <1>7, <1>15, <3>3, <3>4, <3>5, <4>1, FitsMore
    <3>6. CASE Limit' = said + k /\ ~(Limit' <= Limit)
      <4>1. upsets' \intersect {"idle", "copy"} = {}
        BY <1>3, <1>7, <3>6 DEF Limit
      <4>2. OtherCopy(st) = {}
        BY <1>1, <1>11, <4>1
      <4>3. x.msgs = <<>>
        BY <1>14, <1>20, <2>2, <3>1, <3>2, <4>2 DEF OtherCopy
      <4>4. x \in Record /\ (Calm => x.cursor <= Len(x.msgs))
        BY <3>4 DEF Fits
      <4>5. Fits(x, said + k, Limit', Calm', {})
        BY <1>15, <4>3, <4>4 DEF Fits, Ordered
      <4> QED
        BY <3>3, <4>5
    <3> QED
      BY <1>15, <3>5, <3>6
  <2> QED
    BY <2>1, <2>2
<1>21. StoreOK'
  <2>1. \A q \in (Held' \union {store'.cache}) \ {0} : Fits(store'.objs[q], said', Limit', Calm', Owed')
    BY <1>7, <1>9, <1>19, <1>20
  <2>2. Fits(store'.file, said', Limit', Calm', Owed')
    BY <1>7, <1>9, <1>17, <1>19
  <2> QED
    BY <1>19, <2>1, <2>2 DEF StoreOK, Stocked
<1>22. JobOK'
  <2>1. CASE job' = NoJob
    BY <2>1 DEF JobOK
  <2>2. CASE job' # NoJob
    <3>1. job' = job /\ job # NoJob /\ lock # <<>> /\ lock' # <<>> /\ lock'[1] = lock[1]
      BY <1>4, <2>2, JobAt
    <3>2. job \in Jobs /\ job \in Jobs'
      <4>1. job \in Jobs
        BY <3>1, JobAt
      <4> QED
        BY <1>7, <4>1 DEF Jobs
    <3>3. CASE job.kind # "idle"
      <4>1. lock[1] \in {"turn", "after"}
        BY <1>3, <3>1, <3>3 DEF JobOK
      <4>2. ~Calm'
        <5>1. job'.kind \in {"overflow", "round"}
          BY <3>1, <3>2, <3>3 DEF Jobs
        <5> QED
          BY <1>1, <5>1 DEF Calm
      <4> QED
        BY <3>1, <3>2, <3>3, <4>1, <4>2 DEF JobOK
    <3>4. CASE job.kind = "idle"
      <4>1. lock[1] = "idle" /\ Fits(Alone(job.keep), said, Limit, Calm, Owed \ job.chunk)
        BY <1>3, <3>1, <3>4 DEF JobOK
      <4>2. Limit' = 0
        BY <1>1, <3>1, <3>4 DEF Limit
      <4>3. Fits(Alone(job.keep), said + k, Limit', Calm', {})
        <5>1. Limit' <= Limit /\ {} \subseteq Owed \ job.chunk
          BY <1>3, <4>2
        <5> QED
          BY <1>3, <1>7, <1>15, <4>1, <5>1, FitsMore
      <4>4. Owed' \ job.chunk = {}
        BY <1>9
      <4>5. Fits(Alone(job.keep), said', Limit', Calm', Owed' \ job.chunk)
        BY <1>7, <4>3, <4>4
      <4> QED
        BY <3>1, <3>2, <3>4, <4>1, <4>5 DEF JobOK
    <3> QED
      BY <3>3, <3>4
  <2> QED
    BY <2>1, <2>2
<1> QED
  BY <1>12, <1>13, <1>21, <1>22 DEF SafeOK

LEMMA StepSessionStutter ==
  ASSUME SafeOK, UNCHANGED sessionVars
  PROVE  SafeOK'
<1>1. /\ store' = store /\ lock' = lock /\ job' = job /\ turn' = turn /\ title' = title
      /\ snapshots' = snapshots /\ archived' = archived /\ said' = said /\ exposed' = exposed
      /\ upsets' = upsets /\ dropped' = dropped /\ twice' = twice /\ wiped' = wiped
      /\ turns' = turns /\ events' = events
  BY DEF sessionVars
<1>2. Owed' = Owed /\ Calm' = Calm /\ Limit' = Limit /\ Held' = Held
  BY <1>1 DEF Owed, Calm, Limit, Held
<1>3. CountsOK' /\ ControlOK' /\ StoreOK'
  BY <1>1, <1>2 DEF SafeOK, CountsOK, ControlOK, StoreOK
<1>4. JobOK'
  BY <1>1, <1>2 DEF SafeOK, JobOK, Jobs, Consolidates
<1> QED
  BY <1>3, <1>4 DEF SafeOK

LEMMA SafeStart ==
  ASSUME CompactionInit
  PROVE  SafeOK
<1>1. /\ store = [objs |-> [i \in Ids |-> Empty], cache |-> 0, file |-> Empty]
      /\ lock = <<>> /\ job = NoJob /\ turn = NoTurn /\ title = 0
      /\ snapshots = {} /\ archived = {} /\ said = 0
      /\ exposed = {} /\ upsets = {} /\ dropped = {} /\ twice = {} /\ wiped = 0
      /\ turns = 0 /\ events = 0
  BY DEF CompactionInit
<1>2. Owed = {} /\ Calm /\ Held = {}
  BY <1>1 DEF Owed, Calm, Held, NoTurn, NoJob
<1>3. CountsOK
  <2>1. ToSay(turn) = 0 /\ MaxTurns \in Nat /\ MaxSessionEvents \in Nat
    BY <1>1, CompactionAssumption DEF ToSay, NoTurn
  <2> QED
    BY <1>1, <1>2, <2>1 DEF CountsOK
<1>4. ControlOK
  BY <1>1 DEF ControlOK, QueueOK, TurnOK, NoTurn
<1>5. JobOK
  BY <1>1 DEF JobOK
<1>6. StoreOK
  <2>1. Empty \in Record
    BY DEF Empty, Record
  <2>2. store \in Stores
    BY <1>1, <2>1 DEF Stores
  <2>3. Fits(Empty, said, Limit, Calm, {})
    BY EmptyFits
  <2> QED
    BY <1>1, <1>2, <2>2, <2>3 DEF StoreOK, Stocked
<1> QED
  BY <1>3, <1>4, <1>5, <1>6 DEF SafeOK

LEMMA SafeStep == SafeOK /\ [CompactionNext]_sessionVars => SafeOK'
<1> SUFFICES ASSUME SafeOK, [CompactionNext]_sessionVars PROVE SafeOK'
  OBVIOUS
<1>1. CASE \E kind \in {"bus", "direct"} : Begin(kind)
  BY <1>1, StepBegin
<1>2. CASE Command
  BY <1>2, StepCommand
<1>3. CASE Checkpoint
  BY <1>3, StepCheckpoint
<1>4. CASE FinishTurn
  BY <1>4, StepFinishTurn
<1>5. CASE StopTurn
  BY <1>5, StepStopTurn
<1>6. CASE ConsolidateStart
  BY <1>6, StepConsolidateStart
<1>7. CASE \E ok \in BOOLEAN : ConsolidateStep(ok)
  BY <1>7, StepConsolidateStep
<1>8. CASE CheckExpired
  BY <1>8, StepCheckExpired
<1>9. CASE IdleStart
  BY <1>9, StepIdleStart
<1>10. CASE IdleStep
  BY <1>10, StepIdleStep
<1>11. CASE Deliver
  BY <1>11, StepDeliver
<1>12. CASE New
  BY <1>12, StepNew
<1>13. CASE \E ns \in snapshots : ArchiveSnapshot(ns)
  BY <1>13, StepArchiveSnapshot
<1>14. CASE Titled
  BY <1>14, StepTitled
<1>15. CASE Crash
  BY <1>15, StepSessionCrash
<1>16. CASE UNCHANGED sessionVars
  BY <1>16, StepSessionStutter
<1> QED
  BY <1>1, <1>2, <1>3, <1>4, <1>5, <1>6, <1>7, <1>8, <1>9, <1>10, <1>11, <1>12, <1>13, <1>14, <1>15, <1>16
     DEF CompactionNext

LEMMA CopiesSafe == CompactionSpec => []SafeOK
BY SafeStart, SafeStep, PTL DEF CompactionSpec

\* Nothing that was said is lost while there is one copy: what is not archived, given
\* up or exposed is behind the cursor of the session.
THEOREM MessagesKept == CompactionSpec => []NothingLost
<1>1. SafeOK => NothingLost
  <2> SUFFICES ASSUME SafeOK PROVE NothingLost
    OBVIOUS
  <2>1. Owed \subseteq Numbers(Unarchived(Session))
    <3>1. Fits(Fetch(store).objs[Fetch(store).cache], said, Limit, Calm, Owed)
      BY SessionFetched
    <3> QED
      BY <3>1 DEF Fits, Session
  <2> QED
    BY <2>1 DEF Owed, NothingLost
<1> QED
  BY <1>1, CopiesSafe, PTL

\* After /new the session shows nothing that was said before it, unless another copy
\* or a compaction of the idle session held it.
THEOREM NewIsNew == CompactionSpec => []FreshAfterNew
<1>1. SafeOK => FreshAfterNew
  <2> SUFFICES ASSUME SafeOK, upsets \intersect {"idle", "copy"} = {},
                      NEW x \in Numbers(Unarchived(Session))
               PROVE  x > wiped
    BY DEF FreshAfterNew
  <2>1. PICK o : o = Session
    OBVIOUS
  <2>2. Fits(o, said, Limit, Calm, Owed) /\ o \in Record
    BY <2>1, SessionFetched DEF Session
  <2>3. PICK i \in 1..Len(o.msgs) : o.msgs[i].n = x
    BY <2>1, <2>2, UnarchivedNumbers
  <2>4. Limit < x /\ Limit = wiped
    BY <2>2, <2>3 DEF Fits, Limit
  <2>5. x \in Nat /\ wiped \in Nat
    BY <2>2, <2>3, <2>4, CopyIs, SafeIs
  <2> QED
    BY <2>4, <2>5
<1> QED
  BY <1>1, CopiesSafe, PTL

\* The copies, the lock, the archiving and the history variables are well formed.
LEMMA SafeTyped ==
  ASSUME SafeOK
  PROVE  TypeOK
<1>1. CountsOK /\ ControlOK /\ JobOK /\ store \in Stores
  BY SafeIs
<1>2. store.objs \in [Ids -> Record] /\ store.cache \in Ids \union {0} /\ store.file \in Record
  BY <1>1, StoreIs
<1>3. \A i \in DOMAIN lock : lock[i] \in Workers /\ \A j \in DOMAIN lock : lock[i] = lock[j] => i = j
  BY <1>1, QueueIs DEF ControlOK
<1>4. job.kind \in {"none", "overflow", "round", "idle"} /\ (job # NoJob => lock # <<>>)
  BY <1>1 DEF JobOK, Jobs, NoJob
<1>5. turn \in [stage : {"none", "wait", "run"}, kind : {"bus", "direct"}, ref : Ids \union {0}] /\ title \in Ids \union {0}
  BY <1>1 DEF ControlOK, TurnOK
<1>6. said \in 0..3 * MaxTurns + MaxSessionEvents
  <2>1. /\ said \in Nat /\ turns \in 0..MaxTurns /\ events \in 0..MaxSessionEvents
        /\ said + ToSay(turn) <= 3 * turns + events
    BY <1>1 DEF CountsOK
  <2>2. MaxTurns \in Nat /\ MaxSessionEvents \in Nat /\ ToSay(turn) \in Nat
    BY CompactionAssumption DEF ToSay
  <2> QED
    BY <2>1, <2>2
<1>7. /\ {archived, exposed, dropped, twice} \subseteq SUBSET (1..said)
      /\ snapshots \subseteq SUBSET (1..said)
      /\ upsets \subseteq {"overflow", "round", "idle", "copy", "fork", "crash"} /\ wiped \in 0..said
      /\ turns \in 0..MaxTurns /\ events \in 0..MaxSessionEvents
  BY <1>1 DEF CountsOK
<1> QED
  BY <1>2, <1>3, <1>4, <1>5, <1>6, <1>7 DEF TypeOK

\* While no history was cleared under a consolidation, the cursors are in range.
LEMMA SafeInRange ==
  ASSUME SafeOK
  PROVE  CursorInRange
<1>1. \A r \in (Held \union {store.cache}) \ {0} : Fits(store.objs[r], said, Limit, Calm, Owed)
  BY DEF SafeOK, StoreOK, Stocked
<1> QED
  BY <1>1 DEF CursorInRange, Fits, Calm

-----------------------------------------------------------------------------
(* No message is in two places. *)

\* What o2 has is what o has, or fresh.
PartOf(o2, o, fresh) ==
  /\ Numbers(o2.msgs) \subseteq Numbers(o.msgs) \union fresh
  /\ Numbers(Unarchived(o2)) \subseteq Numbers(Unarchived(o)) \union fresh

\* The numbers of the copies of a store are at most n.
Known(st, held, n) == \A r \in (held \union {st.cache}) \ {0} : Numbers(st.objs[r].msgs) \subseteq 1..n

LEMMA OpenIn ==
  ASSUME NEW o \in Record
  PROVE  Numbers(Unarchived(o)) \subseteq Numbers(o.msgs)
BY UnarchivedNumbers, ListNumbers, CopyIs

LEMMA FitsKnown ==
  ASSUME NEW o, NEW n \in Nat, NEW low \in Nat, NEW tight, NEW owed, Fits(o, n, low, tight, owed)
  PROVE  Numbers(o.msgs) \subseteq 1..n /\ o \in Record
<1>1. o \in Record /\ \A i \in 1..Len(o.msgs) : low < o.msgs[i].n /\ o.msgs[i].n <= n
  BY DEF Fits
<1>2. \A i \in 1..Len(o.msgs) : o.msgs[i].n \in 1..n
  BY <1>1, CopyIs
<1> QED
  BY <1>1, <1>2, ListNumbers, CopyIs

LEMMA StockedKnown ==
  ASSUME NEW st, NEW held, NEW n \in Nat, NEW low \in Nat, NEW tight, NEW owed,
         Stocked(st, held, n, low, tight, owed)
  PROVE  /\ Known(st, held, n) /\ \A r \in (held \union {st.cache}) \ {0} : st.objs[r] \in Record
BY FitsKnown DEF Stocked, Known

LEMMA PartOfSelf == ASSUME NEW o, NEW fresh PROVE PartOf(o, o, fresh)
BY DEF PartOf

LEMMA PartOfAlike ==
  ASSUME NEW o, NEW o2, NEW o3, NEW fresh, PartOf(o2, o, fresh), o3.msgs = o2.msgs, o3.cursor = o2.cursor
  PROVE  PartOf(o3, o, fresh)
BY DEF PartOf, Unarchived

LEMMA PartOfTwice ==
  ASSUME NEW o, NEW o2, NEW o3, NEW f, NEW f2, PartOf(o2, o, f), PartOf(o3, o2, f2)
  PROVE  PartOf(o3, o, f \union f2)
BY DEF PartOf

LEMMA PartOfMore ==
  ASSUME NEW o, NEW o2, NEW f, NEW f2, PartOf(o2, o, f), f \subseteq f2
  PROVE  PartOf(o2, o, f2)
BY DEF PartOf

LEMMA PartOfSay ==
  ASSUME NEW o \in Record, NEW n \in Nat, NEW kinds \in Sayings
  PROVE  PartOf(Say(o, n, kinds), o, n + 1 .. n + Len(kinds))
<1> DEFINE p == Say(o, n, kinds)  a == Len(o.msgs)  k == Len(kinds)
<1>1. /\ p \in Record /\ p.cursor = o.cursor /\ Len(p.msgs) = a + k
      /\ \A i \in 1..a : p.msgs[i] = o.msgs[i]
      /\ \A i \in 1..a + k : i > a => p.msgs[i].n = n + (i - a)
  BY SayIs
<1>2. a \in Nat /\ k \in Nat
  BY CopyIs DEF Sayings
<1> HIDE DEF p, a, k
<1>3. \A i \in 1..a + k : i <= a => i \in 1..a
  BY <1>2
<1>4. \A i \in 1..a + k : i > a => n + (i - a) \in n + 1 .. n + k
  BY <1>2
<1>5. \A i \in 1..a + k : i <= a \/ i > a
  BY <1>2
<1>6. \A x : x \in Numbers(p.msgs) <=> \E i \in 1..a + k : p.msgs[i].n = x
  BY <1>1, ListNumbers, CopyIs
<1>7. \A x : x \in Numbers(o.msgs) <=> \E i \in 1..a : o.msgs[i].n = x
  BY ListNumbers, CopyIs DEF a
<1>8. \A x : x \in Numbers(Unarchived(p)) <=> \E i \in 1..a + k : o.cursor < i /\ p.msgs[i].n = x
  BY <1>1, UnarchivedNumbers
<1>9. \A x : x \in Numbers(Unarchived(o)) <=> \E i \in 1..a : o.cursor < i /\ o.msgs[i].n = x
  BY UnarchivedNumbers DEF a
<1>10. Numbers(p.msgs) \subseteq Numbers(o.msgs) \union (n + 1 .. n + k)
  BY <1>1, <1>3, <1>4, <1>5, <1>6, <1>7
<1>11. Numbers(Unarchived(p)) \subseteq Numbers(Unarchived(o)) \union (n + 1 .. n + k)
  BY <1>1, <1>3, <1>4, <1>5, <1>8, <1>9
<1> QED
  BY <1>10, <1>11 DEF PartOf, p, k

\* A longer copy has yet to archive what the shorter one has.
LEMMA ExtendsOpen ==
  ASSUME NEW o \in Record, NEW o2, Extends(o2, o)
  PROVE  Numbers(Unarchived(o)) \subseteq Numbers(Unarchived(o2))
<1>1. /\ o2 \in Record /\ o2.cursor = o.cursor /\ Len(o.msgs) \in Nat /\ Len(o2.msgs) \in Nat
      /\ Len(o.msgs) <= Len(o2.msgs) /\ \A i \in 1..Len(o.msgs) : o2.msgs[i] = o.msgs[i]
  BY CopyIs DEF Extends
<1>2. \A i \in 1..Len(o.msgs) : i \in 1..Len(o2.msgs)
  BY <1>1
<1> QED
  BY <1>1, <1>2, UnarchivedNumbers

LEMMA ExtendsAlike ==
  ASSUME NEW o, NEW o2, NEW o3 \in Record, Extends(o2, o), o3.msgs = o2.msgs, o3.cursor = o2.cursor
  PROVE  Extends(o3, o)
BY DEF Extends

\* What is fresh is in no copy; what is gone came from this copy, and it has none of it left.
Unheard(st, held, fresh) == \A q \in (held \union {st.cache}) \ {0} : Numbers(st.objs[q].msgs) \intersect fresh = {}
Given(gone2, gone, x, fresh, o) ==
  /\ gone2 \subseteq gone \union Numbers(x.msgs) \union fresh
  /\ Numbers(Unarchived(o)) \intersect gone2 = {}

\* One copy of a single store is written to the file, with what it had and what is fresh.
LEMMA SingleRewrite ==
  ASSUME NEW st \in Stores, NEW held \in SUBSET (Ids \union {0}), NEW gone, Single(st, held, gone),
         NEW r \in Ids, r \in held \union {st.cache},
         NEW st2, NEW o, NEW f, Placed(st2, st, r, o, r, f), f.msgs = o.msgs, f.cursor = o.cursor,
         NEW fresh, PartOf(o, st.objs[r], fresh), Unheard(st, held, fresh),
         NEW held2, held2 \subseteq held \union {0, st.cache},
         NEW gone2, Given(gone2, gone, st.objs[r], fresh, o)
  PROVE  Single(st2, held2, gone2)
<1> DEFINE C == (held \union {st.cache}) \ {0}  C2 == (held2 \union {st2.cache}) \ {0}
<1>1. /\ st2 \in Stores /\ st2.cache = r /\ st2.file = f /\ st2.objs[r] = o
      /\ \A q \in Ids : q # r => st2.objs[q] = st.objs[q]
  BY DEF Placed
<1>2. C2 \subseteq C /\ C \subseteq Ids /\ r \in C /\ r # 0
  <2>1. r # 0 /\ st.cache \in Ids \union {0}
    BY DEF Ids, Stores
  <2> QED
    BY <1>1, <2>1
<1>3. /\ \A q \in C : Numbers(Unarchived(st.objs[q])) \intersect gone = {}
      /\ \A q1, q2 \in C : q1 # q2 => Numbers(st.objs[q1].msgs) \intersect Numbers(st.objs[q2].msgs) = {}
      /\ \A q \in C : Numbers(st.objs[q].msgs) \intersect fresh = {}
      /\ \A q \in C : st.objs[q] \in Record
  BY <1>2 DEF Single, Stores, Unheard
<1>4. \A q \in C : Numbers(Unarchived(st.objs[q])) \subseteq Numbers(st.objs[q].msgs)
  BY <1>3, OpenIn
<1> HIDE DEF C, C2
<1>9. /\ gone2 \subseteq gone \union Numbers(st.objs[r].msgs) \union fresh
      /\ Numbers(Unarchived(o)) \intersect gone2 = {}
  BY DEF Given
<1>5. \A q \in C2 : Numbers(Unarchived(st2.objs[q])) \intersect gone2 = {}
  <2> SUFFICES ASSUME NEW q \in C2, q # r PROVE Numbers(Unarchived(st2.objs[q])) \intersect gone2 = {}
    BY <1>1, <1>9
  <2>1. q \in C /\ st2.objs[q] = st.objs[q]
    BY <1>1, <1>2
  <2> QED
    BY <1>2, <1>3, <1>4, <1>9, <2>1
<1>6. Numbers(o.msgs) \subseteq Numbers(st.objs[r].msgs) \union fresh
  BY DEF PartOf
<1>7. \A q \in C : q # r => Numbers(o.msgs) \intersect Numbers(st.objs[q].msgs) = {}
  BY <1>2, <1>3, <1>6
<1>8. \A q1, q2 \in C2 : q1 # q2 => Numbers(st2.objs[q1].msgs) \intersect Numbers(st2.objs[q2].msgs) = {}
  <2> SUFFICES ASSUME NEW q1 \in C2, NEW q2 \in C2, q1 # q2
               PROVE  Numbers(st2.objs[q1].msgs) \intersect Numbers(st2.objs[q2].msgs) = {}
    OBVIOUS
  <2>0. q1 \in C /\ q2 \in C /\ (q1 # r => st2.objs[q1] = st.objs[q1]) /\ (q2 # r => st2.objs[q2] = st.objs[q2])
    BY <1>1, <1>2
  <2>1. CASE q1 # r /\ q2 # r
    BY <1>3, <2>0, <2>1
  <2>2. CASE q1 = r
    BY <1>1, <1>7, <2>0, <2>2
  <2>3. CASE q2 = r
    BY <1>1, <1>7, <2>0, <2>3
  <2> QED
    BY <2>1, <2>2, <2>3
<1> QED
  BY <1>1, <1>5, <1>8 DEF Single, C2

\* Fewer copies are held, or a copy becomes the cached one and the file.
LEMMA SingleHeld ==
  ASSUME NEW st, NEW held, NEW gone, Single(st, held, gone), NEW held2, held2 \subseteq held \union {0, st.cache},
         NEW gone2, gone2 \subseteq gone
  PROVE  Single(st, held2, gone2)
BY DEF Single

LEMMA SingleSave ==
  ASSUME NEW st \in Stores, NEW held \in SUBSET (Ids \union {0}), NEW gone, Single(st, held, gone),
         NEW r \in Ids, r \in held
  PROVE  Single(Save(st, r), held, gone) /\ Save(st, r).cache = r /\ Save(st, r).objs = st.objs
<1>1. Save(st, r).cache = r /\ Save(st, r).file = st.objs[r] /\ Save(st, r).objs = st.objs
  BY SaveIs
<1>2. (held \union {r}) \ {0} \subseteq (held \union {st.cache}) \ {0}
  OBVIOUS
<1> QED
  BY <1>1, <1>2 DEF Single

\* New words are in no copy and in no archive.
LEMMA FreshApart ==
  ASSUME NEW n \in Nat, NEW k \in Nat, NEW T, T \subseteq 1..n
  PROVE  T \intersect (n + 1 .. n + k) = {}
OBVIOUS

\* One copy of a single store says k words more.
LEMMA SingleSays ==
  ASSUME NEW st \in Stores, NEW held \in SUBSET (Ids \union {0}), NEW gone, Single(st, held, gone),
         NEW n \in Nat, NEW k \in Nat, Known(st, held, n), gone \subseteq 1..n,
         NEW r \in Ids, r \in held \union {st.cache},
         NEW st2, NEW o, NEW f, Placed(st2, st, r, o, r, f), f.msgs = o.msgs, f.cursor = o.cursor,
         PartOf(o, st.objs[r], n + 1 .. n + k),
         NEW held2, held2 \subseteq held \union {0, st.cache}
  PROVE  Single(st2, held2, gone)
<1>1. PICK fresh : fresh = n + 1 .. n + k
  OBVIOUS
<1>2. r # 0
  BY DEF Ids
<1>3. Unheard(st, held, fresh)
  BY <1>1, FreshApart DEF Known, Unheard
<1>4. gone \intersect fresh = {}
  BY <1>1, FreshApart
<1>5. Numbers(Unarchived(o)) \intersect gone = {}
  <2>1. Numbers(Unarchived(st.objs[r])) \intersect gone = {}
    BY <1>2 DEF Single
  <2> QED
    BY <1>1, <1>4, <2>1 DEF PartOf
<1>6. PartOf(o, st.objs[r], fresh) /\ Given(gone, gone, st.objs[r], fresh, o)
  BY <1>1, <1>5 DEF Given
<1> QED
  BY <1>3, <1>6, SingleRewrite

LEMMA SortedIs ==
  ASSUME SafeOK, Sorted, upsets = {}
  PROVE  /\ Single(store, Held, Gone) /\ Known(store, Held, said) /\ Gone \subseteq 1..said /\ Calm
         /\ archived \subseteq Gone /\ \A a \in snapshots : a \subseteq Gone
         /\ \A r \in (Held \union {store.cache}) \ {0} : store.objs[r] \in Record
         /\ store.file.cursor <= Len(store.file.msgs)
<1>1. CountsOK /\ said \in Nat /\ Limit \in Nat /\ Stocked(store, Held, said, Limit, Calm, Owed)
  BY SafeIs
<1>2. Calm
  BY DEF Calm
<1> QED
  BY <1>1, <1>2, StockedKnown DEF Sorted, Gone, CountsOK, Stocked, Fits

\* The session as get_or_create finds it: a session that is not cached is new.
LEMMA SortedFetched ==
  ASSUME SafeOK, Sorted, upsets = {}, NEW st, st = Fetch(store)
  PROVE  Single(st, Held, Gone) /\ Known(st, Held, said)
<1>1. /\ Stocked(st, Held, said, Limit, Calm, Owed) /\ st \in Stores /\ st.cache \in Ids
      /\ \A r \in Held : st.objs[r] = store.objs[r]
  BY SessionFetched
<1>2. said \in Nat /\ Limit \in Nat /\ store \in Stores
  BY SafeIs
<1>3. Known(st, Held, said)
  BY <1>1, <1>2, StockedKnown
<1>4. Fetched(st, store)
  BY <1>2, FetchIs
<1>5. CASE store.cache # 0
  BY <1>3, <1>4, <1>5, SortedIs DEF Fetched
<1>6. CASE store.cache = 0
  <2>1. store.file \in Record /\ store.file.msgs = <<>> /\ store.file.cursor <= Len(store.file.msgs)
    BY <1>2, <1>6, SortedIs, StoreIs DEF Sorted, Emptied
  <2>2. Loaded(store.file) = store.file
    BY <2>1 DEF Loaded
  <2>3. st.cache \notin Held /\ st.objs[st.cache] = store.file /\ st.file = store.file
    BY <1>4, <1>6, <2>2 DEF Fetched, Placed
  <2>4. Numbers(st.objs[st.cache].msgs) = {} /\ Numbers(Unarchived(st.objs[st.cache])) = {}
    <3>1. Numbers(store.file.msgs) = {}
      BY <2>1 DEF Numbers
    <3> QED
      BY <2>1, <2>3, <3>1, OpenIn
  <2>5. /\ \A r \in Held \ {0} : Numbers(Unarchived(st.objs[r])) \intersect Gone = {}
        /\ \A r1, r2 \in Held \ {0} : r1 # r2 =>
             Numbers(st.objs[r1].msgs) \intersect Numbers(st.objs[r2].msgs) = {}
    BY <1>1, SortedIs DEF Single
  <2>6. Single(st, Held, Gone)
    BY <2>3, <2>4, <2>5 DEF Single
  <2> QED
    BY <1>3, <2>6
<1> QED
  BY <1>5, <1>6

\* The session's copy closed after a turn that was cut off.
LEMMA SingleRestore ==
  ASSUME NEW st \in Stores, NEW held \in SUBSET (Ids \union {0}), NEW gone, Single(st, held, gone),
         said \in Nat, Known(st, held, said), gone \subseteq 1..said, st.cache \in Ids, st.objs[st.cache] \in Record
  PROVE  /\ Single(Restore(st), held, gone)
         /\ PartOf(Restore(st).objs[st.cache], st.objs[st.cache], said + 1 .. said + ClosingSays(st.objs[st.cache]))
<1>1. PICK r, x, k : r = st.cache /\ x = st.objs[r] /\ k = ClosingSays(x)
  OBVIOUS
<1>2. x \in Record /\ k \in {0, 1} /\ ClosingWords(x) \in Sayings /\ Len(ClosingWords(x)) = k
  BY <1>1, ClosingIs
<1>3. PartOf(Closed(x), x, said + 1 .. said + k) /\ Closed(x) \in Record
  <2>1. PICK o : o = Say(x, said, ClosingWords(x))
    OBVIOUS
  <2>2. PartOf(o, x, said + 1 .. said + Len(ClosingWords(x))) /\ o \in Record
    BY <1>2, <2>1, PartOfSay, SayIs
  <2>3. Closed(x) = [o EXCEPT !.pending = FALSE]
    BY <2>1 DEF Closed, ClosingWords
  <2>4. Closed(x) = [msgs |-> o.msgs, cursor |-> o.cursor, pending |-> FALSE]
    BY <2>2, <2>3, CopyMade
  <2>5. Closed(x).msgs = o.msgs /\ Closed(x).cursor = o.cursor
    BY <2>4
  <2>6. Closed(x) \in Record
    BY <1>2, ClosedIs
  <2> QED
    BY <1>2, <2>2, <2>5, <2>6, PartOfAlike
<1>4. CASE x.pending
  <2>1. Restore(st) = Rewrite(st, r, Closed(x))
    BY <1>1, <1>4 DEF Restore
  <2>2. Placed(Restore(st), st, r, Closed(x), r, Closed(x))
    BY <1>1, <1>3, <2>1, RewriteIs
  <2>3. k \in Nat /\ r \in held \union {st.cache} /\ held \subseteq held \union {0, st.cache}
    BY <1>1, <1>2
  <2>4. PartOf(Closed(x), st.objs[r], said + 1 .. said + k)
    BY <1>1, <1>3
  <2>5. Single(Restore(st), held, gone)
    BY <1>1, <2>2, <2>3, <2>4, SingleSays
  <2> QED
    BY <1>1, <1>3, <2>2, <2>5 DEF Placed
<1>5. CASE ~x.pending
  <2>1. Restore(st) = st
    BY <1>1, <1>5 DEF Restore
  <2> QED
    BY <1>1, <2>1, PartOfSelf
<1> QED
  BY <1>4, <1>5

\* The copy of an archiving gets no shorter.
LEMMA JobExtends ==
  ASSUME SafeOK, NEW st, st = Fetch(store), NEW st2, NEW r \in Ids,
         \A q \in Ids : q # r => st2.objs[q] = st.objs[q], Extends(st2.objs[r], st.objs[r]), job # NoJob
  PROVE  Numbers(Unarchived(store.objs[job.ref])) \subseteq Numbers(Unarchived(st2.objs[job.ref]))
<1>1. job.ref \in Ids /\ job.ref \in Held /\ store.objs[job.ref] \in Record
  BY JobAt
<1>2. st.objs[job.ref] = store.objs[job.ref]
  BY <1>1, SessionFetched
<1>3. CASE job.ref = r
  BY <1>1, <1>2, <1>3, ExtendsOpen
<1>4. CASE job.ref # r
  BY <1>1, <1>2, <1>4
<1> QED
  BY <1>3, <1>4

LEMMA IdleKept ==
  ASSUME IdleApart, job' = job,
         job.kind = "idle" =>
           /\ turn'.stage # "run"
           /\ Numbers(Unarchived(store.objs[job.ref])) \subseteq Numbers(Unarchived(store'.objs[job.ref]))
  PROVE  IdleApart'
BY DEF IdleApart

LEMMA NoIdle ==
  ASSUME job'.kind # "idle"
  PROVE  IdleApart'
BY DEF IdleApart

\* Nothing is archived.
LEMMA SortedQuiet ==
  ASSUME Sorted, twice' = twice, archived' = archived, snapshots' = snapshots,
         Single(store', Held', Gone), store'.cache # 0, IdleApart'
  PROVE  Sorted'
BY DEF Sorted, Emptied, SnapshotsApart, Gone

LEMMA SortedBegin ==
  ASSUME SafeOK, Sorted, upsets = {}, NEW kind \in {"bus", "direct"}, Begin(kind)
  PROVE  Sorted'
<1> DEFINE st == Fetch(store)  r == st.cache
<1>1. /\ turn.stage = "none" /\ store' = Restore(st)
      /\ turn' = [stage |-> "wait", kind |-> kind, ref |-> r]
      /\ job' = job /\ title' = title /\ snapshots' = snapshots /\ archived' = archived /\ twice' = twice
  BY DEF Begin
<1>2. st \in Stores /\ r \in Ids /\ st.objs[r] \in Record /\ Single(st, Held, Gone) /\ Known(st, Held, said)
  BY SessionFetched, SortedFetched
<1>3. said \in Nat /\ Held \in SUBSET (Ids \union {0}) /\ Gone \subseteq 1..said
  BY SafeIs, SortedIs
<1> HIDE DEF st
<1>4. Single(store', Held, Gone)
  BY <1>1, <1>2, <1>3, SingleRestore
<1>5. /\ store'.cache = r /\ r # 0 /\ \A q \in Ids : q # r => store'.objs[q] = st.objs[q]
      /\ Extends(store'.objs[r], st.objs[r])
  BY <1>1, <1>2, <1>3, RestoreIs DEF Ids
<1>6. Held' \subseteq Held \union {0, store'.cache}
  BY <1>1, <1>5 DEF Held
<1>7. Single(store', Held', Gone)
  BY <1>4, <1>6, SingleHeld
<1>8. IdleApart'
  <2>1. job.kind = "idle" =>
          Numbers(Unarchived(store.objs[job.ref])) \subseteq Numbers(Unarchived(store'.objs[job.ref]))
    BY <1>2, <1>5, JobExtends DEF st, NoJob
  <2> QED
    BY <1>1, <2>1, IdleKept DEF Sorted
<1> QED
  BY <1>1, <1>5, <1>7, <1>8, SortedQuiet

LEMMA SortedDeliver ==
  ASSUME SafeOK, Sorted, upsets = {}, Deliver
  PROVE  Sorted'
<1> DEFINE st == Fetch(store)  r == st.cache  words == <<"delivery">>  o == Say(st.objs[r], said, words)
<1>1. /\ store' = Rewrite(st, r, o) /\ turn' = turn
      /\ job' = job /\ title' = title /\ snapshots' = snapshots /\ archived' = archived /\ twice' = twice
  BY DEF Deliver
<1>2. st \in Stores /\ r \in Ids /\ st.objs[r] \in Record /\ Single(st, Held, Gone) /\ Known(st, Held, said)
  BY SessionFetched, SortedFetched
<1>3. said \in Nat /\ Held \in SUBSET (Ids \union {0}) /\ Gone \subseteq 1..said /\ Held' = Held
  BY <1>1, SafeIs, SortedIs DEF Held
<1>4. words \in Sayings /\ Len(words) = 1
  BY DEF Sayings
<1> HIDE DEF st, words
<1>5. o \in Record /\ Extends(o, st.objs[r]) /\ PartOf(o, st.objs[r], said + 1 .. said + 1)
  BY <1>2, <1>3, <1>4, SayIs, ExtendsSay, PartOfSay
<1> HIDE DEF o
<1>6. Placed(store', st, r, o, r, o)
  BY <1>1, <1>2, <1>5, RewriteIs
<1>7. Single(store', Held', Gone)
  <2>1. 1 \in Nat /\ r \in Held \union {st.cache} /\ Held' \subseteq Held \union {0, st.cache}
    BY <1>3
  <2> QED
    BY <1>2, <1>3, <1>5, <1>6, <2>1, SingleSays
<1>8. IdleApart'
  <2>1. job.kind = "idle" =>
          Numbers(Unarchived(store.objs[job.ref])) \subseteq Numbers(Unarchived(store'.objs[job.ref]))
    BY <1>2, <1>5, <1>6, JobExtends DEF st, NoJob, Placed
  <2> QED
    BY <1>1, <2>1, IdleKept DEF Sorted, IdleApart
<1>9. store'.cache # 0
  BY <1>2, <1>6 DEF Placed, Ids
<1> QED
  BY <1>1, <1>7, <1>8, <1>9, SortedQuiet

LEMMA SortedCommand ==
  ASSUME SafeOK, Sorted, upsets = {}, Command
  PROVE  Sorted'
<1> DEFINE st == Fetch(store)  r == st.cache  x == st.objs[r]  k == ClosingSays(x)
           y == Restore(st).objs[r]  words == <<"command", "reply">>
           o == Say(y, said + k, words)  p == [o EXCEPT !.pending = TRUE]
           s2 == Rewrite(st, r, p)
<1>1. /\ store' = Edit(s2, r, o) /\ turn' = turn
      /\ job' = job /\ title' = title /\ snapshots' = snapshots /\ archived' = archived /\ twice' = twice
  BY DEF Command
<1>2. st \in Stores /\ r \in Ids /\ x \in Record /\ Single(st, Held, Gone) /\ Known(st, Held, said)
  BY SessionFetched, SortedFetched
<1>3. said \in Nat /\ Held \in SUBSET (Ids \union {0}) /\ Gone \subseteq 1..said /\ Held' = Held
  BY <1>1, SafeIs, SortedIs DEF Held
<1>4. words \in Sayings /\ Len(words) = 2 /\ k \in {0, 1}
  BY ClosingIs DEF Sayings, Kinds
<1>5. Extends(y, x) /\ PartOf(y, x, said + 1 .. said + k)
  <2> HIDE DEF st
  <2> QED
    BY <1>2, <1>3, RestoreIs, SingleRestore
<1> HIDE DEF st, words, x, y, k
<1>6. y \in Record /\ said + k \in Nat
  BY <1>3, <1>4, <1>5 DEF Extends
<1>7. o \in Record /\ Extends(o, y) /\ PartOf(o, y, said + k + 1 .. said + k + Len(words))
  BY <1>4, <1>6, SayIs, ExtendsSay, PartOfSay
<1> HIDE DEF o
<1>8. Extends(o, x) /\ PartOf(o, x, said + 1 .. said + (k + 2))
  <2>1. PartOf(o, x, (said + 1 .. said + k) \union (said + k + 1 .. said + k + Len(words)))
    BY <1>5, <1>7, PartOfTwice
  <2>2. (said + 1 .. said + k) \union (said + k + 1 .. said + k + Len(words)) \subseteq said + 1 .. said + (k + 2)
    BY <1>3, <1>4
  <2> QED
    BY <1>2, <1>5, <1>7, <2>1, <2>2, PartOfMore, ExtendsTwice
<1>9. p \in Record /\ p.msgs = o.msgs /\ p.cursor = o.cursor
  <2>1. p = [msgs |-> o.msgs, cursor |-> o.cursor, pending |-> TRUE]
    BY <1>7, CopyMade
  <2>2. Extends(p, o)
    BY <1>7, ExtendsPending
  <2> QED
    BY <2>1, <2>2 DEF Extends
<1> HIDE DEF p
<1>10. Placed(s2, st, r, p, r, p)
  BY <1>2, <1>9, RewriteIs
<1>11. Placed(store', s2, r, o, s2.cache, s2.file) /\ s2 \in Stores
  BY <1>1, <1>2, <1>7, <1>10, EditIs DEF Placed
<1>12. Placed(store', st, r, o, r, p)
  BY <1>10, <1>11 DEF Placed
<1>13. Single(store', Held', Gone)
  <2>1. k + 2 \in Nat /\ r \in Held \union {st.cache} /\ Held' \subseteq Held \union {0, st.cache}
    BY <1>3, <1>4
  <2>2. PartOf(o, st.objs[r], said + 1 .. said + (k + 2))
    BY <1>8 DEF x
  <2> QED
    BY <1>2, <1>3, <1>9, <1>12, <2>1, <2>2, SingleSays
<1>14. IdleApart'
  <2>1. Extends(store'.objs[r], st.objs[r])
    BY <1>8, <1>12 DEF Placed, x
  <2>2. job.kind = "idle" =>
          Numbers(Unarchived(store.objs[job.ref])) \subseteq Numbers(Unarchived(store'.objs[job.ref]))
    BY <1>2, <1>12, <2>1, JobExtends DEF st, NoJob, Placed
  <2> QED
    BY <1>1, <2>2, IdleKept DEF Sorted, IdleApart
<1>15. store'.cache # 0
  BY <1>2, <1>12 DEF Placed, Ids
<1> QED
  BY <1>1, <1>13, <1>14, <1>15, SortedQuiet

LEMMA SortedCheckpoint ==
  ASSUME SafeOK, Sorted, upsets = {}, Checkpoint
  PROVE  Sorted'
<1>1. /\ turn.stage = "run" /\ store' = Save(store, turn.ref) /\ job' = job /\ turn' = turn
      /\ title' = title /\ snapshots' = snapshots /\ archived' = archived /\ twice' = twice
  BY DEF Checkpoint
<1>2. store \in Stores /\ Held \in SUBSET (Ids \union {0}) /\ Single(store, Held, Gone) /\ Held' = Held
  BY <1>1, SafeIs, SortedIs DEF Held
<1>3. turn.ref \in Ids /\ turn.ref \in Held /\ turn.ref # 0
  <2>1. TurnOK(turn)
    BY SafeIs
  <2> QED
    BY <1>1, <2>1 DEF TurnOK, Held, Ids
<1>4. Single(store', Held', Gone) /\ store'.cache = turn.ref /\ store'.objs = store.objs
  BY <1>1, <1>2, <1>3, SingleSave
<1>5. IdleApart'
  BY <1>1, <1>4, IdleKept DEF Sorted, IdleApart
<1> QED
  BY <1>1, <1>3, <1>4, <1>5, SortedQuiet

LEMMA SortedTitled ==
  ASSUME SafeOK, Sorted, upsets = {}, Titled
  PROVE  Sorted'
<1>1. /\ title # 0 /\ title' = 0 /\ job' = job /\ turn' = turn
      /\ snapshots' = snapshots /\ archived' = archived /\ twice' = twice
      /\ store' = store \/ store' = Save(store, title)
  BY DEF Titled
<1>2. /\ store \in Stores /\ Held \in SUBSET (Ids \union {0}) /\ Single(store, Held, Gone)
      /\ Held' \subseteq Held /\ title \in Ids /\ title \in Held
  BY <1>1, SafeIs, SortedIs DEF Held
<1>3. CASE store' = Save(store, title)
  <2>1. Single(store', Held, Gone) /\ store'.cache = title /\ store'.objs = store.objs
    BY <1>2, <1>3, SingleSave
  <2>2. Single(store', Held', Gone)
    BY <1>2, <2>1, SingleHeld
  <2>3. IdleApart'
    BY <1>1, <2>1, IdleKept DEF Sorted, IdleApart
  <2> QED
    BY <1>1, <2>1, <2>2, <2>3, SortedQuiet
<1>4. CASE store' = store
  <2>1. Single(store', Held', Gone)
    BY <1>2, <1>4, SingleHeld
  <2>2. IdleApart'
    BY <1>1, <1>4, IdleKept DEF Sorted, IdleApart
  <2> QED
    BY <1>1, <1>4, <2>1, <2>2 DEF Sorted, Emptied, SnapshotsApart, Gone
<1> QED
  BY <1>1, <1>3, <1>4

\* The session is fetched, and nothing else of it changes.
LEMMA SortedFetch ==
  ASSUME SafeOK, Sorted, upsets = {}, store' = Fetch(store), title' = title, snapshots' = snapshots,
         archived' = archived, twice' = twice,
         job' = NoJob \/ job' = job, turn' = turn \/ turn' = NoTurn
  PROVE  Sorted'
<1>1. /\ store'.cache \in Ids /\ Single(store', Held, Gone) /\ \A q \in Held : store'.objs[q] = store.objs[q]
  BY SessionFetched, SortedFetched
<1>2. Held' \subseteq Held
  BY DEF Held, NoJob, NoTurn
<1>3. Single(store', Held', Gone)
  BY <1>1, <1>2, SingleHeld
<1>4. IdleApart'
  <2>1. CASE job' = NoJob
    BY <2>1, NoIdle DEF NoJob
  <2>2. CASE job' = job
    <3>1. job.kind = "idle" => store'.objs[job.ref] = store.objs[job.ref]
      BY <1>1, JobAt DEF NoJob
    <3> QED
      BY <2>2, <3>1, IdleKept DEF Sorted, IdleApart, NoTurn
  <2> QED
    BY <2>1, <2>2
<1>5. store'.cache # 0
  BY <1>1 DEF Ids
<1> QED
  BY <1>3, <1>4, <1>5, SortedQuiet

LEMMA SortedStopTurn ==
  ASSUME SafeOK, Sorted, upsets = {}, StopTurn
  PROVE  Sorted'
<1>1. job' = NoJob \/ job' = job
  BY DEF StopTurn, Cancelled
<1>2. turn' = NoTurn /\ store' = Fetch(store) /\ title' = title /\ snapshots' = snapshots
      /\ archived' = archived /\ twice' = twice
  BY DEF StopTurn, Cancelled
<1> QED
  BY <1>1, <1>2, SortedFetch

LEMMA SortedCheckExpired ==
  ASSUME SafeOK, Sorted, upsets = {}, CheckExpired
  PROVE  Sorted'
BY SortedFetch DEF CheckExpired

LEMMA SortedArchiveSnapshot ==
  ASSUME SafeOK, Sorted, upsets = {}, NEW ns \in snapshots, ArchiveSnapshot(ns)
  PROVE  Sorted'
<1>1. /\ snapshots' = snapshots \ {ns} /\ archived' = archived \union ns
      /\ twice' = twice \union (archived \intersect ns)
      /\ store' = store /\ job' = job /\ turn' = turn /\ title' = title
  BY DEF ArchiveSnapshot, Archive
<1>2. twice' = {} /\ SnapshotsApart'
  BY <1>1 DEF Sorted, SnapshotsApart
<1>3. Held' = Held /\ Gone' \subseteq Gone
  BY <1>1 DEF Held, Gone
<1>4. Single(store', Held', Gone')
  BY <1>1, <1>3, SingleHeld DEF Sorted
<1>5. IdleApart' /\ Emptied'
  BY <1>1 DEF Sorted, IdleApart, Emptied
<1> QED
  BY <1>2, <1>4, <1>5 DEF Sorted

\* What no archive has is archived for the first time.
LEMMA ArchivedFirst ==
  ASSUME SafeOK, Sorted, NEW ns, Archive(ns), ns \intersect Gone = {}, snapshots' = snapshots
  PROVE  twice' = {} /\ SnapshotsApart' /\ Gone' = Gone \union ns
<1>1. archived' = archived \union ns /\ twice' = twice \union (archived \intersect ns) /\ twice = {}
  BY DEF Archive, Sorted
<1>2. archived \intersect ns = {} /\ \A a \in snapshots : a \intersect ns = {}
  BY DEF Gone
<1> QED
  BY <1>1, <1>2 DEF Sorted, SnapshotsApart, Gone

LEMMA KnownPlaced ==
  ASSUME NEW st, NEW held \in SUBSET (Ids \union {0}), NEW n, Known(st, held, n), st.cache \in Ids \union {0},
         NEW r \in Ids, r \in held \union {st.cache},
         NEW st2, NEW o, NEW f, Placed(st2, st, r, o, r, f), PartOf(o, st.objs[r], {})
  PROVE  Known(st2, held, n)
<1>1. r # 0
  BY DEF Ids
<1>2. Numbers(o.msgs) \subseteq 1..n
  BY <1>1 DEF Known, PartOf
<1> QED
  BY <1>2 DEF Known, Placed

\* The lock is released, in a single store.
LEMMA ReleaseSorted ==
  ASSUME SafeOK, Sorted, upsets = {}, lock # <<>>, NEW st \in Stores, st.cache # 0,
         Single(st, Held, Gone'), Known(st, Held, said), Gone' \subseteq 1..said,
         Release(st), title' = title, twice' = {}, SnapshotsApart'
  PROVE  Sorted'
<1>1. /\ said \in Nat /\ Held \in SUBSET (Ids \union {0}) /\ QueueOK(lock, turn.stage) /\ TurnOK(turn)
  BY SafeIs
<1>2. job' = NoJob /\ IdleApart'
  BY NoIdle DEF Release, NoJob
<1>3. CASE Head(lock) = "turn"
  <2> DEFINE r == turn.ref  x == st.objs[r]  words == <<"prompt">>  o == Say(x, said, words)
             q == [o EXCEPT !.pending = TRUE]
  <2>1. store' = Rewrite(st, r, q) /\ turn' = [turn EXCEPT !.stage = "run"]
    BY <1>3 DEF Release
  <2>2. r \in Ids /\ r \in Held /\ r # 0
    <3>1. turn.stage = "wait"
      BY <1>1, <1>3, QueueIs, TailIs
    <3> QED
      BY <1>1, <3>1 DEF TurnOK, Held, Ids
  <2>3. x \in Record /\ words \in Sayings /\ Len(words) = 1
    BY <2>2 DEF Stores, Sayings, Kinds
  <2> HIDE DEF x, words
  <2>4. o \in Record /\ PartOf(o, x, said + 1 .. said + Len(words))
    BY <1>1, <2>3, SayIs, PartOfSay
  <2> HIDE DEF o
  <2>5. q \in Record /\ q.msgs = o.msgs /\ q.cursor = o.cursor
    <3>1. q = [msgs |-> o.msgs, cursor |-> o.cursor, pending |-> TRUE]
      BY <2>4, CopyMade
    <3>2. Extends(q, o)
      BY <2>4, ExtendsPending
    <3> QED
      BY <3>1, <3>2 DEF Extends
  <2>6. PartOf(q, st.objs[r], said + 1 .. said + 1)
    BY <2>3, <2>4, <2>5, PartOfAlike DEF x
  <2> HIDE DEF q
  <2>7. Placed(store', st, r, q, r, q)
    BY <2>1, <2>2, <2>5, RewriteIs
  <2>8. Held' \subseteq Held
    <3>1. turn'.ref = turn.ref
      BY <1>1, <2>1 DEF TurnOK
    <3> QED
      BY <1>2, <3>1 DEF Held, NoJob
  <2>9. Single(store', Held', Gone')
    <3>1. 1 \in Nat /\ r \in Held \union {st.cache} /\ Held' \subseteq Held \union {0, st.cache}
      BY <2>2, <2>8
    <3> QED
      BY <1>1, <2>2, <2>6, <2>7, <3>1, SingleSays
  <2> QED
    BY <1>2, <2>2, <2>7, <2>9 DEF Sorted, Emptied, Placed
<1>4. CASE Head(lock) # "turn"
  <2>1. store' = st /\ turn' = turn
    BY <1>4 DEF Release
  <2>2. Held' \subseteq Held
    BY <1>2, <2>1 DEF Held, NoJob
  <2>3. Single(store', Held', Gone')
    BY <2>1, <2>2, SingleHeld
  <2> QED
    BY <1>2, <2>1, <2>3 DEF Sorted, Emptied
<1> QED
  BY <1>3, <1>4

LEMMA AwaitSorted ==
  ASSUME NEW st, st.cache # 0, Single(st, Held, Gone'), NEW ref, ref \in Held \union {st.cache},
         NEW kind \in {"overflow", "round"}, NEW end, NEW rounds, AwaitArchive(st, ref, kind, end, rounds),
         title' = title, twice' = {}, SnapshotsApart'
  PROVE  Sorted'
<1>1. store' = st /\ turn' = turn /\ job'.ref = ref /\ job'.kind = kind
  BY DEF AwaitArchive
<1>2. Held' \subseteq Held \union {0, st.cache}
  BY <1>1 DEF Held
<1>3. Single(store', Held', Gone')
  BY <1>1, <1>2, SingleHeld
<1>4. IdleApart'
  BY <1>1, NoIdle
<1> QED
  BY <1>1, <1>3, <1>4 DEF Sorted, Emptied

LEMMA DecideSorted ==
  ASSUME SafeOK, Sorted, upsets = {}, lock # <<>>, NEW st \in Stores, st.cache # 0,
         Single(st, Held, Gone'), Known(st, Held, said), Gone' \subseteq 1..said,
         NEW ref, ref \in Held \union {st.cache}, NEW rounds,
         Decide(st, ref, rounds), title' = title, twice' = {}, SnapshotsApart'
  PROVE  Sorted'
<1>1. CASE Release(st)
  BY <1>1, ReleaseSorted
<1>2. CASE \E b \in Boundaries(st.objs[ref]) : AwaitArchive(st, ref, "round", b, rounds + 1)
  BY <1>2, AwaitSorted
<1> QED
  BY <1>1, <1>2 DEF Decide

LEMMA SortedConsolidateStart ==
  ASSUME SafeOK, Sorted, upsets = {}, ConsolidateStart
  PROVE  Sorted'
<1> DEFINE st == Fetch(store)  o == st.objs[st.cache]  hidden == HiddenByWindow(Unarchived(o))
<1>1. /\ lock # <<>>
      /\ IF hidden > 0 THEN AwaitArchive(st, st.cache, "overflow", o.cursor + hidden, 0)
                       ELSE Decide(st, st.cache, 0)
      /\ title' = title /\ snapshots' = snapshots /\ archived' = archived /\ twice' = twice
  BY DEF ConsolidateStart
<1>2. /\ st \in Stores /\ st.cache \in Ids /\ st.cache # 0 /\ Single(st, Held, Gone) /\ Known(st, Held, said)
  BY SessionFetched, SortedFetched DEF Ids
<1>3. Gone' = Gone /\ Gone' \subseteq 1..said /\ twice' = {} /\ SnapshotsApart'
  BY <1>1, SortedIs DEF Sorted, SnapshotsApart, Gone
<1>4. Single(st, Held, Gone')
  BY <1>2, <1>3
<1>5. CASE hidden > 0
  <2>1. AwaitArchive(st, st.cache, "overflow", o.cursor + hidden, 0)
    BY <1>1, <1>5
  <2> HIDE DEF st
  <2> QED
    BY <1>1, <1>2, <1>3, <1>4, <2>1, AwaitSorted
<1>6. CASE ~(hidden > 0)
  <2>1. Decide(st, st.cache, 0)
    BY <1>1, <1>6
  <2> HIDE DEF st
  <2> QED
    BY <1>1, <1>2, <1>3, <1>4, <2>1, DecideSorted
<1> QED
  BY <1>5, <1>6

\* What lies before the new cursor is apart from what is left.
LEMMA ArchivedApart ==
  ASSUME NEW o \in Record, Ordered(o.msgs), NEW e \in Nat, o.cursor <= e, e <= Len(o.msgs),
         NEW chunk, chunk = Numbers(SubSeq(o.msgs, o.cursor + 1, e)), NEW p, p = [o EXCEPT !.cursor = e]
  PROVE  /\ p \in Record /\ PartOf(p, o, {}) /\ chunk \subseteq Numbers(Unarchived(o))
         /\ Numbers(Unarchived(p)) \intersect chunk = {}
<1>1. /\ o.msgs \in Seq(Messages) /\ o.cursor \in Nat /\ Len(o.msgs) \in Nat
      /\ \A i \in 1..Len(o.msgs) : o.msgs[i].n \in Nat
  BY CopyIs
<1>2. p = [msgs |-> o.msgs, cursor |-> e, pending |-> o.pending] /\ o.pending \in BOOLEAN
  BY CopyMade, CopyIs
<1>3. p \in Record /\ p.msgs = o.msgs /\ p.cursor = e
  BY <1>1, <1>2, RecordIs
<1>4. \A x : x \in chunk <=> \E i \in 1..Len(o.msgs) : o.cursor + 1 <= i /\ i <= e /\ o.msgs[i].n = x
  <2>1. o.cursor + 1 \in Nat \ {0} /\ e \in 0..Len(o.msgs)
    BY <1>1
  <2> QED
    BY <1>1, <2>1, PartNumbers
<1>5. \A x : x \in Numbers(Unarchived(o)) <=> \E i \in 1..Len(o.msgs) : o.cursor < i /\ o.msgs[i].n = x
  BY UnarchivedNumbers
<1>6. \A x : x \in Numbers(Unarchived(p)) <=> \E i \in 1..Len(o.msgs) : e < i /\ o.msgs[i].n = x
  <2>1. \A x : x \in Numbers(Unarchived(p)) <=> \E i \in 1..Len(p.msgs) : p.cursor < i /\ p.msgs[i].n = x
    BY <1>3, UnarchivedNumbers
  <2> QED
    BY <1>3, <2>1
<1>7. chunk \subseteq Numbers(Unarchived(o))
  BY <1>1, <1>4, <1>5
<1>8. Numbers(Unarchived(p)) \subseteq Numbers(Unarchived(o))
  BY <1>1, <1>5, <1>6
<1>9. Numbers(Unarchived(p)) \intersect chunk = {}
  <2> SUFFICES ASSUME NEW x \in chunk, x \in Numbers(Unarchived(p)) PROVE FALSE
    OBVIOUS
  <2>1. PICK i \in 1..Len(o.msgs) : i <= e /\ o.msgs[i].n = x
    BY <1>4
  <2>2. PICK j \in 1..Len(o.msgs) : e < j /\ o.msgs[j].n = x
    BY <1>6
  <2>3. i < j
    BY <2>1, <2>2
  <2>4. o.msgs[i].n < o.msgs[j].n
    BY <2>3 DEF Ordered
  <2> QED
    BY <1>1, <2>1, <2>2, <2>4
<1> QED
  BY <1>3, <1>7, <1>8, <1>9 DEF PartOf

\* A chunk of one copy is archived, and the copy is written without it.
LEMMA ChunkSorted ==
  ASSUME SafeOK, Sorted, upsets = {}, NEW r \in Ids, r \in Held \union {store.cache},
         NEW o \in Record, NEW st, st = Rewrite(store, r, o), PartOf(o, store.objs[r], {}),
         NEW chunk, chunk \subseteq Numbers(Unarchived(store.objs[r])),
         Numbers(Unarchived(o)) \intersect chunk = {}, Archive(chunk), snapshots' = snapshots
  PROVE  /\ st \in Stores /\ st.cache = r /\ Single(st, Held, Gone') /\ Known(st, Held, said)
         /\ Gone' \subseteq 1..said /\ twice' = {} /\ SnapshotsApart'
<1>1. /\ store \in Stores /\ Held \in SUBSET (Ids \union {0}) /\ Single(store, Held, Gone)
      /\ Known(store, Held, said) /\ Gone \subseteq 1..said /\ store.cache \in Ids \union {0}
  BY SafeIs, SortedIs DEF Stores
<1>2. Placed(st, store, r, o, r, o)
  BY <1>1, RewriteIs
<1>3. r # 0 /\ store.objs[r] \in Record
  BY <1>1 DEF Ids, Stores
<1>4. Numbers(Unarchived(store.objs[r])) \intersect Gone = {} /\ Numbers(store.objs[r].msgs) \subseteq 1..said
      /\ Numbers(Unarchived(store.objs[r])) \subseteq Numbers(store.objs[r].msgs)
  BY <1>1, <1>3, OpenIn DEF Single, Known
<1>5. twice' = {} /\ SnapshotsApart' /\ Gone' = Gone \union chunk
  BY <1>4, ArchivedFirst
<1>6. Numbers(Unarchived(o)) \intersect (Gone \union chunk) = {}
  BY <1>4 DEF PartOf
<1>7. Single(st, Held, Gone \union chunk)
  <2>1. Unheard(store, Held, {}) /\ Held \subseteq Held \union {0, store.cache}
    BY DEF Unheard
  <2>2. Given(Gone \union chunk, Gone, store.objs[r], {}, o)
    BY <1>4, <1>6 DEF Given
  <2> QED
    BY <1>1, <1>2, <2>1, <2>2, SingleRewrite
<1>8. Known(st, Held, said)
  BY <1>1, <1>2, KnownPlaced
<1> QED
  BY <1>1, <1>2, <1>4, <1>5, <1>7, <1>8 DEF Placed

LEMMA SortedConsolidateStep ==
  ASSUME SafeOK, Sorted, upsets = {}, NEW ok \in BOOLEAN, ConsolidateStep(ok)
  PROVE  Sorted'
<1> DEFINE r == job.ref  x == store.objs[r]  o == [x EXCEPT !.cursor = job.end]  st == Rewrite(store, r, o)
<1>1. /\ job.kind \in {"overflow", "round"} /\ Archive(job.chunk)
      /\ IF ok \/ job.kind = "overflow" THEN Decide(st, r, job.rounds) ELSE Release(st)
      /\ title' = title /\ snapshots' = snapshots
  BY DEF ConsolidateStep
<1>2. JobOK /\ Calm /\ Stocked(store, Held, said, Limit, Calm, Owed)
  BY SafeIs, SortedIs
<1>3. /\ job \in Jobs /\ lock # <<>> /\ Consolidates(x) /\ r \in Ids /\ r \in Held /\ r # 0
      /\ job.end \in Nat
  <2>1. job \in Jobs /\ lock # <<>> /\ Consolidates(x)
    <3>1. job # NoJob /\ job.kind # "idle"
      BY <1>1 DEF NoJob
    <3> QED
      BY <1>2, <3>1 DEF JobOK
  <2>2. r \in Ids /\ r # 0 /\ job.end \in Nat
    BY <2>1 DEF Jobs, Ids
  <2> QED
    BY <2>1, <2>2 DEF Held
<1>4. x \in Record /\ Ordered(x.msgs)
  BY <1>2, <1>3 DEF Stocked, Fits
<1>5. o \in Record /\ PartOf(o, x, {}) /\ job.chunk \subseteq Numbers(Unarchived(x))
      /\ Numbers(Unarchived(o)) \intersect job.chunk = {}
  <2> HIDE DEF x
  <2> QED
    BY <1>3, <1>4, ArchivedApart DEF Consolidates
<1> HIDE DEF o
<1>6. /\ st \in Stores /\ st.cache = r /\ Single(st, Held, Gone') /\ Known(st, Held, said)
      /\ Gone' \subseteq 1..said /\ twice' = {} /\ SnapshotsApart'
  BY <1>1, <1>3, <1>5, ChunkSorted
<1> HIDE DEF st, x
<1>7. CASE ok \/ job.kind = "overflow"
  BY <1>1, <1>3, <1>6, <1>7, DecideSorted
<1>8. CASE ~(ok \/ job.kind = "overflow")
  BY <1>1, <1>3, <1>6, <1>8, ReleaseSorted
<1> QED
  BY <1>7, <1>8

LEMMA SortedIdleStep ==
  ASSUME SafeOK, Sorted, upsets = {}, IdleStep
  PROVE  Sorted'
<1> DEFINE r == job.ref  x == store.objs[r]  o == [x EXCEPT !.msgs = job.keep, !.cursor = 0]  st == Rewrite(store, r, o)
<1>1. job.kind = "idle" /\ Archive(job.chunk) /\ Release(st) /\ title' = title /\ snapshots' = snapshots
  BY DEF IdleStep
<1>2. JobOK /\ store \in Stores
  BY SafeIs
<1>3. job \in Jobs /\ lock # <<>> /\ r \in Ids /\ r \in Held /\ r # 0 /\ job.keep \in Seq(Messages) /\ x \in Record
  BY <1>1, <1>2 DEF JobOK, NoJob, Jobs, Held, Ids, Stores
<1>4. /\ job.chunk \subseteq Numbers(Unarchived(x)) /\ Numbers(job.keep) \subseteq Numbers(Unarchived(x))
      /\ job.chunk \intersect Numbers(job.keep) = {}
  BY <1>1 DEF Sorted, IdleApart
<1>5. MadeOf(o, x, job.keep, 0)
  <2>1. 0 \in Nat
    OBVIOUS
  <2> HIDE DEF x
  <2> QED
    BY <1>3, <2>1, CopyWith DEF Changed
<1> HIDE DEF o
<1>6. o \in Record /\ Numbers(o.msgs) = Numbers(job.keep) /\ Numbers(Unarchived(o)) \subseteq Numbers(job.keep)
  BY <1>5, OpenIn DEF MadeOf
<1>7. PartOf(o, x, {}) /\ Numbers(Unarchived(o)) \intersect job.chunk = {}
  BY <1>3, <1>4, <1>6, OpenIn DEF PartOf
<1>8. /\ st \in Stores /\ st.cache = r /\ Single(st, Held, Gone') /\ Known(st, Held, said)
      /\ Gone' \subseteq 1..said /\ twice' = {} /\ SnapshotsApart'
  BY <1>1, <1>3, <1>4, <1>6, <1>7, ChunkSorted
<1> HIDE DEF st, x
<1> QED
  BY <1>1, <1>3, <1>8, ReleaseSorted

LEMMA SortedFinishTurn ==
  ASSUME SafeOK, Sorted, upsets = {}, FinishTurn
  PROVE  Sorted'
<1> DEFINE r == turn.ref  x == store.objs[r]  words == <<"answer">>  o == Say(x, said, words)
           c == Capped(o)  q == [c EXCEPT !.pending = FALSE]  ns == CutNumbers(o)
<1>1. /\ turn.stage = "run" /\ store' = Rewrite(store, r, q)
      /\ Archive(ns) /\ turn' = NoTurn /\ (title' = title \/ title' = r)
      /\ job' = job /\ snapshots' = snapshots
  BY DEF FinishTurn, Capped, CutBy, CutNumbers
<1>2. /\ store \in Stores /\ Held \in SUBSET (Ids \union {0}) /\ Single(store, Held, Gone)
      /\ Known(store, Held, said) /\ Gone \subseteq 1..said /\ said \in Nat /\ Limit \in Nat /\ Limit <= said
      /\ Stocked(store, Held, said, Limit, Calm, Owed)
  BY SafeIs, SortedIs
<1>3. r \in Ids /\ r \in Held /\ r # 0
  <2>1. TurnOK(turn)
    BY SafeIs
  <2> QED
    BY <1>1, <2>1 DEF TurnOK, Held, Ids
<1>4. x \in Record /\ Fits(x, said, Limit, Calm, Owed)
  BY <1>2, <1>3 DEF Stocked, Fits
<1>5. words \in Sayings /\ Len(words) = 1
  BY DEF Sayings, Kinds
<1> HIDE DEF x, words
<1>6. o \in Record /\ PartOf(o, x, said + 1 .. said + Len(words))
  BY <1>2, <1>4, <1>5, SayIs, PartOfSay
<1>7. Fits(o, said + Len(words), Limit, Calm, Owed \union {})
  <2>1. {} \subseteq said + 1 .. said + Len(words) /\ (Calm \/ {} = {})
    OBVIOUS
  <2> QED
    BY <1>2, <1>4, <1>5, <2>1, FitsSay
<1>8. Ordered(o.msgs) /\ o.cursor <= Len(o.msgs)
  BY <1>7, SortedIs DEF Fits
<1> HIDE DEF o, ns
<1>9. /\ c \in Record /\ \A i \in 1..Len(c.msgs) : \E j \in 1..Len(o.msgs) : c.msgs[i] = o.msgs[j]
      /\ ns \subseteq Numbers(Unarchived(o))
      /\ Numbers(Unarchived(c)) \subseteq Numbers(Unarchived(o)) \ ns
  BY <1>6, <1>8, CappedIs DEF ns
<1> HIDE DEF c
<1>10. PartOf(c, o, {})
  <2>1. Numbers(c.msgs) \subseteq Numbers(o.msgs)
    <3>1. \A n : n \in Numbers(c.msgs) <=> \E i \in 1..Len(c.msgs) : c.msgs[i].n = n
      BY <1>9, ListNumbers, CopyIs
    <3>2. \A n : n \in Numbers(o.msgs) <=> \E i \in 1..Len(o.msgs) : o.msgs[i].n = n
      BY <1>6, ListNumbers, CopyIs
    <3> QED
      BY <1>9, <3>1, <3>2
  <2> QED
    BY <1>9, <2>1 DEF PartOf
<1>11. q \in Record /\ q.msgs = c.msgs /\ q.cursor = c.cursor
  <2>1. q = [msgs |-> c.msgs, cursor |-> c.cursor, pending |-> FALSE]
    BY <1>9, CopyMade
  <2>2. Extends(q, c)
    BY <1>9, ExtendsPending
  <2> QED
    BY <2>1, <2>2 DEF Extends
<1>12. Unarchived(q) = Unarchived(c)
  BY <1>11 DEF Unarchived
<1> HIDE DEF q
<1>13. PICK fresh : fresh = said + 1 .. said + 1
  OBVIOUS
<1>14. PartOf(o, x, fresh) /\ PartOf(q, x, fresh)
  <2>1. PartOf(o, x, fresh)
    BY <1>5, <1>6, <1>13
  <2>2. PartOf(c, x, fresh \union {})
    BY <1>10, <2>1, PartOfTwice
  <2> QED
    BY <1>11, <2>1, <2>2, PartOfAlike
<1>15. Unheard(store, Held, fresh) /\ Gone \intersect fresh = {}
  BY <1>2, <1>13, FreshApart DEF Unheard, Known
<1>16. Numbers(Unarchived(x)) \intersect Gone = {} /\ Numbers(Unarchived(x)) \subseteq Numbers(x.msgs)
  BY <1>2, <1>3, <1>4, OpenIn DEF Single, x
<1>17. Numbers(Unarchived(o)) \intersect Gone = {} /\ ns \intersect Gone = {} /\ ns \subseteq Numbers(x.msgs) \union fresh
  BY <1>9, <1>14, <1>15, <1>16 DEF PartOf
<1>18. twice' = {} /\ SnapshotsApart' /\ Gone' = Gone \union ns
  BY <1>1, <1>17, ArchivedFirst
<1>19. Given(Gone', Gone, x, fresh, q)
  BY <1>9, <1>12, <1>17, <1>18 DEF Given
<1>20. Placed(store', store, r, q, r, q)
  BY <1>1, <1>2, <1>3, <1>11, RewriteIs
<1>21. IdleApart' /\ job.kind # "idle"
  BY <1>1 DEF Sorted, IdleApart
<1>22. Held' \subseteq Held
  BY <1>1, <1>3 DEF Held, NoTurn
<1>23. Single(store', Held', Gone')
  <2>1. Held' \subseteq Held \union {0, store.cache} /\ r \in Held \union {store.cache}
    BY <1>3, <1>22
  <2> QED
    BY <1>2, <1>3, <1>14, <1>15, <1>19, <1>20, <2>1, SingleRewrite DEF x
<1> QED
  BY <1>3, <1>18, <1>20, <1>21, <1>23 DEF Sorted, Emptied, Placed

\* A list cut in two.
LEMMA CutInTwo ==
  ASSUME NEW s \in Seq(Messages), Ordered(s), NEW k \in 0..Len(s), NEW head, NEW tail,
         head = Numbers(SubSeq(s, 1, k)), tail = Numbers(From(s, k + 1))
  PROVE  head \subseteq Numbers(s) /\ tail \subseteq Numbers(s) /\ head \intersect tail = {}
<1>1. Len(s) \in Nat /\ 1 \in Nat \ {0} /\ k + 1 \in Nat \ {0} /\ Len(s) \in 0..Len(s)
  OBVIOUS
<1>2. \A x : x \in head <=> \E i \in 1..Len(s) : 1 <= i /\ i <= k /\ s[i].n = x
  BY <1>1, PartNumbers
<1>3. \A x : x \in tail <=> \E i \in 1..Len(s) : k + 1 <= i /\ i <= Len(s) /\ s[i].n = x
  <2>1. PICK a, b : a = k + 1 /\ b = Len(s) /\ a \in Nat \ {0} /\ b \in 0..Len(s)
    BY <1>1
  <2>2. tail = Numbers(SubSeq(s, a, b))
    BY <2>1 DEF From
  <2>3. \A x : x \in Numbers(SubSeq(s, a, b)) <=> \E i \in 1..Len(s) : a <= i /\ i <= b /\ s[i].n = x
    BY <2>1, PartNumbers
  <2> QED
    BY <2>1, <2>2, <2>3
<1>4. \A i \in 1..Len(s) : s[i].n \in Nat
  <2>1. \A i \in 1..Len(s) : s[i] \in Messages
    OBVIOUS
  <2> QED
    BY <2>1 DEF Messages
<1>5. head \intersect tail = {}
  <2> SUFFICES ASSUME NEW x \in head, x \in tail PROVE FALSE
    OBVIOUS
  <2>1. PICK i \in 1..Len(s) : i <= k /\ s[i].n = x
    BY <1>2
  <2>2. PICK j \in 1..Len(s) : k + 1 <= j /\ s[j].n = x
    BY <1>3
  <2>3. i < j
    BY <1>1, <2>1, <2>2
  <2>4. s[i].n < s[j].n
    BY <2>3 DEF Ordered
  <2> QED
    BY <1>4, <2>1, <2>2, <2>4
<1> QED
  BY <1>2, <1>3, <1>5, ListNumbers

LEMMA OrderedTail ==
  ASSUME NEW o \in Record, Ordered(o.msgs)
  PROVE  Ordered(Unarchived(o)) /\ Unarchived(o) \in Seq(Messages)
<1>1. PICK u, s, c : u = Unarchived(o) /\ s = o.msgs /\ c = o.cursor
  OBVIOUS
<1>2. /\ u \in Seq(Messages) /\ c \in Nat
      /\ \A i \in 1..Len(u) : u[i] = s[c + i] /\ c + i \in 1..Len(s)
  BY <1>1, UnarchivedIs, CopyIs
<1>3. \A i, j \in 1..Len(s) : i < j => s[i].n < s[j].n
  BY <1>1 DEF Ordered
<1>4. ASSUME NEW i \in 1..Len(u), NEW j \in 1..Len(u), i < j PROVE u[i].n < u[j].n
  <2>1. c + i < c + j
    BY <1>2, <1>4
  <2> QED
    BY <1>2, <1>3, <2>1
<1> QED
  BY <1>1, <1>2, <1>4 DEF Ordered

\* The copy that an idle compaction loads is the file; no other one is alive.
LEMMA SortedReloaded ==
  ASSUME SafeOK, Sorted, upsets = {}, Held = {}, NEW st, st = Fetch(Invalidate(store))
  PROVE  Single(st, Held, Gone) /\ Known(st, Held, said)
<1>1. /\ Stocked(st, Held, said, Limit, Calm, Owed)
      /\ st.objs[st.cache] \in Record
      /\ Placed(st, store, st.cache, Loaded(store.file), st.cache, store.file)
  BY Reloaded
<1>2. said \in Nat /\ Limit \in Nat
  BY SafeIs
<1>3. Known(st, Held, said)
  BY <1>1, <1>2, StockedKnown
<1>4. Loaded(store.file) = store.file /\ Single(store, Held, Gone)
  BY SortedIs DEF Loaded
<1>5. st.file = store.file /\ st.objs[st.cache] = store.file
  BY <1>1, <1>4 DEF Placed
<1>6. Numbers(Unarchived(store.file)) \intersect Gone = {}
  <2>1. CASE store.cache # 0
    <3>1. Unarchived(store.file) = Unarchived(store.objs[store.cache])
      BY <1>4, <2>1 DEF Single, Unarchived
    <3> QED
      BY <1>4, <2>1, <3>1 DEF Single
  <2>2. CASE store.cache = 0
    <3>1. Numbers(store.file.msgs) = {}
      BY <2>2 DEF Sorted, Emptied, Numbers
    <3> QED
      BY <1>1, <1>5, <3>1, OpenIn
  <2> QED
    BY <2>1, <2>2
<1>7. Single(st, Held, Gone)
  BY <1>5, <1>6 DEF Single
<1> QED
  BY <1>3, <1>7

LEMMA SortedIdleStart ==
  ASSUME SafeOK, Sorted, upsets = {}, upsets' = {}, IdleStart
  PROVE  Sorted'
<1> DEFINE st == Fetch(Invalidate(store))  r == st.cache  o == st.objs[r]
           s == Unarchived(o)  cut == DropForIdle(s)
           keep == From(s, cut + 1)  chunk == Numbers(SubSeq(s, 1, cut))  p == Changed(o, s, 0)
           st2 == IF s = <<>> THEN Save(st, r) ELSE Rewrite(st, r, p)
<1>1. /\ lock # <<>>
      /\ IF cut > 0
         THEN /\ store' = st /\ turn' = turn
              /\ job' = [kind |-> "idle", ref |-> r, end |-> 0, rounds |-> 0, keep |-> keep, chunk |-> chunk]
         ELSE Release(st2)
      /\ Held = {}
      /\ title' = title /\ snapshots' = snapshots /\ archived' = archived /\ twice' = twice
  BY DEF IdleStart, Changed
<1>2. /\ st \in Stores /\ r \in Ids /\ o \in Record /\ Fits(o, said, Limit, Calm, Owed)
      /\ Single(st, Held, Gone) /\ Known(st, Held, said)
  BY <1>1, Reloaded, SortedReloaded
<1>3. r # 0 /\ Ordered(o.msgs) /\ Gone' = Gone /\ Gone \subseteq 1..said /\ twice' = {} /\ SnapshotsApart'
  BY <1>1, <1>2, SortedIs DEF Ids, Fits, Sorted, SnapshotsApart, Gone
<1>4. turn.stage = "none"
  <2>1. TurnOK(turn) /\ turn.ref = 0
    BY <1>1, SafeIs DEF Held
  <2> QED
    BY <2>1 DEF TurnOK
<1> HIDE DEF st
<1>5. s \in Seq(Messages) /\ Ordered(s) /\ cut \in 0..Len(s)
  <2> HIDE DEF o
  <2>1. s \in Seq(Messages) /\ Ordered(s)
    BY <1>2, <1>3, OrderedTail
  <2> QED
    BY <2>1, DropBounded
<1>6. CASE cut > 0
  <2>1. /\ chunk \subseteq Numbers(s) /\ Numbers(keep) \subseteq Numbers(s)
        /\ chunk \intersect Numbers(keep) = {}
    <3> HIDE DEF s, cut
    <3> QED
      BY <1>5, CutInTwo
  <2> HIDE DEF keep, chunk, cut
  <2>2. /\ store' = st /\ turn' = turn /\ job'.kind = "idle" /\ job'.ref = r
        /\ job'.chunk = chunk /\ job'.keep = keep
    BY <1>1, <1>6
  <2>3. Held' \subseteq Held \union {0, st.cache}
    BY <1>1, <2>2 DEF Held
  <2>4. Single(store', Held', Gone')
    BY <1>2, <1>3, <2>2, <2>3, SingleHeld
  <2>5. IdleApart'
    BY <1>4, <2>1, <2>2 DEF IdleApart
  <2> QED
    BY <1>3, <2>2, <2>4, <2>5 DEF Sorted, Emptied
<1>7. CASE ~(cut > 0)
  <2>1. Release(st2)
    BY <1>1, <1>7
  <2>2. st2 \in Stores /\ st2.cache = r /\ Single(st2, Held, Gone') /\ Known(st2, Held, said)
    <3>1. CASE s = <<>>
      <4>1. st2 = Save(st, r)
        BY <3>1
      <4>2. st2 \in Stores /\ st2.cache = r /\ st2.file = st.objs[r] /\ st2.objs = st.objs
        BY <1>2, <4>1, SaveIs
      <4> QED
        BY <1>2, <1>3, <4>2 DEF Single, Known
    <3>2. CASE s # <<>>
      <4>1. st2 = Rewrite(st, r, p)
        BY <3>2
      <4>2. MadeOf(p, o, s, 0)
        <5>1. 0 \in Nat
          OBVIOUS
        <5> HIDE DEF o, s
        <5> QED
          BY <1>2, <1>5, <5>1, CopyWith
      <4> HIDE DEF p
      <4>3. p \in Record /\ Numbers(p.msgs) = Numbers(s) /\ Numbers(Unarchived(p)) \subseteq Numbers(s)
        BY <4>2, OpenIn DEF MadeOf
      <4>4. Numbers(s) \subseteq Numbers(o.msgs) /\ Numbers(s) \intersect Gone = {}
        <5>1. Numbers(s) \subseteq Numbers(o.msgs)
          BY <1>2, OpenIn
        <5>2. Numbers(s) \intersect Gone = {}
          BY <1>2, <1>3 DEF Single
        <5> QED
          BY <5>1, <5>2
      <4>5. PartOf(p, o, {}) /\ Given(Gone, Gone, o, {}, p) /\ Unheard(st, Held, {})
        BY <4>3, <4>4 DEF PartOf, Given, Unheard
      <4> HIDE DEF st2, s
      <4>6. Placed(st2, st, r, p, r, p)
        BY <1>2, <4>1, <4>3, RewriteIs
      <4>7. Held \in SUBSET (Ids \union {0}) /\ r \in Held \union {st.cache} /\ Held \subseteq Held \union {0, st.cache}
            /\ st.cache \in Ids \union {0}
        BY <1>2, SafeIs
      <4>8. Single(st2, Held, Gone)
        BY <1>2, <4>5, <4>6, <4>7, SingleRewrite
      <4>9. Known(st2, Held, said)
        BY <1>2, <4>5, <4>6, <4>7, KnownPlaced
      <4> QED
        BY <1>3, <4>6, <4>8, <4>9 DEF Placed
    <3> QED
      BY <3>1, <3>2
  <2> HIDE DEF st2, r
  <2> QED
    BY <1>1, <1>3, <2>1, <2>2, ReleaseSorted
<1> QED
  BY <1>6, <1>7

LEMMA SortedNew ==
  ASSUME SafeOK, Sorted, upsets = {}, upsets' = {}, New
  PROVE  Sorted'
<1>0. PICK st, k : /\ st = IF turn.stage = "none" THEN Restore(Fetch(store)) ELSE Fetch(store)
                   /\ k = IF turn.stage = "none" THEN ClosingSays(Session) ELSE 0
  OBVIOUS
<1> DEFINE r == st.cache  o == st.objs[r]  p == [o EXCEPT !.msgs = <<>>, !.cursor = 0]
           s2 == Rewrite(st, r, p)  snapshot == Numbers(Unarchived(o))
<1>1. /\ Cancelled /\ store' = Invalidate(s2)
      /\ snapshots' = IF snapshot = {} THEN snapshots ELSE snapshots \union {snapshot}
      /\ upsets' = upsets \union ({job'.kind} \ {"none"}) \union OtherCopy(st)
      /\ title' = title /\ archived' = archived /\ twice' = twice
  BY <1>0 DEF New
<1>2. st \in Stores /\ r \in Ids
  BY <1>0, NewStore
<1>3. /\ said \in Nat /\ Held \in SUBSET (Ids \union {0}) /\ title \in Ids \union {0} /\ Gone \subseteq 1..said
  BY SafeIs, SortedIs
<1>4. Single(st, Held, Gone)
  <2>1. PICK f : f = Fetch(store)
    OBVIOUS
  <2>2. f \in Stores /\ f.cache \in Ids /\ f.objs[f.cache] \in Record /\ Single(f, Held, Gone) /\ Known(f, Held, said)
    BY <2>1, SessionFetched, SortedFetched
  <2> QED
    BY <1>0, <1>3, <2>1, <2>2, SingleRestore
<1>5. job' = NoJob /\ turn' = NoTurn /\ OtherCopy(st) = {}
  <2>1. job'.kind = "none" /\ OtherCopy(st) = {}
    BY <1>1
  <2>2. turn' = NoTurn /\ (job' = NoJob \/ job' = job)
    BY <1>1 DEF Cancelled
  <2>3. job # NoJob => job.kind # "none"
    BY JobAt DEF Jobs
  <2> QED
    BY <2>1, <2>2, <2>3
<1>6. Held' \subseteq {title} /\ \A q \in Held' : q # r => st.objs[q].msgs = <<>>
  <2>1. Held' = {title} \ {0}
    BY <1>1, <1>5 DEF Held, NoJob, NoTurn
  <2>2. title = 0 \/ title = r \/ st.objs[title].msgs = <<>>
    BY <1>5 DEF OtherCopy
  <2> QED
    BY <2>1, <2>2
<1>7. o \in Record
  BY <1>2 DEF Stores
<1>8. MadeOf(p, o, <<>>, 0)
  <2>1. <<>> \in Seq(Messages) /\ 0 \in Nat
    OBVIOUS
  <2> HIDE DEF o
  <2> QED
    BY <1>7, <2>1, CopyWith DEF Changed
<1> HIDE DEF p, o, snapshot
<1>9. /\ s2 \in Stores /\ s2.file = p /\ s2.objs[r] = p /\ p.msgs = <<>>
      /\ \A q \in Ids : q # r => s2.objs[q] = st.objs[q]
  BY <1>2, <1>8, RewriteIs DEF Placed, MadeOf
<1>10. store' \in Stores /\ store'.cache = 0 /\ store'.file = p /\ store'.objs = s2.objs
  BY <1>1, <1>9, InvalidateIs
<1>11. \A q \in Held' : Numbers(store'.objs[q].msgs) = {} /\ Numbers(Unarchived(store'.objs[q])) = {}
  <2> SUFFICES ASSUME NEW q \in Held'
               PROVE  Numbers(store'.objs[q].msgs) = {} /\ Numbers(Unarchived(store'.objs[q])) = {}
    OBVIOUS
  <2>1. q \in Ids
    BY <1>3, <1>6 DEF Held
  <2>2. store'.objs[q] \in Record
    BY <1>10, <2>1 DEF Stores
  <2>3. store'.objs[q].msgs = <<>>
    BY <1>6, <1>9, <1>10, <2>1
  <2>4. Numbers(store'.objs[q].msgs) = {}
    BY <2>3 DEF Numbers
  <2> QED
    BY <2>2, <2>4, OpenIn
<1>12. Single(store', Held', Gone')
  BY <1>10, <1>11 DEF Single
<1>13. snapshot \intersect Gone = {}
  <2>1. r # 0
    BY <1>2 DEF Ids
  <2> QED
    BY <1>4, <2>1 DEF Single, snapshot, o
<1>14. SnapshotsApart'
  <2>1. \A a \in snapshots : a \subseteq Gone
    BY DEF Gone
  <2>2. archived \subseteq Gone
    BY DEF Gone
  <2> QED
    BY <1>1, <1>13, <2>1, <2>2 DEF Sorted, SnapshotsApart
<1>15. IdleApart' /\ Emptied'
  BY <1>5, <1>9, <1>10 DEF IdleApart, Emptied, NoJob
<1> QED
  BY <1>1, <1>12, <1>14, <1>15 DEF Sorted

LEMMA SortedStutter ==
  ASSUME Sorted, UNCHANGED sessionVars
  PROVE  Sorted'
<1>1. /\ store' = store /\ job' = job /\ turn' = turn /\ title' = title
      /\ snapshots' = snapshots /\ archived' = archived /\ twice' = twice
  BY DEF sessionVars
<1>2. Held' = Held /\ Gone' = Gone
  BY <1>1 DEF Held, Gone
<1> QED
  BY <1>1, <1>2 DEF Sorted, Emptied, SnapshotsApart, IdleApart

LEMMA SortedStart ==
  ASSUME CompactionInit
  PROVE  OnceOK
<1>1. /\ store = [objs |-> [i \in Ids |-> Empty], cache |-> 0, file |-> Empty]
      /\ job = NoJob /\ turn = NoTurn /\ title = 0
      /\ snapshots = {} /\ archived = {} /\ twice = {}
  BY DEF CompactionInit
<1>2. Held = {} /\ store.cache = 0 /\ store.file.msgs = <<>>
  BY <1>1 DEF Held, NoTurn, NoJob, Empty
<1>3. Single(store, Held, Gone)
  BY <1>2 DEF Single
<1> QED
  BY <1>1, <1>2, <1>3 DEF OnceOK, Sorted, Emptied, SnapshotsApart, IdleApart, NoJob

\* What upsets the session once upsets it for ever.
LEMMA UpsetsGrow == SafeOK /\ [CompactionNext]_sessionVars => upsets \subseteq upsets'
BY DEF CompactionNext, Begin, Command, Checkpoint, FinishTurn, StopTurn, ConsolidateStart, ConsolidateStep,
       CheckExpired, IdleStart, IdleStep, Deliver, New, ArchiveSnapshot, Titled, Crash, sessionVars

LEMMA OnceStep == SafeOK /\ OnceOK /\ [CompactionNext]_sessionVars => OnceOK'
<1> SUFFICES ASSUME SafeOK, OnceOK, [CompactionNext]_sessionVars, upsets' = {} PROVE Sorted'
  BY DEF OnceOK
<1>0. upsets = {} /\ Sorted
  BY UpsetsGrow DEF OnceOK
<1>1. CASE \E kind \in {"bus", "direct"} : Begin(kind)
  BY <1>0, <1>1, SortedBegin
<1>2. CASE Command
  BY <1>0, <1>2, SortedCommand
<1>3. CASE Checkpoint
  BY <1>0, <1>3, SortedCheckpoint
<1>4. CASE FinishTurn
  BY <1>0, <1>4, SortedFinishTurn
<1>5. CASE StopTurn
  BY <1>0, <1>5, SortedStopTurn
<1>6. CASE ConsolidateStart
  BY <1>0, <1>6, SortedConsolidateStart
<1>7. CASE \E ok \in BOOLEAN : ConsolidateStep(ok)
  BY <1>0, <1>7, SortedConsolidateStep
<1>8. CASE CheckExpired
  BY <1>0, <1>8, SortedCheckExpired
<1>9. CASE IdleStart
  BY <1>0, <1>9, SortedIdleStart
<1>10. CASE IdleStep
  BY <1>0, <1>10, SortedIdleStep
<1>11. CASE Deliver
  BY <1>0, <1>11, SortedDeliver
<1>12. CASE New
  BY <1>0, <1>12, SortedNew
<1>13. CASE \E ns \in snapshots : ArchiveSnapshot(ns)
  BY <1>0, <1>13, SortedArchiveSnapshot
<1>14. CASE Titled
  BY <1>0, <1>14, SortedTitled
<1>15. CASE Crash
  BY <1>0, <1>15 DEF Crash
<1>16. CASE UNCHANGED sessionVars
  BY <1>0, <1>16, SortedStutter
<1> QED
  BY <1>1, <1>2, <1>3, <1>4, <1>5, <1>6, <1>7, <1>8, <1>9, <1>10, <1>11, <1>12, <1>13, <1>14, <1>15, <1>16
     DEF CompactionNext

LEMMA AllSorted == CompactionSpec => []OnceOK
<1>1. CompactionInit => OnceOK
  BY SortedStart
<1> QED
  BY <1>1, CopiesSafe, OnceStep, PTL DEF CompactionSpec

\* The copies, the lock and the tasks stay well formed, no cursor leaves its list unless
\* /new cleared a history that was being consolidated, and nothing is archived twice
\* before /new, a second copy or a crash upsets the session.
THEOREM CompactionIsSound == CompactionSpec => []CompactionInv
<1>1. SafeOK /\ OnceOK => CompactionInv
  <2> SUFFICES ASSUME SafeOK, OnceOK PROVE CompactionInv
    OBVIOUS
  <2>1. TypeOK /\ CursorInRange
    BY SafeTyped, SafeInRange
  <2>2. ArchivedOnce
    BY DEF OnceOK, Sorted, ArchivedOnce
  <2> QED
    BY <2>1, <2>2 DEF CompactionInv
<1> QED
  BY <1>1, CopiesSafe, AllSorted, PTL

=============================================================================
