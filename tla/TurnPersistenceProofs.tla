------------------------ MODULE TurnPersistenceProofs ------------------------
(* Proofs about TurnPersistence: types, that nothing seen is lost, and that *)
(* the stored history is legal.                                             *)
EXTENDS TurnPersistence, SequenceTheorems, WellFoundedInduction, TLAPS

\* A non-empty set of naturals has a least element, a bounded one a greatest.
LEMMA LeastElement ==
  ASSUME NEW T \in SUBSET Nat, T # {}
  PROVE  Min(T) \in T /\ \A y \in T : Min(T) <= y
<1> DEFINE R == {ss \in Nat \X Nat : ss[1] < ss[2]}
<1>1. OpToRel(<, Nat) = R
  BY DEF OpToRel
<1>2. IsWellFoundedOn(R, Nat)
  BY <1>1, NatLessThanWellFounded
<1>3. \E x \in T : \A y \in T : ~ (<<y, x>> \in R)
  BY <1>2, WFMin
<1>4. \E x \in T : \A y \in T : x <= y
  <2>1. PICK x \in T : \A y \in T : ~ (<<y, x>> \in R)
    BY <1>3
  <2>2. \A y \in T : y < x => <<y, x>> \in R
    OBVIOUS
  <2>3. \A y \in T : ~ (y < x)
    BY <2>1, <2>2
  <2> HIDE DEF R
  <2>4. \A y \in T : x <= y
    BY <2>3
  <2> QED
    BY <2>4
<1> QED
  BY <1>4 DEF Min

LEMMA GreatestElement ==
  ASSUME NEW n \in Nat, NEW T \in SUBSET (0..n), T # {}
  PROVE  Max(T) \in T /\ \A y \in T : y <= Max(T)
<1> DEFINE D == {n - y : y \in T}
<1>1. D \in SUBSET Nat
  OBVIOUS
<1>0. D # {}
  <2> PICK y \in T : TRUE
    OBVIOUS
  <2> n - y \in D
    OBVIOUS
  <2> QED
    OBVIOUS
<1>2. PICK x \in T : Min(D) = n - x
  BY <1>0, <1>1, LeastElement
<1>3. \A y \in T : y <= x
  <2> TAKE y \in T
  <2>1. n - y \in D
    OBVIOUS
  <2>2. n - x <= n - y
    BY <1>0, <1>1, <1>2, <2>1, LeastElement
  <2> QED
    BY <2>2
<1> QED
  BY <1>3 DEF Max

-----------------------------------------------------------------------------
(* Sequences and the functions of SessionHistory.                           *)

LEMMA RangeAppend ==
  ASSUME NEW S, NEW s \in Seq(S), NEW m \in S
  PROVE  Append(s, m) \in Seq(S) /\ Range(Append(s, m)) = Range(s) \union {m}
<1>1. Append(s, m) \in Seq(S)
  OBVIOUS
<1>2. Range(Append(s, m)) \subseteq Range(s) \union {m}
  BY DEF Range
<1>3. Range(s) \subseteq Range(Append(s, m))
  BY DEF Range
<1>4. Append(s, m)[Len(s) + 1] = m /\ Len(s) + 1 \in DOMAIN Append(s, m)
  OBVIOUS
<1>5. m \in Range(Append(s, m))
  BY <1>4 DEF Range
<1> QED
  BY <1>1, <1>2, <1>3, <1>5

LEMMA RangeConcat ==
  ASSUME NEW S, NEW s \in Seq(S), NEW t \in Seq(S)
  PROVE  s \o t \in Seq(S) /\ Range(s \o t) = Range(s) \union Range(t)
<1>1. s \o t \in Seq(S)
  OBVIOUS
<1>2. Range(s \o t) \subseteq Range(s) \union Range(t)
  BY DEF Range
<1>3. Range(s) \subseteq Range(s \o t)
  BY DEF Range
<1>4. \A j \in 1..Len(t) : t[j] = (s \o t)[Len(s) + j] /\ Len(s) + j \in 1..Len(s \o t)
  OBVIOUS
<1>5. Range(t) \subseteq Range(s \o t)
  <2>1. SUFFICES ASSUME NEW j \in 1..Len(t) PROVE t[j] \in Range(s \o t)
    BY DEF Range
  <2>2. Len(s) + j \in DOMAIN (s \o t)
    BY <1>1, <1>4
  <2> QED
    BY <1>4, <2>2 DEF Range
<1> QED
  BY <1>1, <1>2, <1>3, <1>5

LEMMA RangeTyped ==
  ASSUME NEW S, NEW s \in Seq(S)
  PROVE  Range(s) \subseteq S /\ (s # <<>> => s[Len(s)] \in Range(s))
  BY DEF Range

LEMMA SubSeqTyped ==
  ASSUME NEW S, NEW s \in Seq(S), NEW i \in Nat \ {0}, NEW j \in Nat, j <= Len(s)
  PROVE  SubSeq(s, i, j) \in Seq(S)
  OBVIOUS

LEMMA FromTyped ==
  ASSUME NEW S, NEW s \in Seq(S), NEW i \in Nat \ {0}
  PROVE  From(s, i) \in Seq(S)
  BY DEF From

\* find_legal_message_start returns a position in the list or its end.
LEMMA LegalStartBounded ==
  ASSUME NEW S, NEW s \in Seq(S)
  PROVE  LegalStart(s) \in 0..Len(s)
<1> DEFINE cut[j \in 1..Len(s)] ==
      /\ IsTool(s[j])
      /\ \A k \in 1..j-1 : Declares(s[k], s[j]) => \E m \in k+1..j-1 : cut[m]
    C == {0} \union {j \in 1..Len(s) : cut[j]}
<1>1. LegalStart(s) = Max(C)
  BY DEF LegalStart
<1> HIDE DEF cut
<1>2. C \in SUBSET (0..Len(s)) /\ C # {} /\ Len(s) \in Nat
  OBVIOUS
<1> HIDE DEF C
<1>3. Max(C) \in C
  BY <1>2, GreatestElement
<1> QED
  BY <1>1, <1>2, <1>3

\* Whatever retain_recent_legal_suffix keeps is a list of the same messages.
LEMMA RetainTyped ==
  ASSUME NEW S, NEW s \in Seq(S), NEW max \in Nat \ {0}
  PROVE  RetainRecent(s, max) \in Seq(S)
<1> DEFINE Users(t) == {i \in 1..Len(t) : IsUser(t[i])}
           tail == From(s, Len(s) - max + 1)
           u == Max(Users(s))
           aligned == IF Users(tail) # {} THEN From(tail, Min(Users(tail)))
                      ELSE IF Users(s) # {} THEN SubSeq(s, u, Min({u + max - 1, Len(s)}))
                      ELSE tail
<1> SUFFICES ASSUME Len(s) > max
             PROVE  From(aligned, LegalStart(aligned) + 1) \in Seq(S)
  BY DEF RetainRecent
<1>1. tail \in Seq(S)
  BY FromTyped
<1>2. ASSUME Users(tail) # {} PROVE From(tail, Min(Users(tail))) \in Seq(S)
  <2>0. Users(tail) \in SUBSET Nat
    OBVIOUS
  <2>1. Min(Users(tail)) \in Users(tail)
    BY <1>2, <2>0, LeastElement
  <2>2. Min(Users(tail)) \in Nat \ {0}
    BY <2>1
  <2> QED
    BY <1>1, <2>2, FromTyped
<1>3. ASSUME Users(s) # {} PROVE SubSeq(s, u, Min({u + max - 1, Len(s)})) \in Seq(S)
  <2>1. Users(s) \in SUBSET (0..Len(s)) /\ Len(s) \in Nat
    OBVIOUS
  <2>2. Max(Users(s)) \in Users(s)
    BY <1>3, <2>1, GreatestElement
  <2>3. u \in 1..Len(s)
    BY <2>2
  <2> HIDE DEF u
  <2>4. {u + max - 1, Len(s)} \in SUBSET Nat /\ {u + max - 1, Len(s)} # {}
    BY <2>3
  <2> DEFINE v == Min({u + max - 1, Len(s)})
  <2>5. v \in Nat /\ v <= Len(s)
    BY <2>4, LeastElement
  <2>6. u \in Nat \ {0}
    BY <2>3
  <2> HIDE DEF v
  <2>7. SubSeq(s, u, v) \in Seq(S)
    BY <2>5, <2>6, SubSeqTyped
  <2> QED
    BY <2>7 DEF v
<1>4. aligned \in Seq(S)
  BY <1>1, <1>2, <1>3
<1> HIDE DEF aligned
<1>5. LegalStart(aligned) + 1 \in Nat \ {0}
  BY <1>4, LegalStartBounded
<1> QED
  BY <1>4, <1>5, FromTyped

LEMMA OverlapBounded ==
  ASSUME NEW S, NEW s \in Seq(S), NEW t \in Seq(S)
  PROVE  Overlap(s, t) \in Nat
<1> DEFINE m == Min({Len(s), Len(t)})
           O == {n \in 0..m : From(s, Len(s) - n + 1) = SubSeq(t, 1, n)}
<1>1. {Len(s), Len(t)} \in SUBSET Nat /\ {Len(s), Len(t)} # {}
  OBVIOUS
<1>2. m \in Nat
  BY <1>1, LeastElement
<1> HIDE DEF m
<1>3. From(s, Len(s) - 0 + 1) = <<>> /\ SubSeq(t, 1, 0) = <<>>
  BY DEF From
<1>4. 0 \in 0..m
  BY <1>2
<1>5. 0 \in O
  BY <1>3, <1>4, Zenon
<1>6. O \in SUBSET (0..m)
  OBVIOUS
<1>7. Overlap(s, t) = Max(O)
  BY DEF Overlap, m
<1> HIDE DEF O
<1>8. Max(O) \in O
  BY <1>2, <1>5, <1>6, GreatestElement
<1>9. Max(O) \in 0..m
  BY <1>6, <1>8, Zenon
<1> QED
  BY <1>2, <1>7, <1>9

-----------------------------------------------------------------------------
(* The inductive invariant.                                                 *)

\* Where a turn stands bounds its number and its responses.
Located ==
  /\ turn.stage # "idle" => turn.n \in 1..MaxTurns
  /\ turn.stage \in {"restored", "model"} => turn.k <= MaxIterations
  /\ turn.stage = "tools" => turn.k < MaxIterations

\* Where a message that must not be lost is: what was seen is in the file or
\* the archive, what is in the file is in the cache too, and the answer on its
\* way is among what is about to be saved, or saved.
AnswerKept ==
  turn.out # Closing =>
    \/ turn.stage = "save" /\ turn.out \in Range(turn.new)
    \/ turn.stage = "respond" /\ turn.out \in Range(file.msgs) \union archived

Kept ==
  /\ SeenIsDurable
  /\ Range(file.msgs) \subseteq Range(session.msgs) \union archived
  /\ AnswerKept

Inv == TypeOK /\ Located /\ Kept

LEMMA MsgTyped ==
  ASSUME NEW kind \in Kinds, NEW n \in 0..MaxTurns, NEW k \in Iterations
  PROVE  Msg(kind, n, k) \in Messages
  BY DEF Msg, Messages

LEMMA Numbers ==
  /\ MaxIterations \in Nat \ {0} /\ FileCap \in Nat \ {0}
  /\ MaxRounds \in Nat /\ MaxTurns \in Nat /\ MaxFollowUps \in Nat /\ MaxFaults \in Nat
  BY PersistenceAssumption

LEMMA ClosingTyped == Closing \in Messages
  BY Numbers, MsgTyped DEF Closing, Kinds, Iterations

LEMMA NoCheckpointIsNone == NoCheckpoint \notin Checkpoints
<1>1. Checkpoints \subseteq [last : {"call", "answer"}, turn : Nat, iter : Nat, done : BOOLEAN]
  BY Numbers DEF Checkpoints, Iterations
<1> QED
  BY <1>1, PersistenceAssumption

LEMMA InvInit == Init => Inv
<1> SUFFICES ASSUME Init PROVE Inv
  OBVIOUS
<1>1. session \in Stores /\ file \in Stores
  BY DEF Init, Stores
<1>2. turn \in Turns
  BY Numbers, ClosingTyped DEF Init, NoTurn, Turns, Stages, TurnKinds, Iterations
<1>3. TypeOK
  <2>1. queued \in BOOLEAN /\ archived \subseteq Messages /\ seen \subseteq Messages
    BY Zenon DEF Init
  <2>2. rounds \in 0..MaxRounds /\ followups \in 0..MaxFollowUps /\ faults \in 0..MaxFaults
    BY Numbers DEF Init
  <2> QED
    BY <1>1, <1>2, <2>1, <2>2 DEF TypeOK
<1>4. Located
  BY DEF Init, NoTurn, Located
<1>5. Kept
  BY DEF Init, NoTurn, Kept, SeenIsDurable, AnswerKept, Range
<1> QED
  BY <1>3, <1>4, <1>5 DEF Inv

\* The two restores return a session and only add messages to it.
LEMMA RestoreTyped ==
  ASSUME NEW s \in Stores, s.ckpt # NoCheckpoint
  PROVE  /\ RestoreCheckpoint(s) \in Stores
         /\ Range(s.msgs) \subseteq Range(RestoreCheckpoint(s).msgs)
<1> DEFINE c == s.ckpt
           r == Restored(c)
           rest == From(r, Overlap(s.msgs, r) + 1)
<1>1. c.last \in {"call", "answer"} /\ c.turn \in 0..MaxTurns /\ c.iter \in Iterations
  BY Numbers DEF Stores, Checkpoints
<1>2. \A kind \in {"call", "result", "lost", "answer"} : Msg(kind, c.turn, c.iter) \in Messages
  BY <1>1, MsgTyped DEF Kinds
<1> HIDE DEF c
<1>3. r \in Seq(Messages)
  BY <1>2 DEF Restored
<1>4. s.msgs \in Seq(Messages)
  BY DEF Stores
<1> HIDE DEF r
<1>o. Overlap(s.msgs, r) \in Nat
  BY <1>3, <1>4, OverlapBounded
<1>5. rest \in Seq(Messages)
  <2>1. Overlap(s.msgs, r) + 1 \in Nat \ {0}
    BY <1>o
  <2> QED
    BY <1>3, <2>1, FromTyped
<1>6. RestoreCheckpoint(s) = [msgs |-> s.msgs \o rest, pending |-> FALSE, ckpt |-> NoCheckpoint]
  BY DEF RestoreCheckpoint, r, c
<1> HIDE DEF rest
<1>7. s.msgs \o rest \in Seq(Messages) /\ Range(s.msgs) \subseteq Range(s.msgs \o rest)
  BY <1>4, <1>5, RangeConcat
<1> QED
  BY <1>6, <1>7 DEF Stores

LEMMA CloseTyped ==
  ASSUME NEW s \in Stores
  PROVE  /\ ClosePending(s) \in Stores
         /\ Range(s.msgs) \subseteq Range(ClosePending(s).msgs)
<1> DEFINE m == IF s.msgs # <<>> /\ IsUser(s.msgs[Len(s.msgs)]) THEN Append(s.msgs, Closing) ELSE s.msgs
<1>1. s.msgs \in Seq(Messages)
  BY DEF Stores
<1>2. m \in Seq(Messages) /\ Range(s.msgs) \subseteq Range(m)
  BY <1>1, ClosingTyped, RangeAppend
<1>3. ClosePending(s) = [s EXCEPT !.pending = FALSE, !.msgs = m]
  BY DEF ClosePending
<1> HIDE DEF m
<1> QED
  BY <1>2, <1>3 DEF Stores

\* What SaveTurn writes, and what it hands to the archive, is all there was.
LEMMA SavedTyped ==
  ASSUME Inv
  PROVE  /\ Saved \in Stores /\ Trimmed \subseteq Messages
         /\ Range(session.msgs) \union Range(turn.new) \subseteq Range(Saved.msgs) \union Trimmed
<1> DEFINE all == session.msgs \o turn.new
<1>1. session.msgs \in Seq(Messages) /\ turn.new \in Seq(Messages)
  BY DEF Inv, TypeOK, Stores, Turns
<1>2. all \in Seq(Messages) /\ Range(all) = Range(session.msgs) \union Range(turn.new)
  BY <1>1, RangeConcat
<1>3. Range(all) \subseteq Messages
  BY <1>2, RangeTyped
<1>4. Saved = [msgs |-> RetainRecent(all, FileCap), pending |-> FALSE, ckpt |-> NoCheckpoint]
  BY DEF Saved
<1>5. Trimmed = Range(all) \ Range(Saved.msgs)
  BY DEF Trimmed
<1> HIDE DEF all
<1>6. RetainRecent(all, FileCap) \in Seq(Messages)
  BY <1>2, Numbers, RetainTyped
<1>7. Saved \in Stores
  BY <1>4, <1>6 DEF Stores
<1> QED
  BY <1>2, <1>3, <1>5, <1>7

-----------------------------------------------------------------------------
(* Sessions and files: types, and that nothing written is given up.         *)

\* A step gives up nothing that was written.
Monotone ==
  /\ archived \subseteq archived' /\ archived' \subseteq Messages
  /\ Range(file.msgs) \subseteq Range(file'.msgs) \union archived'
  /\ Range(file'.msgs) \subseteq Range(session'.msgs) \union archived'

Stored == session' \in Stores /\ file' \in Stores /\ Monotone

LEMMA InvSeqs ==
  ASSUME Inv
  PROVE  /\ session \in Stores /\ file \in Stores
         /\ session.msgs \in Seq(Messages) /\ file.msgs \in Seq(Messages)
         /\ turn \in Turns /\ turn.new \in Seq(Messages)
         /\ archived \subseteq Messages
         /\ Range(file.msgs) \subseteq Range(session.msgs) \union archived
  BY DEF Inv, TypeOK, Kept, Stores, Turns

LEMMA Untouched ==
  ASSUME Inv, UNCHANGED <<session, file, archived>>
  PROVE  Stored
  BY InvSeqs DEF Stored, Monotone

\* A save of a session that has grown.
LEMMA SaveStores ==
  ASSUME Inv, NEW s \in Stores, Save(s), Range(session.msgs) \subseteq Range(s.msgs),
         archived' = archived
  PROVE  Stored
  BY InvSeqs DEF Stored, Monotone, Save

LEMMA AppendStores ==
  ASSUME Inv, NEW m \in Messages, NEW b \in BOOLEAN
  PROVE  LET s == [session EXCEPT !.msgs = Append(@, m), !.pending = b]
         IN  s \in Stores /\ Range(s.msgs) = Range(session.msgs) \union {m}
<1>1. Append(session.msgs, m) \in Seq(Messages)
  BY InvSeqs, RangeAppend
<1>2. Range(Append(session.msgs, m)) = Range(session.msgs) \union {m}
  BY InvSeqs, RangeAppend
<1> QED
  BY <1>1, <1>2, InvSeqs DEF Stores

LEMMA TurnNumber ==
  ASSUME Inv, turn.stage # "idle"
  PROVE  /\ turn.n \in 1..MaxTurns /\ turn.n \in 0..MaxTurns
         /\ 0 \in Iterations
  BY Numbers DEF Inv, Located, Iterations

LEMMA ResponseTyped ==
  ASSUME Inv, turn.stage \in {"model", "tools"}
  PROVE  Response \in Iterations
<1>1. turn.k \in Iterations
  BY InvSeqs DEF Turns
<1> QED
  BY <1>1, Numbers DEF Inv, Located, Iterations, Response

LEMMA CheckpointStores ==
  ASSUME Inv, turn.stage \in {"model", "tools"}, NEW last \in {"call", "answer"},
         NEW done \in BOOLEAN, SetCheckpoint(last, done), archived' = archived
  PROVE  Stored
<1> DEFINE c == Checkpoint(last, turn.n, Response, done)
           s == [session EXCEPT !.ckpt = c]
<1>1. c \in Checkpoints
  BY TurnNumber, ResponseTyped DEF Checkpoint, Checkpoints
<1> HIDE DEF c
<1>2. s \in Stores /\ s.msgs = session.msgs
  BY <1>1, InvSeqs DEF Stores
<1>3. Save(s)
  BY DEF SetCheckpoint, c
<1> QED
  BY <1>2, <1>3, SaveStores

LEMMA ClearStores ==
  ASSUME Inv, NEW s \in Stores, Range(session.msgs) \subseteq Range(s.msgs), Clear(s)
  PROVE  Stored
<1> DEFINE e == [s EXCEPT !.msgs = <<>>]
<1>0. <<>> \in Seq(Messages)
  OBVIOUS
<1>1. e \in Stores /\ e.msgs = <<>> /\ s.msgs \in Seq(Messages)
  BY <1>0 DEF Stores
<1>2. Range(e.msgs) = {}
  BY <1>1 DEF Range
<1>3. session' = e /\ file' = e /\ archived' = archived \union Range(s.msgs)
  BY DEF Clear, Save
<1>4. Range(s.msgs) \subseteq Messages
  BY <1>1, RangeTyped
<1> QED
  BY <1>1, <1>2, <1>3, <1>4, InvSeqs DEF Stored, Monotone

LEMMA AfterCancelTyped ==
  ASSUME Inv
  PROVE  AfterCancel \in Stores /\ Range(session.msgs) \subseteq Range(AfterCancel.msgs)
  BY InvSeqs, RestoreTyped DEF AfterCancel

LEMMA StepStored == Inv /\ [Next]_vars => Stored
<1> SUFFICES ASSUME Inv, [Next]_vars PROVE Stored
  OBVIOUS
<1>1. ASSUME NEW kind \in TurnKinds \ {"none"}, Begin(kind) PROVE Stored
  <2>1. CASE session.ckpt # NoCheckpoint
    <3>1. Save(RestoreCheckpoint(session)) /\ archived' = archived
      BY <1>1, <2>1 DEF Begin
    <3> QED
      BY <3>1, <2>1, InvSeqs, RestoreTyped, SaveStores
  <2>2. CASE session.ckpt = NoCheckpoint /\ session.pending
    <3>1. Save(ClosePending(session)) /\ archived' = archived
      BY <1>1, <2>2 DEF Begin
    <3> QED
      BY <3>1, InvSeqs, CloseTyped, SaveStores
  <2>3. CASE session.ckpt = NoCheckpoint /\ ~session.pending
    BY <1>1, <2>3, Untouched DEF Begin
  <2> QED
    BY <2>1, <2>2, <2>3
<1>2. CASE CommandPrompt
  <2>1. Msg("command", turn.n, 0) \in Messages
    BY <1>2, TurnNumber, MsgTyped DEF CommandPrompt, Kinds
  <2> QED
    BY <1>2, <2>1, AppendStores, SaveStores DEF CommandPrompt, PersistEarly
<1>3. CASE CommandReply
  <2> DEFINE reply == Msg("reply", turn.n, 0)
             msgs == Append(session.msgs, reply)
             with == [session EXCEPT !.msgs = Append(@, reply)]
  <2>1. reply \in Messages
    BY <1>3, TurnNumber, MsgTyped DEF CommandReply, Kinds
  <2>2. msgs \in Seq(Messages) /\ Range(msgs) = Range(session.msgs) \union {reply}
    BY <2>1, InvSeqs, RangeAppend
  <2>3. file' = with /\ session' = [with EXCEPT !.pending = FALSE] /\ archived' = archived
    BY <1>3 DEF CommandReply
  <2> HIDE DEF reply
  <2>4. session' \in Stores /\ file' \in Stores /\ session'.msgs = msgs /\ file'.msgs = msgs
    BY <2>2, <2>3, InvSeqs DEF Stores
  <2> HIDE DEF msgs, with
  <2> QED
    BY <2>2, <2>3, <2>4, InvSeqs DEF Stored, Monotone
<1>4. CASE CommandNew
  BY <1>4, InvSeqs, ClearStores DEF CommandNew
<1>5. CASE Build
  <2>1. CASE turn.kind = "message"
    <3>1. Prompt \in Messages
      BY <1>5, TurnNumber, MsgTyped DEF Build, Prompt, Kinds
    <3>2. PersistEarly(Prompt) /\ archived' = archived
      BY <1>5, <2>1 DEF Build
    <3> QED
      BY <3>1, <3>2, AppendStores, SaveStores DEF PersistEarly
  <2>2. CASE turn.kind = "system"
    <3> DEFINE m == Msg("announce", turn.n, 0)
               s == [session EXCEPT !.msgs = Append(@, m)]
    <3>1. m \in Messages
      BY <1>5, TurnNumber, MsgTyped DEF Build, Kinds
    <3>2. Save(s) /\ archived' = archived
      BY <1>5, <2>2 DEF Build
    <3> HIDE DEF m
    <3>3. /\ Append(session.msgs, m) \in Seq(Messages)
          /\ Range(session.msgs) \subseteq Range(Append(session.msgs, m))
      BY <3>1, InvSeqs, RangeAppend
    <3>4. s \in Stores /\ Range(session.msgs) \subseteq Range(s.msgs)
      BY <3>3, InvSeqs DEF Stores
    <3> QED
      BY <3>2, <3>4, SaveStores
  <2>3. CASE turn.kind \notin {"message", "system"}
    BY <1>5, <2>3, Untouched DEF Build
  <2> QED
    BY <2>1, <2>2, <2>3
<1>6. CASE CallTools
  BY <1>6, CheckpointStores DEF CallTools
<1>7. CASE ToolsDone
  BY <1>7, CheckpointStores DEF ToolsDone
<1>8. CASE Answer
  BY <1>8, CheckpointStores DEF Answer
<1>9. CASE ToolsFail \/ PoorAnswer \/ (\E goal \in BOOLEAN : Exhausted(goal)) \/ Respond \/ Fail
  BY <1>9, Untouched DEF ToolsFail, PoorAnswer, Exhausted, Respond, Fail
<1>10. CASE SaveTurn
  BY <1>10, InvSeqs, SavedTyped DEF SaveTurn, Save, Stored, Monotone
<1>11. CASE Cancel
  BY <1>11, InvSeqs, AfterCancelTyped, SaveStores, Untouched DEF Cancel
<1>12. CASE NewBesideTurn
  BY <1>12, AfterCancelTyped, ClearStores DEF NewBesideTurn
<1>13. CASE SaveFails
  BY <1>13, InvSeqs, SavedTyped DEF SaveFails, Stored, Monotone
<1>14. CASE Crash
  BY <1>14, InvSeqs DEF Crash, Stored, Monotone
<1>15. CASE Shutdown
  BY <1>15, InvSeqs, SaveStores DEF Shutdown
<1>16. CASE UNCHANGED vars
  BY <1>16, Untouched DEF vars
<1> QED
  BY <1>1, <1>2, <1>3, <1>4, <1>5, <1>6, <1>7, <1>8, <1>9, <1>10, <1>11, <1>12,
     <1>13, <1>14, <1>15, <1>16 DEF Next

-----------------------------------------------------------------------------
(* The turn.                                                                *)

LEMMA NoTurnTyped ==
  ASSUME NEW n \in 0..MaxTurns
  PROVE  /\ NoTurn(n) \in Turns /\ NoTurn(n).stage = "idle" /\ NoTurn(n).n = n
         /\ NoTurn(n).k = 0 /\ NoTurn(n).out = Closing
<1>1. <<>> \in Seq(Messages) /\ 0 \in Iterations
  BY Numbers DEF Iterations
<1> QED
  BY <1>1, ClosingTyped DEF NoTurn, Turns, Stages, TurnKinds

LEMMA RunningTurn ==
  ASSUME Inv, turn.stage \in {"model", "tools"}, NEW kind \in Kinds
  PROVE  Msg(kind, turn.n, Response) \in Messages
  BY TurnNumber, ResponseTyped, MsgTyped

\* What the turn has said so far, with new messages and perhaps a follow-up.
LEMMA WithTyped ==
  ASSUME Inv, turn.stage \in {"model", "tools"}, NEW new \in Seq(Messages), NEW drained \in BOOLEAN
  PROVE  /\ With(new, drained) \in Seq(Messages)
         /\ With(new, FALSE) = turn.new \o new
<1> DEFINE all == turn.new \o new
           f == Msg("followup", turn.n, Response)
<1>1. all \in Seq(Messages)
  BY InvSeqs
<1>2. f \in Messages
  BY RunningTurn DEF Kinds
<1>3. Append(all, f) \in Seq(Messages)
  BY <1>1, <1>2
<1>4. With(new, drained) \in {all, Append(all, f)} /\ With(new, FALSE) = all
  BY DEF With
<1> QED
  BY <1>1, <1>3, <1>4

\* The turn after a response that keeps the loop going, and after one that ends it.
TurnStep ==
  /\ turn' \in Turns /\ Located'
  /\ turn'.out # Closing =>
       turn'.stage = "save" /\ turn'.out \in Range(turn'.new)

LEMMA GoOnTyped ==
  ASSUME Inv, turn.stage \in {"model", "tools"}, turn.k < MaxIterations, turn.out = Closing,
         NEW all \in Seq(Messages), GoOn(all)
  PROVE  TurnStep
<1>1. Response \in Iterations /\ Response <= MaxIterations
  <2>1. turn.k \in Nat
    BY InvSeqs, Numbers DEF Turns, Iterations
  <2> QED
    BY <2>1, Numbers, ResponseTyped DEF Response
<1>2. turn' = [turn EXCEPT !.k = Response, !.new = all, !.stage = "model"]
  BY DEF GoOn
<1> QED
  BY <1>1, <1>2, InvSeqs, TurnNumber DEF TurnStep, Turns, Stages, Located

LEMMA LeaveTyped ==
  ASSUME Inv, turn.stage \in {"model", "tools"},
         NEW all \in Seq(Messages), all # <<>>, Leave(all)
  PROVE  TurnStep
<1>1. all[Len(all)] \in Range(all) /\ all[Len(all)] \in Messages
  BY RangeTyped
<1>2. turn' = [turn EXCEPT !.k = Response, !.new = all, !.stage = "save", !.out = all[Len(all)]]
  BY DEF Leave
<1> QED
  BY <1>1, <1>2, InvSeqs, ResponseTyped, TurnNumber DEF TurnStep, Turns, Stages, Located

LEMMA LastAnswerTyped ==
  ASSUME Inv, turn.stage \in {"model", "tools"}, turn.k < MaxIterations, turn.out = Closing,
         NEW new \in Seq(Messages), new # <<>>, LastAnswer(new)
  PROVE  TurnStep
<1>1. PICK drained \in BOOLEAN :
        IF drained THEN GoOn(With(new, TRUE)) ELSE Leave(With(new, FALSE))
  BY DEF LastAnswer
<1>2. CASE drained
  BY <1>1, <1>2, WithTyped, GoOnTyped
<1>3. CASE ~drained
  <2>0. With(new, FALSE) \in Seq(Messages) /\ With(new, FALSE) = turn.new \o new
    BY WithTyped
  <2>1. With(new, FALSE) \in Seq(Messages) /\ With(new, FALSE) # <<>>
    <3>1. turn.new \in Seq(Messages)
      BY InvSeqs
    <3>2. turn.new \o new # <<>>
      BY <3>1
    <3> QED
      BY <2>0, <3>2
  <2> QED
    BY <1>1, <1>3, <2>1, LeaveTyped
<1> QED
  BY <1>2, <1>3

\* The six actions of the runner's loop.
Running == CallTools \/ ToolsDone \/ ToolsFail \/ Answer \/ PoorAnswer
           \/ \E goal \in BOOLEAN : Exhausted(goal)

LEMMA RunningStep == Inv /\ Running => TurnStep
<1> SUFFICES ASSUME Inv, Running PROVE TurnStep
  OBVIOUS
<1>1. turn.stage \in {"model", "tools"}
  BY DEF Running, CallTools, ToolsDone, ToolsFail, Answer, PoorAnswer, Exhausted
<1>2. turn.out = Closing
  BY <1>1 DEF Inv, Kept, AnswerKept
<1>3. \A kind \in Kinds : <<Msg(kind, turn.n, Response)>> \in Seq(Messages)
  BY <1>1, RunningTurn
<1>n. <<>> \in Seq(Messages)
  OBVIOUS
<1>4. CASE CallTools
  <2> DEFINE all == Append(turn.new, Msg("call", turn.n, Response))
  <2>1. all \in Seq(Messages)
    BY <1>1, InvSeqs, RunningTurn DEF Kinds
  <2>2. turn' = [turn EXCEPT !.stage = "tools", !.new = all] /\ turn.k < MaxIterations
    BY <1>4 DEF CallTools
  <2> HIDE DEF all
  <2> QED
    BY <2>1, <2>2, <1>1, <1>2, InvSeqs, TurnNumber DEF TurnStep, Turns, Stages, Located
<1>5. CASE ToolsDone
  <2>1. PICK drained \in BOOLEAN : GoOn(With(<<Msg("result", turn.n, Response)>>, drained))
    BY <1>5 DEF ToolsDone
  <2>2. turn.k < MaxIterations
    BY <1>5 DEF ToolsDone, Inv, Located
  <2>3. <<Msg("result", turn.n, Response)>> \in Seq(Messages)
    BY <1>3 DEF Kinds
  <2> QED
    BY <1>1, <1>2, <2>1, <2>2, <2>3, WithTyped, GoOnTyped
<1>6. CASE ToolsFail
  <2> DEFINE new == <<Msg("result", turn.n, Response), Msg("answer", turn.n, Response)>>
  <2>1. turn.k < MaxIterations /\ LastAnswer(new)
    BY <1>6 DEF ToolsFail, Inv, Located
  <2>2. new \in Seq(Messages) /\ new # <<>>
    BY <1>1, RunningTurn DEF Kinds
  <2> QED
    BY <1>1, <1>2, <2>1, <2>2, LastAnswerTyped
<1>7. ASSUME turn.k < MaxIterations, LastAnswer(<<Msg("answer", turn.n, Response)>>)
      PROVE  TurnStep
  <2>1. <<Msg("answer", turn.n, Response)>> \in Seq(Messages)
    BY <1>3 DEF Kinds
  <2> QED
    BY <1>1, <1>2, <1>7, <2>1, LastAnswerTyped
<1>8. CASE Answer
  BY <1>7, <1>8 DEF Answer
<1>9. CASE PoorAnswer
  <2>1. turn.k < MaxIterations
    BY <1>9 DEF PoorAnswer
  <2>2. CASE GoOn(With(<<>>, TRUE))
    <3>1. With(<<>>, TRUE) \in Seq(Messages)
      BY <1>1, <1>n, WithTyped
    <3> QED
      BY <1>1, <1>2, <2>1, <2>2, <3>1, GoOnTyped
  <2> QED
    BY <1>7, <1>9, <2>1, <2>2 DEF PoorAnswer
<1>10. ASSUME NEW goal \in BOOLEAN, Exhausted(goal) PROVE TurnStep
  <2>1. PICK drained \in BOOLEAN :
          IF goal THEN turn' = [turn EXCEPT !.new = With(<<>>, drained), !.stage = "save"]
          ELSE Leave(Append(With(<<>>, drained), Msg("answer", turn.n, Response)))
    BY <1>10 DEF Exhausted
  <2>2. With(<<>>, drained) \in Seq(Messages)
    BY <1>1, <1>n, WithTyped
  <2>3. CASE goal
    BY <1>1, <1>2, <2>1, <2>2, <2>3, InvSeqs, TurnNumber DEF TurnStep, Turns, Stages, Located
  <2>4. CASE ~goal
    <3> DEFINE all == Append(With(<<>>, drained), Msg("answer", turn.n, Response))
    <3>1. all \in Seq(Messages) /\ all # <<>>
      BY <1>1, <2>2, RunningTurn DEF Kinds
    <3>2. Leave(all)
      BY <2>1, <2>4
    <3> QED
      BY <1>1, <3>1, <3>2, LeaveTyped
  <2> QED
    BY <2>3, <2>4
<1> QED
  BY <1>4, <1>5, <1>6, <1>8, <1>9, <1>10 DEF Running

LEMMA StepTurn == Inv /\ [Next]_vars => turn' \in Turns /\ Located'
<1> SUFFICES ASSUME Inv, [Next]_vars PROVE turn' \in Turns /\ Located'
  OBVIOUS
<1>0. turn.n \in 0..MaxTurns
  BY InvSeqs DEF Turns
<1>1. ASSUME NEW kind \in TurnKinds \ {"none"}, Begin(kind) PROVE turn' \in Turns /\ Located'
  <2>1. turn.n + 1 \in 1..MaxTurns /\ turn.n + 1 \in 0..MaxTurns
    BY <1>0, <1>1, Numbers DEF Begin
  <2>2. turn' = [NoTurn(turn.n + 1) EXCEPT !.stage = "restored", !.kind = kind]
    BY <1>1 DEF Begin
  <2>3. NoTurn(turn.n + 1) \in Turns
    BY <2>1, NoTurnTyped
  <2>4. turn' \in Turns
    BY <2>2, <2>3 DEF Turns, Stages, TurnKinds
  <2>5. turn'.n = turn.n + 1 /\ turn'.k = 0 /\ turn'.stage = "restored"
    BY <2>1, <2>2, <2>3, NoTurnTyped DEF Turns
  <2> QED
    BY <2>1, <2>4, <2>5, Numbers DEF Located
<1>2. ASSUME Ended PROVE turn' \in Turns /\ Located'
  BY <1>0, <1>2, NoTurnTyped DEF Ended, Located
<1>3. ASSUME NEW stage \in {"replying", "respond", "model"}, turn.stage # "idle",
             stage = "model" => turn.stage = "restored",
             NEW m \in Messages, turn' = [turn EXCEPT !.stage = stage, !.out = m]
      PROVE  turn' \in Turns /\ Located'
  BY <1>3, InvSeqs DEF Turns, Stages, Located, Inv
<1>4. turn.out \in Messages /\ turn = [turn EXCEPT !.out = turn.out]
  BY InvSeqs DEF Turns
<1>5. CASE CommandPrompt \/ CommandNew \/ SaveTurn \/ Build
  <2>1. PICK stage \in {"replying", "respond", "model"} :
          /\ turn' = [turn EXCEPT !.stage = stage]
          /\ stage = "model" => turn.stage = "restored"
          /\ turn.stage # "idle"
    BY <1>5 DEF CommandPrompt, CommandNew, SaveTurn, Build
  <2>2. turn' = [turn EXCEPT !.stage = stage, !.out = turn.out]
    BY <2>1, InvSeqs DEF Turns
  <2> QED
    BY <1>3, <1>4, <2>1, <2>2
<1>6. CASE CommandReply
  <2>1. Msg("reply", turn.n, 0) \in Messages
    BY <1>6, TurnNumber, MsgTyped DEF CommandReply, Kinds
  <2> QED
    BY <1>3, <1>6, <2>1 DEF CommandReply
<1>7. CASE Running
  BY <1>7, RunningStep DEF TurnStep
<1>8. CASE Respond \/ Cancel \/ NewBesideTurn \/ Fail \/ SaveFails \/ Crash
  BY <1>2, <1>8 DEF Respond, Cancel, NewBesideTurn, Fail, SaveFails, Crash
<1>9. CASE Shutdown \/ UNCHANGED vars
  BY <1>9, InvSeqs DEF Shutdown, vars, Inv, Located
<1> QED
  BY <1>1, <1>5, <1>6, <1>7, <1>8, <1>9 DEF Next, Running

\* The queue flag, the counters and the sets.
LEMMA StepRest ==
  Inv /\ [Next]_vars => /\ queued' \in BOOLEAN /\ rounds' \in 0..MaxRounds
                        /\ followups' \in 0..MaxFollowUps /\ faults' \in 0..MaxFaults
                        /\ seen' \subseteq Messages
<1> SUFFICES ASSUME Inv, [Next]_vars
             PROVE  /\ queued' \in BOOLEAN /\ rounds' \in 0..MaxRounds
                    /\ followups' \in 0..MaxFollowUps /\ faults' \in 0..MaxFaults
                    /\ seen' \subseteq Messages
  OBVIOUS
<1>0. /\ queued \in BOOLEAN /\ rounds \in 0..MaxRounds /\ followups \in 0..MaxFollowUps
      /\ faults \in 0..MaxFaults /\ seen \subseteq Messages
  BY DEF Inv, TypeOK
<1>1. ASSUME NEW goal \in BOOLEAN, Exhausted(goal) PROVE rounds' \in 0..MaxRounds
  <2>1. rounds' = rounds \/ (rounds < MaxRounds /\ rounds' = rounds + 1)
    BY <1>1 DEF Exhausted
  <2> QED
    BY <1>0, <2>1, Numbers
<1>2. ASSUME NEW drained, Drain(drained) PROVE followups' \in 0..MaxFollowUps
  <2>1. followups' \in {followups, followups + 1} /\ followups' <= MaxFollowUps
    BY <1>0, <1>2 DEF Drain
  <2> QED
    BY <1>0, <2>1, Numbers
<1>3. ASSUME Fault PROVE faults' \in 0..MaxFaults
  <2>1. faults < MaxFaults /\ faults' = faults + 1
    BY <1>3 DEF Fault
  <2> QED
    BY <1>0, <2>1, Numbers
<1>4. /\ queued' \in BOOLEAN
      /\ rounds' \in 0..MaxRounds
      /\ followups' \in 0..MaxFollowUps
      /\ faults' \in 0..MaxFaults
  <2> USE DEF Next, vars, Begin, CommandPrompt, CommandReply, CommandNew, Build, CallTools,
              ToolsDone, ToolsFail, Answer, PoorAnswer, SaveTurn, Respond, Cancel,
              NewBesideTurn, Fail, SaveFails, Crash, Shutdown
  <2>1. queued' \in BOOLEAN
    BY <1>0, Zenon DEF Exhausted
  <2>2. (\E goal \in BOOLEAN : Exhausted(goal)) \/ rounds' = rounds
    BY Zenon
  <2>3. (\E drained \in BOOLEAN : Drain(drained)) \/ followups' = followups
    BY Zenon DEF LastAnswer, Exhausted
  <2>4. Fault \/ faults' = faults
    BY Zenon DEF Exhausted
  <2>5. rounds' \in 0..MaxRounds
    BY <1>0, <1>1, <2>2, Zenon
  <2>6. followups' \in 0..MaxFollowUps
    BY <1>0, <1>2, <2>3, Zenon
  <2>7. faults' \in 0..MaxFaults
    BY <1>0, <1>3, <2>4, Zenon
  <2> QED
    BY <2>1, <2>5, <2>6, <2>7
<1>5. CASE Build
  <2>1. Prompt \in Messages /\ Msg("announce", turn.n, 0) \in Messages
    BY <1>5, TurnNumber, MsgTyped DEF Prompt, Kinds, Build
  <2>2. seen' \subseteq Messages
    BY <1>0, <1>5, <2>1 DEF Build
  <2> QED
    BY <1>4, <2>2
<1>6. CASE Respond
  <2>1. seen' \subseteq Messages
    BY <1>0, <1>6, InvSeqs DEF Respond, Turns
  <2> QED
    BY <1>4, <2>1
<1>7. CASE ~(Build \/ Respond)
  <2>1. seen' = seen
    BY <1>7, Zenon DEF Next, vars, Begin, CommandPrompt, CommandReply, CommandNew, CallTools,
       ToolsDone, ToolsFail, Answer, PoorAnswer, Exhausted, SaveTurn, Cancel,
       NewBesideTurn, Fail, SaveFails, Crash, Shutdown
  <2> QED
    BY <1>0, <1>4, <2>1
<1> QED
  BY <1>5, <1>6, <1>7

-----------------------------------------------------------------------------
(* Nothing seen is lost.                                                    *)

LEMMA StepKept == Inv /\ [Next]_vars => Kept'
<1> SUFFICES ASSUME Inv, [Next]_vars PROVE Kept'
  OBVIOUS
<1>0. Monotone /\ session' \in Stores /\ file' \in Stores
  BY StepStored DEF Stored
<1>1. seen \subseteq Range(file'.msgs) \union archived'
  BY <1>0 DEF Monotone, Inv, Kept, SeenIsDurable
<1>2. ASSUME seen' = seen PROVE SeenIsDurable'
  BY <1>1, <1>2 DEF SeenIsDurable
<1>3. ASSUME SeenIsDurable', AnswerKept' PROVE Kept'
  BY <1>0, <1>3 DEF Kept, Monotone
<1>4. ASSUME turn'.out = Closing PROVE AnswerKept'
  BY <1>4 DEF AnswerKept
<1>5. ASSUME Ended PROVE AnswerKept'
  <2>1. turn'.out = Closing
    BY <1>5, InvSeqs, NoTurnTyped DEF Ended, Turns
  <2> QED
    BY <1>4, <2>1
<1>6. turn.stage \notin {"save", "respond"} => turn.out = Closing
  BY DEF Inv, Kept, AnswerKept
<1>7. ASSUME NEW kind \in TurnKinds \ {"none"}, Begin(kind) PROVE Kept'
  <2>1. turn.n + 1 \in 0..MaxTurns
    BY <1>7, InvSeqs, Numbers DEF Begin, Turns
  <2>2. turn'.out = Closing
    BY <1>7, <2>1, NoTurnTyped DEF Begin, Turns
  <2> QED
    BY <1>2, <1>3, <1>4, <1>7, <2>2 DEF Begin
<1>8. CASE CommandPrompt \/ CommandNew
  <2>1. turn'.out = turn.out /\ turn.out = Closing /\ seen' = seen
    BY <1>6, <1>8, InvSeqs DEF CommandPrompt, CommandNew, Turns
  <2> QED
    BY <1>2, <1>3, <1>4, <2>1
<1>9. CASE CommandReply
  <2> DEFINE reply == Msg("reply", turn.n, 0)
  <2>1. reply \in Messages
    BY <1>9, TurnNumber, MsgTyped DEF CommandReply, Kinds
  <2>2. file'.msgs = Append(session.msgs, reply) /\ turn'.out = reply /\ turn'.stage = "respond"
    BY <1>9, InvSeqs DEF CommandReply, Stores, Turns
  <2> HIDE DEF reply
  <2>3. reply \in Range(file'.msgs)
    BY <2>1, <2>2, InvSeqs, RangeAppend
  <2>4. AnswerKept'
    BY <2>2, <2>3 DEF AnswerKept
  <2> QED
    BY <1>2, <1>3, <1>9, <2>4 DEF CommandReply
<1>10. CASE Build
  <2>1. turn'.out = Closing
    BY <1>6, <1>10, InvSeqs DEF Build, Turns
  <2>2. CASE turn.kind = "message"
    <3>1. Prompt \in Messages
      BY <1>10, TurnNumber, MsgTyped DEF Build, Prompt, Kinds
    <3>2. file'.msgs = Append(session.msgs, Prompt) /\ seen' = seen \union {Prompt}
      BY <1>10, <2>2, InvSeqs DEF Build, PersistEarly, Save, Stores
    <3>3. Prompt \in Range(file'.msgs)
      BY <3>1, <3>2, InvSeqs, RangeAppend
    <3> QED
      BY <1>1, <1>3, <1>4, <2>1, <3>2, <3>3 DEF SeenIsDurable
  <2>3. CASE turn.kind = "system"
    <3> DEFINE m == Msg("announce", turn.n, 0)
    <3>1. m \in Messages
      BY <1>10, TurnNumber, MsgTyped DEF Build, Kinds
    <3>2. file'.msgs = Append(session.msgs, m) /\ seen' = seen \union {m}
      BY <1>10, <2>3, InvSeqs DEF Build, Save, Stores
    <3> HIDE DEF m
    <3>3. m \in Range(file'.msgs)
      BY <3>1, <3>2, InvSeqs, RangeAppend
    <3> QED
      BY <1>1, <1>3, <1>4, <2>1, <3>2, <3>3 DEF SeenIsDurable
  <2>4. CASE turn.kind \notin {"message", "system"}
    BY <1>2, <1>3, <1>4, <1>10, <2>1, <2>4 DEF Build
  <2> QED
    BY <2>2, <2>3, <2>4
<1>11. CASE Running
  <2>1. seen' = seen
    BY <1>11 DEF Running, CallTools, ToolsDone, ToolsFail, Answer, PoorAnswer, Exhausted
  <2>2. AnswerKept'
    BY <1>11, RunningStep DEF TurnStep, AnswerKept
  <2> QED
    BY <1>2, <1>3, <2>1, <2>2
<1>12. CASE SaveTurn
  <2>1. turn'.out = turn.out /\ turn'.stage = "respond" /\ seen' = seen
    BY <1>12, InvSeqs DEF SaveTurn, Turns
  <2>2. turn.out # Closing => turn.out \in Range(turn.new)
    BY <1>12 DEF SaveTurn, Inv, Kept, AnswerKept
  <2>3. file' = Saved /\ archived' = archived \union Trimmed
    BY <1>12 DEF SaveTurn, Save
  <2>4. turn.out # Closing => turn.out \in Range(file'.msgs) \union archived'
    BY <2>2, <2>3, SavedTyped
  <2>5. AnswerKept'
    BY <2>1, <2>4 DEF AnswerKept
  <2> QED
    BY <1>2, <1>3, <2>1, <2>5
<1>13. CASE Respond
  <2>1. turn.out # Closing => turn.out \in Range(file.msgs) \union archived
    BY <1>13 DEF Respond, Inv, Kept, AnswerKept
  <2>2. seen' \subseteq seen \union {m \in {turn.out} : m # Closing} /\ file' = file /\ archived' = archived
    BY <1>13 DEF Respond
  <2>3. SeenIsDurable'
    BY <1>1, <2>1, <2>2 DEF SeenIsDurable
  <2> QED
    BY <1>3, <1>5, <1>13, <2>3 DEF Respond
<1>14. CASE Cancel \/ NewBesideTurn \/ Fail \/ SaveFails \/ Crash
  BY <1>2, <1>3, <1>5, <1>14 DEF Cancel, NewBesideTurn, Fail, SaveFails, Crash
<1>15. CASE Shutdown
  BY <1>2, <1>3, <1>4, <1>6, <1>15 DEF Shutdown
<1>16. CASE UNCHANGED vars
  BY <1>16 DEF vars, Inv, Kept, SeenIsDurable, AnswerKept
<1> QED
  BY <1>7, <1>8, <1>9, <1>10, <1>11, <1>12, <1>13, <1>14, <1>15, <1>16 DEF Next, Running

-----------------------------------------------------------------------------
(* The theorems: types, and nothing is lost.                                *)

LEMMA Invariance == Spec => []Inv
<1>1. Inv /\ [Next]_vars => Inv'
  <2> SUFFICES ASSUME Inv, [Next]_vars PROVE Inv'
    OBVIOUS
  <2>1. session' \in Stores /\ file' \in Stores /\ archived' \subseteq Messages
    BY StepStored DEF Stored, Monotone
  <2>2. TypeOK'
    BY <2>1, StepTurn, StepRest DEF TypeOK
  <2> QED
    BY <2>2, StepTurn, StepKept DEF Inv
<1> QED
  BY <1>1, InvInit, PTL DEF Spec

\* The session, its file and the turn have their types, and the bounds hold.
THEOREM TypeCorrect == Spec => []TypeOK
<1>1. Inv => TypeOK
  BY DEF Inv
<1> QED
  BY <1>1, Invariance, PTL

\* What a model was prompted with and what the user was answered is in the
\* session file or in the archive, whatever faults occur in whatever order.
THEOREM NothingSeenIsLost == Spec => []SeenIsDurable
<1>1. Inv => SeenIsDurable
  BY DEF Inv, Kept
<1> QED
  BY <1>1, Invariance, PTL

\* No step takes a message out of the session file without handing it to the
\* archive: restores, saves, cancellations and crashes included.
THEOREM FileNeverLoses == Spec => FileKeepsAll
<1>1. Inv /\ [Next]_vars => [Range(file.msgs) \subseteq Range(file'.msgs) \union archived']_vars
  BY StepStored DEF Stored, Monotone
<1> QED
  BY <1>1, Invariance, PTL DEF Spec, FileKeepsAll

-----------------------------------------------------------------------------
(* The stored history is legal.                                             *)

\* The bounds of the code leave room: a turn cannot use up its responses with follow-ups
\* that are merged into its prompt, and more than one message is kept.
Room == MaxCycles < MaxIterations /\ FileCap > 1

Opening == {"prompt", "command"}

\* y may follow x, when a is in the archive.
Link(x, y, a) ==
  /\ IsTool(y) => Declares(x, y)
  /\ x.kind = "call" => Declares(x, y) \/ \E r \in a : Declares(x, r)
  /\ Room => ~(x.kind \in Opening /\ y.kind \in Opening)

Apart(x, y) ==
  x.turn # 0 /\ x.turn = y.turn /\ x.iter = y.iter =>
    x.kind # y.kind /\ ~(IsTool(x) /\ IsTool(y))

Linked(s, a) == \A i \in 1..Len(s) - 1 : Link(s[i], s[i + 1], a)
Distinct(s) == \A i, j \in 1..Len(s) : i # j => Apart(s[i], s[j])
Headed(s) == s # <<>> => ~IsTool(s[1])
Concluded(s, a) ==
  s # <<>> /\ s[Len(s)].kind = "call" => \E r \in a : Declares(s[Len(s)], r)

Legal(s, a) == Linked(s, a) /\ Distinct(s) /\ Headed(s) /\ Concluded(s, a)

\* A stored message is of a turn that began; of the running turn t only what it was
\* begun with is stored.
Placed(m, t) ==
  /\ m.turn <= t.n /\ (m.turn = 0 => m = Closing)
  /\ m.turn = t.n => /\ t.stage # "restored"
                     /\ t.stage \in {"model", "tools", "save"} => m.iter = 0
                     /\ t.stage = "replying" => m.kind = "command"

\* What a checkpoint stands for is not stored yet.
CheckpointLegal(st, n) ==
  st.ckpt # NoCheckpoint =>
    /\ st.ckpt.turn \in 1..n /\ st.ckpt.iter # 0
    /\ \A i \in 1..Len(st.msgs) : st.msgs[i].turn = st.ckpt.turn => st.msgs[i].iter = 0

\* After an opening message the session is marked as pending.
Answered(s) == s # <<>> => s[Len(s)].kind \notin Opening
Marked(st) == Room => Answered(st.msgs) \/ st.pending

\* A session or a file beside the turn t and the archive a.
StoreLegal(st, t, a) ==
  /\ Legal(st.msgs, a)
  /\ \A i \in 1..Len(st.msgs) : Placed(st.msgs[i], t)
  /\ CheckpointLegal(st, t.n)
  /\ Marked(st)

\* What turn n has said in its first k responses: no message is of a kind that opens a
\* turn, and the responses are numbered.
Said(s, n, k) ==
  /\ Linked(s, {}) /\ Distinct(s) /\ Headed(s)
  /\ \A i \in 1..Len(s) : s[i].turn = n /\ s[i].iter \in 1..k /\ s[i].kind \notin Opening

\* A call is answered by the next message, but for the last one while its tools run.
NewLegal(t) ==
  /\ t.stage = "restored" => t.new = <<>> /\ t.k = 0
  /\ t.stage = "model" => Said(t.new, t.n, t.k) /\ Concluded(t.new, {})
  /\ t.stage = "save" => Said(t.new, t.n, t.k + 1) /\ Concluded(t.new, {})
  /\ t.stage = "tools" =>
       \E s \in Seq(Messages) : /\ t.new = Append(s, Msg("call", t.n, t.k + 1))
                                /\ Said(s, t.n, t.k) /\ Concluded(s, {})
  /\ Room /\ t.stage = "model" /\ t.new = <<>> => t.k <= MaxCycles
  /\ Room /\ t.stage = "save" => t.new # <<>>

\* While a prompt may come, none is waiting to be closed.
Answerable == Room /\ turn.stage = "restored" => Answered(session.msgs)

Histories ==
  /\ StoreLegal(session, turn, archived)
  /\ StoreLegal(file, turn, archived)
  /\ NewLegal(turn)
  /\ Answerable

-----------------------------------------------------------------------------
(* Sequences: what cuts and joins keep.                                     *)

\* When each result follows its call, only the first message can be an orphan.
LEMMA LegalStartIs ==
  ASSUME NEW s \in Seq(Messages), \A j \in 2..Len(s) : IsTool(s[j]) => Declares(s[j - 1], s[j])
  PROVE  LegalStart(s) = IF s # <<>> /\ IsTool(s[1]) THEN 1 ELSE 0
<1> DEFINE n == Len(s)
           F(f) == [j \in 1..n |->
                      /\ IsTool(s[j])
                      /\ \A k \in 1..j-1 : Declares(s[k], s[j]) => \E m \in k+1..j-1 : f[m]]
           cut == CHOOSE f : f = F(f)
           g == [j \in 1..n |-> j = 1 /\ IsTool(s[1])]
           C == {0} \union {j \in 1..n : cut[j]}
<1>1. LegalStart(s) = Max(C)
  BY DEF LegalStart
<1>2. n \in Nat /\ (s # <<>> => n # 0)
  OBVIOUS
<1>3. ASSUME NEW f, NEW j \in 1..n
      PROVE  F(f)[j] = (/\ IsTool(s[j])
                        /\ \A k \in 1..j-1 : Declares(s[k], s[j]) => \E m \in k+1..j-1 : f[m])
  OBVIOUS
<1>4. ASSUME NEW f, NEW j \in 1..n PROVE F(f)[j] = (j = 1 /\ IsTool(s[1]))
  <2>1. CASE j = 1
    <3>1. 1..j-1 = {}
      BY <2>1
    <3> QED
      BY <1>3, <2>1, <3>1, Zenon
  <2>2. CASE j # 1 /\ IsTool(s[j])
    <3>1. j \in 2..n /\ j - 1 \in 1..j-1 /\ (j-1)+1..j-1 = {}
      BY <1>2, <2>2
    <3>2. Declares(s[j - 1], s[j])
      BY <2>2, <3>1
    <3> QED
      BY <1>3, <2>2, <3>1, <3>2, Zenon
  <2>3. CASE j # 1 /\ ~IsTool(s[j])
    BY <1>3, <2>3, Zenon
  <2> QED
    BY <2>1, <2>2, <2>3
<1>5. \A f : F(f) = g
  <2> TAKE f
  <2>1. \A j \in 1..n : F(f)[j] = g[j]
    BY <1>4
  <2> QED
    BY <2>1
<1> HIDE DEF F, g
<1>6. cut = g
  <2>1. g = F(g)
    BY <1>5
  <2>2. cut = F(cut)
    BY <2>1
  <2> HIDE DEF cut
  <2> QED
    BY <1>5, <2>2
<1> HIDE DEF cut
<1>7. C = {0} \union {j \in 1..n : j = 1 /\ IsTool(s[1])}
  BY <1>6 DEF g
<1> HIDE DEF C
<1>8. CASE s # <<>> /\ IsTool(s[1])
  <2>1. C = {0, 1}
    BY <1>2, <1>7, <1>8
  <2>2. Max({0, 1}) \in {0, 1} /\ \A y \in {0, 1} : y <= Max({0, 1})
    <3>1. {0, 1} \in SUBSET (0..1) /\ {0, 1} # {} /\ 1 \in Nat
      OBVIOUS
    <3> QED
      BY <3>1, GreatestElement
  <2>3. Max({0, 1}) = 1
    BY <2>2
  <2> QED
    BY <1>1, <1>8, <2>1, <2>3
<1>9. CASE ~(s # <<>> /\ IsTool(s[1]))
  <2>1. C = {0}
    BY <1>2, <1>7, <1>9
  <2>2. Max({0}) \in {0}
    <3>1. {0} \in SUBSET (0..0) /\ {0} # {} /\ 0 \in Nat
      OBVIOUS
    <3> QED
      BY <3>1, GreatestElement
  <2> QED
    BY <1>1, <1>9, <2>1, <2>2
<1> QED
  BY <1>8, <1>9

\* A window of a list, and a window of a window.
LEMMA Window ==
  ASSUME NEW S, NEW s \in Seq(S), NEW a \in 1..Len(s) + 1, NEW b \in 0..Len(s), a <= b + 1
  PROVE  /\ SubSeq(s, a, b) \in Seq(S) /\ Len(SubSeq(s, a, b)) = b - a + 1
         /\ \A i \in 1..b - a + 1 : SubSeq(s, a, b)[i] = s[a + i - 1] /\ a + i - 1 \in 1..Len(s)
<1>1. Len(s) \in Nat
  OBVIOUS
<1> QED
  BY <1>1

LEMMA WindowOfWindow ==
  ASSUME NEW S, NEW s \in Seq(S), NEW a \in 1..Len(s) + 1, NEW b \in 0..Len(s), a <= b + 1,
         NEW i \in 1..b - a + 2
  PROVE  SubSeq(SubSeq(s, a, b), i, b - a + 1) = SubSeq(s, a + i - 1, b)
<1> DEFINE w == SubSeq(s, a, b)
           n == b - a + 1
           u == SubSeq(w, i, n)
           v == SubSeq(s, a + i - 1, b)
<1>1. Len(s) \in Nat /\ n \in Nat /\ i \in Nat /\ i <= n + 1
  OBVIOUS
<1>2. w \in Seq(S) /\ Len(w) = n /\ \A j \in 1..n : w[j] = s[a + j - 1]
  BY Window
<1>3. v \in Seq(S) /\ Len(v) = n - i + 1 /\ \A j \in 1..n - i + 1 : v[j] = s[(a + i - 1) + j - 1]
  <2>1. a + i - 1 \in 1..Len(s) + 1 /\ a + i - 1 <= b + 1 /\ b - (a + i - 1) + 1 = n - i + 1
    OBVIOUS
  <2> QED
    BY <2>1, Window
<1>4. u \in Seq(S) /\ Len(u) = n - i + 1 /\ \A j \in 1..n - i + 1 : u[j] = w[i + j - 1]
  <2> HIDE DEF w
  <2>1. i \in 1..Len(w) + 1 /\ n \in 0..Len(w)
    BY <1>1, <1>2
  <2> QED
    BY <1>1, <1>2, <2>1, Window
<1> HIDE DEF u, v, w
<1>5. \A j \in 1..n - i + 1 : u[j] = v[j]
  <2> TAKE j \in 1..n - i + 1
  <2>1. i + j - 1 \in 1..n /\ a + (i + j - 1) - 1 = (a + i - 1) + j - 1
    BY <1>1
  <2> QED
    BY <1>2, <1>3, <1>4, <2>1
<1>6. u = v
  BY <1>1, <1>3, <1>4, <1>5
<1> QED
  BY <1>6 DEF u, v, w

Paired(s) == \A j \in 2..Len(s) : IsTool(s[j]) => Declares(s[j - 1], s[j])

\* What is left of a window when its orphan is dropped.
LEMMA LegalWindow ==
  ASSUME NEW s \in Seq(Messages), Paired(s),
         NEW a \in 1..Len(s) + 1, NEW b \in 0..Len(s), a <= b + 1
  PROVE  \E c \in a..b + 1 :
           /\ From(SubSeq(s, a, b), LegalStart(SubSeq(s, a, b)) + 1) = SubSeq(s, c, b)
           /\ c <= b => ~IsTool(s[c])
<1> DEFINE w == SubSeq(s, a, b)
           n == b - a + 1
<1>1. Len(s) \in Nat /\ n \in Nat
  OBVIOUS
<1>2. w \in Seq(Messages) /\ Len(w) = n /\ \A i \in 1..n : w[i] = s[a + i - 1] /\ a + i - 1 \in 1..Len(s)
  BY Window
<1> HIDE DEF w
<1>3. \A j \in 2..Len(w) : IsTool(w[j]) => Declares(w[j - 1], w[j])
  <2> TAKE j \in 2..Len(w)
  <2>1. j \in 1..n /\ j - 1 \in 1..n /\ a + j - 1 \in 2..Len(s) /\ a + (j - 1) - 1 = (a + j - 1) - 1
    BY <1>1, <1>2
  <2> QED
    BY <1>2, <2>1 DEF Paired
<1>4. LegalStart(w) = IF w # <<>> /\ IsTool(w[1]) THEN 1 ELSE 0
  BY <1>2, <1>3, LegalStartIs
<1>5. w # <<>> <=> n # 0
  BY <1>2
<1>6. CASE w # <<>> /\ IsTool(w[1])
  <2>1. a + 1 \in a..b + 1 /\ 2 \in 1..n + 1 /\ n # 0
    BY <1>1, <1>5, <1>6
  <2>2. SubSeq(w, 2, n) = SubSeq(s, a + 1, b)
    <3>1. SubSeq(SubSeq(s, a, b), 2, n) = SubSeq(s, a + 2 - 1, b)
      BY <2>1, WindowOfWindow
    <3>2. a + 2 - 1 = a + 1
      OBVIOUS
    <3> QED
      BY <3>1, <3>2 DEF w
  <2>3. From(w, LegalStart(w) + 1) = SubSeq(w, 2, n)
    BY <1>2, <1>4, <1>6 DEF From
  <2>4. ASSUME a + 1 <= b PROVE ~IsTool(s[a + 1])
    <3>1. 1 \in 1..n /\ 2 \in 2..Len(w) /\ 2 \in 1..n /\ a + 2 - 1 = a + 1 /\ 2 - 1 = 1
      BY <1>1, <1>2, <2>4
    <3>2. w[2] = s[a + 1]
      BY <1>2, <3>1
    <3>3. IsTool(w[2]) => Declares(w[1], w[2])
      BY <1>3, <3>1
    <3> QED
      BY <1>6, <3>2, <3>3 DEF Declares, IsTool
  <2> QED
    BY <2>1, <2>2, <2>3, <2>4 DEF w
<1>7. CASE ~(w # <<>> /\ IsTool(w[1]))
  <2>1. From(w, LegalStart(w) + 1) = w
    <3>1. LegalStart(w) + 1 = 1
      BY <1>4, <1>7
    <3>2. SubSeq(w, 1, Len(w)) = w
      BY <1>2
    <3> QED
      BY <3>1, <3>2 DEF From
  <2>2. ASSUME a <= b PROVE ~IsTool(s[a])
    <3>1. n # 0 /\ 1 \in 1..n /\ a + 1 - 1 = a
      BY <1>1, <2>2
    <3>2. w[1] = s[a]
      BY <1>2, <3>1
    <3> QED
      BY <1>5, <1>7, <3>1, <3>2
  <2>3. a \in a..b + 1
    OBVIOUS
  <2> QED
    BY <2>1, <2>2, <2>3 DEF w
<1> QED
  BY <1>6, <1>7

\* retain_recent_legal_suffix keeps one stretch of the list, which begins with no orphan.
\* It ends where the list ends, or after the last user message of all.
LEMMA RetainWindow ==
  ASSUME NEW s \in Seq(Messages), Paired(s), Headed(s), NEW max \in Nat \ {0}
  PROVE  \E a \in 1..Len(s) + 1, b \in 0..Len(s) :
           /\ a <= b + 1 /\ RetainRecent(s, max) = SubSeq(s, a, b)
           /\ a <= b => ~IsTool(s[a])
           /\ max > 1 /\ a <= b /\ b < Len(s) => ~IsUser(s[b])
<1> DEFINE n == Len(s)
           Users(t) == {i \in 1..Len(t) : IsUser(t[i])}
           tail == From(s, n - max + 1)
           u == Max(Users(s))
           aligned == IF Users(tail) # {} THEN From(tail, Min(Users(tail)))
                      ELSE IF Users(s) # {} THEN SubSeq(s, u, Min({u + max - 1, n}))
                      ELSE tail
<1>1. n \in Nat /\ max \in Nat /\ max # 0
  OBVIOUS
<1>2. CASE n <= max
  <2>1. RetainRecent(s, max) = SubSeq(s, 1, n)
    <3>1. RetainRecent(s, max) = s
      BY <1>2 DEF RetainRecent
    <3> QED
      BY <1>1, <3>1
  <2>2. 1 \in 1..n + 1 /\ n \in 0..n /\ 1 <= n + 1 /\ (1 <= n => s # <<>>)
    BY <1>1
  <2> QED
    BY <1>1, <2>1, <2>2 DEF Headed
<1>3. CASE n > max
  <2> DEFINE p == n - max + 1
  <2>1. p \in 2..n /\ p \in 1..n + 1 /\ n \in 0..n /\ p <= n + 1 /\ n - p + 1 = max
    BY <1>1, <1>3
  <2>2. tail \in Seq(Messages) /\ Len(tail) = max /\ \A i \in 1..max : tail[i] = s[p + i - 1]
    BY <2>1, Window DEF From
  <2>3. RetainRecent(s, max) = From(aligned, LegalStart(aligned) + 1)
    BY <1>1, <1>3 DEF RetainRecent
  <2>4. \E a \in 1..n + 1, b \in 0..n :
          a <= b + 1 /\ aligned = SubSeq(s, a, b) /\ (max > 1 /\ a <= b /\ b < n => ~IsUser(s[b]))
    <3>1. CASE Users(tail) # {}
      <4>1. Users(tail) \in SUBSET Nat
        OBVIOUS
      <4>2. PICK k : k = Min(Users(tail))
        OBVIOUS
      <4>3. k \in 1..max
        <5>1. Min(Users(tail)) \in Users(tail)
          BY <3>1, <4>1, LeastElement
        <5> QED
          BY <2>2, <4>2, <5>1
      <4>4. aligned = From(tail, k)
        BY <3>1, <4>2
      <4>5. From(tail, k) = SubSeq(s, p + k - 1, n)
        <5>1. k \in 1..n - p + 2
          BY <2>1, <4>3
        <5>2. SubSeq(SubSeq(s, p, n), k, n - p + 1) = SubSeq(s, p + k - 1, n)
          BY <2>1, <5>1, WindowOfWindow
        <5>3. From(tail, k) = SubSeq(tail, k, max) /\ tail = SubSeq(s, p, n)
          BY <2>2 DEF From
        <5> QED
          BY <2>1, <5>2, <5>3
      <4>6. p + k - 1 \in 1..n + 1 /\ p + k - 1 <= n + 1
        BY <1>1, <2>1, <4>3
      <4>7. PICK c \in 1..n + 1 : c <= n + 1 /\ aligned = SubSeq(s, c, n)
        BY <4>4, <4>5, <4>6
      <4> HIDE DEF aligned, tail, p
      <4> QED
        BY <2>1, <4>7
    <3>2. CASE Users(tail) = {} /\ Users(s) # {}
      <4>1. Users(s) \in SUBSET (0..n)
        OBVIOUS
      <4>2. PICK k : k = u
        OBVIOUS
      <4>3. k \in 1..n /\ \A i \in 1..n : IsUser(s[i]) => i <= k
        <5>1. Max(Users(s)) \in Users(s) /\ \A y \in Users(s) : y <= Max(Users(s))
          BY <1>1, <3>2, <4>1, GreatestElement
        <5> QED
          BY <4>2, <5>1
      <4>4. k < p
        <5>1. SUFFICES ASSUME k >= p PROVE FALSE
          BY <1>1, <4>3
        <5>2. k - p + 1 \in 1..max /\ p + (k - p + 1) - 1 = k
          BY <1>1, <4>3, <5>1
        <5>3. IsUser(s[k])
          <6>1. Max(Users(s)) \in Users(s)
            BY <1>1, <3>2, <4>1, GreatestElement
          <6> QED
            BY <4>2, <6>1
        <5>4. IsUser(tail[k - p + 1])
          BY <2>2, <5>2, <5>3
        <5>5. k - p + 1 \in Users(tail)
          BY <2>2, <5>2, <5>4
        <5> QED
          BY <3>2, <5>5
      <4>5. Min({k + max - 1, n}) = k + max - 1
        <5>1. {k + max - 1, n} \in SUBSET Nat /\ {k + max - 1, n} # {} /\ k + max - 1 <= n
          BY <1>1, <4>3, <4>4
        <5>2. Min({k + max - 1, n}) \in {k + max - 1, n} /\ Min({k + max - 1, n}) <= k + max - 1
          BY <5>1, LeastElement
        <5> QED
          BY <1>1, <4>3, <5>1, <5>2
      <4>6. aligned = SubSeq(s, k, k + max - 1)
        BY <3>2, <4>2, <4>5
      <4>7. /\ k \in 1..n + 1 /\ k + max - 1 \in 0..n /\ k <= k + max - 1 + 1
            /\ max > 1 => k + max - 1 > k /\ k + max - 1 \in 1..n
        BY <1>1, <4>3, <4>4
      <4>8. max > 1 => ~IsUser(s[k + max - 1])
        BY <4>3, <4>7
      <4>9. PICK d \in 0..n : k <= d + 1 /\ aligned = SubSeq(s, k, d) /\ (max > 1 => ~IsUser(s[d]))
        BY <4>6, <4>7, <4>8
      <4> HIDE DEF aligned
      <4> QED
        BY <4>7, <4>9
    <3>3. CASE Users(tail) = {} /\ Users(s) = {}
      <4>1. aligned = SubSeq(s, p, n)
        BY <3>3 DEF From
      <4>2. PICK c \in 1..n + 1 : c <= n + 1 /\ aligned = SubSeq(s, c, n)
        BY <2>1, <4>1
      <4> HIDE DEF aligned, tail, p
      <4> QED
        BY <2>1, <4>2
    <3> QED
      BY <3>1, <3>2, <3>3
  <2> HIDE DEF aligned, tail, p
  <2>5. PICK a \in 1..n + 1, b \in 0..n :
          a <= b + 1 /\ aligned = SubSeq(s, a, b) /\ (max > 1 /\ a <= b /\ b < n => ~IsUser(s[b]))
    BY <2>4
  <2>6. PICK c \in a..b + 1 :
          /\ From(SubSeq(s, a, b), LegalStart(SubSeq(s, a, b)) + 1) = SubSeq(s, c, b)
          /\ c <= b => ~IsTool(s[c])
    BY <2>5, LegalWindow
  <2>7. c \in 1..n + 1 /\ c <= b + 1 /\ (c <= b => a <= b)
    BY <1>1, <2>5, <2>6
  <2> QED
    BY <2>3, <2>5, <2>6, <2>7
<1> QED
  BY <1>1, <1>2, <1>3

\* Where the members of two joined lists come from.
LEMMA Joined ==
  ASSUME NEW S, NEW s \in Seq(S), NEW t \in Seq(S)
  PROVE  /\ s \o t \in Seq(S) /\ Len(s \o t) = Len(s) + Len(t)
         /\ \A i \in 1..Len(s \o t) :
              (i \in 1..Len(s) /\ (s \o t)[i] = s[i]) \/ \E j \in 1..Len(t) : (s \o t)[i] = t[j]
         /\ t # <<>> => Len(t) \in 1..Len(t) /\ s \o t # <<>> /\ (s \o t)[Len(s \o t)] = t[Len(t)]
<1>1. PICK u : u = s \o t
  OBVIOUS
<1>2. PICK n \in Nat, m \in Nat : n = Len(s) /\ m = Len(t)
  OBVIOUS
<1>3. /\ u \in Seq(S) /\ Len(u) = n + m
      /\ \A i \in 1..n : u[i] = s[i]
      /\ \A j \in 1..m : u[n + j] = t[j]
  BY <1>1, <1>2
<1>4. ASSUME NEW i \in 1..n + m, i \notin 1..n PROVE \E j \in 1..m : u[i] = t[j]
  <2>1. i - n \in 1..m /\ n + (i - n) = i
    BY <1>4
  <2>2. PICK j \in 1..m : n + j = i
    BY <2>1
  <2> QED
    BY <1>3, <2>2
<1>5. t # <<>> => m \in 1..m /\ u # <<>> /\ u[n + m] = t[m]
  BY <1>2, <1>3
<1> QED
  BY <1>1, <1>2, <1>3, <1>4, <1>5

\* An archive that grows keeps what is legal.
LEMMA LegalInLarger ==
  ASSUME NEW s, NEW a, NEW b, a \subseteq b
  PROVE  /\ Linked(s, a) => Linked(s, b)
         /\ Concluded(s, a) => Concluded(s, b)
         /\ Legal(s, a) => Legal(s, b)
<1>1. Linked(s, a) => Linked(s, b)
  BY DEF Linked, Link
<1>2. Concluded(s, a) => Concluded(s, b)
  BY DEF Concluded
<1> QED
  BY <1>1, <1>2 DEF Legal

LEMMA WindowLinked ==
  ASSUME NEW s \in Seq(Messages), NEW a, Linked(s, a), Distinct(s),
         NEW c \in 1..Len(s) + 1, NEW b \in 0..Len(s), c <= b + 1
  PROVE  Linked(SubSeq(s, c, b), a) /\ Distinct(SubSeq(s, c, b))
<1> DEFINE w == SubSeq(s, c, b)
           n == b - c + 1
<1>1. Len(s) \in Nat /\ n \in Nat
  OBVIOUS
<1>2. Len(w) = n /\ \A i \in 1..n : w[i] = s[c + i - 1] /\ c + i - 1 \in 1..Len(s)
  BY Window
<1> HIDE DEF w
<1>3. Linked(w, a)
  <2> SUFFICES ASSUME NEW i \in 1..n - 1 PROVE Link(w[i], w[i + 1], a)
    BY <1>2 DEF Linked
  <2>1. i \in 1..n /\ i + 1 \in 1..n /\ c + (i + 1) - 1 = (c + i - 1) + 1 /\ c + i - 1 \in 1..Len(s) - 1
    BY <1>1, <1>2
  <2>2. Link(s[c + i - 1], s[(c + i - 1) + 1], a)
    BY <2>1 DEF Linked
  <2>3. w[i] = s[c + i - 1] /\ w[i + 1] = s[(c + i - 1) + 1]
    BY <1>2, <2>1
  <2> QED
    BY <2>2, <2>3
<1>4. Distinct(w)
  <2> SUFFICES ASSUME NEW i \in 1..n, NEW j \in 1..n, i # j PROVE Apart(w[i], w[j])
    BY <1>2 DEF Distinct
  <2>1. c + i - 1 \in 1..Len(s) /\ c + j - 1 \in 1..Len(s) /\ c + i - 1 # c + j - 1
    BY <1>1, <1>2
  <2>2. Apart(s[c + i - 1], s[c + j - 1])
    BY <2>1 DEF Distinct
  <2> QED
    BY <1>2, <2>2
<1> QED
  BY <1>3, <1>4 DEF w

\* One legal list after another.
LEMMA ConcatLegal ==
  ASSUME NEW s \in Seq(Messages), NEW t \in Seq(Messages), NEW a,
         Legal(s, a), Legal(t, a),
         Room /\ s # <<>> /\ t # <<>> => ~(s[Len(s)].kind \in Opening /\ t[1].kind \in Opening),
         \A i \in 1..Len(s), j \in 1..Len(t) : Apart(s[i], t[j])
  PROVE  Legal(s \o t, a)
<1> DEFINE u == s \o t
           n == Len(s)
           m == Len(t)
<1>1. n \in Nat /\ m \in Nat /\ (n = 0 <=> s = <<>>) /\ (m = 0 <=> t = <<>>)
  OBVIOUS
<1>2. /\ u \in Seq(Messages) /\ Len(u) = n + m
      /\ \A i \in 1..n : u[i] = s[i]
      /\ \A j \in 1..m : u[n + j] = t[j]
  OBVIOUS
<1>a. \A i \in 1..n + m : i \in 1..n \/ (i - n \in 1..m /\ u[i] = t[i - n])
  <2> TAKE i \in 1..n + m
  <2>1. i \in 1..n \/ (i - n \in 1..m /\ n + (i - n) = i)
    BY <1>1
  <2> QED
    BY <1>2, <2>1
<1> HIDE DEF u
<1>3. Linked(u, a)
  <2> SUFFICES ASSUME NEW i \in 1..n + m - 1 PROVE Link(u[i], u[i + 1], a)
    BY <1>2 DEF Linked
  <2>1. CASE i \in 1..n - 1
    <3>1. i \in 1..n /\ i + 1 \in 1..n
      BY <1>1, <2>1
    <3>2. Link(s[i], s[i + 1], a)
      BY <2>1 DEF Legal, Linked
    <3> QED
      BY <1>2, <3>1, <3>2
  <2>2. CASE i = n
    <3>1. n \in 1..n /\ 1 \in 1..m /\ s # <<>> /\ t # <<>>
      BY <1>1, <2>2
    <3>2. u[i] = s[n] /\ u[i + 1] = t[1]
      BY <1>2, <2>2, <3>1
    <3>3. ~IsTool(t[1])
      BY <3>1 DEF Legal, Headed
    <3>4. s[n].kind = "call" => \E r \in a : Declares(s[n], r)
      BY <3>1 DEF Legal, Concluded
    <3>5. Link(s[n], t[1], a)
      BY <3>1, <3>3, <3>4 DEF Link
    <3> QED
      BY <3>2, <3>5
  <2>3. CASE i - n \in 1..m - 1
    <3>1. i - n \in 1..m /\ i - n + 1 \in 1..m /\ n + (i - n) = i /\ n + (i - n + 1) = i + 1
      BY <1>1, <2>3
    <3>2. Link(t[i - n], t[i - n + 1], a)
      BY <2>3 DEF Legal, Linked
    <3>3. PICK j \in 1..m : j = i - n
      BY <3>1
    <3>4. u[i] = t[j] /\ u[i + 1] = t[j + 1]
      <4>1. j + 1 \in 1..m /\ n + j = i /\ n + (j + 1) = i + 1
        BY <3>1, <3>3
      <4>2. u[n + j] = t[j] /\ u[n + (j + 1)] = t[j + 1]
        BY <1>2, <4>1
      <4> QED
        BY <4>1, <4>2, Zenon
    <3> QED
      BY <3>2, <3>3, <3>4
  <2>4. i \in 1..n - 1 \/ i = n \/ i - n \in 1..m - 1
    BY <1>1
  <2> QED
    BY <2>1, <2>2, <2>3, <2>4
<1>4. Distinct(u)
  <2> SUFFICES ASSUME NEW i \in 1..n + m, NEW j \in 1..n + m, i # j PROVE Apart(u[i], u[j])
    BY <1>2 DEF Distinct
  <2>1. \A x, y : Apart(x, y) => Apart(y, x)
    BY DEF Apart
  <2>2. CASE i \in 1..n /\ j \in 1..n
    BY <1>2, <2>2 DEF Legal, Distinct
  <2>3. CASE i \in 1..n /\ j \notin 1..n
    <3>1. j - n \in 1..m /\ u[j] = t[j - n] /\ u[i] = s[i]
      BY <1>2, <1>a, <2>3
    <3> QED
      BY <2>3, <3>1
  <2>4. CASE i \notin 1..n /\ j \in 1..n
    <3>1. i - n \in 1..m /\ u[i] = t[i - n] /\ u[j] = s[j]
      BY <1>2, <1>a, <2>4
    <3>2. Apart(s[j], t[i - n])
      BY <2>4, <3>1
    <3> QED
      BY <2>1, <3>1, <3>2
  <2>5. CASE i \notin 1..n /\ j \notin 1..n
    <3>1. i - n \in 1..m /\ u[i] = t[i - n] /\ j - n \in 1..m /\ u[j] = t[j - n]
      BY <1>a, <2>5
    <3>2. i - n # j - n
      BY <1>1
    <3>3. Apart(t[i - n], t[j - n])
      BY <3>1, <3>2 DEF Legal, Distinct
    <3> QED
      BY <3>1, <3>3
  <2> QED
    BY <2>2, <2>3, <2>4, <2>5
<1>5. Headed(u)
  <2> SUFFICES ASSUME u # <<>> PROVE ~IsTool(u[1])
    BY DEF Headed
  <2>1. CASE n # 0
    <3>1. 1 \in 1..n
      BY <1>1, <2>1
    <3> QED
      BY <1>1, <1>2, <2>1, <3>1 DEF Legal, Headed
  <2>2. CASE n = 0
    <3>1. m # 0
      BY <1>1, <1>2, <2>2
    <3>2. 1 \in 1..m /\ n + 1 = 1
      BY <1>1, <2>2, <3>1
    <3>3. u[1] = t[1]
      BY <1>2, <3>2
    <3> QED
      BY <1>1, <3>1, <3>3 DEF Legal, Headed
  <2> QED
    BY <2>1, <2>2
<1>6. Concluded(u, a)
  <2> SUFFICES ASSUME u # <<>>, u[n + m].kind = "call" PROVE \E r \in a : Declares(u[n + m], r)
    BY <1>2 DEF Concluded
  <2>1. CASE m # 0
    <3>1. m \in 1..m
      BY <1>1, <2>1
    <3>2. u[n + m] = t[m]
      BY <1>2, <3>1
    <3> QED
      BY <1>1, <2>1, <3>2 DEF Legal, Concluded
  <2>2. CASE m = 0
    <3>1. n # 0
      BY <1>1, <1>2, <2>2
    <3>2. n \in 1..n /\ n + m = n
      BY <1>1, <2>2, <3>1
    <3>3. u[n + m] = s[n]
      BY <1>2, <3>2
    <3> QED
      BY <1>1, <3>1, <3>3 DEF Legal, Concluded
  <2> QED
    BY <2>1, <2>2
<1> QED
  BY <1>3, <1>4, <1>5, <1>6 DEF Legal, u

\* Appending one message that is neither a call nor a result.
LEMMA AppendLegal ==
  ASSUME NEW s \in Seq(Messages), NEW m \in Messages, NEW a, Legal(s, a),
         m.kind \notin {"call", "result", "lost"},
         Room /\ s # <<>> /\ m.kind \in Opening => s[Len(s)].kind \notin Opening,
         \A i \in 1..Len(s) : Apart(s[i], m)
  PROVE  Legal(Append(s, m), a)
<1> DEFINE t == <<m>>
<1>1. t \in Seq(Messages) /\ Len(t) = 1 /\ t[1] = m /\ Append(s, m) = s \o t
  OBVIOUS
<1> HIDE DEF t
<1>2. Legal(t, a)
  <2>1. 1..1 - 1 = {} /\ \A i, j \in 1..1 : i = j
    OBVIOUS
  <2> QED
    BY <1>1, <2>1 DEF Legal, Linked, Distinct, Headed, Concluded, IsTool
<1>3. \A i \in 1..Len(s), j \in 1..Len(t) : Apart(s[i], t[j])
  BY <1>1
<1> QED
  BY <1>1, <1>2, <1>3, ConcatLegal

\* What the file cap leaves is legal when what it takes away is in the archive.
LEMMA RetainLegal ==
  ASSUME NEW s \in Seq(Messages), NEW a, Legal(s, a), NEW max \in Nat \ {0},
         \A i \in 1..Len(s) : s[i].turn = 0 => s[i] = Closing
  PROVE  LET w == RetainRecent(s, max)
         IN  /\ w \in Seq(Messages)
             /\ \A i \in 1..Len(w) : \E j \in 1..Len(s) : w[i] = s[j]
             /\ Legal(w, a \union (Range(s) \ Range(w)))
             /\ max > 1 /\ w # <<>> =>
                  s # <<>> /\ (w[Len(w)] = s[Len(s)] \/ ~IsUser(w[Len(w)]))
<1>1. Paired(s)
  <2> SUFFICES ASSUME NEW j \in 2..Len(s), IsTool(s[j]) PROVE Declares(s[j - 1], s[j])
    BY DEF Paired
  <2>1. PICK i \in 1..Len(s) - 1 : i = j - 1
    OBVIOUS
  <2>2. i + 1 = j
    BY <2>1
  <2>3. Link(s[i], s[i + 1], a)
    BY DEF Legal, Linked
  <2> QED
    BY <2>1, <2>2, <2>3 DEF Link
<1>2. PICK c \in 1..Len(s) + 1, b \in 0..Len(s) :
        /\ c <= b + 1 /\ RetainRecent(s, max) = SubSeq(s, c, b)
        /\ c <= b => ~IsTool(s[c])
        /\ max > 1 /\ c <= b /\ b < Len(s) => ~IsUser(s[b])
  BY <1>1, RetainWindow DEF Legal
<1>3. PICK w : w = SubSeq(s, c, b)
  OBVIOUS
<1>4. PICK n \in Nat : n = b - c + 1
  BY <1>2
<1>5. /\ w \in Seq(Messages) /\ Len(w) = n
      /\ \A i \in 1..n : w[i] = s[c + i - 1] /\ c + i - 1 \in 1..Len(s)
  BY <1>2, <1>3, <1>4, Window
<1>6. w # <<>> => n \in 1..n /\ 1 \in 1..n /\ w[n] = s[b] /\ w[1] = s[c] /\ c <= b /\ b \in 1..Len(s)
  <2> SUFFICES ASSUME w # <<>>
               PROVE  n \in 1..n /\ 1 \in 1..n /\ w[n] = s[b] /\ w[1] = s[c] /\ c <= b /\ b \in 1..Len(s)
    OBVIOUS
  <2>1. n # 0
    BY <1>5
  <2>2. n \in 1..n /\ 1 \in 1..n /\ c + n - 1 = b /\ c + 1 - 1 = c /\ c <= b /\ b \in 1..Len(s)
    BY <1>2, <1>4, <2>1
  <2>3. w[n] = s[c + n - 1] /\ w[1] = s[c + 1 - 1]
    BY <1>5, <2>2
  <2> QED
    BY <2>2, <2>3
<1>7. \A i \in 1..n : \E j \in 1..Len(s) : w[i] = s[j]
  BY <1>5
<1>8. Legal(w, a \union (Range(s) \ Range(w)))
  <2>1. Linked(w, a) /\ Distinct(w)
    BY <1>2, <1>3, WindowLinked DEF Legal
  <2>2. Linked(w, a \union (Range(s) \ Range(w)))
    BY <2>1, LegalInLarger
  <2>3. Headed(w)
    BY <1>2, <1>6 DEF Headed
  <2>4. Concluded(w, a \union (Range(s) \ Range(w)))
    <3> SUFFICES ASSUME w # <<>>, s[b].kind = "call"
                 PROVE  \E r \in a \union (Range(s) \ Range(w)) : Declares(s[b], r)
      BY <1>5, <1>6 DEF Concluded
    <3>1. CASE b = Len(s)
      <4>1. s # <<>>
        BY <1>6
      <4> QED
        BY <3>1, <4>1 DEF Legal, Concluded
    <3>2. CASE b < Len(s)
      <4>1. b \in 1..Len(s) - 1 /\ b + 1 \in 1..Len(s)
        BY <1>6, <3>2
      <4>2. Link(s[b], s[b + 1], a)
        BY <4>1 DEF Legal, Linked
      <4>3. CASE Declares(s[b], s[b + 1])
        <5>1. s[b + 1] \in Range(s)
          BY <4>1 DEF Range
        <5>2. s[b + 1] \notin Range(w)
          <6> SUFFICES ASSUME NEW i \in 1..n, w[i] = s[b + 1] PROVE FALSE
            BY <1>5 DEF Range
          <6>1. PICK k \in 1..Len(s) : k = c + i - 1 /\ w[i] = s[k]
            BY <1>5
          <6>2. k # b + 1
            BY <1>4, <6>1
          <6>3. Apart(s[k], s[b + 1])
            BY <4>1, <6>2 DEF Legal, Distinct
          <6>4. s[b + 1].turn # 0
            BY <4>1, <4>3 DEF Closing, Msg, Declares, IsTool
          <6> QED
            BY <6>1, <6>3, <6>4 DEF Apart
        <5> QED
          BY <4>3, <5>1, <5>2
      <4> QED
        BY <3>2, <4>2, <4>3 DEF Link
    <3> QED
      BY <1>6, <3>1, <3>2
  <2> QED
    BY <2>1, <2>2, <2>3, <2>4 DEF Legal
<1>9. max > 1 /\ w # <<>> => s # <<>> /\ (w[Len(w)] = s[Len(s)] \/ ~IsUser(w[Len(w)]))
  <2> SUFFICES ASSUME max > 1, w # <<>>
               PROVE  s # <<>> /\ (s[b] = s[Len(s)] \/ ~IsUser(s[b]))
    BY <1>5, <1>6
  <2>1. s # <<>> /\ (b = Len(s) \/ b < Len(s))
    BY <1>6
  <2> QED
    BY <1>2, <1>6, <2>1
<1> QED
  BY <1>2, <1>3, <1>5, <1>7, <1>8, <1>9

\* A list does not overlap one that begins with a message it does not hold.
LEMMA NoOverlap ==
  ASSUME NEW s \in Seq(Messages), NEW t \in Seq(Messages), t # <<>>,
         \A i \in 1..Len(s) : s[i] # t[1]
  PROVE  Overlap(s, t) = 0
<1> DEFINE M == Min({Len(s), Len(t)})
           N == {n \in 0..M : From(s, Len(s) - n + 1) = SubSeq(t, 1, n)}
<1>0. Len(s) \in Nat /\ Len(t) \in Nat
  OBVIOUS
<1>1. M \in Nat /\ M <= Len(s) /\ M <= Len(t)
  <2>1. {Len(s), Len(t)} \in SUBSET Nat /\ {Len(s), Len(t)} # {}
    BY <1>0
  <2> QED
    BY <1>0, <2>1, LeastElement
<1> HIDE DEF M
<1>2. 0 \in N
  <2>1. 0 \in 0..M
    BY <1>1
  <2>2. From(s, Len(s) - 0 + 1) = <<>> /\ SubSeq(t, 1, 0) = <<>>
    BY <1>0 DEF From
  <2> QED
    BY <2>1, <2>2
<1>3. ASSUME NEW n \in 1..M, From(s, Len(s) - n + 1) = SubSeq(t, 1, n) PROVE FALSE
  <2>0. Len(s) - n + 1 \in 1..Len(s)
    BY <1>0, <1>1
  <2>1. PICK p \in 1..Len(s) : p = Len(s) - n + 1
    BY <2>0
  <2>2. 1 \in 1..Len(t) + 1 /\ n \in 0..Len(t) /\ 1 <= n + 1 /\ 1 \in 1..n - 1 + 1
    BY <1>0, <1>1
  <2>3. SubSeq(t, 1, n)[1] = t[1 + 1 - 1]
    BY <2>2, Window
  <2>4. /\ p \in 1..Len(s) + 1 /\ Len(s) \in 0..Len(s) /\ p <= Len(s) + 1
        /\ 1 \in 1..Len(s) - p + 1 /\ p + 1 - 1 = p
    BY <1>0, <1>1, <2>1
  <2>5. SubSeq(s, p, Len(s))[1] = s[p + 1 - 1]
    BY <2>4, Window
  <2>6. s[p] = t[1]
    BY <1>3, <2>1, <2>3, <2>4, <2>5 DEF From
  <2> QED
    BY <2>1, <2>6
<1>4. N = {0}
  <2>1. \A n \in N : n = 0
    <3> SUFFICES ASSUME NEW n \in N, n # 0 PROVE FALSE
      OBVIOUS
    <3>1. n \in 1..M
      BY <1>1
    <3> QED
      BY <1>3, <3>1
  <2> HIDE DEF N
  <2> QED
    BY <1>2, <2>1
<1>5. Overlap(s, t) = Max(N)
  BY DEF Overlap, M
<1>6. Max({0}) \in {0}
  <2>1. {0} \in SUBSET (0..0) /\ {0} # {} /\ 0 \in Nat
    OBVIOUS
  <2> QED
    BY <2>1, GreatestElement
<1> HIDE DEF N
<1> QED
  BY <1>4, <1>5, <1>6

-----------------------------------------------------------------------------
(* Stores: what appends, restores and saves keep.                           *)

Old(s, n) == \A i \in 1..Len(s) : s[i].turn <= n /\ (s[i].turn = 0 => s[i] = Closing)

LEMMA Empty == \A a : Legal(<<>>, a)
  BY DEF Legal, Linked, Distinct, Headed, Concluded

\* A store stays legal when the turn comes to rest or the next one begins.
LEMMA Settled ==
  ASSUME NEW st \in Stores, NEW t \in Turns, NEW u \in Turns, NEW a,
         Legal(st.msgs, a), Old(st.msgs, t.n), CheckpointLegal(st, t.n), Marked(st),
         (u.n = t.n /\ u.stage \in {"idle", "respond"}) \/ u.n = t.n + 1
  PROVE  StoreLegal(st, u, a)
<1>1. t.n \in Nat /\ u.n \in Nat /\ t.n <= u.n
  BY Numbers DEF Turns
<1>2. st.msgs \in Seq(Messages)
  BY DEF Stores
<1>3. CheckpointLegal(st, u.n)
  BY <1>1 DEF CheckpointLegal
<1>4. ASSUME NEW i \in 1..Len(st.msgs) PROVE Placed(st.msgs[i], u)
  <2>1. PICK m \in Messages : m = st.msgs[i]
    BY <1>2
  <2>2. m.turn \in Nat /\ m.turn <= t.n /\ (m.turn = 0 => m = Closing)
    BY <2>1, Numbers DEF Old, Messages
  <2>3. Placed(m, u)
    BY <1>1, <2>2 DEF Placed
  <2> QED
    BY <2>1, <2>3
<1> QED
  BY <1>3, <1>4 DEF StoreLegal

LEMMA StoreOld ==
  ASSUME NEW st, NEW t, NEW a, StoreLegal(st, t, a)
  PROVE  Old(st.msgs, t.n)
  BY DEF StoreLegal, Placed, Old

\* A store that does not change stays legal beside a turn at rest and a larger archive.
LEMMA StoreAtRest ==
  ASSUME NEW st \in Stores, NEW t \in Turns, NEW u \in Turns, NEW a, NEW b, a \subseteq b,
         StoreLegal(st, t, a),
         (u.n = t.n /\ u.stage \in {"idle", "respond"}) \/ u.n = t.n + 1
  PROVE  StoreLegal(st, u, b)
<1>1. Old(st.msgs, t.n)
  BY StoreOld
<1>2. Legal(st.msgs, b) /\ CheckpointLegal(st, t.n) /\ Marked(st)
  BY LegalInLarger DEF StoreLegal
<1> QED
  BY <1>1, <1>2, Settled

\* What is said in one response, or restored of it.
Responses(n, k) ==
  {<<Msg("answer", n, k)>>,
   <<Msg("call", n, k), Msg("result", n, k)>>,
   <<Msg("call", n, k), Msg("lost", n, k)>>,
   <<Msg("call", n, k), Msg("result", n, k), Msg("answer", n, k)>>}

LEMMA ResponseLegal ==
  ASSUME NEW n \in 0..MaxTurns, NEW k \in Iterations, NEW t \in Responses(n, k)
  PROVE  /\ t \in Seq(Messages) /\ t # <<>> /\ Legal(t, {})
         /\ \A i \in 1..Len(t) :
              t[i].turn = n /\ t[i].iter = k /\ t[i].kind \in {"call", "result", "lost", "answer"}
<1> DEFINE Of(m, kind) == m.turn = n /\ m.iter = k /\ m.kind = kind
<1>1. \A kind \in Kinds : Msg(kind, n, k) \in Messages /\ Of(Msg(kind, n, k), kind)
  BY MsgTyped DEF Msg
<1>2. ASSUME NEW x, NEW y, Of(x, "call"), Of(y, "result") \/ Of(y, "lost")
      PROVE  Link(x, y, {}) /\ Apart(x, y) /\ Apart(y, x)
  BY <1>2 DEF Link, Apart, Declares, IsTool, Opening
<1>3. ASSUME NEW x, NEW y, Of(x, "result"), Of(y, "answer")
      PROVE  Link(x, y, {}) /\ Apart(x, y) /\ Apart(y, x)
  BY <1>3 DEF Link, Apart, Declares, IsTool, Opening
<1>4. ASSUME NEW x, NEW y, Of(x, "call"), Of(y, "answer")
      PROVE  Apart(x, y) /\ Apart(y, x)
  BY <1>4 DEF Apart, IsTool
<1>5. ASSUME NEW x \in Messages, Of(x, "answer"), t = <<x>>
      PROVE  /\ t \in Seq(Messages) /\ t # <<>> /\ Legal(t, {})
             /\ \A i \in 1..Len(t) : Of(t[i], "answer")
  <2>1. Len(t) = 1 /\ t[1] = x /\ t \in Seq(Messages) /\ t # <<>>
    BY <1>5
  <2>2. 1..1 - 1 = {} /\ \A i \in 1..1 : i = 1
    OBVIOUS
  <2>3. Linked(t, {}) /\ Distinct(t) /\ Headed(t) /\ Concluded(t, {})
    BY <1>5, <2>1, <2>2 DEF Linked, Distinct, Headed, Concluded, IsTool
  <2>4. \A i \in 1..Len(t) : Of(t[i], "answer")
    BY <1>5, <2>1, <2>2, Zenon
  <2> QED
    BY <2>1, <2>3, <2>4 DEF Legal
<1>6. ASSUME NEW x \in Messages, NEW y \in Messages, Of(x, "call"),
             Of(y, "result") \/ Of(y, "lost"), t = <<x, y>>
      PROVE  /\ t \in Seq(Messages) /\ t # <<>> /\ Legal(t, {})
             /\ \A i \in 1..Len(t) : Of(t[i], "call") \/ Of(t[i], "result") \/ Of(t[i], "lost")
  <2>1. Len(t) = 2 /\ t[1] = x /\ t[2] = y /\ t \in Seq(Messages) /\ t # <<>>
    BY <1>6
  <2>2. \A i \in 1..2 - 1 : i = 1 /\ i + 1 = 2
    OBVIOUS
  <2>3. \A i \in 1..2 : i = 1 \/ i = 2
    OBVIOUS
  <2>4. Link(x, y, {}) /\ Apart(x, y) /\ Apart(y, x)
    BY <1>2, <1>6
  <2>5. Linked(t, {}) /\ Distinct(t)
    <3>1. Linked(t, {})
      BY <2>1, <2>2, <2>4 DEF Linked
    <3>2. Distinct(t)
      BY <2>1, <2>3, <2>4 DEF Distinct
    <3> QED
      BY <3>1, <3>2
  <2>6. Headed(t) /\ Concluded(t, {})
    BY <1>6, <2>1 DEF Headed, Concluded, IsTool
  <2>7. \A i \in 1..Len(t) : Of(t[i], "call") \/ Of(t[i], "result") \/ Of(t[i], "lost")
    BY <1>6, <2>1, <2>3, Zenon
  <2> QED
    BY <2>1, <2>5, <2>6, <2>7 DEF Legal
<1>7. ASSUME NEW x \in Messages, NEW y \in Messages, NEW z \in Messages,
             Of(x, "call"), Of(y, "result"), Of(z, "answer"), t = <<x, y, z>>
      PROVE  /\ t \in Seq(Messages) /\ t # <<>> /\ Legal(t, {})
             /\ \A i \in 1..Len(t) : Of(t[i], "call") \/ Of(t[i], "result") \/ Of(t[i], "answer")
  <2>1. Len(t) = 3 /\ t[1] = x /\ t[2] = y /\ t[3] = z /\ t \in Seq(Messages) /\ t # <<>>
    BY <1>7
  <2>2. \A i \in 1..3 - 1 : (i = 1 /\ i + 1 = 2) \/ (i = 2 /\ i + 1 = 3)
    OBVIOUS
  <2>3. \A i \in 1..3 : i = 1 \/ i = 2 \/ i = 3
    OBVIOUS
  <2>4. /\ Link(x, y, {}) /\ Apart(x, y) /\ Apart(y, x)
        /\ Link(y, z, {}) /\ Apart(y, z) /\ Apart(z, y)
        /\ Apart(x, z) /\ Apart(z, x)
    BY <1>2, <1>3, <1>4, <1>7
  <2>5. Linked(t, {}) /\ Distinct(t)
    <3>1. Linked(t, {})
      BY <2>1, <2>2, <2>4 DEF Linked
    <3>2. Distinct(t)
      BY <2>1, <2>3, <2>4 DEF Distinct
    <3> QED
      BY <3>1, <3>2
  <2>6. Headed(t) /\ Concluded(t, {})
    BY <1>7, <2>1 DEF Headed, Concluded, IsTool
  <2>7. \A i \in 1..Len(t) : Of(t[i], "call") \/ Of(t[i], "result") \/ Of(t[i], "answer")
    BY <1>7, <2>1, <2>3, Zenon
  <2> QED
    BY <2>1, <2>5, <2>6, <2>7 DEF Legal
<1>8. {"call", "result", "lost", "answer"} \subseteq Kinds
  BY DEF Kinds
<1> QED
  BY <1>1, <1>5, <1>6, <1>7, <1>8 DEF Responses

\* _restore_runtime_checkpoint adds the one response that the checkpoint stands for.
LEMMA RestoreLegal ==
  ASSUME NEW st \in Stores, NEW t \in Turns, NEW a, StoreLegal(st, t, a), st.ckpt # NoCheckpoint
  PROVE  LET r == RestoreCheckpoint(st)
         IN  /\ r \in Stores /\ Legal(r.msgs, a) /\ Old(r.msgs, t.n) /\ Answered(r.msgs)
             /\ CheckpointLegal(r, t.n) /\ r.ckpt = NoCheckpoint
<1>1. PICK c : c = st.ckpt
  OBVIOUS
<1>2. c \in Checkpoints /\ c.turn \in 0..MaxTurns /\ c.turn # 0 /\ c.turn <= t.n /\ c.iter \in Iterations
      /\ c.iter # 0 /\ st.msgs \in Seq(Messages)
  BY <1>1, Numbers DEF StoreLegal, CheckpointLegal, Stores, Checkpoints
<1>3. PICK r : r = Restored(c)
  OBVIOUS
<1>4. r \in Responses(c.turn, c.iter)
  BY <1>3 DEF Restored, Responses
<1>5. /\ r \in Seq(Messages) /\ r # <<>> /\ Legal(r, {})
      /\ \A i \in 1..Len(r) : /\ r[i].turn = c.turn /\ r[i].iter = c.iter
                              /\ r[i].kind \in {"call", "result", "lost", "answer"}
  BY <1>2, <1>4, ResponseLegal
<1>6. 1 \in 1..Len(r) /\ Len(r) \in 1..Len(r) /\ Len(r) \in Nat
  BY <1>5
<1>7. \A i \in 1..Len(st.msgs) : st.msgs[i].turn = c.turn => st.msgs[i].iter # c.iter
  BY <1>1, <1>2 DEF StoreLegal, CheckpointLegal
<1>8. Overlap(st.msgs, r) = 0
  <2>1. \A i \in 1..Len(st.msgs) : st.msgs[i] # r[1]
    BY <1>5, <1>6, <1>7
  <2> QED
    BY <1>2, <1>5, <2>1, NoOverlap
<1>9. From(r, Overlap(st.msgs, r) + 1) = r
  <2>1. From(r, 1) = r
    BY <1>5 DEF From
  <2> QED
    BY <1>8, <2>1
<1>10. PICK all : all = st.msgs \o r
  OBVIOUS
<1>11. RestoreCheckpoint(st) = [msgs |-> all, pending |-> FALSE, ckpt |-> NoCheckpoint]
  BY <1>1, <1>3, <1>9, <1>10 DEF RestoreCheckpoint
<1>12. /\ all \in Seq(Messages) /\ Len(all) = Len(st.msgs) + Len(r) /\ all # <<>>
       /\ all[Len(all)] = r[Len(r)]
  BY <1>2, <1>5, <1>6, <1>10
<1>13. Legal(all, a)
  <2>1. Legal(r, a) /\ Legal(st.msgs, a)
    BY <1>5, LegalInLarger DEF StoreLegal
  <2>2. \A i \in 1..Len(st.msgs), j \in 1..Len(r) : Apart(st.msgs[i], r[j])
    BY <1>5, <1>7 DEF Apart
  <2>3. r[1].kind \notin Opening
    BY <1>5, <1>6 DEF Opening
  <2> QED
    BY <1>2, <1>5, <1>10, <2>1, <2>2, <2>3, ConcatLegal
<1>14. Old(all, t.n)
  <2> SUFFICES ASSUME NEW i \in 1..Len(all)
               PROVE  all[i].turn <= t.n /\ (all[i].turn = 0 => all[i] = Closing)
    BY DEF Old
  <2>1. CASE i \in 1..Len(st.msgs)
    <3>1. all[i] = st.msgs[i]
      BY <1>2, <1>5, <1>10, <2>1
    <3> QED
      BY <2>1, <3>1, StoreOld DEF Old
  <2>2. CASE i \notin 1..Len(st.msgs)
    <3>1. i - Len(st.msgs) \in 1..Len(r) /\ all[i] = r[i - Len(st.msgs)]
      BY <1>2, <1>5, <1>10, <1>12, <2>2
    <3>2. PICK j \in 1..Len(r) : all[i] = r[j]
      BY <3>1
    <3> QED
      BY <1>2, <1>5, <3>2
  <2> QED
    BY <2>1, <2>2
<1>15. Answered(all)
  BY <1>5, <1>6, <1>12 DEF Answered, Opening
<1> QED
  BY <1>11, <1>12, <1>13, <1>14, <1>15 DEF Stores, CheckpointLegal

\* _restore_pending_user_turn
LEMMA CloseLegal ==
  ASSUME NEW st \in Stores, NEW t \in Turns, NEW a, StoreLegal(st, t, a), st.ckpt = NoCheckpoint
  PROVE  LET r == ClosePending(st)
         IN  /\ r \in Stores /\ Legal(r.msgs, a) /\ Old(r.msgs, t.n) /\ Answered(r.msgs)
             /\ CheckpointLegal(r, t.n)
<1> DEFINE m == IF st.msgs # <<>> /\ IsUser(st.msgs[Len(st.msgs)]) THEN Append(st.msgs, Closing) ELSE st.msgs
<1>1. ClosePending(st) = [st EXCEPT !.pending = FALSE, !.msgs = m]
  BY DEF ClosePending
<1>2. ClosePending(st) \in Stores
  BY CloseTyped
<1>3. ClosePending(st).msgs = m /\ ClosePending(st).ckpt = NoCheckpoint
  BY <1>1 DEF Stores
<1>4. st.msgs \in Seq(Messages) /\ Legal(st.msgs, a) /\ Old(st.msgs, t.n) /\ t.n \in Nat
  <2>1. Old(st.msgs, t.n)
    BY StoreOld
  <2> QED
    BY <2>1, Numbers DEF Stores, StoreLegal, Turns
<1>5. CASE st.msgs # <<>> /\ IsUser(st.msgs[Len(st.msgs)])
  <2>1. m = Append(st.msgs, Closing)
    BY <1>5
  <2>2. Closing.turn = 0 /\ Closing.kind = "closing"
    BY DEF Closing, Msg
  <2>3. \A i \in 1..Len(st.msgs) : Apart(st.msgs[i], Closing)
    BY <2>2 DEF Apart
  <2>4. Legal(Append(st.msgs, Closing), a)
    BY <1>4, <2>2, <2>3, ClosingTyped, AppendLegal DEF Opening
  <2>5. Answered(Append(st.msgs, Closing))
    BY <1>4, <2>2, ClosingTyped DEF Answered, Opening
  <2>6. Old(Append(st.msgs, Closing), t.n)
    <3> SUFFICES ASSUME NEW i \in 1..Len(Append(st.msgs, Closing))
                 PROVE  LET x == Append(st.msgs, Closing)[i]
                        IN  x.turn <= t.n /\ (x.turn = 0 => x = Closing)
      BY DEF Old
    <3>1. (i \in 1..Len(st.msgs) /\ Append(st.msgs, Closing)[i] = st.msgs[i]) \/ Append(st.msgs, Closing)[i] = Closing
      BY <1>4, ClosingTyped
    <3>2. 0 <= t.n
      BY <1>4
    <3> QED
      BY <1>4, <2>2, <3>1, <3>2 DEF Old
  <2> QED
    BY <1>2, <1>3, <2>1, <2>4, <2>5, <2>6 DEF CheckpointLegal
<1>6. CASE ~(st.msgs # <<>> /\ IsUser(st.msgs[Len(st.msgs)]))
  <2>1. m = st.msgs
    BY <1>6
  <2>2. Answered(st.msgs)
    BY <1>6 DEF Answered, IsUser, Opening
  <2> QED
    BY <1>2, <1>3, <1>4, <2>1, <2>2 DEF CheckpointLegal
<1> QED
  BY <1>5, <1>6

\* A cleared session holds nothing that could be illegal.
LEMMA ClearLegal ==
  ASSUME NEW st \in Stores, NEW t \in Turns, NEW a, CheckpointLegal(st, t.n)
  PROVE  LET e == [st EXCEPT !.msgs = <<>>]
         IN  /\ e \in Stores /\ Legal(e.msgs, a) /\ Old(e.msgs, t.n) /\ Marked(e)
             /\ CheckpointLegal(e, t.n)
<1>1. <<>> \in Seq(Messages)
  OBVIOUS
<1>2. [st EXCEPT !.msgs = <<>>] \in Stores
  BY <1>1 DEF Stores
<1>3. [st EXCEPT !.msgs = <<>>].msgs = <<>> /\ [st EXCEPT !.msgs = <<>>].ckpt = st.ckpt
  BY DEF Stores
<1>4. Marked([st EXCEPT !.msgs = <<>>]) /\ Old(<<>>, t.n)
  BY <1>3 DEF Marked, Answered, Old
<1>5. CheckpointLegal([st EXCEPT !.msgs = <<>>], t.n)
  BY <1>3 DEF CheckpointLegal
<1> QED
  BY <1>2, <1>3, <1>4, <1>5, Empty

\* What a turn is begun with: its prompt, a command and its reply, an announcement.
LEMMA AppendStore ==
  ASSUME NEW st \in Stores, NEW t \in Turns, NEW a, StoreLegal(st, t, a),
         NEW m \in Messages, m.turn = t.n, t.n # 0, m.iter = 0,
         m.kind \notin {"call", "result", "lost"},
         Room /\ m.kind \in Opening => Answered(st.msgs),
         NEW u \in Turns, u.n = t.n,
         \/ t.stage = "restored" /\ u.stage = "model"
         \/ t.stage = "restored" /\ u.stage = "replying" /\ m.kind = "command"
         \/ t.stage = "replying" /\ u.stage = "respond" /\ m.kind # "command",
         NEW q \in Stores, q.msgs = Append(st.msgs, m), q.ckpt = st.ckpt,
         m.kind \in Opening => q.pending
  PROVE  StoreLegal(q, u, a)
<1>1. /\ st.msgs \in Seq(Messages) /\ Len(q.msgs) = Len(st.msgs) + 1
      /\ q.msgs[Len(q.msgs)] = m /\ q.msgs # <<>>
      /\ \A i \in 1..Len(q.msgs) : (i \in 1..Len(st.msgs) /\ q.msgs[i] = st.msgs[i]) \/ q.msgs[i] = m
  BY DEF Stores
<1>2. ASSUME NEW i \in 1..Len(st.msgs)
      PROVE  /\ Apart(st.msgs[i], m) /\ Placed(st.msgs[i], u)
             /\ st.ckpt # NoCheckpoint /\ st.msgs[i].turn = st.ckpt.turn => st.msgs[i].iter = 0
  <2>1. Placed(st.msgs[i], t)
    BY DEF StoreLegal
  <2>2. st.msgs[i].turn = t.n => t.stage = "replying" /\ st.msgs[i].kind = "command"
    BY <2>1 DEF Placed
  <2>3. Apart(st.msgs[i], m)
    BY <2>2 DEF Apart, IsTool
  <2>4. Placed(st.msgs[i], u)
    BY <2>1, <2>2 DEF Placed
  <2> QED
    BY <2>3, <2>4 DEF StoreLegal, CheckpointLegal
<1>3. Legal(q.msgs, a)
  BY <1>1, <1>2, AppendLegal DEF StoreLegal, Answered
<1>4. Placed(m, u)
  <2>1. m.turn <= u.n
    BY Numbers DEF Turns
  <2> QED
    BY <2>1 DEF Placed
<1>5. CheckpointLegal(q, u.n)
  <2> SUFFICES ASSUME q.ckpt # NoCheckpoint, NEW i \in 1..Len(q.msgs), q.msgs[i].turn = q.ckpt.turn
               PROVE  q.msgs[i].iter = 0
    BY DEF StoreLegal, CheckpointLegal
  <2> QED
    BY <1>1, <1>2
<1>6. Marked(q)
  BY <1>1 DEF Marked, Answered
<1>7. \A i \in 1..Len(q.msgs) : Placed(q.msgs[i], u)
  BY <1>1, <1>2, <1>4
<1> QED
  BY <1>3, <1>5, <1>6, <1>7 DEF StoreLegal

\* _state_save: what the turn has said goes after what is stored.
LEMMA SavedLegal ==
  ASSUME Inv, Histories, turn.stage = "save"
  PROVE  /\ Legal(Saved.msgs, archived \union Trimmed) /\ Old(Saved.msgs, turn.n)
         /\ CheckpointLegal(Saved, turn.n) /\ Marked(Saved)
<1>1. PICK all : all = session.msgs \o turn.new
  OBVIOUS
<1>2. PICK w : w = RetainRecent(all, FileCap)
  OBVIOUS
<1>3. Saved = [msgs |-> w, pending |-> FALSE, ckpt |-> NoCheckpoint]
  BY <1>1, <1>2 DEF Saved
<1>4. Trimmed = Range(all) \ Range(w)
  BY <1>1, <1>3 DEF Trimmed
<1>5. /\ session.msgs \in Seq(Messages) /\ turn.new \in Seq(Messages) /\ turn.n \in Nat /\ turn.n # 0
      /\ turn.k \in Nat
  BY InvSeqs, TurnNumber, Numbers DEF Turns, Iterations
<1>6. /\ all \in Seq(Messages)
      /\ \A i \in 1..Len(all) : \/ i \in 1..Len(session.msgs) /\ all[i] = session.msgs[i]
                               \/ \E j \in 1..Len(turn.new) : all[i] = turn.new[j]
      /\ turn.new # <<>> => /\ Len(turn.new) \in 1..Len(turn.new)
                            /\ all[Len(all)] = turn.new[Len(turn.new)]
  <2>1. PICK s \in Seq(Messages), new \in Seq(Messages) : s = session.msgs /\ new = turn.new
    BY <1>5
  <2>2. all = s \o new
    BY <1>1, <2>1
  <2>3. /\ all \in Seq(Messages)
        /\ \A i \in 1..Len(all) : \/ i \in 1..Len(s) /\ all[i] = s[i]
                                 \/ \E j \in 1..Len(new) : all[i] = new[j]
        /\ new # <<>> => Len(new) \in 1..Len(new) /\ all[Len(all)] = new[Len(new)]
    BY <2>2, Joined
  <2> QED
    BY <2>1, <2>3
<1>7. \A j \in 1..Len(turn.new) :
        /\ turn.new[j].turn = turn.n /\ turn.new[j].iter # 0 /\ turn.new[j].kind \notin Opening
  BY <1>5 DEF Histories, NewLegal, Said
<1>8. \A i \in 1..Len(session.msgs) :
        /\ session.msgs[i].turn = turn.n => session.msgs[i].iter = 0
        /\ session.msgs[i].turn <= turn.n /\ (session.msgs[i].turn = 0 => session.msgs[i] = Closing)
  BY DEF Histories, StoreLegal, Placed
<1>9. Legal(all, archived)
  <2>1. Legal(session.msgs, archived)
    BY DEF Histories, StoreLegal
  <2>2. Legal(turn.new, {})
    BY DEF Histories, NewLegal, Said, Legal
  <2>3. Legal(turn.new, archived)
    BY <2>2, LegalInLarger
  <2>4. \A i \in 1..Len(session.msgs), j \in 1..Len(turn.new) : Apart(session.msgs[i], turn.new[j])
    BY <1>7, <1>8 DEF Apart
  <2>5. turn.new # <<>> => turn.new[1].kind \notin Opening
    <3>1. turn.new # <<>> => 1 \in 1..Len(turn.new)
      BY <1>5
    <3> QED
      BY <1>7, <3>1
  <2> QED
    BY <1>1, <1>5, <2>1, <2>3, <2>4, <2>5, ConcatLegal
<1>10. Old(all, turn.n)
  BY <1>5, <1>6, <1>7, <1>8 DEF Old
<1>11. /\ w \in Seq(Messages)
       /\ \A i \in 1..Len(w) : \E j \in 1..Len(all) : w[i] = all[j]
       /\ Legal(w, archived \union (Range(all) \ Range(w)))
       /\ FileCap > 1 /\ w # <<>> =>
            all # <<>> /\ (w[Len(w)] = all[Len(all)] \/ ~IsUser(w[Len(w)]))
  BY <1>2, <1>6, <1>9, <1>10, Numbers, RetainLegal DEF Old
<1>12. Old(w, turn.n)
  BY <1>10, <1>11 DEF Old
<1>13. Room => Answered(w)
  <2> SUFFICES ASSUME Room, w # <<>> PROVE w[Len(w)].kind \notin Opening
    BY DEF Answered
  <2>1. turn.new # <<>>
    BY DEF Histories, NewLegal
  <2>2. Len(turn.new) \in 1..Len(turn.new)
    BY <1>6, <2>1
  <2>3. all[Len(all)] = turn.new[Len(turn.new)]
    BY <1>6, <2>1
  <2>4. all[Len(all)].kind \notin Opening
    BY <1>7, <2>2, <2>3
  <2>5. ~IsUser(w[Len(w)]) => w[Len(w)].kind \notin Opening
    BY DEF IsUser, Opening
  <2> QED
    BY <1>11, <2>4, <2>5 DEF Room
<1> QED
  BY <1>3, <1>4, <1>11, <1>12, <1>13 DEF CheckpointLegal, Marked

-----------------------------------------------------------------------------
(* The running turn: what it has said.                                      *)

\* One more response.
LEMMA SaidNext ==
  ASSUME NEW s \in Seq(Messages), NEW n \in Nat \ {0}, NEW k \in Nat, Said(s, n, k), Concluded(s, {}),
         NEW t \in Seq(Messages), Legal(t, {}),
         \A i \in 1..Len(t) : t[i].turn = n /\ t[i].iter = k + 1 /\ t[i].kind \notin Opening
  PROVE  /\ s \o t \in Seq(Messages) /\ Said(s \o t, n, k + 1) /\ Concluded(s \o t, {})
         /\ \A i \in 1..Len(s \o t) : (s \o t)[i].iter = k + 1 => \E j \in 1..Len(t) : (s \o t)[i] = t[j]
<1>1. PICK u : u = s \o t
  OBVIOUS
<1>2. Legal(s, {})
  BY DEF Said, Legal
<1>3. \A i \in 1..Len(s), j \in 1..Len(t) : Apart(s[i], t[j])
  BY DEF Said, Apart
<1>4. t # <<>> => t[1].kind \notin Opening
  <2>1. t # <<>> => 1 \in 1..Len(t)
    OBVIOUS
  <2> QED
    BY <2>1
<1>5. Legal(u, {})
  BY <1>1, <1>2, <1>3, <1>4, ConcatLegal
<1>6. u \in Seq(Messages)
  BY <1>1
<1>7. \A i \in 1..Len(u) : (i \in 1..Len(s) /\ u[i] = s[i]) \/ \E j \in 1..Len(t) : u[i] = t[j]
  BY <1>1, Joined
<1>8. \A i \in 1..Len(s) : s[i].turn = n /\ s[i].iter \in 1..k /\ s[i].kind \notin Opening
  BY DEF Said
<1>9. ASSUME NEW i \in 1..Len(u)
      PROVE  u[i].turn = n /\ u[i].iter \in 1..k + 1 /\ u[i].kind \notin Opening
  <2>1. CASE i \in 1..Len(s) /\ u[i] = s[i]
    <3>1. s[i].turn = n /\ s[i].iter \in 1..k /\ s[i].kind \notin Opening
      BY <1>8, <2>1
    <3>2. s[i].iter \in 1..k + 1
      BY <3>1
    <3> QED
      BY <2>1, <3>1, <3>2
  <2>2. ASSUME NEW j \in 1..Len(t), u[i] = t[j]
        PROVE  u[i].turn = n /\ u[i].iter \in 1..k + 1 /\ u[i].kind \notin Opening
    <3>1. k + 1 \in 1..k + 1
      OBVIOUS
    <3> QED
      BY <2>2, <3>1
  <2> QED
    BY <1>7, <2>1, <2>2
<1>10. \A i \in 1..Len(u) : u[i].iter = k + 1 => \E j \in 1..Len(t) : u[i] = t[j]
  BY <1>7, <1>8
<1> QED
  BY <1>1, <1>5, <1>6, <1>9, <1>10 DEF Legal, Said

LEMMA SaidMore ==
  ASSUME NEW s, NEW n, NEW k \in Nat, Said(s, n, k)
  PROVE  Said(s, n, k + 1)
<1>1. \A i \in 1..Len(s) : s[i].iter \in 1..k => s[i].iter \in 1..k + 1
  OBVIOUS
<1> QED
  BY <1>1 DEF Said

\* The follow-up that is drained with a response.
LEMMA WithSaid ==
  ASSUME Inv, turn.stage \in {"model", "tools"}, NEW new \in Seq(Messages), NEW drained \in BOOLEAN,
         Said(turn.new \o new, turn.n, Response), Concluded(turn.new \o new, {}),
         \A i \in 1..Len(turn.new \o new) :
           (turn.new \o new)[i].iter = Response => (turn.new \o new)[i].kind # "followup"
  PROVE  /\ With(new, drained) \in Seq(Messages)
         /\ Said(With(new, drained), turn.n, Response) /\ Concluded(With(new, drained), {})
         /\ turn.new \o new # <<>> => With(new, drained) # <<>>
         /\ turn.new \o new = <<>> =>
              \A i \in 1..Len(With(new, drained)) : With(new, drained)[i].kind = "followup"
<1>1. PICK all : all = turn.new \o new
  OBVIOUS
<1>2. PICK f \in Messages : f = Msg("followup", turn.n, Response)
  BY RunningTurn DEF Kinds
<1>3. all \in Seq(Messages)
  BY <1>1, InvSeqs
<1>4. With(new, drained) \in {all, Append(all, f)}
  BY <1>1, <1>2 DEF With
<1>5. f.turn = turn.n /\ f.iter = Response /\ f.kind = "followup"
  BY <1>2 DEF Msg
<1>6. Response \in Nat \ {0}
  BY InvSeqs, Numbers DEF Turns, Iterations, Response
<1>7. ASSUME With(new, drained) = Append(all, f)
      PROVE  /\ Said(Append(all, f), turn.n, Response) /\ Concluded(Append(all, f), {})
             /\ all = <<>> => \A i \in 1..Len(Append(all, f)) : Append(all, f)[i].kind = "followup"
  <2>1. Legal(all, {})
    BY <1>1 DEF Said, Legal
  <2>2. \A i \in 1..Len(all) : Apart(all[i], f)
    BY <1>1, <1>5 DEF Apart, IsTool
  <2>3. Legal(Append(all, f), {})
    BY <1>3, <1>5, <2>1, <2>2, AppendLegal DEF Opening
  <2>4. \A i \in 1..Len(Append(all, f)) : (i \in 1..Len(all) /\ Append(all, f)[i] = all[i]) \/ Append(all, f)[i] = f
    BY <1>3
  <2>5. \A i \in 1..Len(all) : all[i].turn = turn.n /\ all[i].iter \in 1..Response /\ all[i].kind \notin Opening
    BY <1>1 DEF Said
  <2>6. f.turn = turn.n /\ f.iter \in 1..Response /\ f.kind \notin Opening
    BY <1>5, <1>6 DEF Opening
  <2>7. all = <<>> => Len(all) = 0
    OBVIOUS
  <2>8. \A i \in 1..Len(Append(all, f)) :
          Append(all, f)[i].turn = turn.n /\ Append(all, f)[i].iter \in 1..Response /\ Append(all, f)[i].kind \notin Opening
    BY <2>4, <2>5, <2>6
  <2>9. all = <<>> => \A i \in 1..Len(Append(all, f)) : Append(all, f)[i].kind = "followup"
    BY <1>5, <2>4, <2>7
  <2> QED
    BY <2>3, <2>8, <2>9 DEF Legal, Said
<1>8. Append(all, f) # <<>> /\ Append(all, f) \in Seq(Messages)
  BY <1>3
<1>9. PICK x : x = With(new, drained)
  OBVIOUS
<1>10. CASE x = Append(all, f)
  BY <1>1, <1>7, <1>8, <1>9, <1>10
<1>11. CASE x = all
  <2>1. x = <<>> => \A i \in 1..Len(x) : x[i].kind = "followup"
    OBVIOUS
  <2> QED
    BY <1>1, <1>3, <1>9, <1>11, <2>1
<1> QED
  BY <1>4, <1>9, <1>10, <1>11

LEMMA RunningNumbers ==
  ASSUME Inv, turn.stage \in {"model", "tools"}
  PROVE  /\ turn.n \in 0..MaxTurns /\ turn.n \in Nat \ {0} /\ turn.k \in Nat
         /\ Response = turn.k + 1 /\ Response \in Iterations
  BY TurnNumber, ResponseTyped, InvSeqs, Numbers DEF Turns, Iterations, Response

LEMMA AfterAppend ==
  ASSUME NEW s \in Seq(Messages), NEW x \in Messages, NEW y \in Messages, NEW z \in Messages
  PROVE  Append(s, x) \o <<y>> = s \o <<x, y>> /\ Append(s, x) \o <<y, z>> = s \o <<x, y, z>>
<1>1. <<x>> \in Seq(Messages) /\ <<y>> \in Seq(Messages) /\ <<y, z>> \in Seq(Messages)
  OBVIOUS
<1>2. <<x>> \o <<y>> = <<x, y>>
  <2>1. PICK u : u = <<x>> \o <<y>>
    OBVIOUS
  <2>2. PICK v : v = <<x, y>>
    OBVIOUS
  <2>3. u \in Seq(Messages) /\ Len(u) = 2 /\ u[1] = x /\ u[2] = y
    BY <1>1, <2>1
  <2>4. v \in Seq(Messages) /\ Len(v) = 2 /\ v[1] = x /\ v[2] = y
    BY <2>2
  <2>5. \A i \in 1..2 : i = 1 \/ i = 2
    OBVIOUS
  <2>6. \A i \in 1..Len(u) : u[i] = v[i]
    BY <2>3, <2>4, <2>5
  <2> QED
    BY <2>1, <2>2, <2>3, <2>4, <2>6, SeqEqual
<1>3. <<x>> \o <<y, z>> = <<x, y, z>>
  <2>1. PICK u : u = <<x>> \o <<y, z>>
    OBVIOUS
  <2>2. PICK v : v = <<x, y, z>>
    OBVIOUS
  <2>3. u \in Seq(Messages) /\ Len(u) = 3 /\ u[1] = x /\ u[2] = y /\ u[3] = z
    BY <1>1, <2>1
  <2>4. v \in Seq(Messages) /\ Len(v) = 3 /\ v[1] = x /\ v[2] = y /\ v[3] = z
    BY <2>2
  <2>5. \A i \in 1..3 : i = 1 \/ i = 2 \/ i = 3
    OBVIOUS
  <2>6. \A i \in 1..Len(u) : u[i] = v[i]
    BY <2>3, <2>4, <2>5
  <2> QED
    BY <2>1, <2>2, <2>3, <2>4, <2>6, SeqEqual
<1>4. Append(s, x) = s \o <<x>>
  BY AppendIsConcat
<1>5. /\ (s \o <<x>>) \o <<y>> = s \o (<<x>> \o <<y>>)
      /\ (s \o <<x>>) \o <<y, z>> = s \o (<<x>> \o <<y, z>>)
  BY <1>1, ConcatAssociative
<1> QED
  BY <1>2, <1>3, <1>4, <1>5

\* What the turn has said with the next response: an answer, or with the tools running
\* their results and perhaps an answer.
LEMMA Spoken ==
  ASSUME Inv, NewLegal(turn), NEW new \in Seq(Messages),
         \/ turn.stage = "model" /\ new \in {<<>>, <<Msg("answer", turn.n, Response)>>}
         \/ turn.stage = "tools" /\ new \in {<<Msg("result", turn.n, Response)>>,
              <<Msg("result", turn.n, Response), Msg("answer", turn.n, Response)>>}
  PROVE  /\ Said(turn.new \o new, turn.n, Response) /\ Concluded(turn.new \o new, {})
         /\ \A i \in 1..Len(turn.new \o new) :
              (turn.new \o new)[i].iter = Response => (turn.new \o new)[i].kind # "followup"
<1>1. PICK n \in Nat \ {0}, k \in Nat : n = turn.n /\ k = turn.k
  BY RunningNumbers
<1>2. n \in 0..MaxTurns /\ k + 1 \in Iterations /\ Response = k + 1
  BY <1>1, RunningNumbers
<1>3. ASSUME NEW s \in Seq(Messages), NEW t, turn.new \o new = s \o t,
             Said(s, n, k), Concluded(s, {}), t \in Responses(n, k + 1) \/ t = <<>>
      PROVE  /\ Said(turn.new \o new, turn.n, Response) /\ Concluded(turn.new \o new, {})
             /\ \A i \in 1..Len(turn.new \o new) :
                  (turn.new \o new)[i].iter = Response => (turn.new \o new)[i].kind # "followup"
  <2>1. PICK j \in Iterations : j = k + 1
    BY <1>2
  <2>2. t \in Responses(n, j) =>
          /\ t \in Seq(Messages) /\ Legal(t, {})
          /\ \A i \in 1..Len(t) :
               t[i].turn = n /\ t[i].iter = j /\ t[i].kind \in {"call", "result", "lost", "answer"}
    BY <1>2, ResponseLegal
  <2>3. t = <<>> => t \in Seq(Messages) /\ Legal(t, {}) /\ Len(t) = 0
    BY Empty
  <2>4. /\ t \in Seq(Messages) /\ Legal(t, {})
        /\ \A i \in 1..Len(t) : /\ t[i].turn = n /\ t[i].iter = k + 1
                                /\ t[i].kind \in {"call", "result", "lost", "answer"}
    BY <1>3, <2>1, <2>2, <2>3
  <2>5. \A i \in 1..Len(t) : t[i].kind \notin Opening /\ t[i].kind # "followup"
    BY <2>4 DEF Opening
  <2>6. PICK all : all = s \o t
    OBVIOUS
  <2>7. /\ Said(all, n, k + 1) /\ Concluded(all, {})
        /\ \A i \in 1..Len(all) : all[i].iter = k + 1 => \E l \in 1..Len(t) : all[i] = t[l]
    BY <1>3, <2>4, <2>5, <2>6, SaidNext
  <2>8. \A i \in 1..Len(all) : all[i].iter = k + 1 => all[i].kind # "followup"
    BY <2>5, <2>7
  <2> QED
    BY <1>1, <1>2, <1>3, <2>6, <2>7, <2>8
<1>4. CASE turn.stage = "model"
  <2>1. turn.new \in Seq(Messages) /\ Said(turn.new, n, k) /\ Concluded(turn.new, {})
    BY <1>1, <1>4, InvSeqs DEF NewLegal
  <2>2. new = <<>> \/ new \in Responses(n, k + 1)
    BY <1>1, <1>2, <1>4 DEF Responses
  <2> QED
    BY <1>3, <2>1, <2>2
<1>5. CASE turn.stage = "tools"
  <2>1. PICK c \in Messages : c = Msg("call", n, k + 1)
    BY <1>2, MsgTyped DEF Kinds
  <2>2. PICK s \in Seq(Messages) : turn.new = Append(s, c) /\ Said(s, n, k) /\ Concluded(s, {})
    BY <1>1, <1>5, <2>1 DEF NewLegal
  <2>3. PICK r \in Messages, x \in Messages : r = Msg("result", n, k + 1) /\ x = Msg("answer", n, k + 1)
    BY <1>2, MsgTyped DEF Kinds
  <2>4. new = <<r>> \/ new = <<r, x>>
    BY <1>1, <1>2, <1>5, <2>3
  <2>5. Append(s, c) \o <<r>> = s \o <<c, r>> /\ Append(s, c) \o <<r, x>> = s \o <<c, r, x>>
    BY AfterAppend, Zenon
  <2>6. <<c, r>> \in Responses(n, k + 1) /\ <<c, r, x>> \in Responses(n, k + 1)
    BY <2>1, <2>3 DEF Responses
  <2> QED
    BY <1>3, <2>2, <2>4, <2>5, <2>6
<1> QED
  BY <1>4, <1>5

\* The turn after a response: its stage, and what it has said is still legal.
RunLegal == NewLegal(turn') /\ turn'.stage \in {"model", "tools", "save"} /\ turn'.n = turn.n

LEMMA GoOnLegal ==
  ASSUME Inv, turn.stage \in {"model", "tools"}, NEW all \in Seq(Messages),
         Said(all, turn.n, Response), Concluded(all, {}),
         Room /\ all = <<>> => Response <= MaxCycles, GoOn(all)
  PROVE  RunLegal
<1>1. turn' = [turn EXCEPT !.k = Response, !.new = all, !.stage = "model"]
  BY DEF GoOn
<1>2. turn'.k = Response /\ turn'.new = all /\ turn'.stage = "model" /\ turn'.n = turn.n
  BY <1>1, InvSeqs DEF Turns
<1> QED
  BY <1>2 DEF RunLegal, NewLegal

LEMMA LeaveLegal ==
  ASSUME Inv, turn.stage \in {"model", "tools"}, NEW all \in Seq(Messages), all # <<>>,
         Said(all, turn.n, Response), Concluded(all, {}), Leave(all)
  PROVE  RunLegal
<1>1. turn' = [turn EXCEPT !.k = Response, !.new = all, !.stage = "save", !.out = all[Len(all)]]
  BY DEF Leave
<1>2. turn'.k = Response /\ turn'.new = all /\ turn'.stage = "save" /\ turn'.n = turn.n
  BY <1>1, InvSeqs DEF Turns
<1>3. Response \in Nat
  BY RunningNumbers
<1>4. Said(all, turn.n, Response + 1)
  BY <1>3, SaidMore
<1> QED
  BY <1>2, <1>4 DEF RunLegal, NewLegal

LEMMA LastAnswerLegal ==
  ASSUME Inv, NewLegal(turn), NEW new \in Seq(Messages), new # <<>>,
         \/ turn.stage = "model" /\ new = <<Msg("answer", turn.n, Response)>>
         \/ turn.stage = "tools" /\ new =
              <<Msg("result", turn.n, Response), Msg("answer", turn.n, Response)>>,
         LastAnswer(new)
  PROVE  RunLegal
<1>1. turn.stage \in {"model", "tools"} /\ turn.new \o new # <<>>
  <2>1. turn.new \in Seq(Messages)
    BY InvSeqs
  <2> QED
    BY <2>1, Joined
<1>2. /\ Said(turn.new \o new, turn.n, Response) /\ Concluded(turn.new \o new, {})
      /\ \A i \in 1..Len(turn.new \o new) :
           (turn.new \o new)[i].iter = Response => (turn.new \o new)[i].kind # "followup"
  BY Spoken
<1>3. PICK drained \in BOOLEAN :
        IF drained THEN GoOn(With(new, TRUE)) ELSE Leave(With(new, FALSE))
  BY DEF LastAnswer
<1>4. ASSUME NEW d \in BOOLEAN
      PROVE  /\ With(new, d) \in Seq(Messages) /\ With(new, d) # <<>>
             /\ Said(With(new, d), turn.n, Response) /\ Concluded(With(new, d), {})
  BY <1>1, <1>2, WithSaid
<1>5. CASE drained
  BY <1>1, <1>3, <1>4, <1>5, GoOnLegal
<1>6. CASE ~drained
  BY <1>1, <1>3, <1>4, <1>6, LeaveLegal
<1> QED
  BY <1>5, <1>6

LEMMA RunningLegal ==
  ASSUME Inv, NewLegal(turn), Running
  PROVE  RunLegal
<1>1. turn.stage \in {"model", "tools"}
  BY DEF Running, CallTools, ToolsDone, ToolsFail, Answer, PoorAnswer, Exhausted
<1>2. PICK r \in Messages, x \in Messages, c \in Messages :
        /\ r = Msg("result", turn.n, Response) /\ x = Msg("answer", turn.n, Response)
        /\ c = Msg("call", turn.n, Response)
  BY <1>1, RunningTurn DEF Kinds
<1>3. turn.new \in Seq(Messages) /\ <<r>> \in Seq(Messages) /\ <<x>> \in Seq(Messages)
      /\ <<r, x>> \in Seq(Messages) /\ <<>> \in Seq(Messages)
  BY InvSeqs
<1>4. CASE CallTools
  <2>1. turn' = [turn EXCEPT !.stage = "tools", !.new = Append(turn.new, c)] /\ turn.stage = "model"
    BY <1>2, <1>4 DEF CallTools
  <2>2. turn'.stage = "tools" /\ turn'.new = Append(turn.new, c) /\ turn'.n = turn.n /\ turn'.k = turn.k
    BY <2>1, InvSeqs DEF Turns
  <2>3. c = Msg("call", turn.n, turn.k + 1)
    BY <1>2 DEF Response
  <2>4. Said(turn.new, turn.n, turn.k) /\ Concluded(turn.new, {})
    BY <2>1 DEF NewLegal
  <2> QED
    BY <1>3, <2>2, <2>3, <2>4 DEF RunLegal, NewLegal
<1>5. CASE ToolsDone
  <2>1. turn.stage = "tools"
    BY <1>5 DEF ToolsDone
  <2>2. PICK drained \in BOOLEAN : GoOn(With(<<r>>, drained))
    BY <1>2, <1>5 DEF ToolsDone
  <2>3. /\ Said(turn.new \o <<r>>, turn.n, Response) /\ Concluded(turn.new \o <<r>>, {})
        /\ \A i \in 1..Len(turn.new \o <<r>>) :
             (turn.new \o <<r>>)[i].iter = Response => (turn.new \o <<r>>)[i].kind # "followup"
    BY <1>2, <1>3, <2>1, Spoken
  <2>4. turn.new \o <<r>> # <<>>
    BY <1>3
  <2>5. /\ With(<<r>>, drained) \in Seq(Messages) /\ With(<<r>>, drained) # <<>>
        /\ Said(With(<<r>>, drained), turn.n, Response) /\ Concluded(With(<<r>>, drained), {})
    BY <1>1, <1>3, <2>3, <2>4, WithSaid
  <2> QED
    BY <1>1, <2>2, <2>5, GoOnLegal
<1>6. CASE ToolsFail
  <2>1. turn.stage = "tools" /\ LastAnswer(<<r, x>>)
    BY <1>2, <1>6 DEF ToolsFail
  <2>2. <<r, x>> # <<>>
    OBVIOUS
  <2> QED
    BY <1>2, <1>3, <2>1, <2>2, LastAnswerLegal
<1>7. ASSUME turn.stage = "model", LastAnswer(<<x>>) PROVE RunLegal
  <2>1. <<x>> # <<>>
    OBVIOUS
  <2> QED
    BY <1>2, <1>3, <1>7, <2>1, LastAnswerLegal
<1>8. CASE Answer
  BY <1>2, <1>7, <1>8 DEF Answer
\* With no new response, whatever the follow-ups were merged into.
<1>9. ASSUME turn.stage = "model", NEW drained \in BOOLEAN
      PROVE  /\ With(<<>>, drained) \in Seq(Messages)
             /\ Said(With(<<>>, drained), turn.n, Response) /\ Concluded(With(<<>>, drained), {})
             /\ turn.new # <<>> => With(<<>>, drained) # <<>>
             /\ \A i \in 1..Len(With(<<>>, drained)) :
                  With(<<>>, drained)[i].iter = Response => With(<<>>, drained)[i].kind = "followup"
  <2>1. turn.new \o <<>> = turn.new
    BY <1>3, ConcatEmptySeq
  <2>2. Said(turn.new, turn.n, turn.k) /\ Concluded(turn.new, {})
    BY <1>9 DEF NewLegal
  <2>3. \A i \in 1..Len(turn.new) : turn.new[i].iter # Response
    BY <1>1, <2>2, RunningNumbers DEF Said
  <2>4. Said(turn.new, turn.n, Response)
    BY <1>1, <2>2, RunningNumbers, SaidMore
  <2>5. /\ With(<<>>, drained) \in Seq(Messages)
        /\ Said(With(<<>>, drained), turn.n, Response) /\ Concluded(With(<<>>, drained), {})
        /\ turn.new # <<>> => With(<<>>, drained) # <<>>
    BY <1>1, <1>3, <2>1, <2>2, <2>3, <2>4, WithSaid
  <2>6. PICK f \in Messages : f = Msg("followup", turn.n, Response)
    BY <1>1, RunningTurn DEF Kinds
  <2>7. With(<<>>, drained) \in {turn.new, Append(turn.new, f)}
    BY <2>1, <2>6 DEF With
  <2>8. \A i \in 1..Len(Append(turn.new, f)) :
          (i \in 1..Len(turn.new) /\ Append(turn.new, f)[i] = turn.new[i]) \/ Append(turn.new, f)[i] = f
    BY <1>3
  <2>9. f.kind = "followup"
    BY <2>6 DEF Msg
  <2>10. \A i \in 1..Len(With(<<>>, drained)) :
           With(<<>>, drained)[i].iter = Response => With(<<>>, drained)[i].kind = "followup"
    BY <2>3, <2>7, <2>8, <2>9
  <2> QED
    BY <2>5, <2>10
<1>10. CASE PoorAnswer
  <2>1. turn.stage = "model"
    BY <1>10 DEF PoorAnswer
  <2>2. CASE CyclesLeft /\ GoOn(With(<<>>, TRUE))
    <3>1. ASSUME With(<<>>, TRUE) = <<>> PROVE Response <= MaxCycles
      <4>1. turn.new = <<>>
        BY <1>9, <2>1, <3>1
      <4>2. turn.k < MaxCycles
        BY <2>2, <4>1 DEF CyclesLeft
      <4> QED
        BY <1>1, <4>2, RunningNumbers, PersistenceAssumption
    <3> QED
      BY <1>1, <1>9, <2>1, <2>2, <3>1, GoOnLegal
  <2>3. CASE LastAnswer(<<x>>)
    BY <1>7, <2>1, <2>3
  <2> QED
    BY <1>2, <1>10, <2>2, <2>3 DEF PoorAnswer
<1>11. ASSUME NEW goal \in BOOLEAN, Exhausted(goal) PROVE RunLegal
  <2>1. turn.stage = "model" /\ turn.k = MaxIterations
    BY <1>11 DEF Exhausted
  <2>2. PICK drained \in BOOLEAN :
          IF goal THEN turn' = [turn EXCEPT !.new = With(<<>>, drained), !.stage = "save"]
          ELSE Leave(Append(With(<<>>, drained), x))
    BY <1>2, <1>11 DEF Exhausted
  <2>3. PICK w \in Seq(Messages) :
          /\ w = With(<<>>, drained) /\ Said(w, turn.n, Response) /\ Concluded(w, {})
          /\ turn.new # <<>> => w # <<>>
          /\ \A i \in 1..Len(w) : w[i].iter = Response => w[i].kind = "followup"
    BY <1>9, <2>1
  <2>4. CASE goal
    <3>1. turn' = [turn EXCEPT !.new = w, !.stage = "save"]
      BY <2>2, <2>3, <2>4
    <3>2. turn'.new = w /\ turn'.stage = "save" /\ turn'.n = turn.n /\ turn'.k = turn.k
      BY <3>1, InvSeqs DEF Turns
    <3>3. Room => turn.new # <<>>
      <4>1. Room /\ turn.new = <<>> => turn.k <= MaxCycles
        BY <2>1 DEF NewLegal
      <4> QED
        BY <2>1, <4>1, PersistenceAssumption DEF Room
    <3>4. Said(w, turn.n, turn.k + 1)
      BY <2>3 DEF Response
    <3> QED
      BY <2>3, <3>2, <3>3, <3>4 DEF RunLegal, NewLegal
  <2>5. CASE ~goal
    <3>1. x.turn = turn.n /\ x.iter = Response /\ x.kind = "answer"
      BY <1>2 DEF Msg
    <3>2. \A i \in 1..Len(w) : Apart(w[i], x)
      BY <2>3, <3>1 DEF Apart, IsTool
    <3>3. Legal(w, {})
      BY <2>3 DEF Said, Legal
    <3>4. Legal(Append(w, x), {})
      BY <3>1, <3>2, <3>3, AppendLegal DEF Opening
    <3>5. \A i \in 1..Len(Append(w, x)) : (i \in 1..Len(w) /\ Append(w, x)[i] = w[i]) \/ Append(w, x)[i] = x
      OBVIOUS
    <3>6. \A i \in 1..Len(w) : w[i].turn = turn.n /\ w[i].iter \in 1..Response /\ w[i].kind \notin Opening
      BY <2>3 DEF Said
    <3>7. x.turn = turn.n /\ x.iter \in 1..Response /\ x.kind \notin Opening
      BY <1>1, <3>1, RunningNumbers DEF Opening
    <3>8. \A i \in 1..Len(Append(w, x)) :
            Append(w, x)[i].turn = turn.n /\ Append(w, x)[i].iter \in 1..Response /\ Append(w, x)[i].kind \notin Opening
      BY <3>5, <3>6, <3>7
    <3>9. Said(Append(w, x), turn.n, Response) /\ Concluded(Append(w, x), {})
      BY <3>4, <3>8 DEF Said, Legal
    <3>10. Append(w, x) \in Seq(Messages) /\ Append(w, x) # <<>> /\ Leave(Append(w, x))
      BY <2>2, <2>3, <2>5
    <3> QED
      BY <1>1, <3>9, <3>10, LeaveLegal
  <2> QED
    BY <2>4, <2>5
<1> QED
  BY <1>4, <1>5, <1>6, <1>8, <1>10, <1>11 DEF Running

\* Meanwhile the stores only change their checkpoint: what it stands for is not stored.
LEMMA RunningStore ==
  ASSUME Inv, turn.stage \in {"model", "tools"}, RunLegal,
         NEW st \in Stores, NEW a, StoreLegal(st, turn, a),
         NEW q, q.msgs = st.msgs, q.pending = st.pending,
         \/ q.ckpt = st.ckpt
         \/ q.ckpt.turn = turn.n /\ q.ckpt.iter = Response
  PROVE  StoreLegal(q, turn', a)
<1>1. turn'.n = turn.n /\ turn'.stage \in {"model", "tools", "save"}
  BY DEF RunLegal
<1>2. \A i \in 1..Len(st.msgs) : Placed(st.msgs[i], turn)
  BY DEF StoreLegal
<1>3. \A m : Placed(m, turn) => Placed(m, turn') /\ (m.turn = turn.n => m.iter = 0)
  BY <1>1 DEF Placed
<1>4. CheckpointLegal(q, turn'.n)
  <2>1. CASE q.ckpt = st.ckpt
    BY <1>1, <2>1 DEF StoreLegal, CheckpointLegal
  <2>2. CASE q.ckpt.turn = turn.n /\ q.ckpt.iter = Response
    <3>1. turn.n \in 1..turn.n /\ Response # 0
      BY RunningNumbers
    <3> QED
      BY <1>1, <1>2, <1>3, <2>2, <3>1 DEF CheckpointLegal
  <2> QED
    BY <2>1, <2>2
<1> QED
  BY <1>2, <1>3, <1>4 DEF StoreLegal, Marked

LEMMA RunningStores ==
  ASSUME Inv, Histories, Running
  PROVE  Histories'
<1>0. RunLegal
  BY RunningLegal DEF Histories
<1>1. turn.stage \in {"model", "tools"}
  BY DEF Running, CallTools, ToolsDone, ToolsFail, Answer, PoorAnswer, Exhausted
<1>2. archived' = archived
  BY DEF Running, CallTools, ToolsDone, ToolsFail, Answer, PoorAnswer, Exhausted
<1>3. \/ UNCHANGED <<session, file>>
      \/ \E last, done : SetCheckpoint(last, done)
  BY DEF Running, CallTools, ToolsDone, ToolsFail, Answer, PoorAnswer, Exhausted
<1>4. StoreLegal(session', turn', archived) /\ StoreLegal(file', turn', archived)
  <2>1. CASE UNCHANGED <<session, file>>
    BY <1>0, <1>1, <2>1, InvSeqs, RunningStore DEF Histories
  <2>2. ASSUME NEW last, NEW done, SetCheckpoint(last, done)
        PROVE  StoreLegal(session', turn', archived) /\ StoreLegal(file', turn', archived)
    <3>1. session' = [session EXCEPT !.ckpt = Checkpoint(last, turn.n, Response, done)] /\ file' = session'
      BY <2>2 DEF SetCheckpoint, Save
    <3>2. /\ session'.msgs = session.msgs /\ session'.pending = session.pending
          /\ session'.ckpt.turn = turn.n /\ session'.ckpt.iter = Response
      BY <3>1, InvSeqs DEF Stores, Checkpoint
    <3>3. StoreLegal(session', turn', archived)
      BY <1>0, <1>1, <3>2, InvSeqs, RunningStore DEF Histories
    <3> QED
      BY <3>1, <3>3
  <2> QED
    BY <1>3, <2>1, <2>2
<1> QED
  BY <1>0, <1>2, <1>4 DEF Histories, RunLegal, Answerable

-----------------------------------------------------------------------------
(* The steps around the runner's loop.                                      *)

LEMMA HistoriesInit == Init => Histories
<1> SUFFICES ASSUME Init PROVE Histories
  OBVIOUS
<1>1. session.msgs = <<>> /\ session.ckpt = NoCheckpoint /\ file = session
  BY DEF Init
<1>2. turn.stage = "idle"
  BY DEF Init, NoTurn
<1>3. StoreLegal(session, turn, archived)
  <2>1. Answered(session.msgs) /\ \A i \in 1..Len(session.msgs) : FALSE
    BY <1>1 DEF Answered
  <2> QED
    BY <1>1, <2>1, Empty DEF StoreLegal, CheckpointLegal, Marked
<1>4. NewLegal(turn) /\ Answerable
  BY <1>2 DEF NewLegal, Answerable
<1> QED
  BY <1>1, <1>3, <1>4 DEF Histories

\* No turn is in the runner's loop.
LEMMA Resting ==
  ASSUME turn'.stage \in {"idle", "replying", "respond"},
         StoreLegal(session', turn', archived'), StoreLegal(file', turn', archived')
  PROVE  Histories'
  BY DEF Histories, NewLegal, Answerable

LEMMA EndedTurn ==
  ASSUME Inv, Ended
  PROVE  turn' \in Turns /\ turn'.n = turn.n /\ turn'.stage = "idle"
<1>1. turn.n \in 0..MaxTurns
  BY InvSeqs DEF Turns
<1> QED
  BY <1>1, NoTurnTyped DEF Ended

\* Both stores are as they were, and a turn at rest follows.
LEMMA StoresAtRest ==
  ASSUME Inv, Histories, NEW u \in Turns, NEW a, archived \subseteq a,
         (u.n = turn.n /\ u.stage \in {"idle", "respond"}) \/ u.n = turn.n + 1
  PROVE  StoreLegal(session, u, a) /\ StoreLegal(file, u, a)
<1>1. /\ session \in Stores /\ file \in Stores /\ turn \in Turns
      /\ StoreLegal(session, turn, archived) /\ StoreLegal(file, turn, archived)
  BY InvSeqs DEF Histories
<1> QED
  BY <1>1, StoreAtRest

LEMMA BeginLegal ==
  ASSUME Inv, Histories, [Next]_vars, NEW kind \in TurnKinds \ {"none"}, Begin(kind)
  PROVE  Histories'
<1>1. turn.n \in Nat /\ turn.n + 1 \in 0..MaxTurns
  BY InvSeqs, Numbers DEF Begin, Turns
<1>2. turn' = [NoTurn(turn.n + 1) EXCEPT !.stage = "restored", !.kind = kind]
  BY DEF Begin
<1>3. turn'.stage = "restored" /\ turn'.n = turn.n + 1 /\ turn'.k = 0 /\ turn'.new = <<>>
  BY <1>2 DEF NoTurn
<1>4. turn' \in Turns /\ archived' = archived
  BY StepTurn DEF Begin
<1>5. NewLegal(turn')
  BY <1>3 DEF NewLegal
<1>6. /\ session \in Stores /\ file \in Stores /\ turn \in Turns
      /\ StoreLegal(session, turn, archived) /\ StoreLegal(file, turn, archived)
  BY InvSeqs DEF Histories
<1>7. ASSUME NEW st \in Stores, Legal(st.msgs, archived), Old(st.msgs, turn.n), Answered(st.msgs),
             CheckpointLegal(st, turn.n), Save(st)
      PROVE  Histories'
  <2>1. StoreLegal(st, turn', archived)
    BY <1>3, <1>4, <1>6, <1>7, Settled DEF Marked
  <2>2. session' = st /\ file' = st
    BY <1>7 DEF Save
  <2> QED
    BY <1>4, <1>5, <1>7, <2>1, <2>2 DEF Histories, Answerable
<1>8. CASE session.ckpt # NoCheckpoint
  <2>1. PICK st : st = RestoreCheckpoint(session)
    OBVIOUS
  <2>2. st \in Stores /\ Legal(st.msgs, archived) /\ Old(st.msgs, turn.n) /\ Answered(st.msgs)
        /\ CheckpointLegal(st, turn.n)
    BY <1>6, <1>8, <2>1, RestoreLegal
  <2>3. Save(st)
    BY <1>8, <2>1 DEF Begin
  <2> QED
    BY <1>7, <2>2, <2>3
<1>9. CASE session.ckpt = NoCheckpoint /\ session.pending
  <2>1. PICK st : st = ClosePending(session)
    OBVIOUS
  <2>2. st \in Stores /\ Legal(st.msgs, archived) /\ Old(st.msgs, turn.n) /\ Answered(st.msgs)
        /\ CheckpointLegal(st, turn.n)
    BY <1>6, <1>9, <2>1, CloseLegal
  <2>3. Save(st)
    BY <1>9, <2>1 DEF Begin
  <2> QED
    BY <1>7, <2>2, <2>3
<1>10. CASE session.ckpt = NoCheckpoint /\ ~session.pending
  <2>1. session' = session /\ file' = file
    BY <1>10 DEF Begin
  <2>2. StoreLegal(session, turn', archived) /\ StoreLegal(file, turn', archived)
    BY <1>3, <1>4, StoresAtRest
  <2>3. Room => Answered(session.msgs)
    BY <1>6, <1>10 DEF StoreLegal, Marked
  <2> QED
    BY <1>4, <1>5, <2>1, <2>2, <2>3 DEF Histories, Answerable
<1> QED
  BY <1>8, <1>9, <1>10

LEMMA CommandLegal ==
  ASSUME Inv, Histories, [Next]_vars, CommandPrompt \/ CommandReply
  PROVE  Histories'
<1>1. turn' \in Turns /\ session' \in Stores /\ file' \in Stores /\ archived' = archived
  BY StepTurn, StepStored DEF Stored, CommandPrompt, CommandReply
<1>2. /\ session \in Stores /\ turn \in Turns /\ StoreLegal(session, turn, archived)
      /\ turn.n \in 0..MaxTurns /\ turn.n # 0 /\ 0 \in Iterations
  BY InvSeqs, TurnNumber DEF Histories, CommandPrompt, CommandReply
<1>3. CASE CommandPrompt
  <2>1. PICK m \in Messages : m = Msg("command", turn.n, 0)
    BY <1>2, MsgTyped DEF Kinds
  <2>2. m.turn = turn.n /\ m.iter = 0 /\ m.kind = "command"
    BY <2>1 DEF Msg
  <2>3. session' = [session EXCEPT !.msgs = Append(@, m), !.pending = TRUE] /\ file' = session'
    BY <1>3, <2>1 DEF CommandPrompt, PersistEarly, Save
  <2>4. session'.msgs = Append(session.msgs, m) /\ session'.ckpt = session.ckpt /\ session'.pending
    BY <1>2, <2>3 DEF Stores
  <2>5. turn.stage = "restored" /\ turn'.stage = "replying" /\ turn'.n = turn.n
    BY <1>2, <1>3 DEF CommandPrompt, Turns
  <2>6. Room => Answered(session.msgs)
    BY <2>5 DEF Histories, Answerable
  <2>7. StoreLegal(session', turn', archived)
    BY <1>1, <1>2, <2>2, <2>4, <2>5, <2>6, AppendStore
  <2> QED
    BY <1>1, <2>3, <2>5, <2>7, Resting
<1>4. CASE CommandReply
  <2>1. PICK m \in Messages : m = Msg("reply", turn.n, 0)
    BY <1>2, <1>4, MsgTyped DEF Kinds
  <2>2. m.turn = turn.n /\ m.iter = 0 /\ m.kind = "reply"
    BY <2>1 DEF Msg
  <2>3. /\ file' = [session EXCEPT !.msgs = Append(@, m)]
        /\ session' = [[session EXCEPT !.msgs = Append(@, m)] EXCEPT !.pending = FALSE]
    BY <1>4, <2>1 DEF CommandReply
  <2>4. \A q \in {session', file'} : q.msgs = Append(session.msgs, m) /\ q.ckpt = session.ckpt
    BY <1>2, <2>3 DEF Stores
  <2>5. turn.stage = "replying" /\ turn'.stage = "respond" /\ turn'.n = turn.n
    BY <1>2, <1>4 DEF CommandReply, Turns
  <2>6. m.kind \notin Opening
    BY <2>2 DEF Opening
  <2>7. \A q \in {session', file'} : StoreLegal(q, turn', archived)
    BY <1>1, <1>2, <2>2, <2>4, <2>5, <2>6, AppendStore
  <2> QED
    BY <1>1, <2>5, <2>7, Resting
<1> QED
  BY <1>3, <1>4

LEMMA BuildLegal ==
  ASSUME Inv, Histories, [Next]_vars, Build
  PROVE  Histories'
<1>1. turn' \in Turns /\ session' \in Stores /\ file' \in Stores /\ archived' = archived
  BY StepTurn, StepStored DEF Stored, Build
<1>2. /\ session \in Stores /\ file \in Stores /\ turn \in Turns
      /\ StoreLegal(session, turn, archived) /\ StoreLegal(file, turn, archived)
      /\ turn.n \in 0..MaxTurns /\ turn.n # 0 /\ 0 \in Iterations
  BY InvSeqs, TurnNumber DEF Histories, Build
<1>3. /\ turn.stage = "restored" /\ turn'.stage = "model" /\ turn'.n = turn.n
      /\ turn'.k = turn.k /\ turn'.new = turn.new
  BY <1>2 DEF Build, Turns
<1>4. turn'.new = <<>> /\ turn'.k = 0
  BY <1>3 DEF Histories, NewLegal
<1>5. NewLegal(turn')
  <2>1. Said(<<>>, turn'.n, turn'.k) /\ Concluded(<<>>, {})
    BY Empty DEF Said, Legal
  <2>2. 0 <= MaxCycles
    BY PersistenceAssumption
  <2> QED
    BY <1>3, <1>4, <2>1, <2>2 DEF NewLegal
<1>6. ASSUME StoreLegal(session', turn', archived), StoreLegal(file', turn', archived) PROVE Histories'
  BY <1>1, <1>3, <1>5, <1>6 DEF Histories, Answerable
<1>7. ASSUME NEW m \in Messages, m.turn = turn.n, m.iter = 0, m.kind \in {"prompt", "announce"},
             session' = [session EXCEPT !.msgs = Append(@, m),
                                        !.pending = IF m.kind = "prompt" THEN TRUE ELSE @],
             file' = session'
      PROVE  Histories'
  <2>1. /\ session'.msgs = Append(session.msgs, m) /\ session'.ckpt = session.ckpt
        /\ m.kind = "prompt" => session'.pending
    BY <1>2, <1>7 DEF Stores
  <2>2. Room => Answered(session.msgs)
    BY <1>3 DEF Histories, Answerable
  <2>3. /\ m.kind \notin {"call", "result", "lost"}
        /\ m.kind \in Opening => session'.pending
    BY <1>7, <2>1 DEF Opening
  <2>4. StoreLegal(session', turn', archived)
    <3>1. PICK q \in Stores, u \in Turns : q = session' /\ u = turn'
      BY <1>1
    <3>2. /\ q.msgs = Append(session.msgs, m) /\ q.ckpt = session.ckpt
          /\ m.kind \in Opening => q.pending
          /\ u.n = turn.n /\ turn.stage = "restored" /\ u.stage = "model"
          /\ m.turn = turn.n /\ m.iter = 0
      BY <1>3, <1>7, <2>1, <2>3, <3>1
    <3>3. StoreLegal(q, u, archived)
      BY <1>2, <2>2, <2>3, <3>2, AppendStore
    <3> QED
      BY <3>1, <3>3
  <2> QED
    BY <1>6, <1>7, <2>4
<1>8. CASE turn.kind = "message"
  <2>1. PICK m \in Messages : m = Prompt
    BY <1>2, MsgTyped DEF Prompt, Kinds
  <2>2. m.turn = turn.n /\ m.iter = 0 /\ m.kind = "prompt"
    BY <2>1 DEF Prompt, Msg
  <2>3. session' = [session EXCEPT !.msgs = Append(@, m), !.pending = TRUE] /\ file' = session'
    BY <1>8, <2>1 DEF Build, PersistEarly, Save
  <2> QED
    BY <1>7, <2>2, <2>3
<1>9. CASE turn.kind = "system"
  <2>1. PICK m \in Messages : m = Msg("announce", turn.n, 0)
    BY <1>2, MsgTyped DEF Kinds
  <2>2. m.turn = turn.n /\ m.iter = 0 /\ m.kind = "announce"
    BY <2>1 DEF Msg
  <2>3. session' = [session EXCEPT !.msgs = Append(@, m)] /\ file' = session'
    BY <1>9, <2>1 DEF Build, Save
  <2>4. session' = [session EXCEPT !.msgs = Append(@, m), !.pending = @]
    BY <1>2, <2>3 DEF Stores
  <2> QED
    BY <1>7, <2>2, <2>3, <2>4
<1>10. CASE turn.kind \notin {"message", "system"}
  <2>1. session' = session /\ file' = file
    BY <1>10 DEF Build
  <2>2. \A m : Placed(m, turn) => Placed(m, turn')
    BY <1>3 DEF Placed
  <2>3. StoreLegal(session, turn', archived) /\ StoreLegal(file, turn', archived)
    BY <1>2, <1>3, <2>2 DEF StoreLegal
  <2> QED
    BY <1>6, <2>1, <2>3
<1> QED
  BY <1>8, <1>9, <1>10

LEMMA ClearedLegal ==
  ASSUME Inv, NEW st \in Stores, CheckpointLegal(st, turn.n), Clear(st),
         turn' \in Turns, turn'.n = turn.n, turn'.stage \in {"idle", "respond"}
  PROVE  Histories'
<1>1. PICK e : e = [st EXCEPT !.msgs = <<>>]
  OBVIOUS
<1>2. session' = e /\ file' = e
  BY <1>1 DEF Clear, Save
<1>3. turn \in Turns
  BY InvSeqs
<1>4. /\ e \in Stores /\ Legal(e.msgs, archived') /\ Old(e.msgs, turn.n) /\ Marked(e)
      /\ CheckpointLegal(e, turn.n)
  BY <1>1, <1>3, ClearLegal
<1>5. StoreLegal(e, turn', archived')
  BY <1>3, <1>4, Settled
<1> QED
  BY <1>2, <1>5, Resting

LEMMA CancelLegal ==
  ASSUME Inv, Histories, [Next]_vars, CommandNew \/ Cancel \/ NewBesideTurn
  PROVE  Histories'
<1>1. turn' \in Turns
  BY StepTurn
<1>2. /\ session \in Stores /\ file \in Stores /\ turn \in Turns
      /\ StoreLegal(session, turn, archived)
  BY InvSeqs DEF Histories
<1>3. CheckpointLegal(session, turn.n)
  BY <1>2 DEF StoreLegal
<1>4. CASE CommandNew
  <2>1. Clear(session) /\ turn'.n = turn.n /\ turn'.stage = "respond"
    BY <1>2, <1>4 DEF CommandNew, Turns
  <2> QED
    BY <1>1, <1>2, <1>3, <2>1, ClearedLegal
<1>5. CASE Cancel
  <2>1. turn'.n = turn.n /\ turn'.stage = "idle" /\ archived' = archived
    BY <1>5, EndedTurn DEF Cancel
  <2>2. CASE session.ckpt = NoCheckpoint
    <3>1. session' = session /\ file' = file
      BY <1>5, <2>2 DEF Cancel
    <3>2. StoreLegal(session, turn', archived) /\ StoreLegal(file, turn', archived)
      BY <1>1, <2>1, StoresAtRest
    <3> QED
      BY <2>1, <3>1, <3>2, Resting
  <2>3. CASE session.ckpt # NoCheckpoint
    <3>1. PICK st : st = RestoreCheckpoint(session)
      OBVIOUS
    <3>2. st \in Stores /\ Legal(st.msgs, archived) /\ Old(st.msgs, turn.n) /\ Answered(st.msgs)
          /\ CheckpointLegal(st, turn.n)
      BY <1>2, <2>3, <3>1, RestoreLegal
    <3>3. StoreLegal(st, turn', archived)
      BY <1>1, <1>2, <2>1, <3>2, Settled DEF Marked
    <3>4. session' = st /\ file' = st
      BY <1>5, <2>3, <3>1 DEF Cancel, AfterCancel, Save
    <3> QED
      BY <2>1, <3>3, <3>4, Resting
  <2> QED
    BY <2>2, <2>3
<1>6. CASE NewBesideTurn
  <2>1. turn'.n = turn.n /\ turn'.stage = "idle" /\ Clear(AfterCancel)
    BY <1>6, EndedTurn DEF NewBesideTurn
  <2>2. AfterCancel \in Stores /\ AfterCancel.ckpt = NoCheckpoint
    BY AfterCancelTyped DEF AfterCancel, RestoreCheckpoint
  <2>3. CheckpointLegal(AfterCancel, turn.n)
    BY <2>2 DEF CheckpointLegal
  <2> QED
    BY <1>1, <2>1, <2>2, <2>3, ClearedLegal
<1> QED
  BY <1>4, <1>5, <1>6

LEMMA SaveLegal ==
  ASSUME Inv, Histories, [Next]_vars, SaveTurn \/ SaveFails
  PROVE  Histories'
<1>1. turn' \in Turns /\ turn'.n = turn.n /\ turn'.stage \in {"idle", "respond"}
  <2>1. CASE SaveTurn
    BY <2>1, StepTurn, InvSeqs DEF SaveTurn, Turns
  <2>2. CASE SaveFails
    BY <2>2, EndedTurn DEF SaveFails
  <2> QED
    BY <2>1, <2>2
<1>2. /\ turn.stage = "save" /\ session' = Saved /\ archived' = archived \union Trimmed
      /\ file' = Saved \/ file' = file
  BY DEF SaveTurn, SaveFails, Save
<1>3. turn \in Turns /\ Saved \in Stores
  BY InvSeqs, SavedTyped
<1>4. PICK st : st = Saved
  OBVIOUS
<1>5. /\ Legal(st.msgs, archived') /\ Old(st.msgs, turn.n)
      /\ CheckpointLegal(st, turn.n) /\ Marked(st)
  BY <1>2, <1>4, SavedLegal
<1>6. StoreLegal(st, turn', archived')
  BY <1>1, <1>3, <1>4, <1>5, Settled
<1>7. StoreLegal(file, turn', archived')
  <2>1. archived \subseteq archived'
    BY <1>2
  <2> QED
    BY <1>1, <2>1, StoresAtRest
<1> QED
  BY <1>1, <1>2, <1>4, <1>6, <1>7, Resting

LEMMA RestLegal ==
  ASSUME Inv, Histories, Respond \/ Fail \/ Crash \/ Shutdown \/ UNCHANGED vars
  PROVE  Histories'
<1>1. archived' = archived /\ file' \in {file, session} /\ session' \in {session, file}
  BY DEF Respond, Fail, Crash, Shutdown, Save, vars
<1>2. CASE Respond \/ Fail \/ Crash
  <2>1. turn' \in Turns /\ turn'.n = turn.n /\ turn'.stage = "idle"
    BY <1>2, EndedTurn DEF Respond, Fail, Crash
  <2>2. StoreLegal(session, turn', archived) /\ StoreLegal(file, turn', archived)
    BY <2>1, StoresAtRest
  <2> QED
    BY <1>1, <2>1, <2>2, Resting
<1>3. CASE Shutdown
  <2>1. turn' = turn /\ turn.stage = "idle"
    BY <1>3 DEF Shutdown
  <2>2. StoreLegal(session, turn, archived) /\ StoreLegal(file, turn, archived)
    BY DEF Histories
  <2> QED
    BY <1>1, <2>1, <2>2, Resting
<1>4. CASE UNCHANGED vars
  BY <1>4 DEF vars, Histories, Answerable
<1> QED
  BY <1>2, <1>3, <1>4

LEMMA HistoriesNext == Inv /\ Histories /\ [Next]_vars => Histories'
<1> SUFFICES ASSUME Inv, Histories, [Next]_vars PROVE Histories'
  OBVIOUS
<1>1. CASE \E kind \in TurnKinds \ {"none"} : Begin(kind)
  BY <1>1, BeginLegal
<1>2. CASE CommandPrompt \/ CommandReply
  BY <1>2, CommandLegal
<1>3. CASE CommandNew \/ Cancel \/ NewBesideTurn
  BY <1>3, CancelLegal
<1>4. CASE Build
  BY <1>4, BuildLegal
<1>5. CASE Running
  BY <1>5, RunningStores
<1>6. CASE SaveTurn \/ SaveFails
  BY <1>6, SaveLegal
<1>7. CASE Respond \/ Fail \/ Crash \/ Shutdown \/ UNCHANGED vars
  BY <1>7, RestLegal
<1> QED
  BY <1>1, <1>2, <1>3, <1>4, <1>5, <1>6, <1>7 DEF Next, Running

LEMMA HistoriesInvariant == Spec => [](Inv /\ Histories)
<1>1. Spec => []Histories
  BY Invariance, HistoriesInit, HistoriesNext, PTL DEF Spec
<1> QED
  BY <1>1, Invariance, PTL

-----------------------------------------------------------------------------
(* The theorems: the stored history.                                        *)

\* What a legal list is to its readers.
LEMMA LegalIs ==
  ASSUME NEW s \in Seq(Messages), NEW a, Legal(s, a), NEW n, Old(s, n)
  PROVE  /\ LegalStart(s) = 0
         /\ \A i \in DOMAIN s :
              s[i].kind = "call" => \/ i < Len(s) /\ Declares(s[i], s[i + 1])
                                    \/ \E r \in a : Declares(s[i], r)
         /\ \A i \in DOMAIN s : \A j \in 1..i - 1 :
              /\ s[i] # Closing
              /\ <<s[i].turn, s[i].iter>> = <<s[j].turn, s[j].iter>>
              => s[i].kind # s[j].kind /\ ~(IsTool(s[i]) /\ IsTool(s[j]))
         /\ Room => \A i \in 1..Len(s) - 1 : ~({s[i].kind, s[i + 1].kind} \subseteq Opening)
<1>1. Len(s) \in Nat /\ DOMAIN s = 1..Len(s) /\ (s # <<>> => 1 \in 1..Len(s))
  OBVIOUS
<1>2. LegalStart(s) = 0
  <2>1. \A j \in 2..Len(s) : IsTool(s[j]) => Declares(s[j - 1], s[j])
    <3> SUFFICES ASSUME NEW j \in 2..Len(s), IsTool(s[j]) PROVE Declares(s[j - 1], s[j])
      OBVIOUS
    <3>1. PICK i \in 1..Len(s) - 1 : i = j - 1
      OBVIOUS
    <3>2. i + 1 = j
      BY <3>1
    <3>3. Link(s[i], s[i + 1], a)
      BY DEF Legal, Linked
    <3> QED
      BY <3>1, <3>2, <3>3 DEF Link
  <2>2. ~(s # <<>> /\ IsTool(s[1]))
    BY DEF Legal, Headed
  <2> QED
    BY <2>1, <2>2, LegalStartIs
<1>3. ASSUME NEW i \in 1..Len(s), s[i].kind = "call"
      PROVE  (i < Len(s) /\ Declares(s[i], s[i + 1])) \/ \E r \in a : Declares(s[i], r)
  <2>1. CASE i = Len(s)
    <3>1. s # <<>>
      BY <1>1, <2>1
    <3> QED
      BY <1>3, <2>1, <3>1 DEF Legal, Concluded
  <2>2. CASE i # Len(s)
    <3>1. i \in 1..Len(s) - 1 /\ i < Len(s)
      <4>1. PICK l \in Nat : l = Len(s)
        BY <1>1
      <4>2. i \in 1..l /\ i # l
        BY <2>2, <4>1
      <4>3. i \in 1..l - 1 /\ i < l
        BY <4>2
      <4> QED
        BY <4>1, <4>3
    <3>2. Link(s[i], s[i + 1], a)
      BY <3>1 DEF Legal, Linked
    <3> QED
      BY <1>3, <3>1, <3>2 DEF Link
  <2> QED
    BY <2>1, <2>2
<1>4. ASSUME NEW i \in 1..Len(s), NEW j \in 1..i - 1, s[i] # Closing,
             <<s[i].turn, s[i].iter>> = <<s[j].turn, s[j].iter>>
      PROVE  s[i].kind # s[j].kind /\ ~(IsTool(s[i]) /\ IsTool(s[j]))
  <2>1. j \in 1..Len(s) /\ i # j
    BY <1>1
  <2>2. Apart(s[i], s[j])
    BY <2>1 DEF Legal, Distinct
  <2>3. s[i].turn # 0 /\ s[i].turn = s[j].turn /\ s[i].iter = s[j].iter
    BY <1>4 DEF Old
  <2> QED
    BY <2>2, <2>3 DEF Apart
<1>5. ASSUME Room, NEW i \in 1..Len(s) - 1 PROVE ~({s[i].kind, s[i + 1].kind} \subseteq Opening)
  BY <1>5 DEF Legal, Linked, Link
<1> QED
  BY <1>1, <1>2, <1>3, <1>4, <1>5

\* Whatever is restored, saved, trimmed or cleared, after whatever faults: no stored
\* history holds a tool result without its call, a call is answered, and nothing is
\* stored twice.
THEOREM HistoryPaired == Spec => [](NoOrphanResult /\ CallsAnswered /\ NothingTwice)
<1>1. Inv /\ Histories => NoOrphanResult /\ CallsAnswered /\ NothingTwice
  <2> SUFFICES ASSUME Inv, Histories, NEW s \in {session.msgs, file.msgs}
               PROVE  /\ LegalStart(s) = 0
                      /\ \A i \in DOMAIN s :
                           s[i].kind = "call" => \/ i < Len(s) /\ Declares(s[i], s[i + 1])
                                                 \/ \E r \in archived : Declares(s[i], r)
                      /\ \A i \in DOMAIN s : \A j \in 1..i - 1 :
                           /\ s[i] # Closing
                           /\ <<s[i].turn, s[i].iter>> = <<s[j].turn, s[j].iter>>
                           => s[i].kind # s[j].kind /\ ~(IsTool(s[i]) /\ IsTool(s[j]))
    BY DEF NoOrphanResult, CallsAnswered, NothingTwice
  <2>1. s \in Seq(Messages) /\ Legal(s, archived) /\ Old(s, turn.n)
    BY InvSeqs, StoreOld DEF Histories, StoreLegal
  <2> QED
    BY <2>1, LegalIs
<1> QED
  BY <1>1, HistoriesInvariant, PTL

\* With the room that the code's bounds leave, every turn is closed before the next user
\* message goes in as well: what is stored is a history that every provider accepts.
THEOREM HistoryStaysLegal ==
  ASSUME Room
  PROVE  Spec => []HistoryLegal
<1>1. Inv /\ Histories => TurnsClosed
  <2> SUFFICES ASSUME Inv, Histories, NEW s \in {session.msgs, file.msgs},
                      NEW i \in 1..Len(s) - 1
               PROVE  ~({s[i].kind, s[i + 1].kind} \subseteq {"prompt", "command"})
    BY DEF TurnsClosed
  <2>1. s \in Seq(Messages) /\ Legal(s, archived) /\ Old(s, turn.n)
    BY InvSeqs, StoreOld DEF Histories, StoreLegal
  <2> QED
    BY <2>1, LegalIs DEF Opening
<1>2. NoOrphanResult /\ CallsAnswered /\ NothingTwice /\ TurnsClosed => HistoryLegal
  BY DEF HistoryLegal
<1> QED
  BY <1>1, <1>2, HistoriesInvariant, HistoryPaired, PTL

=============================================================================
