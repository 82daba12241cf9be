----------------------- MODULE OutboundDispatchProofs -----------------------
(***************************************************************************)
(* Theorems about OutboundDispatch, for any number of sessions, chats,     *)
(* segments and chunks.  The refinement of OutboundFifo needs what         *)
(* FlattenSeq and the merging of deltas do to sequences of any length;     *)
(* that is proved first, by induction.  The invariant then says of each    *)
(* buffer that its post shows a beginning of its text and is no other      *)
(* buffer's, and of each fingerprint that its text was handed over.        *)
(* Last comes what is to be read in the chats: of the log of all that was  *)
(* published, handled or not, that streams are written in order and ended  *)
(* one by one (Written); of buffers and posts, which chunks they have by   *)
(* what was handled and what failed (Displayed).                           *)
(***************************************************************************)
EXTENDS OutboundDispatch, SequenceTheorems, FiniteSetTheorems, WellFoundedInduction, TLAPS

-----------------------------------------------------------------------------
(* FlattenSeq.  It is a recursive function; what it computes for sequences *)
(* of any length is proved by induction, stated for a set of numbers.      *)

LEMMA Least ==
  ASSUME NEW S \in SUBSET Nat, S # {}
  PROVE  \E k \in S : \A i \in S : k <= i
  <1> DEFINE R == OpToRel(<, Nat)
  <1>1. IsWellFoundedOn(R, Nat)
    BY NatLessThanWellFounded
  <1>2. R = {ss \in Nat \X Nat : ss[1] < ss[2]}
    BY Zenon DEF OpToRel
  <1> HIDE DEF R
  <1>3. PICK k \in S : \A i \in S : ~(<<i, k>> \in R)
    BY <1>1, WFMin
  <1>4. ASSUME NEW i \in S PROVE k <= i
    <2>1. ~(i < k)
      BY <1>2, <1>3
    <2> QED
      BY <2>1
  <1> QED
    BY <1>4

LEMMA Induction ==
  ASSUME NEW n \in Nat, NEW S, 0 \in S, \A i \in 0..n - 1 : i \in S => i + 1 \in S
  PROVE  \A i \in 0..n : i \in S
  <1> DEFINE T == {i \in 0..n : i \notin S}
  <1>1. SUFFICES ASSUME T # {} PROVE FALSE
    OBVIOUS
  <1>2. T \subseteq Nat
    OBVIOUS
  <1>3. PICK k \in T : \A i \in T : k <= i
    BY <1>1, <1>2, Least
  <1>4. k \in Nat /\ k # 0 /\ k <= n /\ k - 1 \in Nat /\ (k - 1) + 1 = k
    OBVIOUS
  <1>5. k - 1 \in 0..n - 1 /\ k - 1 \notin T
    BY <1>3, <1>4
  <1>6. k - 1 \in S
    BY <1>4, <1>5
  <1>7. k \in S
    BY <1>4, <1>5, <1>6
  <1> QED
    BY <1>7

\* A set of positions that holds whatever comes before one of its members is an
\* initial segment.
LEMMA InitialSegment ==
  ASSUME NEW n \in Nat, NEW S \in SUBSET (1..n), \A i \in S : \A j \in 1..i : j \in S
  PROVE  /\ Cardinality(S) \in 0..n /\ S = 1..Cardinality(S)
  <1> DEFINE T == (1..n + 1) \ S
  <1>1. n + 1 \in T /\ T \subseteq Nat
    OBVIOUS
  <1>2. PICK k \in T : \A i \in T : k <= i
    BY <1>1, Least
  <1>3. k \in 1..n + 1 /\ k \notin S /\ k - 1 \in 0..n
    OBVIOUS
  <1>4. ASSUME NEW i \in 1..k - 1 PROVE i \in S
    <2>1. i \in 1..n + 1 /\ ~(k <= i)
      BY <1>3
    <2> QED
      BY <1>2, <2>1
  <1>5. ASSUME NEW i \in S PROVE i \in 1..k - 1
    <2>1. i \in 1..n /\ k \notin 1..i
      BY <1>3
    <2> QED
      BY <1>3, <2>1
  <1>6. S = 1..k - 1
    BY <1>4, <1>5
  <1>7. Cardinality(1..k - 1) = k - 1
    BY <1>3, FS_Interval
  <1> QED
    BY <1>3, <1>6, <1>7

\* The sequences flattened so far: what the recursive function inside FlattenSeq
\* returns for each index, and nothing for 0.
Flattens(q, g) ==
  /\ g[0] = <<>>
  /\ \A i \in 1..Len(q) : g[i] = g[i - 1] \o q[i]

LEMMA FlattensType ==
  ASSUME NEW S, NEW q \in Seq(Seq(S)), NEW g, Flattens(q, g), NEW i \in 0..Len(q)
  PROVE  g[i] \in Seq(S)
  <1> DEFINE T == {k \in 0..Len(q) : g[k] \in Seq(S)}
             n == Len(q)
  <1>1. n \in Nat
    BY LenProperties
  <1>2. g[0] \in Seq(S)
    BY EmptySeq DEF Flattens
  <1>3. ASSUME NEW k \in 0..n - 1, k \in T PROVE k + 1 \in T
    <2>1. k + 1 \in 1..n /\ k + 1 \in 0..n /\ (k + 1) - 1 = k /\ g[k] \in Seq(S)
      BY <1>1, <1>3
    <2>2. g[k + 1] = g[(k + 1) - 1] \o q[k + 1]
      BY <2>1 DEF Flattens
    <2>3. q[k + 1] \in Seq(S)
      BY <2>1, ElementOfSeq
    <2>4. g[k] \o q[k + 1] \in Seq(S)
      BY <2>1, <2>3, ConcatProperties
    <2> QED
      BY <2>1, <2>2, <2>4
  <1>4. 0 \in T
    BY <1>1, <1>2
  <1> HIDE DEF T, n
  <1>5. \A k \in 0..n - 1 : k \in T => k + 1 \in T
    BY <1>3
  <1>6. \A k \in 0..n : k \in T
    BY <1>1, <1>4, <1>5, Induction
  <1> QED
    BY <1>6 DEF T, n

LEMMA FlattensExists ==
  ASSUME NEW S, NEW q \in Seq(Seq(S))
  PROVE  \E g : Flattens(q, g)
  <1> DEFINE Upto(k, g) == /\ g[0] = <<>>
                           /\ \A i \in 1..k : g[i] = g[i - 1] \o q[i]
             n == Len(q)
             T == {k \in 0..n : \E g : Upto(k, g)}
  <1>1. n \in Nat
    BY LenProperties
  <1>2. 0 \in T
    <2>1. Upto(0, [i \in 0..0 |-> <<>>])
      OBVIOUS
    <2> HIDE DEF Upto
    <2> QED
      BY <1>1, <2>1
  <1>3. ASSUME NEW k \in 0..n - 1, k \in T PROVE k + 1 \in T
    <2>1. PICK g : Upto(k, g)
      BY <1>3
    <2>2. k \in Nat /\ k + 1 \in 0..n /\ (k + 1) - 1 = k
      BY <1>1
    <2> DEFINE last == g[k] \o q[k + 1]
               h == [i \in 0..k + 1 |-> IF i = k + 1 THEN last ELSE g[i]]
    <2> HIDE DEF last
    <2>3. \A i \in 0..k : h[i] = g[i]
      BY <2>2
    <2>4. h[k + 1] = g[k] \o q[k + 1]
      <3>1. k + 1 \in 0..k + 1 /\ h[k + 1] = last
        BY <2>2
      <3> QED
        BY <3>1 DEF last
    <2> HIDE DEF h
    <2>5. h[0] = <<>>
      BY <2>1, <2>2, <2>3
    <2>6. ASSUME NEW i \in 1..k + 1 PROVE h[i] = h[i - 1] \o q[i]
      <3>1. CASE i = k + 1
        <4>1. i - 1 = k /\ k \in 0..k
          BY <2>2, <3>1
        <4> QED
          BY <2>3, <2>4, <3>1, <4>1
      <3>2. CASE i # k + 1
        <4>1. i \in 1..k /\ i \in 0..k /\ i - 1 \in 0..k
          BY <2>2, <3>2
        <4> QED
          BY <2>1, <2>3, <4>1
      <3> QED
        BY <3>1, <3>2
    <2>7. Upto(k + 1, h)
      BY <2>5, <2>6
    <2> HIDE DEF Upto
    <2> QED
      BY <2>2, <2>7
  <1> HIDE DEF T
  <1>4. \A k \in 0..n - 1 : k \in T => k + 1 \in T
    BY <1>3
  <1> HIDE DEF n
  <1>5. \A k \in 0..n : k \in T
    BY <1>1, <1>2, <1>4, Induction
  <1>6. n \in T
    BY <1>1, <1>5
  <1> QED
    BY <1>6 DEF T, n, Flattens

LEMMA FlattensIsFlatten ==
  ASSUME NEW S, NEW q \in Seq(Seq(S)), NEW g, Flattens(q, g)
  PROVE  FlattenSeq(q) = g[Len(q)]
  <1> DEFINE n == Len(q)
  <1>1. n \in Nat
    BY LenProperties
  <1>2. CASE n = 0
    BY <1>2, EmptySeq DEF FlattenSeq, Flattens
  <1>3. CASE n # 0
    <2> DEFINE F(f) == [i \in 1..n |-> IF i = 1 THEN q[i] ELSE f[i - 1] \o q[i]]
               f == CHOOSE f : f = F(f)
               h == [i \in 1..n |-> g[i]]
    <2>1. FlattenSeq(q) = f[n]
      BY <1>1, <1>3 DEF FlattenSeq
    <2>2. h = F(h)
      <3>1. ASSUME NEW i \in 1..n PROVE g[i] = IF i = 1 THEN q[i] ELSE h[i - 1] \o q[i]
        <4>1. g[i] = g[i - 1] \o q[i]
          BY DEF Flattens
        <4>2. CASE i = 1
          <5>1. g[1] = <<>> \o q[1]
            <6>1. i - 1 = 0
              BY <4>2
            <6> QED
              BY <4>1, <4>2, <6>1 DEF Flattens
          <5>2. q[1] \in Seq(S)
            BY <1>1, <1>3, ElementOfSeq
          <5> QED
            BY <4>2, <5>1, <5>2, ConcatEmptySeq
        <4>3. CASE i # 1
          <5>1. i - 1 \in 1..n
            BY <1>1, <4>3
          <5> QED
            BY <4>1, <4>3, <5>1
        <4> QED
          BY <4>2, <4>3
      <3> QED
        BY <3>1
    <2>3. f = F(f)
      <3> HIDE DEF h, F
      <3> QED
        BY <2>2
    <2> DEFINE T == {k \in 0..n : k = 0 \/ f[k] = g[k]}
    <2> HIDE DEF f
    <2>4. ASSUME NEW k \in 0..n - 1, k \in T PROVE k + 1 \in T
      <3>1. k + 1 \in 1..n /\ k + 1 \in 0..n /\ (k + 1) - 1 = k /\ (k # 0 => k \in 1..n) /\ (k + 1 = 1 <=> k = 0)
        BY <1>1
      <3>2. f[k + 1] = IF k + 1 = 1 THEN q[k + 1] ELSE f[(k + 1) - 1] \o q[k + 1]
        BY <2>3, <3>1
      <3>3. h[k + 1] = IF k + 1 = 1 THEN q[k + 1] ELSE h[(k + 1) - 1] \o q[k + 1]
        BY <2>2, <3>1
      <3>4. h[k + 1] = g[k + 1] /\ (k # 0 => h[k] = g[k])
        BY <3>1
      <3>5. k # 0 => f[k] = g[k]
        BY <2>4
      <3>6. f[k + 1] = g[k + 1]
        <4> HIDE DEF h
        <4> QED
          BY <3>1, <3>2, <3>3, <3>4, <3>5
      <3> QED
        BY <3>1, <3>6
    <2>5. 0 \in T
      BY <1>1
    <2> HIDE DEF T, n
    <2>6. \A k \in 0..n - 1 : k \in T => k + 1 \in T
      BY <2>4
    <2>7. \A k \in 0..n : k \in T
      BY <1>1, <2>5, <2>6, Induction
    <2>8. n \in T /\ n # 0
      BY <1>1, <1>3, <2>7
    <2> QED
      BY <2>1, <2>8 DEF T, n
  <1> QED
    BY <1>2, <1>3

LEMMA FlattenType ==
  ASSUME NEW S, NEW q \in Seq(Seq(S))
  PROVE  FlattenSeq(q) \in Seq(S)
  <1>1. PICK g : Flattens(q, g)
    BY FlattensExists
  <1>2. Len(q) \in 0..Len(q)
    BY LenProperties
  <1> QED
    BY <1>1, <1>2, FlattensType, FlattensIsFlatten

LEMMA FlattenEmpty == FlattenSeq(<<>>) = <<>>
  BY EmptySeq DEF FlattenSeq

LEMMA FlattenOne ==
  ASSUME NEW S, NEW x \in Seq(S)
  PROVE  FlattenSeq(<<x>>) = x
  <1> DEFINE g == [i \in 0..1 |-> IF i = 0 THEN <<>> ELSE x]
  <1>1. <<x>> \in Seq(Seq(S)) /\ Len(<<x>>) = 1
    OBVIOUS
  <1>2. g[0] = <<>> /\ g[1] = x
    OBVIOUS
  <1>3. <<>> \o x = x
    BY ConcatEmptySeq
  <1> HIDE DEF g
  <1>4. ASSUME NEW i \in 1..1 PROVE g[i] = g[i - 1] \o <<x>>[i]
    <2>1. i = 1 /\ i - 1 = 0 /\ <<x>>[1] = x
      OBVIOUS
    <2> QED
      BY <1>2, <1>3, <2>1
  <1>5. Flattens(<<x>>, g)
    BY <1>1, <1>2, <1>4 DEF Flattens
  <1> QED
    BY <1>1, <1>2, <1>5, FlattensIsFlatten

LEMMA FlattenConcat ==
  ASSUME NEW S, NEW p \in Seq(Seq(S)), NEW q \in Seq(Seq(S))
  PROVE  FlattenSeq(p \o q) = FlattenSeq(p) \o FlattenSeq(q)
  <1>1. PICK gp : Flattens(p, gp)
    BY FlattensExists
  <1>2. PICK gq : Flattens(q, gq)
    BY FlattensExists
  <1> DEFINE m == Len(p)
             n == Len(q)
             whole == gp[m]
             g == [i \in 0..m + n |-> IF i <= m THEN gp[i] ELSE whole \o gq[i - m]]
  <1>3. m \in Nat /\ n \in Nat
    BY LenProperties
  <1>4. whole \in Seq(S) /\ gq[0] = <<>> /\ whole \o <<>> = whole
    <2>1. m \in 0..m
      BY <1>3
    <2>2. whole \in Seq(S)
      BY <1>1, <2>1, FlattensType
    <2> QED
      BY <1>2, <2>2, ConcatEmptySeq DEF Flattens
  <1>5. p \o q \in Seq(Seq(S)) /\ Len(p \o q) = m + n
    BY ConcatProperties
  <1> HIDE DEF m, n, whole
  <1>6. \A i \in 0..m : g[i] = gp[i]
    BY <1>3
  <1>7. \A i \in 0..n : g[m + i] = whole \o gq[i]
    <2> SUFFICES ASSUME NEW i \in 0..n PROVE g[m + i] = whole \o gq[i]
      OBVIOUS
    <2>1. m + i \in 0..m + n /\ (m + i) - m = i
      BY <1>3
    <2>2. CASE i = 0
      <3>1. m + i = m /\ m \in 0..m
        BY <1>3, <2>2
      <3> HIDE DEF g
      <3>2. g[m + i] = whole
        BY <1>6, <3>1 DEF whole
      <3> QED
        BY <1>4, <2>2, <3>2
    <2>3. CASE i # 0
      BY <1>3, <2>1, <2>3
    <2> QED
      BY <2>2, <2>3
  <1> HIDE DEF g
  <1>8. g[0] = <<>>
    BY <1>1, <1>3, <1>6 DEF Flattens
  <1>9. ASSUME NEW i \in 1..m + n PROVE g[i] = g[i - 1] \o (p \o q)[i]
    <2>1. CASE i <= m
      <3>1. i \in 1..m /\ i \in 0..m /\ i - 1 \in 0..m
        BY <1>3, <2>1
      <3>2. gp[i] = gp[i - 1] \o p[i]
        BY <1>1, <3>1 DEF Flattens, m
      <3>3. (p \o q)[i] = p[i]
        BY <3>1, ConcatProperties DEF m, n
      <3> QED
        BY <1>6, <3>1, <3>2, <3>3
    <2>2. CASE ~(i <= m)
      <3> DEFINE k == i - m
      <3>1. k \in 1..n /\ k \in 0..n /\ k - 1 \in 0..n /\ m + k = i /\ m + (k - 1) = i - 1
        BY <1>3, <2>2
      <3>2. gq[k] = gq[k - 1] \o q[k]
        BY <1>2, <3>1 DEF Flattens, n
      <3>3. (p \o q)[i] = q[k]
        BY <2>2, <3>1, ConcatProperties DEF m, n
      <3>4. q[k] \in Seq(S) /\ gq[k - 1] \in Seq(S)
        BY <1>2, <3>1, ElementOfSeq, FlattensType DEF n
      <3> HIDE DEF k
      <3>5. g[i] = whole \o gq[k] /\ g[i - 1] = whole \o gq[k - 1]
        BY <1>7, <3>1
      <3>6. whole \o (gq[k - 1] \o q[k]) = (whole \o gq[k - 1]) \o q[k]
        <4> DEFINE a == gq[k - 1]
                   b == q[k]
        <4>1. whole \in Seq(S) /\ a \in Seq(S) /\ b \in Seq(S)
          BY <1>4, <3>4
        <4> HIDE DEF a, b
        <4>2. (whole \o a) \o b = whole \o (a \o b)
          BY <4>1, ConcatAssociative
        <4> QED
          BY <4>2 DEF a, b
      <3> QED
        BY <3>2, <3>3, <3>5, <3>6
    <2> QED
      BY <2>1, <2>2
  <1>10. Flattens(p \o q, g)
    BY <1>5, <1>8, <1>9 DEF Flattens
  <1>11. FlattenSeq(p \o q) = g[m + n]
    BY <1>5, <1>10, FlattensIsFlatten
  <1>12. FlattenSeq(p) = whole /\ FlattenSeq(q) = gq[n]
    BY <1>1, <1>2, FlattensIsFlatten DEF m, n, whole
  <1>13. g[m + n] = whole \o gq[n]
    <2>1. n \in 0..n
      BY <1>3
    <2> QED
      BY <1>7, <2>1
  <1> QED
    BY <1>11, <1>12, <1>13

-----------------------------------------------------------------------------
(* Mapping the members of a sequence to sequences, and flattening these. *)

IsMap(F, M, S) == F \in [M -> S]

MapSeq(F, s) == [i \in DOMAIN s |-> F[s[i]]]

FlatMap(F, s) == FlattenSeq(MapSeq(F, s))

LEMMA MapSeqType ==
  ASSUME NEW F, NEW M, NEW S, IsMap(F, M, S), NEW s \in Seq(M)
  PROVE  /\ MapSeq(F, s) \in Seq(S) /\ Len(MapSeq(F, s)) = Len(s)
         /\ \A i \in 1..Len(s) : MapSeq(F, s)[i] = F[s[i]]
  <1> DEFINE t == [i \in 1..Len(s) |-> F[s[i]]]
  <1>1. Len(s) \in Nat /\ DOMAIN s = 1..Len(s) /\ \A i \in 1..Len(s) : F[s[i]] \in S
    BY ElementOfSeq, LenProperties DEF IsMap
  <1>2. t \in Seq(S)
    BY <1>1, IsASeq
  <1> QED
    BY <1>1, <1>2 DEF MapSeq

LEMMA MapSeqConcat ==
  ASSUME NEW F, NEW M, NEW S, IsMap(F, M, S), NEW s \in Seq(M), NEW t \in Seq(M)
  PROVE  MapSeq(F, s \o t) = MapSeq(F, s) \o MapSeq(F, t)
  <1> DEFINE u == s \o t
             fs == MapSeq(F, s)
             ft == MapSeq(F, t)
             fu == MapSeq(F, u)
             m == Len(s)
             n == Len(t)
  <1>1. /\ u \in Seq(M) /\ Len(u) = m + n /\ m \in Nat /\ n \in Nat
        /\ \A i \in 1..m + n : u[i] = IF i <= m THEN s[i] ELSE t[i - m]
    BY ConcatProperties, LenProperties
  <1>2. fs \in Seq(S) /\ Len(fs) = m /\ \A i \in 1..m : fs[i] = F[s[i]]
    BY MapSeqType
  <1>3. ft \in Seq(S) /\ Len(ft) = n /\ \A i \in 1..n : ft[i] = F[t[i]]
    BY MapSeqType
  <1> HIDE DEF u
  <1>4. fu \in Seq(S) /\ Len(fu) = m + n /\ \A i \in 1..m + n : fu[i] = F[u[i]]
    BY <1>1, MapSeqType
  <1> HIDE DEF fs, ft, fu
  <1>5. /\ fs \o ft \in Seq(S) /\ Len(fs \o ft) = m + n
        /\ \A i \in 1..m + n : (fs \o ft)[i] = IF i <= m THEN fs[i] ELSE ft[i - m]
    <2>1. /\ fs \o ft \in Seq(S) /\ Len(fs \o ft) = Len(fs) + Len(ft)
          /\ \A i \in 1..Len(fs) + Len(ft) : (fs \o ft)[i] = IF i <= Len(fs) THEN fs[i] ELSE ft[i - Len(fs)]
      BY <1>2, <1>3, ConcatProperties
    <2> QED
      BY <1>2, <1>3, <2>1
  <1> HIDE DEF m, n
  <1>6. ASSUME NEW i \in 1..m + n PROVE fu[i] = (fs \o ft)[i]
    <2>1. fu[i] = F[u[i]] /\ i \in Int
      BY <1>1, <1>4
    <2>2. CASE i <= m
      <3>1. i \in 1..m
        BY <1>1, <2>2
      <3>2. u[i] = s[i] /\ (fs \o ft)[i] = fs[i] /\ fs[i] = F[s[i]]
        BY <1>1, <1>2, <1>5, <2>2, <3>1
      <3> QED
        BY <2>1, <3>2
    <2>3. CASE ~(i <= m)
      <3>1. i - m \in 1..n
        BY <1>1, <2>3
      <3>2. u[i] = t[i - m] /\ (fs \o ft)[i] = ft[i - m] /\ ft[i - m] = F[t[i - m]]
        BY <1>1, <1>3, <1>5, <2>3, <3>1
      <3> QED
        BY <2>1, <3>2
    <2> QED
      BY <2>2, <2>3
  <1>7. fu = fs \o ft
    BY <1>4, <1>5, <1>6, SeqEqual
  <1> QED
    BY <1>7 DEF u, fu, fs, ft

LEMMA FlatMapType ==
  ASSUME NEW F, NEW M, NEW S, IsMap(F, M, Seq(S)), NEW s \in Seq(M)
  PROVE  FlatMap(F, s) \in Seq(S)
  <1>1. MapSeq(F, s) \in Seq(Seq(S))
    BY MapSeqType
  <1> QED
    BY <1>1, FlattenType DEF FlatMap

LEMMA FlatMapConcat ==
  ASSUME NEW F, NEW M, NEW S, IsMap(F, M, Seq(S)), NEW s \in Seq(M), NEW t \in Seq(M)
  PROVE  FlatMap(F, s \o t) = FlatMap(F, s) \o FlatMap(F, t)
  <1> DEFINE fs == MapSeq(F, s)
             ft == MapSeq(F, t)
  <1>1. fs \in Seq(Seq(S)) /\ ft \in Seq(Seq(S))
    BY MapSeqType
  <1>2. MapSeq(F, s \o t) = fs \o ft
    BY MapSeqConcat
  <1> HIDE DEF fs, ft
  <1>3. FlattenSeq(fs \o ft) = FlattenSeq(fs) \o FlattenSeq(ft)
    BY <1>1, FlattenConcat
  <1> QED
    BY <1>2, <1>3 DEF FlatMap, fs, ft

LEMMA FlatMapEmpty == ASSUME NEW F PROVE FlatMap(F, <<>>) = <<>>
  <1>1. MapSeq(F, <<>>) = <<>>
    BY DEF MapSeq
  <1> QED
    BY <1>1, FlattenEmpty DEF FlatMap

LEMMA FlatMapOne ==
  ASSUME NEW F, NEW M, NEW S, IsMap(F, M, Seq(S)), NEW m \in M
  PROVE  FlatMap(F, <<m>>) = F[m]
  <1> DEFINE s == <<m>>
             a == MapSeq(F, s)
  <1>1. s \in Seq(M) /\ Len(s) = 1 /\ s[1] = m /\ 1 \in 1..1
    OBVIOUS
  <1> HIDE DEF s
  <1>2. a \in Seq(Seq(S)) /\ Len(a) = 1 /\ a[1] = F[m]
    BY <1>1, MapSeqType
  <1> HIDE DEF a
  <1>3. a = <<F[m]>>
    BY <1>2
  <1>4. FlattenSeq(a) = F[m]
    <2>1. F[m] \in Seq(S)
      BY DEF IsMap
    <2> QED
      BY <1>3, <2>1, FlattenOne
  <1> QED
    BY <1>4 DEF FlatMap, a, s

-----------------------------------------------------------------------------
(* What messages stand for. *)

Unit == [kind : Kinds, id : Stream, part : Chunk \union Texts \union {0}]

LEMMA MessageFields ==
  ASSUME NEW m \in Message
  PROVE  /\ m.kind \in Kinds /\ m.id \in Stream /\ m.text \in Seq(Chunk \union Texts)
         /\ Len(m.text) \in Nat /\ \A i \in 1..Len(m.text) : m.text[i] \in Chunk \union Texts
  <1>1. m.kind \in Kinds /\ m.id \in Stream /\ m.text \in Seq(Chunk \union Texts)
    BY DEF Message
  <1> QED
    BY <1>1, LenProperties, ElementOfSeq

LEMMA UnitsType ==
  ASSUME NEW m \in Message
  PROVE  Units(m) \in Seq(Unit)
  <1> DEFINE texts == IF m.kind \in {"reply", "followup"} THEN m.kind ELSE "delta"
             own == IF m.kind \in {"delta", "reply", "followup"} THEN <<>>
                    ELSE <<[kind |-> m.kind, id |-> m.id, part |-> 0]>>
             shown == [i \in 1..Len(m.text) |-> [kind |-> texts, id |-> m.id, part |-> m.text[i]]]
  <1>1. texts \in Kinds
    BY DEF Kinds
  <1>2. own \in Seq(Unit)
    <2>1. [kind |-> m.kind, id |-> m.id, part |-> 0] \in Unit
      BY MessageFields DEF Unit
    <2> QED
      BY <2>1
  <1> HIDE DEF texts
  <1>3. \A i \in 1..Len(m.text) : [kind |-> texts, id |-> m.id, part |-> m.text[i]] \in Unit
    BY <1>1, MessageFields DEF Unit
  <1>4. shown \in Seq(Unit)
    BY <1>3, MessageFields, IsASeq
  <1>5. Units(m) = shown \o own
    BY DEF Units, texts
  <1> HIDE DEF shown, own
  <1> QED
    BY <1>2, <1>4, <1>5, ConcatProperties

\* Parts and Concat are such maps.
UnitsOf == [m \in Message |-> Units(m)]
TextOf == [m \in Message |-> m.text]

LEMMA PartsIsMap ==
  ASSUME NEW s \in Seq(Message)
  PROVE  Parts(s) = FlatMap(UnitsOf, s) /\ Concat(s) = FlatMap(TextOf, s)
  <1>1. DOMAIN s = 1..Len(s) /\ \A i \in DOMAIN s : s[i] \in Message
    BY LenProperties, ElementOfSeq
  <1>2. [i \in DOMAIN s |-> Units(s[i])] = [i \in DOMAIN s |-> UnitsOf[s[i]]]
    BY <1>1 DEF UnitsOf
  <1>3. [i \in DOMAIN s |-> s[i].text] = [i \in DOMAIN s |-> TextOf[s[i]]]
    BY <1>1 DEF TextOf
  <1> QED
    BY <1>2, <1>3 DEF Parts, Concat, FlatMap, MapSeq

LEMMA MapTypes == IsMap(UnitsOf, Message, Seq(Unit)) /\ IsMap(TextOf, Message, Seq(Chunk \union Texts))
  BY UnitsType, MessageFields DEF UnitsOf, TextOf, IsMap

LEMMA PartsEmpty == Parts(<<>>) = <<>> /\ Concat(<<>>) = <<>>
  <1>1. <<>> \in Seq(Message)
    OBVIOUS
  <1> QED
    BY <1>1, PartsIsMap, FlatMapEmpty

LEMMA PartsType ==
  ASSUME NEW s \in Seq(Message)
  PROVE  Parts(s) \in Seq(Unit) /\ Concat(s) \in Seq(Chunk \union Texts)
  BY PartsIsMap, MapTypes, FlatMapType

LEMMA PartsConcat ==
  ASSUME NEW s \in Seq(Message), NEW t \in Seq(Message)
  PROVE  Parts(s \o t) = Parts(s) \o Parts(t) /\ Concat(s \o t) = Concat(s) \o Concat(t)
  <1>1. s \o t \in Seq(Message)
    BY ConcatProperties
  <1>2. FlatMap(UnitsOf, s \o t) = FlatMap(UnitsOf, s) \o FlatMap(UnitsOf, t)
    BY MapTypes, FlatMapConcat
  <1>3. FlatMap(TextOf, s \o t) = FlatMap(TextOf, s) \o FlatMap(TextOf, t)
    BY MapTypes, FlatMapConcat
  <1> QED
    BY <1>1, <1>2, <1>3, PartsIsMap

LEMMA PartsOne ==
  ASSUME NEW m \in Message
  PROVE  Parts(<<m>>) = Units(m) /\ Concat(<<m>>) = m.text
  <1>1. <<m>> \in Seq(Message)
    OBVIOUS
  <1>2. FlatMap(UnitsOf, <<m>>) = UnitsOf[m]
    BY MapTypes, FlatMapOne
  <1>3. FlatMap(TextOf, <<m>>) = TextOf[m]
    BY MapTypes, FlatMapOne
  <1> QED
    BY <1>1, <1>2, <1>3, PartsIsMap DEF UnitsOf, TextOf

-----------------------------------------------------------------------------
(* The messages there are, and what is always true of what waits. *)

StreamKinds == {"delta", "end", "resuming"}
EndKinds == {"end", "resuming"}

\* A delta carries chunks, a whole message one text, and an event nothing; segment
\* 0 is no stream's.
Plain ==
  {m \in Message : /\ m.kind \in StreamKinds => m.text \in Seq(Chunk)
                   /\ m.kind \in {"reply", "followup"} => \E t \in Texts : m.text = <<t>>
                   /\ m.kind \in StreamKinds <=> m.id[3] # 0
                   /\ m.kind = "delta" => m.text # <<>>
                   /\ m.kind \in EndKinds => m.text = <<>>}

Waiting ==
  /\ queue \in Seq(Plain)
  /\ held \in Seq(Plain) /\ Len(held) <= 1
  /\ current \in Seq(Plain) /\ Len(current) <= 1
  /\ current = <<>> => tried = 0
  /\ handled \in Seq(Unit)

LEMMA PlainSeq ==
  ASSUME NEW s \in Seq(Plain)
  PROVE  s \in Seq(Message)
  <1>1. Plain \subseteq Message
    BY DEF Plain
  <1> QED
    BY <1>1, SeqMonotonic

\* The one message being sent, and those behind it.
LEMMA CurrentFacts ==
  ASSUME Waiting, current # <<>>
  PROVE  current[1] \in Plain /\ current[1] \in Message /\ current = <<current[1]>>
  <1>1. Len(current) = 1
    <2>1. current \in Seq(Plain) /\ Len(current) <= 1
      BY DEF Waiting
    <2>2. Len(current) \in Nat \ {0}
      BY <2>1, EmptySeq
    <2> DEFINE l == Len(current)
    <2>3. l <= 1 /\ l \in Nat \ {0}
      BY <2>1, <2>2
    <2> HIDE DEF l
    <2>4. l = 1
      BY <2>3
    <2> QED
      BY <2>4 DEF l
  <1>2. current[1] \in Plain
    BY <1>1, ElementOfSeq DEF Waiting
  <1> QED
    BY <1>1, <1>2 DEF Plain, Waiting

LEMMA WaitingFacts ==
  ASSUME Waiting
  PROVE  /\ held \o queue \in Seq(Plain) /\ held \o queue \in Seq(Message)
         /\ current \o held \o queue \in Seq(Message)
         /\ queue \in Seq(Message) /\ held \in Seq(Message) /\ current \in Seq(Message)
         /\ current \o held \o queue = current \o (held \o queue)
         /\ Parts(current \o held \o queue) = Parts(current) \o Parts(held \o queue)
         /\ Parts(current \o held \o queue) \in Seq(Unit) /\ Parts(held \o queue) \in Seq(Unit)
         /\ current = <<>> => Parts(current \o held \o queue) = Parts(held \o queue)
         /\ current # <<>> => Parts(current \o held \o queue) = Units(current[1]) \o Parts(held \o queue)
  <1>1. queue \in Seq(Message) /\ held \in Seq(Message) /\ current \in Seq(Message)
    BY PlainSeq DEF Waiting
  <1>2. held \o queue \in Seq(Plain) /\ held \o queue \in Seq(Message)
    BY PlainSeq, ConcatProperties DEF Waiting
  <1>3. current \o held \o queue = current \o (held \o queue)
    BY <1>1, ConcatAssociative
  <1>4. Parts(current \o (held \o queue)) = Parts(current) \o Parts(held \o queue)
        /\ current \o (held \o queue) \in Seq(Message)
    BY <1>1, <1>2, PartsConcat, ConcatProperties
  <1>5. Parts(current \o held \o queue) \in Seq(Unit) /\ Parts(held \o queue) \in Seq(Unit)
    BY <1>2, <1>3, <1>4, PartsType
  <1>6. current = <<>> => Parts(current) \o Parts(held \o queue) = Parts(held \o queue)
    BY <1>5, PartsEmpty, ConcatEmptySeq
  <1>7. current # <<>> => Parts(current) = Units(current[1])
    BY CurrentFacts, PartsOne
  <1> QED
    BY <1>1, <1>2, <1>3, <1>4, <1>5, <1>6, <1>7

\* What is published is well formed, and joins the end of what waits.
LEMMA PublishEffect ==
  ASSUME Waiting, NEW s \in Session, NEW kind \in Kinds, NEW segment \in 0..MaxSegments, NEW text,
         Publish(s, kind, segment, text), turns[s].n \in Turn, text \in Seq(Chunk \union Texts),
         kind \in StreamKinds => text \in Seq(Chunk),
         kind \in {"reply", "followup"} => \E t \in Texts : text = <<t>>,
         kind \in StreamKinds <=> segment # 0,
         kind = "delta" => text # <<>>, kind \in EndKinds => text = <<>>
  PROVE  LET m == Msg(kind, <<s, turns[s].n, segment>>, text)
         IN  /\ Waiting' /\ m \in Plain /\ queue' = Append(queue, m)
             /\ Parts(current \o held \o queue)' = Parts(current \o held \o queue) \o Units(m)
             /\ UNCHANGED <<held, current, tried, prints, buffer, screen, handled, trouble, faults>>
  <1> DEFINE m == Msg(kind, <<s, turns[s].n, segment>>, text)
  <1>1. queue' = Append(queue, m)
        /\ UNCHANGED <<held, current, tried, prints, buffer, screen, handled, trouble, faults>>
    BY DEF Publish
  <1>2. m \in Plain /\ m \in Message
    <2>1. <<s, turns[s].n, segment>> \in Stream
      BY DEF Stream
    <2>2. m \in Message /\ m.kind = kind /\ m.text = text /\ m.id = <<s, turns[s].n, segment>>
      BY <2>1 DEF Msg, Message
    <2>3. m.id[3] = segment
      BY <2>2
    <2> HIDE DEF m
    <2> QED
      BY <2>2, <2>3 DEF Plain
  <1> HIDE DEF m
  <1>3. queue' \in Seq(Plain) /\ queue' = queue \o <<m>>
    BY <1>1, <1>2, AppendProperties, AppendIsConcat DEF Waiting
  <1>4. Waiting'
    BY <1>1, <1>3 DEF Waiting
  <1> DEFINE front == current \o held
  <1>5. front \in Seq(Message) /\ queue \in Seq(Message) /\ <<m>> \in Seq(Message)
    BY <1>2, WaitingFacts, ConcatProperties
  <1>6. front' = front
    BY <1>1
  <1> HIDE DEF front
  <1>7. front \o queue' = (front \o queue) \o <<m>> /\ front \o queue \in Seq(Message)
    BY <1>3, <1>5, ConcatAssociative, ConcatProperties
  <1>8. Parts(front \o queue') = Parts(front \o queue) \o Units(m)
    BY <1>2, <1>5, <1>7, PartsConcat, PartsOne
  <1>9. Parts(current \o held \o queue)' = Parts(front' \o queue')
    BY DEF front, Parts, Units
  <1> QED
    BY <1>1, <1>2, <1>4, <1>6, <1>8, <1>9 DEF m, front

-----------------------------------------------------------------------------
(* Coalescing. *)

DeltaUnit(id) == [part \in Chunk \union Texts |-> [kind |-> "delta", id |-> id, part |-> part]]

Deltas(id, text) == MapSeq(DeltaUnit(id), text)

Own(m) == IF m.kind = "delta" THEN <<>> ELSE <<[kind |-> m.kind, id |-> m.id, part |-> 0]>>

LEMMA DeltaUnitType ==
  ASSUME NEW id \in Stream
  PROVE  IsMap(DeltaUnit(id), Chunk \union Texts, Unit)
  BY DEF IsMap, DeltaUnit, Unit, Kinds

LEMMA DeltasConcat ==
  ASSUME NEW id \in Stream, NEW s \in Seq(Chunk \union Texts), NEW t \in Seq(Chunk \union Texts)
  PROVE  Deltas(id, s \o t) = Deltas(id, s) \o Deltas(id, t) /\ Deltas(id, s) \in Seq(Unit)
  BY DeltaUnitType, MapSeqConcat, MapSeqType DEF Deltas

LEMMA StreamUnits ==
  ASSUME NEW m \in Message, m.kind \in StreamKinds
  PROVE  Units(m) = Deltas(m.id, m.text) \o Own(m) /\ Own(m) \in Seq(Unit)
         /\ (m.kind = "delta" => Units(m) = Deltas(m.id, m.text))
  <1> DEFINE shown == [i \in 1..Len(m.text) |-> [kind |-> "delta", id |-> m.id, part |-> m.text[i]]]
  <1>1. Units(m) = shown \o Own(m)
    BY DEF Units, StreamKinds, Own
  <1>2. DOMAIN m.text = 1..Len(m.text) /\ \A i \in 1..Len(m.text) : m.text[i] \in Chunk \union Texts
    BY MessageFields, LenProperties
  <1>3. shown = Deltas(m.id, m.text)
    BY <1>2 DEF Deltas, MapSeq, DeltaUnit
  <1>4. Own(m) \in Seq(Unit)
    <2>1. [kind |-> m.kind, id |-> m.id, part |-> 0] \in Unit
      BY MessageFields DEF Unit
    <2> QED
      BY <2>1 DEF Own
  <1>5. Deltas(m.id, m.text) \in Seq(Unit)
    BY MessageFields, DeltasConcat
  <1>6. m.kind = "delta" => Own(m) = <<>>
    BY DEF Own
  <1> HIDE DEF shown
  <1> QED
    BY <1>1, <1>3, <1>4, <1>5, <1>6, ConcatEmptySeq

\* A run of deltas of one stream stands for its chunks, one after the other.
LEMMA RunOfDeltas ==
  ASSUME NEW r \in Seq(Message), NEW id \in Stream,
         \A i \in 1..Len(r) : r[i].id = id /\ r[i].kind = "delta"
  PROVE  Parts(r) = Deltas(id, Concat(r))
  <1> DEFINE n == Len(r)
             Upto(k) == SubSeq(r, 1, k)
             T == {k \in 0..n : Parts(Upto(k)) = Deltas(id, Concat(Upto(k)))}
  <1>1. n \in Nat
    BY LenProperties
  <1>2. 0 \in T
    <2>1. Upto(0) = <<>>
      BY SubSeqEmpty
    <2>2. Deltas(id, <<>>) = <<>>
      BY DEF Deltas, MapSeq
    <2> HIDE DEF Upto
    <2> QED
      BY <1>1, <2>1, <2>2, PartsEmpty
  <1>3. ASSUME NEW k \in 0..n - 1, k \in T PROVE k + 1 \in T
    <2>1. k \in 0..n /\ k + 1 \in 0..n /\ k + 1 \in 1..n /\ 1 \in 1..n /\ k + 1 \in 1..Len(r) /\ (k + 1) - 1 = k
      BY <1>1
    <2>2. \A i \in 1..k : r[i] \in Message
      BY <1>1, ElementOfSeq
    <2> DEFINE a == Upto(k)
               m == r[k + 1]
    <2>3. a \in Seq(Message)
      BY <1>1, <2>2, SubSeqProperties
    <2>4. Upto(k + 1) = a \o <<m>>
      <3>1. k + 1 \in 1..Len(r)
        BY <2>1
      <3> QED
        BY <2>1, <3>1, SubSeqRecursiveSecond
    <2>5. m \in Message /\ m.id = id /\ m.kind = "delta"
      BY <2>1, ElementOfSeq
    <2>6. Parts(a) = Deltas(id, Concat(a))
      BY <1>3
    <2> HIDE DEF a, m, Upto
    <2>7. Parts(a \o <<m>>) = Parts(a) \o Units(m) /\ Concat(a \o <<m>>) = Concat(a) \o m.text
      <3>1. <<m>> \in Seq(Message)
        BY <2>5
      <3> QED
        BY <2>3, <2>5, <3>1, PartsConcat, PartsOne
    <2>8. Units(m) = Deltas(id, m.text)
      BY <2>5, StreamUnits DEF StreamKinds
    <2>9. Concat(a) \in Seq(Chunk \union Texts) /\ m.text \in Seq(Chunk \union Texts)
      BY <2>3, <2>5, PartsType, MessageFields
    <2>10. Deltas(id, Concat(a) \o m.text) = Deltas(id, Concat(a)) \o Deltas(id, m.text)
      BY <2>9, DeltasConcat
    <2> QED
      BY <2>1, <2>4, <2>6, <2>7, <2>8, <2>10
  <1> HIDE DEF T
  <1>4. \A k \in 0..n - 1 : k \in T => k + 1 \in T
    BY <1>3
  <1> HIDE DEF n
  <1>5. \A k \in 0..n : k \in T
    BY <1>1, <1>2, <1>4, Induction
  <1>6. n \in T
    BY <1>1, <1>5
  <1>7. Upto(n) = r
    BY SubSeqFull DEF n
  <1> QED
    BY <1>6, <1>7 DEF T

LEMMA UnitsAssociate ==
  ASSUME NEW s \in Seq(Unit), NEW t \in Seq(Unit), NEW u \in Seq(Unit)
  PROVE  (s \o t) \o u = s \o (t \o u)
  BY ConcatAssociative

LEMMA StreamTexts ==
  ASSUME NEW s \in Seq(Message), \A i \in 1..Len(s) : s[i].text \in Seq(Chunk)
  PROVE  Concat(s) \in Seq(Chunk)
  <1> DEFINE n == Len(s)
             q == [i \in 1..n |-> s[i].text]
  <1>1. n \in Nat /\ DOMAIN s = 1..n /\ \A i \in 1..n : s[i].text \in Seq(Chunk)
    BY LenProperties
  <1> HIDE DEF n
  <1>2. q \in Seq(Seq(Chunk))
    BY <1>1, IsASeq
  <1>3. Concat(s) = FlattenSeq(q)
    BY <1>1 DEF Concat
  <1> HIDE DEF q
  <1> QED
    BY <1>2, <1>3, FlattenType

\* A coalesced message stands for the messages it was made of.
LEMMA Coalesced ==
  ASSUME NEW first \in Plain, first.kind = "delta", NEW more \in Seq(Plain), more # <<>>,
         \A i \in 1..Len(more) : Continues(first, more[i]),
         \A i \in 1..Len(more) - 1 : more[i].kind = "delta"
  PROVE  LET m == [first EXCEPT !.kind = more[Len(more)].kind, !.text = @ \o Concat(more)]
         IN  m \in Plain /\ m.kind \in StreamKinds /\ Units(m) = Units(first) \o Parts(more)
  <1> DEFINE n == Len(more)
             last == more[n]
             init == SubSeq(more, 1, n - 1)
             id == first.id
             own == Own(last)
  <1>1. n \in Nat \ {0} /\ 1 \in 1..n /\ n \in 1..n /\ more \in Seq(Message) /\ n - 1 \in 0..n
    BY EmptySeq, PlainSeq
  <1>2. last \in Plain /\ last \in Message /\ last.id = id /\ last.kind \in StreamKinds
        /\ last.kind = "delta" /\ first \in Message /\ id \in Stream
    <2>1. last \in Plain /\ Continues(first, last)
      BY <1>1, ElementOfSeq
    <2> QED
      BY <2>1, MessageFields DEF Plain, Continues, StreamKinds, EndKinds
  <1>3. init \in Seq(Message) /\ Len(init) = n - 1 /\ \A i \in 1..n - 1 : init[i] = more[i]
    <2>1. \A i \in 1..n - 1 : more[i] \in Message
      BY <1>1, ElementOfSeq
    <2>2. /\ init \in Seq(Message) /\ Len(init) = (IF 1 <= n - 1 THEN (n - 1) - 1 + 1 ELSE 0)
          /\ \A i \in 1..(n - 1) - 1 + 1 : init[i] = more[1 + i - 1]
      BY <1>1, <2>1, SubSeqProperties
    <2> HIDE DEF init, n
    <2> QED
      BY <1>1, <2>2
  <1>4. more = init \o <<last>>
    BY <1>1, SubSeqRecursiveSecond, SubSeqFull
  <1>5. \A i \in 1..Len(init) : init[i].id = id /\ init[i].kind = "delta"
    <2>1. ASSUME NEW i \in 1..n - 1 PROVE more[i].id = id /\ more[i].kind = "delta"
      <3>1. i \in 1..n
        BY <1>1
      <3> QED
        BY <3>1 DEF Continues
    <2> HIDE DEF init, n
    <2> QED
      BY <1>3, <2>1
  <1> HIDE DEF init, last
  <1>6. Parts(init) = Deltas(id, Concat(init))
    <2> HIDE DEF id
    <2> QED
      BY <1>2, <1>3, <1>5, RunOfDeltas
  <1>7. Units(last) = Deltas(id, last.text) \o own /\ own \in Seq(Unit)
    BY <1>2, StreamUnits
  <1>8. Units(first) = Deltas(id, first.text)
    BY <1>2, StreamUnits DEF StreamKinds
  <1>9. <<last>> \in Seq(Message)
    BY <1>2
  <1>10. Concat(more) = Concat(init) \o last.text /\ Parts(more) = Parts(init) \o Units(last)
    BY <1>2, <1>3, <1>4, <1>9, PartsConcat, PartsOne
  <1> DEFINE a == first.text
             b == Concat(init)
             c == last.text
             da == Deltas(id, a)
             db == Deltas(id, b)
             dc == Deltas(id, c)
  <1>11. a \in Seq(Chunk) /\ c \in Seq(Chunk) /\ b \in Seq(Chunk \union Texts)
    BY <1>2, <1>3, PartsType DEF Plain, StreamKinds
  <1>12. Concat(more) \in Seq(Chunk)
    <2>1. \A i \in 1..n : more[i].text \in Seq(Chunk)
      BY ElementOfSeq DEF Continues, Plain, StreamKinds
    <2> QED
      BY <1>1, <2>1, StreamTexts
  <1>13. /\ a \in Seq(Chunk \union Texts) /\ c \in Seq(Chunk \union Texts)
         /\ b \o c \in Seq(Chunk \union Texts)
    <2>1. a \in Seq(Chunk \union Texts) /\ c \in Seq(Chunk \union Texts)
      BY <1>2, MessageFields
    <2> HIDE DEF a, b, c
    <2> QED
      BY <1>11, <2>1, ConcatProperties
  <1>14. a \o Concat(more) = a \o (b \o c) /\ a \o (b \o c) \in Seq(Chunk)
    <2>1. a \o Concat(more) \in Seq(Chunk)
      BY <1>11, <1>12, ConcatProperties
    <2> QED
      BY <1>10, <2>1
  <1> DEFINE m == [first EXCEPT !.kind = more[n].kind, !.text = @ \o Concat(more)]
  <1>15. m \in Plain /\ m.kind \in StreamKinds /\ m.id = id /\ m.kind = last.kind /\ m.text = a \o (b \o c)
    <2> DEFINE text == a \o Concat(more)
               kind == last.kind
    <2>1. m = [first EXCEPT !.kind = kind, !.text = text]
      BY DEF last
    <2>2. text \in Seq(Chunk) /\ text \in Seq(Chunk \union Texts) /\ kind \in StreamKinds /\ kind \in Kinds
      <3>1. Chunk \subseteq Chunk \union Texts
        OBVIOUS
      <3>2. text \in Seq(Chunk)
        BY <1>14
      <3> HIDE DEF text
      <3> QED
        BY <1>2, <3>1, <3>2, SeqMonotonic DEF StreamKinds, Kinds
    <2> HIDE DEF text, kind, m
    <2>3. m \in Message /\ m.id = first.id /\ m.kind = kind /\ m.text = text
      BY <1>2, <2>1, <2>2 DEF Message
    <2>4. text # <<>>
      <3>1. a # <<>>
        BY DEF Plain
      <3> DEFINE d == Concat(more)
      <3>2. a \in Seq(Chunk) /\ d \in Seq(Chunk)
        BY <1>11, <1>12
      <3> HIDE DEF a, d
      <3>3. a \o d # <<>>
        BY <3>1, <3>2, ConcatEmptySeq
      <3> QED
        BY <3>3 DEF text, d
    <2>5. m \in Plain /\ m.kind \in StreamKinds
      <3>1. kind = "delta" /\ (first.kind \in StreamKinds <=> first.id[3] # 0)
        BY <1>2 DEF Plain, kind
      <3> QED
        BY <2>2, <2>3, <2>4, <3>1 DEF Plain, StreamKinds, EndKinds
    <2> QED
      BY <1>14, <2>3, <2>5 DEF text, kind
  <1>16. Units(m) = Deltas(id, a \o (b \o c)) \o own
    <2>1. m \in Message /\ Own(m) = own
      BY <1>2, <1>15 DEF Own, Plain
    <2> HIDE DEF m, own
    <2> QED
      BY <1>15, <2>1, StreamUnits
  <1>17. Deltas(id, a \o (b \o c)) = da \o (db \o dc)
    <2> HIDE DEF a, b, c, id
    <2>1. Deltas(id, a \o (b \o c)) = Deltas(id, a) \o Deltas(id, b \o c)
      BY <1>2, <1>13, DeltasConcat
    <2>2. Deltas(id, b \o c) = Deltas(id, b) \o Deltas(id, c)
      BY <1>2, <1>11, <1>13, DeltasConcat
    <2> QED
      BY <2>1, <2>2
  <1>18. da \in Seq(Unit) /\ db \in Seq(Unit) /\ dc \in Seq(Unit)
    <2> HIDE DEF a, b, c, id
    <2> QED
      BY <1>2, <1>11, <1>13, DeltasConcat
  <1>19. Units(first) \o Parts(more) = da \o (db \o (dc \o own))
    BY <1>6, <1>7, <1>8, <1>10
  <1>20. (da \o (db \o dc)) \o own = da \o (db \o (dc \o own))
    <2> HIDE DEF da, db, dc, own
    <2>1. db \o dc \in Seq(Unit) /\ own \in Seq(Unit)
      BY <1>7, <1>18, ConcatProperties
    <2>2. (da \o (db \o dc)) \o own = da \o ((db \o dc) \o own)
      BY <1>18, <2>1, UnitsAssociate
    <2>3. (db \o dc) \o own = db \o (dc \o own)
      BY <1>18, <2>1, UnitsAssociate
    <2> QED
      BY <2>2, <2>3
  <1>21. Units(m) = Units(first) \o Parts(more)
    <2> HIDE DEF m, da, db, dc, own, a, b, c
    <2> QED
      BY <1>16, <1>17, <1>19, <1>20
  <1> QED
    BY <1>15, <1>21

LEMMA HeadAndTail ==
  ASSUME NEW s \in Seq(Plain), s # <<>>
  PROVE  /\ Head(s) \in Plain /\ Tail(s) \in Seq(Plain) /\ s = <<Head(s)>> \o Tail(s)
         /\ <<Head(s)>> \in Seq(Plain) /\ Len(<<Head(s)>>) = 1
  <1>1. Head(s) \in Plain /\ Tail(s) \in Seq(Plain) /\ Len(s) \in Nat \ {0}
    BY HeadTailProperties, EmptySeq
  <1>2. SubSeq(s, 1, Len(s)) = <<s[1]>> \o SubSeq(s, 2, Len(s))
    <2>1. 1 \in 1..Len(s) /\ Len(s) \in 1..Len(s) /\ 1 + 1 = 2
      BY <1>1
    <2> QED
      BY <2>1, SubSeqRecursiveFirst
  <1>3. SubSeq(s, 1, Len(s)) = s /\ SubSeq(s, 2, Len(s)) = Tail(s) /\ s[1] = Head(s)
    BY SubSeqFull, TailIsSubSeq
  <1> QED
    BY <1>1, <1>2, <1>3

\* How many messages are coalesced: an initial segment of what waits.
LEMMA MergedSegment ==
  ASSUME NEW first \in Plain, NEW rest \in Seq(Plain)
  PROVE  /\ Cardinality(Merged(first, rest)) \in 0..Len(rest)
         /\ \A i \in 1..Cardinality(Merged(first, rest)) : Continues(first, rest[i])
         /\ \A i \in 1..Cardinality(Merged(first, rest)) - 1 : rest[i].kind = "delta"
  <1> DEFINE S == Merged(first, rest)
             n == Cardinality(S)
  <1>1. Len(rest) \in Nat /\ S \in SUBSET (1..Len(rest))
    BY LenProperties DEF Merged
  <1>2. ASSUME NEW i \in S, NEW j \in 1..i PROVE j \in S
    <2>1. i \in 1..Len(rest) /\ j \in 1..Len(rest) /\ 1..j \subseteq 1..i /\ 1..j - 1 \subseteq 1..i - 1
      BY <1>1
    <2> QED
      BY <2>1 DEF Merged
  <1> HIDE DEF S
  <1>3. n \in 0..Len(rest) /\ S = 1..n
    BY <1>1, <1>2, InitialSegment
  <1>4. n \in Nat
    BY <1>1, <1>3
  <1> HIDE DEF n
  <1>5. CASE n = 0
    BY <1>3, <1>5 DEF S, n
  <1>6. CASE n # 0
    <2>1. n \in S
      BY <1>3, <1>4, <1>6
    <2> QED
      BY <1>3, <2>1 DEF S, n, Merged
  <1> QED
    BY <1>5, <1>6

LEMMA TakeEffect ==
  ASSUME Waiting, Take
  PROVE  \E m \in Plain, left \in Seq(Plain) :
           /\ Parts(held \o queue) = Units(m) \o Parts(left)
           /\ held' \o queue' = left /\ held' \in Seq(Plain) /\ queue' \in Seq(Plain) /\ Len(held') <= 1
           /\ IF Ignored(m) THEN handled' = handled \o Units(m) /\ UNCHANGED <<current, prints>>
              ELSE current' = <<m>> /\ prints' = Noted(m) /\ UNCHANGED handled
           /\ current = <<>>
           /\ UNCHANGED <<turns, tried, buffer, screen, trouble, faults>>
  <1> DEFINE all == held \o queue
             first == Head(all)
             rest == Tail(all)
             n == IF first.kind = "delta" THEN Cardinality(Merged(first, rest)) ELSE 0
             more == SubSeq(rest, 1, n)
             m == IF n = 0 THEN first
                  ELSE [first EXCEPT !.kind = more[n].kind, !.text = @ \o Concat(more)]
             left == SubSeq(rest, n + 1, Len(rest))
  <1>1. /\ IF first.kind = "delta" /\ m.kind = "delta" /\ left # <<>>
           THEN SetAside(left) ELSE held' = <<>> /\ queue' = left
        /\ IF Ignored(m) THEN handled' = handled \o Units(m) /\ UNCHANGED <<current, prints>>
           ELSE current' = <<m>> /\ prints' = Noted(m) /\ UNCHANGED handled
        /\ current = <<>> /\ all # <<>>
        /\ UNCHANGED <<turns, tried, buffer, screen, trouble, faults>>
    BY DEF Take, Ready
  <1>2. /\ first \in Plain /\ rest \in Seq(Plain) /\ all = <<first>> \o rest /\ first \in Message
        /\ rest \in Seq(Message) /\ <<first>> \in Seq(Message) /\ Len(rest) \in Nat
    <2>1. all \in Seq(Plain)
      BY WaitingFacts
    <2> HIDE DEF all
    <2>2. first \in Plain /\ rest \in Seq(Plain) /\ all = <<first>> \o rest /\ <<first>> \in Seq(Plain)
      BY <1>1, <2>1, HeadAndTail
    <2> HIDE DEF first, rest
    <2> QED
      BY <2>2, PlainSeq, LenProperties DEF Plain
  <1>3. Parts(all) = Units(first) \o Parts(rest)
    <2> HIDE DEF all, first, rest
    <2> QED
      BY <1>2, PartsConcat, PartsOne
  <1>4. /\ n \in 0..Len(rest)
        /\ \A i \in 1..n : Continues(first, rest[i])
        /\ \A i \in 1..n - 1 : rest[i].kind = "delta"
        /\ n # 0 => first.kind = "delta"
    <2> HIDE DEF all, first, rest
    <2>1. CASE first.kind = "delta"
      BY <1>2, <2>1, MergedSegment
    <2>2. CASE first.kind # "delta"
      <3>1. n = 0
        BY <2>2
      <3> HIDE DEF n
      <3> QED
        BY <1>2, <3>1
    <2> QED
      BY <2>1, <2>2
  <1> HIDE DEF all, first, rest, n
  <1>5. /\ more \in Seq(Plain) /\ Len(more) = n /\ \A i \in 1..n : more[i] = rest[i]
        /\ left \in Seq(Plain)
    <2>1. \A i \in 1..Len(rest) : rest[i] \in Plain
      BY <1>2, ElementOfSeq
    <2>2. n \in Nat /\ n <= Len(rest)
      BY <1>2, <1>4
    <2>3. /\ more \in Seq(Plain) /\ Len(more) = (IF 1 <= n THEN n - 1 + 1 ELSE 0)
          /\ \A i \in 1..n - 1 + 1 : more[i] = rest[1 + i - 1]
      <3>1. \A i \in 1..n : rest[i] \in Plain
        BY <2>1, <2>2
      <3> QED
        BY <2>2, <3>1, SubSeqProperties
    <2>4. left \in Seq(Plain)
      <3>1. \A i \in n + 1..Len(rest) : rest[i] \in Plain
        BY <2>1, <2>2
      <3> QED
        BY <1>2, <2>2, <3>1, SubSeqProperties
    <2> HIDE DEF more, left
    <2> QED
      BY <2>2, <2>3, <2>4
  <1>6. rest = more \o left
    <2>1. 1 \in 1..Len(rest) + 1 /\ n \in 1 - 1..Len(rest) /\ Len(rest) \in n..Len(rest)
      BY <1>2, <1>4
    <2> QED
      BY <1>2, <2>1, ConcatAdjacentSubSeq, SubSeqFull
  <1>7. m \in Plain /\ Units(m) \o Parts(left) = Parts(all)
    <2>1. CASE n = 0
      <3>1. m = first
        BY <2>1
      <3>2. left = rest
        <4>1. n + 1 = 1
          BY <2>1
        <4> QED
          BY <1>2, <4>1, SubSeqFull
      <3> QED
        BY <1>2, <1>3, <3>1, <3>2
    <2>2. CASE n # 0
      <3> HIDE DEF more, left
      <3>1. more # <<>> /\ Len(more) = n
        BY <1>5, <2>2, EmptySeq
      <3>2. /\ \A i \in 1..Len(more) : Continues(first, more[i])
            /\ \A i \in 1..Len(more) - 1 : more[i].kind = "delta"
        <4>1. \A i \in 1..n - 1 : i \in 1..n
          BY <1>2, <1>4
        <4> QED
          BY <1>4, <1>5, <3>1, <4>1
      <3> DEFINE c == [first EXCEPT !.kind = more[Len(more)].kind, !.text = @ \o Concat(more)]
      <3>3. c \in Plain /\ Units(c) = Units(first) \o Parts(more)
        BY <1>2, <1>4, <1>5, <2>2, <3>1, <3>2, Coalesced
      <3>4. m = c
        BY <2>2, <3>1
      <3> HIDE DEF c, m
      <3>5. more \in Seq(Message) /\ left \in Seq(Message)
        BY <1>5, PlainSeq
      <3>6. Parts(rest) = Parts(more) \o Parts(left)
        BY <1>6, <3>5, PartsConcat
      <3>7. Parts(more) \in Seq(Unit) /\ Parts(left) \in Seq(Unit) /\ Units(first) \in Seq(Unit)
        BY <1>2, <3>5, PartsType, UnitsType
      <3>8. (Units(first) \o Parts(more)) \o Parts(left) = Units(first) \o (Parts(more) \o Parts(left))
        BY <3>7, UnitsAssociate
      <3> QED
        BY <1>3, <3>3, <3>4, <3>6, <3>8
    <2> QED
      BY <2>1, <2>2
  <1> HIDE DEF m, left
  <1>8. held' \o queue' = left /\ held' \in Seq(Plain) /\ queue' \in Seq(Plain) /\ Len(held') <= 1
    <2>1. CASE left # <<>> /\ SetAside(left)
      BY <1>5, <2>1, HeadAndTail DEF SetAside
    <2>2. CASE held' = <<>> /\ queue' = left
      BY <1>5, <2>2, ConcatEmptySeq, EmptySeq
    <2> QED
      BY <1>1, <2>1, <2>2
  <1> QED
    BY <1>1, <1>5, <1>7, <1>8 DEF all

-----------------------------------------------------------------------------
(* Prefixes of sequences of chunks and texts. *)

Shown == Chunk \union Texts

LEMMA PrefixIs ==
  ASSUME NEW s \in Seq(Shown), NEW t \in Seq(Shown)
  PROVE  IsPrefix(s, t) <=> Len(s) <= Len(t) /\ \A i \in 1..Len(s) : s[i] = t[i]
  <1>1. Len(s) \in Nat /\ Len(t) \in Nat
    BY LenProperties
  <1>2. SubSeq(s, 1, Len(s)) = s
    BY SubSeqFull
  <1>3. ASSUME Len(s) <= Len(t)
        PROVE  s = SubSeq(t, 1, Len(s)) <=> \A i \in 1..Len(s) : s[i] = t[i]
    <2> DEFINE n == Len(s)
               u == SubSeq(t, 1, n)
    <2>1. \A i \in 1..n : t[i] \in Shown
      BY <1>1, <1>3, ElementOfSeq
    <2>2. /\ u \in Seq(Shown) /\ Len(u) = (IF 1 <= n THEN n - 1 + 1 ELSE 0)
          /\ \A i \in 1..n - 1 + 1 : u[i] = t[1 + i - 1]
      BY <1>1, <2>1, SubSeqProperties
    <2> HIDE DEF u
    <2>3. n \in Nat /\ n - 1 + 1 = n
      BY <1>1
    <2> HIDE DEF n
    <2>4. Len(u) = n /\ \A i \in 1..n : u[i] = t[i]
      BY <2>2, <2>3
    <2>5. Len(u) = Len(s)
      BY <2>4 DEF n
    <2>6. s = u <=> \A i \in 1..Len(s) : s[i] = u[i]
      BY <2>2, <2>5, SeqEqual
    <2> QED
      BY <2>4, <2>6 DEF n, u
  <1> QED
    BY <1>1, <1>2, <1>3 DEF IsPrefix

LEMMA PrefixReflexive ==
  ASSUME NEW s \in Seq(Shown)
  PROVE  IsPrefix(s, s)
  <1>1. Len(s) \in Nat
    BY LenProperties
  <1> QED
    BY <1>1, PrefixIs

LEMMA PrefixConcat ==
  ASSUME NEW s \in Seq(Shown), NEW t \in Seq(Shown), NEW u \in Seq(Shown), IsPrefix(s, t)
  PROVE  IsPrefix(s, t \o u)
  <1>1. Len(s) \in Nat /\ Len(t) \in Nat /\ Len(u) \in Nat
    BY LenProperties
  <1>2. Len(s) <= Len(t) /\ \A i \in 1..Len(s) : s[i] = t[i]
    BY PrefixIs
  <1> DEFINE v == t \o u
  <1>3. /\ v \in Seq(Shown) /\ Len(v) = Len(t) + Len(u)
        /\ \A i \in 1..Len(t) + Len(u) : v[i] = IF i <= Len(t) THEN t[i] ELSE u[i - Len(t)]
    BY ConcatProperties
  <1> HIDE DEF v
  <1>4. Len(s) <= Len(v) /\ \A i \in 1..Len(s) : s[i] = v[i]
    BY <1>1, <1>2, <1>3
  <1>5. IsPrefix(s, v)
    BY <1>3, <1>4, PrefixIs
  <1> QED
    BY <1>5 DEF v

\* The chunks of a stream are also a text that may be shown.
LEMMA ChunksShown ==
  ASSUME NEW s \in Seq(Chunk)
  PROVE  s \in Seq(Shown)
  <1>1. Chunk \subseteq Shown
    BY DEF Shown
  <1> QED
    BY <1>1, SeqMonotonic

-----------------------------------------------------------------------------
(* The channels' buffers and the posts they know of. *)

Key == Chat \union Stream
ChatAt(k) == IF k \in Chat THEN k ELSE ChatOf(k)
Buffers == [id : Stream \union {<<>>}, text : Seq(Chunk), post : Nat]
Post == [id : Stream, text : Seq(Shown)]
Screens == [Chat -> Seq(Post)]

\* The post that a buffer knows of is one of its own stream, in its own chat, and
\* shows a beginning of the buffered text.  Only Telegram's and Matrix's buffers
\* know of posts: those are found by chat and these by stream.
Good(k, b, scr) ==
  /\ b \in Buffers
  /\ b.id = <<>> => b = NoBuffer
  /\ k \in Stream => b.id \in {k, <<>>}
  /\ b.post # 0 =>
       LET c == ChatAt(k) IN
       /\ style[c] = IF k \in Chat THEN "telegram" ELSE "matrix"
       /\ b.post \in 1..Len(scr[c])
       /\ scr[c][b.post].id = b.id
       /\ IsPrefix(scr[c][b.post].text, b.text)

\* Every post is still there, shows the same stream and at least what it showed.
Extends(scr, new) ==
  \A c \in Chat : \A i \in DOMAIN scr[c] :
    new[c][i].id = scr[c][i].id /\ IsPrefix(scr[c][i].text, new[c][i].text)

Buffered ==
  /\ screen \in Screens
  /\ buffer \in [Key -> Buffers]
  /\ \A k \in Key : Good(k, buffer[k], screen)

LEMMA ChatAtType ==
  /\ \A k \in Key : ChatAt(k) \in Chat
  /\ \A id \in Stream : ChatOf(id) \in Chat /\ ChatAt(id) = ChatOf(id) /\ id \notin Chat /\ id # <<>>
  <1>1. \A id \in Stream : ChatOf(id) \in Chat
    BY OutboundAssumption DEF ChatOf, Stream
  <1>2. \A id \in Stream : id \notin Chat
    BY KeysAssumption
  <1>3. \A id \in Stream : id # <<>>
    BY DEF Stream
  <1> QED
    BY <1>1, <1>2, <1>3 DEF Key, ChatAt

LEMMA NoBufferGood ==
  ASSUME NEW scr, NEW k
  PROVE  Good(k, NoBuffer, scr) /\ NoBuffer \in Buffers
  BY DEF Good, NoBuffer, Buffers

\* A new post disturbs nothing.
LEMMA AppendKeeps ==
  ASSUME NEW scr \in Screens, NEW c \in Chat, NEW p \in Post
  PROVE  LET new == [scr EXCEPT ![c] = Append(@, p)]
         IN  /\ new \in Screens /\ Extends(scr, new)
             /\ Len(new[c]) = Len(scr[c]) + 1 /\ new[c][Len(scr[c]) + 1] = p
             /\ \A k \in Key : \A b : Good(k, b, scr) => Good(k, b, new)
  <1> DEFINE new == [scr EXCEPT ![c] = Append(@, p)]
  <1>1. scr[c] \in Seq(Post) /\ \A d \in Chat : scr[d] \in Seq(Post)
    BY DEF Screens
  <1>2. new[c] = Append(scr[c], p) /\ \A d \in Chat \ {c} : new[d] = scr[d]
    BY DEF Screens
  <1>3. /\ new[c] \in Seq(Post) /\ Len(new[c]) = Len(scr[c]) + 1 /\ new[c][Len(scr[c]) + 1] = p
        /\ \A i \in 1..Len(scr[c]) : new[c][i] = scr[c][i]
    <2> DEFINE s == scr[c]
    <2>1. s \in Seq(Post) /\ new[c] = Append(s, p)
      BY <1>1, <1>2
    <2> HIDE DEF s, new
    <2>2. /\ Append(s, p) \in Seq(Post) /\ Len(Append(s, p)) = Len(s) + 1
          /\ Append(s, p)[Len(s) + 1] = p /\ \A i \in 1..Len(s) : Append(s, p)[i] = s[i]
      BY <2>1, AppendProperties
    <2> QED
      BY <2>1, <2>2 DEF s
  <1>4. new \in Screens
    <2>1. new = [d \in Chat |-> IF d = c THEN Append(scr[c], p) ELSE scr[d]]
      BY DEF Screens
    <2>2. Append(scr[c], p) \in Seq(Post)
      BY <1>2, <1>3
    <2> QED
      BY <1>1, <2>1, <2>2 DEF Screens
  <1> HIDE DEF new
  <1>5. \A d \in Chat : /\ Len(scr[d]) \in Nat /\ Len(new[d]) \in Nat /\ Len(new[d]) >= Len(scr[d])
                        /\ DOMAIN scr[d] = 1..Len(scr[d])
                        /\ \A i \in 1..Len(scr[d]) : new[d][i] = scr[d][i] /\ scr[d][i] \in Post
    <2> TAKE d \in Chat
    <2>1. Len(scr[d]) \in Nat /\ DOMAIN scr[d] = 1..Len(scr[d]) /\ \A i \in 1..Len(scr[d]) : scr[d][i] \in Post
      BY <1>1, LenProperties, ElementOfSeq
    <2>2. CASE d = c
      BY <1>3, <2>1, <2>2
    <2>3. CASE d # c
      BY <1>2, <2>1, <2>3
    <2> QED
      BY <2>2, <2>3
  <1>6. Extends(scr, new)
    <2> SUFFICES ASSUME NEW d \in Chat, NEW i \in DOMAIN scr[d]
                 PROVE  new[d][i].id = scr[d][i].id /\ IsPrefix(scr[d][i].text, new[d][i].text)
      BY DEF Extends
    <2>1. new[d][i] = scr[d][i] /\ scr[d][i] \in Post
      BY <1>5
    <2>2. scr[d][i].text \in Seq(Shown)
      BY <2>1 DEF Post
    <2> QED
      BY <2>1, <2>2, PrefixReflexive
  <1>7. ASSUME NEW k \in Key, NEW b, Good(k, b, scr)
        PROVE  Good(k, b, new)
    <2>1. ChatAt(k) \in Chat
      BY ChatAtType
    <2> DEFINE d == ChatAt(k)
    <2> HIDE DEF d
    <2>2. ASSUME b.post # 0
          PROVE  b.post \in 1..Len(new[d]) /\ new[d][b.post] = scr[d][b.post]
      <3>1. b.post \in 1..Len(scr[d]) /\ d \in Chat
        BY <1>7, <2>1, <2>2 DEF Good, d
      <3> QED
        BY <1>5, <3>1
    <2> QED
      BY <1>7, <2>2 DEF Good, d
  <1> QED
    BY <1>3, <1>4, <1>6, <1>7 DEF new

\* Editing the post of one buffer disturbs no other.
LEMMA EditKeeps ==
  ASSUME NEW scr \in Screens, NEW k \in Key, NEW b, Good(k, b, scr), b.post # 0
  PROVE  LET new == [scr EXCEPT ![ChatAt(k)][b.post].text = b.text]
         IN  /\ new \in Screens /\ Extends(scr, new) /\ Good(k, b, new)
             /\ \A j \in Key \ {k} : \A d : Good(j, d, scr) => Good(j, d, new)
  <1> DEFINE c == ChatAt(k)
             i == b.post
             new == [scr EXCEPT ![c][i].text = b.text]
             post == [scr[c][i] EXCEPT !.text = b.text]
  <1>1. c \in Chat /\ scr[c] \in Seq(Post) /\ \A d \in Chat : scr[d] \in Seq(Post)
    BY ChatAtType DEF Screens
  <1>2. /\ b \in Buffers /\ b.text \in Seq(Shown) /\ style[c] = (IF k \in Chat THEN "telegram" ELSE "matrix")
        /\ i \in 1..Len(scr[c]) /\ scr[c][i].id = b.id /\ IsPrefix(scr[c][i].text, b.text)
        /\ k \in Stream => b.id = k
    <2>1. b \in Buffers /\ b.id # <<>>
      BY DEF Good, NoBuffer
    <2>2. b.text \in Seq(Shown)
      BY <2>1, ChunksShown DEF Buffers
    <2> QED
      BY <2>1, <2>2 DEF Good
  <1> HIDE DEF c, i
  <1>3. scr[c][i] \in Post /\ post \in Post /\ post.id = scr[c][i].id /\ post.text = b.text
    <2>1. scr[c][i] \in Post
      BY <1>1, <1>2, ElementOfSeq
    <2> DEFINE q == scr[c][i]
    <2> HIDE DEF q
    <2>2. q \in Post => [q EXCEPT !.text = b.text] \in Post /\ [q EXCEPT !.text = b.text].id = q.id
                        /\ [q EXCEPT !.text = b.text].text = b.text
      BY <1>2 DEF Post
    <2> QED
      BY <2>1, <2>2 DEF q
  <1>4. new = [scr EXCEPT ![c] = [scr[c] EXCEPT ![i] = post]]
    BY <1>1 DEF Screens
  <1> HIDE DEF new, post
  <1> DEFINE s == scr[c]
             t == [s EXCEPT ![i] = post]
  <1>5. /\ t \in Seq(Post) /\ Len(t) = Len(s)
        /\ \A j \in 1..Len(s) : t[j] = IF j = i THEN post ELSE s[j]
    <2>1. s \in Seq(Post) /\ i \in 1..Len(s)
      BY <1>1, <1>2
    <2> HIDE DEF s
    <2> QED
      BY <1>3, <2>1, ExceptSeq
  <1>6. new[c] = t /\ \A d \in Chat \ {c} : new[d] = scr[d]
    <2> HIDE DEF t
    <2>1. new = [scr EXCEPT ![c] = t]
      BY <1>4 DEF t
    <2> QED
      BY <1>1, <2>1 DEF Screens
  <1>7. new \in Screens
    <2> HIDE DEF t
    <2>1. new = [d \in Chat |-> IF d = c THEN t ELSE scr[d]]
      BY <1>4 DEF Screens, t
    <2> QED
      BY <1>1, <1>5, <2>1 DEF Screens
  <1>8. \A d \in Chat : /\ Len(scr[d]) \in Nat /\ Len(new[d]) = Len(scr[d]) /\ DOMAIN scr[d] = 1..Len(scr[d])
                        /\ \A j \in 1..Len(scr[d]) :
                             /\ scr[d][j] \in Post
                             /\ new[d][j] = IF d = c /\ j = i THEN post ELSE scr[d][j]
    <2> TAKE d \in Chat
    <2>1. Len(scr[d]) \in Nat /\ DOMAIN scr[d] = 1..Len(scr[d]) /\ \A j \in 1..Len(scr[d]) : scr[d][j] \in Post
      BY <1>1, LenProperties, ElementOfSeq
    <2> HIDE DEF t
    <2>2. CASE d = c
      BY <1>5, <1>6, <2>1, <2>2
    <2>3. CASE d # c
      BY <1>6, <2>1, <2>3
    <2> QED
      BY <2>2, <2>3
  <1> HIDE DEF s, t
  <1>9. Extends(scr, new)
    <2> SUFFICES ASSUME NEW d \in Chat, NEW j \in DOMAIN scr[d]
                 PROVE  new[d][j].id = scr[d][j].id /\ IsPrefix(scr[d][j].text, new[d][j].text)
      BY DEF Extends
    <2>1. CASE d = c /\ j = i
      BY <1>2, <1>3, <1>8, <2>1
    <2>2. CASE ~(d = c /\ j = i)
      <3>1. new[d][j] = scr[d][j] /\ scr[d][j].text \in Seq(Shown)
        BY <1>8, <2>2 DEF Post
      <3> QED
        BY <3>1, PrefixReflexive
    <2> QED
      BY <2>1, <2>2
  <1>10. Good(k, b, new)
    <2>1. /\ i \in 1..Len(new[c]) /\ new[c][i].id = b.id /\ IsPrefix(new[c][i].text, b.text)
          /\ style[c] = (IF k \in Chat THEN "telegram" ELSE "matrix")
      BY <1>1, <1>2, <1>3, <1>8, PrefixReflexive
    <2> QED
      BY <2>1 DEF Good, c, i
  <1>11. ASSUME NEW j \in Key \ {k}, NEW d, Good(j, d, scr)
         PROVE  Good(j, d, new)
    <2> DEFINE e == ChatAt(j)
    <2>1. e \in Chat
      BY ChatAtType
    <2>2. ASSUME d.post # 0
          PROVE  d.post \in 1..Len(new[e]) /\ new[e][d.post] = scr[e][d.post]
      <3>1. /\ d.post \in 1..Len(scr[e]) /\ style[e] = (IF j \in Chat THEN "telegram" ELSE "matrix")
            /\ scr[e][d.post].id = d.id /\ d.id # <<>> /\ (j \in Stream => d.id = j)
        BY <1>11, <2>2 DEF Good, NoBuffer
      <3>2. ~(e = c /\ d.post = i)
        <4> SUFFICES ASSUME e = c, d.post = i
                     PROVE  FALSE
          OBVIOUS
        <4>1. d.id = b.id /\ (j \in Chat <=> k \in Chat)
          BY <1>2, <3>1
        <4>2. CASE j \in Chat
          <5>1. e = j /\ c = k
            BY <4>1, <4>2 DEF ChatAt, c
          <5> QED
            BY <5>1
        <4>3. CASE j \notin Chat
          <5>1. j \in Stream /\ k \in Stream
            BY <4>1, <4>3 DEF Key
          <5> QED
            BY <1>2, <3>1, <4>1, <5>1
        <4> QED
          BY <4>2, <4>3
      <3> HIDE DEF e
      <3> QED
        BY <1>8, <2>1, <3>1, <3>2
    <2> QED
      BY <1>11, <2>2 DEF Good
  <1> QED
    BY <1>7, <1>9, <1>10, <1>11 DEF new, c, i

\* A step that changes one buffer, and does to the chats what `EditKeeps` and
\* `AppendKeeps` allow.
LEMMA BufferedStep ==
  ASSUME Buffered, UNCHANGED style, NEW k \in Key, NEW b,
         buffer' = [buffer EXCEPT ![k] = b],
         screen' \in Screens, Good(k, b, screen'),
         \A j \in Key \ {k} : \A d : Good(j, d, screen) => Good(j, d, screen')
  PROVE  Buffered'
  <1>1. b \in Buffers
    BY DEF Good
  <1>2. buffer' \in [Key -> Buffers] /\ buffer'[k] = b /\ \A j \in Key \ {k} : buffer'[j] = buffer[j]
    BY <1>1 DEF Buffered
  <1>3. \A j \in Key : Good(j, buffer'[j], screen')
    BY <1>2 DEF Buffered
  <1>4. \A j \in Key : Good(j, buffer[j], screen)'
    BY <1>3 DEF Good, ChatAt, ChatOf, NoBuffer
  <1> QED
    BY <1>2, <1>4 DEF Buffered, Key, Buffers, Screens, Post

LEMMA SameScreen ==
  ASSUME Buffered
  PROVE  Extends(screen, screen)
  <1> SUFFICES ASSUME NEW c \in Chat, NEW i \in DOMAIN screen[c]
               PROVE  IsPrefix(screen[c][i].text, screen[c][i].text)
    BY DEF Extends
  <1>1. screen[c] \in Seq(Post)
    BY DEF Buffered, Screens
  <1>2. screen[c][i] \in Post
    BY <1>1, LenProperties, ElementOfSeq
  <1> QED
    BY <1>2, PrefixReflexive DEF Post

LEMMA QuietStep ==
  ASSUME Buffered, UNCHANGED style, NEW k \in Key, NEW b, Good(k, b, screen),
         buffer' = [buffer EXCEPT ![k] = b], UNCHANGED screen
  PROVE  Buffered' /\ Extends(screen, screen')
  <1>1. screen' \in Screens /\ screen' = screen
    BY DEF Buffered
  <1>2. Good(k, b, screen') /\ \A j \in Key \ {k} : \A d : Good(j, d, screen) => Good(j, d, screen')
    BY <1>1
  <1>3. Buffered'
    BY <1>1, <1>2, BufferedStep
  <1> QED
    BY <1>1, <1>3, SameScreen

\* The buffer after a request that would post: as it was, or with the new post.
Learned(k, b, c, id, text, o, d) ==
  \/ d = b
  \/ /\ o = "ok" /\ d = [b EXCEPT !.post = Len(screen[c]) + 1]
     /\ b.id = id /\ b.text = text /\ c = ChatAt(k)
     /\ style[c] = IF k \in Chat THEN "telegram" ELSE "matrix"

\* `b` is what the buffer is without the answer.
LEMMA PostingStep ==
  ASSUME Buffered, UNCHANGED style, NEW k \in Key, NEW b, Good(k, b, screen),
         NEW c \in Chat, NEW id \in Stream, NEW text \in Seq(Shown), NEW o \in Outcomes,
         Posts(c, id, text, o),
         NEW d, buffer' = [buffer EXCEPT ![k] = d], Learned(k, b, c, id, text, o, d)
  PROVE  Buffered' /\ Extends(screen, screen')
  <1>1. screen \in Screens
    BY DEF Buffered
  <1>2. CASE o = "failed"
    <2>1. screen' = screen /\ d = b
      BY <1>2 DEF Posts, Learned
    <2> QED
      BY <2>1, QuietStep
  <1>3. CASE o # "failed"
    <2> DEFINE p == [id |-> id, text |-> text]
               new == [screen EXCEPT ![c] = Append(@, p)]
    <2>1. screen' = new /\ p \in Post
      BY <1>3 DEF Posts, Post
    <2> HIDE DEF p
    <2>2. /\ new \in Screens /\ Extends(screen, new)
          /\ Len(new[c]) = Len(screen[c]) + 1 /\ new[c][Len(screen[c]) + 1] = p
          /\ \A j \in Key : \A e : Good(j, e, screen) => Good(j, e, new)
      BY <1>1, <2>1, AppendKeeps
    <2> HIDE DEF new
    <2>3. Good(k, d, new)
      <3>1. CASE d = b
        BY <2>2, <3>1
      <3>2. CASE d # b
        <4>1. /\ d = [b EXCEPT !.post = Len(screen[c]) + 1] /\ b \in Buffers
              /\ b.id = id /\ b.text = text /\ c = ChatAt(k) /\ text \in Seq(Chunk)
              /\ style[c] = IF k \in Chat THEN "telegram" ELSE "matrix"
          BY <3>2 DEF Good, Buffers, Learned
        <4>2. Len(screen[c]) \in Nat
          BY <1>1, LenProperties DEF Screens
        <4> DEFINE n == Len(screen[c]) + 1
        <4>3. n \in Nat /\ n # 0 /\ n \in 1..Len(new[c]) /\ new[c][n] = p
          BY <2>2, <4>2
        <4> HIDE DEF n
        <4>4. d \in Buffers /\ d.id = id /\ d.text = text /\ d.post = n
          BY <4>1, <4>3 DEF Buffers, n
        <4>5. new[c][n].id = id /\ new[c][n].text = text /\ IsPrefix(text, text)
          BY <4>3, PrefixReflexive DEF p
        <4>6. id # <<>> /\ (k \in Stream => id \in {k, <<>>})
          BY <4>1, ChatAtType DEF Good
        <4> QED
          BY <4>1, <4>3, <4>4, <4>5, <4>6 DEF Good
      <3> QED
        BY <3>1, <3>2
    <2>4. Buffered'
      BY <2>1, <2>2, <2>3, BufferedStep
    <2> QED
      BY <2>1, <2>2, <2>4
  <1> QED
    BY <1>2, <1>3

\* A request that would edit the post the buffer knows of.
LEMMA EditingStep ==
  ASSUME Buffered, UNCHANGED style, NEW k \in Key, NEW b, Good(k, b, screen), b.post # 0,
         NEW o \in Outcomes, Edits(ChatAt(k), b.post, b.text, o),
         NEW d \in {b, NoBuffer}, buffer' = [buffer EXCEPT ![k] = d]
  PROVE  Buffered' /\ Extends(screen, screen')
  <1>1. screen \in Screens /\ \A scr : Good(k, b, scr) => Good(k, d, scr)
    BY NoBufferGood DEF Buffered
  <1>2. CASE o = "failed"
    BY <1>1, <1>2, QuietStep DEF Edits
  <1>3. CASE o # "failed"
    <2> DEFINE new == [screen EXCEPT ![ChatAt(k)][b.post].text = b.text]
    <2>1. screen' = new
      BY <1>3 DEF Edits
    <2>2. /\ new \in Screens /\ Extends(screen, new) /\ Good(k, b, new)
          /\ \A j \in Key \ {k} : \A e : Good(j, e, screen) => Good(j, e, new)
      BY <1>1, EditKeeps
    <2> HIDE DEF new
    <2>3. Buffered'
      BY <1>1, <2>1, <2>2, BufferedStep
    <2> QED
      BY <2>1, <2>2, <2>3
  <1> QED
    BY <1>2, <1>3

-----------------------------------------------------------------------------
(* What each of the dispatcher's sends does to the chats and the buffers. *)

\* A delta is added to the text of its own stream, or starts another.
LEMMA AccumulatedGood ==
  ASSUME Buffered, NEW m \in Plain, m.kind = "delta", NEW k \in Key, k \in Stream => k = m.id
  PROVE  LET b == Accumulated(k, m)
         IN  Good(k, b, screen) /\ b.id = m.id /\ b.text \in Seq(Chunk) /\ b.text \in Seq(Shown)
  <1> DEFINE b == Accumulated(k, m)
             a == buffer[k]
  <1>1. m.id \in Stream /\ m.text \in Seq(Chunk) /\ m.id # <<>>
    BY MessageFields, ChatAtType DEF Plain, StreamKinds
  <1>2. a \in Buffers /\ Good(k, a, screen)
    BY DEF Buffered
  <1>3. CASE a.id = m.id
    <2>1. b = [a EXCEPT !.text = @ \o m.text]
      BY <1>3 DEF Accumulated
    <2> HIDE DEF a, b
    <2>2. a.text \in Seq(Chunk) /\ a.text \o m.text \in Seq(Chunk)
      BY <1>1, <1>2, ConcatProperties DEF Buffers
    <2>3. b \in Buffers /\ b.id = a.id /\ b.post = a.post /\ b.text = a.text \o m.text
      BY <1>2, <2>1, <2>2 DEF Buffers
    <2>4. ASSUME b.post # 0
          PROVE  LET c == ChatAt(k) IN
                 /\ style[c] = IF k \in Chat THEN "telegram" ELSE "matrix"
                 /\ b.post \in 1..Len(screen[c])
                 /\ screen[c][b.post].id = b.id
                 /\ IsPrefix(screen[c][b.post].text, b.text)
      <3> DEFINE c == ChatAt(k)
      <3> HIDE DEF c
      <3>1. /\ style[c] = IF k \in Chat THEN "telegram" ELSE "matrix"
            /\ b.post \in 1..Len(screen[c])
            /\ screen[c][b.post].id = b.id
            /\ IsPrefix(screen[c][b.post].text, a.text)
        BY <1>2, <2>3, <2>4 DEF Good, c
      <3>2. screen[c] \in Seq(Post)
        BY ChatAtType DEF Buffered, Screens, c
      <3>3. screen[c][b.post] \in Post
        BY <3>1, <3>2, ElementOfSeq
      <3>4. screen[c][b.post].text \in Seq(Shown) /\ a.text \in Seq(Shown) /\ m.text \in Seq(Shown)
        BY <1>1, <2>2, <3>3, ChunksShown DEF Post
      <3>5. IsPrefix(screen[c][b.post].text, a.text \o m.text)
        BY <3>1, <3>4, PrefixConcat
      <3> QED
        BY <2>3, <3>1, <3>5 DEF c
    <2>5. Good(k, b, screen)
      BY <1>1, <1>3, <2>3, <2>4 DEF Good
    <2>6. b.text \in Seq(Chunk) /\ b.text \in Seq(Shown)
      BY <2>2, <2>3, ChunksShown
    <2> QED
      BY <1>3, <2>3, <2>5, <2>6 DEF b
  <1>4. CASE a.id # m.id
    <2>1. b = [[[id |-> <<>>, text |-> <<>>, post |-> 0] EXCEPT !.id = m.id] EXCEPT !.text = m.text]
      BY <1>4 DEF Accumulated, Fresh, NoBuffer
    <2> HIDE DEF a, b
    <2>2. b = [id |-> m.id, text |-> m.text, post |-> 0]
      BY <2>1
    <2>3. b \in Buffers /\ b.id = m.id /\ b.post = 0 /\ b.text = m.text
      BY <1>1, <2>2 DEF Buffers
    <2>4. Good(k, b, screen)
      BY <1>1, <2>3 DEF Good
    <2> QED
      BY <1>1, <2>3, <2>4, ChunksShown DEF b
  <1> QED
    BY <1>3, <1>4

\* The message being sent, and the keys it may find a buffer at.
LEMMA SendingFacts ==
  ASSUME Waiting, Buffered, current # <<>>
  PROVE  LET m == current[1] IN
         /\ m \in Plain /\ m.id \in Stream /\ m.id \in Key /\ ChatAt(m.id) = ChatOf(m.id)
         /\ ChatOf(m.id) \in Chat /\ ChatOf(m.id) \in Key /\ ChatOf(m.id) \notin Stream
         /\ ChatAt(ChatOf(m.id)) = ChatOf(m.id)
         /\ m.text \in Seq(Shown)
         /\ \A k \in Key : buffer = [buffer EXCEPT ![k] = buffer[k]]
  <1>1. current[1] \in Plain /\ current[1] \in Message
    BY CurrentFacts
  <1>2. current[1].id \in Stream /\ current[1].text \in Seq(Shown)
    BY <1>1, MessageFields DEF Shown
  <1>3. \A k \in Key : buffer = [buffer EXCEPT ![k] = buffer[k]]
    BY DEF Buffered
  <1> QED
    BY <1>1, <1>2, <1>3, ChatAtType, KeysAssumption DEF Key, ChatAt

LEMMA SendWholeShows ==
  ASSUME Waiting, Buffered, SendWhole, UNCHANGED style
  PROVE  Buffered' /\ Extends(screen, screen')
  <1> DEFINE m == current[1]
  <1>1. current # <<>> /\ UNCHANGED buffer /\ \E o \in Outcomes : Posts(ChatOf(m.id), m.id, m.text, o)
    BY DEF SendWhole
  <1>2. PICK o \in Outcomes : Posts(ChatOf(m.id), m.id, m.text, o)
    BY <1>1
  <1>3. /\ m.id \in Stream /\ m.id \in Key /\ ChatOf(m.id) \in Chat /\ m.text \in Seq(Shown)
        /\ buffer' = [buffer EXCEPT ![m.id] = buffer[m.id]] /\ Good(m.id, buffer[m.id], screen)
        /\ Learned(m.id, buffer[m.id], ChatOf(m.id), m.id, m.text, o, buffer[m.id])
    BY <1>1, SendingFacts DEF Buffered, Learned
  <1> HIDE DEF m
  <1> QED
    BY <1>2, <1>3, PostingStep

\* Telegram and Matrix: `k` is where the stream's buffer is.
LEMMA ShownDeltaShows ==
  ASSUME Waiting, Buffered, UNCHANGED style, current # <<>>, current[1].kind = "delta",
         NEW k \in Key, k \in Stream => k = current[1].id, ChatAt(k) = ChatOf(current[1].id),
         style[ChatAt(k)] = IF k \in Chat THEN "telegram" ELSE "matrix",
         LET c == ChatAt(k)
             b == Accumulated(k, current[1])
         IN  \/ UNCHANGED screen /\ buffer' = [buffer EXCEPT ![k] = b]
             \/ \E o \in Outcomes : /\ ShownDelta(c, b, o)
                                    /\ buffer' = [buffer EXCEPT ![k] = WithPost(c, b, o)]
  PROVE  Buffered' /\ Extends(screen, screen')
  <1> DEFINE m == current[1]
             c == ChatAt(k)
             b == Accumulated(k, m)
  <1>1. m \in Plain /\ m.id \in Stream /\ c \in Chat
    BY SendingFacts, ChatAtType
  <1>2. Good(k, b, screen) /\ b.id = m.id /\ b.text \in Seq(Shown)
    <2> HIDE DEF m
    <2>1. m.kind = "delta" /\ (k \in Stream => k = m.id)
      BY DEF m
    <2> QED
      BY <1>1, <2>1, AccumulatedGood
  <1>3. \/ UNCHANGED screen /\ buffer' = [buffer EXCEPT ![k] = b]
        \/ \E o \in Outcomes : ShownDelta(c, b, o) /\ buffer' = [buffer EXCEPT ![k] = WithPost(c, b, o)]
    OBVIOUS
  <1>4. style[c] = IF k \in Chat THEN "telegram" ELSE "matrix"
    OBVIOUS
  <1>5. c = ChatAt(k)
    OBVIOUS
  <1> HIDE DEF m, b, c
  <1>6. CASE UNCHANGED screen /\ buffer' = [buffer EXCEPT ![k] = b]
    BY <1>2, <1>6, QuietStep
  <1>7. ASSUME NEW o \in Outcomes, ShownDelta(c, b, o), buffer' = [buffer EXCEPT ![k] = WithPost(c, b, o)]
        PROVE  Buffered' /\ Extends(screen, screen')
    <2> DEFINE d == WithPost(c, b, o)
    <2>1. CASE b.post = 0
      <3>1. Posts(c, b.id, b.text, o) /\ b.id \in Stream
        BY <1>1, <1>2, <1>7, <2>1 DEF ShownDelta
      <3>2. d = b \/ (o = "ok" /\ d = [b EXCEPT !.post = Len(screen[c]) + 1])
        BY <2>1 DEF WithPost
      <3>3. buffer' = [buffer EXCEPT ![k] = d]
        BY <1>7
      <3> HIDE DEF d
      <3> DEFINE id == b.id
                 text == b.text
      <3>4. Learned(k, b, c, id, text, o, d)
        BY <1>4, <1>5, <3>2 DEF Learned
      <3>5. id \in Stream /\ text \in Seq(Shown) /\ Posts(c, id, text, o)
        BY <1>2, <3>1
      <3> HIDE DEF id, text
      <3> QED
        BY <1>1, <1>2, <1>7, <3>3, <3>4, <3>5, PostingStep
    <2>2. CASE b.post # 0
      <3>1. Edits(ChatAt(k), b.post, b.text, o) /\ d = b
        BY <1>5, <1>7, <2>2 DEF ShownDelta, WithPost
      <3> QED
        BY <1>2, <1>7, <2>2, <3>1, EditingStep
    <2> QED
      BY <2>1, <2>2
  <1> QED
    BY <1>3, <1>6, <1>7

LEMMA TelegramDeltaShows ==
  ASSUME Waiting, Buffered, TelegramDelta, UNCHANGED style
  PROVE  Buffered' /\ Extends(screen, screen')
  <1> DEFINE k == ChatOf(current[1].id)
             b == Accumulated(k, current[1])
  <1>1. current # <<>> /\ current[1].kind = "delta" /\ style[k] = "telegram"
    BY DEF TelegramDelta, Sending
  <1>2. \/ QuietDelta(b) /\ buffer' = [buffer EXCEPT ![k] = b]
        \/ \E o \in Outcomes : ShownDelta(k, b, o) /\ buffer' = [buffer EXCEPT ![k] = WithPost(k, b, o)]
    BY DEF TelegramDelta
  <1>3. QuietDelta(b) => UNCHANGED screen
    BY DEF QuietDelta, NoRequest
  <1>4. k \in Chat /\ k \in Key /\ k \notin Stream /\ ChatAt(k) = k
    BY <1>1, SendingFacts
  <1> HIDE DEF k
  <1>5. ChatAt(k) = ChatOf(current[1].id) /\ style[ChatAt(k)] = IF k \in Chat THEN "telegram" ELSE "matrix"
    BY <1>1, <1>4 DEF k
  <1> QED
    BY <1>1, <1>2, <1>3, <1>4, <1>5, ShownDeltaShows

LEMMA MatrixDeltaShows ==
  ASSUME Waiting, Buffered, MatrixDelta, UNCHANGED style
  PROVE  Buffered' /\ Extends(screen, screen')
  <1> DEFINE k == current[1].id
             b == Accumulated(k, current[1])
  <1>1. current # <<>> /\ current[1].kind = "delta" /\ style[ChatOf(k)] = "matrix"
    BY DEF MatrixDelta, Sending
  <1>2. current[1] \in Plain /\ k \in Stream /\ k \in Key /\ k \notin Chat /\ ChatAt(k) = ChatOf(k)
    BY <1>1, SendingFacts, ChatAtType
  <1>3. b.id = k
    <2> DEFINE m == current[1]
    <2>1. m \in Plain /\ m.kind = "delta" /\ m.id = k
      BY <1>1, <1>2
    <2> HIDE DEF m, k
    <2>2. Accumulated(k, m).id = m.id
      BY <1>2, <2>1, AccumulatedGood
    <2> QED
      BY <2>1, <2>2 DEF m
  <1>4. \/ QuietDelta(b) /\ buffer' = [buffer EXCEPT ![k] = b]
        \/ \E o \in Outcomes : /\ ShownDelta(ChatOf(k), b, o)
                               /\ buffer' = [buffer EXCEPT ![k] = WithPost(ChatOf(k), b, o)]
    <2>1. \/ QuietDelta(b) /\ buffer' = [buffer EXCEPT ![b.id] = b]
          \/ \E o \in Outcomes : /\ ShownDelta(ChatOf(b.id), b, o)
                                 /\ buffer' = [buffer EXCEPT ![b.id] = WithPost(ChatOf(b.id), b, o)]
      BY DEF MatrixDelta
    <2> HIDE DEF b
    <2> QED
      BY <1>3, <2>1
  <1>5. QuietDelta(b) => UNCHANGED screen
    BY DEF QuietDelta, NoRequest
  <1>6. ChatAt(k) = ChatOf(current[1].id) /\ style[ChatAt(k)] = IF k \in Chat THEN "telegram" ELSE "matrix"
    BY <1>1, <1>2
  <1>7. k \in Stream => k = current[1].id
    OBVIOUS
  <1> HIDE DEF k
  <1> QED
    BY <1>1, <1>2, <1>4, <1>5, <1>6, <1>7, ShownDeltaShows

LEMMA TelegramEndShows ==
  ASSUME Waiting, Buffered, TelegramEnd, UNCHANGED style
  PROVE  Buffered' /\ Extends(screen, screen')
  <1> DEFINE k == ChatOf(current[1].id)
             b == buffer[k]
  <1>1. current # <<>>
    BY DEF TelegramEnd, Sending
  <1>2. k \in Chat /\ k \in Key /\ ChatAt(k) = k /\ buffer = [buffer EXCEPT ![k] = b]
    BY <1>1, SendingFacts
  <1>3. Good(k, b, screen)
    BY <1>2 DEF Buffered
  <1>4. \/ UNCHANGED screen /\ UNCHANGED buffer
        \/ b.post # 0 /\ \E o \in Outcomes :
             /\ Edits(k, b.post, b.text, o)
             /\ buffer' = IF o = "ok" THEN [buffer EXCEPT ![k] = NoBuffer] ELSE buffer
    BY DEF TelegramEnd, NoRequest
  <1> HIDE DEF k, b
  <1>5. CASE UNCHANGED screen /\ UNCHANGED buffer
    BY <1>2, <1>3, <1>5, QuietStep
  <1>6. ASSUME b.post # 0, NEW o \in Outcomes, Edits(k, b.post, b.text, o),
               buffer' = IF o = "ok" THEN [buffer EXCEPT ![k] = NoBuffer] ELSE buffer
        PROVE  Buffered' /\ Extends(screen, screen')
    <2>1. Edits(ChatAt(k), b.post, b.text, o)
      BY <1>2, <1>6
    <2>2. CASE o = "ok"
      <3>1. buffer' = [buffer EXCEPT ![k] = NoBuffer] /\ NoBuffer \in {b, NoBuffer}
        BY <1>6, <2>2
      <3> QED
        BY <1>2, <1>3, <1>6, <2>1, <3>1, EditingStep
    <2>3. CASE o # "ok"
      <3>1. buffer' = [buffer EXCEPT ![k] = b] /\ b \in {b, NoBuffer}
        BY <1>2, <1>6, <2>3
      <3> QED
        BY <1>2, <1>3, <1>6, <2>1, <3>1, EditingStep
    <2> QED
      BY <2>2, <2>3
  <1> QED
    BY <1>4, <1>5, <1>6

LEMMA MatrixEndShows ==
  ASSUME Waiting, Buffered, MatrixEnd, UNCHANGED style
  PROVE  Buffered' /\ Extends(screen, screen')
  <1> DEFINE k == current[1].id
             b == buffer[k]
  <1>1. current # <<>>
    BY DEF MatrixEnd, Sending
  <1>2. k \in Stream /\ k \in Key /\ ChatAt(k) = ChatOf(k)
    BY <1>1, SendingFacts
  <1>3. Good(k, b, screen) /\ Good(k, NoBuffer, screen)
    BY <1>2, NoBufferGood DEF Buffered
  <1>4. /\ buffer' = [buffer EXCEPT ![k] = NoBuffer]
        /\ \/ UNCHANGED screen
           \/ b.post # 0 /\ \E o \in Outcomes : Edits(ChatOf(k), b.post, b.text, o)
    BY DEF MatrixEnd, NoRequest
  <1> HIDE DEF k, b
  <1>5. CASE UNCHANGED screen
    BY <1>2, <1>3, <1>4, <1>5, QuietStep
  <1>6. ASSUME b.post # 0, NEW o \in Outcomes, Edits(ChatOf(k), b.post, b.text, o)
        PROVE  Buffered' /\ Extends(screen, screen')
    <2>1. Edits(ChatAt(k), b.post, b.text, o) /\ NoBuffer \in {b, NoBuffer}
      BY <1>2, <1>6
    <2> QED
      BY <1>2, <1>3, <1>4, <1>6, <2>1, EditingStep
  <1> QED
    BY <1>4, <1>5, <1>6

LEMMA CollectingDeltaShows ==
  ASSUME Waiting, Buffered, CollectingDelta, UNCHANGED style
  PROVE  Buffered' /\ Extends(screen, screen')
  <1> DEFINE m == current[1]
             k == m.id
  <1>1. current # <<>> /\ m.kind = "delta"
    BY DEF CollectingDelta, Sending
  <1>2. m \in Plain /\ k \in Key /\ buffer = [buffer EXCEPT ![k] = buffer[k]] /\ Good(k, buffer[k], screen)
    BY <1>1, SendingFacts DEF Buffered
  <1>3. Good(k, Accumulated(k, m), screen)
    <2> HIDE DEF m
    <2> QED
      BY <1>1, <1>2, AccumulatedGood
  <1>4. UNCHANGED screen /\ (UNCHANGED buffer \/ buffer' = [buffer EXCEPT ![k] = Accumulated(k, m)])
    BY DEF CollectingDelta, NoRequest
  <1> HIDE DEF m, k
  <1>5. CASE UNCHANGED buffer
    BY <1>2, <1>4, <1>5, QuietStep
  <1>6. CASE buffer' = [buffer EXCEPT ![k] = Accumulated(k, m)]
    BY <1>2, <1>3, <1>4, <1>6, QuietStep
  <1> QED
    BY <1>4, <1>5, <1>6

LEMMA DropSegmentShows ==
  ASSUME Waiting, Buffered, DropSegment, UNCHANGED style
  PROVE  Buffered' /\ Extends(screen, screen')
  <1> DEFINE k == current[1].id
  <1>1. current # <<>> /\ UNCHANGED screen /\ buffer' = [buffer EXCEPT ![k] = NoBuffer]
    BY DEF DropSegment, Sending, NoRequest
  <1>2. k \in Key /\ Good(k, NoBuffer, screen)
    BY <1>1, SendingFacts, NoBufferGood
  <1> HIDE DEF k
  <1> QED
    BY <1>1, <1>2, QuietStep

LEMMA CollectingEndShows ==
  ASSUME Waiting, Buffered, CollectingEnd, UNCHANGED style
  PROVE  Buffered' /\ Extends(screen, screen')
  <1> DEFINE k == current[1].id
             b == buffer[k]
             c == ChatOf(k)
             text == b.text
  <1>1. current # <<>>
    BY DEF CollectingEnd, Sending
  <1>2. k \in Stream /\ k \in Key /\ c \in Chat /\ buffer = [buffer EXCEPT ![k] = b]
    BY <1>1, SendingFacts
  <1>3. Good(k, b, screen) /\ Good(k, NoBuffer, screen) /\ text \in Seq(Shown)
    <2>1. Good(k, b, screen)
      BY <1>2 DEF Buffered
    <2>2. text \in Seq(Chunk)
      BY <2>1 DEF Good, Buffers
    <2> QED
      BY <2>1, <2>2, NoBufferGood, ChunksShown
  <1>4. \/ UNCHANGED screen /\ buffer' = [buffer EXCEPT ![k] = NoBuffer]
        \/ \E o \in Outcomes :
             /\ Posts(c, k, text, o)
             /\ buffer' = IF o = "ok" THEN [buffer EXCEPT ![k] = NoBuffer] ELSE buffer
    BY DEF CollectingEnd, NoRequest
  <1> HIDE DEF k, b, c, text
  <1>5. CASE UNCHANGED screen /\ buffer' = [buffer EXCEPT ![k] = NoBuffer]
    BY <1>2, <1>3, <1>5, QuietStep
  <1>6. ASSUME NEW o \in Outcomes, Posts(c, k, text, o),
               buffer' = IF o = "ok" THEN [buffer EXCEPT ![k] = NoBuffer] ELSE buffer
        PROVE  Buffered' /\ Extends(screen, screen')
    <2> DEFINE d == IF o = "ok" THEN NoBuffer ELSE b
    <2>1. buffer' = [buffer EXCEPT ![k] = d]
      BY <1>2, <1>6
    <2>2. Good(k, d, screen) /\ Learned(k, d, c, k, text, o, d)
      BY <1>3 DEF Learned
    <2> HIDE DEF d
    <2> QED
      BY <1>2, <1>3, <1>6, <2>1, <2>2, PostingStep
  <1> QED
    BY <1>4, <1>5, <1>6

-----------------------------------------------------------------------------
(* What the sends have in common, and the inductive invariant. *)

Sends ==
  \/ SendWhole \/ TelegramDelta \/ TelegramEnd \/ MatrixDelta \/ MatrixEnd
  \/ CollectingDelta \/ DropSegment \/ CollectingEnd

\* The message is kept for another attempt.
Again ==
  /\ tried + 1 < MaxAttempts /\ tried' = tried + 1
  /\ UNCHANGED <<turns, queue, held, prints, current, handled>>

\* A turn that has begun has a number, and one that streams is in a segment.
Numbered(r) == (r.stage # "idle" => r.n # 0) /\ (r.stage = "running" => r.segment # 0)

Counters ==
  /\ style \in [Chat -> Style]
  /\ turns \in [Session -> [n : 0..MaxTurns, segment : 0..MaxSegments, chunks : 0..MaxChunks,
                            stage : {"idle", "running", "closed"}, extras : 0..MaxExtras]]
  /\ \A s \in Session : Numbered(turns[s])
  /\ tried \in 0..MaxAttempts - 1
  /\ prints \in [Session \X Turn -> Texts \union {NoText}]

Faults ==
  /\ trouble \subseteq Stream \X {"failed", "unanswered", "abandoned"}
  /\ faults \in 0..MaxFaults

\* A text is noted as sent only when it was handed to the channel, or is at hand.
Printed ==
  \A o \in Session \X Turn : prints[o] # NoText =>
    \/ \E j \in DOMAIN handled : /\ handled[j].kind \in {"reply", "followup"}
                                 /\ Origin(handled[j]) = o /\ handled[j].part = prints[o]
    \/ /\ current # <<>> /\ current[1].kind \in {"reply", "followup"}
       /\ Origin(current[1]) = o /\ current[1].text[1] = prints[o]

Inv == Waiting /\ Buffered /\ Counters /\ Faults /\ Printed

LEMMA AttemptedFaults ==
  ASSUME Faults, NEW id \in Stream, NEW o \in Outcomes, Attempted(id, o)
  PROVE  Faults' /\ (Done \/ Again)
  <1>1. MaxFaults \in Nat /\ MaxAttempts \in Nat
    BY OutboundAssumption
  <1>2. CASE o = "ok"
    BY <1>2 DEF Attempted, Faults, Stream, Turn
  <1>3. CASE o # "ok"
    <2>1. o \in {"failed", "unanswered"}
      BY <1>3 DEF Outcomes
    <2>2. Raised(id, o)
      BY <1>3 DEF Attempted
    <2>3. faults' \in 0..MaxFaults
      BY <1>1, <2>2 DEF Raised, Faults
    <2>4. trouble' \subseteq Stream \X {"failed", "unanswered", "abandoned"}
      BY <2>1, <2>2 DEF Raised, Faults
    <2>5. Done \/ Again
      BY <2>2 DEF Raised, Again
    <2> QED
      BY <2>3, <2>4, <2>5 DEF Faults, Stream, Turn
  <1> QED
    BY <1>2, <1>3

LEMMA NoRequestFaults ==
  ASSUME Faults, NoRequest
  PROVE  Faults' /\ Done
  BY DEF NoRequest, Faults, Stream, Turn

LEMMA RequestFaults ==
  ASSUME Faults, NEW id \in Stream, NEW o \in Outcomes, Request(id, o), Done
  PROVE  Faults' /\ Done
  <1>1. MaxFaults \in Nat
    BY OutboundAssumption
  <1>2. CASE o = "ok"
    BY <1>2 DEF Request, Faults, Stream, Turn
  <1>3. CASE o # "ok"
    <2>1. o \in {"failed", "unanswered"}
      BY <1>3 DEF Outcomes
    <2>2. faults' \in 0..MaxFaults
      BY <1>1, <1>3 DEF Request, Faults
    <2>3. trouble' \subseteq Stream \X {"failed", "unanswered", "abandoned"}
      BY <1>3, <2>1 DEF Request, Faults
    <2> QED
      BY <2>2, <2>3 DEF Faults, Stream, Turn
  <1> QED
    BY <1>2, <1>3

\* A send is done with the message or keeps it, whatever the channel and the
\* outcome.
LEMMA SendsFrame ==
  ASSUME Waiting, Buffered, Faults, Sends
  PROVE  current # <<>> /\ Faults' /\ (Done \/ Again)
  <1> DEFINE m == current[1]
             Framed == Faults' /\ (Done \/ Again)
  <1>1. current # <<>>
    BY DEF Sends, SendWhole, TelegramDelta, TelegramEnd, MatrixDelta, MatrixEnd, CollectingDelta,
           DropSegment, CollectingEnd, Sending
  <1>2. m \in Plain /\ m.id \in Stream /\ m.id \in Key /\ ChatOf(m.id) \in Key /\ ChatOf(m.id) \notin Stream
    BY <1>1, SendingFacts
  <1>3. /\ NoRequest => Framed
        /\ \A id \in Stream, o \in Outcomes : Attempted(id, o) => Framed
        /\ \A id \in Stream, o \in Outcomes : Request(id, o) /\ Done => Framed
    BY NoRequestFaults, AttemptedFaults, RequestFaults
  <1>4. ASSUME m.kind = "delta"
        PROVE  \A k \in {m.id, ChatOf(m.id)} : Accumulated(k, m).id = m.id
    <2> HIDE DEF m
    <2> TAKE k \in {m.id, ChatOf(m.id)}
    <2>1. k \in Key /\ (k \in Stream => k = m.id)
      BY <1>2
    <2> QED
      BY <1>2, <1>4, <2>1, AccumulatedGood
  <1>5. CASE SendWhole
    <2>1. \E o \in Outcomes : Attempted(m.id, o)
      BY <1>5 DEF SendWhole
    <2> QED
      BY <1>1, <1>2, <1>3, <2>1
  <1>6. CASE TelegramDelta
    <2> DEFINE b == Accumulated(ChatOf(m.id), m)
    <2>1. m.kind = "delta" /\ (NoRequest \/ \E o \in Outcomes : Attempted(b.id, o))
      BY <1>6 DEF TelegramDelta, Sending, QuietDelta
    <2>2. b.id = m.id
      BY <1>4, <2>1
    <2> HIDE DEF m, b, Framed
    <2> QED
      BY <1>1, <1>2, <1>3, <2>1, <2>2 DEF Framed
  <1>7. CASE TelegramEnd
    <2> DEFINE b == buffer[ChatOf(m.id)]
    <2>1. NoRequest \/ (b.id = m.id /\ \E o \in Outcomes : Attempted(b.id, o))
      BY <1>7 DEF TelegramEnd
    <2> HIDE DEF m, b, Framed
    <2> QED
      BY <1>1, <1>2, <1>3, <2>1 DEF Framed
  <1>8. CASE MatrixDelta
    <2> DEFINE b == Accumulated(m.id, m)
    <2>1. m.kind = "delta" /\ (NoRequest \/ \E o \in Outcomes : Request(b.id, o) /\ Done)
      BY <1>8 DEF MatrixDelta, Sending, QuietDelta
    <2>2. b.id = m.id
      BY <1>4, <2>1
    <2> HIDE DEF m, b, Framed
    <2> QED
      BY <1>1, <1>2, <1>3, <2>1, <2>2 DEF Framed
  <1>9. CASE MatrixEnd
    <2>1. NoRequest \/ \E o \in Outcomes : Attempted(m.id, o)
      BY <1>9 DEF MatrixEnd
    <2> QED
      BY <1>1, <1>2, <1>3, <2>1
  <1>10. CASE CollectingDelta
    BY <1>1, <1>3, <1>10 DEF CollectingDelta
  <1>11. CASE DropSegment
    BY <1>1, <1>3, <1>11 DEF DropSegment
  <1>12. CASE CollectingEnd
    <2>1. NoRequest \/ \E o \in Outcomes : Attempted(m.id, o)
      BY <1>12 DEF CollectingEnd
    <2> QED
      BY <1>1, <1>2, <1>3, <2>1
  <1> QED
    BY <1>5, <1>6, <1>7, <1>8, <1>9, <1>10, <1>11, <1>12 DEF Sends

LEMMA SendsShow ==
  ASSUME Waiting, Buffered, Sends, UNCHANGED style
  PROVE  Buffered' /\ Extends(screen, screen')
  BY SendWholeShows, TelegramDeltaShows, TelegramEndShows, MatrixDeltaShows, MatrixEndShows,
     CollectingDeltaShows, DropSegmentShows, CollectingEndShows DEF Sends

-----------------------------------------------------------------------------
(* What the turns do: at most one message is published, and it is well formed. *)

TurnRecord ==
  [n : 0..MaxTurns, segment : 0..MaxSegments, chunks : 0..MaxChunks,
   stage : {"idle", "running", "closed"}, extras : 0..MaxExtras]

Published(m) ==
  /\ m \in Plain /\ queue' = Append(queue, m) /\ Waiting'
  /\ Parts(current \o held \o queue)' = Parts(current \o held \o queue) \o Units(m)
  /\ UNCHANGED <<held, current, tried, prints, buffer, screen, handled, trouble, faults>>

Silent == UNCHANGED <<queue, held, current, tried, prints, buffer, screen, handled, trouble, faults>>

LEMMA TurnCounters ==
  ASSUME Counters, NEW s \in Session, NEW r \in TurnRecord, r.stage # "idle" => r.n # 0,
         r.stage = "running" => r.segment # 0,
         turns' = [turns EXCEPT ![s] = r], UNCHANGED <<style, tried, prints>>
  PROVE  Counters'
  <1>1. turns \in [Session -> TurnRecord]
    BY DEF Counters, TurnRecord
  <1>2. turns' \in [Session -> TurnRecord] /\ turns'[s] = r /\ \A z \in Session \ {s} : turns'[z] = turns[z]
    BY <1>1
  <1>3. \A z \in Session : Numbered(turns'[z])
    <2>1. Numbered(r)
      BY DEF Numbered
    <2>2. \A z \in Session : Numbered(turns[z])
      BY DEF Counters
    <2> QED
      BY <1>2, <2>1, <2>2
  <1> QED
    BY <1>2, <1>3 DEF Counters, TurnRecord, Turn

LEMMA Publishes ==
  ASSUME Inv, NEW s \in Session, NEW kind \in Kinds, NEW segment \in 0..MaxSegments, NEW text,
         Publish(s, kind, segment, text), turns[s].n # 0, text \in Seq(Chunk \union Texts),
         kind \in StreamKinds => text \in Seq(Chunk),
         kind \in {"reply", "followup"} => \E t \in Texts : text = <<t>>,
         kind \in StreamKinds <=> segment # 0,
         kind = "delta" => text # <<>>, kind \in EndKinds => text = <<>>
  PROVE  \E m \in Plain : Published(m)
  <1>1. turns[s].n \in Turn
    BY OutboundAssumption DEF Inv, Counters, Turn
  <1>2. Waiting
    BY DEF Inv
  <1> DEFINE m == Msg(kind, <<s, turns[s].n, segment>>, text)
  <1>3. /\ Waiting' /\ m \in Plain /\ queue' = Append(queue, m)
        /\ Parts(current \o held \o queue)' = Parts(current \o held \o queue) \o Units(m)
        /\ UNCHANGED <<held, current, tried, prints, buffer, screen, handled, trouble, faults>>
    BY <1>1, <1>2, PublishEffect
  <1> HIDE DEF m
  <1>4. Published(m)
    BY <1>3 DEF Published
  <1> QED
    BY <1>3, <1>4

LEMMA TurnFields ==
  ASSUME Inv, NEW s \in Session
  PROVE  /\ turns[s] \in TurnRecord /\ turns[s].n \in 0..MaxTurns
         /\ turns[s].segment \in 0..MaxSegments /\ turns[s].chunks \in 0..MaxChunks
         /\ turns[s].stage \in {"idle", "running", "closed"} /\ turns[s].extras \in 0..MaxExtras
         /\ (turns[s].stage # "idle" => turns[s].n # 0)
         /\ (turns[s].stage = "running" => turns[s].segment # 0)
         /\ MaxTurns \in Nat /\ MaxSegments \in Nat \ {0} /\ MaxChunks \in Nat /\ MaxExtras \in Nat
  <1>1. /\ turns \in [Session -> TurnRecord] /\ (turns[s].stage # "idle" => turns[s].n # 0)
        /\ (turns[s].stage = "running" => turns[s].segment # 0)
    <2>1. turns \in [Session -> TurnRecord]
      BY DEF Inv, Counters, TurnRecord
    <2>2. Numbered(turns[s])
      BY DEF Inv, Counters
    <2> QED
      BY <2>1, <2>2 DEF Numbered
  <1>2. turns[s] \in TurnRecord
    BY <1>1
  <1> QED
    BY <1>1, <1>2, OutboundAssumption DEF TurnRecord

TurnStep == UNCHANGED style => Counters' /\ (Silent \/ \E m \in Plain : Published(m))

LEMMA BeginStep ==
  ASSUME Inv, NEW s \in Session, Begin(s)
  PROVE  TurnStep
  <1> DEFINE r == [turns[s] EXCEPT !.stage = "running", !.n = @ + 1, !.segment = 1, !.chunks = 0]
  <1>1. r \in TurnRecord /\ r.n # 0 /\ r.segment # 0
    <2> DEFINE t == turns[s]
    <2>1. t.n < MaxTurns
      BY DEF Begin
    <2>2. t \in TurnRecord /\ t.n \in 0..MaxTurns /\ MaxTurns \in Nat /\ MaxSegments \in Nat \ {0} /\ MaxChunks \in Nat
      BY TurnFields
    <2> HIDE DEF t
    <2>3. t.n + 1 \in 0..MaxTurns /\ t.n + 1 # 0 /\ 1 \in 0..MaxSegments /\ 0 \in 0..MaxChunks
      BY <2>1, <2>2
    <2> DEFINE n == t.n + 1
               a == [t EXCEPT !.stage = "running"]
               b == [a EXCEPT !.n = n]
               c == [b EXCEPT !.segment = 1]
               d == [c EXCEPT !.chunks = 0]
    <2> HIDE DEF n
    <2>4. a \in TurnRecord /\ a.n = t.n
      BY <2>2 DEF TurnRecord
    <2> HIDE DEF a
    <2>5. b \in TurnRecord /\ b.n = n
      BY <2>3, <2>4 DEF TurnRecord, n
    <2> HIDE DEF b
    <2>6. c \in TurnRecord /\ c.n = n /\ c.segment = 1
      BY <2>3, <2>5 DEF TurnRecord
    <2> HIDE DEF c
    <2>7. d \in TurnRecord /\ d.n = n /\ d.segment = 1
      BY <2>3, <2>6 DEF TurnRecord
    <2> QED
      BY <2>3, <2>7 DEF a, b, c, n, t
  <1>2. turns' = [turns EXCEPT ![s] = r] /\ Silent
    BY DEF Begin, Silent, Inv, Counters
  <1> HIDE DEF r
  <1>3. UNCHANGED style => Counters'
    BY <1>1, <1>2, TurnCounters DEF Silent, Inv
  <1> QED
    BY <1>2, <1>3 DEF TurnStep

\* The step of a turn that changes its record to `r` and publishes.
LEMMA PublishingStep ==
  ASSUME Inv, NEW s \in Session, NEW r \in TurnRecord, r.stage # "idle" => r.n # 0,
         r.stage = "running" => r.segment # 0,
         turns' = [turns EXCEPT ![s] = r], NEW m \in Plain, Published(m)
  PROVE  TurnStep
  <1>1. UNCHANGED style => Counters'
    BY TurnCounters DEF Published, Inv
  <1> QED
    BY <1>1 DEF TurnStep

LEMMA StreamDeltaStep ==
  ASSUME Inv, NEW s \in Session, StreamDelta(s)
  PROVE  TurnStep
  <1> DEFINE r == [turns[s] EXCEPT !.chunks = @ + 1]
             text == <<turns[s].chunks + 1>>
  <1>1. r \in TurnRecord /\ r.n # 0 /\ r.segment # 0
    BY TurnFields DEF TurnRecord, StreamDelta
  <1>2. turns' = [turns EXCEPT ![s] = r]
    BY DEF StreamDelta, Inv, Counters
  <1>3. text \in Seq(Chunk) /\ text \in Seq(Chunk \union Texts)
    <2>1. turns[s].chunks + 1 \in Chunk
      BY TurnFields DEF StreamDelta, Chunk
    <2> QED
      BY <2>1
  <1>4. Publish(s, "delta", turns[s].segment, text) /\ turns[s].n # 0
    BY TurnFields DEF StreamDelta
  <1>5. \E m \in Plain : Published(m)
    <2>1. "delta" \in Kinds /\ turns[s].segment \in 0..MaxSegments /\ turns[s].segment # 0
          /\ "delta" \in StreamKinds /\ "delta" \notin EndKinds /\ text # <<>>
      BY TurnFields DEF Kinds, StreamKinds, EndKinds, StreamDelta
    <2> HIDE DEF text, r
    <2> QED
      BY <1>3, <1>4, <2>1, Publishes
  <1> HIDE DEF r, text
  <1> QED
    BY <1>1, <1>2, <1>5, PublishingStep

LEMMA StreamResumesStep ==
  ASSUME Inv, NEW s \in Session, StreamResumes(s)
  PROVE  TurnStep
  <1> DEFINE r == [turns[s] EXCEPT !.segment = @ + 1, !.chunks = 0]
  <1>1. r \in TurnRecord /\ r.n # 0 /\ r.segment # 0
    <2> DEFINE t == turns[s]
    <2>1. t.segment < MaxSegments /\ t.n # 0
      BY TurnFields DEF StreamResumes
    <2>2. t \in TurnRecord /\ t.segment \in 0..MaxSegments /\ MaxSegments \in Nat \ {0} /\ MaxChunks \in Nat
      BY TurnFields
    <2> HIDE DEF t
    <2>3. t.segment + 1 \in 0..MaxSegments /\ 0 \in 0..MaxChunks /\ t.segment + 1 # 0
      BY <2>1, <2>2
    <2> DEFINE a == [t EXCEPT !.segment = @ + 1]
               b == [a EXCEPT !.chunks = 0]
    <2>4. a \in TurnRecord /\ a.n = t.n /\ a.segment # 0
      BY <2>2, <2>3 DEF TurnRecord
    <2> HIDE DEF a
    <2>5. b \in TurnRecord /\ b.n = t.n /\ b.segment # 0
      BY <2>3, <2>4 DEF TurnRecord
    <2> QED
      BY <2>1, <2>5 DEF a, t
  <1>2. turns' = [turns EXCEPT ![s] = r]
    BY DEF StreamResumes, Inv, Counters
  <1>3. Publish(s, "resuming", turns[s].segment, <<>>) /\ turns[s].n # 0
    BY TurnFields DEF StreamResumes
  <1>4. \E m \in Plain : Published(m)
    <2>1. "resuming" \in Kinds /\ turns[s].segment \in 0..MaxSegments /\ turns[s].segment # 0
          /\ "resuming" \in StreamKinds
      BY TurnFields DEF Kinds, StreamKinds, StreamResumes
    <2>2. <<>> \in Seq(Chunk) /\ <<>> \in Seq(Chunk \union Texts)
      OBVIOUS
    <2> QED
      BY <1>3, <2>1, <2>2, Publishes
  <1> HIDE DEF r
  <1> QED
    BY <1>1, <1>2, <1>4, PublishingStep

LEMMA StreamEndStep ==
  ASSUME Inv, NEW s \in Session, StreamEnd(s)
  PROVE  TurnStep
  <1> DEFINE r == [turns[s] EXCEPT !.stage = "closed"]
  <1>1. r \in TurnRecord /\ r.n # 0 /\ r.stage # "running"
    BY TurnFields DEF TurnRecord, StreamEnd
  <1>2. turns' = [turns EXCEPT ![s] = r]
    BY DEF StreamEnd, Inv, Counters
  <1>3. Publish(s, "end", turns[s].segment, <<>>) /\ turns[s].n # 0
    BY TurnFields DEF StreamEnd
  <1>4. \E m \in Plain : Published(m)
    <2>1. "end" \in Kinds /\ turns[s].segment \in 0..MaxSegments /\ turns[s].segment # 0
          /\ "end" \in StreamKinds
      BY TurnFields DEF Kinds, StreamKinds, StreamEnd
    <2>2. <<>> \in Seq(Chunk) /\ <<>> \in Seq(Chunk \union Texts)
      OBVIOUS
    <2> QED
      BY <1>3, <2>1, <2>2, Publishes
  <1> HIDE DEF r
  <1> QED
    BY <1>1, <1>2, <1>4, PublishingStep

\* The messages that belong to no stream: the answer, and what comes besides it.
LEMMA WholePublished ==
  ASSUME Inv, NEW s \in Session, turns[s].n # 0,
         \/ \E kind \in {"streamed", "notice", "hidden"} : Publish(s, kind, 0, <<>>)
         \/ \E kind \in {"reply", "followup"}, t \in Texts : Publish(s, kind, 0, <<t>>)
  PROVE  \E m \in Plain : Published(m)
  <1>1. 0 \in 0..MaxSegments
    BY OutboundAssumption
  <1>2. ASSUME NEW kind \in {"streamed", "notice", "hidden"}, Publish(s, kind, 0, <<>>)
        PROVE  \E m \in Plain : Published(m)
    <2>1. /\ kind \in Kinds /\ kind \notin StreamKinds /\ kind \notin {"reply", "followup"}
          /\ kind # "delta" /\ kind \notin EndKinds
      BY <1>2 DEF Kinds, StreamKinds, EndKinds
    <2>2. <<>> \in Seq(Chunk \union Texts)
      OBVIOUS
    <2> QED
      BY <1>1, <1>2, <2>1, <2>2, Publishes
  <1>3. ASSUME NEW kind \in {"reply", "followup"}, NEW t \in Texts, Publish(s, kind, 0, <<t>>)
        PROVE  \E m \in Plain : Published(m)
    <2>1. kind \in Kinds /\ kind \notin StreamKinds /\ kind # "delta" /\ kind \notin EndKinds
      BY <1>3 DEF Kinds, StreamKinds, EndKinds
    <2>2. <<t>> \in Seq(Chunk \union Texts) /\ \E z \in Texts : <<t>> = <<z>>
      OBVIOUS
    <2> DEFINE text == <<t>>
    <2>3. Publish(s, kind, 0, text) /\ text \in Seq(Chunk \union Texts) /\ \E z \in Texts : text = <<z>>
      BY <1>3, <2>2
    <2> HIDE DEF text
    <2> QED
      BY <1>1, <2>1, <2>3, Publishes
  <1> QED
    BY <1>2, <1>3

LEMMA RespondStep ==
  ASSUME Inv, NEW s \in Session, Respond(s)
  PROVE  TurnStep
  <1> DEFINE r == [turns[s] EXCEPT !.stage = "idle"]
  <1>1. r \in TurnRecord /\ turns[s].n # 0 /\ r.stage = "idle"
    BY TurnFields DEF TurnRecord, Respond
  <1>2. turns' = [turns EXCEPT ![s] = r]
    BY DEF Respond, Inv, Counters
  <1>3. \E m \in Plain : Published(m)
    BY <1>1, WholePublished DEF Respond
  <1> HIDE DEF r
  <1> QED
    BY <1>1, <1>2, <1>3, PublishingStep

LEMMA ExtraStep ==
  ASSUME Inv, NEW s \in Session, Extra(s)
  PROVE  TurnStep
  <1> DEFINE r == [turns[s] EXCEPT !.extras = @ + 1]
  <1>1. r \in TurnRecord /\ turns[s].n # 0 /\ r.n # 0 /\ (r.stage = "running" => r.segment # 0)
    BY TurnFields DEF TurnRecord, Extra
  <1>2. turns' = [turns EXCEPT ![s] = r]
    BY DEF Extra, Inv, Counters
  <1>3. \E m \in Plain : Published(m)
    BY <1>1, WholePublished DEF Extra
  <1> HIDE DEF r
  <1> QED
    BY <1>1, <1>2, <1>3, PublishingStep

-----------------------------------------------------------------------------
(* The invariant is inductive. *)

LEMMA InitInv == Init => Inv
  <1> SUFFICES ASSUME Init
               PROVE  Inv
    OBVIOUS
  <1>1. MaxAttempts \in Nat \ {0} /\ MaxTurns \in Nat /\ MaxSegments \in Nat /\ MaxChunks \in Nat
        /\ MaxExtras \in Nat /\ MaxFaults \in Nat
    BY OutboundAssumption
  <1>2. Waiting
    <2>1. <<>> \in Seq(Plain) /\ <<>> \in Seq(Unit) /\ Len(<<>>) = 0
      OBVIOUS
    <2> QED
      BY <2>1 DEF Init, Waiting
  <1>3. Buffered
    <2>1. screen \in Screens
      BY DEF Init, Screens
    <2>2. buffer = [k \in Key |-> NoBuffer]
      BY DEF Init, Key
    <2> QED
      BY <2>1, <2>2, NoBufferGood DEF Buffered
  <1>4. Counters
    BY <1>1 DEF Init, Counters, Numbered
  <1>5. Faults /\ Printed
    BY <1>1 DEF Init, Faults, Printed
  <1> QED
    BY <1>2, <1>3, <1>4, <1>5 DEF Inv

LEMMA BufferedStays ==
  ASSUME Buffered, UNCHANGED <<style, buffer, screen>>
  PROVE  Buffered'
  BY DEF Buffered, Good, ChatAt, ChatOf, Key, Buffers, Screens, Post, NoBuffer

LEMMA PrintedStays ==
  ASSUME Printed, UNCHANGED <<prints, handled, current>>
  PROVE  Printed'
  BY DEF Printed, Origin

LEMMA CountersStay ==
  ASSUME Counters, UNCHANGED <<style, turns, tried, prints>>
  PROVE  Counters'
  BY DEF Counters

LEMMA FaultsStay ==
  ASSUME Faults, UNCHANGED <<trouble, faults>>
  PROVE  Faults'
  BY DEF Faults, Stream, Turn

LEMMA TurnKeeps ==
  ASSUME Inv, TurnStep, UNCHANGED style
  PROVE  Inv'
  <1>1. Counters'
    BY DEF TurnStep
  <1>2. UNCHANGED <<current, tried, prints, buffer, screen, handled, trouble, faults>> /\ Waiting'
    <2>1. CASE Silent
      BY <2>1 DEF Silent, Inv, Waiting
    <2>2. CASE \E m \in Plain : Published(m)
      BY <2>2 DEF Published
    <2> QED
      BY <2>1, <2>2 DEF TurnStep
  <1>3. Buffered' /\ Printed' /\ Faults'
    BY <1>2, BufferedStays, PrintedStays, FaultsStay DEF Inv
  <1> QED
    BY <1>1, <1>2, <1>3 DEF Inv

\* What a whole message and a follow-up stand for: one text.
LEMMA WholeUnits ==
  ASSUME NEW m \in Plain, m.kind \in {"reply", "followup"}
  PROVE  /\ m.text[1] \in Texts
         /\ Units(m) = <<[kind |-> m.kind, id |-> m.id, part |-> m.text[1]]>>
  <1>1. PICK t \in Texts : m.text = <<t>>
    BY DEF Plain
  <1>2. Len(m.text) = 1 /\ m.text[1] = t
    BY <1>1
  <1> DEFINE u == [kind |-> m.kind, id |-> m.id, part |-> m.text[1]]
             shown == [i \in 1..Len(m.text) |-> [kind |-> m.kind, id |-> m.id, part |-> m.text[i]]]
  <1>3. Units(m) = shown \o <<>>
    BY DEF Units
  <1>4. shown = <<u>>
    BY <1>2
  <1>5. <<u>> \o <<>> = <<u>>
    <2>1. <<u>> \in Seq({u})
      OBVIOUS
    <2> HIDE DEF u
    <2> QED
      BY <2>1, ConcatEmptySeq
  <1> QED
    BY <1>1, <1>2, <1>3, <1>4, <1>5

\* What is handled stays in its place.
LEMMA HandledGrows ==
  ASSUME NEW s \in Seq(Unit), NEW u \in Seq(Unit)
  PROVE  /\ s \o u \in Seq(Unit) /\ Len(s) \in Nat /\ Len(u) \in Nat /\ Len(s \o u) = Len(s) + Len(u)
         /\ DOMAIN s = 1..Len(s) /\ DOMAIN (s \o u) = 1..Len(s) + Len(u)
         /\ \A i \in 1..Len(s) : (s \o u)[i] = s[i]
         /\ \A i \in 1..Len(u) : (s \o u)[Len(s) + i] = u[i]
  <1> DEFINE v == s \o u
             n == Len(s)
             l == Len(u)
  <1>1. n \in Nat /\ l \in Nat /\ DOMAIN s = 1..n
    BY LenProperties
  <1>2. v \in Seq(Unit) /\ Len(v) = n + l /\ \A i \in 1..n + l : v[i] = IF i <= n THEN s[i] ELSE u[i - n]
    BY ConcatProperties
  <1> HIDE DEF v
  <1>3. DOMAIN v = 1..n + l
    BY <1>2, LenProperties
  <1> HIDE DEF n, l
  <1>4. \A i \in 1..n : v[i] = s[i]
    BY <1>1, <1>2
  <1>5. \A i \in 1..l : v[n + i] = u[i]
    <2> TAKE i \in 1..l
    <2>1. n + i \in 1..n + l /\ ~(n + i <= n) /\ (n + i) - n = i
      BY <1>1
    <2> QED
      BY <1>2, <2>1
  <1> QED
    BY <1>1, <1>2, <1>3, <1>4, <1>5 DEF v, n, l

LEMMA DoneKeeps ==
  ASSUME Inv, current # <<>>, Done
  PROVE  Waiting' /\ Printed'
  <1> DEFINE m == current[1]
             u == Units(m)
  <1>1. m \in Plain /\ m \in Message /\ u \in Seq(Unit) /\ handled \in Seq(Unit)
    BY CurrentFacts, UnitsType DEF Inv, Waiting
  <1>2. /\ current' = <<>> /\ tried' = 0 /\ handled' = handled \o u
        /\ UNCHANGED <<turns, queue, held, prints>>
    BY DEF Done
  <1>3. m.kind \in {"reply", "followup"} =>
          u = <<[kind |-> m.kind, id |-> m.id, part |-> m.text[1]]>>
    BY <1>1, WholeUnits
  <1> HIDE DEF u
  <1>4. Waiting'
    <2>1. <<>> \in Seq(Plain) /\ Len(<<>>) = 0 /\ handled \o u \in Seq(Unit)
      BY <1>1, HandledGrows
    <2> QED
      BY <1>2, <2>1 DEF Inv, Waiting
  <1>5. Printed'
    <2> SUFFICES ASSUME NEW o \in Session \X Turn, prints[o] # NoText
                 PROVE  \E j \in DOMAIN handled' :
                          /\ handled'[j].kind \in {"reply", "followup"}
                          /\ <<handled'[j].id[1], handled'[j].id[2]>> = o /\ handled'[j].part = prints[o]
      BY <1>2 DEF Printed, Origin
    <2>1. CASE \E j \in DOMAIN handled : /\ handled[j].kind \in {"reply", "followup"}
                                         /\ Origin(handled[j]) = o /\ handled[j].part = prints[o]
      <3>1. PICK j \in DOMAIN handled : /\ handled[j].kind \in {"reply", "followup"}
                                        /\ Origin(handled[j]) = o /\ handled[j].part = prints[o]
        BY <2>1
      <3>2. j \in DOMAIN handled' /\ handled'[j] = handled[j]
        BY <1>1, <1>2, HandledGrows
      <3> QED
        BY <3>1, <3>2 DEF Origin
    <2>2. CASE m.kind \in {"reply", "followup"} /\ Origin(m) = o /\ m.text[1] = prints[o]
      <3>1. Len(u) = 1 /\ u[1] = [kind |-> m.kind, id |-> m.id, part |-> m.text[1]]
        BY <1>3, <2>2
      <3> DEFINE j == Len(handled) + 1
      <3>2. j \in DOMAIN handled' /\ handled'[j] = u[1]
        <4>1. /\ Len(handled) \in Nat /\ DOMAIN (handled \o u) = 1..Len(handled) + Len(u)
              /\ \A i \in 1..Len(u) : (handled \o u)[Len(handled) + i] = u[i]
          BY <1>1, HandledGrows
        <4> DEFINE n == Len(handled)
        <4>2. n \in Nat /\ DOMAIN handled' = 1..n + 1 /\ 1 \in 1..Len(u) /\ handled'[n + 1] = u[1]
          BY <1>2, <3>1, <4>1
        <4> HIDE DEF n
        <4>3. n + 1 \in 1..n + 1
          BY <4>2
        <4> QED
          BY <4>2, <4>3 DEF n
      <3> HIDE DEF j, m
      <3>3. /\ handled'[j].kind \in {"reply", "followup"}
            /\ <<handled'[j].id[1], handled'[j].id[2]>> = o /\ handled'[j].part = prints[o]
        BY <2>2, <3>1, <3>2 DEF Origin
      <3> QED
        BY <3>2, <3>3
    <2> QED
      BY <2>1, <2>2 DEF Inv, Printed
  <1> QED
    BY <1>4, <1>5

LEMMA SendsKeep ==
  ASSUME Inv, Sends, UNCHANGED style
  PROVE  Inv'
  <1>1. current # <<>> /\ Faults' /\ (Done \/ Again)
    BY SendsFrame DEF Inv
  <1>2. Buffered'
    BY SendsShow DEF Inv
  <1>3. MaxAttempts \in Nat \ {0}
    BY OutboundAssumption
  <1>4. CASE Done
    <2>1. Counters'
      BY <1>3, <1>4 DEF Inv, Counters, Done
    <2> QED
      BY <1>1, <1>2, <1>4, <2>1, DoneKeeps DEF Inv
  <1>5. CASE Again
    <2>1. Counters'
      <3>1. tried + 1 \in 0..MaxAttempts - 1
        BY <1>3, <1>5 DEF Inv, Counters, Again
      <3> QED
        BY <1>5, <3>1 DEF Inv, Counters, Again
    <2>2. Waiting'
      BY <1>1, <1>5 DEF Inv, Waiting, Again
    <2>3. Printed'
      BY <1>5, PrintedStays DEF Inv, Again
    <2> QED
      BY <1>1, <1>2, <2>1, <2>2, <2>3 DEF Inv
  <1> QED
    BY <1>1, <1>4, <1>5

\* A message is noted when the dispatcher takes it.
LEMMA NotedType ==
  ASSUME Inv, NEW m \in Plain
  PROVE  /\ Noted(m) \in [Session \X Turn -> Texts \union {NoText}]
         /\ \A o \in Session \X Turn :
              Noted(m)[o] = IF m.kind \in {"reply", "followup"} /\ Origin(m) = o THEN m.text[1]
                            ELSE prints[o]
  <1>1. prints \in [Session \X Turn -> Texts \union {NoText}]
    BY DEF Inv, Counters
  <1>2. CASE m.kind \in {"reply", "followup"}
    <2>1. m.text[1] \in Texts
      BY <1>2, WholeUnits
    <2>2. Noted(m) = [prints EXCEPT ![Origin(m)] = m.text[1]]
      BY <1>2 DEF Noted
    <2> DEFINE p == Origin(m)
               x == m.text[1]
    <2> HIDE DEF p, x
    <2>3. /\ [prints EXCEPT ![p] = x] \in [Session \X Turn -> Texts \union {NoText}]
          /\ \A o \in Session \X Turn : [prints EXCEPT ![p] = x][o] = IF p = o THEN x ELSE prints[o]
      BY <1>1, <2>1 DEF x
    <2> QED
      BY <1>2, <2>2, <2>3 DEF p, x
  <1>3. CASE m.kind \notin {"reply", "followup"}
    BY <1>1, <1>3 DEF Noted
  <1> QED
    BY <1>2, <1>3

LEMMA TakeKeeps ==
  ASSUME Inv, Take, UNCHANGED style
  PROVE  Inv'
  <1>1. Waiting
    BY DEF Inv
  <1>2. PICK m \in Plain, left \in Seq(Plain) :
          /\ held' \in Seq(Plain) /\ queue' \in Seq(Plain) /\ Len(held') <= 1
          /\ IF Ignored(m) THEN handled' = handled \o Units(m) /\ UNCHANGED <<current, prints>>
             ELSE current' = <<m>> /\ prints' = Noted(m) /\ UNCHANGED handled
          /\ current = <<>>
          /\ UNCHANGED <<turns, tried, buffer, screen, trouble, faults>>
    BY <1>1, TakeEffect
  <1>3. Buffered' /\ Faults'
    BY <1>2, BufferedStays, FaultsStay DEF Inv
  <1>4. CASE Ignored(m)
    <2> DEFINE u == Units(m)
    <2>1. u \in Seq(Unit) /\ handled' = handled \o u /\ UNCHANGED <<current, prints>> /\ handled \in Seq(Unit)
      BY <1>1, <1>2, <1>4, UnitsType DEF Plain, Waiting
    <2> HIDE DEF u
    <2>2. handled' \in Seq(Unit) /\ DOMAIN handled \subseteq DOMAIN handled'
          /\ \A j \in DOMAIN handled : handled'[j] = handled[j]
      BY <2>1, HandledGrows
    <2>3. Waiting'
      BY <1>1, <1>2, <2>1, <2>2 DEF Waiting
    <2>4. Counters'
      BY <1>2, <2>1, CountersStay DEF Inv
    <2>5. Printed'
      <3> SUFFICES ASSUME NEW o \in Session \X Turn, prints[o] # NoText
                   PROVE  \E j \in DOMAIN handled' :
                            /\ handled'[j].kind \in {"reply", "followup"}
                            /\ <<handled'[j].id[1], handled'[j].id[2]>> = o /\ handled'[j].part = prints[o]
        BY <2>1 DEF Printed, Origin
      <3>1. PICK j \in DOMAIN handled : /\ handled[j].kind \in {"reply", "followup"}
                                        /\ Origin(handled[j]) = o /\ handled[j].part = prints[o]
        BY <1>2 DEF Inv, Printed
      <3> QED
        BY <2>2, <3>1 DEF Origin
    <2> QED
      BY <1>3, <2>3, <2>4, <2>5 DEF Inv
  <1>5. CASE ~Ignored(m)
    <2>1. current' = <<m>> /\ prints' = Noted(m) /\ handled' = handled
      BY <1>2, <1>5
    <2>2. Waiting'
      <3>1. <<m>> \in Seq(Plain) /\ Len(<<m>>) = 1 /\ <<m>> # <<>>
        OBVIOUS
      <3> QED
        BY <1>1, <1>2, <2>1, <3>1 DEF Waiting
    <2>3. Counters'
      <3>1. prints' \in [Session \X Turn -> Texts \union {NoText}]
        BY <2>1, NotedType
      <3> QED
        BY <1>2, <3>1 DEF Inv, Counters, Turn
    <2>4. Printed'
      <3> SUFFICES ASSUME NEW o \in Session \X Turn, prints'[o] # NoText
                   PROVE  \/ \E j \in DOMAIN handled :
                               /\ handled[j].kind \in {"reply", "followup"}
                               /\ Origin(handled[j]) = o /\ handled[j].part = prints'[o]
                          \/ /\ m.kind \in {"reply", "followup"}
                             /\ Origin(m) = o /\ m.text[1] = prints'[o]
        <4>1. <<m>> # <<>> /\ <<m>>[1] = m
          OBVIOUS
        <4> QED
          BY <2>1, <4>1 DEF Printed, Origin, Turn
      <3>1. prints'[o] = IF m.kind \in {"reply", "followup"} /\ Origin(m) = o THEN m.text[1] ELSE prints[o]
        BY <2>1, NotedType
      <3>2. CASE m.kind \in {"reply", "followup"} /\ Origin(m) = o
        BY <3>1, <3>2
      <3>3. CASE ~(m.kind \in {"reply", "followup"} /\ Origin(m) = o)
        <4>1. prints'[o] = prints[o] /\ prints[o] # NoText
          BY <3>1, <3>3
        <4>2. \E j \in DOMAIN handled : /\ handled[j].kind \in {"reply", "followup"}
                                        /\ Origin(handled[j]) = o /\ handled[j].part = prints[o]
          BY <1>2, <4>1 DEF Inv, Printed
        <4> QED
          BY <4>1, <4>2
      <3> QED
        BY <3>2, <3>3
    <2> QED
      BY <1>3, <2>2, <2>3, <2>4 DEF Inv
  <1> QED
    BY <1>4, <1>5

LEMMA StutterKeeps ==
  ASSUME Inv, UNCHANGED vars
  PROVE  Inv'
  <1>1. Waiting'
    BY DEF Inv, vars, Waiting
  <1> QED
    BY <1>1, BufferedStays, PrintedStays, CountersStay, FaultsStay DEF Inv, vars

\* Every step is one of a turn, a message taken, or a send.
LEMMA Steps ==
  ASSUME Inv, [Next]_vars
  PROVE  \/ TurnStep /\ UNCHANGED <<style, handled, screen, current>>
         \/ Take /\ UNCHANGED style
         \/ Sends /\ UNCHANGED style
         \/ UNCHANGED vars
  <1>1. ASSUME Turns, UNCHANGED style
        PROVE  TurnStep /\ UNCHANGED <<handled, screen, current>>
    <2>1. PICK s \in Session : \/ Begin(s) \/ StreamDelta(s) \/ StreamResumes(s) \/ StreamEnd(s)
                               \/ Respond(s) \/ Extra(s)
      BY <1>1 DEF Turns
    <2>2. TurnStep
      BY <2>1, BeginStep, StreamDeltaStep, StreamResumesStep, StreamEndStep, RespondStep, ExtraStep
    <2>3. UNCHANGED <<handled, screen, current>>
      BY <1>1, <2>2 DEF TurnStep, Silent, Published
    <2> QED
      BY <2>2, <2>3
  <1> QED
    BY <1>1 DEF Next, Dispatcher, Sends

LEMMA InvStep == Inv /\ [Next]_vars => Inv'
  <1> SUFFICES ASSUME Inv, [Next]_vars
               PROVE  Inv'
    OBVIOUS
  <1> QED
    BY Steps, TurnKeeps, TakeKeeps, SendsKeep, StutterKeeps

LEMMA Invariance == Spec => []Inv
  BY InitInv, InvStep, PTL DEF Spec

-----------------------------------------------------------------------------
(* The theorems. *)

\* The whole state of the outbound side keeps its type: in particular at most one
\* message is held back and one is being sent, and a buffer is empty or a stream's.
THEOREM TypeCorrect == Spec => []TypeOK
  <1>1. Inv => TypeOK
    <2> SUFFICES ASSUME Inv
                 PROVE  TypeOK
      OBVIOUS
    <2>1. /\ queue \in Seq(Message) /\ held \in Seq(Message) /\ Len(held) <= 1
          /\ current \in Seq(Message) /\ Len(current) <= 1 /\ (current = <<>> => tried = 0)
      BY WaitingFacts DEF Inv, Waiting
    <2>2. /\ DOMAIN buffer = Chat \union Stream
          /\ \A k \in DOMAIN buffer :
               /\ buffer[k] = NoBuffer \/ buffer[k].id \in Stream
               /\ buffer[k].text \in Seq(Chunk) /\ buffer[k].post \in Nat
      <3>1. DOMAIN buffer = Key /\ \A k \in Key : buffer[k] \in Buffers /\ Good(k, buffer[k], screen)
        BY DEF Inv, Buffered
      <3>2. ASSUME NEW k \in Key
            PROVE  /\ buffer[k] = NoBuffer \/ buffer[k].id \in Stream
                   /\ buffer[k].text \in Seq(Chunk) /\ buffer[k].post \in Nat
        BY <3>1 DEF Good, Buffers
      <3> QED
        BY <3>1, <3>2 DEF Key
    <2>3. screen \in [Chat -> Seq([id : Stream, text : Seq(Chunk \union Texts)])]
      BY DEF Inv, Buffered, Screens, Post, Shown
    <2>4. \A i \in 1..Len(handled) : handled[i].id \in Stream
      <3>1. \A i \in 1..Len(handled) : handled[i] \in Unit
        BY ElementOfSeq DEF Inv, Waiting
      <3> QED
        BY <3>1 DEF Unit
    <2> QED
      BY <2>1, <2>2, <2>3, <2>4 DEF Inv, Counters, Faults, TypeOK
  <1> QED
    BY <1>1, Invariance, PTL

LEMMA PartsSplit ==
  ASSUME NEW c \in Seq(Message), NEW h \in Seq(Message), NEW q \in Seq(Message)
  PROVE  Parts(c \o h \o q) = Parts(c) \o Parts(h \o q) /\ Parts(h \o q) \in Seq(Unit)
  <1>1. h \o q \in Seq(Message)
    BY ConcatProperties
  <1>2. c \o h \o q = c \o (h \o q)
    BY ConcatAssociative
  <1> QED
    BY <1>1, <1>2, PartsConcat, PartsType

LEMMA Grows ==
  ASSUME NEW s \in Seq(Unit), NEW u \in Seq(Unit)
  PROVE  \/ u = <<>> /\ s \o u = s
         \/ Len(s \o u) > Len(s) /\ SubSeq(s \o u, 1, Len(s)) = s
  <1>1. CASE u = <<>>
    BY <1>1, ConcatEmptySeq
  <1>2. CASE u # <<>>
    <2> DEFINE v == s \o u
               n == Len(s)
               w == SubSeq(v, 1, n)
    <2>1. /\ v \in Seq(Unit) /\ n \in Nat /\ Len(u) \in Nat \ {0} /\ Len(v) = n + Len(u)
          /\ \A i \in 1..n : v[i] = s[i]
      BY <1>2, HandledGrows, EmptySeq
    <2> HIDE DEF v
    <2>2. /\ w \in Seq(Unit) /\ Len(w) = (IF 1 <= n THEN n - 1 + 1 ELSE 0)
          /\ \A i \in 1..n - 1 + 1 : w[i] = v[1 + i - 1]
      <3>1. \A i \in 1..n : v[i] \in Unit
        BY <2>1, ElementOfSeq
      <3> QED
        BY <2>1, <3>1, SubSeqProperties
    <2> HIDE DEF w
    <2>3. Len(w) = Len(s) /\ \A i \in 1..Len(s) : w[i] = s[i]
      BY <2>1, <2>2
    <2>4. w = s
      BY <2>2, <2>3, SeqEqual
    <2>5. Len(v) > n
      BY <2>1
    <2> QED
      BY <2>4, <2>5 DEF v, w
  <1> QED
    BY <1>1, <1>2

\* The queue's front is handled, or everything stays where it was.
LEMMA TakeParts ==
  ASSUME Inv, Take
  PROVE  LET todo == Parts(current \o held \o queue)
             new == Parts(current' \o held' \o queue')
         IN  \/ new = todo /\ handled' = handled
             \/ \E u \in Seq(Unit) : todo = u \o new /\ handled' = handled \o u
  <1>1. Waiting
    BY DEF Inv
  <1>2. PICK m \in Plain, left \in Seq(Plain) :
          /\ Parts(held \o queue) = Units(m) \o Parts(left)
          /\ held' \o queue' = left /\ held' \in Seq(Plain) /\ queue' \in Seq(Plain)
          /\ IF Ignored(m) THEN handled' = handled \o Units(m) /\ UNCHANGED <<current, prints>>
             ELSE current' = <<m>> /\ prints' = Noted(m) /\ UNCHANGED handled
          /\ current = <<>>
    BY <1>1, TakeEffect
  <1>3. m \in Message /\ Units(m) \in Seq(Unit) /\ <<m>> \in Seq(Message) /\ <<>> \in Seq(Message)
    BY UnitsType DEF Plain
  <1>4. Parts(current \o held \o queue) = Units(m) \o Parts(left)
    BY <1>1, <1>2, WaitingFacts
  <1>5. held' \in Seq(Message) /\ queue' \in Seq(Message) /\ left \in Seq(Message) /\ Parts(left) \in Seq(Unit)
    BY <1>2, PlainSeq, PartsType
  <1>6. CASE Ignored(m)
    <2>1. current' = <<>> /\ handled' = handled \o Units(m)
      BY <1>2, <1>6
    <2>2. Parts(<<>> \o held' \o queue') = Parts(<<>>) \o Parts(held' \o queue')
      BY <1>3, <1>5, PartsSplit
    <2>3. Parts(current' \o held' \o queue') = Parts(left)
      BY <1>2, <1>5, <2>1, <2>2, PartsEmpty, ConcatEmptySeq
    <2> QED
      BY <1>3, <1>4, <2>1, <2>3
  <1>7. CASE ~Ignored(m)
    <2>1. current' = <<m>> /\ handled' = handled
      BY <1>2, <1>7
    <2>2. Parts(<<m>> \o held' \o queue') = Parts(<<m>>) \o Parts(held' \o queue')
      BY <1>3, <1>5, PartsSplit
    <2>3. Parts(current' \o held' \o queue') = Units(m) \o Parts(left)
      BY <1>2, <1>3, <2>1, <2>2, PartsOne
    <2> QED
      BY <1>4, <2>1, <2>3
  <1> QED
    BY <1>6, <1>7

LEMMA SendParts ==
  ASSUME Inv, Sends
  PROVE  LET todo == Parts(current \o held \o queue)
             new == Parts(current' \o held' \o queue')
         IN  \/ new = todo /\ handled' = handled
             \/ \E u \in Seq(Unit) : todo = u \o new /\ handled' = handled \o u
  <1>1. current # <<>> /\ (Done \/ Again) /\ Waiting
    BY SendsFrame DEF Inv
  <1>2. CASE Again
    BY <1>2 DEF Again
  <1>3. CASE Done
    <2> DEFINE u == Units(current[1])
    <2>1. current' = <<>> /\ held' = held /\ queue' = queue /\ handled' = handled \o u
      BY <1>3 DEF Done
    <2>2. u \in Seq(Unit)
      BY <1>1, CurrentFacts, UnitsType
    <2>3. Parts(current \o held \o queue) = u \o Parts(held \o queue)
      BY <1>1, WaitingFacts
    <2>4. Parts(<<>> \o held \o queue) = Parts(held \o queue)
      <3>1. <<>> \in Seq(Message)
        OBVIOUS
      <3>2. Parts(<<>> \o held \o queue) = Parts(<<>>) \o Parts(held \o queue) /\ Parts(held \o queue) \in Seq(Unit)
        BY <1>1, <3>1, WaitingFacts, PartsSplit
      <3> QED
        BY <3>2, PartsEmpty, ConcatEmptySeq
    <2> HIDE DEF u
    <2> QED
      BY <2>1, <2>2, <2>3, <2>4
  <1> QED
    BY <1>1, <1>2, <1>3

LEMMA FifoStep ==
  ASSUME Inv, [Next]_vars
  PROVE  [Fifo!Next]_(Fifo!vars)
  <1> DEFINE todo == Parts(current \o held \o queue)
             new == Parts(current' \o held' \o queue')
  <1>1. todo \in Seq(Unit) /\ handled \in Seq(Unit)
    BY WaitingFacts DEF Inv, Waiting
  <1>2. Waiting'
    BY InvStep DEF Inv
  <1>3. new \in Seq(Unit)
    <2>1. queue' \in Seq(Message) /\ held' \in Seq(Message) /\ current' \in Seq(Message)
      BY <1>2, PlainSeq DEF Waiting
    <2>2. current' \o held' \in Seq(Message)
      BY <2>1, ConcatProperties
    <2>3. (current' \o held') \o queue' \in Seq(Message)
      BY <2>1, <2>2, ConcatProperties
    <2> QED
      BY <2>3, PartsType
  <1>4. new = todo'
    BY DEF Parts, Units
  <1>5. \/ new = todo /\ handled' = handled
        \/ \E u \in Seq(Unit) : new = todo \o u /\ handled' = handled
        \/ \E u \in Seq(Unit) : todo = u \o new /\ handled' = handled \o u
    <2>1. CASE TurnStep /\ UNCHANGED <<style, handled, screen, current>>
      <3>1. CASE Silent
        BY <3>1 DEF Silent
      <3>2. CASE \E m \in Plain : Published(m)
        <4>1. PICK m \in Plain : Published(m)
          BY <3>2
        <4>2. Units(m) \in Seq(Unit)
          BY UnitsType DEF Plain
        <4>3. new = todo \o Units(m) /\ handled' = handled
          BY <1>4, <4>1 DEF Published
        <4> QED
          BY <4>2, <4>3
      <3> QED
        BY <2>1, <3>1, <3>2 DEF TurnStep
    <2>2. CASE Take
      BY <2>2, TakeParts
    <2>3. CASE Sends
      BY <2>3, SendParts
    <2>4. CASE UNCHANGED vars
      BY <2>4 DEF vars
    <2> QED
      BY <2>1, <2>2, <2>3, <2>4, Steps
  <1> HIDE DEF todo, new
  <1>6. CASE new = todo /\ handled' = handled
    BY <1>4, <1>6 DEF Fifo!vars, todo
  <1>7. ASSUME NEW u \in Seq(Unit), new = todo \o u, handled' = handled
        PROVE  [Fifo!Next]_(Fifo!vars)
    <2>1. new = todo \/ (Len(new) > Len(todo) /\ SubSeq(new, 1, Len(todo)) = todo)
      BY <1>1, <1>7, Grows
    <2>2. CASE new = todo
      BY <1>6, <1>7, <2>2
    <2>3. CASE Len(new) > Len(todo) /\ SubSeq(new, 1, Len(todo)) = todo
      <3>1. Len(todo') > Len(todo) /\ SubSeq(todo', 1, Len(todo)) = todo /\ handled' = handled
        BY <1>4, <1>7, <2>3
      <3>2. Fifo!Publish
        BY <3>1 DEF Fifo!Publish, todo
      <3> QED
        BY <3>2 DEF Fifo!Next
    <2> QED
      BY <2>1, <2>2, <2>3
  <1>8. ASSUME NEW u \in Seq(Unit), todo = u \o new, handled' = handled \o u
        PROVE  [Fifo!Next]_(Fifo!vars)
    <2>1. handled' \o new = handled \o todo
      BY <1>1, <1>3, <1>8, UnitsAssociate
    <2>2. \/ u = <<>> /\ handled' = handled
          \/ Len(handled') > Len(handled) /\ SubSeq(handled', 1, Len(handled)) = handled
      BY <1>1, <1>8, Grows
    <2>3. CASE u = <<>> /\ handled' = handled
      <3>1. new = todo
        BY <1>3, <1>8, <2>3, ConcatEmptySeq
      <3> QED
        BY <1>6, <2>3, <3>1
    <2>4. CASE Len(handled') > Len(handled) /\ SubSeq(handled', 1, Len(handled)) = handled
      <3>1. handled' \o todo' = handled \o todo
        BY <1>4, <2>1
      <3>2. Fifo!Handle
        BY <2>4, <3>1 DEF Fifo!Handle, todo
      <3> QED
        BY <3>2 DEF Fifo!Next
    <2> QED
      BY <2>2, <2>3, <2>4
  <1> QED
    BY <1>5, <1>6, <1>7, <1>8

\* The refinement: whatever the dispatcher merges, holds back, filters, retries or
\* gives up, every chunk and every event that the turns published is handled exactly
\* once and in the order of publication.
THEOREM FifoImplemented == Spec => ImplementsFifo
  <1>1. Init => Fifo!Init
    <2> SUFFICES ASSUME Init
                 PROVE  Fifo!Init
      OBVIOUS
    <2>1. current = <<>> /\ held = <<>> /\ queue = <<>> /\ handled = <<>>
      BY DEF Init
    <2>2. current \o held \o queue = <<>>
      BY <2>1
    <2>3. Parts(current \o held \o queue) = <<>>
      BY <2>2, PartsEmpty
    <2> QED
      BY <2>1, <2>3 DEF Fifo!Init
  <1>2. Inv /\ [Next]_vars => [Fifo!Next]_(Fifo!vars)
    BY FifoStep
  <1> QED
    BY <1>1, <1>2, Invariance, PTL DEF Spec, ImplementsFifo, Fifo!Spec

LEMMA ScreenStep ==
  ASSUME Inv, [Next]_vars
  PROVE  Extends(screen, screen')
  <1>1. CASE UNCHANGED screen
    <2>1. Extends(screen, screen)
      BY SameScreen DEF Inv
    <2> QED
      BY <1>1, <2>1
  <1>2. CASE Take
    <2>1. Waiting
      BY DEF Inv
    <2>2. UNCHANGED screen
      BY <1>2, <2>1, TakeEffect
    <2> QED
      BY <1>1, <2>2
  <1>3. CASE Sends /\ UNCHANGED style
    BY <1>3, SendsShow DEF Inv
  <1> QED
    BY <1>1, <1>2, <1>3, Steps DEF vars

LEMMA NoFollowUp ==
  ASSUME NEW m \in Plain, m.kind \notin {"followup"}, NEW i \in 1..Len(Units(m))
  PROVE  Units(m)[i].kind # "followup"
  <1> DEFINE texts == IF m.kind \in {"reply", "followup"} THEN m.kind ELSE "delta"
             own == IF m.kind \in {"delta", "reply", "followup"} THEN <<>>
                    ELSE <<[kind |-> m.kind, id |-> m.id, part |-> 0]>>
             shown == [j \in 1..Len(m.text) |-> [kind |-> texts, id |-> m.id, part |-> m.text[j]]]
             S == {u \in Unit : u.kind # "followup"}
  <1>1. m \in Message
    BY DEF Plain
  <1>2. own \in Seq(S)
    <2>1. m.kind \in {"delta", "reply", "followup"} \/ [kind |-> m.kind, id |-> m.id, part |-> 0] \in S
      BY <1>1, MessageFields DEF Unit
    <2> HIDE DEF S
    <2> QED
      BY <2>1
  <1>3. shown \in Seq(S)
    <2>1. texts \in Kinds /\ texts # "followup"
      BY DEF Kinds
    <2> HIDE DEF texts
    <2>2. \A j \in 1..Len(m.text) : [kind |-> texts, id |-> m.id, part |-> m.text[j]] \in S
      BY <1>1, <2>1, MessageFields DEF Unit
    <2>3. Len(m.text) \in Nat
      BY <1>1, MessageFields
    <2> HIDE DEF S
    <2> QED
      BY <2>2, <2>3, IsASeq
  <1>4. Units(m) = shown \o own
    BY DEF Units
  <1> HIDE DEF shown, own
  <1>5. Units(m) \in Seq(S)
    BY <1>2, <1>3, <1>4, ConcatProperties
  <1> HIDE DEF S
  <1>6. Units(m)[i] \in S
    BY <1>5, ElementOfSeq
  <1> QED
    BY <1>6 DEF S

LEMMA SuppressedStep ==
  ASSUME Inv, [Next]_vars, current = <<>>,
         NEW i \in Len(handled) + 1..Len(handled'), handled'[i].kind = "followup"
  PROVE  \E j \in DOMAIN handled :
           /\ handled[j].kind \in {"reply", "followup"}
           /\ Origin(handled[j]) = Origin(handled'[i]) /\ handled[j].part = handled'[i].part
  <1>1. Waiting /\ handled \in Seq(Unit) /\ Len(handled) \in Nat
    BY LenProperties DEF Inv, Waiting
  <1>2. handled' # handled
    <2>1. Len(handled) + 1 <= Len(handled') \/ handled' = handled
      <3>1. i \in Len(handled) + 1..Len(handled')
        OBVIOUS
      <3> QED
        BY <1>1, <3>1
    <2> DEFINE n == Len(handled)
    <2>2. handled' = handled => i \in n + 1..n
      OBVIOUS
    <2> HIDE DEF n
    <2>3. n \in Nat => ~(i \in n + 1..n)
      OBVIOUS
    <2> QED
      BY <1>1, <2>2, <2>3 DEF n
  <1>3. Take
    <2>1. ~Sends
      BY SendsFrame DEF Inv
    <2> QED
      BY <1>2, <2>1, Steps DEF vars
  <1>4. PICK m \in Plain : Ignored(m) /\ handled' = handled \o Units(m)
    BY <1>1, <1>2, <1>3, TakeEffect
  <1> DEFINE u == Units(m)
             k == i - Len(handled)
  <1>5. u \in Seq(Unit) /\ k \in 1..Len(u) /\ handled'[i] = u[k]
    <2>1. u \in Seq(Unit)
      BY UnitsType DEF Plain
    <2> HIDE DEF u
    <2> DEFINE n == Len(handled)
               l == Len(u)
    <2>2. /\ l \in Nat /\ Len(handled') = n + l
          /\ \A j \in 1..l : handled'[n + j] = u[j]
      BY <1>1, <1>4, <2>1, HandledGrows DEF u
    <2>3. n \in Nat /\ i \in n + 1..n + l
      BY <1>1, <2>2
    <2> HIDE DEF n, l
    <2>4. i - n \in 1..l /\ n + (i - n) = i
      BY <2>2, <2>3
    <2> QED
      BY <2>1, <2>2, <2>4 DEF n, l
  <1>6. m.kind = "followup"
    <2>1. ASSUME m.kind # "followup"
          PROVE  FALSE
      <3>1. u[k].kind # "followup"
        <4> HIDE DEF k
        <4> QED
          BY <1>5, <2>1, NoFollowUp
      <3> QED
        BY <1>5, <3>1
    <2> QED
      BY <2>1
  <1>7. m.text[1] \in Texts /\ u = <<[kind |-> m.kind, id |-> m.id, part |-> m.text[1]]>>
    BY <1>6, WholeUnits
  <1>8. u[k].id = m.id /\ u[k].part = m.text[1]
    <2>1. k = 1
      BY <1>5, <1>7
    <2> HIDE DEF k
    <2> QED
      BY <1>7, <2>1
  <1>9. prints[Origin(m)] = m.text[1] /\ Origin(m) \in Session \X Turn /\ prints[Origin(m)] # NoText
    <2>1. prints[Origin(m)] = m.text[1]
      BY <1>4, <1>6 DEF Ignored, Repeats
    <2>2. Origin(m) \in Session \X Turn
      BY MessageFields DEF Origin, Plain, Stream
    <2> QED
      BY <1>7, <2>1, <2>2, OutboundAssumption
  <1>10. PICK j \in DOMAIN handled : /\ handled[j].kind \in {"reply", "followup"}
                                     /\ Origin(handled[j]) = Origin(m)
                                     /\ handled[j].part = prints[Origin(m)]
    BY <1>9 DEF Inv, Printed
  <1> HIDE DEF u, k
  <1>11. Origin(handled'[i]) = Origin(m) /\ handled'[i].part = m.text[1]
    BY <1>5, <1>8 DEF Origin
  <1> QED
    BY <1>9, <1>10, <1>11

\* What was to be read in a chat stays: every step leaves each post where it is and
\* what it shows a prefix of what it then shows, so an edit only adds; and a
\* follow-up is suppressed as a repetition only when the same text was handed to the
\* channel before, for the same message of the user.
THEOREM NothingLostOrRepeated == Spec => NothingTakenBack
  <1>1. Inv /\ [Next]_vars =>
          [\A c \in Chat : \A i \in DOMAIN screen[c] :
             screen'[c][i].id = screen[c][i].id /\ IsPrefix(screen[c][i].text, screen'[c][i].text)]_vars
    BY ScreenStep DEF Extends
  <1>2. Inv /\ [Next]_vars =>
          [\A i \in Len(handled) + 1..Len(handled') :
             LET u == handled'[i] IN
             u.kind = "followup" /\ current = <<>> =>
               \E j \in DOMAIN handled :
                 /\ handled[j].kind \in {"reply", "followup"}
                 /\ Origin(handled[j]) = Origin(u) /\ handled[j].part = u.part]_vars
    BY SuppressedStep
  <1> QED
    BY <1>1, <1>2, Invariance, PTL DEF Spec, NothingTakenBack, EditsExtend, SuppressedWasSent

-----------------------------------------------------------------------------
(* What the turns write.  The log of all that was published, handled or    *)
(* not: the chunks of a stream come in their order and before its end, and *)
(* a session has ended one stream when it begins the next.                 *)

Log == handled \o Parts(current \o held \o queue)

Ends(u, id) == u.id = id /\ u.kind \in EndKinds
IsChunk(u, id, c) == u.kind = "delta" /\ u.id = id /\ u.part = c

\* What stands between two units of one session.
Apart(log, i, j) ==
  IF log[i].id = log[j].id
  THEN log[i].kind = "delta" /\ (log[j].kind = "delta" => log[i].part < log[j].part)
  ELSE \E k \in DOMAIN log : i <= k /\ k < j /\ Ends(log[k], log[i].id)

Ordered(log) ==
  \A i, j \in DOMAIN log :
    /\ i < j /\ log[i].kind \in StreamKinds /\ log[j].kind \in StreamKinds
    /\ log[i].id[1] = log[j].id[1]
    => Apart(log, i, j)

Complete(log) ==
  \A j \in DOMAIN log : log[j].kind = "delta" =>
    \A c \in 1..log[j].part - 1 : \E i \in DOMAIN log : i < j /\ IsChunk(log[i], log[j].id, c)

\* The stream that session s writes to, which `r` says.
At(s, r) == <<s, r.n, r.segment>>

\* No stream is ahead of its session, and all but the one it writes to have ended.
Behind(log, i, r) ==
  LET u == log[i]
      s == u.id[1]
  IN  /\ u.id[2] <= r.n /\ (u.id[2] = r.n => u.id[3] <= r.segment)
      /\ IF r.stage = "running" /\ u.id = At(s, r)
         THEN u.kind = "delta" /\ u.part \in 1..r.chunks
         ELSE \E k \in DOMAIN log : i <= k /\ Ends(log[k], u.id)

Reached(log, s, r) ==
  r.stage = "running" =>
    \A c \in 1..r.chunks : \E i \in DOMAIN log : IsChunk(log[i], At(s, r), c)

Written(log, t) ==
  /\ Ordered(log) /\ Complete(log)
  /\ \A i \in DOMAIN log : log[i].kind \in StreamKinds => Behind(log, i, t[log[i].id[1]])
  /\ \A s \in Session : Reached(log, s, t[s])

LEMMA UnitFields ==
  ASSUME NEW u \in Unit
  PROVE  /\ u.kind \in Kinds /\ u.id \in Stream /\ u.part \in Chunk \union Texts \union {0}
         /\ u.id[1] \in Session /\ u.id[2] \in Turn /\ u.id[3] \in 0..MaxSegments
         /\ u.id = <<u.id[1], u.id[2], u.id[3]>>
  <1>1. u.kind \in Kinds /\ u.id \in Stream /\ u.part \in Chunk \union Texts \union {0}
    BY DEF Unit
  <1> QED
    BY <1>1 DEF Stream

LEMMA LogFacts ==
  ASSUME NEW log \in Seq(Unit)
  PROVE  /\ Len(log) \in Nat /\ DOMAIN log = 1..Len(log) /\ DOMAIN log \subseteq Nat
         /\ \A i \in DOMAIN log : log[i] \in Unit
  <1>1. Len(log) \in Nat /\ DOMAIN log = 1..Len(log)
    BY LenProperties
  <1>2. \A i \in 1..Len(log) : log[i] \in Unit
    BY ElementOfSeq
  <1> QED
    BY <1>1, <1>2

LEMMA Joined ==
  ASSUME NEW log \in Seq(Unit), NEW u \in Unit
  PROVE  LET new == Append(log, u)
             n == Len(log)
         IN  /\ new \in Seq(Unit) /\ n \in Nat /\ n + 1 \in DOMAIN new /\ new[n + 1] = u
             /\ DOMAIN new = 1..n + 1 /\ DOMAIN log = 1..n
             /\ \A i \in DOMAIN log : i \in DOMAIN new /\ new[i] = log[i] /\ i < n + 1
             /\ \A i \in DOMAIN new : i \in DOMAIN log \/ i = n + 1
  <1> DEFINE new == Append(log, u)
             n == Len(log)
  <1>1. n \in Nat /\ DOMAIN log = 1..n
    BY LogFacts
  <1>2. new \in Seq(Unit) /\ Len(new) = n + 1 /\ new[n + 1] = u /\ \A i \in 1..n : new[i] = log[i]
    BY AppendProperties
  <1>3. DOMAIN new = 1..n + 1
    BY <1>2, LenProperties
  <1> HIDE DEF new, n
  <1> QED
    BY <1>1, <1>2, <1>3 DEF new, n

\* One more unit: what is to be shown of it alone.
LEMMA OneMore ==
  ASSUME NEW log \in Seq(Unit), NEW u \in Unit, Ordered(log), Complete(log),
         \A i \in DOMAIN log :
           log[i].kind \in StreamKinds /\ u.kind \in StreamKinds /\ log[i].id[1] = u.id[1] =>
             IF log[i].id = u.id
             THEN log[i].kind = "delta" /\ (u.kind = "delta" => log[i].part < u.part)
             ELSE \E k \in DOMAIN log : i <= k /\ Ends(log[k], log[i].id),
         u.kind = "delta" =>
           \A c \in 1..u.part - 1 : \E i \in DOMAIN log : IsChunk(log[i], u.id, c)
  PROVE  Ordered(Append(log, u)) /\ Complete(Append(log, u))
  <1> DEFINE new == Append(log, u)
             n == Len(log)
  <1>1. /\ n \in Nat /\ n + 1 \in DOMAIN new /\ new[n + 1] = u
        /\ DOMAIN new = 1..n + 1 /\ DOMAIN log = 1..n
        /\ \A i \in DOMAIN log : i \in DOMAIN new /\ new[i] = log[i] /\ i < n + 1
        /\ \A i \in DOMAIN new : i \in DOMAIN log \/ i = n + 1
    BY Joined
  <1> HIDE DEF new, n
  <1>2. ASSUME NEW i \in DOMAIN new, NEW j \in DOMAIN new, i < j,
               new[i].kind \in StreamKinds, new[j].kind \in StreamKinds, new[i].id[1] = new[j].id[1]
        PROVE  Apart(new, i, j)
    <2>1. i \in DOMAIN log
      BY <1>1, <1>2
    <2>2. CASE j \in DOMAIN log
      <3>1. Apart(log, i, j)
        BY <1>1, <1>2, <2>1, <2>2 DEF Ordered
      <3> QED
        BY <1>1, <2>1, <2>2, <3>1 DEF Apart
    <2>3. CASE j = n + 1
      <3>1. new[i] = log[i] /\ new[j] = u
        BY <1>1, <2>1, <2>3
      <3>2. CASE log[i].id = u.id
        BY <1>2, <2>1, <3>1, <3>2 DEF Apart
      <3>3. CASE log[i].id # u.id
        <4>1. PICK k \in DOMAIN log : i <= k /\ Ends(log[k], log[i].id)
          BY <1>2, <2>1, <3>1, <3>3
        <4>2. k \in DOMAIN new /\ k < j /\ new[k] = log[k]
          BY <1>1, <2>3, <4>1
        <4> QED
          BY <3>1, <3>3, <4>1, <4>2 DEF Apart
      <3> QED
        BY <3>2, <3>3
    <2> QED
      BY <1>1, <2>2, <2>3
  <1>3. ASSUME NEW j \in DOMAIN new, new[j].kind = "delta", NEW c \in 1..new[j].part - 1
        PROVE  \E i \in DOMAIN new : i < j /\ IsChunk(new[i], new[j].id, c)
    <2>1. CASE j \in DOMAIN log
      <3>1. PICK i \in DOMAIN log : i < j /\ IsChunk(log[i], log[j].id, c)
        BY <1>1, <1>3, <2>1 DEF Complete
      <3> QED
        BY <1>1, <2>1, <3>1
    <2>2. CASE j = n + 1
      <3>1. PICK i \in DOMAIN log : IsChunk(log[i], u.id, c)
        BY <1>1, <1>3, <2>2
      <3> QED
        BY <1>1, <2>2, <3>1
    <2> QED
      BY <1>1, <2>1, <2>2
  <1>4. Ordered(new)
    BY <1>2 DEF Ordered
  <1>5. Complete(new)
    BY <1>3 DEF Complete
  <1> QED
    BY <1>4, <1>5 DEF new

\* A unit that belongs to no stream, and turns that write where they wrote.
LEMMA OtherUnit ==
  ASSUME NEW log \in Seq(Unit), NEW t, NEW t2, Written(log, t), NEW u \in Unit, u.kind \notin StreamKinds,
         \A s \in Session : /\ t2[s].n = t[s].n /\ t2[s].segment = t[s].segment
                            /\ t2[s].chunks = t[s].chunks
                            /\ t2[s].stage = "running" <=> t[s].stage = "running"
  PROVE  Written(Append(log, u), t2)
  <1> DEFINE new == Append(log, u)
             n == Len(log)
  <1>1. /\ n \in Nat /\ n + 1 \in DOMAIN new /\ new[n + 1] = u
        /\ \A i \in DOMAIN log : i \in DOMAIN new /\ new[i] = log[i] /\ i < n + 1
        /\ \A i \in DOMAIN new : i \in DOMAIN log \/ i = n + 1
    BY Joined
  <1>2. Ordered(new) /\ Complete(new)
    <2>1. u.kind # "delta"
      BY DEF StreamKinds
    <2> QED
      BY <2>1, OneMore DEF Written
  <1> HIDE DEF new, n
  <1>3. ASSUME NEW i \in DOMAIN new, new[i].kind \in StreamKinds
        PROVE  Behind(new, i, t2[new[i].id[1]])
    <2>1. i \in DOMAIN log /\ new[i] = log[i]
      BY <1>1, <1>3
    <2> DEFINE s == log[i].id[1]
    <2>2. s \in Session
      BY <2>1, LogFacts, UnitFields
    <2>3. Behind(log, i, t[s])
      BY <1>3, <2>1 DEF Written
    <2>4. At(s, t2[s]) = At(s, t[s])
      BY <2>2 DEF At
    <2>5. (\E k \in DOMAIN log : i <= k /\ Ends(log[k], log[i].id))
            => \E k \in DOMAIN new : i <= k /\ Ends(new[k], new[i].id)
      BY <1>1, <2>1
    <2>6. Behind(new, i, t2[s])
      BY <2>1, <2>2, <2>3, <2>4, <2>5 DEF Behind
    <2> QED
      BY <2>1, <2>6
  <1>4. ASSUME NEW s \in Session
        PROVE  Reached(new, s, t2[s])
    <2>1. At(s, t2[s]) = At(s, t[s]) /\ Reached(log, s, t[s])
      BY DEF At, Written
    <2>2. \A c : (\E i \in DOMAIN log : IsChunk(log[i], At(s, t[s]), c))
                   => \E i \in DOMAIN new : IsChunk(new[i], At(s, t[s]), c)
      BY <1>1
    <2> QED
      BY <2>1, <2>2 DEF Reached
  <1> QED
    BY <1>2, <1>3, <1>4 DEF Written, new

\* A turn begins: its stream is none of those in the log.
LEMMA TurnBegins ==
  ASSUME NEW log \in Seq(Unit), NEW t, NEW t2, Written(log, t), NEW s \in Session,
         t[s].stage # "running", t[s].n \in Nat, t2[s].n = t[s].n + 1, t2[s].chunks = 0,
         \A z \in Session \ {s} : t2[z] = t[z]
  PROVE  Written(log, t2)
  <1>1. ASSUME NEW i \in DOMAIN log, log[i].kind \in StreamKinds
        PROVE  Behind(log, i, t2[log[i].id[1]])
    <2> DEFINE z == log[i].id[1]
    <2>1. z \in Session /\ log[i].id[2] \in Nat /\ log[i].id = <<z, log[i].id[2], log[i].id[3]>>
      BY LogFacts, UnitFields DEF Turn
    <2>2. Behind(log, i, t[z])
      BY <1>1 DEF Written
    <2>3. CASE z # s
      BY <2>1, <2>2, <2>3
    <2>4. CASE z = s
      <3>1. log[i].id[2] <= t[s].n /\ \E k \in DOMAIN log : i <= k /\ Ends(log[k], log[i].id)
        BY <2>2, <2>4 DEF Behind
      <3>2. log[i].id[2] <= t2[s].n /\ log[i].id[2] # t2[s].n
        BY <2>1, <3>1
      <3>3. log[i].id # At(s, t2[s])
        BY <3>2 DEF At
      <3> QED
        BY <2>4, <3>1, <3>2, <3>3 DEF Behind
    <2> QED
      BY <2>3, <2>4
  <1>2. ASSUME NEW z \in Session
        PROVE  Reached(log, z, t2[z])
    <2>1. CASE z # s
      BY <2>1 DEF Written
    <2>2. CASE z = s
      BY <2>2 DEF Reached
    <2> QED
      BY <2>1, <2>2
  <1> QED
    BY <1>1, <1>2 DEF Written

\* What of the log concerns the next unit of the stream that session s writes to.
LEMMA NextOfStream ==
  ASSUME NEW log \in Seq(Unit), NEW t, Written(log, t), NEW s \in Session, t[s].stage = "running",
         NEW i \in DOMAIN log, log[i].kind \in StreamKinds, log[i].id[1] = s
  PROVE  IF log[i].id = At(s, t[s]) THEN log[i].kind = "delta" /\ log[i].part \in 1..t[s].chunks
         ELSE \E k \in DOMAIN log : i <= k /\ Ends(log[k], log[i].id)
  BY DEF Written, Behind

\* The next chunk.
LEMMA NextChunk ==
  ASSUME NEW log \in Seq(Unit), NEW t, NEW t2, Written(log, t), NEW s \in Session,
         t[s].stage = "running", t[s].chunks \in Nat,
         NEW u \in Unit, u.kind = "delta", u.id = At(s, t[s]), u.part = t[s].chunks + 1,
         t2[s].stage = "running", t2[s].n = t[s].n, t2[s].segment = t[s].segment,
         t2[s].chunks = t[s].chunks + 1, \A z \in Session \ {s} : t2[z] = t[z],
         t[s].n \in Nat, t[s].segment \in Nat
  PROVE  Written(Append(log, u), t2)
  <1> DEFINE new == Append(log, u)
             n == Len(log)
             c == t[s].chunks
             here == At(s, t[s])
  <1>1. /\ n \in Nat /\ n + 1 \in DOMAIN new /\ new[n + 1] = u
        /\ \A i \in DOMAIN log : i \in DOMAIN new /\ new[i] = log[i] /\ i < n + 1
        /\ \A i \in DOMAIN new : i \in DOMAIN log \/ i = n + 1
    BY Joined
  <1>2. u.id[1] = s /\ u.id[2] = t[s].n /\ u.id[3] = t[s].segment /\ At(s, t2[s]) = here /\ c \in Nat
    BY DEF At
  <1>3. \A d \in 1..c : \E i \in DOMAIN log : IsChunk(log[i], here, d)
    BY DEF Written, Reached
  <1>4. ASSUME NEW i \in DOMAIN log, log[i].kind \in StreamKinds, log[i].id[1] = s
        PROVE  IF log[i].id = here THEN log[i].kind = "delta" /\ log[i].part \in 1..c
               ELSE \E k \in DOMAIN log : i <= k /\ Ends(log[k], log[i].id)
    BY <1>4, NextOfStream
  <1>5. Ordered(new) /\ Complete(new)
    <2> HIDE DEF c, here
    <2>1. Ordered(log) /\ Complete(log) /\ u.id = here /\ u.part = c + 1
      BY DEF Written, c, here
    <2>2. ASSUME NEW i \in DOMAIN log, log[i].kind \in StreamKinds, log[i].id[1] = u.id[1]
          PROVE  IF log[i].id = u.id THEN log[i].kind = "delta" /\ log[i].part < u.part
                 ELSE \E k \in DOMAIN log : i <= k /\ Ends(log[k], log[i].id)
      <3>1. CASE log[i].id = here
        <4>1. log[i].kind = "delta" /\ log[i].part \in 1..c
          BY <1>2, <1>4, <2>2, <3>1
        <4> QED
          BY <1>2, <2>1, <3>1, <4>1
      <3>2. CASE log[i].id # here
        BY <1>2, <1>4, <2>1, <2>2, <3>2
      <3> QED
        BY <3>1, <3>2
    <2>3. \A d \in 1..u.part - 1 : \E i \in DOMAIN log : IsChunk(log[i], u.id, d)
      <3>1. u.part - 1 = c
        BY <1>2, <2>1
      <3> QED
        BY <1>3, <2>1, <3>1
    <2> QED
      BY <2>1, <2>2, <2>3, OneMore
  <1> HIDE DEF new, n
  <1>6. ASSUME NEW i \in DOMAIN new, new[i].kind \in StreamKinds
        PROVE  Behind(new, i, t2[new[i].id[1]])
    <2>1. CASE i = n + 1
      <3>1. new[i].id = here /\ new[i].part \in 1..t2[s].chunks
        BY <1>1, <1>2, <2>1
      <3> QED
        BY <1>1, <1>2, <2>1, <3>1 DEF Behind
    <2>2. CASE i \in DOMAIN log
      <3> DEFINE z == log[i].id[1]
      <3>1. new[i] = log[i] /\ z \in Session /\ Behind(log, i, t[z])
        BY <1>1, <1>6, <2>2, LogFacts, UnitFields DEF Written
      <3>2. (\E k \in DOMAIN log : i <= k /\ Ends(log[k], log[i].id))
              => \E k \in DOMAIN new : i <= k /\ Ends(new[k], new[i].id)
        BY <1>1, <2>2
      <3>3. CASE z # s
        BY <3>1, <3>2, <3>3 DEF Behind
      <3>4. CASE z = s
        <4>1. /\ log[i].id[2] <= t[s].n /\ (log[i].id[2] = t[s].n => log[i].id[3] <= t[s].segment)
              /\ IF log[i].id = here THEN log[i].kind = "delta" /\ log[i].part \in 1..c
                 ELSE \E k \in DOMAIN log : i <= k /\ Ends(log[k], log[i].id)
          BY <3>1, <3>4 DEF Behind
        <4>2. log[i].id = here => log[i].part \in 1..t2[s].chunks
          BY <1>2, <4>1
        <4> HIDE DEF here
        <4> QED
          BY <1>2, <3>1, <3>2, <3>4, <4>1, <4>2 DEF Behind
      <3> QED
        BY <3>3, <3>4
    <2> QED
      BY <1>1, <2>1, <2>2
  <1>7. ASSUME NEW z \in Session
        PROVE  Reached(new, z, t2[z])
    <2>1. CASE z # s
      <3>1. Reached(log, z, t[z]) /\ t2[z] = t[z]
        BY <2>1 DEF Written
      <3> QED
        BY <1>1, <3>1 DEF Reached
    <2>2. CASE z = s
      <3> SUFFICES ASSUME NEW d \in 1..t2[s].chunks
                   PROVE  \E i \in DOMAIN new : IsChunk(new[i], here, d)
        BY <1>2, <2>2 DEF Reached
      <3>1. CASE d \in 1..c
        BY <1>1, <1>3, <3>1
      <3>2. CASE d = c + 1
        BY <1>1, <3>2 DEF IsChunk
      <3> QED
        BY <1>2, <3>1, <3>2
    <2> QED
      BY <2>1, <2>2
  <1> QED
    BY <1>5, <1>6, <1>7 DEF Written, new

\* The stream ends; the session goes on to the next segment, or stops writing.
LEMMA StreamCloses ==
  ASSUME NEW log \in Seq(Unit), NEW t, NEW t2, Written(log, t), NEW s \in Session,
         t[s].stage = "running", NEW u \in Unit, u.kind \in EndKinds, u.id = At(s, t[s]),
         t[s].n \in Nat, t[s].segment \in Nat,
         t2[s].n = t[s].n, \A z \in Session \ {s} : t2[z] = t[z],
         \/ t2[s].stage # "running" /\ t2[s].segment = t[s].segment
         \/ t2[s].segment = t[s].segment + 1 /\ t2[s].chunks = 0
  PROVE  Written(Append(log, u), t2)
  <1> DEFINE new == Append(log, u)
             n == Len(log)
             here == At(s, t[s])
  <1>1. /\ n \in Nat /\ n + 1 \in DOMAIN new /\ new[n + 1] = u
        /\ \A i \in DOMAIN log : i \in DOMAIN new /\ new[i] = log[i] /\ i < n + 1
        /\ \A i \in DOMAIN new : i \in DOMAIN log \/ i = n + 1
    BY Joined
  <1>2. u.id[1] = s /\ u.id[2] = t[s].n /\ u.id[3] = t[s].segment /\ u.id = here
    BY DEF At
  <1>3. u.kind # "delta" /\ u.kind \in StreamKinds
    BY DEF EndKinds, StreamKinds
  <1>4. Ordered(new) /\ Complete(new)
    <2>1. Ordered(log) /\ Complete(log)
      BY DEF Written
    <2>2. ASSUME NEW i \in DOMAIN log, log[i].kind \in StreamKinds, log[i].id[1] = u.id[1]
          PROVE  IF log[i].id = u.id THEN log[i].kind = "delta"
                 ELSE \E k \in DOMAIN log : i <= k /\ Ends(log[k], log[i].id)
      BY <1>2, <2>2, NextOfStream
    <2> QED
      BY <1>3, <2>1, <2>2, OneMore
  <1> HIDE DEF new, n
  <1>5. ASSUME NEW i \in DOMAIN new, new[i].kind \in StreamKinds
        PROVE  Behind(new, i, t2[new[i].id[1]])
    <2> DEFINE z == new[i].id[1]
    <2>1. CASE z # s
      <3>1. i \in DOMAIN log /\ new[i] = log[i]
        BY <1>1, <1>2, <2>1
      <3>2. z \in Session /\ Behind(log, i, t[z]) /\ t2[z] = t[z]
        BY <1>5, <2>1, <3>1, LogFacts, UnitFields DEF Written
      <3>3. (\E k \in DOMAIN log : i <= k /\ Ends(log[k], log[i].id))
              => \E k \in DOMAIN new : i <= k /\ Ends(new[k], new[i].id)
        BY <1>1, <3>1
      <3> QED
        BY <3>1, <3>2, <3>3 DEF Behind
    <2>2. CASE z = s
      <3>1. new[i].id[2] <= t[s].n /\ (new[i].id[2] = t[s].n => new[i].id[3] <= t[s].segment)
            /\ new[i].id[3] \in Nat
        <4>1. CASE i = n + 1
          BY <1>1, <1>2, <4>1
        <4>2. CASE i \in DOMAIN log
          <5>1. new[i] = log[i] /\ Behind(log, i, t[s]) /\ log[i] \in Unit
            BY <1>1, <1>5, <2>2, <4>2, LogFacts DEF Written
          <5>2. log[i].id[3] \in Nat
            BY <5>1, UnitFields, OutboundAssumption
          <5> QED
            BY <2>2, <5>1, <5>2 DEF Behind
        <4> QED
          BY <1>1, <4>1, <4>2
      <3>2. \E k \in DOMAIN new : i <= k /\ Ends(new[k], new[i].id)
        <4>1. CASE new[i].id = here
          <5>1. n + 1 \in DOMAIN new /\ i <= n + 1
            BY <1>1
          <5>2. Ends(new[n + 1], new[i].id)
            BY <1>1, <1>2, <4>1 DEF Ends
          <5> QED
            BY <5>1, <5>2
        <4>2. CASE new[i].id # here
          <5>1. i \in DOMAIN log /\ new[i] = log[i]
            BY <1>1, <1>2, <4>2
          <5>2. \E k \in DOMAIN log : i <= k /\ Ends(log[k], log[i].id)
            BY <1>5, <2>2, <4>2, <5>1, NextOfStream
          <5> QED
            BY <1>1, <5>1, <5>2
        <4> QED
          BY <4>1, <4>2
      <3>3. t2[s].stage = "running" => new[i].id # At(s, t2[s])
        <4>1. ASSUME t2[s].stage = "running", new[i].id = At(s, t2[s])
              PROVE  FALSE
          <5>1. new[i].id[2] = t[s].n /\ new[i].id[3] = t[s].segment + 1
            BY <4>1 DEF At
          <5> QED
            BY <3>1, <5>1
        <4> QED
          BY <4>1
      <3>4. new[i].id[2] <= t2[s].n /\ (new[i].id[2] = t2[s].n => new[i].id[3] <= t2[s].segment)
        BY <3>1
      <3> QED
        BY <2>2, <3>2, <3>3, <3>4 DEF Behind
    <2> QED
      BY <2>1, <2>2
  <1>6. ASSUME NEW z \in Session
        PROVE  Reached(new, z, t2[z])
    <2>1. CASE z # s
      <3>1. Reached(log, z, t[z]) /\ t2[z] = t[z]
        BY <2>1 DEF Written
      <3> QED
        BY <1>1, <3>1 DEF Reached
    <2>2. CASE z = s
      BY <2>2 DEF Reached
    <2> QED
      BY <2>1, <2>2
  <1> QED
    BY <1>4, <1>5, <1>6 DEF Written, new

\* Every message a turn publishes stands for one unit.
LEMMA OneUnit ==
  ASSUME NEW kind \in Kinds, NEW id \in Stream, NEW text,
         \/ kind \in {"delta", "reply", "followup"} /\ \E x \in Chunk \union Texts : text = <<x>>
         \/ kind \notin {"delta", "reply", "followup"} /\ text = <<>>
  PROVE  \E u \in Unit : /\ Units(Msg(kind, id, text)) = <<u>> /\ u.kind = kind /\ u.id = id
                         /\ \A x : text = <<x>> => u.part = x
  <1> DEFINE m == Msg(kind, id, text)
             texts == IF m.kind \in {"reply", "followup"} THEN m.kind ELSE "delta"
             shown == [i \in 1..Len(m.text) |-> [kind |-> texts, id |-> m.id, part |-> m.text[i]]]
             own == IF m.kind \in {"delta", "reply", "followup"} THEN <<>>
                    ELSE <<[kind |-> m.kind, id |-> m.id, part |-> 0]>>
  <1>1. m.kind = kind /\ m.id = id /\ m.text = text
    BY DEF Msg
  <1>2. Units(m) = shown \o own
    BY DEF Units
  <1> HIDE DEF m
  <1>3. CASE kind \in {"delta", "reply", "followup"}
    <2>1. PICK x \in Chunk \union Texts : text = <<x>>
      BY <1>3
    <2> DEFINE u == [kind |-> kind, id |-> id, part |-> x]
    <2>2. u \in Unit
      BY DEF Unit
    <2>3. Len(text) = 1 /\ text[1] = x /\ texts = kind
      BY <1>1, <1>3, <2>1
    <2>4. shown = [i \in 1..1 |-> u]
      BY <1>1, <2>3
    <2> HIDE DEF u
    <2>5. shown = <<u>>
      BY <2>4
    <2>6. own = <<>>
      BY <1>1, <1>3
    <2>7. <<u>> \in Seq(Unit)
      BY <2>2
    <2> HIDE DEF shown, own
    <2>8. Units(m) = <<u>>
      BY <1>2, <2>5, <2>6, <2>7, ConcatEmptySeq
    <2>9. u.kind = kind /\ u.id = id /\ u.part = x
      BY DEF u
    <2>10. \A y : text = <<y>> => x = y
      BY <2>1
    <2> QED
      BY <2>2, <2>8, <2>9, <2>10 DEF m
  <1>4. CASE kind \notin {"delta", "reply", "followup"}
    <2> DEFINE u == [kind |-> kind, id |-> id, part |-> 0]
    <2>1. u \in Unit
      BY DEF Unit
    <2>2. text = <<>> /\ Len(text) = 0
      BY <1>4
    <2>3. shown = [i \in 1..0 |-> [kind |-> texts, id |-> m.id, part |-> m.text[i]]]
      BY <1>1, <2>2
    <2>4. shown = <<>>
      <3>1. 1..0 = {}
        OBVIOUS
      <3> QED
        BY <2>3, <3>1
    <2>5. own = <<u>>
      BY <1>1, <1>4
    <2> HIDE DEF u
    <2>6. <<u>> \in Seq(Unit)
      BY <2>1
    <2> HIDE DEF shown, own
    <2>7. Units(m) = <<u>>
      BY <1>2, <2>4, <2>5, <2>6, ConcatEmptySeq
    <2>8. u.kind = kind /\ u.id = id
      BY DEF u
    <2>9. \A x : <<x>> # <<>>
      OBVIOUS
    <2> QED
      BY <2>1, <2>2, <2>7, <2>8, <2>9 DEF m
  <1> QED
    BY <1>3, <1>4

LEMMA LogType ==
  ASSUME Waiting
  PROVE  Log \in Seq(Unit) /\ handled \in Seq(Unit) /\ Parts(current \o held \o queue) \in Seq(Unit)
  <1>1. handled \in Seq(Unit) /\ Parts(current \o held \o queue) \in Seq(Unit)
    BY WaitingFacts DEF Waiting
  <1> QED
    BY <1>1, ConcatProperties DEF Log

\* What the messages of each kind carry.
Carries(kind, text) ==
  \/ kind = "delta" /\ \E x \in Chunk : text = <<x>>
  \/ kind \in {"reply", "followup"} /\ \E x \in Texts : text = <<x>>
  \/ kind \notin {"delta", "reply", "followup"} /\ text = <<>>

\* A message joined the log as one unit.
Logged(kind, id, text) ==
  \E u \in Unit : /\ Log' = Append(Log, u) /\ u.kind = kind /\ u.id = id
                  /\ \A x : text = <<x>> => u.part = x

LEMMA PublishLog ==
  ASSUME Inv, NEW s \in Session, NEW kind \in Kinds, NEW segment \in 0..MaxSegments, NEW text,
         Publish(s, kind, segment, text), turns[s].n # 0, Carries(kind, text),
         kind \in StreamKinds <=> segment # 0
  PROVE  Logged(kind, <<s, turns[s].n, segment>>, text)
  <1>0. /\ text \in Seq(Chunk \union Texts) /\ (kind \in StreamKinds => text \in Seq(Chunk))
        /\ \/ kind = "delta" /\ \E x \in Chunk : text = <<x>>
           \/ kind \in {"reply", "followup"} /\ \E x \in Texts : text = <<x>>
           \/ kind \notin {"delta", "reply", "followup"} /\ text = <<>>
    <2> DEFINE all == Chunk \union Texts
    <2>1. CASE kind = "delta"
      <3>1. PICK x \in Chunk : text = <<x>>
        BY <2>1 DEF Carries
      <3>2. <<x>> \in Seq(Chunk) /\ <<x>> \in Seq(all)
        OBVIOUS
      <3> HIDE DEF all
      <3> QED
        BY <2>1, <3>1, <3>2 DEF all
    <2>2. CASE kind \in {"reply", "followup"}
      <3>1. PICK x \in Texts : text = <<x>>
        BY <2>2 DEF Carries
      <3>2. <<x>> \in Seq(all)
        OBVIOUS
      <3> HIDE DEF all
      <3> QED
        BY <2>2, <3>1, <3>2 DEF all, StreamKinds
    <2>3. CASE kind \notin {"delta", "reply", "followup"}
      <3>1. text = <<>>
        BY <2>3 DEF Carries
      <3>2. <<>> \in Seq(Chunk) /\ <<>> \in Seq(all)
        OBVIOUS
      <3> HIDE DEF all
      <3> QED
        BY <2>3, <3>1, <3>2 DEF all
    <2> QED
      BY <2>1, <2>2, <2>3
  <1>1. turns[s].n \in Turn /\ Waiting
    BY OutboundAssumption DEF Inv, Counters, Turn
  <1> DEFINE id == <<s, turns[s].n, segment>>
             m == Msg(kind, id, text)
             todo == Parts(current \o held \o queue)
  <1>2. /\ kind \in {"reply", "followup"} => \E t \in Texts : text = <<t>>
        /\ kind = "delta" => text # <<>>
        /\ kind \in EndKinds => text = <<>>
    <2>1. \A x : <<x>> # <<>>
      OBVIOUS
    <2> QED
      BY <1>0, <2>1 DEF EndKinds
  <1>3. todo' = todo \o Units(m) /\ UNCHANGED handled
    BY <1>1, <1>0, <1>2, PublishEffect
  <1>4. id \in Stream
    BY <1>1 DEF Stream
  <1> HIDE DEF id, todo
  <1>5. PICK u \in Unit : /\ Units(m) = <<u>> /\ u.kind = kind /\ u.id = id
                          /\ \A x : text = <<x>> => u.part = x
    <2>1. \/ kind \in {"delta", "reply", "followup"} /\ \E x \in Chunk \union Texts : text = <<x>>
          \/ kind \notin {"delta", "reply", "followup"} /\ text = <<>>
      BY <1>0
    <2> QED
      BY <1>4, <2>1, OneUnit
  <1>6. Log = handled \o todo /\ Log \in Seq(Unit) /\ handled \in Seq(Unit) /\ todo \in Seq(Unit)
    BY <1>1, LogType DEF Log, todo
  <1>7. Log' = handled' \o todo'
    BY DEF Log, todo, Parts, Units
  <1>8. <<u>> \in Seq(Unit)
    OBVIOUS
  <1>9. handled \o (todo \o <<u>>) = (handled \o todo) \o <<u>>
    BY <1>6, <1>8, UnitsAssociate
  <1>10. Log \o <<u>> = Append(Log, u)
    BY <1>6, AppendIsConcat
  <1>11. Log' = Append(Log, u)
    BY <1>3, <1>5, <1>6, <1>7, <1>9, <1>10
  <1> QED
    BY <1>5, <1>11 DEF id, Logged

\* The dispatcher only moves what was written from one end to the other.
LEMMA DispatcherLog ==
  ASSUME Inv, Take \/ Sends \/ UNCHANGED vars
  PROVE  Log' = Log /\ UNCHANGED turns
  <1> DEFINE todo == Parts(current \o held \o queue)
             new == Parts(current' \o held' \o queue')
  <1>1. new = todo' /\ Waiting
    BY DEF Parts, Units, Inv
  <1>2. CASE UNCHANGED vars
    BY <1>2 DEF vars, Log, Parts, Units
  <1>3. CASE Take \/ Sends
    <2>1. \/ new = todo /\ handled' = handled
          \/ \E u \in Seq(Unit) : todo = u \o new /\ handled' = handled \o u
      BY <1>3, TakeParts, SendParts
    <2>2. new \in Seq(Unit)
      <3>1. Waiting'
        <4>1. CASE Take
          <5>2. PICK m \in Plain, left \in Seq(Plain) :
                  /\ held' \in Seq(Plain) /\ queue' \in Seq(Plain) /\ Len(held') <= 1
                  /\ IF Ignored(m) THEN handled' = handled \o Units(m) /\ UNCHANGED <<current, prints>>
                     ELSE current' = <<m>> /\ prints' = Noted(m) /\ UNCHANGED handled
                  /\ current = <<>> /\ UNCHANGED tried
            BY <1>1, <4>1, TakeEffect
          <5>3. handled \in Seq(Unit) /\ Units(m) \in Seq(Unit) /\ (current = <<>> => tried = 0)
            BY UnitsType DEF Inv, Waiting, Plain
          <5>4. handled \o Units(m) \in Seq(Unit)
            BY <5>3, ConcatProperties
          <5>5. <<m>> \in Seq(Plain) /\ Len(<<m>>) = 1 /\ <<m>> # <<>> /\ <<>> \in Seq(Plain) /\ Len(<<>>) = 0
            OBVIOUS
          <5>6. CASE Ignored(m)
            BY <5>2, <5>3, <5>4, <5>5, <5>6 DEF Inv, Waiting
          <5>7. CASE ~Ignored(m)
            <6>1. current' = <<m>> /\ handled' = handled /\ tried' = tried
              BY <5>2, <5>7
            <6> QED
              BY <5>2, <5>3, <5>5, <6>1 DEF Inv, Waiting
          <5> QED
            BY <5>6, <5>7
        <4>2. CASE Sends
          <5>1. current # <<>> /\ (Done \/ Again)
            BY <4>2, SendsFrame DEF Inv
          <5>2. Done => Waiting'
            BY <5>1, DoneKeeps
          <5>3. Again => Waiting'
            BY <5>1 DEF Again, Inv, Waiting
          <5> QED
            BY <5>1, <5>2, <5>3
        <4> QED
          BY <1>3, <4>1, <4>2
      <3>2. queue' \in Seq(Message) /\ held' \in Seq(Message) /\ current' \in Seq(Message)
        BY <3>1, PlainSeq DEF Waiting
      <3>3. current' \o held' \in Seq(Message)
        BY <3>2, ConcatProperties
      <3>4. (current' \o held') \o queue' \in Seq(Message)
        BY <3>2, <3>3, ConcatProperties
      <3> QED
        BY <3>4, PartsType
    <2>3. handled \in Seq(Unit)
      BY <1>1 DEF Waiting
    <2>4. Log' = handled' \o new /\ Log = handled \o todo
      BY <1>1 DEF Log
    <2>5. UNCHANGED turns
      <3>1. Take => UNCHANGED turns
        BY DEF Take
      <3>2. Sends => UNCHANGED turns
        BY SendsFrame DEF Inv, Done, Again
      <3> QED
        BY <1>3, <3>1, <3>2
    <2> HIDE DEF new, todo
    <2>6. \A u \in Seq(Unit) : todo = u \o new /\ handled' = handled \o u => handled' \o new = handled \o todo
      BY <2>2, <2>3, UnitsAssociate
    <2> QED
      BY <2>1, <2>4, <2>5, <2>6
  <1> QED
    BY <1>2, <1>3

LEMMA InitWritten == Init => Written(Log, turns)
  <1> SUFFICES ASSUME Init
               PROVE  Written(Log, turns)
    OBVIOUS
  <1>1. current = <<>> /\ held = <<>> /\ queue = <<>> /\ handled = <<>>
    BY DEF Init
  <1>2. Log = <<>>
    <2>1. <<>> \in Seq(Unit) /\ <<>> \in Seq(Message)
      OBVIOUS
    <2>2. <<>> \o <<>> = <<>>
      OBVIOUS
    <2> QED
      BY <1>1, <2>2, PartsEmpty DEF Log
  <1>3. DOMAIN Log = {}
    BY <1>2
  <1>4. \A s \in Session : turns[s].stage = "idle"
    BY DEF Init
  <1> QED
    BY <1>3, <1>4 DEF Written, Ordered, Complete, Reached

\* The record of the session after each step of a turn.
LEMMA TurnAfter ==
  ASSUME Inv, NEW s \in Session, NEW r, turns' = [turns EXCEPT ![s] = r]
  PROVE  turns'[s] = r /\ \A z \in Session \ {s} : turns'[z] = turns[z]
  BY DEF Inv, Counters

LEMMA BeginWrites ==
  ASSUME Inv, Written(Log, turns), NEW s \in Session, Begin(s)
  PROVE  Written(Log', turns')
  <1> DEFINE r == [turns[s] EXCEPT !.stage = "running", !.n = @ + 1, !.segment = 1, !.chunks = 0]
             t == turns'
  <1>1. turns' = [turns EXCEPT ![s] = r] /\ turns[s].stage # "running"
    BY DEF Begin, Inv, Counters
  <1>2. turns'[s] = r /\ \A z \in Session \ {s} : turns'[z] = turns[z]
    <2> HIDE DEF r
    <2> QED
      BY <1>1, TurnAfter
  <1>3. r.n = turns[s].n + 1 /\ r.chunks = 0 /\ turns[s].n \in Nat
    BY TurnFields DEF TurnRecord
  <1>4. Log' = Log /\ Log \in Seq(Unit)
    BY LogType DEF Begin, Log, Parts, Units, Inv
  <1> HIDE DEF r
  <1>5. t[s].n = turns[s].n + 1 /\ t[s].chunks = 0 /\ \A z \in Session \ {s} : t[z] = turns[z]
    BY <1>2, <1>3
  <1> HIDE DEF t
  <1>6. Written(Log, t)
    BY <1>1, <1>3, <1>4, <1>5, TurnBegins
  <1> QED
    BY <1>4, <1>6 DEF t

LEMMA StreamDeltaWrites ==
  ASSUME Inv, Written(Log, turns), NEW s \in Session, StreamDelta(s)
  PROVE  Written(Log', turns')
  <1> DEFINE r == [turns[s] EXCEPT !.chunks = @ + 1]
             t == turns'
             text == <<turns[s].chunks + 1>>
             segment == turns[s].segment
  <1>1. turns' = [turns EXCEPT ![s] = r] /\ turns[s].stage = "running"
    BY DEF StreamDelta, Inv, Counters
  <1>2. turns'[s] = r /\ \A z \in Session \ {s} : turns'[z] = turns[z]
    <2> HIDE DEF r
    <2> QED
      BY <1>1, TurnAfter
  <1>3. /\ r.n = turns[s].n /\ r.chunks = turns[s].chunks + 1 /\ r.segment = turns[s].segment
        /\ r.stage = turns[s].stage /\ turns[s].n \in Nat /\ segment \in 0..MaxSegments /\ segment \in Nat
        /\ turns[s].chunks \in Nat /\ turns[s].n # 0 /\ segment # 0
    BY <1>1, TurnFields DEF TurnRecord
  <1>4. text \in Seq(Chunk) /\ text \in Seq(Chunk \union Texts) /\ \E x \in Chunk : text = <<x>>
    <2>1. turns[s].chunks + 1 \in Chunk
      BY TurnFields DEF StreamDelta, Chunk
    <2> QED
      BY <2>1
  <1>5. Publish(s, "delta", segment, text) /\ "delta" \in Kinds /\ "delta" \in StreamKinds
    BY DEF StreamDelta, Kinds, StreamKinds
  <1> HIDE DEF text, segment, r, t
  <1>6. PICK u \in Unit : /\ Log' = Append(Log, u) /\ u.kind = "delta" /\ u.id = <<s, turns[s].n, segment>>
                          /\ \A x : text = <<x>> => u.part = x
    <2>1. Carries("delta", text)
      BY <1>4 DEF Carries
    <2>2. Logged("delta", <<s, turns[s].n, segment>>, text)
      BY <1>3, <1>5, <2>1, PublishLog
    <2> QED
      BY <2>2 DEF Logged
  <1>7. u.id = At(s, turns[s]) /\ u.part = turns[s].chunks + 1
    BY <1>6 DEF At, text, segment
  <1>8. /\ t[s].n = turns[s].n /\ t[s].chunks = turns[s].chunks + 1 /\ t[s].segment = turns[s].segment
        /\ t[s].stage = "running" /\ \A z \in Session \ {s} : t[z] = turns[z]
    BY <1>1, <1>2, <1>3 DEF t
  <1>9. Log \in Seq(Unit) /\ turns[s].segment \in Nat
    BY <1>3, LogType DEF Inv, segment
  <1>10. Written(Append(Log, u), t)
    BY <1>1, <1>3, <1>6, <1>7, <1>8, <1>9, NextChunk
  <1> QED
    BY <1>6, <1>10 DEF t

\* Both ends of a stream.
LEMMA ClosingWrites ==
  ASSUME Inv, Written(Log, turns), NEW s \in Session, turns[s].stage = "running",
         NEW r, turns' = [turns EXCEPT ![s] = r], r.n = turns[s].n,
         \/ r.stage # "running" /\ r.segment = turns[s].segment
         \/ r.segment = turns[s].segment + 1 /\ r.chunks = 0,
         NEW kind \in EndKinds, Publish(s, kind, turns[s].segment, <<>>)
  PROVE  Written(Log', turns')
  <1> DEFINE t == turns'
             segment == turns[s].segment
             text == <<>>
  <1>1. turns'[s] = r /\ \A z \in Session \ {s} : turns'[z] = turns[z]
    BY TurnAfter
  <1>2. /\ turns[s].n \in Nat /\ segment \in 0..MaxSegments /\ segment \in Nat
        /\ turns[s].n # 0 /\ segment # 0
    BY TurnFields
  <1>3. /\ kind \in Kinds /\ kind \in StreamKinds /\ kind \notin {"delta", "reply", "followup"}
        /\ text \in Seq(Chunk \union Texts) /\ text \in Seq(Chunk) /\ Publish(s, kind, segment, text) /\ text = <<>>
    BY DEF EndKinds, Kinds, StreamKinds
  <1> HIDE DEF text, segment, t
  <1>4. PICK u \in Unit : /\ Log' = Append(Log, u) /\ u.kind = kind /\ u.id = <<s, turns[s].n, segment>>
    <2>1. Carries(kind, text)
      BY <1>3 DEF Carries
    <2>2. Logged(kind, <<s, turns[s].n, segment>>, text)
      BY <1>2, <1>3, <2>1, PublishLog
    <2> QED
      BY <2>2 DEF Logged
  <1>5. u.id = At(s, turns[s]) /\ u.kind \in EndKinds
    BY <1>4 DEF At, segment
  <1>6. /\ t[s].n = turns[s].n /\ \A z \in Session \ {s} : t[z] = turns[z]
        /\ \/ t[s].stage # "running" /\ t[s].segment = turns[s].segment
           \/ t[s].segment = turns[s].segment + 1 /\ t[s].chunks = 0
    BY <1>1 DEF t
  <1>7. Log \in Seq(Unit) /\ turns[s].segment \in Nat
    BY <1>2, LogType DEF Inv, segment
  <1>8. Written(Append(Log, u), t)
    BY <1>2, <1>4, <1>5, <1>6, <1>7, StreamCloses
  <1> QED
    BY <1>4, <1>8 DEF t

\* What belongs to no stream.
LEMMA WholeWrites ==
  ASSUME Inv, Written(Log, turns), NEW s \in Session, turns[s].n # 0,
         NEW r, turns' = [turns EXCEPT ![s] = r], r.n = turns[s].n, r.segment = turns[s].segment,
         r.chunks = turns[s].chunks, r.stage = "running" <=> turns[s].stage = "running",
         \/ \E kind \in {"streamed", "notice", "hidden"} : Publish(s, kind, 0, <<>>)
         \/ \E kind \in {"reply", "followup"}, x \in Texts : Publish(s, kind, 0, <<x>>)
  PROVE  Written(Log', turns')
  <1> DEFINE t == turns'
  <1>1. turns'[s] = r /\ \A z \in Session \ {s} : turns'[z] = turns[z]
    BY TurnAfter
  <1>2. 0 \in 0..MaxSegments
    BY OutboundAssumption
  <1>3. \E u \in Unit : Log' = Append(Log, u) /\ u.kind \notin StreamKinds
    <2>1. ASSUME NEW kind \in {"streamed", "notice", "hidden"}, Publish(s, kind, 0, <<>>)
          PROVE  \E u \in Unit : Log' = Append(Log, u) /\ u.kind \notin StreamKinds
      <3>1. kind \in Kinds /\ kind \notin StreamKinds /\ kind \notin {"delta", "reply", "followup"}
        BY <2>1 DEF Kinds, StreamKinds
      <3> DEFINE text == <<>>
      <3>2. text \in Seq(Chunk \union Texts) /\ text = <<>> /\ Publish(s, kind, 0, text)
        BY <2>1
      <3>3. Carries(kind, text)
        BY <3>1, <3>2 DEF Carries
      <3> HIDE DEF text
      <3>4. Logged(kind, <<s, turns[s].n, 0>>, text)
        BY <1>2, <3>1, <3>2, <3>3, PublishLog
      <3> QED
        BY <3>1, <3>4 DEF Logged
    <2>2. ASSUME NEW kind \in {"reply", "followup"}, NEW x \in Texts, Publish(s, kind, 0, <<x>>)
          PROVE  \E u \in Unit : Log' = Append(Log, u) /\ u.kind \notin StreamKinds
      <3>1. kind \in Kinds /\ kind \notin StreamKinds
        BY <2>2 DEF Kinds, StreamKinds
      <3> DEFINE text == <<x>>
      <3>2. text \in Seq(Chunk \union Texts) /\ (\E z \in Texts : text = <<z>>) /\ Publish(s, kind, 0, text)
        BY <2>2
      <3>3. Carries(kind, text)
        BY <2>2, <3>2 DEF Carries
      <3> HIDE DEF text
      <3>4. Logged(kind, <<s, turns[s].n, 0>>, text)
        BY <1>2, <2>2, <3>1, <3>2, <3>3, PublishLog
      <3> QED
        BY <3>1, <3>4 DEF Logged
    <2> QED
      BY <2>1, <2>2
  <1>4. PICK u \in Unit : Log' = Append(Log, u) /\ u.kind \notin StreamKinds
    BY <1>3
  <1>5. \A z \in Session : /\ t[z].n = turns[z].n /\ t[z].segment = turns[z].segment
                           /\ t[z].chunks = turns[z].chunks
                           /\ t[z].stage = "running" <=> turns[z].stage = "running"
    BY <1>1
  <1>6. Log \in Seq(Unit)
    BY LogType DEF Inv
  <1> HIDE DEF t
  <1>7. Written(Append(Log, u), t)
    BY <1>4, <1>5, <1>6, OtherUnit
  <1> QED
    BY <1>4, <1>7 DEF t

LEMMA WrittenStep ==
  ASSUME Inv, [Next]_vars, Written(Log, turns)
  PROVE  Written(Log', turns')
  <1>1. ASSUME NEW s \in Session, StreamResumes(s)
        PROVE  Written(Log', turns')
    <2> DEFINE r == [turns[s] EXCEPT !.segment = @ + 1, !.chunks = 0]
    <2>1. turns' = [turns EXCEPT ![s] = r]
      BY <1>1 DEF StreamResumes, Inv, Counters
    <2>2. r.n = turns[s].n /\ r.segment = turns[s].segment + 1 /\ r.chunks = 0
      BY TurnFields DEF TurnRecord
    <2>3. turns[s].stage = "running" /\ Publish(s, "resuming", turns[s].segment, <<>>) /\ "resuming" \in EndKinds
      BY <1>1 DEF StreamResumes, EndKinds
    <2> HIDE DEF r
    <2> QED
      BY <2>1, <2>2, <2>3, ClosingWrites
  <1>2. ASSUME NEW s \in Session, StreamEnd(s)
        PROVE  Written(Log', turns')
    <2> DEFINE r == [turns[s] EXCEPT !.stage = "closed"]
    <2>1. turns' = [turns EXCEPT ![s] = r]
      BY <1>2 DEF StreamEnd, Inv, Counters
    <2>2. r.n = turns[s].n /\ r.segment = turns[s].segment /\ r.stage # "running"
      BY TurnFields DEF TurnRecord
    <2>3. turns[s].stage = "running" /\ Publish(s, "end", turns[s].segment, <<>>) /\ "end" \in EndKinds
      BY <1>2 DEF StreamEnd, EndKinds
    <2> HIDE DEF r
    <2> QED
      BY <2>1, <2>2, <2>3, ClosingWrites
  <1>3. ASSUME NEW s \in Session, Respond(s)
        PROVE  Written(Log', turns')
    <2> DEFINE r == [turns[s] EXCEPT !.stage = "idle"]
    <2>1. turns' = [turns EXCEPT ![s] = r]
      BY <1>3 DEF Respond, Inv, Counters
    <2>2. /\ r.n = turns[s].n /\ r.segment = turns[s].segment /\ r.chunks = turns[s].chunks
          /\ r.stage # "running" /\ turns[s].stage # "running" /\ turns[s].n # 0
      BY <1>3, TurnFields DEF TurnRecord, Respond
    <2>3. \/ \E kind \in {"streamed", "notice", "hidden"} : Publish(s, kind, 0, <<>>)
          \/ \E kind \in {"reply", "followup"}, x \in Texts : Publish(s, kind, 0, <<x>>)
      BY <1>3 DEF Respond
    <2> HIDE DEF r
    <2> QED
      BY <2>1, <2>2, <2>3, WholeWrites
  <1>4. ASSUME NEW s \in Session, Extra(s)
        PROVE  Written(Log', turns')
    <2> DEFINE r == [turns[s] EXCEPT !.extras = @ + 1]
    <2>1. turns' = [turns EXCEPT ![s] = r]
      BY <1>4 DEF Extra, Inv, Counters
    <2>2. /\ r.n = turns[s].n /\ r.segment = turns[s].segment /\ r.chunks = turns[s].chunks
          /\ r.stage = turns[s].stage /\ turns[s].n # 0
      BY <1>4, TurnFields DEF TurnRecord, Extra
    <2>3. \/ \E kind \in {"streamed", "notice", "hidden"} : Publish(s, kind, 0, <<>>)
          \/ \E kind \in {"reply", "followup"}, x \in Texts : Publish(s, kind, 0, <<x>>)
      BY <1>4 DEF Extra
    <2> HIDE DEF r
    <2> QED
      BY <2>1, <2>2, <2>3, WholeWrites
  <1>5. CASE Turns
    <2>1. PICK s \in Session : \/ Begin(s) \/ StreamDelta(s) \/ StreamResumes(s) \/ StreamEnd(s)
                               \/ Respond(s) \/ Extra(s)
      BY <1>5 DEF Turns
    <2> QED
      BY <1>1, <1>2, <1>3, <1>4, <2>1, BeginWrites, StreamDeltaWrites
  <1>6. CASE Take \/ Sends \/ UNCHANGED vars
    BY <1>6, DispatcherLog
  <1> QED
    BY <1>5, <1>6 DEF Next, Dispatcher, Sends

-----------------------------------------------------------------------------
(* What the log says of the message being sent. *)

\* The streams; the others of Stream are the turns themselves.
Streams == {id \in Stream : id[3] # 0}

Over(id) == Handled("end", id) \/ Handled("resuming", id)

LEMMA MessageUnits ==
  ASSUME NEW m \in Plain
  PROVE  /\ Units(m) \in Seq(Unit) /\ Len(Units(m)) \in Nat
         /\ \A i \in 1..Len(Units(m)) : Units(m)[i].id = m.id
         /\ m.kind = "delta" =>
              /\ Len(Units(m)) = Len(m.text) /\ Len(m.text) # 0
              /\ \A i \in 1..Len(m.text) : Units(m)[i].kind = "delta" /\ Units(m)[i].part = m.text[i]
         /\ m.kind \in EndKinds => Len(Units(m)) = 1 /\ Units(m)[1].kind = m.kind
  <1> DEFINE texts == IF m.kind \in {"reply", "followup"} THEN m.kind ELSE "delta"
             own == IF m.kind \in {"delta", "reply", "followup"} THEN <<>>
                    ELSE <<[kind |-> m.kind, id |-> m.id, part |-> 0]>>
             shown == [j \in 1..Len(m.text) |-> [kind |-> texts, id |-> m.id, part |-> m.text[j]]]
             S == {u \in Unit : u.id = m.id}
  <1>1. m \in Message /\ m.id \in Stream /\ Len(m.text) \in Nat
    BY MessageFields DEF Plain
  <1>2. own \in Seq(S)
    <2>1. m.kind \in {"delta", "reply", "followup"} \/ [kind |-> m.kind, id |-> m.id, part |-> 0] \in S
      BY <1>1, MessageFields DEF Unit
    <2> HIDE DEF S
    <2> QED
      BY <2>1
  <1>3. shown \in Seq(S)
    <2>1. texts \in Kinds
      BY DEF Kinds
    <2> HIDE DEF texts
    <2>2. \A j \in 1..Len(m.text) : [kind |-> texts, id |-> m.id, part |-> m.text[j]] \in S
      BY <1>1, <2>1, MessageFields DEF Unit
    <2> HIDE DEF S
    <2> QED
      BY <1>1, <2>2, IsASeq
  <1>4. Units(m) = shown \o own
    BY DEF Units
  <1>5. m.kind = "delta" => own = <<>> /\ texts = "delta"
    OBVIOUS
  <1>6. m.kind \in EndKinds => shown = <<>> /\ own = <<[kind |-> m.kind, id |-> m.id, part |-> 0]>>
    <2> SUFFICES ASSUME m.kind \in EndKinds
                 PROVE  shown = <<>> /\ own = <<[kind |-> m.kind, id |-> m.id, part |-> 0]>>
      OBVIOUS
    <2>1. m.text = <<>> /\ Len(m.text) = 0
      BY DEF Plain
    <2>2. 1..Len(m.text) = {}
      BY <2>1
    <2> QED
      BY <2>2 DEF EndKinds
  <1>7. shown \in Seq(Unit) /\ own \in Seq(Unit)
    <2>1. S \subseteq Unit
      OBVIOUS
    <2> HIDE DEF S, shown, own
    <2> QED
      BY <1>2, <1>3, <2>1, SeqMonotonic
  <1>8. CASE m.kind = "delta"
    <2>1. Units(m) = shown
      <3> HIDE DEF shown, own
      <3> QED
        BY <1>4, <1>5, <1>7, <1>8, ConcatEmptySeq
    <2>2. Len(shown) = Len(m.text)
      BY <1>1
    <2>3. Len(m.text) # 0
      BY <1>8, EmptySeq DEF Plain, StreamKinds
    <2>4. \A i \in 1..Len(m.text) : shown[i].kind = "delta" /\ shown[i].part = m.text[i] /\ shown[i].id = m.id
      BY <1>8
    <2> HIDE DEF shown
    <2> QED
      BY <1>1, <1>7, <1>8, <2>1, <2>2, <2>3, <2>4 DEF EndKinds
  <1>9. CASE m.kind # "delta"
    <2>1. Units(m) \in Seq(S) /\ Units(m) \in Seq(Unit)
      <3> HIDE DEF S, shown, own
      <3> QED
        BY <1>2, <1>3, <1>4, <1>7, ConcatProperties
    <2>2. Len(Units(m)) \in Nat /\ \A i \in 1..Len(Units(m)) : Units(m)[i] \in S
      <3> HIDE DEF S
      <3> QED
        BY <2>1, LenProperties, ElementOfSeq
    <2>3. m.kind \in EndKinds => Units(m) = <<[kind |-> m.kind, id |-> m.id, part |-> 0]>>
      <3> HIDE DEF shown, own
      <3> QED
        BY <1>4, <1>6, <1>7, ConcatEmptySeq
    <2>4. m.kind \in EndKinds => Len(Units(m)) = 1 /\ Units(m)[1].kind = m.kind
      BY <2>3
    <2> QED
      BY <1>9, <2>1, <2>2, <2>4
  <1> QED
    BY <1>8, <1>9

\* Where the log has what is handled, and the message being sent.
LEMMA InLog ==
  ASSUME Inv, current # <<>>
  PROVE  LET n == Len(handled)
             u == Units(current[1])
         IN  /\ n \in Nat /\ DOMAIN handled = 1..n /\ Len(u) \in Nat
             /\ \A i \in 1..n : i \in DOMAIN Log /\ Log[i] = handled[i]
             /\ \A i \in 1..Len(u) : n + i \in DOMAIN Log /\ Log[n + i] = u[i]
             /\ \A i \in DOMAIN Log : i \in Nat
  <1> DEFINE n == Len(handled)
             u == Units(current[1])
             todo == Parts(current \o held \o queue)
             rest == Parts(held \o queue)
  <1>1. handled \in Seq(Unit) /\ u \in Seq(Unit) /\ rest \in Seq(Unit) /\ todo = u \o rest
    BY CurrentFacts, MessageUnits, WaitingFacts DEF Inv, Waiting
  <1>2. Log = handled \o todo
    BY DEF Log
  <1> HIDE DEF u, rest, todo
  <1>3. /\ todo \in Seq(Unit) /\ Len(u) \in Nat /\ Len(rest) \in Nat
        /\ Len(todo) = Len(u) + Len(rest) /\ \A i \in 1..Len(u) : todo[i] = u[i]
    BY <1>1, HandledGrows
  <1>4. /\ n \in Nat /\ DOMAIN handled = 1..n /\ DOMAIN Log = 1..n + Len(todo)
        /\ \A i \in 1..n : Log[i] = handled[i]
        /\ \A i \in 1..Len(todo) : Log[n + i] = todo[i]
    BY <1>1, <1>2, <1>3, HandledGrows
  <1> HIDE DEF n
  <1>5. \A i \in 1..n : i \in DOMAIN Log
    BY <1>3, <1>4
  <1>6. \A i \in 1..Len(u) : n + i \in DOMAIN Log /\ Log[n + i] = u[i]
    <2> TAKE i \in 1..Len(u)
    <2>1. i \in 1..Len(todo) /\ n + i \in 1..n + Len(todo)
      BY <1>3, <1>4
    <2> QED
      BY <1>3, <1>4, <2>1
  <1> QED
    BY <1>3, <1>4, <1>5, <1>6 DEF n, u

LEMMA EndedIsOver ==
  ASSUME NEW i \in DOMAIN handled, NEW id, Ends(handled[i], id)
  PROVE  Over(id)
  BY DEF Over, Handled, Ends, EndKinds

LEMMA OverHas ==
  ASSUME NEW id, Over(id)
  PROVE  \E i \in DOMAIN handled : Ends(handled[i], id)
  BY DEF Over, Handled, Ends, EndKinds

LEMMA InChunks ==
  ASSUME NEW id, NEW x
  PROVE  x \in ChunksOf(id) <=> \E i \in DOMAIN handled : IsChunk(handled[i], id, x)
  BY DEF ChunksOf, IsChunk

\* The message being sent continues a stream that has not ended, and every other
\* stream of its session that was handled has.
LEMMA NextUp ==
  ASSUME Inv, Written(Log, turns), current # <<>>, current[1].kind \in StreamKinds
  PROVE  /\ ~Over(current[1].id)
         /\ \A i \in DOMAIN handled :
              /\ handled[i].kind \in StreamKinds /\ handled[i].id[1] = current[1].id[1]
              /\ handled[i].id # current[1].id
              => Over(handled[i].id)
  <1> DEFINE m == current[1]
             n == Len(handled)
             u == Units(m)
  <1>1. m \in Plain
    BY CurrentFacts DEF Inv
  <1>2. /\ Len(u) \in Nat /\ Len(u) # 0 /\ \A i \in 1..Len(u) : u[i].id = m.id
        /\ u[1].kind \in StreamKinds
    <2> HIDE DEF m
    <2>1. m.kind = "delta" \/ m.kind \in EndKinds
      BY DEF m, StreamKinds, EndKinds
    <2>2. CASE m.kind = "delta"
      <3>1. Len(u) \in Nat /\ Len(u) # 0 /\ \A i \in 1..Len(u) : u[i].id = m.id /\ u[i].kind = "delta"
        BY <1>1, <2>2, MessageUnits
      <3>2. 1 \in 1..Len(u)
        BY <3>1
      <3> QED
        BY <3>1, <3>2 DEF StreamKinds
    <2>3. CASE m.kind \in EndKinds
      BY <1>1, <2>3, MessageUnits DEF StreamKinds, EndKinds
    <2> QED
      BY <2>1, <2>2, <2>3
  <1>3. /\ n \in Nat /\ DOMAIN handled = 1..n
        /\ \A i \in 1..n : i \in DOMAIN Log /\ Log[i] = handled[i]
        /\ \A i \in 1..Len(u) : n + i \in DOMAIN Log /\ Log[n + i] = u[i]
        /\ \A i \in DOMAIN Log : i \in Nat
    BY InLog
  <1> HIDE DEF n, u, m
  <1>4. n + 1 \in DOMAIN Log /\ Log[n + 1].id = m.id /\ Log[n + 1].kind \in StreamKinds
    <2>1. 1 \in 1..Len(u)
      BY <1>2
    <2> QED
      BY <1>2, <1>3, <2>1
  <1>5. \A i \in DOMAIN handled : handled[i].kind \in StreamKinds /\ handled[i].id[1] = m.id[1] =>
          i \in DOMAIN Log /\ Log[i] = handled[i] /\ Apart(Log, i, n + 1)
    <2> TAKE i \in DOMAIN handled
    <2> HAVE handled[i].kind \in StreamKinds /\ handled[i].id[1] = m.id[1]
    <2>1. i \in DOMAIN Log /\ Log[i] = handled[i] /\ i < n + 1
      BY <1>3
    <2> QED
      BY <1>4, <2>1 DEF Written, Ordered
  <1>6. ~Over(m.id)
    <2>1. ASSUME Over(m.id)
          PROVE  FALSE
      <3>1. PICK i \in DOMAIN handled : Ends(handled[i], m.id)
        BY <2>1, OverHas
      <3>2. Apart(Log, i, n + 1) /\ Log[i] = handled[i]
        BY <1>5, <3>1 DEF Ends, EndKinds, StreamKinds
      <3> QED
        BY <1>4, <3>1, <3>2 DEF Apart, Ends, EndKinds
    <2> QED
      BY <2>1
  <1>7. ASSUME NEW i \in DOMAIN handled, handled[i].kind \in StreamKinds,
               handled[i].id[1] = m.id[1], handled[i].id # m.id
        PROVE  Over(handled[i].id)
    <2>1. PICK k \in DOMAIN Log : k < n + 1 /\ i <= k /\ Ends(Log[k], handled[i].id)
      BY <1>4, <1>5, <1>7 DEF Apart
    <2>2. k \in 1..n
      BY <1>3, <2>1
    <2> QED
      BY <1>3, <2>1, <2>2, EndedIsOver
  <1> QED
    BY <1>6, <1>7 DEF m

\* Its chunks are new, in their order, and the next ones of the stream.
LEMMA NextChunks ==
  ASSUME Inv, Written(Log, turns), current # <<>>, current[1].kind = "delta"
  PROVE  LET m == current[1] IN
         /\ \A j \in DOMAIN m.text : \A c \in 1..m.text[j] - 1 :
              c \in ChunksOf(m.id) \/ \E l \in 1..j - 1 : m.text[l] = c
         /\ \A i, j \in DOMAIN m.text : m.text[i] = m.text[j] => i = j
         /\ \A i \in DOMAIN m.text : m.text[i] \notin ChunksOf(m.id)
  <1> DEFINE m == current[1]
             n == Len(handled)
             u == Units(m)
  <1>1. m \in Plain /\ m.text \in Seq(Chunk)
    BY CurrentFacts DEF Inv, Plain, StreamKinds
  <1>2. /\ Len(m.text) \in Nat /\ DOMAIN m.text = 1..Len(m.text) /\ Len(u) = Len(m.text)
        /\ \A i \in 1..Len(m.text) : u[i].id = m.id /\ u[i].kind = "delta" /\ u[i].part = m.text[i]
        /\ \A i \in 1..Len(m.text) : m.text[i] \in Nat
    <2>1. m.kind = "delta"
      OBVIOUS
    <2> HIDE DEF m
    <2>2. Len(m.text) \in Nat /\ DOMAIN m.text = 1..Len(m.text) /\ \A i \in 1..Len(m.text) : m.text[i] \in Chunk
      BY <1>1, LenProperties, ElementOfSeq
    <2> QED
      BY <1>1, <2>1, <2>2, MessageUnits DEF Chunk
  <1>3. /\ n \in Nat /\ DOMAIN handled = 1..n
        /\ \A i \in 1..n : i \in DOMAIN Log /\ Log[i] = handled[i]
        /\ \A i \in 1..Len(u) : n + i \in DOMAIN Log /\ Log[n + i] = u[i]
        /\ \A i \in DOMAIN Log : i \in Nat
    BY InLog
  <1> DEFINE l == Len(m.text)
             text == m.text
  <1> HIDE DEF n, u, m
  <1>4. \A i \in 1..l : n + i \in DOMAIN Log /\ IsChunk(Log[n + i], m.id, text[i])
    BY <1>2, <1>3 DEF IsChunk
  <1>5. l \in Nat /\ DOMAIN text = 1..l /\ \A i \in 1..l : text[i] \in Nat
    BY <1>2
  <1> HIDE DEF l, text
  <1>6. ASSUME NEW i \in DOMAIN Log, NEW j \in DOMAIN Log, NEW x, NEW y, i < j,
               IsChunk(Log[i], m.id, x), IsChunk(Log[j], m.id, y)
        PROVE  x < y
    <2>1. Apart(Log, i, j)
      BY <1>6 DEF Written, Ordered, IsChunk, StreamKinds
    <2> QED
      BY <1>6, <2>1 DEF Apart, IsChunk
  <1>7. ASSUME NEW i \in 1..l, NEW j \in 1..l, i < j
        PROVE  text[i] < text[j]
    <2>1. n + i < n + j
      BY <1>3, <1>5, <1>7
    <2> QED
      BY <1>4, <1>6, <2>1
  <1>8. ASSUME NEW i \in 1..l, text[i] \in ChunksOf(m.id)
        PROVE  FALSE
    <2>1. PICK k \in DOMAIN handled : IsChunk(handled[k], m.id, text[i])
      BY <1>8, InChunks
    <2>2. k \in DOMAIN Log /\ Log[k] = handled[k] /\ k < n + i
      BY <1>3, <1>5
    <2>3. text[i] < text[i]
      BY <1>4, <1>6, <2>1, <2>2
    <2> QED
      BY <1>5, <2>3
  <1>9. ASSUME NEW j \in 1..l, NEW c \in 1..text[j] - 1
        PROVE  c \in ChunksOf(m.id) \/ \E i \in 1..j - 1 : text[i] = c
    <2>1. n + j \in DOMAIN Log /\ Log[n + j].kind = "delta" /\ Log[n + j].id = m.id /\ Log[n + j].part = text[j]
      BY <1>4 DEF IsChunk
    <2>2. PICK k \in DOMAIN Log : k < n + j /\ IsChunk(Log[k], m.id, c)
      BY <2>1 DEF Written, Complete
    <2>3. k \in Nat /\ k # 0
      <3>1. Log \in Seq(Unit)
        BY LogType DEF Inv
      <3>2. DOMAIN Log = 1..Len(Log)
        BY <3>1, LogFacts
      <3> QED
        BY <2>2, <3>2
    <2>4. CASE k <= n
      <3>1. k \in 1..n
        BY <1>3, <2>3, <2>4
      <3> QED
        BY <1>3, <2>2, <3>1, InChunks
    <2>5. CASE ~(k <= n)
      <3>1. k - n \in 1..j - 1 /\ k - n \in 1..l /\ n + (k - n) = k
        BY <1>3, <1>5, <2>2, <2>3, <2>5
      <3>2. IsChunk(Log[k], m.id, text[k - n])
        BY <1>4, <3>1
      <3> QED
        BY <2>2, <3>1, <3>2 DEF IsChunk
    <2> QED
      BY <2>4, <2>5
  <1>10. \A i, j \in 1..l : text[i] = text[j] => i = j
    <2> SUFFICES ASSUME NEW i \in 1..l, NEW j \in 1..l, text[i] = text[j], i # j
                 PROVE  FALSE
      OBVIOUS
    <2>1. i < j \/ j < i
      BY <1>5
    <2> QED
      BY <1>5, <1>7, <2>1
  <1> QED
    BY <1>5, <1>8, <1>9, <1>10 DEF m, text

-----------------------------------------------------------------------------
(* What is to be read in the chats. *)

\* The chunks that were handled and can be seen.
Said(id) == ChunksOf(id) \ Blank

\* Where the buffer of a stream is, if it has one.
KeyOf(id) == IF style[ChatOf(id)] = "telegram" THEN ChatOf(id) ELSE id
Buf(id) == buffer[KeyOf(id)]

Sent(kinds, id) == current # <<>> /\ current[1].id = id /\ current[1].kind \in kinds
Touched(id) ==
  \/ \E i \in DOMAIN handled : handled[i].kind \in StreamKinds /\ handled[i].id = id
  \/ Sent(StreamKinds, id)

Troubled(id) == \E o \in Outcomes : <<id, o>> \in trouble

\* The channels that post early and edit; the others collect the text.
Live == {"telegram", "matrix"}

InOrder(text) ==
  \A j \in DOMAIN text : \A k \in 1..text[j] - 1 :
    k \in Blank \/ \E l \in 1..j - 1 : text[l] = k
Distinct(text) == \A i, j \in DOMAIN text : text[i] = text[j] => i = j
Fine(c, text) == InOrder(text) /\ (style[c] \notin Live => Distinct(text))

\* A buffer is one of a stream that was begun, at the stream's own key, and fit to
\* be posted.
Tidy(k) ==
  LET b == buffer[k] IN
  /\ Fine(ChatAt(k), b.text)
  /\ b.id # <<>> => Touched(b.id) /\ KeyOf(b.id) = k
  /\ style[ChatAt(k)] \notin Live => Range(b.text) \subseteq ChunksOf(b.id)

\* Until a stream ends its buffer has what is to be read of it, and a channel that
\* posts early has posted, unless a request went wrong.  Matrix takes the buffer
\* away before the last edit.
HasPosted(id) ==
  /\ style[ChatOf(id)] = "telegram" => Buf(id).post # 0 \/ <<id, "abandoned">> \in trouble
  /\ style[ChatOf(id)] = "matrix" => Buf(id).post # 0 \/ Troubled(id)
Kept(id) ==
  Said(id) # {} /\ ~Over(id) =>
    \/ Buf(id).id = id /\ Said(id) \subseteq Range(Buf(id).text) /\ HasPosted(id)
    \/ style[ChatOf(id)] = "matrix" /\ Sent(EndKinds, id) /\ Troubled(id)

\* A post of a stream is its only one, and the one its buffer knows of until it
\* ends, unless a request was not answered.
PostOf(id, i) == i \in DOMAIN screen[ChatOf(id)] /\ screen[ChatOf(id)][i].id = id
Alone(id, i) == \A j \in DOMAIN screen[ChatOf(id)] : PostOf(id, j) => j = i
Known(id, i) ==
  \/ Buf(id).id = id /\ Buf(id).post = i
  \/ Over(id)
  \/ style[ChatOf(id)] = "matrix" /\ Sent(EndKinds, id)
Once(id) ==
  \A i \in DOMAIN screen[ChatOf(id)] : PostOf(id, i) =>
    <<id, "unanswered">> \in trouble \/ (Alone(id, i) /\ Known(id, i))

\* EndedIsShown, of one stream.
ReadAsWhole(id) ==
  \E i \in StreamPosts(ChatOf(id)) :
    LET post == screen[ChatOf(id)][i] IN
    post.id = id /\ ChunksOf(id) \ Blank \subseteq Range(post.text)
Concluded(id) ==
  \/ ~(Handled("end", id) \/ Handled("resuming", id))
  \/ ChunksOf(id) \subseteq Blank
  \/ <<id, "abandoned">> \in trouble
  \/ style[ChatOf(id)] = "mattermost" /\ Handled("resuming", id)
  \/ style[ChatOf(id)] = "matrix" /\ \E o \in Outcomes : <<id, o>> \in trouble
  \/ ReadAsWhole(id)

Right(id) == Kept(id) /\ Once(id) /\ Concluded(id)

\* Every post is in the chat of its session, and fit to be read.
Placed(c, i) ==
  /\ ChatOf(screen[c][i].id) = c
  /\ screen[c][i].id[3] # 0 => Fine(c, screen[c][i].text)

Displayed ==
  /\ \A k \in Key : Tidy(k)
  /\ \A c \in Chat : \A i \in DOMAIN screen[c] : Placed(c, i)
  /\ \A id \in Stream : Over(id) => id[3] # 0
  /\ \A id \in Streams : Right(id)

\* Telegram's buffer is found by chat: the theorem is about chats that are one
\* session's, which leaves out the topics of a Telegram group.
Private == "telegram" \in Style => \A s, t \in Session : Home[s] = Home[t] => s = t

\* Of displayed chats, what the runs check.
LEMMA DisplayedImplies ==
  ASSUME Inv, Displayed
  PROVE  EndedIsShown /\ PostsInOrder /\ PostedOnce /\ CollectedOnce
  <1>1. EndedIsShown
    <2>1. ASSUME NEW id \in Stream
          PROVE  Concluded(id)
      <3>1. CASE id[3] # 0
        BY <3>1 DEF Displayed, Streams, Right
      <3>2. CASE id[3] = 0
        BY <3>2 DEF Displayed, Over, Concluded
      <3> QED
        BY <3>1, <3>2
    <2> QED
      BY <2>1 DEF EndedIsShown, Concluded, ReadAsWhole
  <1>2. \A c \in Chat : \A i \in StreamPosts(c) :
          /\ i \in DOMAIN screen[c] /\ ChatOf(screen[c][i].id) = c /\ Fine(c, screen[c][i].text)
          /\ screen[c][i] \in Post /\ screen[c][i].id \in Streams
    <2> TAKE c \in Chat
    <2> TAKE i \in StreamPosts(c)
    <2>1. i \in DOMAIN screen[c] /\ screen[c][i].id[3] # 0
      BY DEF StreamPosts
    <2>2. Placed(c, i)
      BY <2>1 DEF Displayed
    <2>3. screen[c][i] \in Post
      <3>1. screen[c] \in Seq(Post)
        BY DEF Inv, Buffered, Screens
      <3> QED
        BY <2>1, <3>1, LenProperties, ElementOfSeq
    <2> QED
      BY <2>1, <2>2, <2>3 DEF Placed, Streams, Post
  <1>3. PostsInOrder
    BY <1>2 DEF PostsInOrder, Fine, InOrder
  <1>4. PostedOnce
    <2> SUFFICES ASSUME NEW c \in Chat, NEW i \in StreamPosts(c), NEW j \in StreamPosts(c),
                        i # j, screen[c][i].id = screen[c][j].id
                 PROVE  <<screen[c][i].id, "unanswered">> \in trouble
      BY DEF PostedOnce
    <2> DEFINE id == screen[c][i].id
    <2>1. id \in Streams /\ ChatOf(id) = c /\ PostOf(id, i) /\ PostOf(id, j)
          /\ i \in DOMAIN screen[c] /\ j \in DOMAIN screen[c]
      BY <1>2 DEF PostOf
    <2>2. Once(id)
      BY <2>1 DEF Displayed, Right
    <2> HIDE DEF id
    <2>3. <<id, "unanswered">> \in trouble \/ Alone(id, i)
      BY <2>1, <2>2 DEF Once
    <2>4. ~Alone(id, i)
      BY <2>1 DEF Alone
    <2> QED
      BY <2>3, <2>4 DEF id
  <1>5. CollectedOnce
    <2> SUFFICES ASSUME NEW c \in Chat, style[c] \in {"mattermost", "weixin"}, NEW i \in StreamPosts(c)
                 PROVE  Cardinality(Range(screen[c][i].text)) = Len(screen[c][i].text)
      BY DEF CollectedOnce
    <2> DEFINE text == screen[c][i].text
    <2>1. text \in Seq(Shown) /\ Distinct(text)
      BY <1>2 DEF Post, Fine, Live
    <2> HIDE DEF text
    <2>2. Len(text) \in Nat /\ DOMAIN text = 1..Len(text)
      BY <2>1, LenProperties
    <2>3. text \in Bijection(1..Len(text), Range(text))
      <3>1. text \in [1..Len(text) -> Range(text)]
        BY <2>1, <2>2 DEF Range
      <3> QED
        BY <2>1, <2>2, <3>1 DEF Bijection, Injection, Surjection, Distinct, Range, IsInjective
    <2> DEFINE n == Len(text)
               S == 1..n
               T == Range(text)
    <2>4. Cardinality(S) = n /\ IsFiniteSet(S)
      <3>1. n \in Nat
        BY <2>2
      <3> HIDE DEF n
      <3>2. Cardinality(1..n) = (IF 1 > n THEN 0 ELSE n - 1 + 1) /\ IsFiniteSet(1..n)
        BY <3>1, FS_Interval
      <3> QED
        BY <3>1, <3>2
    <2>5. ExistsBijection(S, T)
      BY <2>3 DEF ExistsBijection
    <2> HIDE DEF S, T, n
    <2>6. Cardinality(T) = n
      BY <2>4, <2>5, FS_Bijection
    <2> QED
      BY <2>6 DEF text, T, n
  <1> QED
    BY <1>1, <1>3, <1>4, <1>5

LEMMA InitDisplayed == Init => Displayed
  <1> SUFFICES ASSUME Init
               PROVE  Displayed
    OBVIOUS
  <1>1. handled = <<>> /\ DOMAIN handled = {}
    BY DEF Init
  <1>2. \A id : ChunksOf(id) = {} /\ ~Over(id) /\ Said(id) = {}
    BY <1>1 DEF ChunksOf, Over, Handled, Said
  <1>3. \A k \in Key : Tidy(k)
    <2> TAKE k \in Key
    <2>1. buffer[k] = NoBuffer
      BY DEF Init, Key
    <2>2. buffer[k].id = <<>> /\ buffer[k].text = <<>>
      BY <2>1 DEF NoBuffer
    <2>3. DOMAIN <<>> = {} /\ Range(<<>>) = {}
      BY DEF Range
    <2> QED
      BY <2>2, <2>3 DEF Tidy, Fine, InOrder, Distinct
  <1>4. \A c \in Chat : screen[c] = <<>> /\ DOMAIN screen[c] = {}
    BY DEF Init
  <1>5. \A id \in Streams : Right(id)
    <2> TAKE id \in Streams
    <2>1. ChatOf(id) \in Chat
      BY ChatAtType DEF Streams
    <2> QED
      BY <1>2, <1>4, <2>1 DEF Right, Kept, Once, Concluded, Over
  <1> QED
    BY <1>2, <1>3, <1>4, <1>5 DEF Displayed

-----------------------------------------------------------------------------
(* What a step does to the history, and to one chat. *)

\* Nothing of stream id was handled.
Unsaid(id) ==
  /\ ChunksOf(id)' = ChunksOf(id) /\ Said(id)' = Said(id)
  /\ Over(id)' <=> Over(id)
  /\ \A kind : Handled(kind, id)' <=> Handled(kind, id)

\* Post i of chat c is now one of stream id with this text; all else is as it was.
Shows(c, id, text, i) ==
  /\ i \in DOMAIN screen[c] => screen[c][i].id = id
  /\ DOMAIN screen'[c] = DOMAIN screen[c] \union {i}
  /\ screen'[c][i].id = id /\ screen'[c][i].text = text
  /\ \A j \in DOMAIN screen[c] \ {i} : screen'[c][j] = screen[c][j]
  /\ \A d \in Chat \ {c} : screen'[d] = screen[d]

LEMMA HandledMore ==
  ASSUME Inv, NEW u \in Seq(Unit), handled' = handled \o u
  PROVE  /\ \A i \in DOMAIN handled : i \in DOMAIN handled' /\ handled'[i] = handled[i]
         /\ \A i \in 1..Len(u) : \E j \in DOMAIN handled' : handled'[j] = u[i]
         /\ \A i \in DOMAIN handled' : \/ i \in DOMAIN handled /\ handled'[i] = handled[i]
                                       \/ \E j \in 1..Len(u) : handled'[i] = u[j]
  <1> DEFINE n == Len(handled)
             l == Len(u)
  <1>1. /\ n \in Nat /\ l \in Nat /\ DOMAIN handled = 1..n /\ DOMAIN handled' = 1..n + l
        /\ \A i \in 1..n : handled'[i] = handled[i]
        /\ \A i \in 1..l : handled'[n + i] = u[i]
    BY HandledGrows DEF Inv, Waiting
  <1> HIDE DEF n, l
  <1>2. \A i \in DOMAIN handled : i \in DOMAIN handled' /\ handled'[i] = handled[i]
    BY <1>1
  <1>3. \A i \in 1..l : \E j \in DOMAIN handled' : handled'[j] = u[i]
    <2> TAKE i \in 1..l
    <2>1. n + i \in 1..n + l
      BY <1>1
    <2> QED
      BY <1>1, <2>1
  <1>4. ASSUME NEW i \in DOMAIN handled', i \notin DOMAIN handled
        PROVE  \E j \in 1..l : handled'[i] = u[j]
    <2>1. i - n \in 1..l /\ n + (i - n) = i
      BY <1>1, <1>4
    <2> QED
      BY <1>1, <2>1
  <1> QED
    BY <1>2, <1>3, <1>4 DEF l

LEMMA SameHistory ==
  ASSUME UNCHANGED handled, NEW id
  PROVE  Unsaid(id)
  BY DEF Unsaid, Said, Over, Handled, ChunksOf

LEMMA OtherHistory ==
  ASSUME Inv, NEW m \in Plain, UNCHANGED handled \/ handled' = handled \o Units(m), NEW id, id # m.id
  PROVE  Unsaid(id)
  <1>1. CASE UNCHANGED handled
    BY <1>1, SameHistory
  <1>2. CASE handled' = handled \o Units(m)
    <2> DEFINE u == Units(m)
    <2>1. u \in Seq(Unit) /\ \A i \in 1..Len(u) : u[i].id = m.id
      BY MessageUnits
    <2>2. handled' = handled \o u
      BY <1>2
    <2> HIDE DEF u
    <2>3. /\ \A i \in DOMAIN handled : i \in DOMAIN handled' /\ handled'[i] = handled[i]
          /\ \A i \in DOMAIN handled' : handled'[i].id = id => i \in DOMAIN handled /\ handled'[i] = handled[i]
      BY <2>1, <2>2, HandledMore
    <2>4. ChunksOf(id)' = ChunksOf(id)
      BY <2>3 DEF ChunksOf
    <2>5. \A kind : Handled(kind, id)' <=> Handled(kind, id)
      BY <2>3 DEF Handled
    <2> QED
      BY <2>4, <2>5 DEF Unsaid, Said, Over
  <1> QED
    BY <1>1, <1>2

\* What was handled stays so.
LEMMA HistoryGrows ==
  ASSUME Inv, NEW m \in Plain, UNCHANGED handled \/ handled' = handled \o Units(m), NEW id
  PROVE  /\ ChunksOf(id) \subseteq ChunksOf(id)' /\ (Over(id) => Over(id)')
         /\ (\E i \in DOMAIN handled : handled[i].kind \in StreamKinds /\ handled[i].id = id)
              => \E i \in DOMAIN handled' : handled'[i].kind \in StreamKinds /\ handled'[i].id = id
  <1>1. \A i \in DOMAIN handled : i \in DOMAIN handled' /\ handled'[i] = handled[i]
    <2>1. Units(m) \in Seq(Unit)
      BY MessageUnits
    <2> QED
      BY <2>1, HandledMore
  <1> QED
    BY <1>1 DEF ChunksOf, Over, Handled

LEMMA DeltaHistory ==
  ASSUME Inv, NEW m \in Plain, m.kind = "delta", handled' = handled \o Units(m)
  PROVE  /\ ChunksOf(m.id)' = ChunksOf(m.id) \union Range(m.text)
         /\ Over(m.id)' <=> Over(m.id)
         /\ \E i \in DOMAIN handled' : handled'[i].kind \in StreamKinds /\ handled'[i].id = m.id
  <1> DEFINE u == Units(m)
             l == Len(m.text)
  <1>1. /\ u \in Seq(Unit) /\ \A i \in 1..Len(u) : u[i].id = m.id
        /\ Len(u) = l /\ l # 0 /\ \A i \in 1..l : u[i].kind = "delta" /\ u[i].part = m.text[i]
    BY MessageUnits
  <1>2. handled' = handled \o u
    OBVIOUS
  <1>3. l \in Nat /\ DOMAIN m.text = 1..l
    <2>1. m.text \in Seq(Chunk)
      BY DEF Plain, StreamKinds
    <2> QED
      BY <2>1, LenProperties
  <1> HIDE DEF u
  <1>4. /\ \A i \in DOMAIN handled : i \in DOMAIN handled' /\ handled'[i] = handled[i]
        /\ \A i \in 1..Len(u) : \E j \in DOMAIN handled' : handled'[j] = u[i]
        /\ \A i \in DOMAIN handled' : \/ i \in DOMAIN handled /\ handled'[i] = handled[i]
                                      \/ \E j \in 1..Len(u) : handled'[i] = u[j]
    BY <1>1, <1>2, HandledMore
  <1> HIDE DEF l
  <1>5. \A i \in 1..l : \E j \in DOMAIN handled' :
          handled'[j].id = m.id /\ handled'[j].kind = "delta" /\ handled'[j].part = m.text[i]
    <2> TAKE i \in 1..l
    <2>1. PICK j \in DOMAIN handled' : handled'[j] = u[i]
      BY <1>1, <1>4
    <2>2. u[i].id = m.id /\ u[i].kind = "delta" /\ u[i].part = m.text[i]
      BY <1>1
    <2> QED
      BY <2>1, <2>2
  <1>6. \A i \in DOMAIN handled' :
          \/ i \in DOMAIN handled /\ handled'[i] = handled[i]
          \/ \E j \in 1..l : handled'[i].kind = "delta" /\ handled'[i].part = m.text[j]
    <2> TAKE i \in DOMAIN handled'
    <2>1. CASE i \in DOMAIN handled /\ handled'[i] = handled[i]
      BY <2>1
    <2>2. CASE \E j \in 1..Len(u) : handled'[i] = u[j]
      <3>1. PICK j \in 1..l : handled'[i] = u[j]
        BY <1>1, <2>2
      <3>2. u[j].kind = "delta" /\ u[j].part = m.text[j]
        BY <1>1
      <3> QED
        BY <3>1, <3>2
    <2> QED
      BY <1>4, <2>1, <2>2
  <1>7. ChunksOf(m.id)' = ChunksOf(m.id) \union Range(m.text)
    <2>1. ASSUME NEW x \in ChunksOf(m.id)'
          PROVE  x \in ChunksOf(m.id) \union Range(m.text)
      <3>1. PICK i \in DOMAIN handled' : handled'[i].kind = "delta" /\ handled'[i].id = m.id /\ handled'[i].part = x
        BY <2>1 DEF ChunksOf
      <3>2. CASE i \in DOMAIN handled /\ handled'[i] = handled[i]
        BY <3>1, <3>2 DEF ChunksOf
      <3>3. CASE \E j \in 1..l : handled'[i].kind = "delta" /\ handled'[i].part = m.text[j]
        BY <1>3, <3>1, <3>3 DEF Range
      <3> QED
        BY <1>6, <3>2, <3>3
    <2>2. ASSUME NEW x \in ChunksOf(m.id)
          PROVE  x \in ChunksOf(m.id)'
      <3>1. PICK i \in DOMAIN handled : IsChunk(handled[i], m.id, x)
        BY InChunks
      <3>2. i \in DOMAIN handled' /\ handled'[i] = handled[i]
        BY <1>4
      <3> QED
        BY <3>1, <3>2 DEF ChunksOf, IsChunk
    <2>3. ASSUME NEW x \in Range(m.text)
          PROVE  x \in ChunksOf(m.id)'
      <3>1. PICK i \in 1..l : m.text[i] = x
        BY <1>3 DEF Range
      <3>2. PICK j \in DOMAIN handled' :
              handled'[j].id = m.id /\ handled'[j].kind = "delta" /\ handled'[j].part = x
        BY <1>5, <3>1
      <3> QED
        BY <3>2 DEF ChunksOf
    <2> QED
      BY <2>1, <2>2, <2>3
  <1>8. Over(m.id)' <=> Over(m.id)
    BY <1>4, <1>6 DEF Over, Handled
  <1>9. \E i \in DOMAIN handled' : handled'[i].kind \in StreamKinds /\ handled'[i].id = m.id
    <2>1. 1 \in 1..l
      BY <1>1, <1>3
    <2> QED
      BY <1>5, <2>1 DEF StreamKinds
  <1> QED
    BY <1>7, <1>8, <1>9

LEMMA EndHistory ==
  ASSUME Inv, NEW m \in Plain, m.kind \in EndKinds, handled' = handled \o Units(m)
  PROVE  /\ ChunksOf(m.id)' = ChunksOf(m.id) /\ Said(m.id)' = Said(m.id)
         /\ Handled(m.kind, m.id)' /\ Over(m.id)'
  <1> DEFINE u == Units(m)
  <1>1. u \in Seq(Unit) /\ Len(u) = 1 /\ u[1].kind = m.kind /\ \A i \in 1..Len(u) : u[i].id = m.id
    BY MessageUnits
  <1>2. handled' = handled \o u
    OBVIOUS
  <1> HIDE DEF u
  <1>3. u[1].id = m.id /\ 1 \in 1..Len(u)
    BY <1>1
  <1>4. /\ \A i \in DOMAIN handled : i \in DOMAIN handled' /\ handled'[i] = handled[i]
        /\ \E j \in DOMAIN handled' : handled'[j].kind = m.kind /\ handled'[j].id = m.id
        /\ \A i \in DOMAIN handled' : \/ i \in DOMAIN handled /\ handled'[i] = handled[i]
                                      \/ handled'[i].kind = m.kind
    <2>1. /\ \A i \in DOMAIN handled : i \in DOMAIN handled' /\ handled'[i] = handled[i]
          /\ \A i \in 1..Len(u) : \E j \in DOMAIN handled' : handled'[j] = u[i]
          /\ \A i \in DOMAIN handled' : \/ i \in DOMAIN handled /\ handled'[i] = handled[i]
                                        \/ \E j \in 1..Len(u) : handled'[i] = u[j]
      BY <1>1, <1>2, HandledMore
    <2>2. \A j \in 1..Len(u) : u[j].kind = m.kind
      BY <1>1
    <2>3. PICK j \in DOMAIN handled' : handled'[j] = u[1]
      BY <1>3, <2>1
    <2>4. handled'[j].kind = m.kind /\ handled'[j].id = m.id
      BY <1>1, <1>3, <2>3
    <2> QED
      BY <2>1, <2>2, <2>4
  <1>5. m.kind # "delta"
    BY DEF EndKinds
  <1>6. ChunksOf(m.id)' = ChunksOf(m.id)
    BY <1>4, <1>5 DEF ChunksOf
  <1>7. Handled(m.kind, m.id)' /\ Over(m.id)'
    BY <1>4 DEF Handled, Over, EndKinds
  <1> QED
    BY <1>6, <1>7 DEF Said

\* A stream that was begun stays so.
LEMMA TouchedStays ==
  ASSUME Inv, current # <<>>, Done \/ Again, NEW id, Touched(id)
  PROVE  Touched(id)'
  <1>1. PICK m \in Plain : m = current[1]
    BY CurrentFacts DEF Inv
  <1>2. UNCHANGED handled \/ handled' = handled \o Units(m)
    BY <1>1 DEF Done, Again
  <1>3. CASE \E i \in DOMAIN handled : handled[i].kind \in StreamKinds /\ handled[i].id = id
    <2>1. \E i \in DOMAIN handled' : handled'[i].kind \in StreamKinds /\ handled'[i].id = id
      BY <1>1, <1>2, <1>3, HistoryGrows
    <2> QED
      BY <2>1 DEF Touched
  <1>4. CASE Sent(StreamKinds, id)
    <2>1. m.id = id /\ m.kind \in StreamKinds
      BY <1>1, <1>4 DEF Sent
    <2>2. CASE Again
      BY <1>4, <2>2 DEF Again, Touched, Sent
    <2>3. CASE Done
      <3>1. handled' = handled \o Units(m)
        BY <1>1, <2>3 DEF Done
      <3>2. CASE m.kind = "delta"
        BY <1>1, <2>1, <3>1, <3>2, DeltaHistory DEF Touched
      <3>3. CASE m.kind \in EndKinds
        <4>1. Handled(m.kind, m.id)'
          BY <1>1, <3>1, <3>3, EndHistory
        <4> QED
          BY <2>1, <4>1 DEF Handled, Touched
      <3> QED
        BY <2>1, <3>2, <3>3 DEF StreamKinds, EndKinds
    <2> QED
      BY <2>2, <2>3
  <1> QED
    BY <1>3, <1>4 DEF Touched

LEMMA PostsShow ==
  ASSUME Inv, NEW c \in Chat, NEW id \in Stream, NEW text \in Seq(Shown), NEW o, o # "failed",
         Posts(c, id, text, o)
  PROVE  LET n == Len(screen[c]) + 1 IN
         Shows(c, id, text, n) /\ n \notin DOMAIN screen[c] /\ n \in Nat /\ n # 0
  <1> DEFINE p == [id |-> id, text |-> text]
             l == Len(screen[c])
             n == l + 1
             s == screen[c]
  <1>1. screen' = [screen EXCEPT ![c] = Append(@, p)] /\ p \in Post /\ p.id = id /\ p.text = text
    BY DEF Posts, Post
  <1> HIDE DEF p
  <1>2. s \in Seq(Post) /\ l \in Nat /\ DOMAIN s = 1..l
    <2>1. s \in Seq(Post)
      BY DEF Inv, Buffered, Screens
    <2> QED
      BY <2>1, LenProperties
  <1>3. screen'[c] = Append(s, p) /\ \A d \in Chat \ {c} : screen'[d] = screen[d]
    BY <1>1 DEF Inv, Buffered, Screens
  <1> HIDE DEF s
  <1>4. /\ Append(s, p) \in Seq(Post) /\ Len(Append(s, p)) = Len(s) + 1 /\ Append(s, p)[Len(s) + 1] = p
        /\ \A i \in 1..Len(s) : Append(s, p)[i] = s[i]
    BY <1>1, <1>2, AppendProperties
  <1>5. DOMAIN Append(s, p) = 1..Len(s) + 1
    BY <1>4, LenProperties
  <1>6. Len(s) = l
    BY DEF s
  <1> HIDE DEF l
  <1>7. n \notin DOMAIN s /\ n \in Nat /\ n # 0 /\ DOMAIN Append(s, p) = DOMAIN s \union {n}
    BY <1>2, <1>5, <1>6
  <1>8. screen'[c][n] = p /\ \A i \in DOMAIN s : screen'[c][i] = s[i]
    BY <1>2, <1>3, <1>4, <1>6
  <1> HIDE DEF n
  <1> QED
    BY <1>1, <1>3, <1>7, <1>8 DEF Shows, s, n, l

LEMMA EditsShow ==
  ASSUME Inv, NEW c \in Chat, NEW i \in DOMAIN screen[c], NEW text, NEW o, o # "failed",
         Edits(c, i, text, o)
  PROVE  Shows(c, screen[c][i].id, text, i)
  <1> DEFINE s == screen[c]
             p == [s[i] EXCEPT !.text = text]
  <1>1. screen' = [screen EXCEPT ![c] = [s EXCEPT ![i] = p]]
    BY DEF Edits
  <1>2. s \in Seq(Post) /\ s[i] \in Post
    <2>1. s \in Seq(Post)
      BY DEF Inv, Buffered, Screens
    <2> HIDE DEF s
    <2>2. i \in DOMAIN s
      BY DEF s
    <2> QED
      BY <2>1, <2>2, LenProperties, ElementOfSeq
  <1>3. p.id = s[i].id /\ p.text = text
    BY <1>2 DEF Post
  <1> HIDE DEF p
  <1>4. screen'[c] = [s EXCEPT ![i] = p] /\ \A d \in Chat \ {c} : screen'[d] = screen[d]
    BY <1>1 DEF Inv, Buffered, Screens
  <1>5. i \in DOMAIN s
    OBVIOUS
  <1>6. DOMAIN screen'[c] = DOMAIN s /\ screen'[c][i] = p /\ \A j \in DOMAIN s \ {i} : screen'[c][j] = s[j]
    <2> HIDE DEF s
    <2> QED
      BY <1>4, <1>5
  <1> QED
    BY <1>3, <1>4, <1>5, <1>6 DEF Shows

LEMMA KeyFacts ==
  ASSUME NEW id \in Stream
  PROVE  /\ KeyOf(id) \in Key /\ ChatAt(KeyOf(id)) = ChatOf(id) /\ ChatOf(id) \in Chat
         /\ \A id2 \in Stream : id # id2 /\ KeyOf(id) = KeyOf(id2) =>
              style[ChatOf(id)] = "telegram" /\ ChatOf(id) = ChatOf(id2)
  <1>1. \A z \in Stream : ChatOf(z) \in Chat /\ ChatAt(z) = ChatOf(z) /\ z \notin Chat
    BY ChatAtType
  <1>2. KeyOf(id) \in Key /\ ChatAt(KeyOf(id)) = ChatOf(id)
    BY <1>1 DEF KeyOf, Key, ChatAt
  <1>3. \A id2 \in Stream : id # id2 /\ KeyOf(id) = KeyOf(id2) =>
          style[ChatOf(id)] = "telegram" /\ ChatOf(id) = ChatOf(id2)
    BY <1>1 DEF KeyOf
  <1> QED
    BY <1>1, <1>2, <1>3

\* A stream that shares its buffer with the one being sent has ended, if it was begun.
LEMMA SharedIsOver ==
  ASSUME Inv, Written(Log, turns), Private, NEW m \in Plain, current = <<m>>, m.kind \in StreamKinds,
         NEW id \in Stream, id # m.id, KeyOf(id) = KeyOf(m.id),
         NEW i \in DOMAIN handled, handled[i].kind \in StreamKinds, handled[i].id = id
  PROVE  Over(id)
  <1>1. m.id \in Stream /\ current # <<>> /\ current[1] = m
    BY MessageFields DEF Plain
  <1>2. style[ChatOf(id)] = "telegram" /\ ChatOf(id) = ChatOf(m.id) /\ ChatOf(id) \in Chat
    BY <1>1, KeyFacts
  <1>3. "telegram" \in Style
    BY <1>2 DEF Inv, Counters
  <1>4. id[1] = m.id[1]
    <2>1. id[1] \in Session /\ m.id[1] \in Session
      BY <1>1 DEF Stream
    <2> QED
      BY <1>2, <1>3, <2>1 DEF Private, ChatOf
  <1> QED
    BY <1>1, <1>4, NextUp

\* The posts of the other streams are untouched.
LEMMA SamePosts ==
  ASSUME NEW id2 \in Stream, NEW id \in Stream, id # id2,
         UNCHANGED screen \/ \E i, text : Shows(ChatOf(id2), id2, text, i)
  PROVE  \A i : /\ PostOf(id, i)' <=> PostOf(id, i)
                /\ PostOf(id, i) => screen'[ChatOf(id)][i] = screen[ChatOf(id)][i]
  <1> TAKE i
  <1>1. CASE UNCHANGED screen
    BY <1>1 DEF PostOf
  <1>2. CASE \E j, text : Shows(ChatOf(id2), id2, text, j)
    <2>1. PICK j, text : Shows(ChatOf(id2), id2, text, j)
      BY <1>2
    <2>2. CASE ChatOf(id) # ChatOf(id2)
      <3>1. screen'[ChatOf(id)] = screen[ChatOf(id)]
        BY <2>1, <2>2, KeyFacts DEF Shows
      <3> QED
        BY <3>1 DEF PostOf
    <2>3. CASE ChatOf(id) = ChatOf(id2)
      <3> DEFINE c == ChatOf(id2)
      <3>1. /\ j \in DOMAIN screen[c] => screen[c][j].id = id2
            /\ DOMAIN screen'[c] = DOMAIN screen[c] \union {j}
            /\ screen'[c][j].id = id2
            /\ \A k \in DOMAIN screen[c] \ {j} : screen'[c][k] = screen[c][k]
        BY <2>1 DEF Shows
      <3>2. ChatOf(id)' = ChatOf(id)
        BY DEF ChatOf
      <3> QED
        BY <2>3, <3>1, <3>2 DEF PostOf
    <2> QED
      BY <2>2, <2>3
  <1> QED
    BY <1>1, <1>2

LEMMA OtherRight ==
  ASSUME Inv, Displayed, Written(Log, turns), Private, UNCHANGED style,
         NEW m \in Plain, current = <<m>>, UNCHANGED handled \/ handled' = handled \o Units(m),
         trouble \subseteq trouble', NEW id \in Streams, id # m.id,
         \/ buffer'[KeyOf(id)] = buffer[KeyOf(id)]
         \/ m.kind \in StreamKinds /\ KeyOf(id) = KeyOf(m.id),
         UNCHANGED screen \/ \E i, text : Shows(ChatOf(m.id), m.id, text, i)
  PROVE  Right(id)'
  <1>1. id \in Stream /\ m.id \in Stream
    BY MessageFields DEF Streams, Plain
  <1>2. Kept(id) /\ Once(id) /\ Concluded(id)
    BY DEF Displayed, Right
  <1>3. ~Sent(EndKinds, id) /\ ~Sent(StreamKinds, id)
    BY DEF Sent
  <1>4. /\ ChunksOf(id)' = ChunksOf(id) /\ Said(id)' = Said(id) /\ (Over(id)' <=> Over(id))
        /\ \A kind : Handled(kind, id)' <=> Handled(kind, id)
    BY OtherHistory DEF Unsaid
  <1>5. \A i : /\ PostOf(id, i)' <=> PostOf(id, i)
               /\ PostOf(id, i) => screen'[ChatOf(id)][i] = screen[ChatOf(id)][i]
    BY <1>1, SamePosts
  <1>6. KeyOf(id)' = KeyOf(id) /\ ChatOf(id)' = ChatOf(id) /\ style'[ChatOf(id)] = style[ChatOf(id)]
    BY DEF KeyOf, ChatOf
  <1>7. Touched(id) => Over(id) \/ Buf(id)' = Buf(id)
    <2>1. CASE buffer'[KeyOf(id)] = buffer[KeyOf(id)]
      BY <1>6, <2>1 DEF Buf
    <2>2. CASE m.kind \in StreamKinds /\ KeyOf(id) = KeyOf(m.id)
      <3> SUFFICES ASSUME Touched(id)
                   PROVE  Over(id)
        OBVIOUS
      <3>1. PICK i \in DOMAIN handled : handled[i].kind \in StreamKinds /\ handled[i].id = id
        BY <1>3 DEF Touched
      <3> QED
        BY <1>1, <2>2, <3>1, SharedIsOver
    <2> QED
      BY <2>1, <2>2
  <1>8. HasPosted(id) /\ Buf(id)' = Buf(id) => HasPosted(id)'
    BY <1>6 DEF HasPosted, Troubled, Outcomes
  <1>9. Kept(id)'
    <2>1. ASSUME Said(id) # {}, ~Over(id)
          PROVE  Buf(id)' = Buf(id) /\ Buf(id).id = id /\ Said(id) \subseteq Range(Buf(id).text) /\ HasPosted(id)
      <3>1. Touched(id)
        BY <2>1 DEF Said, ChunksOf, Touched, StreamKinds
      <3> QED
        BY <1>2, <1>3, <1>7, <2>1, <3>1 DEF Kept
    <2>2. ASSUME Said(id)' # {}, ~(Over(id)')
          PROVE  Buf(id)'.id = id /\ Said(id)' \subseteq Range(Buf(id)'.text) /\ HasPosted(id)'
      BY <1>4, <1>8, <2>1, <2>2
    <2> QED
      BY <2>2 DEF Kept
  <1>10. Once(id)'
    <2>1. ASSUME NEW i, PostOf(id, i)', <<id, "unanswered">> \notin trouble
          PROVE  Alone(id, i)' /\ Known(id, i)'
      <3>1. PostOf(id, i) /\ i \in DOMAIN screen[ChatOf(id)]
        BY <1>5, <2>1 DEF PostOf
      <3>2. Alone(id, i) /\ Known(id, i)
        BY <1>2, <2>1, <3>1 DEF Once
      <3>3. Alone(id, i)'
        <4>1. \A j : PostOf(id, j)' => j = i
          BY <1>5, <3>2 DEF Alone, PostOf
        <4> QED
          BY <4>1 DEF Alone
      <3>4. Known(id, i)'
        <4>1. CASE Over(id)
          BY <1>4, <4>1 DEF Known
        <4>2. CASE ~Over(id)
          <5>1. Buf(id).id = id /\ Buf(id).post = i
            BY <1>3, <3>2, <4>2 DEF Known
          <5>2. Touched(id)
            <6>1. KeyOf(id) \in Key /\ id # <<>>
              BY <1>1, KeyFacts, ChatAtType
            <6>2. Tidy(KeyOf(id))
              BY <6>1 DEF Displayed
            <6> QED
              BY <5>1, <6>1, <6>2 DEF Tidy, Buf
          <5> QED
            BY <1>7, <4>2, <5>1, <5>2 DEF Known
        <4> QED
          BY <4>1, <4>2
      <3> QED
        BY <3>3, <3>4
    <2> QED
      BY <2>1 DEF Once
  <1>11. Concluded(id)'
    <2>1. ReadAsWhole(id) => ReadAsWhole(id)'
      <3> SUFFICES ASSUME ReadAsWhole(id)
                   PROVE  ReadAsWhole(id)'
        OBVIOUS
      <3>1. PICK i \in StreamPosts(ChatOf(id)) :
              /\ screen[ChatOf(id)][i].id = id
              /\ ChunksOf(id) \ Blank \subseteq Range(screen[ChatOf(id)][i].text)
        BY DEF ReadAsWhole
      <3>2. PostOf(id, i) /\ id[3] # 0
        BY <3>1 DEF PostOf, StreamPosts
      <3>3. PostOf(id, i)' /\ screen'[ChatOf(id)][i] = screen[ChatOf(id)][i]
        BY <1>5, <3>2
      <3>4. i \in StreamPosts(ChatOf(id))'
        BY <1>6, <3>2, <3>3 DEF PostOf, StreamPosts
      <3> QED
        BY <1>4, <1>6, <3>1, <3>3, <3>4 DEF ReadAsWhole
    <2> QED
      BY <1>2, <1>4, <1>6, <2>1 DEF Concluded, Outcomes
  <1> QED
    BY <1>9, <1>10, <1>11 DEF Right

LEMMA UnitKinds ==
  ASSUME NEW m \in Plain, NEW i \in 1..Len(Units(m))
  PROVE  Units(m)[i].kind \in {"delta", m.kind}
  <1> DEFINE texts == IF m.kind \in {"reply", "followup"} THEN m.kind ELSE "delta"
             own == IF m.kind \in {"delta", "reply", "followup"} THEN <<>>
                    ELSE <<[kind |-> m.kind, id |-> m.id, part |-> 0]>>
             shown == [j \in 1..Len(m.text) |-> [kind |-> texts, id |-> m.id, part |-> m.text[j]]]
             S == {u \in Unit : u.kind \in {"delta", m.kind}}
  <1>1. m \in Message
    BY DEF Plain
  <1>2. own \in Seq(S)
    <2>1. m.kind \in {"delta", "reply", "followup"} \/ [kind |-> m.kind, id |-> m.id, part |-> 0] \in S
      BY <1>1, MessageFields DEF Unit
    <2> HIDE DEF S
    <2> QED
      BY <2>1
  <1>3. shown \in Seq(S)
    <2>1. texts \in Kinds /\ texts \in {"delta", m.kind}
      BY DEF Kinds
    <2> HIDE DEF texts
    <2>2. \A j \in 1..Len(m.text) : [kind |-> texts, id |-> m.id, part |-> m.text[j]] \in S
      BY <1>1, <2>1, MessageFields DEF Unit
    <2>3. Len(m.text) \in Nat
      BY <1>1, MessageFields
    <2> HIDE DEF S
    <2> QED
      BY <2>2, <2>3, IsASeq
  <1>4. Units(m) = shown \o own
    BY DEF Units
  <1> HIDE DEF shown, own
  <1>5. Units(m) \in Seq(S)
    BY <1>2, <1>3, <1>4, ConcatProperties
  <1> HIDE DEF S
  <1>6. Units(m)[i] \in S
    BY <1>5, ElementOfSeq
  <1> QED
    BY <1>6 DEF S

LEMMA OverGrows ==
  ASSUME Inv, NEW m \in Plain, UNCHANGED handled \/ handled' = handled \o Units(m), NEW id, Over(id)'
  PROVE  Over(id) \/ (m.id = id /\ m.kind \in EndKinds)
  <1> DEFINE u == Units(m)
  <1>1. CASE UNCHANGED handled
    BY <1>1 DEF Over, Handled
  <1>2. CASE handled' = handled \o u
    <2>1. u \in Seq(Unit) /\ \A i \in 1..Len(u) : u[i].id = m.id /\ u[i].kind \in {"delta", m.kind}
      BY MessageUnits, UnitKinds
    <2> HIDE DEF u
    <2>2. \A i \in DOMAIN handled' : \/ i \in DOMAIN handled /\ handled'[i] = handled[i]
                                     \/ \E j \in 1..Len(u) : handled'[i] = u[j]
      BY <1>2, <2>1, HandledMore
    <2>3. PICK i \in DOMAIN handled' : handled'[i].id = id /\ handled'[i].kind \in EndKinds
      BY DEF Over, Handled, EndKinds
    <2>4. CASE i \in DOMAIN handled /\ handled'[i] = handled[i]
      BY <2>3, <2>4 DEF Over, Handled, EndKinds
    <2>5. CASE \E j \in 1..Len(u) : handled'[i] = u[j]
      BY <2>1, <2>3, <2>5 DEF EndKinds
    <2> QED
      BY <2>2, <2>4, <2>5
  <1> QED
    BY <1>1, <1>2

LEMMA TidyStays ==
  ASSUME Inv, Displayed, UNCHANGED style, NEW m \in Plain, current = <<m>>, Done \/ Again,
         NEW k \in Key, UNCHANGED (buffer[k])
  PROVE  Tidy(k)'
  <1>1. Tidy(k)
    BY DEF Displayed
  <1>2. UNCHANGED handled \/ handled' = handled \o Units(m)
    BY DEF Done, Again
  <1> DEFINE b == buffer[k]
  <1>3. PICK d : d = b
    OBVIOUS
  <1>4. buffer'[k] = d
    BY <1>3
  <1>5. d.id # <<>> => Touched(d.id)'
    <2>1. current # <<>>
      OBVIOUS
    <2>2. d.id # <<>> => Touched(d.id)
      BY <1>1, <1>3 DEF Tidy
    <2> QED
      BY <2>1, <2>2, TouchedStays
  <1>6. ChunksOf(d.id) \subseteq ChunksOf(d.id)'
    BY <1>2, HistoryGrows
  <1>7. \A c, text : Fine(c, text)' <=> Fine(c, text)
    BY DEF Fine, InOrder, Distinct
  <1>8. KeyOf(d.id)' = KeyOf(d.id) /\ ChatAt(k)' = ChatAt(k)
    BY DEF KeyOf, ChatOf, ChatAt
  <1>9. /\ Fine(ChatAt(k), d.text)'
        /\ d.id # <<>> => Touched(d.id)' /\ KeyOf(d.id)' = k
        /\ style'[ChatAt(k)] \notin Live => Range(d.text) \subseteq ChunksOf(d.id)'
    BY <1>1, <1>3, <1>5, <1>6, <1>7, <1>8 DEF Tidy
  <1> HIDE DEF b
  <1>10. buffer'[k].text = d.text /\ buffer'[k].id = d.id
    BY <1>4
  <1> QED
    BY <1>8, <1>9, <1>10 DEF Tidy, Fine

\* The chats are right after a send when its own stream is.
LEMMA SendDisplays ==
  ASSUME Inv, Displayed, Written(Log, turns), Private, UNCHANGED style,
         NEW m \in Plain, current = <<m>>, Done \/ Again, trouble \subseteq trouble',
         \A k \in Key : \/ buffer'[k] = buffer[k]
                        \/ m.kind \in StreamKinds /\ k = KeyOf(m.id) /\ Tidy(k)',
         \/ UNCHANGED screen
         \/ \E i, text : /\ Shows(ChatOf(m.id), m.id, text, i)
                         /\ m.id[3] # 0 => Fine(ChatOf(m.id), text),
         m.id \in Streams => Right(m.id)'
  PROVE  Displayed'
  <1>1. UNCHANGED handled \/ handled' = handled \o Units(m)
    BY DEF Done, Again
  <1>2. \A k \in Key : Tidy(k)'
    BY TidyStays
  <1>3. \A c \in Chat : \A i \in DOMAIN screen'[c] : Placed(c, i)'
    <2> TAKE c \in Chat
    <2>1. \A j \in DOMAIN screen[c] : Placed(c, j)
      BY DEF Displayed
    <2>2. \A x, text : Fine(x, text)' <=> Fine(x, text)
      BY DEF Fine, InOrder, Distinct
    <2> TAKE i \in DOMAIN screen'[c]
    <2>3. CASE i \in DOMAIN screen[c] /\ screen'[c][i] = screen[c][i]
      BY <2>1, <2>3 DEF Placed, ChatOf, Fine, InOrder, Distinct
    <2>4. CASE ~(i \in DOMAIN screen[c] /\ screen'[c][i] = screen[c][i])
      <3>1. ~(screen' = screen)
        BY <2>4
      <3>2. PICK j, text : /\ Shows(ChatOf(m.id), m.id, text, j)
                           /\ m.id[3] # 0 => Fine(ChatOf(m.id), text)
        BY <3>1
      <3>3. c = ChatOf(m.id)
        BY <2>4, <3>2 DEF Shows
      <3>4. i = j /\ screen'[c][i].id = m.id /\ screen'[c][i].text = text
        BY <2>4, <3>2, <3>3 DEF Shows
      <3>5. ChatOf(screen'[c][i].id) = c /\ (screen'[c][i].id[3] # 0 => Fine(c, screen'[c][i].text))
        BY <3>2, <3>3, <3>4
      <3> QED
        BY <3>5 DEF Placed, ChatOf, Fine, InOrder, Distinct
    <2> QED
      BY <2>3, <2>4
  <1>4. \A id \in Stream : Over(id)' => id[3] # 0
    <2> SUFFICES ASSUME NEW id \in Stream, Over(id)'
                 PROVE  id[3] # 0
      OBVIOUS
    <2>1. Over(id) \/ (m.id = id /\ m.kind \in EndKinds)
      BY <1>1, OverGrows
    <2>2. Over(id) => id[3] # 0
      BY DEF Displayed
    <2>3. m.kind \in EndKinds => m.id[3] # 0
      BY DEF Plain, EndKinds, StreamKinds
    <2> QED
      BY <2>1, <2>2, <2>3
  <1>5. \A id \in Streams : Right(id)'
    <2> TAKE id \in Streams
    <2>1. CASE id = m.id
      BY <2>1
    <2>2. CASE id # m.id
      <3>1. KeyOf(id) \in Key
        BY KeyFacts DEF Streams
      <3>2. \/ buffer'[KeyOf(id)] = buffer[KeyOf(id)]
            \/ m.kind \in StreamKinds /\ KeyOf(id) = KeyOf(m.id)
        BY <3>1
      <3>3. UNCHANGED screen \/ \E i, text : Shows(ChatOf(m.id), m.id, text, i)
        OBVIOUS
      <3> QED
        BY <1>1, <2>2, <3>2, <3>3, OtherRight
    <2> QED
      BY <2>1, <2>2
  <1> QED
    BY <1>2, <1>3, <1>4, <1>5 DEF Displayed, Streams, Stream, Turn, Key

-----------------------------------------------------------------------------
(* The text that a delta is added to. *)

LEMMA TextsJoin ==
  ASSUME NEW s \in Seq(Chunk), NEW t \in Seq(Chunk)
  PROVE  LET v == s \o t
             n == Len(s)
         IN  /\ v \in Seq(Chunk) /\ n \in Nat /\ Len(t) \in Nat
             /\ DOMAIN s = 1..n /\ DOMAIN t = 1..Len(t) /\ DOMAIN v = 1..n + Len(t)
             /\ \A i \in 1..n : v[i] = s[i]
             /\ \A i \in 1..Len(t) : v[n + i] = t[i]
             /\ Range(v) = Range(s) \union Range(t)
  <1> DEFINE v == s \o t
             n == Len(s)
             l == Len(t)
  <1>1. n \in Nat /\ l \in Nat /\ DOMAIN s = 1..n /\ DOMAIN t = 1..l
    BY LenProperties
  <1>2. v \in Seq(Chunk) /\ Len(v) = n + l /\ \A i \in 1..n + l : v[i] = IF i <= n THEN s[i] ELSE t[i - n]
    BY ConcatProperties
  <1> HIDE DEF v
  <1>3. DOMAIN v = 1..n + l
    BY <1>2, LenProperties
  <1> HIDE DEF n, l
  <1>4. \A i \in 1..n : v[i] = s[i]
    BY <1>1, <1>2
  <1>5. \A i \in 1..l : v[n + i] = t[i]
    <2> TAKE i \in 1..l
    <2>1. n + i \in 1..n + l /\ ~(n + i <= n) /\ (n + i) - n = i
      BY <1>1
    <2> QED
      BY <1>2, <2>1
  <1>6. \A x : x \in Range(v) => x \in Range(s) \/ x \in Range(t)
    <2> SUFFICES ASSUME NEW i \in DOMAIN v
                 PROVE  v[i] \in Range(s) \/ v[i] \in Range(t)
      BY DEF Range
    <2>1. CASE i <= n
      <3>1. i \in 1..n
        BY <1>1, <1>3, <2>1
      <3> QED
        BY <1>1, <1>4, <3>1 DEF Range
    <2>2. CASE ~(i <= n)
      <3>1. i - n \in 1..l /\ n + (i - n) = i
        BY <1>1, <1>3, <2>2
      <3> QED
        BY <1>1, <1>5, <3>1 DEF Range
    <2> QED
      BY <2>1, <2>2
  <1>7. \A x : x \in Range(s) => x \in Range(v)
    <2> SUFFICES ASSUME NEW i \in 1..n
                 PROVE  s[i] \in Range(v)
      BY <1>1 DEF Range
    <2>1. i \in 1..n + l
      BY <1>1
    <2> QED
      BY <1>3, <1>4, <2>1 DEF Range
  <1>8. \A x : x \in Range(t) => x \in Range(v)
    <2> SUFFICES ASSUME NEW i \in 1..l
                 PROVE  t[i] \in Range(v)
      BY <1>1 DEF Range
    <2>1. n + i \in 1..n + l
      BY <1>1
    <2> QED
      BY <1>3, <1>5, <2>1 DEF Range
  <1> QED
    BY <1>1, <1>2, <1>3, <1>4, <1>5, <1>6, <1>7, <1>8 DEF v, n, l

LEMMA InOrderJoin ==
  ASSUME NEW s \in Seq(Chunk), NEW t \in Seq(Chunk), NEW S, InOrder(s), S \ Blank \subseteq Range(s),
         \A j \in DOMAIN t : \A c \in 1..t[j] - 1 : c \in S \/ \E l \in 1..j - 1 : t[l] = c
  PROVE  InOrder(s \o t)
  <1> DEFINE v == s \o t
             n == Len(s)
             l == Len(t)
  <1>1. /\ n \in Nat /\ l \in Nat /\ DOMAIN s = 1..n /\ DOMAIN t = 1..l /\ DOMAIN v = 1..n + l
        /\ \A i \in 1..n : v[i] = s[i]
        /\ \A i \in 1..l : v[n + i] = t[i]
    BY TextsJoin
  <1> HIDE DEF v, n, l
  <1> SUFFICES ASSUME NEW j \in 1..n + l, NEW k \in 1..v[j] - 1, k \notin Blank
               PROVE  \E i \in 1..j - 1 : v[i] = k
    BY <1>1 DEF InOrder, v
  <1>2. CASE j <= n
    <2>1. j \in 1..n /\ k \in 1..s[j] - 1
      BY <1>1, <1>2
    <2>2. PICK i \in 1..j - 1 : s[i] = k
      BY <1>1, <2>1 DEF InOrder
    <2>3. i \in 1..n
      BY <1>1, <2>1
    <2> QED
      BY <1>1, <2>2, <2>3
  <1>3. CASE ~(j <= n)
    <2>1. j - n \in 1..l /\ n + (j - n) = j
      BY <1>1, <1>3
    <2>2. k \in 1..t[j - n] - 1
      BY <1>1, <2>1
    <2>3. CASE k \in S
      <3>1. PICK i \in 1..n : s[i] = k
        BY <1>1, <2>3 DEF Range
      <3>2. i \in 1..j - 1
        BY <1>1, <1>3
      <3> QED
        BY <1>1, <3>1, <3>2
    <2>4. CASE \E i \in 1..(j - n) - 1 : t[i] = k
      <3>1. PICK i \in 1..(j - n) - 1 : t[i] = k
        BY <2>4
      <3>2. i \in 1..l /\ n + i \in 1..j - 1
        BY <1>1, <2>1
      <3> QED
        BY <1>1, <3>1, <3>2
    <2> QED
      BY <1>1, <2>1, <2>2, <2>3, <2>4
  <1> QED
    BY <1>2, <1>3

LEMMA DistinctJoin ==
  ASSUME NEW s \in Seq(Chunk), NEW t \in Seq(Chunk), Distinct(s), Distinct(t),
         \A x \in Range(t) : x \notin Range(s)
  PROVE  Distinct(s \o t)
  <1> DEFINE v == s \o t
             n == Len(s)
             l == Len(t)
  <1>1. /\ n \in Nat /\ l \in Nat /\ DOMAIN s = 1..n /\ DOMAIN t = 1..l /\ DOMAIN v = 1..n + l
        /\ \A i \in 1..n : v[i] = s[i]
        /\ \A i \in 1..l : v[n + i] = t[i]
    BY TextsJoin
  <1> HIDE DEF v, n, l
  <1>2. \A i \in 1..n + l : \/ i \in 1..n /\ v[i] = s[i] /\ v[i] \in Range(s)
                            \/ i - n \in 1..l /\ v[i] = t[i - n] /\ v[i] \in Range(t)
    <2> TAKE i \in 1..n + l
    <2>1. CASE i <= n
      <3>1. i \in 1..n
        BY <1>1, <2>1
      <3> QED
        BY <1>1, <3>1 DEF Range
    <2>2. CASE ~(i <= n)
      <3>1. i - n \in 1..l /\ n + (i - n) = i
        BY <1>1, <2>2
      <3> QED
        BY <1>1, <3>1 DEF Range
    <2> QED
      BY <2>1, <2>2
  <1> SUFFICES ASSUME NEW i \in 1..n + l, NEW j \in 1..n + l, v[i] = v[j]
               PROVE  i = j
    BY <1>1 DEF Distinct, v
  <1>3. CASE v[i] \in Range(s)
    <2>1. i \in 1..n /\ j \in 1..n /\ s[i] = s[j]
      BY <1>2, <1>3
    <2> QED
      BY <1>1, <2>1 DEF Distinct
  <1>4. CASE v[i] \notin Range(s)
    <2>1. i - n \in 1..l /\ j - n \in 1..l /\ t[i - n] = t[j - n]
      BY <1>2, <1>4
    <2>2. i - n = j - n
      BY <1>1, <2>1 DEF Distinct
    <2> QED
      BY <1>1, <2>2
  <1> QED
    BY <1>3, <1>4

\* What a channel has of a stream, and its delta, is fit to be posted.
LEMMA AccumulatedText ==
  ASSUME Inv, Displayed, Written(Log, turns), NEW m \in Plain, current = <<m>>, m.kind = "delta",
         NEW b, b = Accumulated(KeyOf(m.id), m)
  PROVE  /\ b \in Buffers /\ b.id = m.id /\ b.text \in Seq(Chunk)
         /\ InOrder(b.text) /\ Said(m.id) \subseteq Range(b.text) /\ Range(m.text) \subseteq Range(b.text)
         /\ style[ChatOf(m.id)] \notin Live =>
              Distinct(b.text) /\ Range(b.text) \subseteq ChunksOf(m.id) \union Range(m.text)
         /\ b.post = IF Buf(m.id).id = m.id THEN Buf(m.id).post ELSE 0
         /\ Good(KeyOf(m.id), b, screen)
  <1> DEFINE k == KeyOf(m.id)
             a == buffer[k]
             s == IF a.id = m.id THEN a.text ELSE <<>>
             t == m.text
  <1>1. /\ m.id \in Stream /\ t \in Seq(Chunk) /\ current # <<>> /\ current[1] = m /\ m.id # <<>>
        /\ m.id[3] # 0
    BY MessageFields, ChatAtType DEF Plain, StreamKinds
  <1>2. k \in Key /\ ChatAt(k) = ChatOf(m.id) /\ (k \in Stream => k = m.id)
    BY <1>1, KeyFacts, ChatAtType DEF KeyOf
  <1>3. Good(k, b, screen) /\ b.id = m.id /\ b.text \in Seq(Chunk) /\ b \in Buffers
    BY <1>2, AccumulatedGood DEF Inv, Good
  <1>4. a \in Buffers /\ Tidy(k) /\ a = Buf(m.id)
    BY <1>2 DEF Inv, Buffered, Displayed, Buf
  <1> HIDE DEF k, a
  <1>5. s \in Seq(Chunk)
    BY <1>4 DEF Buffers
  <1>6. b.text = s \o t /\ b.post = IF a.id = m.id THEN a.post ELSE 0
    <2>1. CASE a.id = m.id
      <3>1. b = [a EXCEPT !.text = @ \o t]
        BY <2>1 DEF Accumulated, a, k
      <3> QED
        BY <1>4, <2>1, <3>1 DEF Buffers
    <2>2. CASE a.id # m.id
      <3>1. b = [[[id |-> <<>>, text |-> <<>>, post |-> 0] EXCEPT !.id = m.id] EXCEPT !.text = t]
        BY <2>2 DEF Accumulated, Fresh, NoBuffer, a, k
      <3> HIDE DEF t
      <3>2. b = [id |-> m.id, text |-> t, post |-> 0]
        BY <3>1
      <3>3. <<>> \o t = t
        BY <1>1, ConcatEmptySeq
      <3>4. s = <<>>
        BY <2>2
      <3> HIDE DEF s
      <3>5. b.text = t /\ b.post = 0
        BY <3>2
      <3> QED
        BY <2>2, <3>3, <3>4, <3>5
    <2> QED
      BY <2>1, <2>2
  <1>7. InOrder(s) /\ (style[ChatOf(m.id)] \notin Live => Distinct(s) /\ Range(s) \subseteq ChunksOf(m.id))
    <2>1. CASE a.id = m.id
      BY <1>2, <1>4, <2>1 DEF Tidy, Fine, a
    <2>2. CASE a.id # m.id
      BY <2>2 DEF InOrder, Distinct, Range
    <2> QED
      BY <2>1, <2>2
  <1>8. Said(m.id) \subseteq Range(s)
    <2>1. ~Over(m.id)
      BY <1>1, NextUp DEF StreamKinds
    <2>2. ~Sent(EndKinds, m.id)
      BY <1>1 DEF Sent, EndKinds
    <2>3. Kept(m.id)
      BY <1>1 DEF Displayed, Right, Streams
    <2> QED
      BY <1>4, <2>1, <2>2, <2>3 DEF Kept
  <1> HIDE DEF s
  <1>9. Range(s \o t) = Range(s) \union Range(t)
    BY <1>1, <1>5, TextsJoin
  <1>10. /\ \A j \in DOMAIN t : \A c \in 1..t[j] - 1 :
              c \in ChunksOf(m.id) \/ \E l \in 1..j - 1 : t[l] = c
         /\ Distinct(t)
         /\ \A x \in Range(t) : x \notin ChunksOf(m.id)
    BY <1>1, NextChunks DEF Distinct, Range
  <1> HIDE DEF t
  <1>11. InOrder(s \o t)
    BY <1>1, <1>5, <1>7, <1>8, <1>10, InOrderJoin DEF Said
  <1>12. style[ChatOf(m.id)] \notin Live => Distinct(s \o t)
    BY <1>1, <1>5, <1>7, <1>10, DistinctJoin
  <1> QED
    BY <1>3, <1>4, <1>6, <1>7, <1>8, <1>9, <1>11, <1>12 DEF k, t

-----------------------------------------------------------------------------
(* How a send ends, and what it makes of its own stream. *)

LEMMA AttemptedFacts ==
  ASSUME NEW id, NEW o \in Outcomes, Attempted(id, o), current # <<>>
  PROVE  /\ Done \/ Again
         /\ trouble \subseteq trouble'
         /\ o = "ok" => Done
         /\ o # "ok" => <<id, o>> \in trouble'
         /\ o # "ok" /\ Done => <<id, "abandoned">> \in trouble'
  <1>1. CASE o = "ok"
    BY <1>1 DEF Attempted
  <1>2. CASE o # "ok"
    <2>1. Raised(id, o)
      BY <1>2 DEF Attempted
    <2>2. CASE /\ tried + 1 < MaxAttempts /\ tried' = tried + 1
               /\ trouble' = trouble \union {<<id, o>>}
               /\ UNCHANGED <<turns, queue, held, prints, current, handled>>
      <3>1. ~Done
        BY <2>2 DEF Done
      <3> QED
        BY <1>2, <2>2, <3>1 DEF Again
    <2>3. CASE trouble' = trouble \union {<<id, o>>, <<id, "abandoned">>} /\ Done
      BY <1>2, <2>3
    <2> QED
      BY <2>1, <2>2, <2>3 DEF Raised
  <1> QED
    BY <1>1, <1>2

LEMMA RequestFacts ==
  ASSUME NEW id, NEW o \in Outcomes, Request(id, o)
  PROVE  trouble \subseteq trouble' /\ (o # "ok" => <<id, o>> \in trouble')
  BY DEF Request

LEMMA OneBuffer ==
  ASSUME Inv, NEW k \in Key, NEW e, buffer' = [buffer EXCEPT ![k] = e]
  PROVE  buffer'[k] = e /\ \A j \in Key : j # k => buffer'[j] = buffer[j]
  BY DEF Inv, Buffered

LEMMA TidyEmpty ==
  ASSUME NEW k, buffer'[k] = NoBuffer
  PROVE  Tidy(k)'
  <1>1. buffer'[k].id = <<>> /\ buffer'[k].text = <<>>
    BY DEF NoBuffer
  <1>2. DOMAIN <<>> = {} /\ Range(<<>>) = {}
    BY DEF Range
  <1> QED
    BY <1>1, <1>2 DEF Tidy, Fine, InOrder, Distinct

LEMMA TidyNew ==
  ASSUME UNCHANGED style, NEW id \in Stream, NEW k, k = KeyOf(id), NEW e, buffer'[k] = e, e.id = id,
         Touched(id)', Fine(ChatOf(id), e.text),
         style[ChatOf(id)] \notin Live => Range(e.text) \subseteq ChunksOf(id)'
  PROVE  Tidy(k)'
  <1>1. ChatAt(k) = ChatOf(id)
    BY KeyFacts
  <1>2. ChatAt(k)' = ChatAt(k) /\ KeyOf(id)' = KeyOf(id)
    BY DEF ChatAt, ChatOf, KeyOf
  <1>3. buffer'[k].id = id /\ buffer'[k].text = e.text
    OBVIOUS
  <1>4. Fine(ChatAt(k), e.text)'
    BY <1>1, <1>2 DEF Fine, InOrder, Distinct
  <1> QED
    BY <1>1, <1>2, <1>3, <1>4 DEF Tidy, Fine, InOrder, Distinct

\* The posts of a stream when one of them is edited, and when it gets another.
LEMMA OwnPosts ==
  ASSUME NEW id, NEW text, NEW n, Shows(ChatOf(id), id, text, n)
  PROVE  \A i : PostOf(id, i)' <=> PostOf(id, i) \/ i = n
  <1> DEFINE c == ChatOf(id)
  <1>1. /\ n \in DOMAIN screen[c] => screen[c][n].id = id
        /\ DOMAIN screen'[c] = DOMAIN screen[c] \union {n}
        /\ screen'[c][n].id = id
        /\ \A j \in DOMAIN screen[c] \ {n} : screen'[c][j] = screen[c][j]
    BY DEF Shows
  <1>2. ChatOf(id)' = ChatOf(id)
    BY DEF ChatOf
  <1> QED
    BY <1>1, <1>2 DEF PostOf

LEMMA EditedPosts ==
  ASSUME NEW id, NEW text, NEW n, Shows(ChatOf(id), id, text, n), n \in DOMAIN screen[ChatOf(id)]
  PROVE  \A i : PostOf(id, i)' <=> PostOf(id, i)
  <1>1. PostOf(id, n)
    BY DEF Shows, PostOf
  <1> QED
    BY <1>1, OwnPosts

LEMMA OnceStays ==
  ASSUME NEW id, Once(id), trouble \subseteq trouble',
         \A i : PostOf(id, i)' <=> PostOf(id, i),
         \A i : Known(id, i) => Known(id, i)'
  PROVE  Once(id)'
  <1> SUFFICES ASSUME NEW i, PostOf(id, i)'
               PROVE  <<id, "unanswered">> \in trouble' \/ (Alone(id, i)' /\ Known(id, i)')
    BY DEF Once
  <1>1. PostOf(id, i) /\ i \in DOMAIN screen[ChatOf(id)]
    BY DEF PostOf
  <1>2. <<id, "unanswered">> \in trouble \/ (Alone(id, i) /\ Known(id, i))
    BY <1>1 DEF Once
  <1>3. ASSUME Alone(id, i)
        PROVE  Alone(id, i)'
    <2>1. \A j : PostOf(id, j)' => j = i
      BY <1>3 DEF Alone, PostOf
    <2> QED
      BY <2>1 DEF Alone
  <1> QED
    BY <1>2, <1>3

LEMMA OnceNew ==
  ASSUME NEW id, Once(id), trouble \subseteq trouble', NEW text, NEW n, Shows(ChatOf(id), id, text, n),
         \A i : PostOf(id, i) => ~Known(id, i),
         <<id, "unanswered">> \in trouble' \/ Known(id, n)'
  PROVE  Once(id)'
  <1> SUFFICES ASSUME NEW i, PostOf(id, i)', <<id, "unanswered">> \notin trouble'
               PROVE  Alone(id, i)' /\ Known(id, i)'
    BY DEF Once
  <1>1. \A j : PostOf(id, j) => <<id, "unanswered">> \in trouble
    BY DEF Once, PostOf
  <1>2. \A j : PostOf(id, j)' => j = n
    BY <1>1, OwnPosts
  <1> QED
    BY <1>2 DEF Alone

\* A stream that was sent a delta has not ended.
LEMMA DeltaRight ==
  ASSUME Inv, Written(Log, turns), NEW m \in Plain, current = <<m>>, m.kind = "delta", UNCHANGED style,
         UNCHANGED handled \/ handled' = handled \o Units(m),
         NEW e, buffer'[KeyOf(m.id)] = e, e.id = m.id,
         Said(m.id) \subseteq Range(e.text), Range(m.text) \subseteq Range(e.text),
         Said(m.id)' # {} => HasPosted(m.id)',
         Once(m.id)'
  PROVE  Right(m.id)'
  <1>1. ~Over(m.id)
    BY NextUp DEF StreamKinds
  <1>2. ~(Over(m.id)') /\ Said(m.id)' \subseteq Said(m.id) \union Range(m.text)
    <2>1. CASE UNCHANGED handled
      BY <1>1, <2>1 DEF Over, Handled, Said, ChunksOf
    <2>2. CASE handled' = handled \o Units(m)
      BY <1>1, <2>2, DeltaHistory DEF Said
    <2> QED
      BY <2>1, <2>2
  <1>3. Buf(m.id)' = e
    BY DEF Buf, KeyOf, ChatOf
  <1>4. Kept(m.id)'
    <2>1. Buf(m.id)'.id = m.id /\ Said(m.id)' \subseteq Range(Buf(m.id)'.text)
      BY <1>2, <1>3
    <2> QED
      BY <2>1 DEF Kept
  <1>5. Concluded(m.id)'
    BY <1>2 DEF Concluded, Over
  <1> QED
    BY <1>4, <1>5 DEF Right

\* One that ended is read as a whole, or it is known why not.
LEMMA EndRight ==
  ASSUME Inv, NEW m \in Plain, m.kind \in EndKinds, handled' = handled \o Units(m), UNCHANGED style,
         Once(m.id)',
         \/ ChunksOf(m.id) \subseteq Blank
         \/ <<m.id, "abandoned">> \in trouble'
         \/ style[ChatOf(m.id)] = "mattermost" /\ m.kind = "resuming"
         \/ style[ChatOf(m.id)] = "matrix" /\ Troubled(m.id)'
         \/ ReadAsWhole(m.id)'
  PROVE  Right(m.id)'
  <1>1. ChunksOf(m.id)' = ChunksOf(m.id) /\ Handled(m.kind, m.id)' /\ Over(m.id)'
    BY EndHistory
  <1>2. Kept(m.id)'
    BY <1>1 DEF Kept
  <1>3. style'[ChatOf(m.id)'] = style[ChatOf(m.id)]
    BY DEF ChatOf
  <1>4. Concluded(m.id)'
    BY <1>1, <1>3 DEF Concluded, Troubled
  <1> QED
    BY <1>2, <1>4 DEF Right

\* One whose end is to be sent again is as it was.
LEMMA AgainRight ==
  ASSUME Inv, NEW m \in Plain, current = <<m>>, UNCHANGED <<style, handled, current>>,
         ~Over(m.id), Kept(m.id), Once(m.id)', trouble \subseteq trouble',
         \/ buffer'[KeyOf(m.id)] = buffer[KeyOf(m.id)]
         \/ style[ChatOf(m.id)] = "matrix" /\ m.kind \in EndKinds /\ Troubled(m.id)'
  PROVE  Right(m.id)'
  <1>1. ~(Over(m.id)') /\ Said(m.id)' = Said(m.id)
    BY DEF Over, Handled, Said, ChunksOf
  <1>2. Concluded(m.id)'
    BY <1>1 DEF Concluded, Over
  <1>3. ChatOf(m.id)' = ChatOf(m.id) /\ KeyOf(m.id)' = KeyOf(m.id)
    BY DEF ChatOf, KeyOf
  <1>4. \A kinds : Sent(kinds, m.id)' <=> Sent(kinds, m.id)
    BY DEF Sent
  <1>5. Kept(m.id)'
    <2>1. CASE buffer'[KeyOf(m.id)] = buffer[KeyOf(m.id)]
      <3>1. Buf(m.id)' = Buf(m.id)
        BY <1>3, <2>1 DEF Buf
      <3>2. (HasPosted(m.id) => HasPosted(m.id)') /\ (Troubled(m.id) => Troubled(m.id)')
        BY <1>3, <3>1 DEF HasPosted, Troubled, Outcomes
      <3> QED
        BY <1>1, <1>3, <1>4, <3>1, <3>2 DEF Kept
    <2>2. CASE style[ChatOf(m.id)] = "matrix" /\ m.kind \in EndKinds /\ Troubled(m.id)'
      <3>1. Sent(EndKinds, m.id)
        BY <2>2 DEF Sent
      <3> QED
        BY <1>3, <1>4, <2>2, <3>1 DEF Kept
    <2> QED
      BY <2>1, <2>2
  <1> QED
    BY <1>2, <1>5 DEF Right

-----------------------------------------------------------------------------
(* Each of the sends. *)

LEMMA WholeDisplays ==
  ASSUME Inv, Displayed, Written(Log, turns), Private, UNCHANGED style, SendWhole
  PROVE  Displayed'
  <1>1. current # <<>>
    BY DEF SendWhole
  <1>2. PICK m \in Plain : m = current[1] /\ current = <<m>>
    BY <1>1, CurrentFacts DEF Inv
  <1>3. m.kind \in {"reply", "followup", "notice"} /\ UNCHANGED buffer
    BY <1>2 DEF SendWhole
  <1>4. PICK o \in Outcomes : Posts(ChatOf(m.id), m.id, m.text, o) /\ Attempted(m.id, o)
    BY <1>2 DEF SendWhole
  <1>5. (Done \/ Again) /\ trouble \subseteq trouble'
    BY <1>1, <1>4, AttemptedFacts
  <1>6. m.id[3] = 0 /\ m.id \notin Streams
    BY <1>3 DEF Plain, StreamKinds, Streams
  <1>7. m.id \in Stream /\ ChatOf(m.id) \in Chat /\ m.text \in Seq(Shown)
    BY <1>1, <1>2, SendingFacts DEF Inv
  <1>8. UNCHANGED screen \/ \E i, text : Shows(ChatOf(m.id), m.id, text, i)
    <2>1. CASE o = "failed"
      BY <1>4, <2>1 DEF Posts
    <2>2. CASE o # "failed"
      BY <1>4, <1>7, <2>2, PostsShow
    <2> QED
      BY <2>1, <2>2
  <1>9. \/ UNCHANGED screen
        \/ \E i, text : /\ Shows(ChatOf(m.id), m.id, text, i)
                        /\ m.id[3] # 0 => Fine(ChatOf(m.id), text)
    BY <1>6, <1>8
  <1>10. \A k \in Key : buffer'[k] = buffer[k]
    BY <1>3
  <1> QED
    BY <1>2, <1>5, <1>6, <1>9, <1>10, SendDisplays

\* What a shown delta does to the chat, and whether the buffer knows of the post.
LEMMA ShownOnce ==
  ASSUME Inv, Displayed, Written(Log, turns), UNCHANGED style,
         NEW m \in Plain, current = <<m>>, m.kind = "delta",
         NEW b, b = Accumulated(KeyOf(m.id), m), NEW o \in Outcomes,
         ShownDelta(ChatOf(m.id), b, o), trouble \subseteq trouble', o # "ok" => <<m.id, o>> \in trouble',
         NEW e, e = WithPost(ChatOf(m.id), b, o), buffer'[KeyOf(m.id)] = e
  PROVE  /\ Once(m.id)' /\ e.id = m.id /\ e.text = b.text
         /\ e.post # 0 \/ (b.post = 0 /\ o # "ok")
         /\ UNCHANGED screen \/ \E i : Shows(ChatOf(m.id), m.id, b.text, i)
  <1> DEFINE c == ChatOf(m.id)
             k == KeyOf(m.id)
  <1>1. m.id \in Stream /\ m.id \in Streams /\ c \in Chat /\ k \in Key /\ ChatAt(k) = c /\ m.id # <<>>
    BY MessageFields, KeyFacts, ChatAtType DEF Plain, StreamKinds, Streams
  <1>2. /\ b \in Buffers /\ b.id = m.id /\ b.text \in Seq(Shown) /\ b.text \in Seq(Chunk)
        /\ b.post = IF Buf(m.id).id = m.id THEN Buf(m.id).post ELSE 0
        /\ Good(k, b, screen)
    BY AccumulatedText, ChunksShown
  <1>3. Once(m.id) /\ ~Over(m.id) /\ ~Sent(EndKinds, m.id)
    BY <1>1, NextUp DEF Displayed, Right, StreamKinds, Sent, EndKinds
  <1>4. \A i : Known(m.id, i) => Buf(m.id).id = m.id /\ Buf(m.id).post = i /\ b.post = i
    BY <1>2, <1>3 DEF Known
  <1>5. Buf(m.id)' = e
    BY DEF Buf, KeyOf, ChatOf
  <1>6. screen[c] \in Seq(Post) /\ Len(screen[c]) \in Nat /\ DOMAIN screen[c] = 1..Len(screen[c])
    <2>1. screen[c] \in Seq(Post)
      BY <1>1 DEF Inv, Buffered, Screens
    <2> QED
      BY <2>1, LenProperties
  <1>7. ChatOf(m.id) = c
    OBVIOUS
  <1> HIDE DEF c, k
  <1>8. CASE b.post = 0
    <2>1. Posts(c, m.id, b.text, o)
      BY <1>2, <1>7, <1>8 DEF ShownDelta
    <2>2. CASE o = "failed"
      <3>1. UNCHANGED screen /\ e = b
        BY <2>1, <2>2 DEF Posts, WithPost
      <3>2. \A i : PostOf(m.id, i)' <=> PostOf(m.id, i)
        BY <3>1 DEF PostOf, ChatOf
      <3>3. \A i : Known(m.id, i) => Known(m.id, i)'
        BY <1>2, <1>4, <1>5, <3>1 DEF Known
      <3> QED
        BY <1>2, <1>3, <1>8, <2>2, <3>1, <3>2, <3>3, OnceStays
    <2>3. CASE o # "failed"
      <3> PICK n : n = Len(screen[c]) + 1
        OBVIOUS
      <3>1. Shows(c, m.id, b.text, n) /\ n \in Nat /\ n # 0
        BY <1>1, <1>2, <2>1, <2>3, PostsShow
      <3>2. e = IF o = "ok" THEN [b EXCEPT !.post = n] ELSE b
        BY <1>7, <1>8 DEF WithPost
      <3>3. e.id = m.id /\ e.text = b.text /\ (o = "ok" => e.post = n) /\ (o # "ok" => e.post = 0)
        BY <1>2, <1>8, <3>1, <3>2 DEF Buffers
      <3>4. \A i : PostOf(m.id, i) => ~Known(m.id, i)
        BY <1>4, <1>6, <1>7, <1>8 DEF PostOf
      <3>5. <<m.id, "unanswered">> \in trouble' \/ Known(m.id, n)'
        <4>1. CASE o = "ok"
          BY <1>5, <3>3, <4>1 DEF Known
        <4>2. CASE o # "ok"
          BY <2>3, <4>2 DEF Outcomes
        <4> QED
          BY <4>1, <4>2
      <3>6. Once(m.id)'
        BY <1>3, <1>7, <3>1, <3>4, <3>5, OnceNew
      <3>7. e.post # 0 \/ (b.post = 0 /\ o # "ok")
        BY <1>8, <3>1, <3>3
      <3> QED
        BY <1>7, <3>1, <3>3, <3>6, <3>7
    <2> QED
      BY <2>2, <2>3
  <1>9. CASE b.post # 0
    <2>1. Edits(c, b.post, b.text, o) /\ e = b
      BY <1>7, <1>9 DEF ShownDelta, WithPost
    <2>2. b.post \in DOMAIN screen[c] /\ screen[c][b.post].id = m.id
      BY <1>1, <1>2, <1>6, <1>9 DEF Good
    <2>3. UNCHANGED screen \/ Shows(c, m.id, b.text, b.post)
      <3>1. CASE o = "failed"
        BY <2>1, <3>1 DEF Edits
      <3>2. CASE o # "failed"
        <4> DEFINE i == b.post
                   text == b.text
        <4>1. Edits(c, i, text, o) /\ i \in DOMAIN screen[c] /\ screen[c][i].id = m.id
          BY <2>1, <2>2
        <4> HIDE DEF i, text
        <4>2. Shows(c, m.id, text, i)
          BY <1>1, <3>2, <4>1, EditsShow
        <4> QED
          BY <4>2 DEF i, text
      <3> QED
        BY <3>1, <3>2
    <2>4. \A i : PostOf(m.id, i)' <=> PostOf(m.id, i)
      <3>1. CASE UNCHANGED screen
        BY <3>1 DEF PostOf, ChatOf
      <3>2. CASE Shows(c, m.id, b.text, b.post)
        BY <1>7, <2>2, <3>2, EditedPosts
      <3> QED
        BY <2>3, <3>1, <3>2
    <2>5. \A i : Known(m.id, i) => Known(m.id, i)'
      BY <1>2, <1>4, <1>5, <2>1 DEF Known
    <2>6. Once(m.id)'
      BY <1>3, <2>4, <2>5, OnceStays
    <2> QED
      BY <1>2, <1>7, <1>9, <2>1, <2>3, <2>6
  <1> QED
    BY <1>8, <1>9

\* A delta at Telegram or Matrix.
LEMMA LiveDelta ==
  ASSUME Inv, Displayed, Written(Log, turns), Private, UNCHANGED style,
         NEW m \in Plain, current = <<m>>, m.kind = "delta", style[ChatOf(m.id)] \in Live,
         NEW b, b = Accumulated(KeyOf(m.id), m), NEW e, buffer' = [buffer EXCEPT ![KeyOf(m.id)] = e],
         Done \/ Again, trouble \subseteq trouble', e.id = m.id, e.text = b.text,
         Once(m.id)', Said(m.id)' # {} => HasPosted(m.id)',
         UNCHANGED screen \/ \E i : Shows(ChatOf(m.id), m.id, b.text, i)
  PROVE  Displayed'
  <1>1. PICK k \in Key : k = KeyOf(m.id)
    BY KeyFacts, MessageFields DEF Plain
  <1>2. m.id \in Stream /\ m.id \in Streams /\ current # <<>>
    BY MessageFields DEF Plain, StreamKinds, Streams
  <1>3. /\ InOrder(b.text) /\ Said(m.id) \subseteq Range(b.text) /\ Range(m.text) \subseteq Range(b.text)
    BY AccumulatedText
  <1>4. Fine(ChatOf(m.id), b.text)
    BY <1>3 DEF Fine
  <1>5. buffer'[k] = e /\ \A j \in Key : j # k => buffer'[j] = buffer[j]
    BY <1>1, OneBuffer
  <1>6. UNCHANGED handled \/ handled' = handled \o Units(m)
    BY DEF Done, Again
  <1>7. Right(m.id)'
    BY <1>1, <1>3, <1>5, <1>6, DeltaRight
  <1>8. Touched(m.id)'
    <2>1. Touched(m.id)
      BY DEF Touched, Sent, StreamKinds
    <2> QED
      BY <1>2, <2>1, TouchedStays
  <1>9. Tidy(k)'
    BY <1>1, <1>2, <1>4, <1>5, <1>8, TidyNew
  <1>10. \A j \in Key : \/ buffer'[j] = buffer[j]
                        \/ m.kind \in StreamKinds /\ j = KeyOf(m.id) /\ Tidy(j)'
    BY <1>1, <1>5, <1>9 DEF StreamKinds
  <1>11. \/ UNCHANGED screen
         \/ \E i, text : /\ Shows(ChatOf(m.id), m.id, text, i)
                         /\ m.id[3] # 0 => Fine(ChatOf(m.id), text)
    BY <1>4
  <1> QED
    BY <1>7, <1>10, <1>11, SendDisplays

\* The delta is only added to the buffer.
LEMMA QuietDisplays ==
  ASSUME Inv, Displayed, Written(Log, turns), Private, UNCHANGED style,
         NEW m \in Plain, current = <<m>>, m.kind = "delta", style[ChatOf(m.id)] \in Live,
         NEW b, b = Accumulated(KeyOf(m.id), m), buffer' = [buffer EXCEPT ![KeyOf(m.id)] = b],
         QuietDelta(b)
  PROVE  Displayed'
  <1>1. m.id \in Stream /\ m.id \in Streams /\ KeyOf(m.id) \in Key
    BY MessageFields, KeyFacts DEF Plain, StreamKinds, Streams
  <1>2. /\ b.id = m.id /\ Said(m.id) \subseteq Range(b.text) /\ Range(m.text) \subseteq Range(b.text)
        /\ b.post = IF Buf(m.id).id = m.id THEN Buf(m.id).post ELSE 0
    BY AccumulatedText
  <1>3. Done /\ UNCHANGED <<screen, trouble>> /\ (IsBlank(b.text) \/ b.post # 0)
    BY DEF QuietDelta, NoRequest
  <1>4. Buf(m.id)' = b
    <2>1. KeyOf(m.id)' = KeyOf(m.id)
      BY DEF KeyOf, ChatOf
    <2> QED
      BY <1>1, <2>1, OneBuffer DEF Buf
  <1>5. Once(m.id)'
    <2>1. Once(m.id) /\ ~Over(m.id) /\ ~Sent(EndKinds, m.id)
      BY <1>1, NextUp DEF Displayed, Right, StreamKinds, Sent, EndKinds
    <2>2. \A i : Known(m.id, i) => Known(m.id, i)'
      BY <1>2, <1>4, <2>1 DEF Known
    <2>3. \A i : PostOf(m.id, i)' <=> PostOf(m.id, i)
      BY <1>3 DEF PostOf, ChatOf
    <2> QED
      BY <1>3, <2>1, <2>2, <2>3, OnceStays
  <1>6. Said(m.id)' # {} => HasPosted(m.id)'
    <2>1. CASE b.post # 0
      BY <1>4, <2>1 DEF HasPosted
    <2>2. CASE IsBlank(b.text)
      <3>1. Range(b.text) \subseteq Blank
        BY <2>2 DEF IsBlank, Range
      <3>2. Said(m.id)' \subseteq (ChunksOf(m.id) \union Range(m.text)) \ Blank
        BY <1>3, DeltaHistory DEF Done, Said
      <3>3. Said(m.id)' = {}
        BY <1>2, <3>1, <3>2 DEF Said
      <3> QED
        BY <3>3
    <2> QED
      BY <1>3, <2>1, <2>2
  <1> QED
    BY <1>2, <1>3, <1>5, <1>6, LiveDelta

LEMMA TelegramDeltaDisplays ==
  ASSUME Inv, Displayed, Written(Log, turns), Private, UNCHANGED style, TelegramDelta
  PROVE  Displayed'
  <1>1. current # <<>>
    BY DEF TelegramDelta, Sending
  <1>2. PICK m \in Plain : m = current[1] /\ current = <<m>>
    BY <1>1, CurrentFacts DEF Inv
  <1>3. m.kind = "delta" /\ style[ChatOf(m.id)] = "telegram" /\ KeyOf(m.id) = ChatOf(m.id)
    BY <1>2 DEF TelegramDelta, Sending, KeyOf
  <1>4. PICK c, b : c = ChatOf(m.id) /\ b = Accumulated(KeyOf(m.id), m)
    OBVIOUS
  <1>5. \/ QuietDelta(b) /\ buffer' = [buffer EXCEPT ![c] = b]
        \/ \E o \in Outcomes : /\ ShownDelta(c, b, o)
                               /\ buffer' = [buffer EXCEPT ![c] = WithPost(c, b, o)]
                               /\ Attempted(b.id, o)
    BY <1>2, <1>3, <1>4 DEF TelegramDelta
  <1>6. m.id \in Stream /\ m.id \in Streams /\ c \in Key /\ style[c] \in Live
    BY <1>3, <1>4, MessageFields, KeyFacts DEF Plain, StreamKinds, Streams, Live
  <1>7. CASE QuietDelta(b) /\ buffer' = [buffer EXCEPT ![c] = b]
    BY <1>2, <1>3, <1>4, <1>6, <1>7, QuietDisplays
  <1>8. CASE \E o \in Outcomes : /\ ShownDelta(c, b, o)
                                 /\ buffer' = [buffer EXCEPT ![c] = WithPost(c, b, o)]
                                 /\ Attempted(b.id, o)
    <2>1. /\ b.id = m.id
          /\ b.post = IF Buf(m.id).id = m.id THEN Buf(m.id).post ELSE 0
      BY <1>2, <1>3, <1>4, AccumulatedText
    <2>2. PICK o \in Outcomes : /\ ShownDelta(c, b, o)
                                /\ buffer' = [buffer EXCEPT ![c] = WithPost(c, b, o)]
                                /\ Attempted(m.id, o)
      BY <1>8, <2>1
    <2>3. /\ Done \/ Again
          /\ trouble \subseteq trouble' /\ (o # "ok" => <<m.id, o>> \in trouble')
          /\ o # "ok" /\ Done => <<m.id, "abandoned">> \in trouble'
      BY <1>1, <2>2, AttemptedFacts
    <2>4. PICK e : e = WithPost(c, b, o)
      OBVIOUS
    <2>5. buffer' = [buffer EXCEPT ![c] = e] /\ buffer'[c] = e
      BY <1>6, <2>2, <2>4, OneBuffer
    <2>6. /\ Once(m.id)' /\ e.id = m.id /\ e.text = b.text
          /\ e.post # 0 \/ (b.post = 0 /\ o # "ok")
          /\ UNCHANGED screen \/ \E i : Shows(c, m.id, b.text, i)
      BY <1>2, <1>3, <1>4, <2>2, <2>3, <2>4, <2>5, ShownOnce
    <2>7. ASSUME Said(m.id)' # {}
          PROVE  HasPosted(m.id)'
      <3>1. Buf(m.id)' = e /\ style'[ChatOf(m.id)'] = "telegram"
        BY <1>3, <1>4, <2>5 DEF Buf, KeyOf, ChatOf
      <3>2. CASE e.post # 0
        BY <3>1, <3>2 DEF HasPosted
      <3>3. CASE b.post = 0 /\ o # "ok" /\ Done
        BY <2>3, <3>1, <3>3 DEF HasPosted
      <3>4. CASE b.post = 0 /\ o # "ok" /\ Again
        <4>1. Said(m.id) # {} /\ ~Over(m.id) /\ Kept(m.id)
          BY <1>2, <1>3, <1>6, <2>7, <3>4, NextUp
          DEF Again, Said, ChunksOf, StreamKinds, Displayed, Right
        <4>2. Buf(m.id).id = m.id /\ HasPosted(m.id)
          BY <1>3, <4>1 DEF Kept
        <4>3. <<m.id, "abandoned">> \in trouble
          BY <1>3, <2>1, <3>4, <4>2 DEF HasPosted
        <4> QED
          BY <2>3, <3>1, <4>3 DEF HasPosted
      <3> QED
        BY <2>3, <2>6, <3>2, <3>3, <3>4
    <2> QED
      BY <1>2, <1>3, <1>4, <1>6, <2>3, <2>5, <2>6, <2>7, LiveDelta
  <1> QED
    BY <1>5, <1>7, <1>8

LEMMA MatrixDeltaDisplays ==
  ASSUME Inv, Displayed, Written(Log, turns), Private, UNCHANGED style, MatrixDelta
  PROVE  Displayed'
  <1>1. current # <<>>
    BY DEF MatrixDelta, Sending
  <1>2. PICK m \in Plain : m = current[1] /\ current = <<m>>
    BY <1>1, CurrentFacts DEF Inv
  <1>3. m.kind = "delta" /\ style[ChatOf(m.id)] = "matrix" /\ KeyOf(m.id) = m.id
    BY <1>2 DEF MatrixDelta, Sending, KeyOf
  <1>4. PICK c, b : c = ChatOf(m.id) /\ b = Accumulated(KeyOf(m.id), m)
    OBVIOUS
  <1>5. b.id = m.id
    BY <1>2, <1>3, <1>4, AccumulatedText
  <1>6. \/ QuietDelta(b) /\ buffer' = [buffer EXCEPT ![m.id] = b]
        \/ \E o \in Outcomes : /\ ShownDelta(c, b, o)
                               /\ buffer' = [buffer EXCEPT ![m.id] = WithPost(c, b, o)]
                               /\ Request(m.id, o) /\ Done
    BY <1>2, <1>3, <1>4, <1>5 DEF MatrixDelta
  <1>7. m.id \in Stream /\ m.id \in Key /\ style[c] \in Live
    BY <1>3, <1>4, MessageFields, KeyFacts DEF Plain, Live
  <1>8. CASE QuietDelta(b) /\ buffer' = [buffer EXCEPT ![m.id] = b]
    BY <1>2, <1>3, <1>4, <1>7, <1>8, QuietDisplays
  <1>9. CASE \E o \in Outcomes : /\ ShownDelta(c, b, o)
                                 /\ buffer' = [buffer EXCEPT ![m.id] = WithPost(c, b, o)]
                                 /\ Request(m.id, o) /\ Done
    <2>1. PICK o \in Outcomes : /\ ShownDelta(c, b, o)
                                /\ buffer' = [buffer EXCEPT ![m.id] = WithPost(c, b, o)]
                                /\ Request(m.id, o) /\ Done
      BY <1>9
    <2>2. trouble \subseteq trouble' /\ (o # "ok" => <<m.id, o>> \in trouble')
      BY <2>1, RequestFacts
    <2>3. PICK e : e = WithPost(c, b, o)
      OBVIOUS
    <2>4. buffer' = [buffer EXCEPT ![m.id] = e] /\ buffer'[m.id] = e
      BY <1>7, <2>1, <2>3, OneBuffer
    <2>5. /\ Once(m.id)' /\ e.id = m.id /\ e.text = b.text
          /\ e.post # 0 \/ (b.post = 0 /\ o # "ok")
          /\ UNCHANGED screen \/ \E i : Shows(c, m.id, b.text, i)
      BY <1>2, <1>3, <1>4, <2>1, <2>2, <2>3, <2>4, ShownOnce
    <2>6. HasPosted(m.id)'
      <3>1. Buf(m.id)' = e /\ style'[ChatOf(m.id)'] = "matrix"
        BY <1>3, <1>4, <2>4 DEF Buf, KeyOf, ChatOf
      <3>2. o # "ok" => Troubled(m.id)'
        BY <2>2 DEF Troubled, Outcomes
      <3> QED
        BY <2>5, <3>1, <3>2 DEF HasPosted
    <2>7. (Said(m.id)' # {} => HasPosted(m.id)') /\ (Done \/ Again)
      BY <2>1, <2>6
    <2>8. buffer' = [buffer EXCEPT ![KeyOf(m.id)] = e] /\ style[ChatOf(m.id)] \in Live
      BY <1>3, <1>4, <1>7, <2>4
    <2>9. UNCHANGED screen \/ \E i : Shows(ChatOf(m.id), m.id, b.text, i)
      BY <1>4, <2>5
    <2> QED
      BY <1>2, <1>3, <1>4, <2>2, <2>5, <2>7, <2>8, <2>9, LiveDelta
  <1> QED
    BY <1>6, <1>8, <1>9

\* The end of a stream finds all its text in the buffer.
LEMMA EndFacts ==
  ASSUME Inv, Displayed, Written(Log, turns), NEW m \in Plain, current = <<m>>, m.kind \in EndKinds
  PROVE  /\ m.id \in Streams /\ m.id \in Stream /\ ChatOf(m.id) \in Chat /\ KeyOf(m.id) \in Key
         /\ Fine(ChatOf(m.id), Buf(m.id).text) /\ Good(KeyOf(m.id), Buf(m.id), screen)
         /\ ~Over(m.id) /\ Kept(m.id) /\ Once(m.id)
         /\ ChunksOf(m.id) \subseteq Blank
            \/ (Buf(m.id).id = m.id /\ Said(m.id) \subseteq Range(Buf(m.id).text) /\ HasPosted(m.id))
            \/ (style[ChatOf(m.id)] = "matrix" /\ Troubled(m.id))
  <1>1. /\ m.id \in Streams /\ m.id \in Stream /\ ChatOf(m.id) \in Chat /\ KeyOf(m.id) \in Key
        /\ ChatAt(KeyOf(m.id)) = ChatOf(m.id)
    BY MessageFields, KeyFacts DEF Plain, StreamKinds, EndKinds, Streams
  <1>2. Fine(ChatOf(m.id), Buf(m.id).text) /\ Good(KeyOf(m.id), Buf(m.id), screen)
    BY <1>1 DEF Displayed, Tidy, Buf, Inv, Buffered
  <1>3. ~Over(m.id)
    BY NextUp DEF StreamKinds, EndKinds
  <1>4. Kept(m.id) /\ Once(m.id)
    BY <1>1 DEF Displayed, Right
  <1> QED
    BY <1>1, <1>2, <1>3, <1>4 DEF Kept, Said

\* The last edit of a stream's post.
LEMMA LastEdit ==
  ASSUME Inv, NEW id \in Stream, NEW b, Good(KeyOf(id), b, screen), b.id = id, b.post # 0,
         NEW o \in Outcomes, Edits(ChatOf(id), b.post, b.text, o)
  PROVE  /\ UNCHANGED screen \/ Shows(ChatOf(id), id, b.text, b.post)
         /\ \A i : PostOf(id, i)' <=> PostOf(id, i)
         /\ o # "failed" => PostOf(id, b.post)' /\ screen'[ChatOf(id)][b.post].text = b.text
  <1>1. PICK c, i, text : c = ChatOf(id) /\ i = b.post /\ text = b.text
    OBVIOUS
  <1>2. c \in Chat /\ ChatAt(KeyOf(id)) = c
    BY <1>1, KeyFacts
  <1>3. i \in DOMAIN screen[c] /\ screen[c][i].id = id
    <2>1. screen[c] \in Seq(Post)
      BY <1>2 DEF Inv, Buffered, Screens
    <2>2. DOMAIN screen[c] = 1..Len(screen[c])
      BY <2>1, LenProperties
    <2> QED
      BY <1>1, <1>2, <2>2 DEF Good
  <1>4. CASE o = "failed"
    <2>1. UNCHANGED screen
      BY <1>4 DEF Edits
    <2> QED
      BY <1>4, <2>1 DEF PostOf, ChatOf
  <1>5. CASE o # "failed"
    <2>1. Shows(c, id, text, i)
      BY <1>1, <1>2, <1>3, <1>5, EditsShow
    <2>2. \A j : PostOf(id, j)' <=> PostOf(id, j)
      BY <1>1, <1>3, <2>1, EditedPosts
    <2>3. PostOf(id, i)' /\ screen'[c][i].text = text
      BY <1>1, <1>3, <2>1, <2>2 DEF Shows, PostOf
    <2> QED
      BY <1>1, <2>1, <2>2, <2>3
  <1> QED
    BY <1>4, <1>5

LEMMA WholePost ==
  ASSUME NEW id \in Streams, ChunksOf(id)' = ChunksOf(id), NEW i, PostOf(id, i)',
         NEW text, screen'[ChatOf(id)][i].text = text, Said(id) \subseteq Range(text)
  PROVE  ReadAsWhole(id)'
  <1>1. ChatOf(id)' = ChatOf(id)
    BY DEF ChatOf
  <1>2. i \in StreamPosts(ChatOf(id))'
    BY <1>1 DEF StreamPosts, PostOf, Streams
  <1> QED
    BY <1>1, <1>2 DEF ReadAsWhole, PostOf, Said

LEMMA TelegramEndDisplays ==
  ASSUME Inv, Displayed, Written(Log, turns), Private, UNCHANGED style, TelegramEnd
  PROVE  Displayed'
  <1>1. current # <<>>
    BY DEF TelegramEnd, Sending
  <1>2. PICK m \in Plain : m = current[1] /\ current = <<m>>
    BY <1>1, CurrentFacts DEF Inv
  <1>3. /\ m.kind \in EndKinds /\ style[ChatOf(m.id)] = "telegram" /\ KeyOf(m.id) = ChatOf(m.id)
        /\ m.kind \in StreamKinds
    BY <1>2 DEF TelegramEnd, Sending, KeyOf, EndKinds, StreamKinds
  <1>4. PICK c, b : c = ChatOf(m.id) /\ b = Buf(m.id)
    OBVIOUS
  <1>5. /\ m.id \in Streams /\ m.id \in Stream /\ c \in Chat /\ c \in Key
        /\ Fine(c, b.text) /\ Good(KeyOf(m.id), b, screen)
        /\ ~Over(m.id) /\ Kept(m.id) /\ Once(m.id)
        /\ ChunksOf(m.id) \subseteq Blank
           \/ (b.id = m.id /\ Said(m.id) \subseteq Range(b.text) /\ HasPosted(m.id))
    BY <1>2, <1>3, <1>4, EndFacts
  <1>6. \/ (b.id # m.id \/ b.post = 0) /\ NoRequest /\ UNCHANGED buffer
        \/ /\ b.id = m.id /\ b.post # 0
           /\ \E o \in Outcomes :
                /\ Edits(c, b.post, b.text, o)
                /\ buffer' = IF o = "ok" THEN [buffer EXCEPT ![c] = NoBuffer] ELSE buffer
                /\ Attempted(m.id, o)
    BY <1>2, <1>3, <1>4 DEF TelegramEnd, Buf
  <1>7. CASE (b.id # m.id \/ b.post = 0) /\ NoRequest /\ UNCHANGED buffer
    <2>1. Done /\ UNCHANGED <<screen, trouble>> /\ handled' = handled \o Units(m)
      BY <1>2, <1>7 DEF NoRequest, Done
    <2>2. Over(m.id)'
      BY <1>3, <2>1, EndHistory
    <2>3. Once(m.id)'
      <3>1. \A i : PostOf(m.id, i)' <=> PostOf(m.id, i)
        BY <2>1 DEF PostOf, ChatOf
      <3>2. \A i : Known(m.id, i)'
        BY <2>2 DEF Known
      <3> QED
        BY <1>5, <2>1, <3>1, <3>2, OnceStays
    <2>4. ChunksOf(m.id) \subseteq Blank \/ <<m.id, "abandoned">> \in trouble'
      BY <1>3, <1>4, <1>5, <1>7, <2>1 DEF HasPosted
    <2>5. Right(m.id)'
      BY <1>3, <2>1, <2>3, <2>4, EndRight
    <2>6. trouble \subseteq trouble' /\ \A k \in Key : buffer'[k] = buffer[k]
      BY <1>7, <2>1
    <2> QED
      BY <1>2, <2>1, <2>5, <2>6, SendDisplays
  <1>8. CASE /\ b.id = m.id /\ b.post # 0
             /\ \E o \in Outcomes :
                  /\ Edits(c, b.post, b.text, o)
                  /\ buffer' = IF o = "ok" THEN [buffer EXCEPT ![c] = NoBuffer] ELSE buffer
                  /\ Attempted(m.id, o)
    <2>1. PICK o \in Outcomes :
            /\ Edits(c, b.post, b.text, o)
            /\ buffer' = IF o = "ok" THEN [buffer EXCEPT ![c] = NoBuffer] ELSE buffer
            /\ Attempted(m.id, o)
      BY <1>8
    <2>2. /\ Done \/ Again
          /\ trouble \subseteq trouble' /\ (o = "ok" => Done)
          /\ o # "ok" /\ Done => <<m.id, "abandoned">> \in trouble'
      BY <1>1, <2>1, AttemptedFacts
    <2>3. /\ UNCHANGED screen \/ Shows(c, m.id, b.text, b.post)
          /\ \A i : PostOf(m.id, i)' <=> PostOf(m.id, i)
          /\ o # "failed" => PostOf(m.id, b.post)' /\ screen'[c][b.post].text = b.text
      BY <1>4, <1>5, <1>8, <2>1, LastEdit
    <2>4. CASE Done
      <3>1. handled' = handled \o Units(m)
        BY <1>2, <2>4 DEF Done
      <3>2. Over(m.id)' /\ ChunksOf(m.id)' = ChunksOf(m.id)
        BY <1>3, <3>1, EndHistory
      <3>3. Once(m.id)'
        <4>1. \A i : Known(m.id, i)'
          BY <3>2 DEF Known
        <4> QED
          BY <1>5, <2>2, <2>3, <4>1, OnceStays
      <3>4. \/ ChunksOf(m.id) \subseteq Blank
            \/ <<m.id, "abandoned">> \in trouble'
            \/ ReadAsWhole(m.id)'
        <4>1. CASE o # "ok"
          BY <2>2, <2>4, <4>1
        <4>2. CASE o = "ok"
          <5> SUFFICES ASSUME ~(ChunksOf(m.id) \subseteq Blank)
                       PROVE  ReadAsWhole(m.id)'
            OBVIOUS
          <5>1. Said(m.id) \subseteq Range(b.text)
            BY <1>5
          <5>2. PostOf(m.id, b.post)' /\ screen'[ChatOf(m.id)][b.post].text = b.text
            BY <1>4, <2>3, <4>2
          <5> PICK i, text : i = b.post /\ text = b.text
            OBVIOUS
          <5> QED
            BY <1>5, <3>2, <5>1, <5>2, WholePost
        <4> QED
          BY <4>1, <4>2
      <3>5. Right(m.id)'
        BY <1>3, <3>1, <3>3, <3>4, EndRight
      <3>6. \A k \in Key : \/ buffer'[k] = buffer[k]
                           \/ m.kind \in StreamKinds /\ k = KeyOf(m.id) /\ Tidy(k)'
        <4>1. CASE o = "ok"
          <5>1. buffer'[c] = NoBuffer /\ \A k \in Key : k # c => buffer'[k] = buffer[k]
            BY <1>5, <2>1, <4>1, OneBuffer
          <5>2. Tidy(c)'
            BY <5>1, TidyEmpty
          <5> QED
            BY <1>3, <1>4, <5>1, <5>2
        <4>2. CASE o # "ok"
          BY <2>1, <4>2
        <4> QED
          BY <4>1, <4>2
      <3>7. \/ UNCHANGED screen
            \/ \E i, text : /\ Shows(ChatOf(m.id), m.id, text, i)
                            /\ m.id[3] # 0 => Fine(ChatOf(m.id), text)
        BY <1>4, <1>5, <2>3
      <3> QED
        BY <1>2, <2>2, <3>5, <3>6, <3>7, SendDisplays
    <2>5. CASE ~Done
      <3>1. Again /\ UNCHANGED buffer /\ UNCHANGED <<style, handled, current>>
        BY <2>1, <2>2, <2>5 DEF Again
      <3>2. Once(m.id)'
        <4>1. \A i : Known(m.id, i) => Known(m.id, i)'
          BY <3>1 DEF Known, Over, Handled, Buf, KeyOf, ChatOf, Sent
        <4> QED
          BY <1>5, <2>2, <2>3, <4>1, OnceStays
      <3>3. Right(m.id)'
        <4>1. buffer'[KeyOf(m.id)] = buffer[KeyOf(m.id)]
          BY <3>1
        <4> QED
          BY <1>2, <1>5, <2>2, <3>1, <3>2, <4>1, AgainRight
      <3>4. \A k \in Key : buffer'[k] = buffer[k]
        BY <3>1
      <3>5. \/ UNCHANGED screen
            \/ \E i, text : /\ Shows(ChatOf(m.id), m.id, text, i)
                            /\ m.id[3] # 0 => Fine(ChatOf(m.id), text)
        BY <1>4, <1>5, <2>3
      <3> QED
        BY <1>2, <2>2, <3>3, <3>4, <3>5, SendDisplays
    <2> QED
      BY <2>4, <2>5
  <1> QED
    BY <1>6, <1>7, <1>8

LEMMA MatrixEndDisplays ==
  ASSUME Inv, Displayed, Written(Log, turns), Private, UNCHANGED style, MatrixEnd
  PROVE  Displayed'
  <1>1. current # <<>>
    BY DEF MatrixEnd, Sending
  <1>2. PICK m \in Plain : m = current[1] /\ current = <<m>>
    BY <1>1, CurrentFacts DEF Inv
  <1>3. /\ m.kind \in EndKinds /\ style[ChatOf(m.id)] = "matrix" /\ KeyOf(m.id) = m.id
        /\ m.kind \in StreamKinds
    BY <1>2 DEF MatrixEnd, Sending, KeyOf, EndKinds, StreamKinds
  <1>4. PICK c, b : c = ChatOf(m.id) /\ b = Buf(m.id)
    OBVIOUS
  <1>5. /\ m.id \in Streams /\ m.id \in Stream /\ c \in Chat /\ m.id \in Key
        /\ Fine(c, b.text) /\ Good(m.id, b, screen)
        /\ ~Over(m.id) /\ Kept(m.id) /\ Once(m.id)
        /\ ChunksOf(m.id) \subseteq Blank
           \/ (b.id = m.id /\ Said(m.id) \subseteq Range(b.text) /\ HasPosted(m.id))
           \/ Troubled(m.id)
    BY <1>2, <1>3, <1>4, EndFacts
  <1>6. /\ buffer' = [buffer EXCEPT ![m.id] = NoBuffer]
        /\ \/ b.post = 0 /\ NoRequest
           \/ b.post # 0 /\ \E o \in Outcomes : Edits(c, b.post, b.text, o) /\ Attempted(m.id, o)
    BY <1>2, <1>3, <1>4 DEF MatrixEnd, Buf
  <1>7. buffer'[m.id] = NoBuffer /\ \A k \in Key : k # m.id => buffer'[k] = buffer[k]
    BY <1>5, <1>6, OneBuffer
  <1>8. \A k \in Key : \/ buffer'[k] = buffer[k]
                       \/ m.kind \in StreamKinds /\ k = KeyOf(m.id) /\ Tidy(k)'
    <2>1. Tidy(m.id)'
      BY <1>7, TidyEmpty
    <2> QED
      BY <1>3, <1>7, <2>1
  <1>9. trouble \subseteq trouble' => (Troubled(m.id) => Troubled(m.id)')
    BY DEF Troubled, Outcomes
  <1>10. CASE b.post = 0 /\ NoRequest
    <2>1. Done /\ UNCHANGED <<screen, trouble>> /\ handled' = handled \o Units(m)
      BY <1>2, <1>10 DEF NoRequest, Done
    <2>2. Over(m.id)'
      BY <1>3, <2>1, EndHistory
    <2>3. Once(m.id)'
      <3>1. \A i : PostOf(m.id, i)' <=> PostOf(m.id, i)
        BY <2>1 DEF PostOf, ChatOf
      <3>2. \A i : Known(m.id, i)'
        BY <2>2 DEF Known
      <3> QED
        BY <1>5, <2>1, <3>1, <3>2, OnceStays
    <2>4. ChunksOf(m.id) \subseteq Blank \/ Troubled(m.id)'
      BY <1>3, <1>4, <1>5, <1>9, <1>10, <2>1 DEF HasPosted
    <2>5. Right(m.id)'
      BY <1>3, <2>1, <2>3, <2>4, EndRight
    <2>6. trouble \subseteq trouble'
      BY <2>1
    <2> QED
      BY <1>2, <1>8, <2>1, <2>5, <2>6, SendDisplays
  <1>11. CASE b.post # 0 /\ \E o \in Outcomes : Edits(c, b.post, b.text, o) /\ Attempted(m.id, o)
    <2>1. PICK o \in Outcomes : Edits(c, b.post, b.text, o) /\ Attempted(m.id, o)
      BY <1>11
    <2>2. /\ Done \/ Again
          /\ trouble \subseteq trouble' /\ (o = "ok" => Done)
          /\ o # "ok" => Troubled(m.id)'
      <3>1. o # "ok" => <<m.id, o>> \in trouble'
        BY <1>1, <2>1, AttemptedFacts
      <3> QED
        BY <1>1, <2>1, <3>1, AttemptedFacts DEF Troubled, Outcomes
    <2>3. b.id = m.id
      BY <1>5, <1>11 DEF Good, NoBuffer
    <2>4. /\ UNCHANGED screen \/ Shows(c, m.id, b.text, b.post)
          /\ \A i : PostOf(m.id, i)' <=> PostOf(m.id, i)
          /\ o # "failed" => PostOf(m.id, b.post)' /\ screen'[c][b.post].text = b.text
      BY <1>3, <1>4, <1>5, <1>11, <2>1, <2>3, LastEdit
    <2>5. \/ UNCHANGED screen
          \/ \E i, text : /\ Shows(ChatOf(m.id), m.id, text, i)
                          /\ m.id[3] # 0 => Fine(ChatOf(m.id), text)
      BY <1>4, <1>5, <2>4
    <2>6. CASE Done
      <3>1. handled' = handled \o Units(m)
        BY <1>2, <2>6 DEF Done
      <3>2. Over(m.id)' /\ ChunksOf(m.id)' = ChunksOf(m.id)
        BY <1>3, <3>1, EndHistory
      <3>3. Once(m.id)'
        <4>1. \A i : Known(m.id, i)'
          BY <3>2 DEF Known
        <4> QED
          BY <1>5, <2>2, <2>4, <4>1, OnceStays
      <3>4. \/ ChunksOf(m.id) \subseteq Blank
            \/ style[ChatOf(m.id)] = "matrix" /\ Troubled(m.id)'
            \/ ReadAsWhole(m.id)'
        <4>1. CASE o # "ok"
          BY <1>3, <2>2, <4>1
        <4>2. CASE o = "ok"
          <5> SUFFICES ASSUME ~(ChunksOf(m.id) \subseteq Blank), ~(Troubled(m.id)')
                       PROVE  ReadAsWhole(m.id)'
            BY <1>3
          <5>1. Said(m.id) \subseteq Range(b.text)
            BY <1>5, <1>9, <2>2
          <5>2. PostOf(m.id, b.post)' /\ screen'[ChatOf(m.id)][b.post].text = b.text
            BY <1>4, <2>4, <4>2
          <5> PICK i, text : i = b.post /\ text = b.text
            OBVIOUS
          <5> QED
            BY <1>5, <3>2, <5>1, <5>2, WholePost
        <4> QED
          BY <4>1, <4>2
      <3>5. Right(m.id)'
        BY <1>3, <3>1, <3>3, <3>4, EndRight
      <3> QED
        BY <1>2, <1>8, <2>2, <2>5, <3>5, SendDisplays
    <2>7. CASE ~Done
      <3>1. Again /\ UNCHANGED <<style, handled, current>> /\ Troubled(m.id)'
        BY <2>2, <2>7 DEF Again
      <3>2. Once(m.id)'
        <4>1. Sent(EndKinds, m.id)'
          BY <1>2, <1>3, <3>1 DEF Sent
        <4>2. \A i : Known(m.id, i)'
          BY <1>3, <4>1 DEF Known, ChatOf
        <4> QED
          BY <1>5, <2>2, <2>4, <4>2, OnceStays
      <3>3. Right(m.id)'
        BY <1>2, <1>3, <1>5, <2>2, <3>1, <3>2, AgainRight
      <3> QED
        BY <1>2, <1>8, <2>2, <2>5, <3>3, SendDisplays
    <2> QED
      BY <2>6, <2>7
  <1> QED
    BY <1>6, <1>10, <1>11

LEMMA CollectingDeltaDisplays ==
  ASSUME Inv, Displayed, Written(Log, turns), Private, UNCHANGED style, CollectingDelta
  PROVE  Displayed'
  <1>1. current # <<>>
    BY DEF CollectingDelta, Sending
  <1>2. PICK m \in Plain : m = current[1] /\ current = <<m>>
    BY <1>1, CurrentFacts DEF Inv
  <1>3. /\ m.kind = "delta" /\ style[ChatOf(m.id)] \in {"mattermost", "weixin"} /\ KeyOf(m.id) = m.id
        /\ m.kind \in StreamKinds
    BY <1>2 DEF CollectingDelta, Sending, KeyOf, StreamKinds
  <1>4. /\ Done /\ UNCHANGED <<screen, trouble>> /\ handled' = handled \o Units(m)
        /\ Done \/ Again
    BY <1>2 DEF CollectingDelta, NoRequest, Done
  <1>5. m.id \in Streams /\ m.id \in Stream /\ m.id \in Key /\ ChatOf(m.id) \in Chat
    BY <1>3, MessageFields, KeyFacts DEF Plain, Streams
  <1>6. PICK b : b = Accumulated(m.id, m)
    OBVIOUS
  <1>7. /\ b.id = m.id /\ InOrder(b.text)
        /\ Said(m.id) \subseteq Range(b.text) /\ Range(m.text) \subseteq Range(b.text)
        /\ Distinct(b.text) /\ Range(b.text) \subseteq ChunksOf(m.id) \union Range(m.text)
        /\ b.post = IF Buf(m.id).id = m.id THEN Buf(m.id).post ELSE 0
    BY <1>2, <1>3, <1>6, AccumulatedText DEF Live
  <1>8. ChunksOf(m.id)' = ChunksOf(m.id) \union Range(m.text) /\ (Over(m.id)' <=> Over(m.id))
    BY <1>3, <1>4, DeltaHistory
  <1>9. Kept(m.id) /\ Once(m.id) /\ ~Over(m.id) /\ ~Sent(EndKinds, m.id)
    BY <1>2, <1>3, <1>5, NextUp DEF Displayed, Right, Sent, EndKinds
  <1>10. \A i : PostOf(m.id, i)' <=> PostOf(m.id, i)
    BY <1>4 DEF PostOf, ChatOf
  <1>11. HasPosted(m.id)'
    BY <1>3 DEF HasPosted, ChatOf
  <1>12. KeyOf(m.id)' = m.id /\ ChatOf(m.id)' = ChatOf(m.id)
    BY <1>3 DEF KeyOf, ChatOf
  <1>13. trouble \subseteq trouble'
    BY <1>4
  <1>14. \/ UNCHANGED buffer /\ Range(m.text) \subseteq Blank
         \/ buffer' = [buffer EXCEPT ![m.id] = b]
    BY <1>2, <1>6 DEF CollectingDelta, IsBlank, Range
  <1>15. CASE UNCHANGED buffer /\ Range(m.text) \subseteq Blank
    <2>1. Said(m.id)' = Said(m.id)
      BY <1>8, <1>15 DEF Said
    <2>2. Buf(m.id)' = Buf(m.id)
      BY <1>3, <1>12, <1>15 DEF Buf
    <2>3. Kept(m.id)'
      BY <1>3, <1>8, <1>9, <1>11, <2>1, <2>2 DEF Kept
    <2>4. Once(m.id)'
      <3>1. \A i : Known(m.id, i) => Known(m.id, i)'
        BY <1>9, <2>2 DEF Known
      <3> QED
        BY <1>9, <1>10, <1>13, <3>1, OnceStays
    <2>5. Concluded(m.id)'
      BY <1>8, <1>9 DEF Concluded, Over
    <2>6. Right(m.id)' /\ \A k \in Key : buffer'[k] = buffer[k]
      BY <1>15, <2>3, <2>4, <2>5 DEF Right
    <2> QED
      BY <1>2, <1>4, <1>13, <2>6, SendDisplays
  <1>16. CASE buffer' = [buffer EXCEPT ![m.id] = b]
    <2>1. buffer'[m.id] = b /\ \A k \in Key : k # m.id => buffer'[k] = buffer[k]
      BY <1>5, <1>16, OneBuffer
    <2>2. Once(m.id)'
      <3>1. Buf(m.id)' = b
        BY <1>12, <2>1 DEF Buf
      <3>2. \A i : Known(m.id, i) => Known(m.id, i)'
        BY <1>7, <1>9, <3>1 DEF Known
      <3> QED
        BY <1>9, <1>10, <1>13, <3>2, OnceStays
    <2>3. Right(m.id)'
      BY <1>2, <1>3, <1>4, <1>7, <1>11, <2>1, <2>2, DeltaRight
    <2>4. Tidy(m.id)'
      <3>1. Touched(m.id)'
        <4>1. Touched(m.id)
          BY <1>1, <1>2, <1>3 DEF Touched, Sent
        <4> QED
          BY <1>1, <1>4, <4>1, TouchedStays
      <3>2. Fine(ChatOf(m.id), b.text)
        BY <1>7 DEF Fine
      <3> QED
        BY <1>3, <1>5, <1>7, <1>8, <2>1, <3>1, <3>2, TidyNew
    <2>5. \A k \in Key : \/ buffer'[k] = buffer[k]
                         \/ m.kind \in StreamKinds /\ k = KeyOf(m.id) /\ Tidy(k)'
      BY <1>3, <2>1, <2>4
    <2> QED
      BY <1>2, <1>4, <1>13, <2>3, <2>5, SendDisplays
  <1> QED
    BY <1>14, <1>15, <1>16

LEMMA DropSegmentDisplays ==
  ASSUME Inv, Displayed, Written(Log, turns), Private, UNCHANGED style, DropSegment
  PROVE  Displayed'
  <1>1. current # <<>>
    BY DEF DropSegment, Sending
  <1>2. PICK m \in Plain : m = current[1] /\ current = <<m>>
    BY <1>1, CurrentFacts DEF Inv
  <1>3. /\ m.kind = "resuming" /\ style[ChatOf(m.id)] = "mattermost" /\ KeyOf(m.id) = m.id
        /\ m.kind \in EndKinds /\ m.kind \in StreamKinds
    BY <1>2 DEF DropSegment, Sending, KeyOf, EndKinds, StreamKinds
  <1>4. /\ Done \/ Again
        /\ UNCHANGED <<screen, trouble>> /\ handled' = handled \o Units(m)
        /\ trouble \subseteq trouble' /\ buffer' = [buffer EXCEPT ![m.id] = NoBuffer]
    BY <1>2 DEF DropSegment, NoRequest, Done
  <1>5. m.id \in Key /\ Once(m.id)
    BY <1>2, <1>3, EndFacts
  <1>6. buffer'[m.id] = NoBuffer /\ \A k \in Key : k # m.id => buffer'[k] = buffer[k]
    BY <1>4, <1>5, OneBuffer
  <1>7. Tidy(m.id)'
    BY <1>6, TidyEmpty
  <1>8. Once(m.id)'
    <2>1. \A i : PostOf(m.id, i)' <=> PostOf(m.id, i)
      BY <1>4 DEF PostOf, ChatOf
    <2>2. \A i : Known(m.id, i)'
      BY <1>3, <1>4, EndHistory DEF Known
    <2> QED
      BY <1>4, <1>5, <2>1, <2>2, OnceStays
  <1>9. Right(m.id)'
    BY <1>3, <1>4, <1>8, EndRight
  <1>10. \A k \in Key : \/ buffer'[k] = buffer[k]
                        \/ m.kind \in StreamKinds /\ k = KeyOf(m.id) /\ Tidy(k)'
    BY <1>3, <1>6, <1>7
  <1> QED
    BY <1>2, <1>4, <1>9, <1>10, SendDisplays

LEMMA CollectingEndDisplays ==
  ASSUME Inv, Displayed, Written(Log, turns), Private, UNCHANGED style, CollectingEnd
  PROVE  Displayed'
  <1>1. current # <<>>
    BY DEF CollectingEnd, Sending
  <1>2. PICK m \in Plain : m = current[1] /\ current = <<m>>
    BY <1>1, CurrentFacts DEF Inv
  <1>3. /\ m.kind \in EndKinds /\ style[ChatOf(m.id)] \in {"mattermost", "weixin"} /\ KeyOf(m.id) = m.id
        /\ m.kind \in StreamKinds
    BY <1>2 DEF CollectingEnd, Sending, KeyOf, EndKinds, StreamKinds
  <1>4. PICK c, b, text : c = ChatOf(m.id) /\ b = Buf(m.id) /\ text = b.text
    OBVIOUS
  <1>5. /\ m.id \in Streams /\ m.id \in Stream /\ c \in Chat /\ m.id \in Key
        /\ Fine(c, text) /\ Good(m.id, b, screen)
        /\ ~Over(m.id) /\ Kept(m.id) /\ Once(m.id)
        /\ ChunksOf(m.id) \subseteq Blank \/ Said(m.id) \subseteq Range(text)
    BY <1>2, <1>3, <1>4, EndFacts
  <1>6. text \in Seq(Shown) /\ b.post = 0
    <2>1. b.text \in Seq(Chunk)
      BY <1>5 DEF Good, Buffers
    <2>2. m.id \notin Chat /\ ChatAt(m.id) = c
      BY <1>4, <1>5, ChatAtType
    <2> QED
      BY <1>3, <1>4, <1>5, <2>1, <2>2, ChunksShown DEF Good
  <1>7. \/ IsBlank(text) /\ buffer' = [buffer EXCEPT ![m.id] = NoBuffer] /\ NoRequest
        \/ \E o \in Outcomes :
             /\ Posts(c, m.id, text, o)
             /\ buffer' = IF o = "ok" THEN [buffer EXCEPT ![m.id] = NoBuffer] ELSE buffer
             /\ Attempted(m.id, o)
    BY <1>2, <1>3, <1>4 DEF CollectingEnd, Buf
  <1>8. CASE IsBlank(text) /\ buffer' = [buffer EXCEPT ![m.id] = NoBuffer] /\ NoRequest
    <2>1. /\ Done \/ Again
          /\ UNCHANGED <<screen, trouble>> /\ handled' = handled \o Units(m) /\ trouble \subseteq trouble'
      BY <1>2, <1>8 DEF NoRequest, Done
    <2>2. buffer'[m.id] = NoBuffer /\ \A k \in Key : k # m.id => buffer'[k] = buffer[k]
      BY <1>5, <1>8, OneBuffer
    <2>3. Tidy(m.id)'
      BY <2>2, TidyEmpty
    <2>4. Once(m.id)'
      <3>1. \A i : PostOf(m.id, i)' <=> PostOf(m.id, i)
        BY <2>1 DEF PostOf, ChatOf
      <3>2. \A i : Known(m.id, i)'
        BY <1>3, <2>1, EndHistory DEF Known
      <3> QED
        BY <1>5, <2>1, <3>1, <3>2, OnceStays
    <2>5. ChunksOf(m.id) \subseteq Blank
      <3>1. Range(text) \subseteq Blank
        BY <1>8 DEF IsBlank, Range
      <3> QED
        BY <1>5, <3>1 DEF Said
    <2>6. Right(m.id)'
      BY <1>3, <2>1, <2>4, <2>5, EndRight
    <2>7. \A k \in Key : \/ buffer'[k] = buffer[k]
                         \/ m.kind \in StreamKinds /\ k = KeyOf(m.id) /\ Tidy(k)'
      BY <1>3, <2>2, <2>3
    <2> QED
      BY <1>2, <2>1, <2>6, <2>7, SendDisplays
  <1>9. ASSUME NEW o \in Outcomes, Posts(c, m.id, text, o),
               buffer' = IF o = "ok" THEN [buffer EXCEPT ![m.id] = NoBuffer] ELSE buffer,
               Attempted(m.id, o)
        PROVE  Displayed'
    <2>1. /\ Done \/ Again
          /\ trouble \subseteq trouble' /\ (o = "ok" => Done) /\ (o # "ok" => <<m.id, o>> \in trouble')
          /\ o # "ok" /\ Done => <<m.id, "abandoned">> \in trouble'
      BY <1>1, <1>9, AttemptedFacts
    <2>2. \/ o = "failed" /\ UNCHANGED screen
          \/ o # "failed" /\ \E n : Shows(c, m.id, text, n)
      <3>1. o # "failed" => \E n : Shows(c, m.id, text, n)
        BY <1>5, <1>6, <1>9, PostsShow
      <3>2. o = "failed" => UNCHANGED screen
        BY <1>9 DEF Posts
      <3> QED
        BY <3>1, <3>2
    <2>3. \/ UNCHANGED screen
          \/ \E i, t : /\ Shows(ChatOf(m.id), m.id, t, i)
                       /\ m.id[3] # 0 => Fine(ChatOf(m.id), t)
      BY <1>4, <1>5, <2>2
    <2>4. \A k \in Key : \/ buffer'[k] = buffer[k]
                         \/ m.kind \in StreamKinds /\ k = KeyOf(m.id) /\ Tidy(k)'
      <3>1. CASE o = "ok"
        <4>1. buffer'[m.id] = NoBuffer /\ \A k \in Key : k # m.id => buffer'[k] = buffer[k]
          BY <1>5, <1>9, <3>1, OneBuffer
        <4>2. Tidy(m.id)'
          BY <4>1, TidyEmpty
        <4> QED
          BY <1>3, <4>1, <4>2
      <3>2. CASE o # "ok"
        BY <1>9, <3>2
      <3> QED
        BY <3>1, <3>2
    <2>5. CASE o # "failed"
      <3>1. PICK n : Shows(c, m.id, text, n)
        BY <2>2, <2>5
      <3>2. \A i : PostOf(m.id, i) => ~Known(m.id, i)
        <4> SUFFICES ASSUME NEW i, PostOf(m.id, i), Known(m.id, i)
                     PROVE  FALSE
          OBVIOUS
        <4>1. Buf(m.id).post = i
          BY <1>3, <1>5 DEF Known
        <4>2. i # 0
          <5>1. screen[c] \in Seq(Post)
            BY <1>5 DEF Inv, Buffered, Screens
          <5>2. i \in 1..Len(screen[c]) /\ Len(screen[c]) \in Nat
            BY <1>4, <5>1, LenProperties DEF PostOf
          <5> QED
            BY <5>2
        <4> QED
          BY <1>4, <1>6, <4>1, <4>2
      <3>3. CASE Done
        <4>1. handled' = handled \o Units(m)
          BY <1>2, <3>3 DEF Done
        <4>2. Over(m.id)' /\ ChunksOf(m.id)' = ChunksOf(m.id)
          BY <1>3, <4>1, EndHistory
        <4>3. Once(m.id)'
          <5>1. Known(m.id, n)'
            BY <4>2 DEF Known
          <5> QED
            BY <1>4, <1>5, <2>1, <3>1, <3>2, <5>1, OnceNew
        <4>4. \/ ChunksOf(m.id) \subseteq Blank
              \/ ReadAsWhole(m.id)'
          <5> SUFFICES ASSUME ~(ChunksOf(m.id) \subseteq Blank)
                       PROVE  ReadAsWhole(m.id)'
            OBVIOUS
          <5>1. Said(m.id) \subseteq Range(text)
            BY <1>5
          <5>2. PostOf(m.id, n)' /\ screen'[ChatOf(m.id)][n].text = text
            BY <1>4, <3>1, OwnPosts DEF Shows
          <5> QED
            BY <1>5, <4>2, <5>1, <5>2, WholePost
        <4>5. Right(m.id)'
          BY <1>3, <4>1, <4>3, <4>4, EndRight
        <4> QED
          BY <1>2, <2>1, <2>3, <2>4, <4>5, SendDisplays
      <3>4. CASE ~Done
        <4>1. o = "unanswered" /\ UNCHANGED buffer /\ UNCHANGED <<style, handled, current>>
          BY <1>9, <2>1, <2>5, <3>4 DEF Outcomes, Again
        <4>2. Once(m.id)'
          <5>1. <<m.id, "unanswered">> \in trouble'
            BY <2>1, <4>1
          <5> QED
            BY <1>4, <1>5, <2>1, <3>1, <3>2, <5>1, OnceNew
        <4>3. Right(m.id)'
          <5>1. buffer'[KeyOf(m.id)] = buffer[KeyOf(m.id)]
            BY <4>1
          <5> QED
            BY <1>2, <1>5, <2>1, <4>1, <4>2, <5>1, AgainRight
        <4> QED
          BY <1>2, <2>1, <2>3, <2>4, <4>3, SendDisplays
      <3> QED
        BY <3>3, <3>4
    <2>6. CASE o = "failed"
      <3>1. UNCHANGED screen /\ UNCHANGED buffer
        BY <1>9, <2>2, <2>6
      <3>2. \A i : PostOf(m.id, i)' <=> PostOf(m.id, i)
        BY <3>1 DEF PostOf, ChatOf
      <3>3. CASE Done
        <4>1. handled' = handled \o Units(m)
          BY <1>2, <3>3 DEF Done
        <4>2. \A i : Known(m.id, i)'
          BY <1>3, <4>1, EndHistory DEF Known
        <4>3. Once(m.id)' /\ <<m.id, "abandoned">> \in trouble'
          BY <1>5, <2>1, <2>6, <3>2, <3>3, <4>2, OnceStays
        <4>4. Right(m.id)'
          BY <1>3, <4>1, <4>3, EndRight
        <4> QED
          BY <1>2, <2>1, <2>3, <2>4, <4>4, SendDisplays
      <3>4. CASE ~Done
        <4>1. UNCHANGED <<style, handled, current>>
          BY <2>1, <3>4 DEF Again
        <4>2. \A i : Known(m.id, i) => Known(m.id, i)'
          BY <3>1, <4>1 DEF Known, Over, Handled, Buf, KeyOf, ChatOf, Sent
        <4>3. Once(m.id)' /\ buffer'[KeyOf(m.id)] = buffer[KeyOf(m.id)]
          BY <1>5, <2>1, <3>1, <3>2, <4>2, OnceStays
        <4>4. Right(m.id)'
          BY <1>2, <1>5, <2>1, <4>1, <4>3, AgainRight
        <4> QED
          BY <1>2, <2>1, <2>3, <2>4, <4>4, SendDisplays
      <3> QED
        BY <3>3, <3>4
    <2> QED
      BY <2>5, <2>6
  <1> QED
    BY <1>7, <1>8, <1>9

-----------------------------------------------------------------------------
(* The other steps, and the theorem. *)

LEMMA QuietRight ==
  ASSUME UNCHANGED <<style, buffer, screen, trouble>>, NEW id \in Streams, Right(id), Unsaid(id),
         \A kinds : Sent(kinds, id) => Sent(kinds, id)'
  PROVE  Right(id)'
  <1>1. /\ ChatOf(id)' = ChatOf(id) /\ KeyOf(id)' = KeyOf(id) /\ Buf(id)' = Buf(id)
        /\ style'[ChatOf(id)] = style[ChatOf(id)]
    BY DEF ChatOf, KeyOf, Buf
  <1>2. /\ ChunksOf(id)' = ChunksOf(id) /\ Said(id)' = Said(id) /\ (Over(id)' <=> Over(id))
        /\ \A kind : Handled(kind, id)' <=> Handled(kind, id)
    BY DEF Unsaid
  <1>3. Kept(id)'
    <2>1. (HasPosted(id) => HasPosted(id)') /\ (Troubled(id) => Troubled(id)')
      BY <1>1 DEF HasPosted, Troubled, Outcomes
    <2>2. Sent(EndKinds, id) => Sent(EndKinds, id)'
      OBVIOUS
    <2> QED
      BY <1>1, <1>2, <2>1, <2>2 DEF Right, Kept
  <1>4. Once(id)'
    <2>1. \A i : PostOf(id, i)' <=> PostOf(id, i)
      BY <1>1 DEF PostOf
    <2>2. Sent(EndKinds, id) => Sent(EndKinds, id)'
      OBVIOUS
    <2>3. \A i : Known(id, i) => Known(id, i)'
      BY <1>1, <1>2, <2>2 DEF Known
    <2> QED
      BY <2>1, <2>3, OnceStays DEF Right
  <1>5. Concluded(id)'
    <2>1. ReadAsWhole(id)' <=> ReadAsWhole(id)
      BY <1>1, <1>2 DEF ReadAsWhole, StreamPosts
    <2> QED
      BY <1>1, <1>2, <2>1 DEF Right, Concluded, Outcomes
  <1> QED
    BY <1>3, <1>4, <1>5 DEF Right

LEMMA QuietDisplayed ==
  ASSUME Displayed, UNCHANGED <<style, buffer, screen, trouble>>,
         \A id \in Streams : Unsaid(id),
         \A id : /\ ChunksOf(id) \subseteq ChunksOf(id)'
                 /\ Touched(id) => Touched(id)'
                 /\ Over(id)' => Over(id) \/ id \notin Stream \/ id[3] # 0
                 /\ \A kinds : Sent(kinds, id) => Sent(kinds, id)'
  PROVE  Displayed'
  <1>1. \A k \in Key : Tidy(k)'
    <2> TAKE k \in Key
    <2>1. Tidy(k)
      BY DEF Displayed
    <2> PICK d : d = buffer[k]
      OBVIOUS
    <2>2. buffer'[k] = d
      OBVIOUS
    <2>3. KeyOf(d.id)' = KeyOf(d.id) /\ ChatAt(k)' = ChatAt(k)
      BY DEF KeyOf, ChatOf, ChatAt
    <2>4. Fine(ChatAt(k), d.text)' <=> Fine(ChatAt(k), d.text)
      BY DEF Fine, InOrder, Distinct, ChatAt, ChatOf
    <2>5. ChunksOf(d.id) \subseteq ChunksOf(d.id)' /\ (Touched(d.id) => Touched(d.id)')
      OBVIOUS
    <2>6. /\ Fine(ChatAt(k), d.text)'
          /\ d.id # <<>> => Touched(d.id)' /\ KeyOf(d.id)' = k
          /\ style'[ChatAt(k)] \notin Live => Range(d.text) \subseteq ChunksOf(d.id)'
      BY <2>1, <2>3, <2>4, <2>5 DEF Tidy
    <2> QED
      BY <2>2, <2>3, <2>6 DEF Tidy, Fine
  <1>2. \A c \in Chat : \A i \in DOMAIN screen[c] : Placed(c, i)'
    BY DEF Displayed, Placed, ChatOf, Fine, InOrder, Distinct
  <1>3. \A id \in Stream : Over(id)' => id[3] # 0
    BY DEF Displayed
  <1>4. \A id \in Streams : Right(id)'
    <2> TAKE id \in Streams
    <2>1. Right(id) /\ Unsaid(id) /\ \A kinds : Sent(kinds, id) => Sent(kinds, id)'
      BY DEF Displayed
    <2> QED
      BY <2>1, QuietRight
  <1> QED
    BY <1>1, <1>2, <1>3, <1>4 DEF Displayed, Streams, Stream, Turn, Key

LEMMA DisplayedStays ==
  ASSUME Displayed, UNCHANGED <<style, handled, current, buffer, screen, trouble>>
  PROVE  Displayed'
  <1>1. \A id : Unsaid(id)
    BY SameHistory
  <1>2. \A id : /\ ChunksOf(id) \subseteq ChunksOf(id)'
                /\ Touched(id) => Touched(id)'
                /\ Over(id)' => Over(id)
                /\ \A kinds : Sent(kinds, id) => Sent(kinds, id)'
    BY DEF ChunksOf, Touched, Sent, Over, Handled
  <1> QED
    BY <1>1, <1>2, QuietDisplayed

\* A message that is dropped is no stream's.
LEMMA TakeDisplays ==
  ASSUME Inv, Displayed, UNCHANGED style, Take
  PROVE  Displayed'
  <1>1. PICK m \in Plain :
          /\ IF Ignored(m) THEN handled' = handled \o Units(m) /\ UNCHANGED current
             ELSE current' = <<m>> /\ UNCHANGED handled
          /\ current = <<>>
          /\ UNCHANGED <<buffer, screen, trouble>>
    BY TakeEffect DEF Inv
  <1>2. CASE Ignored(m)
    <2>1. handled' = handled \o Units(m) /\ UNCHANGED current
      BY <1>1, <1>2
    <2>2. m.kind \notin StreamKinds /\ m.id[3] = 0
      BY <1>2 DEF Ignored, Repeats, StreamKinds, Plain
    <2>3. \A id \in Streams : Unsaid(id)
      <3> TAKE id \in Streams
      <3>1. id # m.id
        BY <2>2 DEF Streams
      <3> QED
        BY <2>1, <3>1, OtherHistory
    <2>4. ASSUME NEW id
          PROVE  /\ ChunksOf(id) \subseteq ChunksOf(id)'
                 /\ Touched(id) => Touched(id)'
                 /\ Over(id)' => Over(id)
                 /\ \A kinds : Sent(kinds, id) => Sent(kinds, id)'
      <3>1. \A kinds : ~Sent(kinds, id)
        BY <1>1 DEF Sent
      <3>2. ChunksOf(id) \subseteq ChunksOf(id)'
        BY <2>1, HistoryGrows
      <3>3. Touched(id) => Touched(id)'
        BY <2>1, <3>1, HistoryGrows DEF Touched
      <3>4. Over(id)' => Over(id)
        BY <2>1, <2>2, OverGrows DEF EndKinds, StreamKinds
      <3> QED
        BY <3>1, <3>2, <3>3, <3>4
    <2> QED
      BY <1>1, <2>3, <2>4, QuietDisplayed
  <1>3. CASE ~Ignored(m)
    <2>1. UNCHANGED handled
      BY <1>1, <1>3
    <2>2. \A id : Unsaid(id)
      BY <2>1, SameHistory
    <2>3. \A id : /\ ChunksOf(id) \subseteq ChunksOf(id)'
                  /\ Touched(id) => Touched(id)'
                  /\ Over(id)' => Over(id)
                  /\ \A kinds : Sent(kinds, id) => Sent(kinds, id)'
      BY <1>1, <2>1 DEF ChunksOf, Touched, Sent, Over, Handled
    <2> QED
      BY <1>1, <2>2, <2>3, QuietDisplayed
  <1> QED
    BY <1>2, <1>3

LEMMA DisplayedStep ==
  ASSUME Private, Inv, Displayed, Written(Log, turns), [Next]_vars
  PROVE  Displayed'
  <1>1. CASE TurnStep /\ UNCHANGED <<style, handled, screen, current>>
    <2>1. UNCHANGED <<buffer, trouble>>
      BY <1>1 DEF TurnStep, Silent, Published
    <2> QED
      BY <1>1, <2>1, DisplayedStays
  <1>2. CASE Take /\ UNCHANGED style
    BY <1>2, TakeDisplays
  <1>3. CASE Sends /\ UNCHANGED style
    BY <1>3, WholeDisplays, TelegramDeltaDisplays, TelegramEndDisplays, MatrixDeltaDisplays,
       MatrixEndDisplays, CollectingDeltaDisplays, DropSegmentDisplays, CollectingEndDisplays DEF Sends
  <1>4. CASE UNCHANGED vars
    BY <1>4, DisplayedStays DEF vars
  <1> QED
    BY <1>1, <1>2, <1>3, <1>4, Steps

\* What is to be read in every chat, whatever requests fail, are retried, given up or
\* take effect unanswered: a stream that ended is there whole and in one post unless
\* an attempt for it was given up, the chunks of each post are in the order in which
\* they were written, and no post and no collected chunk is there twice.  Telegram's
\* buffer belongs to the chat, so there a chat is to be one session's (Private).
THEOREM ChatsAreRight ==
  ASSUME Private
  PROVE  Spec => []ScreenInv
  <1>1. Init => Displayed /\ Written(Log, turns)
    BY InitDisplayed, InitWritten
  <1>2. Inv /\ Displayed /\ Written(Log, turns) /\ [Next]_vars => (Displayed /\ Written(Log, turns))'
    <2> SUFFICES ASSUME Inv, Displayed, Written(Log, turns), [Next]_vars
                 PROVE  Displayed' /\ Written(Log', turns')
      BY DEF Written
    <2> QED
      BY DisplayedStep, WrittenStep
  <1>3. Inv /\ Displayed => EndedIsShown /\ PostsInOrder /\ PostedOnce /\ CollectedOnce
    BY DisplayedImplies
  <1>4. Spec => [](EndedIsShown /\ PostsInOrder /\ PostedOnce /\ CollectedOnce)
    BY <1>1, <1>2, <1>3, Invariance, PTL DEF Spec
  <1>5. Spec => []TypeOK
    BY TypeCorrect
  <1>6. ScreenInv <=> TypeOK /\ EndedIsShown /\ PostsInOrder /\ PostedOnce /\ CollectedOnce
    BY DEF ScreenInv
  <1> QED
    BY <1>4, <1>5, <1>6, PTL

=============================================================================
