------------------------ MODULE RequestContextProofs ------------------------
(***************************************************************************)
(* Theorems about RequestContext, for every budget, window, history and    *)
(* damage to it, every way of numbering calls, and any number of           *)
(* iterations: what prepare_for_model may give up of a list, and that      *)
(* what it compacted stays compacted.                                      *)
(*                                                                         *)
(* The argument.  (1) Each step of the governor is described by a function *)
(* from the positions of its result to those of the list it was given:     *)
(* Shed for the repairs, Left and Mended for what is made up for calls     *)
(* without a result, Shortens for compaction, EndOf for snipping.  (2) For *)
(* a list in which every result is there once and after its call (Good),   *)
(* PrepareIs says which results may be compacted, PrepareAgain that        *)
(* nothing changes when that is repeated, PrepareMinimal what is left of a *)
(* request that does not fit.  (3) The lists of a run are Good: a history, *)
(* the view of it, and what joins it or is appended to it.  (4) The        *)
(* invariant: the last request was prepared from the list of the run, with *)
(* a set of ids that were called in it.  That set stays one as the list    *)
(* grows, so that the next request shows no less compacted.                *)
(*                                                                         *)
(* The recursive functions of the model have the value their equations     *)
(* give (FlattensExists, Recursion): the least argument at which they did  *)
(* not would have a predecessor at which they do not either.               *)
(***************************************************************************)
EXTENDS RequestContext, SequenceTheorems, WellFoundedInduction, TLAPS

-----------------------------------------------------------------------------
(* Numbers and recursive functions. *)

LEMMA LeastElement ==
  ASSUME NEW T \in SUBSET Nat, T # {}
  PROVE  Min(T) \in T /\ \A y \in T : Min(T) <= y
<1> DEFINE R == {ss \in Nat \X Nat : ss[1] < ss[2]}
<1>1. OpToRel(<, Nat) = R
  BY DEF OpToRel
<1>2. IsWellFoundedOn(R, Nat)
  BY <1>1, NatLessThanWellFounded
<1>3. \E x \in T : \A y \in T : ~ (<<y, x>> \in R)
  BY <1>2, WFMin
<1>4. \E x \in T : \A y \in T : x <= y
  <2>1. PICK x \in T : \A y \in T : ~ (<<y, x>> \in R)
    BY <1>3
  <2>2. \A y \in T : y < x => <<y, x>> \in R
    OBVIOUS
  <2>3. \A y \in T : ~ (y < x)
    BY <2>1, <2>2
  <2> HIDE DEF R
  <2>4. \A y \in T : x <= y
    BY <2>3
  <2> QED
    BY <2>4
<1> QED
  BY <1>4 DEF Min

LEMMA GreatestElement ==
  ASSUME NEW n \in Nat, NEW T \in SUBSET (0..n), T # {}
  PROVE  Max(T) \in T /\ \A y \in T : y <= Max(T)
<1> DEFINE D == {n - y : y \in T}
<1>1. D \in SUBSET Nat
  OBVIOUS
<1>0. D # {}
  <2> PICK y \in T : TRUE
    OBVIOUS
  <2> n - y \in D
    OBVIOUS
  <2> QED
    OBVIOUS
<1>2. PICK x \in T : Min(D) = n - x
  BY <1>0, <1>1, LeastElement
<1>3. \A y \in T : y <= x
  <2> TAKE y \in T
  <2>1. n - y \in D
    OBVIOUS
  <2>2. n - x <= n - y
    BY <1>0, <1>1, <1>2, <2>1, LeastElement
  <2> QED
    BY <2>2
<1> QED
  BY <1>3 DEF Max

LEMMA Induction ==
  ASSUME NEW n \in Nat, NEW S, 0 \in S, \A i \in 0..n - 1 : i \in S => i + 1 \in S
  PROVE  \A i \in 0..n : i \in S
  <1> DEFINE T == {i \in 0..n : i \notin S}
  <1>1. SUFFICES ASSUME T # {} PROVE FALSE
    OBVIOUS
  <1>2. T \subseteq Nat
    OBVIOUS
  <1>3. PICK k \in T : \A i \in T : k <= i
    BY <1>1, <1>2, LeastElement
  <1>4. k \in Nat /\ k # 0 /\ k <= n /\ k - 1 \in Nat /\ (k - 1) + 1 = k
    OBVIOUS
  <1>5. k - 1 \in 0..n - 1 /\ k - 1 \notin T
    BY <1>3, <1>4
  <1>6. k - 1 \in S
    BY <1>4, <1>5
  <1>7. k \in S
    BY <1>4, <1>5, <1>6
  <1> QED
    BY <1>7

-----------------------------------------------------------------------------
(* FlattenSeq. *)

\* The sequences flattened so far: what the recursive function inside FlattenSeq
\* returns for each index, and nothing for 0.
Flattens(q, g) ==
  /\ g[0] = <<>>
  /\ \A i \in 1..Len(q) : g[i] = g[i - 1] \o q[i]

LEMMA FlattensType ==
  ASSUME NEW S, NEW q \in Seq(Seq(S)), NEW g, Flattens(q, g), NEW i \in 0..Len(q)
  PROVE  g[i] \in Seq(S)
  <1> DEFINE T == {k \in 0..Len(q) : g[k] \in Seq(S)}
             n == Len(q)
  <1>1. n \in Nat
    BY LenProperties
  <1>2. g[0] \in Seq(S)
    BY EmptySeq DEF Flattens
  <1>3. ASSUME NEW k \in 0..n - 1, k \in T PROVE k + 1 \in T
    <2>1. k + 1 \in 1..n /\ k + 1 \in 0..n /\ (k + 1) - 1 = k /\ g[k] \in Seq(S)
      BY <1>1, <1>3
    <2>2. g[k + 1] = g[(k + 1) - 1] \o q[k + 1]
      BY <2>1 DEF Flattens
    <2>3. q[k + 1] \in Seq(S)
      BY <2>1, ElementOfSeq
    <2>4. g[k] \o q[k + 1] \in Seq(S)
      BY <2>1, <2>3, ConcatProperties
    <2> QED
      BY <2>1, <2>2, <2>4
  <1>4. 0 \in T
    BY <1>1, <1>2
  <1> HIDE DEF T, n
  <1>5. \A k \in 0..n - 1 : k \in T => k + 1 \in T
    BY <1>3
  <1>6. \A k \in 0..n : k \in T
    BY <1>1, <1>4, <1>5, Induction
  <1> QED
    BY <1>6 DEF T, n

LEMMA FlattensExists ==
  ASSUME NEW S, NEW q \in Seq(Seq(S))
  PROVE  \E g : Flattens(q, g)
  <1> DEFINE Upto(k, g) == /\ g[0] = <<>>
                           /\ \A i \in 1..k : g[i] = g[i - 1] \o q[i]
             n == Len(q)
             T == {k \in 0..n : \E g : Upto(k, g)}
  <1>1. n \in Nat
    BY LenProperties
  <1>2. 0 \in T
    <2>1. Upto(0, [i \in 0..0 |-> <<>>])
      OBVIOUS
    <2> HIDE DEF Upto
    <2> QED
      BY <1>1, <2>1
  <1>3. ASSUME NEW k \in 0..n - 1, k \in T PROVE k + 1 \in T
    <2>1. PICK g : Upto(k, g)
      BY <1>3
    <2>2. k \in Nat /\ k + 1 \in 0..n /\ (k + 1) - 1 = k
      BY <1>1
    <2> DEFINE last == g[k] \o q[k + 1]
               h == [i \in 0..k + 1 |-> IF i = k + 1 THEN last ELSE g[i]]
    <2> HIDE DEF last
    <2>3. \A i \in 0..k : h[i] = g[i]
      BY <2>2
    <2>4. h[k + 1] = g[k] \o q[k + 1]
      <3>1. k + 1 \in 0..k + 1 /\ h[k + 1] = last
        BY <2>2
      <3> QED
        BY <3>1 DEF last
    <2> HIDE DEF h
    <2>5. h[0] = <<>>
      BY <2>1, <2>2, <2>3
    <2>6. ASSUME NEW i \in 1..k + 1 PROVE h[i] = h[i - 1] \o q[i]
      <3>1. CASE i = k + 1
        <4>1. i - 1 = k /\ k \in 0..k
          BY <2>2, <3>1
        <4> QED
          BY <2>3, <2>4, <3>1, <4>1
      <3>2. CASE i # k + 1
        <4>1. i \in 1..k /\ i \in 0..k /\ i - 1 \in 0..k
          BY <2>2, <3>2
        <4> QED
          BY <2>1, <2>3, <4>1
      <3> QED
        BY <3>1, <3>2
    <2>7. Upto(k + 1, h)
      BY <2>5, <2>6
    <2> HIDE DEF Upto
    <2> QED
      BY <2>2, <2>7
  <1> HIDE DEF T
  <1>4. \A k \in 0..n - 1 : k \in T => k + 1 \in T
    BY <1>3
  <1> HIDE DEF n
  <1>5. \A k \in 0..n : k \in T
    BY <1>1, <1>2, <1>4, Induction
  <1>6. n \in T
    BY <1>1, <1>5
  <1> QED
    BY <1>6 DEF T, n, Flattens

LEMMA FlattensIsFlatten ==
  ASSUME NEW S, NEW q \in Seq(Seq(S)), NEW g, Flattens(q, g)
  PROVE  FlattenSeq(q) = g[Len(q)]
  <1> DEFINE n == Len(q)
  <1>1. n \in Nat
    BY LenProperties
  <1>2. CASE n = 0
    BY <1>2, EmptySeq DEF FlattenSeq, Flattens
  <1>3. CASE n # 0
    <2> DEFINE F(f) == [i \in 1..n |-> IF i = 1 THEN q[i] ELSE f[i - 1] \o q[i]]
               f == CHOOSE f : f = F(f)
               h == [i \in 1..n |-> g[i]]
    <2>1. FlattenSeq(q) = f[n]
      BY <1>1, <1>3 DEF FlattenSeq
    <2>2. h = F(h)
      <3>1. ASSUME NEW i \in 1..n PROVE g[i] = IF i = 1 THEN q[i] ELSE h[i - 1] \o q[i]
        <4>1. g[i] = g[i - 1] \o q[i]
          BY DEF Flattens
        <4>2. CASE i = 1
          <5>1. g[1] = <<>> \o q[1]
            <6>1. i - 1 = 0
              BY <4>2
            <6> QED
              BY <4>1, <4>2, <6>1 DEF Flattens
          <5>2. q[1] \in Seq(S)
            BY <1>1, <1>3, ElementOfSeq
          <5> QED
            BY <4>2, <5>1, <5>2, ConcatEmptySeq
        <4>3. CASE i # 1
          <5>1. i - 1 \in 1..n
            BY <1>1, <4>3
          <5> QED
            BY <4>1, <4>3, <5>1
        <4> QED
          BY <4>2, <4>3
      <3> QED
        BY <3>1
    <2>3. f = F(f)
      <3> HIDE DEF h, F
      <3> QED
        BY <2>2
    <2> DEFINE T == {k \in 0..n : k = 0 \/ f[k] = g[k]}
    <2> HIDE DEF f
    <2>4. ASSUME NEW k \in 0..n - 1, k \in T PROVE k + 1 \in T
      <3>1. k + 1 \in 1..n /\ k + 1 \in 0..n /\ (k + 1) - 1 = k /\ (k # 0 => k \in 1..n) /\ (k + 1 = 1 <=> k = 0)
        BY <1>1
      <3>2. f[k + 1] = IF k + 1 = 1 THEN q[k + 1] ELSE f[(k + 1) - 1] \o q[k + 1]
        BY <2>3, <3>1
      <3>3. h[k + 1] = IF k + 1 = 1 THEN q[k + 1] ELSE h[(k + 1) - 1] \o q[k + 1]
        BY <2>2, <3>1
      <3>4. h[k + 1] = g[k + 1] /\ (k # 0 => h[k] = g[k])
        BY <3>1
      <3>5. k # 0 => f[k] = g[k]
        BY <2>4
      <3>6. f[k + 1] = g[k + 1]
        <4> HIDE DEF h
        <4> QED
          BY <3>1, <3>2, <3>3, <3>4, <3>5
      <3> QED
        BY <3>1, <3>6
    <2>5. 0 \in T
      BY <1>1
    <2> HIDE DEF T, n
    <2>6. \A k \in 0..n - 1 : k \in T => k + 1 \in T
      BY <2>4
    <2>7. \A k \in 0..n : k \in T
      BY <1>1, <2>5, <2>6, Induction
    <2>8. n \in T /\ n # 0
      BY <1>1, <1>3, <2>7
    <2> QED
      BY <2>1, <2>8 DEF T, n
  <1> QED
    BY <1>2, <1>3

LEMMA FlattenType ==
  ASSUME NEW S, NEW q \in Seq(Seq(S))
  PROVE  FlattenSeq(q) \in Seq(S)
  <1>1. PICK g : Flattens(q, g)
    BY FlattensExists
  <1>2. Len(q) \in 0..Len(q)
    BY LenProperties
  <1> QED
    BY <1>1, <1>2, FlattensType, FlattensIsFlatten

LEMMA FlattenEmpty == FlattenSeq(<<>>) = <<>>
  BY EmptySeq DEF FlattenSeq

\* Where the members of a flattened sequence come from: F is made of the first n
\* members of q, and its p-th member is the g[p]-th of q[f[p]].
Origin(n, F, q, f, g) ==
  /\ \A p \in 1..Len(F) : f[p] \in 1..n /\ g[p] \in 1..Len(q[f[p]]) /\ F[p] = q[f[p]][g[p]]
  /\ \A p, r \in 1..Len(F) : p < r => f[p] < f[r] \/ (f[p] = f[r] /\ g[p] < g[r])
  /\ \A j \in 1..n : \A k \in 1..Len(q[j]) : \E p \in 1..Len(F) : f[p] = j /\ g[p] = k

LEMMA OriginStep ==
  ASSUME NEW S, NEW q \in Seq(Seq(S)), NEW n \in 0..Len(q) - 1, NEW F \in Seq(S),
         NEW f, NEW g, Origin(n, F, q, f, g)
  PROVE  \E f2, g2 : Origin(n + 1, F \o q[n + 1], q, f2, g2)
  <1> DEFINE m == Len(F)
             x == q[n + 1]
             l == Len(x)
             F2 == F \o x
             f2 == [p \in 1..m + l |-> IF p <= m THEN f[p] ELSE n + 1]
             g2 == [p \in 1..m + l |-> IF p <= m THEN g[p] ELSE p - m]
  <1>1. n \in Nat /\ n + 1 \in 1..Len(q) /\ x \in Seq(S) /\ m \in Nat /\ l \in Nat
    <2>1. Len(q) \in Nat /\ Len(F) \in Nat
      BY LenProperties
    <2>2. n + 1 \in 1..Len(q) /\ n \in Nat
      BY <2>1
    <2>3. q[n + 1] \in Seq(S)
      BY <2>2, ElementOfSeq
    <2> QED
      BY <2>1, <2>2, <2>3, LenProperties
  <1>2. /\ Len(F2) = m + l
        /\ \A p \in 1..m : F2[p] = F[p]
        /\ \A p \in m + 1..m + l : F2[p] = x[p - m]
    <2>1. Len(F2) = m + l /\ \A i \in 1..m + l : F2[i] = IF i <= m THEN F[i] ELSE x[i - m]
      BY <1>1, ConcatProperties
    <2> QED
      BY <1>1, <2>1
  <1>3. /\ \A p \in 1..m : f2[p] = f[p] /\ g2[p] = g[p]
        /\ \A p \in m + 1..m + l : f2[p] = n + 1 /\ g2[p] = p - m
    BY <1>1
  <1> HIDE DEF F2, f2, g2, m, l
  <1>4. ASSUME NEW p \in 1..m + l
        PROVE  f2[p] \in 1..n + 1 /\ g2[p] \in 1..Len(q[f2[p]]) /\ F2[p] = q[f2[p]][g2[p]]
    <2>1. CASE p \in 1..m
      <3>1. f[p] \in 1..n /\ g[p] \in 1..Len(q[f[p]]) /\ F[p] = q[f[p]][g[p]]
        BY <2>1 DEF Origin, m
      <3>2. f[p] \in 1..n + 1
        BY <1>1, <3>1
      <3> QED
        BY <1>2, <1>3, <2>1, <3>1, <3>2
    <2>2. CASE p \notin 1..m
      <3>1. p \in m + 1..m + l /\ p - m \in 1..l
        BY <1>1, <2>2
      <3>2. f2[p] = n + 1 /\ g2[p] = p - m /\ F2[p] = x[p - m]
        BY <1>2, <1>3, <3>1
      <3>3. n + 1 \in 1..n + 1 /\ q[n + 1] = x /\ l = Len(x)
        BY <1>1 DEF l
      <3> HIDE DEF x
      <3> QED
        BY <3>1, <3>2, <3>3
    <2> QED
      BY <2>1, <2>2
  <1>5. ASSUME NEW p \in 1..m + l, NEW r \in 1..m + l, p < r
        PROVE  f2[p] < f2[r] \/ (f2[p] = f2[r] /\ g2[p] < g2[r])
    <2>1. CASE r \in 1..m
      <3>1. p \in 1..m
        BY <1>1, <1>5, <2>1
      <3> QED
        BY <1>3, <1>5, <2>1, <3>1 DEF Origin, m
    <2>2. CASE r \notin 1..m /\ p \in 1..m
      <3>1. r \in m + 1..m + l /\ f[p] \in 1..n
        BY <1>1, <2>2 DEF Origin, m
      <3> QED
        BY <1>1, <1>3, <2>2, <3>1
    <2>3. CASE r \notin 1..m /\ p \notin 1..m
      <3>1. r \in m + 1..m + l /\ p \in m + 1..m + l
        BY <1>1, <2>3
      <3> QED
        BY <1>1, <1>3, <1>5, <3>1
    <2> QED
      BY <2>1, <2>2, <2>3
  <1>6. ASSUME NEW j \in 1..n + 1, NEW k \in 1..Len(q[j])
        PROVE  \E p \in 1..m + l : f2[p] = j /\ g2[p] = k
    <2>1. CASE j \in 1..n
      <3>1. PICK p \in 1..m : f[p] = j /\ g[p] = k
        BY <2>1 DEF Origin, m
      <3>2. p \in 1..m + l
        BY <1>1
      <3> QED
        BY <1>3, <3>1, <3>2
    <2>2. CASE j \notin 1..n
      <3>1. j = n + 1 /\ k \in 1..l
        BY <1>1, <2>2 DEF l
      <3>2. m + k \in 1..m + l /\ m + k \in m + 1..m + l /\ (m + k) - m = k
        BY <1>1, <3>1
      <3> QED
        BY <1>3, <3>1, <3>2
    <2> QED
      BY <2>1, <2>2
  <1>7. Origin(n + 1, F2, q, f2, g2)
    BY <1>2, <1>4, <1>5, <1>6 DEF Origin
  <1> QED
    BY <1>7 DEF F2

LEMMA FlattenOrigin ==
  ASSUME NEW S, NEW q \in Seq(Seq(S))
  PROVE  \E f, g : Origin(Len(q), FlattenSeq(q), q, f, g)
  <1>1. PICK h : Flattens(q, h)
    BY FlattensExists
  <1> DEFINE n == Len(q)
             T == {i \in 0..n : \E f, g : Origin(i, h[i], q, f, g)}
  <1>2. n \in Nat
    BY LenProperties
  <1>3. 0 \in T
    <2>1. h[0] = <<>> /\ Len(<<>>) = 0
      BY <1>1, EmptySeq DEF Flattens
    <2>2. Origin(0, h[0], q, <<>>, <<>>)
      BY <2>1 DEF Origin
    <2> QED
      BY <1>2, <2>2
  <1>4. ASSUME NEW i \in 0..n - 1, i \in T PROVE i + 1 \in T
    <2>1. i \in 0..n /\ i + 1 \in 1..n /\ i + 1 \in 0..n /\ (i + 1) - 1 = i
      BY <1>2
    <2>2. PICK f, g : Origin(i, h[i], q, f, g)
      BY <1>4
    <2>3. h[i] \in Seq(S)
      BY <1>1, <2>1, FlattensType
    <2>4. h[i + 1] = h[i] \o q[i + 1]
      BY <1>1, <2>1 DEF Flattens
    <2>5. \E f2, g2 : Origin(i + 1, h[i] \o q[i + 1], q, f2, g2)
      BY <2>2, <2>3, OriginStep
    <2> QED
      BY <2>1, <2>4, <2>5
  <1> HIDE DEF T
  <1>5. \A i \in 0..n - 1 : i \in T => i + 1 \in T
    BY <1>4
  <1> HIDE DEF n
  <1>6. \A i \in 0..n : i \in T
    BY <1>2, <1>3, <1>5, Induction
  <1>7. n \in T
    BY <1>2, <1>6
  <1>8. FlattenSeq(q) = h[n]
    BY <1>1, FlattensIsFlatten DEF n
  <1> QED
    BY <1>7, <1>8 DEF T, n

\* Singles, flattened.
LEMMA FlattenSingles ==
  ASSUME NEW S, NEW s \in Seq(S)
  PROVE  FlattenSeq([i \in 1..Len(s) |-> <<s[i]>>]) = s
  <1> DEFINE n == Len(s)
             q == [i \in 1..n |-> <<s[i]>>]
             g == [i \in 0..n |-> SubSeq(s, 1, i)]
  <1>1. n \in Nat /\ \A i \in 1..n : s[i] \in S
    BY LenProperties, ElementOfSeq
  <1>2. q \in Seq(Seq(S)) /\ Len(q) = n
    <2>1. \A i \in 1..n : <<s[i]>> \in Seq(S)
      BY <1>1
    <2> QED
      BY <1>1, <2>1, IsASeq
  <1>3. g[0] = <<>>
    BY <1>1, SubSeqEmpty
  <1>4. ASSUME NEW i \in 1..n PROVE g[i] = g[i - 1] \o q[i]
    <2>1. i - 1 \in 0..n /\ i \in 0..n /\ 1 \in 1..Len(s) + 1 /\ i \in 1..Len(s) /\ 1 <= i
      BY <1>1
    <2>2. g[i] = SubSeq(s, 1, i) /\ g[i - 1] = SubSeq(s, 1, i - 1) /\ q[i] = <<s[i]>>
      BY <2>1
    <2> HIDE DEF g, q
    <2>3. SubSeq(s, 1, i) = Append(SubSeq(s, 1, i - 1), s[i])
      BY <1>1, <2>1, SubSeqRecursiveSecond
    <2>4. SubSeq(s, 1, i - 1) \in Seq(S)
      BY <1>1, <2>1, SubSeqProperties
    <2>5. Append(SubSeq(s, 1, i - 1), s[i]) = SubSeq(s, 1, i - 1) \o <<s[i]>>
      BY <1>1, <2>4, AppendIsConcat
    <2> QED
      BY <2>2, <2>3, <2>5
  <1>5. Flattens(q, g)
    BY <1>2, <1>3, <1>4 DEF Flattens
  <1>6. FlattenSeq(q) = g[Len(q)]
    BY <1>2, <1>5, FlattensIsFlatten
  <1>7. g[n] = s
    BY <1>1, SubSeqFull
  <1> QED
    BY <1>2, <1>6, <1>7

-----------------------------------------------------------------------------
(* KeepAt: a part of a list, in its order. *)

\* t is what s has at some of the positions in at, and f says where.
Part(t, s, at, f) ==
  /\ \A p \in 1..Len(t) : f[p] \in 1..Len(s) /\ f[p] \in at /\ t[p] = s[f[p]]
  /\ \A p, r \in 1..Len(t) : p < r => f[p] < f[r]

\* t has all of them.
Whole(t, s, at, f) == \A i \in 1..Len(s) : i \in at => \E p \in 1..Len(t) : f[p] = i

LEMMA KeepAtIs ==
  ASSUME NEW S, NEW s \in Seq(S), NEW at
  PROVE  /\ KeepAt(s, at) \in Seq(S)
         /\ \E f : Part(KeepAt(s, at), s, at, f) /\ Whole(KeepAt(s, at), s, at, f)
  <1> DEFINE n == Len(s)
             q == [i \in 1..n |-> IF i \in at THEN <<s[i]>> ELSE <<>>]
             t == FlattenSeq(q)
  <1>1. n \in Nat /\ DOMAIN s = 1..n /\ \A i \in 1..n : s[i] \in S
    BY LenProperties, ElementOfSeq
  <1>2. q \in Seq(Seq(S)) /\ Len(q) = n
    <2>1. \A i \in 1..n : (IF i \in at THEN <<s[i]>> ELSE <<>>) \in Seq(S)
      BY <1>1, EmptySeq
    <2> QED
      BY <1>1, <2>1, IsASeq
  <1>3. /\ KeepAt(s, at) = t /\ t \in Seq(S)
        /\ \A i \in 1..n : q[i] = IF i \in at THEN <<s[i]>> ELSE <<>>
    BY <1>1, <1>2, FlattenType DEF KeepAt
  <1>4. PICK f, g : Origin(n, t, q, f, g)
    BY <1>2, FlattenOrigin
  <1> HIDE DEF q, n, t
  <1>5. \A i \in 1..n : /\ i \in at => Len(q[i]) = 1 /\ q[i][1] = s[i]
                        /\ i \notin at => Len(q[i]) = 0
    <2> TAKE i \in 1..n
    <2>1. i \in at => q[i] = <<s[i]>>
      BY <1>3
    <2>2. i \notin at => q[i] = <<>>
      BY <1>3
    <2>3. Len(<<s[i]>>) = 1 /\ <<s[i]>>[1] = s[i] /\ Len(<<>>) = 0
      OBVIOUS
    <2> QED
      BY <2>1, <2>2, <2>3
  <1>6. ASSUME NEW p \in 1..Len(t)
        PROVE  f[p] \in 1..n /\ f[p] \in at /\ g[p] = 1 /\ t[p] = s[f[p]]
    <2>1. f[p] \in 1..n /\ g[p] \in 1..Len(q[f[p]]) /\ t[p] = q[f[p]][g[p]]
      BY <1>4 DEF Origin
    <2>2. f[p] \in at
      BY <1>5, <2>1
    <2>3. Len(q[f[p]]) = 1 /\ q[f[p]][1] = s[f[p]]
      BY <1>5, <2>1, <2>2
    <2>4. g[p] = 1
      BY <2>1, <2>3
    <2> QED
      BY <2>1, <2>2, <2>3, <2>4
  <1>7. ASSUME NEW p \in 1..Len(t), NEW r \in 1..Len(t), p < r PROVE f[p] < f[r]
    <2>1. f[p] < f[r] \/ (f[p] = f[r] /\ g[p] < g[r])
      BY <1>4, <1>7 DEF Origin
    <2> QED
      BY <1>6, <2>1
  <1>8. ASSUME NEW i \in 1..n, i \in at PROVE \E p \in 1..Len(t) : f[p] = i
    <2>1. 1 \in 1..Len(q[i])
      BY <1>5, <1>8
    <2> QED
      BY <1>4, <2>1 DEF Origin
  <1>9. Part(t, s, at, f)
    BY <1>6, <1>7 DEF Part, n
  <1>10. Whole(t, s, at, f)
    BY <1>8 DEF Whole, n
  <1> QED
    BY <1>3, <1>9, <1>10

LEMMA KeepAll ==
  ASSUME NEW S, NEW s \in Seq(S), NEW at, \A i \in 1..Len(s) : i \in at
  PROVE  KeepAt(s, at) = s
  <1>1. DOMAIN s = 1..Len(s)
    BY LenProperties
  <1>2. [i \in 1..Len(s) |-> IF i \in at THEN <<s[i]>> ELSE <<>>] = [i \in 1..Len(s) |-> <<s[i]>>]
    OBVIOUS
  <1> QED
    BY <1>1, <1>2, FlattenSingles DEF KeepAt

LEMMA KeepNone ==
  ASSUME NEW S, NEW s \in Seq(S), NEW at, \A i \in 1..Len(s) : i \notin at
  PROVE  KeepAt(s, at) = <<>>
  <1> DEFINE t == KeepAt(s, at)
  <1>1. t \in Seq(S) /\ \E f : Part(t, s, at, f)
    BY KeepAtIs
  <1> HIDE DEF t
  <1>2. PICK f : Part(t, s, at, f)
    BY <1>1
  <1>3. Len(t) \in Nat
    BY <1>1, LenProperties
  <1>4. Len(t) = 0
    <2>1. SUFFICES ASSUME Len(t) # 0 PROVE FALSE
      OBVIOUS
    <2>2. 1 \in 1..Len(t)
      BY <1>3, <2>1
    <2> QED
      BY <1>2, <2>2 DEF Part
  <1>5. t = <<>>
    BY <1>1, <1>4, EmptySeq
  <1> QED
    BY <1>5 DEF t

\* A part has its members no earlier than the list does.
LEMMA PartLater ==
  ASSUME NEW S, NEW U, NEW s \in Seq(S), NEW t \in Seq(U), NEW at, NEW f, Part(t, s, at, f),
         NEW p \in 1..Len(t)
  PROVE  p <= f[p]
  <1> DEFINE n == Len(t)
             T == {i \in 0..n : i = 0 \/ i <= f[i]}
  <1>1. n \in Nat /\ Len(s) \in Nat
    BY LenProperties
  <1>2. ASSUME NEW i \in 0..n - 1, i \in T PROVE i + 1 \in T
    <2>1. i + 1 \in 1..n /\ i + 1 \in 0..n /\ (i # 0 => i \in 1..n) /\ i < i + 1
      BY <1>1
    <2>2. f[i + 1] \in 1..Len(s) /\ (i # 0 => f[i] < f[i + 1] /\ f[i] \in 1..Len(s))
      BY <2>1 DEF Part
    <2>3. i # 0 => i <= f[i]
      BY <1>2
    <2>4. i + 1 <= f[i + 1]
      BY <1>1, <2>1, <2>2, <2>3
    <2> QED
      BY <2>1, <2>4
  <1>3. 0 \in T
    BY <1>1
  <1>4. p \in 0..n /\ p # 0
    BY <1>1
  <1> HIDE DEF T
  <1>5. \A i \in 0..n - 1 : i \in T => i + 1 \in T
    BY <1>2
  <1> HIDE DEF n
  <1>6. \A i \in 0..n : i \in T
    BY <1>1, <1>3, <1>5, Induction
  <1>7. p \in T
    BY <1>4, <1>6
  <1> QED
    BY <1>4, <1>7 DEF T

-----------------------------------------------------------------------------
(* Messages, and what the governor makes of one. *)

CallRecord == [id : Nat, key : Nat, tool : Tools, named : BOOLEAN]
Msg ==
  [role : {"user", "assistant", "tool"}, text : Seq(Nat), calls : Seq(CallRecord),
   id : Nat, key : Nat, tool : Tools \union {""}, shown : {"full", "lost", "summary"},
   weight : Nat, note : {"", "command", "delivery"}]

\* n is m but for its weight and how it is shown.
Like(n, m) ==
  /\ n.role = m.role /\ n.text = m.text /\ n.calls = m.calls /\ n.id = m.id /\ n.key = m.key
  /\ n.tool = m.tool /\ n.note = m.note

LEMMA LikeFacts ==
  ASSUME NEW n, NEW m, Like(n, m)
  PROVE  /\ IsTool(n) <=> IsTool(m)
         /\ IsUser(n) <=> IsUser(m)
         /\ IsAssistant(n) <=> IsAssistant(m)
         /\ Ids(n) = Ids(m)
BY DEF Like, IsTool, IsUser, IsAssistant, Ids

LEMMA SummaryIs ==
  ASSUME NEW m \in Msg
  PROVE  /\ Summary(m) \in Msg /\ Like(Summary(m), m)
         /\ Summary(m).shown = "summary" /\ Summary(m).weight = 1
BY DEF Summary, Msg, Like

LEMMA NormalizedIs ==
  ASSUME NEW m \in Msg
  PROVE  /\ Normalized(m) \in Msg /\ Like(Normalized(m), m)
         /\ Normalized(m).shown = m.shown
         /\ Normalized(Normalized(m)) = Normalized(m)
         /\ m.weight <= 1 => Normalized(m).weight <= 1
<1>1. ResultLimit \in Nat
  BY BudgetAssumption
<1>2. CASE IsTool(m) /\ m.tool # "read" /\ m.weight > ResultLimit
  <2> DEFINE n == [m EXCEPT !.weight = ResultLimit]
  <2>1. Normalized(m) = n
    BY <1>2 DEF Normalized
  <2>2. n \in Msg /\ n.weight = ResultLimit /\ Like(n, m) /\ n.shown = m.shown
    BY <1>1 DEF Msg, Like
  <2>3. Normalized(n) = n
    <3>1. ~ (n.weight > ResultLimit)
      BY <1>1, <2>2
    <3> HIDE DEF n
    <3> QED
      BY <3>1 DEF Normalized
  <2>4. m.weight \in Nat
    BY DEF Msg
  <2> HIDE DEF n
  <2> QED
    BY <1>1, <1>2, <2>1, <2>2, <2>3, <2>4
<1>3. CASE ~ (IsTool(m) /\ m.tool # "read" /\ m.weight > ResultLimit)
  <2>1. Normalized(m) = m
    BY <1>3 DEF Normalized
  <2> QED
    BY <2>1 DEF Like
<1> QED
  BY <1>2, <1>3

LEMMA LostIs ==
  ASSUME NEW c \in CallRecord
  PROVE  /\ Lost(c) \in Msg /\ IsTool(Lost(c)) /\ Lost(c).calls = <<>> /\ Lost(c).text = <<>>
         /\ Lost(c).id = c.id /\ Lost(c).key = c.key /\ Lost(c).shown = "lost"
         /\ Lost(c).weight = 1
<1>1. <<>> \in Seq(Nat) /\ <<>> \in Seq(CallRecord)
  BY EmptySeq
<1> QED
  BY <1>1 DEF Lost, Result, Message, Msg, CallRecord, IsTool

\* What is left of a message without its nameless calls.
LEMMA NamedOnlyIs ==
  ASSUME NEW m \in Msg
  PROVE  LET n == NamedOnly(m) IN
         /\ n \in Msg /\ n.role = m.role /\ n.text = m.text /\ n.id = m.id /\ n.key = m.key
         /\ n.tool = m.tool /\ n.shown = m.shown /\ n.weight = m.weight /\ n.note = m.note
         /\ \E f : Part(n.calls, m.calls, {k \in DOMAIN m.calls : m.calls[k].named}, f)
         /\ \A k \in 1..Len(m.calls) : m.calls[k].named =>
              \E p \in 1..Len(n.calls) : n.calls[p] = m.calls[k]
         /\ (\A k \in 1..Len(m.calls) : m.calls[k].named) => n = m
<1> DEFINE at == {k \in DOMAIN m.calls : m.calls[k].named}
           kept == KeepAt(m.calls, at)
           n == NamedOnly(m)
<1>1. m.calls \in Seq(CallRecord)
  BY DEF Msg
<1>2. DOMAIN m.calls = 1..Len(m.calls)
  BY <1>1, LenProperties
<1>3. kept \in Seq(CallRecord) /\ \E f : Part(kept, m.calls, at, f) /\ Whole(kept, m.calls, at, f)
  <2> HIDE DEF at
  <2> QED
    BY <1>1, KeepAtIs
<1>4. n = [m EXCEPT !.calls = kept]
  BY DEF NamedOnly
<1>5. (\A k \in 1..Len(m.calls) : m.calls[k].named) => kept = m.calls
  <2> SUFFICES ASSUME \A k \in 1..Len(m.calls) : m.calls[k].named PROVE kept = m.calls
    OBVIOUS
  <2>1. \A k \in 1..Len(m.calls) : k \in at
    BY <1>2
  <2> HIDE DEF at
  <2> QED
    BY <1>1, <2>1, KeepAll
<1>6. PICK f : Part(kept, m.calls, at, f) /\ Whole(kept, m.calls, at, f)
  BY <1>3
<1>7. \A k \in 1..Len(m.calls) : m.calls[k].named => \E p \in 1..Len(kept) : kept[p] = m.calls[k]
  <2> SUFFICES ASSUME NEW k \in 1..Len(m.calls), m.calls[k].named
               PROVE  \E p \in 1..Len(kept) : kept[p] = m.calls[k]
    OBVIOUS
  <2>1. k \in at
    BY <1>2
  <2> HIDE DEF at, kept
  <2>2. PICK p \in 1..Len(kept) : f[p] = k
    BY <1>6, <2>1 DEF Whole
  <2> QED
    BY <1>6, <2>2 DEF Part
<1>8. /\ n \in Msg /\ n.role = m.role /\ n.text = m.text /\ n.id = m.id /\ n.key = m.key
      /\ n.tool = m.tool /\ n.shown = m.shown /\ n.weight = m.weight /\ n.note = m.note
      /\ n.calls = kept
  <2> HIDE DEF kept, n
  <2> QED
    BY <1>3, <1>4 DEF Msg
<1>9. kept = m.calls => n = m
  <2> HIDE DEF kept, n
  <2> QED
    BY <1>4 DEF Msg
<1> HIDE DEF kept, n
<1> QED
  BY <1>5, <1>6, <1>7, <1>8, <1>9 DEF n

\* A recursive function over the positions of a list.
Runs(u, n, base, F) == u[0] = base /\ \A i \in 1..n : u[i] = F[<<i, u[i - 1]>>]

LEMMA Recursion ==
  ASSUME NEW n \in Nat, NEW A, NEW base \in A, NEW F \in [(1..n) \X A -> A]
  PROVE  \E u \in [0..n -> A] : Runs(u, n, base, F)
<1> DEFINE Upto(k, u) == /\ \A i \in 0..k : u[i] \in A
                         /\ u[0] = base
                         /\ \A i \in 1..k : u[i] = F[<<i, u[i - 1]>>]
           T == {k \in 0..n : \E u : Upto(k, u)}
<1>1. 0 \in T
  <2>1. Upto(0, [i \in 0..0 |-> base])
    OBVIOUS
  <2> HIDE DEF Upto
  <2> QED
    BY <2>1
<1>2. ASSUME NEW k \in 0..n - 1, k \in T PROVE k + 1 \in T
  <2>1. PICK u : Upto(k, u)
    BY <1>2
  <2>2. k \in Nat /\ k + 1 \in 0..n /\ k + 1 \in 1..n /\ (k + 1) - 1 = k /\ u[k] \in A
    BY <2>1
  <2> DEFINE last == F[<<k + 1, u[k]>>]
             h == [i \in 0..k + 1 |-> IF i = k + 1 THEN last ELSE u[i]]
  <2>3. last \in A
    BY <2>2
  <2> HIDE DEF last
  <2>4. (\A i \in 0..k : h[i] = u[i]) /\ h[k + 1] = last
    BY <2>2
  <2> HIDE DEF h
  <2>5. \A i \in 0..k + 1 : h[i] \in A
    <3> TAKE i \in 0..k + 1
    <3>1. i = k + 1 \/ i \in 0..k
      BY <2>2
    <3> QED
      BY <2>1, <2>3, <2>4, <3>1
  <2>6. h[0] = base
    BY <2>1, <2>2, <2>4
  <2>7. ASSUME NEW i \in 1..k + 1 PROVE h[i] = F[<<i, h[i - 1]>>]
    <3>1. CASE i = k + 1
      <4>1. i - 1 = k /\ k \in 0..k
        BY <2>2, <3>1
      <4> QED
        BY <2>4, <3>1, <4>1 DEF last
    <3>2. CASE i # k + 1
      <4>1. i \in 1..k /\ i \in 0..k /\ i - 1 \in 0..k
        BY <2>2, <3>2
      <4> QED
        BY <2>1, <2>4, <4>1
    <3> QED
      BY <3>1, <3>2
  <2>8. Upto(k + 1, h)
    BY <2>5, <2>6, <2>7
  <2> HIDE DEF Upto
  <2> QED
    BY <2>2, <2>8
<1> HIDE DEF T
<1>3. \A k \in 0..n - 1 : k \in T => k + 1 \in T
  BY <1>2
<1>4. \A k \in 0..n : k \in T
  BY <1>1, <1>3, Induction
<1>5. n \in T
  BY <1>4
<1>6. PICK u : Upto(n, u)
  BY <1>5 DEF T
<1> DEFINE w == [i \in 0..n |-> u[i]]
<1>7. w \in [0..n -> A] /\ \A i \in 0..n : w[i] = u[i]
  BY <1>6
<1> HIDE DEF w
<1>8. w[0] = base
  BY <1>6, <1>7
<1>9. \A i \in 1..n : w[i] = F[<<i, w[i - 1]>>]
  <2> TAKE i \in 1..n
  <2>1. i \in 0..n /\ i - 1 \in 0..n
    OBVIOUS
  <2> QED
    BY <1>6, <1>7, <2>1
<1>10. Runs(w, n, base, F)
  BY <1>8, <1>9 DEF Runs
<1> QED
  BY <1>7, <1>10

-----------------------------------------------------------------------------
(* Parts of a list from a position on, and what they weigh. *)

LEMMA FromIs ==
  ASSUME NEW S, NEW s \in Seq(S), NEW i \in 1..Len(s) + 1
  PROVE  /\ From(s, i) \in Seq(S) /\ Len(From(s, i)) = Len(s) - i + 1
         /\ \A p \in 1..Len(s) - i + 1 : From(s, i)[p] = s[p + i - 1]
<1>1. Len(s) \in Nat /\ i \in Nat
  BY LenProperties
<1>2. CASE i <= Len(s)
  <2>1. i \in 1..Len(s) + 1 /\ Len(s) \in i - 1..Len(s) /\ Len(s) - i + 1 \in Nat
    BY <1>1, <1>2
  <2> QED
    BY <1>1, <2>1, SubSeqProperties DEF From
<1>3. CASE i = Len(s) + 1
  <2>1. Len(s) \in i - 1..Len(s) /\ Len(s) - i + 1 = 0
    BY <1>1, <1>3
  <2> QED
    BY <1>1, <2>1, SubSeqProperties DEF From
<1> QED
  BY <1>1, <1>2, <1>3

LEMMA FromFirst ==
  ASSUME NEW S, NEW s \in Seq(S)
  PROVE  From(s, 1) = s
BY SubSeqFull DEF From

\* g gives the weight of what a list begins with.
Weighs(s, g) ==
  /\ \A i \in 0..Len(s) : g[i] \in Nat
  /\ g[0] = 0
  /\ \A i \in 1..Len(s) : g[i] = g[i - 1] + s[i].weight

LEMMA WeighsExists ==
  ASSUME NEW s \in Seq(Msg)
  PROVE  \E g \in [0..Len(s) -> Nat] : Weighs(s, g)
<1> DEFINE n == Len(s)
           F == [p \in (1..n) \X Nat |-> p[2] + s[p[1]].weight]
<1>1. n \in Nat /\ \A i \in 1..n : s[i].weight \in Nat
  <2>1. n \in Nat /\ \A i \in 1..n : s[i] \in Msg
    BY LenProperties, ElementOfSeq
  <2> QED
    BY <2>1 DEF Msg
<1>2. F \in [(1..n) \X Nat -> Nat]
  BY <1>1
<1>3. \A i \in 1..n, x \in Nat : F[<<i, x>>] = x + s[i].weight
  OBVIOUS
<1> HIDE DEF F
<1>4. PICK u \in [0..n -> Nat] : u[0] = 0 /\ \A i \in 1..n : u[i] = F[<<i, u[i - 1]>>]
  <2> DEFINE A == Nat
             base == 0
  <2>1. n \in Nat /\ base \in A /\ F \in [(1..n) \X A -> A]
    BY <1>1, <1>2
  <2> HIDE DEF n, A, base
  <2>2. \E u \in [0..n -> A] : Runs(u, n, base, F)
    BY <2>1, Recursion
  <2> QED
    BY <2>2 DEF A, base, Runs
<1>5. ASSUME NEW i \in 1..n PROVE u[i] = u[i - 1] + s[i].weight
  <2>1. i - 1 \in 0..n /\ u[i - 1] \in Nat
    BY <1>1
  <2> QED
    BY <1>3, <1>4, <2>1
<1>6. Weighs(s, u)
  BY <1>4, <1>5 DEF Weighs
<1> QED
  BY <1>6

LEMMA WeighsIsWeight ==
  ASSUME NEW s \in Seq(Msg), NEW g, Weighs(s, g)
  PROVE  Weight(s) = g[Len(s)]
<1> DEFINE n == Len(s)
           G(f) == [i \in 0..n |-> IF i = 0 THEN 0 ELSE f[i - 1] + s[i].weight]
           f == CHOOSE f : f = G(f)
           h == [i \in 0..n |-> g[i]]
<1>1. n \in Nat
  BY LenProperties
<1>2. Weight(s) = f[n]
  BY DEF Weight, Fold
<1>3. h = G(h)
  <2>1. ASSUME NEW i \in 0..n PROVE g[i] = IF i = 0 THEN 0 ELSE h[i - 1] + s[i].weight
    <3>1. CASE i = 0
      BY <3>1 DEF Weighs
    <3>2. CASE i # 0
      <4>1. i \in 1..n /\ i - 1 \in 0..n
        BY <1>1, <3>2
      <4> QED
        BY <3>2, <4>1 DEF Weighs
    <3> QED
      BY <3>1, <3>2
  <2> QED
    BY <2>1
<1>4. f = G(f)
  <2> HIDE DEF h, G
  <2> QED
    BY <1>3
<1>5. \A i \in 0..n : f[i] = IF i = 0 THEN 0 ELSE f[i - 1] + s[i].weight
  <2> HIDE DEF f
  <2> QED
    BY <1>4
<1> DEFINE T == {k \in 0..n : f[k] = g[k]}
<1> HIDE DEF f
<1>6. 0 \in T
  BY <1>1, <1>5 DEF Weighs
<1>7. ASSUME NEW k \in 0..n - 1, k \in T PROVE k + 1 \in T
  <2>1. k + 1 \in 1..n /\ k + 1 \in 0..n /\ (k + 1) - 1 = k /\ k + 1 # 0 /\ f[k] = g[k]
    BY <1>1, <1>7
  <2>2. f[k + 1] = f[k] + s[k + 1].weight
    BY <1>5, <2>1
  <2>3. g[k + 1] = g[k] + s[k + 1].weight
    BY <2>1 DEF Weighs
  <2> QED
    BY <2>1, <2>2, <2>3
<1> HIDE DEF T
<1>8. \A k \in 0..n - 1 : k \in T => k + 1 \in T
  BY <1>7
<1> HIDE DEF n
<1>9. \A k \in 0..n : k \in T
  BY <1>1, <1>6, <1>8, Induction
<1>10. n \in T
  BY <1>1, <1>9
<1> QED
  BY <1>2, <1>10 DEF T, n

LEMMA WeightType ==
  ASSUME NEW s \in Seq(Msg)
  PROVE  Weight(s) \in Nat /\ Estimate(s) \in Nat
<1>1. PICK g : Weighs(s, g)
  BY WeighsExists
<1>2. Weight(s) = g[Len(s)] /\ Len(s) \in 0..Len(s)
  BY <1>1, WeighsIsWeight, LenProperties
<1>3. Weight(s) \in Nat
  BY <1>1, <1>2 DEF Weighs
<1> QED
  BY <1>3, BudgetAssumption DEF Estimate

\* A later end weighs less.
LEMMA WeightOfEnd ==
  ASSUME NEW s \in Seq(Msg), NEW i \in 1..Len(s), NEW j \in 1..Len(s) + 1, i <= j
  PROVE  Weight(From(s, j)) <= Weight(From(s, i))
<1> DEFINE n == Len(s)
<1>1. n \in Nat
  BY LenProperties
<1>2. PICK u : Weighs(s, u)
  BY WeighsExists
<1>3. ASSUME NEW k \in 1..n + 1 PROVE Weight(From(s, k)) = u[n] - u[k - 1]
  <2> DEFINE t == From(s, k)
             m == n - k + 1
             g == [p \in 0..m |-> u[p + k - 1] - u[k - 1]]
  <2>1. t \in Seq(Msg) /\ Len(t) = m /\ \A p \in 1..m : t[p] = s[p + k - 1]
    BY FromIs
  <2>2. m \in Nat /\ k \in Nat /\ k - 1 \in 0..n /\ u[k - 1] \in Nat
    BY <1>1, <1>2 DEF Weighs
  <2>3. \A p \in 0..m : p + k - 1 \in 0..n /\ u[p + k - 1] \in Nat /\ g[p] = u[p + k - 1] - u[k - 1]
    <3> TAKE p \in 0..m
    <3>1. p + k - 1 \in 0..n
      BY <1>1, <2>2
    <3> QED
      BY <1>2, <3>1 DEF Weighs
  <2>4. \A p \in 1..m : s[p + k - 1].weight \in Nat /\ u[p + k - 1] = u[(p - 1) + k - 1] + s[p + k - 1].weight
    <3> TAKE p \in 1..m
    <3>1. p + k - 1 \in 1..n /\ (p + k - 1) - 1 = (p - 1) + k - 1
      BY <1>1, <2>2
    <3>2. s[p + k - 1] \in Msg
      BY <3>1, ElementOfSeq
    <3> QED
      BY <1>2, <3>1, <3>2 DEF Weighs, Msg
  <2> HIDE DEF g, t
  <2>5. \A p \in 1..m : g[p] = g[p - 1] + t[p].weight
    <3> TAKE p \in 1..m
    <3>1. p - 1 \in 0..m /\ p \in 0..m
      BY <2>2
    <3>2. g[p] = u[p + k - 1] - u[k - 1] /\ g[p - 1] = u[(p - 1) + k - 1] - u[k - 1]
      BY <2>3, <3>1
    <3>3. u[(p - 1) + k - 1] \in Nat
      BY <2>3, <3>1
    <3>4. t[p].weight \in Nat /\ u[p + k - 1] = u[(p - 1) + k - 1] + t[p].weight
      BY <2>1, <2>4
    <3> DEFINE x == u[(p - 1) + k - 1]
               y == u[k - 1]
               w == t[p].weight
    <3>5. x \in Nat /\ y \in Nat /\ w \in Nat
      BY <2>2, <3>3, <3>4
    <3>6. g[p] = (x + w) - y /\ g[p - 1] = x - y
      BY <3>2, <3>4
    <3> HIDE DEF x, y, w
    <3>7. (x + w) - y = (x - y) + w
      BY ONLY <3>5
    <3> QED
      BY <3>6, <3>7 DEF w
  <2>6. g[0] = 0
    <3>1. 0 \in 0..m /\ 0 + k - 1 = k - 1
      BY <2>2
    <3> QED
      BY <2>2, <2>3, <3>1
  <2>7. \A p \in 0..m : g[p] \in Nat
    <3> DEFINE T == {p \in 0..m : g[p] \in Nat}
    <3>1. 0 \in T
      BY <2>2, <2>6
    <3>2. ASSUME NEW p \in 0..m - 1, p \in T PROVE p + 1 \in T
      <4>1. p + 1 \in 1..m /\ p + 1 \in 0..m /\ (p + 1) - 1 = p
        BY <2>2
      <4>2. t[p + 1].weight \in Nat
        BY <2>1, <2>4, <4>1
      <4> QED
        BY <2>5, <3>2, <4>1, <4>2
    <3> HIDE DEF T, m
    <3>3. \A p \in 0..m - 1 : p \in T => p + 1 \in T
      BY <3>2
    <3>4. \A p \in 0..m : p \in T
      BY <2>2, <3>1, <3>3, Induction
    <3> QED
      BY <3>4 DEF T
  <2>8. Weighs(t, g)
    BY <2>1, <2>5, <2>6, <2>7 DEF Weighs
  <2>9. Weight(t) = g[m]
    BY <2>1, <2>8, WeighsIsWeight
  <2>10. m \in 0..m /\ m + k - 1 = n
    BY <1>1, <2>2
  <2> QED
    BY <2>3, <2>9, <2>10 DEF t
<1>4. \A k \in 0..n : k >= i - 1 => u[i - 1] <= u[k]
  <2> DEFINE T == {k \in 0..n : k >= i - 1 => u[i - 1] <= u[k]}
  <2>1. \A k \in 1..n : u[k] \in Nat /\ u[k - 1] \in Nat /\ u[k - 1] <= u[k]
    <3> TAKE k \in 1..n
    <3>1. s[k].weight \in Nat
      <4>1. s[k] \in Msg
        BY ElementOfSeq
      <4> QED
        BY <4>1 DEF Msg
    <3>2. k - 1 \in 0..n /\ k \in 0..n
      BY <1>1
    <3> QED
      BY <1>2, <3>1, <3>2 DEF Weighs
  <2>2. 0 \in T
    <3>1. 0 >= i - 1 => i - 1 = 0
      OBVIOUS
    <3>2. u[0] = 0
      BY <1>2 DEF Weighs
    <3> QED
      BY <1>1, <3>1, <3>2
  <2>3. ASSUME NEW k \in 0..n - 1, k \in T PROVE k + 1 \in T
    <3>1. k + 1 \in 1..n /\ k + 1 \in 0..n /\ (k + 1) - 1 = k
      BY <1>1
    <3>2. u[k] \in Nat /\ u[k + 1] \in Nat /\ u[k] <= u[k + 1]
      BY <2>1, <3>1
    <3>3. i - 1 \in 0..n /\ u[i - 1] \in Nat
      BY <1>1, <1>2 DEF Weighs
    <3>4. CASE k >= i - 1
      BY <2>3, <3>1, <3>2, <3>3, <3>4
    <3>5. CASE k + 1 = i - 1
      BY <3>1, <3>2, <3>3, <3>5
    <3>6. CASE k + 1 < i - 1
      BY <3>1, <3>6
    <3> QED
      BY <3>4, <3>5, <3>6
  <2> HIDE DEF T
  <2>4. \A k \in 0..n - 1 : k \in T => k + 1 \in T
    BY <2>3
  <2> HIDE DEF n
  <2>5. \A k \in 0..n : k \in T
    BY <1>1, <2>2, <2>4, Induction
  <2> QED
    BY <2>5 DEF T
<1>5. j - 1 \in 0..n /\ j - 1 >= i - 1 /\ i \in 1..n + 1 /\ i - 1 \in 0..n /\ n \in 0..n
  BY <1>1
<1>6. u[i - 1] <= u[j - 1] /\ u[i - 1] \in Nat /\ u[j - 1] \in Nat /\ u[n] \in Nat
  BY <1>2, <1>4, <1>5 DEF Weighs
<1> QED
  BY <1>3, <1>5, <1>6

-----------------------------------------------------------------------------
(* The end of a list, perhaps without some messages that are no results. *)

Rest(t, s, f) ==
  /\ Part(t, s, 1..Len(s), f)
  /\ \A p \in 1..Len(t) : \A j \in 1..Len(s) :
       f[p] < j /\ IsTool(s[j]) => \E r \in 1..Len(t) : f[r] = j
RestOf(t, s) == t \in Seq(Msg) /\ \E f : Rest(t, s, f)

LEMMA RestFrom ==
  ASSUME NEW s \in Seq(Msg), NEW i \in 1..Len(s) + 1
  PROVE  RestOf(From(s, i), s)
<1> DEFINE t == From(s, i)
           n == Len(s)
           f == [p \in 1..n - i + 1 |-> p + i - 1]
<1>1. n \in Nat /\ i \in Nat
  BY LenProperties
<1>2. t \in Seq(Msg) /\ Len(t) = n - i + 1 /\ \A p \in 1..n - i + 1 : t[p] = s[p + i - 1]
  BY FromIs
<1>3. \A p \in 1..n - i + 1 : f[p] = p + i - 1 /\ f[p] \in 1..n
  BY <1>1
<1> HIDE DEF t, f
<1>4. \A p, r \in 1..n - i + 1 : p < r => f[p] < f[r]
  BY <1>1, <1>3
<1>5. ASSUME NEW p \in 1..n - i + 1, NEW j \in 1..n, f[p] < j
      PROVE  \E r \in 1..n - i + 1 : f[r] = j
  <2>1. j - i + 1 \in 1..n - i + 1 /\ (j - i + 1) + i - 1 = j
    BY <1>1, <1>3, <1>5
  <2> QED
    BY <1>3, <2>1
<1>6. Rest(t, s, f)
  BY <1>2, <1>3, <1>4, <1>5 DEF Rest, Part
<1> QED
  BY <1>2, <1>6 DEF RestOf, t

LEMMA RestSame ==
  ASSUME NEW s \in Seq(Msg)
  PROVE  RestOf(s, s)
<1>1. 1 \in 1..Len(s) + 1
  BY LenProperties
<1> QED
  BY <1>1, FromFirst, RestFrom

LEMMA RestKeep ==
  ASSUME NEW s \in Seq(Msg), NEW at, \A i \in 1..Len(s) : IsTool(s[i]) => i \in at
  PROVE  RestOf(KeepAt(s, at), s)
<1> DEFINE t == KeepAt(s, at)
<1>1. t \in Seq(Msg) /\ \E f : Part(t, s, at, f) /\ Whole(t, s, at, f)
  BY KeepAtIs
<1> HIDE DEF t
<1>2. PICK f : Part(t, s, at, f) /\ Whole(t, s, at, f)
  BY <1>1
<1>3. Rest(t, s, f)
  BY <1>2 DEF Rest, Part, Whole
<1> QED
  BY <1>1, <1>3 DEF RestOf, t

LEMMA RestTrans ==
  ASSUME NEW s \in Seq(Msg), NEW t, NEW w, RestOf(t, s), RestOf(w, t)
  PROVE  RestOf(w, s)
<1>1. PICK f : Rest(t, s, f)
  BY DEF RestOf
<1>2. PICK g : Rest(w, t, g)
  BY DEF RestOf
<1>3. Len(s) \in Nat /\ Len(t) \in Nat /\ Len(w) \in Nat
  BY LenProperties DEF RestOf
<1> DEFINE h == [p \in 1..Len(w) |-> f[g[p]]]
<1>4. \A p \in 1..Len(w) : g[p] \in 1..Len(t) /\ w[p] = t[g[p]]
  BY <1>2 DEF Rest, Part
<1>5. \A p \in 1..Len(w) : h[p] = f[g[p]] /\ h[p] \in 1..Len(s) /\ w[p] = s[h[p]]
  BY <1>1, <1>4 DEF Rest, Part
<1> HIDE DEF h
<1>6. \A p, r \in 1..Len(w) : p < r => h[p] < h[r]
  <2> TAKE p, r \in 1..Len(w)
  <2>1. p < r => g[p] < g[r]
    BY <1>2 DEF Rest, Part
  <2>2. g[p] < g[r] => f[g[p]] < f[g[r]]
    BY <1>1, <1>4 DEF Rest, Part
  <2> QED
    BY <1>5, <2>1, <2>2
<1>7. ASSUME NEW p \in 1..Len(w), NEW j \in 1..Len(s), h[p] < j, IsTool(s[j])
      PROVE  \E r \in 1..Len(w) : h[r] = j
  <2>1. g[p] \in 1..Len(t) /\ f[g[p]] < j
    BY <1>4, <1>5, <1>7
  <2>2. PICK q \in 1..Len(t) : f[q] = j
    BY <1>1, <1>7, <2>1 DEF Rest
  <2>3. g[p] < q
    <3>1. q < g[p] => f[q] < f[g[p]]
      BY <1>1, <2>1, <2>2 DEF Rest, Part
    <3>2. f[g[p]] \in 1..Len(s)
      BY <1>1, <2>1 DEF Rest, Part
    <3> QED
      BY <1>3, <2>1, <2>2, <3>1, <3>2
  <2>4. IsTool(t[q])
    BY <1>1, <1>7, <2>2 DEF Rest, Part
  <2>5. PICK r \in 1..Len(w) : g[r] = q
    BY <1>2, <2>2, <2>3, <2>4 DEF Rest
  <2> QED
    BY <1>5, <2>2, <2>5
<1>8. Rest(w, s, h)
  BY <1>5, <1>6, <1>7 DEF Rest, Part
<1> QED
  BY <1>8 DEF RestOf

-----------------------------------------------------------------------------
(* Lists as the run makes them: nothing is summarised yet, every result    *)
(* comes after its call, and no result is there twice.                     *)

Plain(m, lo, hi, pol) ==
  /\ m.shown = "full" /\ Normalized(m) = m
  /\ IsTool(m) => /\ m.calls = <<>> /\ m.note = "" /\ m.key \in lo + 1..hi
                  /\ pol = "unique" => m.id = m.key
  /\ \A k \in 1..Len(m.calls) :
       m.calls[k].key \in lo + 1..hi /\ (pol = "unique" => m.calls[k].id = m.calls[k].key)

Once(s) ==
  \A i, j \in 1..Len(s) : IsTool(s[i]) /\ IsTool(s[j]) /\ s[i].key = s[j].key => i = j
Matched(s) ==
  \A i, j \in 1..Len(s) : \A k \in 1..Len(s[i].calls) :
    IsTool(s[j]) /\ s[i].calls[k].key = s[j].key => i < j /\ s[i].calls[k].id = s[j].id

Good(s, lo, hi, pol) ==
  /\ s \in Seq(Msg)
  /\ \A i \in 1..Len(s) : Plain(s[i], lo, hi, pol)
  /\ Once(s) /\ Matched(s)

\* Every call that has a name has its result.
Complete(s) ==
  \A i \in 1..Len(s) : \A k \in 1..Len(s[i].calls) :
    s[i].calls[k].named => \E j \in 1..Len(s) : IsTool(s[j]) /\ s[j].key = s[i].calls[k].key
\* Nothing for the first two steps of the governor to remove.
Clear(m) == ~ IsPlaceholder(m) /\ \A k \in 1..Len(m.calls) : m.calls[k].named
Clean(s) == \A i \in 1..Len(s) : Clear(s[i])
\* Nothing for the third one.
Anchored(s) == \A j \in 1..Len(s) : IsTool(s[j]) => Declared(s, j)

LEMMA RestGood ==
  ASSUME NEW s, NEW lo, NEW hi, NEW pol, Good(s, lo, hi, pol), NEW t, RestOf(t, s)
  PROVE  /\ Good(t, lo, hi, pol)
         /\ Complete(s) => Complete(t)
         /\ Clean(s) => Clean(t)
<1>1. PICK f : Rest(t, s, f)
  BY DEF RestOf
<1>2. s \in Seq(Msg) /\ t \in Seq(Msg) /\ Len(s) \in Nat /\ Len(t) \in Nat
  BY LenProperties DEF RestOf, Good
<1>3. \A p \in 1..Len(t) : f[p] \in 1..Len(s) /\ t[p] = s[f[p]]
  BY <1>1 DEF Rest, Part
<1>4. \A p, r \in 1..Len(t) : p < r => f[p] < f[r]
  BY <1>1 DEF Rest, Part
<1>5. \A i \in 1..Len(t) : Plain(t[i], lo, hi, pol)
  BY <1>3 DEF Good
<1>6. Once(t)
  <2> SUFFICES ASSUME NEW i \in 1..Len(t), NEW j \in 1..Len(t),
                      IsTool(t[i]), IsTool(t[j]), t[i].key = t[j].key
               PROVE  i = j
    BY DEF Once
  <2>1. f[i] = f[j]
    <3>1. Once(s)
      BY DEF Good
    <3>2. f[i] \in 1..Len(s) /\ f[j] \in 1..Len(s) /\ s[f[i]] = t[i] /\ s[f[j]] = t[j]
      BY <1>3
    <3> QED
      BY <3>1, <3>2 DEF Once
  <2>2. (i < j => f[i] < f[j]) /\ (j < i => f[j] < f[i]) /\ f[i] \in 1..Len(s)
    BY <1>3, <1>4
  <2> QED
    BY <1>2, <2>1, <2>2
<1>7. Matched(t)
  <2> SUFFICES ASSUME NEW i \in 1..Len(t), NEW j \in 1..Len(t), NEW k \in 1..Len(t[i].calls),
                      IsTool(t[j]), t[i].calls[k].key = t[j].key
               PROVE  i < j /\ t[i].calls[k].id = t[j].id
    BY DEF Matched
  <2>1. f[i] \in 1..Len(s) /\ f[j] \in 1..Len(s) /\ s[f[i]] = t[i] /\ s[f[j]] = t[j]
    BY <1>3
  <2>2. /\ k \in 1..Len(s[f[i]].calls) /\ IsTool(s[f[j]])
        /\ s[f[i]].calls[k].key = s[f[j]].key
    BY <2>1
  <2>3. f[i] < f[j] /\ s[f[i]].calls[k].id = s[f[j]].id
    BY <2>1, <2>2 DEF Good, Matched
  <2>4. (j < i => f[j] < f[i]) /\ i # j
    BY <1>4, <2>1, <2>3
  <2> QED
    BY <1>2, <2>1, <2>3, <2>4
<1>8. Complete(s) => Complete(t)
  <2> SUFFICES ASSUME Complete(s), NEW i \in 1..Len(t), NEW k \in 1..Len(t[i].calls),
                      t[i].calls[k].named
               PROVE  \E j \in 1..Len(t) : IsTool(t[j]) /\ t[j].key = t[i].calls[k].key
    BY DEF Complete
  <2>1. f[i] \in 1..Len(s) /\ t[i] = s[f[i]]
    BY <1>3
  <2>2. PICK j \in 1..Len(s) : IsTool(s[j]) /\ s[j].key = t[i].calls[k].key
    BY <2>1 DEF Complete
  <2>3. f[i] < j
    BY <2>1, <2>2 DEF Good, Matched
  <2>4. PICK r \in 1..Len(t) : f[r] = j
    BY <1>1, <2>2, <2>3 DEF Rest
  <2> QED
    BY <1>3, <2>2, <2>4
<1>9. Clean(s) => Clean(t)
  BY <1>3 DEF Clean
<1> QED
  BY <1>2, <1>5, <1>6, <1>7, <1>8, <1>9 DEF Good

\* What follows a good list may be any good list with later keys.
LEMMA GoodConcat ==
  ASSUME NEW lo \in Nat, NEW mid \in Nat, NEW hi \in Nat, lo <= mid, mid <= hi, NEW pol,
         NEW s, NEW t, Good(s, lo, mid, pol), Good(t, mid, hi, pol)
  PROVE  /\ Good(s \o t, lo, hi, pol)
         /\ Complete(s) /\ Complete(t) => Complete(s \o t)
         /\ Clean(s) /\ Clean(t) => Clean(s \o t)
         /\ Anchored(s) /\ Anchored(t) => Anchored(s \o t)
<1> DEFINE w == s \o t
           m == Len(s)
           l == Len(t)
<1>1. s \in Seq(Msg) /\ t \in Seq(Msg) /\ m \in Nat /\ l \in Nat
  BY LenProperties DEF Good
<1>2. w \in Seq(Msg) /\ Len(w) = m + l /\ \A i \in 1..m + l : w[i] = IF i <= m THEN s[i] ELSE t[i - m]
  BY <1>1, ConcatProperties
<1>3. /\ \A i \in 1..m : i \in 1..m + l /\ w[i] = s[i] /\ Plain(w[i], lo, mid, pol)
      /\ \A i \in 1..l : m + i \in 1..m + l /\ w[m + i] = t[i] /\ Plain(w[m + i], mid, hi, pol)
  <2>1. \A i \in 1..m : i \in 1..m + l /\ w[i] = s[i]
    BY <1>1, <1>2
  <2>2. \A i \in 1..l : m + i \in 1..m + l /\ ~ (m + i <= m) /\ (m + i) - m = i
    BY <1>1
  <2>3. \A i \in 1..l : w[m + i] = t[i]
    BY <1>2, <2>2
  <2> QED
    BY <2>1, <2>2, <2>3 DEF Good
<1> HIDE DEF w, m, l
<1>4. \A i \in 1..m + l : i \in 1..m \/ \E k \in 1..l : i = m + k
  <2> TAKE i \in 1..m + l
  <2>1. i \in 1..m \/ (i - m \in 1..l /\ i = m + (i - m))
    BY <1>1
  <2> QED
    BY <2>1
\* where the keys of the two parts lie
<1>5. ASSUME NEW x, Plain(x, lo, mid, pol), NEW y, Plain(y, mid, hi, pol)
      PROVE  /\ IsTool(x) /\ IsTool(y) => x.key # y.key
             /\ \A k \in 1..Len(x.calls) : IsTool(y) => x.calls[k].key # y.key
             /\ \A k \in 1..Len(y.calls) : IsTool(x) => y.calls[k].key # x.key
             /\ Plain(x, lo, hi, pol) /\ Plain(y, lo, hi, pol)
  <2>1. \A k : ~ (k \in lo + 1..mid /\ k \in mid + 1..hi)
    OBVIOUS
  <2>2. \A k : (k \in lo + 1..mid => k \in lo + 1..hi) /\ (k \in mid + 1..hi => k \in lo + 1..hi)
    OBVIOUS
  <2> QED
    BY <1>5, <2>1, <2>2 DEF Plain
<1>6. \A x : Plain(x, lo, mid, pol) => Plain(x, lo, hi, pol)
  <2>1. \A k : k \in lo + 1..mid => k \in lo + 1..hi
    OBVIOUS
  <2> QED
    BY <2>1 DEF Plain
<1>7. \A x : Plain(x, mid, hi, pol) => Plain(x, lo, hi, pol)
  <2>1. \A k : k \in mid + 1..hi => k \in lo + 1..hi
    OBVIOUS
  <2> QED
    BY <2>1 DEF Plain
<1>8. \A i \in 1..m + l : Plain(w[i], lo, hi, pol)
  BY <1>3, <1>4, <1>6, <1>7
<1>9. Once(s) /\ Matched(s) /\ Once(t) /\ Matched(t)
  BY DEF Good
<1>10. Once(w)
  <2> SUFFICES ASSUME NEW i \in 1..m + l, NEW j \in 1..m + l,
                      IsTool(w[i]), IsTool(w[j]), w[i].key = w[j].key
               PROVE  i = j
    BY <1>2 DEF Once
  <2>1. CASE i \in 1..m /\ j \in 1..m
    BY <1>3, <1>9, <2>1 DEF Once, m
  <2>2. CASE i \in 1..m /\ \E k \in 1..l : j = m + k
    BY <1>3, <1>5, <2>2
  <2>3. CASE j \in 1..m /\ \E k \in 1..l : i = m + k
    BY <1>3, <1>5, <2>3
  <2>4. ASSUME NEW k \in 1..l, i = m + k, NEW r \in 1..l, j = m + r PROVE i = j
    <3>1. w[i] = t[k] /\ w[j] = t[r]
      BY <1>3, <2>4
    <3>2. k = r
      BY <1>9, <3>1 DEF Once, l
    <3> QED
      BY <2>4, <3>2
  <2> QED
    BY <1>4, <2>1, <2>2, <2>3, <2>4
<1>11. Matched(w)
  <2> SUFFICES ASSUME NEW i \in 1..m + l, NEW j \in 1..m + l, NEW k \in 1..Len(w[i].calls),
                      IsTool(w[j]), w[i].calls[k].key = w[j].key
               PROVE  i < j /\ w[i].calls[k].id = w[j].id
    BY <1>2 DEF Matched
  <2>1. CASE i \in 1..m /\ j \in 1..m
    <3>1. w[i] = s[i] /\ w[j] = s[j]
      BY <1>3, <2>1
    <3>2. k \in 1..Len(s[i].calls) /\ IsTool(s[j]) /\ s[i].calls[k].key = s[j].key
      BY <3>1
    <3>3. i < j /\ s[i].calls[k].id = s[j].id
      BY <1>9, <2>1, <3>2 DEF Matched, m
    <3> QED
      BY <3>1, <3>3
  <2>2. CASE i \in 1..m /\ \E r \in 1..l : j = m + r
    BY <1>3, <1>5, <2>2
  <2>3. CASE j \in 1..m /\ \E r \in 1..l : i = m + r
    BY <1>3, <1>5, <2>3
  <2>4. ASSUME NEW x \in 1..l, i = m + x, NEW y \in 1..l, j = m + y
        PROVE  i < j /\ w[i].calls[k].id = w[j].id
    <3>1. w[i] = t[x] /\ w[j] = t[y]
      BY <1>3, <2>4
    <3>2. x < y /\ w[i].calls[k].id = w[j].id
      BY <1>9, <3>1 DEF Matched, l
    <3> QED
      BY <1>1, <2>4, <3>2
  <2> QED
    BY <1>4, <2>1, <2>2, <2>3, <2>4
<1>12. Complete(s) /\ Complete(t) => Complete(w)
  <2> SUFFICES ASSUME Complete(s), Complete(t), NEW i \in 1..m + l, NEW k \in 1..Len(w[i].calls),
                      w[i].calls[k].named
               PROVE  \E j \in 1..m + l : IsTool(w[j]) /\ w[j].key = w[i].calls[k].key
    BY <1>2 DEF Complete
  <2>1. CASE i \in 1..m
    <3>1. w[i] = s[i]
      BY <1>3, <2>1
    <3>2. PICK j \in 1..m : IsTool(s[j]) /\ s[j].key = w[i].calls[k].key
      BY <2>1, <3>1 DEF Complete, m
    <3> QED
      BY <1>3, <3>2
  <2>2. ASSUME NEW x \in 1..l, i = m + x
        PROVE  \E j \in 1..m + l : IsTool(w[j]) /\ w[j].key = w[i].calls[k].key
    <3>1. w[i] = t[x]
      BY <1>3, <2>2
    <3>2. PICK y \in 1..l : IsTool(t[y]) /\ t[y].key = w[i].calls[k].key
      BY <3>1 DEF Complete, l
    <3>3. m + y \in 1..m + l /\ w[m + y] = t[y]
      BY <1>3
    <3> QED
      BY <3>2, <3>3
  <2>3. i \in 1..m \/ \E x \in 1..l : i = m + x
    BY <1>4
  <2> QED
    BY <2>1, <2>2, <2>3
<1>13. Clean(s) /\ Clean(t) => Clean(w)
  <2> SUFFICES ASSUME Clean(s), Clean(t), NEW i \in 1..m + l PROVE Clear(w[i])
    BY <1>2 DEF Clean
  <2>1. CASE i \in 1..m
    BY <1>3, <2>1 DEF Clean, m
  <2>2. ASSUME NEW k \in 1..l, i = m + k PROVE Clear(w[i])
    <3>1. w[i] = t[k]
      BY <1>3, <2>2
    <3> QED
      BY <3>1 DEF Clean, l
  <2> QED
    BY <1>4, <2>1, <2>2
<1>14. Anchored(s) /\ Anchored(t) => Anchored(w)
  <2> SUFFICES ASSUME Anchored(s), Anchored(t), NEW j \in 1..m + l, IsTool(w[j])
               PROVE  \E k \in 1..j - 1 : w[j].id \in Ids(w[k])
    BY <1>2 DEF Anchored, Declared
  <2>1. CASE j \in 1..m
    <3>1. PICK k \in 1..j - 1 : s[j].id \in Ids(s[k])
      BY <1>3, <2>1 DEF Anchored, Declared, m
    <3>2. k \in 1..m
      BY <1>1, <2>1
    <3> QED
      BY <1>3, <2>1, <3>1, <3>2
  <2>2. ASSUME NEW y \in 1..l, j = m + y PROVE \E k \in 1..j - 1 : w[j].id \in Ids(w[k])
    <3>1. w[j] = t[y]
      BY <1>3, <2>2
    <3>2. PICK x \in 1..y - 1 : t[y].id \in Ids(t[x])
      BY <3>1 DEF Anchored, Declared, l
    <3>3. x \in 1..l /\ m + x \in 1..j - 1
      BY <1>1, <2>2
    <3> QED
      BY <1>3, <3>1, <3>2, <3>3
  <2> QED
    BY <1>4, <2>1, <2>2
<1>15. Good(w, lo, hi, pol)
  BY <1>2, <1>8, <1>10, <1>11 DEF Good
<1> QED
  BY <1>12, <1>13, <1>14, <1>15 DEF w

-----------------------------------------------------------------------------
(* How a list is cut. *)

LEMMA LegalIs ==
  ASSUME NEW s \in Seq(Msg)
  PROVE  /\ RestOf(Legal(s), s) /\ Anchored(Legal(s))
         /\ \E i \in 1..Len(s) + 1 : Legal(s) = From(s, i)
<1> DEFINE n == Len(s)
           T == {c \in 0..n : \A j \in c+1..n : IsTool(s[j]) => \E k \in c+1..j-1 : s[j].id \in Ids(s[k])}
           c == LegalStart(s)
           t == Legal(s)
<1>1. n \in Nat
  BY LenProperties
<1>2. n \in T /\ T \subseteq Nat
  BY <1>1
<1>3. c \in T
  <2>1. c = Min(T)
    BY DEF LegalStart
  <2> HIDE DEF T, c
  <2> QED
    BY <1>2, <2>1, LeastElement
<1>4. c \in 0..n /\ \A j \in c+1..n : IsTool(s[j]) => \E k \in c+1..j-1 : s[j].id \in Ids(s[k])
  BY <1>3
<1>5. t = From(s, c + 1)
  BY DEF Legal
<1> HIDE DEF c, t, T
<1>6. c + 1 \in 1..n + 1 /\ c \in Nat
  BY <1>1, <1>4
<1>7. t \in Seq(Msg) /\ Len(t) = n - c /\ \A p \in 1..n - c : t[p] = s[p + c]
  <2>1. n - (c + 1) + 1 = n - c /\ \A p \in 1..n - c : p + (c + 1) - 1 = p + c
    BY <1>1, <1>6
  <2>2. t \in Seq(Msg) /\ Len(t) = n - (c + 1) + 1 /\ \A p \in 1..n - (c + 1) + 1 : t[p] = s[p + (c + 1) - 1]
    BY <1>5, <1>6, FromIs
  <2> QED
    BY <2>1, <2>2
<1>8. Anchored(t)
  <2> SUFFICES ASSUME NEW j \in 1..n - c, IsTool(t[j])
               PROVE  \E k \in 1..j - 1 : t[j].id \in Ids(t[k])
    BY <1>7 DEF Anchored, Declared
  <2>1. j + c \in c+1..n /\ t[j] = s[j + c]
    BY <1>1, <1>6, <1>7
  <2>2. PICK k \in c+1..(j + c)-1 : t[j].id \in Ids(s[k])
    BY <1>4, <2>1
  <2>3. k - c \in 1..j - 1 /\ k - c \in 1..n - c /\ (k - c) + c = k
    BY <1>1, <1>6
  <2>4. t[k - c] = s[k]
    BY <1>7, <2>3
  <2> QED
    BY <2>2, <2>3, <2>4
<1>9. RestOf(t, s)
  BY <1>5, <1>6, RestFrom
<1> QED
  BY <1>5, <1>6, <1>8, <1>9 DEF t

LEMMA RecentIs ==
  ASSUME NEW s \in Seq(Msg), s # <<>>, NEW limit
  PROVE  \E r \in 1..Len(s) : /\ Recent(s, limit) = From(s, r)
                              /\ r = Len(s) \/ Weight(From(s, r)) <= limit
<1> DEFINE T == {Len(s)} \union {i \in DOMAIN s : Weight(From(s, i)) <= limit}
           r == Min(T)
<1>1. Len(s) \in Nat /\ Len(s) # 0 /\ DOMAIN s = 1..Len(s)
  BY EmptySeq, LenProperties
<1>2. T \subseteq 1..Len(s) /\ Len(s) \in T
  BY <1>1
<1>3. r \in T
  <2>1. T \subseteq Nat /\ T # {}
    BY <1>1, <1>2
  <2> HIDE DEF T
  <2> QED
    BY <2>1, LeastElement
<1>4. Recent(s, limit) = From(s, r)
  BY DEF Recent
<1>5. r = Len(s) \/ Weight(From(s, r)) <= limit
  <2> HIDE DEF r
  <2> QED
    BY <1>3
<1> HIDE DEF r, T
<1> QED
  BY <1>2, <1>3, <1>4, <1>5

LEMMA UsersAre ==
  ASSUME NEW s \in Seq(Msg)
  PROVE  /\ \A i : i \in Users(s) <=> i \in 1..Len(s) /\ IsUser(s[i])
         /\ Users(s) # {} =>
              /\ Min(Users(s)) \in Users(s) /\ \A i \in Users(s) : Min(Users(s)) <= i
              /\ Max(Users(s)) \in Users(s) /\ \A i \in Users(s) : i <= Max(Users(s))
<1>1. DOMAIN s = 1..Len(s) /\ Len(s) \in Nat
  BY LenProperties
<1>2. \A i : i \in Users(s) <=> i \in 1..Len(s) /\ IsUser(s[i])
  BY <1>1 DEF Users
<1>3. Users(s) \in SUBSET Nat /\ Users(s) \in SUBSET (0..Len(s))
  BY <1>1, <1>2
<1> QED
  BY <1>1, <1>2, <1>3, LeastElement, GreatestElement

LEMMA WithDeliveryIs ==
  ASSUME NEW s, NEW n \in Nat, NEW u \in 1..n
  PROVE  WithDelivery(s, u) \in 1..n
BY DEF WithDelivery

LEMMA WindowStartIs ==
  ASSUME NEW s \in Seq(Msg), NEW max \in Nat \ {0}, NEW extend
  PROVE  WindowStart(s, max, extend) \in 1..Len(s) + 1
<1> DEFINE n == Len(s)
           first == Max({1, n - max + 1})
           before == {i \in Users(s) : i < first}
<1>1. n \in Nat
  BY LenProperties
<1>2. first \in 1..n + 1
  <2>1. CASE n - max + 1 >= 1
    <3>1. \E x \in {1, n - max + 1} : \A y \in {1, n - max + 1} : y <= x
      BY <1>1, <2>1
    <3>2. first \in {1, n - max + 1}
      BY <3>1 DEF Max
    <3> HIDE DEF first
    <3> QED
      BY <1>1, <2>1, <3>2
  <2>2. CASE ~ (n - max + 1 >= 1)
    <3>1. \E x \in {1, n - max + 1} : \A y \in {1, n - max + 1} : y <= x
      BY <1>1, <2>2
    <3>2. first \in {1, n - max + 1} /\ \A y \in {1, n - max + 1} : y <= first
      BY <3>1 DEF Max
    <3> HIDE DEF first
    <3> QED
      BY <1>1, <2>2, <3>2
  <2> QED
    BY <2>1, <2>2
<1>3. CASE before = {}
  BY <1>2, <1>3 DEF WindowStart
<1>4. CASE before # {}
  <2>1. before \in SUBSET (0..n)
    BY <1>1, UsersAre
  <2>2. Max(before) \in before
    <3> HIDE DEF before
    <3> QED
      BY <1>1, <1>4, <2>1, GreatestElement
  <2>3. Max(before) \in 1..n
    BY <2>2, UsersAre
  <2>4. WithDelivery(s, Max(before)) \in 1..n
    <3> HIDE DEF before
    <3> QED
      BY <1>1, <2>3, WithDeliveryIs
  <2>5. WindowStart(s, max, extend) \in {WithDelivery(s, Max(before)), first}
    BY DEF WindowStart
  <2> HIDE DEF before, first
  <2> QED
    BY <1>1, <1>2, <2>4, <2>5
<1> QED
  BY <1>3, <1>4

LEMMA Wider ==
  ASSUME NEW n \in Nat, NEW i \in 1..n
  PROVE  i \in 1..n + 1
OBVIOUS

\* The history that a turn starts from.
LEMMA GetHistoryIs ==
  ASSUME NEW s, NEW lo, NEW hi, NEW pol, Good(s, lo, hi, pol), NEW size \in Nat \ {0}, NEW wide
  PROVE  RestOf(GetHistory(s, size, wide), s) /\ Anchored(GetHistory(s, size, wide))
<1> DEFINE window == From(s, WindowStart(s, size, wide))
           aligned == IF Users(window) = {} THEN window
                      ELSE From(window, WithDelivery(window, Min(Users(window))))
           legal == Legal(aligned)
           out == KeepAt(legal, {i \in DOMAIN legal : Visible(legal[i])})
           kept == Recent(out, Budget)
           h == GetHistory(s, size, wide)
<1>0. s \in Seq(Msg)
  BY DEF Good
<1>1. RestOf(window, s)
  BY <1>0, WindowStartIs, RestFrom
<1>2. RestOf(aligned, window)
  <2>1. window \in Seq(Msg)
    BY <1>1 DEF RestOf
  <2> HIDE DEF window
  <2>2. CASE Users(window) = {}
    BY <2>1, <2>2, RestSame
  <2>3. CASE Users(window) # {}
    <3>1. Min(Users(window)) \in 1..Len(window) /\ Len(window) \in Nat
      BY <2>1, <2>3, UsersAre, LenProperties
    <3>2. WithDelivery(window, Min(Users(window))) \in 1..Len(window)
      BY <3>1, WithDeliveryIs
    <3>3. WithDelivery(window, Min(Users(window))) \in 1..Len(window) + 1
      BY <3>1, <3>2, Wider
    <3> QED
      BY <2>1, <2>3, <3>3, RestFrom
  <2> QED
    BY <2>2, <2>3
<1> HIDE DEF window, aligned
<1>3. RestOf(legal, aligned)
  BY <1>2, LegalIs DEF RestOf
<1> HIDE DEF legal
<1>4. RestOf(legal, s)
  BY <1>0, <1>1, <1>2, <1>3, RestTrans
<1>5. legal \in Seq(Msg) /\ \A i \in 1..Len(legal) : IsTool(legal[i]) => Visible(legal[i])
  <2>1. PICK f : Rest(legal, s, f)
    BY <1>4 DEF RestOf
  <2>2. \A i \in 1..Len(legal) : IsTool(legal[i]) => legal[i].note = ""
    <3> TAKE i \in 1..Len(legal)
    <3>1. f[i] \in 1..Len(s) /\ legal[i] = s[f[i]]
      BY <2>1 DEF Rest, Part
    <3>2. IsTool(s[f[i]]) => s[f[i]].note = ""
      BY <3>1 DEF Good, Plain
    <3> QED
      BY <3>1, <3>2
  <2> QED
    BY <1>4, <2>2 DEF RestOf, Visible, IsTool, IsAssistant
<1>6. RestOf(out, legal)
  <2> DEFINE at == {i \in DOMAIN legal : Visible(legal[i])}
  <2>1. \A i \in 1..Len(legal) : IsTool(legal[i]) => i \in at
    BY <1>5, LenProperties
  <2> HIDE DEF at
  <2>2. RestOf(KeepAt(legal, at), legal)
    BY <1>5, <2>1, RestKeep
  <2> QED
    BY <2>2 DEF at
<1> HIDE DEF out
<1>7. RestOf(out, s) /\ out \in Seq(Msg)
  BY <1>0, <1>4, <1>6, RestTrans DEF RestOf
<1>8. h = IF out = <<>> THEN out
          ELSE Legal(IF Users(kept) # {} THEN From(kept, Min(Users(kept)))
                     ELSE IF Users(out) # {} THEN From(out, Max(Users(out))) ELSE kept)
  BY DEF GetHistory, window, aligned, legal, out
<1> HIDE DEF kept, h
<1>9. CASE out = <<>>
  <2>1. Anchored(out)
    <3>1. Len(out) = 0
      BY <1>9
    <3> QED
      BY <3>1 DEF Anchored
  <2>2. h = out
    BY <1>8, <1>9
  <2> QED
    BY <1>7, <2>1, <2>2 DEF h
<1>10. CASE out # <<>>
  <2>1. RestOf(kept, out)
    <3>1. PICK r \in 1..Len(out) : Recent(out, Budget) = From(out, r)
      BY <1>7, <1>10, RecentIs
    <3>2. r \in 1..Len(out) + 1
      BY <1>7, LenProperties, Wider
    <3> QED
      BY <1>7, <3>1, <3>2, RestFrom DEF kept
  <2>2. RestOf(kept, s) /\ kept \in Seq(Msg)
    BY <1>0, <1>7, <2>1, RestTrans DEF RestOf
  <2>3. \A w, i : w \in Seq(Msg) /\ i \in Users(w) => i \in 1..Len(w) + 1
    <3> SUFFICES ASSUME NEW w \in Seq(Msg), NEW i \in Users(w) PROVE i \in 1..Len(w) + 1
      OBVIOUS
    <3>1. i \in 1..Len(w) /\ Len(w) \in Nat
      BY UsersAre, LenProperties
    <3> QED
      BY <3>1, Wider
  <2>4. \E w : RestOf(w, s) /\ h = Legal(w)
    <3>1. CASE Users(kept) # {}
      <4>1. RestOf(From(kept, Min(Users(kept))), kept)
        BY <2>2, <2>3, <3>1, UsersAre, RestFrom
      <4>2. h = Legal(From(kept, Min(Users(kept))))
        BY <1>8, <1>10, <3>1
      <4> QED
        BY <1>0, <2>2, <4>1, <4>2, RestTrans
    <3>2. CASE Users(kept) = {} /\ Users(out) # {}
      <4>1. RestOf(From(out, Max(Users(out))), out)
        BY <1>7, <2>3, <3>2, UsersAre, RestFrom
      <4>2. h = Legal(From(out, Max(Users(out))))
        BY <1>8, <1>10, <3>2
      <4> QED
        BY <1>0, <1>7, <4>1, <4>2, RestTrans
    <3>3. CASE Users(kept) = {} /\ Users(out) = {}
      <4>1. h = Legal(kept)
        BY <1>8, <1>10, <3>3
      <4> QED
        BY <2>2, <4>1
    <3> QED
      BY <3>1, <3>2, <3>3
  <2>5. PICK w : RestOf(w, s) /\ h = Legal(w)
    BY <2>4
  <2>6. RestOf(h, w) /\ Anchored(h)
    BY <2>5, LegalIs DEF RestOf
  <2> QED
    BY <1>0, <2>5, <2>6, RestTrans DEF h
<1> QED
  BY <1>9, <1>10

-----------------------------------------------------------------------------
(* The first three steps of the governor. *)

LEMMA NamedIds ==
  ASSUME NEW m \in Msg
  PROVE  LET n == NamedOnly(m) IN
         /\ n \in Msg /\ (IsTool(n) <=> IsTool(m)) /\ (m.calls = <<>> => n = m)
         /\ \A p \in 1..Len(n.calls) : \E l \in 1..Len(m.calls) : m.calls[l].named /\ n.calls[p] = m.calls[l]
         /\ \A l \in 1..Len(m.calls) : m.calls[l].named => n.calls # <<>> /\ m.calls[l].id \in Ids(n)
         /\ \A x \in Ids(n) : \E l \in 1..Len(m.calls) : m.calls[l].named /\ m.calls[l].id = x
<1> DEFINE n == NamedOnly(m)
           at == {k \in DOMAIN m.calls : m.calls[k].named}
<1>1. /\ n \in Msg /\ n.role = m.role
      /\ \E f : Part(n.calls, m.calls, at, f)
      /\ \A k \in 1..Len(m.calls) : m.calls[k].named => \E p \in 1..Len(n.calls) : n.calls[p] = m.calls[k]
      /\ (\A k \in 1..Len(m.calls) : m.calls[k].named) => n = m
  BY NamedOnlyIs
<1> HIDE DEF n
<1>2. n.calls \in Seq(CallRecord) /\ DOMAIN n.calls = 1..Len(n.calls)
  BY <1>1, LenProperties DEF Msg
<1>3. m.calls = <<>> => n = m
  <2> SUFFICES ASSUME m.calls = <<>> PROVE n = m
    OBVIOUS
  <2>1. Len(m.calls) = 0
    OBVIOUS
  <2>2. \A k \in 1..Len(m.calls) : m.calls[k].named
    BY <2>1
  <2> QED
    BY <1>1, <2>2
<1>4. ASSUME NEW p \in 1..Len(n.calls)
      PROVE  \E l \in 1..Len(m.calls) : m.calls[l].named /\ n.calls[p] = m.calls[l]
  <2>1. PICK f : Part(n.calls, m.calls, at, f)
    BY <1>1
  <2>2. f[p] \in 1..Len(m.calls) /\ f[p] \in at /\ n.calls[p] = m.calls[f[p]]
    BY <2>1 DEF Part
  <2> QED
    BY <2>2
<1>5. ASSUME NEW l \in 1..Len(m.calls), m.calls[l].named
      PROVE  n.calls # <<>> /\ m.calls[l].id \in Ids(n)
  <2>1. PICK p \in 1..Len(n.calls) : n.calls[p] = m.calls[l]
    BY <1>1, <1>5
  <2>2. n.calls # <<>>
    <3>1. SUFFICES ASSUME Len(n.calls) = 0 PROVE FALSE
      OBVIOUS
    <3> QED
      BY <2>1, <3>1
  <2> QED
    BY <1>2, <2>1, <2>2 DEF Ids
<1>6. ASSUME NEW x \in Ids(n) PROVE \E l \in 1..Len(m.calls) : m.calls[l].named /\ m.calls[l].id = x
  <2>1. PICK p \in 1..Len(n.calls) : n.calls[p].id = x
    BY <1>2 DEF Ids
  <2> QED
    BY <1>4, <2>1
<1>7. IsTool(n) <=> IsTool(m)
  BY <1>1 DEF IsTool
<1> QED
  BY <1>1, <1>3, <1>4, <1>5, <1>6, <1>7 DEF n

\* Message i is the result of a call before it that has a name.
Names(m, x) == \E l \in 1..Len(m.calls) : m.calls[l].named /\ m.calls[l].id = x
Called(s, i) == IsTool(s[i]) /\ \E k \in 1..i - 1 : Names(s[k], s[i].id)
CalledIds(s) == {s[i].id : i \in {j \in 1..Len(s) : Called(s, j)}}

\* c has the messages of s that f gives, without nameless calls: all that have
\* a call with a name, the results of those calls, and no other results.
Shed(c, s, f) ==
  /\ \A p \in 1..Len(c) : f[p] \in 1..Len(s) /\ c[p] = NamedOnly(s[f[p]])
  /\ \A p, r \in 1..Len(c) : p < r => f[p] < f[r]
  /\ \A p \in 1..Len(c) : IsTool(c[p]) => Called(s, f[p])
  /\ \A i \in 1..Len(s) : Called(s, i) \/ (\E x : Names(s[i], x)) => \E p \in 1..Len(c) : f[p] = i

LEMMA ShedIs ==
  ASSUME NEW s, NEW lo, NEW hi, NEW pol, Good(s, lo, hi, pol)
  PROVE  LET c == DropOrphans(StripMalformed(StripPlaceholders(s))) IN
         c \in Seq(Msg) /\ \E f : Shed(c, s, f)
<1> DEFINE at1 == {i \in DOMAIN s : ~ IsPlaceholder(s[i])}
           s1 == KeepAt(s, at1)
           named == [i \in DOMAIN s1 |-> NamedOnly(s1[i])]
           at2 == {i \in DOMAIN s1 : s1[i].calls = <<>> \/ NamedOnly(s1[i]).calls # <<>> \/ s1[i].text # <<>>}
           s2 == KeepAt(named, at2)
           at3 == {i \in DOMAIN s2 : IsTool(s2[i]) => Declared(s2, i)}
           c == KeepAt(s2, at3)
<1>1. DropOrphans(StripMalformed(StripPlaceholders(s))) = c
  BY DEF DropOrphans, StripMalformed, StripPlaceholders
<1>2. s \in Seq(Msg) /\ DOMAIN s = 1..Len(s) /\ \A i \in 1..Len(s) : s[i] \in Msg /\ (IsTool(s[i]) => s[i].calls = <<>>)
  <2>1. s \in Seq(Msg)
    BY DEF Good
  <2> QED
    BY <2>1, LenProperties, ElementOfSeq DEF Good, Plain
<1>3. s1 \in Seq(Msg) /\ \E f : Part(s1, s, at1, f) /\ Whole(s1, s, at1, f)
  <2> HIDE DEF at1
  <2> QED
    BY <1>2, KeepAtIs
<1>a. \A i \in 1..Len(s) : i \in at1 <=> ~ IsPlaceholder(s[i])
  BY <1>2
<1> HIDE DEF at1, s1
<1>4. PICK f1 : Part(s1, s, at1, f1) /\ Whole(s1, s, at1, f1)
  BY <1>3
<1>5. DOMAIN s1 = 1..Len(s1) /\ Len(s1) \in Nat /\ \A i \in 1..Len(s1) : s1[i] \in Msg
  BY <1>3, LenProperties, ElementOfSeq
<1>6. named \in Seq(Msg) /\ Len(named) = Len(s1) /\ \A i \in 1..Len(s1) : named[i] = NamedOnly(s1[i])
  <2>1. \A i \in 1..Len(s1) : NamedOnly(s1[i]) \in Msg
    BY <1>5, NamedIds
  <2> QED
    BY <1>5, <2>1, IsASeq
<1>b. \A i \in 1..Len(s1) : i \in at2 <=> s1[i].calls = <<>> \/ NamedOnly(s1[i]).calls # <<>> \/ s1[i].text # <<>>
  BY <1>5
<1> HIDE DEF named
<1>7. s2 \in Seq(Msg) /\ \E f : Part(s2, named, at2, f) /\ Whole(s2, named, at2, f)
  <2> HIDE DEF at2
  <2> QED
    BY <1>6, KeepAtIs
<1> HIDE DEF at2, s2
<1>8. PICK f2 : Part(s2, named, at2, f2) /\ Whole(s2, named, at2, f2)
  BY <1>7
<1>9. DOMAIN s2 = 1..Len(s2) /\ Len(s2) \in Nat /\ \A i \in 1..Len(s2) : s2[i] \in Msg
  BY <1>7, LenProperties, ElementOfSeq
<1>c. \A i \in 1..Len(s2) : i \in at3 <=> (IsTool(s2[i]) => Declared(s2, i))
  BY <1>9
<1>10. c \in Seq(Msg) /\ \E f : Part(c, s2, at3, f) /\ Whole(c, s2, at3, f)
  <2> HIDE DEF at3
  <2> QED
    BY <1>7, KeepAtIs
<1> HIDE DEF at3, c
<1>11. PICK f3 : Part(c, s2, at3, f3) /\ Whole(c, s2, at3, f3)
  BY <1>10
\* from s2 back to s
<1> DEFINE g == [p \in 1..Len(s2) |-> f1[f2[p]]]
<1>12. \A p \in 1..Len(s2) : /\ f2[p] \in 1..Len(s1) /\ g[p] = f1[f2[p]] /\ g[p] \in 1..Len(s)
                             /\ s2[p] = NamedOnly(s[g[p]])
  <2> TAKE p \in 1..Len(s2)
  <2>1. f2[p] \in 1..Len(s1) /\ s2[p] = NamedOnly(s1[f2[p]])
    BY <1>6, <1>8 DEF Part
  <2>2. f1[f2[p]] \in 1..Len(s) /\ s1[f2[p]] = s[f1[f2[p]]]
    BY <1>4, <2>1 DEF Part
  <2> QED
    BY <2>1, <2>2
<1> HIDE DEF g
<1>13. \A p, r \in 1..Len(s2) : p < r => g[p] < g[r]
  <2> TAKE p, r \in 1..Len(s2)
  <2>1. p < r => f2[p] < f2[r]
    BY <1>8 DEF Part
  <2>2. f2[p] < f2[r] => f1[f2[p]] < f1[f2[r]]
    BY <1>4, <1>12 DEF Part
  <2> QED
    BY <1>12, <2>1, <2>2
<1>14. ASSUME NEW i \in 1..Len(s), (s[i].calls = <<>> /\ IsTool(s[i])) \/ (\E x : Names(s[i], x))
       PROVE  \E p \in 1..Len(s2) : g[p] = i
  <2>1. ~ IsPlaceholder(s[i])
    <3>1. CASE IsTool(s[i])
      BY <3>1 DEF IsPlaceholder, IsTool, IsAssistant
    <3>2. CASE \E x : Names(s[i], x)
      <4>1. PICK l \in 1..Len(s[i].calls) : TRUE
        BY <3>2 DEF Names
      <4>2. s[i].calls # <<>>
        <5>1. SUFFICES ASSUME Len(s[i].calls) = 0 PROVE FALSE
          OBVIOUS
        <5> QED
          BY <4>1, <5>1
      <4> QED
        BY <4>2 DEF IsPlaceholder
    <3> QED
      BY <1>14, <3>1, <3>2
  <2>2. PICK q \in 1..Len(s1) : f1[q] = i
    BY <1>4, <1>a, <2>1 DEF Whole
  <2>3. s1[q] = s[i] /\ s[i] \in Msg
    BY <1>2, <1>4, <2>2 DEF Part
  <2>4. s1[q].calls = <<>> \/ NamedOnly(s1[q]).calls # <<>>
    BY <1>14, <2>3, NamedIds DEF Names
  <2>5. q \in at2
    BY <1>b, <2>4
  <2>6. PICK p \in 1..Len(s2) : f2[p] = q
    BY <1>6, <1>8, <2>5 DEF Whole
  <2> QED
    BY <1>12, <2>2, <2>6
<1>15. ASSUME NEW p \in 1..Len(s2), NEW x
       PROVE  x \in Ids(s2[p]) <=> Names(s[g[p]], x)
  <2>1. s[g[p]] \in Msg /\ s2[p] = NamedOnly(s[g[p]])
    BY <1>2, <1>12
  <2> QED
    BY <2>1, NamedIds DEF Names
<1>16. ASSUME NEW p \in 1..Len(s2)
       PROVE  IsTool(s2[p]) <=> IsTool(s[g[p]])
  BY <1>2, <1>12, NamedIds
<1>17. ASSUME NEW p \in 1..Len(s2), IsTool(s2[p])
       PROVE  Declared(s2, p) <=> Called(s, g[p])
  <2>1. IsTool(s[g[p]]) /\ s2[p] = s[g[p]] /\ g[p] \in 1..Len(s)
    BY <1>2, <1>12, <1>16, <1>17, NamedIds
  <2>2. ASSUME Declared(s2, p) PROVE Called(s, g[p])
    <3>1. PICK k \in 1..p - 1 : s2[p].id \in Ids(s2[k])
      BY <2>2 DEF Declared
    <3>2. k \in 1..Len(s2) /\ k < p
      BY <1>9
    <3>3. g[k] < g[p] /\ g[k] \in 1..Len(s)
      BY <1>12, <1>13, <3>2
    <3>4. Names(s[g[k]], s2[p].id)
      BY <1>15, <3>1, <3>2
    <3>5. g[k] \in 1..g[p] - 1
      BY <2>1, <3>3
    <3> QED
      BY <2>1, <3>4, <3>5 DEF Called
  <2>3. ASSUME Called(s, g[p]) PROVE Declared(s2, p)
    <3>1. PICK k \in 1..g[p] - 1 : Names(s[k], s[g[p]].id)
      BY <2>3 DEF Called
    <3>2. k \in 1..Len(s) /\ k < g[p] /\ Len(s) \in Nat
      BY <1>2, <2>1, LenProperties
    <3>3. PICK q \in 1..Len(s2) : g[q] = k
      BY <1>14, <3>1, <3>2
    <3>4. q < p
      BY <1>9, <1>13, <2>1, <3>2, <3>3
    <3>5. s2[p].id \in Ids(s2[q])
      BY <1>15, <2>1, <3>1, <3>3
    <3>6. q \in 1..p - 1
      BY <1>9, <3>4
    <3> QED
      BY <3>5, <3>6 DEF Declared
  <2> QED
    BY <2>2, <2>3
<1> DEFINE f == [p \in 1..Len(c) |-> g[f3[p]]]
<1>18. \A p \in 1..Len(c) : /\ f3[p] \in 1..Len(s2) /\ f3[p] \in at3 /\ f[p] = g[f3[p]] /\ f[p] \in 1..Len(s)
                            /\ c[p] = s2[f3[p]] /\ c[p] = NamedOnly(s[f[p]])
  BY <1>11, <1>12 DEF Part
<1> HIDE DEF f
<1>19. \A p, r \in 1..Len(c) : p < r => f[p] < f[r]
  <2> TAKE p, r \in 1..Len(c)
  <2>1. p < r => f3[p] < f3[r]
    BY <1>11 DEF Part
  <2> QED
    BY <1>13, <1>18, <2>1
<1>20. \A p \in 1..Len(c) : IsTool(c[p]) => Called(s, f[p])
  BY <1>c, <1>17, <1>18
<1>21. ASSUME NEW i \in 1..Len(s), Called(s, i) \/ (\E x : Names(s[i], x))
       PROVE  \E p \in 1..Len(c) : f[p] = i
  <2>1. PICK q \in 1..Len(s2) : g[q] = i
    BY <1>2, <1>14, <1>21 DEF Called
  <2>2. IsTool(s2[q]) => Declared(s2, q)
    <3> SUFFICES ASSUME IsTool(s2[q]) PROVE Declared(s2, q)
      OBVIOUS
    <3>1. IsTool(s[i])
      BY <1>16, <2>1
    <3>2. ~ \E x : Names(s[i], x)
      <4>1. Len(s[i].calls) = 0
        BY <1>2, <3>1
      <4> QED
        BY <4>1 DEF Names
    <3> QED
      BY <1>17, <1>21, <2>1, <3>2
  <2>3. q \in at3
    BY <1>c, <2>2
  <2>4. PICK p \in 1..Len(c) : f3[p] = q
    BY <1>11, <2>3 DEF Whole
  <2> QED
    BY <1>18, <2>1, <2>4
<1>22. Shed(c, s, f)
  BY <1>18, <1>19, <1>20, <1>21 DEF Shed
<1> QED
  BY <1>1, <1>10, <1>22

\* Without orphans the third step changes nothing.
LEMMA DropSame ==
  ASSUME NEW s \in Seq(Msg), Anchored(s)
  PROVE  DropOrphans(s) = s
<1> DEFINE at == {i \in DOMAIN s : IsTool(s[i]) => Declared(s, i)}
<1>1. \A i \in 1..Len(s) : i \in at
  BY LenProperties DEF Anchored
<1> HIDE DEF at
<1>2. KeepAt(s, at) = s
  BY <1>1, KeepAll
<1> QED
  BY <1>2 DEF DropOrphans, at

\* Nor do the first two, when there is nothing for them to remove.
LEMMA ShedSame ==
  ASSUME NEW s \in Seq(Msg), Clean(s), Anchored(s)
  PROVE  DropOrphans(StripMalformed(StripPlaceholders(s))) = s
<1> DEFINE at1 == {i \in DOMAIN s : ~ IsPlaceholder(s[i])}
           at2 == {i \in DOMAIN s : s[i].calls = <<>> \/ NamedOnly(s[i]).calls # <<>> \/ s[i].text # <<>>}
           named == [i \in DOMAIN s |-> NamedOnly(s[i])]
<1>1. DOMAIN s = 1..Len(s) /\ s \in [1..Len(s) -> Msg]
  BY LenProperties
<1>2. ASSUME NEW i \in 1..Len(s)
      PROVE  /\ ~ IsPlaceholder(s[i]) /\ NamedOnly(s[i]) = s[i]
             /\ s[i].calls = <<>> \/ NamedOnly(s[i]).calls # <<>>
  <2>1. s[i] \in Msg /\ ~ IsPlaceholder(s[i]) /\ \A k \in 1..Len(s[i].calls) : s[i].calls[k].named
    BY <1>1 DEF Clean, Clear
  <2>2. NamedOnly(s[i]) = s[i]
    BY <2>1, NamedOnlyIs
  <2> QED
    BY <2>1, <2>2
<1>3. StripPlaceholders(s) = s
  <2>1. \A i \in 1..Len(s) : i \in at1
    BY <1>1, <1>2
  <2> HIDE DEF at1
  <2>2. KeepAt(s, at1) = s
    BY <2>1, KeepAll
  <2> QED
    BY <2>2 DEF StripPlaceholders, at1
<1>4. named = s
  BY <1>1, <1>2
<1>5. StripMalformed(s) = s
  <2>1. \A i \in 1..Len(s) : i \in at2
    BY <1>1, <1>2
  <2> HIDE DEF at2, named
  <2>2. KeepAt(named, at2) = s
    BY <1>4, <2>1, KeepAll
  <2> QED
    BY <2>2 DEF StripMalformed, at2, named
<1> QED
  BY <1>3, <1>5, DropSame

-----------------------------------------------------------------------------
(* Error results for calls that have none. *)

LEMMA AnsweredIs ==
  ASSUME NEW s \in Seq(Msg), NEW x
  PROVE  x \in Answered(s) <=> \E i \in 1..Len(s) : IsTool(s[i]) /\ s[i].id = x
<1>1. DOMAIN s = 1..Len(s)
  BY LenProperties
<1> QED
  BY <1>1 DEF Answered, ToSet

LEMMA MissingIs ==
  ASSUME NEW m \in Msg, NEW a
  PROVE  /\ Missing(m, a) \in Seq(CallRecord)
         /\ \A k \in 1..Len(Missing(m, a)) :
              \E l \in 1..Len(m.calls) : Missing(m, a)[k] = m.calls[l] /\ m.calls[l].id \notin a
         /\ (\A l \in 1..Len(m.calls) : m.calls[l].id \in a) => Missing(m, a) = <<>>
<1> DEFINE at == {k \in DOMAIN m.calls : m.calls[k].id \notin a}
           t == KeepAt(m.calls, at)
<1>1. m.calls \in Seq(CallRecord)
  BY DEF Msg
<1>2. \A k \in 1..Len(m.calls) : k \in at <=> m.calls[k].id \notin a
  BY <1>1, LenProperties
<1> HIDE DEF at
<1>3. t \in Seq(CallRecord) /\ \E f : Part(t, m.calls, at, f)
  BY <1>1, KeepAtIs
<1>4. (\A l \in 1..Len(m.calls) : m.calls[l].id \in a) => t = <<>>
  BY <1>1, <1>2, KeepNone
<1> HIDE DEF t
<1>5. \A k \in 1..Len(t) : \E l \in 1..Len(m.calls) : t[k] = m.calls[l] /\ m.calls[l].id \notin a
  <2> TAKE k \in 1..Len(t)
  <2>1. PICK f : Part(t, m.calls, at, f)
    BY <1>3
  <2>2. f[k] \in 1..Len(m.calls) /\ f[k] \in at /\ t[k] = m.calls[f[k]]
    BY <2>1 DEF Part
  <2> QED
    BY <1>2, <2>2
<1>6. Missing(m, a) = t
  BY DEF Missing, t, at
<1> QED
  BY <1>3, <1>4, <1>5, <1>6

\* d has the messages of c in their order, where r says which, and error
\* results, where r is 0, for calls whose id nothing in c answers.
Filled(d, c, r) ==
  /\ \A p \in 1..Len(d) : r[p] \in 0..Len(c) /\ (r[p] # 0 => d[p] = c[r[p]])
  /\ \A p \in 1..Len(d) : r[p] = 0 =>
       \E a \in 1..Len(c) : \E l \in 1..Len(c[a].calls) :
         d[p] = Lost(c[a].calls[l]) /\ c[a].calls[l].id \notin Answered(c)
  /\ \A p, q \in 1..Len(d) : p < q /\ r[p] # 0 /\ r[q] # 0 => r[p] < r[q]
  /\ \A j \in 1..Len(c) : \E p \in 1..Len(d) : r[p] = j

\* A message and the error results that are put after it.
Group(m, results) == <<m>> \o results

LEMMA GroupIs ==
  ASSUME NEW m \in Msg, NEW t \in Seq(Msg)
  PROVE  /\ Group(m, t) \in Seq(Msg) /\ Len(Group(m, t)) = 1 + Len(t) /\ Group(m, t)[1] = m
         /\ \A k \in 2..1 + Len(t) : Group(m, t)[k] = t[k - 1]
<1> DEFINE x == <<m>>
<1>1. x \in Seq(Msg) /\ Len(x) = 1 /\ x[1] = m
  OBVIOUS
<1> HIDE DEF x
<1>2. Len(t) \in Nat
  BY LenProperties
<1>3. x \o t \in Seq(Msg) /\ Len(x \o t) = Len(x) + Len(t)
  BY <1>1, ConcatProperties
<1>4. \A i \in 1..Len(x) + Len(t) : (x \o t)[i] = IF i <= Len(x) THEN x[i] ELSE t[i - Len(x)]
  BY <1>1, ConcatProperties
<1>5. (x \o t)[1] = m
  BY <1>1, <1>2, <1>4
<1>6. \A k \in 2..1 + Len(t) : (x \o t)[k] = t[k - 1]
  <2> TAKE k \in 2..1 + Len(t)
  <2>1. k \in 1..Len(x) + Len(t) /\ ~ (k <= Len(x))
    BY <1>1, <1>2
  <2> QED
    BY <1>1, <1>4, <2>1
<1> QED
  BY <1>1, <1>3, <1>5, <1>6 DEF Group, x

LEMMA GroupAlone ==
  ASSUME NEW m \in Msg
  PROVE  Group(m, <<>>) = <<m>>
<1>1. <<m>> \in Seq(Msg)
  OBVIOUS
<1> QED
  BY <1>1, ConcatEmptySeq DEF Group

LEMMA BackfillIs ==
  ASSUME NEW c \in Seq(Msg)
  PROVE  /\ Backfill(c) \in Seq(Msg) /\ \E r : Filled(Backfill(c), c, r)
         /\ (\A a \in 1..Len(c) : \A l \in 1..Len(c[a].calls) : c[a].calls[l].id \in Answered(c)) => Backfill(c) = c
<1> DEFINE n == Len(c)
           at(j) == Max({1} \union {i \in 1..j : ~ IsTool(c[i])})
           found(j) == IF j = n \/ ~ IsTool(c[j + 1]) THEN Missing(c[at(j)], Answered(c)) ELSE <<>>
           gaps == [j \in 1..n |-> found(j)]
           extra == [j \in 1..n |-> [k \in DOMAIN found(j) |-> Lost(found(j)[k])]]
           q == [j \in 1..n |-> Group(c[j], [k \in DOMAIN found(j) |-> Lost(found(j)[k])])]
           d == FlattenSeq(q)
<1>1. n \in Nat /\ DOMAIN c = 1..n /\ \A j \in 1..n : c[j] \in Msg
  BY LenProperties, ElementOfSeq
<1>2. Backfill(c) = d
  BY <1>1 DEF Backfill, Group
<1>3. ASSUME NEW j \in 1..n PROVE at(j) \in 1..n
  <2> DEFINE T == {1} \union {i \in 1..j : ~ IsTool(c[i])}
  <2>1. T \in SUBSET (0..j) /\ T # {} /\ j \in Nat /\ T \subseteq 1..j
    BY <1>1
  <2> HIDE DEF T
  <2>2. Max(T) \in T
    BY <2>1, GreatestElement
  <2>3. Max(T) \in 1..j
    BY <2>1, <2>2
  <2>4. \A i \in 1..j : i \in 1..n
    BY <1>1
  <2> QED
    BY <2>3, <2>4 DEF T
<1>0. \A j \in 1..n : gaps[j] = found(j) /\ extra[j] = [k \in DOMAIN gaps[j] |-> Lost(gaps[j][k])]
  OBVIOUS
<1>q. \A j \in 1..n : q[j] = Group(c[j], extra[j])
  OBVIOUS
<1>4. ASSUME NEW j \in 1..n
      PROVE  /\ gaps[j] \in Seq(CallRecord)
             /\ \A k \in 1..Len(gaps[j]) : \E a \in 1..n : \E l \in 1..Len(c[a].calls) :
                  gaps[j][k] = c[a].calls[l] /\ c[a].calls[l].id \notin Answered(c)
             /\ (\A a \in 1..n : \A l \in 1..Len(c[a].calls) : c[a].calls[l].id \in Answered(c)) => gaps[j] = <<>>
  <2>1. at(j) \in 1..n /\ c[at(j)] \in Msg
    BY <1>1, <1>3
  <2> DEFINE m == Missing(c[at(j)], Answered(c))
  <2>2. /\ m \in Seq(CallRecord)
        /\ \A k \in 1..Len(m) :
             \E l \in 1..Len(c[at(j)].calls) : m[k] = c[at(j)].calls[l] /\ c[at(j)].calls[l].id \notin Answered(c)
        /\ (\A l \in 1..Len(c[at(j)].calls) : c[at(j)].calls[l].id \in Answered(c)) => m = <<>>
    BY <2>1, MissingIs
  <2>3. gaps[j] = m \/ gaps[j] = <<>>
    BY <1>0
  <2>4. <<>> \in Seq(CallRecord) /\ Len(<<>>) = 0
    BY EmptySeq
  <2> HIDE DEF gaps, at, m, found
  <2>5. CASE gaps[j] = m
    BY <2>1, <2>2, <2>5
  <2>6. CASE gaps[j] = <<>>
    BY <2>4, <2>6
  <2> QED
    BY <2>3, <2>5, <2>6
<1> HIDE DEF gaps, found
<1>5. ASSUME NEW j \in 1..n
      PROVE  /\ extra[j] \in Seq(Msg) /\ Len(extra[j]) = Len(gaps[j])
             /\ \A k \in 1..Len(gaps[j]) : extra[j][k] = Lost(gaps[j][k])
  <2>1. gaps[j] \in Seq(CallRecord) /\ DOMAIN gaps[j] = 1..Len(gaps[j]) /\ Len(gaps[j]) \in Nat
    BY <1>4, LenProperties
  <2>2. \A k \in 1..Len(gaps[j]) : Lost(gaps[j][k]) \in Msg
    BY <2>1, ElementOfSeq, LostIs
  <2>3. extra[j] = [k \in 1..Len(gaps[j]) |-> Lost(gaps[j][k])]
    BY <1>0, <2>1
  <2> HIDE DEF extra
  <2> QED
    BY <2>1, <2>2, <2>3, IsASeq
<1> HIDE DEF extra
<1>6. ASSUME NEW j \in 1..n
      PROVE  /\ Group(c[j], extra[j]) \in Seq(Msg) /\ Len(Group(c[j], extra[j])) = 1 + Len(gaps[j])
             /\ Group(c[j], extra[j])[1] = c[j] /\ Len(gaps[j]) \in Nat
             /\ \A k \in 2..1 + Len(gaps[j]) : Group(c[j], extra[j])[k] = Lost(gaps[j][k - 1])
  <2>1. c[j] \in Msg /\ extra[j] \in Seq(Msg) /\ Len(extra[j]) = Len(gaps[j]) /\ Len(gaps[j]) \in Nat
    BY <1>1, <1>5, LenProperties
  <2>2. /\ Group(c[j], extra[j]) \in Seq(Msg) /\ Len(Group(c[j], extra[j])) = 1 + Len(gaps[j])
        /\ Group(c[j], extra[j])[1] = c[j]
        /\ \A k \in 2..1 + Len(gaps[j]) : Group(c[j], extra[j])[k] = extra[j][k - 1]
    <3> DEFINE m == c[j]
               l == extra[j]
    <3>1. m \in Msg /\ l \in Seq(Msg) /\ Len(l) = Len(gaps[j])
      BY <2>1
    <3> HIDE DEF m, l
    <3>2. /\ Group(m, l) \in Seq(Msg) /\ Len(Group(m, l)) = 1 + Len(l) /\ Group(m, l)[1] = m
          /\ \A k \in 2..1 + Len(l) : Group(m, l)[k] = l[k - 1]
      BY <3>1, GroupIs
    <3> QED
      BY <3>1, <3>2 DEF m, l
  <2>3. \A k \in 2..1 + Len(gaps[j]) : k - 1 \in 1..Len(gaps[j])
    BY <2>1
  <2> QED
    BY <1>5, <2>1, <2>2, <2>3
<1>7. q \in Seq(Seq(Msg)) /\ Len(q) = n /\ \A j \in 1..n : q[j] = Group(c[j], extra[j])
  <2>1. Len(q) = n /\ \A j \in 1..n : q[j] = Group(c[j], extra[j])
    <3>1. DOMAIN q = 1..n
      OBVIOUS
    <3> HIDE DEF q
    <3>2. Len(q) = n
      BY <1>1, <3>1
    <3> QED
      BY <1>q, <3>2
  <2>2. q \in [1..n -> Seq(Msg)]
    <3>1. q = [j \in 1..n |-> q[j]]
      OBVIOUS
    <3> HIDE DEF q
    <3> QED
      BY <1>6, <2>1, <3>1
  <2> HIDE DEF q
  <2> QED
    BY <1>1, <2>1, <2>2
<1>d. q = [j \in 1..n |-> q[j]]
  OBVIOUS
<1> HIDE DEF q
<1>8. d \in Seq(Msg)
  BY <1>7, FlattenType
<1>9. PICK f, g : Origin(n, d, q, f, g)
  BY <1>7, FlattenOrigin
<1> HIDE DEF d
<1> DEFINE r == [p \in 1..Len(d) |-> IF g[p] = 1 THEN f[p] ELSE 0]
<1>10. \A p \in 1..Len(d) : /\ f[p] \in 1..n /\ g[p] \in 1..1 + Len(gaps[f[p]])
                            /\ d[p] = q[f[p]][g[p]] /\ q[f[p]] = Group(c[f[p]], extra[f[p]])
                            /\ r[p] = IF g[p] = 1 THEN f[p] ELSE 0
  <2> TAKE p \in 1..Len(d)
  <2>1. f[p] \in 1..n /\ g[p] \in 1..Len(q[f[p]]) /\ d[p] = q[f[p]][g[p]]
    BY <1>9 DEF Origin
  <2> QED
    BY <1>6, <1>7, <2>1
<1> HIDE DEF r
<1> DEFINE Open(x) == \E a \in 1..n : \E l \in 1..Len(c[a].calls) :
                        x = c[a].calls[l] /\ c[a].calls[l].id \notin Answered(c)
<1>f. \A j \in 1..n : \A k \in 1..Len(gaps[j]) : Open(gaps[j][k])
  BY <1>4
<1>e. ASSUME NEW p \in 1..Len(d)
      PROVE  /\ Len(gaps[f[p]]) \in Nat /\ g[p] \in 1..1 + Len(gaps[f[p]]) /\ f[p] \in 1..n
             /\ g[p] = 1 => d[p] = c[f[p]]
             /\ g[p] # 1 => d[p] = Lost(gaps[f[p]][g[p] - 1])
  <2> DEFINE j == f[p]
             k == g[p]
             x == Group(c[j], extra[j])
  <2>1. j \in 1..n /\ k \in 1..1 + Len(gaps[j]) /\ d[p] = x[k]
    BY <1>10
  <2> HIDE DEF j, k
  <2>2. /\ x[1] = c[j] /\ Len(gaps[j]) \in Nat
        /\ \A i \in 2..1 + Len(gaps[j]) : x[i] = Lost(gaps[j][i - 1])
    BY <1>6, <2>1
  <2> HIDE DEF x
  <2>3. k # 1 => k \in 2..1 + Len(gaps[j])
    BY <2>1, <2>2
  <2> QED
    BY <2>1, <2>2, <2>3 DEF j, k
<1>11. ASSUME NEW p \in 1..Len(d)
       PROVE  r[p] \in 0..n /\ (r[p] # 0 => d[p] = c[r[p]] /\ r[p] = f[p] /\ g[p] = 1)
  <2>1. f[p] \in 1..n /\ (g[p] = 1 => d[p] = c[f[p]]) /\ r[p] = IF g[p] = 1 THEN f[p] ELSE 0
    BY <1>10, <1>e
  <2> QED
    BY <1>1, <2>1
<1>12. ASSUME NEW p \in 1..Len(d), r[p] = 0
       PROVE  \E a \in 1..n : \E l \in 1..Len(c[a].calls) :
                d[p] = Lost(c[a].calls[l]) /\ c[a].calls[l].id \notin Answered(c)
  <2> DEFINE j == f[p]
             k == g[p] - 1
  <2>1. j \in 1..n /\ r[p] = IF g[p] = 1 THEN j ELSE 0
    BY <1>10
  <2>2. g[p] # 1
    BY <1>12, <2>1
  <2>3. d[p] = Lost(gaps[j][k]) /\ k \in 1..Len(gaps[j])
    BY <1>e, <2>2
  <2> HIDE DEF j, k, Open
  <2>5. Open(gaps[j][k])
    BY <1>f, <2>1, <2>3
  <2>4. PICK a \in 1..n : \E l \in 1..Len(c[a].calls) :
               gaps[j][k] = c[a].calls[l] /\ c[a].calls[l].id \notin Answered(c)
    BY <2>5 DEF Open
  <2> QED
    BY <2>3, <2>4
<1>13. ASSUME NEW p \in 1..Len(d), NEW s \in 1..Len(d), p < s, r[p] # 0, r[s] # 0
       PROVE  r[p] < r[s]
  <2>1. f[p] < f[s] \/ (f[p] = f[s] /\ g[p] < g[s])
    BY <1>9, <1>13 DEF Origin
  <2> QED
    BY <1>11, <1>13, <2>1
<1>14. ASSUME NEW j \in 1..n PROVE \E p \in 1..Len(d) : r[p] = j
  <2>1. 1 \in 1..Len(q[j])
    <3> DEFINE x == Group(c[j], extra[j])
    <3>1. Len(x) = 1 + Len(gaps[j]) /\ Len(gaps[j]) \in Nat /\ q[j] = x
      BY <1>6, <1>7
    <3> HIDE DEF x
    <3> QED
      BY <3>1
  <2>2. PICK p \in 1..Len(d) : f[p] = j /\ g[p] = 1
    BY <1>9, <2>1 DEF Origin
  <2> QED
    BY <1>10, <2>2
<1>15. Filled(d, c, r)
  BY <1>11, <1>12, <1>13, <1>14 DEF Filled
<1>16. ASSUME \A a \in 1..n : \A l \in 1..Len(c[a].calls) : c[a].calls[l].id \in Answered(c)
       PROVE  d = c
  <2>1. \A j \in 1..n : q[j] = <<c[j]>>
    <3> TAKE j \in 1..n
    <3>1. gaps[j] = <<>>
      BY <1>4, <1>16
    <3>2. extra[j] = <<>>
      <4>1. Len(extra[j]) = 0 /\ extra[j] \in Seq(Msg)
        BY <1>5, <3>1
      <4> QED
        BY <4>1, EmptySeq
    <3>3. Group(c[j], <<>>) = <<c[j]>>
      BY <1>1, GroupAlone
    <3> QED
      BY <1>7, <3>2, <3>3
  <2>2. q = [j \in 1..n |-> <<c[j]>>]
    BY <1>d, <2>1
  <2>3. FlattenSeq(q) = c
    BY <2>2, FlattenSingles
  <2> QED
    BY <2>3 DEF d
<1> QED
  BY <1>2, <1>8, <1>15, <1>16

-----------------------------------------------------------------------------
(* The repaired list. *)

\* n is what a repair leaves of message m.
Left(n, m) ==
  /\ n.shown = "full" /\ (IsTool(n) <=> IsTool(m)) /\ (IsTool(n) => n = m)
  /\ \A k \in 1..Len(n.calls) : \E l \in 1..Len(m.calls) : m.calls[l].named /\ n.calls[k] = m.calls[l]
  /\ \A x : Names(m, x) => x \in Ids(n)
\* n is the error result of a call in s that has no result.
Invented(n, s) ==
  /\ IsTool(n) /\ n.shown = "lost" /\ n.weight <= 1 /\ n.calls = <<>> /\ n.id \notin CalledIds(s)
  /\ \E a \in 1..Len(s) : \E l \in 1..Len(s[a].calls) :
       s[a].calls[l].named /\ n.key = s[a].calls[l].key /\ n.id = s[a].calls[l].id

\* e is s after its repair: it has messages of s in their order, where h says
\* which, and error results, where h is 0.
Mended(e, s, h) ==
  /\ \A p \in 1..Len(e) : h[p] \in 0..Len(s)
  /\ \A p \in 1..Len(e) : h[p] # 0 => Left(e[p], s[h[p]]) /\ (IsTool(e[p]) => Called(s, h[p]))
  /\ \A p \in 1..Len(e) : h[p] = 0 => Invented(e[p], s)
  /\ \A p, q \in 1..Len(e) : p < q /\ h[p] # 0 /\ h[q] # 0 => h[p] < h[q]
  /\ \A i \in 1..Len(s) : Called(s, i) \/ (\E x : Names(s[i], x)) => \E p \in 1..Len(e) : h[p] = i

LEMMA MendedIs ==
  ASSUME NEW s, NEW lo, NEW hi, NEW pol, Good(s, lo, hi, pol)
  PROVE  LET e == ApplyBudget(Repaired(s)) IN e \in Seq(Msg) /\ \E h : Mended(e, s, h)
<1> DEFINE c == DropOrphans(StripMalformed(StripPlaceholders(s)))
           d == Backfill(c)
           e == [i \in DOMAIN d |-> Normalized(d[i])]
<1>1. ApplyBudget(Repaired(s)) = e
  BY DEF ApplyBudget, Repaired
<1>2. /\ s \in Seq(Msg)
      /\ \A i \in 1..Len(s) : s[i] \in Msg /\ (IsTool(s[i]) => s[i].calls = <<>>)
                              /\ s[i].shown = "full" /\ Normalized(s[i]) = s[i]
  <2>1. s \in Seq(Msg)
    BY DEF Good
  <2> QED
    BY <2>1, ElementOfSeq DEF Good, Plain
<1>3. c \in Seq(Msg) /\ \E f : Shed(c, s, f)
  BY ShedIs
<1> HIDE DEF c
<1>4. d \in Seq(Msg) /\ \E r : Filled(d, c, r)
  BY <1>3, BackfillIs
<1> HIDE DEF d
<1>5. PICK f : Shed(c, s, f)
  BY <1>3
<1>6. PICK r : Filled(d, c, r)
  BY <1>4
<1>7. /\ DOMAIN d = 1..Len(d) /\ Len(d) \in Nat /\ Len(c) \in Nat /\ Len(s) \in Nat
      /\ \A p \in 1..Len(d) : d[p] \in Msg
      /\ \A p \in 1..Len(c) : c[p] \in Msg
  BY <1>2, <1>3, <1>4, LenProperties, ElementOfSeq
<1>8. e \in Seq(Msg) /\ Len(e) = Len(d) /\ \A p \in 1..Len(d) : e[p] = Normalized(d[p])
  <2>1. \A p \in 1..Len(d) : Normalized(d[p]) \in Msg
    BY <1>7, NormalizedIs
  <2> QED
    BY <1>7, <2>1, IsASeq
<1> HIDE DEF e
<1> DEFINE h == [p \in 1..Len(d) |-> IF r[p] = 0 THEN 0 ELSE f[r[p]]]
<1>9. \A p \in 1..Len(d) : h[p] = IF r[p] = 0 THEN 0 ELSE f[r[p]]
  OBVIOUS
<1> HIDE DEF h
<1>10. ASSUME NEW p \in 1..Len(c)
       PROVE  /\ f[p] \in 1..Len(s) /\ c[p] = NamedOnly(s[f[p]]) /\ Normalized(c[p]) = c[p]
              /\ Left(c[p], s[f[p]]) /\ (IsTool(c[p]) => Called(s, f[p]))
  <2>1. f[p] \in 1..Len(s) /\ c[p] = NamedOnly(s[f[p]]) /\ (IsTool(c[p]) => Called(s, f[p]))
    BY <1>5 DEF Shed
  <2> DEFINE m == s[f[p]]
  <2>2. m \in Msg /\ (IsTool(m) => m.calls = <<>>) /\ m.shown = "full" /\ Normalized(m) = m /\ c[p] = NamedOnly(m)
    BY <1>2, <2>1
  <2> HIDE DEF m
  <2>3. c[p].shown = "full"
    BY <2>2, NamedOnlyIs
  <2>4. IsTool(c[p]) => c[p] = m
    BY <2>2, NamedIds
  <2>5. \A k \in 1..Len(c[p].calls) : \E l \in 1..Len(m.calls) : m.calls[l].named /\ c[p].calls[k] = m.calls[l]
    BY <2>2, NamedIds
  <2>6. \A x : Names(m, x) => x \in Ids(c[p])
    BY <2>2, NamedIds DEF Names
  <2>7. Normalized(c[p]) = c[p]
    BY <2>2, <2>4 DEF Normalized
  <2>8. IsTool(c[p]) <=> IsTool(m)
    BY <2>2, NamedOnlyIs DEF IsTool
  <2>9. Left(c[p], m)
    BY <2>3, <2>4, <2>5, <2>6, <2>8 DEF Left
  <2> QED
    BY <2>1, <2>7, <2>9 DEF m
<1>11. ASSUME NEW p \in 1..Len(d), r[p] # 0
       PROVE  /\ r[p] \in 1..Len(c) /\ h[p] = f[r[p]] /\ h[p] \in 1..Len(s) /\ h[p] # 0
              /\ e[p] = c[r[p]]
  <2>1. r[p] \in 1..Len(c) /\ d[p] = c[r[p]]
    BY <1>6, <1>7, <1>11 DEF Filled
  <2>2. e[p] = Normalized(c[r[p]])
    BY <1>8, <2>1
  <2> QED
    BY <1>7, <1>9, <1>10, <1>11, <2>1, <2>2
<1>12. ASSUME NEW p \in 1..Len(d), r[p] = 0
       PROVE  h[p] = 0 /\ Invented(e[p], s)
  <2>1. PICK a \in 1..Len(c) : \E l \in 1..Len(c[a].calls) :
               d[p] = Lost(c[a].calls[l]) /\ c[a].calls[l].id \notin Answered(c)
    BY <1>6, <1>12 DEF Filled
  <2>2. PICK l \in 1..Len(c[a].calls) : d[p] = Lost(c[a].calls[l]) /\ c[a].calls[l].id \notin Answered(c)
    BY <2>1
  <2> DEFINE call == c[a].calls[l]
  <2>3. call \in CallRecord
    <3>1. c[a].calls \in Seq(CallRecord)
      BY <1>7 DEF Msg
    <3> QED
      BY <3>1, ElementOfSeq
  <2>4. f[a] \in 1..Len(s) /\ \E k \in 1..Len(s[f[a]].calls) : s[f[a]].calls[k].named /\ call = s[f[a]].calls[k]
    BY <1>10 DEF Left
  <2>5. d[p] = Lost(call) /\ call.id \notin Answered(c)
    BY <2>2
  <2> HIDE DEF call
  <2>6. /\ Lost(call) \in Msg /\ IsTool(Lost(call)) /\ Lost(call).calls = <<>>
        /\ Lost(call).id = call.id /\ Lost(call).key = call.key /\ Lost(call).shown = "lost"
        /\ Lost(call).weight <= 1
    BY <2>3, LostIs
  <2>7. e[p] = Normalized(Lost(call))
    BY <1>8, <2>5
  <2>8. /\ e[p].shown = "lost" /\ e[p].weight <= 1 /\ Like(e[p], Lost(call))
    BY <2>6, <2>7, NormalizedIs
  <2>9. IsTool(e[p]) /\ e[p].calls = <<>> /\ e[p].id = call.id /\ e[p].key = call.key
    BY <2>6, <2>8 DEF Like, IsTool
  <2>10. call.id \notin CalledIds(s)
    <3> SUFFICES ASSUME call.id \in CalledIds(s) PROVE FALSE
      OBVIOUS
    <3>1. PICK i \in 1..Len(s) : Called(s, i) /\ s[i].id = call.id
      BY DEF CalledIds
    <3>2. PICK q \in 1..Len(c) : f[q] = i
      BY <1>5, <3>1 DEF Shed
    <3>3. c[q] = s[i] /\ IsTool(c[q])
      <4>1. IsTool(s[i]) /\ s[i] \in Msg /\ c[q] = NamedOnly(s[i]) /\ s[i].calls = <<>>
        BY <1>2, <1>10, <3>1, <3>2 DEF Called
      <4> QED
        BY <4>1, NamedIds
    <3> QED
      BY <1>3, <2>5, <3>1, <3>3, AnsweredIs
  <2>11. \E b \in 1..Len(s) : \E k \in 1..Len(s[b].calls) :
           s[b].calls[k].named /\ e[p].key = s[b].calls[k].key /\ e[p].id = s[b].calls[k].id
    <3>1. PICK k \in 1..Len(s[f[a]].calls) : s[f[a]].calls[k].named /\ call = s[f[a]].calls[k]
      BY <2>4
    <3> QED
      BY <2>4, <2>9, <3>1
  <2>12. h[p] = 0
    BY <1>9, <1>12
  <2>13. e[p].id \notin CalledIds(s)
    BY <2>9, <2>10
  <2> QED
    BY <2>8, <2>9, <2>11, <2>12, <2>13 DEF Invented
<1>13. \A p \in 1..Len(d) : h[p] \in 0..Len(s) /\ (h[p] = 0 <=> r[p] = 0)
  <2> TAKE p \in 1..Len(d)
  <2>1. CASE r[p] = 0
    BY <1>7, <1>12, <2>1
  <2>2. CASE r[p] # 0
    BY <1>7, <1>11, <2>2
  <2> QED
    BY <2>1, <2>2
<1>14. ASSUME NEW p \in 1..Len(d), NEW q \in 1..Len(d), p < q, h[p] # 0, h[q] # 0 PROVE h[p] < h[q]
  <2>1. r[p] # 0 /\ r[q] # 0
    BY <1>13, <1>14
  <2>2. r[p] < r[q] /\ r[p] \in 1..Len(c) /\ r[q] \in 1..Len(c)
    BY <1>6, <1>11, <1>14, <2>1 DEF Filled
  <2>3. f[r[p]] < f[r[q]]
    BY <1>5, <2>2 DEF Shed
  <2> QED
    BY <1>11, <2>1, <2>3
<1>15. ASSUME NEW i \in 1..Len(s), Called(s, i) \/ (\E x : Names(s[i], x))
       PROVE  \E p \in 1..Len(d) : h[p] = i
  <2>1. PICK q \in 1..Len(c) : f[q] = i
    BY <1>5, <1>15 DEF Shed
  <2>2. PICK p \in 1..Len(d) : r[p] = q
    BY <1>6 DEF Filled
  <2>3. q # 0
    BY <1>7
  <2> QED
    BY <1>9, <2>1, <2>2, <2>3
<1>16. ASSUME NEW p \in 1..Len(d), h[p] # 0
       PROVE  Left(e[p], s[h[p]]) /\ (IsTool(e[p]) => Called(s, h[p]))
  <2>1. r[p] # 0
    BY <1>13, <1>16
  <2>2. r[p] \in 1..Len(c) /\ h[p] = f[r[p]] /\ e[p] = c[r[p]]
    BY <1>11, <2>1
  <2> QED
    BY <1>10, <2>2
<1>17. Mended(e, s, h)
  BY <1>8, <1>12, <1>13, <1>14, <1>15, <1>16 DEF Mended
<1> QED
  BY <1>1, <1>8, <1>17

-----------------------------------------------------------------------------
(* Compaction of a request that does not fit. *)

LEMMA RecordedIs ==
  ASSUME NEW s \in Seq(Msg), NEW ids
  PROVE  /\ Recorded(s, ids) \in Seq(Msg) /\ Len(Recorded(s, ids)) = Len(s)
         /\ \A i \in 1..Len(s) :
              Recorded(s, ids)[i] = IF IsTool(s[i]) /\ s[i].id \in ids THEN Summary(s[i]) ELSE s[i]
<1> DEFINE t == [i \in 1..Len(s) |-> IF IsTool(s[i]) /\ s[i].id \in ids THEN Summary(s[i]) ELSE s[i]]
<1>1. Len(s) \in Nat /\ DOMAIN s = 1..Len(s) /\ \A i \in 1..Len(s) : s[i] \in Msg /\ Summary(s[i]) \in Msg
  BY LenProperties, ElementOfSeq, SummaryIs
<1>2. Recorded(s, ids) = t
  BY <1>1 DEF Recorded
<1>3. t \in [1..Len(s) -> Msg] /\ DOMAIN t = 1..Len(s)
  BY <1>1
<1>4. \A i \in 1..Len(s) : t[i] = IF IsTool(s[i]) /\ s[i].id \in ids THEN Summary(s[i]) ELSE s[i]
  OBVIOUS
<1> HIDE DEF t
<1>5. t \in Seq(Msg) /\ Len(t) = Len(s)
  BY <1>1, <1>3
<1> QED
  BY <1>2, <1>4, <1>5

LEMMA CandidatesAre ==
  ASSUME NEW s \in Seq(Msg), NEW first \in Nat, NEW ids
  PROVE  LET q == Candidates(s, first, ids) IN
         /\ q \in Seq(1..Len(s))
         /\ \A k \in 1..Len(q) : q[k] > first /\ Compactable(s[q[k]]) /\ s[q[k]].id \notin ids
         /\ \A i \in 1..Len(s) : i > first /\ Compactable(s[i]) /\ s[i].id \notin ids =>
              \E k \in 1..Len(q) : q[k] = i
<1> DEFINE n == Len(s)
           all == [i \in 1..n |-> i]
           at == {i \in 1..n : i > first /\ Compactable(s[i]) /\ s[i].id \notin ids}
           q == KeepAt(all, at)
<1>1. n \in Nat /\ DOMAIN s = 1..n
  BY LenProperties
<1>2. Candidates(s, first, ids) = q
  BY <1>1 DEF Candidates
<1>3. all \in Seq(1..n) /\ Len(all) = n /\ \A i \in 1..n : all[i] = i
  <2>1. all \in [1..n -> 1..n] /\ DOMAIN all = 1..n /\ \A i \in 1..n : all[i] = i
    OBVIOUS
  <2> HIDE DEF all
  <2> QED
    BY <1>1, <2>1
<1>4. \A i \in 1..n : i \in at <=> i > first /\ Compactable(s[i]) /\ s[i].id \notin ids
  OBVIOUS
<1> HIDE DEF all, at
<1>5. q \in Seq(1..n) /\ \E f : Part(q, all, at, f) /\ Whole(q, all, at, f)
  BY <1>3, KeepAtIs
<1> HIDE DEF q
<1>6. PICK f : Part(q, all, at, f) /\ Whole(q, all, at, f)
  BY <1>5
<1>7. \A k \in 1..Len(q) : f[k] \in 1..n /\ f[k] \in at /\ q[k] = f[k]
  BY <1>3, <1>6 DEF Part
<1>8. \A k \in 1..Len(q) : q[k] > first /\ Compactable(s[q[k]]) /\ s[q[k]].id \notin ids
  BY <1>4, <1>7
<1>9. \A i \in 1..n : i > first /\ Compactable(s[i]) /\ s[i].id \notin ids => \E k \in 1..Len(q) : q[k] = i
  BY <1>3, <1>4, <1>6, <1>7 DEF Whole
<1> QED
  BY <1>2, <1>5, <1>8, <1>9

\* m is what compaction may make of s when it had compacted ids before and has
\* compacted more since then: a summary of some results, all other messages whole.
Shortens(m, s, first, ids, more) ==
  /\ m \in Seq(Msg) /\ Len(m) = Len(s) /\ ids \subseteq more
  /\ \A p \in 1..Len(s) :
       \/ m[p] = s[p] /\ ~ (IsTool(s[p]) /\ s[p].id \in ids)
       \/ /\ m[p] = Summary(s[p]) /\ IsTool(s[p]) /\ s[p].id \in more
          /\ s[p].id \in ids \/ Compactable(s[p])
  /\ \A x \in more : x \in ids \/ \E p \in 1..Len(s) :
       p > first /\ Compactable(s[p]) /\ s[p].id = x /\ m[p] = Summary(s[p])

LEMMA ShortensFirst ==
  ASSUME NEW s \in Seq(Msg), NEW first, NEW ids
  PROVE  Shortens(Recorded(s, ids), s, first, ids, ids)
BY RecordedIs DEF Shortens

\* m with the result at i compacted too.
OneMore(m, s, i) == [j \in DOMAIN s |-> IF j = i THEN Summary(s[j]) ELSE m[j]]

LEMMA ShortensMore ==
  ASSUME NEW s \in Seq(Msg), NEW first, NEW ids, NEW m, NEW more, Shortens(m, s, first, ids, more),
         NEW i \in 1..Len(s), i > first, Compactable(s[i])
  PROVE  Shortens(OneMore(m, s, i), s, first, ids, more \union {s[i].id})
<1> DEFINE n == [j \in 1..Len(s) |-> IF j = i THEN Summary(s[j]) ELSE m[j]]
           most == more \union {s[i].id}
<1>1. Len(s) \in Nat /\ DOMAIN s = 1..Len(s) /\ \A j \in 1..Len(s) : Summary(s[j]) \in Msg
  BY LenProperties, ElementOfSeq, SummaryIs
<1>2. m \in Seq(Msg) /\ Len(m) = Len(s) /\ \A j \in 1..Len(s) : m[j] \in Msg
  BY ElementOfSeq DEF Shortens
<1>3. n \in [1..Len(s) -> Msg] /\ DOMAIN n = 1..Len(s)
  BY <1>1, <1>2
<1>4. \A j \in 1..Len(s) : n[j] = IF j = i THEN Summary(s[j]) ELSE m[j]
  OBVIOUS
<1> HIDE DEF n
<1>5. n \in Seq(Msg) /\ Len(n) = Len(s)
  BY <1>1, <1>3
<1>6. \A p \in 1..Len(s) :
        \/ n[p] = s[p] /\ ~ (IsTool(s[p]) /\ s[p].id \in ids)
        \/ /\ n[p] = Summary(s[p]) /\ IsTool(s[p]) /\ s[p].id \in most
           /\ s[p].id \in ids \/ Compactable(s[p])
  BY <1>4 DEF Shortens, Compactable
<1>7. ASSUME NEW x \in most
      PROVE  x \in ids \/ \E p \in 1..Len(s) :
               p > first /\ Compactable(s[p]) /\ s[p].id = x /\ n[p] = Summary(s[p])
  <2>1. CASE x = s[i].id
    BY <1>4, <2>1
  <2>2. CASE x \in more
    <3>1. x \in ids \/ \E p \in 1..Len(s) : p > first /\ Compactable(s[p]) /\ s[p].id = x /\ m[p] = Summary(s[p])
      BY <2>2 DEF Shortens
    <3> QED
      BY <1>4, <3>1
  <2> QED
    BY <2>1, <2>2
<1>8. ids \subseteq most
  BY DEF Shortens
<1>9. Shortens(n, s, first, ids, most)
  <2> HIDE DEF most
  <2> QED
    BY <1>5, <1>6, <1>7, <1>8 DEF Shortens
<1> QED
  BY <1>1, <1>9 DEF n, OneMore

\* One more candidate, the k-th of q.
Step(s, q, k, st) ==
  IF st.done \/ (k = Len(q) /\ Estimate(st.messages) <= Budget) THEN [st EXCEPT !.done = TRUE]
  ELSE IF s[q[k]].id \in st.ids THEN st
  ELSE LET new == OneMore(st.messages, s, q[k])
       IN  [messages |-> new, ids |-> st.ids \union {s[q[k]].id}, done |-> Estimate(new) <= Target]
States(s) == [messages : {m \in Seq(Msg) : Len(m) = Len(s)}, ids : SUBSET Nat, done : BOOLEAN]
Begun(s, ids) == [messages |-> Recorded(s, ids), ids |-> ids, done |-> FALSE]

\* What holds after the first k candidates of q.
Shortened(st, s, first, ids, q, k) ==
  /\ Shortens(st.messages, s, first, ids, st.ids)
  /\ st.done => Estimate(st.messages) <= Budget
  /\ st.done \/ \A l \in 1..k : s[q[l]].id \in st.ids

LEMMA StepIs ==
  ASSUME NEW s \in Seq(Msg), NEW first \in Nat, NEW ids, NEW q \in Seq(1..Len(s)),
         \A l \in 1..Len(q) : q[l] > first /\ Compactable(s[q[l]]),
         NEW k \in 1..Len(q), NEW st \in States(s)
  PROVE  /\ Step(s, q, k, st) \in States(s)
         /\ Shortened(st, s, first, ids, q, k - 1) => Shortened(Step(s, q, k, st), s, first, ids, q, k)
<1> DEFINE i == q[k]
           new == OneMore(st.messages, s, i)
           nx == Step(s, q, k, st)
<1>1. i \in 1..Len(s) /\ i > first /\ Compactable(s[i]) /\ s[i] \in Msg /\ k \in Nat
  BY ElementOfSeq, LenProperties
<1>2. s[i].id \in Nat
  BY <1>1 DEF Msg
<1>3. st.messages \in Seq(Msg) /\ Len(st.messages) = Len(s) /\ st.ids \in SUBSET Nat /\ st.done \in BOOLEAN
  BY DEF States
<1>4. Len(q) \in Nat /\ Target \in Nat /\ Budget \in Nat /\ Target <= Budget
  BY LenProperties, BudgetAssumption
<1>5. CASE st.done \/ (k = Len(q) /\ Estimate(st.messages) <= Budget)
  <2>1. nx = [st EXCEPT !.done = TRUE]
    BY <1>5 DEF Step
  <2>2. nx \in States(s) /\ nx.messages = st.messages /\ nx.ids = st.ids /\ nx.done
    BY <2>1 DEF States
  <2>3. Shortened(st, s, first, ids, q, k - 1) => Estimate(st.messages) <= Budget
    BY <1>5 DEF Shortened
  <2> HIDE DEF nx
  <2> QED
    BY <2>2, <2>3 DEF Shortened, nx
<1>6. CASE ~ (st.done \/ (k = Len(q) /\ Estimate(st.messages) <= Budget)) /\ s[i].id \in st.ids
  <2>1. nx = st
    BY <1>6 DEF Step
  <2>2. ASSUME Shortened(st, s, first, ids, q, k - 1) PROVE \A l \in 1..k : s[q[l]].id \in st.ids
    <3> TAKE l \in 1..k
    <3>1. l = k \/ l \in 1..k - 1
      BY <1>1
    <3> QED
      BY <1>6, <2>2, <3>1 DEF Shortened
  <2> HIDE DEF nx
  <2> QED
    BY <1>6, <2>1, <2>2 DEF Shortened, nx
<1>7. CASE ~ (st.done \/ (k = Len(q) /\ Estimate(st.messages) <= Budget)) /\ s[i].id \notin st.ids
  <2>1. nx = [messages |-> new, ids |-> st.ids \union {s[i].id}, done |-> Estimate(new) <= Target]
    BY <1>7 DEF Step
  <2> HIDE DEF nx
  <2>2. nx.messages = new /\ nx.ids = st.ids \union {s[i].id} /\ (nx.done <=> Estimate(new) <= Target)
    BY <2>1
  <2>3. new \in Seq(Msg) /\ Len(new) = Len(s)
    <3>1. /\ DOMAIN s = 1..Len(s) /\ Len(s) \in Nat
          /\ \A j \in 1..Len(s) : Summary(s[j]) \in Msg
      BY LenProperties, ElementOfSeq, SummaryIs
    <3>2. \A j \in 1..Len(s) : st.messages[j] \in Msg
      BY <1>3, ElementOfSeq
    <3>3. new \in [1..Len(s) -> Msg] /\ DOMAIN new = 1..Len(s)
      BY <3>1, <3>2 DEF OneMore
    <3> DEFINE l == Len(s)
    <3>4. l \in Nat /\ new \in [1..l -> Msg] /\ DOMAIN new = 1..l
      BY <3>1, <3>3
    <3> HIDE DEF new, l
    <3>5. new \in Seq(Msg) /\ Len(new) = l
      BY ONLY <3>4
    <3> QED
      BY <3>5 DEF l
  <2>4. Estimate(new) \in Nat
    <3> HIDE DEF new
    <3> QED
      BY <2>3, WeightType
  <2>5. nx \in States(s)
    <3> HIDE DEF new
    <3> QED
      BY <1>2, <1>3, <2>1, <2>3 DEF States
  <2>6. ASSUME Shortened(st, s, first, ids, q, k - 1) PROVE Shortened(nx, s, first, ids, q, k)
    <3>1. Shortens(new, s, first, ids, st.ids \union {s[i].id})
      BY <1>1, <2>6, ShortensMore DEF Shortened
    <3>2. \A l \in 1..k : s[q[l]].id \in nx.ids
      <4> TAKE l \in 1..k
      <4>1. l = k \/ l \in 1..k - 1
        BY <1>1
      <4> HIDE DEF new
      <4> QED
        BY <1>7, <2>2, <2>6, <4>1 DEF Shortened
    <3>3. nx.done => Estimate(nx.messages) <= Budget
      <4> HIDE DEF new
      <4> QED
        BY <1>4, <2>2, <2>4
    <3> HIDE DEF new
    <3> QED
      BY <2>2, <3>1, <3>2, <3>3 DEF Shortened
  <2> QED
    BY <2>5, <2>6 DEF nx
<1> QED
  BY <1>5, <1>6, <1>7

\* When a request fits, or there are no candidates, nothing more is compacted.
LEMMA CompactNone ==
  ASSUME NEW s \in Seq(Msg), NEW first \in Nat, NEW ids,
         \/ Estimate(Recorded(s, ids)) <= Budget
         \/ Candidates(Recorded(s, ids), first, ids) = <<>>
  PROVE  CompactOverflow(s, first, ids) = Begun(s, ids)
<1> DEFINE base == Begun(s, ids)
           q == Candidates(Recorded(s, ids), first, ids)
           seq == [k \in DOMAIN q |-> k]
           G(f) == [i \in 0..Len(seq) |-> IF i = 0 THEN base ELSE Step(s, q, seq[i], f[i - 1])]
           f == CHOOSE f : f = G(f)
<1>1. CompactOverflow(s, first, ids) = IF Estimate(base.messages) <= Budget THEN base ELSE f[Len(seq)]
  BY DEF CompactOverflow, Fold, Step, OneMore, Begun
<1>2. base.messages = Recorded(s, ids)
  BY DEF Begun
<1>3. CASE q = <<>>
  <2>1. DOMAIN q = {}
    BY <1>3, EmptySeq
  <2>2. seq = <<>>
    <3> HIDE DEF q
    <3> QED
      BY <2>1
  <2>3. Len(seq) = 0
    <3> HIDE DEF seq
    <3> QED
      BY <2>2, EmptySeq
  <2> HIDE DEF base, q, seq
  <2> DEFINE h == [i \in 0..0 |-> base]
  <2>4. h = G(h)
    BY <2>3
  <2>5. f = G(f)
    <3> HIDE DEF h, G
    <3> QED
      BY <2>4
  <2>6. f[0] = base
    <3> HIDE DEF f
    <3> QED
      BY <2>3, <2>5
  <2> HIDE DEF f
  <2> QED
    BY <1>1, <2>3, <2>6 DEF base
<1> HIDE DEF f
<1> QED
  BY <1>1, <1>2, <1>3

LEMMA CompactIs ==
  ASSUME NEW s \in Seq(Msg), NEW first \in Nat, NEW ids \in SUBSET Nat
  PROVE  LET c == CompactOverflow(s, first, ids) IN
         /\ c.ids \in SUBSET Nat
         /\ Shortens(c.messages, s, first, ids, c.ids)
         /\ Estimate(c.messages) > Budget =>
              \A i \in 1..Len(s) : i > first /\ Compactable(s[i]) => s[i].id \in c.ids
<1> DEFINE base == Begun(s, ids)
           m == Recorded(s, ids)
           q == Candidates(m, first, ids)
           seq == [k \in DOMAIN q |-> k]
           G(f) == [i \in 0..Len(seq) |-> IF i = 0 THEN base ELSE Step(s, q, seq[i], f[i - 1])]
           f == CHOOSE f : f = G(f)
           c == CompactOverflow(s, first, ids)
           n == Len(q)
<1>1. c = IF Estimate(base.messages) <= Budget THEN base ELSE f[Len(seq)]
  BY DEF CompactOverflow, Fold, Step, OneMore, Begun
<1>2. m \in Seq(Msg) /\ Len(m) = Len(s)
      /\ \A i \in 1..Len(s) : m[i] = IF IsTool(s[i]) /\ s[i].id \in ids THEN Summary(s[i]) ELSE s[i]
  BY RecordedIs
<1>3. base.messages = m /\ base.ids = ids /\ base.done = FALSE /\ base \in States(s)
  <2> HIDE DEF m
  <2> QED
    BY <1>2 DEF Begun, States, m
<1>4. Shortens(m, s, first, ids, ids)
  BY ShortensFirst
<1>5. /\ q \in Seq(1..Len(s))
      /\ \A k \in 1..n : q[k] > first /\ Compactable(m[q[k]]) /\ m[q[k]].id \notin ids
      /\ \A i \in 1..Len(s) : i > first /\ Compactable(m[i]) /\ m[i].id \notin ids => \E k \in 1..n : q[k] = i
  <2> HIDE DEF m, q
  <2>1. /\ q \in Seq(1..Len(m))
        /\ \A k \in 1..n : q[k] > first /\ Compactable(m[q[k]]) /\ m[q[k]].id \notin ids
        /\ \A i \in 1..Len(m) : i > first /\ Compactable(m[i]) /\ m[i].id \notin ids => \E k \in 1..n : q[k] = i
    BY <1>2, CandidatesAre DEF q
  <2> QED
    BY <1>2, <2>1
<1>6. ASSUME NEW i \in 1..Len(s), s[i].id \notin ids PROVE m[i] = s[i]
  BY <1>2, <1>6
<1>7. n \in Nat /\ DOMAIN q = 1..n /\ \A k \in 1..n : q[k] \in 1..Len(s)
  <2> HIDE DEF q
  <2> QED
    BY <1>5, LenProperties, ElementOfSeq
<1>8. \A k \in 1..n : q[k] > first /\ Compactable(s[q[k]])
  <2> TAKE k \in 1..n
  <2> HIDE DEF q, m
  <2>1. q[k] \in 1..Len(s) /\ q[k] > first /\ Compactable(m[q[k]]) /\ m[q[k]].id \notin ids
    BY <1>5, <1>7
  <2>2. s[q[k]] \in Msg
    BY <2>1, ElementOfSeq
  <2>3. Summary(s[q[k]]).id = s[q[k]].id
    BY <2>2, SummaryIs DEF Like
  <2>4. m[q[k]] = s[q[k]]
    BY <1>2, <2>1, <2>3
  <2> QED
    BY <2>1, <2>4
<1>9. \A i \in 1..Len(s) : i > first /\ Compactable(s[i]) => s[i].id \in ids \/ \E k \in 1..n : q[k] = i
  <2> HIDE DEF q, m
  <2> QED
    BY <1>5, <1>6
<1>10. seq \in Seq(Nat) /\ Len(seq) = n /\ \A i \in 1..n : seq[i] = i
  <2>1. seq \in [1..n -> Nat] /\ DOMAIN seq = 1..n /\ \A i \in 1..n : seq[i] = i
    <3> HIDE DEF q
    <3> QED
      BY <1>7
  <2> HIDE DEF seq, n
  <2> QED
    BY <1>7, <2>1
<1> HIDE DEF base, m, q, n, c
<1>11. CASE Estimate(m) <= Budget
  <2>1. c = base
    BY <1>1, <1>3, <1>11
  <2>2. Estimate(m) \in Nat /\ Budget \in Nat
    BY <1>2, WeightType, BudgetAssumption
  <2>3. c.messages = m /\ c.ids = ids
    BY <1>3, <2>1
  <2>4. ~ (Estimate(c.messages) > Budget)
    BY <1>11, <2>2, <2>3
  <2>5. Shortens(c.messages, s, first, ids, c.ids) /\ c.ids \in SUBSET Nat
    BY <1>4, <2>3
  <2> QED
    BY <2>4, <2>5 DEF c
<1>12. CASE ~ (Estimate(m) <= Budget)
  <2> DEFINE A == States(s)
             F == [x \in (1..n) \X A |-> Step(s, q, x[1], x[2])]
  <2>1. \A k \in 1..n, st \in A : Step(s, q, k, st) \in A
    BY <1>5, <1>8, StepIs DEF n
  <2>2. F \in [(1..n) \X A -> A] /\ \A k \in 1..n, st \in A : F[<<k, st>>] = Step(s, q, k, st)
    <3> HIDE DEF A
    <3> QED
      BY <2>1
  <2>3. \E u \in [0..n -> A] : Runs(u, n, base, F)
    <3> HIDE DEF F, A
    <3>1. base \in A
      BY <1>3 DEF A
    <3> QED
      BY <1>7, <2>2, <3>1, Recursion
  <2> HIDE DEF F
  <2>4. PICK u \in [0..n -> A] : u[0] = base /\ \A i \in 1..n : u[i] = F[<<i, u[i - 1]>>]
    BY <2>3 DEF Runs
  <2>5. \A i \in 1..n : u[i - 1] \in A /\ u[i] = Step(s, q, i, u[i - 1])
    <3> TAKE i \in 1..n
    <3>1. i - 1 \in 0..n
      BY <1>7
    <3> HIDE DEF A
    <3> QED
      BY <2>2, <2>4, <3>1
  <2> DEFINE h == [i \in 0..n |-> u[i]]
  <2>6. h = G(h)
    <3> HIDE DEF A, seq
    <3>1. \A i \in 0..n : u[i] = IF i = 0 THEN base ELSE Step(s, q, seq[i], h[i - 1])
      <4> TAKE i \in 0..n
      <4>1. CASE i = 0
        BY <2>4, <4>1
      <4>2. CASE i # 0
        <5>1. i \in 1..n /\ i - 1 \in 0..n
          BY <1>7, <4>2
        <5>2. h[i - 1] = u[i - 1] /\ seq[i] = i
          BY <1>10, <5>1
        <5> HIDE DEF h
        <5> QED
          BY <2>5, <4>2, <5>1, <5>2
      <4> QED
        BY <4>1, <4>2
    <3> QED
      BY <1>10, <3>1
  <2>7. f = G(f)
    <3> HIDE DEF h, G
    <3> QED
      BY <2>6
  <2>8. \A i \in 0..n : f[i] = IF i = 0 THEN base ELSE Step(s, q, seq[i], f[i - 1])
    <3> HIDE DEF f, seq
    <3> QED
      BY <1>10, <2>7
  <2> HIDE DEF f, seq, h
  <2> DEFINE T == {k \in 0..n : f[k] = u[k] /\ Shortened(u[k], s, first, ids, q, k)}
  <2>9. 0 \in T
    <3>1. u[0] = base /\ f[0] = base
      BY <1>7, <2>4, <2>8
    <3>2. Shortened(base, s, first, ids, q, 0)
      BY <1>3, <1>4 DEF Shortened
    <3> QED
      BY <1>7, <3>1, <3>2
  <2>10. ASSUME NEW k \in 0..n - 1, k \in T PROVE k + 1 \in T
    <3>1. k + 1 \in 1..n /\ k + 1 \in 0..n /\ (k + 1) - 1 = k /\ k + 1 # 0
      BY <1>7
    <3>2. f[k] = u[k] /\ Shortened(u[k], s, first, ids, q, k)
      BY <2>10
    <3>3. u[k] \in States(s) /\ u[k + 1] = Step(s, q, k + 1, u[k])
      BY <2>5, <3>1
    <3>4. f[k + 1] = u[k + 1]
      BY <1>10, <2>8, <3>1, <3>2, <3>3
    <3>5. Shortened(Step(s, q, k + 1, u[k]), s, first, ids, q, k + 1)
      BY <1>5, <1>8, <3>1, <3>2, <3>3, StepIs DEF n
    <3> QED
      BY <3>1, <3>3, <3>4, <3>5
  <2> HIDE DEF T
  <2>11. \A k \in 0..n - 1 : k \in T => k + 1 \in T
    BY <2>10
  <2>12. \A k \in 0..n : k \in T
    BY <1>7, <2>9, <2>11, Induction
  <2>13. n \in 0..n
    BY <1>7
  <2>14. c = u[n] /\ c \in States(s) /\ Shortened(c, s, first, ids, q, n)
    BY <1>1, <1>3, <1>10, <1>12, <2>4, <2>12, <2>13 DEF T
  <2>15. Shortens(c.messages, s, first, ids, c.ids) /\ c.messages \in Seq(Msg) /\ c.ids \in SUBSET Nat
    BY <2>14 DEF States, Shortened
  <2>16. ASSUME Estimate(c.messages) > Budget, NEW i \in 1..Len(s), i > first, Compactable(s[i])
         PROVE  s[i].id \in c.ids
    <3>1. Estimate(c.messages) \in Nat /\ Budget \in Nat
      BY <2>15, WeightType, BudgetAssumption
    <3>2. \A l \in 1..n : s[q[l]].id \in c.ids
      BY <2>14, <2>16, <3>1 DEF Shortened
    <3>3. ids \subseteq c.ids
      BY <2>15 DEF Shortens
    <3> QED
      BY <1>9, <2>16, <3>2, <3>3
  <2> QED
    BY <2>15, <2>16 DEF c
<1> QED
  BY <1>11, <1>12

-----------------------------------------------------------------------------
(* The end of a request that fits. *)

LEMMA FromFrom ==
  ASSUME NEW s \in Seq(Msg), NEW i \in 1..Len(s) + 1, NEW j \in 1..Len(From(s, i)) + 1
  PROVE  i + j - 1 \in i..Len(s) + 1 /\ From(From(s, i), j) = From(s, i + j - 1)
<1> DEFINE n == Len(s)
           t == From(s, i)
           k == i + j - 1
           w == From(t, j)
           v == From(s, k)
<1>1. n \in Nat /\ i \in Nat /\ i \in 1..n + 1
  BY LenProperties
<1>2. t \in Seq(Msg) /\ Len(t) = n - i + 1 /\ \A p \in 1..n - i + 1 : t[p] = s[p + i - 1]
  BY FromIs
<1> HIDE DEF t
<1>3. j \in Nat /\ j \in 1..Len(t) + 1 /\ k \in i..n + 1 /\ k \in 1..n + 1
  BY <1>1, <1>2 DEF t
<1>4. w \in Seq(Msg) /\ Len(w) = Len(t) - j + 1 /\ \A p \in 1..Len(t) - j + 1 : w[p] = t[p + j - 1]
  BY <1>2, <1>3, FromIs
<1>5. v \in Seq(Msg) /\ Len(v) = n - k + 1 /\ \A p \in 1..n - k + 1 : v[p] = s[p + k - 1]
  BY <1>3, FromIs
<1>6. Len(w) = Len(v) /\ Len(v) = n - k + 1
  BY <1>1, <1>2, <1>3, <1>4, <1>5
<1>7. ASSUME NEW p \in 1..n - k + 1 PROVE w[p] = v[p]
  <2>1. p + j - 1 \in 1..n - i + 1 /\ p \in 1..Len(t) - j + 1 /\ (p + j - 1) + i - 1 = p + k - 1
    BY <1>1, <1>2, <1>3
  <2> HIDE DEF w, v, k, n
  <2>2. w[p] = t[p + j - 1] /\ t[p + j - 1] = s[(p + j - 1) + i - 1]
    BY <1>2, <1>4, <2>1
  <2> QED
    BY <1>5, <2>1, <2>2
<1>8. w = v
  <2> HIDE DEF w, v, k, n
  <2> QED
    BY <1>4, <1>5, <1>6, <1>7, SeqEqual
<1> QED
  BY <1>1, <1>3, <1>8 DEF t

LEMMA SnipIs ==
  ASSUME NEW m \in Seq(Msg)
  PROVE  /\ \E k \in 1..Len(m) + 1 : Snip(m) = From(m, k)
         /\ Anchored(m) => Anchored(Snip(m))
         /\ Estimate(m) <= Budget => Snip(m) = m
         /\ Estimate(Snip(m)) > Budget => \A i \in 2..Len(Snip(m)) : ~ IsUser(Snip(m)[i])
<1> DEFINE n == Len(m)
           t == Snip(m)
<1>1. n \in Nat /\ 1 \in 1..n + 1 /\ From(m, 1) = m
  BY LenProperties, FromFirst
<1>2. Estimate(m) \in Nat /\ Budget \in Nat /\ Fixed \in Nat /\ Fixed < Budget
  BY WeightType, BudgetAssumption
<1>3. CASE Estimate(m) <= Budget
  <2>1. t = m
    BY <1>3 DEF Snip
  <2>2. ~ (Estimate(t) > Budget)
    BY <1>2, <1>3, <2>1
  <2> QED
    BY <1>1, <2>1, <2>2
<1>4. CASE m = <<>>
  <2>1. t = m /\ Len(t) = 0
    BY <1>4, EmptySeq DEF Snip
  <2> QED
    BY <1>1, <2>1
<1>5. CASE ~ (Estimate(m) <= Budget) /\ m # <<>>
  <2> DEFINE kept == Recent(m, Budget - Fixed)
             a == IF Users(kept) # {} THEN From(kept, Min(Users(kept)))
                  ELSE IF Users(m) # {} THEN From(m, Max(Users(m))) ELSE kept
  <2>1. t = Legal(a)
    BY <1>5 DEF Snip, LegalTail
  <2>2. PICK r \in 1..n : kept = From(m, r) /\ (r = n \/ Weight(From(m, r)) <= Budget - Fixed)
    BY <1>5, RecentIs
  <2>3. kept \in Seq(Msg) /\ r \in 1..n + 1
    BY <1>1, <2>2, FromIs
  <2> HIDE DEF kept
  <2>4. \E k \in 1..n + 1 : a = From(m, k) /\ (k >= r \/ \A p \in k + 1..n : ~ IsUser(m[p]))
    <3>1. CASE Users(kept) # {}
      <4> DEFINE u == Min(Users(kept))
      <4>1. u \in 1..Len(kept)
        BY <2>3, <3>1, UsersAre
      <4> HIDE DEF u
      <4>2. u \in 1..Len(kept) + 1
        BY <2>3, <4>1, LenProperties, Wider
      <4>3. r + u - 1 \in r..n + 1 /\ From(kept, u) = From(m, r + u - 1)
        BY <2>2, <2>3, <4>2, FromFrom
      <4>4. r + u - 1 \in 1..n + 1 /\ r + u - 1 >= r
        BY <1>1, <4>3
      <4> QED
        BY <3>1, <4>3, <4>4 DEF u
    <3>2. CASE Users(kept) = {} /\ Users(m) # {}
      <4> DEFINE u == Max(Users(m))
      <4>1. u \in 1..n /\ \A i \in Users(m) : i <= u
        BY <3>2, UsersAre
      <4>2. a = From(m, u)
        BY <3>2
      <4> HIDE DEF u
      <4>3. u \in 1..n + 1
        BY <1>1, <4>1, Wider
      <4>4. \A p \in u + 1..n : ~ IsUser(m[p])
        <5> TAKE p \in u + 1..n
        <5>1. p \in 1..n /\ ~ (p <= u)
          BY <1>1, <4>1
        <5> QED
          BY <4>1, <5>1, UsersAre
      <4> QED
        BY <4>2, <4>3, <4>4
    <3>3. CASE Users(kept) = {} /\ Users(m) = {}
      <4>1. a = From(m, r)
        BY <2>2, <3>3
      <4> QED
        BY <1>1, <2>2, <4>1
    <3> QED
      BY <3>1, <3>2, <3>3
  <2> HIDE DEF a
  <2>5. PICK k1 \in 1..n + 1 : a = From(m, k1) /\ (k1 >= r \/ \A p \in k1 + 1..n : ~ IsUser(m[p]))
    BY <2>4
  <2>6. a \in Seq(Msg)
    BY <2>5, FromIs
  <2>7. Anchored(t) /\ \E i \in 1..Len(a) + 1 : t = From(a, i)
    BY <2>1, <2>6, LegalIs
  <2>8. PICK i \in 1..Len(a) + 1 : t = From(a, i)
    BY <2>7
  <2> DEFINE k == k1 + i - 1
  <2>9. k \in k1..n + 1 /\ t = From(m, k)
    BY <2>5, <2>8, FromFrom
  <2>10. k \in 1..n + 1
    BY <1>1, <2>9
  <2> HIDE DEF k
  <2>11. t \in Seq(Msg) /\ Len(t) = n - k + 1 /\ \A p \in 1..n - k + 1 : t[p] = m[p + k - 1]
    BY <2>9, <2>10, FromIs
  <2>12. ASSUME Estimate(t) > Budget, NEW j \in 2..Len(t) PROVE ~ IsUser(t[j])
    <3>1. CASE k1 >= r
      <4>1. k >= r /\ k \in 1..n
        BY <1>1, <2>9, <2>10, <2>11, <2>12, <3>1
      <4>2. Weight(t) <= Weight(From(m, r))
        BY <2>2, <2>9, <2>10, <4>1, WeightOfEnd
      <4>3. Weight(t) \in Nat /\ Weight(From(m, r)) \in Nat
        BY <2>2, <2>3, <2>11, WeightType
      <4>4. ~ (Weight(From(m, r)) <= Budget - Fixed)
        BY <1>2, <2>12, <4>2, <4>3 DEF Estimate
      <4>5. r = n
        BY <2>2, <4>4
      <4> QED
        BY <1>1, <2>11, <2>12, <4>1, <4>5
    <3>2. CASE \A p \in k1 + 1..n : ~ IsUser(m[p])
      <4>1. j \in 1..n - k + 1 /\ j + k - 1 \in k1 + 1..n
        BY <1>1, <2>9, <2>11, <2>12
      <4> QED
        BY <2>11, <3>2, <4>1
    <3> QED
      BY <2>5, <3>1, <3>2
  <2> HIDE DEF t
  <2> QED
    BY <1>5, <2>7, <2>9, <2>10, <2>12 DEF t
<1> QED
  BY <1>3, <1>4, <1>5

\* t is what is left of m from position k on when results without a call are
\* dropped; g says where its messages are in m.
EndOf(t, m, k, g) ==
  /\ \A q \in 1..Len(t) : g[q] \in k..Len(m) /\ t[q] = m[g[q]]
  /\ \A p \in k..Len(m) : ~ IsTool(m[p]) \/ (\E a \in k..p - 1 : m[p].id \in Ids(m[a])) =>
       \E q \in 1..Len(t) : g[q] = p

LEMMA EndOfIs ==
  ASSUME NEW m \in Seq(Msg), NEW k \in 1..Len(m) + 1
  PROVE  /\ DropOrphans(From(m, k)) \in Seq(Msg)
         /\ \E g : EndOf(DropOrphans(From(m, k)), m, k, g)
<1> DEFINE n == Len(m)
           s == From(m, k)
           at == {i \in DOMAIN s : IsTool(s[i]) => Declared(s, i)}
           t == KeepAt(s, at)
<1>1. n \in Nat /\ k \in Nat /\ k \in 1..n + 1
  BY LenProperties
<1>2. s \in Seq(Msg) /\ Len(s) = n - k + 1 /\ \A p \in 1..n - k + 1 : s[p] = m[p + k - 1]
  BY FromIs
<1> HIDE DEF s
<1>3. DOMAIN s = 1..n - k + 1
  BY <1>2, LenProperties
<1> HIDE DEF at
<1>4. t \in Seq(Msg) /\ \E f : Part(t, s, at, f) /\ Whole(t, s, at, f)
  BY <1>2, KeepAtIs
<1> HIDE DEF t
<1>5. PICK f : Part(t, s, at, f) /\ Whole(t, s, at, f)
  BY <1>4
<1> DEFINE g == [q \in 1..Len(t) |-> f[q] + k - 1]
<1>6. \A q \in 1..Len(t) : f[q] \in 1..n - k + 1 /\ t[q] = s[f[q]]
  BY <1>2, <1>5 DEF Part
<1>7. ASSUME NEW q \in 1..Len(t) PROVE g[q] \in k..n /\ t[q] = m[g[q]]
  <2>1. g[q] = f[q] + k - 1 /\ f[q] \in 1..n - k + 1
    BY <1>6
  <2> HIDE DEF g
  <2>2. g[q] \in k..n
    BY <1>1, <2>1
  <2> QED
    BY <1>2, <1>6, <2>1, <2>2
<1>8. ASSUME NEW p \in k..n, ~ IsTool(m[p]) \/ \E a \in k..p - 1 : m[p].id \in Ids(m[a])
      PROVE  \E q \in 1..Len(t) : g[q] = p
  <2> DEFINE i == p - k + 1
  <2>1. i \in 1..n - k + 1 /\ i + k - 1 = p
    BY <1>1
  <2> HIDE DEF i
  <2>2. s[i] = m[p]
    BY <1>2, <2>1
  <2>3. IsTool(s[i]) => Declared(s, i)
    <3> SUFFICES ASSUME IsTool(s[i]) PROVE Declared(s, i)
      OBVIOUS
    <3>1. PICK a \in k..p - 1 : m[p].id \in Ids(m[a])
      BY <1>8, <2>2
    <3>2. a - k + 1 \in 1..i - 1 /\ a - k + 1 \in 1..n - k + 1 /\ (a - k + 1) + k - 1 = a
      BY <1>1, <2>1, <3>1
    <3>3. s[a - k + 1] = m[a]
      BY <1>2, <3>2
    <3> QED
      BY <2>2, <3>1, <3>2, <3>3 DEF Declared
  <2>4. i \in at
    BY <1>3, <2>1, <2>3 DEF at
  <2>5. PICK q \in 1..Len(t) : f[q] = i
    BY <1>2, <1>5, <2>1, <2>4 DEF Whole
  <2>6. g[q] = f[q] + k - 1
    OBVIOUS
  <2> QED
    BY <2>1, <2>5, <2>6
<1> HIDE DEF g
<1>9. EndOf(t, m, k, g)
  BY <1>7, <1>8 DEF EndOf
<1>10. DropOrphans(s) = t
  BY DEF DropOrphans, t, at
<1> QED
  BY <1>4, <1>9, <1>10 DEF s

-----------------------------------------------------------------------------
(* The whole of prepare_for_model. *)

\* In a list where every call has its result, nothing is missing.
LEMMA NothingInvented ==
  ASSUME NEW s, Matched(s), Complete(s), NEW n, Invented(n, s)
  PROVE  FALSE
<1>1. PICK a \in 1..Len(s) : \E l \in 1..Len(s[a].calls) :
        s[a].calls[l].named /\ n.key = s[a].calls[l].key /\ n.id = s[a].calls[l].id
  BY DEF Invented
<1>2. PICK l \in 1..Len(s[a].calls) : s[a].calls[l].named /\ n.id = s[a].calls[l].id
  BY <1>1
<1>3. PICK j \in 1..Len(s) : IsTool(s[j]) /\ s[j].key = s[a].calls[l].key
  BY <1>2 DEF Complete
<1>4. a < j /\ s[a].calls[l].id = s[j].id
  BY <1>3 DEF Matched
<1>5. a \in 1..j - 1
  BY <1>4
<1>6. Names(s[a], s[j].id)
  BY <1>2, <1>4 DEF Names
<1>7. Called(s, j)
  BY <1>3, <1>5, <1>6 DEF Called
<1>8. n.id \in CalledIds(s)
  BY <1>2, <1>4, <1>7 DEF CalledIds
<1> QED
  BY <1>8 DEF Invented

\* The repaired list keeps its messages in their order, so they move to the front.
LEMMA MendedEarlier ==
  ASSUME NEW s \in Seq(Msg), NEW e \in Seq(Msg), NEW h, Mended(e, s, h),
         \A p \in 1..Len(e) : h[p] # 0, NEW p \in 1..Len(e)
  PROVE  h[p] \in 1..Len(s) /\ p <= h[p]
<1> DEFINE t == [i \in 1..Len(e) |-> s[h[i]]]
<1>1. Len(e) \in Nat /\ Len(s) \in Nat /\ \A i \in 1..Len(e) : h[i] \in 1..Len(s)
  BY LenProperties DEF Mended
<1>2. \A i \in 1..Len(e) : t[i] \in Msg
  BY <1>1, ElementOfSeq
<1>3. t \in [1..Len(e) -> Msg]
  BY <1>2
<1> HIDE DEF t
<1>4. t \in Seq(Msg) /\ Len(t) = Len(e)
  BY <1>1, <1>3
<1>5. Part(t, s, 1..Len(s), h)
  <2>1. \A i \in 1..Len(e) : t[i] = s[h[i]]
    BY DEF t
  <2>2. \A i, j \in 1..Len(e) : i < j => h[i] < h[j]
    BY <1>1 DEF Mended
  <2> QED
    BY <1>1, <1>4, <2>1, <2>2 DEF Part
<1>6. p <= h[p]
  BY <1>4, <1>5, PartLater
<1> QED
  BY <1>1, <1>6

\* What compaction does to a repaired list: only results that the list had are
\* compacted, and when none was missing, only those after the first ones.
Compacted(s, e, h, first, ids, m, more) ==
  /\ ids \subseteq more /\ more \subseteq CalledIds(s)
  /\ \A p \in 1..Len(e) : Compactable(e[p]) => h[p] # 0
  /\ \A p \in 1..Len(e) : m[p].shown = "summary" => h[p] # 0 /\ IsTool(e[p]) /\ e[p].id \in more
  /\ Complete(s) => \A x \in more : x \in ids \/
       \E i \in first + 1..Len(s) : Called(s, i) /\ s[i].id = x

LEMMA CompactedIs ==
  ASSUME NEW s, NEW lo, NEW hi, NEW pol, Good(s, lo, hi, pol), NEW e \in Seq(Msg), NEW h, Mended(e, s, h),
         NEW first \in Nat, NEW ids, ids \subseteq CalledIds(s), NEW m, NEW more,
         Shortens(m, e, first, ids, more)
  PROVE  Compacted(s, e, h, first, ids, m, more)
<1>0. s \in Seq(Msg) /\ Matched(s) /\ Len(s) \in Nat /\ Len(e) \in Nat /\ LongResult \in Nat /\ LongResult > 1
  BY LenProperties, BudgetAssumption DEF Good
<1>1. ASSUME NEW p \in 1..Len(e), h[p] # 0
      PROVE  /\ h[p] \in 1..Len(s) /\ e[p].shown = "full"
             /\ IsTool(e[p]) => e[p] = s[h[p]] /\ Called(s, h[p]) /\ e[p].id \in CalledIds(s)
  <2>1. h[p] \in 1..Len(s) /\ Left(e[p], s[h[p]]) /\ (IsTool(e[p]) => Called(s, h[p]))
    BY <1>0, <1>1 DEF Mended
  <2>2. e[p].shown = "full" /\ (IsTool(e[p]) => e[p] = s[h[p]])
    BY <2>1 DEF Left
  <2>3. Called(s, h[p]) => s[h[p]].id \in CalledIds(s)
    BY <2>1 DEF CalledIds
  <2> QED
    BY <2>1, <2>2, <2>3
<1>2. ASSUME NEW p \in 1..Len(e), h[p] = 0
      PROVE  e[p].shown = "lost" /\ e[p].id \notin CalledIds(s) /\ ~ Compactable(e[p]) /\ Invented(e[p], s)
  <2>1. Invented(e[p], s)
    BY <1>2 DEF Mended
  <2>2. e[p].shown = "lost" /\ e[p].id \notin CalledIds(s) /\ e[p].weight <= 1
    BY <2>1 DEF Invented
  <2>3. e[p].weight \in Nat
    <3>1. e[p] \in Msg
      BY ElementOfSeq
    <3> QED
      BY <3>1 DEF Msg
  <2>4. ~ (e[p].weight >= LongResult)
    BY <1>0, <2>2, <2>3
  <2> QED
    BY <2>1, <2>2, <2>4 DEF Compactable
<1>3. \A p \in 1..Len(e) : Compactable(e[p]) => h[p] # 0
  BY <1>2
<1>4. ids \subseteq more
  BY DEF Shortens
<1>5. ASSUME NEW x \in more, x \notin ids
      PROVE  \E p \in 1..Len(e) : p > first /\ Compactable(e[p]) /\ IsTool(e[p]) /\ e[p].id = x
  BY <1>5 DEF Shortens, Compactable
<1>6. more \subseteq CalledIds(s)
  <2> SUFFICES ASSUME NEW x \in more PROVE x \in CalledIds(s)
    OBVIOUS
  <2>1. CASE x \notin ids
    BY <1>1, <1>3, <1>5, <2>1
  <2> QED
    BY <2>1
<1>7. ASSUME NEW p \in 1..Len(e), m[p].shown = "summary"
      PROVE  h[p] # 0 /\ IsTool(e[p]) /\ e[p].id \in more
  <2>1. e[p].shown # "summary"
    BY <1>1, <1>2
  <2>2. IsTool(e[p]) /\ e[p].id \in more
    BY <1>7, <2>1 DEF Shortens
  <2> QED
    BY <1>2, <1>6, <2>2
<1>8. ASSUME Complete(s), NEW x \in more, x \notin ids
      PROVE  \E i \in first + 1..Len(s) : Called(s, i) /\ s[i].id = x
  <2>1. \A p \in 1..Len(e) : h[p] # 0
    BY <1>0, <1>2, <1>8, NothingInvented
  <2>2. PICK p \in 1..Len(e) : p > first /\ IsTool(e[p]) /\ e[p].id = x
    BY <1>5, <1>8
  <2>3. h[p] \in 1..Len(s) /\ p <= h[p]
    BY <1>0, <2>1, MendedEarlier
  <2>4. h[p] \in first + 1..Len(s)
    BY <1>0, <2>2, <2>3
  <2>5. e[p] = s[h[p]] /\ Called(s, h[p])
    BY <1>1, <2>1, <2>2
  <2> QED
    BY <2>2, <2>4, <2>5
<1> QED
  BY <1>3, <1>4, <1>6, <1>7, <1>8 DEF Compacted

LEMMA CalledIdsType ==
  ASSUME NEW s \in Seq(Msg)
  PROVE  CalledIds(s) \subseteq Nat
<1>1. \A i \in 1..Len(s) : s[i].id \in Nat
  <2> TAKE i \in 1..Len(s)
  <2>1. s[i] \in Msg
    BY ElementOfSeq
  <2> QED
    BY <2>1 DEF Msg
<1> QED
  BY <1>1 DEF CalledIds

\* The request: it has messages of m, which compaction made of e, and error
\* results; a result of m is not among these.
Sent(w, e, m, k, g, r) ==
  /\ \A q \in 1..Len(w) : r[q] # 0 => g[r[q]] \in k..Len(m) /\ w[q] = m[g[r[q]]]
  /\ \A q \in 1..Len(w) : r[q] = 0 => IsTool(w[q]) /\ w[q].shown = "lost" /\
       \E a \in k..Len(m) : \E l \in 1..Len(e[a].calls) :
         /\ w[q].key = e[a].calls[l].key
         /\ \A p \in a + 1..Len(m) : IsTool(e[p]) => e[p].id # e[a].calls[l].id

LEMMA SentIs ==
  ASSUME NEW e \in Seq(Msg), NEW first, NEW ids, NEW m, NEW more, Shortens(m, e, first, ids, more)
  PROVE  LET w == Backfill(DropOrphans(Snip(m))) IN
         /\ w \in Seq(Msg)
         /\ \E k \in 1..Len(m) + 1 : \E g, r : Sent(w, e, m, k, g, r)
<1> DEFINE t == DropOrphans(Snip(m))
           w == Backfill(t)
<1>1. m \in Seq(Msg) /\ Len(m) = Len(e) /\ Len(m) \in Nat
  BY LenProperties DEF Shortens
<1>2. \A p \in 1..Len(m) : Like(m[p], e[p])
  <2> TAKE p \in 1..Len(m)
  <2>1. e[p] \in Msg
    BY <1>1, ElementOfSeq
  <2>2. Like(e[p], e[p]) /\ Like(Summary(e[p]), e[p])
    BY <2>1, SummaryIs DEF Like
  <2> QED
    BY <1>1, <2>2 DEF Shortens
<1>3. \A p \in 1..Len(m) : (IsTool(m[p]) <=> IsTool(e[p])) /\ m[p].id = e[p].id /\ m[p].calls = e[p].calls
  BY <1>2 DEF Like, IsTool
<1>4. PICK k \in 1..Len(m) + 1 : Snip(m) = From(m, k)
  BY <1>1, SnipIs
<1>5. t \in Seq(Msg) /\ \E g : EndOf(t, m, k, g)
  BY <1>1, <1>4, EndOfIs
<1> HIDE DEF t
<1>6. PICK g : EndOf(t, m, k, g)
  BY <1>5
<1>7. w \in Seq(Msg) /\ \E r : Filled(w, t, r)
  BY <1>5, BackfillIs
<1> HIDE DEF w
<1>8. PICK r : Filled(w, t, r)
  BY <1>7
<1>9. Len(t) \in Nat /\ k \in Nat
  BY <1>1, <1>5, LenProperties
<1>10. ASSUME NEW q \in 1..Len(w), r[q] # 0
       PROVE  g[r[q]] \in k..Len(m) /\ w[q] = m[g[r[q]]]
  <2>1. r[q] \in 1..Len(t) /\ w[q] = t[r[q]]
    BY <1>8, <1>9, <1>10 DEF Filled
  <2> QED
    BY <1>6, <2>1 DEF EndOf
<1>11. ASSUME NEW q \in 1..Len(w), r[q] = 0
       PROVE  /\ IsTool(w[q]) /\ w[q].shown = "lost"
              /\ \E a \in k..Len(m) : \E l \in 1..Len(e[a].calls) :
                   /\ w[q].key = e[a].calls[l].key
                   /\ \A p \in a + 1..Len(m) : IsTool(e[p]) => e[p].id # e[a].calls[l].id
  <2>1. PICK b \in 1..Len(t) : \E l \in 1..Len(t[b].calls) :
          w[q] = Lost(t[b].calls[l]) /\ t[b].calls[l].id \notin Answered(t)
    BY <1>8, <1>11 DEF Filled
  <2>2. PICK l \in 1..Len(t[b].calls) : w[q] = Lost(t[b].calls[l]) /\ t[b].calls[l].id \notin Answered(t)
    BY <2>1
  <2> DEFINE a == g[b]
             c == t[b].calls[l]
  <2>3. a \in k..Len(m) /\ t[b] = m[a]
    BY <1>6 DEF EndOf
  <2>4. a \in 1..Len(m) /\ t[b].calls = e[a].calls /\ c = e[a].calls[l]
    <3>1. a \in 1..Len(m)
      BY <1>1, <1>9, <2>3
    <3> HIDE DEF a
    <3> QED
      BY <1>3, <2>3, <3>1
  <2>5. c \in CallRecord
    <3>1. t[b] \in Msg
      BY <1>5, ElementOfSeq
    <3>2. t[b].calls \in Seq(CallRecord)
      BY <3>1 DEF Msg
    <3> QED
      BY <2>2, <3>2, ElementOfSeq
  <2>6. IsTool(w[q]) /\ w[q].shown = "lost" /\ w[q].key = c.key
    <3> HIDE DEF c
    <3>1. w[q] = Lost(c)
      BY <2>2 DEF c
    <3> QED
      BY <2>5, <3>1, LostIs
  <2>7. ASSUME NEW p \in a + 1..Len(m), IsTool(e[p]) PROVE e[p].id # c.id
    <3>1. SUFFICES ASSUME e[p].id = c.id PROVE FALSE
      OBVIOUS
    <3>2. p \in k..Len(m) /\ p \in 1..Len(m) /\ a \in k..p - 1
      BY <1>1, <1>9, <2>3
    <3>3. l \in DOMAIN m[a].calls /\ c = m[a].calls[l]
      <4>1. m[a] \in Msg
        BY <1>1, <2>4, ElementOfSeq
      <4>2. m[a].calls \in Seq(CallRecord)
        BY <4>1 DEF Msg
      <4>3. m[a].calls = t[b].calls
        BY <2>3
      <4>4. DOMAIN m[a].calls = 1..Len(t[b].calls)
        BY <4>2, <4>3, LenProperties
      <4> QED
        BY <2>2, <4>3, <4>4
    <3> HIDE DEF a, c
    <3>4. m[p].id \in Ids(m[a]) /\ IsTool(m[p]) /\ m[p].id = c.id
      BY <1>3, <2>7, <3>1, <3>2, <3>3 DEF Ids
    <3>5. PICK d \in 1..Len(t) : g[d] = p
      BY <1>6, <3>2, <3>4 DEF EndOf
    <3>6. t[d] = m[p]
      BY <1>6, <3>5 DEF EndOf
    <3>7. c.id \in Answered(t)
      BY <1>5, <3>4, <3>6, AnsweredIs
    <3> QED
      BY <2>2, <3>7 DEF c
  <2>8. w[q].key = e[a].calls[l].key /\ l \in 1..Len(e[a].calls)
    BY <2>2, <2>4, <2>6
  <2>9. \A p \in a + 1..Len(m) : IsTool(e[p]) => e[p].id # e[a].calls[l].id
    BY <2>4, <2>7
  <2> HIDE DEF a, c
  <2> QED
    BY <2>3, <2>6, <2>8, <2>9
<1>12. Sent(w, e, m, k, g, r)
  BY <1>10, <1>11 DEF Sent
<1> QED
  BY <1>7, <1>12 DEF w, t

\* What a prepared request shows as a summary is a result of the run's list
\* whose id is recorded; and a result that was recorded is not shown otherwise.
LEMMA PrepareIs ==
  ASSUME NEW s, NEW lo, NEW hi, NEW pol, Good(s, lo, hi, pol), NEW first \in Nat,
         NEW ids \in SUBSET CalledIds(s)
  PROVE  LET req == Prepare(s, first, ids) IN
         /\ req.messages \in Seq(Msg)
         /\ ids \subseteq req.ids /\ req.ids \subseteq CalledIds(s)
         /\ \A m \in ToSet(req.messages) : m.shown = "summary" =>
              \E i \in 1..Len(s) : Called(s, i) /\ m.key = s[i].key /\ m.id = s[i].id /\ m.id \in req.ids
         /\ \A n \in ToSet(req.messages) : \A i \in 1..Len(s) :
              IsTool(n) /\ Called(s, i) /\ n.key = s[i].key /\ s[i].id \in ids => n.shown = "summary"
         /\ Complete(s) => \A x \in req.ids : x \in ids \/
              \E i \in first + 1..Len(s) : Called(s, i) /\ s[i].id = x
<1> DEFINE e == ApplyBudget(Repaired(s))
           c == CompactOverflow(e, first, ids)
           m == c.messages
           more == c.ids
           w == Backfill(DropOrphans(Snip(m)))
           req == Prepare(s, first, ids)
<1>0. s \in Seq(Msg) /\ Once(s) /\ Matched(s)
  BY DEF Good
<1>1. e \in Seq(Msg) /\ \E h : Mended(e, s, h)
  BY MendedIs
<1>2. req = [messages |-> w, ids |-> more]
  BY DEF Prepare
<1> HIDE DEF e
<1>3. PICK h : Mended(e, s, h)
  BY <1>1
<1>4. ids \in SUBSET Nat
  BY <1>0, CalledIdsType
<1>5. Shortens(m, e, first, ids, more)
  BY <1>1, <1>4, CompactIs
<1> HIDE DEF c
<1>6. w \in Seq(Msg) /\ \E k \in 1..Len(m) + 1 : \E g, r : Sent(w, e, m, k, g, r)
  BY <1>1, <1>5, SentIs
<1> HIDE DEF w, m, more
<1>7. PICK k \in 1..Len(m) + 1 : \E g, r : Sent(w, e, m, k, g, r)
  BY <1>6
<1>8. PICK g, r : Sent(w, e, m, k, g, r)
  BY <1>7
<1>9. m \in Seq(Msg) /\ Len(m) = Len(e) /\ Len(m) \in Nat /\ k \in Nat /\ Len(s) \in Nat
  BY <1>0, <1>5, LenProperties DEF Shortens
<1>10. /\ ids \subseteq more /\ more \subseteq CalledIds(s)
       /\ \A p \in 1..Len(e) : m[p].shown = "summary" => h[p] # 0 /\ IsTool(e[p]) /\ e[p].id \in more
       /\ Complete(s) => \A x \in more : x \in ids \/ \E i \in first + 1..Len(s) : Called(s, i) /\ s[i].id = x
  <2> HIDE DEF m, more
  <2>1. ids \subseteq CalledIds(s)
    OBVIOUS
  <2>2. Compacted(s, e, h, first, ids, m, more)
    BY <1>1, <1>3, <1>5, <2>1, CompactedIs
  <2> QED
    BY <2>2 DEF Compacted
<1>11. ASSUME NEW p \in 1..Len(e)
       PROVE  /\ h[p] \in 0..Len(s)
              /\ h[p] # 0 => h[p] \in 1..Len(s) /\ Left(e[p], s[h[p]])
              /\ h[p] # 0 /\ IsTool(e[p]) => e[p] = s[h[p]] /\ Called(s, h[p])
              /\ h[p] = 0 => Invented(e[p], s)
  <2>1. h[p] \in 0..Len(s) /\ (h[p] # 0 => h[p] \in 1..Len(s))
    BY <1>3, <1>9 DEF Mended
  <2> QED
    BY <1>3, <2>1 DEF Mended, Left
<1>12. ASSUME NEW p \in 1..Len(e), m[p] # e[p] PROVE m[p] = Summary(e[p]) /\ Like(m[p], e[p]) /\ m[p].shown = "summary"
  <2>1. e[p] \in Msg
    BY <1>1, ElementOfSeq
  <2> QED
    BY <1>5, <1>12, <2>1, SummaryIs DEF Shortens
<1>13. \A p \in 1..Len(e) : m[p].id = e[p].id /\ m[p].key = e[p].key /\ (IsTool(m[p]) <=> IsTool(e[p]))
  BY <1>12 DEF Like, IsTool
<1>14. \A x \in ToSet(w) : \E q \in 1..Len(w) : x = w[q]
  <2>1. DOMAIN w = 1..Len(w)
    BY <1>6, LenProperties
  <2> QED
    BY <2>1 DEF ToSet
<1>15. ASSUME NEW q \in 1..Len(w), w[q].shown = "summary"
       PROVE  \E i \in 1..Len(s) : Called(s, i) /\ w[q].key = s[i].key /\ w[q].id = s[i].id /\ w[q].id \in more
  <2>1. r[q] # 0
    BY <1>8, <1>15 DEF Sent
  <2> DEFINE p == g[r[q]]
  <2>2. p \in k..Len(m) /\ w[q] = m[p]
    BY <1>8, <2>1 DEF Sent
  <2>3. p \in 1..Len(e)
    BY <1>9, <2>2
  <2> HIDE DEF p
  <2>4. h[p] # 0 /\ IsTool(e[p]) /\ e[p].id \in more
    BY <1>10, <1>15, <2>2, <2>3
  <2>5. e[p] = s[h[p]] /\ Called(s, h[p]) /\ h[p] \in 1..Len(s)
    BY <1>11, <2>3, <2>4
  <2>6. w[q].key = e[p].key /\ w[q].id = e[p].id
    BY <1>13, <2>2, <2>3
  <2> QED
    BY <2>4, <2>5, <2>6
<1>16. ASSUME NEW q \in 1..Len(w), NEW i \in 1..Len(s),
              IsTool(w[q]), Called(s, i), w[q].key = s[i].key, s[i].id \in ids
       PROVE  w[q].shown = "summary"
  <2>0. IsTool(s[i]) /\ s[i].id \in CalledIds(s)
    BY <1>16 DEF Called
  <2>1. CASE r[q] # 0
    <3> DEFINE p == g[r[q]]
    <3>1. p \in k..Len(m) /\ w[q] = m[p]
      BY <1>8, <2>1 DEF Sent
    <3>2. p \in 1..Len(e)
      BY <1>9, <3>1
    <3> HIDE DEF p
    <3>3. IsTool(e[p]) /\ e[p].key = s[i].key
      BY <1>13, <1>16, <3>1, <3>2
    <3>4. h[p] # 0
      <4>1. SUFFICES ASSUME h[p] = 0 PROVE FALSE
        OBVIOUS
      <4>2. Invented(e[p], s)
        BY <1>11, <3>2, <4>1
      <4>3. PICK a \in 1..Len(s) : \E l \in 1..Len(s[a].calls) :
              e[p].key = s[a].calls[l].key /\ e[p].id = s[a].calls[l].id
        BY <4>2 DEF Invented
      <4>4. e[p].id = s[i].id
        BY <1>0, <2>0, <3>3, <4>3 DEF Matched
      <4> QED
        BY <2>0, <4>2, <4>4 DEF Invented
    <3>5. e[p] = s[h[p]] /\ h[p] \in 1..Len(s)
      BY <1>11, <3>2, <3>3, <3>4
    <3>6. h[p] = i
      BY <1>0, <2>0, <3>3, <3>5 DEF Once
    <3>7. e[p].id \in ids
      BY <1>16, <3>5, <3>6
    <3>8. m[p] = Summary(e[p])
      BY <1>5, <3>2, <3>3, <3>7 DEF Shortens
    <3>9. e[p] \in Msg
      BY <1>1, <3>2, ElementOfSeq
    <3> QED
      BY <3>1, <3>8, <3>9, SummaryIs
  <2>2. CASE r[q] = 0
    <3>1. PICK a \in k..Len(m) : \E l \in 1..Len(e[a].calls) :
            /\ w[q].key = e[a].calls[l].key
            /\ \A p \in a + 1..Len(m) : IsTool(e[p]) => e[p].id # e[a].calls[l].id
      BY <1>8, <2>2 DEF Sent
    <3>2. PICK l \in 1..Len(e[a].calls) :
            /\ w[q].key = e[a].calls[l].key
            /\ \A p \in a + 1..Len(m) : IsTool(e[p]) => e[p].id # e[a].calls[l].id
      BY <3>1
    <3>3. a \in 1..Len(e)
      BY <1>9
    <3>4. h[a] # 0
      <4>1. SUFFICES ASSUME h[a] = 0 PROVE FALSE
        OBVIOUS
      <4>2. e[a].calls = <<>>
        BY <1>11, <3>3, <4>1 DEF Invented
      <4>3. Len(e[a].calls) = 0
        BY <4>2, EmptySeq
      <4> QED
        BY <3>2, <4>3
    <3>5. h[a] \in 1..Len(s) /\ Left(e[a], s[h[a]])
      BY <1>11, <3>3, <3>4
    <3>6. PICK l2 \in 1..Len(s[h[a]].calls) : e[a].calls[l] = s[h[a]].calls[l2]
      BY <3>5 DEF Left
    <3>7. h[a] < i /\ e[a].calls[l].id = s[i].id
      <4>1. s[h[a]].calls[l2].key = s[i].key
        BY <1>16, <3>2, <3>6
      <4>2. h[a] < i /\ s[h[a]].calls[l2].id = s[i].id
        BY <1>0, <2>0, <3>5, <4>1 DEF Matched
      <4> QED
        BY <3>6, <4>2
    <3>8. PICK p \in 1..Len(e) : h[p] = i
      BY <1>3, <1>16 DEF Mended
    <3>9. ~ (p <= a)
      <4>1. SUFFICES ASSUME p <= a PROVE FALSE
        OBVIOUS
      <4>2. h[p] # 0 /\ ~ (h[p] <= h[a])
        BY <1>9, <3>5, <3>7, <3>8
      <4>3. p # a /\ p < a
        BY <1>9, <3>3, <4>1, <4>2, <3>5
      <4>4. h[p] < h[a]
        BY <1>3, <3>3, <3>4, <4>2, <4>3 DEF Mended
      <4> QED
        BY <3>5, <3>7, <3>8, <4>4
    <3>10. p \in a + 1..Len(m)
      BY <1>9, <3>3, <3>9
    <3>11. e[p].id = s[i].id /\ IsTool(e[p])
      <4>1. h[p] # 0 /\ Left(e[p], s[i])
        <5>1. h[p] # 0
          BY <1>9, <3>8
        <5>2. Left(e[p], s[h[p]])
          BY <1>11, <5>1
        <5> QED
          BY <3>8, <5>1, <5>2
      <4> QED
        BY <2>0, <4>1 DEF Left
    <3> QED
      BY <3>2, <3>7, <3>10, <3>11
  <2> QED
    BY <2>1, <2>2
<1> HIDE DEF req
<1>17. req.messages = w /\ req.ids = more
  BY <1>2
<1>18. \A x \in ToSet(w) : x.shown = "summary" =>
         \E i \in 1..Len(s) : Called(s, i) /\ x.key = s[i].key /\ x.id = s[i].id /\ x.id \in more
  BY <1>14, <1>15
<1>19. \A n \in ToSet(w) : \A i \in 1..Len(s) :
         IsTool(n) /\ Called(s, i) /\ n.key = s[i].key /\ s[i].id \in ids => n.shown = "summary"
  BY <1>14, <1>16
<1> QED
  BY <1>6, <1>10, <1>17, <1>18, <1>19 DEF req

\* With ids of their own, preparing a request again with what was recorded the
\* first time makes the same request.
LEMMA PrepareAgain ==
  ASSUME NEW s, NEW lo, NEW hi, Good(s, lo, hi, "unique"), NEW first \in Nat,
         NEW ids \in SUBSET CalledIds(s)
  PROVE  Prepare(s, first, Prepare(s, first, ids).ids) = Prepare(s, first, ids)
<1> DEFINE e == ApplyBudget(Repaired(s))
           c == CompactOverflow(e, first, ids)
           m == c.messages
           more == c.ids
           again == CompactOverflow(e, first, more)
<1>0. s \in Seq(Msg) /\ Once(s) /\ \A i \in 1..Len(s) : IsTool(s[i]) => s[i].id = s[i].key
  BY DEF Good, Plain
<1>1. e \in Seq(Msg) /\ \E h : Mended(e, s, h)
  BY MendedIs
<1>2. Prepare(s, first, ids) = [messages |-> Backfill(DropOrphans(Snip(m))), ids |-> more]
  BY DEF Prepare
<1>3. Prepare(s, first, more) = [messages |-> Backfill(DropOrphans(Snip(again.messages))), ids |-> again.ids]
  BY DEF Prepare
<1> HIDE DEF e
<1>4. PICK h : Mended(e, s, h)
  BY <1>1
<1>5. ids \subseteq CalledIds(s) /\ ids \in SUBSET Nat
  BY <1>0, CalledIdsType
<1>6. /\ more \in SUBSET Nat
      /\ Shortens(m, e, first, ids, more)
      /\ Estimate(m) > Budget => \A i \in 1..Len(e) : i > first /\ Compactable(e[i]) => e[i].id \in more
  BY <1>1, <1>5, CompactIs
<1> HIDE DEF c
<1>7. Compacted(s, e, h, first, ids, m, more)
  BY <1>1, <1>4, <1>5, <1>6, CompactedIs
<1> DEFINE w == Recorded(e, more)
<1> HIDE DEF m, more
<1>8. w \in Seq(Msg) /\ Len(w) = Len(e)
      /\ \A p \in 1..Len(e) : w[p] = IF IsTool(e[p]) /\ e[p].id \in more THEN Summary(e[p]) ELSE e[p]
  BY <1>1, RecordedIs
<1> HIDE DEF w
<1>9. ASSUME NEW p \in 1..Len(e), IsTool(e[p]), e[p].id \in more PROVE m[p] = Summary(e[p])
  <2>1. CASE e[p].id \in ids
    BY <1>6, <1>9, <2>1 DEF Shortens
  <2>2. CASE e[p].id \notin ids
    <3>1. PICK q \in 1..Len(e) : Compactable(e[q]) /\ e[q].id = e[p].id /\ m[q] = Summary(e[q])
      BY <1>6, <1>9, <2>2 DEF Shortens
    <3>2. e[p].id \in CalledIds(s) /\ h[q] # 0 /\ IsTool(e[q])
      BY <1>7, <1>9, <3>1 DEF Compacted, Compactable
    <3>3. h[p] # 0
      BY <1>4, <3>2 DEF Mended, Invented
    <3>4. h[p] \in 1..Len(s) /\ h[q] \in 1..Len(s) /\ Left(e[p], s[h[p]]) /\ Left(e[q], s[h[q]])
      <4>1. h[p] \in 0..Len(s) /\ h[q] \in 0..Len(s) /\ Len(s) \in Nat
        BY <1>0, <1>4, LenProperties DEF Mended
      <4> QED
        BY <1>4, <3>2, <3>3, <4>1 DEF Mended
    <3>5. e[p] = s[h[p]] /\ e[q] = s[h[q]]
      BY <1>9, <3>2, <3>4 DEF Left
    <3>6. s[h[p]].key = s[h[q]].key
      BY <1>0, <1>9, <3>1, <3>2, <3>4, <3>5
    <3>7. h[p] = h[q]
      BY <1>0, <1>9, <3>2, <3>4, <3>5, <3>6 DEF Once
    <3>8. Len(e) \in Nat /\ ~ (p < q) /\ ~ (q < p)
      <4>1. Len(e) \in Nat /\ Len(s) \in Nat
        BY <1>0, <1>1, LenProperties
      <4>2. p < q => h[p] < h[q]
        BY <1>4, <3>2, <3>3 DEF Mended
      <4>3. q < p => h[q] < h[p]
        BY <1>4, <3>2, <3>3 DEF Mended
      <4> QED
        BY <3>4, <3>7, <4>1, <4>2, <4>3
    <3>9. p = q
      BY <3>8
    <3> QED
      BY <3>1, <3>9
  <2> QED
    BY <2>1, <2>2
<1>10. m = w
  <2>1. m \in Seq(Msg) /\ Len(m) = Len(e) /\ Len(e) \in Nat
    BY <1>1, <1>6, LenProperties DEF Shortens
  <2>2. ASSUME NEW p \in 1..Len(e) PROVE m[p] = w[p]
    <3>1. CASE IsTool(e[p]) /\ e[p].id \in more
      BY <1>8, <1>9, <3>1
    <3>2. CASE ~ (IsTool(e[p]) /\ e[p].id \in more)
      BY <1>6, <1>8, <3>2 DEF Shortens
    <3> QED
      BY <3>1, <3>2
  <2> QED
    BY <1>8, <2>1, <2>2, SeqEqual
<1>11. Estimate(w) <= Budget \/ Candidates(w, first, more) = <<>>
  <2> DEFINE q == Candidates(w, first, more)
  <2>1. SUFFICES ASSUME ~ (Estimate(w) <= Budget) PROVE q = <<>>
    OBVIOUS
  <2>2. Estimate(m) > Budget
    <3>1. Estimate(w) \in Nat /\ Budget \in Nat
      BY <1>8, WeightType, BudgetAssumption
    <3> QED
      BY <1>10, <2>1, <3>1
  <2>3. /\ q \in Seq(1..Len(w))
        /\ \A k \in 1..Len(q) : q[k] > first /\ Compactable(w[q[k]]) /\ w[q[k]].id \notin more
    BY <1>8, CandidatesAre
  <2> HIDE DEF q
  <2>4. ASSUME NEW k \in 1..Len(q) PROVE FALSE
    <3>1. q[k] \in 1..Len(e) /\ q[k] > first /\ Compactable(w[q[k]]) /\ w[q[k]].id \notin more
      BY <1>8, <2>3, ElementOfSeq
    <3> DEFINE i == q[k]
    <3>2. e[i] \in Msg
      BY <1>1, <3>1, ElementOfSeq
    <3>3. CASE IsTool(e[i]) /\ e[i].id \in more
      <4>1. w[i].id = e[i].id
        BY <1>8, <3>1, <3>2, <3>3, SummaryIs DEF Like
      <4> QED
        BY <3>1, <3>3, <4>1
    <3>4. CASE ~ (IsTool(e[i]) /\ e[i].id \in more)
      <4>1. w[i] = e[i]
        BY <1>8, <3>1, <3>4
      <4>2. e[i].id \in more
        BY <1>6, <2>2, <3>1, <4>1
      <4> QED
        BY <3>1, <4>1, <4>2
    <3> QED
      BY <3>3, <3>4
  <2>5. Len(q) = 0
    <3>1. Len(q) \in Nat
      BY <2>3, LenProperties
    <3>2. ~ (1 \in 1..Len(q))
      BY <2>4
    <3> QED
      BY <3>1, <3>2
  <2> QED
    BY <2>3, <2>5, EmptySeq
<1>12. again = Begun(e, more)
  BY <1>1, <1>11, CompactNone DEF w
<1>13. again.messages = m /\ again.ids = more
  BY <1>10, <1>12 DEF Begun, w
<1> HIDE DEF again
<1> DEFINE req == Prepare(s, first, ids)
<1>14. req.ids = more
  BY <1>2
<1>15. Prepare(s, first, more) = req
  BY <1>2, <1>3, <1>13
<1> HIDE DEF req
<1> QED
  BY <1>14, <1>15 DEF req

\* In a sound list with ids of their own, a request that does not fit begins at
\* the last user message, and shows the long results after the first messages
\* as summaries.
LEMMA PrepareMinimal ==
  ASSUME NEW s, NEW lo, NEW hi, Good(s, lo, hi, "unique"), Clean(s), Anchored(s), Complete(s),
         NEW first \in Nat, NEW ids \in SUBSET CalledIds(s),
         Estimate(Prepare(s, first, ids).messages) > Budget
  PROVE  LET w == Prepare(s, first, ids).messages IN
         /\ \A i \in 2..Len(w) : ~ IsUser(w[i])
         /\ \A q \in 1..Len(w) : \A i \in first + 1..Len(s) :
              IsTool(s[i]) /\ w[q].key = s[i].key => ~ Compactable(w[q])
<1> DEFINE e == ApplyBudget(Repaired(s))
           c == CompactOverflow(e, first, ids)
           m == c.messages
           more == c.ids
           t == Snip(m)
           w == Prepare(s, first, ids).messages
<1>0. /\ s \in Seq(Msg) /\ Once(s) /\ Matched(s) /\ Len(s) \in Nat /\ DOMAIN s = 1..Len(s)
      /\ \A i \in 1..Len(s) : s[i] \in Msg /\ Normalized(s[i]) = s[i] /\ (IsTool(s[i]) => s[i].id = s[i].key)
  BY LenProperties, ElementOfSeq DEF Good, Plain
<1>1. w = Backfill(DropOrphans(t))
  BY DEF Prepare
<1>2. ASSUME NEW a \in 1..Len(s), NEW l \in 1..Len(s[a].calls)
      PROVE  \E j \in a + 1..Len(s) : IsTool(s[j]) /\ s[j].id = s[a].calls[l].id
  <2>1. PICK j \in 1..Len(s) : IsTool(s[j]) /\ s[j].key = s[a].calls[l].key
    BY DEF Clean, Clear, Complete
  <2>2. a < j /\ s[a].calls[l].id = s[j].id
    BY <1>0, <2>1 DEF Matched
  <2>3. j \in a + 1..Len(s)
    BY <1>0, <2>2
  <2> QED
    BY <2>1, <2>2, <2>3
<1>3. e = s
  <2>1. DropOrphans(StripMalformed(StripPlaceholders(s))) = s
    BY <1>0, ShedSame
  <2>2. \A a \in 1..Len(s) : \A l \in 1..Len(s[a].calls) : s[a].calls[l].id \in Answered(s)
    <3> TAKE a \in 1..Len(s)
    <3> TAKE l \in 1..Len(s[a].calls)
    <3>1. PICK j \in a + 1..Len(s) : IsTool(s[j]) /\ s[j].id = s[a].calls[l].id
      BY <1>2
    <3>2. j \in 1..Len(s)
      BY <1>0
    <3> QED
      BY <1>0, <3>1, <3>2, AnsweredIs
  <2>3. Backfill(s) = s
    BY <1>0, <2>2, BackfillIs
  <2>4. [i \in DOMAIN s |-> Normalized(s[i])] = s
    BY <1>0
  <2> QED
    BY <2>1, <2>3, <2>4 DEF ApplyBudget, Repaired
<1> HIDE DEF e
<1>4. ids \in SUBSET Nat
  BY <1>0, CalledIdsType
<1>5. /\ Shortens(m, s, first, ids, more)
      /\ Estimate(m) > Budget => \A i \in 1..Len(s) : i > first /\ Compactable(s[i]) => s[i].id \in more
  BY <1>0, <1>3, <1>4, CompactIs
<1> HIDE DEF c
<1> HIDE DEF m, more
<1>6. m \in Seq(Msg) /\ Len(m) = Len(s)
  BY <1>5 DEF Shortens
<1>7. ASSUME NEW p \in 1..Len(s)
      PROVE  /\ IsTool(m[p]) <=> IsTool(s[p])
             /\ m[p].id = s[p].id /\ m[p].key = s[p].key /\ m[p].calls = s[p].calls /\ Ids(m[p]) = Ids(s[p])
             /\ m[p] = s[p] \/ ~ Compactable(m[p])
             /\ IsTool(s[p]) /\ s[p].id \in ids => ~ Compactable(m[p])
  <2>1. Like(s[p], s[p]) /\ Like(Summary(s[p]), s[p]) /\ Summary(s[p]).weight = 1
    BY <1>0, SummaryIs DEF Like
  <2>2. ~ Compactable(Summary(s[p]))
    BY <2>1, BudgetAssumption DEF Compactable
  <2>3. m[p] = s[p] \/ m[p] = Summary(s[p])
    BY <1>5 DEF Shortens
  <2>4. Like(m[p], s[p])
    BY <2>1, <2>3
  <2>5. IsTool(s[p]) /\ s[p].id \in ids => m[p] = Summary(s[p])
    BY <1>5 DEF Shortens
  <2> QED
    BY <2>2, <2>3, <2>4, <2>5, LikeFacts DEF Like
<1>8. Anchored(m)
  <2> SUFFICES ASSUME NEW j \in 1..Len(m), IsTool(m[j]) PROVE Declared(m, j)
    BY DEF Anchored
  <2>1. j \in 1..Len(s) /\ Declared(s, j)
    BY <1>6, <1>7 DEF Anchored
  <2>2. PICK k \in 1..j - 1 : s[j].id \in Ids(s[k])
    BY <2>1 DEF Declared
  <2>3. k \in 1..Len(s)
    BY <1>0, <2>1
  <2> QED
    BY <1>7, <2>1, <2>2, <2>3 DEF Declared
<1>9. /\ \E k \in 1..Len(m) + 1 : t = From(m, k)
      /\ Anchored(t)
      /\ Estimate(m) <= Budget => t = m
      /\ Estimate(t) > Budget => \A i \in 2..Len(t) : ~ IsUser(t[i])
  BY <1>6, <1>8, SnipIs
<1> HIDE DEF t
<1>10. PICK k \in 1..Len(m) + 1 : t = From(m, k)
  BY <1>9
<1>11. /\ t \in Seq(Msg) /\ Len(t) = Len(s) - k + 1 /\ k \in Nat
       /\ \A p \in 1..Len(t) : p + k - 1 \in 1..Len(s) /\ t[p] = m[p + k - 1]
  <2>1. t \in Seq(Msg) /\ Len(t) = Len(m) - k + 1 /\ \A p \in 1..Len(m) - k + 1 : t[p] = m[p + k - 1]
    BY <1>6, <1>10, FromIs
  <2>2. \A p \in 1..Len(m) - k + 1 : p + k - 1 \in 1..Len(s)
    BY <1>0, <1>6
  <2> QED
    BY <1>0, <1>6, <2>1, <2>2
<1>12. DropOrphans(t) = t
  BY <1>9, <1>11, DropSame
<1>13. ASSUME NEW b \in 1..Len(t), NEW l \in 1..Len(t[b].calls) PROVE t[b].calls[l].id \in Answered(t)
  <2> DEFINE a == b + k - 1
  <2>1. a \in 1..Len(s) /\ t[b] = m[a]
    BY <1>11
  <2>2. a - k + 1 = b /\ b \in Nat /\ b >= 1
    BY <1>11
  <2> HIDE DEF a
  <2>3. t[b].calls = s[a].calls
    BY <1>7, <2>1
  <2>4. PICK j \in a + 1..Len(s) : IsTool(s[j]) /\ s[j].id = t[b].calls[l].id
    BY <1>2, <2>1, <2>3
  <2> DEFINE d == j - k + 1
  <2>5. j \in 1..Len(s) /\ d \in 1..Len(t) /\ d + k - 1 = j
    <3>1. Len(s) \in Nat /\ k \in Nat /\ Len(t) = Len(s) - k + 1 /\ a \in 1..Len(s)
      BY <1>0, <1>11, <2>1
    <3>2. j \in a + 1..Len(s)
      OBVIOUS
    <3>3. j \in 1..Len(s) /\ j > a
      BY <3>1, <3>2
    <3>4. k <= a
      BY <3>1, <2>2
    <3> QED
      BY ONLY <3>1, <3>3, <3>4
  <2> HIDE DEF d
  <2>6. t[d] = m[j]
    BY <1>11, <2>5
  <2>7. IsTool(t[d]) /\ t[d].id = t[b].calls[l].id
    BY <1>7, <2>4, <2>5, <2>6
  <2> QED
    BY <1>11, <2>5, <2>7, AnsweredIs
<1>14. w = t
  <2>1. \A b \in 1..Len(t) : \A l \in 1..Len(t[b].calls) : t[b].calls[l].id \in Answered(t)
    BY <1>13
  <2> HIDE DEF w
  <2> QED
    BY <1>1, <1>11, <1>12, <2>1, BackfillIs
<1>15. Estimate(t) > Budget /\ Estimate(t) \in Nat /\ Estimate(m) \in Nat /\ Budget \in Nat
  <2> HIDE DEF w
  <2>1. Estimate(w) > Budget
    BY DEF w
  <2> QED
    BY <1>6, <1>11, <1>14, <2>1, WeightType, BudgetAssumption
<1>16. Estimate(m) > Budget
  BY <1>9, <1>15
<1>17. ASSUME NEW q \in 1..Len(t), NEW i \in first + 1..Len(s), IsTool(s[i]), t[q].key = s[i].key,
              Compactable(t[q])
       PROVE  FALSE
  <2> DEFINE p == q + k - 1
  <2>1. p \in 1..Len(s) /\ t[q] = m[p]
    BY <1>11
  <2> HIDE DEF p
  <2>2. i \in 1..Len(s) /\ i > first
    BY <1>0
  <2>3. IsTool(s[p]) /\ s[p].key = s[i].key
    BY <1>7, <1>17, <2>1 DEF Compactable
  <2>4. p = i
    BY <1>0, <1>17, <2>1, <2>2, <2>3 DEF Once
  <2>5. m[p] = s[p] /\ s[p].id \notin ids
    BY <1>7, <1>17, <2>1, <2>3
  <2>6. s[p].id \in more
    BY <1>5, <1>16, <1>17, <2>1, <2>2, <2>4, <2>5
  <2>7. PICK j \in 1..Len(s) : Compactable(s[j]) /\ s[j].id = s[p].id /\ m[j] = Summary(s[j])
    BY <1>5, <2>5, <2>6 DEF Shortens
  <2>8. IsTool(s[j]) /\ s[j].key = s[p].key
    BY <1>0, <2>1, <2>3, <2>7 DEF Compactable
  <2>9. j = p
    BY <1>0, <2>1, <2>3, <2>8 DEF Once
  <2>10. Summary(s[p]).weight = 1
    BY <1>0, <2>1, SummaryIs
  <2>11. m[p].weight = 1
    BY <2>7, <2>9, <2>10
  <2> QED
    BY <1>17, <2>1, <2>11, BudgetAssumption DEF Compactable
<1> HIDE DEF w
<1> QED
  BY <1>9, <1>14, <1>15, <1>17 DEF w

-----------------------------------------------------------------------------
(* The messages that turns add. *)

LEMMA Widen ==
  ASSUME NEW lo \in Nat, NEW hi \in Nat, NEW lo2 \in Nat, NEW hi2 \in Nat, lo2 <= lo, hi <= hi2,
         NEW pol, NEW s, Good(s, lo, hi, pol)
  PROVE  Good(s, lo2, hi2, pol)
<1>1. lo + 1..hi \subseteq lo2 + 1..hi2
  OBVIOUS
<1>2. \A i \in 1..Len(s) : Plain(s[i], lo2, hi2, pol)
  BY <1>1 DEF Good, Plain
<1> QED
  BY <1>2 DEF Good

\* Messages that are no results.
LEMMA NoTools ==
  ASSUME NEW lo, NEW hi, NEW pol, NEW s \in Seq(Msg),
         \A i \in 1..Len(s) : ~ IsTool(s[i]) /\ Plain(s[i], lo, hi, pol)
  PROVE  /\ Good(s, lo, hi, pol) /\ Anchored(s)
         /\ (\A i \in 1..Len(s) : s[i].calls = <<>>) => Complete(s)
<1>1. Good(s, lo, hi, pol) /\ Anchored(s)
  BY DEF Good, Once, Matched, Anchored
<1>2. Len(<<>>) = 0
  BY EmptySeq
<1> QED
  BY <1>1, <1>2 DEF Complete

\* A message that only says something.
Said(m) == m \in Msg /\ m.role \in {"user", "assistant"} /\ m.calls = <<>> /\ m.shown = "full"

LEMMA SaidIs ==
  ASSUME NEW m, Said(m)
  PROVE  /\ m \in Msg /\ ~ IsTool(m) /\ m.calls = <<>> /\ Normalized(m) = m
         /\ \A lo, hi, pol : Plain(m, lo, hi, pol)
         /\ m.text # <<Placeholder>> => Clear(m)
<1>1. m \in Msg /\ ~ IsTool(m) /\ m.calls = <<>> /\ m.shown = "full"
  BY DEF Said, IsTool
<1>2. Normalized(m) = m
  BY <1>1 DEF Normalized
<1>3. \A k \in 1..Len(m.calls) : FALSE
  <2>1. Len(m.calls) = 0
    BY <1>1, EmptySeq
  <2> QED
    BY <2>1
<1>4. \A lo, hi, pol : Plain(m, lo, hi, pol)
  BY <1>1, <1>2, <1>3 DEF Plain
<1>5. m.text # <<Placeholder>> => Clear(m)
  <2> SUFFICES ASSUME m.text # <<Placeholder>> PROVE Clear(m)
    OBVIOUS
  <2>1. ~ IsPlaceholder(m)
    BY DEF IsPlaceholder
  <2> QED
    BY <1>3, <2>1 DEF Clear
<1> QED
  BY <1>1, <1>2, <1>4, <1>5

Spoken(m) == Said(m) /\ Clear(m) /\ m.text # <<Placeholder>>

LEMMA SaysIs ==
  ASSUME made \in Nat, NEW who, who = "user" \/ who = "assistant", NEW n \in Nat, n > 0
  PROVE  /\ Spoken(Says(who, n)) /\ Said(Says(who, n))
         /\ Said(Noted(Says(who, n), "command")) /\ Said(Noted(Says(who, n), "delivery"))
<1> DEFINE x == made + n
           text == <<x>>
           m == Says(who, n)
<1>1. x \in Nat /\ x # 0
  OBVIOUS
<1> HIDE DEF x
<1>2. text # <<Placeholder>>
  BY <1>1 DEF Placeholder
<1>0. text \in Seq(Nat)
  BY <1>1
<1>3. m = Message(who, text)
  BY DEF Says, x
<1> HIDE DEF text, m
<1>4. m \in Msg /\ m.role = who /\ m.text = text /\ m.calls = <<>> /\ m.shown = "full"
  <2>1. <<>> \in Seq(CallRecord)
    BY EmptySeq
  <2> QED
    BY <1>0, <1>3, <2>1 DEF Message, Msg
<1>5. Said(m)
  BY <1>4 DEF Said
<1>6. Clear(m)
  BY <1>2, <1>4, <1>5, SaidIs
<1>7. ASSUME NEW note \in {"", "command", "delivery"} PROVE Said(Noted(m, note))
  <2> DEFINE w == Noted(m, note)
  <2>1. w \in Msg /\ w.role = who /\ w.text = text /\ w.calls = <<>> /\ w.shown = "full"
    BY <1>4 DEF Noted, Msg
  <2> HIDE DEF w
  <2> QED
    BY <2>1 DEF Said, w
<1> QED
  BY <1>2, <1>4, <1>5, <1>6, <1>7 DEF m, Spoken

\* One or two such messages.
LEMMA SaidOne ==
  ASSUME NEW lo, NEW hi, NEW pol, NEW a, Said(a)
  PROVE  /\ Good(<<a>>, lo, hi, pol) /\ Anchored(<<a>>) /\ Complete(<<a>>)
         /\ Clear(a) => Clean(<<a>>)
<1> DEFINE s == <<a>>
<1>1. a \in Msg /\ ~ IsTool(a) /\ a.calls = <<>> /\ Plain(a, lo, hi, pol)
  BY SaidIs
<1>2. s \in Seq(Msg) /\ Len(s) = 1 /\ s[1] = a
  BY <1>1
<1> HIDE DEF s
<1>3. \A i \in 1..Len(s) : s[i] = a
  BY <1>2
<1>4. Good(s, lo, hi, pol) /\ Anchored(s) /\ Complete(s)
  BY <1>1, <1>2, <1>3, NoTools
<1>5. Clear(a) => Clean(s)
  BY <1>3 DEF Clean
<1> QED
  BY <1>4, <1>5 DEF s

LEMMA SaidTwo ==
  ASSUME NEW lo, NEW hi, NEW pol, NEW a, NEW b, Said(a), Said(b)
  PROVE  /\ Good(<<a, b>>, lo, hi, pol) /\ Anchored(<<a, b>>) /\ Complete(<<a, b>>)
         /\ Clear(a) /\ Clear(b) => Clean(<<a, b>>)
<1> DEFINE s == <<a, b>>
<1>1. /\ a \in Msg /\ ~ IsTool(a) /\ a.calls = <<>> /\ Plain(a, lo, hi, pol)
      /\ b \in Msg /\ ~ IsTool(b) /\ b.calls = <<>> /\ Plain(b, lo, hi, pol)
  BY SaidIs
<1>2. s \in Seq(Msg) /\ Len(s) = 2 /\ s[1] = a /\ s[2] = b
  BY <1>1
<1> HIDE DEF s
<1>3. \A i \in 1..Len(s) : s[i] = a \/ s[i] = b
  BY <1>2
<1>4. Good(s, lo, hi, pol) /\ Anchored(s) /\ Complete(s)
  BY <1>1, <1>2, <1>3, NoTools
<1>5. Clear(a) /\ Clear(b) => Clean(s)
  BY <1>3 DEF Clean
<1> QED
  BY <1>4, <1>5 DEF s

\* A blank answer, and what stands for one.
LEMMA BlankIs ==
  /\ Said(Message("assistant", <<>>)) /\ Spoken(Message("assistant", <<>>))
  /\ Said(Message("assistant", <<Placeholder>>))
<1>1. <<>> \in Seq(CallRecord) /\ <<>> \in Seq(Nat) /\ <<Placeholder>> \in Seq(Nat)
  BY EmptySeq DEF Placeholder
<1>2. <<>> # <<Placeholder>>
  OBVIOUS
<1>3. Said(Message("assistant", <<>>)) /\ Message("assistant", <<>>).text = <<>>
  BY <1>1 DEF Message, Said, Msg
<1>4. Said(Message("assistant", <<Placeholder>>))
  BY <1>1 DEF Message, Said, Msg
<1>5. Clear(Message("assistant", <<>>))
  BY <1>2, <1>3, SaidIs
<1>6. Message("assistant", <<>>).text # <<Placeholder>>
  BY <1>2, <1>3
<1> QED
  BY <1>3, <1>4, <1>5, <1>6 DEF Spoken

\* Calls with the keys from lo on.
Numbered(c, lo, pol) ==
  /\ c \in Seq(CallRecord)
  /\ \A i \in 1..Len(c) : c[i].key = lo + i /\ (pol = "unique" => c[i].id = c[i].key)

LEMMA CallerIs ==
  ASSUME NEW lo \in Nat, NEW pol, NEW c, Numbered(c, lo, pol)
  PROVE  LET m == ToolCalls(<<>>, c) IN
         /\ m \in Msg /\ ~ IsTool(m) /\ m.calls = c /\ Plain(m, lo, lo + Len(c), pol)
         /\ m.role = "assistant" /\ m.text = <<>>
         /\ (\A i \in 1..Len(c) : c[i].named) => Clear(m)
<1> DEFINE m == ToolCalls(<<>>, c)
<1>1. c \in Seq(CallRecord) /\ Len(c) \in Nat /\ <<>> \in Seq(CallRecord) /\ <<>> \in Seq(Nat)
  BY LenProperties, EmptySeq DEF Numbered
<1>2. m \in Msg /\ m.role = "assistant" /\ m.text = <<>> /\ m.calls = c /\ m.shown = "full"
  BY <1>1 DEF ToolCalls, Message, Msg
<1> HIDE DEF m
<1>3. ~ IsTool(m) /\ Normalized(m) = m
  BY <1>2 DEF IsTool, Normalized
<1>4. \A k \in 1..Len(m.calls) : m.calls[k].key \in lo + 1..lo + Len(c) /\ (pol = "unique" => m.calls[k].id = m.calls[k].key)
  <2> TAKE k \in 1..Len(m.calls)
  <2>1. k \in 1..Len(c) /\ c[k].key = lo + k /\ (pol = "unique" => c[k].id = c[k].key) /\ m.calls[k] = c[k]
    BY <1>2 DEF Numbered
  <2>2. lo + k \in lo + 1..lo + Len(c)
    BY <1>1, <2>1
  <2> QED
    BY <2>1, <2>2
<1>5. Plain(m, lo, lo + Len(c), pol)
  BY <1>2, <1>3, <1>4 DEF Plain
<1>6. ~ IsPlaceholder(m)
  <2>1. <<>> # <<Placeholder>>
    OBVIOUS
  <2> QED
    BY <1>2, <2>1 DEF IsPlaceholder
<1>7. (\A i \in 1..Len(c) : c[i].named) => Clear(m)
  BY <1>2, <1>6 DEF Clear
<1> QED
  BY <1>2, <1>3, <1>5, <1>7 DEF m

\* m is the result of call.
Answers(m, call) ==
  /\ m \in Msg /\ IsTool(m) /\ m.calls = <<>> /\ m.id = call.id /\ m.key = call.key
  /\ m.shown = "full" /\ m.note = "" /\ Normalized(m) = m

LEMMA ResultIs ==
  ASSUME NEW call \in CallRecord
  PROVE  Answers(Normalized(Result(call, RawWeight(call.tool))), call)
<1> DEFINE w == RawWeight(call.tool)
           r == Result(call, w)
<1>1. w \in Nat
  <2>1. call.tool \in {"read", "search", "mcp", "write"}
    BY DEF CallRecord, Tools
  <2> QED
    BY <2>1, BudgetAssumption DEF RawWeight
<1>2. <<>> \in Seq(CallRecord) /\ <<>> \in Seq(Nat)
  BY EmptySeq
<1> HIDE DEF w
<1>3. /\ r \in Msg /\ IsTool(r) /\ r.calls = <<>> /\ r.id = call.id /\ r.key = call.key
      /\ r.shown = "full" /\ r.note = ""
  BY <1>1, <1>2 DEF Result, Message, Msg, CallRecord, IsTool
<1> HIDE DEF r
<1> DEFINE m == Normalized(r)
<1>4. m \in Msg /\ Like(m, r) /\ m.shown = r.shown /\ Normalized(m) = m
  BY <1>3, NormalizedIs
<1> HIDE DEF m
<1>5. /\ IsTool(m) /\ m.calls = <<>> /\ m.id = call.id /\ m.key = call.key
      /\ m.shown = "full" /\ m.note = ""
  BY <1>3, <1>4 DEF Like, IsTool
<1> QED
  BY <1>4, <1>5 DEF Answers, m, r, w

\* A message that calls tools, and the results.
LEMMA ExchangeIs ==
  ASSUME NEW lo \in Nat, NEW pol, NEW c, Numbered(c, lo, pol)
  PROVE  LET w == Exchange(c) IN
         /\ Good(w, lo, lo + Len(c), pol) /\ Complete(w) /\ Anchored(w)
         /\ (\A i \in 1..Len(c) : c[i].named) => Clean(w)
         /\ Len(w) = Len(c) + 1 /\ \A j \in 2..Len(w) : IsTool(w[j])
<1> DEFINE n == Len(c)
           caller == ToolCalls(<<>>, c)
           t == Results(c)
           w == Exchange(c)
<1>1. c \in Seq(CallRecord) /\ n \in Nat /\ DOMAIN c = 1..n /\ \A i \in 1..n : c[i] \in CallRecord
  BY LenProperties, ElementOfSeq DEF Numbered
<1>2. \A i \in 1..n : c[i].key = lo + i /\ (pol = "unique" => c[i].id = c[i].key)
  BY DEF Numbered
<1>3. /\ caller \in Msg /\ ~ IsTool(caller) /\ caller.calls = c /\ Plain(caller, lo, lo + n, pol)
      /\ (\A i \in 1..n : c[i].named) => Clear(caller)
  BY CallerIs
<1> HIDE DEF caller
<1>4. t = [i \in 1..n |-> Normalized(Result(c[i], RawWeight(c[i].tool)))]
  BY <1>1 DEF Results
<1> HIDE DEF t
<1>5. ASSUME NEW i \in 1..n
      PROVE  Answers(t[i], c[i]) /\ t[i] \in Msg
  <2>1. t[i] = Normalized(Result(c[i], RawWeight(c[i].tool))) /\ c[i] \in CallRecord
    BY <1>1, <1>4
  <2>2. Answers(t[i], c[i])
    BY <2>1, ResultIs
  <2> QED
    BY <2>2 DEF Answers
<1>6. t \in Seq(Msg) /\ Len(t) = n
  <2>1. t \in [1..n -> Msg] /\ DOMAIN t = 1..n
    BY <1>4, <1>5
  <2> HIDE DEF n
  <2> QED
    BY <1>1, <2>1
<1>7. w = Group(caller, t)
  BY DEF Exchange, Group, caller, t
<1> HIDE DEF w
<1>8. w \in Seq(Msg) /\ Len(w) = n + 1 /\ w[1] = caller /\ \A j \in 2..n + 1 : w[j] = t[j - 1]
  <2>1. Group(caller, t) \in Seq(Msg) /\ Len(Group(caller, t)) = 1 + Len(t) /\ Group(caller, t)[1] = caller
        /\ \A k \in 2..1 + Len(t) : Group(caller, t)[k] = t[k - 1]
    BY <1>3, <1>6, GroupIs
  <2> QED
    BY <1>1, <1>6, <1>7, <2>1
<1>9. ASSUME NEW j \in 2..n + 1
      PROVE  /\ j - 1 \in 1..n /\ lo + (j - 1) \in lo + 1..lo + n
             /\ Answers(w[j], c[j - 1]) /\ IsTool(w[j]) /\ Len(w[j].calls) = 0
             /\ w[j].key = lo + (j - 1) /\ w[j].id = c[j - 1].id
             /\ Plain(w[j], lo, lo + n, pol)
  <2> DEFINE i == j - 1
  <2>1. i \in 1..n /\ lo + i \in lo + 1..lo + n
    BY <1>1
  <2>2. w[j] = t[i]
    BY <1>8
  <2> HIDE DEF i, n
  <2>3. Answers(w[j], c[i])
    BY <1>5, <2>1, <2>2
  <2>4. Len(w[j].calls) = 0
    BY <2>3, EmptySeq DEF Answers
  <2>5. IsTool(w[j]) /\ w[j].key = lo + i /\ w[j].id = c[i].id
    BY <1>2, <2>1, <2>3 DEF Answers
  <2>6. pol = "unique" => w[j].id = w[j].key
    BY <1>2, <2>1, <2>5
  <2>7. \A k \in 1..Len(w[j].calls) : FALSE
    BY <2>4
  <2>8. Plain(w[j], lo, lo + n, pol)
    BY <2>1, <2>3, <2>5, <2>6, <2>7 DEF Plain, Answers
  <2> QED
    BY <2>1, <2>3, <2>4, <2>5, <2>8 DEF i
<1>10. \A j \in 1..Len(w) : j = 1 \/ j \in 2..n + 1
  BY <1>1, <1>8
<1>11. ASSUME NEW j \in 1..Len(w) PROVE Plain(w[j], lo, lo + n, pol)
  <2>1. CASE j = 1
    BY <1>3, <1>8, <2>1
  <2>2. CASE j \in 2..n + 1
    BY <1>9, <2>2
  <2> QED
    BY <1>10, <2>1, <2>2
<1>12. \A j \in 1..Len(w) : IsTool(w[j]) <=> j \in 2..n + 1
  BY <1>1, <1>3, <1>8, <1>9, <1>10
<1>13. Once(w)
  <2> SUFFICES ASSUME NEW i \in 1..Len(w), NEW j \in 1..Len(w), IsTool(w[i]), IsTool(w[j]), w[i].key = w[j].key
               PROVE  i = j
    BY DEF Once
  <2>1. i \in 2..n + 1 /\ j \in 2..n + 1
    BY <1>12
  <2>2. lo + (i - 1) = lo + (j - 1)
    BY <1>9, <2>1
  <2> QED
    BY <1>1, <2>1, <2>2
<1>14. \A i \in 1..Len(w) : \A k \in 1..Len(w[i].calls) : i = 1
  <2> TAKE i \in 1..Len(w)
  <2> TAKE k \in 1..Len(w[i].calls)
  <2>1. SUFFICES ASSUME i \in 2..n + 1 PROVE FALSE
    BY <1>10
  <2>2. Len(w[i].calls) = 0
    BY <1>9, <2>1
  <2> QED
    BY <2>2
<1>15. w[1].calls = c /\ 1 \in 1..Len(w)
  BY <1>1, <1>3, <1>8
<1>16. Matched(w)
  <2> SUFFICES ASSUME NEW i \in 1..Len(w), NEW j \in 1..Len(w), NEW k \in 1..Len(w[i].calls),
                      IsTool(w[j]), w[i].calls[k].key = w[j].key
               PROVE  i < j /\ w[i].calls[k].id = w[j].id
    BY DEF Matched
  <2>1. i = 1 /\ k \in 1..n /\ w[i].calls[k] = c[k]
    BY <1>14, <1>15
  <2>2. j \in 2..n + 1
    BY <1>12
  <2>3. lo + k = lo + (j - 1) /\ w[j].id = c[j - 1].id
    <3>1. w[j].key = lo + (j - 1) /\ w[j].id = c[j - 1].id
      BY <1>9, <2>2
    <3>2. c[k].key = lo + k
      BY <1>2, <2>1
    <3> QED
      BY <2>1, <3>1, <3>2
  <2>4. k = j - 1 /\ i < j
    BY <1>1, <2>1, <2>2, <2>3
  <2> QED
    BY <2>1, <2>3, <2>4
<1>17. Complete(w)
  <2> SUFFICES ASSUME NEW i \in 1..Len(w), NEW k \in 1..Len(w[i].calls)
               PROVE  \E j \in 1..Len(w) : IsTool(w[j]) /\ w[j].key = w[i].calls[k].key
    BY DEF Complete
  <2>1. i = 1 /\ k \in 1..n /\ w[i].calls[k] = c[k]
    BY <1>14, <1>15
  <2>2. k + 1 \in 2..n + 1 /\ k + 1 \in 1..Len(w) /\ (k + 1) - 1 = k
    BY <1>1, <1>8, <2>1
  <2>3. IsTool(w[k + 1]) /\ w[k + 1].key = lo + k
    BY <1>9, <2>2
  <2> QED
    BY <1>2, <2>1, <2>2, <2>3
<1>18. Anchored(w)
  <2> SUFFICES ASSUME NEW j \in 1..Len(w), IsTool(w[j]) PROVE Declared(w, j)
    BY DEF Anchored
  <2>1. j \in 2..n + 1
    BY <1>12
  <2>2. j - 1 \in 1..n /\ w[j].id = c[j - 1].id /\ 1 \in 1..j - 1
    <3>1. j - 1 \in 1..n /\ w[j].id = c[j - 1].id
      BY <1>9, <2>1
    <3> QED
      BY <1>1, <2>1, <3>1
  <2>3. w[j].id \in Ids(w[1])
    BY <1>1, <1>15, <2>2 DEF Ids
  <2> QED
    BY <2>2, <2>3 DEF Declared
<1>19. (\A i \in 1..n : c[i].named) => Clean(w)
  <2> SUFFICES ASSUME \A i \in 1..n : c[i].named, NEW j \in 1..Len(w) PROVE Clear(w[j])
    BY DEF Clean
  <2>1. CASE j = 1
    BY <1>3, <1>8, <2>1
  <2>2. CASE j \in 2..n + 1
    <3>1. ~ IsPlaceholder(w[j])
      BY <1>9, <2>2 DEF IsPlaceholder, IsAssistant, IsTool
    <3>2. \A k \in 1..Len(w[j].calls) : FALSE
      <4>1. Len(w[j].calls) = 0
        BY <1>9, <2>2
      <4> QED
        BY <4>1
    <3> QED
      BY <3>1, <3>2 DEF Clear
  <2> QED
    BY <1>10, <2>1, <2>2
<1>20. Good(w, lo, lo + n, pol)
  BY <1>8, <1>11, <1>13, <1>16 DEF Good
<1>21. \A j \in 2..Len(w) : IsTool(w[j])
  BY <1>8, <1>9
<1> QED
  BY <1>8, <1>17, <1>18, <1>19, <1>20, <1>21 DEF w

\* n says something else than m, and calls the same tools.
Redone(n, m) == n \in Msg /\ ~ IsTool(n) /\ ~ IsTool(m) /\ n.calls = m.calls /\ n.shown = m.shown

LEMMA RedoneGood ==
  ASSUME NEW lo, NEW hi, NEW pol, NEW s, Good(s, lo, hi, pol), NEW t \in Seq(Msg), Len(t) = Len(s),
         \A i \in 1..Len(s) : t[i] = s[i] \/ Redone(t[i], s[i])
  PROVE  /\ Good(t, lo, hi, pol)
         /\ Anchored(s) => Anchored(t)
         /\ Complete(s) => Complete(t)
<1>1. ASSUME NEW i \in 1..Len(s)
      PROVE  /\ IsTool(t[i]) <=> IsTool(s[i])
             /\ IsTool(s[i]) => t[i] = s[i]
             /\ t[i].calls = s[i].calls /\ Ids(t[i]) = Ids(s[i])
             /\ Plain(t[i], lo, hi, pol)
  <2>1. Plain(s[i], lo, hi, pol)
    BY DEF Good
  <2>2. CASE Redone(t[i], s[i])
    <3>1. Normalized(t[i]) = t[i]
      BY <2>2 DEF Redone, Normalized
    <3>2. t[i].calls = s[i].calls /\ t[i].shown = "full" /\ ~ IsTool(t[i]) /\ ~ IsTool(s[i])
      BY <2>1, <2>2 DEF Redone, Plain
    <3>3. Plain(t[i], lo, hi, pol)
      BY <2>1, <3>1, <3>2 DEF Plain
    <3> QED
      BY <3>2, <3>3 DEF Ids
  <2> QED
    BY <2>1, <2>2
<1>2. Once(s) /\ Matched(s)
  BY DEF Good
<1>3. Once(t)
  BY <1>1, <1>2 DEF Once
<1>4. Matched(t)
  <2> SUFFICES ASSUME NEW i \in 1..Len(s), NEW j \in 1..Len(s), NEW k \in 1..Len(t[i].calls),
                      IsTool(t[j]), t[i].calls[k].key = t[j].key
               PROVE  i < j /\ t[i].calls[k].id = t[j].id
    BY DEF Matched
  <2>1. t[i].calls = s[i].calls /\ t[j] = s[j] /\ IsTool(s[j])
    BY <1>1
  <2> QED
    BY <1>2, <2>1 DEF Matched
<1>5. Good(t, lo, hi, pol)
  BY <1>1, <1>3, <1>4 DEF Good
<1>6. ASSUME Anchored(s), NEW j \in 1..Len(s), IsTool(t[j]) PROVE Declared(t, j)
  <2>1. t[j] = s[j] /\ Declared(s, j)
    BY <1>1, <1>6 DEF Anchored
  <2>2. PICK k \in 1..j - 1 : s[j].id \in Ids(s[k])
    BY <2>1 DEF Declared
  <2>3. k \in 1..Len(s)
    OBVIOUS
  <2> QED
    BY <1>1, <2>1, <2>2, <2>3 DEF Declared
<1>7. ASSUME Complete(s), NEW i \in 1..Len(s), NEW k \in 1..Len(t[i].calls), t[i].calls[k].named
      PROVE  \E j \in 1..Len(s) : IsTool(t[j]) /\ t[j].key = t[i].calls[k].key
  <2>1. t[i].calls = s[i].calls
    BY <1>1
  <2>2. PICK j \in 1..Len(s) : IsTool(s[j]) /\ s[j].key = s[i].calls[k].key
    BY <1>7, <2>1 DEF Complete
  <2> QED
    BY <1>1, <2>1, <2>2
<1>8. Anchored(s) => Anchored(t)
  BY <1>6 DEF Anchored
<1>9. Complete(s) => Complete(t)
  BY <1>7 DEF Complete
<1> QED
  BY <1>5, <1>8, <1>9

LEMMA SaidText ==
  ASSUME NEW a \in Seq(Nat), NEW b \in Seq(Nat), a # <<Placeholder>>, b # <<Placeholder>>
  PROVE  a \o b # <<Placeholder>>
<1> DEFINE x == <<Placeholder>>
           w == a \o b
<1>1. x \in Seq(Nat) /\ Len(x) = 1 /\ a # x /\ b # x
  BY DEF Placeholder
<1> HIDE DEF x
<1>2. Len(a) \in Nat /\ Len(b) \in Nat /\ Len(w) = Len(a) + Len(b)
  BY LenProperties, ConcatProperties
<1>3. SUFFICES ASSUME w = x PROVE FALSE
  BY DEF x
<1>4. Len(a) = 0 \/ Len(b) = 0
  <2>1. Len(w) = 1
    BY ONLY <1>1, <1>3
  <2> QED
    BY ONLY <1>2, <2>1
<1>5. CASE Len(a) = 0
  <2>1. a = <<>>
    BY <1>5, EmptySeq
  <2>2. w = b
    BY <2>1, ConcatEmptySeq
  <2> QED
    BY <1>1, <1>3, <2>2
<1>6. CASE Len(b) = 0
  <2>1. b = <<>>
    BY <1>6, EmptySeq
  <2>2. w = a
    BY <2>1, ConcatEmptySeq
  <2> QED
    BY <1>1, <1>3, <2>2
<1> QED
  BY <1>4, <1>5, <1>6

\* A message that joins the end of a list.
LEMMA JoinedIs ==
  ASSUME NEW lo \in Nat, NEW hi \in Nat, lo <= hi, NEW pol, NEW s, Good(s, lo, hi, pol),
         NEW m, Said(m), Clear(m), m.text # <<Placeholder>>
  PROVE  LET w == Joined(s, m) IN
         /\ Good(w, lo, hi, pol)
         /\ Anchored(s) => Anchored(w)
         /\ Complete(s) => Complete(w)
         /\ Clean(s) => Clean(w)
         /\ Len(s) <= Len(w)
         /\ \A i \in 1..Len(s) : i < Len(s) \/ IsTool(s[i]) => w[i] = s[i]
<1> DEFINE n == Len(s)
           w == Joined(s, m)
<1>1. s \in Seq(Msg) /\ n \in Nat /\ m \in Msg /\ \A i \in 1..n : s[i] \in Msg
  BY LenProperties, ElementOfSeq DEF Good, Said
<1>2. CASE s # <<>> /\ Last(s).role = m.role
  <2> DEFINE last == s[n]
             new == [last EXCEPT !.text = @ \o m.text, !.weight = @ + m.weight]
  <2>1. n \in 1..n /\ last \in Msg /\ last.role = m.role
    <3>1. n # 0
      BY <1>1, <1>2, EmptySeq
    <3>2. n \in 1..n
      BY <1>1, <3>1
    <3> QED
      BY <1>1, <1>2, <3>2 DEF Last
  <2>2. w = [s EXCEPT ![n].text = @ \o m.text, ![n].weight = @ + m.weight]
    BY <1>2 DEF Joined
  <2>3. DOMAIN s = 1..n
    BY <1>1, LenProperties
  <2>4. w = [i \in 1..n |-> IF i = n THEN new ELSE s[i]]
    <3> HIDE DEF w
    <3> QED
      BY <1>1, <2>1, <2>2, <2>3
  <2>5. last.text \in Seq(Nat) /\ m.text \in Seq(Nat) /\ last.weight \in Nat /\ m.weight \in Nat
    <3> HIDE DEF last
    <3> QED
      BY <1>1, <2>1 DEF Msg
  <2>6. new \in Msg /\ new.role = last.role /\ new.calls = last.calls /\ new.shown = last.shown
        /\ new.text = last.text \o m.text
    <3>1. last.text \o m.text \in Seq(Nat) /\ last.weight + m.weight \in Nat
      BY <2>5, ConcatProperties
    <3> HIDE DEF last
    <3> QED
      BY <2>1, <3>1 DEF Msg
  <2>7. Redone(new, last)
    <3>1. m.role \in {"user", "assistant"}
      BY DEF Said
    <3> HIDE DEF new, last
    <3> QED
      BY <2>1, <2>6, <3>1 DEF Redone, IsTool
  <2> HIDE DEF new
  <2>8. w \in Seq(Msg) /\ Len(w) = n /\ \A i \in 1..n : w[i] = IF i = n THEN new ELSE s[i]
    <3>1. w \in [1..n -> Msg] /\ DOMAIN w = 1..n /\ \A i \in 1..n : w[i] = IF i = n THEN new ELSE s[i]
      <4> HIDE DEF w
      <4> QED
        BY <1>1, <2>4, <2>6
    <3> HIDE DEF w, n
    <3> QED
      BY <1>1, <3>1
  <2> HIDE DEF w
  <2>9. \A i \in 1..n : w[i] = s[i] \/ Redone(w[i], s[i])
    BY <2>7, <2>8
  <2>10. Good(w, lo, hi, pol) /\ (Anchored(s) => Anchored(w)) /\ (Complete(s) => Complete(w))
    BY <2>8, <2>9, RedoneGood
  <2>11. ASSUME Clean(s), NEW i \in 1..n PROVE Clear(w[i])
    <3>1. Clear(s[i]) /\ Clear(last)
      BY <2>1, <2>11 DEF Clean
    <3>2. ~ IsPlaceholder(new)
      <4>1. SUFFICES ASSUME IsPlaceholder(new) PROVE FALSE
        OBVIOUS
      <4>2. IsAssistant(last) /\ last.calls = <<>> /\ last.text \o m.text = <<Placeholder>>
        BY <2>6, <4>1 DEF IsPlaceholder, IsAssistant
      <4>3. last.text # <<Placeholder>>
        BY <3>1, <4>2 DEF Clear, IsPlaceholder
      <4> QED
        BY <2>5, <4>2, <4>3, SaidText
    <3>3. Clear(new)
      BY <2>6, <3>1, <3>2 DEF Clear
    <3> QED
      BY <2>8, <3>1, <3>3
  <2>12. Clean(s) => Clean(w)
    BY <2>8, <2>11 DEF Clean
  <2>13. \A i \in 1..n : i < n \/ IsTool(s[i]) => w[i] = s[i]
    BY <2>7, <2>8 DEF Redone
  <2> QED
    BY <1>1, <2>8, <2>10, <2>12, <2>13 DEF w
<1>3. CASE ~ (s # <<>> /\ Last(s).role = m.role)
  <2>1. w = Append(s, m)
    BY <1>3 DEF Joined
  <2> DEFINE t == <<m>>
  <2>2. Append(s, m) = s \o t
    BY <1>1, AppendIsConcat
  <2>3. Good(t, hi, hi, pol) /\ Anchored(t) /\ Complete(t) /\ Clean(t)
    BY SaidOne
  <2>4. Len(w) = n + 1 /\ \A i \in 1..n : w[i] = s[i]
    BY <1>1, <2>1, AppendProperties
  <2> HIDE DEF t
  <2>5. /\ Good(s \o t, lo, hi, pol)
        /\ Complete(s) => Complete(s \o t)
        /\ Clean(s) => Clean(s \o t)
        /\ Anchored(s) => Anchored(s \o t)
    BY <2>3, GoodConcat
  <2>6. w = s \o t
    BY <2>1, <2>2
  <2> HIDE DEF w
  <2> QED
    BY <1>1, <2>4, <2>5, <2>6 DEF w
<1> QED
  BY <1>2, <1>3

LEMMA CallsIs ==
  ASSUME made \in Nat, policy \in {"unique", "restart", "same"}, NEW tools \in Seq(Tools)
  PROVE  LET c == Calls(tools) IN
         Numbered(c, made, policy) /\ Len(c) = Len(tools) /\ \A i \in 1..Len(c) : c[i].named
<1> DEFINE n == Len(tools)
           c == Calls(tools)
           id(i) == CASE policy = "unique" -> made + i [] policy = "restart" -> i [] policy = "same" -> 1
           d == [i \in 1..n |-> [id |-> id(i), key |-> made + i, tool |-> tools[i], named |-> TRUE]]
<1>1. n \in Nat /\ DOMAIN tools = 1..n /\ \A i \in 1..n : tools[i] \in Tools
  BY LenProperties, ElementOfSeq
<1>2. c = d
  BY <1>1 DEF Calls
<1>3. ASSUME NEW i \in 1..n PROVE id(i) \in Nat /\ made + i \in Nat /\ (policy = "unique" => id(i) = made + i)
  <2>1. i \in Nat /\ made + i \in Nat
    BY <1>1
  <2> QED
    BY <2>1
<1> HIDE DEF id
<1>4. ASSUME NEW i \in 1..n
      PROVE  /\ d[i] \in CallRecord /\ d[i].key = made + i /\ (policy = "unique" => d[i].id = d[i].key)
             /\ d[i].named
  <2>1. d[i] = [id |-> id(i), key |-> made + i, tool |-> tools[i], named |-> TRUE]
    OBVIOUS
  <2> HIDE DEF d
  <2> QED
    BY <1>1, <1>3, <2>1 DEF CallRecord
<1>5. d \in [1..n -> CallRecord] /\ DOMAIN d = 1..n
  <2>1. DOMAIN d = 1..n /\ d = [i \in 1..n |-> d[i]]
    OBVIOUS
  <2> HIDE DEF d
  <2> QED
    BY <1>4, <2>1
<1> HIDE DEF d, n
<1>6. d \in Seq(CallRecord) /\ Len(d) = n
  BY <1>1, <1>5
<1>7. Numbered(d, made, policy)
  BY <1>4, <1>6 DEF Numbered
<1> HIDE DEF c
<1> QED
  BY <1>2, <1>4, <1>6, <1>7 DEF c, n

LEMMA BatchIs ==
  ASSUME made \in Nat, policy \in {"unique", "restart", "same"}, NEW tools \in Seq(Tools),
         NEW n \in Nat, Len(tools) <= n
  PROVE  LET w == Batch(tools) IN
         /\ Good(w, made, made + n, policy) /\ Complete(w) /\ Anchored(w) /\ Clean(w)
         /\ Len(w) = Len(tools) + 1 /\ \A j \in 2..Len(w) : IsTool(w[j])
<1> DEFINE c == Calls(tools)
           w == Batch(tools)
<1>1. Numbered(c, made, policy) /\ Len(c) = Len(tools) /\ \A i \in 1..Len(c) : c[i].named
  BY CallsIs
<1> HIDE DEF c
<1>2. w = Exchange(c)
  BY DEF Batch, c
<1>3. /\ Good(Exchange(c), made, made + Len(c), policy) /\ Complete(Exchange(c)) /\ Anchored(Exchange(c))
      /\ Clean(Exchange(c)) /\ Len(Exchange(c)) = Len(c) + 1 /\ \A j \in 2..Len(Exchange(c)) : IsTool(Exchange(c)[j])
  BY <1>1, ExchangeIs
<1> HIDE DEF w
<1>4. Len(tools) \in Nat
  BY LenProperties
<1>5. Good(w, made, made + Len(tools), policy)
  BY <1>1, <1>2, <1>3
<1>6. Good(w, made, made + n, policy)
  <2>1. made + Len(tools) \in Nat /\ made + n \in Nat /\ made + Len(tools) <= made + n
    BY <1>4
  <2> QED
    BY <1>5, <2>1, Widen
<1> QED
  BY <1>1, <1>2, <1>3, <1>6 DEF w

\* Something said before a list and after it.
LEMMA Said1 ==
  ASSUME NEW lo \in Nat, NEW hi \in Nat, lo <= hi, NEW pol, NEW a, Said(a), NEW w, Good(w, lo, hi, pol)
  PROVE  Good(<<a>> \o w, lo, hi, pol)
<1> DEFINE x == <<a>>
<1>1. Good(x, lo, lo, pol)
  BY SaidOne
<1> HIDE DEF x
<1>2. Good(x \o w, lo, hi, pol)
  BY <1>1, GoodConcat
<1> QED
  BY <1>2 DEF x

LEMMA Said2 ==
  ASSUME NEW lo \in Nat, NEW hi \in Nat, lo <= hi, NEW pol, NEW a, Said(a), NEW w, Good(w, lo, hi, pol)
  PROVE  Good(w \o <<a>>, lo, hi, pol)
<1> DEFINE x == <<a>>
<1>1. Good(x, hi, hi, pol)
  BY SaidOne
<1> HIDE DEF x
<1>2. Good(w \o x, lo, hi, pol)
  BY <1>1, GoodConcat
<1> QED
  BY <1>2 DEF x

-----------------------------------------------------------------------------
(* The invariant. *)

\* During the turn: the run's list is sound where the history was, the request
\* was prepared from it, and what is compacted are results of the turn.
TurnInv ==
  /\ Good(messages, 0, made, policy) /\ Anchored(messages)
  /\ Complete(stored) => Complete(messages)
  /\ Clean(stored) => Clean(messages)
  /\ start \in 0..Len(messages)
  /\ \E ids \in SUBSET CalledIds(messages) :
       Prepare(messages, start, ids) = [messages |-> request, ids |-> compacted]
  /\ Complete(stored) => \A x \in compacted :
       \E i \in start + 1..Len(messages) : Called(messages, i) /\ messages[i].id = x

Roles == role \in {"", "user", "assistant"}
\* Before the turn.
Idle == messages = <<>> /\ start = 0 /\ compacted = {}

IInv ==
  /\ blocks \in 0..MaxBlocks /\ iterations \in 0..MaxIterations /\ policy \in Policies
  /\ Roles /\ made \in Nat
  /\ Good(stored, 0, made, policy)
  /\ ~ Asked => Idle
  /\ Asked => TurnInv

LEMMA InitIInv == Init => IInv
<1> SUFFICES ASSUME Init PROVE IInv
  OBVIOUS
<1>1. stored = <<>> /\ <<>> \in Seq(Msg) /\ Len(stored) = 0
  BY EmptySeq DEF Init
<1>2. Good(stored, 0, made, policy)
  BY <1>1 DEF Good, Once, Matched
<1>3. Idle /\ ~ Asked
  BY DEF Init, Idle, Asked
<1>4. blocks = 0 /\ iterations = 0 /\ policy \in Policies /\ made = 0 /\ Roles
  BY DEF Init, Roles
<1> QED
  BY <1>2, <1>3, <1>4, BoundsAssumption DEF IInv

LEMMA StoreStep ==
  ASSUME IInv, NEW turn, NEW n \in Nat, Good(turn, made, made + n, policy), Store(turn, n)
  PROVE  IInv'
<1>1. /\ stored' = stored \o turn /\ blocks' = blocks + 1 /\ made' = made + n /\ blocks < MaxBlocks
      /\ policy' = policy /\ iterations' = iterations
  BY DEF Store
<1>0. role' = role /\ messages' = messages /\ start' = start /\ compacted' = compacted /\ ~ Asked
  BY DEF Store, Asked
<1>2. made \in Nat /\ made + n \in Nat /\ 0 \in Nat /\ made <= made + n /\ 0 <= made /\ Good(stored, 0, made, policy)
  BY DEF IInv
<1>3. Good(stored', 0, made', policy')
  <2>1. Good(stored \o turn, 0, made + n, policy)
    BY <1>2, GoodConcat
  <2> QED
    BY <1>1, <2>1
<1>4. blocks' \in 0..MaxBlocks
  BY <1>1, BoundsAssumption DEF IInv
<1>5. ~ Asked' /\ Idle' /\ Roles'
  BY <1>0 DEF IInv, Asked, Idle, Roles
<1> QED
  BY <1>1, <1>2, <1>3, <1>4, <1>5 DEF IInv

LEMMA StoredTurnStep ==
  ASSUME IInv, StoredTurn
  PROVE  IInv'
<1>1. made \in Nat /\ policy \in {"unique", "restart", "same"}
  BY BoundsAssumption DEF IInv
<1>2. /\ Said(Says("user", 1)) /\ Said(Says("assistant", 2)) /\ Said(Says("user", 3)) /\ Said(Says("assistant", 4))
  BY <1>1, SaysIs
<1>3. CASE Store(<<Says("user", 1), Says("assistant", 2)>>, 2)
  <2> DEFINE turn == <<Says("user", 1), Says("assistant", 2)>>
  <2>1. Good(turn, made, made + 2, policy)
    BY <1>2, SaidTwo
  <2> HIDE DEF turn
  <2> QED
    BY <1>3, <2>1, StoreStep DEF turn
<1>4. ASSUME NEW tools \in {<<"read">>, <<"write", "search">>},
             Store(<<Says("user", 3)>> \o Batch(tools) \o <<Says("assistant", 4)>>, 4)
      PROVE  IInv'
  <2>1. tools \in Seq(Tools) /\ Len(tools) <= 4
    <3>1. CASE tools = <<"read">>
      BY <3>1 DEF Tools
    <3>2. CASE tools = <<"write", "search">>
      BY <3>2 DEF Tools
    <3> QED
      BY <3>1, <3>2
  <2> DEFINE w == <<Says("user", 3)>> \o Batch(tools)
             turn == w \o <<Says("assistant", 4)>>
  <2>2. made + 4 \in Nat /\ made <= made + 4
    BY <1>1
  <2>3. Good(Batch(tools), made, made + 4, policy)
    BY <1>1, <2>1, BatchIs
  <2>4. Good(w, made, made + 4, policy)
    BY <1>1, <1>2, <2>2, <2>3, Said1
  <2> HIDE DEF w
  <2>5. Good(turn, made, made + 4, policy)
    BY <1>1, <1>2, <2>2, <2>4, Said2
  <2>6. Store(turn, 4)
    BY <1>4 DEF w
  <2> HIDE DEF turn
  <2> QED
    BY <2>5, <2>6, StoreStep
<1> QED
  BY <1>3, <1>4 DEF StoredTurn

LEMMA StoredCommandStep ==
  ASSUME IInv, StoredCommand \/ StoredDelivery
  PROVE  IInv'
<1> DEFINE a == Noted(Says("user", 1), "command")
           b == Noted(Says("assistant", 2), "command")
           c == Noted(Says("assistant", 1), "delivery")
           turn == <<a, b>>
           one == <<c>>
<1>1. made \in Nat
  BY DEF IInv
<1>2. Said(a) /\ Said(b) /\ Said(c)
  BY <1>1, SaysIs
<1>3. (StoredCommand => Store(turn, 2)) /\ (StoredDelivery => Store(one, 1))
  BY DEF StoredCommand, StoredDelivery
<1> HIDE DEF a, b, c
<1>4. Good(turn, made, made + 2, policy) /\ Good(one, made, made + 1, policy)
  BY <1>2, SaidOne, SaidTwo
<1> HIDE DEF turn, one
<1>5. Store(turn, 2) => IInv'
  BY <1>4, StoreStep
<1>6. Store(one, 1) => IInv'
  BY <1>4, StoreStep
<1> QED
  BY <1>3, <1>5, <1>6

LEMMA StoredAnnouncementStep ==
  ASSUME IInv, StoredAnnouncement
  PROVE  IInv'
<1>1. made \in Nat /\ policy \in {"unique", "restart", "same"}
  BY BoundsAssumption DEF IInv
<1>2. Said(Says("assistant", 1)) /\ Said(Says("assistant", 2)) /\ Said(Says("assistant", 3))
  BY <1>1, SaysIs
<1>3. CASE Store(<<Says("assistant", 1), Says("assistant", 2)>>, 2)
  <2> DEFINE turn == <<Says("assistant", 1), Says("assistant", 2)>>
  <2>1. Good(turn, made, made + 2, policy)
    BY <1>2, SaidTwo
  <2> HIDE DEF turn
  <2> QED
    BY <1>3, <2>1, StoreStep DEF turn
<1>4. CASE Store(<<Says("assistant", 2)>> \o Batch(<<"write">>) \o <<Says("assistant", 3)>>, 3)
  <2> DEFINE tools == <<"write">>
             w == <<Says("assistant", 2)>> \o Batch(tools)
             turn == w \o <<Says("assistant", 3)>>
  <2>1. tools \in Seq(Tools) /\ Len(tools) <= 3
    BY DEF Tools
  <2>2. Store(turn, 3)
    BY <1>4
  <2> HIDE DEF tools
  <2>3. made + 3 \in Nat /\ made <= made + 3
    BY <1>1
  <2>4. Good(Batch(tools), made, made + 3, policy)
    BY <1>1, <2>1, BatchIs
  <2>5. Good(w, made, made + 3, policy)
    BY <1>1, <1>2, <2>3, <2>4, Said1
  <2> HIDE DEF w
  <2>6. Good(turn, made, made + 3, policy)
    BY <1>1, <1>2, <2>3, <2>5, Said2
  <2> HIDE DEF turn
  <2> QED
    BY <2>2, <2>6, StoreStep
<1> QED
  BY <1>3, <1>4 DEF StoredAnnouncement

LEMMA StoredDamageStep ==
  ASSUME IInv, StoredDamage
  PROVE  IInv'
<1>1. made \in Nat /\ policy \in {"unique", "restart", "same"}
  BY BoundsAssumption DEF IInv
<1>2. /\ Said(Says("user", 1)) /\ Said(Says("user", 2)) /\ Said(Says("assistant", 3))
      /\ Said(Message("assistant", <<>>)) /\ Said(Message("assistant", <<Placeholder>>))
  BY <1>1, SaysIs, BlankIs
<1> DEFINE t1 == <<Says("user", 1), Message("assistant", <<Placeholder>>)>>
           t2 == <<Says("user", 1), Message("assistant", <<>>)>>
           nameless == [i \in 1..1 |-> [Calls(<<"write">>)[i] EXCEPT !.named = FALSE]]
           t3 == <<Says("user", 2)>> \o Exchange(nameless)
           call == Calls(<<"write">>)
           caller == ToolCalls(<<>>, call)
           t4 == <<Says("user", 2), caller, Says("assistant", 3)>>
<1>3. Store(t1, 1) \/ Store(t2, 1) \/ Store(t3, 2) \/ Store(t4, 3)
  BY DEF StoredDamage
<1>4. Good(t1, made, made + 1, policy) /\ Good(t2, made, made + 1, policy)
  BY <1>2, SaidTwo
<1>5. Numbered(call, made, policy) /\ Len(call) = 1
  <2> DEFINE tools == <<"write">>
  <2>1. tools \in Seq(Tools) /\ Len(tools) = 1
    BY DEF Tools
  <2> HIDE DEF tools
  <2>2. Numbered(Calls(tools), made, policy) /\ Len(Calls(tools)) = Len(tools)
    BY <1>1, <2>1, CallsIs
  <2> QED
    BY <2>1, <2>2 DEF tools
<1>6. nameless = [i \in 1..1 |-> [call[i] EXCEPT !.named = FALSE]]
  OBVIOUS
<1> HIDE DEF call, nameless
<1>7. Numbered(nameless, made, policy) /\ Len(nameless) = 1
  <2>1. call[1] \in CallRecord /\ call[1].key = made + 1 /\ (policy = "unique" => call[1].id = call[1].key)
    BY <1>5, ElementOfSeq DEF Numbered
  <2> DEFINE x == [call[1] EXCEPT !.named = FALSE]
  <2>2. x \in CallRecord /\ x.key = call[1].key /\ x.id = call[1].id
    BY <2>1 DEF CallRecord
  <2>3. \A i \in 1..1 : i = 1
    OBVIOUS
  <2>4. DOMAIN nameless = 1..1 /\ \A i \in 1..1 : nameless[i] = x
    BY <1>6, <2>3
  <2> HIDE DEF x
  <2>5. nameless \in [1..1 -> CallRecord]
    BY <1>6, <2>2, <2>4
  <2>6. nameless \in Seq(CallRecord) /\ Len(nameless) = 1
    <3> DEFINE l == 1
    <3>1. l \in Nat /\ nameless \in [1..l -> CallRecord] /\ DOMAIN nameless = 1..l
      BY <2>4, <2>5
    <3> HIDE DEF l
    <3>2. nameless \in Seq(CallRecord) /\ Len(nameless) = l
      BY <3>1
    <3> QED
      BY <3>2 DEF l
  <2>7. \A i \in 1..Len(nameless) : nameless[i] = x /\ i = 1
    BY <2>3, <2>4, <2>6
  <2> QED
    BY <2>1, <2>2, <2>6, <2>7 DEF Numbered
<1>8. Good(t3, made, made + 2, policy)
  <2>1. Good(Exchange(nameless), made, made + 1, policy)
    BY <1>1, <1>7, ExchangeIs
  <2>2. made + 1 \in Nat /\ made + 2 \in Nat /\ made + 1 <= made + 2 /\ made <= made /\ made <= made + 2
    BY <1>1
  <2>3. Good(Exchange(nameless), made, made + 2, policy)
    BY <1>1, <2>1, <2>2, Widen
  <2> QED
    BY <1>1, <1>2, <2>2, <2>3, Said1
<1>9. Good(t4, made, made + 3, policy)
  <2>1. caller \in Msg /\ ~ IsTool(caller) /\ Plain(caller, made, made + 1, policy)
    BY <1>1, <1>5, CallerIs
  <2> HIDE DEF caller
  <2> DEFINE a == Says("user", 2)
             b == Says("assistant", 3)
  <2>2. /\ a \in Msg /\ ~ IsTool(a) /\ Plain(a, made, made + 1, policy)
        /\ b \in Msg /\ ~ IsTool(b) /\ Plain(b, made, made + 1, policy)
    BY <1>2, SaidIs
  <2>3. t4 = <<a, caller, b>>
    OBVIOUS
  <2> HIDE DEF a, b, t4
  <2>4. t4 \in Seq(Msg) /\ Len(t4) = 3 /\ t4[1] = a /\ t4[2] = caller /\ t4[3] = b
    BY <2>1, <2>2, <2>3
  <2>5. \A i \in 1..Len(t4) : t4[i] = a \/ t4[i] = caller \/ t4[i] = b
    BY <2>4
  <2>6. Good(t4, made, made + 1, policy)
    BY <2>1, <2>2, <2>4, <2>5, NoTools
  <2>7. made + 1 \in Nat /\ made + 3 \in Nat /\ made + 1 <= made + 3 /\ made <= made
    BY <1>1
  <2> QED
    BY <1>1, <2>6, <2>7, Widen
<1> HIDE DEF t1, t2, t3, t4
<1> QED
  BY <1>3, <1>4, <1>8, <1>9, StoreStep

\* What holds of a list when a request has been prepared from it.
Ready(s, first, ids) ==
  /\ Good(s, 0, made', policy') /\ Anchored(s)
  /\ Complete(stored') => Complete(s)
  /\ Clean(stored') => Clean(s)
  /\ first \in 0..Len(s)
  /\ ids \in SUBSET CalledIds(s)
  /\ Complete(stored') => \A x \in ids : \E i \in first + 1..Len(s) : Called(s, i) /\ s[i].id = x

LEMMA AskStep ==
  ASSUME NEW s, NEW first, NEW ids, Ready(s, first, ids), Ask(s, first, ids)
  PROVE  TurnInv'
<1> DEFINE req == Prepare(s, first, ids)
<1>1. messages' = s /\ start' = first /\ request' = req.messages /\ compacted' = req.ids
  BY DEF Ask
<1>2. Good(s, 0, made', policy') /\ first \in Nat /\ ids \in SUBSET CalledIds(s)
  BY DEF Ready
<1>3. req = [messages |-> req.messages, ids |-> req.ids]
  BY DEF Prepare
<1>4. Complete(s) => \A x \in req.ids : x \in ids \/ \E i \in first + 1..Len(s) : Called(s, i) /\ s[i].id = x
  BY <1>2, PrepareIs
<1> HIDE DEF req
<1>5. \E a \in SUBSET CalledIds(s) : Prepare(s, first, a) = [messages |-> request', ids |-> compacted']
  BY <1>1, <1>2, <1>3 DEF req
<1>6. Complete(stored') => \A x \in compacted' : \E i \in first + 1..Len(s) : Called(s, i) /\ s[i].id = x
  BY <1>1, <1>4 DEF Ready
<1> QED
  BY <1>1, <1>5, <1>6 DEF Ready, TurnInv

\* The list that a turn begins with.
LEMMA OpenedIs ==
  ASSUME NEW hi \in Nat, NEW pol, NEW h, Good(h, 0, hi, pol), NEW size \in Nat \ {0}, NEW wide,
         NEW m, Spoken(m)
  PROVE  LET s == Joined(GetHistory(h, size, wide), m) IN
         /\ Good(s, 0, hi, pol) /\ Anchored(s)
         /\ Complete(h) => Complete(s)
         /\ Clean(h) => Clean(s)
<1> DEFINE t == GetHistory(h, size, wide)
           s == Joined(t, m)
<1>1. RestOf(t, h) /\ Anchored(t)
  BY GetHistoryIs
<1> HIDE DEF t
<1>2. Good(t, 0, hi, pol) /\ (Complete(h) => Complete(t)) /\ (Clean(h) => Clean(t))
  BY <1>1, RestGood
<1>3. Said(m) /\ Clear(m) /\ m.text # <<Placeholder>> /\ 0 \in Nat /\ 0 <= hi
  BY DEF Spoken
<1>4. Good(s, 0, hi, pol) /\ (Anchored(t) => Anchored(s)) /\ (Complete(t) => Complete(s)) /\ (Clean(t) => Clean(s))
  BY <1>2, <1>3, JoinedIs
<1> HIDE DEF s
<1> QED
  BY <1>1, <1>2, <1>4 DEF s, t

LEMMA StartTurnStep ==
  ASSUME IInv, NEW size \in Windows, StartTurn(size)
  PROVE  IInv'
<1> DEFINE m == Says("user", 1)
           s == Joined(GetHistory(stored, size, FALSE), m)
           n == Len(s)
<1>1. /\ role' = "user" /\ made' = made + 1 /\ stored' = stored /\ policy' = policy
      /\ blocks' = blocks /\ iterations' = iterations
      /\ Ask(s, n, {})
  BY DEF StartTurn
<1>2. made \in Nat /\ size \in Nat \ {0}
  BY BoundsAssumption DEF IInv
<1>3. Good(stored', 0, made', policy')
  <2>1. 0 \in Nat /\ made + 1 \in Nat /\ 0 <= 0 /\ made <= made + 1 /\ Good(stored, 0, made, policy)
    BY <1>2 DEF IInv
  <2>2. Good(stored, 0, made + 1, policy)
    BY <1>2, <2>1, Widen
  <2> QED
    BY <1>1, <2>2
<1>4. Spoken(m)
  BY <1>2, SaysIs
<1> HIDE DEF m
<1>5. made' \in Nat
  BY <1>1, <1>2
<1>6. /\ Good(s, 0, made', policy') /\ Anchored(s)
      /\ Complete(stored') => Complete(s)
      /\ Clean(stored') => Clean(s)
  BY <1>1, <1>2, <1>3, <1>4, <1>5, OpenedIs
<1> HIDE DEF s
<1>7. n \in 0..n
  BY <1>6, LenProperties DEF Good
<1> HIDE DEF n
<1>8. Ready(s, n, {})
  BY <1>6, <1>7 DEF Ready, n
<1>9. TurnInv'
  BY <1>1, <1>8, AskStep
<1>10. Roles' /\ Asked'
  BY <1>1 DEF Roles, Asked
<1>11. blocks' \in 0..MaxBlocks /\ iterations' \in 0..MaxIterations /\ policy' \in Policies
  BY <1>1 DEF IInv
<1> QED
  BY <1>3, <1>5, <1>9, <1>10, <1>11 DEF IInv

LEMMA StartAnnouncementStep ==
  ASSUME IInv, NEW size \in Windows, StartAnnouncement(size)
  PROVE  IInv'
<1> DEFINE a == Says("assistant", 1)
           h == Append(stored, a)
           m == Message("assistant", <<>>)
           s == Joined(GetHistory(h, size, TRUE), m)
           n == Len(s)
<1>1. /\ role' = "assistant" /\ made' = made + 1 /\ stored' = h /\ policy' = policy
      /\ blocks' = blocks /\ iterations' = iterations
      /\ Ask(s, n, {})
  BY DEF StartAnnouncement
<1>2. made \in Nat /\ size \in Nat \ {0}
  BY BoundsAssumption DEF IInv
<1>3. Said(a) /\ Spoken(m)
  BY <1>2, SaysIs, BlankIs
<1> HIDE DEF a, m
<1>4. Good(stored', 0, made', policy')
  <2>1. 0 \in Nat /\ made + 1 \in Nat /\ 0 <= 0 /\ 0 <= made + 1 /\ made <= made + 1 /\ Good(stored, 0, made, policy)
    BY <1>2 DEF IInv
  <2>2. Good(stored, 0, made + 1, policy)
    BY <1>2, <2>1, Widen
  <2>3. Good(stored \o <<a>>, 0, made + 1, policy)
    BY <1>3, <2>1, <2>2, Said2
  <2>4. stored \in Seq(Msg) /\ a \in Msg
    BY <1>3, <2>1 DEF Good, Said
  <2>5. h = stored \o <<a>>
    BY <2>4, AppendIsConcat
  <2> QED
    BY <1>1, <2>3, <2>5
<1> HIDE DEF h
<1>5. made' \in Nat
  BY <1>1, <1>2
<1>6. /\ Good(s, 0, made', policy') /\ Anchored(s)
      /\ Complete(stored') => Complete(s)
      /\ Clean(stored') => Clean(s)
  BY <1>1, <1>2, <1>3, <1>4, <1>5, OpenedIs
<1> HIDE DEF s
<1>7. n \in 0..n
  BY <1>6, LenProperties DEF Good
<1> HIDE DEF n
<1>8. Ready(s, n, {})
  BY <1>6, <1>7 DEF Ready, n
<1>9. TurnInv'
  BY <1>1, <1>8, AskStep
<1>10. Roles' /\ Asked'
  BY <1>1 DEF Roles, Asked
<1>11. blocks' \in 0..MaxBlocks /\ iterations' \in 0..MaxIterations /\ policy' \in Policies
  BY <1>1 DEF IInv
<1> QED
  BY <1>4, <1>5, <1>9, <1>10, <1>11 DEF IInv

\* What was called is still called when the list has grown.
LEMMA CalledKept ==
  ASSUME NEW a \in Seq(Msg), NEW s \in Seq(Msg), Len(a) <= Len(s),
         \A i \in 1..Len(a) : s[i] = a[i]
  PROVE  /\ \A i \in 1..Len(a) : i \in 1..Len(s) /\ (Called(a, i) => Called(s, i))
         /\ CalledIds(a) \subseteq CalledIds(s)
<1>1. Len(a) \in Nat /\ Len(s) \in Nat
  BY LenProperties
<1>2. ASSUME NEW i \in 1..Len(a) PROVE i \in 1..Len(s) /\ (Called(a, i) => Called(s, i))
  <2>1. i \in 1..Len(s) /\ s[i] = a[i]
    BY <1>1
  <2>2. \A k \in 1..i - 1 : k \in 1..Len(a) /\ s[k] = a[k]
    BY <1>1
  <2> QED
    BY <2>1, <2>2 DEF Called
<1>3. CalledIds(a) \subseteq CalledIds(s)
  <2> SUFFICES ASSUME NEW i \in 1..Len(a), Called(a, i) PROVE a[i].id \in CalledIds(s)
    BY DEF CalledIds
  <2>1. i \in 1..Len(s) /\ Called(s, i) /\ a[i].id = s[i].id
    BY <1>2
  <2> QED
    BY <2>1 DEF CalledIds
<1> QED
  BY <1>2, <1>3

\* A step of CompactionStable.
Stable ==
  /\ compacted \subseteq compacted'
  /\ \A m \in ToSet(request), n \in ToSet(request') :
       m.shown = "summary" /\ IsTool(n) /\ n.key = m.key => n.shown = "summary"

\* The run's list with what an iteration added to it.
Grown(s, n) ==
  /\ Good(s, 0, made + n, policy) /\ Anchored(s)
  /\ Complete(messages) => Complete(s)
  /\ Clean(messages) => Clean(s)
  /\ Len(messages) <= Len(s)
  /\ \A i \in 1..Len(messages) : s[i] = messages[i]

LEMMA IterateStep ==
  ASSUME IInv, NEW n \in Nat, NEW s, Grown(s, n), Iterate(s, n)
  PROVE  IInv' /\ Stable
<1>1. /\ Asked /\ iterations < MaxIterations
      /\ iterations' = iterations + 1 /\ made' = made + n /\ Ask(s, start, compacted)
      /\ stored' = stored /\ blocks' = blocks /\ policy' = policy /\ role' = role
  BY DEF Iterate, Asked
<1>2. TurnInv /\ made \in Nat
  BY <1>1 DEF IInv
<1>3. /\ messages \in Seq(Msg) /\ s \in Seq(Msg) /\ Good(messages, 0, made, policy)
      /\ Len(messages) \in Nat /\ Len(s) \in Nat /\ Len(messages) <= Len(s) /\ start \in 0..Len(messages)
      /\ \A i \in 1..Len(messages) : s[i] = messages[i]
  BY <1>2, LenProperties DEF TurnInv, Grown, Good
<1>4. PICK ids \in SUBSET CalledIds(messages) :
        Prepare(messages, start, ids) = [messages |-> request, ids |-> compacted]
  BY <1>2 DEF TurnInv
<1>5. start \in Nat
  BY <1>3
<1>6. /\ compacted \subseteq CalledIds(messages)
      /\ \A m \in ToSet(request) : m.shown = "summary" =>
           \E i \in 1..Len(messages) : Called(messages, i) /\ m.key = messages[i].key
                                         /\ m.id = messages[i].id /\ m.id \in compacted
  <2> DEFINE req == Prepare(messages, start, ids)
  <2>1. req.messages = request /\ req.ids = compacted
    BY <1>4
  <2>2. /\ req.ids \subseteq CalledIds(messages)
        /\ \A m \in ToSet(req.messages) : m.shown = "summary" =>
             \E i \in 1..Len(messages) : Called(messages, i) /\ m.key = messages[i].key
                                           /\ m.id = messages[i].id /\ m.id \in req.ids
    BY <1>3, <1>5, PrepareIs
  <2> HIDE DEF req
  <2> QED
    BY <2>1, <2>2
<1>7. /\ \A i \in 1..Len(messages) : i \in 1..Len(s) /\ (Called(messages, i) => Called(s, i))
      /\ CalledIds(messages) \subseteq CalledIds(s)
  BY <1>3, CalledKept
<1>8. Ready(s, start, compacted)
  <2>1. Good(s, 0, made', policy') /\ Anchored(s)
    BY <1>1 DEF Grown
  <2>2. (Complete(stored') => Complete(s)) /\ (Clean(stored') => Clean(s))
    BY <1>1, <1>2 DEF Grown, TurnInv
  <2>3. start \in 0..Len(s) /\ compacted \in SUBSET CalledIds(s)
    BY <1>3, <1>6, <1>7
  <2>4. ASSUME Complete(stored'), NEW x \in compacted
        PROVE  \E i \in start + 1..Len(s) : Called(s, i) /\ s[i].id = x
    <3>1. Complete(stored)
      BY <1>1, <2>4
    <3>2. PICK i \in start + 1..Len(messages) : Called(messages, i) /\ messages[i].id = x
      BY <1>2, <2>4, <3>1 DEF TurnInv
    <3>3. i \in 1..Len(messages) /\ i \in start + 1..Len(s)
      BY <1>3, <1>5
    <3> QED
      BY <1>3, <1>7, <3>2, <3>3
  <2> QED
    BY <2>1, <2>2, <2>3, <2>4 DEF Ready
<1>9. TurnInv'
  BY <1>1, <1>8, AskStep
<1>10. IInv'
  <2>1. iterations' \in 0..MaxIterations
    BY <1>1, BoundsAssumption DEF IInv
  <2>2. made' \in Nat
    BY <1>1, <1>2
  <2>3. Asked' /\ Roles'
    BY <1>1 DEF IInv, Roles, Asked
  <2>4. Good(stored', 0, made', policy')
    <3>1. 0 \in Nat /\ 0 <= 0 /\ made <= made + n /\ made + n \in Nat /\ Good(stored, 0, made, policy)
      BY <1>2 DEF IInv
    <3>2. Good(stored, 0, made + n, policy)
      BY <1>2, <3>1, Widen
    <3> QED
      BY <1>1, <3>2
  <2>5. blocks' \in 0..MaxBlocks /\ policy' \in Policies
    BY <1>1 DEF IInv
  <2> QED
    BY <1>9, <2>1, <2>2, <2>3, <2>4, <2>5 DEF IInv
<1>11. Stable
  <2> DEFINE req == Prepare(s, start, compacted)
  <2>1. request' = req.messages /\ compacted' = req.ids
    BY <1>1 DEF Ask
  <2>2. Good(s, 0, made', policy') /\ compacted \in SUBSET CalledIds(s)
    BY <1>8 DEF Ready
  <2>3. /\ compacted \subseteq req.ids
        /\ \A m \in ToSet(req.messages) : \A i \in 1..Len(s) :
             IsTool(m) /\ Called(s, i) /\ m.key = s[i].key /\ s[i].id \in compacted => m.shown = "summary"
    BY <1>5, <2>2, PrepareIs
  <2> HIDE DEF req
  <2>4. ASSUME NEW m \in ToSet(request), NEW r \in ToSet(request'),
               m.shown = "summary", IsTool(r), r.key = m.key
        PROVE  r.shown = "summary"
    <3>1. PICK i \in 1..Len(messages) : Called(messages, i) /\ m.key = messages[i].key
                                          /\ m.id = messages[i].id /\ m.id \in compacted
      BY <1>6, <2>4
    <3>2. i \in 1..Len(s) /\ Called(s, i) /\ s[i] = messages[i]
      BY <1>3, <1>7, <3>1
    <3> QED
      BY <2>1, <2>3, <2>4, <3>1, <3>2
  <2> QED
    BY <2>1, <2>3, <2>4 DEF Stable
<1> QED
  BY <1>10, <1>11

LEMMA GrownBy ==
  ASSUME TurnInv, made \in Nat, NEW n \in Nat, NEW w,
         Good(w, made, made + n, policy), Complete(w), Anchored(w), Clean(w)
  PROVE  Grown(messages \o w, n)
<1> DEFINE s == messages \o w
<1>1. /\ 0 \in Nat /\ made + n \in Nat /\ 0 <= made /\ made <= made + n
      /\ Good(messages, 0, made, policy) /\ Anchored(messages)
  BY DEF TurnInv
<1>2. messages \in Seq(Msg) /\ w \in Seq(Msg)
  BY <1>1 DEF Good
<1>3. /\ Good(s, 0, made + n, policy) /\ Anchored(s)
      /\ Complete(messages) => Complete(s)
      /\ Clean(messages) => Clean(s)
  BY <1>1, GoodConcat
<1>4. Len(messages) \in Nat /\ Len(w) \in Nat /\ Len(s) = Len(messages) + Len(w)
  BY <1>2, LenProperties, ConcatProperties
<1>5. \A i \in 1..Len(messages) : s[i] = messages[i]
  BY <1>2, <1>4, ConcatProperties
<1>6. Len(messages) <= Len(s)
  BY <1>4
<1> HIDE DEF s
<1> QED
  BY <1>3, <1>5, <1>6 DEF Grown, s

LEMMA RunToolsStep ==
  ASSUME IInv, NEW tools \in Seq(Tools), RunTools(tools)
  PROVE  IInv' /\ Stable
<1> DEFINE w == Batch(tools)
           s == messages \o w
           n == Len(tools) + 1
           m == Says("user", n)
           t == Joined(s, m)
<1>1. \E followed \in BOOLEAN : Iterate(IF followed THEN t ELSE s, n)
  BY DEF RunTools
<1>2. Len(tools) \in Nat /\ n \in Nat /\ n > 0 /\ Len(tools) <= n
  BY LenProperties
<1>3. TurnInv /\ made \in Nat /\ policy \in {"unique", "restart", "same"}
  <2>1. Asked
    BY <1>1 DEF Iterate, Asked
  <2> QED
    BY <2>1, BoundsAssumption DEF IInv
<1>4. Iterate(s, n) \/ Iterate(t, n)
  BY <1>1
<1>5. Spoken(m)
  BY <1>2, <1>3, SaysIs
<1> HIDE DEF m, n
<1>6. /\ Good(w, made, made + n, policy) /\ Complete(w) /\ Anchored(w) /\ Clean(w)
      /\ Len(w) = Len(tools) + 1 /\ \A j \in 2..Len(w) : IsTool(w[j])
  BY <1>2, <1>3, BatchIs
<1> HIDE DEF w
<1>7. Grown(s, n)
  BY <1>2, <1>3, <1>6, GrownBy
<1>8. /\ messages \in Seq(Msg) /\ w \in Seq(Msg) /\ Len(messages) \in Nat
      /\ Len(s) = Len(messages) + Len(w) /\ Len(w) > 0
  <2>1. messages \in Seq(Msg) /\ w \in Seq(Msg)
    BY <1>3, <1>6 DEF TurnInv, Good
  <2>2. Len(messages) \in Nat /\ Len(s) = Len(messages) + Len(w)
    BY <2>1, LenProperties, ConcatProperties
  <2> QED
    BY <1>2, <1>6, <2>1, <2>2
<1> HIDE DEF s
<1>9. Grown(t, n)
  <2>1. /\ Good(s, 0, made + n, policy) /\ Anchored(s)
        /\ (Complete(messages) => Complete(s)) /\ (Clean(messages) => Clean(s))
        /\ Len(messages) <= Len(s) /\ \A i \in 1..Len(messages) : s[i] = messages[i]
    BY <1>7 DEF Grown
  <2>2. Said(m) /\ Clear(m) /\ m.text # <<Placeholder>> /\ 0 \in Nat /\ made + n \in Nat /\ 0 <= made + n
    BY <1>2, <1>3, <1>5 DEF Spoken
  <2>3. /\ Good(t, 0, made + n, policy)
        /\ (Anchored(s) => Anchored(t)) /\ (Complete(s) => Complete(t)) /\ (Clean(s) => Clean(t))
        /\ Len(s) <= Len(t)
        /\ \A i \in 1..Len(s) : i < Len(s) \/ IsTool(s[i]) => t[i] = s[i]
    BY <2>1, <2>2, JoinedIs
  <2> HIDE DEF t
  <2>4. Len(t) \in Nat /\ Len(s) \in Nat /\ Len(w) \in Nat
    BY <1>2, <1>6, <1>8, <2>3, LenProperties DEF Good
  <2>5. Len(messages) <= Len(t)
    BY <1>8, <2>3, <2>4
  <2>6. \A i \in 1..Len(messages) : i \in 1..Len(s) /\ i < Len(s)
    BY <1>8, <2>4
  <2> QED
    BY <2>1, <2>3, <2>5, <2>6 DEF Grown
<1> HIDE DEF t
<1> QED
  BY <1>2, <1>4, <1>7, <1>9, IterateStep

LEMMA ContinueStep ==
  ASSUME IInv, Continue
  PROVE  IInv' /\ Stable
<1> DEFINE a == Says("assistant", 1)
           b == Says("user", 2)
           w == <<a, b>>
<1>1. Iterate(messages \o w, 2)
  BY DEF Continue
<1>2. TurnInv /\ made \in Nat
  <2>1. Asked
    BY <1>1 DEF Iterate, Asked
  <2> QED
    BY <2>1 DEF IInv
<1>3. Spoken(a) /\ Spoken(b)
  BY <1>2, SaysIs
<1> HIDE DEF a, b
<1>4. Good(w, made, made + 2, policy) /\ Complete(w) /\ Anchored(w) /\ Clean(w)
  BY <1>3, SaidTwo DEF Spoken
<1> HIDE DEF w
<1>5. Grown(messages \o w, 2)
  BY <1>2, <1>4, GrownBy
<1> QED
  BY <1>1, <1>5, IterateStep

LEMMA StutterStep ==
  ASSUME IInv, UNCHANGED vars
  PROVE  IInv'
<1>1. /\ stored' = stored /\ blocks' = blocks /\ made' = made /\ policy' = policy
      /\ messages' = messages /\ start' = start /\ role' = role /\ compacted' = compacted
      /\ request' = request /\ iterations' = iterations
  BY DEF vars
<1>2. TurnInv => TurnInv'
  BY <1>1 DEF TurnInv
<1>3. (Asked' <=> Asked) /\ (Roles => Roles') /\ (Idle => Idle')
  BY <1>1 DEF Asked, Roles, Idle
<1> QED
  BY <1>1, <1>2, <1>3 DEF IInv

LEMMA NextIInv ==
  ASSUME IInv, [Next]_vars
  PROVE  IInv' /\ (Next /\ Asked => Stable)
<1>1. CASE StoredTurn
  <2>1. ~ Asked
    BY <1>1 DEF StoredTurn, Store, Asked
  <2> QED
    BY <1>1, <2>1, StoredTurnStep
<1>2. CASE StoredCommand \/ StoredDelivery
  <2>1. ~ Asked
    BY <1>2 DEF StoredCommand, StoredDelivery, Store, Asked
  <2> QED
    BY <1>2, <2>1, StoredCommandStep
<1>3. CASE StoredAnnouncement
  <2>1. ~ Asked
    BY <1>3 DEF StoredAnnouncement, Store, Asked
  <2> QED
    BY <1>3, <2>1, StoredAnnouncementStep
<1>4. CASE StoredDamage
  <2>1. ~ Asked
    BY <1>4 DEF StoredDamage, Store, Asked
  <2> QED
    BY <1>4, <2>1, StoredDamageStep
<1>5. ASSUME NEW max \in Windows, StartTurn(max) \/ StartAnnouncement(max)
      PROVE  IInv' /\ ~ Asked
  <2>1. ~ Asked
    BY <1>5 DEF StartTurn, StartAnnouncement, Asked
  <2> QED
    BY <1>5, <2>1, StartTurnStep, StartAnnouncementStep
<1>6. ASSUME NEW tools \in {<<"read">>, <<"search">>, <<"read", "read">>, <<"search", "write">>,
                           <<"mcp", "mcp", "mcp", "mcp">>},
             RunTools(tools)
      PROVE  IInv' /\ Stable
  <2>1. tools \in Seq(Tools)
    <3>1. CASE tools = <<"read">>
      BY <3>1 DEF Tools
    <3>2. CASE tools = <<"search">>
      BY <3>2 DEF Tools
    <3>3. CASE tools = <<"mcp", "mcp", "mcp", "mcp">>
      BY <3>3 DEF Tools
    <3>4. CASE tools = <<"read", "read">>
      BY <3>4 DEF Tools
    <3>5. CASE tools = <<"search", "write">>
      BY <3>5 DEF Tools
    <3> QED
      BY <3>1, <3>2, <3>3, <3>4, <3>5
  <2> QED
    BY <1>6, <2>1, RunToolsStep
<1>7. CASE Continue
  BY <1>7, ContinueStep
<1>8. CASE UNCHANGED vars /\ ~ Next
  BY <1>8, StutterStep
<1> QED
  BY <1>1, <1>2, <1>3, <1>4, <1>5, <1>6, <1>7, <1>8 DEF Next

LEMMA Invariance == Spec => []IInv
<1>1. IInv /\ [Next]_vars => IInv'
  BY NextIInv
<1> QED
  BY InitIInv, <1>1, PTL DEF Spec

-----------------------------------------------------------------------------
(* What follows from it. *)

LEMMA Members ==
  ASSUME NEW S, NEW s \in Seq(S)
  PROVE  Len(s) \in Nat /\ DOMAIN s = 1..Len(s) /\ ToSet(s) = {s[i] : i \in 1..Len(s)}
BY LenProperties DEF ToSet

\* A history without damage, and one without unanswered calls.
LEMMA SoundHistory ==
  ASSUME stored \in Seq(Msg)
  PROVE  /\ ~ Interrupted => Complete(stored)
         /\ ~ Damaged => Complete(stored) /\ Clean(stored)
<1>1. DOMAIN stored = 1..Len(stored)
  BY Members
<1>2. ASSUME NEW i \in 1..Len(stored), NEW k \in 1..Len(stored[i].calls)
      PROVE  stored[i].calls[k] \in ToSet(stored[i].calls)
  <2>1. stored[i] \in Msg
    BY ElementOfSeq
  <2>2. stored[i].calls \in Seq(CallRecord)
    BY <2>1 DEF Msg
  <2> QED
    BY <2>2, Members
<1>3. ~ Interrupted => Complete(stored)
  <2> SUFFICES ASSUME ~ Interrupted, NEW i \in 1..Len(stored), NEW k \in 1..Len(stored[i].calls),
                      stored[i].calls[k].named
               PROVE  \E j \in 1..Len(stored) : IsTool(stored[j]) /\ stored[j].key = stored[i].calls[k].key
    BY DEF Complete
  <2> QED
    BY <1>1, <1>2 DEF Interrupted
<1>4. ~ Damaged => ~ Interrupted
  BY DEF Damaged, Interrupted
<1>5. ~ Damaged => Clean(stored)
  <2> SUFFICES ASSUME ~ Damaged, NEW i \in 1..Len(stored) PROVE Clear(stored[i])
    BY DEF Clean
  <2>1. ~ IsPlaceholder(stored[i])
    BY <1>1 DEF Damaged, IsPlaceholder
  <2>2. \A k \in 1..Len(stored[i].calls) : stored[i].calls[k].named
    BY <1>1, <1>2 DEF Damaged
  <2> QED
    BY <2>1, <2>2 DEF Clear
<1> QED
  BY <1>3, <1>4, <1>5

LEMMA TypeFromIInv == IInv => TypeOK
<1> SUFFICES ASSUME IInv PROVE TypeOK
  OBVIOUS
<1>1. CASE ~ Asked
  <2>1. Idle
    BY <1>1 DEF IInv
  <2>2. Len(messages) = 0 /\ start = 0 /\ compacted = {}
    BY <2>1, EmptySeq DEF Idle
  <2>3. start \in 0..Len(messages)
    BY <2>2
  <2>4. compacted \subseteq {m.id : m \in {n \in ToSet(messages) : IsTool(n)}}
    BY <2>2
  <2>5. blocks \in 0..MaxBlocks /\ iterations \in 0..MaxIterations /\ policy \in Policies /\ Roles
    BY DEF IInv
  <2> QED
    BY <2>3, <2>4, <2>5 DEF Roles, TypeOK
<1>2. CASE Asked
  <2>1. TurnInv
    BY <1>2 DEF IInv
  <2>2. Good(messages, 0, made, policy) /\ messages \in Seq(Msg) /\ start \in 0..Len(messages)
    BY <2>1 DEF TurnInv, Good
  <2>3. start \in Nat
    BY <2>2, LenProperties
  <2>4. PICK ids \in SUBSET CalledIds(messages) :
          Prepare(messages, start, ids) = [messages |-> request, ids |-> compacted]
    BY <2>1 DEF TurnInv
  <2>5. compacted \subseteq CalledIds(messages)
    <3>1. Prepare(messages, start, ids).ids \subseteq CalledIds(messages)
      BY <2>2, <2>3, PrepareIs
    <3> QED
      BY <2>4, <3>1
  <2>6. CalledIds(messages) \subseteq {m.id : m \in {n \in ToSet(messages) : IsTool(n)}}
    BY <2>2, Members DEF CalledIds, Called
  <2> QED
    BY <2>2, <2>5, <2>6 DEF IInv, Roles, TypeOK
<1> QED
  BY <1>1, <1>2

LEMMA MinimalFromIInv == IInv => OverflowMinimal
<1> SUFFICES ASSUME IInv, Asked, policy = "unique", ~ Damaged, Estimate(request) > Budget
             PROVE  /\ \A i \in 2..Len(request) : ~ IsUser(request[i])
                    /\ \A m \in ToSet(request) :
                         m.key \in {messages[i].key : i \in Inflight} => ~ Compactable(m)
  BY DEF OverflowMinimal
<1>1. TurnInv /\ stored \in Seq(Msg)
  BY DEF IInv, Good
<1>2. Complete(messages) /\ Clean(messages) /\ Anchored(messages)
  BY <1>1, SoundHistory DEF TurnInv
<1>3. /\ Good(messages, 0, made, "unique") /\ messages \in Seq(Msg) /\ start \in 0..Len(messages)
  BY <1>1 DEF TurnInv, Good
<1>4. start \in Nat
  BY <1>3, LenProperties
<1>5. PICK ids \in SUBSET CalledIds(messages) :
        Prepare(messages, start, ids) = [messages |-> request, ids |-> compacted]
  BY <1>1 DEF TurnInv
<1> DEFINE w == Prepare(messages, start, ids).messages
<1>6. w = request
  BY <1>5
<1>7. Estimate(w) > Budget
  BY <1>6
<1>8. /\ \A i \in 2..Len(w) : ~ IsUser(w[i])
      /\ \A q \in 1..Len(w) : \A i \in start + 1..Len(messages) :
           IsTool(messages[i]) /\ w[q].key = messages[i].key => ~ Compactable(w[q])
  BY <1>2, <1>3, <1>4, <1>7, PrepareMinimal
<1>9. w \in Seq(Msg)
  BY <1>3, <1>4, PrepareIs
<1> HIDE DEF w
<1>10. ToSet(w) = {w[q] : q \in 1..Len(w)}
  BY <1>9, Members
<1> QED
  BY <1>6, <1>8, <1>10 DEF Inflight

LEMMA WholeFromIInv == IInv => HistoryWhole
<1> SUFFICES ASSUME IInv, Asked, policy = "unique", ~ Interrupted,
                    NEW m \in ToSet(request), m.shown = "summary"
             PROVE  m.key \in {messages[i].key : i \in Inflight}
  BY DEF HistoryWhole
<1>1. TurnInv /\ stored \in Seq(Msg)
  BY DEF IInv, Good
<1>2. \A x \in compacted : \E i \in start + 1..Len(messages) : Called(messages, i) /\ messages[i].id = x
  BY <1>1, SoundHistory DEF TurnInv
<1>3. /\ Good(messages, 0, made, policy) /\ messages \in Seq(Msg) /\ start \in 0..Len(messages)
  BY <1>1 DEF TurnInv, Good
<1>4. start \in Nat /\ Len(messages) \in Nat
  BY <1>3, LenProperties
<1>5. PICK ids \in SUBSET CalledIds(messages) :
        Prepare(messages, start, ids) = [messages |-> request, ids |-> compacted]
  BY <1>1 DEF TurnInv
<1>6. PICK i \in 1..Len(messages) : Called(messages, i) /\ m.key = messages[i].key
                                      /\ m.id = messages[i].id /\ m.id \in compacted
  <2> DEFINE req == Prepare(messages, start, ids)
  <2>1. req.messages = request /\ req.ids = compacted
    BY <1>5
  <2>2. \A n \in ToSet(req.messages) : n.shown = "summary" =>
             \E i \in 1..Len(messages) : Called(messages, i) /\ n.key = messages[i].key
                                           /\ n.id = messages[i].id /\ n.id \in req.ids
    BY <1>3, <1>4, PrepareIs
  <2> HIDE DEF req
  <2> QED
    BY <2>1, <2>2
<1>7. PICK j \in start + 1..Len(messages) : Called(messages, j) /\ messages[j].id = m.id
  BY <1>2, <1>6
<1>8. \A k \in 1..Len(messages) : IsTool(messages[k]) => messages[k].id = messages[k].key
  BY <1>3 DEF Good, Plain
<1>9. j \in 1..Len(messages) /\ IsTool(messages[i]) /\ IsTool(messages[j])
  BY <1>4, <1>6, <1>7 DEF Called
<1>10. m.key = messages[j].key
  BY <1>6, <1>7, <1>8, <1>9
<1> QED
  BY <1>7, <1>9, <1>10 DEF Inflight

LEMMA RetryFromIInv == IInv => RetryUnchanged
<1> SUFFICES ASSUME IInv, Asked, policy = "unique"
             PROVE  Prepare(messages, start, compacted) = [messages |-> request, ids |-> compacted]
  BY DEF RetryUnchanged
<1>1. TurnInv
  BY DEF IInv
<1>2. Good(messages, 0, made, "unique") /\ messages \in Seq(Msg) /\ start \in 0..Len(messages)
  BY <1>1 DEF TurnInv, Good
<1>3. start \in Nat
  BY <1>2, LenProperties
<1>4. PICK ids \in SUBSET CalledIds(messages) :
        Prepare(messages, start, ids) = [messages |-> request, ids |-> compacted]
  BY <1>1 DEF TurnInv
<1>5. Prepare(messages, start, ids).ids = compacted
  BY <1>4
<1>6. Prepare(messages, start, Prepare(messages, start, ids).ids) = Prepare(messages, start, ids)
  BY <1>2, <1>3, PrepareAgain
<1> QED
  BY <1>4, <1>5, <1>6

-----------------------------------------------------------------------------
(* Theorems. *)

\* The requests of a turn (agent/context_governance.py prepare_for_model), for
\* every budget, window, history and way to number calls: only results of calls
\* are recorded as compacted; a request that does not fit begins at its last
\* user message and shows every long result of the turn as a summary; no result
\* of an earlier turn becomes a summary; and a request that is made again is the
\* same one.
THEOREM RequestIsSound == Spec => []RequestInv
<1>1. IInv => RequestInv
  BY TypeFromIInv, MinimalFromIInv, WholeFromIInv, RetryFromIInv DEF RequestInv
<1> QED
  BY Invariance, <1>1, PTL

\* From one request of a run to the next (compact_inflight_overflow and the set
\* of compacted ids that the run keeps), what was a summary stays one, however
\* providers number their calls and whatever the history holds.
THEOREM CompactionIsStable == Spec => CompactionStable
<1>1. IInv /\ [Next]_vars => [Asked => Stable]_vars
  BY NextIInv
<1>2. [Asked => Stable]_vars =>
        [Asked =>
           /\ compacted \subseteq compacted'
           /\ \A m \in ToSet(request), n \in ToSet(request') :
                m.shown = "summary" /\ IsTool(n) /\ n.key = m.key => n.shown = "summary"]_vars
  BY DEF Stable
<1> QED
  BY Invariance, <1>1, <1>2, PTL DEF Spec, CompactionStable

=============================================================================
