------------------------ MODULE BackgroundWorkProofs ------------------------
(***************************************************************************)
(* Theorems about BackgroundWork and the exec sessions it uses, for any    *)
(* callers, sessions, chunks of output, turns and /stop.  A ledger says of *)
(* each chunk of output where it is; of a session that no two calls shared *)
(* and whose readers were not cut, the one call that uses it has what is   *)
(* missing.  The tasks are then tied to their calls, and every             *)
(* announcement to one place.                                              *)
(***************************************************************************)
EXTENDS BackgroundWork, FiniteSetTheorems, SequenceTheorems, TLAPS

-----------------------------------------------------------------------------
(* The queue of a lock: nobody stands in it twice.                         *)

Distinct(s) == \A i, j \in DOMAIN s : s[i] = s[j] => i = j
Stands(c, s) == \E i \in DOMAIN s : s[i] = c
Leads(c, s) == s # <<>> /\ Head(s) = c

LEMMA Sequence ==
  ASSUME NEW s \in Seq(Caller)
  PROVE  /\ Len(s) \in Nat /\ DOMAIN s = 1..Len(s) /\ \A i \in DOMAIN s : s[i] \in Caller
         /\ s # <<>> => Len(s) # 0 /\ Head(s) = s[1]
<1>1. Len(s) \in Nat /\ DOMAIN s = 1..Len(s) /\ \A i \in DOMAIN s : s[i] \in Caller
  BY LenProperties, ElementOfSeq
<1>2. s # <<>> => Len(s) # 0 /\ Head(s) = s[1]
  BY EmptySeq
<1> QED
  BY <1>1, <1>2

\* Who joins the queue stands last.
LEMMA Joined ==
  ASSUME NEW s \in Seq(Caller), NEW c \in Caller, Distinct(s), ~Stands(c, s)
  PROVE  /\ Append(s, c) \in Seq(Caller) /\ Distinct(Append(s, c))
         /\ \A d \in Caller : Stands(d, Append(s, c)) <=> Stands(d, s) \/ d = c
         /\ \A d \in Caller : Leads(d, s) => Leads(d, Append(s, c))
<1> DEFINE t == Append(s, c)
           n == Len(s)
<1>1. n \in Nat /\ DOMAIN s = 1..n /\ (s # <<>> => n # 0 /\ Head(s) = s[1])
  BY Sequence
<1>2. /\ t \in Seq(Caller) /\ t # <<>> /\ Len(t) = n + 1
      /\ \A i \in 1..n : t[i] = s[i]
      /\ t[n + 1] = c
  BY AppendProperties
<1> HIDE DEF t, n
<1>3. DOMAIN t = 1..n + 1 /\ Head(t) = t[1]
  BY <1>1, <1>2, Sequence
<1>4. Distinct(t)
  BY <1>1, <1>2, <1>3 DEF Distinct, Stands
<1>5. \A d \in Caller : Stands(d, t) <=> Stands(d, s) \/ d = c
  <2> TAKE d \in Caller
  <2>1. ASSUME Stands(d, s) PROVE Stands(d, t)
    <3>1. PICK i \in DOMAIN s : s[i] = d
      BY <2>1 DEF Stands
    <3>2. i \in DOMAIN t /\ t[i] = d
      BY <1>1, <1>2, <1>3, <3>1
    <3> QED
      BY <3>2 DEF Stands
  <2>2. Stands(c, t)
    <3>1. n + 1 \in DOMAIN t
      BY <1>1, <1>3
    <3> QED
      BY <1>2, <3>1 DEF Stands
  <2>3. ASSUME Stands(d, t), d # c PROVE Stands(d, s)
    <3>1. PICK i \in DOMAIN t : t[i] = d
      BY <2>3 DEF Stands
    <3>2. i \in DOMAIN s /\ s[i] = d
      BY <1>1, <1>2, <1>3, <2>3, <3>1
    <3> QED
      BY <3>2 DEF Stands
  <2> QED
    BY <2>1, <2>2, <2>3
<1>6. \A d \in Caller : Leads(d, s) => Leads(d, t)
  BY <1>1, <1>2, <1>3 DEF Leads
<1> QED
  BY <1>2, <1>4, <1>5, <1>6 DEF t

\* Who leaves it leaves the others in their order.
LEMMA Parted ==
  ASSUME NEW s \in Seq(Caller), NEW c \in Caller, Distinct(s)
  PROVE  /\ Without(s, c) \in Seq(Caller) /\ Distinct(Without(s, c))
         /\ \A d \in Caller : Stands(d, Without(s, c)) <=> Stands(d, s) /\ d # c
         /\ \A d \in Caller \ {c} : Leads(d, s) => Leads(d, Without(s, c))
<1> DEFINE at == {i \in DOMAIN s : s[i] = c}
<1>1. CASE at = {}
  BY <1>1 DEF Without, Stands
<1>2. CASE at # {}
  <2> DEFINE p == CHOOSE i \in at : TRUE
             n == Len(s)
  <2>1. n \in Nat /\ DOMAIN s = 1..n /\ (s # <<>> => n # 0 /\ Head(s) = s[1])
        /\ \A i \in DOMAIN s : s[i] \in Caller
    BY Sequence
  <2>2. p \in 1..n /\ s[p] = c /\ Without(s, c) = RemoveAt(s, p)
    BY <1>2, <2>1 DEF Without
  <2> HIDE DEF p, at, n
  <2> DEFINE a == SubSeq(s, 1, p - 1)
             b == SubSeq(s, p + 1, n)
             t == a \o b
  <2>3. /\ a \in Seq(Caller) /\ Len(a) = p - 1
        /\ \A i \in 1..p - 1 : a[i] = s[i]
    <3>1. \A i \in 1..p - 1 : s[i] \in Caller
      BY <2>1, <2>2
    <3>2. /\ a \in Seq(Caller) /\ Len(a) = (IF 1 <= p - 1 THEN p - 1 - 1 + 1 ELSE 0)
          /\ \A i \in 1..p - 1 - 1 + 1 : a[i] = s[1 + i - 1]
      BY <2>1, <2>2, <3>1, SubSeqProperties
    <3> HIDE DEF a
    <3> QED
      BY <2>1, <2>2, <3>2
  <2>4. /\ b \in Seq(Caller) /\ Len(b) = n - p
        /\ \A i \in 1..n - p : b[i] = s[p + i]
    <3>1. \A i \in p + 1..n : s[i] \in Caller
      BY <2>1, <2>2
    <3>2. /\ b \in Seq(Caller) /\ Len(b) = (IF p + 1 <= n THEN n - (p + 1) + 1 ELSE 0)
          /\ \A i \in 1..n - (p + 1) + 1 : b[i] = s[p + 1 + i - 1]
      BY <2>1, <2>2, <3>1, SubSeqProperties
    <3> HIDE DEF b
    <3> QED
      BY <2>1, <2>2, <3>2
  <2> HIDE DEF a, b
  <2>5. /\ t \in Seq(Caller) /\ Len(t) = n - 1
        /\ \A i \in 1..n - 1 : t[i] = IF i < p THEN s[i] ELSE s[i + 1]
    <3>1. /\ t \in Seq(Caller) /\ Len(t) = Len(a) + Len(b)
          /\ \A i \in 1..Len(a) + Len(b) : t[i] = IF i <= Len(a) THEN a[i] ELSE b[i - Len(a)]
      BY <2>3, <2>4, ConcatProperties
    <3>2. \A i \in 1..n - 1 : i >= p => i - (p - 1) \in 1..n - p /\ p + (i - (p - 1)) = i + 1
      BY <2>1, <2>2
    <3> HIDE DEF t
    <3> QED
      BY <2>1, <2>2, <2>3, <2>4, <3>1, <3>2
  <2>6. Without(s, c) = t
    BY <2>2 DEF RemoveAt, a, b, n
  <2> HIDE DEF t
  <2>7. DOMAIN t = 1..n - 1 /\ (t # <<>> => Head(t) = t[1])
    BY <2>1, <2>2, <2>5, Sequence
  <2>8. Distinct(t)
    <3> SUFFICES ASSUME NEW i \in DOMAIN t, NEW j \in DOMAIN t, t[i] = t[j]
                 PROVE  i = j
      BY DEF Distinct
    <3> DEFINE k == IF i < p THEN i ELSE i + 1
               l == IF j < p THEN j ELSE j + 1
    <3>1. k \in DOMAIN s /\ l \in DOMAIN s /\ s[k] = s[l]
      BY <2>1, <2>2, <2>5, <2>7
    <3>2. k = l
      <4> HIDE DEF k, l
      <4> QED
        BY <3>1 DEF Distinct
    <3> QED
      BY <2>1, <2>2, <2>7, <3>2
  <2>9. \A d \in Caller : Stands(d, t) <=> Stands(d, s) /\ d # c
    <3> TAKE d \in Caller
    <3>1. ASSUME Stands(d, t) PROVE Stands(d, s) /\ d # c
      <4>1. PICK i \in DOMAIN t : t[i] = d
        BY <3>1 DEF Stands
      <4> DEFINE j == IF i < p THEN i ELSE i + 1
      <4>2. j \in DOMAIN s /\ s[j] = d /\ j # p
        BY <2>1, <2>2, <2>5, <2>7, <4>1
      <4> HIDE DEF j
      <4>3. d # c
        BY <2>1, <2>2, <4>2 DEF Distinct
      <4> QED
        BY <4>2, <4>3 DEF Stands
    <3>2. ASSUME Stands(d, s), d # c PROVE Stands(d, t)
      <4>1. PICK j \in DOMAIN s : s[j] = d
        BY <3>2 DEF Stands
      <4> DEFINE i == IF j < p THEN j ELSE j - 1
      <4>2. j # p
        BY <2>2, <3>2, <4>1
      <4>3. i \in DOMAIN t /\ t[i] = d
        BY <2>1, <2>2, <2>5, <2>7, <4>1, <4>2
      <4> HIDE DEF i
      <4> QED
        BY <4>3 DEF Stands
    <3> QED
      BY <3>1, <3>2
  <2>10. ASSUME NEW d \in Caller, d # c, Leads(d, s) PROVE Leads(d, t)
    <3>1. s[1] = d /\ n # 0 /\ p # 1
      BY <2>1, <2>2, <2>10 DEF Leads, n
    <3>2. Len(t) # 0 /\ t[1] = d /\ 1 \in DOMAIN t
      BY <2>1, <2>2, <2>5, <2>7, <3>1
    <3>3. t # <<>>
      BY <3>2
    <3> QED
      BY <2>7, <3>2, <3>3 DEF Leads
  <2> QED
    BY <2>5, <2>6, <2>8, <2>9, <2>10
<1> QED
  BY <1>1, <1>2

-----------------------------------------------------------------------------
(* The inductive invariant of the exec sessions.                           *)

Locking == {"lock", "again", "clean", "spawn", "pop", "popEarly"}
Using == {"input", "kill", "wait", "latekill", "drain", "grace", "pop", "popEarly", "again"}
Calls == [at : Locking \cup Using \cup {"idle"}, op : {"none", "start", "write"},
          sid : Sid \cup {NoSid}, stale : SUBSET Sid, got : Nat]

ExecTypeOK ==
  /\ table \subseteq Sid /\ IsFiniteSet(table)
  /\ proc \in [Sid -> {"none", "running", "dying", "exited"}]
  /\ made \in [Sid -> Nat] /\ buffer \in [Sid -> Nat] /\ unread \in [Sid -> Nat]
  /\ reader \in [Sid -> {"none", "reading", "done", "cut"}]
  /\ lock \in Seq(Caller)
  /\ call \in [Caller -> Calls]
  /\ shown \in [Sid -> Nat] /\ disturbed \subseteq Sid

\* The lock is held and awaited by callers in a call, the holder among them.
LockOK ==
  /\ Distinct(lock)
  /\ \A c \in Caller : Stands(c, lock) <=> call[c].at \in Locking
  /\ \A c \in Caller : call[c].at \in {"clean", "spawn"} => Leads(c, lock)

TableOK ==
  /\ Cardinality(table) <= MaxSessions
  /\ \A c \in Caller : call[c].at = "spawn" => Cardinality(table) < MaxSessions
  /\ \A s \in Sid : proc[s] = "running" => s \in table
  /\ \A s \in table : proc[s] # "none" /\ reader[s] # "none"

\* What the place of a call says of its session.
Fits(c) ==
  /\ call[c].at = "idle" => call[c] = NoCall
  /\ call[c].at \in {"lock", "spawn"} => call[c].sid = NoSid
  /\ call[c].sid = NoSid \/ call[c].at \in {"input", "kill"} => call[c].got = 0
  /\ call[c].at \in Using => call[c].sid # NoSid
  /\ call[c].at \in {"drain", "pop", "popEarly"} => Exited(call[c].sid)
  /\ call[c].sid # NoSid => proc[call[c].sid] # "none" /\ reader[call[c].sid] # "none"

UnusedOK ==
  \A s \in Sid : proc[s] = "none" =>
    made[s] = 0 /\ buffer[s] = 0 /\ unread[s] = 0 /\ shown[s] = 0 /\ s \notin disturbed

ReaderOK == \A s \in Sid : reader[s] = "done" => unread[s] = 0 /\ Exited(s)

\* A session that two calls use is disturbed.
AloneOK ==
  \A c, d \in Caller : call[c].sid = call[d].sid /\ call[c].sid \notin disturbed \cup {NoSid}
                       => c = d

\* Each chunk of an intact session was shown, or is with the one call that uses the session,
\* in the buffer, or not read yet.
Intact(s) == s \notin disturbed /\ reader[s] # "cut"
CountedOK ==
  \A s \in Sid : Intact(s) =>
    /\ \A c \in Caller : call[c].sid = s =>
         shown[s] + call[c].got + buffer[s] + unread[s] = made[s]
    /\ s \in table /\ (\A c \in Caller : call[c].sid # s) =>
         shown[s] + buffer[s] + unread[s] = made[s]

\* A call that removes its session with the readers awaited has all of it.
PopOK ==
  \A c \in Caller : call[c].at = "pop" /\ Intact(call[c].sid) =>
    reader[call[c].sid] = "done" /\ buffer[call[c].sid] = 0

\* The readers that one call cut off are no matter of another's.
CutOK ==
  \A s \in Sid : reader[s] = "cut" /\ s \notin disturbed =>
    /\ \A c \in Caller : call[c].sid = s => call[c].at = "pop"
    /\ s \in table => \E c \in Caller : call[c].sid = s

\* A ledger says of each chunk where it is: shown, in the buffer, not read, with a call, or
\* lost with a call that ended otherwise.
Holders == {<<"shown">>, <<"buffer">>, <<"unread">>, <<"lost">>} \cup {<<"call", c>> : c \in Caller}
Of(own, x) == {i \in DOMAIN own : own[i] = x}
Has(own, x, n) == Cardinality(Of(own, x)) = n
Ledger(m, sh, bu, un, got) ==
  \E own \in [1..m -> Holders] :
    /\ Has(own, <<"shown">>, sh) /\ Has(own, <<"buffer">>, bu) /\ Has(own, <<"unread">>, un)
    /\ \A c \in Caller : Has(own, <<"call", c>>, got[c])
Got(s) == [c \in Caller |-> IF call[c].sid = s THEN call[c].got ELSE 0]
LedgerOK == \A s \in Sid : Ledger(made[s], shown[s], buffer[s], unread[s], Got(s))

ExecOK ==
  /\ ExecTypeOK /\ LockOK /\ TableOK /\ (\A c \in Caller : Fits(c)) /\ UnusedOK /\ ReaderOK
  /\ AloneOK /\ CountedOK /\ PopOK /\ CutOK /\ LedgerOK

-----------------------------------------------------------------------------
(* The ledger: chunks pass from one holder to another.                     *)

LEMMA Owned ==
  ASSUME NEW m \in Nat, NEW own \in [1..m -> Holders], NEW x
  PROVE  IsFiniteSet(Of(own, x)) /\ Cardinality(Of(own, x)) \in Nat
<1>1. IsFiniteSet(1..m)
  BY FS_Interval
<1>2. Of(own, x) \subseteq 1..m
  BY DEF Of
<1> QED
  BY <1>1, <1>2, FS_Subset, FS_CardinalityType

\* All that x holds passes to y.
Passes(m, own, x, y, n, k) ==
  \E new \in [1..m -> Holders] :
    /\ Has(new, x, 0) /\ Has(new, y, n + k)
    /\ \A z, l : z # x /\ z # y /\ Has(own, z, l) => Has(new, z, l)

LEMMA Passed ==
  ASSUME NEW m \in Nat, NEW own \in [1..m -> Holders], NEW x, NEW y \in Holders, x # y,
         NEW n, NEW k, Has(own, x, n), Has(own, y, k)
  PROVE  Passes(m, own, x, y, n, k)
<1> DEFINE new == [i \in 1..m |-> IF own[i] = x THEN y ELSE own[i]]
<1>1. new \in [1..m -> Holders]
  OBVIOUS
<1>2. Of(new, x) = {}
  BY DEF Of
<1>3. Of(new, y) = Of(own, x) \cup Of(own, y) /\ Of(own, x) \cap Of(own, y) = {}
  BY DEF Of
<1>4. Cardinality(Of(own, x) \cup Of(own, y)) = n + k
  <2>1. /\ IsFiniteSet(Of(own, x)) /\ Cardinality(Of(own, x)) = n
        /\ IsFiniteSet(Of(own, y)) /\ Cardinality(Of(own, y)) = k
        /\ n \in Nat /\ k \in Nat
    BY Owned DEF Has
  <2>2. Cardinality(Of(own, x) \cup Of(own, y)) =
          n + k - Cardinality(Of(own, x) \cap Of(own, y))
    BY <2>1, FS_Union
  <2>3. Cardinality(Of(own, x) \cap Of(own, y)) = 0
    BY <1>3, FS_EmptySet
  <2> QED
    BY <2>1, <2>2, <2>3
<1>5. Has(new, x, 0) /\ Has(new, y, n + k)
  BY <1>2, <1>3, <1>4, FS_EmptySet DEF Has
<1>6. ASSUME NEW z, NEW l, z # x, z # y, Has(own, z, l) PROVE Has(new, z, l)
  <2>1. Of(new, z) = Of(own, z)
    BY <1>6 DEF Of
  <2> QED
    BY <1>6, <2>1 DEF Has
<1> HIDE DEF new
<1> QED
  BY <1>1, <1>5, <1>6 DEF Passes

\* A process writes a chunk.
LEMMA Made ==
  ASSUME NEW m \in Nat, NEW sh, NEW bu, NEW un \in Nat, NEW got, Ledger(m, sh, bu, un, got)
  PROVE  Ledger(m + 1, sh, bu, un + 1, got)
<1>1. PICK own \in [1..m -> Holders] :
        /\ Has(own, <<"shown">>, sh) /\ Has(own, <<"buffer">>, bu) /\ Has(own, <<"unread">>, un)
        /\ \A c \in Caller : Has(own, <<"call", c>>, got[c])
  BY DEF Ledger
<1> DEFINE new == [i \in 1..m + 1 |-> IF i = m + 1 THEN <<"unread">> ELSE own[i]]
<1>2. new \in [1..m + 1 -> Holders]
  BY DEF Holders
<1>3. Has(new, <<"unread">>, un + 1)
  <2>1. Of(new, <<"unread">>) = Of(own, <<"unread">>) \cup {m + 1} /\ m + 1 \notin Of(own, <<"unread">>)
    <3>1. m + 1 \in 1..m + 1 /\ m + 1 \notin 1..m /\ \A i \in 1..m + 1 : i \in 1..m \/ i = m + 1
      OBVIOUS
    <3>2. DOMAIN new = 1..m + 1 /\ DOMAIN own = 1..m /\ new[m + 1] = <<"unread">>
          /\ \A i \in 1..m : i \in 1..m + 1 /\ new[i] = own[i]
      BY <3>1
    <3> HIDE DEF new
    <3> QED
      BY <3>1, <3>2 DEF Of
  <2>2. IsFiniteSet(Of(own, <<"unread">>))
    BY Owned
  <2>3. Cardinality(Of(own, <<"unread">>) \cup {m + 1}) = Cardinality(Of(own, <<"unread">>)) + 1
    BY <2>1, <2>2, FS_AddElement
  <2> QED
    BY <1>1, <2>1, <2>3 DEF Has
<1>4. ASSUME NEW z, NEW l, z # <<"unread">>, Has(own, z, l) PROVE Has(new, z, l)
  <2>1. Of(new, z) = Of(own, z)
    BY <1>4 DEF Of
  <2> QED
    BY <1>4, <2>1 DEF Has
<1> HIDE DEF new
<1>5. Has(new, <<"shown">>, sh) /\ Has(new, <<"buffer">>, bu)
  <2>1. <<"shown">> # <<"unread">> /\ <<"buffer">> # <<"unread">>
    OBVIOUS
  <2> QED
    BY <1>1, <1>4, <2>1
<1>6. ASSUME NEW c \in Caller PROVE Has(new, <<"call", c>>, got[c])
  <2>1. <<"call", c>> # <<"unread">>
    OBVIOUS
  <2> QED
    BY <1>1, <1>4, <2>1
<1> QED
  BY <1>2, <1>3, <1>5, <1>6 DEF Ledger

\* The reader moves what it read to the buffer.
LEMMA Buffered ==
  ASSUME NEW m \in Nat, NEW sh, NEW bu \in Nat, NEW un \in Nat, NEW got,
         Ledger(m, sh, bu, un, got)
  PROVE  Ledger(m, sh, bu + un, 0, got)
<1>1. PICK own \in [1..m -> Holders] :
        /\ Has(own, <<"shown">>, sh) /\ Has(own, <<"buffer">>, bu) /\ Has(own, <<"unread">>, un)
        /\ \A c \in Caller : Has(own, <<"call", c>>, got[c])
  BY DEF Ledger
<1> DEFINE x == <<"unread">>
           y == <<"buffer">>
<1>2. x # y /\ y \in Holders /\ x # <<"shown">> /\ y # <<"shown">>
      /\ \A c \in Caller : x # <<"call", c>> /\ y # <<"call", c>>
  BY DEF Holders
<1>3. PICK new \in [1..m -> Holders] :
        /\ Has(new, x, 0) /\ Has(new, y, un + bu)
        /\ \A z, l : z # x /\ z # y /\ Has(own, z, l) => Has(new, z, l)
  <2> HIDE DEF x, y
  <2>1. Has(own, x, un) /\ Has(own, y, bu)
    BY <1>1 DEF x, y
  <2>2. x # y /\ y \in Holders
    BY <1>2
  <2>3. Passes(m, own, x, y, un, bu)
    BY <2>1, <2>2, Passed
  <2> QED
    BY <2>3 DEF Passes
<1>4. Has(new, <<"shown">>, sh) /\ \A c \in Caller : Has(new, <<"call", c>>, got[c])
  BY <1>1, <1>2, <1>3
<1> QED
  BY <1>3, <1>4 DEF Ledger

\* A call takes what is in the buffer.
Gains(new, got, c, n) == new[c] = got[c] + n /\ \A d \in Caller \ {c} : new[d] = got[d]

LEMMA Taken ==
  ASSUME NEW m \in Nat, NEW sh, NEW bu \in Nat, NEW un, NEW got \in [Caller -> Nat],
         NEW c \in Caller, NEW new, Ledger(m, sh, bu, un, got), Gains(new, got, c, bu)
  PROVE  Ledger(m, sh, 0, un, new)
<1>1. PICK own \in [1..m -> Holders] :
        /\ Has(own, <<"shown">>, sh) /\ Has(own, <<"buffer">>, bu) /\ Has(own, <<"unread">>, un)
        /\ \A d \in Caller : Has(own, <<"call", d>>, got[d])
  BY DEF Ledger
<1> DEFINE x == <<"buffer">>
           y == <<"call", c>>
<1>2. /\ x # y /\ y \in Holders
      /\ x # <<"shown">> /\ y # <<"shown">> /\ x # <<"unread">> /\ y # <<"unread">>
      /\ \A d \in Caller \ {c} : x # <<"call", d>> /\ y # <<"call", d>>
  BY DEF Holders
<1>3. PICK next \in [1..m -> Holders] :
        /\ Has(next, x, 0) /\ Has(next, y, bu + got[c])
        /\ \A z, l : z # x /\ z # y /\ Has(own, z, l) => Has(next, z, l)
  <2> HIDE DEF x, y
  <2>1. Has(own, x, bu) /\ Has(own, y, got[c])
    BY <1>1 DEF x, y
  <2>2. x # y /\ y \in Holders
    BY <1>2
  <2>3. Passes(m, own, x, y, bu, got[c])
    BY <2>1, <2>2, Passed
  <2> QED
    BY <2>3 DEF Passes
<1>4. Has(next, <<"shown">>, sh) /\ Has(next, <<"unread">>, un)
  BY <1>1, <1>2, <1>3
<1>5. ASSUME NEW d \in Caller PROVE Has(next, <<"call", d>>, new[d])
  <2>1. CASE d = c
    BY <1>3, <2>1 DEF Gains
  <2>2. CASE d # c
    BY <1>1, <1>2, <1>3, <2>2 DEF Gains
  <2> QED
    BY <2>1, <2>2
<1> QED
  BY <1>3, <1>4, <1>5 DEF Ledger

\* A call returns what it has.
LEMMA Returned ==
  ASSUME NEW m \in Nat, NEW sh \in Nat, NEW bu, NEW un, NEW got \in [Caller -> Nat],
         NEW c \in Caller, NEW new, Ledger(m, sh, bu, un, got),
         new[c] = 0, \A d \in Caller \ {c} : new[d] = got[d]
  PROVE  Ledger(m, sh + got[c], bu, un, new)
<1>1. PICK own \in [1..m -> Holders] :
        /\ Has(own, <<"shown">>, sh) /\ Has(own, <<"buffer">>, bu) /\ Has(own, <<"unread">>, un)
        /\ \A d \in Caller : Has(own, <<"call", d>>, got[d])
  BY DEF Ledger
<1> DEFINE x == <<"call", c>>
           y == <<"shown">>
<1>2. /\ x # y /\ y \in Holders
      /\ x # <<"buffer">> /\ y # <<"buffer">> /\ x # <<"unread">> /\ y # <<"unread">>
      /\ \A d \in Caller \ {c} : x # <<"call", d>> /\ y # <<"call", d>>
  BY DEF Holders
<1>3. PICK next \in [1..m -> Holders] :
        /\ Has(next, x, 0) /\ Has(next, y, got[c] + sh)
        /\ \A z, l : z # x /\ z # y /\ Has(own, z, l) => Has(next, z, l)
  <2> HIDE DEF x, y
  <2>1. Has(own, x, got[c]) /\ Has(own, y, sh)
    BY <1>1 DEF x, y
  <2>2. x # y /\ y \in Holders
    BY <1>2
  <2>3. Passes(m, own, x, y, got[c], sh)
    BY <2>1, <2>2, Passed
  <2> QED
    BY <2>3 DEF Passes
<1>4. Has(next, <<"buffer">>, bu) /\ Has(next, <<"unread">>, un)
  BY <1>1, <1>2, <1>3
<1>5. ASSUME NEW d \in Caller PROVE Has(next, <<"call", d>>, new[d])
  <2>1. CASE d = c
    BY <1>3, <2>1
  <2>2. CASE d # c
    BY <1>1, <1>2, <1>3, <2>2
  <2> QED
    BY <2>1, <2>2
<1> QED
  BY <1>3, <1>4, <1>5 DEF Ledger

\* A call ends without returning what it has.
LEMMA Lost ==
  ASSUME NEW m \in Nat, NEW sh, NEW bu, NEW un, NEW got \in [Caller -> Nat],
         NEW c \in Caller, NEW new, Ledger(m, sh, bu, un, got),
         new[c] = 0, \A d \in Caller \ {c} : new[d] = got[d]
  PROVE  Ledger(m, sh, bu, un, new)
<1>1. PICK own \in [1..m -> Holders] :
        /\ Has(own, <<"shown">>, sh) /\ Has(own, <<"buffer">>, bu) /\ Has(own, <<"unread">>, un)
        /\ \A d \in Caller : Has(own, <<"call", d>>, got[d])
  BY DEF Ledger
<1> DEFINE x == <<"call", c>>
           y == <<"lost">>
<1>2. /\ x # y /\ y \in Holders
      /\ \A z \in {<<"shown">>, <<"buffer">>, <<"unread">>} : x # z /\ y # z
      /\ \A d \in Caller \ {c} : x # <<"call", d>> /\ y # <<"call", d>>
  BY DEF Holders
<1>3. PICK next \in [1..m -> Holders] :
        /\ Has(next, x, 0)
        /\ \A z, l : z # x /\ z # y /\ Has(own, z, l) => Has(next, z, l)
  <2> HIDE DEF x, y
  <2>1. Has(own, x, got[c]) /\ Has(own, y, Cardinality(Of(own, y)))
    BY <1>1 DEF x, Has
  <2>2. x # y /\ y \in Holders
    BY <1>2
  <2>3. Passes(m, own, x, y, got[c], Cardinality(Of(own, y)))
    BY <2>1, <2>2, Passed
  <2> QED
    BY <2>3 DEF Passes
<1>4. Has(next, <<"shown">>, sh) /\ Has(next, <<"buffer">>, bu) /\ Has(next, <<"unread">>, un)
  BY <1>1, <1>2, <1>3
<1>5. ASSUME NEW d \in Caller PROVE Has(next, <<"call", d>>, new[d])
  <2>1. CASE d = c
    BY <1>3, <2>1
  <2>2. CASE d # c
    BY <1>1, <1>2, <1>3, <2>2
  <2> QED
    BY <2>1, <2>2
<1> QED
  BY <1>3, <1>4, <1>5 DEF Ledger

\* No chunk is counted twice.
LEMMA Bounded ==
  ASSUME NEW m \in Nat, NEW sh, NEW bu, NEW un, NEW got, Ledger(m, sh, bu, un, got)
  PROVE  sh + bu + un <= m
<1>1. PICK own \in [1..m -> Holders] :
        Has(own, <<"shown">>, sh) /\ Has(own, <<"buffer">>, bu) /\ Has(own, <<"unread">>, un)
  BY DEF Ledger
<1>2. PICK one \in [1..m -> Holders] :
        Has(one, <<"shown">>, sh) /\ Has(one, <<"buffer">>, un + bu)
  <2>1. <<"unread">> # <<"buffer">> /\ <<"buffer">> \in Holders
        /\ <<"shown">> # <<"unread">> /\ <<"shown">> # <<"buffer">>
    BY DEF Holders
  <2>2. PICK one \in [1..m -> Holders] :
          /\ Has(one, <<"buffer">>, un + bu)
          /\ \A z, l : z # <<"unread">> /\ z # <<"buffer">> /\ Has(own, z, l) => Has(one, z, l)
    BY <1>1, <2>1, Passed DEF Passes
  <2>3. Has(one, <<"shown">>, sh)
    BY <1>1, <2>1, <2>2
  <2> QED
    BY <2>2, <2>3
<1>3. PICK two \in [1..m -> Holders] : Has(two, <<"shown">>, (un + bu) + sh)
  <2>1. <<"buffer">> # <<"shown">> /\ <<"shown">> \in Holders
    BY DEF Holders
  <2> QED
    BY <1>2, <2>1, Passed DEF Passes
<1>4. Of(two, <<"shown">>) \subseteq 1..m /\ IsFiniteSet(1..m) /\ Cardinality(1..m) = m
  BY FS_Interval DEF Of
<1>5. Cardinality(Of(two, <<"shown">>)) <= m
  BY <1>4, FS_Subset
<1>6. sh \in Nat /\ bu \in Nat /\ un \in Nat
  BY <1>1, Owned DEF Has
<1> QED
  BY <1>3, <1>5, <1>6 DEF Has

-----------------------------------------------------------------------------
(* What a step does to the call of its caller.                             *)

Others(c) == call' \in [Caller -> Calls] /\ \A d \in Caller \ {c} : call'[d] = call[d]
\* The call goes on with its session and what it got.
Keeps(c, at) ==
  /\ Others(c)
  /\ call'[c].at = at /\ call'[c].sid = call[c].sid /\ call'[c].got = call[c].got
Leaves(c) == Others(c) /\ call'[c] = NoCall

LEMMA Moving ==
  ASSUME call \in [Caller -> Calls], NEW c \in Caller,
         NEW at \in Locking \cup Using \cup {"idle"}, MoveTo(c, at)
  PROVE  Keeps(c, at)
<1> DEFINE k == [call[c] EXCEPT !.at = at]
<1>1. k \in Calls /\ k.at = at /\ k.sid = call[c].sid /\ k.got = call[c].got
  <2>1. call[c] \in Calls
    OBVIOUS
  <2> QED
    BY <2>1 DEF Calls
<1>2. call' = [call EXCEPT ![c] = k]
  BY DEF MoveTo
<1> HIDE DEF k
<1> QED
  BY <1>1, <1>2 DEF Keeps, Others

LEMMA Returning ==
  ASSUME call \in [Caller -> Calls], NEW c \in Caller, Return(c)
  PROVE  Leaves(c)
<1>1. NoCall \in Calls
  BY DEF NoCall, Calls
<1> HIDE DEF NoCall
<1> QED
  BY <1>1 DEF Return, Leaves, Others

-----------------------------------------------------------------------------
(* The lock. *)

LEMMA Holding ==
  ASSUME LockOK, NEW c \in Caller, Others(c), lock' = lock,
         call[c].at \in Locking <=> call'[c].at \in Locking,
         call'[c].at \in {"clean", "spawn"} => Leads(c, lock)
  PROVE  LockOK'
<1>1. \A d \in Caller : call'[d].at \in Locking <=> call[d].at \in Locking
  BY DEF Others
<1>2. \A d \in Caller : call'[d].at \in {"clean", "spawn"} => Leads(d, lock)
  BY DEF Others, LockOK
<1> QED
  BY <1>1, <1>2 DEF LockOK, Stands, Leads, Distinct

LEMMA Queueing ==
  ASSUME lock \in Seq(Caller), LockOK, NEW c \in Caller, Others(c), Queue(c),
         call[c].at \notin Locking, call'[c].at \in Locking \ {"clean", "spawn"}
  PROVE  lock' \in Seq(Caller) /\ LockOK'
<1> DEFINE t == Append(lock, c)
<1>1. /\ t \in Seq(Caller) /\ Distinct(t)
      /\ \A d \in Caller : Stands(d, t) <=> Stands(d, lock) \/ d = c
      /\ \A d \in Caller : Leads(d, lock) => Leads(d, t)
  <2>1. Distinct(lock) /\ ~Stands(c, lock)
    BY DEF LockOK
  <2> QED
    BY <2>1, Joined
<1>2. lock' = t
  BY DEF Queue
<1> HIDE DEF t
<1>3. \A d \in Caller : Stands(d, t) <=> call'[d].at \in Locking
  BY <1>1 DEF Others, LockOK
<1>4. \A d \in Caller : call'[d].at \in {"clean", "spawn"} => Leads(d, t)
  BY <1>1 DEF Others, LockOK
<1> QED
  BY <1>1, <1>2, <1>3, <1>4 DEF LockOK

LEMMA Releasing ==
  ASSUME lock \in Seq(Caller), LockOK, NEW c \in Caller, Others(c), Release(c),
         call'[c].at \notin Locking
  PROVE  lock' \in Seq(Caller) /\ LockOK'
<1> DEFINE t == Without(lock, c)
<1>1. /\ t \in Seq(Caller) /\ Distinct(t)
      /\ \A d \in Caller : Stands(d, t) <=> Stands(d, lock) /\ d # c
      /\ \A d \in Caller \ {c} : Leads(d, lock) => Leads(d, t)
  <2>1. Distinct(lock)
    BY DEF LockOK
  <2> QED
    BY <2>1, Parted
<1>2. lock' = t
  BY DEF Release
<1> HIDE DEF t
<1>3. \A d \in Caller : Stands(d, t) <=> call'[d].at \in Locking
  BY <1>1 DEF Others, LockOK
<1>4. \A d \in Caller : call'[d].at \in {"clean", "spawn"} => Leads(d, t)
  <2>1. "clean" \in Locking /\ "spawn" \in Locking
    BY DEF Locking
  <2> QED
    BY <1>1, <2>1 DEF Others, LockOK
<1> QED
  BY <1>1, <1>2, <1>3, <1>4 DEF LockOK

-----------------------------------------------------------------------------
(* What a step does to what the calls got.                                 *)

LEMMA Gets ==
  ASSUME call \in [Caller -> Calls], NEW s \in Sid
  PROVE  Got(s) \in [Caller -> Nat]
         /\ \A c \in Caller : Got(s)[c] = IF call[c].sid = s THEN call[c].got ELSE 0
<1>1. \A c \in Caller : call[c].got \in Nat
  BY DEF Calls
<1> QED
  BY <1>1 DEF Got

LEMMA GotAfter ==
  ASSUME NEW c \in Caller, Others(c), NEW s \in Sid
  PROVE  /\ Got(s)' \in [Caller -> Nat]
         /\ Got(s)'[c] = IF call'[c].sid = s THEN call'[c].got ELSE 0
         /\ call \in [Caller -> Calls] => \A d \in Caller \ {c} : Got(s)'[d] = Got(s)[d]
<1>1. \A d \in Caller : call'[d].got \in Nat
  BY DEF Others, Calls
<1>2. Got(s)' \in [Caller -> Nat]
      /\ \A d \in Caller : Got(s)'[d] = IF call'[d].sid = s THEN call'[d].got ELSE 0
  BY <1>1 DEF Got
<1>3. ASSUME call \in [Caller -> Calls], NEW d \in Caller \ {c} PROVE Got(s)'[d] = Got(s)[d]
  BY <1>2, <1>3 DEF Others, Got
<1> QED
  BY <1>2, <1>3

LEMMA GotKept ==
  ASSUME call \in [Caller -> Calls], NEW c \in Caller, NEW at, Keeps(c, at), NEW s \in Sid
  PROVE  Got(s)' = Got(s)
<1>1. \A d \in Caller : call'[d].sid = call[d].sid /\ call'[d].got = call[d].got
  BY DEF Keeps, Others
<1> QED
  BY <1>1 DEF Got

\* The call is in another place, with the same session and chunks; processes may have been
\* killed, and sessions without a running process removed.
Calm ==
  /\ proc' \in [Sid -> {"none", "running", "dying", "exited"}]
  /\ \A s \in Sid : proc'[s] = proc[s] \/ (proc[s] = "running" /\ proc'[s] = "dying")

LEMMA Stays ==
  ASSUME ExecOK, NEW c \in Caller, NEW at, Keeps(c, at), call[c].at # "pop", at # "pop",
         Calm, table' \subseteq table, \A s \in table \ table' : proc'[s] # "running",
         UNCHANGED <<made, buffer, unread, reader, results>>,
         lock' \in Seq(Caller), LockOK', Fits(c)',
         at = "spawn" => Cardinality(table) < MaxSessions
  PROVE  ExecOK'
<1> USE DEF ExecOK
<1>1. ExecTypeOK'
  BY FS_Subset DEF ExecTypeOK, Calm, Keeps, Others, results
<1>2. /\ shown' = shown /\ disturbed' = disturbed /\ reader' = reader
      /\ \A s \in Sid : (proc'[s] = "none" <=> proc[s] = "none") /\ (Exited(s)' <=> Exited(s))
      /\ \A s \in Sid : Intact(s)' <=> Intact(s)
  BY DEF Calm, results, Exited, Intact
<1>3. \A d \in Caller : call'[d].sid = call[d].sid /\ call'[d].got = call[d].got
  BY DEF Keeps, Others
<1>4. \A d \in Caller : (call'[d].at = "pop" <=> call[d].at = "pop")
  BY DEF Keeps, Others
<1>5. TableOK'
  <2>1. Cardinality(table') <= Cardinality(table) /\ Cardinality(table) \in Nat
        /\ Cardinality(table') \in Nat
    BY FS_Subset, FS_CardinalityType DEF ExecTypeOK
  <2>2. Cardinality(table') <= MaxSessions
        /\ \A d \in Caller : call'[d].at = "spawn" => Cardinality(table') < MaxSessions
    BY <2>1, ExecAssumption DEF Keeps, Others, TableOK
  <2>3. \A s \in Sid : proc'[s] = "running" => s \in table'
    BY DEF TableOK, Calm
  <2>4. \A s \in table' : proc'[s] # "none" /\ reader'[s] # "none"
    BY <1>2 DEF TableOK, ExecTypeOK
  <2> QED
    BY <2>2, <2>3, <2>4 DEF TableOK
<1>6. \A d \in Caller : Fits(d)'
  <2>1. ASSUME NEW d \in Caller, d # c PROVE Fits(d)'
    <3>1. call'[d] = call[d] /\ Fits(d)
      BY <2>1 DEF Keeps, Others
    <3>2. call[d].sid # NoSid => call[d].sid \in Sid
      BY DEF ExecTypeOK, Calls
    <3> QED
      BY <1>2, <3>1, <3>2 DEF Fits, Using
  <2> QED
    BY <2>1
<1>7. UnusedOK'
  BY <1>2 DEF UnusedOK
<1>8. ReaderOK'
  BY <1>2 DEF ReaderOK
<1>9. AloneOK'
  BY <1>2, <1>3 DEF AloneOK
<1>10. CountedOK'
  BY <1>2, <1>3 DEF CountedOK
<1>11. PopOK'
  <2> SUFFICES ASSUME NEW d \in Caller, call'[d].at = "pop", Intact(call[d].sid)'
               PROVE  reader[call[d].sid] = "done" /\ buffer[call[d].sid] = 0
    BY <1>2, <1>3 DEF PopOK
  <2>1. Intact(call[d].sid)
    BY <1>2, <1>3 DEF Intact
  <2> QED
    BY <1>4, <2>1 DEF PopOK
<1>12. CutOK'
  BY <1>2, <1>3, <1>4 DEF CutOK
<1>13. LedgerOK'
  <2> SUFFICES ASSUME NEW s \in Sid
               PROVE  Ledger(made'[s], shown'[s], buffer'[s], unread'[s], Got(s)')
    BY DEF LedgerOK
  <2>1. Got(s)' = Got(s)
    BY GotKept DEF ExecTypeOK
  <2> QED
    BY <1>2, <2>1 DEF LedgerOK
<1> QED
  BY <1>1, <1>5, <1>6, <1>7, <1>8, <1>9, <1>10, <1>11, <1>12, <1>13

\* The call ends without a result, and what it got is lost with it.
LEMMA Quits ==
  ASSUME ExecOK, NEW c \in Caller, Leaves(c), UNCHANGED <<table, proc, made, buffer, unread, shown>>,
         reader' \in [Sid -> {"none", "reading", "done", "cut"}],
         \A s \in Sid : \/ reader'[s] = reader[s]
                        \/ reader[s] = "reading" /\ reader'[s] = "cut" /\ s \in disturbed',
         disturbed \subseteq disturbed', disturbed' \subseteq disturbed \cup ({call[c].sid} \ {NoSid}),
         \/ call[c].got = 0 \/ call[c].sid \notin table
         \/ call[c].sid \in disturbed' \/ reader'[call[c].sid] = "cut",
         call[c].at # "pop" \/ call[c].sid \in disturbed',
         lock' \in Seq(Caller), LockOK'
  PROVE  ExecOK'
<1> USE DEF ExecOK
<1>1. NoCall.at = "idle" /\ NoCall.sid = NoSid /\ NoCall.got = 0
  BY DEF NoCall
<1>2. call'[c] = NoCall /\ \A d \in Caller \ {c} : call'[d] = call[d]
  BY DEF Leaves, Others
<1>3. call[c].sid \in Sid \cup {NoSid} /\ disturbed' \subseteq Sid
  BY DEF ExecTypeOK, Calls
<1>4. ExecTypeOK'
  BY <1>3 DEF ExecTypeOK, Leaves, Others
<1>5. \A s \in Sid : /\ Exited(s)' <=> Exited(s)
                     /\ Intact(s)' => Intact(s)
                     /\ reader'[s] = "none" <=> reader[s] = "none"
                     /\ reader'[s] = "done" <=> reader[s] = "done"
                     /\ reader'[s] = "cut" /\ s \notin disturbed' => reader[s] = "cut" /\ s \notin disturbed
  BY DEF Exited, Intact
<1>6. TableOK'
  <2>1. \A d \in Caller : call'[d].at = "spawn" => call[d].at = "spawn"
    BY <1>1, <1>2
  <2>2. \A s \in table : s \in Sid /\ reader'[s] # "none"
    BY <1>5 DEF TableOK, ExecTypeOK
  <2> QED
    BY <2>1, <2>2 DEF TableOK
<1>7. \A d \in Caller : Fits(d)'
  <2>1. Fits(c)'
    BY <1>1, <1>2 DEF Fits, Using
  <2>2. ASSUME NEW d \in Caller, d # c PROVE Fits(d)'
    <3>1. call'[d] = call[d] /\ Fits(d)
      BY <1>2, <2>2
    <3>2. call[d].sid # NoSid => call[d].sid \in Sid
      BY DEF ExecTypeOK, Calls
    <3> QED
      BY <1>5, <3>1, <3>2 DEF Fits, Using
  <2> QED
    BY <2>1, <2>2
<1>8. UnusedOK'
  <2>1. \A s \in Sid : proc[s] = "none" => call[c].sid # s
    BY ExecAssumption DEF Fits
  <2> QED
    BY <2>1 DEF UnusedOK
<1>9. ReaderOK'
  BY <1>5 DEF ReaderOK
<1>10. AloneOK'
  BY <1>1, <1>2 DEF AloneOK
<1>11. CountedOK'
  <2> SUFFICES ASSUME NEW s \in Sid, Intact(s)'
               PROVE  /\ \A d \in Caller : call'[d].sid = s =>
                           shown[s] + call'[d].got + buffer[s] + unread[s] = made[s]
                      /\ s \in table /\ (\A d \in Caller : call'[d].sid # s) =>
                           shown[s] + buffer[s] + unread[s] = made[s]
    BY DEF CountedOK
  <2>1. Intact(s)
    BY <1>5
  <2>2. ASSUME NEW d \in Caller, call'[d].sid = s
        PROVE  shown[s] + call'[d].got + buffer[s] + unread[s] = made[s]
    BY <1>1, <1>2, <2>1, <2>2, ExecAssumption DEF CountedOK
  <2>3. ASSUME s \in table, \A d \in Caller : call'[d].sid # s
        PROVE  shown[s] + buffer[s] + unread[s] = made[s]
    <3>1. CASE call[c].sid = s
      <4>1. call[c].got = 0
        BY <2>3, <3>1 DEF Intact
      <4>2. shown[s] + call[c].got + buffer[s] + unread[s] = made[s]
        BY <2>1, <3>1 DEF CountedOK
      <4> QED
        BY <4>1, <4>2 DEF ExecTypeOK
    <3>2. CASE call[c].sid # s
      BY <1>2, <2>1, <2>3, <3>2 DEF CountedOK
    <3> QED
      BY <3>1, <3>2
  <2> QED
    BY <2>2, <2>3
<1>12. PopOK'
  <2> SUFFICES ASSUME NEW d \in Caller, call'[d].at = "pop", Intact(call[d].sid)'
               PROVE  reader'[call'[d].sid] = "done" /\ buffer[call'[d].sid] = 0
    BY DEF PopOK
  <2>1. call'[d] = call[d] /\ d # c
    BY <1>1, <1>2
  <2>2. Fits(d) /\ call[d].sid \in Sid
    BY <2>1 DEF Fits, Using, ExecTypeOK, Calls
  <2>3. Intact(call[d].sid)
    BY <1>5, <2>1, <2>2 DEF Intact
  <2> QED
    BY <1>5, <2>1, <2>2, <2>3 DEF PopOK
<1>13. CutOK'
  <2> SUFFICES ASSUME NEW s \in Sid, reader'[s] = "cut", s \notin disturbed'
               PROVE  /\ \A d \in Caller : call'[d].sid = s => call'[d].at = "pop"
                      /\ s \in table => \E d \in Caller : call'[d].sid = s
    BY DEF CutOK
  <2>1. /\ \A d \in Caller : call[d].sid = s => call[d].at = "pop"
        /\ s \in table => \E d \in Caller : call[d].sid = s
    BY <1>5 DEF CutOK
  <2>2. call[c].sid # s
    BY <2>1
  <2> QED
    BY <1>1, <1>2, <2>1, <2>2, ExecAssumption
<1>14. LedgerOK'
  <2> SUFFICES ASSUME NEW s \in Sid
               PROVE  Ledger(made'[s], shown'[s], buffer'[s], unread'[s], Got(s)')
    BY DEF LedgerOK
  <2>1. Ledger(made[s], shown[s], buffer[s], unread[s], Got(s)) /\ made[s] \in Nat
    BY DEF LedgerOK, ExecTypeOK
  <2>2. Got(s) \in [Caller -> Nat]
    BY Gets DEF ExecTypeOK
  <2>3. Got(s)'[c] = 0 /\ \A d \in Caller \ {c} : Got(s)'[d] = Got(s)[d]
    <3>1. Others(c) /\ call \in [Caller -> Calls]
      BY DEF Leaves, ExecTypeOK
    <3> QED
      BY <1>1, <1>2, <3>1, GotAfter, Zenon
  <2>4. Ledger(made[s], shown[s], buffer[s], unread[s], Got(s)')
    BY <2>1, <2>2, <2>3, Lost
  <2> QED
    BY <2>4
<1> QED
  BY <1>4, <1>6, <1>7, <1>8, <1>9, <1>10, <1>11, <1>12, <1>13, <1>14

\* The call ends with what it got and b chunks of the buffer as its result.
Hands(c, s, b) ==
  /\ buffer' = [buffer EXCEPT ![s] = @ - b]
  /\ shown' = [shown EXCEPT ![s] = @ + (call[c].got + b)]
  /\ UNCHANGED <<proc, made, unread, reader, disturbed>>
  /\ \/ table' = table /\ call[c].at # "pop"
     \/ table' = table \ {s} /\ proc[s] # "running"

LEMMA Answers ==
  ASSUME ExecOK, NEW c \in Caller, Leaves(c), NEW s \in Sid, s = call[c].sid,
         NEW b \in {0, buffer[s]}, Hands(c, s, b), lock' \in Seq(Caller), LockOK'
  PROVE  ExecOK'
<1> USE DEF ExecOK, Hands
<1>1. NoCall.at = "idle" /\ NoCall.sid = NoSid /\ NoCall.got = 0 /\ NoSid # s
  BY ExecAssumption DEF NoCall
<1>2. call'[c] = NoCall /\ \A d \in Caller \ {c} : call'[d] = call[d]
  BY DEF Leaves, Others
<1>3. /\ buffer[s] \in Nat /\ shown[s] \in Nat /\ call[c].got \in Nat /\ b \in Nat
      /\ buffer'[s] = buffer[s] - b /\ buffer'[s] \in Nat
      /\ shown'[s] = shown[s] + (call[c].got + b) /\ shown'[s] \in Nat
      /\ \A r \in Sid \ {s} : buffer'[r] = buffer[r] /\ shown'[r] = shown[r]
  BY DEF ExecTypeOK, Calls
<1>4. table' \subseteq table /\ \A r \in table : r # s => r \in table'
  OBVIOUS
<1>5. ExecTypeOK'
  <2>1. IsFiniteSet(table') /\ table' \subseteq Sid
    BY <1>4, FS_Subset DEF ExecTypeOK
  <2>2. buffer' \in [Sid -> Nat] /\ shown' \in [Sid -> Nat]
    BY <1>3 DEF ExecTypeOK
  <2> QED
    BY <2>1, <2>2 DEF ExecTypeOK, Leaves, Others
<1>6. \A r \in Sid : (Exited(r)' <=> Exited(r)) /\ (Intact(r)' <=> Intact(r))
  BY DEF Exited, Intact
<1>7. TableOK'
  <2>1. Cardinality(table') <= Cardinality(table) /\ Cardinality(table) \in Nat
        /\ Cardinality(table') \in Nat
    BY <1>4, FS_Subset, FS_CardinalityType DEF ExecTypeOK
  <2>2. Cardinality(table') <= MaxSessions
        /\ \A d \in Caller : call'[d].at = "spawn" => Cardinality(table') < MaxSessions
    BY <1>1, <1>2, <2>1, ExecAssumption DEF TableOK
  <2>3. \A r \in Sid : proc[r] = "running" => r \in table'
    BY DEF TableOK
  <2>4. \A r \in table' : proc[r] # "none" /\ reader[r] # "none"
    BY <1>4 DEF TableOK
  <2> QED
    BY <2>2, <2>3, <2>4 DEF TableOK
<1>8. \A d \in Caller : Fits(d)'
  <2>1. Fits(c)'
    BY <1>1, <1>2 DEF Fits, Using
  <2>2. ASSUME NEW d \in Caller, d # c PROVE Fits(d)'
    <3>1. call'[d] = call[d] /\ Fits(d)
      BY <1>2, <2>2
    <3>2. call[d].sid # NoSid => call[d].sid \in Sid
      BY DEF ExecTypeOK, Calls
    <3> QED
      BY <1>6, <3>1, <3>2 DEF Fits, Using
  <2> QED
    BY <2>1, <2>2
<1>9. UnusedOK'
  <2>1. proc[s] # "none"
    BY <1>1 DEF Fits
  <2> QED
    BY <1>3, <2>1 DEF UnusedOK
<1>10. ReaderOK'
  BY <1>6 DEF ReaderOK
<1>11. AloneOK'
  BY <1>1, <1>2 DEF AloneOK
<1>12. \A d \in Caller : d # c /\ call[d].sid = s => ~Intact(s)
  BY <1>1 DEF AloneOK, Intact
<1>13. CountedOK'
  <2> SUFFICES ASSUME NEW r \in Sid, Intact(r)
               PROVE  /\ \A d \in Caller : call'[d].sid = r =>
                           shown'[r] + call'[d].got + buffer'[r] + unread[r] = made[r]
                      /\ r \in table' /\ (\A d \in Caller : call'[d].sid # r) =>
                           shown'[r] + buffer'[r] + unread[r] = made[r]
    BY <1>6 DEF CountedOK
  <2>1. CASE r = s
    <3>1. \A d \in Caller : call'[d].sid # s
      BY <1>1, <1>2, <1>12, <2>1
    <3>2. shown[s] + call[c].got + buffer[s] + unread[s] = made[s] /\ unread[s] \in Nat
      BY <2>1 DEF CountedOK, ExecTypeOK
    <3>3. shown'[s] + buffer'[s] + unread[s] = made[s]
      <4>1. /\ shown[s] \in Nat /\ call[c].got \in Nat /\ buffer[s] \in Nat /\ unread[s] \in Nat
            /\ b \in Nat /\ made[s] \in Nat /\ shown'[s] \in Nat /\ buffer'[s] \in Nat
        BY <1>3, <3>2 DEF ExecTypeOK
      <4>2. shown[s] + call[c].got + buffer[s] + unread[s] = made[s]
            /\ shown'[s] = shown[s] + (call[c].got + b) /\ buffer'[s] = buffer[s] - b
        BY <1>3, <3>2
      <4> HIDE DEF ExecOK
      <4>3. PICK h \in Nat, g \in Nat, n \in Nat, u \in Nat, x \in Nat, y \in Nat :
              h = shown[s] /\ g = call[c].got /\ n = buffer[s] /\ u = unread[s]
              /\ x = shown'[s] /\ y = buffer'[s]
        BY <4>1
      <4>4. h + g + n + u = made[s] /\ x = h + (g + b) /\ y = n - b
        BY <4>2, <4>3
      <4>5. x + y + u = made[s]
        BY <4>1, <4>4
      <4> QED
        BY <4>3, <4>5
    <3> QED
      BY <2>1, <3>1, <3>3
  <2>2. CASE r # s
    <3>1. \A d \in Caller : call'[d].sid = r <=> call[d].sid = r
      <4>1. call'[c].sid # r /\ call[c].sid # r
        BY <1>1, <1>2, <2>2, ExecAssumption
      <4> QED
        BY <1>2, <4>1
    <3>2. \A d \in Caller : call'[d].sid = r => d # c
      BY <2>2, <3>1
    <3> QED
      BY <1>2, <1>3, <1>4, <2>2, <3>1, <3>2 DEF CountedOK
  <2> QED
    BY <2>1, <2>2
<1>14. PopOK'
  <2> SUFFICES ASSUME NEW d \in Caller, call'[d].at = "pop", Intact(call[d].sid)'
               PROVE  reader'[call'[d].sid] = "done" /\ buffer'[call'[d].sid] = 0
    BY DEF PopOK
  <2>1. call'[d] = call[d] /\ d # c
    BY <1>1, <1>2
  <2>2. Fits(d) /\ call[d].sid \in Sid
    BY <2>1 DEF Fits, Using, ExecTypeOK, Calls
  <2>3. Intact(call[d].sid)
    BY <2>1 DEF Intact
  <2>4. call[d].sid # s
    BY <1>12, <2>1, <2>3
  <2> QED
    BY <1>3, <2>1, <2>2, <2>3, <2>4 DEF PopOK
<1>15. CutOK'
  <2> SUFFICES ASSUME NEW r \in Sid, reader[r] = "cut", r \notin disturbed
               PROVE  /\ \A d \in Caller : call'[d].sid = r => call'[d].at = "pop"
                      /\ r \in table' => \E d \in Caller : call'[d].sid = r
    BY DEF CutOK
  <2>1. /\ \A d \in Caller : call[d].sid = r => call[d].at = "pop"
        /\ r \in table => \E d \in Caller : call[d].sid = r
    BY DEF CutOK
  <2>2. \A d \in Caller : call'[d].sid = r => call'[d].at = "pop"
    BY <1>1, <1>2, <2>1, ExecAssumption
  <2>3. ASSUME r \in table' PROVE \E d \in Caller : call'[d].sid = r
    <3>1. r # s /\ r \in table
      BY <2>1, <2>3
    <3>2. PICK d \in Caller : call[d].sid = r
      BY <2>1, <3>1
    <3> QED
      BY <1>2, <3>1, <3>2
  <2> QED
    BY <2>2, <2>3
<1>16. LedgerOK'
  <2> SUFFICES ASSUME NEW r \in Sid
               PROVE  Ledger(made[r], shown'[r], buffer'[r], unread[r], Got(r)')
    BY DEF LedgerOK
  <2>1. Ledger(made[r], shown[r], buffer[r], unread[r], Got(r))
        /\ made[r] \in Nat /\ shown[r] \in Nat /\ buffer[r] \in Nat
    BY DEF LedgerOK, ExecTypeOK
  <2>2. Got(r) \in [Caller -> Nat] /\ Got(r)[c] = IF s = r THEN call[c].got ELSE 0
    BY Gets DEF ExecTypeOK
  <2>3. Got(r)'[c] = 0 /\ \A d \in Caller \ {c} : Got(r)'[d] = Got(r)[d]
    <3>1. Others(c) /\ call \in [Caller -> Calls]
      BY DEF Leaves, ExecTypeOK
    <3> QED
      BY <1>1, <1>2, <3>1, GotAfter, Zenon
  <2> DEFINE held == [d \in Caller |-> IF d = c THEN Got(r)[c] + b ELSE Got(r)[d]]
  <2>4. /\ held \in [Caller -> Nat] /\ held[c] = Got(r)[c] + b
        /\ \A d \in Caller \ {c} : held[d] = Got(r)[d] /\ Got(r)'[d] = held[d]
    BY <1>3, <2>2, <2>3
  <2>5. CASE r # s
    <3>1. Ledger(made[r], shown[r], buffer[r], unread[r], Got(r)')
      BY <2>1, <2>2, <2>3, Lost
    <3> QED
      BY <1>3, <2>5, <3>1
  <2>6. CASE r = s /\ b = 0
    <3>1. Ledger(made[r], shown[r] + Got(r)[c], buffer[r], unread[r], Got(r)')
      BY <2>1, <2>2, <2>3, Returned
    <3>2. shown'[r] = shown[r] + Got(r)[c] /\ buffer'[r] = buffer[r]
      BY <1>3, <2>2, <2>6
    <3> QED
      BY <3>1, <3>2
  <2>7. CASE r = s /\ b = buffer[s]
    <3> HIDE DEF held
    <3>1. Ledger(made[r], shown[r], 0, unread[r], held)
      <4>1. Gains(held, Got(r), c, buffer[r])
        BY <2>4, <2>7 DEF Gains
      <4>2. Got(r) \in [Caller -> Nat]
        BY <2>2
      <4> HIDE DEF ExecOK
      <4> QED
        BY <2>1, <4>1, <4>2, Taken
    <3>2. Ledger(made[r], shown[r] + held[c], 0, unread[r], Got(r)')
      BY <2>1, <2>3, <2>4, <3>1, Returned
    <3>3. shown'[r] = shown[r] + held[c] /\ buffer'[r] = 0
      BY <1>3, <2>2, <2>4, <2>7
    <3> QED
      BY <3>2, <3>3
  <2> QED
    BY <2>5, <2>6, <2>7
<1> QED
  BY <1>5, <1>7, <1>8, <1>9, <1>10, <1>11, <1>13, <1>14, <1>15, <1>16

\* The call takes what is in the buffer and goes on with it, having cut off the readers
\* unless they were done or a process that has exited is not waited for.
LEMMA Gathers ==
  ASSUME ExecOK, NEW c \in Caller, NEW at \in {"pop", "popEarly", "again"}, Others(c),
         NEW s \in Sid, s = call[c].sid,
         call'[c].at = at, call'[c].sid = s, call'[c].got = call[c].got + buffer[s],
         call[c].at # "pop", at # "again" => Exited(s),
         buffer' = [buffer EXCEPT ![s] = 0],
         UNCHANGED <<table, proc, made, unread, shown, disturbed>>,
         reader' \in [Sid -> {"none", "reading", "done", "cut"}],
         \A r \in Sid \ {s} : reader'[r] = reader[r],
         reader'[s] = reader[s] \/ (reader[s] = "reading" /\ reader'[s] = "cut" /\ at = "pop"),
         at = "pop" => reader[s] # "cut" /\ reader'[s] # "reading",
         lock' \in Seq(Caller), LockOK'
  PROVE  ExecOK'
<1> USE DEF ExecOK
<1>1. s # NoSid /\ proc[s] # "none" /\ reader[s] # "none" /\ reader'[s] # "none"
  BY ExecAssumption DEF Fits
<1>2. /\ call' \in [Caller -> Calls]
      /\ \A d \in Caller \ {c} : call'[d] = call[d]
      /\ \A d \in Caller : call'[d].sid = call[d].sid
  BY DEF Others
<1>3. /\ buffer[s] \in Nat /\ buffer'[s] = 0
      /\ \A r \in Sid \ {s} : buffer'[r] = buffer[r]
  BY DEF ExecTypeOK
<1>4. ExecTypeOK'
  <2>1. buffer' \in [Sid -> Nat]
    BY <1>3 DEF ExecTypeOK
  <2> QED
    BY <1>2, <2>1 DEF ExecTypeOK
<1>5. \A r \in Sid : /\ Exited(r)' <=> Exited(r)
                     /\ Intact(r)' => Intact(r)
                     /\ reader'[r] = "none" <=> reader[r] = "none"
                     /\ reader'[r] = "done" <=> reader[r] = "done"
  BY DEF Exited, Intact
<1>6. TableOK'
  <2>1. \A d \in Caller : call'[d].at = "spawn" => call[d].at = "spawn"
    BY <1>2
  <2>2. \A r \in table : r \in Sid /\ reader'[r] # "none"
    BY <1>5 DEF TableOK, ExecTypeOK
  <2> QED
    BY <2>1, <2>2 DEF TableOK
<1>7. \A d \in Caller : Fits(d)'
  <2>1. Fits(c)'
    BY <1>1, <1>5 DEF Fits, Using
  <2>2. ASSUME NEW d \in Caller, d # c PROVE Fits(d)'
    <3>1. call'[d] = call[d] /\ Fits(d)
      BY <1>2, <2>2
    <3>2. call[d].sid # NoSid => call[d].sid \in Sid
      BY DEF ExecTypeOK, Calls
    <3> QED
      BY <1>5, <3>1, <3>2 DEF Fits, Using
  <2> QED
    BY <2>1, <2>2
<1>8. UnusedOK'
  BY <1>1, <1>3 DEF UnusedOK
<1>9. ReaderOK'
  BY <1>5 DEF ReaderOK
<1>10. AloneOK'
  BY <1>2 DEF AloneOK
<1>11. \A d \in Caller : d # c /\ call[d].sid = s => s \in disturbed
  BY <1>1 DEF AloneOK
<1>12. CountedOK'
  <2> SUFFICES ASSUME NEW r \in Sid, Intact(r), r \notin disturbed
               PROVE  /\ \A d \in Caller : call'[d].sid = r =>
                           shown[r] + call'[d].got + buffer'[r] + unread[r] = made[r]
                      /\ r \in table /\ (\A d \in Caller : call'[d].sid # r) =>
                           shown[r] + buffer'[r] + unread[r] = made[r]
    BY <1>5 DEF CountedOK, Intact
  <2>1. CASE r = s
    <3>1. \A d \in Caller : call'[d].sid = s => d = c
      BY <1>2, <1>11, <2>1
    <3>2. shown[s] + call[c].got + buffer[s] + unread[s] = made[s]
      BY <2>1 DEF CountedOK
    <3>3. shown[s] \in Nat /\ call[c].got \in Nat /\ unread[s] \in Nat /\ made[s] \in Nat
      BY DEF ExecTypeOK, Calls
    <3>4. shown[s] + call'[c].got + buffer'[s] + unread[s] = made[s]
      <4> HIDE DEF ExecOK
      <4>1. PICK h \in Nat, g \in Nat, n \in Nat, u \in Nat, x \in Nat :
              h = shown[s] /\ g = call[c].got /\ n = buffer[s] /\ u = unread[s]
              /\ x = call'[c].got
        <5>1. call'[c].got \in Nat
          BY <1>3, <3>3
        <5> QED
          BY <1>3, <3>3, <5>1
      <4>2. h + g + n + u = made[s]
        BY <3>2, <4>1
      <4>3. x = g + n
        BY <4>1
      <4>4. h + x + 0 + u = h + g + n + u
        BY <4>3
      <4> QED
        BY <1>3, <4>1, <4>2, <4>4
    <3> QED
      BY <2>1, <3>1, <3>4
  <2>2. CASE r # s
    <3>1. \A d \in Caller : call'[d].sid = r => d # c
      BY <2>2
    <3> QED
      BY <1>2, <1>3, <2>2, <3>1 DEF CountedOK
  <2> QED
    BY <2>1, <2>2
<1>13. PopOK'
  <2> SUFFICES ASSUME NEW d \in Caller, call'[d].at = "pop", Intact(call[d].sid)'
               PROVE  reader'[call'[d].sid] = "done" /\ buffer'[call'[d].sid] = 0
    BY DEF PopOK
  <2>1. CASE d = c
    BY <1>1, <1>3, <2>1 DEF Intact
  <2>2. CASE d # c
    <3>1. call'[d] = call[d]
      BY <1>2, <2>2
    <3>2. Fits(d) /\ call[d].sid \in Sid
      BY <3>1 DEF Fits, Using, ExecTypeOK, Calls
    <3>3. Intact(call[d].sid) /\ call[d].sid # s
      BY <1>5, <1>11, <2>2, <3>1, <3>2 DEF Intact
    <3> QED
      BY <1>3, <1>5, <3>1, <3>2, <3>3 DEF PopOK
  <2> QED
    BY <2>1, <2>2
<1>14. CutOK'
  <2> SUFFICES ASSUME NEW r \in Sid, reader'[r] = "cut", r \notin disturbed
               PROVE  /\ \A d \in Caller : call'[d].sid = r => call'[d].at = "pop"
                      /\ r \in table => \E d \in Caller : call'[d].sid = r
    BY DEF CutOK
  <2>1. CASE r = s
    <3>1. at = "pop"
      BY <2>1 DEF CutOK
    <3>2. \A d \in Caller : call'[d].sid = s => d = c
      BY <1>2, <1>11, <2>1
    <3> QED
      BY <2>1, <3>1, <3>2
  <2>2. CASE r # s
    <3>1. /\ \A d \in Caller : call[d].sid = r => call[d].at = "pop"
          /\ r \in table => \E d \in Caller : call[d].sid = r
      BY <2>2 DEF CutOK
    <3>2. \A d \in Caller : call'[d].sid = r => call'[d].at = "pop"
      BY <1>2, <2>2, <3>1
    <3> QED
      BY <1>2, <3>1, <3>2
  <2> QED
    BY <2>1, <2>2
<1>15. LedgerOK'
  <2> SUFFICES ASSUME NEW r \in Sid
               PROVE  Ledger(made[r], shown[r], buffer'[r], unread[r], Got(r)')
    BY DEF LedgerOK
  <2>1. Ledger(made[r], shown[r], buffer[r], unread[r], Got(r))
        /\ made[r] \in Nat /\ shown[r] \in Nat /\ buffer[r] \in Nat
    BY DEF LedgerOK, ExecTypeOK
  <2>2. Got(r) \in [Caller -> Nat] /\ Got(r)[c] = IF s = r THEN call[c].got ELSE 0
    BY Gets DEF ExecTypeOK
  <2>3. /\ Got(r)'[c] = IF s = r THEN call[c].got + buffer[s] ELSE 0
        /\ \A d \in Caller \ {c} : Got(r)'[d] = Got(r)[d]
    <3>1. Others(c) /\ call \in [Caller -> Calls]
      BY DEF ExecTypeOK
    <3>2. Got(r)'[c] = IF call'[c].sid = r THEN call'[c].got ELSE 0
      BY <3>1, GotAfter, Zenon
    <3>3. \A d \in Caller \ {c} : Got(r)'[d] = Got(r)[d]
      BY <3>1, GotAfter, Zenon
    <3> QED
      BY <3>2, <3>3
  <2>4. CASE r = s
    <3>1. Gains(Got(r)', Got(r), c, buffer[r])
      BY <2>2, <2>3, <2>4 DEF Gains
    <3>2. Got(r) \in [Caller -> Nat]
      BY <2>2
    <3> HIDE DEF ExecOK
    <3>3. Ledger(made[r], shown[r], 0, unread[r], Got(r)')
      BY <2>1, <3>1, <3>2, Taken
    <3> QED
      BY <1>3, <2>4, <3>3
  <2>5. CASE r # s
    <3>1. Got(r)'[c] = 0
      BY <2>3, <2>5
    <3>2. Ledger(made[r], shown[r], buffer[r], unread[r], Got(r)')
      BY <2>1, <2>2, <2>3, <3>1, Lost
    <3> QED
      BY <1>3, <2>5, <3>2
  <2> QED
    BY <2>4, <2>5
<1> QED
  BY <1>4, <1>6, <1>7, <1>8, <1>9, <1>10, <1>12, <1>13, <1>14, <1>15

-----------------------------------------------------------------------------
(* The steps of the processes.                                             *)

LEMMA Unmoved ==
  ASSUME LockOK, UNCHANGED <<lock, call>>
  PROVE  LockOK' /\ \A r \in Sid : Got(r)' = Got(r)
BY DEF LockOK, Stands, Leads, Distinct, Got

LEMMA Produced ==
  ASSUME ExecOK, NEW s \in Sid, Produce(s)
  PROVE  ExecOK'
<1> USE DEF ExecOK
<1>1. /\ UNCHANGED <<table, proc, buffer, reader, lock, call, shown, disturbed>>
      /\ proc[s] = "running"
      /\ made[s] \in Nat /\ unread[s] \in Nat /\ made'[s] = made[s] + 1 /\ unread'[s] = unread[s] + 1
      /\ \A r \in Sid \ {s} : made'[r] = made[r] /\ unread'[r] = unread[r]
  BY DEF Produce, results, ExecTypeOK
<1>2. ExecTypeOK'
  <2>1. made' \in [Sid -> Nat] /\ unread' \in [Sid -> Nat]
    BY DEF Produce, ExecTypeOK
  <2> QED
    BY <1>1, <2>1 DEF ExecTypeOK
<1>3. LockOK' /\ \A r \in Sid : Got(r)' = Got(r)
  BY <1>1, Unmoved
<1>4. TableOK' /\ AloneOK' /\ PopOK' /\ CutOK' /\ (\A r \in Sid : Intact(r)' <=> Intact(r))
  BY <1>1 DEF TableOK, AloneOK, PopOK, CutOK, Intact
<1>5. \A d \in Caller : Fits(d)'
  BY <1>1 DEF Fits, Exited
<1>6. UnusedOK'
  BY <1>1 DEF UnusedOK
<1>7. ReaderOK'
  BY <1>1 DEF ReaderOK, Exited
<1>8. CountedOK'
  <2> SUFFICES ASSUME NEW r \in Sid, Intact(r)
               PROVE  /\ \A d \in Caller : call[d].sid = r =>
                           shown[r] + call[d].got + buffer[r] + unread'[r] = made'[r]
                      /\ r \in table /\ (\A d \in Caller : call[d].sid # r) =>
                           shown[r] + buffer[r] + unread'[r] = made'[r]
    BY <1>1, <1>4 DEF CountedOK
  <2>1. CASE r # s
    BY <1>1, <2>1 DEF CountedOK
  <2>2. CASE r = s
    <3>1. ASSUME NEW d \in Caller, call[d].sid = s
          PROVE  shown[s] + call[d].got + buffer[s] + unread'[s] = made'[s]
      <4>1. shown[s] + call[d].got + buffer[s] + unread[s] = made[s]
        BY <2>2, <3>1 DEF CountedOK
      <4>2. shown[s] \in Nat /\ call[d].got \in Nat /\ buffer[s] \in Nat
        BY DEF ExecTypeOK, Calls
      <4> HIDE DEF ExecOK
      <4> QED
        BY <1>1, <4>1, <4>2
    <3>2. ASSUME s \in table, \A d \in Caller : call[d].sid # s
          PROVE  shown[s] + buffer[s] + unread'[s] = made'[s]
      <4>1. shown[s] + buffer[s] + unread[s] = made[s]
        BY <2>2, <3>2 DEF CountedOK
      <4>2. shown[s] \in Nat /\ buffer[s] \in Nat
        BY DEF ExecTypeOK
      <4> HIDE DEF ExecOK
      <4> QED
        BY <1>1, <4>1, <4>2
    <3> QED
      BY <2>2, <3>1, <3>2
  <2> QED
    BY <2>1, <2>2
<1>9. LedgerOK'
  <2> SUFFICES ASSUME NEW r \in Sid
               PROVE  Ledger(made'[r], shown[r], buffer[r], unread'[r], Got(r))
    BY <1>1, <1>3 DEF LedgerOK
  <2>1. Ledger(made[r], shown[r], buffer[r], unread[r], Got(r))
        /\ made[r] \in Nat /\ unread[r] \in Nat
    BY DEF LedgerOK, ExecTypeOK
  <2>2. Ledger(made[r] + 1, shown[r], buffer[r], unread[r] + 1, Got(r))
    <3> HIDE DEF ExecOK
    <3> QED
      BY <2>1, Made
  <2> QED
    BY <1>1, <2>1, <2>2
<1> QED
  BY <1>2, <1>3, <1>4, <1>5, <1>6, <1>7, <1>8, <1>9

LEMMA Exits ==
  ASSUME ExecOK, NEW s \in Sid, Exit(s)
  PROVE  ExecOK'
<1> USE DEF ExecOK
<1>1. /\ UNCHANGED <<table, made, buffer, unread, reader, lock, call, shown, disturbed>>
      /\ proc[s] \in {"running", "dying"}
      /\ proc' \in [Sid -> {"none", "running", "dying", "exited"}]
      /\ \A r \in Sid : proc'[r] = IF r = s THEN "exited" ELSE proc[r]
  BY DEF Exit, results, ExecTypeOK
<1>2. LockOK' /\ \A r \in Sid : Got(r)' = Got(r)
  BY <1>1, Unmoved
<1>3. ExecTypeOK' /\ AloneOK' /\ PopOK' /\ CutOK' /\ CountedOK'
  BY <1>1 DEF ExecTypeOK, AloneOK, PopOK, CutOK, CountedOK, Intact
<1>4. \A r \in Sid : (proc'[r] = "none" <=> proc[r] = "none") /\ (Exited(r) => Exited(r)')
  BY <1>1 DEF Exited
<1>5. TableOK'
  BY <1>1, <1>4 DEF TableOK, ExecTypeOK
<1>6. ASSUME NEW d \in Caller PROVE Fits(d)'
  <2>1. Fits(d) /\ (call[d].sid # NoSid => call[d].sid \in Sid) /\ call'[d] = call[d]
    BY <1>1 DEF ExecTypeOK, Calls
  <2> QED
    BY <1>1, <1>4, <2>1 DEF Fits, Using
<1>7. UnusedOK'
  BY <1>1, <1>4 DEF UnusedOK
<1>8. ReaderOK'
  BY <1>1, <1>4 DEF ReaderOK
<1>9. LedgerOK'
  BY <1>1, <1>2 DEF LedgerOK
<1> QED
  BY <1>2, <1>3, <1>5, <1>6, <1>7, <1>8, <1>9

LEMMA Reads ==
  ASSUME ExecOK, NEW s \in Sid, ReadStream(s)
  PROVE  ExecOK'
<1> USE DEF ExecOK
<1>1. /\ UNCHANGED <<table, proc, made, lock, call, shown, disturbed>>
      /\ reader[s] = "reading"
  BY DEF ReadStream, results
<1>2. LockOK' /\ \A r \in Sid : Got(r)' = Got(r)
  BY <1>1, Unmoved
<1>3. CASE unread[s] = 0 /\ Exited(s) /\ reader' = [reader EXCEPT ![s] = "done"]
           /\ UNCHANGED <<buffer, unread>>
  <2>1. /\ reader' \in [Sid -> {"none", "reading", "done", "cut"}]
        /\ \A r \in Sid : reader'[r] = IF r = s THEN "done" ELSE reader[r]
    BY <1>3 DEF ExecTypeOK
  <2>2. \A r \in Sid : /\ reader'[r] = "none" <=> reader[r] = "none"
                       /\ reader'[r] = "cut" <=> reader[r] = "cut"
                       /\ Intact(r)' <=> Intact(r)
    BY <1>1, <2>1 DEF Intact
  <2>3. ExecTypeOK' /\ AloneOK' /\ UnusedOK'
    BY <1>1, <1>3, <2>1 DEF ExecTypeOK, AloneOK, UnusedOK
  <2>4. TableOK'
    BY <1>1, <2>2 DEF TableOK, ExecTypeOK
  <2>5. CountedOK'
    BY <1>1, <1>3, <2>2 DEF CountedOK
  <2>6. CutOK'
    BY <1>1, <2>2 DEF CutOK
  <2>7. ASSUME NEW d \in Caller PROVE Fits(d)'
    <3>1. Fits(d) /\ (call[d].sid # NoSid => call[d].sid \in Sid) /\ call'[d] = call[d]
      BY <1>1 DEF ExecTypeOK, Calls
    <3> QED
      BY <1>1, <2>2, <3>1 DEF Fits, Using, Exited
  <2>8. ReaderOK'
    BY <1>1, <1>3, <2>1 DEF ReaderOK, Exited
  <2>9. PopOK'
    <3> SUFFICES ASSUME NEW d \in Caller, call[d].at = "pop", Intact(call[d].sid)'
                 PROVE  reader'[call[d].sid] = "done" /\ buffer[call[d].sid] = 0
      BY <1>1, <1>3 DEF PopOK
    <3>1. call[d].sid \in Sid
      BY DEF Fits, Using, ExecTypeOK, Calls
    <3>2. Intact(call[d].sid)
      BY <1>1, <2>2, <3>1 DEF Intact
    <3> QED
      BY <2>1, <3>1, <3>2 DEF PopOK
  <2>10. LedgerOK'
    BY <1>1, <1>2, <1>3 DEF LedgerOK
  <2> QED
    BY <1>2, <2>3, <2>4, <2>5, <2>6, <2>7, <2>8, <2>9, <2>10
<1>4. CASE unread[s] > 0 /\ buffer' = [buffer EXCEPT ![s] = @ + unread[s]]
           /\ unread' = [unread EXCEPT ![s] = 0] /\ UNCHANGED reader
  <2>1. /\ buffer' \in [Sid -> Nat] /\ unread' \in [Sid -> Nat]
        /\ buffer[s] \in Nat /\ unread[s] \in Nat
        /\ buffer'[s] = buffer[s] + unread[s] /\ unread'[s] = 0
        /\ \A r \in Sid \ {s} : buffer'[r] = buffer[r] /\ unread'[r] = unread[r]
    BY <1>4 DEF ExecTypeOK
  <2>2. ExecTypeOK' /\ AloneOK' /\ TableOK' /\ CutOK' /\ \A r \in Sid : Intact(r)' <=> Intact(r)
    BY <1>1, <1>4, <2>1 DEF ExecTypeOK, AloneOK, TableOK, CutOK, Intact
  <2>3. \A d \in Caller : Fits(d)'
    BY <1>1, <1>4 DEF Fits, Exited
  <2>4. UnusedOK' /\ ReaderOK'
    BY <1>1, <1>4, <2>1 DEF UnusedOK, ReaderOK, Exited
  <2>5. PopOK'
    <3> SUFFICES ASSUME NEW d \in Caller, call[d].at = "pop", Intact(call[d].sid)'
                 PROVE  reader[call[d].sid] = "done" /\ buffer'[call[d].sid] = 0
      BY <1>1, <1>4 DEF PopOK
    <3>1. call[d].sid \in Sid
      BY DEF Fits, Using, ExecTypeOK, Calls
    <3>2. Intact(call[d].sid)
      BY <1>1, <1>4 DEF Intact
    <3>3. call[d].sid # s
      BY <1>1, <3>2 DEF PopOK
    <3> QED
      BY <2>1, <3>1, <3>2, <3>3 DEF PopOK
  <2>6. CountedOK'
    <3> SUFFICES ASSUME NEW r \in Sid, Intact(r)
                 PROVE  /\ \A d \in Caller : call[d].sid = r =>
                             shown[r] + call[d].got + buffer'[r] + unread'[r] = made[r]
                        /\ r \in table /\ (\A d \in Caller : call[d].sid # r) =>
                             shown[r] + buffer'[r] + unread'[r] = made[r]
      BY <1>1, <2>2 DEF CountedOK
    <3>1. CASE r # s
      BY <2>1, <3>1 DEF CountedOK
    <3>2. CASE r = s
      <4>1. ASSUME NEW d \in Caller, call[d].sid = s
            PROVE  shown[s] + call[d].got + buffer'[s] + unread'[s] = made[s]
        <5>1. shown[s] + call[d].got + buffer[s] + unread[s] = made[s]
          BY <3>2, <4>1 DEF CountedOK
        <5>2. shown[s] \in Nat /\ call[d].got \in Nat
          BY DEF ExecTypeOK, Calls
        <5> HIDE DEF ExecOK
        <5> QED
          BY <2>1, <5>1, <5>2
      <4>2. ASSUME s \in table, \A d \in Caller : call[d].sid # s
            PROVE  shown[s] + buffer'[s] + unread'[s] = made[s]
        <5>1. shown[s] + buffer[s] + unread[s] = made[s]
          BY <3>2, <4>2 DEF CountedOK
        <5>2. shown[s] \in Nat
          BY DEF ExecTypeOK
        <5> HIDE DEF ExecOK
        <5> QED
          BY <2>1, <5>1, <5>2
      <4> QED
        BY <3>2, <4>1, <4>2
    <3> QED
      BY <3>1, <3>2
  <2>7. LedgerOK'
    <3> SUFFICES ASSUME NEW r \in Sid
                 PROVE  Ledger(made[r], shown[r], buffer'[r], unread'[r], Got(r))
      BY <1>1, <1>2 DEF LedgerOK
    <3>1. Ledger(made[r], shown[r], buffer[r], unread[r], Got(r))
          /\ made[r] \in Nat /\ buffer[r] \in Nat /\ unread[r] \in Nat
      BY DEF LedgerOK, ExecTypeOK
    <3>2. Ledger(made[r], shown[r], buffer[r] + unread[r], 0, Got(r))
      <4> HIDE DEF ExecOK
      <4> QED
        BY <3>1, Buffered
    <3> QED
      BY <2>1, <3>1, <3>2
  <2> QED
    BY <1>2, <2>2, <2>3, <2>4, <2>5, <2>6, <2>7
<1> QED
  BY <1>3, <1>4 DEF ReadStream

-----------------------------------------------------------------------------
(* The steps of a call up to its poll.                                     *)

LEMMA Calming ==
  ASSUME ExecTypeOK, NEW s, proc' = proc \/ proc' = Signalled(s)
  PROVE  Calm /\ (s \in Sid /\ proc' = Signalled(s) => proc'[s] # "running")
BY DEF Calm, Signalled, ExecTypeOK

LEMMA Begins ==
  ASSUME ExecOK, NEW c \in Caller, Begin(c)
  PROVE  ExecOK'
<1>1. call[c] = NoCall /\ MoveTo(c, "lock") /\ Queue(c) /\ UNCHANGED <<sessions, results>>
  BY DEF Begin
<1>2. ExecTypeOK /\ LockOK /\ Fits(c) /\ call \in [Caller -> Calls] /\ lock \in Seq(Caller)
  BY DEF ExecOK, ExecTypeOK
<1>3. Keeps(c, "lock")
  BY <1>1, <1>2, Moving DEF Locking
<1>4. call[c].at = "idle" /\ call[c].sid = NoSid /\ call[c].got = 0
  BY <1>1 DEF NoCall
<1>5. lock' \in Seq(Caller) /\ LockOK'
  <2>1. Others(c) /\ call[c].at \notin Locking /\ call'[c].at \in Locking \ {"clean", "spawn"}
    BY <1>3, <1>4 DEF Keeps, Locking
  <2> QED
    BY <1>1, <1>2, <2>1, Queueing
<1>6. Fits(c)'
  BY <1>3, <1>4 DEF Fits, Using, Keeps
<1>7. Calm /\ UNCHANGED <<table, proc, made, buffer, unread, reader, results>>
  BY <1>1, <1>2 DEF sessions, Calm, ExecTypeOK
<1> QED
  BY <1>3, <1>4, <1>5, <1>6, <1>7, Stays

LEMMA Acquires ==
  ASSUME ExecOK, NEW c \in Caller, Acquire(c)
  PROVE  ExecOK'
<1>1. call[c].at \in {"lock", "again"} /\ Head(lock) = c /\ UNCHANGED <<sessions, lock, results>>
  BY DEF Acquire
<1>2. PICK stale \in SUBSET (table \ Polled) :
        call' = [call EXCEPT ![c].at = "clean", ![c].stale = stale]
  BY DEF Acquire
<1>3. ExecTypeOK /\ LockOK /\ Fits(c) /\ call \in [Caller -> Calls] /\ lock \in Seq(Caller)
      /\ table \subseteq Sid
  BY DEF ExecOK, ExecTypeOK
<1>4. Keeps(c, "clean")
  <2> DEFINE k == [call[c] EXCEPT !.at = "clean", !.stale = stale]
  <2>1. k \in Calls /\ k.at = "clean" /\ k.sid = call[c].sid /\ k.got = call[c].got
    <3>1. call[c] \in Calls /\ stale \in SUBSET Sid
      BY <1>3
    <3> QED
      BY <3>1 DEF Calls, Locking
  <2>2. call' = [call EXCEPT ![c] = k]
    BY <1>2
  <2> HIDE DEF k
  <2> QED
    BY <1>3, <2>1, <2>2 DEF Keeps, Others
<1>5. Leads(c, lock)
  <2>1. Stands(c, lock)
    BY <1>1, <1>3 DEF LockOK, Locking
  <2>2. lock # <<>>
    BY <2>1 DEF Stands
  <2> QED
    BY <1>1, <2>2 DEF Leads
<1>6. lock' \in Seq(Caller) /\ LockOK'
  <2>1. Others(c) /\ lock' = lock /\ call'[c].at \in Locking /\ call[c].at \in Locking
    BY <1>1, <1>4 DEF Keeps, Locking
  <2> QED
    BY <1>3, <1>5, <2>1, Holding
<1>7. Fits(c)'
  <2>1. call'[c].at = "clean" /\ call'[c].sid = call[c].sid /\ call'[c].got = call[c].got
        /\ proc' = proc /\ reader' = reader
    BY <1>1, <1>4 DEF Keeps, sessions
  <2> QED
    BY <1>3, <2>1 DEF Fits, Using
<1>8. Calm /\ UNCHANGED <<table, proc, made, buffer, unread, reader, results>>
  BY <1>1, <1>3 DEF sessions, Calm, ExecTypeOK
<1>9. call[c].at # "pop"
  BY <1>1
<1> QED
  BY <1>4, <1>6, <1>7, <1>8, <1>9, Stays

LEMMA Cleans ==
  ASSUME ExecOK, NEW c \in Caller, Clean(c)
  PROVE  ExecOK'
<1>1. call[c].at = "clean" /\ UNCHANGED <<made, buffer, unread, reader, lock, results>>
  BY DEF Clean
<1>2. PICK s \in call[c].stale :
        /\ table' = table \ {s} /\ proc' = Signalled(s)
        /\ call' = [call EXCEPT ![c].stale = @ \ {s}]
  BY DEF Clean
<1>3. ExecTypeOK /\ LockOK /\ Fits(c) /\ call \in [Caller -> Calls] /\ lock \in Seq(Caller)
  BY DEF ExecOK, ExecTypeOK
<1>4. Keeps(c, "clean")
  <2> DEFINE k == [call[c] EXCEPT !.stale = @ \ {s}]
  <2>1. k \in Calls /\ k.at = "clean" /\ k.sid = call[c].sid /\ k.got = call[c].got
    <3>1. call[c] \in Calls
      BY <1>3
    <3> QED
      BY <1>1, <3>1 DEF Calls
  <2>2. call' = [call EXCEPT ![c] = k]
    BY <1>2
  <2> HIDE DEF k
  <2> QED
    BY <1>3, <2>1, <2>2 DEF Keeps, Others
<1>5. s \in Sid /\ Calm /\ proc'[s] # "running"
  <2>1. s \in Sid
    BY <1>3 DEF Calls
  <2> QED
    BY <1>2, <1>3, <2>1, Calming
<1>6. lock' \in Seq(Caller) /\ LockOK'
  <2>1. Others(c) /\ lock' = lock /\ call'[c].at \in Locking /\ call[c].at \in Locking
    BY <1>1, <1>4 DEF Keeps, Locking
  <2>2. Leads(c, lock)
    BY <1>1, <1>3 DEF LockOK
  <2> QED
    BY <1>3, <2>1, <2>2, Holding
<1>7. Fits(c)'
  <2>1. call'[c].at = "clean" /\ call'[c].sid = call[c].sid /\ call'[c].got = call[c].got
        /\ reader' = reader
    BY <1>1, <1>4 DEF Keeps
  <2>2. call[c].sid # NoSid => call[c].sid \in Sid
    BY <1>3 DEF Calls
  <2> QED
    BY <1>3, <1>5, <2>1, <2>2 DEF Fits, Using, Calm
<1>8. call[c].at # "pop" /\ table' \subseteq table /\ (\A r \in table \ table' : proc'[r] # "running")
  BY <1>1, <1>2, <1>5
<1> QED
  BY <1>1, <1>4, <1>5, <1>6, <1>7, <1>8, Stays

\* A call that ends before it has anything, or whose session was removed.
LEMMA Refused ==
  ASSUME ExecOK, NEW c \in Caller, call[c].at \notin {"pop"}, Return(c),
         Release(c) \/ (lock' = lock /\ call[c].at \notin Locking),
         call[c].got = 0 \/ call[c].sid \notin table
         \/ call[c].sid \in disturbed \/ reader[call[c].sid] = "cut",
         UNCHANGED <<sessions, results>>
  PROVE  ExecOK'
<1>1. ExecTypeOK /\ LockOK /\ call \in [Caller -> Calls] /\ lock \in Seq(Caller)
      /\ reader \in [Sid -> {"none", "reading", "done", "cut"}]
  BY DEF ExecOK, ExecTypeOK
<1>2. Leaves(c)
  BY <1>1, Returning
<1>3. Others(c) /\ call'[c].at \notin Locking
  BY <1>2 DEF Leaves, NoCall, Locking
<1>4. lock' \in Seq(Caller) /\ LockOK'
  <2>1. CASE Release(c)
    BY <1>1, <1>3, <2>1, Releasing
  <2>2. CASE lock' = lock /\ call[c].at \notin Locking
    <3>1. call'[c].at \notin {"clean", "spawn"}
      BY <1>2 DEF Leaves, NoCall
    <3> QED
      BY <1>1, <1>3, <2>2, <3>1, Holding
  <2> QED
    BY <2>1, <2>2
<1>5. UNCHANGED <<table, proc, made, buffer, unread, reader, shown, disturbed>>
  BY DEF sessions, results
<1> QED
  BY <1>1, <1>2, <1>4, <1>5, Quits

LEMMA Starts ==
  ASSUME ExecOK, NEW c \in Caller, Start(c)
  PROVE  ExecOK'
<1>1. call[c].at = "clean" /\ call[c].sid = NoSid /\ UNCHANGED <<sessions, results>>
  BY DEF Start, Cleaned
<1>2. ExecTypeOK /\ LockOK /\ Fits(c) /\ call \in [Caller -> Calls] /\ lock \in Seq(Caller)
      /\ Cardinality(table) \in Nat
  BY FS_CardinalityType DEF ExecOK, ExecTypeOK
<1>3. CASE Return(c) /\ Release(c)
  BY <1>1, <1>2, <1>3, Refused DEF Fits
<1>4. CASE Cardinality(table) < MaxSessions /\ MoveTo(c, "spawn") /\ lock' = lock
  <2>1. Keeps(c, "spawn")
    BY <1>2, <1>4, Moving DEF Locking
  <2>2. lock' \in Seq(Caller) /\ LockOK'
    <3>1. Others(c) /\ call'[c].at \in Locking /\ call[c].at \in Locking
      BY <1>1, <2>1 DEF Keeps, Locking
    <3>2. Leads(c, lock)
      BY <1>1, <1>2 DEF LockOK
    <3> QED
      BY <1>2, <1>4, <3>1, <3>2, Holding
  <2>3. Fits(c)'
    <3>1. call'[c].at = "spawn" /\ call'[c].sid = NoSid /\ call'[c].got = call[c].got
      BY <1>1, <2>1 DEF Keeps
    <3> QED
      BY <1>1, <1>2, <3>1 DEF Fits, Using
  <2>4. Calm /\ UNCHANGED <<table, proc, made, buffer, unread, reader, results>>
    BY <1>1, <1>2 DEF sessions, Calm, ExecTypeOK
  <2>5. call[c].at # "pop"
    BY <1>1
  <2> QED
    BY <1>4, <2>1, <2>2, <2>3, <2>4, <2>5, Stays
<1> QED
  BY <1>2, <1>3, <1>4, ExecAssumption DEF Start

LEMMA Lists ==
  ASSUME ExecOK, NEW c \in Caller, List(c) \/ Missing(c)
  PROVE  ExecOK'
<1>1. /\ call[c].at = "clean" /\ Return(c) /\ Release(c) /\ UNCHANGED <<sessions, results>>
      /\ call[c].sid = NoSid \/ call[c].sid \notin table
  BY DEF List, Missing, Cleaned, results
<1>2. Fits(c)
  BY DEF ExecOK
<1> QED
  BY <1>1, <1>2, Refused DEF Fits

LEMMA Refuses ==
  ASSUME ExecOK, NEW c \in Caller, InputRefused(c)
  PROVE  ExecOK'
<1>1. call[c].at = "input" /\ Return(c) /\ UNCHANGED <<sessions, lock, results>>
  BY DEF InputRefused
<1>2. Fits(c)
  BY DEF ExecOK
<1>3. call[c].at \notin Locking /\ call[c].got = 0
  BY <1>1, <1>2 DEF Fits, Locking
<1> QED
  BY <1>1, <1>3, Refused

LEMMA Strikes ==
  ASSUME ExecOK, NEW c \in Caller, Struck(c)
  PROVE  ExecOK'
<1>1. call[c].at = "drain" /\ reader[call[c].sid] = "cut" /\ Return(c)
      /\ UNCHANGED <<sessions, lock, results>>
  BY DEF Struck, results
<1>2. call[c].at \notin Locking
  BY <1>1 DEF Locking
<1> QED
  BY <1>1, <1>2, Refused

\* A call on its way to the end of its poll, without the lock.
LEMMA Walks ==
  ASSUME ExecOK, NEW c \in Caller, NEW at \in {"kill", "wait", "latekill", "drain", "grace"},
         call[c].at \in {"input", "kill", "wait", "latekill"}, MoveTo(c, at),
         at = "kill" => call[c].at = "input", at = "drain" => Exited(call[c].sid),
         proc' = proc \/ proc' = Signalled(call[c].sid),
         UNCHANGED <<table, made, buffer, unread, reader, lock, results>>
  PROVE  ExecOK'
<1>1. ExecTypeOK /\ LockOK /\ Fits(c) /\ call \in [Caller -> Calls] /\ lock \in Seq(Caller)
  BY DEF ExecOK, ExecTypeOK
<1>2. Keeps(c, at)
  BY <1>1, Moving DEF Using
<1>3. Calm
  BY <1>1, Calming
<1>4. lock' \in Seq(Caller) /\ LockOK'
  <2>1. Others(c) /\ call'[c].at \notin Locking /\ call[c].at \notin Locking
        /\ call'[c].at \notin {"clean", "spawn"}
    BY <1>2 DEF Keeps, Locking
  <2> QED
    BY <1>1, <2>1, Holding
<1>5. Fits(c)'
  <2>1. call'[c].at = at /\ call'[c].sid = call[c].sid /\ call'[c].got = call[c].got
        /\ call[c].sid \in Sid /\ call[c].sid # NoSid
    BY <1>1, <1>2 DEF Keeps, Fits, Using, Calls
  <2>2. (proc'[call[c].sid] = "none" <=> proc[call[c].sid] = "none")
        /\ (Exited(call[c].sid) => proc'[call[c].sid] = "exited")
    BY <1>3, <2>1 DEF Calm, Exited
  <2>3. Fits(c) /\ reader' = reader
    BY <1>1
  <2> QED
    BY <2>1, <2>2, <2>3 DEF Fits, Using, Exited
<1>6. call[c].at # "pop" /\ at # "pop" /\ at # "spawn"
  OBVIOUS
<1> QED
  BY <1>2, <1>3, <1>4, <1>5, <1>6, Stays

LEMMA Inputs ==
  ASSUME ExecOK, NEW c \in Caller, InputTaken(c) \/ Killed(c)
  PROVE  ExecOK'
<1>1. CASE InputTaken(c)
  <2>1. call[c].at = "input" /\ UNCHANGED <<table, made, buffer, unread, reader, lock, results>>
    BY <1>1 DEF InputTaken
  <2>2. \/ MoveTo(c, "kill") /\ proc' = Signalled(call[c].sid)
        \/ MoveTo(c, "wait") /\ proc' = proc
    BY <1>1 DEF InputTaken
  <2> QED
    BY <2>1, <2>2, Walks
<1>2. CASE Killed(c)
  <2>1. call[c].at = "kill" /\ MoveTo(c, "wait") /\ proc' = proc
        /\ UNCHANGED <<table, made, buffer, unread, reader, lock, results>>
    BY <1>2 DEF Killed, sessions
  <2> QED
    BY <2>1, Walks
<1> QED
  BY <1>1, <1>2

\* A call is given its session.
Uses(c, at, s) ==
  Others(c) /\ call'[c].at = at /\ call'[c].sid = s /\ call'[c].got = call[c].got

LEMMA Put ==
  ASSUME call \in [Caller -> Calls], NEW c \in Caller, NEW k \in Calls,
         call' = [call EXCEPT ![c] = k]
  PROVE  Others(c) /\ call'[c] = k
BY DEF Others

LEMMA Given ==
  ASSUME call \in [Caller -> Calls], NEW c \in Caller, NEW at \in Using,
         NEW op \in {"start", "write"}, NEW s \in Sid,
         call' = [call EXCEPT ![c].at = at, ![c].op = op, ![c].sid = s]
  PROVE  Uses(c, at, s)
<1> DEFINE k == [call[c] EXCEPT !.at = at, !.op = op, !.sid = s]
<1>1. k \in Calls /\ k.at = at /\ k.sid = s /\ k.got = call[c].got
  <2>1. call[c] \in Calls
    OBVIOUS
  <2> QED
    BY <2>1 DEF Calls
<1>2. call' = [call EXCEPT ![c] = k]
  OBVIOUS
<1> HIDE DEF k
<1>3. Others(c) /\ call'[c] = k
  BY <1>1, <1>2, Put, Zenon
<1> QED
  BY <1>1, <1>3, Zenon DEF Uses

\* A session is new: nobody uses it.
LEMMA Creates ==
  ASSUME ExecOK, NEW c \in Caller, NEW s \in Sid, call[c].at = "spawn", proc[s] = "none",
         table' = table \cup {s},
         proc' = [proc EXCEPT ![s] = "running"], reader' = [reader EXCEPT ![s] = "reading"],
         Uses(c, "wait", s), Release(c), UNCHANGED <<made, buffer, unread, results>>
  PROVE  ExecOK'
<1> USE DEF ExecOK
<1>1. UNCHANGED <<made, buffer, unread, shown, disturbed>>
  BY DEF results
<1>2. /\ call[c].sid = NoSid /\ call[c].got = 0 /\ s # NoSid
      /\ s \notin table /\ s \notin disturbed
      /\ made[s] = 0 /\ buffer[s] = 0 /\ unread[s] = 0 /\ shown[s] = 0
      /\ \A d \in Caller : call[d].sid # s
  BY ExecAssumption DEF Fits, TableOK, UnusedOK
<1>3. /\ Others(c)
      /\ call'[c].at = "wait" /\ call'[c].sid = s /\ call'[c].got = 0
  BY <1>2 DEF Uses
<1>4. /\ \A d \in Caller \ {c} : call'[d] = call[d]
      /\ proc' \in [Sid -> {"none", "running", "dying", "exited"}] /\ proc'[s] = "running"
      /\ reader' \in [Sid -> {"none", "reading", "done", "cut"}] /\ reader'[s] = "reading"
      /\ \A r \in Sid \ {s} : proc'[r] = proc[r] /\ reader'[r] = reader[r]
  BY <1>3 DEF Others, ExecTypeOK
<1>5. lock' \in Seq(Caller) /\ LockOK'
  <2>1. call'[c].at \notin Locking
    BY <1>3 DEF Locking
  <2>2. lock \in Seq(Caller)
    BY DEF ExecTypeOK
  <2> QED
    BY <1>3, <2>1, <2>2, Releasing
<1>6. IsFiniteSet(table') /\ Cardinality(table') = Cardinality(table) + 1
      /\ Cardinality(table) \in Nat
  BY <1>2, FS_AddElement, FS_CardinalityType DEF ExecTypeOK
<1>7. ExecTypeOK'
  BY <1>1, <1>3, <1>4, <1>5, <1>6 DEF ExecTypeOK, Others
<1>8. TableOK'
  <2>1. Cardinality(table') <= MaxSessions
    BY <1>6, ExecAssumption DEF TableOK
  <2>2. \A d \in Caller : call'[d].at # "spawn"
    BY <1>3, <1>4 DEF LockOK, Leads
  <2>3. \A r \in Sid : proc'[r] = "running" => r \in table'
    BY <1>4 DEF TableOK
  <2>4. \A r \in table' : proc'[r] # "none" /\ reader'[r] # "none"
    BY <1>4 DEF TableOK, ExecTypeOK
  <2> QED
    BY <2>1, <2>2, <2>3, <2>4 DEF TableOK
<1>9. \A d \in Caller : Fits(d)'
  <2>1. Fits(c)'
    BY <1>2, <1>3, <1>4 DEF Fits, Using
  <2>2. ASSUME NEW d \in Caller, d # c PROVE Fits(d)'
    <3>1. call'[d] = call[d] /\ Fits(d) /\ call[d].sid # s
      BY <1>2, <1>4, <2>2
    <3>2. call[d].sid # NoSid => call[d].sid \in Sid
      BY DEF ExecTypeOK, Calls
    <3> QED
      BY <1>4, <3>1, <3>2 DEF Fits, Using, Exited
  <2> QED
    BY <2>1, <2>2
<1>10. UnusedOK'
  BY <1>1, <1>4 DEF UnusedOK
<1>11. ReaderOK'
  BY <1>1, <1>4 DEF ReaderOK, Exited
<1>12. \A d \in Caller : call'[d].sid = s <=> d = c
  BY <1>2, <1>3, <1>4
<1>13. AloneOK'
  <2> SUFFICES ASSUME NEW d \in Caller, NEW e \in Caller, call'[d].sid = call'[e].sid,
                      call'[d].sid \notin disturbed \cup {NoSid}
               PROVE  d = e
    BY <1>1 DEF AloneOK
  <2>1. CASE d = c \/ e = c
    BY <1>12, <1>3, <2>1
  <2>2. CASE d # c /\ e # c
    BY <1>4, <2>2 DEF AloneOK
  <2> QED
    BY <2>1, <2>2
<1>14. CountedOK'
  <2> SUFFICES ASSUME NEW r \in Sid, Intact(r)'
               PROVE  /\ \A d \in Caller : call'[d].sid = r =>
                           shown[r] + call'[d].got + buffer[r] + unread[r] = made[r]
                      /\ r \in table' /\ (\A d \in Caller : call'[d].sid # r) =>
                           shown[r] + buffer[r] + unread[r] = made[r]
    BY <1>1 DEF CountedOK
  <2>1. CASE r = s
    BY <1>2, <1>3, <1>12, <2>1
  <2>2. CASE r # s
    <3>1. Intact(r)
      BY <1>1, <1>4, <2>2 DEF Intact
    <3>2. \A d \in Caller : (call'[d].sid = r <=> call[d].sid = r)
                            /\ (call[d].sid = r => call'[d] = call[d])
      <4>1. call'[c].sid # r /\ call[c].sid # r
        BY <1>2, <1>3, <2>2, ExecAssumption
      <4> QED
        BY <1>4, <4>1
    <3> QED
      BY <2>2, <3>1, <3>2 DEF CountedOK
  <2> QED
    BY <2>1, <2>2
<1>15. PopOK'
  <2> SUFFICES ASSUME NEW d \in Caller, call'[d].at = "pop", Intact(call[d].sid)'
               PROVE  reader'[call'[d].sid] = "done" /\ buffer[call'[d].sid] = 0
    BY <1>1 DEF PopOK
  <2>1. d # c /\ call'[d] = call[d] /\ call[d].sid # s
    BY <1>2, <1>3, <1>4
  <2>2. call[d].sid \in Sid
    BY <2>1 DEF Fits, Using, ExecTypeOK, Calls
  <2>3. Intact(call[d].sid)
    BY <1>1, <1>4, <2>1, <2>2 DEF Intact
  <2> QED
    BY <1>4, <2>1, <2>2, <2>3 DEF PopOK
<1>16. CutOK'
  <2> SUFFICES ASSUME NEW r \in Sid, reader'[r] = "cut", r \notin disturbed
               PROVE  /\ \A d \in Caller : call'[d].sid = r => call'[d].at = "pop"
                      /\ r \in table' => \E d \in Caller : call'[d].sid = r
    BY <1>1 DEF CutOK
  <2>1. r # s /\ reader[r] = "cut"
    BY <1>4
  <2>2. /\ \A d \in Caller : call[d].sid = r => call[d].at = "pop"
        /\ r \in table => \E d \in Caller : call[d].sid = r
    BY <2>1 DEF CutOK
  <2>3. \A d \in Caller : call'[d].sid = r => call'[d].at = "pop"
    BY <1>3, <1>4, <2>1, <2>2
  <2>4. ASSUME r \in table' PROVE \E d \in Caller : call'[d].sid = r
    <3>1. PICK d \in Caller : call[d].sid = r
      BY <2>1, <2>2, <2>4
    <3>2. d # c
      BY <1>2, <3>1, ExecAssumption
    <3> QED
      BY <1>4, <3>1, <3>2
  <2> QED
    BY <2>3, <2>4
<1>17. LedgerOK'
  <2> SUFFICES ASSUME NEW r \in Sid
               PROVE  Ledger(made[r], shown[r], buffer[r], unread[r], Got(r)')
    BY <1>1 DEF LedgerOK
  <2>1. Ledger(made[r], shown[r], buffer[r], unread[r], Got(r)) /\ made[r] \in Nat
        /\ call \in [Caller -> Calls]
    BY DEF LedgerOK, ExecTypeOK
  <2>2. Got(r) \in [Caller -> Nat]
    BY <2>1, Gets
  <2>3. Got(r)'[c] = 0 /\ \A d \in Caller \ {c} : Got(r)'[d] = Got(r)[d]
    <3>1. Got(r)'[c] = IF call'[c].sid = r THEN call'[c].got ELSE 0
      BY <1>3, GotAfter, Zenon
    <3>2. \A d \in Caller \ {c} : Got(r)'[d] = Got(r)[d]
      BY <1>3, <2>1, GotAfter, Zenon
    <3> QED
      BY <1>3, <3>1, <3>2
  <2> QED
    BY <2>1, <2>2, <2>3, Lost
<1> QED
  BY <1>5, <1>7, <1>8, <1>9, <1>10, <1>11, <1>13, <1>14, <1>15, <1>16, <1>17

LEMMA Spawns ==
  ASSUME ExecOK, NEW c \in Caller, Spawned(c)
  PROVE  ExecOK'
<1>1. call[c].at = "spawn" /\ Release(c) /\ UNCHANGED <<made, buffer, unread, results>>
  BY DEF Spawned
<1>2. CASE Return(c) /\ UNCHANGED <<table, proc, reader>>
  <2>1. call[c].got = 0
    BY <1>1 DEF ExecOK, Fits
  <2> QED
    BY <1>1, <1>2, <2>1, Refused DEF sessions
<1>3. CASE \E s \in Sid :
             /\ proc[s] = "none" /\ table' = table \cup {s}
             /\ proc' = [proc EXCEPT ![s] = "running"]
             /\ reader' = [reader EXCEPT ![s] = "reading"]
             /\ call' = [call EXCEPT ![c].at = "wait", ![c].op = "start", ![c].sid = s]
  <2>1. PICK s \in Sid :
          /\ proc[s] = "none" /\ table' = table \cup {s}
          /\ proc' = [proc EXCEPT ![s] = "running"]
          /\ reader' = [reader EXCEPT ![s] = "reading"]
          /\ call' = [call EXCEPT ![c].at = "wait", ![c].op = "start", ![c].sid = s]
    BY <1>3
  <2>2. call \in [Caller -> Calls] /\ "wait" \in Using
    BY DEF ExecOK, ExecTypeOK, Using
  <2>3. Uses(c, "wait", s)
    BY <2>1, <2>2, Given
  <2> HIDE DEF ExecOK
  <2> QED
    BY <1>1, <2>1, <2>3, Creates
<1> QED
  BY <1>2, <1>3 DEF Spawned

\* A session of the table is used again, or by two calls at once.
LEMMA Finds ==
  ASSUME ExecOK, NEW c \in Caller, NEW s \in table, NEW at \in {"input", "kill", "wait"},
         call[c].at = "clean", call[c].sid = NoSid \/ (call[c].sid = s /\ at = "wait"),
         proc' = proc \/ proc' = Signalled(s), Uses(c, at, s),
         disturbed' = IF \E d \in Caller \ {c} : call[d].sid = s
                      THEN disturbed \cup {s} ELSE disturbed,
         Release(c), UNCHANGED <<table, made, buffer, unread, reader, shown>>
  PROVE  ExecOK'
<1> USE DEF ExecOK
<1>1. /\ s \in Sid /\ s # NoSid /\ proc[s] # "none" /\ reader[s] # "none"
      /\ call[c].sid = NoSid => call[c].got = 0
  BY ExecAssumption DEF ExecTypeOK, TableOK, Fits
<1>2. /\ Others(c) /\ call'[c].at = at /\ call'[c].sid = s /\ call'[c].got = call[c].got
      /\ \A d \in Caller \ {c} : call'[d] = call[d]
  BY DEF Uses, Others
<1>3. /\ Calm /\ disturbed' \subseteq Sid /\ disturbed \subseteq disturbed'
      /\ \A r \in Sid \ {s} : r \in disturbed' <=> r \in disturbed
      /\ \A d \in Caller \ {c} : call[d].sid = s => s \in disturbed'
  BY <1>1, Calming DEF ExecTypeOK
<1>4. \A r \in Sid : /\ proc'[r] = "none" <=> proc[r] = "none"
                     /\ Exited(r)' <=> Exited(r)
                     /\ Intact(r)' => Intact(r)
  BY <1>3 DEF Calm, Exited, Intact
<1>5. lock' \in Seq(Caller) /\ LockOK'
  <2>1. call'[c].at \notin Locking
    BY <1>2 DEF Locking
  <2>2. lock \in Seq(Caller)
    BY DEF ExecTypeOK
  <2> QED
    BY <1>2, <2>1, <2>2, Releasing
<1>6. ExecTypeOK'
  BY <1>2, <1>3, <1>5 DEF ExecTypeOK, Calm, Others
<1>7. TableOK'
  <2>1. \A d \in Caller : call'[d].at = "spawn" => call[d].at = "spawn"
    BY <1>2
  <2>2. \A r \in Sid : proc'[r] = "running" => r \in table
    BY <1>3 DEF Calm, TableOK
  <2>3. \A r \in table : r \in Sid /\ proc'[r] # "none" /\ reader[r] # "none"
    BY <1>4 DEF TableOK, ExecTypeOK
  <2> QED
    BY <2>1, <2>2, <2>3 DEF TableOK
<1>8. \A d \in Caller : Fits(d)'
  <2>1. Fits(c)'
    <3>1. at \in {"input", "kill"} => call'[c].got = 0
      BY <1>1, <1>2
    <3>2. proc'[s] # "none" /\ reader'[s] # "none"
      BY <1>1, <1>4
    <3> QED
      BY <1>1, <1>2, <3>1, <3>2 DEF Fits, Using
  <2>2. ASSUME NEW d \in Caller, d # c PROVE Fits(d)'
    <3>1. call'[d] = call[d] /\ Fits(d)
      BY <1>2, <2>2
    <3>2. call[d].sid # NoSid => call[d].sid \in Sid
      BY DEF ExecTypeOK, Calls
    <3> QED
      BY <1>4, <3>1, <3>2 DEF Fits, Using
  <2> QED
    BY <2>1, <2>2
<1>9. UnusedOK'
  <2> SUFFICES ASSUME NEW r \in Sid, proc'[r] = "none"
               PROVE  made[r] = 0 /\ buffer[r] = 0 /\ unread[r] = 0 /\ shown[r] = 0
                      /\ r \notin disturbed'
    BY DEF UnusedOK
  <2>1. proc[r] = "none" /\ r # s
    BY <1>1, <1>4
  <2> QED
    BY <1>3, <2>1 DEF UnusedOK
<1>10. ReaderOK'
  BY <1>4 DEF ReaderOK
<1>11. AloneOK'
  <2> SUFFICES ASSUME NEW d \in Caller, NEW e \in Caller, call'[d].sid = call'[e].sid,
                      call'[d].sid \notin disturbed' \cup {NoSid}
               PROVE  d = e
    BY DEF AloneOK
  <2>1. CASE d = c
    BY <1>2, <1>3, <2>1
  <2>2. CASE e = c
    BY <1>2, <1>3, <2>2
  <2>3. CASE d # c /\ e # c
    BY <1>2, <1>3, <2>3 DEF AloneOK
  <2> QED
    BY <2>1, <2>2, <2>3
<1>12. CountedOK'
  <2> SUFFICES ASSUME NEW r \in Sid, Intact(r), r \notin disturbed'
               PROVE  /\ \A d \in Caller : call'[d].sid = r =>
                           shown[r] + call'[d].got + buffer[r] + unread[r] = made[r]
                      /\ r \in table /\ (\A d \in Caller : call'[d].sid # r) =>
                           shown[r] + buffer[r] + unread[r] = made[r]
    BY <1>4 DEF CountedOK, Intact
  <2>1. CASE r = s
    <3>1. \A d \in Caller : call'[d].sid = s => d = c
      BY <1>2, <1>3, <2>1
    <3>2. shown[s] + call[c].got + buffer[s] + unread[s] = made[s]
      <4>1. CASE call[c].sid = s
        BY <2>1, <4>1 DEF CountedOK
      <4>2. CASE call[c].sid = NoSid
        <5>1. \A d \in Caller : call[d].sid # s
          BY <1>1, <1>2, <3>1, <4>2
        <5>2. shown[s] + buffer[s] + unread[s] = made[s]
          BY <2>1, <5>1 DEF CountedOK
        <5>3. call[c].got = 0 /\ shown[s] \in Nat
          BY <1>1, <4>2 DEF ExecTypeOK
        <5> QED
          BY <5>2, <5>3
      <4> QED
        BY <4>1, <4>2
    <3> QED
      BY <1>2, <2>1, <3>1, <3>2
  <2>2. CASE r # s
    <3>1. call'[c].sid # r /\ call[c].sid # r
      BY <1>2, <2>2, ExecAssumption
    <3> QED
      BY <1>2, <2>2, <3>1 DEF CountedOK
  <2> QED
    BY <2>1, <2>2
<1>13. PopOK'
  <2> SUFFICES ASSUME NEW d \in Caller, call'[d].at = "pop", Intact(call[d].sid)'
               PROVE  reader[call'[d].sid] = "done" /\ buffer[call'[d].sid] = 0
    BY DEF PopOK
  <2>1. call'[d] = call[d] /\ d # c
    BY <1>2
  <2>2. call[d].sid \in Sid
    BY <2>1 DEF Fits, Using, ExecTypeOK, Calls
  <2>3. Intact(call[d].sid)
    BY <1>4, <2>1, <2>2 DEF Intact
  <2> QED
    BY <2>1, <2>2, <2>3 DEF PopOK
<1>14. CutOK'
  <2> SUFFICES ASSUME NEW r \in Sid, reader[r] = "cut", r \notin disturbed'
               PROVE  /\ \A d \in Caller : call'[d].sid = r => call'[d].at = "pop"
                      /\ r \in table => \E d \in Caller : call'[d].sid = r
    BY DEF CutOK
  <2>1. /\ \A d \in Caller : call[d].sid = r => call[d].at = "pop"
        /\ r \in table => \E d \in Caller : call[d].sid = r
    BY <1>3 DEF CutOK
  <2>2. r # s
    <3> SUFFICES ASSUME r = s PROVE FALSE
      OBVIOUS
    <3>1. PICK d \in Caller : call[d].sid = s /\ call[d].at = "pop"
      BY <2>1
    <3>2. d # c
      BY <3>1
    <3> QED
      BY <1>3, <3>1, <3>2
  <2>3. call'[c].sid # r /\ call[c].sid # r
    BY <1>2, <2>2, ExecAssumption
  <2> QED
    BY <1>2, <2>1, <2>3
<1>15. LedgerOK'
  <2> SUFFICES ASSUME NEW r \in Sid
               PROVE  Ledger(made[r], shown[r], buffer[r], unread[r], Got(r)')
    BY DEF LedgerOK
  <2>1. \A d \in Caller : (IF call'[d].sid = r THEN call'[d].got ELSE 0)
                          = (IF call[d].sid = r THEN call[d].got ELSE 0)
    <3>1. (IF call'[c].sid = r THEN call'[c].got ELSE 0)
          = (IF call[c].sid = r THEN call[c].got ELSE 0)
      BY <1>1, <1>2, ExecAssumption
    <3> QED
      BY <1>2, <3>1
  <2>2. Got(r)' = Got(r)
    BY <2>1 DEF Got
  <2> QED
    BY <2>2 DEF LedgerOK
<1> QED
  BY <1>5, <1>6, <1>7, <1>8, <1>9, <1>10, <1>11, <1>12, <1>13, <1>14, <1>15

LEMMA FindsOne ==
  ASSUME ExecOK, NEW c \in Caller, Find(c)
  PROVE  ExecOK'
<1>1. /\ call[c].at = "clean" /\ Release(c)
      /\ UNCHANGED <<table, made, buffer, unread, reader, shown>>
  BY DEF Find, Cleaned
<1>2. PICK s \in IF call[c].sid = NoSid THEN table ELSE table \cap {call[c].sid} :
        \E at \in {"input", "kill", "wait"} :
          /\ call[c].sid # NoSid => at = "wait"
          /\ call' = [call EXCEPT ![c].at = at, ![c].op = "write", ![c].sid = s]
          /\ proc' = IF at = "kill" THEN Signalled(s) ELSE proc
          /\ disturbed' = IF \E d \in Caller \ {c} : call[d].sid = s
                          THEN disturbed \cup {s} ELSE disturbed
  BY DEF Find
<1>3. PICK at \in {"input", "kill", "wait"} :
        /\ call[c].sid # NoSid => at = "wait"
        /\ call' = [call EXCEPT ![c].at = at, ![c].op = "write", ![c].sid = s]
        /\ proc' = IF at = "kill" THEN Signalled(s) ELSE proc
        /\ disturbed' = IF \E d \in Caller \ {c} : call[d].sid = s
                        THEN disturbed \cup {s} ELSE disturbed
  BY <1>2
<1>4. call \in [Caller -> Calls] /\ at \in Using /\ s \in Sid /\ s \in table
  BY <1>2 DEF ExecOK, ExecTypeOK, Using
<1>5. Uses(c, at, s)
  BY <1>3, <1>4, Given
<1>6. call[c].sid = NoSid \/ (call[c].sid = s /\ at = "wait")
  BY <1>2, <1>3
<1>7. proc' = proc \/ proc' = Signalled(s)
  BY <1>3
<1>8. disturbed' = IF \E d \in Caller \ {c} : call[d].sid = s
                   THEN disturbed \cup {s} ELSE disturbed
  BY <1>3
<1> QED
  BY <1>1, <1>4, <1>5, <1>6, <1>7, <1>8, Finds

-----------------------------------------------------------------------------
(* The poll. *)

\* A poll that returns with what it took.
LEMMA Shows ==
  ASSUME ExecOK, NEW c \in Caller, call[c].at \in {"wait", "latekill", "grace"},
         NEW at, Take(c, at), ~Exited(call[c].sid),
         UNCHANGED <<table, proc, made, unread, reader, disturbed>>
  PROVE  ExecOK'
<1> DEFINE s == call[c].sid
           b == buffer[s]
<1>1. ExecTypeOK /\ LockOK /\ Fits(c) /\ call \in [Caller -> Calls] /\ lock \in Seq(Caller)
      /\ buffer \in [Sid -> Nat]
  BY DEF ExecOK, ExecTypeOK
<1>2. s \in Sid /\ b \in Nat
  BY <1>1 DEF Fits, Using, Calls
<1>3. Return(c) /\ lock' = lock /\ buffer' = [buffer EXCEPT ![s] = 0]
      /\ shown' = [shown EXCEPT ![s] = @ + (call[c].got + b)]
  BY DEF Take
<1>4. buffer' = [buffer EXCEPT ![s] = @ - b]
  <2>1. buffer[s] - b = 0
    BY <1>2
  <2> QED
    BY <1>3, <2>1
<1>5. Leaves(c)
  BY <1>1, <1>3, Returning
<1>6. lock' \in Seq(Caller) /\ LockOK'
  <2>1. Others(c) /\ call'[c].at \notin Locking /\ call[c].at \notin Locking
        /\ call'[c].at \notin {"clean", "spawn"}
    BY <1>5 DEF Leaves, NoCall, Locking
  <2> QED
    BY <1>1, <1>3, <2>1, Holding
<1>7. b \in {0, buffer[s]} /\ s = call[c].sid /\ table' = table /\ call[c].at # "pop"
  OBVIOUS
<1> HIDE DEF s, b
<1>8. Hands(c, s, b)
  BY <1>3, <1>4, <1>7 DEF Hands
<1> QED
  BY <1>2, <1>5, <1>6, <1>7, <1>8, Answers

\* A poll that goes on with what it took.
LEMMA Fetched ==
  ASSUME ExecTypeOK, NEW c \in Caller, NEW at \in {"pop", "popEarly", "again"},
         call[c].sid \in Sid,
         call' = [call EXCEPT ![c].at = at, ![c].got = call[c].got + buffer[call[c].sid]]
  PROVE  /\ Others(c) /\ call'[c].at = at /\ call'[c].sid = call[c].sid
         /\ call'[c].got = call[c].got + buffer[call[c].sid]
<1> DEFINE n == call[c].got + buffer[call[c].sid]
           k == [call[c] EXCEPT !.at = at, !.got = n]
<1>1. call \in [Caller -> Calls] /\ call[c] \in Calls /\ n \in Nat
  BY DEF ExecTypeOK, Calls
<1> HIDE DEF n
<1>2. k \in Calls /\ k.at = at /\ k.sid = call[c].sid /\ k.got = n
  BY <1>1 DEF Calls, Using
<1>3. call' = [call EXCEPT ![c] = k]
  BY DEF n
<1> HIDE DEF k
<1>4. Others(c) /\ call'[c] = k
  BY <1>1, <1>2, <1>3, Put, Zenon
<1> QED
  BY <1>2, <1>4, Zenon DEF n

LEMMA Fetches ==
  ASSUME ExecOK, NEW c \in Caller, NEW at \in {"pop", "popEarly", "again"}, NEW s \in Sid,
         s = call[c].sid, call[c].at \in {"wait", "latekill", "grace", "drain"},
         at # "again" => Exited(s), buffer' = [buffer EXCEPT ![s] = 0],
         call' = [call EXCEPT ![c].at = at, ![c].got = call[c].got + buffer[call[c].sid]],
         Queue(c), UNCHANGED <<table, proc, made, unread, shown, disturbed>>,
         reader' = reader \/ (at = "pop" /\ reader' = [reader EXCEPT ![s] = IF @ = "reading" THEN "cut" ELSE @]),
         at = "pop" => reader[s] # "cut" /\ reader'[s] # "reading"
  PROVE  ExecOK'
<1>1. ExecTypeOK /\ LockOK /\ call \in [Caller -> Calls] /\ lock \in Seq(Caller)
      /\ reader \in [Sid -> {"none", "reading", "done", "cut"}]
  BY DEF ExecOK, ExecTypeOK
<1>2. /\ Others(c) /\ call'[c].at = at /\ call'[c].sid = s
      /\ call'[c].got = call[c].got + buffer[s]
  <2>1. call[c].sid \in Sid
    OBVIOUS
  <2>2. /\ Others(c) /\ call'[c].at = at /\ call'[c].sid = call[c].sid
        /\ call'[c].got = call[c].got + buffer[call[c].sid]
    BY <1>1, <2>1, Fetched, Zenon
  <2> QED
    BY <2>2, Zenon
<1>3. lock' \in Seq(Caller) /\ LockOK'
  <2>1. call[c].at \notin Locking /\ at \in Locking \ {"clean", "spawn"}
    BY DEF Locking
  <2>2. call'[c].at \in Locking \ {"clean", "spawn"}
    BY <1>2, <2>1, Zenon
  <2> QED
    BY <1>1, <1>2, <2>1, <2>2, Queueing, Zenon
<1>4. /\ reader' \in [Sid -> {"none", "reading", "done", "cut"}]
      /\ \A r \in Sid \ {s} : reader'[r] = reader[r]
      /\ reader'[s] = reader[s] \/ (reader[s] = "reading" /\ reader'[s] = "cut" /\ at = "pop")
  <2>1. CASE reader' = reader
    BY <1>1, <2>1
  <2>2. CASE at = "pop" /\ reader' = [reader EXCEPT ![s] = IF @ = "reading" THEN "cut" ELSE @]
    BY <1>1, <2>2
  <2> QED
    BY <2>1, <2>2
<1>5. call[c].at # "pop"
  OBVIOUS
<1> QED
  BY <1>2, <1>3, <1>4, <1>5, Gathers, Zenon

LEMMA Waits ==
  ASSUME ExecOK, NEW c \in Caller, WaitOver(c) \/ LateKilled(c)
  PROVE  ExecOK'
<1>1. /\ call[c].at \in {"wait", "latekill"}
      /\ UNCHANGED <<table, made, unread, reader, disturbed>>
  BY DEF WaitOver, LateKilled
<1>2. \/ AwaitOutput(c) /\ proc' = proc
      \/ /\ MoveTo(c, "latekill") /\ proc' = Signalled(call[c].sid)
         /\ UNCHANGED <<buffer, lock, shown>>
  BY DEF WaitOver, LateKilled
<1>3. CASE MoveTo(c, "latekill") /\ proc' = Signalled(call[c].sid)
           /\ UNCHANGED <<buffer, lock, shown>>
  <2>1. UNCHANGED <<table, made, buffer, unread, reader, lock, results>>
    BY <1>1, <1>3 DEF results
  <2> QED
    BY <1>1, <1>3, <2>1, Walks
<1>4. CASE AwaitOutput(c) /\ proc' = proc
  <2>1. CASE ~Exited(call[c].sid) /\ Take(c, "pop")
    BY <1>1, <1>4, <2>1, Shows
  <2>2. CASE /\ MoveTo(c, IF Exited(call[c].sid) THEN "drain" ELSE "grace")
             /\ UNCHANGED <<buffer, lock, shown>>
    <3>1. UNCHANGED <<table, made, buffer, unread, reader, lock, results>>
      BY <1>1, <2>2 DEF results
    <3>2. CASE Exited(call[c].sid)
      <4>1. MoveTo(c, "drain")
        BY <2>2, <3>2
      <4> QED
        BY <1>1, <1>4, <3>1, <3>2, <4>1, Walks
    <3>3. CASE ~Exited(call[c].sid)
      <4>1. MoveTo(c, "grace")
        BY <2>2, <3>3
      <4> QED
        BY <1>1, <1>4, <3>1, <4>1, Walks
    <3> QED
      BY <3>2, <3>3
  <2> QED
    BY <1>4, <2>1, <2>2 DEF AwaitOutput
<1> QED
  BY <1>2, <1>3, <1>4

LEMMA Drains ==
  ASSUME ExecOK, NEW c \in Caller, Drained(c)
  PROVE  ExecOK'
<1>1. call[c].at = "drain" /\ reader[call[c].sid] # "cut" /\ Take(c, "pop")
      /\ reader' = [reader EXCEPT ![call[c].sid] = IF @ = "reading" THEN "cut" ELSE @]
      /\ UNCHANGED <<table, proc, made, unread, disturbed>>
  BY DEF Drained
<1>2. PICK s \in Sid : s = call[c].sid /\ Exited(s)
  BY <1>1 DEF ExecOK, ExecTypeOK, Fits, Calls, Using
<1>3. /\ buffer' = [buffer EXCEPT ![s] = 0] /\ Queue(c) /\ shown' = shown
      /\ call' = [call EXCEPT ![c].at = "pop", ![c].got = call[c].got + buffer[call[c].sid]]
  BY <1>1, <1>2 DEF Take
<1>4. reader[s] # "cut" /\ reader'[s] # "reading"
      /\ reader' = [reader EXCEPT ![s] = IF @ = "reading" THEN "cut" ELSE @]
  BY <1>1, <1>2 DEF ExecOK, ExecTypeOK
<1> QED
  BY <1>1, <1>2, <1>3, <1>4, Fetches

LEMMA Graces ==
  ASSUME ExecOK, NEW c \in Caller, GraceOver(c)
  PROVE  ExecOK'
<1>1. call[c].at = "grace" /\ UNCHANGED <<table, proc, made, unread, reader, disturbed>>
  BY DEF GraceOver
<1>2. PICK s \in Sid : s = call[c].sid
  BY <1>1 DEF ExecOK, ExecTypeOK, Fits, Calls, Using
<1>3. CASE Take(c, "popEarly") /\ ~Exited(call[c].sid)
  BY <1>1, <1>3, Shows
<1>4. CASE Take(c, "popEarly") /\ Exited(call[c].sid)
  <2>1. /\ buffer' = [buffer EXCEPT ![s] = 0] /\ Queue(c) /\ shown' = shown
        /\ call' = [call EXCEPT ![c].at = "popEarly", ![c].got = call[c].got + buffer[call[c].sid]]
    BY <1>2, <1>4 DEF Take
  <2> QED
    BY <1>1, <1>2, <1>4, <2>1, Fetches
<1>5. CASE TakeAndRepeat(c)
  <2>1. /\ buffer' = [buffer EXCEPT ![s] = 0] /\ Queue(c) /\ shown' = shown
        /\ call' = [call EXCEPT ![c].at = "again", ![c].got = call[c].got + buffer[call[c].sid]]
    BY <1>2, <1>5 DEF TakeAndRepeat
  <2> QED
    BY <1>1, <1>2, <2>1, Fetches
<1> QED
  BY <1>3, <1>4, <1>5 DEF GraceOver

LEMMA Pops ==
  ASSUME ExecOK, NEW c \in Caller, Pop(c)
  PROVE  ExecOK'
<1> DEFINE s == call[c].sid
<1>1. /\ call[c].at \in {"pop", "popEarly"} /\ table' = table \ {s}
      /\ shown' = [shown EXCEPT ![s] = @ + call[c].got]
      /\ Return(c) /\ Release(c)
      /\ UNCHANGED <<proc, made, buffer, unread, reader, disturbed>>
  BY DEF Pop
<1>2. /\ ExecTypeOK /\ LockOK /\ call \in [Caller -> Calls] /\ lock \in Seq(Caller)
      /\ buffer \in [Sid -> Nat] /\ s \in Sid /\ Exited(s) /\ call[c].got \in Nat
  BY <1>1 DEF ExecOK, ExecTypeOK, Fits, Calls, Using
<1>3. Leaves(c)
  BY <1>1, <1>2, Returning
<1>4. lock' \in Seq(Caller) /\ LockOK'
  <2>1. Others(c) /\ call'[c].at \notin Locking
    BY <1>3 DEF Leaves, NoCall, Locking
  <2> QED
    BY <1>1, <1>2, <2>1, Releasing
<1>5. PICK b \in {0, buffer[s]} : b = 0
  OBVIOUS
<1>6. buffer' = [buffer EXCEPT ![s] = @ - b] /\ call[c].got + b = call[c].got
  <2>1. buffer[s] - b = buffer[s] /\ buffer' = buffer
    BY <1>1, <1>2, <1>5
  <2> QED
    BY <1>2, <1>5, <2>1
<1>7. shown' = [shown EXCEPT ![s] = @ + (call[c].got + b)]
  BY <1>1, <1>6
<1>8. s = call[c].sid /\ proc[s] # "running"
  BY <1>2 DEF Exited
<1> HIDE DEF s
<1>9. Hands(c, s, b)
  BY <1>1, <1>6, <1>7, <1>8 DEF Hands
<1> QED
  BY <1>2, <1>3, <1>4, <1>8, <1>9, Answers

\* The call is cancelled where it waits.
LEMMA Cancels ==
  ASSUME ExecOK, NEW c \in Caller, CancelCall(c)
  PROVE  ExecOK'
<1>1. /\ Return(c) /\ Release(c) /\ UNCHANGED <<table, proc, made, buffer, unread, shown>>
      /\ disturbed' = disturbed \cup ({call[c].sid} \ {NoSid})
      /\ reader' = [s \in Sid |-> IF call[c].at = "drain" /\ call[c].sid = s /\ reader[s] = "reading"
                                  THEN "cut" ELSE reader[s]]
  BY DEF CancelCall
<1>2. /\ ExecTypeOK /\ LockOK /\ call \in [Caller -> Calls] /\ lock \in Seq(Caller) /\ Fits(c)
      /\ reader \in [Sid -> {"none", "reading", "done", "cut"}]
  BY DEF ExecOK, ExecTypeOK
<1>3. Leaves(c)
  BY <1>1, <1>2, Returning
<1>4. lock' \in Seq(Caller) /\ LockOK'
  <2>1. Others(c) /\ call'[c].at \notin Locking
    BY <1>3 DEF Leaves, NoCall, Locking
  <2> QED
    BY <1>1, <1>2, <2>1, Releasing
<1>5. /\ reader' \in [Sid -> {"none", "reading", "done", "cut"}]
      /\ \A s \in Sid : \/ reader'[s] = reader[s]
                        \/ reader[s] = "reading" /\ reader'[s] = "cut" /\ s \in disturbed'
  BY <1>1, <1>2, ExecAssumption
<1>6. call[c].got = 0 \/ call[c].sid \in disturbed'
  BY <1>1, <1>2 DEF Fits
<1>7. call[c].at # "pop" \/ call[c].sid \in disturbed'
  BY <1>1, <1>2 DEF Fits, Using
<1>8. disturbed \subseteq disturbed' /\ disturbed' \subseteq disturbed \cup ({call[c].sid} \ {NoSid})
  BY <1>1
<1> QED
  BY <1>1, <1>3, <1>4, <1>5, <1>6, <1>7, <1>8, Quits

-----------------------------------------------------------------------------
(* Every step of the chat keeps the exec sessions consistent.              *)

LEMMA ExecStarts ==
  Init => ExecOK
<1> SUFFICES ASSUME Init PROVE ExecOK
  OBVIOUS
<1> DEFINE zero == [s \in Sid |-> 0]
<1>1. /\ table = {} /\ lock = <<>> /\ disturbed = {}
      /\ proc = [s \in Sid |-> "none"] /\ reader = [s \in Sid |-> "none"]
      /\ made = zero /\ unread = zero /\ buffer = zero /\ shown = zero
      /\ call = [c \in Caller |-> NoCall]
  BY DEF Init, ExecInit
<1>2. NoCall \in Calls /\ NoCall.at = "idle" /\ NoCall.sid = NoSid /\ NoCall.got = 0
  BY DEF NoCall, Calls
<1>3. ExecTypeOK
  BY <1>1, <1>2, FS_EmptySet DEF ExecTypeOK
<1>4. LockOK
  BY <1>1, <1>2 DEF LockOK, Distinct, Stands, Locking
<1>5. TableOK
  BY <1>1, <1>2, FS_EmptySet, ExecAssumption DEF TableOK
<1>6. \A c \in Caller : Fits(c)
  BY <1>1, <1>2 DEF Fits, Using
<1>7. UnusedOK /\ ReaderOK
  BY <1>1 DEF UnusedOK, ReaderOK
<1>8. AloneOK /\ PopOK /\ CutOK
  BY <1>1, <1>2 DEF AloneOK, PopOK, CutOK
<1>9. CountedOK
  BY <1>1, <1>2, ExecAssumption DEF CountedOK
<1>10. LedgerOK
  <2> SUFFICES ASSUME NEW s \in Sid PROVE Ledger(0, 0, 0, 0, Got(s))
    BY <1>1 DEF LedgerOK
  <2>1. \A c \in Caller : Got(s)[c] = 0
    BY <1>1, <1>2 DEF Got
  <2>2. PICK own : own \in [1..0 -> Holders]
    <3>1. [i \in 1..0 |-> <<"lost">>] \in [1..0 -> Holders]
      BY DEF Holders
    <3> QED
      BY <3>1
  <2>3. \A x : Has(own, x, 0)
    <3>1. DOMAIN own = {}
      BY <2>2
    <3>2. \A x : Of(own, x) = {}
      BY <3>1 DEF Of
    <3> QED
      BY <3>2, FS_EmptySet DEF Has
  <2> QED
    BY <2>1, <2>2, <2>3 DEF Ledger
<1> QED
  BY <1>3, <1>4, <1>5, <1>6, <1>7, <1>8, <1>9, <1>10 DEF ExecOK

LEMMA ExecRests ==
  ASSUME ExecOK, UNCHANGED execVars
  PROVE  ExecOK'
<1>1. UNCHANGED <<table, proc, made, buffer, unread, reader, lock, call, shown, disturbed>>
  BY DEF execVars, sessions, results
<1>2. \A s \in Sid : Got(s)' = Got(s)
  BY <1>1 DEF Got
<1>3. ExecTypeOK' /\ LockOK' /\ TableOK' /\ UnusedOK' /\ ReaderOK' /\ AloneOK'
  BY <1>1 DEF ExecOK, ExecTypeOK, LockOK, Distinct, Stands, Leads, TableOK, UnusedOK, ReaderOK,
              Exited, AloneOK
<1>4. \A c \in Caller : Fits(c)'
  BY <1>1 DEF ExecOK, Fits, Exited
<1>5. CountedOK' /\ PopOK' /\ CutOK'
  BY <1>1 DEF ExecOK, CountedOK, PopOK, CutOK, Intact
<1>6. LedgerOK'
  BY <1>1, <1>2 DEF ExecOK, LedgerOK
<1> QED
  BY <1>3, <1>4, <1>5, <1>6 DEF ExecOK

LEMMA CallStepKeeps ==
  ASSUME ExecOK, NEW c \in Caller, CallStep(c)
  PROVE  ExecOK'
BY Acquires, Cleans, Starts, Spawns, Lists, FindsOne, Inputs, Refuses, Waits, Drains, Graces, Pops
   DEF CallStep

LEMMA ExecKept ==
  ASSUME ExecOK, [Next]_vars
  PROVE  ExecOK'
<1>1. CASE UNCHANGED vars
  <2>1. UNCHANGED execVars
    BY <1>1 DEF vars
  <2> QED
    BY <2>1, ExecRests
<1>2. CASE StartTurn \/ Drain \/ WaitEnds \/ Continue \/ EndTurn \/ Stop \/ StopSubagents \/ Stopped
           \/ \E a \in Sub : Spawn(a) \/ Inject(a) \/ Announce(a)
  <2>1. UNCHANGED execVars
    BY <1>2 DEF StartTurn, Drain, WaitEnds, Continue, EndTurn, Stop, StopSubagents, Stopped,
                Spawn, Inject, Announce
  <2> QED
    BY <2>1, ExecRests
<1>3. ASSUME NEW c \in Caller, BeginCall(c) \/ StruckTask(c) \/ Cancelled(c) \/ Step(c)
      PROVE  ExecOK'
  <2>1. Begin(c) \/ Struck(c) \/ CancelCall(c) \/ CallStep(c)
    BY <1>3 DEF BeginCall, StruckTask, Cancelled, Step
  <2> QED
    BY <2>1, Begins, Strikes, Cancels, CallStepKeeps
<1>4. ASSUME NEW s \in Sid, ProcessStep(s) PROVE ExecOK'
  BY <1>4, Produced, Exits, Reads DEF ProcessStep
<1> QED
  BY <1>1, <1>2, <1>3, <1>4 DEF Next

LEMMA ExecConsistent ==
  ASSUME ExecOK
  PROVE  ExecInv
<1> USE DEF ExecOK
<1>1. Cardinality(table) <= MaxSessions
      /\ \A c \in Caller : call[c].at = "spawn" => Cardinality(table) < MaxSessions
  BY DEF TableOK
<1>2. /\ \A s \in Sid : proc[s] = "running" => s \in table
      /\ \A s \in table : proc[s] # "none" /\ reader[s] # "none"
  BY DEF TableOK
<1>3. /\ \A c \in Caller : (\E i \in DOMAIN lock : lock[i] = c) <=>
                           call[c].at \in {"lock", "again", "clean", "spawn", "pop", "popEarly"}
      /\ \A i, j \in DOMAIN lock : lock[i] = lock[j] => i = j
  BY DEF LockOK, Stands, Distinct, Locking
<1>4. ASSUME NEW s \in Sid PROVE shown[s] + buffer[s] + unread[s] <= made[s]
  <2>1. Ledger(made[s], shown[s], buffer[s], unread[s], Got(s)) /\ made[s] \in Nat
    BY DEF LedgerOK, ExecTypeOK
  <2> HIDE DEF ExecOK
  <2> QED
    BY <2>1, Bounded
<1>5. SessionsInv
  BY <1>1, <1>2, <1>3, <1>4 DEF SessionsInv
<1>6. OutputComplete
  <2> SUFFICES ASSUME NEW c \in Caller, call[c].at = "pop",
                      reader[call[c].sid] # "cut", call[c].sid \notin disturbed
               PROVE  shown[call[c].sid] + call[c].got = made[call[c].sid]
    BY DEF OutputComplete
  <2>1. PICK s \in Sid : s = call[c].sid
    BY DEF Fits, Using, ExecTypeOK, Calls
  <2>2. Intact(s)
    BY <2>1 DEF Intact
  <2>3. buffer[s] = 0 /\ unread[s] = 0
    BY <2>1, <2>2 DEF PopOK, ReaderOK
  <2>4. shown[s] + call[c].got + buffer[s] + unread[s] = made[s]
    BY <2>1, <2>2 DEF CountedOK
  <2>5. shown[s] \in Nat /\ call[c].got \in Nat
    BY DEF ExecTypeOK, Calls
  <2> HIDE DEF ExecOK
  <2> QED
    BY <2>1, <2>3, <2>4, <2>5
<1> QED
  BY <1>5, <1>6 DEF ExecInv

\* The exec sessions that a chat's turn and subagents share stay consistent: the limit of
\* the sessions holds although callers start processes at once, no process runs that no
\* caller can reach, the lock is held and awaited only by callers in a call and never twice
\* by one, no output is counted twice, and a session is removed with all its output shown
\* unless it was disturbed or its readers cut off (agent/tools/exec_session.py).
THEOREM SessionsConsistent ==
  Spec => []ExecInv
<1>1. Init => ExecOK
  BY ExecStarts
<1>2. ExecOK /\ [Next]_vars => ExecOK'
  BY ExecKept
<1>3. ExecOK => ExecInv
  BY ExecConsistent
<1> QED
  BY <1>1, <1>2, <1>3, PTL DEF Spec

-----------------------------------------------------------------------------
(* The tasks of the chat and the answers of its subagents.                 *)

TaskTypeOK ==
  /\ task \in [Caller -> {"none", "running", "waiting", "ending", "announced", "struck", "stopped"}]
  /\ doomed \subseteq Caller
  /\ mail \in [Sub -> {"none", "bus", "pending", "read"}]
  /\ stop \in {"no", "turn", "subagents"}

\* Where an answer may be says whether its subagent announced it.
MailOK ==
  \A a \in Sub : mail[a] \in IF task[a] = "announced" THEN {"bus", "pending", "read"} ELSE {"none"}

\* A task in a call runs, a subagent whose cancellation is on its way too; while /stop waits
\* for the subagents no turn spawns one, and each that runs is cancelled.
TasksOK ==
  /\ \A a \in Sub : mail[a] = "pending" => task[Turn] \in Live
  /\ \A c \in Caller : call[c] # NoCall => task[c] = "running"
  /\ \A a \in Sub : a \in doomed => task[a] = "running"
  /\ stop = "subagents" => task[Turn] \notin Live
  /\ stop = "subagents" => \A a \in Sub : task[a] = "running" => a \in doomed

ChatOK == ExecOK /\ TaskTypeOK /\ MailOK /\ TasksOK

LEMMA TurnIsCaller ==
  /\ Turn \in Caller /\ Turn \notin Sub
  /\ \A c \in Caller : c # Turn => c \in Sub
  /\ \A a \in Sub : a \in Caller /\ a # Turn
BY BackgroundAssumption DEF Sub

\* A step that touches no call.
LEMMA TurnStarts ==
  ASSUME ChatOK, StartTurn
  PROVE  TaskTypeOK' /\ MailOK' /\ TasksOK'
<1> USE TurnIsCaller DEF ChatOK, StartTurn
<1>1. call' = call
  BY DEF execVars
<1>2. TaskTypeOK'
  BY DEF TaskTypeOK
<1>3. \A a \in Sub : task'[a] = task[a] /\ (mail'[a] = mail[a] \/ (mail[a] = "bus" /\ mail'[a] = "read"))
  BY DEF TaskTypeOK, InPlace
<1>4. task'[Turn] = "running" /\ \A c \in Caller \ {Turn} : task'[c] = task[c]
  BY DEF TaskTypeOK
<1>5. MailOK'
  BY <1>3 DEF MailOK
<1>6. TasksOK'
  BY <1>1, <1>3, <1>4 DEF TasksOK, Live
<1> QED
  BY <1>2, <1>5, <1>6

LEMMA TurnDrains ==
  ASSUME ChatOK, Drain \/ WaitEnds
  PROVE  TaskTypeOK' /\ MailOK' /\ TasksOK'
<1> USE TurnIsCaller DEF ChatOK
<1>1. UNCHANGED <<call, doomed, stop>> /\ task[Turn] \in Live /\ call[Turn] = NoCall
  BY DEF Drain, WaitEnds, execVars, Idle, Live, TasksOK
<1>2. /\ task' \in [Caller -> {"none", "running", "waiting", "ending", "announced", "struck", "stopped"}]
      /\ task'[Turn] \in Live /\ \A c \in Caller \ {Turn} : task'[c] = task[c]
  BY DEF Drain, WaitEnds, TaskTypeOK, Live
<1>3. /\ mail' \in [Sub -> {"none", "bus", "pending", "read"}]
      /\ \A a \in Sub : mail'[a] = mail[a] \/ (mail[a] = "pending" /\ mail'[a] = "read")
  BY DEF Drain, WaitEnds, Moved, TaskTypeOK
<1>4. TaskTypeOK'
  BY <1>1, <1>2, <1>3 DEF TaskTypeOK
<1>5. MailOK'
  BY <1>2, <1>3 DEF MailOK
<1>6. TasksOK'
  BY <1>1, <1>2, <1>3 DEF TasksOK
<1> QED
  BY <1>4, <1>5, <1>6

LEMMA TurnGoesOn ==
  ASSUME ChatOK, Continue
  PROVE  TaskTypeOK' /\ MailOK' /\ TasksOK'
<1> USE TurnIsCaller DEF ChatOK
<1>1. UNCHANGED <<call, doomed, mail, stop>> /\ task[Turn] = "ending"
      /\ task' = [task EXCEPT ![Turn] = "running"]
  BY DEF Continue, execVars
<1>2. task'[Turn] = "running" /\ \A c \in Caller \ {Turn} : task'[c] = task[c]
  BY <1>1 DEF TaskTypeOK
<1>3. TaskTypeOK'
  BY <1>1 DEF TaskTypeOK
<1>4. MailOK'
  BY <1>1, <1>2 DEF MailOK
<1>5. TasksOK'
  BY <1>1, <1>2 DEF TasksOK, Live
<1> QED
  BY <1>3, <1>4, <1>5

\* The turn is over, in a call or not.
LEMMA TurnEnds ==
  ASSUME ChatOK, TurnOver("none"), stop' = stop,
         call'[Turn] = NoCall, \A d \in Caller \ {Turn} : call'[d] = call[d]
  PROVE  TaskTypeOK' /\ MailOK' /\ TasksOK'
<1> USE TurnIsCaller DEF ChatOK
<1>1. /\ task' = [task EXCEPT ![Turn] = "none"] /\ doomed' = doomed \ {Turn}
      /\ mail' = [a \in Sub |-> IF mail[a] = "pending" THEN "bus" ELSE mail[a]]
  BY DEF TurnOver, Ends, Moved
<1>2. task'[Turn] = "none" /\ \A c \in Caller \ {Turn} : task'[c] = task[c]
  BY <1>1 DEF TaskTypeOK
<1>3. TaskTypeOK'
  BY <1>1 DEF TaskTypeOK
<1>4. MailOK'
  BY <1>1, <1>2 DEF MailOK
<1>5. \A a \in Sub : mail'[a] # "pending"
  BY <1>1
<1>6. \A a \in Sub : task'[a] = task[a] /\ (a \in doomed' <=> a \in doomed)
  BY <1>1, <1>2
<1>7. TasksOK'
  BY <1>2, <1>5, <1>6 DEF TasksOK, Live
<1> QED
  BY <1>3, <1>4, <1>7

\* A subagent is over, in a call or not, announced or without an announcement.
LEMMA SubagentEnds ==
  ASSUME ChatOK, NEW a \in Sub, NEW how \in {"announced", "struck", "stopped"}, Ends(a, how),
         task[a] = "running", stop' = stop,
         mail' = IF how = "announced" THEN [mail EXCEPT ![a] = "bus"] ELSE mail,
         call'[a] = NoCall, \A d \in Caller \ {a} : call'[d] = call[d]
  PROVE  TaskTypeOK' /\ MailOK' /\ TasksOK'
<1> USE TurnIsCaller DEF ChatOK
<1>1. a \in Caller /\ a # Turn /\ mail[a] = "none"
  BY DEF Sub, MailOK
<1>2. /\ task' \in [Caller -> {"none", "running", "waiting", "ending", "announced", "struck", "stopped"}]
      /\ task'[a] = how /\ (\A c \in Caller \ {a} : task'[c] = task[c])
      /\ doomed' = doomed \ {a}
  BY <1>1 DEF Ends, TaskTypeOK
<1>3. /\ mail' \in [Sub -> {"none", "bus", "pending", "read"}]
      /\ mail'[a] = (IF how = "announced" THEN "bus" ELSE "none")
      /\ \A b \in Sub \ {a} : mail'[b] = mail[b]
  BY <1>1 DEF TaskTypeOK
<1>4. TaskTypeOK'
  BY <1>2, <1>3 DEF TaskTypeOK
<1>5. \A b \in Sub : b \in Caller
  BY DEF Sub
<1>6. MailOK'
  BY <1>2, <1>3, <1>5 DEF MailOK
<1>7. TasksOK'
  <2>1. \A b \in Sub : mail'[b] = "pending" => task'[Turn] \in Live
    BY <1>1, <1>2, <1>3 DEF TasksOK
  <2>2. \A c \in Caller : call'[c] # NoCall => task'[c] = "running"
    BY <1>2 DEF TasksOK
  <2>3. \A b \in Sub : b \in doomed' => task'[b] = "running"
    BY <1>2, <1>5 DEF TasksOK
  <2>4. stop' = "subagents" => task'[Turn] \notin Live
    BY <1>1, <1>2 DEF TasksOK
  <2>5. stop' = "subagents" => \A b \in Sub : task'[b] = "running" => b \in doomed'
    BY <1>2, <1>5 DEF TasksOK
  <2> QED
    BY <2>1, <2>2, <2>3, <2>4, <2>5 DEF TasksOK
<1> QED
  BY <1>4, <1>6, <1>7

LEMMA AnswerTravels ==
  ASSUME ChatOK, NEW a \in Sub, Spawn(a) \/ Inject(a)
  PROVE  TaskTypeOK' /\ MailOK' /\ TasksOK'
<1> USE TurnIsCaller DEF ChatOK
<1>1. CASE Spawn(a)
  <2>1. UNCHANGED <<call, doomed, mail, stop>> /\ task[Turn] = "running" /\ task[a] = "none"
        /\ task' = [task EXCEPT ![a] = "running"]
    BY <1>1 DEF Spawn, Idle, execVars
  <2>2. task'[a] = "running" /\ \A c \in Caller \ {a} : task'[c] = task[c]
    BY <2>1 DEF TaskTypeOK
  <2>3. TaskTypeOK'
    BY <2>1 DEF TaskTypeOK
  <2>4. MailOK'
    BY <2>1, <2>2 DEF MailOK
  <2>5. stop # "subagents"
    BY <2>1 DEF TasksOK, Live
  <2>6. TasksOK'
    BY <2>1, <2>2, <2>5 DEF TasksOK, Live
  <2> QED
    BY <2>3, <2>4, <2>6
<1>2. CASE Inject(a)
  <2>1. UNCHANGED <<call, task, doomed, stop>> /\ task[Turn] \in Live /\ mail[a] = "bus"
        /\ mail' = [mail EXCEPT ![a] = "pending"]
    BY <1>2 DEF Inject, execVars
  <2>2. mail'[a] = "pending" /\ \A b \in Sub \ {a} : mail'[b] = mail[b]
    BY <2>1 DEF TaskTypeOK
  <2>3. TaskTypeOK'
    BY <2>1 DEF TaskTypeOK
  <2>4. MailOK'
    BY <2>1, <2>2 DEF MailOK
  <2>5. TasksOK'
    BY <2>1, <2>2 DEF TasksOK
  <2> QED
    BY <2>3, <2>4, <2>5
<1> QED
  BY <1>1, <1>2

LEMMA StopGoesOn ==
  ASSUME ChatOK, Stop \/ StopSubagents \/ Stopped
  PROVE  TaskTypeOK' /\ MailOK' /\ TasksOK'
<1> USE TurnIsCaller DEF ChatOK
<1>1. UNCHANGED <<call, task, mail>>
  BY DEF Stop, StopSubagents, Stopped, execVars
<1>2. TaskTypeOK'
  BY <1>1 DEF TaskTypeOK, Stop, StopSubagents, Stopped, Running
<1>3. MailOK'
  BY <1>1 DEF MailOK
<1>4. \A a \in Sub : a \in doomed' => task[a] = "running"
  BY DEF TasksOK, Stop, StopSubagents, Stopped, Running
<1>5. stop' = "subagents" => StopSubagents
  BY DEF Stop, Stopped, StopSubagents
<1>6. TasksOK'
  BY <1>1, <1>4, <1>5 DEF TasksOK, StopSubagents, Running
<1> QED
  BY <1>2, <1>3, <1>6

\* A step of a call is one of its caller's.
LEMMA CallStepShape ==
  ASSUME ExecOK, NEW c \in Caller, CallStep(c)
  PROVE  call[c] # NoCall /\ \A d \in Caller \ {c} : call'[d] = call[d]
<1>1. call[c].at # "idle"
  BY DEF CallStep, Acquire, Clean, Start, Cleaned, Spawned, List, Missing, Find, InputTaken,
         InputRefused, Killed, WaitOver, LateKilled, Drained, GraceOver, Pop
<1>2. call[c] # NoCall
  BY <1>1 DEF NoCall
<1>3. \A d \in Caller \ {c} : call'[d] = call[d]
  <2>1. call \in [Caller -> Calls]
    BY DEF ExecOK, ExecTypeOK
  <2>2. ASSUME NEW k, call' = [call EXCEPT ![c] = k] PROVE \A d \in Caller \ {c} : call'[d] = call[d]
    BY <2>1, <2>2
  <2>3. \E k : call' = [call EXCEPT ![c] = k]
    <3>1. CASE Acquire(c)
      BY <3>1 DEF Acquire
    <3>2. CASE Clean(c)
      BY <3>2 DEF Clean
    <3>3. CASE Start(c) \/ List(c) \/ Missing(c) \/ InputTaken(c) \/ InputRefused(c) \/ Killed(c) \/ Pop(c)
      BY <3>3 DEF Start, List, Missing, InputTaken, InputRefused, Killed, Pop, MoveTo, Return
    <3>4. CASE Spawned(c)
      BY <3>4 DEF Spawned, Return
    <3>5. CASE Find(c)
      BY <3>5 DEF Find
    <3>6. CASE WaitOver(c) \/ LateKilled(c)
      BY <3>6 DEF WaitOver, LateKilled, AwaitOutput, Take, MoveTo, Return
    <3>7. CASE Drained(c) \/ GraceOver(c)
      BY <3>7 DEF Drained, GraceOver, Take, TakeAndRepeat, Return
    <3> QED
      BY <3>1, <3>2, <3>3, <3>4, <3>5, <3>6, <3>7 DEF CallStep
  <2> QED
    BY <2>2, <2>3
<1> QED
  BY <1>2, <1>3

\* A running task makes a call, or goes on with the one it is in.
LEMMA Calling ==
  ASSUME ChatOK, NEW c \in Caller, BeginCall(c) \/ Step(c)
  PROVE  TaskTypeOK' /\ MailOK' /\ TasksOK'
<1> USE DEF ChatOK
<1>1. UNCHANGED <<task, doomed, mail, stop>>
  BY DEF BeginCall, Step, Rest
<1>2. task[c] = "running" /\ \A d \in Caller \ {c} : call'[d] = call[d]
  <2>1. CASE BeginCall(c)
    <3>1. task[c] = "running" /\ call' = [call EXCEPT ![c].at = "lock"]
      BY <2>1 DEF BeginCall, Idle, Begin, MoveTo
    <3> QED
      BY <3>1 DEF ExecOK, ExecTypeOK
  <2>2. CASE Step(c)
    <3>1. call[c] # NoCall /\ \A d \in Caller \ {c} : call'[d] = call[d]
      BY <2>2, CallStepShape DEF Step
    <3> QED
      BY <3>1 DEF TasksOK
  <2> QED
    BY <2>1, <2>2
<1>3. TaskTypeOK' /\ MailOK'
  BY <1>1 DEF TaskTypeOK, MailOK
<1>4. TasksOK'
  BY <1>1, <1>2 DEF TasksOK
<1> QED
  BY <1>3, <1>4

\* CancelledError reaches a caller, sent by /stop or raised by the readers of another.
LEMMA TaskStruck ==
  ASSUME ChatOK, NEW c \in Caller, StruckTask(c) \/ Cancelled(c)
  PROVE  TaskTypeOK' /\ MailOK' /\ TasksOK'
<1> USE TurnIsCaller DEF ChatOK
<1>1. call' = [call EXCEPT ![c] = NoCall] /\ stop' = stop
  BY DEF StruckTask, Struck, Cancelled, CancelCall, Return
<1>2. call'[c] = NoCall /\ \A d \in Caller \ {c} : call'[d] = call[d]
  BY <1>1 DEF ExecOK, ExecTypeOK
<1>3. CASE c = Turn
  <2>1. TurnOver("none")
    BY <1>3 DEF StruckTask, Cancelled
  <2> QED
    BY <1>1, <1>2, <1>3, <2>1, TurnEnds
<1>4. CASE c # Turn
  <2>1. c \in Sub
    BY <1>4
  <2>2. task[c] = "running"
    <3>1. CASE StruckTask(c)
      <4>1. call[c].at = "drain"
        BY <3>1 DEF StruckTask, Struck
      <4> QED
        BY <4>1 DEF NoCall, TasksOK
    <3>2. CASE Cancelled(c)
      BY <2>1, <3>2 DEF Cancelled, TasksOK
    <3> QED
      BY <3>1, <3>2
  <2>3. PICK how \in {"announced", "struck", "stopped"} :
          how # "announced" /\ Ends(c, how) /\ mail' = mail
    BY <1>4 DEF StruckTask, Cancelled
  <2>4. mail' = IF how = "announced" THEN [mail EXCEPT ![c] = "bus"] ELSE mail
    BY <2>3
  <2> QED
    BY <1>1, <1>2, <2>1, <2>2, <2>3, <2>4, SubagentEnds
<1> QED
  BY <1>3, <1>4

LEMMA Announces ==
  ASSUME ChatOK, NEW a \in Sub, Announce(a)
  PROVE  TaskTypeOK' /\ MailOK' /\ TasksOK'
<1>1. /\ call[a] = NoCall /\ task[a] = "running" /\ call' = call /\ stop' = stop
      /\ Ends(a, "announced") /\ mail' = [mail EXCEPT ![a] = "bus"]
  BY DEF Announce, Idle, execVars
<1>2. PICK how \in {"announced", "struck", "stopped"} : how = "announced"
  OBVIOUS
<1>3. mail' = IF how = "announced" THEN [mail EXCEPT ![a] = "bus"] ELSE mail
  BY <1>1, <1>2
<1> QED
  BY <1>1, <1>2, <1>3, SubagentEnds

LEMMA TasksRest ==
  ASSUME ChatOK, UNCHANGED <<call, task, doomed, mail, stop>>
  PROVE  TaskTypeOK' /\ MailOK' /\ TasksOK'
BY DEF ChatOK, TaskTypeOK, MailOK, TasksOK

LEMMA ChatKept ==
  ASSUME ChatOK, [Next]_vars
  PROVE  ChatOK'
<1>1. ExecOK'
  BY ExecKept DEF ChatOK
<1>2. CASE UNCHANGED vars
  <2>1. UNCHANGED <<call, task, doomed, mail, stop>>
    BY <1>2 DEF vars, execVars
  <2> QED
    BY <1>1, <2>1, TasksRest DEF ChatOK
<1>3. CASE StartTurn \/ Drain \/ WaitEnds \/ Continue \/ Stop \/ StopSubagents \/ Stopped
  <2>1. TaskTypeOK' /\ MailOK' /\ TasksOK'
    BY <1>3, TurnStarts, TurnDrains, TurnGoesOn, StopGoesOn
  <2> QED
    BY <1>1, <2>1 DEF ChatOK
<1>4. CASE EndTurn
  <2>1. TurnOver("none") /\ stop' = stop /\ call' = call /\ task[Turn] = "ending"
    BY <1>4 DEF EndTurn, execVars
  <2>2. call'[Turn] = NoCall
    BY <2>1, TurnIsCaller DEF ChatOK, TasksOK
  <2>3. TaskTypeOK' /\ MailOK' /\ TasksOK'
    BY <2>1, <2>2, TurnEnds
  <2> QED
    BY <1>1, <2>3 DEF ChatOK
<1>5. ASSUME NEW a \in Sub, Spawn(a) \/ Inject(a) \/ Announce(a) PROVE ChatOK'
  <2>1. TaskTypeOK' /\ MailOK' /\ TasksOK'
    BY <1>5, AnswerTravels, Announces
  <2> QED
    BY <1>1, <2>1 DEF ChatOK
<1>6. ASSUME NEW c \in Caller, BeginCall(c) \/ StruckTask(c) \/ Cancelled(c) \/ Step(c)
      PROVE  ChatOK'
  <2>1. TaskTypeOK' /\ MailOK' /\ TasksOK'
    BY <1>6, Calling, TaskStruck
  <2> QED
    BY <1>1, <2>1 DEF ChatOK
<1>7. ASSUME NEW s \in Sid, ProcessStep(s), Rest PROVE ChatOK'
  <2>1. UNCHANGED <<call, task, doomed, mail, stop>>
    BY <1>7 DEF ProcessStep, Produce, Exit, ReadStream, Rest
  <2> QED
    BY <1>1, <2>1, TasksRest DEF ChatOK
<1> QED
  BY <1>2, <1>3, <1>4, <1>5, <1>6, <1>7 DEF Next

\* A subagent that is over was announced exactly once, or stopped, or struck by a
\* CancelledError, which only a session that two calls used, or one of whose calls was
\* cancelled, can send it.  No announcement is lost on its way to a turn, and one in a pending
\* queue has a turn that will read it (agent/subagent.py _run_subagent, agent/loop.py
\* _dispatch); once /stop waits for the subagents, each that runs is cancelled
\* (agent/subagent.py cancel_by_session).
THEOREM AnswersReachATurn ==
  Spec => []AnswersKept
<1>1. Init => ChatOK
  <2> SUFFICES ASSUME Init PROVE ChatOK
    OBVIOUS
  <2>1. /\ task = [c \in Caller |-> "none"] /\ doomed = {} /\ stop = "no"
        /\ mail = [a \in Sub |-> "none"] /\ call = [c \in Caller |-> NoCall]
    BY DEF Init, ExecInit
  <2>2. TaskTypeOK /\ MailOK /\ TasksOK
    BY <2>1, TurnIsCaller DEF TaskTypeOK, MailOK, TasksOK
  <2> QED
    BY <2>2, ExecStarts DEF ChatOK
<1>2. ChatOK /\ [Next]_vars => ChatOK'
  BY ChatKept
<1>3. ChatOK => AnswersKept
  <2> SUFFICES ASSUME ChatOK PROVE AnswersKept
    OBVIOUS
  <2>1. \A a \in Sub : mail[a] \in IF task[a] = "announced" THEN {"bus", "pending", "read"}
                                   ELSE {"none"}
    BY DEF ChatOK, MailOK
  <2>2. InPlace("pending") # {} => task[Turn] \in Live
    BY DEF ChatOK, TasksOK, InPlace
  <2>3. ASSUME NEW c \in Caller, call[c].at = "drain", reader[call[c].sid] = "cut"
        PROVE  call[c].sid \in disturbed
    <3>1. call[c].sid \in Sid
      BY <2>3 DEF ChatOK, ExecOK, ExecTypeOK, Fits, Using, Calls
    <3> QED
      BY <2>3, <3>1 DEF ChatOK, ExecOK, CutOK
  <2>4. \A c \in Caller : call[c] # NoCall => task[c] = "running"
    BY DEF ChatOK, TasksOK
  <2>5. stop = "subagents" => Running \subseteq doomed
    BY DEF ChatOK, TasksOK, Running
  <2> QED
    BY <2>1, <2>2, <2>3, <2>4, <2>5 DEF AnswersKept
<1> QED
  BY <1>1, <1>2, <1>3, PTL DEF Spec

=============================================================================
