--------------------------- MODULE SyncLockProofs ---------------------------
(***************************************************************************)
(* Theorems about SyncLock, for any tasks, modes and bounds: what the lock *)
(* lets tasks do at the same time, that its bits count it, and that nobody *)
(* is left behind when it is free.                                         *)
(***************************************************************************)
EXTENDS SyncLock, Integers, FiniteSetTheorems, SequenceTheorems,
        WellFoundedInduction, TLAPS

-----------------------------------------------------------------------------
(* Sequences and what they hold. *)

LEMMA Least ==
  ASSUME NEW S, S \subseteq Nat, S # {}
  PROVE  Min(S) \in S /\ \A x \in S : Min(S) <= x
<1>1. PICK m \in S : \A x \in S : <<x, m>> \notin OpToRel(<, Nat)
  BY NatLessThanWellFounded, WFMin
<1>2. ASSUME NEW x \in S PROVE m <= x
  <2>1. x \in Nat /\ m \in Nat OBVIOUS
  <2>2. ~(x < m) BY <1>1, <2>1 DEF OpToRel
  <2> QED BY <2>1, <2>2
<1> QED BY <1>1, <1>2 DEF Min

\* No value is twice in the sequence.
Distinct(s) == \A i, j \in 1 .. Len(s) : s[i] = s[j] => i = j

\* What is left of a sequence from a place on.
LEMMA RestHolds ==
  ASSUME NEW S, NEW s \in Seq(S), NEW k \in 0 .. Len(s)
  PROVE  LET rest == SubSeq(s, k + 1, Len(s))
         IN /\ rest \in Seq(S)
            /\ ToSet(rest) = {s[i] : i \in k + 1 .. Len(s)}
            /\ Distinct(s) => Distinct(rest)
<1> DEFINE rest == SubSeq(s, k + 1, Len(s))
<1>1. Len(s) \in Nat /\ k \in Nat /\ k + 1 \in Int /\ k <= Len(s) BY LenProperties
<1>2. \A i \in k + 1 .. Len(s) : s[i] \in S BY <1>1, ElementOfSeq
<1>3. /\ rest \in Seq(S)
      /\ Len(rest) = IF k + 1 <= Len(s) THEN Len(s) - (k + 1) + 1 ELSE 0
      /\ \A i \in 1 .. Len(s) - (k + 1) + 1 : rest[i] = s[k + 1 + i - 1]
  BY <1>1, <1>2, SubSeqProperties
<1> HIDE DEF rest
<1>4. Len(rest) = Len(s) - k BY <1>1, <1>3
<1>5. \A i \in 1 .. Len(rest) : rest[i] = s[k + i] BY <1>1, <1>3, <1>4
<1>6. ToSet(rest) = {rest[i] : i \in 1 .. Len(rest)} BY <1>3, LenProperties DEF ToSet
<1>7. ToSet(rest) = {s[i] : i \in k + 1 .. Len(s)}
  <2>1. ASSUME NEW i \in k + 1 .. Len(s) PROVE s[i] \in ToSet(rest)
    <3>1. i - k \in 1 .. Len(rest) /\ k + (i - k) = i BY <1>1, <1>4
    <3> QED BY <3>1, <1>5, <1>6
  <2>2. ASSUME NEW i \in 1 .. Len(rest) PROVE rest[i] \in {s[j] : j \in k + 1 .. Len(s)}
    <3>1. k + i \in k + 1 .. Len(s) BY <1>1, <1>4
    <3> QED BY <3>1, <1>5
  <2> QED BY <2>1, <2>2, <1>6
<1>8. ASSUME Distinct(s) PROVE Distinct(rest)
  <2> SUFFICES ASSUME NEW i \in 1 .. Len(rest), NEW j \in 1 .. Len(rest), rest[i] = rest[j]
               PROVE  i = j
    BY DEF Distinct
  <2>1. k + i \in 1 .. Len(s) /\ k + j \in 1 .. Len(s) BY <1>1, <1>4
  <2>2. k + i = k + j BY <2>1, <1>5, <1>8 DEF Distinct
  <2> QED BY <2>2, <1>1
<1> QED BY <1>3, <1>7, <1>8 DEF rest

LEMMA AppendHolds ==
  ASSUME NEW S, NEW s \in Seq(S), NEW e \in S
  PROVE  /\ Append(s, e) \in Seq(S)
         /\ ToSet(Append(s, e)) = ToSet(s) \cup {e}
         /\ Distinct(s) /\ e \notin ToSet(s) => Distinct(Append(s, e))
<1> DEFINE u == Append(s, e)
<1>1. Len(s) \in Nat BY LenProperties
<1>2. /\ u \in Seq(S) /\ Len(u) = Len(s) + 1
      /\ \A i \in 1 .. Len(s) : u[i] = s[i]
      /\ u[Len(s) + 1] = e
  BY AppendProperties
<1> HIDE DEF u
<1>3. ToSet(s) = {s[i] : i \in 1 .. Len(s)} /\ ToSet(u) = {u[i] : i \in 1 .. Len(u)}
  BY <1>2, LenProperties DEF ToSet
<1>4. ToSet(u) = ToSet(s) \cup {e} BY <1>1, <1>2, <1>3
<1>5. ASSUME Distinct(s), e \notin ToSet(s) PROVE Distinct(u)
  BY <1>1, <1>2, <1>3, <1>5 DEF Distinct
<1> QED BY <1>2, <1>4, <1>5 DEF u

LEMMA ConsHolds ==
  ASSUME NEW S, NEW s \in Seq(S), NEW e \in S
  PROVE  /\ <<e>> \o s \in Seq(S)
         /\ ToSet(<<e>> \o s) = ToSet(s) \cup {e}
         /\ Distinct(s) /\ e \notin ToSet(s) => Distinct(<<e>> \o s)
<1> DEFINE u == <<e>> \o s
<1>1. Len(s) \in Nat /\ <<e>> \in Seq(S) /\ Len(<<e>>) = 1 /\ <<e>>[1] = e BY LenProperties
<1>2. /\ u \in Seq(S) /\ Len(u) = 1 + Len(s)
      /\ \A i \in 1 .. 1 + Len(s) : u[i] = IF i <= 1 THEN <<e>>[i] ELSE s[i - 1]
  BY <1>1, ConcatProperties
<1> HIDE DEF u
<1>3. /\ u[1] = e
      /\ \A i \in 1 .. Len(s) : u[i + 1] = s[i]
  <2>1. \A i \in 1 .. Len(s) : i + 1 \in 1 .. 1 + Len(s) /\ ~(i + 1 <= 1) /\ (i + 1) - 1 = i
    BY <1>1
  <2> QED BY <2>1, <1>1, <1>2
<1>4. ToSet(s) = {s[i] : i \in 1 .. Len(s)} /\ ToSet(u) = {u[i] : i \in 1 .. Len(u)}
  BY <1>2, LenProperties DEF ToSet
<1>5. \A j \in 1 .. Len(u) : j = 1 \/ \E i \in 1 .. Len(s) : j = i + 1
  <2> SUFFICES ASSUME NEW j \in 1 .. Len(u), j # 1 PROVE j - 1 \in 1 .. Len(s) /\ j = (j - 1) + 1
    OBVIOUS
  <2> QED BY <1>1, <1>2
<1>6. ToSet(u) = ToSet(s) \cup {e}
  <2>1. \A i \in 1 .. Len(s) : i + 1 \in 1 .. Len(u) BY <1>1, <1>2
  <2>2. 1 \in 1 .. Len(u) BY <1>1, <1>2
  <2>3. ToSet(s) \cup {e} \subseteq ToSet(u) BY <2>1, <2>2, <1>3, <1>4
  <2>4. ASSUME NEW j \in 1 .. Len(u) PROVE u[j] \in ToSet(s) \cup {e}
    <3>1. CASE j = 1 BY <3>1, <1>3
    <3>2. CASE j # 1
      <4>1. PICK i \in 1 .. Len(s) : j = i + 1 BY <3>2, <1>5
      <4> QED BY <4>1, <1>3, <1>4
    <3> QED BY <3>1, <3>2
  <2> QED BY <2>3, <2>4, <1>4
<1>7. ASSUME Distinct(s), e \notin ToSet(s) PROVE Distinct(u)
  <2> SUFFICES ASSUME NEW i \in 1 .. Len(u), NEW j \in 1 .. Len(u), u[i] = u[j]
               PROVE  i = j
    BY DEF Distinct
  <2>1. \A n \in 1 .. Len(s) : u[n + 1] # e BY <1>3, <1>4, <1>7
  <2>2. CASE i = 1 \/ j = 1 BY <2>1, <2>2, <1>3, <1>5
  <2>3. CASE i # 1 /\ j # 1
    <3>1. PICK a \in 1 .. Len(s) : i = a + 1 BY <2>3, <1>5
    <3>2. PICK b \in 1 .. Len(s) : j = b + 1 BY <2>3, <1>5
    <3>3. s[a] = s[b] BY <3>1, <3>2, <1>3
    <3> QED BY <3>1, <3>2, <3>3, <1>7 DEF Distinct
  <2> QED BY <2>2, <2>3
<1> QED BY <1>2, <1>6, <1>7 DEF u

\* What is left after the first of an element is taken out, and where.
LEMMA RemovePlaces ==
  ASSUME NEW S, NEW s \in Seq(S), NEW e
  PROVE  LET rest == RemoveFirst(s, e)
         IN \/ rest = s /\ \A i \in 1 .. Len(s) : s[i] # e
            \/ \E k \in 1 .. Len(s) :
                 /\ s[k] = e /\ rest \in Seq(S) /\ Len(rest) = Len(s) - 1
                 /\ \A i \in 1 .. Len(rest) : rest[i] = IF i < k THEN s[i] ELSE s[i + 1]
<1> DEFINE rest == RemoveFirst(s, e)
           Places == {i \in 1 .. Len(s) : s[i] = e}
           k == Min(Places)
<1>1. Len(s) \in Nat BY LenProperties
<1>2. CASE Places = {}
  <2>1. rest = s /\ \A i \in 1 .. Len(s) : s[i] # e BY <1>2 DEF RemoveFirst
  <2> QED BY <2>1
<1>3. CASE Places # {}
  <2>1. k \in Places
    <3>1. Places \subseteq Nat BY <1>1
    <3> QED BY <3>1, <1>3, Least
  <2>2. rest = SubSeq(s, 1, k - 1) \o SubSeq(s, k + 1, Len(s))
    BY <1>3 DEF RemoveFirst, RemoveAt, SelectInSeq
  <2> DEFINE a == SubSeq(s, 1, k - 1)
             b == SubSeq(s, k + 1, Len(s))
  <2> HIDE DEF rest, k
  <2>3. k \in 1 .. Len(s) /\ s[k] = e /\ k \in Nat /\ k >= 1 /\ k <= Len(s) BY <2>1, <1>1
  <2>4. /\ a \in Seq(S) /\ Len(a) = k - 1
        /\ \A i \in 1 .. k - 1 : a[i] = s[i]
    <3>1. \A i \in 1 .. k - 1 : s[i] \in S BY <1>1, <2>3, ElementOfSeq
    <3>2. k - 1 \in Int BY <2>3
    <3>3. /\ a \in Seq(S) /\ Len(a) = IF 1 <= k - 1 THEN (k - 1) - 1 + 1 ELSE 0
          /\ \A i \in 1 .. (k - 1) - 1 + 1 : a[i] = s[1 + i - 1]
      BY <3>1, <3>2, SubSeqProperties
    <3> QED BY <3>3, <2>3
  <2>5. /\ b \in Seq(S) /\ Len(b) = Len(s) - k
        /\ \A i \in 1 .. Len(s) - k : b[i] = s[k + i]
    <3>1. \A i \in k + 1 .. Len(s) : s[i] \in S BY <1>1, <2>3, ElementOfSeq
    <3>2. k + 1 \in Int /\ Len(s) \in Int BY <2>3, <1>1
    <3>3. /\ b \in Seq(S) /\ Len(b) = IF k + 1 <= Len(s) THEN Len(s) - (k + 1) + 1 ELSE 0
          /\ \A i \in 1 .. Len(s) - (k + 1) + 1 : b[i] = s[(k + 1) + i - 1]
      BY <3>1, <3>2, SubSeqProperties
    <3> QED BY <3>3, <2>3, <1>1
  <2> HIDE DEF a, b
  <2>6. /\ rest \in Seq(S) /\ Len(rest) = Len(s) - 1
        /\ \A i \in 1 .. Len(s) - 1 : rest[i] = IF i <= k - 1 THEN a[i] ELSE b[i - (k - 1)]
    <3>1. rest = a \o b BY <2>2 DEF a, b
    <3>2. Len(a) + Len(b) = Len(s) - 1 BY <2>3, <2>4, <2>5, <1>1
    <3>3. /\ a \o b \in Seq(S) /\ Len(a \o b) = Len(a) + Len(b)
          /\ \A i \in 1 .. Len(a) + Len(b) :
               (a \o b)[i] = IF i <= Len(a) THEN a[i] ELSE b[i - Len(a)]
      BY <2>4, <2>5, ConcatProperties
    <3> QED BY <3>1, <3>2, <3>3, <2>4
  <2>7. \A i \in 1 .. Len(rest) : rest[i] = IF i < k THEN s[i] ELSE s[i + 1]
    <3> SUFFICES ASSUME NEW i \in 1 .. Len(rest)
                 PROVE  rest[i] = IF i < k THEN s[i] ELSE s[i + 1]
      OBVIOUS
    <3>1. i \in 1 .. Len(s) - 1 BY <2>6
    <3>2. CASE i < k
      <4>1. i \in 1 .. k - 1 /\ i <= k - 1 BY <3>1, <3>2, <2>3, <1>1
      <4> QED BY <4>1, <3>1, <3>2, <2>3, <2>4, <2>6, <1>1
    <3>3. CASE ~(i < k)
      <4>1. ~(i <= k - 1) /\ i - (k - 1) \in 1 .. Len(s) - k /\ k + (i - (k - 1)) = i + 1
        BY <3>1, <3>3, <2>3, <1>1
      <4>2. rest[i] = s[i + 1] BY <4>1, <3>1, <2>5, <2>6
      <4> QED BY <4>2, <3>1, <3>3, <2>3, <1>1
    <3> QED BY <3>2, <3>3
  <2> HIDE DEF Places
  <2> QED BY <2>3, <2>6, <2>7 DEF rest
<1> QED BY <1>2, <1>3

LEMMA RemoveHolds ==
  ASSUME NEW S, NEW s \in Seq(S), NEW e
  PROVE  LET rest == RemoveFirst(s, e)
         IN /\ rest \in Seq(S) /\ ToSet(rest) \subseteq ToSet(s)
            /\ ToSet(s) \subseteq ToSet(rest) \cup {e}
            /\ Distinct(s) => Distinct(rest) /\ e \notin ToSet(rest)
<1> DEFINE rest == RemoveFirst(s, e)
<1>1. Len(s) \in Nat /\ ToSet(s) = {s[i] : i \in 1 .. Len(s)} BY LenProperties DEF ToSet
<1>2. CASE rest = s /\ \A i \in 1 .. Len(s) : s[i] # e
  <2>1. e \notin ToSet(s) BY <1>1, <1>2
  <2> QED BY <1>2, <2>1
<1> HIDE DEF rest
<1>3. ASSUME NEW k \in 1 .. Len(s), s[k] = e, rest \in Seq(S), Len(rest) = Len(s) - 1,
             \A i \in 1 .. Len(rest) : rest[i] = IF i < k THEN s[i] ELSE s[i + 1]
      PROVE  /\ rest \in Seq(S) /\ ToSet(rest) \subseteq ToSet(s)
             /\ ToSet(s) \subseteq ToSet(rest) \cup {e}
             /\ Distinct(s) => Distinct(rest) /\ e \notin ToSet(rest)
  <2> DEFINE at(i) == IF i < k THEN i ELSE i + 1
  <2>3. k \in 1 .. Len(s) /\ s[k] = e /\ k \in Nat /\ k >= 1 /\ k <= Len(s) BY <1>1, <1>3
  <2>6. rest \in Seq(S) /\ Len(rest) = Len(s) - 1 BY <1>3
  <2>7. \A i \in 1 .. Len(rest) : /\ at(i) \in 1 .. Len(s) /\ at(i) # k
                                 /\ rest[i] = s[at(i)]
    BY <1>1, <1>3
  <2>8. ToSet(rest) = {rest[i] : i \in 1 .. Len(rest)} BY <2>6, LenProperties DEF ToSet
  <2>9. ToSet(rest) \subseteq ToSet(s)
    <3> HIDE DEF at
    <3> QED BY <2>7, <2>8, <1>1
  <2>10. ASSUME Distinct(s) PROVE Distinct(rest)
    <3> SUFFICES ASSUME NEW i \in 1 .. Len(rest), NEW j \in 1 .. Len(rest), rest[i] = rest[j]
                 PROVE  i = j
      BY DEF Distinct
    <3>1. at(i) = at(j)
      <4> HIDE DEF at
      <4> QED BY <2>7, <2>10 DEF Distinct
    <3>2. i \in Int /\ j \in Int BY <2>6, <1>1
    <3> QED BY <3>1, <3>2, <2>3
  <2>11. ASSUME Distinct(s) PROVE e \notin ToSet(rest)
    <3> HIDE DEF at
    <3>1. ASSUME NEW i \in 1 .. Len(rest), rest[i] = e PROVE FALSE
      <4>1. at(i) \in 1 .. Len(s) /\ at(i) # k /\ s[at(i)] = s[k] BY <3>1, <2>3, <2>7
      <4> QED BY <4>1, <2>3, <2>11 DEF Distinct
    <3> QED BY <3>1, <2>8
  <2>12. ToSet(s) \subseteq ToSet(rest) \cup {e}
    <3> SUFFICES ASSUME NEW i \in 1 .. Len(s), s[i] # e PROVE s[i] \in ToSet(rest)
      BY <1>1
    <3>1. i # k BY <2>3
    <3>2. CASE i < k
      <4>1. i \in 1 .. Len(rest) /\ at(i) = i BY <3>2, <2>3, <2>6, <1>1
      <4> QED BY <4>1, <2>7, <2>8
    <3>3. CASE ~(i < k)
      <4>1. i - 1 \in 1 .. Len(rest) /\ at(i - 1) = i BY <3>1, <3>3, <2>3, <2>6, <1>1
      <4> QED BY <4>1, <2>7, <2>8
    <3> QED BY <3>2, <3>3
  <2> HIDE DEF at
  <2> QED BY <2>6, <2>9, <2>10, <2>11, <2>12
<1>4. \/ rest = s /\ \A i \in 1 .. Len(s) : s[i] # e
      \/ \E k \in 1 .. Len(s) :
           /\ s[k] = e /\ rest \in Seq(S) /\ Len(rest) = Len(s) - 1
           /\ \A i \in 1 .. Len(rest) : rest[i] = IF i < k THEN s[i] ELSE s[i + 1]
  BY RemovePlaces DEF rest
<1> QED BY <1>2, <1>3, <1>4 DEF rest

\* The places before the first that fails a test are as many as the last of them.
LEMMA PrefixCounts ==
  ASSUME NEW n \in Nat, NEW P \in SUBSET (1 .. n),
         \A i \in P : \A j \in 1 .. i : j \in P
  PROVE  Cardinality(P) \in 0 .. n /\ P = 1 .. Cardinality(P)
<1>1. PICK k \in 0 .. n : P = 1 .. k
  <2> DEFINE Out == (1 .. n) \ P
  <2>1. CASE Out = {}
    <3>1. P = 1 .. n BY <2>1
    <3>2. n \in 0 .. n OBVIOUS
    <3> QED BY <3>1, <3>2
  <2>2. CASE Out # {}
    <3>1. Min(Out) \in Out /\ \A x \in Out : Min(Out) <= x
      <4>1. Out \subseteq Nat OBVIOUS
      <4> HIDE DEF Out
      <4> QED BY <4>1, <2>2, Least
    <3>2. PICK m \in Out : \A x \in Out : m <= x BY <3>1
    <3>3. m \in Nat /\ m >= 1 /\ m <= n /\ m \notin P BY <3>2
    <3>4. \A i \in P : i < m
      <4> SUFFICES ASSUME NEW i \in P, ~(i < m) PROVE FALSE
        OBVIOUS
      <4>1. i \in 1 .. n OBVIOUS
      <4>2. m \in 1 .. i BY <4>1, <3>3
      <4> QED BY <4>2, <3>3
    <3>5. \A i \in 1 .. m - 1 : i \in P
      <4> SUFFICES ASSUME NEW i \in 1 .. m - 1, i \notin P PROVE FALSE
        OBVIOUS
      <4>1. i \in Out BY <3>3
      <4> QED BY <4>1, <3>2, <3>3
    <3>6. P = 1 .. m - 1
      <4>1. ASSUME NEW i \in P PROVE i \in 1 .. m - 1
        <5>1. i \in 1 .. n /\ i < m BY <3>4
        <5> QED BY <5>1, <3>3
      <4> QED BY <4>1, <3>5
    <3>7. m - 1 \in 0 .. n BY <3>3
    <3> QED BY <3>6, <3>7
  <2> QED BY <2>1, <2>2
<1>2. Cardinality(1 .. k) = IF 1 > k THEN 0 ELSE k - 1 + 1 BY FS_Interval
<1>3. Cardinality(1 .. k) = k BY <1>2
<1> QED BY <1>1, <1>3

-----------------------------------------------------------------------------
(* The invariant. *)

Trying == {"try", "mark", "enlist", "wait", "unlist"}

\* What a task has and how its wait ended fit where its call is.
CallInv ==
  \A t \in Tasks :
    /\ fired[t] = "HANDED" => pc[t] = "wait"
    /\ fired[t] = "WOKEN" => pc[t] \in {"wait", "tellAwait", "await"}
    /\ fired[t] = "CANCELLED" => pc[t] \in {"wait", "await", "unlist", "unchange"}
    /\ pc[t] \in {"unlist", "unchange"} => fired[t] = "CANCELLED"
    /\ writes[t] => reads[t] = 0 /\ pc[t] = "run"
    /\ pc[t] \in {"tellAwait", "await", "unchange"} => reads[t] = 0
    /\ pc[t] \in Trying => IF Exclusive(t) THEN reads[t] = 0 ELSE reads[t] < MaxReads

\* Who is in a list waits for what the list is of, and is in it once.
ListInv ==
  /\ Distinct(waiting)
  /\ \A t \in ToSet(waiting) : pc[t] \in {"wait", "unlist"} /\ fired[t] \in {"NONE", "CANCELLED"}
  /\ \A t \in changes :
       pc[t] \in {"tellAwait", "await", "unchange"} /\ fired[t] \in {"NONE", "CANCELLED"}

\* The bits count the holds, and who changes the value is alone.
HoldInv ==
  /\ writer = (\E t \in Tasks : Changing(t))
  /\ readers = Cardinality(ReadHolds)
  /\ writer => readers = 0
  /\ \A t, u \in Tasks : Changing(t) /\ Changing(u) => t = u

\* A change that came is on its way to whoever awaits one.
HeardInv ==
  /\ changes # {} => parked
  /\ \A t \in Tasks : missed[t] =>
       \/ fired[t] = "CANCELLED"
       \/ t \in changes /\ \E u \in Tasks : pc[u] = "release" /\ mode[u] = "change"

Inv == TypeOK /\ CallInv /\ ListInv /\ HoldInv /\ HeardInv

\* What Wakes takes out of the queue, and what it leaves.
Handed(alone) == IF starving THEN HandedTo(alone) ELSE {}
WokenOf == IF starving THEN {} ELSE WokenNext
Left(alone) ==
  IF starving THEN SubSeq(waiting, Cardinality(Passed(alone)) + 1, Len(waiting)) ELSE AfterWoken

LEMMA ReadingType ==
  ASSUME TypeOK, CallInv, NEW t \in Tasks
  PROVE  Reading(t) \in 0 .. MaxReads
<1>1. reads[t] \in 0 .. MaxReads /\ MaxReads \in Nat \ {0} BY SyncLockAssumption DEF TypeOK
<1>2. fired[t] = "HANDED" /\ ~Exclusive(t) => reads[t] < MaxReads BY DEF CallInv, Trying
<1> QED BY <1>1, <1>2 DEF Reading

LEMMA HoldsFinite == IsFiniteSet(ReadHolds)
<1>1. IsFiniteSet(1 .. MaxReads) BY SyncLockAssumption, FS_Interval
<1>2. IsFiniteSet(Tasks \X (1 .. MaxReads)) BY <1>1, SyncLockAssumption, FS_Product
<1>3. ReadHolds \in SUBSET (Tasks \X (1 .. MaxReads)) BY DEF ReadHolds
<1> QED BY <1>2, <1>3, FS_Subset

LEMMA NoHolds ==
  ASSUME TypeOK, CallInv, HoldInv, readers = 0
  PROVE  \A t \in Tasks : Reading(t) = 0
<1> SUFFICES ASSUME NEW t \in Tasks, Reading(t) # 0 PROVE FALSE
  OBVIOUS
<1>1. Reading(t) \in 0 .. MaxReads /\ MaxReads \in Nat BY ReadingType, SyncLockAssumption
<1>2. <<t, 1>> \in ReadHolds BY <1>1 DEF ReadHolds
<1> QED BY <1>2, HoldsFinite, FS_EmptySet DEF HoldInv

-----------------------------------------------------------------------------
(* How the holds change. *)

LEMMA HoldsSame ==
  ASSUME HoldInv, UNCHANGED <<writer, readers>>,
         \A t \in Tasks : Reading(t)' = Reading(t) /\ Changing(t)' = Changing(t)
  PROVE  HoldInv'
<1>1. ReadHolds' = ReadHolds BY DEF ReadHolds
<1> QED BY <1>1 DEF HoldInv

\* Each of some tasks has one hold more to read.
LEMMA HoldsMore ==
  ASSUME TypeOK, CallInv, NEW G \in SUBSET Tasks,
         \A t \in G : Reading(t) < MaxReads /\ Reading(t)' = Reading(t) + 1,
         \A t \in Tasks \ G : Reading(t)' = Reading(t)
  PROVE  Cardinality(ReadHolds') = Cardinality(ReadHolds) + Cardinality(G)
<1> DEFINE New == {<<t, Reading(t) + 1>> : t \in G}
           f == [t \in G |-> <<t, Reading(t) + 1>>]
<1>1. \A t \in Tasks : Reading(t) \in 0 .. MaxReads BY ReadingType
<1>2. MaxReads \in Nat BY SyncLockAssumption
<1>3. ReadHolds' = ReadHolds \cup New
  <2>1. ASSUME NEW t \in Tasks, NEW i \in 1 .. MaxReads
        PROVE  <<t, i>> \in ReadHolds' <=> <<t, i>> \in ReadHolds \/ <<t, i>> \in New
    <3>1. <<t, i>> \in New <=> t \in G /\ i = Reading(t) + 1 OBVIOUS
    <3>2. <<t, i>> \in ReadHolds' <=> i <= Reading(t)' BY DEF ReadHolds
    <3>3. <<t, i>> \in ReadHolds <=> i <= Reading(t) BY DEF ReadHolds
    <3>4. i \in Int /\ Reading(t) \in Int BY <1>1, <1>2
    <3> HIDE DEF New
    <3>5. CASE t \in G BY <3>1, <3>2, <3>3, <3>4, <3>5
    <3>6. CASE t \notin G BY <3>1, <3>2, <3>3, <3>4, <3>6
    <3> QED BY <3>5, <3>6
  <2>2. New \subseteq Tasks \X (1 .. MaxReads)
    <3>1. \A t \in G : Reading(t) + 1 \in 1 .. MaxReads BY <1>1, <1>2
    <3> QED BY <3>1
  <2>3. ReadHolds \subseteq Tasks \X (1 .. MaxReads) /\ ReadHolds' \subseteq Tasks \X (1 .. MaxReads)
    BY DEF ReadHolds
  <2> HIDE DEF New
  <2> QED BY <2>1, <2>2, <2>3
<1>4. ReadHolds \cap New = {}
  <2> SUFFICES ASSUME NEW t \in G, <<t, Reading(t) + 1>> \in ReadHolds PROVE FALSE
    OBVIOUS
  <2>1. Reading(t) + 1 <= Reading(t) BY DEF ReadHolds
  <2> QED BY <2>1, <1>1, <1>2
<1>5. IsFiniteSet(G) BY SyncLockAssumption, FS_Subset
<1>6. IsFiniteSet(New) /\ Cardinality(New) = Cardinality(G)
  <2>1. f \in [G -> New] OBVIOUS
  <2>2. \A t, u \in G : f[t] = f[u] => t = u OBVIOUS
  <2>3. \A n \in New : \E t \in G : f[t] = n OBVIOUS
  <2> HIDE DEF f, New
  <2>4. f \in Injection(G, New) /\ f \in Surjection(G, New)
    BY <2>1, <2>2, <2>3 DEF Injection, Surjection, IsInjective
  <2>5. f \in Bijection(G, New) BY <2>4 DEF Bijection
  <2>6. ExistsBijection(G, New) BY <2>5 DEF ExistsBijection
  <2> QED BY <2>6, <1>5, FS_Bijection
<1> HIDE DEF New
<1>7. Cardinality(ReadHolds \cap New) = 0 BY <1>4, FS_EmptySet
<1>8. Cardinality(ReadHolds) \in Nat /\ Cardinality(G) \in Nat
  BY <1>5, HoldsFinite, FS_CardinalityType
<1>9. Cardinality(ReadHolds \cup New)
        = Cardinality(ReadHolds) + Cardinality(New) - Cardinality(ReadHolds \cap New)
  BY <1>6, HoldsFinite, FS_Union
<1> QED BY <1>3, <1>6, <1>7, <1>8, <1>9

\* A task lets one go.
LEMMA HoldsLess ==
  ASSUME TypeOK, CallInv, NEW t \in Tasks, Reading(t) > 0, Reading(t)' = Reading(t) - 1,
         \A u \in Tasks \ {t} : Reading(u)' = Reading(u)
  PROVE  /\ Cardinality(ReadHolds) > 0
         /\ Cardinality(ReadHolds') = Cardinality(ReadHolds) - 1
<1>1. \A u \in Tasks : Reading(u) \in 0 .. MaxReads BY ReadingType
<1>2. MaxReads \in Nat BY SyncLockAssumption
<1>3. Reading(t) \in 1 .. MaxReads BY <1>1, <1>2
<1>4. <<t, Reading(t)>> \in ReadHolds BY <1>3, <1>2 DEF ReadHolds
<1>5. ReadHolds' = ReadHolds \ {<<t, Reading(t)>>}
  <2>1. ASSUME NEW u \in Tasks, NEW i \in 1 .. MaxReads
        PROVE  <<u, i>> \in ReadHolds' <=> <<u, i>> \in ReadHolds /\ ~(u = t /\ i = Reading(t))
    <3>1. <<u, i>> \in ReadHolds' <=> i <= Reading(u)' BY DEF ReadHolds
    <3>2. <<u, i>> \in ReadHolds <=> i <= Reading(u) BY DEF ReadHolds
    <3>3. i \in Int /\ Reading(u) \in Int BY <1>1, <1>2
    <3>4. CASE u = t BY <3>1, <3>2, <3>3, <3>4
    <3>5. CASE u # t BY <3>1, <3>2, <3>5
    <3> QED BY <3>4, <3>5
  <2>2. ReadHolds \subseteq Tasks \X (1 .. MaxReads) /\ ReadHolds' \subseteq Tasks \X (1 .. MaxReads)
    BY DEF ReadHolds
  <2> QED BY <2>1, <2>2
<1>6. Cardinality(ReadHolds) \in Nat /\ Cardinality(ReadHolds) # 0
  BY <1>4, HoldsFinite, FS_CardinalityType, FS_EmptySet
<1>7. Cardinality(ReadHolds \ {<<t, Reading(t)>>}) = Cardinality(ReadHolds) - 1
  BY <1>4, HoldsFinite, FS_RemoveElement
<1> QED BY <1>5, <1>6, <1>7

-----------------------------------------------------------------------------
(* What a release does to the queue. *)

LEMMA StarvingQueue ==
  ASSUME TypeOK, ListInv, starving, NEW alone \in BOOLEAN
  PROVE  /\ HandedTo(alone) \subseteq {u \in ToSet(waiting) : Waits(u)}
         /\ Left(alone) \in Seq(Tasks) /\ Distinct(Left(alone))
         /\ ToSet(Left(alone)) \subseteq ToSet(waiting) \ HandedTo(alone)
         /\ alone => HandedTo(alone) = {}
         /\ \A u \in HandedTo(alone) : Exclusive(u) => readers = 0 /\ HandedTo(alone) = {u}
         /\ \A u \in HandedTo(alone) : \E i \in 1 .. Len(waiting) :
              /\ waiting[i] = u
              /\ \A j \in 1 .. i - 1 : Waits(waiting[j]) => waiting[j] \in HandedTo(alone)
<1> DEFINE n == Len(waiting)
           P == Passed(alone)
           k == Cardinality(P)
           H == HandedTo(alone)
<1>1. waiting \in Seq(Tasks) /\ n \in Nat /\ ToSet(waiting) = {waiting[i] : i \in 1 .. n}
  <2>1. waiting \in Seq(Tasks) BY DEF TypeOK
  <2> QED BY <2>1, LenProperties DEF ToSet
<1>2. P \subseteq 1 .. n /\ \A i \in P : \A j \in 1 .. i : j \in P /\ Granted(j, alone)
  <2> SUFFICES ASSUME NEW i \in P, NEW j \in 1 .. i
               PROVE  i \in 1 .. n /\ j \in P /\ Granted(j, alone)
    BY DEF Passed
  <2>1. i \in 1 .. n /\ \A a \in 1 .. i : Granted(a, alone) BY DEF Passed
  <2>2. j \in 1 .. n /\ 1 .. j \subseteq 1 .. i BY <2>1, <1>1
  <2> QED BY <2>1, <2>2 DEF Passed
<1>3. H = {waiting[i] : i \in {j \in P : Waits(waiting[j])}} BY DEF HandedTo
<1> HIDE DEF P, H
<1>4. k \in 0 .. n /\ P = 1 .. k
  <2> HIDE DEF n
  <2> QED BY <1>1, <1>2, PrefixCounts
<1>5. Left(alone) = SubSeq(waiting, k + 1, n) BY DEF Left, P
<1>6. /\ Left(alone) \in Seq(Tasks) /\ Distinct(Left(alone))
      /\ ToSet(Left(alone)) = {waiting[i] : i \in k + 1 .. n}
  BY <1>1, <1>4, <1>5, RestHolds DEF ListInv
<1>7. H \subseteq {u \in ToSet(waiting) : Waits(u)} BY <1>1, <1>2, <1>3
<1>8. ToSet(Left(alone)) \subseteq ToSet(waiting) \ H
  <2> SUFFICES ASSUME NEW i \in k + 1 .. n, waiting[i] \in H PROVE FALSE
    <3>1. \A i \in k + 1 .. n : i \in 1 .. n BY <1>1, <1>4
    <3> QED BY <3>1, <1>1, <1>6
  <2>1. PICK j \in P : waiting[i] = waiting[j] BY <1>3
  <2>2. i \in 1 .. n /\ j \in 1 .. n /\ j \in 1 .. k BY <1>1, <1>4
  <2>3. i = j BY <2>1, <2>2 DEF ListInv, Distinct
  <2> QED BY <2>2, <2>3, <1>1, <1>4
<1>9. alone => H = {}
  <2> SUFFICES ASSUME alone, NEW i \in P PROVE FALSE
    BY <1>3
  <2>1. i \in 1 .. i BY <1>1, <1>2
  <2> QED BY <2>1, <1>2 DEF Granted
<1>10. ASSUME NEW i \in P, NEW j \in P, j < i, Waits(waiting[j])
       PROVE  ~Exclusive(waiting[j]) /\ ~Exclusive(waiting[i])
  <2>1. i \in 1 .. i /\ j \in 1 .. i - 1 BY <1>1, <1>2, <1>10
  <2> QED BY <2>1, <1>2, <1>10 DEF Granted
<1>11. ASSUME NEW u \in H, Exclusive(u) PROVE readers = 0 /\ H = {u}
  <2>1. PICK i \in P : waiting[i] = u /\ Waits(u) BY <1>3
  <2>2. readers = 0
    <3>1. i \in 1 .. i BY <1>1, <1>2
    <3> QED BY <3>1, <2>1, <1>2, <1>11 DEF Granted
  <2>3. ASSUME NEW v \in H PROVE v = u
    <3>1. PICK j \in P : waiting[j] = v /\ Waits(v) BY <1>3
    <3>2. ~(i < j) /\ ~(j < i) BY <2>1, <3>1, <1>10, <1>11
    <3>3. i \in Int /\ j \in Int BY <1>1, <1>2
    <3> QED BY <2>1, <3>1, <3>2, <3>3
  <2> QED BY <2>2, <2>3
<1>12. ASSUME NEW u \in H
       PROVE  \E i \in 1 .. n : /\ waiting[i] = u
                               /\ \A j \in 1 .. i - 1 : Waits(waiting[j]) => waiting[j] \in H
  <2>1. PICK i \in P : waiting[i] = u BY <1>3
  <2>2. \A j \in 1 .. i - 1 : j \in 1 .. i BY <1>1, <1>2
  <2> QED BY <2>1, <2>2, <1>2, <1>3
<1> QED BY <1>6, <1>7, <1>8, <1>9, <1>11, <1>12 DEF H

LEMMA CalmQueue ==
  ASSUME TypeOK, ListInv, ~starving
  PROVE  /\ WokenNext \subseteq {u \in ToSet(waiting) : Waits(u)}
         /\ AfterWoken \in Seq(Tasks) /\ Distinct(AfterWoken)
         /\ ToSet(AfterWoken) \subseteq ToSet(waiting) \ WokenNext
<1> DEFINE n == Len(waiting)
           I == {i \in 1 .. n : Waits(waiting[i])}
<1>1. waiting \in Seq(Tasks) /\ n \in Nat /\ ToSet(waiting) = {waiting[i] : i \in 1 .. n}
  <2>1. waiting \in Seq(Tasks) BY DEF TypeOK
  <2> QED BY <2>1, LenProperties DEF ToSet
<1>2. First = IF I # {} THEN Min(I) ELSE 0 BY DEF First, SelectInSeq
<1>3. CASE First = 0
  <2>1. WokenNext = {} /\ AfterWoken = <<>> BY <1>3 DEF WokenNext, AfterWoken
  <2>2. <<>> \in Seq(Tasks) /\ ToSet(<<>>) = {} /\ Len(<<>>) = 0 BY DEF ToSet
  <2>3. Distinct(<<>>) BY <2>2 DEF Distinct
  <2> QED BY <2>1, <2>2, <2>3
<1>4. CASE First # 0
  <2>1. First \in I
    <3>1. I \subseteq Nat BY <1>1
    <3> HIDE DEF I
    <3> QED BY <3>1, <1>2, <1>4, Least
  <2>2. First \in 1 .. n /\ Waits(waiting[First]) /\ First \in 0 .. n BY <2>1, <1>1
  <2>3. WokenNext = {waiting[First]} /\ AfterWoken = SubSeq(waiting, First + 1, n)
    BY <1>4 DEF WokenNext, AfterWoken
  <2> HIDE DEF n
  <2>4. /\ AfterWoken \in Seq(Tasks) /\ Distinct(AfterWoken)
        /\ ToSet(AfterWoken) = {waiting[i] : i \in First + 1 .. n}
    BY <2>2, <2>3, <1>1, RestHolds DEF ListInv, n
  <2>5. \A i \in First + 1 .. n : i \in 1 .. n /\ i # First BY <2>2, <1>1
  <2>6. \A i \in First + 1 .. n : waiting[i] # waiting[First]
    BY <2>2, <2>5 DEF ListInv, Distinct, n
  <2> QED BY <2>2, <2>3, <2>4, <2>5, <2>6, <1>1
<1> QED BY <1>3, <1>4

\* Whoever is taken out of the queue waited in it and is not in what is left.
LEMMA QueueParts ==
  ASSUME TypeOK, ListInv, NEW alone \in BOOLEAN
  PROVE  /\ Handed(alone) \cup WokenOf \subseteq {u \in ToSet(waiting) : Waits(u)}
         /\ Left(alone) \in Seq(Tasks) /\ Distinct(Left(alone))
         /\ ToSet(Left(alone)) \subseteq ToSet(waiting) \ (Handed(alone) \cup WokenOf)
         /\ alone => Handed(alone) = {}
         /\ \A u \in Handed(alone) : Exclusive(u) => readers = 0 /\ Handed(alone) = {u}
<1>1. CASE starving BY <1>1, StarvingQueue DEF Handed, WokenOf
<1>2. CASE ~starving BY <1>2, CalmQueue DEF Handed, WokenOf, Left
<1> QED BY <1>1, <1>2

LEMMA WaitingTasks == ASSUME TypeOK PROVE ToSet(waiting) \subseteq Tasks
<1>1. waiting \in Seq(Tasks) BY DEF TypeOK
<1> QED BY <1>1, LenProperties, ElementOfSeq DEF ToSet

-----------------------------------------------------------------------------
(* The initial state. *)

LEMMA InitInv == Init => Inv
<1> SUFFICES ASSUME Init PROVE Inv
  OBVIOUS
<1> USE DEF Init
<1>1. TypeOK
  <2>1. <<>> \in Seq(Tasks) OBVIOUS
  <2>2. 0 \in 0 .. MaxLosses /\ 0 \in 0 .. MaxReads BY SyncLockAssumption
  <2> QED BY <2>1, <2>2 DEF TypeOK, Pcs, AllModes
<1>2. CallInv BY DEF CallInv, Trying
<1>3. ListInv BY DEF ListInv, Distinct, ToSet
<1>4. HoldInv
  <2>1. \A t \in Tasks : ~Changing(t) /\ Reading(t) = 0 BY DEF Changing, Reading
  <2>2. ReadHolds = {}
    <3> SUFFICES ASSUME NEW t \in Tasks, NEW i \in 1 .. MaxReads, i <= Reading(t) PROVE FALSE
      BY DEF ReadHolds
    <3> QED BY <2>1, SyncLockAssumption
  <2> QED BY <2>1, <2>2, FS_EmptySet DEF HoldInv
<1>5. HeardInv BY DEF HeardInv
<1> QED BY <1>1, <1>2, <1>3, <1>4, <1>5 DEF Inv

-----------------------------------------------------------------------------
(* The types. *)

LEMMA ReleaseTypes ==
  ASSUME TypeOK, ListInv, NEW t \in Tasks, NEW alone \in BOOLEAN,
         NEW heard \in SUBSET Tasks, NEW awaiting \in SUBSET Tasks,
         Wakes(t, alone, heard, awaiting)
  PROVE  /\ writer' \in BOOLEAN /\ parked' \in BOOLEAN /\ starving' \in BOOLEAN
         /\ readers' \in Nat
         /\ waiting' \in Seq(Tasks) /\ changes' \subseteq Tasks
         /\ fired' \in [Tasks -> {"NONE", "WOKEN", "HANDED", "CANCELLED"}]
         /\ tell' \in [Tasks -> SUBSET Tasks]
         /\ missed' \in [Tasks -> BOOLEAN]
<1>1. Handed(alone) \cup WokenOf \subseteq Tasks /\ Left(alone) \in Seq(Tasks)
  BY QueueParts, WaitingTasks
<1>2. Cardinality({u \in Handed(alone) : ~Exclusive(u)}) \in Nat
  <2>1. {u \in Handed(alone) : ~Exclusive(u)} \in SUBSET Tasks BY <1>1
  <2> QED BY <2>1, SyncLockAssumption, FS_Subset, FS_CardinalityType
<1>0. /\ waiting' = Left(alone) /\ changes' = awaiting
      /\ starving' = Starves(Left(alone)) /\ parked' = StillParked(t, Left(alone), awaiting)
      /\ writer' = (alone \/ \E u \in Handed(alone) : Exclusive(u))
      /\ missed' = [u \in Tasks |-> missed[u] /\ u \notin heard]
      /\ readers' = readers + Cardinality({u \in Handed(alone) : ~Exclusive(u)})
      /\ fired' = [u \in Tasks |-> IF u \in Handed(alone) THEN "HANDED"
                                   ELSE IF u \in heard \cup WokenOf THEN "WOKEN" ELSE fired[u]]
      /\ tell' = [tell EXCEPT ![t] = Handed(alone) \cup (heard \cup WokenOf)]
  BY DEF Wakes, Handed, WokenOf, Left
<1>3. readers' \in Nat
  <2>1. readers \in Nat BY DEF TypeOK
  <2> QED BY <2>1, <1>0, <1>2
<1>4. writer' \in BOOLEAN /\ parked' \in BOOLEAN /\ starving' \in BOOLEAN
  BY <1>0 DEF TypeOK, Starves, StillParked
<1>5. waiting' \in Seq(Tasks) /\ changes' \subseteq Tasks BY <1>0, <1>1
<1>6. fired' \in [Tasks -> {"NONE", "WOKEN", "HANDED", "CANCELLED"}] BY <1>0 DEF TypeOK
<1>7. tell' \in [Tasks -> SUBSET Tasks]
  <2>1. tell \in [Tasks -> SUBSET Tasks] BY DEF TypeOK
  <2>2. Handed(alone) \cup (heard \cup WokenOf) \in SUBSET Tasks BY <1>1
  <2> QED BY <2>1, <2>2, <1>0
<1>8. missed' \in [Tasks -> BOOLEAN] BY <1>0 DEF TypeOK
<1> QED BY <1>3, <1>4, <1>5, <1>6, <1>7, <1>8

LEMMA TypesStep == ASSUME TypeOK, CallInv, ListInv, HoldInv, Next PROVE TypeOK'
<1> USE DEF stateVars, queueVars, waitVars, callVars, heldVars
<1>1. PICK t \in Tasks :
        Step(t) \/ Unlock(t) \/ Await(t) \/ Cancel(t) \/ \E m \in Modes : Lock(t, m)
  BY DEF Next
<1>2. MaxReads \in Nat \ {0} /\ MaxLosses \in Nat \ {0} BY SyncLockAssumption
<1>3. ASSUME TakeBits(t), Hold(t), pc[t] \in Trying
      PROVE  /\ writer' \in BOOLEAN /\ readers' \in Nat
             /\ reads' \in [Tasks -> 0 .. MaxReads] /\ writes' \in [Tasks -> BOOLEAN]
             /\ since' \in Seq(Tasks)
  <2>1. Exclusive(t) \/ reads[t] < MaxReads BY <1>3 DEF CallInv
  <2>2. since' \in Seq(Tasks)
    <3>1. since \in Seq(Tasks) BY DEF TypeOK
    <3> QED BY <3>1, <1>3, RemoveHolds DEF Hold
  <2>3. writer' \in BOOLEAN /\ readers' \in Nat
    <3>1. writer \in BOOLEAN /\ readers \in Nat BY DEF TypeOK
    <3>2. writer' = writer \/ writer' = TRUE BY <1>3 DEF TakeBits
    <3>3. readers' = readers \/ readers' = readers + 1 BY <1>3 DEF TakeBits
    <3>4. writer' \in BOOLEAN BY <3>1, <3>2
    <3>5. readers' \in Nat BY <3>1, <3>3
    <3> QED BY <3>4, <3>5
  <2>4. reads' \in [Tasks -> 0 .. MaxReads] /\ writes' \in [Tasks -> BOOLEAN]
    <3>1. reads \in [Tasks -> 0 .. MaxReads] /\ writes \in [Tasks -> BOOLEAN] BY DEF TypeOK
    <3>2. CASE Exclusive(t) BY <3>1, <3>2, <1>3 DEF Hold
    <3>3. CASE ~Exclusive(t)
      <4>1. reads[t] + 1 \in 0 .. MaxReads BY <3>1, <3>3, <2>1, <1>2
      <4> QED BY <3>1, <3>3, <4>1, <1>3 DEF Hold
    <3> QED BY <3>2, <3>3
  <2> QED BY <2>2, <2>3, <2>4
<1>4. CASE Take(t)
  <2>1. pc' \in [Tasks -> Pcs] BY <1>4 DEF Take, Goes, TypeOK, Pcs
  <2> QED BY <2>1, <1>3, <1>4 DEF Take, Goes, Trying, TypeOK
<1>5. CASE Lose(t)
  <2>1. pc' \in [Tasks -> Pcs] BY <1>5 DEF Lose, Goes, TypeOK, Pcs
  <2> QED BY <2>1, <1>5 DEF Lose, TypeOK
<1>6. CASE Mark(t)
  <2>1. pc' \in [Tasks -> Pcs] BY <1>6 DEF Mark, Goes, TypeOK, Pcs
  <2> QED BY <2>1, <1>6 DEF Mark, TypeOK
<1>7. CASE Enlist(t)
  <2>1. pc' \in [Tasks -> Pcs]
    <3>1. \E to \in Pcs : pc' = [pc EXCEPT ![t] = to] BY <1>7 DEF Enlist, Goes, Pcs
    <3> QED BY <3>1 DEF TypeOK
  <2>2. CASE Free(t) BY <2>1, <2>2, <1>3, <1>7 DEF Enlist, Trying, TypeOK
  <2>3. CASE ~Free(t)
    <3>1. waiting \in Seq(Tasks) /\ since \in Seq(Tasks) BY DEF TypeOK
    <3>2. waiting' \in Seq(Tasks)
      <4>1. Append(waiting, t) \in Seq(Tasks) BY <3>1, AppendHolds
      <4>2. <<t>> \o waiting \in Seq(Tasks) BY <3>1, ConsHolds
      <4>3. waiting' \in {Append(waiting, t), <<t>> \o waiting} BY <2>3, <1>7 DEF Enlist
      <4> QED BY <4>1, <4>2, <4>3
    <3>3. since' \in Seq(Tasks)
      <4>1. Append(since, t) \in Seq(Tasks) BY <3>1, AppendHolds
      <4>2. since' \in {since, Append(since, t)} BY <2>3, <1>7 DEF Enlist
      <4> QED BY <3>1, <4>1, <4>2
    <3>4. starving' \in BOOLEAN BY <2>3, <1>7 DEF Enlist, TypeOK
    <3> QED BY <2>1, <2>3, <3>2, <3>3, <3>4, <1>7 DEF Enlist, TypeOK
  <2> QED BY <2>2, <2>3
<1>8. CASE Woken(t)
  <2>1. pc' \in [Tasks -> Pcs]
    <3>1. \E to \in Pcs : pc' = [pc EXCEPT ![t] = to] BY <1>8 DEF Woken, Goes, Pcs
    <3> QED BY <3>1 DEF TypeOK
  <2>2. fired' \in [Tasks -> {"NONE", "WOKEN", "HANDED", "CANCELLED"}] /\ told' \in [Tasks -> BOOLEAN]
    BY <1>8 DEF Woken, Forgets, TypeOK
  <2>3. losses' \in [Tasks -> 0 .. MaxLosses]
    <3>1. losses \in [Tasks -> 0 .. MaxLosses] BY DEF TypeOK
    <3>2. (IF losses[t] < MaxLosses THEN losses[t] + 1 ELSE losses[t]) \in 0 .. MaxLosses BY <3>1, <1>2
    <3>3. \/ losses' = [losses EXCEPT ![t] = IF losses[t] < MaxLosses THEN losses[t] + 1 ELSE losses[t]]
          \/ losses' = losses
      BY <3>1, <1>8 DEF Woken
    <3> QED BY <3>1, <3>2, <3>3
  <2>4. CASE fired[t] = "HANDED"
    <3>1. Exclusive(t) \/ reads[t] < MaxReads BY <1>8 DEF Woken, CallInv, Trying
    <3>2. reads' \in [Tasks -> 0 .. MaxReads] /\ writes' \in [Tasks -> BOOLEAN]
      <4>1. reads \in [Tasks -> 0 .. MaxReads] /\ writes \in [Tasks -> BOOLEAN] BY DEF TypeOK
      <4>2. Hold(t) BY <2>4, <1>8 DEF Woken
      <4>3. CASE Exclusive(t) BY <4>1, <4>2, <4>3 DEF Hold
      <4>4. CASE ~Exclusive(t)
        <5>1. reads[t] + 1 \in 0 .. MaxReads BY <4>1, <4>4, <3>1, <1>2
        <5> QED BY <4>1, <4>2, <4>4, <5>1 DEF Hold
      <4> QED BY <4>3, <4>4
    <3>3. since' \in Seq(Tasks)
      <4>1. since \in Seq(Tasks) BY DEF TypeOK
      <4> QED BY <4>1, <2>4, <1>8, RemoveHolds DEF Woken, Hold
    <3> QED BY <2>1, <2>2, <2>3, <3>2, <3>3, <1>8 DEF Woken, TypeOK
  <2>5. CASE fired[t] # "HANDED" BY <2>1, <2>2, <2>3, <2>5, <1>8 DEF Woken, TypeOK
  <2> QED BY <2>4, <2>5
<1>9. CASE CancelClaims(t) BY <1>9 DEF CancelClaims, TypeOK
<1>10. CASE CancelledWait(t)
  <2>1. pc' \in [Tasks -> Pcs]
    <3>1. \E to \in Pcs : pc' = [pc EXCEPT ![t] = to] BY <1>10 DEF CancelledWait, Goes, Pcs
    <3> QED BY <3>1 DEF TypeOK
  <2> QED BY <2>1, <1>10 DEF CancelledWait, TypeOK
<1>11. CASE Unlist(t)
  <2>1. pc' \in [Tasks -> Pcs] BY <1>11 DEF Unlist, Goes, TypeOK, Pcs
  <2>2. waiting' \in Seq(Tasks) /\ since' \in Seq(Tasks)
    <3>1. waiting \in Seq(Tasks) /\ since \in Seq(Tasks) BY DEF TypeOK
    <3> QED BY <3>1, <1>11, RemoveHolds DEF Unlist
  <2>3. changes' \subseteq Tasks BY <1>11 DEF Unlist, TypeOK
  <2> QED BY <2>1, <2>2, <2>3, <1>11 DEF Unlist, Forgets, TypeOK
<1>12. CASE Release(t)
  <2>1. pc' \in [Tasks -> Pcs] BY <1>12 DEF Release, Goes, TypeOK, Pcs
  <2>2. writer \in BOOLEAN /\ Hearing \in SUBSET Tasks /\ changes \in SUBSET Tasks
    BY DEF TypeOK, Hearing
  <2>3. \E heard, awaiting \in SUBSET Tasks : Wakes(t, writer, heard, awaiting)
    BY <2>2, <1>12 DEF Release
  <2> QED BY <2>1, <2>2, <2>3, <1>12, ReleaseTypes DEF Release, TypeOK
<1>13. CASE Tell(t)
  <2>0. pc \in [Tasks -> Pcs] /\ told \in [Tasks -> BOOLEAN] /\ tell \in [Tasks -> SUBSET Tasks]
    BY DEF TypeOK
  <2>1. pc' \in [Tasks -> Pcs]
    <3>1. pc' = pc \/ \E to \in Pcs : pc' = [pc EXCEPT ![t] = to] BY <2>0, <1>13 DEF Tell, Pcs
    <3> QED BY <2>0, <3>1
  <2>2. told' \in [Tasks -> BOOLEAN] /\ tell' \in [Tasks -> SUBSET Tasks]
    <3>1. CASE tell[t] = {} BY <2>0, <3>1, <1>13 DEF Tell
    <3>2. CASE tell[t] # {}
      <4>1. PICK u \in tell[t] : /\ told' = [told EXCEPT ![u] = TRUE]
                                 /\ tell' = [tell EXCEPT ![t] = tell[t] \ {u}]
        BY <2>0, <3>2, <1>13 DEF Tell
      <4> QED BY <2>0, <4>1
    <3> QED BY <3>1, <3>2
  <2> QED BY <2>1, <2>2, <1>13 DEF Tell, TypeOK
<1>14. CASE Heard(t)
  <2>1. pc' \in [Tasks -> Pcs] BY <1>14 DEF Heard, Goes, TypeOK, Pcs
  <2> QED BY <2>1, <1>2, <1>14 DEF Heard, Forgets, TypeOK, AllModes
<1>15. CASE Unlock(t)
  <2>1. pc' \in [Tasks -> Pcs] BY <1>15 DEF Unlock, TypeOK, Pcs
  <2>2. mode' \in [Tasks -> AllModes] BY <1>15 DEF Unlock, TypeOK, AllModes
  <2>3. reads' \in [Tasks -> 0 .. MaxReads] /\ writes' \in [Tasks -> BOOLEAN]
    BY <1>2, <1>15 DEF Unlock, TypeOK
  <2>4. CASE writes[t]
    <3>1. missed' \in [Tasks -> BOOLEAN] BY <2>4, <1>15 DEF Unlock, Changed, TypeOK
    <3> QED BY <2>1, <2>2, <2>3, <2>4, <3>1, <1>15 DEF Unlock, TypeOK
  <2>5. CASE ~writes[t]
    <3>1. fired[t] # "HANDED" /\ reads[t] > 0 BY <2>5, <1>15 DEF Unlock, CallInv
    <3>2. <<t, 1>> \in ReadHolds
      <4>1. Reading(t) = reads[t] /\ reads[t] \in 0 .. MaxReads BY <3>1, <1>2 DEF Reading, TypeOK
      <4> QED BY <4>1, <3>1, <1>2 DEF ReadHolds
    <3>3. readers # 0 BY <3>2, HoldsFinite, FS_EmptySet DEF HoldInv
    <3>4. readers' \in Nat BY <2>5, <3>3, <1>15 DEF Unlock, TypeOK
    <3> QED BY <2>1, <2>2, <2>3, <2>5, <3>4, <1>15 DEF Unlock, TypeOK
  <2> QED BY <2>4, <2>5
<1>16. CASE Await(t)
  <2>1. pc' \in [Tasks -> Pcs] BY <1>16 DEF Await, Goes, TypeOK, Pcs
  <2>2. Hearing \in SUBSET Tasks /\ {t} \in SUBSET Tasks BY DEF TypeOK, Hearing
  <2>3. writes' \in [Tasks -> BOOLEAN] BY <1>16 DEF Await, TypeOK
  <2> QED BY <2>1, <2>2, <2>3, <1>16, ReleaseTypes DEF Await, TypeOK
<1>17. CASE Cancel(t) BY <1>17 DEF Cancel, TypeOK
<1>18. ASSUME NEW m \in Modes, Lock(t, m) PROVE TypeOK'
  <2>1. pc' \in [Tasks -> Pcs] BY <1>18 DEF Lock, Goes, TypeOK, Pcs
  <2>2. m \in AllModes BY SyncLockAssumption
  <2> QED BY <2>1, <2>2, <1>2, <1>18 DEF Lock, TypeOK
<1> QED BY <1>1, <1>4, <1>5, <1>6, <1>7, <1>8, <1>9, <1>10, <1>11, <1>12, <1>13, <1>14, <1>15, <1>16,
           <1>17, <1>18 DEF Step

-----------------------------------------------------------------------------
(* Where the calls are. *)

\* What a release does to the calls of others.
LEMMA ReleaseCalls ==
  ASSUME TypeOK, CallInv, ListInv, NEW t \in Tasks, NEW alone \in BOOLEAN, NEW awaiting,
         NEW heard \in SUBSET Hearing, Wakes(t, alone, heard, awaiting)
  PROVE  \A u \in Tasks :
           \/ fired'[u] = fired[u]
           \/ fired[u] = "NONE" /\ fired'[u] = "HANDED" /\ pc[u] = "wait" /\ u \in Handed(alone)
           \/ fired[u] = "NONE" /\ fired'[u] = "WOKEN" /\ pc[u] \in {"wait", "tellAwait", "await"}
<1>1. fired' = [u \in Tasks |-> IF u \in Handed(alone) THEN "HANDED"
                                ELSE IF u \in heard \cup WokenOf THEN "WOKEN" ELSE fired[u]]
  BY DEF Wakes, Handed, WokenOf, Left
<1>2. \A u \in Handed(alone) \cup WokenOf : u \in ToSet(waiting) /\ fired[u] = "NONE"
  BY QueueParts DEF Waits
<1>3. \A u \in heard : u \in changes /\ fired[u] = "NONE" BY DEF Hearing, Waits
<1>4. \A u \in ToSet(waiting) : fired[u] = "NONE" => pc[u] = "wait"
  <2> SUFFICES ASSUME NEW u \in ToSet(waiting), fired[u] = "NONE" PROVE pc[u] = "wait"
    OBVIOUS
  <2>1. u \in Tasks /\ pc[u] \in {"wait", "unlist"} BY WaitingTasks DEF ListInv
  <2> QED BY <2>1 DEF CallInv
<1>5. \A u \in changes : fired[u] = "NONE" => pc[u] \in {"tellAwait", "await"}
  <2> SUFFICES ASSUME NEW u \in changes, fired[u] = "NONE" PROVE pc[u] \in {"tellAwait", "await"}
    OBVIOUS
  <2>1. u \in Tasks /\ pc[u] \in {"tellAwait", "await", "unchange"} BY DEF ListInv, TypeOK
  <2> QED BY <2>1 DEF CallInv
<1> QED BY <1>1, <1>2, <1>3, <1>4, <1>5

LEMMA CallStep == ASSUME TypeOK, CallInv, ListInv, HoldInv, Next PROVE CallInv'
<1> USE DEF stateVars, queueVars, waitVars, callVars, heldVars
<1>1. PICK t \in Tasks :
        Step(t) \/ Unlock(t) \/ Await(t) \/ Cancel(t) \/ \E m \in Modes : Lock(t, m)
  BY DEF Next
<1>2. MaxReads \in Nat \ {0} BY SyncLockAssumption
<1>3. /\ pc \in [Tasks -> Pcs] /\ mode \in [Tasks -> AllModes]
      /\ fired \in [Tasks -> {"NONE", "WOKEN", "HANDED", "CANCELLED"}]
      /\ reads \in [Tasks -> 0 .. MaxReads] /\ writes \in [Tasks -> BOOLEAN]
  BY DEF TypeOK
<1>4. CASE Take(t) BY <1>3, <1>4 DEF Take, Goes, Hold, CallInv, Trying, Exclusive
<1>5. CASE Lose(t) BY <1>3, <1>5 DEF Lose, Goes, CallInv, Trying, Exclusive
<1>6. CASE Mark(t) BY <1>3, <1>6 DEF Mark, Goes, CallInv, Trying, Exclusive
<1>7. CASE Enlist(t)
  <2>1. CASE Free(t) BY <2>1, <1>3, <1>7 DEF Enlist, Goes, Hold, CallInv, Trying, Exclusive
  <2>2. CASE ~Free(t) BY <2>2, <1>3, <1>7 DEF Enlist, Goes, CallInv, Trying, Exclusive
  <2> QED BY <2>1, <2>2
<1>8. CASE Woken(t)
  <2>1. CASE fired[t] = "HANDED"
    BY <2>1, <1>3, <1>8 DEF Woken, Forgets, Goes, Hold, CallInv, Trying, Exclusive
  <2>2. CASE fired[t] # "HANDED"
    BY <2>2, <1>3, <1>8 DEF Woken, Forgets, Goes, CallInv, Trying, Exclusive
  <2> QED BY <2>1, <2>2
<1>9. CASE CancelClaims(t) BY <1>3, <1>9 DEF CancelClaims, CallInv, Trying, Exclusive
<1>10. CASE CancelledWait(t) BY <1>3, <1>10 DEF CancelledWait, Goes, CallInv, Trying, Exclusive
<1>11. CASE Unlist(t) BY <1>3, <1>11 DEF Unlist, Forgets, Goes, CallInv, Trying, Exclusive
<1>12. CASE Release(t)
  <2>1. writer \in BOOLEAN /\ {} \in SUBSET Hearing /\ Hearing \in SUBSET Hearing BY DEF TypeOK
  <2>2. \E heard \in SUBSET Hearing : \E awaiting \in SUBSET Tasks : Wakes(t, writer, heard, awaiting)
    <3>1. {} \in SUBSET Tasks /\ changes \in SUBSET Tasks BY DEF TypeOK
    <3> QED BY <2>1, <3>1, <1>12 DEF Release
  <2>3. \A u \in Tasks :
          \/ fired'[u] = fired[u]
          \/ fired[u] = "NONE" /\ fired'[u] = "HANDED" /\ pc[u] = "wait"
          \/ fired[u] = "NONE" /\ fired'[u] = "WOKEN" /\ pc[u] \in {"wait", "tellAwait", "await"}
    BY <2>1, <2>2, ReleaseCalls
  <2>4. /\ pc[t] = "release" /\ pc' = [pc EXCEPT ![t] = "tell"] /\ mode' = mode
        /\ reads' = reads /\ writes' = writes
    BY <1>12 DEF Release, Goes
  <2> QED BY <2>3, <2>4, <1>3 DEF CallInv, Trying, Exclusive
<1>13. CASE Tell(t) BY <1>3, <1>13 DEF Tell, CallInv, Trying, Exclusive
<1>14. CASE Heard(t) BY <1>3, <1>14 DEF Heard, Forgets, Goes, CallInv, Trying, Exclusive
<1>15. CASE Unlock(t)
  <2>1. pc' = [pc EXCEPT ![t] = "release"] \/ pc' = [pc EXCEPT ![t] = "run"]
    BY <1>15 DEF Unlock
  <2>2. /\ pc[t] = "run" /\ mode' = [mode EXCEPT ![t] = IF writes[t] THEN "change" ELSE "read"]
        /\ writes' = [writes EXCEPT ![t] = FALSE] /\ fired' = fired
        /\ reads' = [reads EXCEPT ![t] = IF writes[t] THEN reads[t] ELSE reads[t] - 1]
    BY <1>3, <1>15 DEF Unlock
  <2> QED BY <2>1, <2>2, <1>3 DEF CallInv, Trying, Exclusive
<1>16. CASE Await(t)
  <2>1. Hearing \in SUBSET Hearing /\ Wakes(t, FALSE, Hearing, {t}) BY <1>16 DEF Await
  <2>2. \A u \in Tasks :
          \/ fired'[u] = fired[u]
          \/ fired[u] = "NONE" /\ fired'[u] = "HANDED" /\ pc[u] = "wait"
          \/ fired[u] = "NONE" /\ fired'[u] = "WOKEN" /\ pc[u] \in {"wait", "tellAwait", "await"}
    BY <2>1, ReleaseCalls
  <2>3. /\ pc[t] = "run" /\ pc' = [pc EXCEPT ![t] = "tellAwait"] /\ mode' = mode
        /\ reads' = reads /\ writes[t] /\ writes' = [writes EXCEPT ![t] = FALSE]
    BY <1>16 DEF Await, Goes
  <2> QED BY <2>2, <2>3, <1>3 DEF CallInv, Trying, Exclusive
<1>17. CASE Cancel(t) BY <1>3, <1>17 DEF Cancel, CallInv, Trying, Exclusive
<1>18. ASSUME NEW m \in Modes, Lock(t, m) PROVE CallInv'
  <2>1. m \in AllModes BY SyncLockAssumption
  <2> QED BY <2>1, <1>2, <1>3, <1>18 DEF Lock, Goes, CallInv, Trying, Exclusive, AllModes
<1> QED BY <1>1, <1>4, <1>5, <1>6, <1>7, <1>8, <1>9, <1>10, <1>11, <1>12, <1>13, <1>14, <1>15, <1>16,
           <1>17, <1>18 DEF Step

-----------------------------------------------------------------------------
(* The lists. *)

LEMMA ListStep == ASSUME TypeOK, CallInv, ListInv, Next PROVE ListInv'
<1> USE DEF stateVars, queueVars, waitVars, callVars, heldVars
<1>1. PICK t \in Tasks :
        Step(t) \/ Unlock(t) \/ Await(t) \/ Cancel(t) \/ \E m \in Modes : Lock(t, m)
  BY DEF Next
<1>2. /\ pc \in [Tasks -> Pcs] /\ fired \in [Tasks -> {"NONE", "WOKEN", "HANDED", "CANCELLED"}]
      /\ ToSet(waiting) \subseteq Tasks /\ changes \subseteq Tasks
  BY WaitingTasks DEF TypeOK
\* A step that leaves the lists alone, and the places of those in them.
<1>3. ASSUME UNCHANGED <<waiting, changes>>,
             \A u \in Tasks :
               /\ pc[u] \in {"wait", "unlist"} => pc'[u] \in {"wait", "unlist"} \/ u \notin ToSet(waiting)
               /\ pc[u] \in {"tellAwait", "await", "unchange"}
                    => pc'[u] \in {"tellAwait", "await", "unchange"} \/ u \notin changes
               /\ fired[u] \in {"NONE", "CANCELLED"} => fired'[u] \in {"NONE", "CANCELLED"}
      PROVE  ListInv'
  BY <1>2, <1>3 DEF ListInv
<1>4. CASE Take(t) BY <1>2, <1>3, <1>4 DEF Take, Goes
<1>5. CASE Lose(t) BY <1>2, <1>3, <1>5 DEF Lose, Goes
<1>6. CASE Mark(t) BY <1>2, <1>3, <1>6 DEF Mark, Goes
<1>7. CASE Enlist(t)
  <2>1. CASE Free(t) BY <2>1, <1>2, <1>3, <1>7 DEF Enlist, Goes
  <2>2. CASE ~Free(t)
    <3>1. /\ pc[t] = "enlist" /\ pc' = [pc EXCEPT ![t] = "wait"] /\ fired' = fired /\ changes' = changes
          /\ waiting' \in {Append(waiting, t), <<t>> \o waiting}
      BY <2>2, <1>7 DEF Enlist, Goes
    <3>2. waiting \in Seq(Tasks) /\ Distinct(waiting) /\ t \notin ToSet(waiting)
      BY <3>1 DEF TypeOK, ListInv
    <3>3. /\ Distinct(Append(waiting, t)) /\ ToSet(Append(waiting, t)) = ToSet(waiting) \cup {t}
          /\ Distinct(<<t>> \o waiting) /\ ToSet(<<t>> \o waiting) = ToSet(waiting) \cup {t}
      BY <3>2, AppendHolds, ConsHolds
    <3>4. fired[t] = "NONE" BY <3>1, <1>2 DEF CallInv
    <3> QED BY <3>1, <3>3, <3>4, <1>2 DEF ListInv
  <2> QED BY <2>1, <2>2
<1>8. CASE Woken(t)
  <2>1. /\ pc[t] = "wait" /\ fired[t] \in {"WOKEN", "HANDED"} /\ fired' = [fired EXCEPT ![t] = "NONE"]
        /\ pc' = [pc EXCEPT ![t] = "run"] \/ pc' = [pc EXCEPT ![t] = "try"]
        /\ UNCHANGED <<waiting, changes>>
    BY <1>8 DEF Woken, Forgets, Goes
  <2>2. t \notin ToSet(waiting) BY <2>1 DEF ListInv
  <2> QED BY <2>1, <2>2, <1>2, <1>3
<1>9. CASE CancelClaims(t) BY <1>2, <1>3, <1>9 DEF CancelClaims
<1>10. CASE CancelledWait(t) BY <1>2, <1>3, <1>10 DEF CancelledWait, Goes
<1>11. CASE Unlist(t)
  <2>1. /\ pc' = [pc EXCEPT ![t] = "run"] /\ fired' = [fired EXCEPT ![t] = "NONE"]
        /\ \/ pc[t] = "unlist" /\ waiting' = RemoveFirst(waiting, t) /\ changes' = changes
           \/ pc[t] = "unchange" /\ waiting' = waiting /\ changes' = changes \ {t}
    BY <1>11 DEF Unlist, Forgets, Goes
  <2>2. waiting \in Seq(Tasks) /\ Distinct(waiting) BY DEF TypeOK, ListInv
  <2>3. LET rest == RemoveFirst(waiting, t)
        IN ToSet(rest) \subseteq ToSet(waiting) \ {t} /\ Distinct(rest)
    BY <2>2, RemoveHolds
  <2>4. /\ Distinct(waiting') /\ ToSet(waiting') \subseteq ToSet(waiting) \ {t}
        /\ changes' \subseteq changes \ {t}
    BY <2>1, <2>2, <2>3 DEF ListInv
  <2> QED BY <2>1, <2>4, <1>2 DEF ListInv
<1>12. ASSUME NEW alone \in BOOLEAN, NEW heard \in SUBSET Hearing, NEW awaiting \in SUBSET (changes \cup {t}),
              Wakes(t, alone, heard, awaiting), awaiting \cap heard = {},
              \/ pc[t] = "release" /\ pc' = [pc EXCEPT ![t] = "tell"]
              \/ pc[t] = "run" /\ pc' = [pc EXCEPT ![t] = "tellAwait"],
              pc[t] = "release" => awaiting \subseteq changes
       PROVE  ListInv'
  <2>1. /\ waiting' = Left(alone) /\ changes' = awaiting
        /\ fired' = [u \in Tasks |-> IF u \in Handed(alone) THEN "HANDED"
                                     ELSE IF u \in heard \cup WokenOf THEN "WOKEN" ELSE fired[u]]
    BY <1>12 DEF Wakes, Handed, WokenOf, Left
  <2>2. /\ Distinct(Left(alone))
        /\ ToSet(Left(alone)) \subseteq ToSet(waiting) \ (Handed(alone) \cup WokenOf)
        /\ Handed(alone) \cup WokenOf \subseteq ToSet(waiting)
    BY QueueParts
  <2>3. heard \subseteq changes BY DEF Hearing
  <2>4. fired[t] = "NONE" /\ t \notin ToSet(waiting) BY <1>2, <1>12 DEF CallInv, ListInv
  <2>5. ASSUME NEW u \in ToSet(waiting')
        PROVE  pc'[u] \in {"wait", "unlist"} /\ fired'[u] \in {"NONE", "CANCELLED"}
    <3>1. u \in ToSet(waiting) /\ u \notin Handed(alone) \cup WokenOf /\ u # t /\ u \in Tasks
      BY <2>1, <2>2, <2>4, <1>2
    <3>2. u \notin heard BY <3>1, <2>3 DEF ListInv
    <3> QED BY <3>1, <3>2, <2>1, <1>2, <1>12 DEF ListInv
  <2>6. ASSUME NEW u \in changes'
        PROVE  pc'[u] \in {"tellAwait", "await", "unchange"} /\ fired'[u] \in {"NONE", "CANCELLED"}
    <3>1. u \in awaiting /\ u \notin heard BY <2>1, <1>12
    <3>2. CASE u = t
      <4>1. pc[t] = "run"
        <5>1. ASSUME pc[t] = "release" PROVE FALSE BY <3>1, <3>2, <5>1, <1>12 DEF ListInv
        <5> QED BY <5>1, <1>12
      <4>2. pc'[t] = "tellAwait" BY <4>1, <1>2, <1>12
      <4>3. t \notin Handed(alone) \cup WokenOf BY <2>2, <2>4
      <4> QED BY <3>1, <3>2, <4>2, <4>3, <2>1, <2>4
    <3>3. CASE u # t
      <4>1. u \in changes /\ u \in Tasks BY <3>1, <3>3, <1>2
      <4>2. u \notin Handed(alone) \cup WokenOf BY <4>1, <2>2 DEF ListInv
      <4> QED BY <3>1, <3>3, <4>1, <4>2, <2>1, <1>2, <1>12 DEF ListInv
    <3> QED BY <3>2, <3>3
  <2> QED BY <2>1, <2>2, <2>5, <2>6 DEF ListInv
<1>13. CASE Release(t)
  <2>1. /\ writer \in BOOLEAN /\ pc[t] = "release" /\ pc' = [pc EXCEPT ![t] = "tell"]
        /\ {} \in SUBSET Hearing /\ Hearing \in SUBSET Hearing
        /\ {} \in SUBSET (changes \cup {t}) /\ changes \in SUBSET (changes \cup {t})
    BY <1>13 DEF Release, Goes, TypeOK
  <2>2. CASE mode[t] = "change"
    <3>1. Wakes(t, writer, Hearing, {}) BY <2>2, <1>13 DEF Release
    <3> QED BY <2>1, <3>1, <1>12
  <2>3. CASE mode[t] # "change"
    <3>1. Wakes(t, writer, {}, changes) BY <2>3, <1>13 DEF Release
    <3> QED BY <2>1, <3>1, <1>12
  <2> QED BY <2>2, <2>3
<1>14. CASE Await(t)
  <2>1. pc[t] = "run" /\ pc' = [pc EXCEPT ![t] = "tellAwait"] /\ Wakes(t, FALSE, Hearing, {t})
    BY <1>14 DEF Await, Goes
  <2>2. {t} \cap Hearing = {} BY <2>1 DEF Hearing, ListInv
  <2>3. Hearing \in SUBSET Hearing /\ {t} \in SUBSET (changes \cup {t}) /\ FALSE \in BOOLEAN
    OBVIOUS
  <2> QED BY <2>1, <2>2, <2>3, <1>12
<1>15. CASE Tell(t) BY <1>2, <1>3, <1>15 DEF Tell
<1>16. CASE Heard(t)
  <2>1. /\ pc[t] = "await" /\ fired[t] = "WOKEN" /\ fired' = [fired EXCEPT ![t] = "NONE"]
        /\ \E to \in {"run", "try"} : pc' = [pc EXCEPT ![t] = to]
        /\ UNCHANGED <<waiting, changes>>
    BY <1>16 DEF Heard, Forgets, Goes
  <2>2. t \notin changes BY <2>1 DEF ListInv
  <2> QED BY <2>1, <2>2, <1>2, <1>3
<1>17. CASE Unlock(t) BY <1>2, <1>3, <1>17 DEF Unlock
<1>18. CASE Cancel(t) BY <1>2, <1>3, <1>18 DEF Cancel
<1>19. ASSUME NEW m \in Modes, Lock(t, m) PROVE ListInv' BY <1>2, <1>3, <1>19 DEF Lock, Goes
<1> QED BY <1>1, <1>4, <1>5, <1>6, <1>7, <1>8, <1>9, <1>10, <1>11, <1>13, <1>14, <1>15, <1>16, <1>17,
           <1>18, <1>19 DEF Step

-----------------------------------------------------------------------------
(* The holds. *)

\* A task takes a free lock.
LEMMA TakeKeeps ==
  ASSUME TypeOK, CallInv, HoldInv, NEW t \in Tasks, pc[t] \in {"try", "enlist"}, Free(t),
         TakeBits(t), Hold(t), UNCHANGED <<fired, mode>>
  PROVE  HoldInv'
<1>1. /\ fired \in [Tasks -> {"NONE", "WOKEN", "HANDED", "CANCELLED"}]
      /\ reads \in [Tasks -> 0 .. MaxReads] /\ writes \in [Tasks -> BOOLEAN] /\ MaxReads \in Nat
      /\ readers \in Nat
  BY SyncLockAssumption DEF TypeOK
<1>2. fired[t] = "NONE" /\ ~writes[t] /\ (Exclusive(t) \/ reads[t] < MaxReads)
  BY <1>1 DEF CallInv, Trying
<1>3. ~writer /\ \A u \in Tasks : ~Changing(u) BY DEF Free, HoldInv
<1>4. CASE Exclusive(t)
  <2>1. readers = 0 /\ writer' = TRUE /\ readers' = readers BY <1>4 DEF Free, TakeBits
  <2>2. writes' = [writes EXCEPT ![t] = TRUE] /\ reads' = reads BY <1>4 DEF Hold
  <2>3. \A u \in Tasks : Reading(u)' = Reading(u) BY <2>2 DEF Reading, Exclusive
  <2>4. \A u \in Tasks : Changing(u)' <=> u = t
    BY <1>1, <1>3, <2>2 DEF Changing, Exclusive
  <2>5. ReadHolds' = ReadHolds BY <2>3 DEF ReadHolds
  <2> QED BY <2>1, <2>4, <2>5 DEF HoldInv
<1>5. CASE ~Exclusive(t)
  <2>1. readers' = readers + 1 /\ writer' = writer BY <1>5 DEF TakeBits
  <2>2. reads' = [reads EXCEPT ![t] = reads[t] + 1] /\ writes' = writes BY <1>5 DEF Hold
  <2>3. \A u \in Tasks : Changing(u)' = Changing(u) BY <2>2 DEF Changing, Exclusive
  <2>4. Reading(t) = reads[t] /\ Reading(t)' = reads[t] + 1
    BY <1>1, <1>2, <2>2 DEF Reading
  <2>5. \A u \in Tasks \ {t} : Reading(u)' = Reading(u) BY <1>1, <2>2 DEF Reading, Exclusive
  <2>6. \A u \in {t} : Reading(u) < MaxReads /\ Reading(u)' = Reading(u) + 1
    BY <1>2, <1>5, <2>4
  <2>7. Cardinality(ReadHolds') = Cardinality(ReadHolds) + Cardinality({t})
    BY <2>5, <2>6, HoldsMore
  <2>8. Cardinality({t}) = 1 BY FS_Singleton
  <2> QED BY <1>3, <2>1, <2>3, <2>7, <2>8 DEF HoldInv
<1> QED BY <1>4, <1>5

\* A release hands the lock over, once those of `writes` are what `alone` says.
LEMMA ReleaseKeeps ==
  ASSUME TypeOK, CallInv, ListInv, HoldInv, NEW t \in Tasks, NEW alone \in BOOLEAN,
         NEW heard \in SUBSET Hearing, NEW awaiting,
         Wakes(t, alone, heard, awaiting), UNCHANGED <<reads, mode>>,
         writes' \in [Tasks -> BOOLEAN], \A u \in Tasks : writes'[u] => writes[u],
         alone = \E u \in Tasks : writes'[u] \/ (fired[u] = "HANDED" /\ Exclusive(u))
  PROVE  HoldInv'
<1> DEFINE H == Handed(alone)
           G == {u \in H : ~Exclusive(u)}
           Has(u) == writes'[u] \/ (fired[u] = "HANDED" /\ Exclusive(u))
<1>0. alone <=> \E u \in Tasks : Has(u) OBVIOUS
<1>1. /\ fired \in [Tasks -> {"NONE", "WOKEN", "HANDED", "CANCELLED"}]
      /\ reads \in [Tasks -> 0 .. MaxReads] /\ writes \in [Tasks -> BOOLEAN] /\ MaxReads \in Nat
      /\ readers \in Nat
  BY SyncLockAssumption DEF TypeOK
<1>2. /\ readers' = readers + Cardinality({u \in Handed(alone) : ~Exclusive(u)})
      /\ writer' = (alone \/ \E u \in Handed(alone) : Exclusive(u))
      /\ fired' = [u \in Tasks |-> IF u \in Handed(alone) THEN "HANDED"
                                   ELSE IF u \in heard \cup WokenOf THEN "WOKEN" ELSE fired[u]]
  BY DEF Wakes, Handed, WokenOf, Left
<1>3. /\ H \subseteq Tasks /\ \A u \in H : fired[u] = "NONE" /\ pc[u] = "wait"
      /\ alone => H = {}
      /\ \A u \in H : Exclusive(u) => readers = 0 /\ H = {u}
  <2>1. /\ H \subseteq {u \in ToSet(waiting) : Waits(u)}
        /\ alone => H = {}
        /\ \A u \in H : Exclusive(u) => readers = 0 /\ H = {u}
    BY QueueParts
  <2>2. \A u \in H : u \in Tasks /\ fired[u] = "NONE" /\ pc[u] \in {"wait", "unlist"}
    BY <2>1, WaitingTasks DEF Waits, ListInv
  <2> QED BY <2>1, <2>2 DEF CallInv
<1>4. \A u \in heard \cup WokenOf : fired[u] = "NONE"
  BY QueueParts DEF Hearing, Waits
<1> HIDE DEF H
<1>5. ASSUME NEW u \in Tasks
      PROVE  /\ fired'[u] = "HANDED" <=> fired[u] = "HANDED" \/ u \in H
             /\ Exclusive(u)' = Exclusive(u)
  BY <1>1, <1>2, <1>3, <1>4 DEF H, Exclusive
<1>6. \A u \in Tasks : Changing(u)' <=> Has(u) \/ (u \in H /\ Exclusive(u))
  BY <1>5 DEF Changing
<1>7. \A u \in G : Reading(u) < MaxReads /\ Reading(u)' = Reading(u) + 1
  <2> SUFFICES ASSUME NEW u \in H, ~Exclusive(u)
               PROVE  Reading(u) < MaxReads /\ Reading(u)' = Reading(u) + 1
    OBVIOUS
  <2>1. u \in Tasks /\ fired[u] = "NONE" /\ reads[u] < MaxReads BY <1>3 DEF CallInv, Trying
  <2>2. Reading(u) = reads[u] BY <2>1, <1>1 DEF Reading
  <2>3. fired'[u] = "HANDED" /\ ~Exclusive(u)' BY <2>1, <1>5
  <2>4. Reading(u)' = reads[u] + 1 BY <2>3 DEF Reading
  <2> QED BY <2>1, <2>2, <2>4
<1>8. \A u \in Tasks \ G : Reading(u)' = Reading(u)
  BY <1>3, <1>5 DEF Reading
<1>9. G \in SUBSET Tasks BY <1>3
<1>10. Cardinality(ReadHolds') = Cardinality(ReadHolds) + Cardinality(G)
  <2> HIDE DEF G
  <2> QED BY <1>7, <1>8, <1>9, HoldsMore
<1>11. readers' = readers + Cardinality(G) BY <1>2 DEF H
<1>12. writer' = (\E u \in Tasks : Changing(u)')
  <2>1. (\E u \in Tasks : Changing(u)') <=> alone \/ \E u \in H : Exclusive(u)
    <3> HIDE DEF Has
    <3> QED BY <1>0, <1>3, <1>6
  <2>2. writer' <=> alone \/ \E u \in H : Exclusive(u) BY <1>2 DEF H
  <2>3. writer' \in BOOLEAN BY <1>2
  <2> QED BY <2>1, <2>2, <2>3
<1>13. \A u, v \in Tasks : Changing(u)' /\ Changing(v)' => u = v
  <2> SUFFICES ASSUME NEW u \in Tasks, NEW v \in Tasks, Changing(u)', Changing(v)' PROVE u = v
    OBVIOUS
  <2>1. CASE alone BY <2>1, <1>3, <1>6 DEF HoldInv, Changing
  <2>2. CASE ~alone
    <3>1. ~Has(u) /\ ~Has(v) BY <2>2, <1>0
    <3>2. u \in H /\ Exclusive(u) /\ v \in H BY <3>1, <1>6
    <3> QED BY <3>2, <1>3
  <2> QED BY <2>1, <2>2
<1>14. writer' => readers' = 0
  <2>1. CASE alone
    <3>1. readers = 0 BY <2>1 DEF HoldInv, Changing
    <3>2. G = {} BY <2>1, <1>3
    <3> HIDE DEF G
    <3> QED BY <3>1, <3>2, <1>11, FS_EmptySet
  <2>2. ASSUME NEW u \in H, Exclusive(u) PROVE readers' = 0
    <3>1. readers = 0 /\ G = {} BY <2>2, <1>3
    <3> HIDE DEF G
    <3> QED BY <3>1, <1>11, FS_EmptySet
  <2> QED BY <2>1, <2>2, <1>2 DEF H
<1> HIDE DEF G
<1>15. readers' = Cardinality(ReadHolds') BY <1>10, <1>11 DEF HoldInv
<1> QED BY <1>12, <1>13, <1>14, <1>15 DEF HoldInv

LEMMA HoldStep == ASSUME TypeOK, CallInv, ListInv, HoldInv, Next PROVE HoldInv'
<1> USE DEF stateVars, queueVars, waitVars, callVars, heldVars
<1>1. PICK t \in Tasks :
        Step(t) \/ Unlock(t) \/ Await(t) \/ Cancel(t) \/ \E m \in Modes : Lock(t, m)
  BY DEF Next
<1>2. /\ fired \in [Tasks -> {"NONE", "WOKEN", "HANDED", "CANCELLED"}]
      /\ reads \in [Tasks -> 0 .. MaxReads] /\ writes \in [Tasks -> BOOLEAN] /\ MaxReads \in Nat
      /\ mode \in [Tasks -> AllModes] /\ readers \in Nat
  BY SyncLockAssumption DEF TypeOK
\* A step that does not touch the holds.
<1>3. ASSUME UNCHANGED <<writer, readers, reads, writes>>,
             \A u \in Tasks :
               /\ fired'[u] = "HANDED" <=> fired[u] = "HANDED"
               /\ mode'[u] = mode[u] \/ fired[u] # "HANDED"
      PROVE  HoldInv'
  <2>1. \A u \in Tasks : Reading(u)' = Reading(u) /\ Changing(u)' = Changing(u)
    BY <1>3 DEF Reading, Changing, Exclusive
  <2> QED BY <2>1, <1>3, HoldsSame
<1>4. CASE Take(t)
  <2>1. /\ pc[t] = "try" /\ Free(t) /\ TakeBits(t) /\ Hold(t) /\ UNCHANGED <<fired, mode>>
    BY <1>4 DEF Take, Goes
  <2> QED BY <2>1, TakeKeeps
<1>5. CASE Lose(t) BY <1>3, <1>5 DEF Lose
<1>6. CASE Mark(t) BY <1>3, <1>6 DEF Mark
<1>7. CASE Enlist(t)
  <2>1. CASE Free(t)
    <3>1. pc[t] = "enlist" /\ TakeBits(t) /\ Hold(t) /\ UNCHANGED <<fired, mode>>
      BY <2>1, <1>7 DEF Enlist
    <3> QED BY <2>1, <3>1, TakeKeeps
  <2>2. CASE ~Free(t) BY <2>2, <1>3, <1>7 DEF Enlist
  <2> QED BY <2>1, <2>2
<1>8. CASE Woken(t)
  <2>1. fired' = [fired EXCEPT ![t] = "NONE"] /\ UNCHANGED <<writer, readers, mode>>
    BY <1>8 DEF Woken, Forgets
  <2>2. CASE fired[t] = "HANDED"
    <3>1. Hold(t) /\ ~writes[t] BY <2>2, <1>8 DEF Woken, CallInv
    <3>2. CASE Exclusive(t)
      <4>1. writes' = [writes EXCEPT ![t] = TRUE] /\ reads' = reads BY <3>1, <3>2 DEF Hold
      <4>2. \A u \in Tasks : Reading(u)' = Reading(u)
        BY <1>2, <2>1, <3>2, <4>1 DEF Reading, Exclusive
      <4>3. \A u \in Tasks : Changing(u)' = Changing(u)
        BY <1>2, <2>1, <2>2, <3>2, <4>1 DEF Changing, Exclusive
      <4> QED BY <2>1, <4>2, <4>3, HoldsSame
    <3>3. CASE ~Exclusive(t)
      <4>1. writes' = writes /\ reads' = [reads EXCEPT ![t] = reads[t] + 1] BY <3>1, <3>3 DEF Hold
      <4>2. \A u \in Tasks : Reading(u)' = Reading(u)
        BY <1>2, <2>1, <2>2, <3>3, <4>1 DEF Reading, Exclusive
      <4>3. \A u \in Tasks : Changing(u)' = Changing(u)
        BY <1>2, <2>1, <3>3, <4>1 DEF Changing, Exclusive
      <4> QED BY <2>1, <4>2, <4>3, HoldsSame
    <3> QED BY <3>2, <3>3
  <2>3. CASE fired[t] # "HANDED" BY <2>1, <2>3, <1>2, <1>3, <1>8 DEF Woken
  <2> QED BY <2>2, <2>3
<1>9. CASE CancelClaims(t) BY <1>2, <1>3, <1>9 DEF CancelClaims
<1>10. CASE CancelledWait(t) BY <1>3, <1>10 DEF CancelledWait
<1>11. CASE Unlist(t)
  <2>1. fired[t] # "HANDED" BY <1>11 DEF Unlist, Goes, CallInv
  <2> QED BY <2>1, <1>2, <1>3, <1>11 DEF Unlist, Forgets
<1>12. CASE Release(t)
  <2>1. /\ \/ Wakes(t, writer, Hearing, {}) \/ Wakes(t, writer, {}, changes)
        /\ UNCHANGED <<reads, writes, mode>>
    BY <1>12 DEF Release
  <2>2. writer \in BOOLEAN /\ Hearing \in SUBSET Hearing /\ {} \in SUBSET Hearing BY DEF TypeOK
  <2>3. writer = \E u \in Tasks : writes'[u] \/ (fired[u] = "HANDED" /\ Exclusive(u))
    <3>1. \A u \in Tasks : Changing(u) <=> writes'[u] \/ (fired[u] = "HANDED" /\ Exclusive(u))
      BY <2>1 DEF Changing
    <3>2. writer <=> \E u \in Tasks : Changing(u) BY DEF HoldInv
    <3>3. writer <=> \E u \in Tasks : writes'[u] \/ (fired[u] = "HANDED" /\ Exclusive(u)) BY <3>1, <3>2
    <3> QED BY <2>2, <3>3
  <2>4. writes' \in [Tasks -> BOOLEAN] /\ \A u \in Tasks : writes'[u] => writes[u]
    BY <2>1, <1>2
  <2>5. CASE Wakes(t, writer, Hearing, {}) BY <2>1, <2>2, <2>3, <2>4, <2>5, ReleaseKeeps
  <2>6. CASE Wakes(t, writer, {}, changes) BY <2>1, <2>2, <2>3, <2>4, <2>6, ReleaseKeeps
  <2> QED BY <2>1, <2>5, <2>6
<1>13. CASE Tell(t) BY <1>3, <1>13 DEF Tell
<1>14. CASE Heard(t) BY <1>2, <1>3, <1>14 DEF Heard, Forgets
<1>15. CASE Unlock(t)
  <2>1. /\ pc[t] = "run" /\ mode' = [mode EXCEPT ![t] = IF writes[t] THEN "change" ELSE "read"]
        /\ writes' = [writes EXCEPT ![t] = FALSE] /\ fired' = fired
        /\ reads' = [reads EXCEPT ![t] = IF writes[t] THEN reads[t] ELSE reads[t] - 1]
    BY <1>2, <1>15 DEF Unlock
  <2>2. fired[t] # "HANDED" BY <2>1 DEF CallInv
  <2>3. \A u \in Tasks \ {t} : Reading(u)' = Reading(u) /\ Changing(u)' = Changing(u)
    BY <1>2, <2>1 DEF Reading, Changing, Exclusive
  <2>4. Changing(t)' = FALSE BY <1>2, <2>1, <2>2 DEF Changing
  <2>5. CASE writes[t]
    <3>1. writer' = FALSE /\ readers' = readers BY <2>5, <1>15 DEF Unlock
    <3>2. \A u \in Tasks : ~Changing(u)' BY <2>3, <2>4, <2>5 DEF HoldInv, Changing
    <3>3. Reading(t)' = Reading(t) BY <1>2, <2>1, <2>2, <2>5 DEF Reading
    <3>4. ReadHolds' = ReadHolds BY <2>3, <3>3 DEF ReadHolds
    <3> QED BY <3>1, <3>2, <3>4 DEF HoldInv
  <2>6. CASE ~writes[t]
    <3>1. writer' = writer /\ readers' = readers - 1 /\ reads[t] > 0 BY <2>6, <1>15 DEF Unlock
    <3>2. Changing(t) = FALSE BY <2>2, <2>6 DEF Changing
    <3>3. Reading(t) = reads[t] /\ Reading(t)' = reads[t] - 1
      BY <1>2, <2>1, <2>2, <2>6 DEF Reading
    <3>4. Reading(t) > 0 /\ Reading(t)' = Reading(t) - 1 BY <3>1, <3>3
    <3>5. Cardinality(ReadHolds) > 0 /\ Cardinality(ReadHolds') = Cardinality(ReadHolds) - 1
      BY <2>3, <3>4, HoldsLess
    <3>6. ~writer BY <3>5 DEF HoldInv
    <3>7. \A u \in Tasks : Changing(u)' = Changing(u) BY <2>3, <2>4, <3>2
    <3> QED BY <3>1, <3>5, <3>6, <3>7 DEF HoldInv
  <2> QED BY <2>5, <2>6
<1>16. CASE Await(t)
  <2>1. /\ Wakes(t, FALSE, Hearing, {t}) /\ UNCHANGED <<reads, mode>>
        /\ writes[t] /\ writes' = [writes EXCEPT ![t] = FALSE] /\ pc[t] = "run"
    BY <1>16 DEF Await, Goes
  <2>2. FALSE = \E u \in Tasks : writes'[u] \/ (fired[u] = "HANDED" /\ Exclusive(u))
    <3> SUFFICES ASSUME NEW u \in Tasks, writes'[u] \/ (fired[u] = "HANDED" /\ Exclusive(u)) PROVE FALSE
      OBVIOUS
    <3>1. Changing(t) /\ Changing(u) BY <1>2, <2>1 DEF Changing
    <3>2. u = t BY <3>1 DEF HoldInv
    <3> QED BY <3>2, <2>1, <1>2 DEF CallInv
  <2>3. writes' \in [Tasks -> BOOLEAN] /\ \A u \in Tasks : writes'[u] => writes[u] BY <2>1, <1>2
  <2>4. FALSE \in BOOLEAN /\ Hearing \in SUBSET Hearing OBVIOUS
  <2> QED BY <2>1, <2>2, <2>3, <2>4, ReleaseKeeps
<1>17. CASE Cancel(t) BY <1>3, <1>17 DEF Cancel
<1>18. ASSUME NEW m \in Modes, Lock(t, m) PROVE HoldInv'
  <2>1. fired[t] # "HANDED" BY <1>18 DEF Lock, Goes, CallInv
  <2> QED BY <2>1, <1>2, <1>3, <1>18 DEF Lock
<1> QED BY <1>1, <1>4, <1>5, <1>6, <1>7, <1>8, <1>9, <1>10, <1>11, <1>12, <1>13, <1>14, <1>15, <1>16,
           <1>17, <1>18 DEF Step

-----------------------------------------------------------------------------
(* The changes. *)

LEMMA HeardStep == ASSUME TypeOK, CallInv, ListInv, HeardInv, Next PROVE HeardInv'
<1> USE DEF stateVars, queueVars, waitVars, callVars, heldVars
<1>1. PICK t \in Tasks :
        Step(t) \/ Unlock(t) \/ Await(t) \/ Cancel(t) \/ \E m \in Modes : Lock(t, m)
  BY DEF Next
<1>2. /\ pc \in [Tasks -> Pcs] /\ mode \in [Tasks -> AllModes] /\ changes \subseteq Tasks
      /\ fired \in [Tasks -> {"NONE", "WOKEN", "HANDED", "CANCELLED"}]
      /\ missed \in [Tasks -> BOOLEAN]
  BY DEF TypeOK
\* A step that lets nobody wait for a change any more, nor release after one.
<1>3. ASSUME changes' = changes, parked => parked',
             \A u \in Tasks :
               /\ missed'[u] => missed[u]
               /\ fired'[u] = fired[u] \/ fired[u] # "CANCELLED"
               /\ pc[u] = "release" => pc'[u] = "release" /\ mode'[u] = mode[u]
      PROVE  HeardInv'
  BY <1>2, <1>3 DEF HeardInv
<1>4. CASE Take(t) BY <1>2, <1>3, <1>4 DEF Take, Goes
<1>5. CASE Lose(t) BY <1>2, <1>3, <1>5 DEF Lose, Goes
<1>6. CASE Mark(t) BY <1>2, <1>3, <1>6 DEF Mark, Goes
<1>7. CASE Enlist(t)
  <2>1. CASE Free(t) BY <2>1, <1>2, <1>3, <1>7 DEF Enlist, Goes
  <2>2. CASE ~Free(t) BY <2>2, <1>2, <1>3, <1>7 DEF Enlist, Goes
  <2> QED BY <2>1, <2>2
<1>8. CASE Woken(t) BY <1>2, <1>3, <1>8 DEF Woken, Forgets, Goes
<1>9. CASE CancelClaims(t) BY <1>2, <1>3, <1>9 DEF CancelClaims
<1>10. CASE CancelledWait(t) BY <1>2, <1>3, <1>10 DEF CancelledWait, Goes
<1>11. CASE Unlist(t)
  <2>1. /\ pc[t] \in {"unlist", "unchange"} /\ pc' = [pc EXCEPT ![t] = "run"] /\ mode' = mode
        /\ fired' = [fired EXCEPT ![t] = "NONE"] /\ missed' = [missed EXCEPT ![t] = FALSE]
        /\ changes' \in {changes, changes \ {t}} /\ parked' = parked
    BY <1>11 DEF Unlist, Forgets, Goes
  <2> QED BY <2>1, <1>2 DEF HeardInv
\* A release after which nobody awaits a change, or just those that did, or the task.
<1>12. ASSUME NEW alone \in BOOLEAN, NEW heard \in SUBSET Hearing, NEW awaiting,
              Wakes(t, alone, heard, awaiting)
       PROVE  /\ changes' = awaiting
              /\ parked' = StillParked(t, Left(alone), awaiting)
              /\ \A u \in Tasks : /\ missed'[u] <=> missed[u] /\ u \notin heard
                                  /\ fired[u] = "CANCELLED" => fired'[u] = "CANCELLED"
  <2>1. /\ changes' = awaiting /\ parked' = StillParked(t, Left(alone), awaiting)
        /\ missed' = [u \in Tasks |-> missed[u] /\ u \notin heard]
    BY <1>12 DEF Wakes, Handed, WokenOf, Left
  <2>2. \A u \in Tasks : fired[u] = "CANCELLED" => fired'[u] = "CANCELLED"
    BY <1>12, ReleaseCalls
  <2> QED BY <2>1, <2>2
<1>13. CASE Release(t)
  <2>1. /\ pc' = [pc EXCEPT ![t] = "tell"] /\ mode' = mode
        /\ writer \in BOOLEAN /\ Hearing \in SUBSET Hearing /\ {} \in SUBSET Hearing
    BY <1>13 DEF Release, Goes, TypeOK
  <2>2. CASE mode[t] = "change"
    <3>1. Wakes(t, writer, Hearing, {}) BY <2>2, <1>13 DEF Release
    <3>2. /\ changes' = {}
          /\ \A u \in Tasks : /\ missed'[u] <=> missed[u] /\ u \notin Hearing
                              /\ fired[u] = "CANCELLED" => fired'[u] = "CANCELLED"
      BY <2>1, <3>1, <1>12
    <3>3. ASSUME NEW u \in Tasks, missed'[u] PROVE fired'[u] = "CANCELLED"
      <4>1. missed[u] /\ u \notin Hearing BY <3>2, <3>3
      <4>2. fired[u] = "CANCELLED"
        <5>1. CASE u \in changes BY <4>1, <5>1 DEF Hearing, Waits, ListInv
        <5>2. CASE u \notin changes BY <4>1, <5>2 DEF HeardInv
        <5> QED BY <5>1, <5>2
      <4> QED BY <4>2, <3>2
    <3> QED BY <3>2, <3>3 DEF HeardInv
  <2>3. CASE mode[t] # "change"
    <3>1. Wakes(t, writer, {}, changes) BY <2>3, <1>13 DEF Release
    <3>2. /\ changes' = changes /\ parked' = StillParked(t, Left(writer), changes)
          /\ \A u \in Tasks : /\ missed'[u] <=> missed[u]
                              /\ fired[u] = "CANCELLED" => fired'[u] = "CANCELLED"
      BY <2>1, <3>1, <1>12
    <3>3. changes' # {} => parked' BY <3>2 DEF StillParked, HeardInv
    <3>4. ASSUME NEW u \in Tasks, pc[u] = "release", mode[u] = "change"
          PROVE  pc'[u] = "release" /\ mode'[u] = "change"
      <4>1. u # t BY <2>3, <3>4
      <4> QED BY <4>1, <3>4, <2>1, <1>2
    <3> QED BY <3>2, <3>3, <3>4 DEF HeardInv
  <2> QED BY <2>2, <2>3
<1>14. CASE Await(t)
  <2>1. /\ Hearing \in SUBSET Hearing /\ FALSE \in BOOLEAN /\ Wakes(t, FALSE, Hearing, {t})
    BY <1>14 DEF Await
  <2>2. /\ changes' = {t} /\ parked' = StillParked(t, Left(FALSE), {t})
        /\ \A u \in Tasks : /\ missed'[u] <=> missed[u] /\ u \notin Hearing
                            /\ fired[u] = "CANCELLED" => fired'[u] = "CANCELLED"
    BY <2>1, <1>12
  <2>3. parked' BY <2>2 DEF StillParked
  <2>4. ASSUME NEW u \in Tasks, missed'[u] PROVE fired'[u] = "CANCELLED"
    <3>1. missed[u] /\ u \notin Hearing BY <2>2, <2>4
    <3>2. fired[u] = "CANCELLED"
      <4>1. CASE u \in changes BY <3>1, <4>1 DEF Hearing, Waits, ListInv
      <4>2. CASE u \notin changes BY <3>1, <4>2 DEF HeardInv
      <4> QED BY <4>1, <4>2
    <3> QED BY <3>2, <2>2
  <2> QED BY <2>2, <2>3, <2>4 DEF HeardInv
<1>15. CASE Tell(t) BY <1>2, <1>3, <1>15 DEF Tell
<1>16. CASE Heard(t) BY <1>2, <1>3, <1>16 DEF Heard, Forgets, Goes
<1>17. CASE Unlock(t)
  <2>1. /\ pc[t] = "run" /\ mode' = [mode EXCEPT ![t] = IF writes[t] THEN "change" ELSE "read"]
        /\ pc' = [pc EXCEPT ![t] = IF parked THEN "release" ELSE "run"]
        /\ UNCHANGED <<fired, parked, changes>>
    BY <1>17 DEF Unlock
  <2>2. CASE ~writes[t]
    <3>1. missed' = missed BY <2>2, <1>17 DEF Unlock
    <3> QED BY <2>1, <3>1, <1>2, <1>3
  <2>3. CASE writes[t]
    <3>1. missed' = Changed(t) BY <2>3, <1>17 DEF Unlock
    <3>2. ASSUME NEW u \in Tasks, missed'[u]
          PROVE  \/ fired'[u] = "CANCELLED"
                 \/ u \in changes' /\ \E v \in Tasks : pc'[v] = "release" /\ mode'[v] = "change"
      <4>1. CASE missed[u] BY <4>1, <2>1, <1>2 DEF HeardInv
      <4>2. CASE ~missed[u]
        <5>1. u \in changes BY <4>2, <3>1, <3>2 DEF Changed
        <5>2. parked BY <5>1 DEF HeardInv
        <5>3. pc'[t] = "release" /\ mode'[t] = "change" BY <5>2, <2>1, <2>3, <1>2
        <5> QED BY <5>1, <5>3, <2>1
      <4> QED BY <4>1, <4>2
    <3> QED BY <3>2, <2>1 DEF HeardInv
  <2> QED BY <2>2, <2>3
<1>18. CASE Cancel(t) BY <1>2, <1>3, <1>18 DEF Cancel
<1>19. ASSUME NEW m \in Modes, Lock(t, m) PROVE HeardInv' BY <1>2, <1>3, <1>19 DEF Lock, Goes
<1> QED BY <1>1, <1>4, <1>5, <1>6, <1>7, <1>8, <1>9, <1>10, <1>11, <1>13, <1>14, <1>15, <1>16, <1>17,
           <1>18, <1>19 DEF Step

-----------------------------------------------------------------------------
LEMMA InvStep == Inv /\ [Next]_vars => Inv'
<1> SUFFICES ASSUME Inv, [Next]_vars PROVE Inv'
  OBVIOUS
<1>1. CASE Next BY <1>1, TypesStep, CallStep, ListStep, HoldStep, HeardStep DEF Inv
<1>2. CASE UNCHANGED vars
  <2> USE <1>2 DEF vars, stateVars, queueVars, waitVars, callVars, heldVars
  <2>1. TypeOK' BY DEF Inv, TypeOK
  <2>2. CallInv' BY DEF Inv, CallInv, Exclusive
  <2>3. ListInv' BY DEF Inv, ListInv
  <2>4. HoldInv' BY DEF Inv, HoldInv, ReadHolds, Reading, Changing, Exclusive
  <2>5. HeardInv' BY DEF Inv, HeardInv
  <2> QED BY <2>1, <2>2, <2>3, <2>4, <2>5 DEF Inv
<1> QED BY <1>1, <1>2

LEMMA InvHolds == Spec => []Inv
BY InitInv, InvStep, PTL DEF Spec

\* The types, for every instance.
THEOREM TypesHold == Spec => []TypeOK
<1>1. Inv => TypeOK BY DEF Inv
<1> QED BY <1>1, InvHolds, PTL

\* Of two tasks, one holds the lock to change the value only while the other does
\* not hold it: `try_take` and `grant` look at bits that count what there is.
THEOREM HoldsExclude == Spec => []Exclusion
<1>1. Inv => Exclusion
  <2> SUFFICES ASSUME Inv, NEW t \in Tasks, NEW u \in Tasks \ {t}, Changing(t), Holds(u) PROVE FALSE
    BY DEF Exclusion
  <2>1. readers = 0 /\ ~Changing(u) BY DEF Inv, HoldInv
  <2>2. Reading(u) = 0 BY <2>1, NoHolds DEF Inv
  <2> QED BY <2>1, <2>2 DEF Holds
<1> QED BY <1>1, InvHolds, PTL

\* `state` counts the holds, those handed over to a task that does not run yet
\* included, however the waits of a starving lock are cancelled.
THEOREM BitsCount == Spec => []StateCounts
<1>1. Inv => StateCounts BY DEF Inv, HoldInv, StateCounts
<1> QED BY <1>1, InvHolds, PTL

\* No change is missed by a task that awaits one (`tondo_rt_sync_await`).
THEOREM ChangesCome == Spec => []ChangesAreHeard
<1>1. Inv => ChangesAreHeard BY DEF Inv, HeardInv, ChangesAreHeard, Waits
<1> QED BY <1>1, InvHolds, PTL

-----------------------------------------------------------------------------
(* The turn. *)

Turn == \A t \in Gaining : \E i \in 1 .. Len(waiting) :
          /\ waiting[i] = t
          /\ \A j \in 1 .. i - 1 : Waits(waiting[j]) => waiting[j] \in Gaining

LEMMA ReleaseTurn ==
  ASSUME TypeOK, CallInv, ListInv, starving, NEW t \in Tasks, NEW alone \in BOOLEAN,
         NEW heard \in SUBSET Hearing, NEW awaiting,
         Wakes(t, alone, heard, awaiting), UNCHANGED <<reads, mode>>,
         \A u \in Tasks : writes'[u] => writes[u]
  PROVE  Turn
<1>1. fired' = [u \in Tasks |-> IF u \in Handed(alone) THEN "HANDED"
                                ELSE IF u \in heard \cup WokenOf THEN "WOKEN" ELSE fired[u]]
  BY DEF Wakes, Handed, WokenOf, Left
<1>2. /\ fired \in [Tasks -> {"NONE", "WOKEN", "HANDED", "CANCELLED"}]
      /\ reads \in [Tasks -> 0 .. MaxReads] /\ MaxReads \in Nat
  BY SyncLockAssumption DEF TypeOK
<1>3. \A u \in Handed(alone) : u \in Tasks /\ fired[u] = "NONE" /\ ~writes[u]
  <2>1. Handed(alone) \subseteq {u \in ToSet(waiting) : Waits(u)} BY QueueParts
  <2>2. \A u \in ToSet(waiting) : u \in Tasks /\ pc[u] \in {"wait", "unlist"}
    BY WaitingTasks DEF ListInv
  <2> QED BY <2>1, <2>2 DEF Waits, CallInv
<1>4. \A u \in Tasks : Exclusive(u)' = Exclusive(u) BY DEF Exclusive
<1>5. Handed(alone) \subseteq Gaining
  <2> SUFFICES ASSUME NEW u \in Handed(alone)
               PROVE  Reading(u)' > Reading(u) \/ (Changing(u)' /\ ~Changing(u))
    BY <1>3 DEF Gaining
  <2>1. u \in Tasks /\ fired[u] = "NONE" /\ ~writes[u] /\ fired'[u] = "HANDED"
    BY <1>1, <1>3
  <2>2. CASE Exclusive(u) BY <2>1, <2>2, <1>4 DEF Changing
  <2>3. CASE ~Exclusive(u)
    <3>1. Reading(u) = reads[u] BY <2>1, <1>2 DEF Reading
    <3>2. Reading(u)' = reads[u] + 1 BY <2>1, <2>3, <1>4 DEF Reading
    <3> QED BY <2>1, <3>1, <3>2, <1>2
  <2> QED BY <2>2, <2>3
<1>6. Gaining \subseteq Handed(alone)
  <2> SUFFICES ASSUME NEW u \in Tasks, u \notin Handed(alone)
               PROVE  ~(Reading(u)' > Reading(u)) /\ (Changing(u)' => Changing(u))
    BY DEF Gaining
  <2>1. fired'[u] = "HANDED" => fired[u] = "HANDED" BY <1>1
  <2>2. Reading(u)' <= Reading(u) BY <2>1, <1>2, <1>4 DEF Reading
  <2>3. Reading(u) \in Int /\ Reading(u)' \in Int BY <1>2 DEF Reading
  <2>4. Changing(u)' => Changing(u) BY <2>1, <1>4 DEF Changing
  <2> QED BY <2>2, <2>3, <2>4
<1>7. \A u \in Handed(alone) : \E i \in 1 .. Len(waiting) :
        /\ waiting[i] = u
        /\ \A j \in 1 .. i - 1 : Waits(waiting[j]) => waiting[j] \in Handed(alone)
  BY StarvingQueue DEF Handed
<1> QED BY <1>5, <1>6, <1>7 DEF Turn

LEMMA TurnStep == ASSUME TypeOK, CallInv, ListInv, starving, Next PROVE Turn
<1> USE DEF stateVars, queueVars, waitVars, callVars, heldVars
<1>1. PICK t \in Tasks :
        Step(t) \/ Unlock(t) \/ Await(t) \/ Cancel(t) \/ \E m \in Modes : Lock(t, m)
  BY DEF Next
<1>2. /\ fired \in [Tasks -> {"NONE", "WOKEN", "HANDED", "CANCELLED"}]
      /\ reads \in [Tasks -> 0 .. MaxReads] /\ writes \in [Tasks -> BOOLEAN] /\ MaxReads \in Nat
      /\ mode \in [Tasks -> AllModes]
  BY SyncLockAssumption DEF TypeOK
\* A step after which nobody has more.
<1>3. ASSUME \A u \in Tasks : /\ writes'[u] => writes[u]
                              /\ reads'[u] \in Int /\ reads'[u] <= reads[u]
                              /\ fired'[u] = "HANDED" <=> fired[u] = "HANDED"
                              /\ mode'[u] = mode[u] \/ fired[u] # "HANDED"
      PROVE  Turn
  <2> SUFFICES ASSUME NEW u \in Tasks
               PROVE  ~(Reading(u)' > Reading(u)) /\ (Changing(u)' => Changing(u))
    BY DEF Turn, Gaining
  <2>1. fired[u] = "HANDED" => (Exclusive(u)' <=> Exclusive(u)) BY <1>3 DEF Exclusive
  <2>2. reads[u] \in Int /\ reads'[u] \in Int /\ reads'[u] <= reads[u] BY <1>2, <1>3
  <2>3. ~(Reading(u)' > Reading(u))
    <3>1. CASE fired[u] = "HANDED" /\ ~Exclusive(u)
      <4>1. Reading(u) = reads[u] + 1 BY <3>1 DEF Reading
      <4>2. Reading(u)' = reads'[u] + 1 BY <3>1, <2>1, <1>3 DEF Reading
      <4> QED BY <4>1, <4>2, <2>2
    <3>2. CASE ~(fired[u] = "HANDED" /\ ~Exclusive(u))
      <4>1. Reading(u) = reads[u] BY <3>2, <2>2 DEF Reading
      <4>2. Reading(u)' = reads'[u] BY <3>2, <2>1, <2>2, <1>3 DEF Reading
      <4> QED BY <4>1, <4>2, <2>2
    <3> QED BY <3>1, <3>2
  <2>4. Changing(u)' => Changing(u) BY <2>1, <1>3 DEF Changing
  <2> QED BY <2>3, <2>4
<1>4. ~Free(t) BY DEF Free
<1>5. CASE Take(t) BY <1>4, <1>5 DEF Take
<1>6. CASE Lose(t) BY <1>2, <1>3, <1>6 DEF Lose
<1>7. CASE Mark(t) BY <1>2, <1>3, <1>7 DEF Mark
<1>8. CASE Enlist(t) BY <1>2, <1>3, <1>4, <1>8 DEF Enlist
<1>9. CASE Woken(t)
  <2>1. fired' = [fired EXCEPT ![t] = "NONE"] /\ mode' = mode BY <1>9 DEF Woken, Forgets
  <2>2. CASE fired[t] = "HANDED"
    \* What it was handed is what it has now.
    <3>1. Hold(t) BY <2>2, <1>9 DEF Woken
    <3>2. CASE Exclusive(t)
      <4>1. writes' = [writes EXCEPT ![t] = TRUE] /\ reads' = reads BY <3>1, <3>2 DEF Hold
      <4>2. \A u \in Tasks : Reading(u)' = Reading(u) /\ Reading(u) \in Int
        BY <1>2, <2>1, <3>2, <4>1 DEF Reading, Exclusive
      <4>3. \A u \in Tasks : Changing(u)' => Changing(u)
        BY <1>2, <2>1, <2>2, <3>2, <4>1 DEF Changing, Exclusive
      <4> QED BY <4>2, <4>3 DEF Turn, Gaining
    <3>3. CASE ~Exclusive(t)
      <4>1. writes' = writes /\ reads' = [reads EXCEPT ![t] = reads[t] + 1] BY <3>1, <3>3 DEF Hold
      <4>2. \A u \in Tasks : Reading(u)' = Reading(u) /\ Reading(u) \in Int
        BY <1>2, <2>1, <2>2, <3>3, <4>1 DEF Reading, Exclusive
      <4>3. \A u \in Tasks : Changing(u)' => Changing(u)
        BY <1>2, <2>1, <3>3, <4>1 DEF Changing, Exclusive
      <4> QED BY <4>2, <4>3 DEF Turn, Gaining
    <3> QED BY <3>2, <3>3
  <2>3. CASE fired[t] # "HANDED" BY <2>1, <2>3, <1>2, <1>3, <1>9 DEF Woken
  <2> QED BY <2>2, <2>3
<1>10. CASE CancelClaims(t) BY <1>2, <1>3, <1>10 DEF CancelClaims
<1>11. CASE CancelledWait(t) BY <1>2, <1>3, <1>11 DEF CancelledWait
<1>12. CASE Unlist(t)
  <2>1. fired[t] # "HANDED" BY <1>12 DEF Unlist, Goes, CallInv
  <2> QED BY <2>1, <1>2, <1>3, <1>12 DEF Unlist, Forgets
<1>13. CASE Release(t)
  <2>1. /\ \/ Wakes(t, writer, Hearing, {}) \/ Wakes(t, writer, {}, changes)
        /\ UNCHANGED <<reads, writes, mode>>
    BY <1>13 DEF Release
  <2>2. writer \in BOOLEAN /\ Hearing \in SUBSET Hearing /\ {} \in SUBSET Hearing BY DEF TypeOK
  <2>3. \A u \in Tasks : writes'[u] => writes[u] BY <2>1
  <2>4. CASE Wakes(t, writer, Hearing, {}) BY <2>1, <2>2, <2>3, <2>4, ReleaseTurn
  <2>5. CASE Wakes(t, writer, {}, changes) BY <2>1, <2>2, <2>3, <2>5, ReleaseTurn
  <2> QED BY <2>1, <2>4, <2>5
<1>14. CASE Tell(t) BY <1>2, <1>3, <1>14 DEF Tell
<1>15. CASE Heard(t) BY <1>2, <1>3, <1>15 DEF Heard, Forgets
<1>16. CASE Unlock(t)
  <2>1. /\ pc[t] = "run" /\ mode' = [mode EXCEPT ![t] = IF writes[t] THEN "change" ELSE "read"]
        /\ writes' = [writes EXCEPT ![t] = FALSE] /\ fired' = fired
        /\ reads' = [reads EXCEPT ![t] = IF writes[t] THEN reads[t] ELSE reads[t] - 1]
    BY <1>2, <1>16 DEF Unlock
  <2>2. fired[t] # "HANDED" BY <2>1 DEF CallInv
  <2> QED BY <2>1, <2>2, <1>2, <1>3
<1>17. CASE Await(t)
  <2>1. /\ Wakes(t, FALSE, Hearing, {t}) /\ UNCHANGED <<reads, mode>>
        /\ writes' = [writes EXCEPT ![t] = FALSE]
    BY <1>17 DEF Await
  <2>2. FALSE \in BOOLEAN /\ Hearing \in SUBSET Hearing /\ \A u \in Tasks : writes'[u] => writes[u]
    BY <2>1, <1>2
  <2> QED BY <2>1, <2>2, ReleaseTurn
<1>18. CASE Cancel(t) BY <1>2, <1>3, <1>18 DEF Cancel
<1>19. ASSUME NEW m \in Modes, Lock(t, m) PROVE Turn
  <2>1. fired[t] # "HANDED" BY <1>19 DEF Lock, Goes, CallInv
  <2> QED BY <2>1, <1>2, <1>3, <1>19 DEF Lock
<1> QED BY <1>1, <1>5, <1>6, <1>7, <1>8, <1>9, <1>10, <1>11, <1>12, <1>13, <1>14, <1>15, <1>16, <1>17,
           <1>18, <1>19 DEF Step

\* Nobody takes a lock that starves ahead of whoever waits for it: a hold comes by
\* `grant` alone, which goes past no waiter that it does not hand the lock to.
THEOREM StarvingInTurn == Spec => TakenInTurn
<1>1. Inv /\ [Next]_vars => [starving => Turn]_vars
  <2>1. ASSUME Inv, Next, starving PROVE Turn BY <2>1, TurnStep DEF Inv
  <2> QED BY <2>1
<1> QED BY <1>1, InvHolds, PTL DEF Spec, TakenInTurn, Turn

-----------------------------------------------------------------------------
(* What is free is given. *)

\* PARKED and the queue: who waits, or will once it has the queue, is seen.
ParkInv ==
  /\ waiting # <<>> \/ starving => parked
  /\ \A t \in Tasks : pc[t] = "enlist" => queue = t /\ parked

LEMMA EmptyQueue ==
  ASSUME NEW s \in Seq(Tasks)
  PROVE  ToSet(s) = {} <=> s = <<>>
<1>1. Len(s) \in Nat /\ ToSet(s) = {s[i] : i \in 1 .. Len(s)} BY LenProperties DEF ToSet
<1>2. CASE s = <<>> BY <1>2, <1>1
<1>3. CASE s # <<>>
  <2>1. Len(s) # 0 BY <1>3, EmptySeq
  <2>2. 1 \in 1 .. Len(s) BY <2>1, <1>1
  <2> QED BY <2>2, <1>1, <1>3
<1> QED BY <1>2, <1>3

LEMMA ParkStep == ASSUME TypeOK, CallInv, ListInv, HeardInv, ParkInv, Next PROVE ParkInv'
<1> USE DEF stateVars, queueVars, waitVars, callVars, heldVars
<1>1. PICK t \in Tasks :
        Step(t) \/ Unlock(t) \/ Await(t) \/ Cancel(t) \/ \E m \in Modes : Lock(t, m)
  BY DEF Next
<1>2. pc \in [Tasks -> Pcs] /\ waiting \in Seq(Tasks) /\ Nobody \notin Tasks
  BY SyncLockAssumption DEF TypeOK
\* A step that leaves the bits and the lists alone, after which nobody else enlists.
<1>3. ASSUME UNCHANGED <<parked, starving, waiting>>,
             \A u \in Tasks : pc'[u] = "enlist" => pc[u] = "enlist" /\ queue' = queue
      PROVE  ParkInv'
  BY <1>3 DEF ParkInv
<1>4. CASE Take(t) BY <1>2, <1>3, <1>4 DEF Take, Goes
<1>5. CASE Lose(t)
  <2>1. \E to \in {"run", "mark"} : pc' = [pc EXCEPT ![t] = to] BY <1>5 DEF Lose, Goes
  <2> QED BY <2>1, <1>2, <1>3, <1>5 DEF Lose
<1>6. CASE Mark(t) BY <1>2, <1>6 DEF Mark, Goes, ParkInv
<1>7. CASE Enlist(t)
  <2>1. /\ pc[t] = "enlist" /\ queue = t /\ parked /\ parked' = parked
        /\ pc' = [pc EXCEPT ![t] = "run"] \/ pc' = [pc EXCEPT ![t] = "wait"]
    BY <1>7 DEF Enlist, Goes, ParkInv
  <2>2. \A u \in Tasks : pc'[u] # "enlist" BY <2>1, <1>2 DEF ParkInv
  <2> QED BY <2>1, <2>2 DEF ParkInv
<1>8. CASE Woken(t)
  <2>1. pc' = [pc EXCEPT ![t] = "run"] \/ pc' = [pc EXCEPT ![t] = "try"] BY <1>8 DEF Woken, Goes
  <2> QED BY <2>1, <1>2, <1>3, <1>8 DEF Woken
<1>9. CASE CancelClaims(t) BY <1>3, <1>9 DEF CancelClaims
<1>10. CASE CancelledWait(t) BY <1>2, <1>3, <1>10 DEF CancelledWait, Goes
<1>11. CASE Unlist(t)
  <2>1. /\ pc' = [pc EXCEPT ![t] = "run"] /\ UNCHANGED <<queue, parked, starving>>
        /\ waiting' = waiting \/ waiting' = RemoveFirst(waiting, t)
    BY <1>11 DEF Unlist, Goes
  <2>2. waiting' # <<>> => waiting # <<>>
    <3>1. /\ RemoveFirst(waiting, t) \in Seq(Tasks)
          /\ ToSet(RemoveFirst(waiting, t)) \subseteq ToSet(waiting)
      BY <1>2, RemoveHolds
    <3>2. ToSet(waiting) = {} => ToSet(RemoveFirst(waiting, t)) = {} BY <3>1
    <3> QED BY <2>1, <3>1, <3>2, <1>2, EmptyQueue
  <2> QED BY <2>1, <2>2, <1>2 DEF ParkInv
\* A release keeps PARKED while it leaves anybody in the queue, and nobody enlists.
<1>12. ASSUME NEW alone \in BOOLEAN, NEW heard, NEW awaiting, Wakes(t, alone, heard, awaiting),
              queue = Nobody, \E to \in {"tell", "tellAwait"} : pc' = [pc EXCEPT ![t] = to]
       PROVE  ParkInv'
  <2>1. /\ waiting' = Left(alone) /\ starving' = Starves(Left(alone))
        /\ parked' = StillParked(t, Left(alone), awaiting)
    BY <1>12 DEF Wakes, Handed, WokenOf, Left
  <2>2. \A u \in Tasks : pc[u] # "enlist" BY <1>12, <1>2 DEF ParkInv
  <2>3. \A u \in Tasks : pc'[u] # "enlist" BY <2>2, <1>12, <1>2
  <2>4. Left(alone) # <<>> => waiting # <<>>
    <3>1. Left(alone) \in Seq(Tasks) /\ ToSet(Left(alone)) \subseteq ToSet(waiting) BY QueueParts
    <3>2. ToSet(waiting) = {} => ToSet(Left(alone)) = {} BY <3>1
    <3> QED BY <3>1, <3>2, <1>2, EmptyQueue
  <2>5. Left(alone) # <<>> => parked' BY <2>1, <2>4 DEF StillParked, ParkInv
  <2>6. starving' => Left(alone) # <<>> BY <2>1 DEF Starves
  <2> QED BY <2>1, <2>3, <2>5, <2>6 DEF ParkInv
<1>13. CASE Release(t)
  <2>1. /\ queue = Nobody /\ pc' = [pc EXCEPT ![t] = "tell"] /\ writer \in BOOLEAN
        /\ Wakes(t, writer, Hearing, {}) \/ Wakes(t, writer, {}, changes)
    BY <1>13 DEF Release, Goes, TypeOK
  <2>2. CASE Wakes(t, writer, Hearing, {}) BY <2>1, <2>2, <1>12
  <2>3. CASE Wakes(t, writer, {}, changes) BY <2>1, <2>3, <1>12
  <2> QED BY <2>1, <2>2, <2>3
<1>14. CASE Await(t)
  <2>1. /\ queue = Nobody /\ pc' = [pc EXCEPT ![t] = "tellAwait"] /\ FALSE \in BOOLEAN
        /\ Wakes(t, FALSE, Hearing, {t})
    BY <1>14 DEF Await, Goes
  <2> QED BY <2>1, <1>12
<1>15. CASE Tell(t)
  <2>1. pc' = pc \/ pc' = [pc EXCEPT ![t] = IF pc[t] = "tell" THEN "run" ELSE "await"]
    BY <1>15 DEF Tell
  <2>2. UNCHANGED <<parked, starving, waiting, queue>> BY <1>15 DEF Tell
  <2> QED BY <2>1, <2>2, <1>2, <1>3
<1>16. CASE Heard(t)
  <2>1. \E to \in {"run", "try"} : pc' = [pc EXCEPT ![t] = to] BY <1>16 DEF Heard, Goes
  <2> QED BY <2>1, <1>2, <1>3, <1>16 DEF Heard
<1>17. CASE Unlock(t)
  <2>1. \E to \in {"run", "release"} : pc' = [pc EXCEPT ![t] = to] BY <1>17 DEF Unlock
  <2> QED BY <2>1, <1>2, <1>3, <1>17 DEF Unlock
<1>18. CASE Cancel(t) BY <1>3, <1>18 DEF Cancel
<1>19. ASSUME NEW m \in Modes, Lock(t, m) PROVE ParkInv' BY <1>2, <1>3, <1>19 DEF Lock, Goes
<1> QED BY <1>1, <1>4, <1>5, <1>6, <1>7, <1>8, <1>9, <1>10, <1>11, <1>13, <1>14, <1>15, <1>16, <1>17,
           <1>18, <1>19 DEF Step

\* A starving lock that a release leaves free is handed to all that wait for it.
LEMMA StarvingHanded ==
  ASSUME TypeOK, starving, readers = 0, HandedTo(FALSE) = {}
  PROVE  Left(FALSE) = <<>>
<1> DEFINE n == Len(waiting)
           P == Passed(FALSE)
           k == Cardinality(P)
<1>1. waiting \in Seq(Tasks) /\ n \in Nat
  <2>1. waiting \in Seq(Tasks) BY DEF TypeOK
  <2> QED BY <2>1, LenProperties
<1>2. P \subseteq 1 .. n /\ \A i \in P : \A j \in 1 .. i : j \in P
  <2> SUFFICES ASSUME NEW i \in P, NEW j \in 1 .. i PROVE i \in 1 .. n /\ j \in P
    BY DEF Passed
  <2>1. i \in 1 .. n /\ \A a \in 1 .. i : Granted(a, FALSE) BY DEF Passed
  <2>2. j \in 1 .. n /\ 1 .. j \subseteq 1 .. i BY <2>1, <1>1
  <2> QED BY <2>1, <2>2 DEF Passed
<1>3. \A i \in P : Granted(i, FALSE) /\ ~Waits(waiting[i])
  <2> SUFFICES ASSUME NEW i \in P PROVE Granted(i, FALSE) /\ ~Waits(waiting[i])
    OBVIOUS
  <2>1. i \in 1 .. n BY <1>2
  <2>2. Granted(i, FALSE)
    <3>1. i \in 1 .. i BY <2>1, <1>1
    <3> QED BY <3>1 DEF Passed
  <2>3. ~Waits(waiting[i]) BY DEF HandedTo
  <2> QED BY <2>2, <2>3
<1>4. k \in 0 .. n /\ P = 1 .. k
  <2> HIDE DEF n, P
  <2> QED BY <1>1, <1>2, PrefixCounts
<1>5. k = n
  <2> SUFFICES ASSUME k # n PROVE FALSE
    OBVIOUS
  <2>1. /\ k + 1 \in 1 .. n /\ k + 1 \notin 1 .. k
        /\ \A j \in 1 .. k + 1 : j \in 1 .. k \/ j = k + 1
        /\ \A j \in 1 .. (k + 1) - 1 : j \in 1 .. k
    <3> HIDE DEF n, k
    <3> QED BY <1>1, <1>4
  <2>2. Granted(k + 1, FALSE)
    <3> HIDE DEF k, n, P
    <3>1. \A j \in 1 .. (k + 1) - 1 : j \in P BY <2>1, <1>4
    <3>2. \A j \in 1 .. (k + 1) - 1 : ~Waits(waiting[j]) BY <3>1, <1>3
    <3> QED BY <3>2 DEF Granted
  <2>3. \A j \in 1 .. k + 1 : Granted(j, FALSE) BY <2>1, <2>2, <1>3, <1>4
  <2>4. k + 1 \in P BY <2>1, <2>3 DEF Passed
  <2> QED BY <2>1, <2>4, <1>4
<1>6. Left(FALSE) = SubSeq(waiting, n + 1, n) BY <1>5 DEF Left
<1>7. Left(FALSE) \in Seq(Tasks) /\ ToSet(Left(FALSE)) = {waiting[i] : i \in n + 1 .. n}
  <2>1. n \in 0 .. n BY <1>1
  <2> QED BY <2>1, <1>1, <1>6, RestHolds
<1>8. n + 1 .. n = {} BY <1>1
<1>9. ToSet(Left(FALSE)) = {} BY <1>7, <1>8
<1> QED BY <1>7, <1>9, EmptyQueue

\* A calm one is left to the first that waits, if any does.
LEMMA CalmWoken ==
  ASSUME TypeOK, ListInv, ~starving
  PROVE  AfterWoken = <<>> \/ \E u \in WokenNext : u \in ToSet(waiting) /\ Waits(u)
<1>1. CASE First = 0 BY <1>1 DEF AfterWoken
<1>2. CASE First # 0
  <2>1. waiting[First] \in WokenNext BY <1>2 DEF WokenNext
  <2> QED BY <2>1, CalmQueue
<1> QED BY <1>1, <1>2

\* Wherever a release that leaves the lock free ends: nobody waits, or one was woken.
LEMMA ReleaseGives ==
  ASSUME TypeOK, CallInv, ListInv, NEW t \in Tasks, pc[t] \in {"run", "release"},
         NEW alone \in BOOLEAN, NEW heard \in SUBSET Hearing, NEW awaiting,
         Wakes(t, alone, heard, awaiting), NEW to, pc' = [pc EXCEPT ![t] = to]
  PROVE  FreeIsGiven'
<1>1. /\ waiting' = Left(alone) /\ starving' = Starves(Left(alone))
      /\ writer' = (alone \/ \E u \in Handed(alone) : Exclusive(u))
      /\ readers' = readers + Cardinality({u \in Handed(alone) : ~Exclusive(u)})
      /\ fired' = [u \in Tasks |-> IF u \in Handed(alone) THEN "HANDED"
                                   ELSE IF u \in heard \cup WokenOf THEN "WOKEN" ELSE fired[u]]
  BY DEF Wakes, Handed, WokenOf, Left
<1>2. /\ Handed(alone) \cup WokenOf \subseteq {u \in ToSet(waiting) : Waits(u)}
      /\ ToSet(waiting) \subseteq Tasks
  BY QueueParts, WaitingTasks
<1>3. SUFFICES ASSUME ~writer', readers' = 0
      PROVE  \/ ~starving' /\ waiting' = <<>>
             \/ ~starving' /\ \E u \in Tasks : pc'[u] = "wait" /\ fired'[u] = "WOKEN"
  <2>1. waiting' = <<>> => \A u \in ToSet(waiting') : ~Waits(u)'
    <3>1. ToSet(<<>>) = {} BY DEF ToSet
    <3> QED BY <3>1
  <2> QED BY <1>3, <2>1 DEF FreeIsGiven
<1>4. ~alone /\ readers = 0 /\ Handed(alone) = {}
  <2> DEFINE R == {u \in Handed(alone) : ~Exclusive(u)}
  <2>1. R \in SUBSET Tasks BY <1>2
  <2>2. IsFiniteSet(R) /\ Cardinality(R) \in Nat
    BY <2>1, SyncLockAssumption, FS_Subset, FS_CardinalityType
  <2>3. readers \in Nat BY DEF TypeOK
  <2> HIDE DEF R
  <2>4. Cardinality(R) = 0 /\ readers = 0 BY <2>2, <2>3, <1>1, <1>3 DEF R
  <2>5. R = {} BY <2>2, <2>4, FS_EmptySet
  <2> QED BY <2>4, <2>5, <1>1, <1>3 DEF R
<1>5. CASE starving
  <2>1. Left(alone) = <<>> BY <1>4, <1>5, StarvingHanded DEF Handed
  <2> QED BY <2>1, <1>1 DEF Starves
<1>6. CASE ~starving
  <2>1. ~starving' /\ waiting' = AfterWoken /\ WokenOf = WokenNext
    BY <1>1, <1>6 DEF Starves, Left, WokenOf
  <2>2. CASE AfterWoken = <<>> BY <2>1, <2>2
  <2>3. CASE AfterWoken # <<>>
    <3>1. PICK u \in WokenNext : u \in ToSet(waiting) /\ Waits(u) BY <2>3, <1>6, CalmWoken
    <3>2. u \in Tasks /\ pc[u] = "wait" BY <3>1, <1>2 DEF Waits, ListInv, CallInv
    <3>3. fired'[u] = "WOKEN" BY <3>1, <3>2, <2>1, <1>1, <1>4
    <3>4. pc'[u] = "wait"
      <4>1. pc \in [Tasks -> Pcs] BY DEF TypeOK
      <4> QED BY <4>1, <3>2
    <3> QED BY <2>1, <3>2, <3>3, <3>4
  <2> QED BY <2>2, <2>3
<1> QED BY <1>5, <1>6

\* On its way to a task of the call: it tries again, having been woken.
OnItsWay(u) == \/ pc[u] = "wait" /\ fired[u] = "WOKEN"
               \/ pc[u] \in {"try", "mark", "enlist"} /\ losses[u] > 0

LEMMA GivenStep ==
  ASSUME TypeOK, CallInv, ListInv, HoldInv, ParkInv, FreeIsGiven, Next
  PROVE  FreeIsGiven'
<1> USE DEF stateVars, queueVars, waitVars, callVars, heldVars
<1>1. PICK t \in Tasks :
        Step(t) \/ Unlock(t) \/ Await(t) \/ Cancel(t) \/ \E m \in Modes : Lock(t, m)
  BY DEF Next
<1>2. /\ pc \in [Tasks -> Pcs] /\ fired \in [Tasks -> {"NONE", "WOKEN", "HANDED", "CANCELLED"}]
      /\ losses \in [Tasks -> 0 .. MaxLosses] /\ MaxLosses \in Nat \ {0}
      /\ waiting \in Seq(Tasks) /\ ToSet(waiting) \subseteq Tasks
  BY SyncLockAssumption, WaitingTasks DEF TypeOK
\* A step that leaves the bits alone, and the queue but for who leaves it, whose task
\* goes on, if it releases or is woken, with what it does.
<1>3. ASSUME UNCHANGED <<writer, readers, starving>>,
             ToSet(waiting') \subseteq ToSet(waiting),
             \A u \in ToSet(waiting') : ~Waits(u) => ~Waits(u)',
             \A u \in Tasks : /\ pc[u] = "release" => pc'[u] = "release"
                              /\ ~starving /\ OnItsWay(u) => OnItsWay(u)'
      PROVE  FreeIsGiven'
  <2> SUFFICES ASSUME ~writer, readers = 0 PROVE FreeIsGiven'
    BY <1>3 DEF FreeIsGiven
  <2>1. CASE ~starving /\ \A u \in ToSet(waiting) : ~Waits(u) BY <2>1, <1>3 DEF FreeIsGiven
  <2>2. CASE \E u \in Tasks : pc[u] = "release" BY <2>2, <1>3 DEF FreeIsGiven
  <2>3. CASE ~starving /\ \E u \in Tasks : OnItsWay(u)
    <3>1. ~starving' /\ \E u \in Tasks : OnItsWay(u)' BY <2>3, <1>3
    <3> QED BY <3>1 DEF FreeIsGiven, OnItsWay
  <2> QED BY <2>1, <2>2, <2>3 DEF FreeIsGiven, OnItsWay
\* A lock that is taken has nobody to go to.
<1>4. ASSUME TakeBits(t) PROVE FreeIsGiven'
  <2>1. readers \in Nat BY DEF TypeOK
  <2>2. writer' \/ readers' # 0 BY <2>1, <1>4 DEF TakeBits
  <2> QED BY <2>2 DEF FreeIsGiven
\* What a task finds that cannot take a lock that is free.
<1>5. ~Free(t) /\ ~writer /\ readers = 0 => starving BY DEF Free
<1>6. ASSUME ~Free(t), UNCHANGED <<writer, readers>>, pc[t] # "release",
             \E to : pc' = [pc EXCEPT ![t] = to]
      PROVE  FreeIsGiven'
  <2> SUFFICES ASSUME ~writer, readers = 0 PROVE \E u \in Tasks : pc'[u] = "release"
    BY <1>6 DEF FreeIsGiven
  <2>1. PICK u \in Tasks : pc[u] = "release" BY <1>5, <1>6 DEF FreeIsGiven
  <2>2. pc'[u] = "release" BY <2>1, <1>6, <1>2
  <2> QED BY <2>2
<1>7. CASE Take(t) BY <1>7, <1>4 DEF Take
<1>8. CASE Lose(t) BY <1>8, <1>6 DEF Lose, Goes
<1>9. CASE Mark(t)
  <2>1. /\ pc[t] = "mark" /\ pc' = [pc EXCEPT ![t] = "enlist"]
        /\ UNCHANGED <<writer, readers, starving, waiting, fired, losses>>
    BY <1>9 DEF Mark, Goes
  <2> QED BY <2>1, <1>2, <1>3 DEF OnItsWay, Waits
<1>10. CASE Enlist(t)
  <2>1. CASE Free(t) BY <2>1, <1>10, <1>4 DEF Enlist
  <2>2. CASE ~Free(t)
    <3>1. UNCHANGED <<writer, readers>> /\ pc[t] = "enlist" /\ pc' = [pc EXCEPT ![t] = "wait"]
      BY <2>2, <1>10 DEF Enlist, Goes
    <3> QED BY <2>2, <3>1, <1>6
  <2> QED BY <2>1, <2>2
<1>11. CASE Woken(t)
  <2>1. /\ pc[t] = "wait" /\ fired[t] \in {"WOKEN", "HANDED"} /\ fired' = [fired EXCEPT ![t] = "NONE"]
        /\ UNCHANGED <<writer, readers, starving, waiting>>
    BY <1>11 DEF Woken, Forgets
  <2>2. CASE fired[t] = "HANDED"
    \* It holds the lock that it was handed.
    <3>1. writer \/ readers # 0
      <4> SUFFICES ASSUME ~writer, readers = 0 PROVE FALSE
        OBVIOUS
      <4>1. Reading(t) = 0 /\ ~Changing(t) BY NoHolds DEF HoldInv
      <4>2. ~Exclusive(t) BY <4>1, <2>2 DEF Changing
      <4>3. reads[t] \in Nat BY SyncLockAssumption DEF TypeOK
      <4> QED BY <4>1, <4>2, <4>3, <2>2 DEF Reading
    <3> QED BY <2>1, <3>1 DEF FreeIsGiven
  <2>3. CASE fired[t] # "HANDED"
    <3>1. /\ pc' = [pc EXCEPT ![t] = "try"]
          /\ losses' = [losses EXCEPT ![t] = IF losses[t] < MaxLosses THEN losses[t] + 1 ELSE losses[t]]
      BY <2>3, <1>11 DEF Woken, Goes
    <3>2. losses'[t] > 0 BY <3>1, <1>2
    <3>3. t \notin ToSet(waiting) BY <2>1 DEF ListInv
    <3>4. \A u \in Tasks : OnItsWay(u) => OnItsWay(u)'
      <4> TAKE u \in Tasks
      <4>1. CASE u = t BY <4>1, <3>1, <3>2, <1>2 DEF OnItsWay
      <4>2. CASE u # t BY <4>2, <2>1, <3>1, <1>2 DEF OnItsWay
      <4> QED BY <4>1, <4>2
    <3>5. \A u \in ToSet(waiting') : ~Waits(u) => ~Waits(u)' BY <2>1, <3>3, <1>2 DEF Waits
    <3>6. \A u \in Tasks : pc[u] = "release" => pc'[u] = "release" BY <2>1, <3>1, <1>2
    <3> QED BY <2>1, <3>4, <3>5, <3>6, <1>3
  <2> QED BY <2>2, <2>3
<1>12. CASE CancelClaims(t)
  <2>1. /\ fired[t] = "NONE" /\ fired' = [fired EXCEPT ![t] = "CANCELLED"]
        /\ UNCHANGED <<writer, readers, starving, waiting, pc, losses>>
    BY <1>12 DEF CancelClaims
  <2>2. \A u \in Tasks : OnItsWay(u) => OnItsWay(u)' BY <2>1, <1>2 DEF OnItsWay
  <2>3. \A u \in Tasks : ~Waits(u) => ~Waits(u)' BY <2>1, <1>2 DEF Waits
  <2> QED BY <2>1, <2>2, <2>3, <1>2, <1>3
<1>13. CASE CancelledWait(t)
  <2>1. /\ fired[t] = "CANCELLED" /\ pc[t] \in {"wait", "await"}
        /\ \E to : pc' = [pc EXCEPT ![t] = to]
        /\ UNCHANGED <<writer, readers, starving, waiting, fired, losses>>
    BY <1>13 DEF CancelledWait, Goes
  <2>2. \A u \in Tasks : OnItsWay(u) => OnItsWay(u)' BY <2>1, <1>2 DEF OnItsWay
  <2>3. \A u \in Tasks : pc[u] = "release" => pc'[u] = "release" BY <2>1, <1>2
  <2> QED BY <2>1, <2>2, <2>3, <1>2, <1>3 DEF Waits
<1>14. CASE Unlist(t)
  <2>1. /\ pc[t] \in {"unlist", "unchange"} /\ pc' = [pc EXCEPT ![t] = "run"]
        /\ fired' = [fired EXCEPT ![t] = "NONE"]
        /\ \/ waiting' = RemoveFirst(waiting, t)
           \/ pc[t] = "unchange" /\ waiting' = waiting
        /\ UNCHANGED <<writer, readers, starving, losses>>
    BY <1>14 DEF Unlist, Forgets, Goes
  <2>2. ToSet(waiting') \subseteq ToSet(waiting) /\ t \notin ToSet(waiting')
    <3>1. CASE waiting' = RemoveFirst(waiting, t) BY <3>1, <1>2, RemoveHolds DEF ListInv
    <3>2. CASE pc[t] = "unchange" /\ waiting' = waiting BY <3>2 DEF ListInv
    <3> QED BY <2>1, <3>1, <3>2
  <2>3. \A u \in Tasks : OnItsWay(u) => OnItsWay(u)' BY <2>1, <1>2 DEF OnItsWay
  <2>4. \A u \in ToSet(waiting') : ~Waits(u) => ~Waits(u)' BY <2>1, <2>2, <1>2 DEF Waits
  <2>5. \A u \in Tasks : pc[u] = "release" => pc'[u] = "release" BY <2>1, <1>2
  <2> QED BY <2>1, <2>2, <2>3, <2>4, <2>5, <1>3
<1>15. CASE Release(t)
  <2>1. /\ pc[t] \in {"run", "release"} /\ pc' = [pc EXCEPT ![t] = "tell"] /\ writer \in BOOLEAN
        /\ {} \in SUBSET Hearing /\ Hearing \in SUBSET Hearing
        /\ Wakes(t, writer, Hearing, {}) \/ Wakes(t, writer, {}, changes)
    BY <1>15 DEF Release, Goes, TypeOK
  <2>2. CASE Wakes(t, writer, Hearing, {}) BY <2>1, <2>2, ReleaseGives
  <2>3. CASE Wakes(t, writer, {}, changes) BY <2>1, <2>3, ReleaseGives
  <2> QED BY <2>1, <2>2, <2>3
<1>16. CASE Await(t)
  <2>1. /\ pc[t] \in {"run", "release"} /\ pc' = [pc EXCEPT ![t] = "tellAwait"] /\ FALSE \in BOOLEAN
        /\ Hearing \in SUBSET Hearing /\ Wakes(t, FALSE, Hearing, {t})
    BY <1>16 DEF Await, Goes
  <2> QED BY <2>1, ReleaseGives
<1>17. CASE Tell(t)
  <2>1. /\ pc[t] \in {"tell", "tellAwait"}
        /\ pc' = pc \/ \E to : pc' = [pc EXCEPT ![t] = to]
        /\ UNCHANGED <<writer, readers, starving, waiting, fired, losses>>
    BY <1>17 DEF Tell
  <2>2. \A u \in Tasks : OnItsWay(u) => OnItsWay(u)' BY <2>1, <1>2 DEF OnItsWay
  <2>3. \A u \in Tasks : pc[u] = "release" => pc'[u] = "release" BY <2>1, <1>2
  <2> QED BY <2>1, <2>2, <2>3, <1>2, <1>3 DEF Waits
<1>18. CASE Heard(t)
  <2>1. /\ pc[t] = "await" /\ fired[t] = "WOKEN" /\ fired' = [fired EXCEPT ![t] = "NONE"]
        /\ \E to : pc' = [pc EXCEPT ![t] = to]
        /\ losses' = [losses EXCEPT ![t] = 0]
        /\ UNCHANGED <<writer, readers, starving, waiting>>
    BY <1>18 DEF Heard, Forgets, Goes
  <2>2. \A u \in Tasks : OnItsWay(u) => OnItsWay(u)' BY <2>1, <1>2 DEF OnItsWay
  <2>3. t \notin ToSet(waiting) BY <2>1 DEF ListInv
  <2>4. \A u \in ToSet(waiting') : ~Waits(u) => ~Waits(u)' BY <2>1, <2>3, <1>2 DEF Waits
  <2>5. \A u \in Tasks : pc[u] = "release" => pc'[u] = "release" BY <2>1, <1>2
  <2> QED BY <2>1, <2>2, <2>4, <2>5, <1>3
<1>19. CASE Unlock(t)
  <2>1. /\ pc' = [pc EXCEPT ![t] = IF parked THEN "release" ELSE "run"]
        /\ UNCHANGED <<starving, waiting>>
    BY <1>19 DEF Unlock
  <2>2. CASE parked
    <3>1. pc'[t] = "release" BY <2>1, <2>2, <1>2
    <3> QED BY <3>1 DEF FreeIsGiven
  <2>3. CASE ~parked
    <3>1. ~starving' /\ waiting' = <<>> BY <2>1, <2>3 DEF ParkInv
    <3>2. ToSet(<<>>) = {} BY DEF ToSet
    <3> QED BY <3>1, <3>2 DEF FreeIsGiven
  <2> QED BY <2>2, <2>3
<1>20. CASE Cancel(t)
  <2>1. UNCHANGED <<writer, readers, starving, waiting, fired, losses, pc>> BY <1>20 DEF Cancel
  <2> QED BY <2>1, <1>3 DEF OnItsWay, Waits
<1>21. ASSUME NEW m \in Modes, Lock(t, m) PROVE FreeIsGiven'
  <2>1. /\ pc[t] = "run" /\ pc' = [pc EXCEPT ![t] = "try"] /\ losses' = [losses EXCEPT ![t] = 0]
        /\ UNCHANGED <<writer, readers, starving, waiting, fired>>
    BY <1>21 DEF Lock, Goes
  <2>2. \A u \in Tasks : OnItsWay(u) => OnItsWay(u)' BY <2>1, <1>2 DEF OnItsWay
  <2>3. \A u \in Tasks : pc[u] = "release" => pc'[u] = "release" BY <2>1, <1>2
  <2> QED BY <2>1, <2>2, <2>3, <1>3 DEF Waits
<1> QED BY <1>1, <1>7, <1>8, <1>9, <1>10, <1>11, <1>12, <1>13, <1>14, <1>15, <1>16, <1>17, <1>18, <1>19,
           <1>20, <1>21 DEF Step

LEMMA GivenHolds == Spec => [](ParkInv /\ FreeIsGiven)
<1>1. Init => ParkInv /\ FreeIsGiven
  <2>1. ToSet(<<>>) = {} BY DEF ToSet
  <2> QED BY <2>1 DEF Init, ParkInv, FreeIsGiven
<1>2. ParkInv /\ FreeIsGiven /\ Inv /\ [Next]_vars => (ParkInv /\ FreeIsGiven)'
  <2> SUFFICES ASSUME ParkInv, FreeIsGiven, Inv, [Next]_vars PROVE ParkInv' /\ FreeIsGiven'
    OBVIOUS
  <2>1. CASE Next BY <2>1, ParkStep, GivenStep DEF Inv
  <2>2. CASE UNCHANGED vars
    BY <2>2 DEF vars, stateVars, queueVars, waitVars, callVars, heldVars, ParkInv, FreeIsGiven, Waits
  <2> QED BY <2>1, <2>2
<1> QED BY <1>1, <1>2, InvHolds, PTL DEF Spec

\* A lock that is free and wanted is on its way to somebody: no release leaves it so
\* that only the next one would wake who waits, and none comes (`wake_lockers`).
THEOREM FreeReachesWaiters == Spec => []FreeIsGiven
BY GivenHolds, PTL

\* PARKED is set while the queue is free and a task is in one of its lists: a release
\* that skips the queue because PARKED is not set leaves nobody behind.
THEOREM WaitersAreSeen == Spec => []WaitingIsParked
<1>1. Inv /\ ParkInv => WaitingIsParked BY DEF Inv, HeardInv, ParkInv, WaitingIsParked
<1> QED BY <1>1, GivenHolds, InvHolds, PTL

=============================================================================
