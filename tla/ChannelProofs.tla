--------------------------- MODULE ChannelProofs ----------------------------
(***************************************************************************)
(* Theorems about Channel, for any tasks, capacities, values and copies:   *)
(* whoever may go on does not wait, the channel lives while a handle does, *)
(* every value sent is in one place until it is released, once, and the    *)
(* values leave in the order they came (Channel implements Fifo).          *)
(***************************************************************************)
EXTENDS Channel, Integers, FiniteSetTheorems, SequenceTheorems,
        WellFoundedInduction, TLAPS

-----------------------------------------------------------------------------
(* Sequences and what they hold. *)

LEMMA Least ==
  ASSUME NEW S, S \subseteq Nat, S # {}
  PROVE  Min(S) \in S /\ \A x \in S : Min(S) <= x
<1>1. PICK m \in S : \A x \in S : <<x, m>> \notin OpToRel(<, Nat)
  BY NatLessThanWellFounded, WFMin
<1>2. ASSUME NEW x \in S PROVE m <= x
  <2>1. x \in Nat /\ m \in Nat OBVIOUS
  <2>2. ~(x < m) BY <1>1, <2>1 DEF OpToRel
  <2> QED BY <2>1, <2>2
<1> QED BY <1>1, <1>2 DEF Min

\* No value is twice in the sequence.
Distinct(s) == \A i, j \in 1 .. Len(s) : s[i] = s[j] => i = j

\* What is left of a sequence from a place on.
LEMMA RestHolds ==
  ASSUME NEW S, NEW s \in Seq(S), NEW k \in 0 .. Len(s)
  PROVE  LET rest == SubSeq(s, k + 1, Len(s))
         IN /\ rest \in Seq(S)
            /\ ToSet(rest) = {s[i] : i \in k + 1 .. Len(s)}
            /\ Distinct(s) => Distinct(rest)
<1> DEFINE rest == SubSeq(s, k + 1, Len(s))
<1>1. Len(s) \in Nat /\ k \in Nat /\ k + 1 \in Int /\ k <= Len(s) BY LenProperties
<1>2. \A i \in k + 1 .. Len(s) : s[i] \in S BY <1>1, ElementOfSeq
<1>3. /\ rest \in Seq(S)
      /\ Len(rest) = IF k + 1 <= Len(s) THEN Len(s) - (k + 1) + 1 ELSE 0
      /\ \A i \in 1 .. Len(s) - (k + 1) + 1 : rest[i] = s[k + 1 + i - 1]
  BY <1>1, <1>2, SubSeqProperties
<1> HIDE DEF rest
<1>4. Len(rest) = Len(s) - k BY <1>1, <1>3
<1>5. \A i \in 1 .. Len(rest) : rest[i] = s[k + i] BY <1>1, <1>3, <1>4
<1>6. ToSet(rest) = {rest[i] : i \in 1 .. Len(rest)} BY <1>3, LenProperties DEF ToSet
<1>7. ToSet(rest) = {s[i] : i \in k + 1 .. Len(s)}
  <2>1. ASSUME NEW i \in k + 1 .. Len(s) PROVE s[i] \in ToSet(rest)
    <3>1. i - k \in 1 .. Len(rest) /\ k + (i - k) = i BY <1>1, <1>4
    <3> QED BY <3>1, <1>5, <1>6
  <2>2. ASSUME NEW i \in 1 .. Len(rest) PROVE rest[i] \in {s[j] : j \in k + 1 .. Len(s)}
    <3>1. k + i \in k + 1 .. Len(s) BY <1>1, <1>4
    <3> QED BY <3>1, <1>5
  <2> QED BY <2>1, <2>2, <1>6
<1>8. ASSUME Distinct(s) PROVE Distinct(rest)
  <2> SUFFICES ASSUME NEW i \in 1 .. Len(rest), NEW j \in 1 .. Len(rest), rest[i] = rest[j]
               PROVE  i = j
    BY DEF Distinct
  <2>1. k + i \in 1 .. Len(s) /\ k + j \in 1 .. Len(s) BY <1>1, <1>4
  <2>2. k + i = k + j BY <2>1, <1>5, <1>8 DEF Distinct
  <2> QED BY <2>2, <1>1
<1> QED BY <1>3, <1>7, <1>8 DEF rest

LEMMA AppendHolds ==
  ASSUME NEW S, NEW s \in Seq(S), NEW e \in S
  PROVE  /\ Append(s, e) \in Seq(S)
         /\ ToSet(Append(s, e)) = ToSet(s) \cup {e}
         /\ Distinct(s) /\ e \notin ToSet(s) => Distinct(Append(s, e))
<1> DEFINE u == Append(s, e)
<1>1. Len(s) \in Nat BY LenProperties
<1>2. /\ u \in Seq(S) /\ Len(u) = Len(s) + 1
      /\ \A i \in 1 .. Len(s) : u[i] = s[i]
      /\ u[Len(s) + 1] = e
  BY AppendProperties
<1> HIDE DEF u
<1>3. ToSet(s) = {s[i] : i \in 1 .. Len(s)} /\ ToSet(u) = {u[i] : i \in 1 .. Len(u)}
  BY <1>2, LenProperties DEF ToSet
<1>4. ToSet(u) = ToSet(s) \cup {e} BY <1>1, <1>2, <1>3
<1>5. ASSUME Distinct(s), e \notin ToSet(s) PROVE Distinct(u)
  BY <1>1, <1>2, <1>3, <1>5 DEF Distinct
<1> QED BY <1>2, <1>4, <1>5 DEF u

\* What is left after the first of an element is taken out, and where.
LEMMA RemovePlaces ==
  ASSUME NEW S, NEW s \in Seq(S), NEW e
  PROVE  LET rest == RemoveFirst(s, e)
         IN \/ rest = s /\ \A i \in 1 .. Len(s) : s[i] # e
            \/ \E k \in 1 .. Len(s) :
                 /\ s[k] = e /\ rest \in Seq(S) /\ Len(rest) = Len(s) - 1
                 /\ \A i \in 1 .. Len(rest) : rest[i] = IF i < k THEN s[i] ELSE s[i + 1]
<1> DEFINE rest == RemoveFirst(s, e)
           Places == {i \in 1 .. Len(s) : s[i] = e}
           k == Min(Places)
<1>1. Len(s) \in Nat BY LenProperties
<1>2. CASE Places = {}
  <2>1. rest = s /\ \A i \in 1 .. Len(s) : s[i] # e BY <1>2 DEF RemoveFirst
  <2> QED BY <2>1
<1>3. CASE Places # {}
  <2>1. k \in Places
    <3>1. Places \subseteq Nat BY <1>1
    <3> QED BY <3>1, <1>3, Least
  <2>2. rest = SubSeq(s, 1, k - 1) \o SubSeq(s, k + 1, Len(s))
    BY <1>3 DEF RemoveFirst, RemoveAt, SelectInSeq
  <2> DEFINE a == SubSeq(s, 1, k - 1)
             b == SubSeq(s, k + 1, Len(s))
  <2> HIDE DEF rest, k
  <2>3. k \in 1 .. Len(s) /\ s[k] = e /\ k \in Nat /\ k >= 1 /\ k <= Len(s) BY <2>1, <1>1
  <2>4. /\ a \in Seq(S) /\ Len(a) = k - 1
        /\ \A i \in 1 .. k - 1 : a[i] = s[i]
    <3>1. \A i \in 1 .. k - 1 : s[i] \in S BY <1>1, <2>3, ElementOfSeq
    <3>2. k - 1 \in Int BY <2>3
    <3>3. /\ a \in Seq(S) /\ Len(a) = IF 1 <= k - 1 THEN (k - 1) - 1 + 1 ELSE 0
          /\ \A i \in 1 .. (k - 1) - 1 + 1 : a[i] = s[1 + i - 1]
      BY <3>1, <3>2, SubSeqProperties
    <3> QED BY <3>3, <2>3
  <2>5. /\ b \in Seq(S) /\ Len(b) = Len(s) - k
        /\ \A i \in 1 .. Len(s) - k : b[i] = s[k + i]
    <3>1. \A i \in k + 1 .. Len(s) : s[i] \in S BY <1>1, <2>3, ElementOfSeq
    <3>2. k + 1 \in Int /\ Len(s) \in Int BY <2>3, <1>1
    <3>3. /\ b \in Seq(S) /\ Len(b) = IF k + 1 <= Len(s) THEN Len(s) - (k + 1) + 1 ELSE 0
          /\ \A i \in 1 .. Len(s) - (k + 1) + 1 : b[i] = s[(k + 1) + i - 1]
      BY <3>1, <3>2, SubSeqProperties
    <3> QED BY <3>3, <2>3, <1>1
  <2> HIDE DEF a, b
  <2>6. /\ rest \in Seq(S) /\ Len(rest) = Len(s) - 1
        /\ \A i \in 1 .. Len(s) - 1 : rest[i] = IF i <= k - 1 THEN a[i] ELSE b[i - (k - 1)]
    <3>1. rest = a \o b BY <2>2 DEF a, b
    <3>2. Len(a) + Len(b) = Len(s) - 1 BY <2>3, <2>4, <2>5, <1>1
    <3>3. /\ a \o b \in Seq(S) /\ Len(a \o b) = Len(a) + Len(b)
          /\ \A i \in 1 .. Len(a) + Len(b) :
               (a \o b)[i] = IF i <= Len(a) THEN a[i] ELSE b[i - Len(a)]
      BY <2>4, <2>5, ConcatProperties
    <3> QED BY <3>1, <3>2, <3>3, <2>4
  <2>7. \A i \in 1 .. Len(rest) : rest[i] = IF i < k THEN s[i] ELSE s[i + 1]
    <3> SUFFICES ASSUME NEW i \in 1 .. Len(rest)
                 PROVE  rest[i] = IF i < k THEN s[i] ELSE s[i + 1]
      OBVIOUS
    <3>1. i \in 1 .. Len(s) - 1 BY <2>6
    <3>2. CASE i < k
      <4>1. i \in 1 .. k - 1 /\ i <= k - 1 BY <3>1, <3>2, <2>3, <1>1
      <4> QED BY <4>1, <3>1, <3>2, <2>3, <2>4, <2>6, <1>1
    <3>3. CASE ~(i < k)
      <4>1. ~(i <= k - 1) /\ i - (k - 1) \in 1 .. Len(s) - k /\ k + (i - (k - 1)) = i + 1
        BY <3>1, <3>3, <2>3, <1>1
      <4>2. rest[i] = s[i + 1] BY <4>1, <3>1, <2>5, <2>6
      <4> QED BY <4>2, <3>1, <3>3, <2>3, <1>1
    <3> QED BY <3>2, <3>3
  <2> HIDE DEF Places
  <2> QED BY <2>3, <2>6, <2>7 DEF rest
<1> QED BY <1>2, <1>3

LEMMA RemoveHolds ==
  ASSUME NEW S, NEW s \in Seq(S), NEW e
  PROVE  LET rest == RemoveFirst(s, e)
         IN /\ rest \in Seq(S) /\ ToSet(rest) \subseteq ToSet(s)
            /\ ToSet(s) \subseteq ToSet(rest) \cup {e}
            /\ Distinct(s) => Distinct(rest) /\ e \notin ToSet(rest)
<1> DEFINE rest == RemoveFirst(s, e)
<1>1. Len(s) \in Nat /\ ToSet(s) = {s[i] : i \in 1 .. Len(s)} BY LenProperties DEF ToSet
<1>2. CASE rest = s /\ \A i \in 1 .. Len(s) : s[i] # e
  <2>1. e \notin ToSet(s) BY <1>1, <1>2
  <2> QED BY <1>2, <2>1
<1> HIDE DEF rest
<1>3. ASSUME NEW k \in 1 .. Len(s), s[k] = e, rest \in Seq(S), Len(rest) = Len(s) - 1,
             \A i \in 1 .. Len(rest) : rest[i] = IF i < k THEN s[i] ELSE s[i + 1]
      PROVE  /\ rest \in Seq(S) /\ ToSet(rest) \subseteq ToSet(s)
             /\ ToSet(s) \subseteq ToSet(rest) \cup {e}
             /\ Distinct(s) => Distinct(rest) /\ e \notin ToSet(rest)
  <2> DEFINE at(i) == IF i < k THEN i ELSE i + 1
  <2>3. k \in 1 .. Len(s) /\ s[k] = e /\ k \in Nat /\ k >= 1 /\ k <= Len(s) BY <1>1, <1>3
  <2>6. rest \in Seq(S) /\ Len(rest) = Len(s) - 1 BY <1>3
  <2>7. \A i \in 1 .. Len(rest) : /\ at(i) \in 1 .. Len(s) /\ at(i) # k
                                 /\ rest[i] = s[at(i)]
    BY <1>1, <1>3
  <2>8. ToSet(rest) = {rest[i] : i \in 1 .. Len(rest)} BY <2>6, LenProperties DEF ToSet
  <2>9. ToSet(rest) \subseteq ToSet(s)
    <3> HIDE DEF at
    <3> QED BY <2>7, <2>8, <1>1
  <2>10. ASSUME Distinct(s) PROVE Distinct(rest)
    <3> SUFFICES ASSUME NEW i \in 1 .. Len(rest), NEW j \in 1 .. Len(rest), rest[i] = rest[j]
                 PROVE  i = j
      BY DEF Distinct
    <3>1. at(i) = at(j)
      <4> HIDE DEF at
      <4> QED BY <2>7, <2>10 DEF Distinct
    <3>2. i \in Int /\ j \in Int BY <2>6, <1>1
    <3> QED BY <3>1, <3>2, <2>3
  <2>11. ASSUME Distinct(s) PROVE e \notin ToSet(rest)
    <3> HIDE DEF at
    <3>1. ASSUME NEW i \in 1 .. Len(rest), rest[i] = e PROVE FALSE
      <4>1. at(i) \in 1 .. Len(s) /\ at(i) # k /\ s[at(i)] = s[k] BY <3>1, <2>3, <2>7
      <4> QED BY <4>1, <2>3, <2>11 DEF Distinct
    <3> QED BY <3>1, <2>8
  <2>12. ToSet(s) \subseteq ToSet(rest) \cup {e}
    <3> SUFFICES ASSUME NEW i \in 1 .. Len(s), s[i] # e PROVE s[i] \in ToSet(rest)
      BY <1>1
    <3>1. i # k BY <2>3
    <3>2. CASE i < k
      <4>1. i \in 1 .. Len(rest) /\ at(i) = i BY <3>2, <2>3, <2>6, <1>1
      <4> QED BY <4>1, <2>7, <2>8
    <3>3. CASE ~(i < k)
      <4>1. i - 1 \in 1 .. Len(rest) /\ at(i - 1) = i BY <3>1, <3>3, <2>3, <2>6, <1>1
      <4> QED BY <4>1, <2>7, <2>8
    <3> QED BY <3>2, <3>3
  <2> HIDE DEF at
  <2> QED BY <2>6, <2>9, <2>10, <2>11, <2>12
<1>4. \/ rest = s /\ \A i \in 1 .. Len(s) : s[i] # e
      \/ \E k \in 1 .. Len(s) :
           /\ s[k] = e /\ rest \in Seq(S) /\ Len(rest) = Len(s) - 1
           /\ \A i \in 1 .. Len(rest) : rest[i] = IF i < k THEN s[i] ELSE s[i + 1]
  BY RemovePlaces DEF rest
<1> QED BY <1>2, <1>3, <1>4 DEF rest

-----------------------------------------------------------------------------
(***************************************************************************)
(* The elements of a sequence at some places.                              *)
(***************************************************************************)

\* f runs through S, upwards.
Enumerates(f, n, S) ==
  /\ n \in Nat /\ f \in [1 .. n -> S]
  /\ \A i, j \in 1 .. n : i < j => f[i] < f[j]
  /\ \A x \in S : \E i \in 1 .. n : f[i] = x

LEMMA EnumerationApart ==
  ASSUME NEW n, NEW S, S \subseteq Nat, NEW f, Enumerates(f, n, S),
         NEW i \in 1 .. n, NEW j \in 1 .. n
  PROVE  f[i] \in S /\ f[i] \in Nat /\ (f[i] = f[j] => i = j) /\ (i <= j <=> f[i] <= f[j])
<1>1. f[i] \in S /\ f[j] \in S BY DEF Enumerates
<1>2. f[i] \in Nat /\ f[j] \in Nat BY <1>1
<1>3. i \in Nat /\ j \in Nat BY DEF Enumerates
<1>4. (i < j => f[i] < f[j]) /\ (j < i => f[j] < f[i]) BY DEF Enumerates
<1> QED BY <1>1, <1>2, <1>3, <1>4

LEMMA Counted ==
  ASSUME NEW n \in Nat, NEW T, NEW f \in [1 .. n -> T],
         \A i, j \in 1 .. n : f[i] = f[j] => i = j,
         \A x \in T : \E i \in 1 .. n : f[i] = x
  PROVE  IsFiniteSet(T) /\ Cardinality(T) = n
<1>1. f \in Bijection(1 .. n, T)
  BY DEF Bijection, Injection, Surjection, IsInjective
<1>2. ExistsBijection(1 .. n, T) BY <1>1 DEF ExistsBijection
<1>3. IsFiniteSet(1 .. n) /\ Cardinality(1 .. n) = n BY FS_Interval
<1> QED BY <1>2, <1>3, FS_Bijection

\* The places are those of f, in its order.
NthsAre(f, n, S) == Cardinality(S) = n /\ \A k \in 1 .. n : Nth(S, k) = f[k]

LEMMA NthIs ==
  ASSUME NEW n, NEW S, S \subseteq Nat, NEW f, Enumerates(f, n, S)
  PROVE  NthsAre(f, n, S)
<1>1. n \in Nat /\ f \in [1 .. n -> S] /\ \A x \in S : \E i \in 1 .. n : f[i] = x
  BY DEF Enumerates
<1>2. \A i, j \in 1 .. n : f[i] \in S /\ f[i] \in Nat /\ (f[i] = f[j] => i = j) /\ (i <= j <=> f[i] <= f[j])
  BY EnumerationApart
<1>3. IsFiniteSet(S) /\ Cardinality(S) = n BY <1>1, <1>2, Counted
<1>4. ASSUME NEW k \in 1 .. n PROVE Cardinality({j \in S : j <= f[k]}) = k
  <2> DEFINE T == {j \in S : j <= f[k]}
             g == [i \in 1 .. k |-> f[i]]
  <2>1. k \in Nat /\ \A i \in 1 .. k : i \in 1 .. n /\ i <= k BY <1>1
  <2>2. g \in [1 .. k -> T] BY <1>2, <2>1
  <2>3. \A i, j \in 1 .. k : g[i] = g[j] => i = j BY <1>2, <2>1
  <2>4. ASSUME NEW x \in T PROVE \E i \in 1 .. k : g[i] = x
    <3>1. PICK i \in 1 .. n : f[i] = x BY <1>1
    <3>2. i <= k BY <3>1, <1>2
    <3>3. i \in 1 .. k BY <3>2, <2>1, <1>1
    <3> QED BY <3>1, <3>3
  <2> HIDE DEF T, g
  <2>5. Cardinality(T) = k BY <2>1, <2>2, <2>3, <2>4, Counted
  <2> QED BY <2>5 DEF T
<1>5. ASSUME NEW k \in 1 .. n, NEW x \in S, Cardinality({j \in S : j <= x}) = k PROVE x = f[k]
  <2>1. PICK i \in 1 .. n : f[i] = x BY <1>1
  <2>2. i = k BY <1>4, <1>5, <2>1
  <2> QED BY <2>1, <2>2
<1>6. ASSUME NEW k \in 1 .. n PROVE Nth(S, k) = f[k]
  <2>1. f[k] \in S BY <1>2
  <2> QED BY <1>4, <1>5, <2>1 DEF Nth
<1> QED BY <1>3, <1>6 DEF NthsAre

\* Every set of places can be run through.
LEMMA Enumerated ==
  ASSUME NEW m \in Nat, NEW S \in SUBSET (1 .. m)
  PROVE  \E n \in Nat : \E f : Enumerates(f, n, S)
<1> DEFINE n == Cardinality(S)
           Upto(x) == {j \in S : j <= x}
           r == [x \in S |-> Cardinality(Upto(x))]
<1>1. IsFiniteSet(S) /\ n \in Nat
  <2>1. IsFiniteSet(1 .. m) BY FS_Interval
  <2>2. IsFiniteSet(S) BY <2>1, FS_Subset
  <2> QED BY <2>2, FS_CardinalityType
<1>2. S \subseteq Nat OBVIOUS
<1>3. \A x \in S : IsFiniteSet(Upto(x)) /\ r[x] \in 1 .. n
  <2> SUFFICES ASSUME NEW x \in S PROVE IsFiniteSet(Upto(x)) /\ r[x] \in 1 .. n
    OBVIOUS
  <2>1. Upto(x) \in SUBSET S OBVIOUS
  <2>2. x \in Upto(x) BY <1>2
  <2> DEFINE T == Upto(x)
  <2>a. T \in SUBSET S /\ x \in T /\ r[x] = Cardinality(T) BY <2>1, <2>2
  <2> HIDE DEF T, Upto, r
  <2>3. IsFiniteSet(T) /\ Cardinality(T) <= n BY <2>a, <1>1, FS_Subset
  <2>4. Cardinality(T) \in Nat BY <2>3, FS_CardinalityType
  <2>5. Cardinality(T) # 0 BY <2>3, <2>a, FS_EmptySet
  <2> QED BY <2>3, <2>4, <2>5, <2>a, <1>1 DEF T
<1>4. ASSUME NEW x \in S, NEW y \in S, x < y PROVE r[x] < r[y]
  <2> DEFINE A == Upto(x)
             B == Upto(y)
  <2>a. x \in Nat /\ y \in Nat BY <1>2
  <2>b. ASSUME NEW j \in A PROVE j \in B
    <3>1. j \in S /\ j \in Nat /\ j <= x BY <1>2
    <3> QED BY <3>1, <2>a, <1>4
  <2>c. y \in B /\ y \notin A BY <2>a, <1>4
  <2>d. r[x] = Cardinality(A) /\ r[y] = Cardinality(B) OBVIOUS
  <2>1. A \in SUBSET B /\ y \in B /\ y \notin A /\ r[x] = Cardinality(A) /\ r[y] = Cardinality(B)
    <3> HIDE DEF A, B
    <3> QED BY <2>b, <2>c, <2>d
  <2>2. IsFiniteSet(B) BY <1>3
  <2>3. r[x] \in Nat /\ r[y] \in Nat BY <1>3, <1>1
  <2> HIDE DEF A, B, Upto, r
  <2>4. Cardinality(A) <= Cardinality(B) /\ Cardinality(A) # Cardinality(B) BY <2>1, <2>2, FS_Subset
  <2> QED BY <2>1, <2>3, <2>4
<1> HIDE DEF Upto
<1>5. \A x, y \in S : r[x] = r[y] => x = y
  <2> SUFFICES ASSUME NEW x \in S, NEW y \in S, r[x] = r[y], x # y PROVE FALSE
    OBVIOUS
  <2>1. x < y \/ y < x BY <1>2
  <2>2. r[x] \in Nat /\ r[y] \in Nat BY <1>3, <1>1
  <2> HIDE DEF r
  <2> QED BY <2>1, <2>2, <1>4
<1>6. r \in [S -> 1 .. n] BY <1>3
<1> HIDE DEF r
<1>7. r \in Injection(S, 1 .. n) BY <1>5, <1>6 DEF Injection, IsInjective
<1>8. IsFiniteSet(1 .. n) /\ Cardinality(1 .. n) = n BY <1>1, FS_Interval
<1>9. r \in Surjection(S, 1 .. n) BY <1>7, <1>8, FS_Injection
<1>10. \A k \in 1 .. n : \E x \in S : r[x] = k BY <1>9 DEF Surjection
<1> DEFINE f == [k \in 1 .. n |-> CHOOSE x \in S : r[x] = k]
<1>11. \A k \in 1 .. n : f[k] \in S /\ r[f[k]] = k BY <1>10
<1>12. f \in [1 .. n -> S] BY <1>11
<1>13. ASSUME NEW i \in 1 .. n, NEW j \in 1 .. n, i < j PROVE f[i] < f[j]
  <2>1. f[i] \in S /\ f[j] \in S /\ r[f[i]] = i /\ r[f[j]] = j BY <1>11
  <2>a. f[i] \in Nat /\ f[j] \in Nat
    <3> HIDE DEF f
    <3> QED BY <2>1, <1>2
  <2>2. f[i] \in Nat /\ f[j] \in Nat /\ i \in Nat /\ j \in Nat BY <2>a, <1>1
  <2>3. ASSUME f[j] < f[i] PROVE FALSE BY <2>1, <2>2, <2>3, <1>4, <1>13
  <2>4. f[i] # f[j] BY <2>1, <2>2, <1>13
  <2> QED BY <2>2, <2>3, <2>4
<1>14. ASSUME NEW x \in S PROVE \E i \in 1 .. n : f[i] = x
  <2>1. r[x] \in 1 .. n BY <1>3
  <2>2. f[r[x]] = x BY <2>1, <1>11, <1>5
  <2> QED BY <2>1, <2>2
<1>15. Enumerates(f, n, S) 
  <2> HIDE DEF f, n
  <2> QED BY <1>1, <1>12, <1>13, <1>14 DEF Enumerates
<1> QED BY <1>1, <1>15

LEMMA RunThrough ==
  ASSUME NEW m \in Nat, NEW S \in SUBSET (1 .. m)
  PROVE  \E n \in Nat : \E f :
           /\ f \in [1 .. n -> S] /\ Enumerates(f, n, S)
           /\ Cardinality(S) = n /\ \A k \in 1 .. n : Nth(S, k) = f[k]
<1>1. PICK n \in Nat : \E f : Enumerates(f, n, S) BY Enumerated
<1>2. PICK f : Enumerates(f, n, S) BY <1>1
<1>3. S \subseteq Nat OBVIOUS
<1>4. f \in [1 .. n -> S] BY <1>2 DEF Enumerates
<1>5. NthsAre(f, n, S) BY <1>2, <1>3, NthIs
<1>6. Cardinality(S) = n /\ \A k \in 1 .. n : Nth(S, k) = f[k] BY <1>5 DEF NthsAre
<1> QED BY <1>2, <1>4, <1>6

LEMMA SublistSeq ==
  ASSUME NEW m \in Nat, NEW S \in SUBSET (1 .. m), NEW A, NEW s, \A i \in S : s[i] \in A
  PROVE  /\ Sublist(s, S) \in Seq(A) /\ Len(Sublist(s, S)) = Cardinality(S)
         /\ Cardinality(S) \in Nat
<1>1. PICK n \in Nat : \E f :
        /\ f \in [1 .. n -> S] /\ Enumerates(f, n, S)
        /\ Cardinality(S) = n /\ \A k \in 1 .. n : Nth(S, k) = f[k]
  BY RunThrough
<1>2. PICK f :
        /\ f \in [1 .. n -> S] /\ Enumerates(f, n, S)
        /\ Cardinality(S) = n /\ \A k \in 1 .. n : Nth(S, k) = f[k]
  BY <1>1
<1>3. S \subseteq Nat OBVIOUS
<1>5. Cardinality(S) = n /\ \A k \in 1 .. n : Nth(S, k) = f[k] BY <1>2
<1>4. Sublist(s, S) = [k \in 1 .. n |-> s[f[k]]] BY <1>5 DEF Sublist
<1>6. \A k \in 1 .. n : s[f[k]] \in A BY <1>2 DEF Enumerates
<1> QED BY <1>4, <1>5, <1>6

LEMMA SublistSame ==
  ASSUME NEW m \in Nat, NEW S \in SUBSET (1 .. m), NEW s, NEW u, \A i \in S : s[i] = u[i]
  PROVE  Sublist(s, S) = Sublist(u, S)
<1>1. PICK n \in Nat : \E f :
        /\ f \in [1 .. n -> S] /\ Enumerates(f, n, S)
        /\ Cardinality(S) = n /\ \A k \in 1 .. n : Nth(S, k) = f[k]
  BY RunThrough
<1>2. PICK f :
        /\ f \in [1 .. n -> S] /\ Enumerates(f, n, S)
        /\ Cardinality(S) = n /\ \A k \in 1 .. n : Nth(S, k) = f[k]
  BY <1>1
<1>3. S \subseteq Nat OBVIOUS
<1>6. Cardinality(S) = n /\ \A k \in 1 .. n : Nth(S, k) = f[k] BY <1>2
<1>4. /\ Sublist(s, S) = [k \in 1 .. n |-> s[f[k]]]
      /\ Sublist(u, S) = [k \in 1 .. n |-> u[f[k]]]
  BY <1>6 DEF Sublist
<1>5. \A k \in 1 .. n : s[f[k]] = u[f[k]] BY <1>2 DEF Enumerates
<1> QED BY <1>4, <1>5

LEMMA SublistNone == ASSUME NEW s PROVE Sublist(s, {}) = <<>>
<1>1. Cardinality({}) = 0 BY FS_EmptySet
<1> QED BY <1>1 DEF Sublist

\* One more place at the end.
LEMMA SublistAppend ==
  ASSUME NEW m \in Nat, NEW S \in SUBSET (1 .. m), NEW s, NEW u,
         \A i \in S : u[i] = s[i]
  PROVE  Sublist(u, S \cup {m + 1}) = Append(Sublist(s, S), u[m + 1])
<1> DEFINE e == u[m + 1]
           A == {s[i] : i \in S} \cup {e}
<1>a. e \in A /\ u[m + 1] = e /\ \A i \in S : s[i] \in A /\ u[i] = s[i] OBVIOUS
<1> HIDE DEF e, A
<1>1. PICK n \in Nat : \E f :
        /\ f \in [1 .. n -> S] /\ Enumerates(f, n, S)
        /\ Cardinality(S) = n /\ \A k \in 1 .. n : Nth(S, k) = f[k]
  BY RunThrough
<1>2. PICK f :
        /\ f \in [1 .. n -> S] /\ Enumerates(f, n, S)
        /\ Cardinality(S) = n /\ \A k \in 1 .. n : Nth(S, k) = f[k]
  BY <1>1
<1>3. S \subseteq Nat /\ S \cup {m + 1} \subseteq Nat
  <2>1. S \subseteq Nat
    <3>1. 1 .. m \subseteq Nat OBVIOUS
    <3> QED BY <3>1
  <2>2. m + 1 \in Nat OBVIOUS
  <2> QED BY <2>1, <2>2
<1> DEFINE g == [k \in 1 .. n + 1 |-> IF k = n + 1 THEN m + 1 ELSE f[k]]
           T == S \cup {m + 1}
<1>4. f \in [1 .. n -> S] /\ \A k \in 1 .. n : f[k] \in S /\ f[k] < m + 1
  <2>1. f \in [1 .. n -> S] BY <1>2 DEF Enumerates
  <2>2. \A x \in 1 .. m : x < m + 1 OBVIOUS
  <2>3. \A k \in 1 .. n : f[k] \in S /\ f[k] \in 1 .. m BY <2>1
  <2> QED BY <2>1, <2>2, <2>3
<1>5. \A k \in 1 .. n + 1 : k = n + 1 \/ k \in 1 .. n OBVIOUS
<1>6. Enumerates(g, n + 1, T)
  <2>1. n + 1 \in Nat /\ g \in [1 .. n + 1 -> T] BY <1>4, <1>5
  <2>2. ASSUME NEW i \in 1 .. n + 1, NEW j \in 1 .. n + 1, i < j PROVE g[i] < g[j]
    <3>1. i \in 1 .. n /\ g[i] = f[i] BY <1>5, <2>2
    <3>2. CASE j = n + 1 BY <3>1, <3>2, <1>4
    <3>3. CASE j \in 1 .. n
      <4>1. g[j] = f[j] BY <3>3
      <4> QED BY <3>1, <3>3, <4>1, <2>2, <1>2 DEF Enumerates
    <3> QED BY <3>2, <3>3, <1>5
  <2>3. ASSUME NEW x \in T PROVE \E i \in 1 .. n + 1 : g[i] = x
    <3>1. CASE x = m + 1
      <4>1. n + 1 \in 1 .. n + 1 /\ g[n + 1] = m + 1 OBVIOUS
      <4> QED BY <3>1, <4>1
    <3>2. CASE x \in S
      <4>1. PICK i \in 1 .. n : f[i] = x BY <3>2, <1>2 DEF Enumerates
      <4>2. i \in 1 .. n + 1 /\ g[i] = f[i] OBVIOUS
      <4> QED BY <4>1, <4>2
    <3> QED BY <3>1, <3>2
  <2> HIDE DEF g, T
  <2> QED BY <2>1, <2>2, <2>3 DEF Enumerates
<1>7. Sublist(u, T) = [k \in 1 .. n + 1 |-> u[g[k]]]
  <2>1. T \subseteq Nat BY <1>3
  <2> HIDE DEF g, T
  <2>2. NthsAre(g, n + 1, T) BY <1>6, <2>1, NthIs
  <2>3. Cardinality(T) = n + 1 /\ \A k \in 1 .. n + 1 : Nth(T, k) = g[k] BY <2>2 DEF NthsAre
  <2> QED BY <2>3 DEF Sublist
<1>8. Sublist(s, S) = [k \in 1 .. n |-> s[f[k]]]
  <2>1. Cardinality(S) = n /\ \A k \in 1 .. n : Nth(S, k) = f[k] BY <1>2
  <2> QED BY <2>1 DEF Sublist
<1>9. \A k \in 1 .. n : u[g[k]] = s[f[k]] /\ s[f[k]] \in A
  <2> SUFFICES ASSUME NEW k \in 1 .. n PROVE u[g[k]] = s[f[k]] /\ s[f[k]] \in A
    OBVIOUS
  <2>1. g[k] = f[k] OBVIOUS
  <2>2. f[k] \in S BY <1>4
  <2>3. u[f[k]] = s[f[k]] /\ s[f[k]] \in A BY <2>2, <1>a
  <2> HIDE DEF g
  <2> QED BY <2>1, <2>3
<1>10. u[g[n + 1]] = e BY <1>a
<1>12. e \in A BY <1>a
<1> HIDE DEF g
<1>11. [k \in 1 .. n + 1 |-> u[g[k]]] = Append([k \in 1 .. n |-> s[f[k]]], e)
  <2> DEFINE a == [k \in 1 .. n |-> s[f[k]]]
             b == [k \in 1 .. n + 1 |-> u[g[k]]]
  <2>1. a \in Seq(A) /\ Len(a) = n BY <1>9
  <2>2. Append(a, e) \in Seq(A) /\ Len(Append(a, e)) = n + 1 BY <2>1, <1>12
  <2>3. \A k \in 1 .. n : Append(a, e)[k] = a[k] BY <2>1
  <2>4. Append(a, e)[n + 1] = e BY <2>1
  <2>5. \A k \in 1 .. n : b[k] = a[k] BY <1>9
  <2>6. b[n + 1] = e BY <1>10
  <2>7. b \in Seq(A) /\ Len(b) = n + 1
    <3>1. \A k \in 1 .. n + 1 : u[g[k]] \in A BY <1>5, <1>9, <1>10, <1>12
    <3> QED BY <3>1
  <2> HIDE DEF a, b
  <2>8. \A k \in 1 .. n + 1 : b[k] = Append(a, e)[k] BY <1>5, <2>3, <2>4, <2>5, <2>6
  <2>9. b = Append(a, e) BY <2>2, <2>7, <2>8, SeqEqual
  <2> QED BY <2>9 DEF a, b
<1> QED BY <1>7, <1>8, <1>11, <1>a

\* The first place gone, and those before it.
PlacesAfter(S, p, m) == {j \in 1 .. m - p : p + j \in S}

LEMMA NthAfter ==
  ASSUME NEW m \in Nat, NEW S \in SUBSET (1 .. m), NEW p \in S, \A i \in S : p <= i
  PROVE  LET n == Cardinality(S)
             T == PlacesAfter(S, p, m)
         IN  /\ n \in Nat \ {0} /\ Nth(S, 1) = p /\ \A k \in 1 .. n : Nth(S, k) \in S
             /\ Cardinality(T) = n - 1
             /\ \A k \in 1 .. n - 1 : Nth(S, k + 1) \in S /\ Nth(T, k) \in T /\ p + Nth(T, k) = Nth(S, k + 1)
<1> DEFINE T == PlacesAfter(S, p, m)
<1>t. T = {j \in 1 .. m - p : p + j \in S} BY DEF PlacesAfter
<1> HIDE DEF T
<1>1. PICK n \in Nat : \E f :
        /\ f \in [1 .. n -> S] /\ Enumerates(f, n, S)
        /\ Cardinality(S) = n /\ \A k \in 1 .. n : Nth(S, k) = f[k]
  BY RunThrough
<1>2. PICK f :
        /\ f \in [1 .. n -> S] /\ Enumerates(f, n, S)
        /\ Cardinality(S) = n /\ \A k \in 1 .. n : Nth(S, k) = f[k]
  BY <1>1
<1>3. S \subseteq Nat OBVIOUS
<1>5. f \in [1 .. n -> S] /\ \A k \in 1 .. n : f[k] \in S /\ f[k] \in 1 .. m /\ p <= f[k]
  BY <1>2 DEF Enumerates
<1>6. \A i, j \in 1 .. n : i < j => f[i] < f[j] BY <1>2 DEF Enumerates
<1>7. PICK q \in 1 .. n : f[q] = p BY <1>2 DEF Enumerates
<1>8. n >= 1 /\ q = 1
  <2>1. 1 \in 1 .. n OBVIOUS
  <2>2. p <= f[1] /\ f[1] \in Nat BY <2>1, <1>5
  <2>3. 1 < q => f[1] < p BY <2>1, <1>6, <1>7
  <2> QED BY <2>2, <2>3
<1>9. f[1] = p /\ 1 \in 1 .. n BY <1>7, <1>8
<1> DEFINE g == [k \in 1 .. n - 1 |-> f[k + 1] - p]
<1>10. \A k \in 1 .. n - 1 : k + 1 \in 1 .. n /\ 1 < k + 1 OBVIOUS
<1>11. \A k \in 1 .. n - 1 : f[k + 1] \in S /\ f[k + 1] \in 1 .. m /\ p < f[k + 1]
  BY <1>5, <1>6, <1>9, <1>10
<1>12. n - 1 \in Nat BY <1>8
<1>13. \A k \in 1 .. n - 1 : g[k] \in T /\ p + g[k] = f[k + 1]
  <2> SUFFICES ASSUME NEW k \in 1 .. n - 1 PROVE g[k] \in T /\ p + g[k] = f[k + 1]
    OBVIOUS
  <2>1. f[k + 1] \in S /\ f[k + 1] \in 1 .. m /\ p < f[k + 1] BY <1>11
  <2>2. g[k] = f[k + 1] - p OBVIOUS
  <2>3. p \in 1 .. m OBVIOUS
  <2> HIDE DEF g
  <2>4. g[k] \in 1 .. m - p /\ p + g[k] = f[k + 1] BY <2>1, <2>2, <2>3
  <2> QED BY <2>1, <2>4, <1>t
<1>14. Enumerates(g, n - 1, T)
  <2>1. g \in [1 .. n - 1 -> T] BY <1>13
  <2>2. ASSUME NEW i \in 1 .. n - 1, NEW j \in 1 .. n - 1, i < j PROVE g[i] < g[j]
    <3>1. i + 1 \in 1 .. n /\ j + 1 \in 1 .. n /\ i + 1 < j + 1 BY <2>2
    <3>2. f[i + 1] < f[j + 1] BY <3>1, <1>6
    <3>3. f[i + 1] \in Nat /\ f[j + 1] \in Nat /\ p \in Nat BY <1>11
    <3> QED BY <3>2, <3>3
  <2>3. ASSUME NEW x \in T PROVE \E i \in 1 .. n - 1 : g[i] = x
    <3>1. x \in Nat /\ x >= 1 /\ p + x \in S BY <1>t
    <3>2. PICK k \in 1 .. n : f[k] = p + x BY <3>1, <1>2 DEF Enumerates
    <3>3. k # 1 BY <3>1, <3>2, <1>9
    <3>4. k - 1 \in 1 .. n - 1 /\ k - 1 + 1 = k BY <3>3
    <3>5. g[k - 1] = f[k] - p BY <3>4
    <3> QED BY <3>1, <3>2, <3>4, <3>5
  <2> HIDE DEF g
  <2> QED BY <2>1, <2>2, <2>3, <1>12 DEF Enumerates
<1>15. T \subseteq Nat BY <1>t
<1>16. Cardinality(T) = n - 1 /\ \A k \in 1 .. n - 1 : Nth(T, k) = g[k]
  <2> DEFINE l == n - 1
  <2>1. Enumerates(g, l, T) BY <1>14
  <2> HIDE DEF g, l
  <2>2. NthsAre(g, l, T) BY <2>1, <1>15, NthIs
  <2>3. Cardinality(T) = l /\ \A k \in 1 .. l : Nth(T, k) = g[k] BY <2>2 DEF NthsAre
  <2> QED BY <2>3 DEF l
<1>17. \A k \in 1 .. n - 1 : Nth(T, k) \in T /\ p + Nth(T, k) = Nth(S, k + 1) /\ Nth(S, k + 1) \in S
  <2> HIDE DEF g
  <2> QED BY <1>2, <1>10, <1>11, <1>13, <1>16
<1>18. n \in Nat \ {0} /\ Nth(S, 1) = p /\ \A k \in 1 .. n : Nth(S, k) \in S BY <1>2, <1>5, <1>8, <1>9
<1>19. Cardinality(S) = n BY <1>2
<1> HIDE DEF g
<1> QED BY <1>16, <1>17, <1>18, <1>19 DEF T

LEMMA SublistRest ==
  ASSUME NEW m \in Nat, NEW S \in SUBSET (1 .. m), NEW s, NEW u,
         NEW p \in S, \A i \in S : p <= i
  PROVE  (\A j \in PlacesAfter(S, p, m) : u[j] = s[p + j])
         => /\ Sublist(s, S) # <<>> /\ Head(Sublist(s, S)) = s[p]
            /\ Sublist(u, PlacesAfter(S, p, m)) = Tail(Sublist(s, S))
<1> DEFINE T == PlacesAfter(S, p, m)
           n == Cardinality(S)
           a == [k \in 1 .. n |-> s[Nth(S, k)]]
           b == [k \in 1 .. n - 1 |-> u[Nth(T, k)]]
<1>1. /\ n \in Nat \ {0} /\ Nth(S, 1) = p /\ \A k \in 1 .. n : Nth(S, k) \in S
      /\ Cardinality(T) = n - 1
      /\ \A k \in 1 .. n - 1 : Nth(S, k + 1) \in S /\ Nth(T, k) \in T /\ p + Nth(T, k) = Nth(S, k + 1)
  BY NthAfter
<1> HAVE \A j \in PlacesAfter(S, p, m) : u[j] = s[p + j]
<1> DEFINE A == {s[i] : i \in S}
<1>2. Sublist(s, S) = a /\ Sublist(u, T) = b BY <1>1 DEF Sublist
<1>3. \A k \in 1 .. n - 1 : u[Nth(T, k)] = s[Nth(S, k + 1)] /\ s[Nth(S, k + 1)] \in A
  <2> SUFFICES ASSUME NEW k \in 1 .. n - 1
               PROVE  u[Nth(T, k)] = s[Nth(S, k + 1)] /\ s[Nth(S, k + 1)] \in A
    OBVIOUS
  <2>1. Nth(S, k + 1) \in S /\ Nth(T, k) \in T /\ p + Nth(T, k) = Nth(S, k + 1) BY <1>1
  <2>2. u[Nth(T, k)] = s[p + Nth(T, k)] BY <2>1
  <2> QED BY <2>1, <2>2
<1> HIDE DEF T, n
<1>13. \A i \in S : s[i] \in A OBVIOUS
<1> HIDE DEF A
<1>4. \A k \in 1 .. n : s[Nth(S, k)] \in A BY <1>1, <1>13
<1>5. a \in Seq(A) /\ Len(a) = n BY <1>1, <1>4
<1>6. n >= 1 /\ 1 \in 1 .. n BY <1>1
<1>7. a # <<>> /\ a[1] = s[p] BY <1>1, <1>5, <1>6
<1>8. \A k \in 1 .. n - 1 : a[k + 1] = s[Nth(S, k + 1)] BY <1>1
<1>9. b \in Seq(A) /\ Len(b) = n - 1
  <2>1. \A k \in 1 .. n - 1 : u[Nth(T, k)] \in A BY <1>3
  <2>2. n - 1 \in Nat BY <1>1
  <2> QED BY <2>1, <2>2
<1>10. \A k \in 1 .. n - 1 : b[k] = a[k + 1] BY <1>3, <1>8
<1> HIDE DEF a, b
<1>11. Head(a) = a[1] /\ Tail(a) \in Seq(A) /\ Len(Tail(a)) = n - 1 /\ \A k \in 1 .. n - 1 : Tail(a)[k] = a[k + 1]
  BY <1>5, <1>7, HeadTailProperties
<1>12. b = Tail(a) BY <1>9, <1>10, <1>11, SeqEqual
<1> QED BY <1>2, <1>7, <1>11, <1>12 DEF T

\* A place not among them gone.
PlacesWithout(S, p, m) == {j \in 1 .. m - 1 : IF j < p THEN j \in S ELSE j + 1 \in S}

LEMMA NthWithout ==
  ASSUME NEW m \in Nat, NEW S \in SUBSET (1 .. m), NEW p \in 1 .. m, p \notin S
  PROVE  LET T == PlacesWithout(S, p, m)
         IN  /\ Cardinality(T) = Cardinality(S)
             /\ \A k \in 1 .. Cardinality(S) :
                  /\ Nth(S, k) \in S /\ Nth(T, k) \in T
                  /\ Nth(T, k) = IF Nth(S, k) < p THEN Nth(S, k) ELSE Nth(S, k) - 1
<1> DEFINE T == PlacesWithout(S, p, m)
<1>t. T = {j \in 1 .. m - 1 : IF j < p THEN j \in S ELSE j + 1 \in S} BY DEF PlacesWithout
<1> HIDE DEF T
<1>1. PICK n \in Nat : \E f :
        /\ f \in [1 .. n -> S] /\ Enumerates(f, n, S)
        /\ Cardinality(S) = n /\ \A k \in 1 .. n : Nth(S, k) = f[k]
  BY RunThrough
<1>2. PICK f :
        /\ f \in [1 .. n -> S] /\ Enumerates(f, n, S)
        /\ Cardinality(S) = n /\ \A k \in 1 .. n : Nth(S, k) = f[k]
  BY <1>1
<1>3. S \subseteq Nat OBVIOUS
<1>5. f \in [1 .. n -> S] /\ \A k \in 1 .. n : f[k] \in S /\ f[k] \in 1 .. m /\ f[k] # p
  <2>1. f \in [1 .. n -> S] BY <1>2 DEF Enumerates
  <2>2. \A x \in S : x \in 1 .. m /\ x # p OBVIOUS
  <2> QED BY <2>1, <2>2
<1> DEFINE g == [k \in 1 .. n |-> IF f[k] < p THEN f[k] ELSE f[k] - 1]
<1>6. \A k \in 1 .. n : g[k] \in T
  <2> SUFFICES ASSUME NEW k \in 1 .. n PROVE g[k] \in T
    OBVIOUS
  <2>1. f[k] \in S /\ f[k] \in 1 .. m /\ f[k] # p BY <1>5
  <2>2. CASE f[k] < p
    <3>1. g[k] = f[k] /\ f[k] \in 1 .. m - 1 BY <2>1, <2>2
    <3> HIDE DEF g
    <3>2. g[k] \in T BY <2>1, <2>2, <3>1, <1>t
    <3> QED BY <3>2
  <2>3. CASE ~(f[k] < p)
    <3>1. g[k] = f[k] - 1 /\ f[k] - 1 \in 1 .. m - 1 /\ ~(f[k] - 1 < p) /\ f[k] - 1 + 1 = f[k]
      BY <2>1, <2>3
    <3> HIDE DEF g
    <3>2. g[k] \in T BY <2>1, <3>1, <1>t
    <3> QED BY <3>2
  <2> QED BY <2>2, <2>3
<1>7. Enumerates(g, n, T)
  <2>1. g \in [1 .. n -> T] BY <1>6
  <2>2. ASSUME NEW i \in 1 .. n, NEW j \in 1 .. n, i < j PROVE g[i] < g[j]
    <3>1. f[i] < f[j] BY <2>2, <1>2 DEF Enumerates
    <3>2. f[i] \in 1 .. m /\ f[j] \in 1 .. m /\ f[i] # p /\ f[j] # p BY <1>5
    <3>3. /\ g[i] = IF f[i] < p THEN f[i] ELSE f[i] - 1
          /\ g[j] = IF f[j] < p THEN f[j] ELSE f[j] - 1
      OBVIOUS
    <3> HIDE DEF g
    <3> QED BY <3>1, <3>2, <3>3
  <2>3. ASSUME NEW x \in T PROVE \E i \in 1 .. n : g[i] = x
    <3>1. x \in 1 .. m - 1 BY <1>t
    <3>2. CASE x < p
      <4>1. x \in S BY <3>2, <1>t
      <4>2. PICK k \in 1 .. n : f[k] = x BY <4>1, <1>2 DEF Enumerates
      <4> QED BY <4>2, <3>2
    <3>3. CASE ~(x < p)
      <4>1. x + 1 \in S BY <3>3, <1>t
      <4>2. PICK k \in 1 .. n : f[k] = x + 1 BY <4>1, <1>2 DEF Enumerates
      <4>3. ~(f[k] < p) /\ f[k] - 1 = x BY <3>1, <3>3, <4>2
      <4> QED BY <4>3
    <3> QED BY <3>2, <3>3
  <2> HIDE DEF g
  <2> QED BY <2>1, <2>2, <2>3 DEF Enumerates
<1>8. T \subseteq Nat BY <1>t
<1>9. Cardinality(T) = n /\ \A k \in 1 .. n : Nth(T, k) = g[k]
  <2> HIDE DEF g
  <2>1. NthsAre(g, n, T) BY <1>7, <1>8, NthIs
  <2> QED BY <2>1 DEF NthsAre
<1>10. Cardinality(S) = n BY <1>2
<1>11. \A k \in 1 .. n :
        /\ Nth(S, k) \in S /\ Nth(T, k) \in T
        /\ Nth(T, k) = IF Nth(S, k) < p THEN Nth(S, k) ELSE Nth(S, k) - 1
  BY <1>2, <1>5, <1>6, <1>9
<1> HIDE DEF g
<1> QED BY <1>10, <1>11, <1>9 DEF T

LEMMA SublistWithout ==
  ASSUME NEW m \in Nat, NEW S \in SUBSET (1 .. m), NEW s, NEW u,
         NEW p \in 1 .. m, p \notin S,
         \A j \in PlacesWithout(S, p, m) : u[j] = IF j < p THEN s[j] ELSE s[j + 1]
  PROVE  Sublist(u, PlacesWithout(S, p, m)) = Sublist(s, S)
<1> DEFINE T == PlacesWithout(S, p, m)
           n == Cardinality(S)
<1>1. /\ Cardinality(T) = n
      /\ \A k \in 1 .. n :
           /\ Nth(S, k) \in S /\ Nth(T, k) \in T
           /\ Nth(T, k) = IF Nth(S, k) < p THEN Nth(S, k) ELSE Nth(S, k) - 1
  BY NthWithout
<1>2. ASSUME NEW k \in 1 .. n PROVE u[Nth(T, k)] = s[Nth(S, k)]
  <2> DEFINE i == Nth(S, k)
             j == Nth(T, k)
  <2>1. i \in S /\ j \in T /\ j = IF i < p THEN i ELSE i - 1 BY <1>1
  <2>2. i \in 1 .. m /\ i # p BY <2>1
  <2>3. u[j] = IF j < p THEN s[j] ELSE s[j + 1] BY <2>1
  <2> HIDE DEF i, j
  <2>4. u[j] = s[i]
    <3>1. CASE i < p BY <3>1, <2>1, <2>3
    <3>2. CASE ~(i < p)
      <4>1. j = i - 1 /\ ~(j < p) /\ j + 1 = i BY <3>2, <2>1, <2>2
      <4> QED BY <4>1, <2>3
    <3> QED BY <3>1, <3>2
  <2> QED BY <2>4 DEF i, j
<1> HIDE DEF n, T
<1> QED BY <1>1, <1>2 DEF Sublist, n, T

Increasing(g, n) == \A i, j \in 1 .. n : i < j => g[i] < g[j]

\* Some of the places.
LEMMA NthOfSome ==
  ASSUME NEW m \in Nat, NEW S \in SUBSET (1 .. m), NEW T \in SUBSET S
  PROVE  /\ Cardinality(S) \in Nat /\ Cardinality(T) \in Nat
         /\ \E g \in [1 .. Cardinality(T) -> 1 .. Cardinality(S)] :
              /\ Increasing(g, Cardinality(T))
              /\ \A k \in 1 .. Cardinality(T) : Nth(T, k) \in T /\ Nth(T, k) = Nth(S, g[k])
<1>1. PICK n \in Nat : \E f :
        /\ f \in [1 .. n -> S] /\ Enumerates(f, n, S)
        /\ Cardinality(S) = n /\ \A k \in 1 .. n : Nth(S, k) = f[k]
  BY RunThrough
<1>2. PICK f :
        /\ f \in [1 .. n -> S] /\ Enumerates(f, n, S)
        /\ Cardinality(S) = n /\ \A k \in 1 .. n : Nth(S, k) = f[k]
  BY <1>1
<1>3. T \in SUBSET (1 .. m) OBVIOUS
<1>4. PICK c \in Nat : \E e :
        /\ e \in [1 .. c -> T] /\ Enumerates(e, c, T)
        /\ Cardinality(T) = c /\ \A k \in 1 .. c : Nth(T, k) = e[k]
  BY <1>3, RunThrough
<1>5. PICK e :
        /\ e \in [1 .. c -> T] /\ Enumerates(e, c, T)
        /\ Cardinality(T) = c /\ \A k \in 1 .. c : Nth(T, k) = e[k]
  BY <1>4
<1> DEFINE g == [k \in 1 .. c |-> CHOOSE i \in 1 .. n : f[i] = e[k]]
<1>6. \A x \in S : \E i \in 1 .. n : f[i] = x BY <1>2 DEF Enumerates
<1>7. \A k \in 1 .. c : e[k] \in T /\ e[k] \in S BY <1>5
<1>8. \A k \in 1 .. c : g[k] \in 1 .. n /\ f[g[k]] = e[k] BY <1>6, <1>7
<1>9. g \in [1 .. c -> 1 .. n] BY <1>8
<1> HIDE DEF g
<1>10. S \subseteq Nat OBVIOUS
<1>11. Increasing(g, c)
  <2> SUFFICES ASSUME NEW i \in 1 .. c, NEW j \in 1 .. c, i < j PROVE g[i] < g[j]
    BY DEF Increasing
  <2>1. e[i] < e[j] BY <1>5 DEF Enumerates
  <2>2. /\ g[i] \in 1 .. n /\ g[j] \in 1 .. n
        /\ f[g[i]] = e[i] /\ f[g[j]] = e[j]
    BY <1>8
  <2>3. f[g[j]] \in Nat /\ f[g[i]] \in Nat /\ (g[j] <= g[i] <=> f[g[j]] <= f[g[i]])
    BY <2>2, <1>2, <1>10, EnumerationApart
  <2> QED BY <2>1, <2>2, <2>3, <1>1
<1>12. \A k \in 1 .. c : Nth(T, k) \in T /\ Nth(T, k) = Nth(S, g[k])
  BY <1>2, <1>5, <1>7, <1>8
<1> QED BY <1>1, <1>2, <1>5, <1>9, <1>11, <1>12

\* A sequence with places taken out is the elements at the others.
LEMMA ThinnedIs ==
  ASSUME NEW l, NEW n \in Nat, NEW c \in Nat, NEW g \in [1 .. c -> 1 .. n], Increasing(g, c)
  PROVE  \E kept \in SUBSET (1 .. n) : [k \in 1 .. c |-> l[g[k]]] = Sublist(l, kept)
<1> DEFINE kept == {g[k] : k \in 1 .. c}
<1>1. kept \in SUBSET (1 .. n) OBVIOUS
<1>2. kept \subseteq Nat BY <1>1
<1>3. Enumerates(g, c, kept)
  <2>1. g \in [1 .. c -> kept] OBVIOUS
  <2>2. \A x \in kept : \E i \in 1 .. c : g[i] = x OBVIOUS
  <2> HIDE DEF kept
  <2> QED BY <2>1, <2>2 DEF Enumerates, Increasing
<1> HIDE DEF kept
<1>4. NthsAre(g, c, kept) BY <1>2, <1>3, NthIs
<1>5. [k \in 1 .. c |-> l[g[k]]] = Sublist(l, kept) BY <1>4 DEF Sublist, NthsAre
<1> QED BY <1>1, <1>5

\* h is what is left of r with some places taken out.
Thinned(h, r) ==
  \E g \in [1 .. Len(h) -> 1 .. Len(r)] :
    Increasing(g, Len(h)) /\ \A k \in 1 .. Len(h) : h[k] = r[g[k]]

Withdrawn(h, l) == \E kept \in SUBSET (1 .. Len(l)) : h = Sublist(l, kept)

LEMMA ThinnedAfter ==
  ASSUME NEW A, NEW b \in Seq(A), NEW r \in Seq(A), NEW h \in Seq(A), Thinned(h, r)
  PROVE  Withdrawn(b \o h, b \o r)
<1>p. PICK g \in [1 .. Len(h) -> 1 .. Len(r)] :
        Increasing(g, Len(h)) /\ \A k \in 1 .. Len(h) : h[k] = r[g[k]]
  BY DEF Thinned
<1> DEFINE B == Len(b)
           c == Len(h)
           n == Len(r)
           f == [k \in 1 .. B + c |-> IF k <= B THEN k ELSE B + g[k - B]]
           l == b \o r
<1>1. B \in Nat /\ c \in Nat /\ n \in Nat BY LenProperties
<1>2. l \in Seq(A) /\ Len(l) = B + n
  BY ConcatProperties
<1>3. b \o h \in Seq(A) /\ Len(b \o h) = B + c
  BY ConcatProperties
<1>4. \A i \in 1 .. B + n : l[i] = IF i <= B THEN b[i] ELSE r[i - B] BY ConcatProperties
<1>5. \A i \in 1 .. B + c : (b \o h)[i] = IF i <= B THEN b[i] ELSE h[i - B] BY ConcatProperties
<1> HIDE DEF l, B, c, n
<1>6. \A k \in 1 .. c : g[k] \in 1 .. n BY DEF c, n
<1>a. \A k \in 1 .. c : h[k] = r[g[k]] BY <1>p DEF c
<1>b. \A i, j \in 1 .. c : i < j => g[i] < g[j] BY <1>p DEF Increasing, c
<1>7. ASSUME NEW k \in 1 .. B + c
      PROVE  f[k] \in 1 .. B + n /\ l[f[k]] = (b \o h)[k]
  <2>1. CASE k <= B
    <3>1. f[k] = k /\ k \in 1 .. B + n BY <2>1, <1>1
    <3> HIDE DEF f
    <3> QED BY <2>1, <3>1, <1>4, <1>5
  <2>2. CASE ~(k <= B)
    <3>1. k - B \in 1 .. c BY <2>2, <1>1
    <3>2. f[k] = B + g[k - B] BY <2>2
    <3>3. g[k - B] \in 1 .. n BY <3>1, <1>6
    <3> HIDE DEF f
    <3>4. f[k] \in 1 .. B + n /\ ~(f[k] <= B) /\ f[k] - B = g[k - B] BY <3>2, <3>3, <1>1
    <3>5. l[f[k]] = r[g[k - B]] BY <3>4, <1>4
    <3>6. (b \o h)[k] = h[k - B] BY <2>2, <1>5
    <3>7. h[k - B] = r[g[k - B]] BY <3>1, <1>a
    <3> QED BY <3>4, <3>5, <3>6, <3>7
  <2> QED BY <2>1, <2>2
<1>8. f \in [1 .. B + c -> 1 .. B + n] BY <1>7
<1>9. Increasing(f, B + c)
  <2> SUFFICES ASSUME NEW i \in 1 .. B + c, NEW j \in 1 .. B + c, i < j PROVE f[i] < f[j]
    BY DEF Increasing
  <2>1. CASE j <= B BY <2>1, <1>1
  <2>2. CASE ~(j <= B) /\ i <= B
    <3>1. j - B \in 1 .. c BY <2>2, <1>1
    <3>2. f[j] = B + g[j - B] /\ f[i] = i BY <2>2
    <3>3. g[j - B] \in 1 .. n BY <3>1, <1>6
    <3> HIDE DEF f
    <3> QED BY <3>2, <3>3, <2>2, <1>1
  <2>3. CASE ~(i <= B)
    <3>1. i - B \in 1 .. c /\ j - B \in 1 .. c /\ i - B < j - B BY <2>3, <1>1
    <3>2. f[j] = B + g[j - B] /\ f[i] = B + g[i - B] BY <2>3, <1>1
    <3>3. g[j - B] \in 1 .. n /\ g[i - B] \in 1 .. n BY <3>1, <1>6
    <3>4. g[i - B] < g[j - B] BY <3>1, <1>b
    <3> HIDE DEF f
    <3> QED BY <3>2, <3>3, <3>4, <1>1
  <2> QED BY <2>1, <2>2, <2>3
<1>10. b \o h = [k \in 1 .. B + c |-> l[f[k]]]
  <2> HIDE DEF f
  <2> DEFINE z == [k \in 1 .. B + c |-> l[f[k]]]
  <2>1. \A k \in 1 .. B + c : l[f[k]] \in A
    <3>1. \A i \in 1 .. B + n : l[i] \in A BY <1>2, ElementOfSeq
    <3> QED BY <3>1, <1>7
  <2>2. z \in Seq(A) /\ Len(z) = B + c
    <3>1. B + c \in Nat BY <1>1
    <3>2. z \in Seq(A)
      <4>1. z \in [1 .. B + c -> A] BY <2>1
      <4> HIDE DEF z
      <4> QED BY <4>1, <3>1, SeqDef
    <3>3. Len(z) = B + c BY <3>1
    <3> QED BY <3>2, <3>3
  <2>3. \A k \in 1 .. B + c : z[k] = (b \o h)[k] BY <1>7
  <2> HIDE DEF z
  <2>4. z = b \o h BY <2>2, <2>3, <1>3, SeqEqual
  <2> QED BY <2>4 DEF z
<1> HIDE DEF f
<1>11. B + n \in Nat /\ B + c \in Nat BY <1>1
<1>12. \E kept \in SUBSET (1 .. B + n) : [k \in 1 .. B + c |-> l[f[k]]] = Sublist(l, kept)
  <2> DEFINE m == B + n
             d == B + c
  <2>1. m \in Nat /\ d \in Nat BY <1>11
  <2>2. f \in [1 .. d -> 1 .. m] /\ Increasing(f, d) BY <1>8, <1>9
  <2> HIDE DEF m, d
  <2>3. \E kept \in SUBSET (1 .. m) : [k \in 1 .. d |-> l[f[k]]] = Sublist(l, kept)
    BY <2>1, <2>2, ThinnedIs
  <2> QED BY <2>3 DEF m, d
<1>13. \E kept \in SUBSET (1 .. Len(l)) : b \o h = Sublist(l, kept) BY <1>2, <1>10, <1>12
<1> QED BY <1>13 DEF l, Withdrawn

LEMMA Dropped ==
  ASSUME NEW A, NEW b \in Seq(A), NEW r \in Seq(A)
  PROVE  Withdrawn(r, b \o r)
<1> DEFINE B == Len(b)
           n == Len(r)
           f == [k \in 1 .. n |-> B + k]
           l == b \o r
           z == [k \in 1 .. n |-> l[f[k]]]
<1>1. B \in Nat /\ n \in Nat BY LenProperties
<1>2. l \in Seq(A) /\ Len(l) = B + n BY ConcatProperties
<1>3. \A i \in 1 .. B + n : l[i] = IF i <= B THEN b[i] ELSE r[i - B] BY ConcatProperties
<1>4. \A k \in 1 .. n : r[k] \in A BY ElementOfSeq
<1> HIDE DEF B, n, l
<1>5. ASSUME NEW k \in 1 .. n PROVE f[k] \in 1 .. B + n /\ l[f[k]] = r[k]
  <2>1. f[k] = B + k OBVIOUS
  <2>2. B + k \in 1 .. B + n /\ ~(B + k <= B) /\ B + k - B = k BY <1>1
  <2> HIDE DEF f
  <2> DEFINE i == B + k
  <2>3. i \in 1 .. B + n /\ ~(i <= B) /\ i - B = k BY <1>1
  <2> HIDE DEF i
  <2>4. l[i] = r[i - B] BY <2>3, <1>3
  <2>5. l[i] = r[k] BY <2>3, <2>4
  <2>6. f[k] = i BY <2>1 DEF i
  <2> QED BY <2>3, <2>5, <2>6
<1>6. f \in [1 .. n -> 1 .. B + n] /\ Increasing(f, n) BY <1>1, <1>5 DEF Increasing
<1> HIDE DEF f
<1>7. z \in Seq(A) /\ Len(z) = n /\ \A k \in 1 .. n : z[k] = r[k] BY <1>1, <1>4, <1>5
<1> HIDE DEF z
<1>8. z = r
  <2>1. Len(r) = n BY DEF n
  <2> QED BY <2>1, <1>7, SeqEqual
<1>9. \E kept \in SUBSET (1 .. B + n) : [k \in 1 .. n |-> l[f[k]]] = Sublist(l, kept)
  <2> DEFINE m == B + n
  <2>1. m \in Nat BY <1>1
  <2>2. f \in [1 .. n -> 1 .. m] /\ Increasing(f, n) BY <1>6
  <2>3. n \in Nat BY <1>1
  <2> HIDE DEF m
  <2>4. \E kept \in SUBSET (1 .. m) : [k \in 1 .. n |-> l[f[k]]] = Sublist(l, kept)
    BY <2>1, <2>2, <2>3, ThinnedIs
  <2> QED BY <2>4 DEF m
<1>10. \E kept \in SUBSET (1 .. B + n) : z = Sublist(l, kept) BY <1>9 DEF z
<1>11. \E kept \in SUBSET (1 .. Len(l)) : r = Sublist(l, kept) BY <1>2, <1>8, <1>10
<1> QED BY <1>11 DEF l, Withdrawn

LEMMA AppendsLast ==
  ASSUME NEW A, NEW b \in Seq(A), NEW r \in Seq(A), NEW e \in A
  PROVE  b \o Append(r, e) = Append(b \o r, e)
<1>1. /\ Append(r, e) \in Seq(A) /\ Len(Append(r, e)) = Len(r) + 1 /\ Append(r, e)[Len(r) + 1] = e
      /\ \A i \in 1 .. Len(r) : Append(r, e)[i] = r[i]
  BY AppendProperties
<1> DEFINE a == b \o Append(r, e)
           c == Append(b \o r, e)
           n == Len(b) + Len(r)
<1>2. b \o r \in Seq(A) /\ Len(b \o r) = n /\ Len(b) \in Nat /\ Len(r) \in Nat
  BY ConcatProperties, LenProperties
<1>3. a \in Seq(A) /\ Len(a) = n + 1 BY <1>1, <1>2, ConcatProperties
<1>4. c \in Seq(A) /\ Len(c) = n + 1 BY <1>2, AppendProperties
<1>5. a[n + 1] = c[n + 1]
  <2>1. c[n + 1] = e BY <1>2, AppendProperties
  <2>2. n + 1 \in 1 .. Len(b) + Len(Append(r, e)) /\ ~(n + 1 <= Len(b)) /\ n + 1 - Len(b) = Len(r) + 1
    BY <1>1, <1>2
  <2>3. a[n + 1] = Append(r, e)[Len(r) + 1] BY <2>2, <1>1, ConcatProperties
  <2> QED BY <2>1, <2>3, <1>1
<1>6. ASSUME NEW i \in 1 .. n PROVE a[i] = c[i]
  <2>1. c[i] = (b \o r)[i] BY <1>2, AppendProperties
  <2>2. (b \o r)[i] = IF i <= Len(b) THEN b[i] ELSE r[i - Len(b)] BY ConcatProperties
  <2>3. i \in 1 .. Len(b) + Len(Append(r, e)) BY <1>1, <1>2
  <2>4. a[i] = IF i <= Len(b) THEN b[i] ELSE Append(r, e)[i - Len(b)]
    BY <2>3, <1>1, ConcatProperties
  <2>5. ~(i <= Len(b)) => i - Len(b) \in 1 .. Len(r) BY <1>2
  <2> HIDE DEF a, c
  <2> QED BY <2>1, <2>2, <2>4, <2>5, <1>1
<1> HIDE DEF a, c
<1>7. \A i \in 1 .. n + 1 : i = n + 1 \/ i \in 1 .. n BY <1>2
<1>8. a = c
  <2>1. \A i \in 1 .. n + 1 : a[i] = c[i] BY <1>5, <1>6, <1>7
  <2> QED BY <2>1, <1>3, <1>4, SeqEqual
<1> QED BY <1>8 DEF a, c

\* The first goes, and the first of the second part goes over.
LEMMA TakesFirst ==
  ASSUME NEW A, NEW b \in Seq(A), NEW r \in Seq(A), b # <<>>
  PROVE  /\ b \o r # <<>> /\ Head(b \o r) = Head(b)
         /\ Tail(b) \o r = Tail(b \o r)
         /\ r # <<>> => Append(Tail(b), Head(r)) \o Tail(r) = Tail(b \o r)
<1> DEFINE B == Len(b)
           n == Len(r)
           l == b \o r
<1>1. B \in Nat /\ n \in Nat /\ B > 0 BY EmptySeq, LenProperties
<1>2. l \in Seq(A) /\ Len(l) = B + n BY ConcatProperties
<1>3. \A i \in 1 .. B + n : l[i] = IF i <= B THEN b[i] ELSE r[i - B] BY ConcatProperties
<1>4. Head(b) = b[1] /\ Tail(b) \in Seq(A) /\ Len(Tail(b)) = B - 1 /\ \A i \in 1 .. B - 1 : Tail(b)[i] = b[i + 1]
  BY HeadTailProperties
<1> HIDE DEF l, n, B
<1>5. l # <<>> BY <1>1, <1>2
<1>6. Head(l) = l[1] /\ Tail(l) \in Seq(A) /\ Len(Tail(l)) = B + n - 1 /\ \A i \in 1 .. B + n - 1 : Tail(l)[i] = l[i + 1]
  <2>1. /\ Head(l) = l[1] /\ Tail(l) \in Seq(A) /\ Len(Tail(l)) = Len(l) - 1
        /\ \A i \in 1 .. Len(Tail(l)) : Tail(l)[i] = l[i + 1]
    BY <1>2, <1>5, HeadTailProperties
  <2> DEFINE rest == Tail(l)
  <2>2. rest \in Seq(A) /\ Len(rest) = Len(l) - 1 /\ \A i \in 1 .. Len(rest) : rest[i] = l[i + 1]
    BY <2>1
  <2> HIDE DEF rest
  <2>3. Len(rest) = B + n - 1 BY <2>2, <1>1, <1>2
  <2>4. rest \in Seq(A) /\ Len(rest) = B + n - 1 /\ \A i \in 1 .. B + n - 1 : rest[i] = l[i + 1]
    BY <2>2, <2>3
  <2> QED BY <2>1, <2>4 DEF rest
<1>7. Head(l) = Head(b)
  <2>1. 1 \in 1 .. B + n /\ 1 <= B BY <1>1
  <2>2. l[1] = b[1] BY <2>1, <1>3
  <2> QED BY <2>2, <1>4, <1>6
<1>8. Tail(b) \o r = Tail(l)
  <2> DEFINE c == Tail(b) \o r
  <2>1. /\ c \in Seq(A) /\ Len(c) = B - 1 + n
        /\ \A i \in 1 .. B - 1 + n : c[i] = IF i <= B - 1 THEN Tail(b)[i] ELSE r[i - (B - 1)]
    BY <1>4, ConcatProperties DEF n
  <2> HIDE DEF c
  <2>2. ASSUME NEW i \in 1 .. B + n - 1 PROVE c[i] = Tail(l)[i]
    <3>0. PICK j : j = i + 1 OBVIOUS
    <3>1. i \in 1 .. B - 1 + n /\ j \in 1 .. B + n BY <3>0, <1>1
    <3>2. Tail(l)[i] = l[j] BY <3>0, <1>6
    <3>3. CASE i <= B - 1
      <4>1. i \in 1 .. B - 1 /\ j <= B BY <3>0, <3>3, <1>1
      <4>2. Tail(b)[i] = b[j] BY <3>0, <4>1, <1>4
      <4>3. c[i] = Tail(b)[i] BY <3>1, <3>3, <2>1
      <4>4. l[j] = b[j] BY <3>1, <4>1, <1>3
      <4> QED BY <3>2, <4>2, <4>3, <4>4
    <3>4. CASE ~(i <= B - 1)
      <4>1. ~(j <= B) /\ j - B = i - (B - 1) BY <3>0, <3>4, <1>1
      <4>2. l[j] = r[j - B] BY <3>1, <4>1, <1>3
      <4>3. c[i] = r[i - (B - 1)] BY <3>1, <3>4, <2>1
      <4> QED BY <3>2, <4>1, <4>2, <4>3
    <3> QED BY <3>3, <3>4
  <2>3. Len(c) = B + n - 1 BY <2>1, <1>1
  <2>4. c = Tail(l) BY <2>1, <2>2, <2>3, <1>6, SeqEqual
  <2> QED BY <2>4 DEF c
<1>9. ASSUME r # <<>> PROVE Append(Tail(b), Head(r)) \o Tail(r) = Tail(b) \o r
  <2> DEFINE a == Append(Tail(b), Head(r))
             c == a \o Tail(r)
             d == Tail(b) \o r
             C == Len(Tail(b))
  <2>1. /\ Head(r) \in A /\ Head(r) = r[1] /\ n > 0
        /\ Tail(r) \in Seq(A) /\ Len(Tail(r)) = n - 1 /\ \A i \in 1 .. n - 1 : Tail(r)[i] = r[i + 1]
    BY <1>9, EmptySeq, LenProperties, HeadTailProperties DEF n
  <2>2. /\ a \in Seq(A) /\ Len(a) = C + 1 /\ a[C + 1] = r[1] /\ \A i \in 1 .. C : a[i] = Tail(b)[i]
    BY <2>1, <1>4, AppendProperties
  <2>3. C \in Nat BY <1>1, <1>4
  <2>4. /\ d \in Seq(A) /\ Len(d) = C + n
        /\ \A i \in 1 .. C + n : d[i] = IF i <= C THEN Tail(b)[i] ELSE r[i - C]
    BY <1>4, ConcatProperties DEF n
  <2> HIDE DEF a
  <2>5. /\ c \in Seq(A) /\ Len(c) = C + 1 + (n - 1)
        /\ \A i \in 1 .. C + 1 + (n - 1) : c[i] = IF i <= C + 1 THEN a[i] ELSE Tail(r)[i - (C + 1)]
    <3> DEFINE e == Tail(r)
    <3>1. a \in Seq(A) /\ e \in Seq(A) BY <2>1, <2>2
    <3> HIDE DEF e
    <3>2. /\ a \o e \in Seq(A) /\ Len(a \o e) = Len(a) + Len(e)
          /\ \A i \in 1 .. Len(a) + Len(e) : (a \o e)[i] = IF i <= Len(a) THEN a[i] ELSE e[i - Len(a)]
      BY <3>1, ConcatProperties
    <3>3. Len(a) = C + 1 /\ Len(e) = n - 1 BY <2>1, <2>2 DEF e
    <3>4. c = a \o e BY DEF e
    <3> HIDE DEF c, C
    <3>5. /\ c \in Seq(A) /\ Len(c) = C + 1 + (n - 1)
          /\ \A i \in 1 .. C + 1 + (n - 1) : c[i] = IF i <= C + 1 THEN a[i] ELSE e[i - (C + 1)]
      BY <3>2, <3>3, <3>4
    <3> QED BY <3>5 DEF e
  <2> HIDE DEF c, d, C
  <2>6. ASSUME NEW i \in 1 .. C + n PROVE c[i] = d[i]
    <3>0. i \in 1 .. C + 1 + (n - 1) BY <2>3, <1>1
    <3>1. CASE i <= C
      <4>1. i \in 1 .. C /\ i <= C + 1 BY <3>1, <2>3
      <4> QED BY <3>0, <3>1, <4>1, <2>2, <2>4, <2>5
    <3>2. CASE i = C + 1
      <4>1. ~(i <= C) /\ i - C = 1 /\ i <= C + 1 BY <3>2, <2>3
      <4>2. d[i] = r[i - C] BY <4>1, <2>4
      <4>3. c[i] = a[i] BY <3>0, <4>1, <2>5
      <4> QED BY <3>2, <4>1, <4>2, <4>3, <2>2
    <3>3. CASE ~(i <= C + 1)
      <4>1. ~(i <= C) /\ i - (C + 1) \in 1 .. n - 1 /\ i - (C + 1) + 1 = i - C BY <3>3, <2>3, <1>1
      <4>2. d[i] = r[i - C] BY <4>1, <2>4
      <4>3. c[i] = Tail(r)[i - (C + 1)] BY <3>0, <3>3, <2>5
      <4>4. Tail(r)[i - (C + 1)] = r[i - (C + 1) + 1] BY <4>1, <2>1
      <4> QED BY <4>1, <4>2, <4>3, <4>4
    <3> QED BY <3>1, <3>2, <3>3, <2>3
  <2>7. Len(c) = C + n BY <2>3, <2>5, <1>1
  <2>8. c = d BY <2>4, <2>5, <2>6, <2>7, SeqEqual
  <2> QED BY <2>8 DEF c, d, a
<1> QED BY <1>5, <1>7, <1>8, <1>9 DEF l

-----------------------------------------------------------------------------
(* The invariant. *)

\* What may be at a task's `value`; how many are sent does not matter here.
Sent == (Senders \X Nat) \cup {NoValue}

Types ==
  /\ capacity \in Nat /\ discard \in BOOLEAN
  /\ buffer \in Seq(Sent) /\ Len(buffer) <= capacity
  /\ receiving \in Seq(Receivers) /\ sending \in Seq(Senders)
  /\ closed \in BOOLEAN /\ freed \in BOOLEAN
  /\ senders \in Nat /\ rc \in Nat
  /\ fired \in [Tasks -> {"NONE", "MOVED", "CLOSED", "DISCARDED", "CANCELLED"}]
  /\ value \in [Tasks -> Sent]
  /\ pc \in [Tasks -> Pcs]
  /\ tell \in [Tasks -> SUBSET Tasks]
  /\ holds \in [Tasks -> Nat]
  /\ made \in [Senders -> Nat]

\* The handles, with those a release has yet to give back to `rc`, ...
Letting == {t \in Tasks : pc[t] \in {"unhold", "tellUnhold"}}
Holding == {h \in Tasks \X Nat : IF h[2] = 0 THEN h[1] \in Letting ELSE h[2] <= holds[h[1]]}

\* ... and those of senders, with the copies that count in `senders` alone.
Copying == {t \in Senders : pc[t] = "copying"}
Lending == {h \in Senders \X Nat : IF h[2] = 0 THEN h[1] \in Copying ELSE h[2] <= holds[h[1]]}

\* `rc` and `senders` count them, and the channel is freed with the last.
CountInv ==
  /\ IsFiniteSet(Holding) /\ rc = Cardinality(Holding)
  /\ IsFiniteSet(Lending) /\ senders = Cardinality(Lending)
  /\ freed => rc = 0
  /\ senders = 0 => closed

\* What a task does fits what it holds, and how its wait ended.
CallInv ==
  \A t \in Tasks :
    /\ fired[t] # "NONE" => pc[t] \in {"waiting", "unlist"}
    /\ pc[t] = "unlist" => fired[t] = "CANCELLED"
    /\ pc[t] \in {"send", "tryOffer", "receive", "waiting", "unlist", "copying"} => holds[t] > 0
    /\ pc[t] \in {"send", "tryOffer", "copying", "unhold", "tellUnhold"} => t \in Senders
    /\ pc[t] = "receive" => t \in Receivers
    /\ pc[t] = "tellUnhold" => closed

\* A list holds, once each, tasks that wait there, and all whose wait nobody
\* claimed; a closed channel has none.
ListInv ==
  /\ Distinct(receiving) /\ Distinct(sending)
  /\ \A t \in ToSet(receiving) \cup ToSet(sending) :
       pc[t] \in {"waiting", "unlist"} /\ fired[t] \in {"NONE", "CANCELLED"}
  /\ \A t \in Tasks : pc[t] = "waiting" /\ Waits(t) => t \in ToSet(receiving) \cup ToSet(sending)
  /\ closed => receiving = <<>> /\ sending = <<>>

\* Nobody is left to take what is sent, and no release has yet to look.
Abandoned ==
  /\ discard
  /\ \A t \in Tasks : pc[t] \notin {"hush", "unhold", "tellUnhold"}
  /\ \A t \in Receivers : holds[t] = 0

QuietInv == Abandoned => \A t \in ToSet(sending) : ~Waits(t)

Inv == Types /\ CountInv /\ CallInv /\ ListInv /\ WaitsAreNeeded /\ QuietInv

LEMMA ListedTasks ==
  ASSUME Types
  PROVE  ToSet(receiving) \subseteq Receivers /\ ToSet(sending) \subseteq Senders
<1>1. receiving \in Seq(Receivers) /\ sending \in Seq(Senders) BY DEF Types
<1> QED BY <1>1, LenProperties, ElementOfSeq DEF ToSet

\* Whom `claim_first` finds, and whom it leaves.
LEMMA ClaimsFirst ==
  ASSUME NEW S, NEW queue \in Seq(S), Distinct(queue)
  PROVE  /\ ClaimFirst(queue) = 0 =>
              /\ AfterFirst(queue) = <<>>
              /\ \A u \in ToSet(queue) : ~Waits(u)
         /\ ClaimFirst(queue) # 0 => LET first == queue[ClaimFirst(queue)] IN
              /\ first \in ToSet(queue) /\ Waits(first)
              /\ AfterFirst(queue) \in Seq(S) /\ Distinct(AfterFirst(queue))
              /\ ToSet(AfterFirst(queue)) \subseteq ToSet(queue) \ {first}
              /\ \A u \in ToSet(queue) : Waits(u) => u = first \/ u \in ToSet(AfterFirst(queue))
<1> DEFINE n == Len(queue)
           k == ClaimFirst(queue)
           I == {i \in 1 .. n : Waits(queue[i])}
<1>1. n \in Nat /\ ToSet(queue) = {queue[i] : i \in 1 .. n} BY LenProperties DEF ToSet
<1>2. k = IF I # {} THEN Min(I) ELSE 0 BY DEF ClaimFirst, SelectInSeq
<1>3. I # {} => Min(I) \in I /\ \A i \in I : Min(I) <= i
  <2>1. I \subseteq Nat BY <1>1
  <2> HIDE DEF I
  <2> QED BY <2>1, Least
<1>4. CASE k = 0
  <2>1. I = {} BY <1>1, <1>2, <1>3, <1>4
  <2> QED BY <2>1, <1>1, <1>4 DEF AfterFirst
<1>5. CASE k # 0
  <2>1. k \in I /\ \A i \in I : k <= i BY <1>2, <1>3, <1>5
  <2>2. AfterFirst(queue) = SubSeq(queue, k + 1, n) BY <1>5 DEF AfterFirst
  <2>3. k \in 0 .. n /\ k \in 1 .. n /\ Waits(queue[k]) BY <2>1, <1>1
  <2> HIDE DEF k, n
  <2>4. /\ SubSeq(queue, k + 1, n) \in Seq(S) /\ Distinct(SubSeq(queue, k + 1, n))
        /\ ToSet(SubSeq(queue, k + 1, n)) = {queue[i] : i \in k + 1 .. n}
    BY <2>3, RestHolds DEF n
  <2>5. \A i \in k + 1 .. n : i \in 1 .. n /\ i # k BY <2>3, <1>1
  <2>6. \A i \in k + 1 .. n : queue[i] # queue[k] BY <2>3, <2>5 DEF Distinct, n
  <2>7. ASSUME NEW i \in 1 .. n, Waits(queue[i]) PROVE i = k \/ i \in k + 1 .. n
    <3>1. k <= i BY <2>1, <2>7
    <3> QED BY <3>1, <2>3, <1>1
  <2> QED BY <2>2, <2>3, <2>4, <2>5, <2>6, <2>7, <1>1, <1>5 DEF k
<1> QED BY <1>4, <1>5

-----------------------------------------------------------------------------
(* The initial state. *)

LEMMA InitInv == Init => Inv
<1> SUFFICES ASSUME Init PROVE Inv
  OBVIOUS
<1> USE DEF Init
<1>1. IsFiniteSet(Tasks) /\ IsFiniteSet(Senders) /\ Senders \subseteq Tasks
  <2>1. Senders \in SUBSET Tasks BY DEF Tasks
  <2> QED BY <2>1, ChannelAssumption, FS_Subset
<1>2. Cardinality(Tasks) \in Nat /\ Cardinality(Senders) \in Nat BY <1>1, FS_CardinalityType
<1>3. Types
  <2>1. <<>> \in Seq(Sent) /\ <<>> \in Seq(Receivers) /\ <<>> \in Seq(Senders) /\ Len(<<>>) = 0
    OBVIOUS
  <2>2. capacity \in Nat /\ discard \in BOOLEAN BY ChannelAssumption
  <2>3. value \in [Tasks -> Sent] BY DEF Sent
  <2>4. senders \in Nat /\ rc \in Nat BY <1>2
  <2>5. /\ buffer \in Seq(Sent) /\ Len(buffer) <= capacity
        /\ receiving \in Seq(Receivers) /\ sending \in Seq(Senders)
    BY <2>1, <2>2
  <2>6. /\ pc \in [Tasks -> Pcs] /\ tell \in [Tasks -> SUBSET Tasks] /\ holds \in [Tasks -> Nat]
        /\ made \in [Senders -> Nat]
        /\ fired \in [Tasks -> {"NONE", "MOVED", "CLOSED", "DISCARDED", "CANCELLED"}]
    BY DEF Pcs
  <2> QED BY <2>2, <2>3, <2>4, <2>5, <2>6 DEF Types
<1>4. CountInv
  <2>1. Holding = Tasks \X {1}
    <3>1. ASSUME NEW t \in Tasks, NEW i \in Nat PROVE <<t, i>> \in Holding <=> i = 1
      BY DEF Holding, Letting
    <3> QED BY <3>1 DEF Holding
  <2>2. Lending = Senders \X {1}
    <3>1. ASSUME NEW t \in Senders, NEW i \in Nat PROVE <<t, i>> \in Lending <=> i = 1
      BY <1>1 DEF Lending, Copying
    <3> QED BY <3>1 DEF Lending
  <2>3. IsFiniteSet({1}) /\ Cardinality({1}) = 1 BY FS_Singleton
  <2>4. IsFiniteSet(Holding) /\ Cardinality(Holding) = Cardinality(Tasks)
    <3>1. /\ IsFiniteSet(Tasks \X {1})
          /\ Cardinality(Tasks \X {1}) = Cardinality(Tasks) * Cardinality({1})
      BY <2>3, <1>1, FS_Product
    <3> QED BY <3>1, <2>1, <2>3, <1>2
  <2>5. IsFiniteSet(Lending) /\ Cardinality(Lending) = Cardinality(Senders)
    <3>1. /\ IsFiniteSet(Senders \X {1})
          /\ Cardinality(Senders \X {1}) = Cardinality(Senders) * Cardinality({1})
      BY <2>3, <1>1, FS_Product
    <3> QED BY <3>1, <2>2, <2>3, <1>2
  <2>6. senders # 0 BY <1>1, FS_EmptySet, ChannelAssumption
  <2> QED BY <2>4, <2>5, <2>6 DEF CountInv
<1>5. CallInv BY DEF CallInv
<1>6. ListInv BY DEF ListInv, Distinct, ToSet
<1>7. WaitsAreNeeded BY DEF WaitsAreNeeded, ToSet
<1>8. QuietInv BY DEF QuietInv, ToSet
<1> QED BY <1>3, <1>4, <1>5, <1>6, <1>7, <1>8 DEF Inv

-----------------------------------------------------------------------------
(* Who holds the channel. *)

\* A handle, and a copy under way, are counted.
LEMMA HeldCounts ==
  ASSUME Types, CountInv, NEW t \in Tasks
  PROVE  /\ holds[t] > 0 \/ t \in Letting => rc > 0 /\ ~freed
         /\ t \in Senders /\ (holds[t] > 0 \/ t \in Copying) => senders > 0
<1>1. holds[t] \in Nat /\ rc \in Nat /\ senders \in Nat BY DEF Types
<1>2. ASSUME holds[t] > 0 \/ t \in Letting PROVE Holding # {}
  <2>1. CASE holds[t] > 0
    <3>1. <<t, 1>> \in Holding BY <2>1, <1>1 DEF Holding
    <3> QED BY <3>1
  <2>2. CASE t \in Letting
    <3>1. <<t, 0>> \in Holding BY <2>2 DEF Holding
    <3> QED BY <3>1
  <2> QED BY <1>2, <2>1, <2>2
<1>3. ASSUME t \in Senders, holds[t] > 0 \/ t \in Copying PROVE Lending # {}
  <2>1. CASE holds[t] > 0
    <3>1. <<t, 1>> \in Lending BY <2>1, <1>1, <1>3 DEF Lending
    <3> QED BY <3>1
  <2>2. CASE t \in Copying
    <3>1. <<t, 0>> \in Lending BY <2>2, <1>3 DEF Lending
    <3> QED BY <3>1
  <2> QED BY <1>3, <2>1, <2>2
<1>4. Holding # {} => rc # 0 BY FS_EmptySet DEF CountInv
<1>5. Lending # {} => senders # 0 BY FS_EmptySet DEF CountInv
<1>6. freed => rc = 0 BY DEF CountInv
<1> QED BY <1>1, <1>2, <1>3, <1>4, <1>5, <1>6

\* Beside the last hold, of a task that does not wait, nobody is listed.
LEMMA LastHold ==
  ASSUME Types, CountInv, CallInv, ListInv, rc = 1,
         NEW t \in Tasks, (pc[t] = "idle" /\ holds[t] > 0) \/ pc[t] = "unhold"
  PROVE  ToSet(receiving) = {} /\ ToSet(sending) = {}
<1> SUFFICES ASSUME NEW u \in ToSet(receiving) \cup ToSet(sending) PROVE FALSE
  OBVIOUS
<1>1. u \in Tasks BY ListedTasks DEF Tasks
<1>2. holds \in [Tasks -> Nat] BY DEF Types
<1>3. pc[u] \in {"waiting", "unlist"} BY DEF ListInv
<1>4. holds[u] > 0 BY <1>1, <1>3 DEF CallInv
<1>5. <<u, 1>> \in Holding BY <1>1, <1>2, <1>4 DEF Holding
<1>6. \E i \in Nat : <<t, i>> \in Holding
  <2>1. CASE pc[t] = "unhold"
    <3>1. <<t, 0>> \in Holding BY <2>1 DEF Holding, Letting
    <3> QED BY <3>1
  <2>2. CASE pc[t] = "idle" /\ holds[t] > 0
    <3>1. <<t, 1>> \in Holding BY <2>2, <1>2 DEF Holding
    <3> QED BY <3>1
  <2> QED BY <2>1, <2>2
<1>7. IsFiniteSet(Holding) /\ Cardinality(Holding) = 1 BY DEF CountInv
<1>8. PICK x : Holding = {x} BY <1>7, FS_Singleton
<1>9. u = t BY <1>5, <1>6, <1>8
<1> QED BY <1>9, <1>3

\* Where only senders hold the channel, it discards.
LEMMA AbandonedDiscards ==
  ASSUME Types, CountInv, discard, Letting = {}, \A t \in Receivers : holds[t] = 0
  PROVE  Discarding
<1>1. holds \in [Tasks -> Nat] BY DEF Types
<1>2. Holding \subseteq Lending
  <2> SUFFICES ASSUME NEW u \in Tasks, NEW i \in Nat, <<u, i>> \in Holding
               PROVE  <<u, i>> \in Lending
    BY DEF Holding
  <2>1. i # 0 /\ i <= holds[u] BY DEF Holding
  <2>2. u \in Senders BY <1>1, <2>1 DEF Tasks
  <2> QED BY <2>1, <2>2 DEF Lending
<1>3. rc <= senders BY <1>2, FS_Subset DEF CountInv
<1> QED BY <1>3 DEF Discarding

-----------------------------------------------------------------------------
(* The types. *)

Hows == {"NONE", "MOVED", "CLOSED", "DISCARDED", "CANCELLED"}

LEMMA TypesStep == ASSUME Types, CountInv, CallInv, ListInv, Next PROVE Types'
<1> USE DEF madeVars, channelVars, countVars, waiterVars, taskVars, historyVars
<1>1. PICK t \in Tasks : Step(t) \/ Starts(t) BY DEF Next
<1>2. /\ capacity \in Nat /\ discard \in BOOLEAN
      /\ buffer \in Seq(Sent) /\ Len(buffer) <= capacity
      /\ receiving \in Seq(Receivers) /\ sending \in Seq(Senders)
      /\ closed \in BOOLEAN /\ freed \in BOOLEAN
      /\ senders \in Nat /\ rc \in Nat
      /\ fired \in [Tasks -> Hows] /\ value \in [Tasks -> Sent] /\ pc \in [Tasks -> Pcs]
      /\ tell \in [Tasks -> SUBSET Tasks] /\ holds \in [Tasks -> Nat] /\ made \in [Senders -> Nat]
  BY DEF Types, Hows
<1>3. capacity' = capacity /\ discard' = discard BY <1>1 DEF Step, Starts
<1>4. ASSUME NEW woken \in SUBSET Tasks, NEW how \in Hows, Claims(t, woken, how)
      PROVE  fired' \in [Tasks -> Hows] /\ tell' \in [Tasks -> SUBSET Tasks]
  BY <1>2, <1>4 DEF Claims
<1>5. ASSUME NEW to \in Pcs, pc' = [pc EXCEPT ![t] = to] PROVE pc' \in [Tasks -> Pcs]
  BY <1>2, <1>5
<1>6. ASSUME Done(t) PROVE pc' \in [Tasks -> Pcs] /\ value' \in [Tasks -> Sent]
  <2>1. pc' = [pc EXCEPT ![t] = "idle"] /\ value' = [value EXCEPT ![t] = NoValue]
    BY <1>6 DEF Done, Goes
  <2>2. "idle" \in Pcs /\ NoValue \in Sent BY DEF Pcs, Sent
  <2> QED BY <2>1, <2>2, <1>2
<1>7. ASSUME NEW woken, Ends(t, woken) PROVE pc' \in [Tasks -> Pcs]
  BY <1>2, <1>7 DEF Ends, Pcs
<1>8. ASSUME Forgets(t) PROVE fired' \in [Tasks -> Hows]
  BY <1>2, <1>8 DEF Forgets, Hows
<1>9. <<>> \in Seq(Receivers) /\ <<>> \in Seq(Senders) /\ <<>> \in Seq(Sent) /\ Len(<<>>) = 0
  OBVIOUS
<1>10. Tasks = Senders \cup Receivers BY DEF Tasks
<1>11. ToSet(receiving) \subseteq Receivers /\ ToSet(sending) \subseteq Senders
  BY ListedTasks
<1>12. Distinct(receiving) /\ Distinct(sending) BY DEF ListInv
<1>13. AfterFirst(receiving) \in Seq(Receivers) /\ AfterFirst(sending) \in Seq(Senders)
  BY <1>2, <1>9, <1>12, ClaimsFirst
<1>14. ClaimFirst(receiving) # 0 => receiving[ClaimFirst(receiving)] \in Receivers
  BY <1>2, <1>11, <1>12, ClaimsFirst
<1>15. ClaimFirst(sending) # 0 => sending[ClaimFirst(sending)] \in Senders
  BY <1>2, <1>11, <1>12, ClaimsFirst
<1>16. ASSUME CloseWaits(t)
       PROVE  /\ closed' \in BOOLEAN /\ receiving' \in Seq(Receivers) /\ sending' \in Seq(Senders)
              /\ fired' \in [Tasks -> Hows] /\ tell' \in [Tasks -> SUBSET Tasks]
  <2>1. Closes \in SUBSET Tasks BY <1>10, <1>11 DEF Closes
  <2>2. "CLOSED" \in Hows BY DEF Hows
  <2> QED BY <2>1, <2>2, <1>4, <1>9, <1>16 DEF CloseWaits
<1>17. ASSUME buffer # <<>>
       PROVE  /\ Tail(buffer) \in Seq(Sent) /\ Len(Tail(buffer)) + 1 = Len(buffer)
              /\ Head(buffer) \in Sent
  BY <1>2, <1>17, HeadTailProperties
<1>18. ASSUME UNCHANGED <<closed, freed, senders, rc, holds, made>>
       PROVE  /\ closed' \in BOOLEAN /\ freed' \in BOOLEAN /\ senders' \in Nat /\ rc' \in Nat
              /\ holds' \in [Tasks -> Nat] /\ made' \in [Senders -> Nat]
  BY <1>2, <1>18
<1>19. Len(buffer) \in Nat BY <1>2, LenProperties
<1>20. CASE SendFails(t)
  BY <1>2, <1>3, <1>6, <1>18, <1>20 DEF SendFails, Types, Hows
<1>21. CASE SendHands(t)
  <2> DEFINE r == receiving[ClaimFirst(receiving)]
  <2>1. r \in Tasks /\ {r} \in SUBSET Tasks /\ "MOVED" \in Hows
    BY <1>10, <1>14, <1>21 DEF SendHands, Hows
  <2>2. value' = [value EXCEPT ![r] = value[t], ![t] = NoValue] BY <1>21 DEF SendHands
  <2>3. NoValue \in Sent /\ value[t] \in Sent BY <1>2 DEF Sent
  <2>4. value' \in [Tasks -> Sent] BY <1>2, <2>1, <2>2, <2>3
  <2>5. Claims(t, {r}, "MOVED") /\ Ends(t, {r}) BY <1>21 DEF SendHands
  <2>6. /\ fired' \in [Tasks -> Hows] /\ tell' \in [Tasks -> SUBSET Tasks]
        /\ pc' \in [Tasks -> Pcs]
    BY <2>1, <2>5, <1>4, <1>7
  <2>7. receiving' = AfterFirst(receiving)
        /\ UNCHANGED <<buffer, sending, closed, freed, senders, rc, holds, made>>
    BY <1>21 DEF SendHands
  <2> QED BY <2>4, <2>6, <2>7, <1>2, <1>3, <1>13, <1>18 DEF Types, Hows
<1>22. CASE SendBuffers(t)
  <2>1. value[t] \in Sent BY <1>2
  <2>2. Append(buffer, value[t]) \in Seq(Sent) /\ Len(Append(buffer, value[t])) = Len(buffer) + 1
    BY <2>1, <1>2, AppendProperties
  <2>3. buffer' \in Seq(Sent) /\ Len(buffer') <= capacity' BY <2>2, <1>2, <1>3, <1>19, <1>22 DEF SendBuffers
  <2> QED BY <2>3, <1>2, <1>3, <1>6, <1>9, <1>18, <1>22 DEF SendBuffers, Types, Hows
<1>23. CASE SendWaits(t)
  <2>1. CASE pc[t] = "tryOffer"
    BY <2>1, <1>2, <1>3, <1>6, <1>9, <1>18, <1>23 DEF SendWaits, Types, Hows
  <2>2. CASE pc[t] # "tryOffer"
    <3>1. t \in Senders BY <2>2, <1>23 DEF SendWaits, Goes, CallInv
    <3>2. sending' \in Seq(Senders)
      <4>1. Append(sending, t) \in Seq(Senders) BY <3>1, <1>2, AppendProperties
      <4> QED BY <2>2, <4>1, <1>23 DEF SendWaits
    <3>3. pc' \in [Tasks -> Pcs] BY <2>2, <1>5, <1>23 DEF SendWaits, Goes, Pcs
    <3> QED BY <2>2, <3>2, <3>3, <1>2, <1>3, <1>9, <1>18, <1>23 DEF SendWaits, Types, Hows
  <2> QED BY <2>1, <2>2
<1>24. CASE ReceiveTakes(t)
  <2>1. buffer # <<>> BY <1>24 DEF ReceiveTakes
  <2>2. CASE ClaimFirst(sending) = 0
    <3>1. {} \in SUBSET Tasks /\ "MOVED" \in Hows BY DEF Hows
    <3>2. fired' \in [Tasks -> Hows] /\ tell' \in [Tasks -> SUBSET Tasks] /\ pc' \in [Tasks -> Pcs]
      BY <2>2, <3>1, <1>4, <1>7, <1>24 DEF ReceiveTakes
    <3>3. buffer' \in Seq(Sent) /\ Len(buffer') <= capacity'
      <4>1. Tail(buffer) \in Seq(Sent) /\ Len(Tail(buffer)) + 1 = Len(buffer) BY <2>1, <1>17
      <4>2. Len(Tail(buffer)) \in Nat BY <4>1, LenProperties
      <4>3. Len(Tail(buffer)) <= capacity BY <4>1, <4>2, <1>2, <1>19
      <4>4. buffer' = Tail(buffer) BY <2>2, <1>24 DEF ReceiveTakes
      <4> QED BY <4>1, <4>3, <4>4, <1>3
    <3> QED BY <3>2, <3>3, <1>2, <1>3, <1>13, <1>18, <1>24 DEF ReceiveTakes, Types, Hows
  <2>3. CASE ClaimFirst(sending) # 0
    <3> DEFINE s == sending[ClaimFirst(sending)]
    <3>1. s \in Tasks /\ {s} \in SUBSET Tasks /\ "MOVED" \in Hows BY <2>3, <1>10, <1>15 DEF Hows
    <3>2. fired' \in [Tasks -> Hows] /\ tell' \in [Tasks -> SUBSET Tasks] /\ pc' \in [Tasks -> Pcs]
      <4>1. Claims(t, {s}, "MOVED") /\ Ends(t, {s}) BY <2>3, <1>24 DEF ReceiveTakes
      <4> QED BY <4>1, <3>1, <1>4, <1>7
    <3>3. buffer' \in Seq(Sent) /\ Len(buffer') <= capacity'
      <4>1. value[s] \in Sent BY <3>1, <1>2
      <4>2. /\ Append(Tail(buffer), value[s]) \in Seq(Sent)
            /\ Len(Append(Tail(buffer), value[s])) = Len(Tail(buffer)) + 1
        BY <4>1, <2>1, <1>17, AppendProperties
      <4>3. buffer' = Append(Tail(buffer), value[s]) BY <2>3, <1>24 DEF ReceiveTakes
      <4> QED BY <4>2, <4>3, <2>1, <1>2, <1>3, <1>17
    <3> QED BY <3>2, <3>3, <1>2, <1>3, <1>13, <1>18, <1>24 DEF ReceiveTakes, Types, Hows
  <2> QED BY <2>2, <2>3
<1>25. CASE ReceiveMeets(t)
  <2> DEFINE s == sending[ClaimFirst(sending)]
  <2>1. s \in Tasks /\ {s} \in SUBSET Tasks /\ "MOVED" \in Hows
    BY <1>10, <1>15, <1>25 DEF ReceiveMeets, Hows
  <2>2. Claims(t, {s}, "MOVED") /\ Ends(t, {s}) BY <1>25 DEF ReceiveMeets
  <2>3. fired' \in [Tasks -> Hows] /\ tell' \in [Tasks -> SUBSET Tasks] /\ pc' \in [Tasks -> Pcs]
    BY <2>1, <2>2, <1>4, <1>7
  <2> QED BY <2>3, <1>2, <1>3, <1>13, <1>18, <1>25 DEF ReceiveMeets, Types, Hows
<1>26. CASE ReceiveWaits(t)
  <2>1. pc' \in [Tasks -> Pcs] BY <1>5, <1>26 DEF ReceiveWaits, Goes, Pcs
  <2>2. t \in Receivers BY <1>26 DEF ReceiveWaits, CallInv
  <2>3. receiving' \in Seq(Receivers)
    <3>1. Append(receiving, t) \in Seq(Receivers) BY <2>2, <1>2, AppendProperties
    <3> QED BY <3>1, <1>2, <1>26 DEF ReceiveWaits
  <2> QED BY <2>1, <2>3, <1>2, <1>3, <1>9, <1>18, <1>26 DEF ReceiveWaits, Types, Hows
<1>27. CASE Tell(t)
  <2>1. PICK u \in tell[t] :
          /\ tell' = [tell EXCEPT ![t] = @ \ {u}]
          /\ pc' = [pc EXCEPT ![t] = IF tell[t] # {u} THEN @
                                    ELSE IF @ = "tellUnhold" THEN "unhold" ELSE "idle"]
    BY <1>27 DEF Tell
  <2>2. tell' \in [Tasks -> SUBSET Tasks] BY <2>1, <1>2
  <2>3. pc' \in [Tasks -> Pcs] BY <2>1, <1>2 DEF Pcs
  <2> QED BY <2>2, <2>3, <1>2, <1>3, <1>18, <1>27 DEF Tell, Types, Hows
<1>28. CASE CancelClaims(t)
  <2>1. fired' \in [Tasks -> Hows] BY <1>2, <1>28 DEF CancelClaims, Hows
  <2> QED BY <2>1, <1>2, <1>3, <1>18, <1>28 DEF CancelClaims, Types, Hows
<1>29. CASE Returns(t)
  <2>1. CASE fired[t] = "CANCELLED"
    <3>1. pc' \in [Tasks -> Pcs] BY <2>1, <1>5, <1>29 DEF Returns, Goes, Pcs
    <3> QED BY <2>1, <3>1, <1>2, <1>3, <1>18, <1>29 DEF Returns, Types, Hows
  <2>2. CASE fired[t] # "CANCELLED"
    <3>1. Done(t) /\ Forgets(t) BY <2>2, <1>29 DEF Returns
    <3> QED BY <3>1, <1>2, <1>3, <1>6, <1>8, <1>18, <1>29 DEF Returns, Types, Hows
  <2> QED BY <2>1, <2>2
<1>30. CASE Unlist(t)
  <2>1. sending' \in Seq(Senders) /\ receiving' \in Seq(Receivers)
    BY <1>2, <1>30, RemoveHolds DEF Unlist
  <2> QED BY <2>1, <1>2, <1>3, <1>6, <1>8, <1>18, <1>30 DEF Unlist, Types, Hows
<1>31. CASE CopyHolds(t)
  <2>1. pc' \in [Tasks -> Pcs] BY <1>5, <1>31 DEF CopyHolds, Goes, Pcs
  <2>2. rc' \in Nat /\ holds' \in [Tasks -> Nat] BY <1>2, <1>31 DEF CopyHolds
  <2> QED BY <2>1, <2>2, <1>2, <1>3, <1>31 DEF CopyHolds, Types, Hows
<1>32. ASSUME Unholds(t), rc > 0
       PROVE  /\ rc' \in Nat /\ freed' \in BOOLEAN /\ buffer' \in Seq(Sent) /\ Len(buffer') <= capacity'
              /\ pc' \in [Tasks -> Pcs]
              /\ UNCHANGED <<receiving, sending, closed, senders, fired, value, tell, made>>
  <2>1. rc' = rc - 1 BY <1>32 DEF Unholds
  <2>2. pc' \in [Tasks -> Pcs] BY <1>2, <1>32 DEF Unholds, Pcs
  <2>3. freed' \in BOOLEAN BY <1>2, <1>32 DEF Unholds
  <2>4. buffer' = <<>> \/ buffer' = buffer BY <1>32 DEF Unholds
  <2>5. buffer' \in Seq(Sent) /\ Len(buffer') <= capacity'
    <3>1. 0 <= capacity BY <1>2
    <3>2. CASE buffer' = <<>> BY <3>1, <3>2, <1>3, <1>9
    <3>3. CASE buffer' = buffer BY <3>3, <1>2, <1>3
    <3> QED BY <2>4, <3>2, <3>3
  <2> QED BY <2>1, <2>2, <2>3, <2>5, <1>2, <1>32 DEF Unholds
<1>33. CASE Unhold(t)
  <2>1. rc > 0 BY <1>33, HeldCounts DEF Unhold, Letting
  <2> QED BY <2>1, <1>2, <1>3, <1>32, <1>33 DEF Unhold, Types, Hows
<1>34. CASE Hush(t)
  <2>1. Discards \in SUBSET Tasks /\ {} \in SUBSET Tasks /\ "DISCARDED" \in Hows
    BY <1>10, <1>11 DEF Discards, Hows
  <2>2. \E woken \in SUBSET Tasks : Claims(t, woken, "DISCARDED") /\ Ends(t, woken)
    BY <2>1, <1>34 DEF Hush
  <2>3. fired' \in [Tasks -> Hows] /\ tell' \in [Tasks -> SUBSET Tasks] /\ pc' \in [Tasks -> Pcs]
    BY <2>1, <2>2, <1>4, <1>7
  <2>4. sending' = sending \/ sending' = <<>> BY <1>34 DEF Hush
  <2>5. sending' \in Seq(Senders) BY <2>4, <1>2, <1>9
  <2> QED BY <2>3, <2>5, <1>2, <1>3, <1>18, <1>34 DEF Hush, Types, Hows
<1>35. CASE t \in Senders /\ SendStarts(t)
  <2> DEFINE v == <<t, made[t] + 1>>
  <2>1. v \in Sent /\ made' \in [Senders -> Nat] BY <1>2, <1>35 DEF SendStarts, Sent
  <2>2. CASE ~cancelled[t]
    <3>1. pc' \in [Tasks -> Pcs] BY <2>2, <1>5, <1>35 DEF SendStarts, Goes, Pcs
    <3>2. value' \in [Tasks -> Sent] BY <2>1, <2>2, <1>2, <1>35 DEF SendStarts
    <3> QED BY <3>1, <3>2, <2>1, <1>2, <1>3, <1>35 DEF SendStarts, Types, Hows
  <2>3. CASE cancelled[t] BY <2>1, <2>3, <1>2, <1>3, <1>35 DEF SendStarts, Types, Hows
  <2> QED BY <2>2, <2>3
<1>36. CASE t \in Receivers /\ ReceiveStarts(t)
  <2>1. pc' \in [Tasks -> Pcs] BY <1>5, <1>36 DEF ReceiveStarts, Goes, Pcs
  <2> QED BY <2>1, <1>2, <1>3, <1>18, <1>36 DEF ReceiveStarts, Types, Hows
<1>37. CASE Close(t)
  <2>1. pc' \in [Tasks -> Pcs] BY <1>7, <1>37 DEF Close
  <2> QED BY <2>1, <1>2, <1>3, <1>16, <1>37 DEF Close, Types, Hows
<1>38. CASE CopyCounts(t)
  <2>1. pc' \in [Tasks -> Pcs] BY <1>5, <1>38 DEF CopyCounts, Goes, Pcs
  <2>2. senders' \in Nat BY <1>2, <1>38 DEF CopyCounts
  <2> QED BY <2>1, <2>2, <1>2, <1>3, <1>38 DEF CopyCounts, Types, Hows
<1>39. CASE SenderRelease(t)
  <2>1. senders > 0 /\ holds[t] > 0 BY <1>39, HeldCounts DEF SenderRelease
  <2>2. senders' \in Nat /\ holds' \in [Tasks -> Nat]
    <3>1. senders - 1 \in Nat /\ holds[t] - 1 \in Nat BY <2>1, <1>2
    <3> QED BY <3>1, <1>2, <1>39 DEF SenderRelease
  <2>3. CASE senders = 1 /\ ~closed
    <3>1. pc' \in [Tasks -> Pcs] BY <2>3, <1>5, <1>39 DEF SenderRelease, Goes, Pcs
    <3>2. CloseWaits(t) BY <2>3, <1>39 DEF SenderRelease
    <3> QED BY <2>2, <3>1, <3>2, <1>2, <1>3, <1>16, <1>39 DEF SenderRelease, Types, Hows
  <2>4. CASE ~(senders = 1 /\ ~closed)
    <3>1. pc' \in [Tasks -> Pcs] BY <2>4, <1>5, <1>39 DEF SenderRelease, Goes, Pcs
    <3> QED BY <2>2, <2>4, <3>1, <1>2, <1>3, <1>39 DEF SenderRelease, Types, Hows
  <2> QED BY <2>3, <2>4
<1>40. CASE ReceiverRelease(t)
  <2>1. rc > 0 /\ holds[t] > 0 BY <1>40, HeldCounts DEF ReceiverRelease
  <2>2. holds' \in [Tasks -> Nat]
    <3>1. holds[t] - 1 \in Nat BY <2>1, <1>2
    <3> QED BY <3>1, <1>2, <1>40 DEF ReceiverRelease
  <2> QED BY <2>1, <2>2, <1>2, <1>3, <1>32, <1>40 DEF ReceiverRelease, Types, Hows
<1>41. CASE Cancel(t) BY <1>2, <1>3, <1>41 DEF Cancel, Types, Hows
<1> QED BY <1>1, <1>20, <1>21, <1>22, <1>23, <1>24, <1>25, <1>26, <1>27, <1>28, <1>29, <1>30, <1>31,
           <1>33, <1>34, <1>35, <1>36, <1>37, <1>38, <1>39, <1>40, <1>41 DEF Step, Starts

-----------------------------------------------------------------------------
(* The counts of the handles. *)

LEMMA SwapCounts ==
  ASSUME NEW S, IsFiniteSet(S), NEW x \in S, NEW y, y \notin S
  PROVE  /\ IsFiniteSet((S \ {x}) \cup {y})
         /\ Cardinality((S \ {x}) \cup {y}) = Cardinality(S)
<1>1. IsFiniteSet(S \ {x}) /\ Cardinality(S \ {x}) = Cardinality(S) - 1 /\ Cardinality(S) \in Nat
  BY FS_RemoveElement, FS_CardinalityType
<1>2. y \notin S \ {x} OBVIOUS
<1>3. /\ IsFiniteSet((S \ {x}) \cup {y})
      /\ Cardinality((S \ {x}) \cup {y}) = Cardinality(S \ {x}) + 1
  BY <1>1, <1>2, FS_AddElement
<1> QED BY <1>1, <1>3

LEMMA CountStep == ASSUME Types, CountInv, CallInv, ListInv, Next PROVE CountInv'
<1> USE DEF madeVars, channelVars, countVars, waiterVars, taskVars, historyVars
<1>1. PICK t \in Tasks : Step(t) \/ Starts(t) BY DEF Next
<1>2. /\ pc \in [Tasks -> Pcs] /\ holds \in [Tasks -> Nat]
      /\ senders \in Nat /\ rc \in Nat
  BY DEF Types
<1>3. /\ IsFiniteSet(Holding) /\ rc = Cardinality(Holding)
      /\ IsFiniteSet(Lending) /\ senders = Cardinality(Lending)
      /\ (freed => rc = 0) /\ (senders = 0 => closed)
  BY DEF CountInv
<1>4. Tasks = Senders \cup Receivers /\ Senders \cap Receivers = {} BY ChannelAssumption DEF Tasks
\* A step that leaves the handles alone.
<1>5. ASSUME holds' = holds, \A u \in Tasks : (u \in Letting)' <=> u \in Letting
      PROVE  Holding' = Holding
  <2>1. \A u \in Tasks, i \in Nat : <<u, i>> \in Holding' <=> <<u, i>> \in Holding
    BY <1>5 DEF Holding
  <2> QED BY <2>1 DEF Holding
<1>6. ASSUME \A u \in Senders : holds'[u] = holds[u], \A u \in Senders : (u \in Copying)' <=> u \in Copying
      PROVE  Lending' = Lending
  <2>1. \A u \in Senders, i \in Nat : <<u, i>> \in Lending' <=> <<u, i>> \in Lending
    BY <1>6 DEF Lending
  <2> QED BY <2>1 DEF Lending
<1>7. ASSUME UNCHANGED <<holds, senders, rc, freed>>, closed => closed',
             \A u \in Tasks : /\ pc'[u] \in {"unhold", "tellUnhold"} <=> pc[u] \in {"unhold", "tellUnhold"}
                              /\ pc'[u] = "copying" <=> pc[u] = "copying"
      PROVE  CountInv'
  <2>1. \A u \in Tasks : (u \in Letting)' <=> u \in Letting BY <1>7 DEF Letting
  <2>2. \A u \in Senders : (u \in Copying)' <=> u \in Copying BY <1>4, <1>7 DEF Copying
  <2>3. Holding' = Holding /\ Lending' = Lending BY <2>1, <2>2, <1>5, <1>6, <1>7
  <2> QED BY <2>3, <1>3, <1>7 DEF CountInv
<1>8. ASSUME NEW to \in Pcs, pc' = [pc EXCEPT ![t] = to],
             to \notin {"unhold", "tellUnhold", "copying"},
             pc[t] \notin {"unhold", "tellUnhold", "copying"},
             UNCHANGED <<holds, senders, rc, freed>>, closed => closed'
      PROVE  CountInv'
  BY <1>2, <1>7, <1>8
<1>9. ASSUME Done(t), pc[t] \notin {"unhold", "tellUnhold", "copying"},
             UNCHANGED <<holds, senders, rc, freed>>, closed => closed'
      PROVE  CountInv'
  <2>1. pc' = [pc EXCEPT ![t] = "idle"] BY <1>9 DEF Done, Goes
  <2> QED BY <2>1, <1>8, <1>9 DEF Pcs
<1>10. ASSUME NEW woken, Ends(t, woken), pc[t] \notin {"unhold", "tellUnhold", "copying"},
              UNCHANGED <<holds, senders, rc, freed>>, closed => closed'
       PROVE  CountInv'
  <2>1. pc' = [pc EXCEPT ![t] = "idle"] \/ pc' = [pc EXCEPT ![t] = "tell"] BY <1>10 DEF Ends
  <2> QED BY <2>1, <1>8, <1>10 DEF Pcs
<1>20. CASE SendFails(t) BY <1>9, <1>20 DEF SendFails, Sends
<1>21. CASE SendHands(t)
  <2>1. PICK r : Ends(t, {r}) BY <1>21 DEF SendHands
  <2> QED BY <2>1, <1>10, <1>21 DEF SendHands, Sending, Sends
<1>22. CASE SendBuffers(t) BY <1>9, <1>22 DEF SendBuffers, Sending, Sends
<1>23. CASE SendWaits(t)
  <2>1. CASE pc[t] = "tryOffer" BY <2>1, <1>9, <1>23 DEF SendWaits
  <2>2. CASE pc[t] # "tryOffer" BY <2>2, <1>8, <1>23 DEF SendWaits, Goes, Pcs
  <2> QED BY <2>1, <2>2
<1>24. CASE ReceiveTakes(t)
  <2>1. \E woken : Ends(t, woken) BY <1>24 DEF ReceiveTakes
  <2> QED BY <2>1, <1>10, <1>24 DEF ReceiveTakes
<1>25. CASE ReceiveMeets(t)
  <2>1. \E woken : Ends(t, woken) BY <1>25 DEF ReceiveMeets
  <2> QED BY <2>1, <1>10, <1>25 DEF ReceiveMeets
<1>26. CASE ReceiveWaits(t)
  <2>1. pc' = [pc EXCEPT ![t] = "idle"] \/ pc' = [pc EXCEPT ![t] = "waiting"] BY <1>26 DEF ReceiveWaits, Goes
  <2> QED BY <2>1, <1>8, <1>26 DEF ReceiveWaits, Pcs
<1>27. CASE Tell(t)
  <2>1. PICK u \in tell[t] :
          pc' = [pc EXCEPT ![t] = IF tell[t] # {u} THEN @
                                  ELSE IF @ = "tellUnhold" THEN "unhold" ELSE "idle"]
    BY <1>27 DEF Tell
  <2>2. pc[t] \in {"tell", "tellUnhold"} BY <1>27 DEF Tell
  <2>3. \A w \in Tasks : /\ pc'[w] \in {"unhold", "tellUnhold"} <=> pc[w] \in {"unhold", "tellUnhold"}
                         /\ pc'[w] = "copying" <=> pc[w] = "copying"
    BY <2>1, <2>2, <1>2
  <2> QED BY <2>3, <1>7, <1>27 DEF Tell
<1>28. CASE CancelClaims(t) BY <1>7, <1>28 DEF CancelClaims
<1>29. CASE Returns(t)
  <2>1. CASE fired[t] = "CANCELLED" BY <2>1, <1>8, <1>29 DEF Returns, Goes, Pcs
  <2>2. CASE fired[t] # "CANCELLED" BY <2>2, <1>9, <1>29 DEF Returns
  <2> QED BY <2>1, <2>2
<1>30. CASE Unlist(t) BY <1>9, <1>30 DEF Unlist
<1>31. CASE CopyHolds(t)
  <2> DEFINE n == holds[t] + 1
  <2>1. /\ pc[t] = "copying" /\ pc' = [pc EXCEPT ![t] = "idle"]
        /\ holds' = [holds EXCEPT ![t] = n] /\ rc' = rc + 1
        /\ UNCHANGED <<closed, senders, freed>>
    BY <1>31 DEF CopyHolds, Goes
  <2>2. t \in Senders /\ holds[t] > 0 BY <2>1 DEF CallInv
  <2>3. n \in Nat /\ n # 0 /\ <<t, n>> \notin Holding /\ <<t, n>> \notin Lending
    BY <1>2 DEF Holding, Lending
  <2>4. Holding' = Holding \cup {<<t, n>>}
    <3>1. ASSUME NEW u \in Tasks, NEW i \in Nat
          PROVE  <<u, i>> \in Holding' <=> <<u, i>> \in Holding \cup {<<t, n>>}
      <4>1. (u \in Letting)' <=> u \in Letting BY <2>1, <1>2 DEF Letting
      <4>2. i <= holds'[u] <=> i <= holds[u] \/ (u = t /\ i = n) BY <2>1, <1>2
      <4> QED BY <4>1, <4>2, <2>3 DEF Holding
    <3>2. <<t, n>> \in Tasks \X Nat BY <2>3
    <3> QED BY <3>1, <3>2 DEF Holding
  <2>5. Lending' = (Lending \ {<<t, 0>>}) \cup {<<t, n>>}
    <3>1. ASSUME NEW u \in Senders, NEW i \in Nat
          PROVE  <<u, i>> \in Lending' <=> <<u, i>> \in (Lending \ {<<t, 0>>}) \cup {<<t, n>>}
      <4>1. (u \in Copying)' <=> u \in Copying /\ u # t BY <2>1, <1>2, <1>4 DEF Copying
      <4>2. i <= holds'[u] <=> i <= holds[u] \/ (u = t /\ i = n) BY <2>1, <1>2, <1>4
      <4> QED BY <4>1, <4>2, <2>3 DEF Lending
    <3>2. <<t, n>> \in Senders \X Nat BY <2>2, <2>3
    <3> QED BY <3>1, <3>2 DEF Lending
  <2>6. <<t, 0>> \in Lending BY <2>1, <2>2 DEF Lending, Copying
  <2>7. IsFiniteSet(Holding') /\ rc' = Cardinality(Holding') BY <2>1, <2>3, <2>4, <1>3, FS_AddElement
  <2>8. IsFiniteSet(Lending') /\ senders' = Cardinality(Lending')
    BY <2>1, <2>3, <2>5, <2>6, <1>3, SwapCounts
  <2>9. ~freed BY <2>2, HeldCounts
  <2> QED BY <2>1, <2>7, <2>8, <2>9, <1>3 DEF CountInv
<1>32. CASE Unhold(t)
  <2>1. /\ pc[t] = "unhold" /\ rc' = rc - 1 /\ UNCHANGED <<holds, senders, closed>>
        /\ pc' = [pc EXCEPT ![t] = "idle"] \/ pc' = [pc EXCEPT ![t] = "hush"]
        /\ freed' = freed \/ rc = 1
    BY <1>32 DEF Unhold, Unholds
  <2>2. \A u \in Tasks : (u \in Letting)' <=> u \in Letting /\ u # t BY <2>1, <1>2 DEF Letting
  <2>3. Holding' = Holding \ {<<t, 0>>}
    <3>1. \A u \in Tasks, i \in Nat : <<u, i>> \in Holding' <=> <<u, i>> \in Holding \ {<<t, 0>>}
      BY <2>1, <2>2 DEF Holding
    <3> QED BY <3>1 DEF Holding
  <2>4. <<t, 0>> \in Holding BY <2>1 DEF Holding, Letting
  <2>5. IsFiniteSet(Holding') /\ rc' = Cardinality(Holding') BY <2>1, <2>3, <2>4, <1>3, FS_RemoveElement
  <2>6. Lending' = Lending
    <3>1. \A u \in Senders : (u \in Copying)' <=> u \in Copying BY <2>1, <1>2, <1>4 DEF Copying
    <3> QED BY <3>1, <2>1, <1>6
  <2>7. rc > 0 /\ ~freed BY <2>1, HeldCounts DEF Letting
  <2> QED BY <2>1, <2>5, <2>6, <2>7, <1>2, <1>3 DEF CountInv
<1>33. CASE ReceiverRelease(t)
  <2> DEFINE n == holds[t]
  <2>1. /\ pc[t] = "idle" /\ n > 0 /\ rc' = rc - 1 /\ UNCHANGED <<senders, closed>>
        /\ holds' = [holds EXCEPT ![t] = n - 1]
        /\ pc' = [pc EXCEPT ![t] = "idle"] \/ pc' = [pc EXCEPT ![t] = "hush"]
        /\ freed' = freed \/ rc = 1
        /\ t \in Receivers
    BY <1>33 DEF ReceiverRelease, Unholds
  <2>2. \A u \in Tasks : (u \in Letting)' <=> u \in Letting BY <2>1, <1>2 DEF Letting
  <2>3. Holding' = Holding \ {<<t, n>>}
    <3>1. ASSUME NEW u \in Tasks, NEW i \in Nat
          PROVE  <<u, i>> \in Holding' <=> <<u, i>> \in Holding \ {<<t, n>>}
      <4>1. i <= holds'[u] <=> i <= holds[u] /\ ~(u = t /\ i = n) BY <2>1, <1>2
      <4> QED BY <4>1, <2>1, <2>2 DEF Holding
    <3> QED BY <3>1 DEF Holding
  <2>4. <<t, n>> \in Holding BY <2>1, <1>2 DEF Holding
  <2>5. IsFiniteSet(Holding') /\ rc' = Cardinality(Holding') BY <2>1, <2>3, <2>4, <1>3, FS_RemoveElement
  <2>6. Lending' = Lending
    <3>1. \A u \in Senders : (u \in Copying)' <=> u \in Copying BY <2>1, <1>2, <1>4 DEF Copying
    <3>2. \A u \in Senders : holds'[u] = holds[u] BY <2>1, <1>2, <1>4
    <3> QED BY <3>1, <3>2, <1>6
  <2>7. rc > 0 /\ ~freed BY <2>1, HeldCounts
  <2> QED BY <2>1, <2>5, <2>6, <2>7, <1>2, <1>3 DEF CountInv
<1>34. CASE Hush(t)
  <2>1. \E woken : Ends(t, woken) BY <1>34 DEF Hush
  <2> QED BY <2>1, <1>10, <1>34 DEF Hush
<1>35. CASE t \in Senders /\ SendStarts(t)
  <2>1. CASE cancelled[t] BY <2>1, <1>7, <1>35 DEF SendStarts
  <2>2. CASE ~cancelled[t] BY <2>2, <1>8, <1>35 DEF SendStarts, Goes, Pcs
  <2> QED BY <2>1, <2>2
<1>36. CASE t \in Receivers /\ ReceiveStarts(t) BY <1>8, <1>36 DEF ReceiveStarts, Goes, Pcs
<1>37. CASE Close(t) BY <1>10, <1>37 DEF Close, CloseWaits
<1>38. CASE CopyCounts(t)
  <2>1. /\ pc[t] = "idle" /\ pc' = [pc EXCEPT ![t] = "copying"] /\ t \in Senders
        /\ senders' = senders + 1 /\ UNCHANGED <<holds, closed, rc, freed>>
    BY <1>38 DEF CopyCounts, Goes
  <2>2. \A u \in Tasks : (u \in Letting)' <=> u \in Letting BY <2>1, <1>2 DEF Letting
  <2>3. Holding' = Holding BY <2>1, <2>2, <1>5
  <2>4. Lending' = Lending \cup {<<t, 0>>}
    <3>1. ASSUME NEW u \in Senders, NEW i \in Nat
          PROVE  <<u, i>> \in Lending' <=> <<u, i>> \in Lending \cup {<<t, 0>>}
      <4>1. (u \in Copying)' <=> u \in Copying \/ u = t BY <2>1, <1>2, <1>4 DEF Copying
      <4> QED BY <4>1, <2>1 DEF Lending
    <3>2. <<t, 0>> \in Senders \X Nat BY <2>1
    <3> QED BY <3>1, <3>2 DEF Lending
  <2>5. <<t, 0>> \notin Lending BY <2>1 DEF Lending, Copying
  <2>6. IsFiniteSet(Lending') /\ senders' = Cardinality(Lending')
    BY <2>1, <2>4, <2>5, <1>3, FS_AddElement
  <2> QED BY <2>1, <2>3, <2>6, <1>2, <1>3 DEF CountInv
<1>39. CASE SenderRelease(t)
  <2> DEFINE n == holds[t]
  <2>1. /\ pc[t] = "idle" /\ n > 0 /\ t \in Senders
        /\ holds' = [holds EXCEPT ![t] = n - 1] /\ senders' = senders - 1
        /\ pc' = [pc EXCEPT ![t] = "unhold"] \/ pc' = [pc EXCEPT ![t] = "tellUnhold"]
        /\ UNCHANGED <<rc, freed>>
        /\ closed' <=> closed \/ senders = 1
    <3>1. closed \in BOOLEAN BY DEF Types
    <3> QED BY <3>1, <1>39 DEF SenderRelease, CloseWaits, Goes
  <2>2. Holding' = (Holding \ {<<t, n>>}) \cup {<<t, 0>>}
    <3>1. ASSUME NEW u \in Tasks, NEW i \in Nat
          PROVE  <<u, i>> \in Holding' <=> <<u, i>> \in (Holding \ {<<t, n>>}) \cup {<<t, 0>>}
      <4>1. (u \in Letting)' <=> u \in Letting \/ u = t BY <2>1, <1>2 DEF Letting
      <4>2. i <= holds'[u] <=> i <= holds[u] /\ ~(u = t /\ i = n) BY <2>1, <1>2
      <4> QED BY <4>1, <4>2, <2>1 DEF Holding
    <3>2. <<t, 0>> \in Tasks \X Nat OBVIOUS
    <3> QED BY <3>1, <3>2 DEF Holding
  <2>3. Lending' = Lending \ {<<t, n>>}
    <3>1. ASSUME NEW u \in Senders, NEW i \in Nat
          PROVE  <<u, i>> \in Lending' <=> <<u, i>> \in Lending \ {<<t, n>>}
      <4>1. (u \in Copying)' <=> u \in Copying BY <2>1, <1>2, <1>4 DEF Copying
      <4>2. i <= holds'[u] <=> i <= holds[u] /\ ~(u = t /\ i = n) BY <2>1, <1>2, <1>4
      <4> QED BY <4>1, <4>2, <2>1 DEF Lending
    <3> QED BY <3>1 DEF Lending
  <2>4. <<t, n>> \in Holding /\ <<t, 0>> \notin Holding /\ <<t, n>> \in Lending
    BY <2>1, <1>2 DEF Holding, Lending, Letting
  <2>5. IsFiniteSet(Holding') /\ rc' = Cardinality(Holding') BY <2>1, <2>2, <2>4, <1>3, SwapCounts
  <2>6. IsFiniteSet(Lending') /\ senders' = Cardinality(Lending')
    BY <2>1, <2>3, <2>4, <1>3, FS_RemoveElement
  <2>7. senders > 0 BY <2>1, HeldCounts
  <2> QED BY <2>1, <2>5, <2>6, <2>7, <1>2, <1>3 DEF CountInv
<1>41. CASE Cancel(t) BY <1>7, <1>41 DEF Cancel
<1> QED BY <1>1, <1>20, <1>21, <1>22, <1>23, <1>24, <1>25, <1>26, <1>27, <1>28, <1>29, <1>30, <1>31,
           <1>32, <1>33, <1>34, <1>35, <1>36, <1>37, <1>38, <1>39, <1>41 DEF Step, Starts

-----------------------------------------------------------------------------
(* Where the calls are. *)

\* A listed waiter whose wait can be claimed has not gone on.
LEMMA ListedClaim ==
  ASSUME Types, CallInv, ListInv, NEW u \in ToSet(receiving) \cup ToSet(sending), Waits(u)
  PROVE  u \in Tasks /\ pc[u] = "waiting" /\ fired[u] = "NONE"
<1>1. u \in Tasks BY ListedTasks DEF Tasks
<1>2. pc[u] \in {"waiting", "unlist"} BY DEF ListInv
<1>3. fired[u] = "NONE" BY DEF Waits
<1> QED BY <1>1, <1>2, <1>3 DEF CallInv

LEMMA CallStep == ASSUME Types, CallInv, ListInv, Next PROVE CallInv'
<1> USE DEF madeVars, channelVars, countVars, waiterVars, taskVars, historyVars
<1>1. PICK t \in Tasks : Step(t) \/ Starts(t) BY DEF Next
<1>2. /\ pc \in [Tasks -> Pcs] /\ holds \in [Tasks -> Nat] /\ fired \in [Tasks -> Hows]
      /\ closed \in BOOLEAN
  BY DEF Types, Hows
<1>3. Senders \cap Receivers = {} BY ChannelAssumption
<1>4. \A u \in ToSet(receiving) \cup ToSet(sending) :
        Waits(u) => u \in Tasks /\ pc[u] = "waiting" /\ fired[u] = "NONE"
  BY ListedClaim
<1>5. ClaimFirst(receiving) # 0 =>
        receiving[ClaimFirst(receiving)] \in ToSet(receiving) /\ Waits(receiving[ClaimFirst(receiving)])
  <2>1. receiving \in Seq(Receivers) /\ Distinct(receiving) BY DEF Types, ListInv
  <2> QED BY <2>1, ClaimsFirst
<1>6. ClaimFirst(sending) # 0 =>
        sending[ClaimFirst(sending)] \in ToSet(sending) /\ Waits(sending[ClaimFirst(sending)])
  <2>1. sending \in Seq(Senders) /\ Distinct(sending) BY DEF Types, ListInv
  <2> QED BY <2>1, ClaimsFirst
\* A step of `t` that claims waits of others, and holds no more and no less.
<1>7. ASSUME NEW woken, NEW how, Claims(t, woken, how),
             \A u \in woken : u \in Tasks /\ pc[u] = "waiting" /\ fired[u] = "NONE",
             NEW to, to \in {"idle", "tell"}, pc' = [pc EXCEPT ![t] = to],
             pc[t] \notin {"waiting", "unlist"}, holds' = holds, closed => closed'
      PROVE  CallInv'
  BY <1>2, <1>7 DEF CallInv, Claims
<1>8. ASSUME NEW woken, Ends(t, woken)
      PROVE  \E to \in {"idle", "tell"} : pc' = [pc EXCEPT ![t] = to]
  BY <1>8 DEF Ends
<1>20. CASE SendFails(t) BY <1>2, <1>20 DEF SendFails, Sends, Done, Goes, CallInv
<1>21. CASE SendHands(t)
  <2> DEFINE r == receiving[ClaimFirst(receiving)]
  <2>1. Claims(t, {r}, "MOVED") /\ Ends(t, {r}) /\ holds' = holds /\ closed' = closed
    BY <1>21 DEF SendHands
  <2>2. pc[t] \notin {"waiting", "unlist"} BY <1>21 DEF SendHands, Sending, Sends
  <2>3. \A u \in {r} : u \in Tasks /\ pc[u] = "waiting" /\ fired[u] = "NONE"
    BY <1>4, <1>5, <1>21 DEF SendHands
  <2> HIDE DEF r
  <2> QED BY <2>1, <2>2, <2>3, <1>7, <1>8
<1>22. CASE SendBuffers(t) BY <1>2, <1>22 DEF SendBuffers, Sending, Sends, Done, Goes, CallInv
<1>23. CASE SendWaits(t)
  <2>1. CASE pc[t] = "tryOffer" BY <2>1, <1>2, <1>23 DEF SendWaits, Done, Goes, CallInv
  <2>2. CASE pc[t] # "tryOffer" BY <2>2, <1>2, <1>23 DEF SendWaits, Goes, CallInv
  <2> QED BY <2>1, <2>2
<1>24. CASE ReceiveTakes(t)
  <2>1. pc[t] \notin {"waiting", "unlist"} /\ holds' = holds /\ closed' = closed
    BY <1>24 DEF ReceiveTakes
  <2>2. CASE ClaimFirst(sending) = 0
    <3>1. Claims(t, {}, "MOVED") /\ Ends(t, {}) BY <2>2, <1>24 DEF ReceiveTakes
    <3> QED BY <3>1, <2>1, <1>7, <1>8
  <2>3. CASE ClaimFirst(sending) # 0
    <3> DEFINE s == sending[ClaimFirst(sending)]
    <3>1. Claims(t, {s}, "MOVED") /\ Ends(t, {s}) BY <2>3, <1>24 DEF ReceiveTakes
    <3>2. \A u \in {s} : u \in Tasks /\ pc[u] = "waiting" /\ fired[u] = "NONE"
      BY <2>3, <1>4, <1>6
    <3> HIDE DEF s
    <3> QED BY <3>1, <3>2, <2>1, <1>7, <1>8
  <2> QED BY <2>2, <2>3
<1>25. CASE ReceiveMeets(t)
  <2> DEFINE s == sending[ClaimFirst(sending)]
  <2>1. pc[t] \notin {"waiting", "unlist"} /\ holds' = holds /\ closed' = closed
    BY <1>25 DEF ReceiveMeets
  <2>2. Claims(t, {s}, "MOVED") /\ Ends(t, {s}) BY <1>25 DEF ReceiveMeets
  <2>3. \A u \in {s} : u \in Tasks /\ pc[u] = "waiting" /\ fired[u] = "NONE"
    BY <1>4, <1>6, <1>25 DEF ReceiveMeets
  <2> HIDE DEF s
  <2> QED BY <2>1, <2>2, <2>3, <1>7, <1>8
<1>26. CASE ReceiveWaits(t)
  <2>1. pc' = [pc EXCEPT ![t] = "idle"] \/ pc' = [pc EXCEPT ![t] = "waiting"]
    BY <1>26 DEF ReceiveWaits, Goes
  <2> QED BY <2>1, <1>2, <1>26 DEF ReceiveWaits, CallInv
<1>27. CASE Tell(t)
  <2>1. PICK u \in tell[t] :
          pc' = [pc EXCEPT ![t] = IF tell[t] # {u} THEN @
                                  ELSE IF @ = "tellUnhold" THEN "unhold" ELSE "idle"]
    BY <1>27 DEF Tell
  <2>2. pc' = pc \/ (pc[t] = "tellUnhold" /\ pc' = [pc EXCEPT ![t] = "unhold"])
                 \/ (pc[t] = "tell" /\ pc' = [pc EXCEPT ![t] = "idle"])
    BY <2>1, <1>2, <1>27 DEF Tell
  <2> QED BY <2>2, <1>2, <1>27 DEF Tell, CallInv
<1>28. CASE CancelClaims(t) BY <1>2, <1>28 DEF CancelClaims, CallInv
<1>29. CASE Returns(t)
  <2>1. CASE fired[t] = "CANCELLED" BY <2>1, <1>2, <1>29 DEF Returns, Goes, CallInv
  <2>2. CASE fired[t] # "CANCELLED" BY <2>2, <1>2, <1>29 DEF Returns, Done, Goes, Forgets, CallInv
  <2> QED BY <2>1, <2>2
<1>30. CASE Unlist(t) BY <1>2, <1>30 DEF Unlist, Done, Goes, Forgets, CallInv
<1>31. CASE CopyHolds(t) BY <1>2, <1>31 DEF CopyHolds, Goes, CallInv
<1>32. CASE Unhold(t)
  <2>1. pc' = [pc EXCEPT ![t] = "idle"] \/ pc' = [pc EXCEPT ![t] = "hush"]
    BY <1>32 DEF Unhold, Unholds
  <2> QED BY <2>1, <1>2, <1>32 DEF Unhold, Unholds, CallInv
<1>33. CASE ReceiverRelease(t)
  <2>1. pc' = [pc EXCEPT ![t] = "idle"] \/ pc' = [pc EXCEPT ![t] = "hush"]
    BY <1>33 DEF ReceiverRelease, Unholds
  <2>2. pc[t] = "idle" /\ holds' = [holds EXCEPT ![t] = @ - 1] /\ fired' = fired /\ closed' = closed
    BY <1>33 DEF ReceiverRelease, Unholds
  <2> QED BY <2>1, <2>2, <1>2 DEF CallInv
<1>34. CASE Hush(t)
  <2>1. pc[t] \notin {"waiting", "unlist"} /\ holds' = holds /\ closed' = closed
    BY <1>34 DEF Hush
  <2>2. \E woken \in {{}, Discards} : Claims(t, woken, "DISCARDED") /\ Ends(t, woken)
    BY <1>34 DEF Hush
  <2>3. \A u \in Discards : u \in Tasks /\ pc[u] = "waiting" /\ fired[u] = "NONE"
    BY <1>4 DEF Discards
  <2> QED BY <2>1, <2>2, <2>3, <1>7, <1>8
<1>35. CASE t \in Senders /\ SendStarts(t)
  <2>1. CASE cancelled[t] BY <2>1, <1>2, <1>35 DEF SendStarts, CallInv
  <2>2. CASE ~cancelled[t]
    <3>1. pc' = [pc EXCEPT ![t] = "send"] \/ pc' = [pc EXCEPT ![t] = "tryOffer"]
      BY <2>2, <1>35 DEF SendStarts, Goes
    <3> QED BY <3>1, <1>2, <1>35 DEF SendStarts, CallInv
  <2> QED BY <2>1, <2>2
<1>36. CASE t \in Receivers /\ ReceiveStarts(t) BY <1>2, <1>36 DEF ReceiveStarts, Goes, CallInv
<1>37. CASE Close(t)
  <2>1. Claims(t, Closes, "CLOSED") /\ Ends(t, Closes) /\ closed' /\ holds' = holds /\ pc[t] = "idle"
    BY <1>37 DEF Close, CloseWaits
  <2>2. \A u \in Closes : u \in Tasks /\ pc[u] = "waiting" /\ fired[u] = "NONE"
    BY <1>4 DEF Closes
  <2> QED BY <2>1, <2>2, <1>7, <1>8
<1>38. CASE CopyCounts(t) BY <1>2, <1>38 DEF CopyCounts, Goes, CallInv
<1>39. CASE SenderRelease(t)
  <2>1. /\ t \in Senders /\ pc[t] = "idle" /\ holds' = [holds EXCEPT ![t] = @ - 1]
        /\ pc' = [pc EXCEPT ![t] = "unhold"] \/ (pc' = [pc EXCEPT ![t] = "tellUnhold"] /\ closed')
        /\ closed => closed'
    BY <1>39 DEF SenderRelease, Goes, CloseWaits
  <2>2. \A u \in Closes : u \in Tasks /\ pc[u] = "waiting" /\ fired[u] = "NONE"
    BY <1>4 DEF Closes
  <2>3. \A u \in Tasks : fired'[u] = fired[u] \/ (u \in Closes /\ fired'[u] = "CLOSED")
    BY <1>2, <1>39 DEF SenderRelease, CloseWaits, Claims
  <2> QED BY <2>1, <2>2, <2>3, <1>2 DEF CallInv
<1>41. CASE Cancel(t) BY <1>2, <1>41 DEF Cancel, CallInv
<1> QED BY <1>1, <1>20, <1>21, <1>22, <1>23, <1>24, <1>25, <1>26, <1>27, <1>28, <1>29, <1>30, <1>31,
           <1>32, <1>33, <1>34, <1>35, <1>36, <1>37, <1>38, <1>39, <1>41 DEF Step, Starts

-----------------------------------------------------------------------------
(* The lists. *)

LEMMA ListStep == ASSUME Types, CallInv, ListInv, Next PROVE ListInv'
<1> USE DEF madeVars, channelVars, countVars, waiterVars, taskVars, historyVars
<1>1. PICK t \in Tasks : Step(t) \/ Starts(t) BY DEF Next
<1>2. /\ pc \in [Tasks -> Pcs] /\ fired \in [Tasks -> Hows] /\ closed \in BOOLEAN
      /\ receiving \in Seq(Receivers) /\ sending \in Seq(Senders)
  BY DEF Types, Hows
<1>3. /\ ToSet(receiving) \subseteq Receivers /\ ToSet(sending) \subseteq Senders
      /\ Senders \cap Receivers = {} /\ Tasks = Senders \cup Receivers
  BY ListedTasks, ChannelAssumption DEF Tasks
<1>4. /\ Distinct(receiving) /\ Distinct(sending)
      /\ \A u \in ToSet(receiving) \cup ToSet(sending) :
           pc[u] \in {"waiting", "unlist"} /\ fired[u] \in {"NONE", "CANCELLED"}
      /\ \A u \in Tasks : pc[u] = "waiting" /\ fired[u] = "NONE" => u \in ToSet(receiving) \cup ToSet(sending)
      /\ closed => receiving = <<>> /\ sending = <<>>
  BY DEF ListInv, Waits
<1>5. ToSet(<<>>) = {} /\ Distinct(<<>>) BY DEF ToSet, Distinct
<1>6. ClaimFirst(receiving) = 0 => \A u \in ToSet(receiving) : fired[u] # "NONE"
  BY <1>2, <1>4, ClaimsFirst DEF Waits
<1>7. ClaimFirst(sending) = 0 =>
        AfterFirst(sending) = <<>> /\ \A u \in ToSet(sending) : fired[u] # "NONE"
  BY <1>2, <1>4, ClaimsFirst DEF Waits
<1>8. ClaimFirst(receiving) # 0 => LET r == receiving[ClaimFirst(receiving)] IN
        /\ r \in ToSet(receiving) /\ Distinct(AfterFirst(receiving))
        /\ ToSet(AfterFirst(receiving)) \subseteq ToSet(receiving) \ {r}
        /\ \A u \in ToSet(receiving) : fired[u] = "NONE" => u = r \/ u \in ToSet(AfterFirst(receiving))
  BY <1>2, <1>4, ClaimsFirst DEF Waits
<1>9. ClaimFirst(sending) # 0 => LET s == sending[ClaimFirst(sending)] IN
        /\ s \in ToSet(sending) /\ Distinct(AfterFirst(sending))
        /\ ToSet(AfterFirst(sending)) \subseteq ToSet(sending) \ {s}
        /\ \A u \in ToSet(sending) : fired[u] = "NONE" => u = s \/ u \in ToSet(AfterFirst(sending))
  BY <1>2, <1>4, ClaimsFirst DEF Waits
\* A step of a task that does not wait after it: the lists lose `t` and tasks
\* that were, or are now, claimed.
<1>10. ASSUME Distinct(receiving'), Distinct(sending'),
              ToSet(receiving') \subseteq ToSet(receiving), ToSet(sending') \subseteq ToSet(sending),
              closed' => receiving' = <<>> /\ sending' = <<>>,
              \A u \in Tasks : u # t => pc'[u] = pc[u],
              \A u \in ToSet(receiving') \cup ToSet(sending') : u # t /\ fired'[u] = fired[u],
              \A u \in Tasks : u # t /\ fired'[u] = "NONE" => fired[u] = "NONE",
              \A u \in ToSet(receiving) :
                u # t /\ fired'[u] = "NONE" => fired[u] = "NONE" /\ u \in ToSet(receiving'),
              \A u \in ToSet(sending) :
                u # t /\ fired'[u] = "NONE" => fired[u] = "NONE" /\ u \in ToSet(sending'),
              pc'[t] # "waiting"
       PROVE  ListInv'
  <2>1. \A u \in ToSet(receiving') \cup ToSet(sending') :
          pc'[u] \in {"waiting", "unlist"} /\ fired'[u] \in {"NONE", "CANCELLED"}
    BY <1>3, <1>4, <1>10
  <2>2. \A u \in Tasks : pc'[u] = "waiting" /\ fired'[u] = "NONE"
                           => u \in ToSet(receiving') \cup ToSet(sending')
    BY <1>4, <1>10
  <2> QED BY <2>1, <2>2, <1>10 DEF ListInv, Waits
\* One that leaves the lists alone, of a task that is in none.
<1>11. ASSUME UNCHANGED <<receiving, sending, closed, fired>>, pc[t] \notin {"waiting", "unlist"},
              \A u \in Tasks : u # t => pc'[u] = pc[u], pc'[t] # "waiting"
       PROVE  ListInv'
  <2>1. t \notin ToSet(receiving) \cup ToSet(sending) BY <1>4, <1>11
  <2> QED BY <2>1, <1>4, <1>10, <1>11
<1>12. ASSUME Done(t) PROVE /\ \A u \in Tasks : u # t => pc'[u] = pc[u]
                           /\ pc'[t] # "waiting"
  BY <1>2, <1>12 DEF Done, Goes
<1>13. ASSUME NEW woken, Ends(t, woken)
       PROVE  /\ \A u \in Tasks : u # t => pc'[u] = pc[u]
              /\ pc'[t] # "waiting"
  BY <1>2, <1>13 DEF Ends
<1>14. ASSUME NEW woken, NEW how, Claims(t, woken, how)
       PROVE  \A u \in Tasks : fired'[u] = IF u \in woken THEN how ELSE fired[u]
  BY <1>14 DEF Claims
<1>15. ASSUME pc[t] \notin {"waiting", "unlist"} PROVE t \notin ToSet(receiving) \cup ToSet(sending)
  BY <1>4, <1>15
<1>16. ASSUME CloseWaits(t), pc[t] \notin {"waiting", "unlist"},
              \A u \in Tasks : u # t => pc'[u] = pc[u], pc'[t] # "waiting"
       PROVE  ListInv'
  <2>1. receiving' = <<>> /\ sending' = <<>> BY <1>16 DEF CloseWaits
  <2>2. \A u \in Tasks : fired'[u] = IF u \in Closes THEN "CLOSED" ELSE fired[u]
    BY <1>14, <1>16 DEF CloseWaits
  <2>3. \A u \in ToSet(receiving) \cup ToSet(sending) : fired[u] = "NONE" => u \in Closes
    BY DEF Closes, Waits
  <2>4. \A u \in ToSet(receiving) \cup ToSet(sending) : fired'[u] # "NONE"
    BY <2>2, <2>3, <1>3
  <2>5. \A u \in Tasks : fired'[u] = "NONE" => fired[u] = "NONE" BY <2>2
  <2> QED BY <2>1, <2>4, <2>5, <1>5, <1>10, <1>16
<1>20. CASE SendFails(t) BY <1>11, <1>12, <1>20 DEF SendFails, Sends
<1>21. CASE SendHands(t)
  <2> DEFINE r == receiving[ClaimFirst(receiving)]
  <2>1. /\ Claims(t, {r}, "MOVED") /\ Ends(t, {r}) /\ receiving' = AfterFirst(receiving)
        /\ UNCHANGED <<sending, closed>> /\ ~closed /\ ClaimFirst(receiving) # 0
        /\ pc[t] \notin {"waiting", "unlist"}
    BY <1>21 DEF SendHands, Sending, Sends
  <2>2. \A u \in Tasks : fired'[u] = IF u = r THEN "MOVED" ELSE fired[u] BY <2>1, <1>14
  <2>3. t \notin ToSet(receiving) \cup ToSet(sending) BY <2>1, <1>15
  <2>4. /\ r \in ToSet(receiving) /\ Distinct(AfterFirst(receiving))
        /\ ToSet(AfterFirst(receiving)) \subseteq ToSet(receiving) \ {r}
        /\ \A u \in ToSet(receiving) : fired[u] = "NONE" => u = r \/ u \in ToSet(AfterFirst(receiving))
    BY <2>1, <1>8
  <2>5. r \notin ToSet(sending) BY <2>4, <1>3
  <2>6. /\ \A u \in Tasks : u # t => pc'[u] = pc[u]
        /\ pc'[t] # "waiting"
    BY <2>1, <1>13
  <2> HIDE DEF r
  <2> QED BY <2>1, <2>2, <2>3, <2>4, <2>5, <2>6, <1>3, <1>4, <1>10
<1>22. CASE SendBuffers(t)
  <2>1. /\ ClaimFirst(receiving) = 0 /\ receiving' = <<>> /\ UNCHANGED <<sending, closed, fired>>
        /\ ~closed /\ Done(t) /\ pc[t] \notin {"waiting", "unlist"}
    BY <1>22 DEF SendBuffers, Sending, Sends
  <2> QED BY <2>1, <1>4, <1>5, <1>6, <1>10, <1>12, <1>15
<1>23. CASE SendWaits(t)
  <2>1. /\ ClaimFirst(receiving) = 0 /\ receiving' = <<>> /\ UNCHANGED <<closed, fired>>
        /\ ~closed /\ pc[t] \notin {"waiting", "unlist"}
    BY <1>23 DEF SendWaits, Sending, Sends
  <2>2. CASE pc[t] = "tryOffer"
    <3>1. Done(t) /\ sending' = sending BY <2>2, <1>23 DEF SendWaits
    <3> QED BY <2>1, <3>1, <1>4, <1>5, <1>6, <1>10, <1>12, <1>15
  <2>3. CASE pc[t] # "tryOffer"
    <3>1. /\ pc[t] = "send" /\ pc' = [pc EXCEPT ![t] = "waiting"] /\ sending' = Append(sending, t)
      BY <2>3, <1>23 DEF SendWaits, Goes
    <3>2. t \in Senders BY <3>1 DEF CallInv
    <3>3. t \notin ToSet(sending) BY <2>1, <1>15
    <3>4. Distinct(sending') /\ ToSet(sending') = ToSet(sending) \cup {t}
      BY <3>1, <3>2, <3>3, <1>2, <1>4, AppendHolds
    <3>5. fired[t] = "NONE"
      <4>1. fired[t] # "NONE" => pc[t] \in {"waiting", "unlist"} BY DEF CallInv
      <4> QED BY <4>1, <3>1
    <3>6. Distinct(receiving') /\ ToSet(receiving') = {} BY <2>1, <1>5
    <3>7. \A u \in ToSet(receiving') \cup ToSet(sending') :
            pc'[u] \in {"waiting", "unlist"} /\ fired'[u] \in {"NONE", "CANCELLED"}
      BY <2>1, <3>1, <3>4, <3>5, <3>6, <1>2, <1>3, <1>4
    <3>8. \A u \in Tasks : pc'[u] = "waiting" /\ fired'[u] = "NONE"
                             => u \in ToSet(receiving') \cup ToSet(sending')
      BY <2>1, <3>1, <3>4, <1>2, <1>4, <1>6
    <3> QED BY <2>1, <3>4, <3>6, <3>7, <3>8 DEF ListInv, Waits
  <2> QED BY <2>2, <2>3
\* Who receives claims the first sender, if any.
<1>24. ASSUME NEW woken, Claims(t, woken, "MOVED"), Ends(t, woken),
              IF ClaimFirst(sending) = 0 THEN woken = {} ELSE woken = {sending[ClaimFirst(sending)]},
              sending' = AfterFirst(sending), UNCHANGED <<receiving, closed>>, pc[t] = "receive"
       PROVE  ListInv'
  <2>1. \A u \in Tasks : fired'[u] = IF u \in woken THEN "MOVED" ELSE fired[u] BY <1>14, <1>24
  <2>2. t \notin ToSet(receiving) \cup ToSet(sending) BY <1>15, <1>24
  <2>3. /\ \A u \in Tasks : u # t => pc'[u] = pc[u]
        /\ pc'[t] # "waiting"
    BY <1>13, <1>24
  <2>4. CASE ClaimFirst(sending) = 0
    BY <2>1, <2>2, <2>3, <2>4, <1>3, <1>4, <1>5, <1>7, <1>10, <1>24
  <2>5. CASE ClaimFirst(sending) # 0
    <3> DEFINE s == sending[ClaimFirst(sending)]
    <3>1. /\ s \in ToSet(sending) /\ Distinct(AfterFirst(sending))
          /\ ToSet(AfterFirst(sending)) \subseteq ToSet(sending) \ {s}
          /\ \A u \in ToSet(sending) : fired[u] = "NONE" => u = s \/ u \in ToSet(AfterFirst(sending))
      BY <2>5, <1>9
    <3>2. woken = {s} BY <2>5, <1>24
    <3>3. s \notin ToSet(receiving) BY <3>1, <1>3
    <3>4. ~closed
      <4>1. sending # <<>> BY <3>1, <1>5
      <4> QED BY <4>1, <1>4
    <3> HIDE DEF s
    <3> QED BY <2>1, <2>2, <2>3, <3>1, <3>2, <3>3, <3>4, <1>3, <1>4, <1>10, <1>24
  <2> QED BY <2>4, <2>5
<1>25. CASE ReceiveTakes(t) BY <1>24, <1>25 DEF ReceiveTakes
<1>26. CASE ReceiveMeets(t) BY <1>24, <1>26 DEF ReceiveMeets
<1>27. CASE ReceiveWaits(t)
  <2>1. /\ pc[t] = "receive" /\ ClaimFirst(sending) = 0 /\ sending' = <<>>
        /\ UNCHANGED <<closed, fired>>
    BY <1>27 DEF ReceiveWaits
  <2>2. CASE closed
    <3>1. pc' = [pc EXCEPT ![t] = "idle"] /\ receiving' = receiving
      BY <2>2, <1>27 DEF ReceiveWaits, Goes
    <3>2. pc'[t] # "waiting" /\ \A u \in Tasks : u # t => pc'[u] = pc[u] BY <3>1, <1>2
    <3>3. sending' = sending BY <2>1, <2>2, <1>4
    <3> QED BY <2>1, <3>1, <3>2, <3>3, <1>11
  <2>3. CASE ~closed
    <3>1. pc' = [pc EXCEPT ![t] = "waiting"] /\ receiving' = Append(receiving, t)
      BY <2>3, <1>27 DEF ReceiveWaits, Goes
    <3>2. t \in Receivers BY <2>1 DEF CallInv
    <3>3. t \notin ToSet(receiving) BY <2>1, <1>15
    <3>4. Distinct(receiving') /\ ToSet(receiving') = ToSet(receiving) \cup {t}
      BY <3>1, <3>2, <3>3, <1>2, <1>4, AppendHolds
    <3>5. fired[t] = "NONE"
      <4>1. fired[t] # "NONE" => pc[t] \in {"waiting", "unlist"} BY DEF CallInv
      <4> QED BY <4>1, <2>1
    <3>6. Distinct(sending') /\ ToSet(sending') = {} BY <2>1, <1>5
    <3>7. \A u \in ToSet(receiving') \cup ToSet(sending') :
            pc'[u] \in {"waiting", "unlist"} /\ fired'[u] \in {"NONE", "CANCELLED"}
      BY <2>1, <3>1, <3>4, <3>5, <3>6, <1>2, <1>3, <1>4
    <3>8. \A u \in Tasks : pc'[u] = "waiting" /\ fired'[u] = "NONE"
                             => u \in ToSet(receiving') \cup ToSet(sending')
      BY <2>1, <3>1, <3>4, <1>2, <1>4, <1>7
    <3> QED BY <2>1, <2>3, <3>4, <3>6, <3>7, <3>8 DEF ListInv, Waits
  <2> QED BY <2>2, <2>3
<1>28. CASE Tell(t)
  <2>1. PICK u \in tell[t] :
          pc' = [pc EXCEPT ![t] = IF tell[t] # {u} THEN @
                                  ELSE IF @ = "tellUnhold" THEN "unhold" ELSE "idle"]
    BY <1>28 DEF Tell
  <2>2. pc[t] \in {"tell", "tellUnhold"} /\ UNCHANGED <<receiving, sending, closed, fired>>
    BY <1>28 DEF Tell
  <2>3. pc'[t] # "waiting" /\ \A w \in Tasks : w # t => pc'[w] = pc[w] BY <2>1, <2>2, <1>2
  <2> QED BY <2>2, <2>3, <1>11
<1>29. CASE CancelClaims(t)
  <2>1. /\ fired' = [fired EXCEPT ![t] = "CANCELLED"] /\ pc' = pc
        /\ UNCHANGED <<receiving, sending, closed>>
    BY <1>29 DEF CancelClaims
  <2> QED BY <2>1, <1>2, <1>3, <1>4 DEF ListInv, Waits
<1>30. CASE Returns(t)
  <2>1. pc[t] = "waiting" /\ fired[t] # "NONE" /\ UNCHANGED <<receiving, sending, closed>>
    BY <1>30 DEF Returns
  <2>2. CASE fired[t] = "CANCELLED"
    <3>1. pc' = [pc EXCEPT ![t] = "unlist"] /\ fired' = fired BY <2>2, <1>30 DEF Returns, Goes
    <3> QED BY <2>1, <3>1, <1>2, <1>3, <1>4 DEF ListInv, Waits
  <2>3. CASE fired[t] # "CANCELLED"
    <3>1. Done(t) /\ fired' = [fired EXCEPT ![t] = "NONE"] BY <2>3, <1>30 DEF Returns, Forgets
    <3>2. t \notin ToSet(receiving) \cup ToSet(sending) BY <2>1, <2>3, <1>4
    <3>3. \A u \in Tasks : u # t => fired'[u] = fired[u] BY <3>1, <1>2
    <3> QED BY <2>1, <3>1, <3>2, <3>3, <1>3, <1>4, <1>10, <1>12
  <2> QED BY <2>2, <2>3
<1>31. CASE Unlist(t)
  <2>1. /\ sending' = RemoveFirst(sending, t) /\ receiving' = RemoveFirst(receiving, t)
        /\ Done(t) /\ fired' = [fired EXCEPT ![t] = "NONE"] /\ closed' = closed
    BY <1>31 DEF Unlist, Forgets
  <2>2. /\ ToSet(sending') \subseteq ToSet(sending) /\ ToSet(sending) \subseteq ToSet(sending') \cup {t}
        /\ Distinct(sending') /\ t \notin ToSet(sending') /\ sending' \in Seq(Senders)
    BY <2>1, <1>2, <1>4, RemoveHolds
  <2>3. /\ ToSet(receiving') \subseteq ToSet(receiving) /\ ToSet(receiving) \subseteq ToSet(receiving') \cup {t}
        /\ Distinct(receiving') /\ t \notin ToSet(receiving') /\ receiving' \in Seq(Receivers)
    BY <2>1, <1>2, <1>4, RemoveHolds
  <2>4. \A u \in Tasks : u # t => fired'[u] = fired[u] BY <2>1, <1>2
  <2>5. closed' => receiving' = <<>> /\ sending' = <<>>
    <3> SUFFICES ASSUME closed PROVE RemoveFirst(<<>>, t) = <<>>
      BY <2>1, <1>4
    <3>1. {i \in 1 .. Len(<<>>) : <<>>[i] = t} = {} OBVIOUS
    <3> QED BY <3>1 DEF RemoveFirst
  <2> QED BY <2>1, <2>2, <2>3, <2>4, <2>5, <1>3, <1>10, <1>12
<1>32. CASE CopyHolds(t) BY <1>2, <1>11, <1>32 DEF CopyHolds, Goes
<1>33. CASE Unhold(t)
  <2>1. pc' = [pc EXCEPT ![t] = "idle"] \/ pc' = [pc EXCEPT ![t] = "hush"]
    BY <1>33 DEF Unhold, Unholds
  <2> QED BY <2>1, <1>2, <1>11, <1>33 DEF Unhold, Unholds
<1>34. CASE ReceiverRelease(t)
  <2>1. pc' = [pc EXCEPT ![t] = "idle"] \/ pc' = [pc EXCEPT ![t] = "hush"]
    BY <1>34 DEF ReceiverRelease, Unholds
  <2> QED BY <2>1, <1>2, <1>11, <1>34 DEF ReceiverRelease, Unholds
<1>35. CASE Hush(t)
  <2>1. pc[t] = "hush" /\ UNCHANGED <<receiving, closed>> BY <1>35 DEF Hush
  <2>2. t \notin ToSet(receiving) \cup ToSet(sending) BY <2>1, <1>15
  <2>3. CASE ~freed /\ Discarding
    <3>1. Claims(t, Discards, "DISCARDED") /\ Ends(t, Discards) /\ sending' = <<>>
      BY <2>3, <1>35 DEF Hush
    <3>2. \A u \in Tasks : fired'[u] = IF u \in Discards THEN "DISCARDED" ELSE fired[u]
      BY <3>1, <1>14
    <3>3. Discards \subseteq ToSet(sending) /\ \A u \in ToSet(sending) : fired[u] = "NONE" => u \in Discards
      BY DEF Discards, Waits
    <3>4. \A u \in ToSet(sending) : fired'[u] # "NONE" BY <3>2, <3>3, <1>3
    <3>5. \A u \in ToSet(receiving) : fired'[u] = fired[u] BY <3>2, <3>3, <1>3
    <3>6. \A u \in Tasks : fired'[u] = "NONE" => fired[u] = "NONE" BY <3>2
    <3>7. /\ \A u \in Tasks : u # t => pc'[u] = pc[u]
          /\ pc'[t] # "waiting"
      BY <3>1, <1>13
    <3> QED BY <2>1, <2>2, <3>1, <3>4, <3>5, <3>6, <3>7, <1>4, <1>5, <1>10
  <2>4. CASE ~(~freed /\ Discarding)
    <3>1. Claims(t, {}, "DISCARDED") /\ Ends(t, {}) /\ sending' = sending
      BY <2>4, <1>35 DEF Hush
    <3>2. \A u \in Tasks : fired'[u] = fired[u] BY <3>1, <1>14
    <3>3. /\ \A u \in Tasks : u # t => pc'[u] = pc[u]
          /\ pc'[t] # "waiting"
      BY <3>1, <1>13
    <3> QED BY <2>1, <2>2, <3>1, <3>2, <3>3, <1>3, <1>4, <1>10
  <2> QED BY <2>3, <2>4
<1>36. CASE t \in Senders /\ SendStarts(t)
  <2>1. pc' = pc \/ pc' = [pc EXCEPT ![t] = "send"] \/ pc' = [pc EXCEPT ![t] = "tryOffer"]
    BY <1>36 DEF SendStarts, Goes
  <2> QED BY <2>1, <1>2, <1>11, <1>36 DEF SendStarts
<1>37. CASE t \in Receivers /\ ReceiveStarts(t) BY <1>2, <1>11, <1>37 DEF ReceiveStarts, Goes
<1>38. CASE Close(t) BY <1>13, <1>16, <1>38 DEF Close
<1>39. CASE CopyCounts(t) BY <1>2, <1>11, <1>39 DEF CopyCounts, Goes
<1>40. CASE SenderRelease(t)
  <2>1. pc[t] = "idle" /\ (pc' = [pc EXCEPT ![t] = "unhold"] \/ pc' = [pc EXCEPT ![t] = "tellUnhold"])
    BY <1>40 DEF SenderRelease, Goes
  <2>2. pc'[t] # "waiting" /\ \A u \in Tasks : u # t => pc'[u] = pc[u] BY <2>1, <1>2
  <2>3. CloseWaits(t) \/ UNCHANGED <<receiving, sending, closed, fired>>
    BY <1>40 DEF SenderRelease
  <2> QED BY <2>1, <2>2, <2>3, <1>11, <1>16
<1>41. CASE Cancel(t)
  <2>1. UNCHANGED <<receiving, sending, closed, fired, pc>> BY <1>41 DEF Cancel
  <2> QED BY <2>1, <1>4 DEF ListInv, Waits
<1> QED BY <1>1, <1>20, <1>21, <1>22, <1>23, <1>25, <1>26, <1>27, <1>28, <1>29, <1>30, <1>31, <1>32,
           <1>33, <1>34, <1>35, <1>36, <1>37, <1>38, <1>39, <1>40, <1>41 DEF Step, Starts

-----------------------------------------------------------------------------
(* Who waits, and why. *)

\* Nobody else begins to wait than a task that finds nothing to receive, or no
\* room for what it sends.
LEMMA WhoWaits ==
  ASSUME Types, CallInv, ListInv, NEW t \in Tasks, Step(t) \/ Starts(t)
  PROVE  /\ \A u \in ToSet(receiving') :
              fired'[u] = "NONE" => (u \in ToSet(receiving) /\ Waits(u)) \/ (u = t /\ ReceiveWaits(t))
         /\ \A u \in ToSet(sending') :
              fired'[u] = "NONE" => (u \in ToSet(sending) /\ Waits(u)) \/ (u = t /\ SendWaits(t) /\ pc[t] = "send")
<1> USE DEF madeVars, channelVars, countVars, waiterVars, taskVars, historyVars
<1>2. /\ fired \in [Tasks -> Hows] /\ receiving \in Seq(Receivers) /\ sending \in Seq(Senders)
      /\ Distinct(receiving) /\ Distinct(sending)
  BY DEF Types, Hows, ListInv
<1>3. ToSet(receiving) \cup ToSet(sending) \subseteq Tasks BY ListedTasks DEF Tasks
<1>4. ToSet(AfterFirst(receiving)) \subseteq ToSet(receiving) /\ ToSet(AfterFirst(sending)) \subseteq ToSet(sending)
  <2>1. ToSet(<<>>) = {} BY DEF ToSet
  <2> QED BY <2>1, <1>2, ClaimsFirst
<1>5. ToSet(<<>>) = {} BY DEF ToSet
<1>6. ASSUME ToSet(receiving') \subseteq ToSet(receiving), ToSet(sending') \subseteq ToSet(sending),
             \A u \in ToSet(receiving') \cup ToSet(sending') : fired'[u] = "NONE" => fired[u] = "NONE"
      PROVE  /\ \A u \in ToSet(receiving') : fired'[u] = "NONE" => u \in ToSet(receiving) /\ Waits(u)
             /\ \A u \in ToSet(sending') : fired'[u] = "NONE" => u \in ToSet(sending) /\ Waits(u)
  BY <1>6 DEF Waits
<1>7. ASSUME NEW woken, NEW how, how # "NONE", Claims(t, woken, how)
      PROVE  \A u \in Tasks : fired'[u] = "NONE" => fired[u] = "NONE"
  BY <1>7 DEF Claims
<1>8. ASSUME \A u \in Tasks : fired'[u] = "NONE" => fired[u] = "NONE",
             receiving' \in {receiving, AfterFirst(receiving), <<>>},
             sending' \in {sending, AfterFirst(sending), <<>>}
      PROVE  /\ \A u \in ToSet(receiving') : fired'[u] = "NONE" => u \in ToSet(receiving) /\ Waits(u)
             /\ \A u \in ToSet(sending') : fired'[u] = "NONE" => u \in ToSet(sending) /\ Waits(u)
  BY <1>3, <1>4, <1>5, <1>6, <1>8
<1>9. CASE SendFails(t) \/ SendBuffers(t) BY <1>8, <1>9 DEF SendFails, SendBuffers
<1>10. CASE SendHands(t)
  <2>1. \E woken : Claims(t, woken, "MOVED") BY <1>10 DEF SendHands
  <2> QED BY <2>1, <1>7, <1>8, <1>10 DEF SendHands
<1>11. CASE SendWaits(t)
  <2>1. receiving' = <<>> /\ fired' = fired BY <1>11 DEF SendWaits
  <2>2. CASE pc[t] = "tryOffer" BY <2>1, <2>2, <1>8, <1>11 DEF SendWaits
  <2>3. CASE pc[t] # "tryOffer"
    <3>1. pc[t] = "send" /\ sending' = Append(sending, t) BY <2>3, <1>11 DEF SendWaits, Goes
    <3>2. t \in Senders BY <3>1 DEF CallInv
    <3>3. ToSet(sending') = ToSet(sending) \cup {t} BY <3>1, <3>2, <1>2, AppendHolds
    <3> QED BY <2>1, <3>1, <3>3, <1>5, <1>11 DEF Waits
  <2> QED BY <2>2, <2>3
<1>12. CASE ReceiveTakes(t) \/ ReceiveMeets(t)
  <2>1. \E woken : Claims(t, woken, "MOVED") BY <1>12 DEF ReceiveTakes, ReceiveMeets
  <2>2. sending' = AfterFirst(sending) /\ receiving' = receiving BY <1>12 DEF ReceiveTakes, ReceiveMeets
  <2> QED BY <2>1, <2>2, <1>7, <1>8
<1>13. CASE ReceiveWaits(t)
  <2>1. sending' = <<>> /\ fired' = fired BY <1>13 DEF ReceiveWaits
  <2>2. CASE closed BY <2>1, <2>2, <1>8, <1>13 DEF ReceiveWaits
  <2>3. CASE ~closed
    <3>1. pc[t] = "receive" /\ receiving' = Append(receiving, t) BY <2>3, <1>13 DEF ReceiveWaits
    <3>2. t \in Receivers BY <3>1 DEF CallInv
    <3>3. ToSet(receiving') = ToSet(receiving) \cup {t} BY <3>1, <3>2, <1>2, AppendHolds
    <3> QED BY <2>1, <3>3, <1>5, <1>13 DEF Waits
  <2> QED BY <2>2, <2>3
<1>14. CASE Tell(t) \/ CopyHolds(t) \/ Unhold(t) BY <1>8, <1>14 DEF Tell, CopyHolds, Unhold, Unholds
<1>15. CASE CancelClaims(t)
  <2>1. \A u \in Tasks : fired'[u] = "NONE" => fired[u] = "NONE" BY <1>2, <1>15 DEF CancelClaims
  <2> QED BY <2>1, <1>8, <1>15 DEF CancelClaims
<1>16. CASE Returns(t)
  <2>1. pc[t] = "waiting" /\ fired[t] # "NONE" /\ UNCHANGED <<receiving, sending>> BY <1>16 DEF Returns
  <2>2. CASE fired[t] = "CANCELLED" BY <2>1, <2>2, <1>8, <1>16 DEF Returns
  <2>3. CASE fired[t] # "CANCELLED"
    <3>1. fired' = [fired EXCEPT ![t] = "NONE"] BY <2>3, <1>16 DEF Returns, Forgets
    <3>2. t \notin ToSet(receiving) \cup ToSet(sending) BY <2>1, <2>3 DEF ListInv
    <3>3. \A u \in ToSet(receiving) \cup ToSet(sending) : fired'[u] = fired[u] BY <3>1, <3>2, <1>2, <1>3
    <3> QED BY <2>1, <3>3, <1>6
  <2> QED BY <2>2, <2>3
<1>17. CASE Unlist(t)
  <2>1. /\ sending' = RemoveFirst(sending, t) /\ receiving' = RemoveFirst(receiving, t)
        /\ fired' = [fired EXCEPT ![t] = "NONE"]
    BY <1>17 DEF Unlist, Forgets
  <2>2. ToSet(sending') \subseteq ToSet(sending) /\ t \notin ToSet(sending') BY <2>1, <1>2, RemoveHolds
  <2>3. ToSet(receiving') \subseteq ToSet(receiving) /\ t \notin ToSet(receiving')
    BY <2>1, <1>2, RemoveHolds
  <2>4. \A u \in ToSet(receiving') \cup ToSet(sending') : fired'[u] = fired[u]
    BY <2>1, <2>2, <2>3, <1>2, <1>3
  <2> QED BY <2>2, <2>3, <2>4, <1>6
<1>18. CASE Hush(t)
  <2>1. \E woken : Claims(t, woken, "DISCARDED") BY <1>18 DEF Hush
  <2>2. sending' \in {sending, <<>>} /\ receiving' = receiving BY <1>18 DEF Hush
  <2> QED BY <2>1, <2>2, <1>7, <1>8
<1>19. CASE SendStarts(t) \/ ReceiveStarts(t) \/ CopyCounts(t) \/ Cancel(t)
  BY <1>8, <1>19 DEF SendStarts, ReceiveStarts, CopyCounts, Cancel
<1>20. ASSUME CloseWaits(t) \/ UNCHANGED <<receiving, sending, fired>>
       PROVE  /\ \A u \in ToSet(receiving') : fired'[u] = "NONE" => u \in ToSet(receiving) /\ Waits(u)
              /\ \A u \in ToSet(sending') : fired'[u] = "NONE" => u \in ToSet(sending) /\ Waits(u)
  <2>1. CASE CloseWaits(t) BY <2>1, <1>7, <1>8 DEF CloseWaits
  <2>2. CASE UNCHANGED <<receiving, sending, fired>> BY <2>2, <1>8
  <2> QED BY <2>1, <2>2, <1>20
<1>21. CASE Close(t) BY <1>20, <1>21 DEF Close
<1>22. CASE SenderRelease(t)
  <2>1. CloseWaits(t) \/ UNCHANGED <<receiving, sending, fired>> BY <1>22 DEF SenderRelease
  <2> QED BY <2>1, <1>20
<1>23. CASE ReceiverRelease(t)
  <2>1. UNCHANGED <<receiving, sending, fired>> BY <1>23 DEF ReceiverRelease, Unholds
  <2> QED BY <2>1, <1>20
<1> QED BY <1>9, <1>10, <1>11, <1>12, <1>13, <1>14, <1>15, <1>16, <1>17, <1>18, <1>19, <1>21, <1>22, <1>23
       DEF Step, Starts

LEMMA NeedStep ==
  ASSUME Types, CountInv, CallInv, ListInv, WaitsAreNeeded, Next
  PROVE  WaitsAreNeeded'
<1> USE DEF madeVars, channelVars, countVars, waiterVars, taskVars, historyVars
<1>1. PICK t \in Tasks : Step(t) \/ Starts(t) BY DEF Next
<1>2. /\ \A u \in ToSet(receiving) : Waits(u) => buffer = <<>> /\ \A s \in ToSet(sending) : ~Waits(s)
      /\ \A s \in ToSet(sending) : Waits(s) => Len(buffer) = capacity
  BY DEF WaitsAreNeeded
<1>3. /\ capacity \in Nat /\ buffer \in Seq(Sent) /\ Len(buffer) <= capacity
      /\ Len(buffer) \in Nat /\ value \in [Tasks -> Sent]
      /\ receiving \in Seq(Receivers) /\ sending \in Seq(Senders)
      /\ Distinct(receiving) /\ Distinct(sending)
  BY LenProperties DEF Types, ListInv
<1>4. capacity' = capacity BY <1>1 DEF Step, Starts
<1>5. ToSet(<<>>) = {} BY DEF ToSet
<1>6. /\ ClaimFirst(receiving) = 0 => \A u \in ToSet(receiving) : ~Waits(u)
      /\ ClaimFirst(sending) = 0 =>
           AfterFirst(sending) = <<>> /\ \A u \in ToSet(sending) : ~Waits(u)
      /\ ClaimFirst(sending) # 0 =>
           sending[ClaimFirst(sending)] \in ToSet(sending) /\ Waits(sending[ClaimFirst(sending)])
  BY <1>3, ClaimsFirst
<1>7. /\ \A u \in ToSet(receiving') :
           Waits(u)' => (u \in ToSet(receiving) /\ Waits(u)) \/ (u = t /\ ReceiveWaits(t))
      /\ \A u \in ToSet(sending') :
           Waits(u)' => (u \in ToSet(sending) /\ Waits(u)) \/ (u = t /\ SendWaits(t) /\ pc[t] = "send")
  BY <1>1, WhoWaits DEF Waits
<1>8. CASE SendBuffers(t)
  <2>1. Len(buffer) < capacity /\ sending' = sending /\ receiving' = <<>> /\ pc'[t] = "idle"
        /\ ~(SendWaits(t) /\ pc[t] = "send")
    <3>1. pc \in [Tasks -> Pcs] BY DEF Types
    <3>2. Len(buffer) < capacity /\ sending' = sending /\ receiving' = <<>> /\ pc'[t] = "idle"
      BY <3>1, <1>8 DEF SendBuffers, Done, Goes
    <3> QED BY <3>2, <1>3 DEF SendWaits
  <2>2. \A s \in ToSet(sending) : ~Waits(s) BY <2>1, <1>2, <1>3
  <2> QED BY <2>1, <2>2, <1>5, <1>7 DEF WaitsAreNeeded
<1>9. CASE SendWaits(t)
  <2>1. receiving' = <<>> /\ buffer' = buffer /\ Len(buffer) = capacity BY <1>3, <1>9 DEF SendWaits
  <2> QED BY <2>1, <1>4, <1>5 DEF WaitsAreNeeded
<1>10. CASE ReceiveTakes(t)
  <2>1. buffer # <<>> /\ receiving' = receiving /\ sending' = AfterFirst(sending) /\ pc[t] = "receive"
    BY <1>10 DEF ReceiveTakes
  <2>2. ~ReceiveWaits(t) /\ ~(SendWaits(t) /\ pc[t] = "send") BY <2>1 DEF ReceiveWaits
  <2>3. \A u \in ToSet(receiving') : ~Waits(u)' BY <2>1, <2>2, <1>2, <1>7
  <2>4. CASE ClaimFirst(sending) = 0
    <3>1. sending' = <<>> BY <2>1, <2>4, <1>6
    <3> QED BY <2>3, <3>1, <1>5 DEF WaitsAreNeeded
  <2>5. CASE ClaimFirst(sending) # 0
    <3> DEFINE s == sending[ClaimFirst(sending)]
    <3>1. s \in ToSet(sending) /\ Waits(s) BY <2>5, <1>6
    <3>2. Len(buffer) = capacity BY <3>1, <1>2
    <3>3. s \in Tasks BY <3>1, ListedTasks DEF Tasks
    <3>4. Tail(buffer) \in Seq(Sent) /\ Len(Tail(buffer)) = Len(buffer) - 1 /\ value[s] \in Sent
      BY <2>1, <3>3, <1>3, HeadTailProperties
    <3>5. Len(Append(Tail(buffer), value[s])) = Len(Tail(buffer)) + 1 BY <3>4, AppendProperties
    <3>6. buffer' = Append(Tail(buffer), value[s]) BY <2>5, <1>10 DEF ReceiveTakes
    <3>7. Len(buffer') = capacity' BY <3>2, <3>4, <3>5, <3>6, <1>3, <1>4
    <3> QED BY <2>3, <3>7 DEF WaitsAreNeeded
  <2> QED BY <2>4, <2>5
<1>11. CASE ReceiveWaits(t)
  <2>1. sending' = <<>> /\ buffer' = buffer /\ buffer = <<>> BY <1>11 DEF ReceiveWaits
  <2> QED BY <2>1, <1>5 DEF WaitsAreNeeded
\* Any other step takes nobody's place in the buffer.
<1>12. ASSUME buffer' = buffer, ~ReceiveWaits(t), ~SendWaits(t)
       PROVE  WaitsAreNeeded'
  <2>1. \A u \in ToSet(receiving') : Waits(u)' => u \in ToSet(receiving) /\ Waits(u) BY <1>7, <1>12
  <2>2. \A u \in ToSet(sending') : Waits(u)' => u \in ToSet(sending) /\ Waits(u) BY <1>7, <1>12
  <2>3. \A u \in ToSet(receiving') : Waits(u)' => buffer' = <<>> /\ \A s \in ToSet(sending') : ~Waits(s)'
    BY <2>1, <2>2, <1>2, <1>12
  <2>4. \A s \in ToSet(sending') : Waits(s)' => Len(buffer') = capacity' BY <2>2, <1>2, <1>4, <1>12
  <2> QED BY <2>3, <2>4 DEF WaitsAreNeeded
<1>13. ASSUME Unholds(t), (pc[t] = "idle" /\ holds[t] > 0) \/ pc[t] = "unhold" PROVE WaitsAreNeeded'
  <2>1. UNCHANGED <<receiving, sending>> BY <1>13 DEF Unholds
  <2>2. CASE rc = 1
    <3>1. ToSet(receiving) = {} /\ ToSet(sending) = {} BY <2>2, <1>13, LastHold
    <3> QED BY <2>1, <3>1 DEF WaitsAreNeeded
  <2>3. CASE rc # 1
    <3>1. buffer' = buffer BY <2>3, <1>13 DEF Unholds
    <3>2. ~ReceiveWaits(t) /\ ~SendWaits(t) BY <1>13 DEF ReceiveWaits, SendWaits, Sending, Sends
    <3> QED BY <3>1, <3>2, <1>12
  <2> QED BY <2>2, <2>3
<1>14. CASE Unhold(t) BY <1>13, <1>14 DEF Unhold
<1>15. CASE ReceiverRelease(t) BY <1>13, <1>15 DEF ReceiverRelease
<1>16. CASE ReceiveWaits(t) \/ SendWaits(t) BY <1>9, <1>11, <1>16
<1>17. CASE SendFails(t) \/ SendHands(t) \/ ReceiveMeets(t) \/ Tell(t) \/ CancelClaims(t)
  <2>1. buffer' = buffer BY <1>17 DEF SendFails, SendHands, ReceiveMeets, Tell, CancelClaims
  <2> QED BY <2>1, <1>12, <1>16
<1>18. CASE Returns(t) \/ Unlist(t) \/ CopyHolds(t) \/ Hush(t)
  <2>1. buffer' = buffer BY <1>18 DEF Returns, Unlist, CopyHolds, Hush
  <2> QED BY <2>1, <1>12, <1>16
<1>19. CASE SendStarts(t) \/ ReceiveStarts(t) \/ Close(t) \/ CopyCounts(t) \/ SenderRelease(t) \/ Cancel(t)
  <2>1. buffer' = buffer BY <1>19 DEF SendStarts, ReceiveStarts, Close, CopyCounts, SenderRelease, Cancel
  <2> QED BY <2>1, <1>12, <1>16
<1> QED BY <1>1, <1>8, <1>10, <1>14, <1>15, <1>16, <1>17, <1>18, <1>19 DEF Step, Starts

LEMMA QuietStep ==
  ASSUME Types, CountInv, CallInv, ListInv, QuietInv, Next
  PROVE  QuietInv'
<1> USE DEF madeVars, channelVars, countVars, waiterVars, taskVars, historyVars
<1>1. PICK t \in Tasks : Step(t) \/ Starts(t) BY DEF Next
<1>2. /\ pc \in [Tasks -> Pcs] /\ holds \in [Tasks -> Nat] BY DEF Types
<1>3. Tasks = Senders \cup Receivers /\ Senders \cap Receivers = {} BY ChannelAssumption DEF Tasks
<1>4. discard' = discard BY <1>1 DEF Step, Starts
<1>5. \A u \in ToSet(sending') :
        Waits(u)' => (u \in ToSet(sending) /\ Waits(u)) \/ (u = t /\ SendWaits(t) /\ pc[t] = "send")
  BY <1>1, WhoWaits DEF Waits
<1>6. ASSUME Abandoned' => Abandoned, ~SendWaits(t) PROVE QuietInv'
  BY <1>5, <1>6 DEF QuietInv
\* A step of a task that lets nothing go, and that was not about to.
<1>7. ASSUME \A u \in Receivers : holds'[u] = holds[u], \A u \in Tasks : u # t => pc'[u] = pc[u],
             pc[t] \notin {"hush", "unhold", "tellUnhold"}
      PROVE  Abandoned' => Abandoned
  BY <1>4, <1>7 DEF Abandoned
<1>8. CASE SendWaits(t)
  <2>1. pc[t] \in {"send", "tryOffer"} /\ ~Discarding /\ holds' = holds
    BY <1>8 DEF SendWaits, Sending, Sends
  <2>2. \A u \in Tasks : u # t => pc'[u] = pc[u] BY <1>2, <1>8 DEF SendWaits, Done, Goes
  <2>3. Abandoned' => Abandoned BY <2>1, <2>2, <1>7
  <2>4. Abandoned => Discarding BY AbandonedDiscards DEF Abandoned, Letting
  <2> QED BY <2>1, <2>3, <2>4 DEF QuietInv
<1>9. CASE ~SendWaits(t) /\ Step(t) /\ pc[t] \notin {"hush", "unhold", "tellUnhold"}
  <2>1. \A u \in Receivers : holds'[u] = holds[u]
    <3>1. CASE CopyHolds(t)
      <4>1. t \in Senders /\ holds' = [holds EXCEPT ![t] = @ + 1] BY <3>1 DEF CopyHolds, Goes, CallInv
      <4> QED BY <4>1, <1>2, <1>3
    <3>2. CASE ~CopyHolds(t)
      <4>1. holds' = holds
        BY <3>2, <1>9 DEF Step, SendFails, SendHands, SendBuffers, SendWaits, ReceiveTakes, ReceiveMeets,
                          ReceiveWaits, Tell, CancelClaims, Returns, Unlist, Unhold, Hush
      <4> QED BY <4>1
    <3> QED BY <3>1, <3>2
  <2>2. \A u \in Tasks : u # t => pc'[u] = pc[u]
    <3>1. CASE SendFails(t) \/ SendHands(t) \/ SendBuffers(t) \/ ReceiveTakes(t) \/ ReceiveMeets(t)
      BY <3>1, <1>2 DEF SendFails, SendHands, SendBuffers, ReceiveTakes, ReceiveMeets, Done, Goes, Ends
    <3>2. CASE ReceiveWaits(t) \/ Tell(t) \/ CancelClaims(t)
      BY <3>2, <1>2 DEF ReceiveWaits, Tell, CancelClaims, Goes
    <3>3. CASE Returns(t) \/ Unlist(t) \/ CopyHolds(t)
      BY <3>3, <1>2 DEF Returns, Unlist, CopyHolds, Done, Goes
    <3>4. ~Unhold(t) /\ ~Hush(t) BY <1>9 DEF Unhold, Hush
    <3> QED BY <3>1, <3>2, <3>3, <3>4, <1>9 DEF Step
  <2> QED BY <2>1, <2>2, <1>6, <1>7, <1>9
<1>10. CASE Tell(t) /\ pc[t] = "tellUnhold"
  <2>1. pc'[t] \in {"unhold", "tellUnhold"} BY <1>2, <1>10 DEF Tell
  <2>2. ~Abandoned' BY <2>1 DEF Abandoned
  <2> QED BY <2>2 DEF QuietInv
\* The last hold of all goes, or the task goes on to look.
<1>11. ASSUME Unholds(t), (pc[t] = "idle" /\ holds[t] > 0) \/ pc[t] = "unhold" PROVE QuietInv'
  <2>1. CASE rc = 1
    <3>1. ToSet(sending) = {} BY <2>1, <1>11, LastHold
    <3>2. sending' = sending BY <1>11 DEF Unholds
    <3> QED BY <3>1, <3>2 DEF QuietInv
  <2>2. CASE rc # 1
    <3>1. pc'[t] = "hush" BY <2>2, <1>2, <1>11 DEF Unholds
    <3>2. ~Abandoned' BY <3>1 DEF Abandoned
    <3> QED BY <3>2 DEF QuietInv
  <2> QED BY <2>1, <2>2
<1>12. CASE Unhold(t) BY <1>11, <1>12 DEF Unhold
<1>13. CASE Hush(t)
  <2> SUFFICES ASSUME Abandoned' PROVE \A u \in ToSet(sending') : ~Waits(u)'
    BY DEF QuietInv
  <2>1. pc[t] = "hush" /\ holds' = holds /\ \A u \in Tasks : u # t => pc'[u] = pc[u]
    BY <1>2, <1>13 DEF Hush, Ends
  <2>2. discard /\ Letting = {} /\ \A u \in Receivers : holds[u] = 0
    BY <2>1, <1>4 DEF Abandoned, Letting
  <2>3. Discarding BY <2>2, AbandonedDiscards
  <2>4. CASE freed
    <3>1. \A u \in Tasks : ~(holds[u] > 0) BY <2>4, HeldCounts
    <3>2. ToSet(sending) = {}
      <4> SUFFICES ASSUME NEW u \in ToSet(sending) PROVE FALSE
        OBVIOUS
      <4>1. u \in Tasks /\ pc[u] \in {"waiting", "unlist"} BY ListedTasks DEF ListInv, Tasks
      <4> QED BY <4>1, <3>1 DEF CallInv
    <3>3. sending' = sending BY <2>4, <1>13 DEF Hush
    <3> QED BY <3>2, <3>3
  <2>5. CASE ~freed
    <3>1. sending' = <<>> BY <2>3, <2>5, <1>13 DEF Hush
    <3> QED BY <3>1 DEF ToSet
  <2> QED BY <2>4, <2>5
<1>14. CASE t \in Senders /\ SendStarts(t)
  <2>1. pc[t] = "idle" /\ holds' = holds /\ \A u \in Tasks : u # t => pc'[u] = pc[u]
    BY <1>2, <1>14 DEF SendStarts, Goes
  <2> QED BY <2>1, <1>6, <1>7 DEF SendWaits, Sending, Sends
<1>15. CASE t \in Receivers /\ ReceiveStarts(t)
  <2>1. pc[t] = "idle" /\ holds' = holds /\ \A u \in Tasks : u # t => pc'[u] = pc[u]
    BY <1>2, <1>15 DEF ReceiveStarts, Goes
  <2> QED BY <2>1, <1>6, <1>7 DEF SendWaits, Sending, Sends
<1>16. CASE Close(t)
  <2>1. pc[t] = "idle" /\ holds' = holds /\ \A u \in Tasks : u # t => pc'[u] = pc[u]
    BY <1>2, <1>16 DEF Close, Ends
  <2> QED BY <2>1, <1>6, <1>7 DEF SendWaits, Sending, Sends
<1>17. CASE CopyCounts(t)
  <2>1. pc[t] = "idle" /\ holds' = holds /\ \A u \in Tasks : u # t => pc'[u] = pc[u]
    BY <1>2, <1>17 DEF CopyCounts, Goes
  <2> QED BY <2>1, <1>6, <1>7 DEF SendWaits, Sending, Sends
<1>18. CASE SenderRelease(t)
  <2>1. pc'[t] \in {"unhold", "tellUnhold"} BY <1>2, <1>18 DEF SenderRelease, Goes
  <2>2. ~Abandoned' BY <2>1 DEF Abandoned
  <2> QED BY <2>2 DEF QuietInv
<1>19. CASE ReceiverRelease(t) BY <1>11, <1>19 DEF ReceiverRelease
<1>20. CASE Cancel(t)
  <2>1. pc' = pc /\ holds' = holds BY <1>20 DEF Cancel
  <2>2. Abandoned' => Abandoned BY <2>1, <1>4 DEF Abandoned
  <2> QED BY <2>2, <1>6, <1>8
<1>21. CASE Step(t) /\ pc[t] \in {"hush", "unhold", "tellUnhold"}
  <2>1. (Tell(t) /\ pc[t] = "tellUnhold") \/ Unhold(t) \/ Hush(t)
    BY <1>21 DEF Step, SendFails, SendHands, SendBuffers, SendWaits, Sending, Sends, ReceiveTakes, ReceiveMeets,
                 ReceiveWaits, Tell, CancelClaims, Returns, Unlist, CopyHolds, Goes
  <2> QED BY <2>1, <1>10, <1>12, <1>13
<1> QED BY <1>1, <1>8, <1>9, <1>14, <1>15, <1>16, <1>17, <1>18, <1>19, <1>20, <1>21 DEF Starts

-----------------------------------------------------------------------------
(* The theorems. *)

LEMMA InvStep == Inv /\ [Next]_vars => Inv'
<1> SUFFICES ASSUME Inv, [Next]_vars PROVE Inv'
  OBVIOUS
<1>1. Types /\ CountInv /\ CallInv /\ ListInv /\ WaitsAreNeeded /\ QuietInv BY DEF Inv
<1>2. CASE Next
  BY <1>1, <1>2, TypesStep, CountStep, CallStep, ListStep, NeedStep, QuietStep DEF Inv
<1>3. CASE UNCHANGED vars
  <2>1. /\ UNCHANGED madeVars /\ UNCHANGED channelVars /\ UNCHANGED countVars /\ UNCHANGED waiterVars
        /\ UNCHANGED taskVars /\ UNCHANGED made
    BY <1>3 DEF vars, historyVars
  <2> USE DEF madeVars, channelVars, countVars, waiterVars, taskVars
  <2>2. Types' BY <2>1, <1>1 DEF Types
  <2>3. CountInv' BY <2>1, <1>1 DEF CountInv, Holding, Lending, Letting, Copying
  <2>4. CallInv' BY <2>1, <1>1 DEF CallInv
  <2>5. ListInv' BY <2>1, <1>1 DEF ListInv, Waits
  <2>6. WaitsAreNeeded' BY <2>1, <1>1 DEF WaitsAreNeeded, Waits
  <2>7. QuietInv' BY <2>1, <1>1 DEF QuietInv, Abandoned, Waits
  <2> QED BY <2>2, <2>3, <2>4, <2>5, <2>6, <2>7 DEF Inv
<1> QED BY <1>2, <1>3

LEMMA InvHolds == Spec => []Inv
BY InitInv, InvStep, PTL DEF Spec

\* No value that could move is left standing: a receiver waits only on an
\* empty buffer with no sender waiting, a sender only on a full one
\* (`try_send`, `try_receive`, whatever is claimed, cancelled or closed).
THEOREM MovesWhatCan == Spec => []WaitsAreNeeded
<1>1. Inv => WaitsAreNeeded BY DEF Inv
<1> QED BY <1>1, InvHolds, PTL

\* An operation only touches the Waiter of a task that is in its wait, and
\* meets it once (`Waiter`, `claim_first`, `close_waits`).
THEOREM ListsHoldWaits == Spec => []ListedWaits
<1>1. Inv => ListedWaits
  <2> SUFFICES ASSUME Inv PROVE ListedWaits
    OBVIOUS
  <2> QED BY DEF Inv, ListInv, ListedWaits, Distinct
<1> QED BY <1>1, InvHolds, PTL

\* Nobody waits on a closed channel, nor on one that discards once the last
\* release of a receiver is through (`close_waits`, `tondo_rt_receiver_release`).
THEOREM NobodyIsLost == Spec => []NoLostWaiter
<1>1. Inv => NoLostWaiter
  <2> SUFFICES ASSUME Inv PROVE NoLostWaiter
    OBVIOUS
  <2>1. Types /\ CountInv /\ CallInv /\ ListInv /\ QuietInv BY DEF Inv
  <2>2. ASSUME closed \/ senders = 0 PROVE \A t \in Tasks : pc[t] = "waiting" => ~Waits(t)
    <3>1. receiving = <<>> /\ sending = <<>> BY <2>1, <2>2 DEF CountInv, ListInv
    <3>2. ToSet(receiving) = {} /\ ToSet(sending) = {} BY <3>1 DEF ToSet
    <3> QED BY <2>1, <3>2 DEF ListInv
  <2>3. ASSUME discard, \A t \in Tasks : pc[t] \notin {"hush", "unhold"} /\ (t \in Receivers => holds[t] = 0)
        PROVE  \A t \in Senders : pc[t] = "waiting" => ~Waits(t)
    <3> SUFFICES ASSUME NEW t \in Senders, pc[t] = "waiting", Waits(t) PROVE FALSE
      OBVIOUS
    <3>1. Receivers \subseteq Tasks /\ t \in Tasks /\ t \notin Receivers BY ChannelAssumption DEF Tasks
    <3>2. t \in ToSet(receiving) \cup ToSet(sending) BY <2>1, <3>1 DEF ListInv
    <3>3. t \in ToSet(sending) BY <2>1, <3>1, <3>2, ListedTasks
    <3>4. ~closed
      <4>1. sending # <<>> BY <3>3 DEF ToSet
      <4> QED BY <2>1, <4>1 DEF ListInv
    <3>5. \A u \in Tasks : pc[u] # "tellUnhold" BY <2>1, <3>4 DEF CallInv
    <3>6. Abandoned BY <2>3, <3>1, <3>5 DEF Abandoned
    <3> QED BY <2>1, <3>3, <3>6 DEF QuietInv
  <2> QED BY <2>2, <2>3 DEF NoLostWaiter
<1> QED BY <1>1, InvHolds, PTL

\* The channel lives while a handle does: `rc` counts them all
\* (`tondo_rt_sender_new`, `tondo_rt_receiver_release`).
THEOREM HandlesKeepAlive == Spec => []HeldIsAlive
<1>1. Inv => HeldIsAlive
  <2> SUFFICES ASSUME Inv, NEW t \in Tasks, holds[t] > 0 PROVE ~freed
    BY DEF HeldIsAlive
  <2> QED BY HeldCounts DEF Inv
<1> QED BY <1>1, InvHolds, PTL

-----------------------------------------------------------------------------
(***************************************************************************)
(* Where a value is.                                                       *)
(***************************************************************************)
Pairs == Senders \X Nat

\* The operations of a sender that have a value at its `value`.
Busy == {"send", "tryOffer", "waiting", "unlist"}

Has(t, v) == value[t] = v /\ Owns(t)
Nowhere(v) == v \notin ToSet(buffer) /\ \A t \in Tasks : ~Has(t, v)

\* In one hand, or in the buffer, or released, from when it is made.
Placed(v) ==
  /\ \A s, t \in Tasks : Has(s, v) /\ Has(t, v) => s = t
  /\ v \in ToSet(buffer) => \A t \in Tasks : ~Has(t, v)
  /\ v[2] > made[v[1]] => Nowhere(v)
  /\ v \in Values =>
       /\ gone[v] \in {0, 1}
       /\ gone[v] = 1 => Nowhere(v) /\ v[2] <= made[v[1]]
       /\ v[2] <= made[v[1]] /\ Nowhere(v) => gone[v] = 1

OnceInv ==
  /\ DOMAIN gone = Values
  /\ buffer \in Seq(Pairs) /\ Distinct(buffer)
  /\ \A t \in Senders : value[t] # NoValue <=> pc[t] \in Busy
  /\ \A v \in Pairs : Placed(v)

LEMMA NoValueApart == NoValue \notin Pairs
BY DEF NoValue, Pairs

LEMMA ValuesArePairs == Values \subseteq Pairs
<1>1. 1 .. MaxSends \subseteq Nat BY ChannelAssumption
<1> QED BY <1>1 DEF Values, Pairs

LEMMA OwnsIs ==
  ASSUME NEW t
  PROVE  Owns(t) <=> IF t \in Senders THEN fired[t] # "MOVED" ELSE fired[t] = "MOVED"
BY DEF Owns

LEMMA OwnsNext ==
  ASSUME NEW t
  PROVE  Owns(t)' <=> IF t \in Senders THEN fired'[t] # "MOVED" ELSE fired'[t] = "MOVED"
BY DEF Owns

\* Nothing happens to the value.
LEMMA PlacedSame ==
  ASSUME NEW v \in Pairs, Placed(v), made'[v[1]] = made[v[1]],
         \A u \in Tasks : Has(u, v)' <=> Has(u, v),
         v \in ToSet(buffer') <=> v \in ToSet(buffer),
         v \in Values => gone'[v] = gone[v]
  PROVE  Placed(v)'
BY DEF Placed, Nowhere

\* It is released from where it was.
LEMMA PlacedGone ==
  ASSUME NEW v \in Pairs, Placed(v), made'[v[1]] = made[v[1]], ~Nowhere(v),
         made[v[1]] \in Nat, Nowhere(v)',
         v \in Values => gone'[v] = gone[v] + 1
  PROVE  Placed(v)'
<1>1. v[2] \in Nat BY DEF Pairs
<1>2. v[2] <= made[v[1]] BY <1>1 DEF Placed
<1>3. v \in Values => gone[v] = 0 BY DEF Placed
<1> QED BY <1>1, <1>2, <1>3 DEF Placed, Nowhere

\* It goes from where it was to another place.
LEMMA PlacedMoved ==
  ASSUME NEW v \in Pairs, Placed(v), made'[v[1]] = made[v[1]], ~Nowhere(v),
         made[v[1]] \in Nat, ~Nowhere(v)',
         \A s, t \in Tasks : Has(s, v)' /\ Has(t, v)' => s = t,
         v \in ToSet(buffer') => \A t \in Tasks : ~Has(t, v)',
         v \in Values => gone'[v] = gone[v]
  PROVE  Placed(v)'
<1>1. v[2] \in Nat BY DEF Pairs
<1>2. v[2] <= made[v[1]] BY <1>1 DEF Placed
<1>3. v \in Values => gone[v] = 0 BY DEF Placed
<1> QED BY <1>1, <1>2, <1>3 DEF Placed

\* A step that moves no value.
LEMMA OnceQuiet ==
  ASSUME OnceInv, UNCHANGED <<buffer, gone, made, value>>,
         \A u \in Tasks : fired'[u] = "MOVED" <=> fired[u] = "MOVED",
         \A s \in Senders : pc'[s] \in Busy <=> pc[s] \in Busy
  PROVE  OnceInv'
<1>1. \A u \in Tasks, v \in Pairs : Has(u, v)' <=> Has(u, v) BY OwnsIs DEF Has, Owns
<1>2. \A v \in Pairs : Placed(v)' BY <1>1, PlacedSame DEF OnceInv
<1> QED BY <1>2 DEF OnceInv

\* A task's operation ends, and its value is released if it is its own.
LEMMA OnceEnds ==
  ASSUME Types, OnceInv, NEW t \in Tasks, value' = [value EXCEPT ![t] = NoValue],
         \A u \in Tasks \ {t} : fired'[u] = fired[u],
         IF Owns(t) THEN Releases(value[t]) ELSE UNCHANGED gone,
         UNCHANGED <<buffer, made>>,
         pc' = [pc EXCEPT ![t] = "idle"]
  PROVE  OnceInv'
<1>t. /\ value \in [Tasks -> Sent] /\ pc \in [Tasks -> Pcs] /\ made \in [Senders -> Nat]
      /\ Senders \subseteq Tasks /\ buffer \in Seq(Pairs)
  BY DEF Types, Tasks, OnceInv
<1>1. \A u \in Tasks : value'[u] = IF u = t THEN NoValue ELSE value[u] BY <1>t
<1>2. \A u \in Tasks, v \in Pairs : Has(u, v)' <=> Has(u, v) /\ u # t
  BY <1>1, NoValueApart, OwnsIs DEF Has, Owns
<1>3. DOMAIN gone' = Values /\ \A v \in Values : gone'[v] = IF Has(t, v) THEN gone[v] + 1 ELSE gone[v]
  BY DEF OnceInv, Releases, Has
<1>4. ASSUME NEW v \in Pairs PROVE Placed(v)'
  <2>1. Placed(v) /\ made[v[1]] \in Nat /\ made'[v[1]] = made[v[1]] BY <1>t DEF OnceInv, Pairs
  <2>2. CASE Has(t, v)
    <3>1. ~Nowhere(v) /\ Nowhere(v)' BY <2>1, <2>2, <1>2 DEF Nowhere, Placed
    <3> QED BY <2>1, <2>2, <3>1, <1>3, PlacedGone
  <2>3. CASE ~Has(t, v)
    <3>1. \A u \in Tasks : Has(u, v)' <=> Has(u, v) BY <2>3, <1>2
    <3> QED BY <2>1, <2>3, <3>1, <1>3, PlacedSame
  <2> QED BY <2>2, <2>3
<1>5. \A s \in Senders : value'[s] # NoValue <=> pc'[s] \in Busy
  <2>1. \A s \in Senders : pc'[s] = IF s = t THEN "idle" ELSE pc[s] BY <1>t
  <2> QED BY <1>t, <1>1, <2>1 DEF OnceInv, Busy
<1> QED BY <1>3, <1>4, <1>5 DEF OnceInv

\* The value of a sender goes into the buffer, that of its head out of it.
LEMMA OnceBuffers ==
  ASSUME Types, OnceInv, NEW t \in Senders, Owns(t), value[t] \in Pairs,
         \A u \in Tasks \ {t} : value'[u] = value[u] /\ fired'[u] = fired[u],
         value'[t] = NoValue \/ ~Owns(t)',
         NEW rest \in Seq(Pairs), Distinct(rest), ToSet(rest) \subseteq ToSet(buffer),
         buffer' = Append(rest, value[t]),
         DOMAIN gone' = Values,
         \A v \in Values : gone'[v] = gone[v] + (IF v \in ToSet(buffer) \ ToSet(rest) THEN 1 ELSE 0),
         UNCHANGED made,
         \A s \in Senders : value'[s] # NoValue <=> pc'[s] \in Busy
  PROVE  OnceInv'
<1>t. /\ made \in [Senders -> Nat] /\ Senders \subseteq Tasks /\ buffer \in Seq(Pairs)
  BY DEF Types, Tasks, OnceInv
<1>1. Has(t, value[t]) /\ \A v \in Pairs : Has(t, v) => v = value[t] BY DEF Has
<1>2. \A u \in Tasks, v \in Pairs : Has(u, v)' <=> Has(u, v) /\ u # t
  BY NoValueApart, OwnsIs DEF Has, Owns
<1>3. value[t] \notin ToSet(buffer) BY <1>t, <1>1 DEF OnceInv, Placed
<1>4. buffer' \in Seq(Pairs) /\ Distinct(buffer') /\ ToSet(buffer') = ToSet(rest) \cup {value[t]}
  BY <1>3, AppendHolds
<1>5. ASSUME NEW v \in Pairs PROVE Placed(v)'
  <2>1. Placed(v) /\ made[v[1]] \in Nat /\ made'[v[1]] = made[v[1]] BY <1>t DEF OnceInv, Pairs
  <2>g. v \in Values => gone[v] \in {0, 1} BY <2>1 DEF Placed
  <2>2. CASE v = value[t]
    <3>1. ~Nowhere(v) /\ ~Nowhere(v)' BY <1>t, <1>1, <1>4, <2>2 DEF Nowhere
    <3>2. \A u \in Tasks : ~Has(u, v)' BY <1>t, <1>1, <1>2, <2>1, <2>2 DEF Placed
    <3>3. v \in Values => gone'[v] = gone[v] BY <1>3, <2>2, <2>g
    <3> QED BY <2>1, <3>1, <3>2, <3>3, PlacedMoved
  <2>3. CASE v # value[t] /\ v \in ToSet(buffer) \ ToSet(rest)
    <3>1. ~Nowhere(v) /\ Nowhere(v)' BY <1>2, <1>4, <2>1, <2>3 DEF Nowhere, Placed
    <3> QED BY <2>1, <2>3, <3>1, PlacedGone
  <2>4. CASE v # value[t] /\ ~(v \in ToSet(buffer) \ ToSet(rest))
    <3>1. v \in ToSet(buffer') <=> v \in ToSet(buffer) BY <1>4, <2>4
    <3>2. \A u \in Tasks : Has(u, v)' <=> Has(u, v) BY <1>1, <1>2, <2>4
    <3>3. v \in Values => gone'[v] = gone[v] BY <2>4, <2>g
    <3> QED BY <2>1, <3>1, <3>2, <3>3, PlacedSame
  <2> QED BY <2>2, <2>3, <2>4
<1> QED BY <1>4, <1>5 DEF OnceInv

\* Values leave the buffer.
LEMMA OnceDrops ==
  ASSUME Types, OnceInv, \A u \in Tasks : fired'[u] = "MOVED" <=> fired[u] = "MOVED",
         NEW rest \in Seq(Pairs), Distinct(rest), ToSet(rest) \subseteq ToSet(buffer),
         buffer' = rest, UNCHANGED <<value, made>>,
         DOMAIN gone' = Values,
         \A v \in Values : gone'[v] = gone[v] + (IF v \in ToSet(buffer) \ ToSet(rest) THEN 1 ELSE 0),
         \A s \in Senders : pc'[s] \in Busy <=> pc[s] \in Busy
  PROVE  OnceInv'
<1>t. made \in [Senders -> Nat] BY DEF Types
<1>1. \A u \in Tasks, v \in Pairs : Has(u, v)' <=> Has(u, v) BY OwnsIs DEF Has, Owns
<1>2. ASSUME NEW v \in Pairs PROVE Placed(v)'
  <2>1. Placed(v) /\ made[v[1]] \in Nat /\ made'[v[1]] = made[v[1]] BY <1>t DEF OnceInv, Pairs
  <2>g. v \in Values => gone[v] \in {0, 1} BY <2>1 DEF Placed
  <2>2. CASE v \in ToSet(buffer) \ ToSet(rest)
    <3>1. ~Nowhere(v) /\ Nowhere(v)' BY <1>1, <2>1, <2>2 DEF Nowhere, Placed
    <3> QED BY <2>1, <2>2, <3>1, PlacedGone
  <2>3. CASE ~(v \in ToSet(buffer) \ ToSet(rest))
    <3>1. v \in ToSet(buffer') <=> v \in ToSet(buffer) BY <2>3
    <3>2. v \in Values => gone'[v] = gone[v] BY <2>3, <2>g
    <3> QED BY <2>1, <3>1, <3>2, <1>1, PlacedSame
  <2> QED BY <2>2, <2>3
<1> QED BY <1>2 DEF OnceInv

\* The rest of the buffer.
LEMMA BufferRest ==
  ASSUME OnceInv, buffer # <<>>
  PROVE  /\ Tail(buffer) \in Seq(Pairs) /\ Distinct(Tail(buffer)) /\ Head(buffer) \in Pairs
         /\ ToSet(Tail(buffer)) = ToSet(buffer) \ {Head(buffer)}
         /\ Head(buffer) \in ToSet(buffer)
<1>1. /\ buffer \in Seq(Pairs) /\ Distinct(buffer) /\ Len(buffer) \in Nat /\ Len(buffer) > 0
      /\ Head(buffer) = buffer[1] /\ Tail(buffer) = SubSeq(buffer, 2, Len(buffer))
  <2>1. buffer \in Seq(Pairs) /\ Distinct(buffer) BY DEF OnceInv
  <2>2. Len(buffer) \in Nat /\ Len(buffer) > 0 /\ Head(buffer) = buffer[1]
    BY <2>1, EmptySeq, LenProperties, HeadTailProperties
  <2>3. Tail(buffer) = SubSeq(buffer, 2, Len(buffer)) BY <2>1, TailIsSubSeq
  <2> QED BY <2>1, <2>2, <2>3
<1>2. /\ Tail(buffer) \in Seq(Pairs) /\ Distinct(Tail(buffer))
      /\ ToSet(Tail(buffer)) = {buffer[i] : i \in 2 .. Len(buffer)}
  <2>1. 1 \in 0 .. Len(buffer) /\ 1 + 1 = 2 BY <1>1
  <2> QED BY <1>1, <2>1, RestHolds
<1>3. ToSet(buffer) = {buffer[i] : i \in 1 .. Len(buffer)} BY <1>1, LenProperties DEF ToSet
<1>4. 1 \in 1 .. Len(buffer) BY <1>1
<1>5. \A i \in 1 .. Len(buffer) : i \in 2 .. Len(buffer) <=> i # 1 BY <1>1
<1>6. \A i \in 1 .. Len(buffer) : buffer[i] = buffer[1] <=> i = 1 BY <1>1, <1>4 DEF Distinct
<1>7. \A i \in 2 .. Len(buffer) : i \in 1 .. Len(buffer) BY <1>1
<1>8. Head(buffer) \in Pairs BY <1>1, <1>4, ElementOfSeq
<1> QED BY <1>1, <1>2, <1>3, <1>4, <1>5, <1>6, <1>7, <1>8

LEMMA OnceStep == ASSUME Types, CallInv, ListInv, OnceInv, Next PROVE OnceInv'
<1> USE DEF madeVars, channelVars, countVars, waiterVars, taskVars, historyVars
<1>1. PICK t \in Tasks : Step(t) \/ Starts(t) BY DEF Next
<1>t. /\ pc \in [Tasks -> Pcs] /\ fired \in [Tasks -> Hows] /\ value \in [Tasks -> Sent]
      /\ made \in [Senders -> Nat] /\ Sent = Pairs \cup {NoValue} /\ OnceInv
  BY DEF Types, Hows, Sent, Pairs
<1>s. Senders \cap Receivers = {} /\ Tasks = Senders \cup Receivers BY ChannelAssumption DEF Tasks
<1>l. \A u \in ToSet(receiving) \cup ToSet(sending) :
        Waits(u) => u \in Tasks /\ pc[u] = "waiting" /\ fired[u] = "NONE"
  BY ListedClaim
<1>r. ClaimFirst(receiving) # 0 => LET r == receiving[ClaimFirst(receiving)] IN
        r \in Receivers /\ pc[r] = "waiting" /\ fired[r] = "NONE"
  <2>1. receiving \in Seq(Receivers) /\ Distinct(receiving) BY DEF Types, ListInv
  <2>2. ClaimFirst(receiving) # 0 =>
          receiving[ClaimFirst(receiving)] \in ToSet(receiving) /\ Waits(receiving[ClaimFirst(receiving)])
    BY <2>1, ClaimsFirst
  <2> QED BY <2>2, <1>l, ListedTasks
<1>c. ClaimFirst(sending) # 0 => LET s == sending[ClaimFirst(sending)] IN
        s \in Senders /\ pc[s] = "waiting" /\ fired[s] = "NONE" /\ value[s] \in Pairs /\ Owns(s)
  <2>1. sending \in Seq(Senders) /\ Distinct(sending) BY DEF Types, ListInv
  <2>2. ClaimFirst(sending) # 0 =>
          sending[ClaimFirst(sending)] \in ToSet(sending) /\ Waits(sending[ClaimFirst(sending)])
    BY <2>1, ClaimsFirst
  <2> SUFFICES ASSUME ClaimFirst(sending) # 0,
                      NEW s, s = sending[ClaimFirst(sending)]
               PROVE  s \in Senders /\ pc[s] = "waiting" /\ fired[s] = "NONE"
                      /\ value[s] \in Pairs /\ Owns(s)
    OBVIOUS
  <2>3. s \in Senders /\ pc[s] = "waiting" /\ fired[s] = "NONE" BY <2>2, <1>l, ListedTasks
  <2>4. value[s] \in Pairs BY <2>3, <1>t, <1>s DEF OnceInv, Busy
  <2> QED BY <2>3, <2>4, OwnsIs
\* A sender at its operation has a value, and no other task ended a wait of its.
<1>b. Sends(t) => t \in Senders /\ fired[t] = "NONE" /\ Owns(t) /\ value[t] \in Pairs
  <2> SUFFICES ASSUME Sends(t)
               PROVE  t \in Senders /\ fired[t] = "NONE" /\ Owns(t) /\ value[t] \in Pairs
    OBVIOUS
  <2>1. t \in Senders /\ fired[t] = "NONE" BY DEF CallInv, Sends
  <2> QED BY <2>1, <1>t, <1>s, OwnsIs DEF OnceInv, Busy, Sends
\* A step that moves no value.
<1>q. ASSUME UNCHANGED <<buffer, gone, made, value>>,
             \A u \in Tasks : fired'[u] = "MOVED" <=> fired[u] = "MOVED",
             \A u \in Tasks : u # t \/ t \in Receivers => pc'[u] = pc[u] \/ u \in Receivers,
             t \in Senders => (pc'[t] \in Busy <=> pc[t] \in Busy)
      PROVE  OnceInv'
  <2>1. \A s \in Senders : pc'[s] \in Busy <=> pc[s] \in Busy BY <1>q, <1>s
  <2> QED BY <1>q, <2>1, OnceQuiet
\* Claims that hand over no value.
<1>m. ASSUME NEW woken, NEW how \in {"CLOSED", "DISCARDED"}, Claims(t, woken, how),
             \A u \in woken : u \in Tasks /\ fired[u] = "NONE"
      PROVE  \A u \in Tasks : fired'[u] = "MOVED" <=> fired[u] = "MOVED"
  BY <1>m DEF Claims
<1>e. ASSUME NEW woken, Ends(t, woken)
      PROVE  \E to \in {"idle", "tell"} : pc' = [pc EXCEPT ![t] = to]
  BY <1>e DEF Ends
<1>20. CASE SendFails(t)
  <2>1. Sends(t) /\ Done(t) /\ Releases(value[t]) /\ UNCHANGED <<buffer, made, fired>>
    BY <1>20 DEF SendFails
  <2> QED BY <2>1, <1>b, OnceEnds DEF Done, Goes
<1>21. CASE SendHands(t)
  <2>0. PICK r : r = receiving[ClaimFirst(receiving)] OBVIOUS
  <2>1. /\ Sends(t) /\ ClaimFirst(receiving) # 0
        /\ Claims(t, {r}, "MOVED") /\ Ends(t, {r})
        /\ value' = [value EXCEPT ![r] = value[t], ![t] = NoValue]
        /\ UNCHANGED <<buffer, gone, made>>
    BY <2>0, <1>21 DEF SendHands, Sending
  <2>2. r \in Receivers /\ fired[r] = "NONE" /\ r \in Tasks /\ r # t BY <2>0, <2>1, <1>r, <1>b, <1>s
  <2>3. /\ \A u \in Tasks : value'[u] = IF u = t THEN NoValue ELSE IF u = r THEN value[t] ELSE value[u]
        /\ \A u \in Tasks : fired'[u] = IF u = r THEN "MOVED" ELSE fired[u]
    BY <2>1, <2>2, <1>t DEF Claims
  <2>4. Has(t, value[t]) /\ ~Owns(r) /\ Owns(r)'
    <3>1. Has(t, value[t]) BY <2>1, <1>b DEF Has
    <3>2. r \notin Senders /\ fired'[r] = "MOVED" BY <2>2, <2>3, <1>s
    <3>3. ~Owns(r) BY <2>2, <3>2, OwnsIs
    <3>4. Owns(r)' BY <3>2, OwnsNext
    <3> QED BY <3>1, <3>3, <3>4
  <2>5. \A v \in Pairs, u \in Tasks :
          Has(u, v)' <=> IF u = r THEN v = value[t] ELSE Has(u, v) /\ u # t
    BY <2>2, <2>3, <2>4, NoValueApart, OwnsIs DEF Has, Owns
  <2>6. ASSUME NEW v \in Pairs PROVE Placed(v)'
    <3>1. Placed(v) /\ made[v[1]] \in Nat /\ made'[v[1]] = made[v[1]] BY <1>t, <2>1 DEF OnceInv, Pairs
    <3>2. CASE v = value[t]
      <4>1. ~Nowhere(v) /\ ~Nowhere(v)' BY <2>2, <2>4, <2>5, <3>2 DEF Nowhere
      <4>2. \A u \in Tasks : Has(u, v)' <=> u = r BY <2>4, <2>5, <3>1, <3>2, <2>2 DEF Placed
      <4>3. v \notin ToSet(buffer') BY <2>1, <2>4, <3>1, <3>2 DEF Placed
      <4> QED BY <2>1, <3>1, <4>1, <4>2, <4>3, PlacedMoved
    <3>3. CASE v # value[t]
      <4>1. \A u \in Tasks : Has(u, v)' <=> Has(u, v) BY <2>4, <2>5, <3>3 DEF Has
      <4> QED BY <2>1, <3>1, <4>1, PlacedSame
    <3> QED BY <3>2, <3>3
  <2>7. \A s \in Senders : value'[s] # NoValue <=> pc'[s] \in Busy
    <3>1. PICK to \in {"idle", "tell"} : pc' = [pc EXCEPT ![t] = to] BY <2>1, <1>e
    <3>2. \A s \in Senders : pc'[s] = IF s = t THEN to ELSE pc[s] BY <3>1, <1>t, <1>s
    <3> QED BY <2>2, <2>3, <3>2, <1>s DEF OnceInv, Busy
  <2> QED BY <2>1, <2>6, <2>7 DEF OnceInv
<1>22. CASE SendBuffers(t)
  <2>1. /\ Sends(t) /\ Done(t) /\ buffer' = Append(buffer, value[t]) /\ UNCHANGED <<gone, made, fired>>
    BY <1>22 DEF SendBuffers, Sending
  <2>2. \A u \in Tasks : value'[u] = IF u = t THEN NoValue ELSE value[u] BY <2>1, <1>t DEF Done
  <2>3. \A s \in Senders : value'[s] # NoValue <=> pc'[s] \in Busy
    BY <2>1, <2>2, <1>t, <1>s DEF OnceInv, Busy, Done, Goes
  <2>4. \A v \in Values : gone'[v] = gone[v] + (IF v \in ToSet(buffer) \ ToSet(buffer) THEN 1 ELSE 0)
    <3>1. \A v \in Values : gone[v] \in {0, 1} BY <1>t, ValuesArePairs DEF OnceInv, Placed
    <3> QED BY <2>1, <3>1
  <2>5. buffer \in Seq(Pairs) /\ Distinct(buffer) /\ DOMAIN gone' = Values BY <2>1, <1>t DEF OnceInv
  <2> QED BY <2>1, <2>2, <2>3, <2>4, <2>5, <1>b, <1>s, OnceBuffers
<1>23. CASE SendWaits(t)
  <2>1. CASE pc[t] = "tryOffer"
    <3>1. Sends(t) /\ Done(t) /\ Releases(value[t]) /\ UNCHANGED <<buffer, made, fired>>
      BY <2>1, <1>23 DEF SendWaits, Sending
    <3> QED BY <3>1, <1>b, OnceEnds DEF Done, Goes
  <2>2. CASE pc[t] # "tryOffer"
    <3>1. /\ pc[t] = "send" /\ pc' = [pc EXCEPT ![t] = "waiting"]
          /\ UNCHANGED <<buffer, made, fired, value, gone>>
      BY <2>2, <1>23 DEF SendWaits, Goes
    <3> QED BY <3>1, <1>q, <1>t DEF Busy
  <2> QED BY <2>1, <2>2
<1>24. CASE ReceiveTakes(t)
  <2>1. /\ buffer # <<>> /\ Releases(Head(buffer)) /\ UNCHANGED <<value, made>>
        /\ pc[t] = "receive" /\ t \in Receivers
    BY <1>24 DEF ReceiveTakes, CallInv
  <2>2. /\ Tail(buffer) \in Seq(Pairs) /\ Distinct(Tail(buffer)) /\ Head(buffer) \in Pairs
        /\ ToSet(Tail(buffer)) = ToSet(buffer) \ {Head(buffer)} /\ Head(buffer) \in ToSet(buffer)
    BY <2>1, BufferRest
  <2>3. /\ DOMAIN gone' = Values
        /\ \A v \in Values :
             gone'[v] = gone[v] + (IF v \in ToSet(buffer) \ ToSet(Tail(buffer)) THEN 1 ELSE 0)
    <3>1. \A v \in Values : gone[v] \in {0, 1} BY <1>t, ValuesArePairs DEF OnceInv, Placed
    <3>2. \A v \in Values : gone'[v] = IF v = Head(buffer) THEN gone[v] + 1 ELSE gone[v]
      BY <2>1, <1>t DEF Releases, OnceInv
    <3> QED BY <3>1, <3>2, <2>1, <2>2, <1>t DEF Releases, OnceInv
  <2>4. \A s \in Senders : pc'[s] = pc[s]
    <3>1. \E woken : Ends(t, woken) BY <1>24 DEF ReceiveTakes
    <3> QED BY <3>1, <2>1, <1>e, <1>s, <1>t
  <2>5. CASE ClaimFirst(sending) = 0
    <3>1. buffer' = Tail(buffer) /\ Claims(t, {}, "MOVED") BY <2>5, <1>24 DEF ReceiveTakes
    <3>2. \A u \in Tasks : fired'[u] = fired[u] BY <3>1 DEF Claims
    <3> QED BY <2>1, <2>2, <2>3, <2>4, <3>1, <3>2, <1>t, OnceDrops
  <2>6. CASE ClaimFirst(sending) # 0
    <3>0. PICK s : s = sending[ClaimFirst(sending)] OBVIOUS
    <3>1. buffer' = Append(Tail(buffer), value[s]) /\ Claims(t, {s}, "MOVED")
      BY <2>6, <3>0, <1>24 DEF ReceiveTakes
    <3>2. s \in Senders /\ fired[s] = "NONE" /\ value[s] \in Pairs /\ Owns(s) BY <2>6, <3>0, <1>c
    <3>3. \A u \in Tasks : fired'[u] = IF u = s THEN "MOVED" ELSE fired[u] BY <3>1 DEF Claims
    <3>4. ~Owns(s)'
      <4>1. fired'[s] = "MOVED" BY <3>2, <3>3, <1>s
      <4> QED BY <3>2, <4>1, OwnsNext
    <3>5. \A x \in Senders : value'[x] # NoValue <=> pc'[x] \in Busy BY <2>1, <2>4, <1>t DEF OnceInv
    <3>6. \A u \in Tasks \ {s} : value'[u] = value[u] /\ fired'[u] = fired[u] BY <2>1, <3>3
    <3>7. ToSet(Tail(buffer)) \subseteq ToSet(buffer) BY <2>2
    <3>8. made' = made BY <2>1
    <3> QED BY <2>2, <2>3, <3>1, <3>2, <3>4, <3>5, <3>6, <3>7, <3>8, <1>t, OnceBuffers
  <2> QED BY <2>5, <2>6
<1>25. CASE ReceiveMeets(t)
  <2>0. PICK s : s = sending[ClaimFirst(sending)] OBVIOUS
  <2>1. /\ Claims(t, {s}, "MOVED") /\ Ends(t, {s}) /\ Releases(value[s])
        /\ ClaimFirst(sending) # 0 /\ UNCHANGED <<buffer, value, made>>
        /\ pc[t] = "receive" /\ t \in Receivers
    BY <2>0, <1>25 DEF ReceiveMeets, CallInv
  <2>2. s \in Senders /\ fired[s] = "NONE" /\ value[s] \in Pairs /\ Owns(s) BY <2>0, <2>1, <1>c
  <2>3. \A u \in Tasks : fired'[u] = IF u = s THEN "MOVED" ELSE fired[u] BY <2>1 DEF Claims
  <2>4. \A v \in Pairs, u \in Tasks : Has(u, v)' <=> Has(u, v) /\ u # s
    BY <2>1, <2>2, <2>3, <1>s, OwnsIs DEF Has, Owns
  <2>5. DOMAIN gone' = Values /\ \A v \in Values : gone'[v] = IF v = value[s] THEN gone[v] + 1 ELSE gone[v]
    BY <2>1, <1>t DEF Releases, OnceInv
  <2>6. ASSUME NEW v \in Pairs PROVE Placed(v)'
    <3>1. Placed(v) /\ made[v[1]] \in Nat /\ made'[v[1]] = made[v[1]] BY <1>t, <2>1 DEF OnceInv, Pairs
    <3>2. CASE v = value[s]
      <4>1. Has(s, v) /\ s \in Tasks BY <2>2, <3>2, <1>s DEF Has
      <4>2. ~Nowhere(v) /\ Nowhere(v)' BY <4>1, <3>1, <2>1, <2>4 DEF Nowhere, Placed
      <4> QED BY <3>1, <3>2, <4>2, <2>5, PlacedGone
    <3>3. CASE v # value[s]
      <4>1. \A u \in Tasks : Has(u, v)' <=> Has(u, v) BY <2>4, <3>3 DEF Has
      <4> QED BY <2>1, <2>5, <3>1, <3>3, <4>1, PlacedSame
    <3> QED BY <3>2, <3>3
  <2>7. \A x \in Senders : value'[x] # NoValue <=> pc'[x] \in Busy
    <3>1. \A x \in Senders : pc'[x] = pc[x] BY <2>1, <1>e, <1>s, <1>t
    <3> QED BY <2>1, <3>1, <1>t DEF OnceInv
  <2> QED BY <2>1, <2>5, <2>6, <2>7, <1>t DEF OnceInv
<1>26. CASE ReceiveWaits(t)
  <2>1. /\ t \in Receivers /\ UNCHANGED <<buffer, gone, made, value, fired>>
        /\ \E to \in {"idle", "waiting"} : pc' = [pc EXCEPT ![t] = to]
    BY <1>26 DEF ReceiveWaits, Goes, CallInv
  <2> QED BY <2>1, <1>q, <1>s, <1>t
<1>27. CASE Tell(t)
  <2>1. /\ UNCHANGED <<buffer, gone, made, value, fired>>
        /\ pc[t] \in {"tell", "tellUnhold"}
        /\ \E to \in {"tell", "tellUnhold", "unhold", "idle"} : pc' = [pc EXCEPT ![t] = to]
    BY <1>27 DEF Tell
  <2> QED BY <2>1, <1>q, <1>t DEF Busy
<1>28. CASE CancelClaims(t)
  <2>1. /\ UNCHANGED <<buffer, gone, made, value, pc>> /\ fired[t] = "NONE"
        /\ fired' = [fired EXCEPT ![t] = "CANCELLED"]
    BY <1>28 DEF CancelClaims
  <2>2. \A u \in Tasks : fired'[u] = "MOVED" <=> fired[u] = "MOVED" BY <2>1, <1>t
  <2> QED BY <2>1, <2>2, <1>q
<1>29. CASE Returns(t)
  <2>1. CASE fired[t] = "CANCELLED"
    <3>1. UNCHANGED <<buffer, gone, made, value, fired>> /\ pc[t] = "waiting"
          /\ pc' = [pc EXCEPT ![t] = "unlist"]
      BY <2>1, <1>29 DEF Returns, Goes
    <3> QED BY <3>1, <1>q, <1>t DEF Busy
  <2>2. CASE fired[t] # "CANCELLED"
    <3>1. /\ UNCHANGED <<buffer, made>> /\ value' = [value EXCEPT ![t] = NoValue]
          /\ pc' = [pc EXCEPT ![t] = "idle"] /\ fired' = [fired EXCEPT ![t] = "NONE"]
          /\ IF Owns(t) THEN Releases(value[t]) ELSE UNCHANGED gone
      BY <2>2, <1>29 DEF Returns, Done, Goes, Forgets
    <3>2. \A u \in Tasks \ {t} : fired'[u] = fired[u] BY <3>1, <1>t
    <3> QED BY <3>1, <3>2, <1>t, OnceEnds
  <2> QED BY <2>1, <2>2
<1>30. CASE Unlist(t)
  <2>1. /\ UNCHANGED <<buffer, made>> /\ value' = [value EXCEPT ![t] = NoValue]
        /\ pc' = [pc EXCEPT ![t] = "idle"] /\ fired' = [fired EXCEPT ![t] = "NONE"]
        /\ IF t \in Senders THEN Releases(value[t]) ELSE UNCHANGED gone
    BY <1>30 DEF Unlist, Done, Goes, Forgets
  <2>2. \A u \in Tasks \ {t} : fired'[u] = fired[u] BY <2>1, <1>t
  <2>3. Owns(t) <=> t \in Senders
    <3>1. fired[t] = "CANCELLED" BY <1>30 DEF Unlist, CallInv
    <3> QED BY <3>1, OwnsIs
  <2> QED BY <2>1, <2>2, <2>3, <1>t, OnceEnds
<1>31. CASE CopyHolds(t)
  <2>1. UNCHANGED <<buffer, gone, made, value, fired>> /\ pc[t] = "copying"
        /\ pc' = [pc EXCEPT ![t] = "idle"]
    BY <1>31 DEF CopyHolds, Goes
  <2> QED BY <2>1, <1>q, <1>t DEF Busy
\* A hold of the channel is let go.
<1>u. ASSUME Unholds(t), pc[t] \notin Busy PROVE OnceInv'
  <2>1. UNCHANGED <<value, fired, made>> BY <1>u DEF Unholds
  <2>2. \A s \in Senders : pc'[s] \in Busy <=> pc[s] \in Busy
    <3>1. \E to \in {"idle", "hush"} : pc' = [pc EXCEPT ![t] = to] BY <1>u DEF Unholds
    <3> QED BY <3>1, <1>t, <1>u, <1>s DEF Busy
  <2>3. CASE rc = 1
    <3>1. buffer' = <<>>
          /\ gone' = [v \in Values |-> gone[v] + (IF v \in ToSet(buffer) THEN 1 ELSE 0)]
      BY <2>3, <1>u DEF Unholds
    <3>2. <<>> \in Seq(Pairs) /\ Distinct(<<>>) /\ ToSet(<<>>) = {} BY DEF Distinct, ToSet
    <3> QED BY <2>1, <2>2, <3>1, <3>2, <1>t, OnceDrops
  <2>4. CASE rc # 1
    <3>1. UNCHANGED <<buffer, gone>> BY <2>4, <1>u DEF Unholds
    <3> QED BY <2>1, <2>2, <3>1, <1>t, OnceQuiet
  <2> QED BY <2>3, <2>4
<1>32. CASE Unhold(t) BY <1>32, <1>u DEF Unhold, Busy
<1>33. CASE ReceiverRelease(t) BY <1>33, <1>u DEF ReceiverRelease, Busy
<1>34. CASE Hush(t)
  <2>1. pc[t] = "hush" /\ UNCHANGED <<buffer, gone, made, value>> BY <1>34 DEF Hush
  <2>2. \E woken \in {{}, Discards} : Claims(t, woken, "DISCARDED") /\ Ends(t, woken)
    BY <1>34 DEF Hush
  <2>3. \A u \in Discards : u \in Tasks /\ fired[u] = "NONE" BY <1>l DEF Discards
  <2>4. \A u \in Tasks : fired'[u] = "MOVED" <=> fired[u] = "MOVED" BY <2>2, <2>3, <1>m
  <2>5. \E to \in {"idle", "tell"} : pc' = [pc EXCEPT ![t] = to] BY <2>2, <1>e
  <2> QED BY <2>1, <2>4, <2>5, <1>q, <1>t DEF Busy
<1>35. CASE t \in Senders /\ SendStarts(t)
  <2> DEFINE k == made[t] + 1
             v0 == <<t, k>>
  <2>1. /\ pc[t] = "idle" /\ made' = [made EXCEPT ![t] = k] /\ UNCHANGED <<buffer, fired>>
        /\ t \in Senders /\ k \in Nat /\ k = made[t] + 1 /\ v0 \in Pairs
    BY <1>35, <1>t DEF SendStarts, Pairs
  <2>2. fired[t] = "NONE" /\ value[t] = NoValue
    BY <2>1, <1>t, <1>s DEF CallInv, OnceInv, Busy
  <2>3. \/ /\ pc' = [pc EXCEPT ![t] = "send"] \/ pc' = [pc EXCEPT ![t] = "tryOffer"]
           /\ value' = [value EXCEPT ![t] = v0] /\ gone' = gone
        \/ /\ UNCHANGED <<pc, value>>
           /\ gone' = [gone EXCEPT ![v0] = @ + 1]
    BY <1>35 DEF SendStarts, Goes, Releases
  <2>p. v0[1] = t /\ v0[2] = k OBVIOUS
  <2> HIDE DEF v0, k
  <2>4. Nowhere(v0) /\ (v0 \in Values => gone[v0] = 0)
    <3>1. Placed(v0) BY <2>1, <1>t DEF OnceInv
    <3> QED BY <3>1, <2>1, <2>p, <1>t DEF Placed
  <2>5. \A s \in Senders : made'[s] = IF s = t THEN k ELSE made[s] BY <2>1, <1>t
  <2>6. \A v \in Pairs : v # v0 => (v[2] <= made'[v[1]] <=> v[2] <= made[v[1]])
    <3> SUFFICES ASSUME NEW v \in Pairs, v # v0 PROVE v[2] <= made'[v[1]] <=> v[2] <= made[v[1]]
      OBVIOUS
    <3>1. v = <<v[1], v[2]>> /\ v[1] \in Senders /\ v[2] \in Nat BY DEF Pairs
    <3>2. v[1] = t => v[2] # k BY <3>1 DEF v0
    <3> QED BY <3>1, <3>2, <2>1, <2>5, <1>t
  <2>7. \A v \in Pairs : v[1] \in Senders /\ v[2] \in Nat /\ made[v[1]] \in Nat /\ made'[v[1]] \in Nat
    BY <2>1, <2>5, <1>t DEF Pairs
  <2>8. ASSUME NEW v \in Pairs, v # v0, \A u \in Tasks : Has(u, v)' <=> Has(u, v),
               v \in Values => gone'[v] = gone[v]
        PROVE  Placed(v)'
    <3>1. Placed(v) BY <1>t DEF OnceInv
    <3> QED BY <3>1, <2>1, <2>6, <2>7, <2>8 DEF Placed, Nowhere
  <2>9. CASE /\ pc' = [pc EXCEPT ![t] = "send"] \/ pc' = [pc EXCEPT ![t] = "tryOffer"]
             /\ value' = [value EXCEPT ![t] = v0] /\ gone' = gone
    <3>1. \A u \in Tasks : value'[u] = IF u = t THEN v0 ELSE value[u] BY <2>9, <1>t
    <3>2. \A v \in Pairs, u \in Tasks : Has(u, v)' <=> IF u = t THEN v = v0 ELSE Has(u, v)
      BY <3>1, <2>1, <2>2, OwnsIs DEF Has, Owns
    <3>3. \A v \in Pairs : ~Has(t, v) BY <2>2, NoValueApart DEF Has
    <3>4. ASSUME NEW v \in Pairs PROVE Placed(v)'
      <4>1. CASE v = v0
        <5>1. \A u \in Tasks : Has(u, v)' <=> u = t BY <3>2, <2>4, <4>1 DEF Nowhere
        <5>2. v \notin ToSet(buffer') /\ v[2] <= made'[v[1]] BY <2>1, <2>4, <2>5, <2>p, <4>1 DEF Nowhere
        <5>3. v \in Values => gone'[v] = 0 BY <2>4, <2>9, <4>1
        <5> QED BY <5>1, <5>2, <5>3, <2>7 DEF Placed, Nowhere
      <4>2. CASE v # v0
        <5>1. \A u \in Tasks : Has(u, v)' <=> Has(u, v) BY <3>2, <3>3, <4>2
        <5> QED BY <4>2, <5>1, <2>8, <2>9
      <4> QED BY <4>1, <4>2
    <3>5. \A s \in Senders : value'[s] # NoValue <=> pc'[s] \in Busy
      <4>1. v0 # NoValue BY <2>1, NoValueApart
      <4>2. \A s \in Senders : pc'[s] = IF s = t THEN pc'[t] ELSE pc[s] BY <2>9, <1>t, <1>s
      <4>3. pc'[t] \in Busy BY <2>9, <1>t DEF Busy
      <4> QED BY <4>1, <4>2, <4>3, <3>1, <1>t, <1>s DEF OnceInv
    <3> QED BY <2>1, <2>9, <3>4, <3>5, <1>t DEF OnceInv
  <2>10. CASE UNCHANGED <<pc, value>> /\ gone' = [gone EXCEPT ![v0] = @ + 1]
    <3>1. \A v \in Pairs, u \in Tasks : Has(u, v)' <=> Has(u, v) BY <2>1, <2>10 DEF Has, Owns
    <3>2. /\ DOMAIN gone' = Values
          /\ \A v \in Values : gone'[v] = IF v = v0 THEN gone[v] + 1 ELSE gone[v]
      BY <2>10, <1>t DEF OnceInv
    <3>3. ASSUME NEW v \in Pairs PROVE Placed(v)'
      <4>1. CASE v = v0
        <5>1. Nowhere(v)' BY <2>1, <2>4, <3>1, <4>1 DEF Nowhere
        <5>2. v[2] <= made'[v[1]] BY <2>1, <2>5, <2>p, <4>1
        <5>3. v \in Values => gone'[v] = 1 BY <2>4, <3>2, <4>1
        <5> QED BY <5>1, <5>2, <5>3, <2>7 DEF Placed, Nowhere
      <4>2. CASE v # v0 BY <4>2, <2>8, <3>1, <3>2
      <4> QED BY <4>1, <4>2
    <3> QED BY <2>1, <2>10, <3>2, <3>3, <1>t DEF OnceInv
  <2> QED BY <2>3, <2>9, <2>10
<1>36. CASE t \in Receivers /\ ReceiveStarts(t)
  <2>1. UNCHANGED <<buffer, gone, made, value, fired>> /\ pc' = [pc EXCEPT ![t] = "receive"]
    BY <1>36 DEF ReceiveStarts, Goes
  <2> QED BY <2>1, <1>36, <1>q, <1>s, <1>t
<1>k. \A u \in Closes : u \in Tasks /\ fired[u] = "NONE" BY <1>l DEF Closes
<1>37. CASE Close(t)
  <2>1. /\ Claims(t, Closes, "CLOSED") /\ Ends(t, Closes) /\ pc[t] = "idle"
        /\ UNCHANGED <<buffer, gone, made, value>>
    BY <1>37 DEF Close, CloseWaits
  <2>2. \A u \in Tasks : fired'[u] = "MOVED" <=> fired[u] = "MOVED" BY <2>1, <1>k, <1>m
  <2>3. \E to \in {"idle", "tell"} : pc' = [pc EXCEPT ![t] = to] BY <2>1, <1>e
  <2> QED BY <2>1, <2>2, <2>3, <1>q, <1>t DEF Busy
<1>38. CASE CopyCounts(t)
  <2>1. UNCHANGED <<buffer, gone, made, value, fired>> /\ pc[t] = "idle"
        /\ pc' = [pc EXCEPT ![t] = "copying"]
    BY <1>38 DEF CopyCounts, Goes
  <2> QED BY <2>1, <1>q, <1>t DEF Busy
<1>39. CASE SenderRelease(t)
  <2>1. /\ pc[t] = "idle" /\ UNCHANGED <<buffer, gone, made, value>>
        /\ \E to \in {"unhold", "tellUnhold"} : pc' = [pc EXCEPT ![t] = to]
        /\ Claims(t, Closes, "CLOSED") \/ fired' = fired
    BY <1>39 DEF SenderRelease, Goes, CloseWaits
  <2>2. \A u \in Tasks : fired'[u] = "MOVED" <=> fired[u] = "MOVED" BY <2>1, <1>k, <1>m
  <2> QED BY <2>1, <2>2, <1>q, <1>t DEF Busy
<1>41. CASE Cancel(t) BY <1>41, <1>q DEF Cancel
<1> QED BY <1>1, <1>20, <1>21, <1>22, <1>23, <1>24, <1>25, <1>26, <1>27, <1>28, <1>29, <1>30, <1>31,
           <1>32, <1>33, <1>34, <1>35, <1>36, <1>37, <1>38, <1>39, <1>41 DEF Step, Starts

LEMMA OnceInit == Init => OnceInv
<1> SUFFICES ASSUME Init PROVE OnceInv OBVIOUS
<1>1. <<>> \in Seq(Pairs) /\ Distinct(<<>>) /\ ToSet(<<>>) = {} BY DEF Distinct, ToSet
<1>2. Senders \subseteq Tasks BY DEF Tasks
<1>3. \A v \in Pairs : Nowhere(v) BY <1>1, NoValueApart DEF Init, Nowhere, Has
<1>4. \A v \in Pairs : v[1] \in Senders /\ v[2] \in Nat /\ made[v[1]] = 0 BY DEF Init, Pairs
<1>5. \A v \in Values : v[2] >= 1 /\ v[2] \in Nat
  <2>1. MaxSends \in Nat BY ChannelAssumption
  <2> QED BY <2>1 DEF Values
<1>6. \A v \in Pairs : Placed(v) BY <1>3, <1>4, <1>5 DEF Placed, Nowhere, Init
<1>7. \A t \in Senders : value[t] # NoValue <=> pc[t] \in Busy BY <1>2 DEF Init, Busy
<1>8. DOMAIN gone = Values /\ buffer = <<>> BY DEF Init
<1> QED BY <1>1, <1>6, <1>7, <1>8 DEF OnceInv

LEMMA OnceHolds == Spec => []OnceInv
<1>1. Inv /\ OnceInv /\ [Next]_vars => OnceInv'
  <2> SUFFICES ASSUME Inv, OnceInv, [Next]_vars PROVE OnceInv' OBVIOUS
  <2>1. CASE Next BY <2>1, OnceStep DEF Inv
  <2>2. CASE UNCHANGED vars
    BY <2>2, OnceQuiet DEF vars, channelVars, waiterVars, taskVars, historyVars
  <2> QED BY <2>1, <2>2
<1> QED BY <1>1, OnceInit, InvHolds, PTL DEF Spec

\* A value sent is in one place, a hand or the buffer, until it is released, and is
\* released once: whatever is claimed, cancelled, closed, discarded or freed meanwhile
\* (`try_send`, `try_receive`, `drop_unsent`, `receiver_release`).
THEOREM ValuesAreReleasedOnce == Spec => []ReleasedOnce
<1>1. Types /\ OnceInv => ReleasedOnce
  <2> SUFFICES ASSUME Types, OnceInv, NEW v \in Values
               PROVE  gone[v] + Cardinality(InHand(v)) + Cardinality(Buffered(v)) =
                        IF made[v[1]] >= v[2] THEN 1 ELSE 0
    BY DEF ReleasedOnce
  <2>1. Placed(v) /\ gone[v] \in {0, 1} BY ValuesArePairs DEF OnceInv, Placed
  <2>2. InHand(v) = {t \in Tasks : Has(t, v)} BY DEF InHand, Has
  <2>3. /\ Cardinality(InHand(v)) = IF \A t \in Tasks : ~Has(t, v) THEN 0 ELSE 1
    <3>1. CASE \A t \in Tasks : ~Has(t, v)
      <4>1. InHand(v) = {} BY <2>2, <3>1
      <4> QED BY <3>1, <4>1, FS_EmptySet
    <3>2. ASSUME NEW t \in Tasks, Has(t, v) PROVE Cardinality(InHand(v)) = 1
      <4>1. InHand(v) = {t} BY <2>1, <2>2, <3>2 DEF Placed
      <4> QED BY <4>1, FS_Singleton
    <3> QED BY <3>1, <3>2
  <2>4. /\ Cardinality(Buffered(v)) = IF v \in ToSet(buffer) THEN 1 ELSE 0
    <3>1. ToSet(buffer) = {buffer[i] : i \in 1 .. Len(buffer)} BY LenProperties DEF OnceInv, ToSet
    <3>2. CASE v \notin ToSet(buffer)
      <4>1. Buffered(v) = {} BY <3>1, <3>2 DEF Buffered
      <4> QED BY <3>2, <4>1, FS_EmptySet
    <3>3. CASE v \in ToSet(buffer)
      <4>1. PICK i \in 1 .. Len(buffer) : buffer[i] = v BY <3>1, <3>3
      <4>2. Buffered(v) = {i} BY <4>1 DEF OnceInv, Distinct, Buffered
      <4> QED BY <3>3, <4>2, FS_Singleton
    <3> QED BY <3>2, <3>3
  <2>5. made[v[1]] >= v[2] <=> ~(v[2] > made[v[1]])
    <3>1. v \in Pairs BY ValuesArePairs
    <3>2. v[1] \in Senders /\ v[2] \in Nat BY <3>1 DEF Pairs
    <3>3. made[v[1]] \in Nat BY <3>2 DEF Types
    <3> QED BY <3>2, <3>3
  <2> QED BY <2>1, <2>3, <2>4, <2>5 DEF Placed, Nowhere
<1>2. Inv => Types BY DEF Inv
<1> QED BY <1>1, <1>2, InvHolds, OnceHolds, PTL

-----------------------------------------------------------------------------
(***************************************************************************)
(* The types of what the bounds cap.                                       *)
(***************************************************************************)
Bounds ==
  /\ capacity \in Capacities /\ discard \in MayDiscard
  /\ buffer \in Seq(Values)
  /\ value \in [Tasks -> Values \cup {NoValue}]
  /\ told \in [Tasks -> BOOLEAN] /\ cancelled \in [Tasks -> BOOLEAN]
  /\ copies \in 0 .. MaxCopies
  /\ made \in [Senders -> 0 .. MaxSends]
  /\ last \in Values \cup {NoValue}
  /\ gone \in [Values -> Nat]

\* A task sends no more than all may.
LEMMA SendsFew ==
  ASSUME made \in [Senders -> 0 .. MaxSends], NEW t \in Senders, Cardinality(Made) < MaxSends
  PROVE  made[t] < MaxSends
<1> SUFFICES ASSUME ~(made[t] < MaxSends) PROVE FALSE OBVIOUS
<1>1. MaxSends \in Nat /\ IsFiniteSet(Senders)
  <2>1. Senders \in SUBSET Tasks BY DEF Tasks
  <2>2. IsFiniteSet(Tasks) BY ChannelAssumption
  <2> QED BY <2>1, <2>2, FS_Subset, ChannelAssumption
<1>2. made[t] = MaxSends BY <1>1
<1>3. IsFiniteSet(Made)
  <2>1. IsFiniteSet(1 .. MaxSends) BY <1>1, FS_Interval
  <2>2. IsFiniteSet(Values) BY <1>1, <2>1, FS_Product DEF Values
  <2>3. Made \in SUBSET Values BY DEF Made
  <2> QED BY <2>2, <2>3, FS_Subset
<1> DEFINE f == [k \in 1 .. MaxSends |-> <<t, k>>]
<1>4. \A k \in 1 .. MaxSends : <<t, k>> \in Made BY <1>1, <1>2 DEF Made, Values
<1>5. f \in Injection(1 .. MaxSends, Made) BY <1>4 DEF Injection, IsInjective
<1>6. Cardinality(1 .. MaxSends) <= Cardinality(Made) BY <1>3, <1>5, FS_Injection
<1>7. Cardinality(1 .. MaxSends) = MaxSends BY <1>1, FS_Interval
<1>8. Cardinality(Made) \in Nat BY <1>3, FS_CardinalityType
<1> QED BY <1>1, <1>6, <1>7, <1>8

LEMMA BoundsStep == ASSUME Types, CallInv, ListInv, OnceInv, Bounds, Next PROVE Bounds'
<1> USE DEF madeVars, channelVars, countVars, waiterVars, taskVars, historyVars
<1>1. PICK t \in Tasks : Step(t) \/ Starts(t) BY DEF Next
<1> DEFINE Some == Values \cup {NoValue}
<1>2. /\ capacity \in Capacities /\ discard \in MayDiscard /\ buffer \in Seq(Values)
      /\ value \in [Tasks -> Some] /\ told \in [Tasks -> BOOLEAN] /\ cancelled \in [Tasks -> BOOLEAN]
      /\ copies \in 0 .. MaxCopies /\ made \in [Senders -> 0 .. MaxSends] /\ last \in Some
      /\ gone \in [Values -> Nat]
  BY DEF Bounds
<1>3. capacity' \in Capacities /\ discard' \in MayDiscard BY <1>1, <1>2 DEF Step, Starts
<1>4. ASSUME NEW v, Releases(v) PROVE gone' \in [Values -> Nat]
  <2>1. gone' = [w \in Values |-> IF w = v THEN gone[w] + 1 ELSE gone[w]]
    BY <1>2, <1>4 DEF Releases
  <2>2. \A w \in Values : gone[w] \in Nat /\ gone[w] + 1 \in Nat BY <1>2
  <2> QED BY <2>1, <2>2
<1>5. ASSUME Done(t) PROVE value' \in [Tasks -> Some] BY <1>2, <1>5 DEF Done
<1>6. ASSUME Forgets(t) PROVE told' \in [Tasks -> BOOLEAN] BY <1>2, <1>6 DEF Forgets
<1>7. MaxCopies \in Nat /\ MaxSends \in Nat BY ChannelAssumption
<1>8. Senders \subseteq Tasks BY DEF Tasks
<1>9. ASSUME Sends(t) PROVE t \in Senders /\ value[t] \in Values
  <2>1. t \in Senders BY <1>9 DEF Sends, CallInv
  <2>2. value[t] # NoValue BY <2>1, <1>9 DEF OnceInv, Sends, Busy
  <2> QED BY <2>1, <2>2, <1>2
<1>10. /\ Distinct(receiving) /\ Distinct(sending)
       /\ receiving \in Seq(Receivers) /\ sending \in Seq(Senders)
       /\ ToSet(receiving) \subseteq Receivers /\ ToSet(sending) \subseteq Senders
  BY ListedTasks DEF ListInv, Types
<1>11. ClaimFirst(sending) # 0 =>
         sending[ClaimFirst(sending)] \in Senders /\ value[sending[ClaimFirst(sending)]] \in Values
  <2> SUFFICES ASSUME ClaimFirst(sending) # 0
               PROVE  LET s == sending[ClaimFirst(sending)] IN s \in Senders /\ value[s] \in Values
    OBVIOUS
  <2>1. PICK s : s = sending[ClaimFirst(sending)] OBVIOUS
  <2>2. s \in ToSet(sending) BY <2>1, <1>10, ClaimsFirst
  <2>3. s \in Senders /\ pc[s] \in {"waiting", "unlist"} BY <2>2, <1>10 DEF ListInv
  <2>4. value[s] # NoValue BY <2>3 DEF OnceInv, Busy
  <2> QED BY <2>1, <2>3, <2>4, <1>2, <1>8
<1>12. buffer # <<>> => Head(buffer) \in Values /\ Tail(buffer) \in Seq(Values)
  BY <1>2, HeadTailProperties
<1> HIDE DEF Some
<1>13. Values \subseteq Some /\ NoValue \in Some BY DEF Some
<1>14. ASSUME /\ buffer' \in Seq(Values) /\ value' \in [Tasks -> Some]
              /\ told' \in [Tasks -> BOOLEAN] /\ cancelled' \in [Tasks -> BOOLEAN]
              /\ copies' \in 0 .. MaxCopies /\ made' \in [Senders -> 0 .. MaxSends] /\ last' \in Some
              /\ gone' \in [Values -> Nat]
       PROVE  Bounds'
  BY <1>3, <1>14 DEF Bounds, Some
<1>20. CASE SendFails(t) BY <1>2, <1>4, <1>5, <1>14, <1>20 DEF SendFails
<1>21. CASE SendHands(t)
  <2>1. value[t] \in Values BY <1>9, <1>21 DEF SendHands, Sending
  <2>2. \E r : value' = [value EXCEPT ![r] = value[t], ![t] = NoValue] BY <1>21 DEF SendHands
  <2>3. value' \in [Tasks -> Some] BY <2>1, <2>2, <1>2, <1>13
  <2> QED BY <2>1, <2>3, <1>2, <1>13, <1>14, <1>21 DEF SendHands
<1>22. CASE SendBuffers(t)
  <2>1. value[t] \in Values BY <1>9, <1>22 DEF SendBuffers, Sending
  <2>2. buffer' \in Seq(Values) BY <2>1, <1>2, <1>22 DEF SendBuffers
  <2> QED BY <2>2, <1>2, <1>5, <1>14, <1>22 DEF SendBuffers
<1>23. CASE SendWaits(t)
  <2>1. CASE pc[t] = "tryOffer" BY <2>1, <1>2, <1>4, <1>5, <1>14, <1>23 DEF SendWaits
  <2>2. CASE pc[t] # "tryOffer" BY <2>2, <1>2, <1>14, <1>23 DEF SendWaits
  <2> QED BY <2>1, <2>2
<1>24. CASE ReceiveTakes(t)
  <2>1. buffer # <<>> /\ last' = Head(buffer) /\ Releases(Head(buffer)) BY <1>24 DEF ReceiveTakes
  <2>2. buffer' \in Seq(Values)
    <3>1. CASE ClaimFirst(sending) = 0 BY <3>1, <2>1, <1>12, <1>24 DEF ReceiveTakes
    <3>2. CASE ClaimFirst(sending) # 0
      <4>1. buffer' = Append(Tail(buffer), value[sending[ClaimFirst(sending)]])
        BY <3>2, <1>24 DEF ReceiveTakes
      <4> QED BY <4>1, <3>2, <2>1, <1>11, <1>12
    <3> QED BY <3>1, <3>2
  <2>3. UNCHANGED <<value, told, cancelled, copies, made>> BY <1>24 DEF ReceiveTakes
  <2> QED BY <2>1, <2>2, <2>3, <1>2, <1>4, <1>12, <1>13, <1>14
<1>25. CASE ReceiveMeets(t)
  <2>1. /\ last' = value[sending[ClaimFirst(sending)]] /\ Releases(value[sending[ClaimFirst(sending)]])
        /\ ClaimFirst(sending) # 0 /\ UNCHANGED <<buffer, value, told, cancelled, copies, made>>
    BY <1>25 DEF ReceiveMeets
  <2> QED BY <2>1, <1>2, <1>4, <1>11, <1>13, <1>14
<1>26. CASE ReceiveWaits(t) BY <1>2, <1>14, <1>26 DEF ReceiveWaits
<1>27. CASE Tell(t) BY <1>2, <1>14, <1>27 DEF Tell
<1>28. CASE CancelClaims(t) BY <1>2, <1>14, <1>28 DEF CancelClaims
<1>29. CASE Returns(t)
  <2>1. CASE fired[t] = "CANCELLED" BY <2>1, <1>2, <1>14, <1>29 DEF Returns
  <2>2. CASE fired[t] # "CANCELLED"
    <3>1. /\ Done(t) /\ Forgets(t) /\ UNCHANGED <<buffer, cancelled, copies, made, last>>
          /\ Releases(value[t]) \/ UNCHANGED gone
      BY <2>2, <1>29 DEF Returns
    <3> QED BY <3>1, <1>2, <1>4, <1>5, <1>6, <1>14
  <2> QED BY <2>1, <2>2
<1>30. CASE Unlist(t)
  <2>1. /\ Done(t) /\ Forgets(t) /\ UNCHANGED <<buffer, cancelled, copies, made, last>>
        /\ Releases(value[t]) \/ UNCHANGED gone
    BY <1>30 DEF Unlist
  <2> QED BY <2>1, <1>2, <1>4, <1>5, <1>6, <1>14
<1>31. CASE CopyHolds(t) BY <1>2, <1>14, <1>31 DEF CopyHolds
<1>32. CASE Unholds(t)
  <2>1. UNCHANGED <<value, told, cancelled, copies, made, last>> BY <1>32 DEF Unholds
  <2>2. CASE rc = 1
    <3>1. buffer' = <<>> /\ gone' = [v \in Values |-> gone[v] + (IF v \in ToSet(buffer) THEN 1 ELSE 0)]
      BY <2>2, <1>32 DEF Unholds
    <3>2. buffer' \in Seq(Values) /\ gone' \in [Values -> Nat] BY <3>1, <1>2
    <3> QED BY <3>2, <2>1, <1>2, <1>14
  <2>3. CASE rc # 1
    <3>1. UNCHANGED <<buffer, gone>> BY <2>3, <1>32 DEF Unholds
    <3> QED BY <3>1, <2>1, <1>2, <1>14
  <2> QED BY <2>2, <2>3
<1>33. CASE Hush(t) BY <1>2, <1>14, <1>33 DEF Hush
<1>34. CASE t \in Senders /\ SendStarts(t)
  <2> DEFINE v == <<t, made[t] + 1>>
  <2>1. /\ Cardinality(Made) < MaxSends /\ made' = [made EXCEPT ![t] = @ + 1]
        /\ UNCHANGED <<buffer, told, cancelled, copies, last>>
        /\ \/ value' = [value EXCEPT ![t] = v] /\ UNCHANGED gone
           \/ Releases(v) /\ UNCHANGED value
    BY <1>34 DEF SendStarts
  <2>2. made[t] < MaxSends BY <2>1, <1>2, <1>34, SendsFew
  <2>3. made' \in [Senders -> 0 .. MaxSends] BY <2>1, <2>2, <1>2, <1>7, <1>34
  <2>4. v \in Values BY <2>2, <1>2, <1>7, <1>34 DEF Values
  <2> HIDE DEF v
  <2>5. CASE value' = [value EXCEPT ![t] = v] /\ UNCHANGED gone
    <3>1. value' \in [Tasks -> Some] BY <2>4, <2>5, <1>2, <1>13
    <3> QED BY <3>1, <2>1, <2>3, <2>5, <1>2, <1>14
  <2>6. CASE Releases(v) /\ UNCHANGED value BY <2>1, <2>3, <2>6, <1>2, <1>4, <1>14
  <2> QED BY <2>1, <2>5, <2>6
<1>35. CASE ReceiveStarts(t) BY <1>2, <1>14, <1>35 DEF ReceiveStarts
<1>36. CASE Close(t) BY <1>2, <1>14, <1>36 DEF Close
<1>37. CASE CopyCounts(t)
  <2>1. copies' \in 0 .. MaxCopies BY <1>2, <1>7, <1>37 DEF CopyCounts
  <2> QED BY <2>1, <1>2, <1>14, <1>37 DEF CopyCounts
<1>38. CASE SenderRelease(t) BY <1>2, <1>14, <1>38 DEF SenderRelease
<1>39. CASE Cancel(t)
  <2>1. cancelled' \in [Tasks -> BOOLEAN] BY <1>2, <1>39 DEF Cancel
  <2> QED BY <2>1, <1>2, <1>14, <1>39 DEF Cancel
<1> QED BY <1>1, <1>20, <1>21, <1>22, <1>23, <1>24, <1>25, <1>26, <1>27, <1>28, <1>29, <1>30, <1>31,
           <1>32, <1>33, <1>34, <1>35, <1>36, <1>37, <1>38, <1>39
       DEF Step, Starts, Unhold, ReceiverRelease

LEMMA BoundsInit == Init => Bounds
<1> SUFFICES ASSUME Init PROVE Bounds OBVIOUS
<1>1. MaxCopies \in Nat /\ MaxSends \in Nat BY ChannelAssumption
<1> QED BY <1>1 DEF Init, Bounds

LEMMA BoundsHolds == Spec => []Bounds
<1>1. Inv /\ OnceInv /\ Bounds /\ [Next]_vars => Bounds'
  <2> SUFFICES ASSUME Inv, OnceInv, Bounds, [Next]_vars PROVE Bounds' OBVIOUS
  <2>1. CASE Next BY <2>1, BoundsStep DEF Inv
  <2>2. CASE UNCHANGED vars
    BY <2>2 DEF vars, madeVars, channelVars, countVars, waiterVars, historyVars, Bounds
  <2> QED BY <2>1, <2>2
<1> QED BY <1>1, BoundsInit, InvHolds, OnceHolds, PTL DEF Spec

\* Every variable keeps its type: the buffer holds no more than the capacity, a list only
\* tasks that send, or receive, and no count goes below zero (`ChannelObject`, `Waiter`).
THEOREM TypesHold == Spec => []TypeOK
<1>1. Types /\ Bounds => TypeOK BY DEF Types, Bounds, TypeOK
<1>2. Inv => Types BY DEF Inv
<1> QED BY <1>1, <1>2, InvHolds, BoundsHolds, PTL

-----------------------------------------------------------------------------
(***************************************************************************)
(* The line of the values sent: what the steps do to it.                   *)
(***************************************************************************)
Standing == [i \in 1 .. Len(sending) |-> value[sending[i]]]

\* The values of the senders that wait.
Rest == Sublist(Standing, WaitingToSend)

LEMMA SendingTypes ==
  ASSUME Types
  PROVE  /\ Len(sending) \in Nat /\ WaitingToSend \in SUBSET (1 .. Len(sending))
         /\ \A i \in 1 .. Len(sending) :
              /\ sending[i] \in Tasks /\ sending[i] \in Senders /\ sending[i] \in ToSet(sending)
              /\ value[sending[i]] \in Sent /\ Standing[i] = value[sending[i]]
<1>1. sending \in Seq(Senders) /\ value \in [Tasks -> Sent] BY DEF Types
<1>2. Len(sending) \in Nat /\ ToSet(sending) = {sending[i] : i \in 1 .. Len(sending)}
  BY <1>1, LenProperties DEF ToSet
<1>3. \A i \in 1 .. Len(sending) : sending[i] \in Senders BY <1>1, ElementOfSeq
<1>4. \A i \in 1 .. Len(sending) : sending[i] \in Tasks /\ value[sending[i]] \in Sent BY <1>1, <1>3 DEF Tasks
<1>5. \A i \in 1 .. Len(sending) : Standing[i] = value[sending[i]] BY DEF Standing
<1>6. WaitingToSend \in SUBSET (1 .. Len(sending)) BY DEF WaitingToSend
<1> QED BY <1>2, <1>3, <1>4, <1>5, <1>6

LEMMA RestTypes ==
  ASSUME Types
  PROVE  Rest \in Seq(Sent) /\ buffer \in Seq(Sent) /\ Line = buffer \o Rest
<1>1. \A i \in WaitingToSend : Standing[i] \in Sent BY SendingTypes
<1>2. Rest \in Seq(Sent) BY <1>1, SendingTypes, SublistSeq DEF Rest
<1> QED BY <1>2 DEF Types, Line, Rest, Standing

LEMMA RestNobody ==
  ASSUME Types, \A u \in ToSet(sending) : ~Waits(u)
  PROVE  Rest = <<>>
<1>1. WaitingToSend = {} BY SendingTypes DEF WaitingToSend
<1> QED BY <1>1, SublistNone DEF Rest

LEMMA RestGone ==
  ASSUME sending' = <<>>
  PROVE  Rest' = <<>>
<1>1. WaitingToSend' = {} BY DEF WaitingToSend
<1>2. Rest' = Sublist(Standing', WaitingToSend') BY DEF Rest
<1> QED BY <1>1, <1>2, SublistNone

\* Who waits stays, with what it sends.
LEMMA RestSame ==
  ASSUME Types, sending' = sending,
         \A u \in ToSet(sending) : /\ fired'[u] = "NONE" <=> fired[u] = "NONE"
                                   /\ fired[u] = "NONE" => value'[u] = value[u]
  PROVE  Rest' = Rest
<1> DEFINE T == WaitingToSend'
           after == Standing'
<1>1. T = WaitingToSend BY SendingTypes DEF WaitingToSend, Waits
<1>2. \A i \in 1 .. Len(sending) : after[i] = value'[sending[i]] BY DEF Standing
<1>3. \A i \in WaitingToSend : Standing[i] = after[i] BY <1>2, SendingTypes DEF WaitingToSend, Waits
<1>4. Rest' = Sublist(after, T) BY DEF Rest
<1> HIDE DEF T, after
<1>5. Sublist(Standing, WaitingToSend) = Sublist(after, WaitingToSend)
  BY <1>3, SendingTypes, SublistSame
<1> QED BY <1>1, <1>4, <1>5 DEF Rest

\* Some that wait are claimed.
LEMMA RestThins ==
  ASSUME Types, sending' = sending, value' = value,
         \A u \in ToSet(sending) : fired'[u] = "NONE" => fired[u] = "NONE"
  PROVE  Rest' \in Seq(Sent) /\ Thinned(Rest', Rest)
<1> DEFINE T == WaitingToSend'
           S == WaitingToSend
           after == Standing'
           left == Rest'
<1>1. T \in SUBSET S BY SendingTypes DEF WaitingToSend, Waits
<1>2. after = Standing BY DEF Standing
<1>3. left = Sublist(after, T) BY DEF Rest
<1> HIDE DEF T, after, left
<1>4. left = Sublist(Standing, T) BY <1>2, <1>3
<1>5. S \in SUBSET (1 .. Len(sending)) /\ Len(sending) \in Nat BY SendingTypes
<1>6. PICK g \in [1 .. Cardinality(T) -> 1 .. Cardinality(S)] :
        /\ Increasing(g, Cardinality(T))
        /\ \A k \in 1 .. Cardinality(T) : Nth(T, k) \in T /\ Nth(T, k) = Nth(S, g[k])
  <2> HIDE DEF S
  <2> QED BY <1>1, <1>5, NthOfSome
<1>7. \A i \in S : Standing[i] \in Sent BY SendingTypes
<1>8. \A i \in T : Standing[i] \in Sent BY <1>1, <1>7
<1>9. T \in SUBSET (1 .. Len(sending)) BY <1>1, <1>5
<1>10. /\ left \in Seq(Sent) /\ Len(left) = Cardinality(T)
       /\ Len(Rest) = Cardinality(S)
  BY <1>4, <1>5, <1>7, <1>8, <1>9, SublistSeq DEF Rest
<1>11. /\ \A k \in 1 .. Cardinality(T) : left[k] = Standing[Nth(T, k)]
       /\ \A k \in 1 .. Cardinality(S) : Rest[k] = Standing[Nth(S, k)]
  BY <1>4 DEF Sublist, Rest
<1> HIDE DEF S
<1>12. \A k \in 1 .. Cardinality(T) : left[k] = Rest[g[k]] BY <1>6, <1>11
<1>13. \E h \in [1 .. Len(left) -> 1 .. Len(Rest)] :
         /\ Increasing(h, Len(left))
         /\ \A k \in 1 .. Len(left) : left[k] = Rest[h[k]]
  BY <1>6, <1>10, <1>12
<1> QED BY <1>10, <1>13 DEF left, Thinned

\* The first that waits is claimed, and leaves with those before it.
LEMMA RestFirst ==
  ASSUME Types, Distinct(sending), ClaimFirst(sending) # 0, sending' = AfterFirst(sending),
         value' = value,
         \A u \in Tasks : u # sending[ClaimFirst(sending)] => fired'[u] = fired[u]
  PROVE  Rest # <<>> /\ Head(Rest) = value[sending[ClaimFirst(sending)]] /\ Rest' = Tail(Rest)
<1> DEFINE p == ClaimFirst(sending)
           m == Len(sending)
           S == WaitingToSend
           T == WaitingToSend'
           after == Standing'
           queue == sending'
<1>1. m \in Nat /\ S \in SUBSET (1 .. m) BY SendingTypes
<1>2. p \in S /\ \A i \in S : p <= i
  <2>1. S = {i \in 1 .. m : Waits(sending[i])} BY DEF WaitingToSend
  <2>2. p = IF S # {} THEN Min(S) ELSE 0 BY <2>1 DEF ClaimFirst, SelectInSeq
  <2>3. S \subseteq Nat BY <1>1
  <2> HIDE DEF S
  <2> QED BY <2>2, <2>3, Least
<1>3. p \in 1 .. m BY <1>1, <1>2
<1>4. queue = SubSeq(sending, p + 1, m) BY <1>2 DEF AfterFirst
<1> HIDE DEF p, queue
<1>5. Len(queue) = m - p /\ \A j \in 1 .. m - p : queue[j] = sending[p + j]
  <2>1. sending \in Seq(Senders) BY DEF Types
  <2>2. \A i \in p + 1 .. m : sending[i] \in Senders BY <1>1, <1>3, SendingTypes
  <2>3. p + 1 \in Int /\ m \in Int BY <1>1, <1>3
  <2>4. /\ Len(queue) = IF p + 1 <= m THEN m - (p + 1) + 1 ELSE 0
        /\ \A i \in 1 .. m - (p + 1) + 1 : queue[i] = sending[(p + 1) + i - 1]
    <3> HIDE DEF m
    <3> QED BY <1>4, <2>2, <2>3, SubSeqProperties
  <2> HIDE DEF m
  <2> QED BY <2>4, <1>1, <1>3
<1>6. ASSUME NEW j \in 1 .. m - p
      PROVE  /\ p + j \in 1 .. m /\ sending[p + j] \in Tasks
             /\ sending[p + j] # sending[p]
  <2>1. p + j \in 1 .. m /\ p + j # p BY <1>1, <1>3
  <2> QED BY <2>1, <1>3, SendingTypes DEF Distinct
<1>7. T = PlacesAfter(S, p, m)
  <2>1. T = {j \in 1 .. Len(queue) : fired'[queue[j]] = "NONE"} BY DEF WaitingToSend, Waits, queue
  <2>2. \A j \in 1 .. m - p : fired'[queue[j]] = "NONE" <=> p + j \in S
    <3> SUFFICES ASSUME NEW j \in 1 .. m - p PROVE fired'[queue[j]] = "NONE" <=> p + j \in S
      OBVIOUS
    <3>1. fired'[sending[p + j]] = fired[sending[p + j]] BY <1>6 DEF p
    <3>2. queue[j] = sending[p + j] BY <1>5
    <3> QED BY <3>1, <3>2, <1>6 DEF WaitingToSend, Waits
  <2> HIDE DEF m, S, T
  <2> QED BY <2>1, <2>2, <1>5 DEF PlacesAfter
<1>8. \A j \in 1 .. m - p : after[j] = value[sending[p + j]]
  <2>1. \A j \in 1 .. Len(queue) : after[j] = value[queue[j]] BY DEF Standing, queue
  <2> HIDE DEF m, after
  <2> QED BY <2>1, <1>5
<1>9. Rest' = Sublist(after, T) BY DEF Rest
<1>10. \A i \in 1 .. m : Standing[i] = value[sending[i]] /\ Standing[i] \in Sent BY SendingTypes
<1> HIDE DEF m, S, T, after
<1>11. \A j \in PlacesAfter(S, p, m) : after[j] = Standing[p + j]
  BY <1>6, <1>8, <1>10 DEF PlacesAfter
<1>13. /\ Sublist(Standing, S) # <<>> /\ Head(Sublist(Standing, S)) = Standing[p]
       /\ Sublist(after, PlacesAfter(S, p, m)) = Tail(Sublist(Standing, S))
  BY <1>1, <1>2, <1>11, SublistRest
<1>14. Standing[p] = value[sending[p]] BY <1>3, <1>10
<1> QED BY <1>7, <1>9, <1>13, <1>14 DEF Rest, S, p

\* One more waits.
LEMMA RestAppends ==
  ASSUME Types, NEW t \in Senders, sending' = Append(sending, t), fired[t] = "NONE",
         UNCHANGED <<value, fired>>
  PROVE  Rest' = Append(Rest, value[t])
<1> DEFINE m == Len(sending)
           S == WaitingToSend
           T == WaitingToSend'
           after == Standing'
           queue == sending'
<1>1. /\ m \in Nat /\ S \in SUBSET (1 .. m)
      /\ \A i \in 1 .. m : Standing[i] = value[sending[i]] /\ Standing[i] \in Sent
  BY SendingTypes
<1>2. Len(queue) = m + 1 /\ queue[m + 1] = t /\ \A i \in 1 .. m : queue[i] = sending[i]
  <2>1. sending \in Seq(Senders) BY DEF Types
  <2> QED BY <2>1, AppendProperties
<1>3. \A i \in 1 .. Len(queue) : after[i] = value[queue[i]] BY DEF Standing
<1>4. T = {i \in 1 .. Len(queue) : fired[queue[i]] = "NONE"} BY DEF WaitingToSend, Waits
<1>5. S = {i \in 1 .. m : fired[sending[i]] = "NONE"} BY DEF WaitingToSend, Waits
<1>6. Rest' = Sublist(after, T) BY DEF Rest
<1>7. value[t] \in Sent BY DEF Types, Tasks
<1> HIDE DEF m, S, T, after, queue
<1>8. \A i \in 1 .. m + 1 : i = m + 1 \/ i \in 1 .. m BY <1>1
<1>9. m + 1 \in 1 .. m + 1 /\ \A i \in 1 .. m : i \in 1 .. m + 1 BY <1>1
<1>10. T = S \cup {m + 1} BY <1>2, <1>4, <1>5, <1>8, <1>9
<1>11. \A i \in S : Standing[i] \in Sent /\ after[i] = Standing[i] BY <1>1, <1>2, <1>3, <1>9
<1>12. after[m + 1] = value[t] BY <1>2, <1>3, <1>9
<1>13. Sublist(after, S \cup {m + 1}) = Append(Sublist(Standing, S), value[t])
  <2>1. Sublist(after, S \cup {m + 1}) = Append(Sublist(Standing, S), after[m + 1])
    <3>1. m \in Nat /\ S \in SUBSET (1 .. m) BY <1>1
    <3>2. \A i \in S : after[i] = Standing[i] BY <1>11
    <3> QED BY <3>1, <3>2, SublistAppend
  <2> QED BY <2>1, <1>12
<1> QED BY <1>6, <1>10, <1>13 DEF Rest, S

\* One that was claimed leaves.
LEMMA RestUnlists ==
  ASSUME Types, Distinct(sending), NEW t \in Tasks, fired[t] # "NONE",
         sending' = RemoveFirst(sending, t),
         \A u \in Tasks \ {t} : fired'[u] = fired[u] /\ value'[u] = value[u]
  PROVE  Rest' = Rest
<1> DEFINE m == Len(sending)
           S == WaitingToSend
           T == WaitingToSend'
           after == Standing'
           queue == sending'
<1>1. /\ m \in Nat /\ S \in SUBSET (1 .. m)
      /\ \A i \in 1 .. m : Standing[i] = value[sending[i]] /\ sending[i] \in Tasks
  BY SendingTypes
<1>2. \A i \in 1 .. Len(queue) : after[i] = value'[queue[i]] BY DEF Standing
<1>3. T = {i \in 1 .. Len(queue) : fired'[queue[i]] = "NONE"} BY DEF WaitingToSend, Waits
<1>4. S = {i \in 1 .. m : fired[sending[i]] = "NONE"} BY DEF WaitingToSend, Waits
<1>5. Rest' = Sublist(after, T) BY DEF Rest
<1>6. CASE queue = sending /\ \A i \in 1 .. m : sending[i] # t
  <2>1. sending' = sending BY <1>6
  <2>2. \A u \in ToSet(sending) : u # t /\ u \in Tasks
    <3>1. ToSet(sending) = {sending[i] : i \in 1 .. m} BY LenProperties DEF ToSet, Types
    <3> QED BY <3>1, <1>1, <1>6
  <2>3. \A u \in ToSet(sending) : fired'[u] = fired[u] /\ value'[u] = value[u] BY <2>2
  <2> QED BY <2>1, <2>3, RestSame
<1>7. ASSUME NEW p \in 1 .. m, sending[p] = t, Len(queue) = m - 1,
             \A i \in 1 .. Len(queue) : queue[i] = IF i < p THEN sending[i] ELSE sending[i + 1]
      PROVE  Rest' = Rest
  <2> DEFINE at(i) == IF i < p THEN i ELSE i + 1
  <2> HIDE DEF queue, S, T, after
  <2>1. \A i \in 1 .. m - 1 : at(i) \in 1 .. m /\ at(i) # p BY <1>1
  <2>2. \A i \in 1 .. m - 1 : queue[i] = sending[at(i)] BY <1>7
  <2> HIDE DEF at, m
  <2>3. \A i \in 1 .. m - 1 : sending[at(i)] # t /\ sending[at(i)] \in Tasks
    BY <2>1, <1>1, <1>7 DEF Distinct, m
  <2>4. \A i \in 1 .. m - 1 : fired'[queue[i]] = fired[sending[at(i)]] /\ after[i] = Standing[at(i)]
    <3> SUFFICES ASSUME NEW i \in 1 .. m - 1
                 PROVE  fired'[queue[i]] = fired[sending[at(i)]] /\ after[i] = Standing[at(i)]
      OBVIOUS
    <3>1. queue[i] = sending[at(i)] BY <2>2
    <3>2. at(i) \in 1 .. m /\ sending[at(i)] # t /\ sending[at(i)] \in Tasks BY <2>1, <2>3
    <3>3. fired'[sending[at(i)]] = fired[sending[at(i)]] /\ value'[sending[at(i)]] = value[sending[at(i)]]
      BY <3>2
    <3>4. after[i] = value'[queue[i]] BY <1>2, <1>7
    <3>5. Standing[at(i)] = value[sending[at(i)]] BY <3>2, <1>1
    <3> QED BY <3>1, <3>3, <3>4, <3>5
  <2>5. \A i \in 1 .. m - 1 : i \in T <=> at(i) \in S BY <2>1, <2>4, <1>3, <1>4, <1>7
  <2>6. T \subseteq 1 .. m - 1 BY <1>3, <1>7
  <2>7. T = PlacesWithout(S, p, m) BY <2>5, <2>6 DEF PlacesWithout, at
  <2>8. \A j \in PlacesWithout(S, p, m) : after[j] = IF j < p THEN Standing[j] ELSE Standing[j + 1]
    BY <2>4 DEF PlacesWithout, at
  <2>9. p \notin S BY <1>4, <1>7
  <2>10. Sublist(after, PlacesWithout(S, p, m)) = Sublist(Standing, S)
    BY <2>8, <2>9, <1>1, SublistWithout
  <2> QED BY <2>7, <2>10, <1>5 DEF Rest, S
<1>8. \/ queue = sending /\ \A i \in 1 .. m : sending[i] # t
      \/ \E p \in 1 .. m :
           /\ sending[p] = t /\ Len(queue) = m - 1
           /\ \A i \in 1 .. Len(queue) : queue[i] = IF i < p THEN sending[i] ELSE sending[i + 1]
  <2>1. sending \in Seq(Senders) BY DEF Types
  <2> QED BY <2>1, RemovePlaces
<1> QED BY <1>6, <1>7, <1>8

-----------------------------------------------------------------------------
(***************************************************************************)
(* A channel is a line: each step is a step of Fifo, or none.              *)
(***************************************************************************)

LEMMA LineIs == Line = buffer \o Rest /\ Line' = buffer' \o Rest'
BY DEF Line, Rest, Standing

\* Elements at some places are the same to both.
LEMMA SublistIsOne == \A s, S : Fifo!Sublist(s, S) = Sublist(s, S)
<1>0. \A S : Fifo!Cardinality(S) = Cardinality(S) BY DEF Fifo!Cardinality, Cardinality
<1>1. \A S, k : Fifo!Nth(S, k) = Nth(S, k) BY <1>0 DEF Fifo!Nth, Nth
<1> QED BY <1>0, <1>1 DEF Fifo!Sublist, Sublist

LEMMA WithdrawIs ==
  ASSUME Withdrawn(Line', Line), UNCHANGED last
  PROVE  Fifo!Withdraw
<1>1. \E kept \in SUBSET (1 .. Len(Line)) : Line' = Fifo!Sublist(Line, kept) BY SublistIsOne DEF Withdrawn
<1> QED BY <1>1 DEF Fifo!Withdraw

\* A step that claims no sender and leaves the buffer is none of the line's.
LEMMA LineQuiet ==
  ASSUME Types, UNCHANGED <<buffer, sending, last>>,
         \A u \in ToSet(sending) : /\ fired'[u] = "NONE" <=> fired[u] = "NONE"
                                   /\ fired[u] = "NONE" => value'[u] = value[u]
  PROVE  UNCHANGED <<Line, last>>
<1>1. Rest' = Rest BY RestSame
<1> QED BY <1>1, LineIs

\* Senders that wait are let go.
LEMMA LineThins ==
  ASSUME Types, UNCHANGED <<buffer, value, last>>,
         \/ sending' = <<>>
         \/ sending' = sending /\ \A u \in ToSet(sending) : fired'[u] = "NONE" => fired[u] = "NONE"
  PROVE  Fifo!Withdraw
<1>2. Rest' \in Seq(Sent) /\ Thinned(Rest', Rest)
  <2>1. CASE sending' = <<>>
    <3>1. Rest' = <<>> BY <2>1, RestGone
    <3> DEFINE h == Rest'
               g == [k \in 1 .. 0 |-> 1]
    <3>2. h \in Seq(Sent) /\ Len(h) = 0 BY <3>1
    <3> HIDE DEF h
    <3>3. 1 .. Len(h) = {} /\ 1 .. 0 = {} BY <3>2
    <3>4. g \in [1 .. Len(h) -> 1 .. Len(Rest)] /\ Increasing(g, Len(h)) BY <3>3 DEF Increasing
    <3>5. \A k \in 1 .. Len(h) : h[k] = Rest[g[k]] BY <3>3
    <3> HIDE DEF g
    <3>6. Thinned(h, Rest) BY <3>4, <3>5 DEF Thinned
    <3> QED BY <3>2, <3>6 DEF h
  <2>2. CASE sending' = sending /\ \A u \in ToSet(sending) : fired'[u] = "NONE" => fired[u] = "NONE"
    BY <2>2, RestThins
  <2> QED BY <2>1, <2>2
<1> DEFINE h == Rest'
           after == Line'
<1>3. after = buffer \o h BY LineIs
<1>4. h \in Seq(Sent) /\ Thinned(h, Rest) BY <1>2
<1> HIDE DEF h, after
<1>1. Rest \in Seq(Sent) /\ buffer \in Seq(Sent) BY RestTypes
<1>7. Withdrawn(after, Line) BY <1>1, <1>3, <1>4, ThinnedAfter, LineIs
<1> QED BY <1>7, WithdrawIs DEF after

LEMMA LineStep ==
  ASSUME Inv, OnceInv, Bounds, Next
  PROVE  Fifo!Next \/ UNCHANGED <<Line, last>>
<1> USE DEF madeVars, channelVars, countVars, waiterVars, taskVars, historyVars
<1>1. PICK t \in Tasks : Step(t) \/ Starts(t) BY DEF Next
<1>2. Types /\ CallInv /\ ListInv /\ WaitsAreNeeded BY DEF Inv
<1>3. /\ fired \in [Tasks -> Hows] /\ value \in [Tasks -> Sent] /\ pc \in [Tasks -> Pcs]
      /\ sending \in Seq(Senders) /\ receiving \in Seq(Receivers) /\ buffer \in Seq(Sent)
      /\ Len(buffer) <= capacity /\ capacity \in Nat /\ Len(buffer) \in Nat
      /\ Distinct(sending) /\ Distinct(receiving)
  <2>1. buffer \in Seq(Sent) BY <1>2 DEF Types
  <2>2. Len(buffer) \in Nat BY <2>1, LenProperties
  <2> QED BY <2>2, <1>2 DEF Types, ListInv, Hows
<1>4. \A u \in ToSet(sending) : u \in Senders /\ u \in Tasks /\ pc[u] \in {"waiting", "unlist"}
  BY <1>2, ListedTasks DEF Tasks, ListInv
<1>5. Rest \in Seq(Sent) BY <1>2, RestTypes
<1>6. ASSUME \A u \in ToSet(sending) : ~Waits(u) PROVE Rest = <<>> BY <1>2, <1>6, RestNobody
<1>7. buffer \o <<>> = buffer /\ <<>> \o Rest = Rest BY <1>3, <1>5, ConcatEmptySeq
<1>8. ASSUME UNCHANGED <<buffer, sending, last>>, \A u \in Tasks \ {t} : fired'[u] = fired[u] /\ value'[u] = value[u],
             pc[t] \notin {"waiting", "unlist"}
      PROVE  UNCHANGED <<Line, last>>
  <2>1. \A u \in ToSet(sending) : fired'[u] = fired[u] /\ value'[u] = value[u] BY <1>4, <1>8
  <2> QED BY <2>1, <1>2, <1>8, LineQuiet
<1>9. ASSUME UNCHANGED <<buffer, sending, last, fired, value>> PROVE UNCHANGED <<Line, last>>
  BY <1>2, <1>9, LineQuiet
<1>10. ASSUME Done(t) PROVE \A u \in Tasks \ {t} : value'[u] = value[u] BY <1>3, <1>10 DEF Done
<1>11. ASSUME Sends(t) PROVE t \in Senders /\ value[t] \in Values /\ value[t] \in Sent
  <2>1. t \in Senders BY <1>2, <1>11 DEF Sends, CallInv
  <2>2. value[t] # NoValue BY <2>1, <1>11 DEF OnceInv, Sends, Busy
  <2> QED BY <2>1, <2>2, <1>3 DEF Bounds
<1>12. ASSUME CloseWaits(t), UNCHANGED <<buffer, value, last>> PROVE Fifo!Withdraw
  BY <1>2, <1>12, LineThins DEF CloseWaits
<1>20. CASE SendFails(t)
  <2>1. pc[t] \in {"send", "tryOffer"} BY <1>20 DEF SendFails, Sends
  <2> QED BY <2>1, <1>8, <1>10, <1>20 DEF SendFails
<1>21. CASE SendHands(t)
  <2>1. PICK r : r = receiving[ClaimFirst(receiving)] OBVIOUS
  <2>2. r \in ToSet(receiving) /\ Waits(r) BY <2>1, <1>3, <1>21, ClaimsFirst DEF SendHands
  <2>3. buffer = <<>> /\ \A s \in ToSet(sending) : ~Waits(s) BY <2>2, <1>2 DEF WaitsAreNeeded
  <2>4. /\ Claims(t, {r}, "MOVED") /\ last' = value[t] /\ UNCHANGED <<buffer, sending>> /\ Sends(t)
    BY <2>1, <1>21 DEF SendHands, Sending
  <2>5. \A u \in ToSet(sending) : fired'[u] # "NONE" /\ fired[u] # "NONE"
    BY <2>3, <2>4, <1>4 DEF Claims, Waits
  <2>6. Rest' = Rest BY <2>4, <2>5, <1>2, RestSame
  <2>7. Line = <<>> /\ Line' = Line BY <2>3, <2>4, <2>6, <1>6, <1>7, LineIs
  <2>8. Fifo!Hand(value[t]) BY <2>4, <2>7 DEF Fifo!Hand
  <2> QED BY <2>4, <2>8, <1>11 DEF Fifo!Next
<1>22. CASE SendBuffers(t)
  <2>1. /\ Sends(t) /\ Len(buffer) < capacity /\ buffer' = Append(buffer, value[t])
        /\ UNCHANGED <<sending, fired, last>>
    BY <1>22 DEF SendBuffers, Sending
  <2>2. \A u \in ToSet(sending) : ~Waits(u) BY <2>1, <1>2, <1>3 DEF WaitsAreNeeded
  <2>3. Rest = <<>> BY <2>2, <1>6
  <2>4. Rest' = Rest BY <2>1, <2>2, <1>2, RestSame DEF Waits
  <2>5. buffer' \in Seq(Sent) BY <2>1, <1>3, <1>11
  <2>6. Line = buffer /\ Line' = buffer' BY <2>3, <2>4, <2>5, <1>7, LineIs, ConcatEmptySeq
  <2>7. Fifo!Send(value[t]) BY <2>1, <2>6 DEF Fifo!Send
  <2> QED BY <2>1, <2>7, <1>11 DEF Fifo!Next
<1>23. CASE SendWaits(t)
  <2>1. Sends(t) /\ UNCHANGED <<buffer, fired, last>> BY <1>23 DEF SendWaits, Sending
  <2>2. CASE pc[t] = "tryOffer"
    <3>1. Done(t) /\ UNCHANGED sending BY <2>2, <1>23 DEF SendWaits
    <3> QED BY <3>1, <2>1, <2>2, <1>8, <1>10
  <2>3. CASE pc[t] # "tryOffer"
    <3>1. pc[t] = "send" /\ sending' = Append(sending, t) /\ UNCHANGED value
      BY <2>3, <1>23 DEF SendWaits, Goes
    <3>2. fired[t] = "NONE" BY <3>1, <1>2 DEF CallInv
    <3>3. Rest' = Append(Rest, value[t]) BY <3>1, <3>2, <2>1, <1>2, <1>11, RestAppends
    <3>4. Line' = Append(Line, value[t])
      <4>1. buffer \o Append(Rest, value[t]) = Append(buffer \o Rest, value[t])
        <5>1. buffer \in Seq(Sent) /\ Rest \in Seq(Sent) /\ value[t] \in Sent
          BY <1>3, <1>5, <1>11, <2>1
        <5> QED BY <5>1, AppendsLast
      <4>2. Line = buffer \o Rest /\ Line' = buffer' \o Rest' BY LineIs
      <4> QED BY <3>3, <2>1, <4>1, <4>2
    <3>5. Fifo!Send(value[t]) BY <3>4, <2>1 DEF Fifo!Send
    <3> QED BY <3>5, <2>1, <1>11 DEF Fifo!Next
  <2> QED BY <2>2, <2>3
<1>24. CASE ReceiveTakes(t)
  <2>1. /\ buffer # <<>> /\ last' = Head(buffer) /\ sending' = AfterFirst(sending) /\ UNCHANGED value
        /\ \E woken \in SUBSET {sending[ClaimFirst(sending)]} : Claims(t, woken, "MOVED")
    BY <1>24 DEF ReceiveTakes
  <2>2. Line # <<>> /\ Head(Line) = Head(buffer) BY <2>1, <1>3, <1>5, TakesFirst, LineIs
  <2>3. Line' = Tail(Line)
    <3>1. CASE ClaimFirst(sending) = 0
      <4>1. buffer' = Tail(buffer) BY <3>1, <1>24 DEF ReceiveTakes
      <4>2. Rest = <<>> /\ sending' = <<>> BY <3>1, <2>1, <1>3, <1>6, ClaimsFirst
      <4>3. Rest' = Rest BY <4>2, RestGone
      <4> QED BY <4>1, <4>3, <2>1, <1>3, <1>5, TakesFirst, LineIs
    <3>2. CASE ClaimFirst(sending) # 0
      <4>1. buffer' = Append(Tail(buffer), value[sending[ClaimFirst(sending)]])
        BY <3>2, <1>24 DEF ReceiveTakes
      <4>2. \A u \in Tasks : u # sending[ClaimFirst(sending)] => fired'[u] = fired[u] BY <2>1 DEF Claims
      <4>3. Rest # <<>> /\ Head(Rest) = value[sending[ClaimFirst(sending)]] /\ Rest' = Tail(Rest)
        BY <4>2, <3>2, <2>1, <1>2, <1>3, RestFirst
      <4> QED BY <4>1, <4>3, <2>1, <1>3, <1>5, TakesFirst, LineIs
    <3> QED BY <3>1, <3>2
  <2>4. Fifo!Receive BY <2>1, <2>2, <2>3 DEF Fifo!Receive
  <2> QED BY <2>4 DEF Fifo!Next
<1>25. CASE ReceiveMeets(t)
  <2>1. /\ buffer = <<>> /\ ClaimFirst(sending) # 0 /\ last' = value[sending[ClaimFirst(sending)]]
        /\ sending' = AfterFirst(sending) /\ UNCHANGED <<buffer, value>>
        /\ Claims(t, {sending[ClaimFirst(sending)]}, "MOVED")
    BY <1>25 DEF ReceiveMeets
  <2>2. \A u \in Tasks : u # sending[ClaimFirst(sending)] => fired'[u] = fired[u] BY <2>1 DEF Claims
  <2>3. Rest # <<>> /\ Head(Rest) = value[sending[ClaimFirst(sending)]] /\ Rest' = Tail(Rest)
    BY <2>1, <2>2, <1>2, <1>3, RestFirst
  <2>4. Line = Rest /\ Line' = Tail(Rest)
    <3>1. <<>> \o Tail(Rest) = Tail(Rest)
      <4>1. Tail(Rest) \in Seq(Sent) BY <2>3, <1>5, HeadTailProperties
      <4> QED BY <4>1, ConcatEmptySeq
    <3> QED BY <3>1, <2>1, <2>3, <1>7, LineIs
  <2>5. Fifo!Receive BY <2>1, <2>3, <2>4 DEF Fifo!Receive
  <2> QED BY <2>5 DEF Fifo!Next
<1>26. CASE ReceiveWaits(t)
  <2>1. ClaimFirst(sending) = 0 /\ sending' = <<>> /\ UNCHANGED <<buffer, last>> BY <1>26 DEF ReceiveWaits
  <2>2. Rest = <<>> BY <2>1, <1>3, <1>6, ClaimsFirst
  <2>3. Rest' = <<>> BY <2>1, RestGone
  <2> QED BY <2>1, <2>2, <2>3, LineIs
<1>27. CASE Tell(t) BY <1>9, <1>27 DEF Tell
<1>28. CASE CancelClaims(t)
  <2>1. UNCHANGED <<buffer, sending, value, last>> /\ fired' = [fired EXCEPT ![t] = "CANCELLED"]
    BY <1>28 DEF CancelClaims
  <2>2. \A u \in ToSet(sending) : fired'[u] = "NONE" => fired[u] = "NONE" BY <2>1, <1>3, <1>4
  <2>3. Fifo!Withdraw BY <2>1, <2>2, <1>2, LineThins
  <2> QED BY <2>3 DEF Fifo!Next
<1>29. CASE Returns(t)
  <2>1. fired[t] # "NONE" /\ UNCHANGED <<buffer, sending, last>> BY <1>29 DEF Returns
  <2>2. CASE fired[t] = "CANCELLED" BY <2>1, <2>2, <1>9, <1>29 DEF Returns
  <2>3. CASE fired[t] # "CANCELLED"
    <3>1. Done(t) /\ Forgets(t) BY <2>3, <1>29 DEF Returns
    <3>2. t \notin ToSet(sending) BY <2>1, <2>3, <1>2 DEF ListInv
    <3>3. \A u \in Tasks \ {t} : fired'[u] = fired[u] BY <3>1, <1>3 DEF Forgets
    <3>4. \A u \in ToSet(sending) : fired'[u] = fired[u] /\ value'[u] = value[u]
      BY <3>1, <3>2, <3>3, <1>4, <1>10
    <3> QED BY <3>4, <2>1, <1>2, LineQuiet
  <2> QED BY <2>2, <2>3
<1>30. CASE Unlist(t)
  <2>1. /\ pc[t] = "unlist" /\ sending' = RemoveFirst(sending, t) /\ Done(t) /\ Forgets(t)
        /\ UNCHANGED <<buffer, last>>
    BY <1>30 DEF Unlist
  <2>2. fired[t] # "NONE" BY <2>1, <1>2 DEF CallInv
  <2>3. \A u \in Tasks \ {t} : fired'[u] = fired[u] /\ value'[u] = value[u]
    BY <2>1, <1>3, <1>10 DEF Forgets
  <2>4. Rest' = Rest BY <2>1, <2>2, <2>3, <1>2, <1>3, RestUnlists
  <2> QED BY <2>1, <2>4, LineIs
<1>31. CASE CopyHolds(t) BY <1>9, <1>31 DEF CopyHolds
<1>32. CASE Unholds(t)
  <2>1. UNCHANGED <<sending, fired, value, last>> BY <1>32 DEF Unholds
  <2>2. CASE rc = 1
    <3>1. buffer' = <<>> BY <2>2, <1>32 DEF Unholds
    <3>2. Rest' = Rest BY <2>1, <1>2, RestSame
    <3>3. Line' = Rest BY <3>1, <3>2, <1>7, LineIs
    <3>5. Withdrawn(Line', Line) BY <3>3, <1>3, <1>5, Dropped, LineIs
    <3>6. Fifo!Withdraw BY <3>5, <2>1, WithdrawIs
    <3> QED BY <3>6 DEF Fifo!Next
  <2>3. CASE rc # 1 BY <2>1, <2>3, <1>9, <1>32 DEF Unholds
  <2> QED BY <2>2, <2>3
<1>33. CASE Hush(t)
  <2>1. UNCHANGED <<buffer, value, last>> BY <1>33 DEF Hush
  <2>2. CASE ~freed /\ Discarding
    <3>1. sending' = <<>> BY <2>2, <1>33 DEF Hush
    <3>2. Fifo!Withdraw BY <3>1, <2>1, <1>2, LineThins
    <3> QED BY <3>2 DEF Fifo!Next
  <2>3. CASE ~(~freed /\ Discarding)
    <3>1. Claims(t, {}, "DISCARDED") /\ UNCHANGED sending BY <2>3, <1>33 DEF Hush
    <3>2. \A u \in ToSet(sending) : fired'[u] = fired[u] BY <3>1, <1>4 DEF Claims
    <3> QED BY <3>1, <3>2, <2>1, <1>2, LineQuiet
  <2> QED BY <2>2, <2>3
<1>34. CASE SendStarts(t)
  <2>1. /\ pc[t] = "idle" /\ UNCHANGED <<buffer, sending, fired, last>>
        /\ (\E v : value' = [value EXCEPT ![t] = v]) \/ UNCHANGED value
    BY <1>34 DEF SendStarts
  <2>2. \A u \in Tasks \ {t} : value'[u] = value[u] BY <2>1, <1>3
  <2> QED BY <2>1, <2>2, <1>8
<1>35. CASE ReceiveStarts(t) BY <1>9, <1>35 DEF ReceiveStarts
<1>36. CASE Close(t)
  <2>1. Fifo!Withdraw BY <1>12, <1>36 DEF Close
  <2> QED BY <2>1 DEF Fifo!Next
<1>37. CASE CopyCounts(t) BY <1>9, <1>37 DEF CopyCounts
<1>38. CASE SenderRelease(t)
  <2>1. UNCHANGED <<buffer, value, last>> BY <1>38 DEF SenderRelease
  <2>2. CASE senders = 1 /\ ~closed
    <3>1. Fifo!Withdraw BY <2>1, <2>2, <1>12, <1>38 DEF SenderRelease
    <3> QED BY <3>1 DEF Fifo!Next
  <2>3. CASE ~(senders = 1 /\ ~closed) BY <2>1, <2>3, <1>9, <1>38 DEF SenderRelease
  <2> QED BY <2>2, <2>3
<1>39. CASE Cancel(t) BY <1>9, <1>39 DEF Cancel
<1> QED BY <1>1, <1>20, <1>21, <1>22, <1>23, <1>24, <1>25, <1>26, <1>27, <1>28, <1>29, <1>30, <1>31,
           <1>32, <1>33, <1>34, <1>35, <1>36, <1>37, <1>38, <1>39
       DEF Step, Starts, Unhold, ReceiverRelease

\* A channel is one line of values, in the order they were sent: a receiver gets the first,
\* and a value leaves otherwise only as its send did not end, or nobody is left to take it,
\* whatever is claimed, cancelled, closed or discarded meanwhile (`try_send`, `try_receive`,
\* `claim_first`, `close_waits`).
THEOREM ValuesStandInLine == Spec => InOrder
<1>1. Init => Fifo!Init
  <2> SUFFICES ASSUME Init PROVE Fifo!Init OBVIOUS
  <2>1. sending = <<>> /\ buffer = <<>> /\ last = NoValue BY DEF Init
  <2>2. WaitingToSend = {} BY <2>1 DEF WaitingToSend
  <2>3. Rest = <<>> BY <2>2, SublistNone DEF Rest
  <2>4. Line = <<>> BY <2>1, <2>3, LineIs
  <2> QED BY <2>1, <2>4 DEF Fifo!Init, Fifo!NoValue, NoValue
<1>2. Inv /\ OnceInv /\ Bounds /\ [Next]_vars => [Fifo!Next]_<<Line, last>>
  <2> SUFFICES ASSUME Inv, OnceInv, Bounds, [Next]_vars PROVE Fifo!Next \/ UNCHANGED <<Line, last>>
    OBVIOUS
  <2>1. CASE Next BY <2>1, LineStep
  <2>2. CASE UNCHANGED vars
    <3>1. UNCHANGED <<buffer, sending, last, fired, value>>
      BY <2>2 DEF vars, channelVars, waiterVars, historyVars
    <3>2. Types BY DEF Inv
    <3> QED BY <3>1, <3>2, LineQuiet
  <2> QED BY <2>1, <2>2
<1> QED BY <1>1, <1>2, InvHolds, OnceHolds, BoundsHolds, PTL DEF Spec, InOrder, Fifo!Spec
=============================================================================
