--------------------------- MODULE RecoverProofs ----------------------------
(***************************************************************************)
(* Theorems about Recover, for any tasks and any recovers: no panic is     *)
(* told twice, no alarm outlives its panic, and a block that ends well had *)
(* no task of it end with a panic.                                         *)
(***************************************************************************)
EXTENDS Recover, Integers, FiniteSetTheorems, SequenceTheorems,
        WellFoundedInduction, TLAPS

-----------------------------------------------------------------------------
(* Sequences and what they hold. *)

LEMMA Least ==
  ASSUME NEW S, S \subseteq Nat, S # {}
  PROVE  Min(S) \in S /\ \A x \in S : Min(S) <= x
<1>1. PICK m \in S : \A x \in S : <<x, m>> \notin OpToRel(<, Nat)
  BY NatLessThanWellFounded, WFMin
<1>2. ASSUME NEW x \in S PROVE m <= x
  <2>1. x \in Nat /\ m \in Nat OBVIOUS
  <2>2. ~(x < m) BY <1>1, <2>1 DEF OpToRel
  <2> QED BY <2>1, <2>2
<1> QED BY <1>1, <1>2 DEF Min

LEMMA Greatest ==
  ASSUME NEW n \in Nat, NEW S \in SUBSET (1 .. n), S # {}
  PROVE  Max(S) \in S /\ \A x \in S : x <= Max(S)
<1> DEFINE Below == {n - x : x \in S}
<1>1. Below \subseteq Nat /\ Below # {}
  <2>1. \A x \in S : x \in 1 .. n /\ n - x \in Nat OBVIOUS
  <2> QED BY <2>1
<1>2. PICK m \in Below : \A y \in Below : m <= y
  <2> HIDE DEF Below
  <2> QED BY <1>1, Least
<1>3. PICK x \in S : m = n - x BY <1>2
<1>4. ASSUME NEW y \in S PROVE x >= y
  <2>1. n - y \in Below OBVIOUS
  <2>2. n - x <= n - y BY <2>1, <1>2, <1>3
  <2>3. x \in Nat /\ y \in Nat OBVIOUS
  <2> QED BY <2>2, <2>3
<1>5. Max(S) \in S /\ \A y \in S : Max(S) >= y BY <1>4 DEF Max
<1>6. S \subseteq Nat OBVIOUS
<1> QED BY <1>5, <1>6

LEMMA AppendHolds ==
  ASSUME NEW S, NEW s \in Seq(S), NEW e \in S
  PROVE  /\ Append(s, e) \in Seq(S)
         /\ ToSet(Append(s, e)) = ToSet(s) \cup {e}
<1> DEFINE u == Append(s, e)
<1>1. Len(s) \in Nat BY LenProperties
<1>2. /\ u \in Seq(S) /\ Len(u) = Len(s) + 1
      /\ \A i \in 1 .. Len(s) : u[i] = s[i]
      /\ u[Len(s) + 1] = e
  BY AppendProperties
<1> HIDE DEF u
<1>3. ToSet(s) = {s[i] : i \in 1 .. Len(s)} /\ ToSet(u) = {u[i] : i \in 1 .. Len(u)}
  BY <1>2, LenProperties DEF ToSet
<1> QED BY <1>1, <1>2, <1>3 DEF u

-----------------------------------------------------------------------------
(* The invariant. *)

Rising(rs) == \A i, j \in 1 .. Len(rs) : i < j => rs[i] < rs[j]

\* What unwinds, and what pauses: one panic at a time, in a block a recover ends.
PlaceInv ==
  /\ Len(paused) <= 1
  /\ pc \in {"code", "waits", "checks", "handles"} => paused = <<>>
  /\ pc \in {"cleans", "catches"} => paused # <<>>
  /\ pc \in {"code", "waits", "cleans", "frees", "catches", "handles"} => unwinding = None
  /\ paused # <<>> => unwinding = None
  /\ paused # <<>> \/ unwinding # None => recovers # <<>>
  /\ pc \in {"waits", "frees"} => on \in Children
  /\ pc = "handles" => caught # None

\* The recovers a task runs are in the order it entered them, and those that
\* take panics are among them: all, but one that catches.
RecoverInv ==
  /\ Rising(recovers)
  /\ \A r \in ToSet(recovers) : r <= ran
  /\ open \subseteq ToSet(recovers)
  /\ ToSet(recovers) \ {Top} \subseteq open
  /\ pc \notin {"catches", "over"} => ToSet(recovers) \subseteq open

\* A panic is of a task that ended with it, and stops at the task's recover.
RaisedInv ==
  /\ \A c \in raised : child[c] \in {"panics", "ended", "done"}
  /\ \A c \in Children : owner[c] <= ran
  /\ \A c \in Children, r \in Ids : stop[r] = c => owner[c] = r

AlarmInv ==
  alarm /\ pc \in {"code", "waits", "handles"} => \E r \in ToSet(recovers) : stop[r] # None

\* What a task of the newest recover ended with is at the recover, or the task
\* already unwinds to it.
HeardInv ==
  \A c \in raised :
    child[c] # "panics" /\ c \notin freed /\ owner[c] = ran /\ ran \in open =>
      stop[ran] # None \/ unwinding # None \/ paused # <<>>

\* The places of a panic, of which one has it.
Stops(c) == \E r \in Ids : stop[r] = c
Pauses(c) == \E i \in DOMAIN paused : paused[i] = c
Once(c) ==
  /\ \/ Stops(c) \/ Pauses(c) \/ unwinding = c \/ caught = c \/ c \in joinPanic
     \/ child[c] = "panics" \/ c \in settled
     => c \in raised
  /\ Stops(c) => ~Pauses(c) /\ unwinding # c /\ caught # c /\ c \notin joinPanic
                 /\ child[c] # "panics" /\ c \notin settled
  /\ Pauses(c) => unwinding # c /\ caught # c /\ c \notin joinPanic
                  /\ child[c] # "panics" /\ c \notin settled
  /\ unwinding = c => caught # c /\ c \notin joinPanic /\ child[c] # "panics" /\ c \notin settled
  /\ caught = c => c \notin joinPanic /\ child[c] # "panics" /\ c \notin settled
  /\ c \in joinPanic => child[c] # "panics" /\ c \notin settled
  /\ child[c] = "panics" => c \notin settled
OnceInv == \A c \in Children : Once(c)

Inv == TypeOK /\ PlaceInv /\ RecoverInv /\ RaisedInv /\ AlarmInv /\ HeardInv /\ OnceInv

-----------------------------------------------------------------------------
(* Recovers entered and left. *)

LEMMA Constants ==
  /\ None \notin Children /\ Own \notin Children /\ None # Own
  /\ MaxDepth \in Nat /\ MaxRecovers \in Nat
BY RecoverAssumption DEF None, Own

LEMMA EnterHolds ==
  ASSUME NEW rs \in Seq(Ids), Rising(rs), NEW n \in Ids, \A r \in ToSet(rs) : r < n
  PROVE  /\ Append(rs, n) \in Seq(Ids) /\ Len(Append(rs, n)) = Len(rs) + 1
         /\ ToSet(Append(rs, n)) = ToSet(rs) \cup {n} /\ Rising(Append(rs, n))
<1> DEFINE u == Append(rs, n)
<1>1. Len(rs) \in Nat /\ ToSet(rs) = {rs[i] : i \in 1 .. Len(rs)} BY LenProperties DEF ToSet
<1>2. /\ u \in Seq(Ids) /\ Len(u) = Len(rs) + 1
      /\ \A i \in 1 .. Len(rs) : u[i] = rs[i]
      /\ u[Len(rs) + 1] = n
  BY AppendProperties
<1>3. ToSet(u) = ToSet(rs) \cup {n} BY AppendHolds
<1> HIDE DEF u
<1>4. Rising(u)
  <2> SUFFICES ASSUME NEW i \in 1 .. Len(u), NEW j \in 1 .. Len(u), i < j PROVE u[i] < u[j]
    BY DEF Rising
  <2>1. i \in 1 .. Len(rs) BY <1>1, <1>2
  <2>2. CASE j = Len(rs) + 1 BY <2>1, <2>2, <1>1, <1>2
  <2>3. CASE j # Len(rs) + 1
    <3>1. j \in 1 .. Len(rs) BY <2>3, <1>1, <1>2
    <3> QED BY <2>1, <3>1, <1>2 DEF Rising
  <2> QED BY <2>2, <2>3
<1> QED BY <1>2, <1>3, <1>4 DEF u

LEMMA LeaveHolds ==
  ASSUME NEW rs \in Seq(Ids), rs # <<>>, Rising(rs)
  PROVE  /\ Front(rs) \in Seq(Ids) /\ Len(Front(rs)) = Len(rs) - 1 /\ Rising(Front(rs))
         /\ Last(rs) \in ToSet(rs) /\ Last(rs) \in Ids
         /\ ToSet(Front(rs)) = ToSet(rs) \ {Last(rs)}
         /\ \A r \in ToSet(rs) : r <= Last(rs)
<1> DEFINE n == Len(rs)
           u == Front(rs)
<1>1. n \in Nat /\ n # 0 /\ ToSet(rs) = {rs[i] : i \in 1 .. n} BY LenProperties, EmptySeq DEF ToSet
<1>2. \A i \in 1 .. n : rs[i] \in Ids BY <1>1, ElementOfSeq
<1>3. u \in Seq(Ids) /\ Len(u) = n - 1 /\ \A i \in 1 .. n - 1 : u[i] = rs[i]
  <2>1. n - 1 \in Int /\ \A i \in 1 .. n - 1 : rs[i] \in Ids BY <1>1, <1>2
  <2>2. /\ SubSeq(rs, 1, n - 1) \in Seq(Ids)
        /\ Len(SubSeq(rs, 1, n - 1)) = IF 1 <= n - 1 THEN (n - 1) - 1 + 1 ELSE 0
        /\ \A i \in 1 .. (n - 1) - 1 + 1 : SubSeq(rs, 1, n - 1)[i] = rs[1 + i - 1]
    BY <2>1, SubSeqProperties
  <2>3. u = SubSeq(rs, 1, n - 1) BY DEF Front
  <2> HIDE DEF u, n
  <2> QED BY <2>2, <2>3, <1>1
<1>4. Last(rs) = rs[n] BY DEF Last
<1> HIDE DEF u, n
<1>5. Rising(u) BY <1>1, <1>3 DEF Rising, n
<1>6. \A i \in 1 .. n : i < n => rs[i] < rs[n] BY <1>1 DEF Rising, n
<1>7. ToSet(u) = {u[i] : i \in 1 .. n - 1} BY <1>3, LenProperties DEF ToSet
<1>8. ToSet(u) = ToSet(rs) \ {rs[n]}
  <2>1. \A i \in 1 .. n - 1 : i \in 1 .. n /\ i < n BY <1>1
  <2>2. \A i \in 1 .. n : i = n \/ i \in 1 .. n - 1 BY <1>1
  <2>3. \A i \in 1 .. n - 1 : rs[i] \in ToSet(rs) /\ rs[i] # rs[n]
    <3>1. \A i \in 1 .. n : rs[i] \in Nat BY <1>2, Constants DEF Ids
    <3> QED BY <3>1, <2>1, <1>1, <1>6
  <2> QED BY <2>2, <2>3, <1>1, <1>3, <1>7
<1>9. \A r \in ToSet(rs) : r <= rs[n]
  <2> SUFFICES ASSUME NEW i \in 1 .. n PROVE rs[i] <= rs[n]
    BY <1>1
  <2>1. rs[i] \in Nat /\ rs[n] \in Nat BY <1>1, <1>2, Constants DEF Ids
  <2> QED BY <2>1, <1>1, <1>6
<1> QED BY <1>1, <1>2, <1>3, <1>4, <1>5, <1>8, <1>9 DEF u, n

\* The innermost recover that has a panic is one of them.
LEMMA FirstDelivered ==
  ASSUME NEW rs \in Seq(Ids), stop \in [Ids -> Children \cup {None}], Delivered(rs) # {}
  PROVE  First(rs) \in Children /\ \E r \in ToSet(rs) : stop[r] = First(rs)
<1> DEFINE I == {i \in 1 .. Len(rs) : stop[rs[i]] # None}
<1>1. Len(rs) \in Nat /\ ToSet(rs) = {rs[i] : i \in 1 .. Len(rs)} BY LenProperties DEF ToSet
<1>2. \A i \in 1 .. Len(rs) : rs[i] \in Ids BY <1>1, ElementOfSeq
<1>3. I # {} BY <1>1 DEF Delivered
<1>4. First(rs) = stop[rs[Max(I)]] BY <1>3 DEF First, SelectLastInSeq
<1>5. Max(I) \in I BY <1>1, <1>3, Greatest
<1>6. Max(I) \in 1 .. Len(rs) /\ stop[rs[Max(I)]] # None BY <1>5
<1> QED BY <1>1, <1>2, <1>4, <1>6

-----------------------------------------------------------------------------
(* The types. *)

TypeInv ==
  /\ pc \in {"code", "waits", "frees", "checks", "collects", "cleans", "catches", "handles", "over"}
  /\ on \in Children \cup {None} /\ recovers \in Seq(Ids) /\ Depth <= MaxDepth /\ ran \in 0 .. MaxRecovers
  /\ open \subseteq Ids /\ stop \in [Ids -> Children \cup {None}]
  /\ alarm \in BOOLEAN /\ unwinding \in Children \cup {Own, None} /\ caught \in Children \cup {Own, None}
  /\ paused \in Seq(Children \cup {Own})
  /\ child \in [Children -> {"unborn", "runs", "panics", "ended", "done"}]
  /\ owner \in [Children -> Ids \cup {0}] /\ level \in [Children -> 0 .. Gone]
  /\ took \in Children \cup {None}
  /\ freed \subseteq Children /\ detached \subseteq Children /\ joinPanic \subseteq Children
  /\ cancelled \subseteq Children /\ raised \subseteq Children /\ settled \subseteq Children

LEMMA Types ==
  TypeOK <=>
    /\ pc \in {"code", "waits", "frees", "checks", "collects", "cleans", "catches", "handles", "over"}
    /\ on \in Children \cup {None} /\ recovers \in Seq(Ids) /\ Depth <= MaxDepth /\ ran \in 0 .. MaxRecovers
    /\ open \subseteq Ids /\ stop \in [Ids -> Children \cup {None}]
    /\ alarm \in BOOLEAN /\ unwinding \in Children \cup {Own, None} /\ caught \in Children \cup {Own, None}
    /\ paused \in Seq(Children \cup {Own})
    /\ child \in [Children -> {"unborn", "runs", "panics", "ended", "done"}]
    /\ owner \in [Children -> Ids \cup {0}] /\ level \in [Children -> 0 .. Gone]
    /\ took \in Children \cup {None}
    /\ freed \subseteq Children /\ detached \subseteq Children /\ joinPanic \subseteq Children
    /\ cancelled \subseteq Children /\ raised \subseteq Children /\ settled \subseteq Children
BY DEF TypeOK

LEMMA NextHolds ==
  Next => \/ Unwinds \/ TakeAlarm \/ Collect \/ Enter \/ Panic \/ WaitStops \/ WaitTakes \/ Freed
          \/ End \/ Leave \/ Catch \/ Handle \/ Resume
          \/ \E c \in Children : \/ Spawn(c) \/ Wait(c) \/ Detach(c) \/ Free(c)
                                \/ ChildEnds(c) \/ ChildPanics(c) \/ Deliver(c) \/ Complete(c)
BY DEF Next, Runs, Ends

\* What a panic that goes on changes.
LEMMA RethrowHolds ==
  ASSUME TypeOK, NEW ps \in SUBSET (Children \cup {Own}), NEW first, ps # {} => first \in ps, NEW to,
         Rethrow(ps, first, to)
  PROVE  /\ unwinding' \in Children \cup {Own, None} /\ settled' \subseteq Children
         /\ pc' = to \/ (pc' = "over" /\ recovers = <<>>)
         /\ settled \subseteq settled' /\ settled' \subseteq settled \cup (ps \ {Own})
         /\ unwinding' # unwinding =>
              /\ unwinding = None /\ unwinding' = first /\ first \in ps
              /\ settled' = settled /\ recovers # <<>> /\ ~Cleaning
         /\ ps # {} /\ recovers # <<>> => Cleaning \/ unwinding' # None
BY Types, Constants DEF Rethrow, Told

\* The recover a task ends.
LEMMA TopHolds ==
  ASSUME TypeOK, RecoverInv, recovers # <<>>
  PROVE  /\ Front(recovers) \in Seq(Ids) /\ Len(Front(recovers)) = Len(recovers) - 1
         /\ Rising(Front(recovers))
         /\ Top \in Ids /\ Top \in ToSet(recovers) /\ ToSet(recovers) \subseteq Ids
         /\ ToSet(Front(recovers)) = ToSet(recovers) \ {Top}
         /\ ran \in open => Top = ran
<1>1. recovers \in Seq(Ids) /\ Rising(recovers) BY Types DEF RecoverInv
<1>2. /\ Front(recovers) \in Seq(Ids) /\ Len(Front(recovers)) = Len(recovers) - 1
      /\ Rising(Front(recovers))
      /\ Top \in Ids /\ Top \in ToSet(recovers)
      /\ ToSet(Front(recovers)) = ToSet(recovers) \ {Top}
      /\ \A r \in ToSet(recovers) : r <= Top
  BY <1>1, LeaveHolds DEF Top
<1>3. ToSet(recovers) \subseteq Ids BY <1>1, LenProperties, ElementOfSeq DEF ToSet
<1>4. ran \in open => Top = ran
  <2>1. ran \in Nat /\ Top \in Nat BY <1>2, Types, Constants DEF Ids
  <2>2. Top <= ran BY <1>2 DEF RecoverInv
  <2> QED BY <2>1, <2>2, <1>2 DEF RecoverInv
<1> QED BY <1>2, <1>3, <1>4

\* The panic a task pauses.
LEMMA PausedHolds ==
  ASSUME TypeOK, PlaceInv, paused # <<>>
  PROVE  /\ Last(paused) \in Children \cup {Own} /\ Front(paused) = <<>>
         /\ \A c : Pauses(c) <=> Last(paused) = c
<1>1. paused \in Seq(Children \cup {Own}) BY Types
<1>2. Len(paused) = 1 /\ DOMAIN paused = 1 .. 1
  <2>1. Len(paused) \in Nat /\ Len(paused) <= 1 /\ Len(paused) # 0 /\ DOMAIN paused = 1 .. Len(paused)
    BY <1>1, LenProperties, EmptySeq DEF PlaceInv
  <2> QED BY <2>1
<1>3. paused[1] \in Children \cup {Own} BY <1>1, <1>2, ElementOfSeq
<1>4. Last(paused) = paused[1] BY <1>2 DEF Last
<1>5. Front(paused) = <<>>
  <2>1. Front(paused) = SubSeq(paused, 1, 0) BY <1>2 DEF Front
  <2> QED BY <2>1, <1>1
<1> QED BY <1>2, <1>3, <1>4, <1>5 DEF Pauses

\* The panics that some recovers have.
LEMMA DeliveredHolds ==
  ASSUME TypeOK, NEW rs \in Seq(Ids)
  PROVE  /\ ToSet(rs) \subseteq Ids
         /\ Delivered(rs) \subseteq Children
         /\ Delivered(rs) # {} => First(rs) \in Delivered(rs)
         /\ \A c \in Delivered(rs) : Stops(c)
         /\ Taken(rs) \in [Ids -> Children \cup {None}]
<1>1. ToSet(rs) \subseteq Ids BY LenProperties, ElementOfSeq DEF ToSet
<1>2. stop \in [Ids -> Children \cup {None}] BY Types
<1>3. Delivered(rs) \subseteq Children /\ \A c \in Delivered(rs) : Stops(c)
  BY <1>1, <1>2 DEF Delivered, Stops
<1>4. Delivered(rs) # {} => First(rs) \in Delivered(rs)
  BY <1>2, FirstDelivered, Constants DEF Delivered
<1>5. Taken(rs) \in [Ids -> Children \cup {None}] BY <1>2 DEF Taken
<1> QED BY <1>1, <1>3, <1>4, <1>5

-----------------------------------------------------------------------------
(* Each step keeps the invariant, part by part. *)

LEMMA InitInv == Init => Inv
<1> SUFFICES ASSUME Init PROVE Inv OBVIOUS
<1>1. /\ Len(recovers) = 0 /\ recovers \in Seq(Ids) /\ paused \in Seq(Children \cup {Own}) /\ Len(paused) = 0
      /\ DOMAIN paused = 1 .. 0 /\ ToSet(recovers) = {}
  BY DEF Init, ToSet
<1>2. TypeOK
  <2>1. stop \in [Ids -> Children \cup {None}] BY DEF Init
  <2>2. owner \in [Children -> Ids \cup {0}] BY DEF Init
  <2>3. level \in [Children -> 0 .. Gone] BY Constants DEF Init, Gone
  <2>4. child \in [Children -> {"unborn", "runs", "panics", "ended", "done"}] BY DEF Init
  <2>5. Depth <= MaxDepth /\ ran \in 0 .. MaxRecovers BY <1>1, Constants DEF Init, Depth
  <2> QED BY <1>1, <2>1, <2>2, <2>3, <2>4, <2>5, Types DEF Init
<1>3. PlaceInv BY <1>1 DEF Init, PlaceInv
<1>4. RecoverInv BY <1>1 DEF Init, RecoverInv, Rising
<1>5. RaisedInv BY Constants DEF Init, RaisedInv
<1>6. AlarmInv /\ HeardInv BY DEF Init, AlarmInv, HeardInv
<1>7. OnceInv BY <1>1, Constants DEF Init, OnceInv, Once, Stops, Pauses
<1> QED BY <1>2, <1>3, <1>4, <1>5, <1>6, <1>7 DEF Inv

LEMMA TypesStep == TypeOK /\ PlaceInv /\ RecoverInv /\ Next => TypeOK'
<1> SUFFICES ASSUME TypeOK, PlaceInv, RecoverInv, Next PROVE TypeInv'
  BY DEF TypeOK, Depth, TypeInv
<1> USE DEF ownerVars, panicVars, childVars, joinVars
<1>1. recovers \in Seq(Ids) /\ Depth = Len(recovers) BY Types DEF Depth
<1>2. CASE Unwinds
  <2>1. unwinding # None => Append(paused, unwinding) \in Seq(Children \cup {Own}) BY Types
  <2> QED BY <1>2, <2>1, Types DEF Unwinds, Depth, TypeInv
<1>3. CASE TakeAlarm BY <1>3, Types DEF TakeAlarm, Depth, TypeInv
<1>4. CASE Collect
  <2>1. /\ unwinding' \in Children \cup {Own, None} /\ settled' \subseteq Children
        /\ pc' \in {"cleans", "checks", "over"}
    BY <1>4, <1>1, DeliveredHolds, RethrowHolds DEF Collect
  <2> QED BY <1>4, <2>1, <1>1, DeliveredHolds, Types DEF Collect, Depth, TypeInv
<1>5. CASE Enter
  <2>1. ran' \in Ids /\ ran' \in 0 .. MaxRecovers BY <1>5, Types, Constants DEF Enter, Ids
  <2>2. recovers' \in Seq(Ids) /\ Depth' <= MaxDepth
    BY <1>5, <2>1, <1>1, AppendProperties, LenProperties, Constants DEF Enter, Depth
  <2> QED BY <1>5, <2>1, <2>2, Types DEF Enter, Depth, TypeInv
<1>6. CASE Panic BY <1>6, Types DEF Panic, Depth, TypeInv
<1>7. CASE WaitStops BY <1>7, Types DEF WaitStops, Depth, TypeInv
<1>8. CASE WaitTakes
  <2>1. on \in Children BY <1>8 DEF WaitTakes, PlaceInv
  <2>2. on \in joinPanic => unwinding' \in Children \cup {Own, None} /\ settled' \subseteq Children
                            /\ pc' \in {"checks", "over"}
    BY <1>8, <2>1, RethrowHolds DEF WaitTakes
  <2>3. unwinding' \in Children \cup {Own, None} /\ settled' \subseteq Children /\ pc' \in {"checks", "over"}
        /\ took' \in Children \cup {None}
    BY <1>8, <2>1, <2>2, Types DEF WaitTakes
  <2>4. level' \in [Children -> 0 .. Gone]
    <3>1. Gone \in 0 .. Gone BY Constants DEF Gone
    <3>2. level \in [Children -> 0 .. Gone] BY Types
    <3> QED BY <1>8, <3>1, <3>2 DEF WaitTakes
  <2> QED BY <1>8, <2>3, <2>4, Types DEF WaitTakes, Depth, TypeInv
<1>9. CASE Freed
  <2>1. on \in Children BY <1>9 DEF Freed, PlaceInv
  <2>2. /\ unwinding' \in Children \cup {Own, None} /\ settled' \subseteq Children
        /\ pc' \in {"cleans", "checks", "over"}
    BY <1>9, <2>1, RethrowHolds DEF Freed
  <2>3. level' \in [Children -> 0 .. Gone]
    <3>1. Gone \in 0 .. Gone BY Constants DEF Gone
    <3>2. level \in [Children -> 0 .. Gone] BY Types
    <3> QED BY <1>9, <3>1, <3>2 DEF Freed
  <2> QED BY <1>9, <2>2, <2>3, Types DEF Freed, Depth, TypeInv
<1>10. CASE End
  <2> DEFINE seen == IF alarm THEN recovers ELSE <<Top>>
  <2>1. Top \in Ids BY <1>10, TopHolds DEF End
  <2>2. <<Top>> \in Seq(Ids) BY <2>1
  <2>3. seen \in Seq(Ids) BY <1>1, <2>2
  <2> HIDE DEF seen
  <2>4. /\ stop' = Taken(seen)
        /\ \/ recovers' = Front(recovers) /\ Calm(Front(recovers)) /\ UNCHANGED <<pc, paused>>
           \/ First(seen) \in Children /\ alarm' = FALSE /\ paused' = <<First(seen)>> /\ pc' = "catches"
              /\ UNCHANGED recovers
    BY <1>10, <2>3, DeliveredHolds DEF End, seen
  <2>5. stop' \in [Ids -> Children \cup {None}] BY <2>3, <2>4, DeliveredHolds
  <2>6. recovers' \in Seq(Ids) /\ Len(recovers') <= MaxDepth
    BY <1>10, <2>4, <1>1, TopHolds, Types, Constants, LenProperties DEF End
  <2>7. alarm' \in BOOLEAN BY <2>4, Types DEF Calm
  <2>8. paused' \in Seq(Children \cup {Own})
    <3>1. First(seen) \in Children => <<First(seen)>> \in Seq(Children \cup {Own}) OBVIOUS
    <3>2. paused \in Seq(Children \cup {Own}) BY Types
    <3> QED BY <2>4, <3>1, <3>2
  <2> QED BY <1>10, <2>4, <2>5, <2>6, <2>7, <2>8, Types DEF End, Depth, TypeInv
<1>11. CASE Leave
  <2>1. Top \in Ids BY <1>11, TopHolds DEF Leave
  <2>2. recovers' \in Seq(Ids) /\ Len(recovers') <= MaxDepth
    BY <1>11, <1>1, TopHolds, Types, Constants, LenProperties DEF Leave
  <2>3. /\ unwinding' \in Children \cup {Own, None} /\ settled' \subseteq Children
        /\ pc' \in {"code", "checks", "over"} /\ alarm' \in BOOLEAN
    BY <1>11, <2>1, Types DEF Leave, Told, Calm
  <2>4. stop' \in [Ids -> Children \cup {None}] BY <1>11, <2>1, Types DEF Leave
  <2> QED BY <1>11, <2>2, <2>3, <2>4, Types DEF Leave, Depth, TypeInv
<1>12. CASE Catch
  <2>1. paused # <<>> /\ recovers # <<>> BY <1>12 DEF Catch, PlaceInv
  <2>2. caught' \in Children \cup {Own} /\ paused' \in Seq(Children \cup {Own})
    BY <1>12, <2>1, PausedHolds DEF Catch
  <2>3. recovers' \in Seq(Ids) /\ Len(recovers') <= MaxDepth
    BY <1>12, <1>1, <2>1, TopHolds, Types, Constants, LenProperties DEF Catch
  <2>4. <<Top>> \in Seq(Ids) BY <2>1, TopHolds
  <2>5. settled' \subseteq Children /\ stop' \in [Ids -> Children \cup {None}] /\ alarm' \in BOOLEAN
    BY <1>12, <2>4, DeliveredHolds, Types DEF Catch, Told, Calm
  <2> QED BY <1>12, <2>2, <2>3, <2>5, Types DEF Catch, Depth, TypeInv
<1>13. CASE Handle
  <2>1. settled' \subseteq Children BY <1>13, Types, Constants DEF Handle, Told, PlaceInv
  <2> QED BY <1>13, <2>1, Types, Constants DEF Handle, Depth, TypeInv
<1>14. CASE Resume
  <2>1. caught \in Children \cup {Own} BY <1>14, Types DEF Resume, PlaceInv
  <2>2. /\ unwinding' \in Children \cup {Own, None} /\ settled' \subseteq Children /\ pc' \in {"checks", "over"}
    BY <1>14, <2>1, RethrowHolds DEF Resume
  <2> QED BY <1>14, <2>2, Types DEF Resume, Depth, TypeInv
<1>15. ASSUME NEW c \in Children, Spawn(c) \/ Wait(c) \/ Detach(c) \/ Free(c) PROVE TypeInv'
  <2>1. CASE Spawn(c)
    <3>1. child' \in [Children -> {"unborn", "runs", "panics", "ended", "done"}] BY <2>1, Types DEF Spawn
    <3>2. owner' \in [Children -> Ids \cup {0}]
      <4>1. recovers # <<>> => Last(recovers) \in Ids BY TopHolds DEF Top
      <4> QED BY <2>1, <4>1, Types DEF Spawn
    <3>3. level' \in [Children -> 0 .. Gone]
      <4>1. Depth \in Nat /\ 0 .. Depth \subseteq 0 .. Gone
        BY <1>1, Types, Constants, LenProperties DEF Gone
      <4>2. level \in [Children -> 0 .. Gone] BY Types
      <4> QED BY <2>1, <4>1, <4>2 DEF Spawn
    <3> QED BY <2>1, <3>1, <3>2, <3>3, Types DEF Spawn, Depth, TypeInv
  <2>2. CASE Wait(c) BY <2>2, Types DEF Wait, Depth, TypeInv
  <2>3. CASE Detach(c)
    <3>1. level' \in [Children -> 0 .. Gone]
      <4>1. Gone \in 0 .. Gone BY Constants DEF Gone
      <4>2. level \in [Children -> 0 .. Gone] BY Types
      <4> QED BY <2>3, <4>1, <4>2 DEF Detach
    <3> QED BY <2>3, <3>1, Types DEF Detach, Depth, TypeInv
  <2>4. CASE Free(c)
    <3>1. cancelled' \subseteq Children BY <2>4, Types DEF Free
    <3> QED BY <2>4, <3>1, Types DEF Free, Depth, TypeInv
  <2> QED BY <1>15, <2>1, <2>2, <2>3, <2>4
<1>16. ASSUME NEW c \in Children, ChildEnds(c) \/ ChildPanics(c) \/ Deliver(c) \/ Complete(c) PROVE TypeInv'
  <2>1. child' \in [Children -> {"unborn", "runs", "panics", "ended", "done"}]
    BY <1>16, Types DEF ChildEnds, ChildPanics, Deliver, Complete
  <2>2. CASE ChildEnds(c) BY <2>1, <2>2, Types DEF ChildEnds, Depth, TypeInv
  <2>3. CASE ChildPanics(c) BY <2>1, <2>3, Types DEF ChildPanics, Depth, TypeInv
  <2>4. CASE Deliver(c)
    <3>1. stop' \in [Ids -> Children \cup {None}] /\ alarm' \in BOOLEAN /\ joinPanic' \subseteq Children
      BY <2>4, Types DEF Deliver
    <3> QED BY <2>1, <2>4, <3>1, Types DEF Deliver, Depth, TypeInv
  <2>5. CASE Complete(c)
    <3>1. /\ settled' \subseteq Children /\ joinPanic' \subseteq Children
          /\ pc' \in {pc, "over"}
      BY <2>5, Types DEF Complete, Told
    <3> QED BY <2>1, <2>5, <3>1, Types DEF Complete, Depth, TypeInv
  <2> QED BY <1>16, <2>2, <2>3, <2>4, <2>5
<1> QED BY <1>2, <1>3, <1>4, <1>5, <1>6, <1>7, <1>8, <1>9, <1>10, <1>11, <1>12, <1>13, <1>14,
          <1>15, <1>16, NextHolds

LEMMA PlaceStep == TypeOK /\ PlaceInv /\ RecoverInv /\ Next => PlaceInv'
<1> SUFFICES ASSUME TypeOK, PlaceInv, RecoverInv, Next PROVE PlaceInv' OBVIOUS
<1> USE DEF ownerVars, panicVars, childVars, joinVars
<1>1. paused = <<>> <=> Len(paused) = 0 BY Types, EmptySeq
<1>2. CASE Unwinds
  <2>1. \A p : Len(<<p>>) = 1 /\ <<p>> # <<>> OBVIOUS
  <2>2. paused = <<>> BY <1>2 DEF Unwinds, PlaceInv
  <2>3. CASE unwinding = None BY <1>2, <2>2, <2>3 DEF Unwinds, PlaceInv
  <2>4. CASE unwinding # None
    <3>1. paused' = <<unwinding>> BY <1>2, <2>2, <2>4 DEF Unwinds
    <3> QED BY <1>2, <2>1, <2>4, <3>1 DEF Unwinds, PlaceInv
  <2> QED BY <2>3, <2>4
<1>3. CASE TakeAlarm BY <1>3 DEF TakeAlarm, PlaceInv
<1>4. CASE Collect
  <2>1. /\ pc' = (IF Cleaning THEN "cleans" ELSE "checks") \/ pc' = "over"
        /\ unwinding' # unwinding => recovers # <<>> /\ ~Cleaning
    <3>1. recovers \in Seq(Ids) BY Types
    <3>2. /\ Delivered(recovers) \in SUBSET (Children \cup {Own})
          /\ Delivered(recovers) # {} => First(recovers) \in Delivered(recovers)
      BY <3>1, DeliveredHolds
    <3>3. Rethrow(Delivered(recovers), First(recovers), IF Cleaning THEN "cleans" ELSE "checks")
      BY <1>4 DEF Collect
    <3> QED BY <3>2, <3>3, RethrowHolds
  <2> QED BY <1>4, <2>1 DEF Collect, PlaceInv, Cleaning
<1>5. CASE Enter
  <2>1. recovers' # <<>>
    <3>1. ran' \in Ids BY <1>5, Types, Constants DEF Enter, Ids
    <3> QED BY <3>1, <1>5, Types, AppendProperties DEF Enter
  <2> QED BY <1>5, <2>1 DEF Enter, PlaceInv
<1>6. CASE Panic BY <1>6 DEF Panic, PlaceInv
<1>7. CASE WaitStops BY <1>7 DEF WaitStops, PlaceInv
<1>8. CASE WaitTakes
  <2>1. on \in Children BY <1>8 DEF WaitTakes, PlaceInv
  <2>2. on \in joinPanic => /\ pc' \in {"checks", "over"}
                            /\ unwinding' # unwinding => recovers # <<>> /\ ~Cleaning
    BY <1>8, <2>1, RethrowHolds DEF WaitTakes
  <2> QED BY <1>8, <2>2 DEF WaitTakes, PlaceInv, Cleaning
<1>9. CASE Freed
  <2>1. on \in Children BY <1>9 DEF Freed, PlaceInv
  <2> DEFINE ps == {on} \cap joinPanic
             to == IF Cleaning THEN "cleans" ELSE "checks"
  <2>2. ps \in SUBSET (Children \cup {Own}) /\ (ps # {} => on \in ps) /\ Rethrow(ps, on, to)
    BY <1>9, <2>1 DEF Freed
  <2> HIDE DEF ps, to
  <2>3. /\ pc' = to \/ pc' = "over"
        /\ unwinding' # unwinding => recovers # <<>> /\ ~Cleaning
    BY <2>2, RethrowHolds
  <2> QED BY <1>9, <2>3 DEF Freed, PlaceInv, Cleaning, to
<1>10. CASE End
  <2>1. \A p : Len(<<p>>) = 1 /\ <<p>> # <<>> OBVIOUS
  <2>2. unwinding = None /\ paused = <<>> BY <1>10 DEF End, PlaceInv
  <2>3. \/ UNCHANGED <<pc, paused>>
        \/ pc' = "catches" /\ UNCHANGED recovers /\ Len(paused') = 1 /\ paused' # <<>>
    BY <1>10, <2>1 DEF End
  <2>4. pc = "code" /\ recovers # <<>> /\ UNCHANGED <<on, unwinding, caught>> BY <1>10 DEF End
  <2>5. CASE UNCHANGED <<pc, paused>> BY <2>2, <2>4, <2>5 DEF PlaceInv
  <2>6. CASE pc' = "catches" /\ UNCHANGED recovers /\ Len(paused') = 1 /\ paused' # <<>>
    BY <2>2, <2>4, <2>6 DEF PlaceInv
  <2> QED BY <2>3, <2>5, <2>6
<1>11. CASE Leave BY <1>11 DEF Leave, PlaceInv
<1>12. CASE Catch
  <2>1. paused # <<>> /\ unwinding = None BY <1>12 DEF Catch, PlaceInv
  <2>2. paused' = <<>> /\ Len(paused') = 0 BY <1>12, <2>1, PausedHolds DEF Catch
  <2>3. caught' # None BY <1>12, <2>1, PausedHolds, Constants DEF Catch
  <2> QED BY <1>12, <2>1, <2>2, <2>3 DEF Catch, PlaceInv
<1>13. CASE Handle BY <1>13 DEF Handle, PlaceInv
<1>14. CASE Resume
  <2>1. caught \in Children \cup {Own} BY <1>14, Types DEF Resume, PlaceInv
  <2>2. /\ pc' \in {"checks", "over"}
        /\ unwinding' # unwinding => recovers # <<>> /\ ~Cleaning
    BY <1>14, <2>1, RethrowHolds DEF Resume
  <2> QED BY <1>14, <2>2 DEF Resume, PlaceInv, Cleaning
<1>15. CASE \E c \in Children : Spawn(c) \/ Wait(c) \/ Detach(c) \/ Free(c)
  BY <1>15 DEF Spawn, Wait, Detach, Free, PlaceInv
<1>16. CASE \E c \in Children : ChildEnds(c) \/ ChildPanics(c) \/ Deliver(c) \/ Complete(c)
  BY <1>16 DEF ChildEnds, ChildPanics, Deliver, Complete, PlaceInv
<1> QED BY <1>2, <1>3, <1>4, <1>5, <1>6, <1>7, <1>8, <1>9, <1>10, <1>11, <1>12, <1>13, <1>14,
          <1>15, <1>16, NextHolds

LEMMA RecoverStep == TypeOK /\ PlaceInv /\ RecoverInv /\ Next => RecoverInv'
<1> SUFFICES ASSUME TypeOK, PlaceInv, RecoverInv, Next PROVE RecoverInv' OBVIOUS
<1> USE DEF ownerVars, panicVars, childVars, joinVars
<1>1. CASE Enter
  <2>1. ran' \in Ids /\ ran' = ran + 1 /\ ran \in Nat BY <1>1, Types, Constants DEF Enter, Ids
  <2>2. \A r \in ToSet(recovers) : r \in Nat /\ r <= ran
    BY Types, DeliveredHolds, Constants DEF Ids, RecoverInv
  <2>3. \A r \in ToSet(recovers) : r < ran' BY <2>1, <2>2
  <2>4. ToSet(recovers') = ToSet(recovers) \cup {ran'} /\ Rising(recovers')
    BY <1>1, <2>1, <2>3, Types, EnterHolds DEF Enter, RecoverInv
  <2>5. \A r \in ToSet(recovers') : r <= ran' BY <2>1, <2>2, <2>4
  <2>6. open' \subseteq ToSet(recovers') /\ ToSet(recovers') \subseteq open'
    BY <1>1, <2>4 DEF Enter, RecoverInv
  <2> QED BY <2>4, <2>5, <2>6 DEF RecoverInv
<1>2. ASSUME recovers # <<>>, open' = open \ {Top}, UNCHANGED ran,
             \/ recovers' = Front(recovers)
             \/ UNCHANGED recovers /\ pc' = "catches"
      PROVE  RecoverInv'
  <2>1. CASE recovers' = Front(recovers)
    <3>1. ToSet(recovers') = ToSet(recovers) \ {Top} /\ Rising(recovers') BY <1>2, <2>1, TopHolds
    <3>2. open' = ToSet(recovers') BY <1>2, <3>1 DEF RecoverInv
    <3> QED BY <1>2, <3>1, <3>2 DEF RecoverInv
  <2>2. CASE UNCHANGED recovers /\ pc' = "catches" BY <1>2, <2>2 DEF RecoverInv, Top
  <2> QED BY <1>2, <2>1, <2>2
<1>3. CASE End \/ Leave \/ Catch
  <2>1. recovers # <<>> /\ open' = open \ {Top} /\ UNCHANGED ran
    BY <1>3 DEF End, Leave, Catch, PlaceInv
  <2>2. recovers' = Front(recovers) \/ (UNCHANGED recovers /\ pc' = "catches")
    BY <1>3 DEF End, Leave, Catch
  <2> QED BY <1>2, <2>1, <2>2
<1>4. ASSUME UNCHANGED <<recovers, ran, open>>, pc' \in {"catches", "over"} \/ pc \notin {"catches", "over"}
      PROVE  RecoverInv'
  BY <1>4 DEF RecoverInv, Top
<1>5. ASSUME Unwinds \/ TakeAlarm \/ Collect \/ Panic \/ WaitStops \/ WaitTakes \/ Freed \/ Handle \/ Resume
      PROVE  RecoverInv'
  <2>1. UNCHANGED <<recovers, ran, open>> /\ pc \notin {"catches", "over"}
    BY <1>5 DEF Unwinds, TakeAlarm, Collect, Panic, WaitStops, WaitTakes, Freed, Handle, Resume
  <2> QED BY <1>4, <2>1
<1>6. ASSUME NEW c \in Children,
             \/ Spawn(c) \/ Wait(c) \/ Detach(c) \/ Free(c)
             \/ ChildEnds(c) \/ ChildPanics(c) \/ Deliver(c) \/ Complete(c)
      PROVE  RecoverInv'
  <2>1. UNCHANGED <<recovers, ran, open>>
    BY <1>6 DEF Spawn, Wait, Detach, Free, ChildEnds, ChildPanics, Deliver, Complete
  <2>2. UNCHANGED pc \/ pc \in {"code", "cleans"} \/ pc' = "over"
    BY <1>6 DEF Spawn, Wait, Detach, Free, ChildEnds, ChildPanics, Deliver, Complete
  <2> QED BY <1>4, <2>1, <2>2
<1> QED BY <1>1, <1>3, <1>5, <1>6, NextHolds

LEMMA RaisedStep ==
  TypeOK /\ PlaceInv /\ RecoverInv /\ RaisedInv /\ OnceInv /\ Next => RaisedInv'
<1> SUFFICES ASSUME TypeOK, PlaceInv, RecoverInv, RaisedInv, OnceInv, Next PROVE RaisedInv' OBVIOUS
<1> USE DEF ownerVars, panicVars, childVars, joinVars
<1>1. \A c \in Children, r \in Ids : stop[r] = c => c \in raised /\ owner[c] = r
  BY DEF OnceInv, Once, Stops, RaisedInv
<1>2. ASSUME UNCHANGED <<raised, child, owner>>, ran' >= ran, ran' \in Nat,
             \A r \in Ids : stop'[r] = stop[r] \/ stop'[r] = None
      PROVE  RaisedInv'
  <2>1. \A c \in Children : owner[c] \in Nat /\ ran \in Nat BY Types, Constants DEF Ids
  <2>2. \A c \in Children : owner'[c] <= ran' BY <1>2, <2>1 DEF RaisedInv
  <2> QED BY <1>2, <2>2, Constants DEF RaisedInv
<1>3. ASSUME \/ Unwinds \/ TakeAlarm \/ Enter \/ Panic \/ WaitStops \/ WaitTakes
             \/ Freed \/ Handle \/ Resume
             \/ \E c \in Children : Wait(c) \/ Detach(c) \/ Free(c)
      PROVE  RaisedInv'
  <2>1. ran \in Nat BY Types, Constants
  <2>2. UNCHANGED <<raised, child, owner, stop>> /\ (ran' = ran \/ ran' = ran + 1)
    BY <1>3 DEF Unwinds, TakeAlarm, Enter, Panic, WaitStops, WaitTakes, Freed, Handle, Resume,
                Wait, Detach, Free
  <2> QED BY <1>2, <2>1, <2>2
<1>4. CASE Collect \/ End \/ Leave \/ Catch
  <2>1. ran \in Nat BY Types, Constants
  <2>2. UNCHANGED <<raised, child, owner, ran>> BY <1>4 DEF Collect, End, Leave, Catch
  <2>3. \A r \in Ids : stop'[r] = stop[r] \/ stop'[r] = None
    <3>1. \/ \E rs : stop' = Taken(rs)
          \/ stop' = [stop EXCEPT ![Top] = None]
      BY <1>4 DEF Collect, End, Leave, Catch
    <3> QED BY <3>1, Types DEF Taken
  <2> QED BY <1>2, <2>1, <2>2, <2>3
<1>5. ASSUME NEW c \in Children, Spawn(c) PROVE RaisedInv'
  <2>1. c \notin raised BY <1>5 DEF Spawn, RaisedInv
  <2>2. /\ UNCHANGED <<raised, stop, ran>> /\ \A d \in Children \ {c} : child'[d] = child[d] /\ owner'[d] = owner[d]
        /\ owner'[c] = IF recovers = <<>> THEN 0 ELSE Last(recovers)
    BY <1>5, Types DEF Spawn
  <2>3. owner'[c] <= ran
    <3>1. recovers # <<>> => Last(recovers) <= ran BY TopHolds DEF Top, RecoverInv
    <3> QED BY <3>1, <2>2, Types, Constants
  <2>4. raised \subseteq Children BY Types
  <2>5. \A d \in raised' : child'[d] \in {"panics", "ended", "done"} BY <2>1, <2>2, <2>4 DEF RaisedInv
  <2>6. \A d \in Children : owner'[d] <= ran' BY <2>2, <2>3 DEF RaisedInv
  <2>7. \A d \in Children, r \in Ids : stop'[r] = d => owner'[d] = r BY <1>1, <2>1, <2>2
  <2> QED BY <2>5, <2>6, <2>7 DEF RaisedInv
<1>6. ASSUME NEW c \in Children, ChildEnds(c) \/ ChildPanics(c) \/ Deliver(c) \/ Complete(c) PROVE RaisedInv'
  <2>1. /\ UNCHANGED <<owner, ran>> /\ \A d \in Children \ {c} : child'[d] = child[d]
        /\ raised' \subseteq raised \cup {c}
    BY <1>6, Types DEF ChildEnds, ChildPanics, Deliver, Complete
  <2>2. c \in raised' => child'[c] \in {"panics", "ended", "done"}
    BY <1>6, Types DEF ChildEnds, ChildPanics, Deliver, Complete, RaisedInv
  <2>3. \A r \in Ids : stop'[r] # stop[r] => stop'[r] = c /\ owner[c] = r
    BY <1>6, Types DEF ChildEnds, ChildPanics, Deliver, Complete
  <2>4. raised \subseteq Children BY Types
  <2>5. \A d \in raised' : child'[d] \in {"panics", "ended", "done"} BY <2>1, <2>2, <2>4 DEF RaisedInv
  <2>6. \A d \in Children : owner'[d] <= ran' BY <2>1 DEF RaisedInv
  <2>7. \A d \in Children, r \in Ids : stop'[r] = d => owner'[d] = r BY <2>1, <2>3 DEF RaisedInv
  <2> QED BY <2>5, <2>6, <2>7 DEF RaisedInv
<1> QED BY <1>3, <1>4, <1>5, <1>6, NextHolds

LEMMA AlarmStep == TypeOK /\ PlaceInv /\ RecoverInv /\ AlarmInv /\ Next => AlarmInv'
<1> SUFFICES ASSUME TypeOK, PlaceInv, RecoverInv, AlarmInv, Next PROVE AlarmInv' OBVIOUS
<1> USE DEF ownerVars, panicVars, childVars, joinVars
<1>1. CASE TakeAlarm BY <1>1 DEF TakeAlarm, AlarmInv
<1>2. CASE Collect
  <2>1. pc' \in {"cleans", "checks", "over"} BY <1>2, Types, DeliveredHolds, RethrowHolds DEF Collect
  <2> QED BY <2>1 DEF AlarmInv
<1>3. CASE Freed
  <2>1. on \in Children BY <1>3 DEF Freed, PlaceInv
  <2> DEFINE ps == {on} \cap joinPanic
             to == IF Cleaning THEN "cleans" ELSE "checks"
  <2>2. ps \in SUBSET (Children \cup {Own}) /\ (ps # {} => on \in ps) /\ Rethrow(ps, on, to)
    BY <1>3, <2>1 DEF Freed
  <2> HIDE DEF ps, to
  <2>3. pc' = to \/ pc' = "over" BY <2>2, RethrowHolds
  <2> QED BY <2>3 DEF AlarmInv, to
<1>4. CASE WaitTakes
  <2>1. on \in Children BY <1>4 DEF WaitTakes, PlaceInv
  <2>2. pc' \in {"checks", "over"} BY <1>4, <2>1, RethrowHolds DEF WaitTakes
  <2> QED BY <2>2 DEF AlarmInv
<1>5. CASE Resume
  <2>1. caught \in Children \cup {Own} BY <1>5, Types DEF Resume, PlaceInv
  <2>2. pc' \in {"checks", "over"} BY <1>5, <2>1, RethrowHolds DEF Resume
  <2> QED BY <2>2 DEF AlarmInv
<1>6. CASE Enter
  <2>1. ran' \in Ids BY <1>6, Types, Constants DEF Enter, Ids
  <2>2. ToSet(recovers') = ToSet(recovers) \cup {ran'} BY <1>6, <2>1, Types, AppendHolds DEF Enter
  <2> QED BY <1>6, <2>2 DEF Enter, AlarmInv
<1>7. ASSUME recovers # <<>>, recovers' = Front(recovers), Calm(Front(recovers)),
             \A r \in Ids \ {Top} : stop'[r] = stop[r]
      PROVE  AlarmInv'
  <2> SUFFICES ASSUME alarm' PROVE \E r \in ToSet(recovers') : stop'[r] # None BY DEF AlarmInv
  <2>1. Delivered(Front(recovers)) # {} BY <1>7 DEF Calm
  <2>2. PICK r \in ToSet(Front(recovers)) : stop[r] # None BY <2>1 DEF Delivered
  <2>3. r \in Ids \ {Top} BY <2>2, <1>7, TopHolds
  <2> QED BY <1>7, <2>2, <2>3
<1>8. CASE End
  <2>1. CASE alarm' = FALSE BY <2>1 DEF AlarmInv
  <2>2. CASE alarm' # FALSE
    <3>1. recovers # <<>> /\ recovers' = Front(recovers) /\ Calm(Front(recovers)) BY <1>8, <2>2 DEF End
    <3>2. CASE alarm
      <4>1. Delivered(recovers) = {} BY <1>8, <2>2, <3>2 DEF End
      <4>2. \A r \in ToSet(Front(recovers)) : r \in ToSet(recovers) BY <3>1, TopHolds
      <4>3. Delivered(Front(recovers)) = {} BY <4>1, <4>2 DEF Delivered
      <4> QED BY <3>1, <4>3, <2>2 DEF Calm
    <3>3. CASE ~alarm BY <3>1, <3>3, <2>2 DEF Calm
    <3> QED BY <3>2, <3>3
  <2> QED BY <2>1, <2>2
<1>9. CASE Leave
  <2>1. \A r \in Ids \ {Top} : stop'[r] = stop[r] BY <1>9, Types DEF Leave
  <2> QED BY <1>7, <1>9, <2>1 DEF Leave
<1>10. CASE Catch
  <2>1. recovers # <<>> BY <1>10 DEF Catch, PlaceInv
  <2>2. Top \in Ids BY <2>1, TopHolds
  <2>3. ToSet(<<Top>>) = {Top} BY DEF ToSet
  <2>4. \A r \in Ids \ {Top} : stop'[r] = stop[r] BY <1>10, <2>3 DEF Catch, Taken
  <2> QED BY <1>7, <1>10, <2>1, <2>4 DEF Catch
<1>11. CASE Unwinds \/ Panic \/ WaitStops \/ Handle
  BY <1>11 DEF Unwinds, Panic, WaitStops, Handle, AlarmInv
<1>12. CASE \E c \in Children : Spawn(c) \/ Wait(c) \/ Detach(c) \/ Free(c)
  BY <1>12 DEF Spawn, Wait, Detach, Free, AlarmInv
<1>13. ASSUME NEW c \in Children, ChildEnds(c) \/ ChildPanics(c) \/ Complete(c) PROVE AlarmInv'
  BY <1>13 DEF ChildEnds, ChildPanics, Complete, AlarmInv
<1>14. ASSUME NEW c \in Children, Deliver(c) PROVE AlarmInv'
  <2>1. CASE c \notin freed /\ owner[c] \in open /\ stop[owner[c]] = None
    <3>1. owner[c] \in ToSet(recovers) /\ owner[c] \in Ids BY <2>1, Types DEF RecoverInv
    <3>2. stop'[owner[c]] = c /\ c # None /\ UNCHANGED recovers BY <1>14, <2>1, <3>1, Types, Constants DEF Deliver
    <3> QED BY <3>1, <3>2 DEF AlarmInv
  <2>2. CASE ~(c \notin freed /\ owner[c] \in open /\ stop[owner[c]] = None)
    BY <1>14, <2>2 DEF Deliver, AlarmInv
  <2> QED BY <2>1, <2>2
<1> QED BY <1>1, <1>2, <1>3, <1>4, <1>5, <1>6, <1>8, <1>9, <1>10, <1>11, <1>12, <1>13, <1>14, NextHolds

LEMMA HeardStep ==
  TypeOK /\ PlaceInv /\ RecoverInv /\ RaisedInv /\ HeardInv /\ Next => HeardInv'
<1> SUFFICES ASSUME TypeOK, PlaceInv, RecoverInv, RaisedInv, HeardInv, Next PROVE HeardInv' OBVIOUS
<1> USE DEF ownerVars, panicVars, childVars, joinVars
<1>1. ASSUME UNCHANGED <<raised, child, owner, ran, open>>, freed \subseteq freed',
             stop[ran] # None /\ ran \in open => stop'[ran] # None \/ unwinding' # None \/ paused' # <<>>,
             unwinding # None => unwinding' # None \/ paused' # <<>>,
             paused # <<>> => paused' # <<>>
      PROVE  HeardInv'
  BY <1>1 DEF HeardInv
<1>2. CASE Unwinds
  <2>1. paused = <<>> BY <1>2 DEF Unwinds, PlaceInv
  <2>2. unwinding # None => paused' = <<unwinding>> BY <1>2, <2>1 DEF Unwinds
  <2> QED BY <1>1, <1>2, <2>1, <2>2 DEF Unwinds
<1>3. CASE Collect
  <2>1. /\ UNCHANGED <<raised, child, owner, ran, open, freed, paused>>
        /\ Rethrow(Delivered(recovers), First(recovers), IF Cleaning THEN "cleans" ELSE "checks")
    BY <1>3 DEF Collect
  <2>2. /\ unwinding # None => unwinding' # None
        /\ Delivered(recovers) # {} /\ recovers # <<>> => Cleaning \/ unwinding' # None
    BY <2>1, Types, DeliveredHolds, RethrowHolds
  <2>3. stop[ran] # None /\ ran \in open => Delivered(recovers) # {} /\ recovers # <<>>
    BY DEF RecoverInv, Delivered, ToSet
  <2> QED BY <1>1, <2>1, <2>2, <2>3 DEF Cleaning
<1>4. CASE Enter
  <2>1. \A c \in raised : c \in Children /\ owner[c] \in Nat /\ owner[c] <= ran /\ ran \in Nat
    BY Types, Constants DEF RaisedInv, Ids
  <2> QED BY <1>4, <2>1 DEF Enter, HeardInv
<1>5. CASE WaitTakes
  <2>1. on \in Children BY <1>5 DEF WaitTakes, PlaceInv
  <2>2. on \in joinPanic => (unwinding # None => unwinding' # None)
    BY <1>5, <2>1, RethrowHolds DEF WaitTakes
  <2> QED BY <1>1, <1>5, <2>2 DEF WaitTakes
<1>6. CASE Freed
  <2>1. unwinding = None BY <1>6 DEF Freed, PlaceInv
  <2> QED BY <1>1, <1>6, <2>1 DEF Freed
<1>7. CASE Resume
  <2>1. unwinding = None BY <1>7 DEF Resume, PlaceInv
  <2> QED BY <1>1, <1>7, <2>1 DEF Resume
<1>8. CASE End \/ Leave \/ Catch
  <2>1. recovers # <<>> /\ open' = open \ {Top} /\ UNCHANGED ran
    BY <1>8 DEF End, Leave, Catch, PlaceInv
  <2>2. ran' \notin open' BY <2>1, TopHolds
  <2> QED BY <2>2 DEF HeardInv
<1>9. CASE TakeAlarm \/ Panic \/ WaitStops \/ Handle
  BY <1>1, <1>9, Constants DEF TakeAlarm, Panic, WaitStops, Handle
<1>10. ASSUME NEW c \in Children, Wait(c) \/ Detach(c) \/ Free(c) PROVE HeardInv'
  BY <1>1, <1>10 DEF Wait, Detach, Free
<1>11. ASSUME NEW c \in Children, Spawn(c) PROVE HeardInv'
  <2>1. c \notin raised BY <1>11 DEF Spawn, RaisedInv
  <2>2. raised \subseteq Children BY Types
  <2>3. \A d \in raised : child'[d] = child[d] /\ owner'[d] = owner[d] BY <1>11, <2>1, <2>2, Types DEF Spawn
  <2> QED BY <1>11, <2>3 DEF Spawn, HeardInv
<1>12. ASSUME NEW c \in Children, ChildEnds(c) \/ ChildPanics(c) \/ Complete(c) PROVE HeardInv'
  <2>1. raised \subseteq Children BY Types
  <2>2. UNCHANGED <<owner, ran, open, freed, stop, unwinding, paused>>
    BY <1>12 DEF ChildEnds, ChildPanics, Complete
  <2>3. \A d \in raised' : child'[d] # "panics" => d \in raised /\ child[d] # "panics"
    BY <1>12, <2>1, Types DEF ChildEnds, ChildPanics, Complete, RaisedInv
  <2> QED BY <2>2, <2>3 DEF HeardInv
<1>13. ASSUME NEW c \in Children, Deliver(c) PROVE HeardInv'
  <2>1. raised \subseteq Children BY Types
  <2>2. UNCHANGED <<raised, owner, ran, open, freed, unwinding, paused>> BY <1>13 DEF Deliver
  <2>3. \A d \in raised \ {c} : child'[d] = child[d] BY <1>13, <2>1, Types DEF Deliver
  <2>4. \A r \in Ids : stop[r] # None => stop'[r] # None BY <1>13, Types, Constants DEF Deliver
  <2>5. c \notin freed /\ owner[c] \in open => stop'[owner[c]] # None
    BY <1>13, Types, Constants DEF Deliver
  <2>6. ran \in open => ran \in Ids BY Types
  <2> QED BY <2>2, <2>3, <2>4, <2>5, <2>6 DEF HeardInv
<1> QED BY <1>2, <1>3, <1>4, <1>5, <1>6, <1>7, <1>8, <1>9, <1>10, <1>11, <1>12, <1>13, NextHolds

LEMMA OnceStep ==
  TypeOK /\ PlaceInv /\ RecoverInv /\ RaisedInv /\ OnceInv /\ Next => OnceInv'
<1> SUFFICES ASSUME TypeOK, PlaceInv, RecoverInv, RaisedInv, OnceInv, Next, NEW c \in Children PROVE Once(c)'
  BY DEF OnceInv
<1> USE DEF ownerVars, panicVars, childVars, joinVars
<1>1. Once(c) /\ c # None /\ c # Own BY Constants DEF OnceInv
<1>2. \A d : ~(Pauses(d) /\ paused = <<>>) BY DEF Pauses
<1>3. CASE Unwinds
  <2>1. paused = <<>> BY <1>3 DEF Unwinds, PlaceInv
  <2>2. CASE unwinding = None BY <1>1, <1>3, <2>2 DEF Unwinds, Once, Stops, Pauses
  <2>3. CASE unwinding # None
    <3>1. paused' = <<unwinding>> BY <1>3, <2>1, <2>3 DEF Unwinds
    <3>2. DOMAIN paused' = 1 .. 1 /\ paused'[1] = unwinding BY <3>1
    <3>3. Pauses(c)' <=> unwinding = c BY <3>2 DEF Pauses
    <3>4. Stops(c)' <=> Stops(c) BY <1>3 DEF Unwinds, Stops
    <3> QED BY <1>1, <1>2, <1>3, <2>1, <2>3, <3>3, <3>4 DEF Unwinds, Once
  <2> QED BY <2>2, <2>3
<1>4. CASE Collect
  <2>1. /\ UNCHANGED <<paused, caught, joinPanic, child, raised>> /\ stop' = Taken(recovers)
        /\ Rethrow(Delivered(recovers), First(recovers), IF Cleaning THEN "cleans" ELSE "checks")
    BY <1>4 DEF Collect
  <2>2. /\ unwinding' # unwinding =>
              unwinding = None /\ unwinding' \in Delivered(recovers) /\ settled' = settled
        /\ settled' \subseteq settled \cup Delivered(recovers)
    BY <2>1, Types, DeliveredHolds, RethrowHolds, Constants
  <2>3. /\ c \in Delivered(recovers) => Stops(c)
        /\ Stops(c)' => Stops(c)
    BY <2>1, <1>1, Types, DeliveredHolds DEF Taken, Stops
  <2>4. c \in Delivered(recovers) => ~Stops(c)'
    <3>1. \A r \in Ids : stop[r] = c => owner[c] = r BY DEF RaisedInv
    <3>2. c \in Delivered(recovers) => owner[c] \in ToSet(recovers)
      BY <3>1, Types, DeliveredHolds DEF Delivered
    <3> QED BY <2>1, <3>1, <3>2, <1>1 DEF Stops, Taken
  <2>5. Pauses(c)' <=> Pauses(c) BY <2>1 DEF Pauses
  <2> QED BY <1>1, <2>1, <2>2, <2>3, <2>4, <2>5 DEF Once
<1>5. CASE Panic BY <1>1, <1>5 DEF Panic, Once, Stops, Pauses
<1>6. ASSUME NEW d \in Children, UNCHANGED <<stop, paused, caught, child, raised>>, joinPanic' = joinPanic \ {d},
             d \in joinPanic \/ UNCHANGED <<unwinding, settled>>,
             settled \subseteq settled', settled' \subseteq settled \cup {d},
             unwinding' # unwinding => unwinding' = d /\ settled' = settled
      PROVE  Once(c)'
  <2>1. (Stops(c)' <=> Stops(c)) /\ (Pauses(c)' <=> Pauses(c)) BY <1>6 DEF Stops, Pauses
  <2> QED BY <1>1, <1>6, <2>1 DEF Once
<1>7. CASE WaitTakes
  <2>1. on \in Children BY <1>7 DEF WaitTakes, PlaceInv
  <2>2. on \in joinPanic =>
          /\ settled \subseteq settled' /\ settled' \subseteq settled \cup {on}
          /\ unwinding' # unwinding => unwinding' = on /\ settled' = settled
    BY <1>7, <2>1, RethrowHolds DEF WaitTakes
  <2> QED BY <1>6, <1>7, <2>1, <2>2 DEF WaitTakes
<1>8. CASE Freed
  <2>1. on \in Children BY <1>8 DEF Freed, PlaceInv
  <2> DEFINE ps == {on} \cap joinPanic
             to == IF Cleaning THEN "cleans" ELSE "checks"
  <2>2. ps \in SUBSET (Children \cup {Own}) /\ (ps # {} => on \in ps) /\ Rethrow(ps, on, to)
    BY <1>8, <2>1 DEF Freed
  <2>3. ps = {} => UNCHANGED <<unwinding, settled>> BY <2>2 DEF Rethrow
  <2>4. ps \subseteq {on} /\ (ps # {} => on \in joinPanic) OBVIOUS
  <2> HIDE DEF ps, to
  <2>5. /\ settled \subseteq settled' /\ settled' \subseteq settled \cup {on}
        /\ unwinding' # unwinding => unwinding' = on /\ settled' = settled
    BY <2>2, <2>4, RethrowHolds
  <2>6. on \in joinPanic \/ UNCHANGED <<unwinding, settled>> BY <2>3, <2>4
  <2>7. UNCHANGED <<stop, paused, caught, child, raised>> /\ joinPanic' = joinPanic \ {on} BY <1>8 DEF Freed
  <2> QED BY <1>6, <2>1, <2>5, <2>6, <2>7
<1>9. CASE End
  <2> DEFINE seen == IF alarm THEN recovers ELSE <<Top>>
  <2>1. recovers # <<>> /\ paused = <<>> /\ recovers \in Seq(Ids) BY <1>9, Types DEF End, PlaceInv
  <2>2. <<Top>> \in Seq(Ids) BY <2>1, TopHolds
  <2>3. seen \in Seq(Ids) BY <2>1, <2>2
  <2> HIDE DEF seen
  <2>4. /\ stop' = Taken(seen) /\ UNCHANGED <<unwinding, caught, joinPanic, child, raised, settled>>
        /\ paused' = paused \/ (First(seen) \in Delivered(seen) /\ paused' = <<First(seen)>>)
    BY <1>9, <2>3, DeliveredHolds DEF End, seen
  <2>5. Pauses(c)' => c \in Delivered(seen)
    <3>1. \A p : DOMAIN <<p>> = 1 .. 1 /\ <<p>>[1] = p OBVIOUS
    <3> QED BY <2>1, <2>4, <3>1, <1>2 DEF Pauses
  <2>6. (c \in Delivered(seen) => Stops(c)) /\ (Stops(c)' => Stops(c))
    BY <2>3, <2>4, <1>1, Types, DeliveredHolds DEF Taken, Stops
  <2>7. c \in Delivered(seen) => ~Stops(c)'
    <3>1. \A r \in Ids : stop[r] = c => owner[c] = r BY DEF RaisedInv
    <3>2. c \in Delivered(seen) => owner[c] \in ToSet(seen)
      BY <3>1, <2>3, Types, DeliveredHolds DEF Delivered
    <3> QED BY <2>4, <3>1, <3>2, <1>1 DEF Stops, Taken
  <2> QED BY <1>1, <2>4, <2>5, <2>6, <2>7 DEF Once
<1>10. CASE Leave
  <2>1. Top \in Ids BY <1>10, TopHolds DEF Leave
  <2>2. /\ UNCHANGED <<paused, caught, joinPanic, child, raised>>
        /\ stop' = [stop EXCEPT ![Top] = None] /\ unwinding = None
    BY <1>10 DEF Leave, PlaceInv
  <2>3. Stops(c)' <=> Stops(c) /\ stop[Top] # c
    <3>1. \A r \in Ids : stop[r] = c => owner[c] = r BY DEF RaisedInv
    <3> QED BY <2>1, <2>2, <3>1, <1>1, Types DEF Stops
  <2>4. stop[Top] = c => Stops(c) BY <2>1 DEF Stops
  <2>5. /\ unwinding' = c => stop[Top] = c /\ settled' = settled
        /\ settled' \subseteq settled \cup {stop[Top]}
    BY <1>10, <1>1, <2>2 DEF Leave, Told
  <2>6. Pauses(c)' <=> Pauses(c) BY <2>2 DEF Pauses
  <2> QED BY <1>1, <2>2, <2>3, <2>4, <2>5, <2>6 DEF Once
<1>11. CASE Catch
  <2>1. paused # <<>> /\ recovers # <<>> BY <1>11 DEF Catch, PlaceInv
  <2>2. /\ UNCHANGED <<unwinding, joinPanic, child, raised>>
        /\ caught' = Last(paused) /\ paused' = Front(paused) /\ stop' = Taken(<<Top>>)
        /\ settled' = settled \cup (Delivered(<<Top>>) \ {Own})
    BY <1>11 DEF Catch, Told
  <2>3. paused' = <<>> /\ (Pauses(c) <=> caught' = c) BY <2>1, <2>2, PausedHolds
  <2>4. ~Pauses(c)' BY <2>3 DEF Pauses
  <2>5. Top \in Ids /\ ToSet(<<Top>>) = {Top} BY <2>1, TopHolds DEF ToSet
  <2>6. c \in Delivered(<<Top>>) <=> stop[Top] = c BY <2>5, <1>1 DEF Delivered
  <2>7. Stops(c)' <=> Stops(c) /\ stop[Top] # c
    <3>1. \A r \in Ids : stop[r] = c => owner[c] = r BY DEF RaisedInv
    <3> QED BY <2>2, <2>5, <3>1, <1>1, Types DEF Stops, Taken
  <2>8. stop[Top] = c => Stops(c) BY <2>5 DEF Stops
  <2> QED BY <1>1, <2>2, <2>3, <2>4, <2>6, <2>7, <2>8 DEF Once
<1>12. CASE Handle BY <1>1, <1>12, Constants DEF Handle, Told, Once, Stops, Pauses
<1>13. CASE Resume
  <2>1. caught \in Children \cup {Own} BY <1>13, Types DEF Resume, PlaceInv
  <2>2. /\ unwinding' # unwinding => unwinding' = caught /\ settled' = settled
        /\ settled' \subseteq settled \cup {caught}
    BY <1>13, <2>1, RethrowHolds DEF Resume
  <2>3. caught' = None /\ UNCHANGED <<stop, paused, joinPanic, child, raised>> BY <1>13 DEF Resume
  <2>4. (Stops(c)' <=> Stops(c)) /\ (Pauses(c)' <=> Pauses(c)) BY <2>3 DEF Stops, Pauses
  <2> QED BY <1>1, <2>2, <2>3, <2>4 DEF Once
<1>14. CASE TakeAlarm \/ Enter \/ WaitStops
  <2>1. UNCHANGED <<stop, paused, unwinding, caught, joinPanic, child, raised, settled>>
    BY <1>14 DEF TakeAlarm, Enter, WaitStops
  <2> QED BY <1>1, <2>1 DEF Once, Stops, Pauses
<1>15. ASSUME NEW d \in Children,
              Spawn(d) \/ Wait(d) \/ Detach(d) \/ Free(d) \/ ChildEnds(d) \/ ChildPanics(d)
       PROVE  Once(c)'
  <2>1. UNCHANGED <<stop, paused, unwinding, caught, joinPanic, settled>>
    BY <1>15 DEF Spawn, Wait, Detach, Free, ChildEnds, ChildPanics
  <2>2. \/ child'[c] = child[c] /\ (c \in raised' <=> c \in raised)
        \/ child'[c] # "panics" /\ raised' = raised
        \/ child[c] = "runs" /\ child'[c] = "panics" /\ c \in raised'
    BY <1>15, Types DEF Spawn, Wait, Detach, Free, ChildEnds, ChildPanics
  <2>3. child[c] = "runs" => c \notin raised BY DEF RaisedInv
  <2>4. (Stops(c)' <=> Stops(c)) /\ (Pauses(c)' <=> Pauses(c)) BY <2>1 DEF Stops, Pauses
  <2> QED BY <1>1, <2>1, <2>2, <2>3, <2>4 DEF Once
<1>16. ASSUME NEW d \in Children, Deliver(d) PROVE Once(c)'
  <2>1. UNCHANGED <<paused, unwinding, caught, raised, settled>> BY <1>16 DEF Deliver
  <2>2. Pauses(c)' <=> Pauses(c) BY <2>1 DEF Pauses
  <2>3. CASE c = d
    <3>1. child[c] = "panics" /\ child'[c] = "ended" BY <1>16, <2>3, Types DEF Deliver
    <3>2. ~Stops(c) /\ c \notin joinPanic BY <1>1, <3>1 DEF Once
    <3>3. ~(Stops(c)' /\ c \in joinPanic') BY <1>16, <2>3, <3>2, Types DEF Deliver, Stops
    <3> QED BY <1>1, <2>1, <2>2, <3>1, <3>3 DEF Once
  <2>4. CASE c # d
    <3>1. child'[c] = child[c] /\ (c \in joinPanic' <=> c \in joinPanic) BY <1>16, <2>4, Types DEF Deliver
    <3>2. Stops(c)' => Stops(c) BY <1>16, <2>4, Types DEF Deliver, Stops
    <3> QED BY <1>1, <2>1, <2>2, <3>1, <3>2 DEF Once
  <2> QED BY <2>3, <2>4
<1>17. ASSUME NEW d \in Children, Complete(d) PROVE Once(c)'
  <2>1. UNCHANGED <<stop, paused, unwinding, caught, raised>> BY <1>17 DEF Complete
  <2>2. (Stops(c)' <=> Stops(c)) /\ (Pauses(c)' <=> Pauses(c)) BY <2>1 DEF Stops, Pauses
  <2>3. child'[c] = child[c] \/ child'[c] = "done" BY <1>17, Types DEF Complete
  <2>4. \/ UNCHANGED <<joinPanic, settled>>
        \/ d \in joinPanic /\ joinPanic' = joinPanic \ {d} /\ settled' \subseteq settled \cup {d}
    BY <1>17 DEF Complete, Told
  <2> QED BY <1>1, <2>1, <2>2, <2>3, <2>4 DEF Once
<1> QED BY <1>3, <1>4, <1>5, <1>7, <1>8, <1>9, <1>10, <1>11, <1>12, <1>13, <1>14, <1>15, <1>16, <1>17,
          NextHolds

LEMMA InvStep == Inv /\ [Next]_vars => Inv'
<1> SUFFICES ASSUME Inv, [Next]_vars PROVE Inv' OBVIOUS
<1>1. CASE Next
  BY <1>1, TypesStep, PlaceStep, RecoverStep, RaisedStep, AlarmStep, HeardStep, OnceStep DEF Inv
<1>2. CASE UNCHANGED vars
  <2> USE <1>2 DEF vars, ownerVars, panicVars, childVars, joinVars
  <2>1. TypeOK' BY DEF Inv, TypeOK, Depth
  <2>2. PlaceInv' /\ RecoverInv' BY DEF Inv, PlaceInv, RecoverInv, Top
  <2>3. RaisedInv' /\ AlarmInv' /\ HeardInv' BY DEF Inv, RaisedInv, AlarmInv, HeardInv
  <2>4. OnceInv' BY DEF Inv, OnceInv, Once, Stops, Pauses
  <2> QED BY <2>1, <2>2, <2>3, <2>4 DEF Inv
<1> QED BY <1>1, <1>2

LEMMA InvHolds == Spec => []Inv
BY InitInv, InvStep, PTL DEF Spec

-----------------------------------------------------------------------------
(* Theorems. *)

\* The types of the state, whatever the task does and its tasks do.
THEOREM TypesHold == Spec => []TypeOK
<1>1. Inv => TypeOK BY DEF Inv
<1> QED BY <1>1, InvHolds, PTL

\* After `take_alarm` and `calm`, an alarm that is on in the code of a task, where it
\* ends each wait, is of a panic that one of its recovers still has.
THEOREM AlarmsHavePanics == Spec => []AlarmHasPanic
<1>1. Inv => AlarmHasPanic BY DEF Inv, AlarmInv, AlarmHasPanic
<1> QED BY <1>1, InvHolds, PTL

\* tondo_rt_recover_end: a block that ends well had no task of it end with a panic,
\* however its tasks and their Joins interleave with it.
THEOREM OkBlocksAreClean == Spec => OkIsClean
<1> DEFINE Clean == \A c \in raised : owner[c] = Top /\ child[c] # "panics" => c \in freed
<1>1. Inv /\ [Next]_vars => [End /\ recovers' # recovers /\ Top = ran => Clean]_vars
  <2> SUFFICES ASSUME Inv, End, recovers' # recovers, Top = ran,
                      NEW c \in raised, owner[c] = Top, child[c] # "panics"
               PROVE  c \in freed
    OBVIOUS
  <2>1. TypeOK /\ PlaceInv /\ RecoverInv /\ HeardInv BY DEF Inv
  <2>2. pc = "code" /\ recovers # <<>> /\ paused = <<>> /\ unwinding = None BY <2>1 DEF End, PlaceInv
  <2>3. Top \in ToSet(recovers) /\ ToSet(recovers) \subseteq open BY <2>1, <2>2, TopHolds DEF RecoverInv
  <2>4. stop[Top] = None
    <3>1. ToSet(<<Top>>) = {Top} BY DEF ToSet
    <3> QED BY <2>3, <3>1 DEF End, Delivered
  <2> QED BY <2>1, <2>2, <2>3, <2>4 DEF HeardInv
<1> QED BY <1>1, InvHolds, PTL DEF Spec, OkIsClean

LEMMA FewOf ==
  ASSUME NEW S, NEW T, IsFiniteSet(T), S \subseteq T, \A x, y \in S : x = y
  PROVE  Cardinality(S) \in Nat /\ Cardinality(S) <= 1 /\ (S = {} => Cardinality(S) = 0)
<1>1. CASE S = {} BY <1>1, FS_EmptySet
<1>2. CASE S # {}
  <2>1. PICK x : S = {x} BY <1>2
  <2>2. Cardinality({x}) = 1 BY FS_Singleton, Zenon
  <2> QED BY <1>2, <2>1, <2>2
<1> QED BY <1>1, <1>2

\* deliver, take_alarm, rethrow and the ends of a recover: the panic of a task is in
\* one place, so it is handled, reported or ends the program once.
THEOREM PanicsOnce == Spec => []PanicOnce
<1>1. Inv => PanicOnce
  <2> SUFFICES ASSUME Inv, NEW c \in Children PROVE Holders(c) <= (IF c \in raised THEN 1 ELSE 0)
    BY DEF PanicOnce
  <2>1. TypeOK /\ PlaceInv /\ RaisedInv /\ Once(c) /\ c # None BY Constants DEF Inv, OnceInv
  <2> DEFINE A == {r \in Ids : stop[r] = c}
             B == {i \in DOMAIN paused : paused[i] = c}
             H == {"unwinding", "caught", "join", "panics", "settled"}
             C == {h \in H :
                     \/ h = "unwinding" /\ unwinding = c
                     \/ h = "caught" /\ caught = c
                     \/ h = "join" /\ c \in joinPanic
                     \/ h = "panics" /\ child[c] = "panics"
                     \/ h = "settled" /\ c \in settled}
  <2>2. Cardinality(A) \in Nat /\ Cardinality(A) <= 1 /\ (A = {} => Cardinality(A) = 0)
    <3>1. IsFiniteSet(Ids) BY Constants, FS_Interval DEF Ids
    <3>2. \A x, y \in A : x = y BY <2>1 DEF RaisedInv
    <3> QED BY <3>1, <3>2, FewOf
  <2>3. Cardinality(B) \in Nat /\ Cardinality(B) <= 1 /\ (B = {} => Cardinality(B) = 0)
    <3>1. DOMAIN paused = 1 .. Len(paused) /\ Len(paused) \in Nat /\ Len(paused) <= 1
      BY <2>1, Types, LenProperties DEF PlaceInv
    <3>2. IsFiniteSet(1 .. 1)
      <4>1. \A n \in Nat : IsFiniteSet(1 .. n) BY FS_Interval
      <4> QED BY <4>1
    <3>3. B \subseteq 1 .. 1 BY <3>1
    <3>4. \A x, y \in B : x = y BY <3>3
    <3> QED BY <3>2, <3>3, <3>4, FewOf
  <2>4. Cardinality(C) \in Nat /\ Cardinality(C) <= 1 /\ (C = {} => Cardinality(C) = 0)
    <3>1. IsFiniteSet(H)
      <4>1. /\ IsFiniteSet({}) /\ \A S, x : IsFiniteSet(S) => IsFiniteSet(S \cup {x})
        BY FS_EmptySet, FS_AddElement
      <4>2. H = ((((({} \cup {"unwinding"}) \cup {"caught"}) \cup {"join"}) \cup {"panics"}) \cup {"settled"})
        OBVIOUS
      <4> HIDE DEF H
      <4> QED BY <4>1, <4>2
    <3>2. C \subseteq H OBVIOUS
    <3>3. \A x, y \in C : x = y BY <2>1 DEF Once
    <3> HIDE DEF C, H
    <3> QED BY <3>1, <3>2, <3>3, FewOf
  <2>5. /\ A # {} => B = {} /\ C = {} /\ c \in raised
        /\ B # {} => C = {} /\ c \in raised
        /\ C # {} => c \in raised
    BY <2>1 DEF Once, Stops, Pauses
  <2>6. Holders(c) = Cardinality(A) + Cardinality(B) + Cardinality(C) BY DEF Holders
  <2> HIDE DEF A, B, C
  <2> QED BY <2>2, <2>3, <2>4, <2>5, <2>6
<1> QED BY <1>1, InvHolds, PTL

=============================================================================
