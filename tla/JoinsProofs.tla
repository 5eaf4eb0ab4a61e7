---------------------------- MODULE JoinsProofs -----------------------------
(***************************************************************************)
(* Theorems about Joins, for any tasks, groups and failures: no join is    *)
(* used after it was freed, who waits hears, results are kept, and the     *)
(* program ends with no task left.                                         *)
(***************************************************************************)
EXTENDS Joins, Integers, FiniteSetTheorems, SequenceTheorems,
        WellFoundedInduction, TLAPS

-----------------------------------------------------------------------------
(* Sequences and what they hold. *)

LEMMA Least ==
  ASSUME NEW S, S \subseteq Nat, S # {}
  PROVE  Min(S) \in S /\ \A x \in S : Min(S) <= x
<1>1. PICK m \in S : \A x \in S : <<x, m>> \notin OpToRel(<, Nat)
  BY NatLessThanWellFounded, WFMin
<1>2. ASSUME NEW x \in S PROVE m <= x
  <2>1. x \in Nat /\ m \in Nat OBVIOUS
  <2>2. ~(x < m) BY <1>1, <2>1 DEF OpToRel
  <2> QED BY <2>1, <2>2
<1> QED BY <1>1, <1>2 DEF Min

\* What is left of a sequence from a place on.
LEMMA RestHolds ==
  ASSUME NEW S, NEW s \in Seq(S), NEW k \in 0 .. Len(s)
  PROVE  LET rest == SubSeq(s, k + 1, Len(s))
         IN /\ rest \in Seq(S)
            /\ ToSet(rest) = {s[i] : i \in k + 1 .. Len(s)}
<1> DEFINE rest == SubSeq(s, k + 1, Len(s))
<1>1. Len(s) \in Nat /\ k \in Nat /\ k + 1 \in Int /\ k <= Len(s) BY LenProperties
<1>2. \A i \in k + 1 .. Len(s) : s[i] \in S BY <1>1, ElementOfSeq
<1>3. /\ rest \in Seq(S)
      /\ Len(rest) = IF k + 1 <= Len(s) THEN Len(s) - (k + 1) + 1 ELSE 0
      /\ \A i \in 1 .. Len(s) - (k + 1) + 1 : rest[i] = s[k + 1 + i - 1]
  BY <1>1, <1>2, SubSeqProperties
<1> HIDE DEF rest
<1>4. Len(rest) = Len(s) - k BY <1>1, <1>3
<1>5. \A i \in 1 .. Len(rest) : rest[i] = s[k + i] BY <1>1, <1>3, <1>4
<1>6. ToSet(rest) = {rest[i] : i \in 1 .. Len(rest)} BY <1>3, LenProperties DEF ToSet
<1>7. ToSet(rest) = {s[i] : i \in k + 1 .. Len(s)}
  <2>1. ASSUME NEW i \in k + 1 .. Len(s) PROVE s[i] \in ToSet(rest)
    <3>1. i - k \in 1 .. Len(rest) /\ k + (i - k) = i BY <1>1, <1>4
    <3> QED BY <3>1, <1>5, <1>6
  <2>2. ASSUME NEW i \in 1 .. Len(rest) PROVE rest[i] \in {s[j] : j \in k + 1 .. Len(s)}
    <3>1. k + i \in k + 1 .. Len(s) BY <1>1, <1>4
    <3> QED BY <3>1, <1>5
  <2> QED BY <2>1, <2>2, <1>6
<1> QED BY <1>3, <1>7 DEF rest

LEMMA AppendHolds ==
  ASSUME NEW S, NEW s \in Seq(S), NEW e \in S
  PROVE  /\ Append(s, e) \in Seq(S)
         /\ ToSet(Append(s, e)) = ToSet(s) \cup {e}
<1> DEFINE u == Append(s, e)
<1>1. Len(s) \in Nat BY LenProperties
<1>2. /\ u \in Seq(S) /\ Len(u) = Len(s) + 1
      /\ \A i \in 1 .. Len(s) : u[i] = s[i]
      /\ u[Len(s) + 1] = e
  BY AppendProperties
<1> HIDE DEF u
<1>3. ToSet(s) = {s[i] : i \in 1 .. Len(s)} /\ ToSet(u) = {u[i] : i \in 1 .. Len(u)}
  BY <1>2, LenProperties DEF ToSet
<1> QED BY <1>1, <1>2, <1>3 DEF u

-----------------------------------------------------------------------------
(* The invariant: the count of a join is the references there are. *)

Ended == {"retains", "letsGo", "off"}
Releasing == {"releasesGroup", "freesMember"}
MainPcs == {"ends", "endCancels", "endWaits", "over"}
Owning == {"waits", "finishes", "releases"}
Working == Owning \cup {"frees", "adds", "cancels", "freesMember", "endWaits"}

\* The handle is with its owner, in a group, or with the task that frees the join.
Freeing(c) == \E p \in Tasks : pc[p] = "frees" /\ on[p] = c
Grouped(c) == \E p \in Tasks : c \in Members(p)

HandleCount(c) == IF owner[c] # None \/ (Grouped(c) /\ c \notin freed) \/ Freeing(c) THEN 1 ELSE 0
\* A detached task has its own join, and so has the loop at the end of main.
HoldCount(c) == IF c \in detached /\ pc[c] # "off" THEN 1 ELSE 0
TodoCount(c) == IF c \in todo THEN 1 ELSE 0
CountInv == \A c \in Tasks : rc[c] = HandleCount(c) + HoldCount(c) + TodoCount(c)

HandleInv ==
  \A c \in Tasks :
    /\ owner[c] # None => ~Grouped(c) /\ ~Freeing(c)
    /\ Grouped(c) => ~Freeing(c) /\ c \notin detached
    /\ Freeing(c) => rc[c] = 1

\* One place at a time.
OneInv ==
  \A c, p, q \in Tasks :
    /\ c \in Members(p) /\ c \in Members(q) => p = q
    /\ pc[p] = "frees" /\ pc[q] = "frees" /\ on[p] = c /\ on[q] = c => p = q

DetachInv ==
  \A c \in Tasks :
    /\ c \in detached /\ owner[c] # None => pc[owner[c]] = "releases" /\ on[owner[c]] = c
    /\ c \in DETACHED => c \in detached /\ pc[c] \notin {"letsGo", "off"}
    /\ c \in todo => c \in detached
    /\ pc[c] \in {"retains", "letsGo"} => c \in detached

LifeInv ==
  \A c \in Tasks :
    /\ c \in done <=> pc[c] \in Ended
    /\ c \in freed => rc[c] = 0 /\ c \in done
    /\ pc[c] = "unborn" => owner[c] = None /\ ~Grouped(c) /\ ~Freeing(c) /\ c \notin detached

\* What a task works on is its own.
On(p) ==
  /\ pc[p] \notin Working => on[p] = None
  /\ pc[p] \in Owning => on[p] \in Tasks /\ owner[on[p]] = p
  /\ pc[p] = "frees" => on[p] \in Tasks
  /\ pc[p] \in {"adds", "freesMember"} => on[p] \in Members(p) \ freed
  /\ pc[p] = "cancels" => on[p] = None \/ on[p] \in Members(p)
  /\ pc[p] = "endWaits" => on[p] \in todo
OnInv == \A p \in Tasks : On(p)

FreedInv == \A p \in Tasks : pc[p] \notin Releasing => Members(p) \cap freed = {}

NamesInv ==
  \A p \in Tasks :
    /\ failed[p] # None => failed[p] \in Members(p)
    /\ group[p] # None /\ p \notin done => p \in Members(group[p])

MainInv ==
  /\ \A p \in Tasks : pc[p] \in MainPcs => p = MainTask
  /\ pc[MainTask] \notin {"endCancels", "endWaits"} => todo = {}

WaitInv ==
  /\ \A c \in Tasks : \A p \in waiters[c] : pc[p] = "waits" /\ on[p] = c /\ fired[p] # "end"
  /\ \A p \in waiter : pc[p] \in {"nextWaits", "settleWaits"}

Types ==
  /\ pc \in [Tasks -> Pcs] /\ on \in [Tasks -> Tasks \cup {None}]
  /\ owner \in [Tasks -> Tasks \cup {None}] /\ rc \in [Tasks -> Int]
  /\ freed \subseteq Tasks /\ done \subseteq Tasks /\ detached \subseteq Tasks
  /\ DETACHED \subseteq Tasks /\ todo \subseteq Tasks
  /\ group \in [Tasks -> Tasks \cup {None}] /\ failed \in [Tasks -> Tasks \cup {None}]
  /\ members \in [Tasks -> Seq(Tasks)]
WaitTypes ==
  /\ fired \in [Tasks -> {None, "end", "cancel"}]
  /\ waiters \in [Tasks -> SUBSET Tasks] /\ waiter \subseteq Tasks

Books == CountInv /\ HandleInv /\ OneInv /\ DetachInv /\ LifeInv /\ OnInv /\ FreedInv /\ NamesInv /\ MainInv
Inv == Types /\ WaitTypes /\ Books /\ WaitInv

LEMMA NoneNot == None \notin Tasks
BY JoinsAssumption

LEMMA Grouping == ASSUME Types, NEW p \in Tasks PROVE Members(p) \subseteq Tasks
<1>1. members[p] \in Seq(Tasks) BY DEF Types
<1>2. \A i \in 1..Len(members[p]) : members[p][i] \in Tasks BY <1>1, ElementOfSeq
<1>3. DOMAIN members[p] = 1..Len(members[p]) BY <1>1, LenProperties
<1> QED BY <1>2, <1>3 DEF Members, ToSet

USE DEF Ended, Releasing, MainPcs, Owning, Working

LEMMA InitInv == Init => Inv
<1> SUFFICES ASSUME Init PROVE Inv
  OBVIOUS
<1>1. /\ pc = [t \in Tasks |-> IF t = MainTask THEN "code" ELSE "unborn"]
      /\ on = [t \in Tasks |-> None] /\ owner = on /\ group = on /\ failed = on /\ fired = on
      /\ rc = [t \in Tasks |-> 0] /\ members = [t \in Tasks |-> <<>>] /\ waiters = [t \in Tasks |-> {}]
      /\ done = {} /\ detached = {} /\ freed = {} /\ DETACHED = {} /\ todo = {} /\ waiter = {}
  BY DEF Init
<1>2. \A p \in Tasks : Members(p) = {} BY <1>1 DEF Members, ToSet
<1>3. \A c \in Tasks : ~Freeing(c) /\ ~Grouped(c) BY <1>1, <1>2 DEF Freeing, Grouped
<1>4. Types /\ WaitTypes BY <1>1 DEF Types, WaitTypes, Pcs
<1>5. CountInv BY <1>1, <1>3 DEF CountInv, HandleCount, HoldCount, TodoCount
<1>6. HandleInv BY <1>1, <1>3 DEF HandleInv
<1>7. OneInv BY <1>1, <1>2 DEF OneInv
<1>8. DetachInv BY <1>1 DEF DetachInv
<1>9. LifeInv BY <1>1, <1>3 DEF LifeInv
<1>10. OnInv BY <1>1 DEF OnInv, On
<1>11. FreedInv BY <1>1 DEF FreedInv
<1>12. NamesInv BY <1>1 DEF NamesInv
<1>13. MainInv BY <1>1 DEF MainInv
<1>14. WaitInv BY <1>1 DEF WaitInv
<1> QED BY <1>4, <1>5, <1>6, <1>7, <1>8, <1>9, <1>10, <1>11, <1>12, <1>13, <1>14 DEF Inv, Books

-----------------------------------------------------------------------------
(* Steps that leave the references alone. *)

Quiet(p) ==
  /\ UNCHANGED <<owner, rc, freed, members, detached, DETACHED, todo, done>>
  /\ \A q \in Tasks \ {p} : pc'[q] = pc[q] /\ on'[q] = on[q]
  /\ pc[p] \notin Ended \cup {"unborn", "frees", "releases"}
  /\ pc'[p] \notin Ended \cup {"unborn", "frees"}
  /\ pc[p] \in Releasing => pc'[p] \in Releasing
  /\ pc'[p] \in MainPcs => p = MainTask
  /\ pc[p] \in {"endCancels", "endWaits"} => pc'[p] \in {"endCancels", "endWaits"}
  /\ On(p)' /\ NamesInv'

LEMMA QuietKeeps == ASSUME Types, Books, NEW p \in Tasks, Quiet(p) PROVE Books'
<1> USE NoneNot
<1>1. \A q \in Tasks : Members(q)' = Members(q) BY DEF Quiet, Members
<1>2. \A c \in Tasks : (Freeing(c)' <=> Freeing(c)) /\ (Grouped(c)' <=> Grouped(c))
  BY <1>1 DEF Quiet, Freeing, Grouped
<1>3. \A c \in Tasks : pc'[c] = "off" <=> pc[c] = "off" BY DEF Quiet
<1>4. CountInv' BY <1>2, <1>3 DEF Quiet, Books, CountInv, HandleCount, HoldCount, TodoCount
<1>5. HandleInv' BY <1>2 DEF Quiet, Books, HandleInv
<1>6. OneInv' BY <1>1 DEF Quiet, Books, OneInv
<1>7. DetachInv' BY DEF Quiet, Books, DetachInv, Types
<1>8. LifeInv' BY <1>2 DEF Quiet, Books, LifeInv
<1>9. OnInv' BY <1>1 DEF Quiet, Books, OnInv, On
<1>10. FreedInv' BY <1>1 DEF Quiet, Books, FreedInv
<1>11. NamesInv' BY DEF Quiet
<1>12. MainInv' BY JoinsAssumption DEF Quiet, Books, MainInv
<1> QED BY <1>4, <1>5, <1>6, <1>7, <1>8, <1>9, <1>10, <1>11, <1>12 DEF Books

LEMMA NamesKeep == ASSUME NamesInv, UNCHANGED <<members, failed, group, done>> PROVE NamesInv'
BY DEF NamesInv, Members

\* A group hears of one of its tasks.
LEMMA CompletedNames ==
  ASSUME Types, NamesInv, NEW g \in Tasks, NEW c \in Tasks, c \in Members(g), GroupCompleted(g, c),
         UNCHANGED members
  PROVE  /\ failed' \in [Tasks -> Tasks \cup {None}]
         /\ \A q \in Tasks : failed'[q] # None => failed'[q] \in Members(q)'
<1>1. \A q \in Tasks : Members(q)' = Members(q) BY DEF Members
<1>2. failed' = [failed EXCEPT ![g] = IF c \in Fails /\ failed[g] = None THEN c ELSE failed[g]]
  BY DEF GroupCompleted
<1> QED BY <1>1, <1>2 DEF Types, NamesInv

\* tondo_rt_group_release comes to a join it did not free.
LEMMA FreesOne ==
  ASSUME Types, NEW p \in Tasks, FreeMember(p)
  PROVE  \E c \in Members(p) \ freed : on' = [on EXCEPT ![p] = c]
<1> DEFINE I == {i \in 1..Len(members[p]) : members[p][i] \notin freed}
           i == IF I # {} THEN Min(I) ELSE 0
<1>1. members[p] \in Seq(Tasks) BY DEF Types
<1>2. i # 0 /\ on' = [on EXCEPT ![p] = members[p][i]] BY DEF FreeMember, SelectInSeq, Works
<1>3. i \in I
  <2>1. I \subseteq Nat /\ I # {} BY <1>1, <1>2
  <2> QED BY <2>1, Least
<1>4. members[p][i] \in Members(p)
  <2>1. DOMAIN members[p] = 1..Len(members[p]) BY <1>1, LenProperties
  <2> QED BY <1>3, <2>1 DEF Members, ToSet
<1> QED BY <1>2, <1>3, <1>4

LEMMA QuietSteps ==
  ASSUME Types, Books, NEW p \in Tasks,
         \/ Park(p) \/ Unpark(p) \/ CancelClaims(p) \/ WaitEnds(p) \/ WaitStops(p) \/ Finish(p) \/ End(p)
         \/ Asks(p, "nexts") \/ Asks(p, "settles") \/ Asks(p, "cancels") \/ Asks(p, "releasesGroup")
         \/ Unblocks(p, "nextWaits", "nexts") \/ Unblocks(p, "settleWaits", "settles")
         \/ NextGives(p) \/ NextEnds(p) \/ NextBlocks(p)
         \/ SettleFails(p) \/ SettleEnds(p) \/ SettleBlocks(p) \/ Takes(p)
         \/ CancelMember(p) \/ GroupCancelled(p) \/ FreeMember(p)
         \/ \E c \in Tasks : Take(p, c) \/ Wait(p, c) \/ CancelJoin(p, c)
  PROVE  Quiet(p)
<1> USE NoneNot DEF At, Code, Works, waitVars, countVars, endVars, groupVars, listVars
<1>0. pc \in [Tasks -> Pcs] /\ on \in [Tasks -> Tasks \cup {None}] /\ On(p) /\ NamesInv
  BY DEF Types, Books, OnInv
<1>1. CASE Park(p) \/ Unpark(p) \/ CancelClaims(p) \/ Finish(p)
  <2>1. UNCHANGED <<members, failed, group, done>> BY <1>1 DEF Park, Unpark, CancelClaims, Finish
  <2>2. NamesInv' BY <1>0, <2>1, NamesKeep
  <2>3. On(p)' BY <1>0, <1>1 DEF Park, Unpark, CancelClaims, Finish, On, Members
  <2> QED BY <1>0, <1>1, <2>2, <2>3 DEF Park, Unpark, CancelClaims, Finish, Quiet
<1>2. CASE WaitEnds(p) \/ WaitStops(p) \/ End(p)
  <2>1. UNCHANGED <<members, failed, group, done>> BY <1>2 DEF WaitEnds, WaitStops, End, Give
  <2>2. NamesInv' BY <1>0, <2>1, NamesKeep
  <2>3. On(p)' BY <1>0, <1>2 DEF WaitEnds, WaitStops, End, On, Members
  <2> QED BY <1>0, <1>2, <2>2, <2>3 DEF WaitEnds, WaitStops, End, Give, Quiet
<1>3. CASE \/ Asks(p, "nexts") \/ Asks(p, "settles") \/ Asks(p, "cancels") \/ Asks(p, "releasesGroup")
           \/ Unblocks(p, "nextWaits", "nexts") \/ Unblocks(p, "settleWaits", "settles")
  <2>1. UNCHANGED <<members, failed, group, done>> BY <1>3 DEF Asks, Unblocks
  <2>2. NamesInv' BY <1>0, <2>1, NamesKeep
  <2>3. On(p)' BY <1>0, <1>3 DEF Asks, Unblocks, On, Members
  <2> QED BY <1>0, <1>3, <2>2, <2>3 DEF Asks, Unblocks, Quiet
<1>4. CASE NextGives(p) \/ NextEnds(p) \/ NextBlocks(p)
  <2>1. UNCHANGED <<members, failed, group, done>> BY <1>4 DEF NextGives, NextEnds, NextBlocks, Blocks
  <2>2. NamesInv' BY <1>0, <2>1, NamesKeep
  <2>3. On(p)' BY <1>0, <1>4 DEF NextGives, NextEnds, NextBlocks, Blocks, On, Members
  <2> QED BY <1>0, <1>4, <2>2, <2>3 DEF NextGives, NextEnds, NextBlocks, Blocks, Quiet
<1>5. CASE SettleFails(p)
  <2>1. UNCHANGED <<members, failed, group, done>> BY <1>5 DEF SettleFails
  <2>2. NamesInv' BY <1>0, <2>1, NamesKeep
  <2>3. On(p)' BY <1>0, <1>5, <2>2, <2>1 DEF SettleFails, Failed, On, NamesInv
  <2> QED BY <1>0, <1>5, <2>2, <2>3 DEF SettleFails, Quiet
<1>6. CASE SettleEnds(p) \/ SettleBlocks(p) \/ Takes(p)
  <2>1. UNCHANGED <<members, failed, group, done>> BY <1>6 DEF SettleEnds, SettleBlocks, Blocks, Takes
  <2>2. NamesInv' BY <1>0, <2>1, NamesKeep
  <2>3. On(p)' BY <1>0, <1>6 DEF SettleEnds, SettleBlocks, Blocks, Takes, On, Members
  <2> QED BY <1>0, <1>6, <2>2, <2>3 DEF SettleEnds, SettleBlocks, Blocks, Takes, Quiet
<1>7. CASE CancelMember(p) \/ GroupCancelled(p)
  <2>1. UNCHANGED <<members, failed, group, done>> BY <1>7 DEF CancelMember, GroupCancelled
  <2>2. NamesInv' BY <1>0, <2>1, NamesKeep
  <2>3. On(p)' BY <1>0, <1>7 DEF CancelMember, GroupCancelled, On, Members
  <2> QED BY <1>0, <1>7, <2>2, <2>3 DEF CancelMember, GroupCancelled, Quiet
<1>8. CASE FreeMember(p)
  <2>1. UNCHANGED <<members, failed, group, done>> BY <1>8 DEF FreeMember
  <2>2. NamesInv' BY <1>0, <2>1, NamesKeep
  <2>3. /\ pc[p] = "releasesGroup" /\ pc' = [pc EXCEPT ![p] = "freesMember"]
        /\ UNCHANGED <<owner, countVars, endVars, groupVars, listVars>>
    BY <1>8 DEF FreeMember
  <2>4. PICK c \in Members(p) \ freed : on' = [on EXCEPT ![p] = c]
    BY <1>8, FreesOne
  <2>5. c \in Tasks BY <2>4, Grouping
  <2>6. On(p)' BY <1>0, <2>3, <2>4, <2>5 DEF On, Members
  <2> QED BY <1>0, <2>2, <2>3, <2>4, <2>6 DEF Quiet
<1>9. CASE \E c \in Tasks : Take(p, c) \/ Wait(p, c) \/ CancelJoin(p, c)
  <2>1. UNCHANGED <<members, failed, group, done>> BY <1>9 DEF Take, Wait, CancelJoin
  <2>2. NamesInv' BY <1>0, <2>1, NamesKeep
  <2>3. On(p)' BY <1>0, <1>9 DEF Take, Wait, CancelJoin, Mine, On, Members
  <2> QED BY <1>0, <1>9, <2>2, <2>3 DEF Take, Wait, CancelJoin, Give, Quiet
<1> QED BY <1>1, <1>2, <1>3, <1>4, <1>5, <1>6, <1>7, <1>8, <1>9

LEMMA AddedQuiet == ASSUME Types, Books, NEW p \in Tasks, Added(p) PROVE Quiet(p)
<1> USE NoneNot DEF At, Works, waitVars, countVars, endVars, groupVars, listVars
<1>0. pc \in [Tasks -> Pcs] /\ on \in [Tasks -> Tasks \cup {None}] /\ On(p) /\ NamesInv
      /\ group \in [Tasks -> Tasks \cup {None}]
  BY DEF Types, Books, OnInv
<1>1. /\ pc[p] = "adds" /\ pc' = [pc EXCEPT ![p] = "code"] /\ on' = [on EXCEPT ![p] = None]
      /\ UNCHANGED <<members, done, owner, rc, freed, detached, DETACHED, todo>>
  BY DEF Added
<1>2. \A q \in Tasks : Members(q)' = Members(q) BY <1>1 DEF Members
<1>3. on[p] \in Members(p) /\ on[p] \in Tasks BY <1>0, <1>1, Grouping DEF On
<1>4. On(p)' BY <1>0, <1>1 DEF On
<1>5. NamesInv'
  <2>1. CASE on[p] \in done
    <3>1. GroupCompleted(p, on[p]) /\ group' = group BY <2>1 DEF Added
    <3>2. \A q \in Tasks : failed'[q] # None => failed'[q] \in Members(q)'
      BY <1>0, <1>1, <1>3, <3>1, CompletedNames
    <3> QED BY <1>0, <1>1, <1>2, <3>1, <3>2 DEF NamesInv
  <2>2. CASE on[p] \notin done
    <3>1. group' = [group EXCEPT ![on[p]] = p] /\ failed' = failed BY <2>2 DEF Added
    <3> QED BY <1>0, <1>1, <1>2, <1>3, <3>1 DEF NamesInv
  <2> QED BY <2>1, <2>2
<1> QED BY <1>0, <1>1, <1>4, <1>5 DEF Quiet

LEMMA EndCancelsQuiet == ASSUME Types, Books, NEW c \in Tasks, EndCancels(c) PROVE Quiet(MainTask)
<1> USE NoneNot, JoinsAssumption DEF At, Works, waitVars, countVars, endVars, groupVars, listVars
<1>0. pc \in [Tasks -> Pcs] /\ on \in [Tasks -> Tasks \cup {None}] /\ NamesInv
  BY DEF Types, Books
<1>1. NamesInv' BY <1>0, NamesKeep DEF EndCancels
<1>2. On(MainTask)' BY <1>0 DEF EndCancels, On
<1> QED BY <1>0, <1>1, <1>2 DEF EndCancels, Quiet

-----------------------------------------------------------------------------
(* Steps that make, move or drop a reference. *)

LEMMA SpawnKeeps ==
  ASSUME Types, Books, NEW p \in Tasks, NEW c \in Tasks, Spawn(p, c)
  PROVE  Books'
<1> USE NoneNot DEF waitVars, countVars, endVars, groupVars, listVars
<1>0. pc \in [Tasks -> Pcs] /\ owner \in [Tasks -> Tasks \cup {None}] /\ rc \in [Tasks -> Int]
  BY DEF Types
<1>1. /\ pc[p] = "code" /\ pc[c] = "unborn" /\ pc' = [pc EXCEPT ![c] = "code"]
      /\ owner' = [owner EXCEPT ![c] = p] /\ rc' = [rc EXCEPT ![c] = 1]
      /\ UNCHANGED <<on, freed, members, failed, detached, DETACHED, todo, done, group>>
  BY DEF Spawn
<1>2. \A q \in Tasks : Members(q)' = Members(q) BY <1>1 DEF Members
<1>3. \A d \in Tasks : (Freeing(d)' <=> Freeing(d)) /\ (Grouped(d)' <=> Grouped(d))
  BY <1>0, <1>1, <1>2 DEF Freeing, Grouped
<1>4. owner[c] = None /\ ~Grouped(c) /\ ~Freeing(c) /\ c \notin detached /\ c \notin todo /\ c \notin DETACHED
      /\ c \notin done /\ c \notin freed
  BY <1>1 DEF Books, LifeInv, DetachInv
<1>5. CountInv'
  BY <1>0, <1>1, <1>3, <1>4 DEF Books, CountInv, HandleCount, HoldCount, TodoCount
<1>6. HandleInv' BY <1>0, <1>1, <1>3, <1>4 DEF Books, HandleInv
<1>7. OneInv' BY <1>0, <1>1, <1>2 DEF Books, OneInv
<1>8. DetachInv' BY <1>0, <1>1, <1>4 DEF Books, DetachInv
<1>9. LifeInv' BY <1>0, <1>1, <1>3, <1>4 DEF Books, LifeInv
<1>10. OnInv'
  <2>1. on[c] = None BY <1>1 DEF Books, OnInv, On
  <2>2. \A q \in Tasks : pc[q] \in Owning => on[q] # c BY <1>4 DEF Books, OnInv, On
  <2> QED BY <1>0, <1>1, <1>2, <2>1, <2>2 DEF Books, OnInv, On
<1>11. FreedInv' BY <1>0, <1>1, <1>2 DEF Books, FreedInv
<1>12. NamesInv' BY <1>1, NamesKeep DEF Books
<1>13. MainInv' BY <1>0, <1>1, JoinsAssumption DEF Books, MainInv
<1> QED BY <1>5, <1>6, <1>7, <1>8, <1>9, <1>10, <1>11, <1>12, <1>13 DEF Books

LEMMA DetachKeeps ==
  ASSUME Types, Books, NEW p \in Tasks, NEW c \in Tasks, Detach(p, c)
  PROVE  Books'
<1> USE NoneNot DEF At, Code, Works, waitVars, countVars, endVars, groupVars, listVars
<1>0. pc \in [Tasks -> Pcs] /\ on \in [Tasks -> Tasks \cup {None}] /\ rc \in [Tasks -> Int]
  BY DEF Types
<1>1. /\ pc[p] = "code" /\ owner[c] = p /\ pc' = [pc EXCEPT ![p] = "releases"] /\ on' = [on EXCEPT ![p] = c]
      /\ UNCHANGED <<owner, freed, members, failed, todo, done, group>>
  BY DEF Detach, Mine
<1>2. \A q \in Tasks : Members(q)' = Members(q) BY <1>1 DEF Members
<1>3. \A d \in Tasks : (Freeing(d)' <=> Freeing(d)) /\ (Grouped(d)' <=> Grouped(d))
  BY <1>0, <1>1, <1>2 DEF Freeing, Grouped
<1>4. ~Grouped(c) /\ ~Freeing(c) /\ c \notin detached /\ c \notin todo /\ c \notin DETACHED
      /\ pc[c] # "unborn"
  BY <1>1 DEF Books, LifeInv, HandleInv, DetachInv
<1>5. \/ c \in done /\ UNCHANGED <<detached, DETACHED, rc>>
      \/ /\ c \notin done /\ detached' = detached \cup {c} /\ DETACHED' = DETACHED \cup {c}
         /\ rc' = [rc EXCEPT ![c] = @ + 1]
  BY DEF Detach
<1>6. CountInv'
  <2>1. \A d \in Tasks : pc'[d] = "off" <=> pc[d] = "off" BY <1>0, <1>1
  <2>2. c \notin done => pc[c] # "off" BY DEF Books, LifeInv
  <2>3. \A d \in Tasks : HandleCount(d)' = HandleCount(d) BY <1>1, <1>3 DEF HandleCount
  <2>4. \A d \in Tasks : TodoCount(d)' = TodoCount(d) BY <1>1 DEF TodoCount
  <2>5. \A d \in Tasks : HandleCount(d) \in Int /\ TodoCount(d) \in Int BY DEF HandleCount, TodoCount
  <2> QED BY <1>0, <1>4, <1>5, <2>1, <2>2, <2>3, <2>4, <2>5 DEF Books, CountInv, HoldCount
<1>7. HandleInv' BY <1>0, <1>1, <1>3, <1>4, <1>5 DEF Books, HandleInv
<1>8. OneInv' BY <1>0, <1>1, <1>2 DEF Books, OneInv
<1>9. DetachInv'
  <2>1. c \notin done => pc[c] \notin {"letsGo", "off"} BY DEF Books, LifeInv
  <2> QED BY <1>0, <1>1, <1>4, <1>5, <2>1 DEF Books, DetachInv
<1>10. LifeInv'
  <2>1. c \notin done => c \notin freed BY DEF Books, LifeInv
  <2> QED BY <1>0, <1>1, <1>3, <1>4, <1>5, <2>1 DEF Books, LifeInv
<1>11. OnInv' BY <1>0, <1>1, <1>2 DEF Books, OnInv, On
<1>12. FreedInv' BY <1>0, <1>1, <1>2 DEF Books, FreedInv
<1>13. NamesInv' BY <1>1, NamesKeep DEF Books
<1>14. MainInv' BY <1>0, <1>1, JoinsAssumption DEF Books, MainInv
<1> QED BY <1>6, <1>7, <1>8, <1>9, <1>10, <1>11, <1>12, <1>13, <1>14 DEF Books

LEMMA ReleaseKeeps ==
  ASSUME Types, Books, NEW p \in Tasks, NEW c \in Tasks, Release(p, c)
  PROVE  Books'
<1> USE NoneNot DEF At, Code, Works, waitVars, countVars, endVars, groupVars, listVars
<1>0. pc \in [Tasks -> Pcs] /\ on \in [Tasks -> Tasks \cup {None}] /\ rc \in [Tasks -> Int]
      /\ owner \in [Tasks -> Tasks \cup {None}]
  BY DEF Types
<1>1. /\ owner[c] = p /\ owner' = [owner EXCEPT ![c] = None]
      /\ pc[p] = "code" \/ (pc[p] = "releases" /\ on[p] = c)
      /\ UNCHANGED <<freed, members, failed, detached, DETACHED, todo, done, group>>
  BY DEF Release
<1>2. \/ /\ rc[c] > 1 /\ rc' = [rc EXCEPT ![c] = @ - 1] /\ pc' = [pc EXCEPT ![p] = "code"]
         /\ on' = [on EXCEPT ![p] = None]
      \/ ~(rc[c] > 1) /\ rc' = rc /\ pc' = [pc EXCEPT ![p] = "frees"] /\ on' = [on EXCEPT ![p] = c]
  BY DEF Release
<1>3. \A q \in Tasks : Members(q)' = Members(q) BY <1>1 DEF Members
<1>4. \A d \in Tasks : Grouped(d)' <=> Grouped(d) BY <1>3 DEF Grouped
<1>5. \A d \in Tasks : Freeing(d)' <=> Freeing(d) \/ (d = c /\ ~(rc[c] > 1))
  BY <1>0, <1>1, <1>2 DEF Freeing
<1>6. ~Grouped(c) /\ ~Freeing(c) /\ pc[c] # "unborn" BY <1>1 DEF Books, LifeInv, HandleInv
<1>7. HandleCount(c) = 1 /\ HoldCount(c) \in {0, 1} /\ TodoCount(c) \in {0, 1}
      /\ rc[c] = HandleCount(c) + HoldCount(c) + TodoCount(c)
  BY <1>1 DEF HandleCount, HoldCount, TodoCount, Books, CountInv
<1>8. \A d \in Tasks : (pc'[d] = "off" <=> pc[d] = "off") /\ (pc'[d] \in Ended <=> pc[d] \in Ended)
        /\ (pc'[d] = "unborn" <=> pc[d] = "unborn")
  BY <1>0, <1>1, <1>2
<1>9. \A d \in Tasks : HoldCount(d)' = HoldCount(d) /\ TodoCount(d)' = TodoCount(d)
  BY <1>1, <1>8 DEF HoldCount, TodoCount
<1>10. HandleCount(c)' = IF rc[c] > 1 THEN 0 ELSE 1 BY <1>0, <1>1, <1>4, <1>5, <1>6 DEF HandleCount
<1>11. \A d \in Tasks \ {c} : HandleCount(d)' = HandleCount(d) BY <1>0, <1>1, <1>4, <1>5 DEF HandleCount
<1>12. CountInv'
  <2> SUFFICES ASSUME NEW d \in Tasks
               PROVE  rc'[d] = HandleCount(d)' + HoldCount(d)' + TodoCount(d)'
    BY DEF CountInv
  <2>1. CASE d = c BY <2>1, <1>0, <1>2, <1>7, <1>9, <1>10
  <2>2. CASE d # c BY <2>2, <1>0, <1>2, <1>9, <1>11 DEF Books, CountInv
  <2> QED BY <2>1, <2>2
<1>13. HandleInv' BY <1>0, <1>1, <1>2, <1>4, <1>5, <1>6, <1>7 DEF Books, HandleInv
<1>14. OneInv' BY <1>0, <1>1, <1>2, <1>3, <1>6 DEF Books, OneInv, Freeing
<1>15. DetachInv'
  <2>1. \A d \in Tasks \ {c} : owner[d] = p /\ d \in detached => FALSE BY <1>1 DEF Books, DetachInv
  <2>2. \A d \in Tasks : pc'[d] \in {"letsGo", "retains"} <=> pc[d] \in {"letsGo", "retains"}
    BY <1>0, <1>1, <1>2
  <2>3. \A q \in Tasks \ {p} : pc'[q] = pc[q] /\ on'[q] = on[q] BY <1>0, <1>2
  <2>4. \A d \in Tasks : pc'[d] = "letsGo" <=> pc[d] = "letsGo" BY <1>0, <1>1, <1>2
  <2> QED BY <1>0, <1>1, <1>8, <2>1, <2>2, <2>3, <2>4 DEF Books, DetachInv
<1>16. LifeInv'
  <2>1. c \notin freed BY <1>0, <1>7 DEF Books, LifeInv
  <2> QED BY <1>0, <1>1, <1>2, <1>4, <1>5, <1>6, <1>8, <2>1 DEF Books, LifeInv
<1>17. OnInv' BY <1>0, <1>1, <1>2, <1>3 DEF Books, OnInv, On
<1>18. FreedInv' BY <1>0, <1>1, <1>2, <1>3 DEF Books, FreedInv
<1>19. NamesInv' BY <1>1, NamesKeep DEF Books
<1>20. MainInv' BY <1>0, <1>1, <1>2, JoinsAssumption DEF Books, MainInv
<1> QED BY <1>12, <1>13, <1>14, <1>15, <1>16, <1>17, <1>18, <1>19, <1>20 DEF Books

LEMMA FreesKeeps == ASSUME Types, Books, NEW p \in Tasks, Frees(p) PROVE Books'
<1> USE NoneNot DEF At, Works, waitVars, countVars, endVars, groupVars, listVars
<1> DEFINE c == on[p]
<1>0. pc \in [Tasks -> Pcs] /\ on \in [Tasks -> Tasks \cup {None}] /\ rc \in [Tasks -> Int]
  BY DEF Types
<1>1. /\ pc[p] = "frees" /\ pc' = [pc EXCEPT ![p] = "code"] /\ on' = [on EXCEPT ![p] = None]
      /\ c \in done /\ freed' = freed \cup {c} /\ rc' = [rc EXCEPT ![c] = 0]
      /\ UNCHANGED <<owner, members, failed, detached, DETACHED, todo, done, group>>
  BY DEF Frees, Free
<1>2. \A q \in Tasks : Members(q)' = Members(q) BY <1>1 DEF Members
<1>3. \A d \in Tasks : Grouped(d)' <=> Grouped(d) BY <1>2 DEF Grouped
<1>4. c \in Tasks BY <1>1 DEF Books, OnInv, On
<1>5. Freeing(c) /\ \A d \in Tasks : Freeing(d)' <=> Freeing(d) /\ d # c
  BY <1>0, <1>1, <1>4 DEF Freeing, Books, OneInv
<1>6. owner[c] = None /\ ~Grouped(c) /\ rc[c] = 1 BY <1>4, <1>5 DEF Books, HandleInv
<1>7. HandleCount(c) = 1 /\ HoldCount(c) \in {0, 1} /\ TodoCount(c) \in {0, 1}
      /\ rc[c] = HandleCount(c) + HoldCount(c) + TodoCount(c)
  BY <1>4, <1>5 DEF HandleCount, HoldCount, TodoCount, Books, CountInv
<1>8. \A d \in Tasks : (pc'[d] = "off" <=> pc[d] = "off") /\ (pc'[d] \in Ended <=> pc[d] \in Ended)
        /\ (pc'[d] = "unborn" <=> pc[d] = "unborn")
  BY <1>0, <1>1
<1>9. \A d \in Tasks : HoldCount(d)' = HoldCount(d) /\ TodoCount(d)' = TodoCount(d)
  BY <1>1, <1>8 DEF HoldCount, TodoCount
<1>10. \A d \in Tasks : HandleCount(d)' = IF d = c THEN 0 ELSE HandleCount(d)
  BY <1>1, <1>3, <1>5, <1>6 DEF HandleCount
<1>11. CountInv'
  <2> SUFFICES ASSUME NEW d \in Tasks
               PROVE  rc'[d] = HandleCount(d)' + HoldCount(d)' + TodoCount(d)'
    BY DEF CountInv
  <2>1. CASE d = c BY <2>1, <1>0, <1>1, <1>6, <1>7, <1>9, <1>10
  <2>2. CASE d # c BY <2>2, <1>0, <1>1, <1>9, <1>10 DEF Books, CountInv
  <2> QED BY <2>1, <2>2
<1>12. HandleInv' BY <1>0, <1>1, <1>3, <1>5 DEF Books, HandleInv
<1>13. OneInv' BY <1>0, <1>1, <1>2 DEF Books, OneInv
<1>14. DetachInv' BY <1>0, <1>1 DEF Books, DetachInv
<1>15. LifeInv' BY <1>0, <1>1, <1>3, <1>5, <1>8 DEF Books, LifeInv
<1>16. OnInv'
  <2>1. \A q \in Tasks : c \notin Members(q) BY <1>6 DEF Grouped
  <2> QED BY <1>0, <1>1, <1>2, <2>1 DEF Books, OnInv, On
<1>17. FreedInv' BY <1>0, <1>1, <1>2, <1>6 DEF Books, FreedInv, Grouped
<1>18. NamesInv' BY <1>1, NamesKeep DEF Books
<1>19. MainInv' BY <1>0, <1>1, JoinsAssumption DEF Books, MainInv
<1> QED BY <1>11, <1>12, <1>13, <1>14, <1>15, <1>16, <1>17, <1>18, <1>19 DEF Books

LEMMA MemberFreedKeeps == ASSUME Types, Books, NEW p \in Tasks, MemberFreed(p) PROVE Books'
<1> USE NoneNot DEF At, Works, waitVars, countVars, endVars, groupVars, listVars
<1> DEFINE c == on[p]
<1>0. pc \in [Tasks -> Pcs] /\ on \in [Tasks -> Tasks \cup {None}] /\ rc \in [Tasks -> Int]
  BY DEF Types
<1>1. /\ pc[p] = "freesMember" /\ pc' = [pc EXCEPT ![p] = "releasesGroup"] /\ on' = [on EXCEPT ![p] = None]
      /\ c \in done /\ freed' = freed \cup {c} /\ rc' = [rc EXCEPT ![c] = 0]
      /\ UNCHANGED <<owner, members, failed, detached, DETACHED, todo, done, group>>
  BY DEF MemberFreed, Free
<1>2. \A q \in Tasks : Members(q)' = Members(q) BY <1>1 DEF Members
<1>3. \A d \in Tasks : (Grouped(d)' <=> Grouped(d)) /\ (Freeing(d)' <=> Freeing(d))
  BY <1>0, <1>1, <1>2 DEF Grouped, Freeing
<1>4. c \in Members(p) \ freed BY <1>1 DEF Books, OnInv, On
<1>5. c \in Tasks /\ Grouped(c) /\ \A q \in Tasks \ {p} : c \notin Members(q)
  BY <1>4, Grouping DEF Grouped, Books, OneInv
<1>6. owner[c] = None /\ ~Freeing(c) /\ c \notin detached /\ c \notin todo
  BY <1>5 DEF Books, HandleInv, DetachInv
<1>7. \A d \in Tasks : (pc'[d] = "off" <=> pc[d] = "off") /\ (pc'[d] \in Ended <=> pc[d] \in Ended)
        /\ (pc'[d] = "unborn" <=> pc[d] = "unborn")
  BY <1>0, <1>1
<1>8. \A d \in Tasks : HoldCount(d)' = HoldCount(d) /\ TodoCount(d)' = TodoCount(d)
  BY <1>1, <1>7 DEF HoldCount, TodoCount
<1>9. \A d \in Tasks : HandleCount(d)' = IF d = c THEN 0 ELSE HandleCount(d)
  BY <1>1, <1>3, <1>6 DEF HandleCount
<1>10. HoldCount(c) = 0 /\ TodoCount(c) = 0 BY <1>6 DEF HoldCount, TodoCount
<1>11. CountInv'
  <2> SUFFICES ASSUME NEW d \in Tasks
               PROVE  rc'[d] = HandleCount(d)' + HoldCount(d)' + TodoCount(d)'
    BY DEF CountInv
  <2>1. CASE d = c BY <2>1, <1>0, <1>1, <1>8, <1>9, <1>10
  <2>2. CASE d # c BY <2>2, <1>0, <1>1, <1>8, <1>9 DEF Books, CountInv
  <2> QED BY <2>1, <2>2
<1>12. HandleInv' BY <1>0, <1>1, <1>3, <1>5, <1>6 DEF Books, HandleInv
<1>13. OneInv' BY <1>0, <1>1, <1>2 DEF Books, OneInv
<1>14. DetachInv' BY <1>0, <1>1 DEF Books, DetachInv
<1>15. LifeInv' BY <1>0, <1>1, <1>3, <1>7 DEF Books, LifeInv
<1>16. OnInv' BY <1>0, <1>1, <1>2, <1>5 DEF Books, OnInv, On
<1>17. FreedInv' BY <1>0, <1>1, <1>2, <1>5 DEF Books, FreedInv
<1>18. NamesInv' BY <1>1, NamesKeep DEF Books
<1>19. MainInv' BY <1>0, <1>1, JoinsAssumption DEF Books, MainInv
<1> QED BY <1>11, <1>12, <1>13, <1>14, <1>15, <1>16, <1>17, <1>18, <1>19 DEF Books

LEMMA AddKeeps == ASSUME Types, Books, NEW p \in Tasks, NEW c \in Tasks, Add(p, c) PROVE Books'
<1> USE NoneNot DEF At, Code, Works, waitVars, countVars, endVars, groupVars, listVars
<1>0. pc \in [Tasks -> Pcs] /\ on \in [Tasks -> Tasks \cup {None}] /\ rc \in [Tasks -> Int]
      /\ owner \in [Tasks -> Tasks \cup {None}] /\ members \in [Tasks -> Seq(Tasks)]
  BY DEF Types
<1>1. /\ pc[p] = "code" /\ pc' = [pc EXCEPT ![p] = "adds"] /\ on' = [on EXCEPT ![p] = c]
      /\ owner[c] = p /\ owner' = [owner EXCEPT ![c] = None]
      /\ members' = [members EXCEPT ![p] = Append(@, c)]
      /\ UNCHANGED <<rc, freed, failed, detached, DETACHED, todo, done, group>>
  BY DEF Add, Mine
<1>2. \A q \in Tasks : Members(q)' = IF q = p THEN Members(p) \cup {c} ELSE Members(q)
  <2>1. ToSet(Append(members[p], c)) = ToSet(members[p]) \cup {c} BY <1>0, AppendHolds
  <2> QED BY <1>0, <1>1, <2>1 DEF Members
<1>3. \A d \in Tasks : (Grouped(d)' <=> Grouped(d) \/ d = c) /\ (Freeing(d)' <=> Freeing(d))
  <2> SUFFICES ASSUME NEW d \in Tasks
               PROVE  (Grouped(d)' <=> Grouped(d) \/ d = c) /\ (Freeing(d)' <=> Freeing(d))
    OBVIOUS
  <2>1. \A q \in Tasks : d \in Members(q)' <=> d \in Members(q) \/ (q = p /\ d = c)
    BY <1>2
  <2>2. Grouped(d)' <=> Grouped(d) \/ d = c
    BY <2>1 DEF Grouped
  <2>3. \A q \in Tasks : (pc'[q] = "frees" /\ on'[q] = d) <=> (pc[q] = "frees" /\ on[q] = d)
    BY <1>0, <1>1
  <2> QED BY <2>2, <2>3 DEF Freeing
<1>4. ~Grouped(c) /\ ~Freeing(c) /\ c \notin detached /\ pc[c] # "unborn"
  BY <1>1 DEF Books, HandleInv, DetachInv, LifeInv
<1>5. c \notin freed
  <2>1. HandleCount(c) = 1 /\ HoldCount(c) \in {0, 1} /\ TodoCount(c) \in {0, 1}
    BY <1>1 DEF HandleCount, HoldCount, TodoCount
  <2>2. rc[c] # 0 BY <2>1 DEF Books, CountInv
  <2> QED BY <2>2 DEF Books, LifeInv
<1>6. \A d \in Tasks : (pc'[d] = "off" <=> pc[d] = "off") /\ (pc'[d] \in Ended <=> pc[d] \in Ended)
        /\ (pc'[d] = "unborn" <=> pc[d] = "unborn")
  BY <1>0, <1>1
<1>7. \A d \in Tasks : HoldCount(d)' = HoldCount(d) /\ TodoCount(d)' = TodoCount(d)
  BY <1>1, <1>6 DEF HoldCount, TodoCount
<1>8. \A d \in Tasks : HandleCount(d)' = HandleCount(d)
  BY <1>0, <1>1, <1>3, <1>5 DEF HandleCount
<1>9. CountInv' BY <1>1, <1>7, <1>8 DEF Books, CountInv
<1>10. HandleInv' BY <1>0, <1>1, <1>3, <1>4 DEF Books, HandleInv
<1>11. OneInv' BY <1>0, <1>1, <1>2, <1>4 DEF Books, OneInv, Grouped
<1>12. DetachInv' BY <1>0, <1>1, <1>4 DEF Books, DetachInv
<1>13. LifeInv' BY <1>0, <1>1, <1>3, <1>4, <1>6 DEF Books, LifeInv
<1>14. OnInv'
  <2>1. \A q \in Tasks \ {p} : On(q)'
    <3> SUFFICES ASSUME NEW q \in Tasks \ {p} PROVE On(q)'
      OBVIOUS
    <3>1. On(q) /\ pc'[q] = pc[q] /\ on'[q] = on[q] BY <1>0, <1>1 DEF Books, OnInv
    <3>2. pc[q] \in Owning => on[q] # c BY <1>1, <3>1 DEF On
    <3> QED BY <1>0, <1>1, <1>2, <3>1, <3>2 DEF On
  <2>2. On(p)' BY <1>0, <1>1, <1>2, <1>5 DEF On
  <2> QED BY <2>1, <2>2 DEF OnInv
<1>15. FreedInv' BY <1>0, <1>1, <1>2, <1>5 DEF Books, FreedInv
<1>16. NamesInv'
  <2>1. \A q \in Tasks : group'[q] = group[q] /\ failed'[q] = failed[q] /\ group[q] \in Tasks \cup {None}
                        /\ failed[q] \in Tasks \cup {None}
    BY <1>1 DEF Types
  <2> QED BY <1>1, <1>2, <2>1 DEF Books, NamesInv
<1>17. MainInv' BY <1>0, <1>1, JoinsAssumption DEF Books, MainInv
<1> QED BY <1>9, <1>10, <1>11, <1>12, <1>13, <1>14, <1>15, <1>16, <1>17 DEF Books

LEMMA GroupFreedKeeps == ASSUME Types, Books, NEW p \in Tasks, GroupFreed(p) PROVE Books'
<1> USE NoneNot DEF At, waitVars, countVars, endVars, groupVars, listVars
<1>0. pc \in [Tasks -> Pcs] /\ on \in [Tasks -> Tasks \cup {None}] /\ members \in [Tasks -> Seq(Tasks)]
      /\ failed \in [Tasks -> Tasks \cup {None}] /\ group \in [Tasks -> Tasks \cup {None}]
  BY DEF Types
<1>1. /\ pc[p] = "releasesGroup" /\ pc' = [pc EXCEPT ![p] = "code"] /\ Members(p) \subseteq freed
      /\ members' = [members EXCEPT ![p] = <<>>] /\ failed' = [failed EXCEPT ![p] = None]
      /\ UNCHANGED <<on, owner, rc, freed, detached, DETACHED, todo, done, group>>
  BY DEF GroupFreed
<1>2. \A q \in Tasks : Members(q)' = IF q = p THEN {} ELSE Members(q)
  BY <1>0, <1>1 DEF Members, ToSet
<1>3. \A d \in Tasks : (Freeing(d)' <=> Freeing(d)) /\ (Grouped(d)' => Grouped(d))
        /\ (Grouped(d) => Grouped(d)' \/ d \in freed)
  <2> SUFFICES ASSUME NEW d \in Tasks
               PROVE  /\ Freeing(d)' <=> Freeing(d)
                      /\ Grouped(d)' => Grouped(d)
                      /\ Grouped(d) => Grouped(d)' \/ d \in freed
    OBVIOUS
  <2>1. \A q \in Tasks : (pc'[q] = "frees" /\ on'[q] = d) <=> (pc[q] = "frees" /\ on[q] = d)
    BY <1>0, <1>1
  <2>2. \A q \in Tasks : (d \in Members(q)' => d \in Members(q))
                         /\ (d \in Members(q) => d \in Members(q)' \/ d \in freed)
    BY <1>1, <1>2
  <2>3. Freeing(d)' <=> Freeing(d) BY <2>1 DEF Freeing
  <2> QED BY <2>2, <2>3 DEF Grouped
<1>4. \A d \in Tasks : (pc'[d] = "off" <=> pc[d] = "off") /\ (pc'[d] \in Ended <=> pc[d] \in Ended)
        /\ (pc'[d] = "unborn" <=> pc[d] = "unborn")
  BY <1>0, <1>1
<1>5. \A d \in Tasks : HoldCount(d)' = HoldCount(d) /\ TodoCount(d)' = TodoCount(d)
  BY <1>1, <1>4 DEF HoldCount, TodoCount
<1>6. \A d \in Tasks : HandleCount(d)' = HandleCount(d) BY <1>1, <1>3 DEF HandleCount
<1>7. CountInv' BY <1>1, <1>5, <1>6 DEF Books, CountInv
<1>8. HandleInv' BY <1>1, <1>3 DEF Books, HandleInv
<1>9. OneInv' BY <1>0, <1>1, <1>2 DEF Books, OneInv
<1>10. DetachInv' BY <1>0, <1>1 DEF Books, DetachInv
<1>11. LifeInv' BY <1>1, <1>3, <1>4 DEF Books, LifeInv
<1>12. OnInv' BY <1>0, <1>1, <1>2 DEF Books, OnInv, On
<1>13. FreedInv' BY <1>0, <1>1, <1>2 DEF Books, FreedInv
<1>14. NamesInv'
  <2>1. Members(p) \subseteq done BY <1>1, Grouping DEF Books, LifeInv
  <2> QED BY <1>0, <1>1, <1>2, <2>1 DEF Books, NamesInv
<1>15. MainInv' BY <1>0, <1>1, JoinsAssumption DEF Books, MainInv
<1> QED BY <1>7, <1>8, <1>9, <1>10, <1>11, <1>12, <1>13, <1>14, <1>15 DEF Books

LEMMA CompleteKeeps == ASSUME Types, Books, NEW p \in Tasks, Complete(p) PROVE Books'
<1> USE NoneNot DEF At, waitVars, countVars, endVars, groupVars, listVars
<1>0. pc \in [Tasks -> Pcs] /\ on \in [Tasks -> Tasks \cup {None}] /\ group \in [Tasks -> Tasks \cup {None}]
      /\ failed \in [Tasks -> Tasks \cup {None}]
  BY DEF Types
<1>1. /\ pc[p] = "completes" /\ pc' = [pc EXCEPT ![p] = IF p \in detached THEN "retains" ELSE "off"]
      /\ done' = done \cup {p}
      /\ UNCHANGED <<on, owner, rc, freed, members, detached, DETACHED, todo, group>>
  BY DEF Complete
<1>2. \A q \in Tasks : Members(q)' = Members(q) BY <1>1 DEF Members
<1>3. \A d \in Tasks : (Freeing(d)' <=> Freeing(d)) /\ (Grouped(d)' <=> Grouped(d))
  BY <1>0, <1>1, <1>2 DEF Freeing, Grouped
<1>4. \A d \in Tasks : HoldCount(d)' = HoldCount(d) /\ TodoCount(d)' = TodoCount(d)
  BY <1>0, <1>1 DEF HoldCount, TodoCount
<1>5. \A d \in Tasks : HandleCount(d)' = HandleCount(d) BY <1>1, <1>3 DEF HandleCount
<1>6. CountInv' BY <1>1, <1>4, <1>5 DEF Books, CountInv
<1>7. HandleInv' BY <1>1, <1>3 DEF Books, HandleInv
<1>8. OneInv' BY <1>0, <1>1, <1>2 DEF Books, OneInv
<1>9. DetachInv' BY <1>0, <1>1 DEF Books, DetachInv, Types
<1>10. LifeInv' BY <1>0, <1>1, <1>3 DEF Books, LifeInv
<1>11. OnInv' BY <1>0, <1>1, <1>2 DEF Books, OnInv, On
<1>12. FreedInv' BY <1>0, <1>1, <1>2 DEF Books, FreedInv
<1>13. NamesInv'
  <2>1. p \notin done BY <1>1 DEF Books, LifeInv
  <2>2. \A q \in Tasks : failed'[q] # None => failed'[q] \in Members(q)'
    <3>1. CASE group[p] = None
      <4>1. failed' = failed BY <3>1 DEF Complete
      <4> QED BY <1>2, <4>1 DEF Books, NamesInv
    <3>2. CASE group[p] # None
      <4>1. group[p] \in Tasks /\ p \in Members(group[p]) BY <1>0, <2>1, <3>2 DEF Books, NamesInv
      <4>2. GroupCompleted(group[p], p) BY <3>2 DEF Complete
      <4> QED BY <1>1, <4>1, <4>2, CompletedNames DEF Books
    <3> QED BY <3>1, <3>2
  <2> QED BY <1>0, <1>1, <1>2, <2>2 DEF Books, NamesInv
<1>14. MainInv' BY <1>0, <1>1, JoinsAssumption DEF Books, MainInv
<1> QED BY <1>6, <1>7, <1>8, <1>9, <1>10, <1>11, <1>12, <1>13, <1>14 DEF Books

LEMMA RetainKeeps == ASSUME Types, Books, NEW p \in Tasks, Retain(p) PROVE Books'
<1> USE NoneNot DEF At, waitVars, countVars, endVars, groupVars, listVars
<1>0. pc \in [Tasks -> Pcs] /\ DETACHED \subseteq Tasks BY DEF Types
<1>1. /\ pc[p] = "retains" /\ pc' = [pc EXCEPT ![p] = "letsGo"] /\ DETACHED' = DETACHED \ {p}
      /\ UNCHANGED <<on, owner, rc, freed, members, failed, detached, todo, done, group>>
  BY DEF Retain
<1>2. \A q \in Tasks : Members(q)' = Members(q) BY <1>1 DEF Members
<1>3. \A d \in Tasks : (Freeing(d)' <=> Freeing(d)) /\ (Grouped(d)' <=> Grouped(d))
  BY <1>0, <1>1, <1>2 DEF Freeing, Grouped
<1>4. \A d \in Tasks : HoldCount(d)' = HoldCount(d) /\ TodoCount(d)' = TodoCount(d)
  BY <1>0, <1>1 DEF HoldCount, TodoCount
<1>5. \A d \in Tasks : HandleCount(d)' = HandleCount(d) BY <1>1, <1>3 DEF HandleCount
<1>6. CountInv' BY <1>1, <1>4, <1>5 DEF Books, CountInv
<1>7. HandleInv' BY <1>1, <1>3 DEF Books, HandleInv
<1>8. OneInv' BY <1>0, <1>1, <1>2 DEF Books, OneInv
<1>9. DetachInv' BY <1>0, <1>1 DEF Books, DetachInv, Types
<1>10. LifeInv' BY <1>0, <1>1, <1>3 DEF Books, LifeInv
<1>11. OnInv' BY <1>0, <1>1, <1>2 DEF Books, OnInv, On
<1>12. FreedInv' BY <1>0, <1>1, <1>2 DEF Books, FreedInv
<1>13. NamesInv' BY <1>1, NamesKeep DEF Books
<1>14. MainInv' BY <1>0, <1>1, JoinsAssumption DEF Books, MainInv
<1> QED BY <1>6, <1>7, <1>8, <1>9, <1>10, <1>11, <1>12, <1>13, <1>14 DEF Books

LEMMA LetGoKeeps == ASSUME Types, Books, NEW p \in Tasks, LetGo(p) PROVE Books'
<1> USE NoneNot DEF At, waitVars, countVars, endVars, groupVars, listVars
<1>0. pc \in [Tasks -> Pcs] /\ rc \in [Tasks -> Int] BY DEF Types
<1>1. /\ pc[p] = "letsGo" /\ pc' = [pc EXCEPT ![p] = "off"]
      /\ UNCHANGED <<on, owner, members, failed, detached, DETACHED, todo, done, group>>
  BY DEF LetGo
<1>2. \/ rc[p] = 1 /\ freed' = freed \cup {p} /\ rc' = [rc EXCEPT ![p] = 0]
      \/ rc[p] # 1 /\ freed' = freed /\ rc' = [rc EXCEPT ![p] = @ - 1]
  BY DEF LetGo, Drop, Free
<1>3. \A q \in Tasks : Members(q)' = Members(q) BY <1>1 DEF Members
<1>4. \A d \in Tasks : (Freeing(d)' <=> Freeing(d)) /\ (Grouped(d)' <=> Grouped(d))
  BY <1>0, <1>1, <1>3 DEF Freeing, Grouped
<1>5. p \in detached /\ p \in done BY <1>1 DEF Books, DetachInv, LifeInv
<1>6. ~Grouped(p) BY <1>5 DEF Books, HandleInv
<1>7. HandleCount(p) \in {0, 1} /\ HoldCount(p) = 1 /\ TodoCount(p) \in {0, 1}
      /\ rc[p] = HandleCount(p) + HoldCount(p) + TodoCount(p)
  BY <1>1, <1>5 DEF HandleCount, HoldCount, TodoCount, Books, CountInv
<1>8. ~Freeing(p)
  <2>1. Freeing(p) => rc[p] = 1 /\ HandleCount(p) = 1 BY DEF Books, HandleInv, HandleCount
  <2> QED BY <1>7, <2>1
<1>9. HoldCount(p)' = 0 /\ \A d \in Tasks \ {p} : HoldCount(d)' = HoldCount(d)
  BY <1>0, <1>1 DEF HoldCount
<1>10. \A d \in Tasks : HandleCount(d)' = HandleCount(d) /\ TodoCount(d)' = TodoCount(d)
  BY <1>1, <1>2, <1>4, <1>6 DEF HandleCount, TodoCount
<1>11. CountInv'
  <2> SUFFICES ASSUME NEW d \in Tasks
               PROVE  rc'[d] = HandleCount(d)' + HoldCount(d)' + TodoCount(d)'
    BY DEF CountInv
  <2>1. CASE d = p BY <2>1, <1>0, <1>2, <1>7, <1>9, <1>10
  <2>2. CASE d # p BY <2>2, <1>0, <1>2, <1>9, <1>10 DEF Books, CountInv
  <2> QED BY <2>1, <2>2
<1>12. HandleInv' BY <1>0, <1>1, <1>2, <1>4, <1>8 DEF Books, HandleInv
<1>13. OneInv' BY <1>0, <1>1, <1>3 DEF Books, OneInv
<1>14. DetachInv'
  <2>1. p \notin DETACHED BY <1>1 DEF Books, DetachInv
  <2> QED BY <1>0, <1>1, <2>1 DEF Books, DetachInv
<1>15. LifeInv'
  <2>1. \A d \in Tasks : d \in done <=> pc'[d] \in Ended BY <1>0, <1>1 DEF Books, LifeInv
  <2>2. \A d \in Tasks : d \in freed' => rc'[d] = 0 /\ d \in done
    <3>1. p \notin freed BY <1>7 DEF Books, LifeInv
    <3> QED BY <1>0, <1>2, <1>5, <3>1 DEF Books, LifeInv
  <2> QED BY <1>0, <1>1, <1>4, <2>1, <2>2 DEF Books, LifeInv
<1>16. OnInv' BY <1>0, <1>1, <1>2, <1>3, <1>6 DEF Books, OnInv, On, Grouped
<1>17. FreedInv' BY <1>0, <1>1, <1>2, <1>3, <1>6 DEF Books, FreedInv, Grouped
<1>18. NamesInv' BY <1>1, NamesKeep DEF Books
<1>19. MainInv' BY <1>0, <1>1, JoinsAssumption DEF Books, MainInv
<1> QED BY <1>11, <1>12, <1>13, <1>14, <1>15, <1>16, <1>17, <1>18, <1>19 DEF Books

LEMMA EndDetachedKeeps == ASSUME Types, Books, EndDetached PROVE Books'
<1> USE NoneNot, JoinsAssumption DEF At, waitVars, countVars, endVars, groupVars, listVars
<1>0. pc \in [Tasks -> Pcs] /\ rc \in [Tasks -> Int] BY DEF Types
<1>1. /\ pc[MainTask] = "ends" /\ todo' = DETACHED
      /\ pc' = [pc EXCEPT ![MainTask] = IF DETACHED = {} THEN "over" ELSE "endCancels"]
      /\ rc' = [c \in Tasks |-> IF c \in DETACHED THEN rc[c] + 1 ELSE rc[c]]
      /\ UNCHANGED <<on, owner, freed, members, failed, detached, DETACHED, done, group>>
  BY DEF EndDetached
<1>2. \A q \in Tasks : Members(q)' = Members(q) BY <1>1 DEF Members
<1>3. \A d \in Tasks : (Freeing(d)' <=> Freeing(d)) /\ (Grouped(d)' <=> Grouped(d))
  BY <1>0, <1>1, <1>2 DEF Freeing, Grouped
<1>4. todo = {} BY <1>1 DEF Books, MainInv
<1>5. \A d \in Tasks : (pc'[d] = "off" <=> pc[d] = "off") /\ (pc'[d] \in Ended <=> pc[d] \in Ended)
        /\ (pc'[d] = "unborn" <=> pc[d] = "unborn")
  BY <1>0, <1>1
<1>6. \A d \in Tasks : HandleCount(d)' = HandleCount(d) /\ HoldCount(d)' = HoldCount(d)
  BY <1>1, <1>3, <1>5 DEF HandleCount, HoldCount
<1>7. \A d \in Tasks : HandleCount(d) \in {0, 1} /\ HoldCount(d) \in {0, 1} /\ TodoCount(d) = 0
        /\ rc[d] = HandleCount(d) + HoldCount(d)
  BY <1>4 DEF HandleCount, HoldCount, TodoCount, Books, CountInv
<1>8. \A d \in DETACHED : HoldCount(d) = 1 BY DEF HoldCount, Books, DetachInv, Types
<1>9. \A d \in DETACHED : ~Freeing(d) /\ d \notin freed
  <2> SUFFICES ASSUME NEW d \in DETACHED PROVE ~Freeing(d) /\ d \notin freed
    OBVIOUS
  <2>1. d \in Tasks BY DEF Types
  <2>2. Freeing(d) => rc[d] = 1 /\ HandleCount(d) = 1 BY <2>1 DEF Books, HandleInv, HandleCount
  <2>3. d \in freed => rc[d] = 0 BY <2>1 DEF Books, LifeInv
  <2> QED BY <1>7, <1>8, <2>1, <2>2, <2>3
<1>10. CountInv'
  <2>1. \A d \in Tasks : TodoCount(d)' = IF d \in DETACHED THEN 1 ELSE 0 BY <1>1 DEF TodoCount
  <2> QED BY <1>0, <1>1, <1>6, <1>7, <2>1 DEF CountInv
<1>11. HandleInv' BY <1>1, <1>3, <1>9 DEF Books, HandleInv
<1>12. OneInv' BY <1>0, <1>1, <1>2 DEF Books, OneInv
<1>13. DetachInv' BY <1>0, <1>1 DEF Books, DetachInv
<1>14. LifeInv' BY <1>0, <1>1, <1>3, <1>5, <1>9 DEF Books, LifeInv
<1>15. OnInv'
  <2>1. \A q \in Tasks : pc[q] # "endWaits" BY <1>1 DEF Books, MainInv
  <2> QED BY <1>0, <1>1, <1>2, <2>1 DEF Books, OnInv, On
<1>16. FreedInv' BY <1>0, <1>1, <1>2 DEF Books, FreedInv
<1>17. NamesInv' BY <1>1, NamesKeep DEF Books
<1>18. MainInv' BY <1>0, <1>1 DEF Books, MainInv
<1> QED BY <1>10, <1>11, <1>12, <1>13, <1>14, <1>15, <1>16, <1>17, <1>18 DEF Books

LEMMA EndReleasesKeeps == ASSUME Types, Books, EndReleases PROVE Books'
<1> USE NoneNot, JoinsAssumption DEF At, Works, waitVars, countVars, endVars, groupVars, listVars
<1> DEFINE c == on[MainTask]
<1>0. pc \in [Tasks -> Pcs] /\ rc \in [Tasks -> Int] /\ on \in [Tasks -> Tasks \cup {None}]
  BY DEF Types
<1>1. /\ pc[MainTask] = "endWaits" /\ c \in done /\ todo' = todo \ {c}
      /\ pc' = [pc EXCEPT ![MainTask] = IF todo' = {} THEN "ends" ELSE "endCancels"]
      /\ on' = [on EXCEPT ![MainTask] = None]
      /\ UNCHANGED <<owner, members, failed, detached, DETACHED, done, group>>
  BY DEF EndReleases
<1>2. \/ rc[c] = 1 /\ freed' = freed \cup {c} /\ rc' = [rc EXCEPT ![c] = 0]
      \/ rc[c] # 1 /\ freed' = freed /\ rc' = [rc EXCEPT ![c] = @ - 1]
  BY DEF EndReleases, Drop, Free
<1>3. \A q \in Tasks : Members(q)' = Members(q) BY <1>1 DEF Members
<1>4. \A d \in Tasks : (Freeing(d)' <=> Freeing(d)) /\ (Grouped(d)' <=> Grouped(d))
  BY <1>0, <1>1, <1>3 DEF Freeing, Grouped
<1>5. c \in todo /\ c \in Tasks BY <1>1 DEF Books, OnInv, On, Types
<1>6. ~Grouped(c) BY <1>5 DEF Books, HandleInv, DetachInv
<1>7. HandleCount(c) \in {0, 1} /\ HoldCount(c) \in {0, 1} /\ TodoCount(c) = 1
      /\ rc[c] = HandleCount(c) + HoldCount(c) + TodoCount(c)
  BY <1>5 DEF HandleCount, HoldCount, TodoCount, Books, CountInv
<1>8. ~Freeing(c)
  <2>1. Freeing(c) => rc[c] = 1 /\ HandleCount(c) = 1 BY <1>5 DEF Books, HandleInv, HandleCount
  <2> QED BY <1>7, <2>1
<1>9. \A d \in Tasks : (pc'[d] = "off" <=> pc[d] = "off") /\ (pc'[d] \in Ended <=> pc[d] \in Ended)
        /\ (pc'[d] = "unborn" <=> pc[d] = "unborn")
  BY <1>0, <1>1
<1>10. \A d \in Tasks : HoldCount(d)' = HoldCount(d) BY <1>1, <1>9 DEF HoldCount
<1>11. \A d \in Tasks : TodoCount(d)' = IF d = c THEN 0 ELSE TodoCount(d)
  BY <1>1 DEF TodoCount
<1>12. \A d \in Tasks : HandleCount(d)' = HandleCount(d) BY <1>1, <1>2, <1>4, <1>6 DEF HandleCount
<1>13. CountInv'
  <2> SUFFICES ASSUME NEW d \in Tasks
               PROVE  rc'[d] = HandleCount(d)' + HoldCount(d)' + TodoCount(d)'
    BY DEF CountInv
  <2>1. CASE d = c BY <2>1, <1>0, <1>2, <1>7, <1>10, <1>11, <1>12
  <2>2. CASE d # c BY <2>2, <1>0, <1>2, <1>10, <1>11, <1>12 DEF Books, CountInv
  <2> QED BY <2>1, <2>2
<1>14. HandleInv' BY <1>0, <1>1, <1>2, <1>4, <1>8 DEF Books, HandleInv
<1>15. OneInv' BY <1>0, <1>1, <1>3 DEF Books, OneInv
<1>16. DetachInv' BY <1>0, <1>1 DEF Books, DetachInv
<1>17. LifeInv'
  <2>1. c \notin freed BY <1>5, <1>7 DEF Books, LifeInv
  <2>2. \A d \in Tasks : d \in freed' => rc'[d] = 0 /\ d \in done
    BY <1>0, <1>1, <1>2, <2>1 DEF Books, LifeInv
  <2> QED BY <1>0, <1>1, <1>4, <1>9, <2>2 DEF Books, LifeInv
<1>18. OnInv'
  <2>1. On(MainTask)' BY <1>0, <1>1 DEF On
  <2>2. \A q \in Tasks \ {MainTask} : pc[q] # "endWaits" BY DEF Books, MainInv
  <2>3. \A q \in Tasks \ {MainTask} : On(q)'
    BY <1>0, <1>1, <1>2, <1>3, <1>6, <2>2 DEF Books, OnInv, On, Grouped
  <2> QED BY <2>1, <2>3 DEF OnInv
<1>19. FreedInv' BY <1>0, <1>1, <1>2, <1>3, <1>6 DEF Books, FreedInv, Grouped
<1>20. NamesInv' BY <1>1, NamesKeep DEF Books
<1>21. MainInv' BY <1>0, <1>1 DEF Books, MainInv
<1> QED BY <1>13, <1>14, <1>15, <1>16, <1>17, <1>18, <1>19, <1>20, <1>21 DEF Books

-----------------------------------------------------------------------------
(* Types, and who waits. *)

LEMMA PcOnTypes ==
  ASSUME Types, Books, [Next]_vars
  PROVE  pc' \in [Tasks -> Pcs] /\ on' \in [Tasks -> Tasks \cup {None}]
<1> USE DEF At, Code, Works
<1>0. pc \in [Tasks -> Pcs] /\ on \in [Tasks -> Tasks \cup {None}] /\ failed \in [Tasks -> Tasks \cup {None}]
  BY DEF Types
<1>1. ASSUME NEW p \in Tasks, NEW c \in Tasks,
             \/ Spawn(p, c) \/ Take(p, c) \/ Wait(p, c) \/ CancelJoin(p, c) \/ Detach(p, c) \/ Add(p, c)
      PROVE  pc' \in [Tasks -> Pcs] /\ on' \in [Tasks -> Tasks \cup {None}]
  BY <1>0, <1>1 DEF Spawn, Take, Wait, CancelJoin, Detach, Add, Pcs
<1>2. ASSUME NEW p \in Tasks, NEW c \in Tasks, Release(p, c)
      PROVE  pc' \in [Tasks -> Pcs] /\ on' \in [Tasks -> Tasks \cup {None}]
  BY <1>0, <1>2 DEF Release, Pcs
<1>3. ASSUME NEW p \in Tasks,
             \/ Park(p) \/ Unpark(p) \/ CancelClaims(p) \/ WaitEnds(p) \/ WaitStops(p) \/ Finish(p) \/ Frees(p)
             \/ Added(p) \/ Asks(p, "nexts") \/ Asks(p, "settles") \/ Asks(p, "cancels") \/ Asks(p, "releasesGroup")
      PROVE  pc' \in [Tasks -> Pcs] /\ on' \in [Tasks -> Tasks \cup {None}]
  BY <1>0, <1>3 DEF Park, Unpark, CancelClaims, WaitEnds, WaitStops, Finish, Frees, Added, Asks, Pcs
<1>4. ASSUME NEW p \in Tasks,
             \/ Unblocks(p, "nextWaits", "nexts") \/ Unblocks(p, "settleWaits", "settles")
             \/ NextGives(p) \/ NextEnds(p) \/ NextBlocks(p) \/ SettleFails(p) \/ SettleEnds(p) \/ SettleBlocks(p)
             \/ Takes(p) \/ CancelMember(p) \/ GroupCancelled(p)
      PROVE  pc' \in [Tasks -> Pcs] /\ on' \in [Tasks -> Tasks \cup {None}]
  BY <1>0, <1>4 DEF Unblocks, Blocks, NextGives, NextEnds, NextBlocks, SettleFails, SettleEnds, SettleBlocks,
                    Takes, CancelMember, GroupCancelled, Pcs
<1>5. ASSUME NEW p \in Tasks, \/ MemberFreed(p) \/ GroupFreed(p) \/ End(p) \/ Complete(p) \/ Retain(p) \/ LetGo(p)
      PROVE  pc' \in [Tasks -> Pcs] /\ on' \in [Tasks -> Tasks \cup {None}]
  BY <1>0, <1>5 DEF MemberFreed, GroupFreed, End, Complete, Retain, LetGo, Pcs
<1>6. ASSUME NEW p \in Tasks, FreeMember(p)
      PROVE  pc' \in [Tasks -> Pcs] /\ on' \in [Tasks -> Tasks \cup {None}]
  <2>1. PICK c \in Members(p) \ freed : on' = [on EXCEPT ![p] = c] BY <1>6, FreesOne
  <2>2. c \in Tasks BY <2>1, Grouping
  <2>3. pc' = [pc EXCEPT ![p] = "freesMember"] BY <1>6 DEF FreeMember
  <2> QED BY <1>0, <2>1, <2>2, <2>3 DEF Pcs
<1>7. ASSUME NEW c \in Tasks, EndDetached \/ EndCancels(c) \/ EndReleases
      PROVE  pc' \in [Tasks -> Pcs] /\ on' \in [Tasks -> Tasks \cup {None}]
  BY <1>0, <1>7 DEF EndDetached, EndCancels, EndReleases, Pcs
<1>8. CASE UNCHANGED vars BY <1>0, <1>8 DEF vars
<1> QED BY <1>1, <1>2, <1>3, <1>4, <1>5, <1>6, <1>7, <1>8, JoinsAssumption DEF Next, Ends, Goes, Chooses

\* The group of a task that ends, or that is added to it when it is done.
LEMMA HeardTypes ==
  ASSUME Types, NEW g \in Tasks, NEW c \in Tasks, GroupCompleted(g, c), waiter \subseteq Tasks
  PROVE  failed' \in [Tasks -> Tasks \cup {None}] /\ waiter' \subseteq Tasks /\ waiter' = waiter \ {g}
BY DEF Types, GroupCompleted

LEMMA RestTypes == ASSUME Types, WaitTypes, Books, [Next]_vars PROVE Types' /\ WaitTypes'
<1> USE DEF At, Code, waitVars, countVars, endVars, groupVars, listVars
<1>0. pc' \in [Tasks -> Pcs] /\ on' \in [Tasks -> Tasks \cup {None}] BY PcOnTypes
<1>1. ASSUME NEW p \in Tasks, NEW c \in Tasks, Take(p, c) \/ Wait(p, c) \/ CancelJoin(p, c)
      PROVE  Types' /\ WaitTypes'
  <2>1. Types' BY <1>0, <1>1 DEF Types, Take, Wait, CancelJoin, Give
  <2>2. CASE Take(p, c) \/ CancelJoin(p, c) BY <2>1, <2>2 DEF WaitTypes, Take, CancelJoin, Give
  <2>3. CASE Wait(p, c)
    <3>1. /\ fired' = [fired EXCEPT ![p] = None] /\ waiters' = [waiters EXCEPT ![c] = @ \cup {p}]
          /\ waiter' = waiter
      BY <2>3 DEF Wait
    <3> QED BY <2>1, <3>1 DEF WaitTypes
  <2> QED BY <1>1, <2>1, <2>2, <2>3
<1>2. ASSUME NEW p \in Tasks, NEW c \in Tasks, Spawn(p, c) \/ Detach(p, c) \/ Release(p, c)
      PROVE  Types' /\ WaitTypes'
  <2>1. CASE Spawn(p, c) BY <1>0, <2>1 DEF Types, WaitTypes, Spawn
  <2>2. CASE Detach(p, c) BY <1>0, <2>2 DEF Types, WaitTypes, Detach
  <2>3. CASE Release(p, c) BY <1>0, <2>3 DEF Types, WaitTypes, Release
  <2> QED BY <1>2, <2>1, <2>2, <2>3
<1>3. ASSUME NEW p \in Tasks, NEW c \in Tasks, Add(p, c)
      PROVE  Types' /\ WaitTypes'
  <2>1. Append(members[p], c) \in Seq(Tasks) BY AppendHolds DEF Types
  <2> QED BY <1>0, <1>3, <2>1 DEF Types, WaitTypes, Add
<1>4. ASSUME NEW p \in Tasks,
             \/ Park(p) \/ Unpark(p) \/ CancelClaims(p) \/ WaitEnds(p) \/ WaitStops(p) \/ Finish(p)
             \/ Asks(p, "nexts") \/ Asks(p, "settles") \/ Asks(p, "cancels") \/ Asks(p, "releasesGroup")
      PROVE  Types' /\ WaitTypes'
  <2>1. Types'
    BY <1>0, <1>4 DEF Types, Park, Unpark, CancelClaims, WaitEnds, WaitStops, Finish, Asks, Give
  <2>2. fired' \in [Tasks -> {None, "end", "cancel"}] /\ waiter' \subseteq Tasks
    BY <1>4 DEF WaitTypes, Park, Unpark, CancelClaims, WaitEnds, WaitStops, Finish, Asks, Give
  <2>3. waiters' = waiters \/ waiters' = [waiters EXCEPT ![on[p]] = @ \ {p}]
    BY <1>4 DEF Park, Unpark, CancelClaims, WaitEnds, WaitStops, Finish, Asks
  <2>4. waiters' \in [Tasks -> SUBSET Tasks] BY <2>3 DEF WaitTypes
  <2> QED BY <2>1, <2>2, <2>4 DEF WaitTypes
<1>5. ASSUME NEW p \in Tasks,
             \/ Unblocks(p, "nextWaits", "nexts") \/ Unblocks(p, "settleWaits", "settles")
             \/ NextGives(p) \/ NextEnds(p) \/ NextBlocks(p) \/ SettleFails(p) \/ SettleEnds(p) \/ SettleBlocks(p)
      PROVE  Types' /\ WaitTypes'
  <2>1. CASE Unblocks(p, "nextWaits", "nexts") \/ Unblocks(p, "settleWaits", "settles")
    BY <2>1, <1>0 DEF Types, WaitTypes, Unblocks
  <2>2. CASE NextGives(p) \/ NextEnds(p)
    BY <2>2, <1>0 DEF Types, WaitTypes, NextGives, NextEnds
  <2>3. CASE NextBlocks(p) \/ SettleBlocks(p)
    <3>1. /\ waiter' = waiter \cup {p} /\ fired' = [fired EXCEPT ![p] = None]
          /\ UNCHANGED <<owner, countVars, endVars, members, failed, listVars>>
      BY <2>3 DEF Blocks, NextBlocks, SettleBlocks
    <3>2. Types' BY <1>0, <3>1 DEF Types
    <3>3. WaitTypes' BY <3>1 DEF WaitTypes
    <3> QED BY <3>2, <3>3
  <2>4. CASE SettleFails(p) \/ SettleEnds(p)
    BY <2>4, <1>0 DEF Types, WaitTypes, SettleFails, SettleEnds
  <2> QED BY <1>5, <2>1, <2>2, <2>3, <2>4
<1>6. ASSUME NEW p \in Tasks,
             \/ Takes(p) \/ CancelMember(p) \/ GroupCancelled(p) \/ FreeMember(p) \/ GroupFreed(p) \/ End(p)
             \/ Retain(p)
      PROVE  Types' /\ WaitTypes'
  <2>1. members' \in [Tasks -> Seq(Tasks)]
    <3>1. <<>> \in Seq(Tasks) OBVIOUS
    <3> QED BY <1>6, <3>1 DEF Types, Takes, CancelMember, GroupCancelled, FreeMember, GroupFreed, End, Retain
  <2> QED BY <1>0, <1>6, <2>1 DEF Types, WaitTypes, Takes, CancelMember, GroupCancelled, FreeMember, GroupFreed,
                                  End, Retain
<1>7. ASSUME NEW p \in Tasks, \/ Frees(p) \/ MemberFreed(p)
      PROVE  Types' /\ WaitTypes'
  <2>1. on[p] \in Tasks BY <1>7, Grouping DEF Frees, MemberFreed, Books, OnInv, On
  <2> QED BY <1>0, <1>7, <2>1 DEF Types, WaitTypes, Frees, MemberFreed, Free
<1>8. ASSUME NEW p \in Tasks, LetGo(p)
      PROVE  Types' /\ WaitTypes'
  BY <1>0, <1>8 DEF Types, WaitTypes, LetGo, Drop, Free
<1>9. ASSUME NEW p \in Tasks, Added(p)
      PROVE  Types' /\ WaitTypes'
  <2>1. on[p] \in Tasks BY <1>9, Grouping DEF Added, Books, OnInv, On
  <2>2. failed' \in [Tasks -> Tasks \cup {None}] /\ waiter' \subseteq Tasks
        /\ group' \in [Tasks -> Tasks \cup {None}]
    <3>1. CASE on[p] \in done
      <4>1. GroupCompleted(p, on[p]) /\ group' = group BY <1>9, <3>1 DEF Added
      <4> QED BY <2>1, <4>1, HeardTypes DEF Types, WaitTypes
    <3>2. CASE on[p] \notin done BY <1>9, <3>2 DEF Added, Types, WaitTypes
    <3> QED BY <3>1, <3>2
  <2> QED BY <1>0, <1>9, <2>2 DEF Types, WaitTypes, Added
<1>10. ASSUME NEW p \in Tasks, Complete(p)
       PROVE  Types' /\ WaitTypes'
  <2>1. failed' \in [Tasks -> Tasks \cup {None}] /\ waiter' \subseteq Tasks
    <3>1. CASE group[p] = None BY <1>10, <3>1 DEF Complete, Types, WaitTypes
    <3>2. CASE group[p] # None
      <4>1. group[p] \in Tasks BY <3>2 DEF Types
      <4>2. GroupCompleted(group[p], p) BY <1>10, <3>2 DEF Complete
      <4> QED BY <4>1, <4>2, HeardTypes DEF WaitTypes
    <3> QED BY <3>1, <3>2
  <2>2. fired' \in [Tasks -> {None, "end", "cancel"}]
    <3>1. \A t \in Tasks : fired[t] \in {None, "end", "cancel"} BY DEF WaitTypes
    <3> QED BY <1>10, <3>1 DEF Complete
  <2> QED BY <1>0, <1>10, <2>1, <2>2 DEF Types, WaitTypes, Complete
<1>11. ASSUME NEW c \in Tasks, EndDetached \/ EndCancels(c)
       PROVE  Types' /\ WaitTypes'
  BY <1>0, <1>11 DEF Types, WaitTypes, EndDetached, EndCancels
<1>12. ASSUME EndReleases
       PROVE  Types' /\ WaitTypes'
  <2>1. on[MainTask] \in Tasks BY <1>12, JoinsAssumption DEF EndReleases, Books, OnInv, On, Types
  <2> QED BY <1>0, <1>12, <2>1 DEF Types, WaitTypes, EndReleases, Drop, Free
<1>13. CASE UNCHANGED vars BY <1>13 DEF vars, Types, WaitTypes
<1> QED
  BY <1>1, <1>2, <1>3, <1>4, <1>5, <1>6, <1>7, <1>8, <1>9, <1>10, <1>11, <1>12, <1>13, JoinsAssumption
  DEF Next, Ends, Goes, Chooses

\* A step of a task that is in no wait, nor comes into one.
Elsewhere(p) ==
  /\ pc[p] \notin {"waits", "nextWaits", "settleWaits"}
  /\ \A q \in Tasks \ {p} : pc'[q] = pc[q] /\ on'[q] = on[q] /\ fired'[q] = fired[q]
  /\ waiters' = waiters /\ waiter' \subseteq waiter

LEMMA ElsewhereKeeps == ASSUME WaitTypes, WaitInv, NEW p \in Tasks, Elsewhere(p) PROVE WaitInv'
<1>1. \A c \in Tasks : waiters[c] \subseteq Tasks \ {p} BY DEF WaitTypes, WaitInv, Elsewhere
<1>2. waiter \subseteq Tasks \ {p} BY DEF WaitTypes, WaitInv, Elsewhere
<1> QED BY <1>1, <1>2 DEF WaitInv, Elsewhere

LEMMA ElsewhereSteps ==
  ASSUME Types, WaitTypes, Books, NEW p \in Tasks,
         \/ Park(p) \/ Unpark(p) \/ Finish(p) \/ End(p) \/ Frees(p) \/ Added(p)
         \/ Asks(p, "nexts") \/ Asks(p, "settles") \/ Asks(p, "cancels") \/ Asks(p, "releasesGroup")
         \/ NextGives(p) \/ NextEnds(p) \/ SettleFails(p) \/ SettleEnds(p) \/ Takes(p)
         \/ CancelMember(p) \/ GroupCancelled(p) \/ FreeMember(p) \/ MemberFreed(p) \/ GroupFreed(p)
         \/ Retain(p) \/ LetGo(p)
         \/ \E c \in Tasks : Take(p, c) \/ CancelJoin(p, c) \/ Detach(p, c) \/ Release(p, c) \/ Add(p, c)
  PROVE  Elsewhere(p)
<1> USE DEF At, Code, Works, waitVars, countVars, endVars, groupVars, listVars, Elsewhere
<1>0. pc \in [Tasks -> Pcs] /\ on \in [Tasks -> Tasks \cup {None}] /\ fired \in [Tasks -> {None, "end", "cancel"}]
  BY DEF Types, WaitTypes
<1>1. CASE Park(p) \/ Unpark(p) \/ Finish(p) \/ End(p) \/ Frees(p)
  BY <1>0, <1>1 DEF Park, Unpark, Finish, End, Frees
<1>2. CASE Added(p)
  <2>1. waiter' = waiter \/ waiter' = waiter \ {p} BY <1>2 DEF Added, GroupCompleted
  <2> QED BY <1>0, <1>2, <2>1 DEF Added
<1>3. CASE \/ Asks(p, "nexts") \/ Asks(p, "settles") \/ Asks(p, "cancels") \/ Asks(p, "releasesGroup")
           \/ NextGives(p) \/ NextEnds(p) \/ SettleFails(p) \/ SettleEnds(p) \/ Takes(p)
  BY <1>0, <1>3 DEF Asks, NextGives, NextEnds, SettleFails, SettleEnds, Takes
<1>4. CASE \/ CancelMember(p) \/ GroupCancelled(p) \/ MemberFreed(p) \/ GroupFreed(p) \/ Retain(p) \/ LetGo(p)
  BY <1>0, <1>4 DEF CancelMember, GroupCancelled, MemberFreed, GroupFreed, Retain, LetGo
<1>5. CASE FreeMember(p)
  <2>1. PICK c \in Members(p) \ freed : on' = [on EXCEPT ![p] = c] BY <1>5, FreesOne
  <2>2. pc[p] = "releasesGroup" /\ pc' = [pc EXCEPT ![p] = "freesMember"] /\ UNCHANGED <<fired, waiters, waiter>>
    BY <1>5 DEF FreeMember
  <2> QED BY <1>0, <2>1, <2>2
<1>6. CASE \E c \in Tasks : Take(p, c) \/ CancelJoin(p, c) \/ Detach(p, c) \/ Release(p, c) \/ Add(p, c)
  BY <1>0, <1>6 DEF Take, CancelJoin, Detach, Release, Add
<1> QED BY <1>1, <1>2, <1>3, <1>4, <1>5, <1>6

LEMMA WaitStep == ASSUME Types, WaitTypes, Books, WaitInv, [Next]_vars PROVE WaitInv'
<1> USE NoneNot DEF At, Code, Works, waitVars, countVars, endVars, groupVars, listVars
<1>0. pc \in [Tasks -> Pcs] /\ on \in [Tasks -> Tasks \cup {None}] /\ fired \in [Tasks -> {None, "end", "cancel"}]
      /\ waiters \in [Tasks -> SUBSET Tasks] /\ waiter \subseteq Tasks
  BY DEF Types, WaitTypes
<1>1. ASSUME NEW p \in Tasks, NEW c \in Tasks, Spawn(p, c) PROVE WaitInv'
  <2>1. Elsewhere(c) BY <1>0, <1>1 DEF Spawn, Elsewhere
  <2> QED BY <2>1, ElsewhereKeeps
<1>2. ASSUME NEW p \in Tasks, NEW c \in Tasks, Wait(p, c) PROVE WaitInv'
  <2>1. /\ pc[p] = "code" /\ pc' = [pc EXCEPT ![p] = "waits"] /\ on' = [on EXCEPT ![p] = c]
        /\ fired' = [fired EXCEPT ![p] = None] /\ waiters' = [waiters EXCEPT ![c] = @ \cup {p}]
        /\ waiter' = waiter
    BY <1>2 DEF Wait
  <2>2. \A d \in Tasks : p \notin waiters[d] BY <2>1 DEF WaitInv
  <2>3. \A d \in Tasks : waiters'[d] = IF d = c THEN waiters[c] \cup {p} ELSE waiters[d] BY <1>0, <2>1
  <2>4. \A q \in Tasks \ {p} : pc'[q] = pc[q] /\ on'[q] = on[q] /\ fired'[q] = fired[q] BY <1>0, <2>1
  <2>5. pc'[p] = "waits" /\ on'[p] = c /\ fired'[p] = None BY <1>0, <2>1
  <2>6. \A d \in Tasks : \A q \in waiters[d] : q \in Tasks \ {p} BY <1>0, <2>2
  <2>7. \A d \in Tasks : \A q \in waiters'[d] : pc'[q] = "waits" /\ on'[q] = d /\ fired'[q] # "end"
    BY <2>3, <2>4, <2>5, <2>6 DEF WaitInv, None
  <2>8. \A q \in waiter' : pc'[q] \in {"nextWaits", "settleWaits"} BY <1>0, <2>1, <2>4, <2>5 DEF WaitInv
  <2> QED BY <2>7, <2>8 DEF WaitInv
<1>3. ASSUME NEW p \in Tasks, WaitEnds(p) PROVE WaitInv'
  <2>1. \A c \in Tasks : p \notin waiters[c] BY <1>3 DEF WaitEnds, WaitInv
  <2> QED BY <1>0, <1>3, <2>1 DEF WaitEnds, WaitInv
<1>4. ASSUME NEW p \in Tasks, WaitStops(p) PROVE WaitInv'
  <2>1. /\ pc[p] = "waits" /\ pc' = [pc EXCEPT ![p] = "code"] /\ on' = [on EXCEPT ![p] = None]
        /\ fired' = fired /\ waiters' = [waiters EXCEPT ![on[p]] = @ \ {p}] /\ waiter' = waiter
    BY <1>4 DEF WaitStops
  <2>2. \A c \in Tasks : waiters'[c] \subseteq waiters[c] \ {p} BY <1>0, <2>1 DEF WaitInv
  <2> QED BY <1>0, <2>1, <2>2 DEF WaitInv
<1>5. ASSUME NEW p \in Tasks, CancelClaims(p) PROVE WaitInv'
  BY <1>0, <1>5 DEF CancelClaims, WaitInv
<1>6. ASSUME NEW p \in Tasks, NEW from, NEW to, from \in {"nexts", "settles"}, to \in {"nextWaits", "settleWaits"},
             Blocks(p, from, to)
      PROVE  WaitInv'
  <2>1. /\ pc[p] = from /\ pc' = [pc EXCEPT ![p] = to] /\ waiter' = waiter \cup {p}
        /\ fired' = [fired EXCEPT ![p] = None] /\ UNCHANGED <<on, waiters>>
    BY <1>6 DEF Blocks
  <2>2. \A c \in Tasks : p \notin waiters[c] BY <1>6, <2>1 DEF WaitInv
  <2> QED BY <1>0, <1>6, <2>1, <2>2 DEF WaitInv
<1>7. ASSUME NEW p \in Tasks, NEW from, NEW to, from \in {"nextWaits", "settleWaits"}, Unblocks(p, from, to)
      PROVE  WaitInv'
  <2>1. /\ pc[p] = from /\ waiter' = waiter \ {p} /\ UNCHANGED <<on, fired, waiters>>
        /\ pc' = [pc EXCEPT ![p] = IF fired[p] = "end" THEN to ELSE "code"]
    BY <1>7 DEF Unblocks
  <2>2. \A c \in Tasks : p \notin waiters[c] BY <1>7, <2>1 DEF WaitInv
  <2> QED BY <1>0, <2>1, <2>2 DEF WaitInv
<1>8. ASSUME NEW p \in Tasks, Complete(p) PROVE WaitInv'
  <2> DEFINE told == waiters[p] \cup (IF group[p] = None THEN {} ELSE waiter \cap {group[p]})
  <2>1. /\ pc[p] = "completes" /\ pc' = [pc EXCEPT ![p] = IF p \in detached THEN "retains" ELSE "off"] /\ on' = on
        /\ waiters' = [waiters EXCEPT ![p] = {}]
        /\ fired' = [t \in Tasks |-> IF t \in told /\ fired[t] = None THEN "end" ELSE fired[t]]
        /\ waiter' \subseteq waiter
    BY <1>8 DEF Complete, GroupCompleted
  <2>2. \A c \in Tasks \ {p} : \A q \in waiters[c] : q \notin told BY <1>0 DEF WaitInv
  <2>3. p \notin waiter /\ \A c \in Tasks : p \notin waiters[c] BY <2>1 DEF WaitInv
  <2>4. \A c \in Tasks : \A q \in waiters'[c] : c # p /\ q \in waiters[c] BY <1>0, <2>1
  <2>5. \A q \in Tasks \ {p} : pc'[q] = pc[q] /\ on'[q] = on[q] /\ (q \notin told => fired'[q] = fired[q])
    BY <1>0, <2>1
  <2>6. \A c \in Tasks : \A q \in waiters'[c] : pc'[q] = "waits" /\ on'[q] = c /\ fired'[q] # "end"
    BY <1>0, <2>2, <2>3, <2>4, <2>5 DEF WaitInv
  <2>7. \A q \in waiter' : pc'[q] \in {"nextWaits", "settleWaits"} BY <1>0, <2>1, <2>3, <2>5 DEF WaitInv
  <2> QED BY <2>6, <2>7 DEF WaitInv
<1>9. ASSUME NEW c \in Tasks, EndDetached \/ EndCancels(c) \/ EndReleases PROVE WaitInv'
  <2>1. Elsewhere(MainTask) BY <1>0, <1>9, JoinsAssumption DEF EndDetached, EndCancels, EndReleases, Elsewhere
  <2> QED BY <2>1, ElsewhereKeeps, JoinsAssumption
<1>10. CASE UNCHANGED vars BY <1>10 DEF vars, WaitInv
<1>11. ASSUME NEW p \in Tasks, NextBlocks(p) \/ SettleBlocks(p) PROVE WaitInv'
  BY <1>6, <1>11 DEF NextBlocks, SettleBlocks
<1>12. ASSUME NEW p \in Tasks, Elsewhere(p) PROVE WaitInv' BY <1>12, ElsewhereKeeps
<1>13. ASSUME NEW p \in Tasks, NEW c \in Tasks,
              Take(p, c) \/ CancelJoin(p, c) \/ Detach(p, c) \/ Release(p, c) \/ Add(p, c)
       PROVE  WaitInv'
  BY <1>12, <1>13, ElsewhereSteps
<1>14. ASSUME NEW p \in Tasks, Goes(p) PROVE WaitInv'
  BY <1>3, <1>4, <1>5, <1>7, <1>8, <1>11, <1>12, <1>13, <1>14, ElsewhereSteps DEF Goes
<1>15. ASSUME NEW p \in Tasks, Chooses(p) PROVE WaitInv'
  BY <1>1, <1>2, <1>12, <1>13, <1>15, ElsewhereSteps DEF Chooses
<1> QED BY <1>9, <1>10, <1>14, <1>15, JoinsAssumption DEF Next, Ends

-----------------------------------------------------------------------------
LEMMA InvStep == ASSUME Inv, [Next]_vars PROVE Inv'
<1>1. Types /\ WaitTypes /\ Books /\ WaitInv BY DEF Inv
<1>2. Types' /\ WaitTypes' BY <1>1, RestTypes
<1>3. WaitInv' BY <1>1, WaitStep
<1>4. Books'
  <2>1. ASSUME NEW p \in Tasks, Quiet(p) PROVE Books' BY <1>1, <2>1, QuietKeeps
  <2>2. ASSUME NEW p \in Tasks, NEW c \in Tasks, Spawn(p, c) \/ Detach(p, c) \/ Release(p, c) \/ Add(p, c)
        PROVE  Books'
    BY <1>1, <2>2, SpawnKeeps, DetachKeeps, ReleaseKeeps, AddKeeps
  <2>3. ASSUME NEW p \in Tasks, NEW c \in Tasks, Take(p, c) \/ Wait(p, c) \/ CancelJoin(p, c)
        PROVE  Books'
    BY <1>1, <2>1, <2>3, QuietSteps
  <2>4. ASSUME NEW p \in Tasks, Goes(p) PROVE Books'
    BY <1>1, <2>1, <2>2, <2>4, QuietSteps, AddedQuiet, FreesKeeps, MemberFreedKeeps, GroupFreedKeeps, CompleteKeeps,
       RetainKeeps, LetGoKeeps DEF Goes
  <2>5. ASSUME NEW p \in Tasks, Chooses(p) PROVE Books'
    BY <1>1, <2>1, <2>2, <2>3, <2>5, QuietSteps DEF Chooses
  <2>6. CASE Ends
    BY <1>1, <2>1, <2>6, EndCancelsQuiet, EndDetachedKeeps, EndReleasesKeeps, JoinsAssumption DEF Ends
  <2>7. CASE UNCHANGED vars
    <3>1. \A q \in Tasks : Members(q)' = Members(q) BY <2>7 DEF vars, groupVars, Members
    <3>2. \A d \in Tasks : (Freeing(d)' <=> Freeing(d)) /\ (Grouped(d)' <=> Grouped(d))
      BY <2>7, <3>1 DEF vars, Freeing, Grouped
    <3>3. UNCHANGED <<pc, on, owner, rc, freed, detached, DETACHED, todo, done, group, failed, members>>
      BY <2>7 DEF vars, countVars, endVars, groupVars, listVars
    <3>4. CountInv' /\ HandleInv' /\ LifeInv'
      BY <1>1, <3>2, <3>3 DEF Books, CountInv, HandleInv, LifeInv, HandleCount, HoldCount, TodoCount
    <3>5. OneInv' /\ DetachInv' /\ OnInv' /\ FreedInv' /\ MainInv'
      BY <1>1, <3>1, <3>3 DEF Books, OneInv, DetachInv, OnInv, On, FreedInv, MainInv
    <3>6. NamesInv' BY <1>1, <3>3, NamesKeep DEF Books
    <3> QED BY <3>4, <3>5, <3>6 DEF Books
  <2> QED BY <2>4, <2>5, <2>6, <2>7 DEF Next
<1> QED BY <1>2, <1>3, <1>4 DEF Inv

\* What is freed has no reference.
LEMMA UsesLiveHolds == ASSUME Inv PROVE UsesLive
<1>1. Types /\ WaitTypes /\ Books /\ WaitInv BY DEF Inv
<1>2. \A c \in Tasks : /\ HandleCount(c) \in {0, 1} /\ HoldCount(c) \in {0, 1} /\ TodoCount(c) \in {0, 1}
                       /\ rc[c] = HandleCount(c) + HoldCount(c) + TodoCount(c)
  BY <1>1 DEF HandleCount, HoldCount, TodoCount, Books, CountInv
<1>3. \A c \in freed : HandleCount(c) = 0 /\ HoldCount(c) = 0 /\ TodoCount(c) = 0
  <2>1. \A c \in freed : c \in Tasks /\ rc[c] = 0 BY <1>1 DEF Types, Books, LifeInv
  <2> QED BY <1>2, <2>1
<1>4. \A p \in Tasks : on[p] \notin freed
  <2> SUFFICES ASSUME NEW p \in Tasks, on[p] \in freed PROVE FALSE
    OBVIOUS
  <2>1. on[p] \in Tasks /\ On(p) /\ on[p] # None BY <1>1, NoneNot DEF Types, Books, OnInv
  <2>2. HandleCount(on[p]) = 0 /\ TodoCount(on[p]) = 0 BY <1>3
  <2>3. CASE pc[p] \in Owning BY <2>1, <2>2, <2>3, NoneNot DEF On, HandleCount
  <2>4. CASE pc[p] = "frees" BY <2>1, <2>2, <2>4 DEF HandleCount, Freeing
  <2>5. CASE pc[p] \in {"adds", "freesMember"} BY <2>1, <2>5 DEF On
  <2>6. CASE pc[p] = "cancels" BY <1>1, <2>1, <2>6 DEF On, Books, FreedInv
  <2>7. CASE pc[p] = "endWaits" BY <2>1, <2>2, <2>7 DEF On, TodoCount
  <2>8. CASE pc[p] \notin Working BY <2>1, <2>8 DEF On
  <2> QED BY <2>3, <2>4, <2>5, <2>6, <2>7, <2>8
<1>5. (DETACHED \cup todo \cup {c \in Tasks : owner[c] # None}) \cap freed = {}
  <2>1. \A c \in DETACHED : c \in Tasks /\ HoldCount(c) = 1 BY <1>1 DEF Types, Books, DetachInv, HoldCount
  <2>2. \A c \in todo : TodoCount(c) = 1 BY DEF TodoCount
  <2>3. \A c \in Tasks : owner[c] # None => HandleCount(c) = 1 BY DEF HandleCount
  <2> QED BY <1>3, <2>1, <2>2, <2>3
<1>6. \A c \in Tasks : pc[c] \in {"code", "parks", "waits", "completes", "retains", "letsGo"} => c \notin freed
  <2> SUFFICES ASSUME NEW c \in Tasks, c \in freed,
                      pc[c] \in {"code", "parks", "waits", "completes", "retains", "letsGo"}
               PROVE  FALSE
    OBVIOUS
  <2>1. pc[c] \in {"retains", "letsGo"} BY <1>1 DEF Books, LifeInv
  <2>2. HoldCount(c) = 1 BY <1>1, <2>1 DEF Books, DetachInv, HoldCount
  <2> QED BY <1>3, <2>2
<1>7. \A c \in Tasks : pc[c] # "off" /\ c \notin done /\ group[c] # None => c \in Members(group[c])
  BY <1>1 DEF Books, NamesInv
<1>8. \A c \in Tasks : \A p \in waiters[c] : pc[p] = "waits" /\ on[p] = c BY <1>1 DEF WaitInv
<1> QED BY <1>4, <1>5, <1>6, <1>7, <1>8 DEF UsesLive

\* No join is used after it was freed, however many tasks, groups and cancellations:
\* not by its owner, nor its task, nor a group, nor the end of `main`.
THEOREM UsesAreLive == Spec => []UsesLive
<1>1. Inv => UsesLive BY UsesLiveHolds
<1> QED BY InitInv, InvStep, <1>1, PTL DEF Spec

-----------------------------------------------------------------------------
(* Groups: what a group knows of its tasks. *)

\* The group has the join, and the join the group not yet.
Adds(p, c) == pc[p] = "adds" /\ on[p] = c
\* The tasks whose end a group will hear of.
Unheard(p) == {c \in Members(p) : c \notin done \/ Adds(p, c)}

GroupInv ==
  \A p, c \in Tasks :
    /\ c \in Members(p) \ done => group[c] = p \/ Adds(p, c)
    /\ Adds(p, c) \/ owner[c] # None \/ pc[c] = "unborn" => group[c] = None

FinishedInv ==
  \A p \in Tasks :
    /\ ToSet(finished[p]) \subseteq Members(p) \cap done
    /\ \A c \in Members(p) \cap done : c \in ToSet(finished[p]) \/ c \in got \/ Adds(p, c)
    /\ failed[p] # None => failed[p] \in done

RunningInv == \A p \in Tasks : running[p] = Cardinality(Unheard(p))

Results == {None, "join", "given", "lost", "released"}
MoreTypes ==
  /\ finished \in [Tasks -> Seq(Tasks)] /\ running \in [Tasks -> Int]
  /\ got \subseteq Tasks /\ taken \subseteq Tasks /\ cancelled \subseteq Tasks
  /\ result \in [Tasks -> Results]

Groups == GroupInv /\ FinishedInv /\ RunningInv

LEMMA InitGroups == Init => MoreTypes /\ Groups
<1> SUFFICES ASSUME Init PROVE MoreTypes /\ Groups
  OBVIOUS
<1>1. /\ pc = [t \in Tasks |-> IF t = MainTask THEN "code" ELSE "unborn"]
      /\ on = [t \in Tasks |-> None] /\ group = on /\ failed = on /\ result = on
      /\ members = [t \in Tasks |-> <<>>] /\ finished = members /\ running = [t \in Tasks |-> 0]
      /\ done = {} /\ taken = {} /\ got = {} /\ cancelled = {}
  BY DEF Init
<1>2. <<>> \in Seq(Tasks) /\ ToSet(<<>>) = {} BY DEF ToSet
<1>3. \A p \in Tasks : Members(p) = {} /\ ToSet(finished[p]) = {} BY <1>1, <1>2 DEF Members
<1>4. MoreTypes BY <1>1, <1>2 DEF MoreTypes, Results
<1>5. GroupInv BY <1>1, <1>3 DEF GroupInv, Adds
<1>6. FinishedInv BY <1>1, <1>3 DEF FinishedInv
<1>7. RunningInv
  <2>1. \A p \in Tasks : Unheard(p) = {} BY <1>3 DEF Unheard
  <2> QED BY <1>1, <2>1, FS_EmptySet DEF RunningInv
<1> QED BY <1>4, <1>5, <1>6, <1>7 DEF Groups

LEMMA UnheardFinite == ASSUME Types, NEW p \in Tasks PROVE IsFiniteSet(Unheard(p))
<1>1. Unheard(p) \subseteq Tasks BY Grouping DEF Unheard
<1> QED BY <1>1, JoinsAssumption, FS_Subset

\* Steps that neither change a group nor end a task.
Calm(p) ==
  /\ UNCHANGED <<members, done, group, finished, running, failed>>
  /\ got \subseteq got'
  /\ \A c \in Tasks : owner'[c] # None => owner[c] # None
  /\ \A q \in Tasks \ {p} : pc'[q] = pc[q] /\ on'[q] = on[q]
  /\ pc[p] \notin {"adds", "unborn"} /\ pc'[p] \notin {"adds", "unborn"}

LEMMA CalmKeeps == ASSUME Groups, NEW p \in Tasks, Calm(p) PROVE Groups'
<1>1. \A q \in Tasks : Members(q)' = Members(q) /\ ToSet(finished'[q]) = ToSet(finished[q])
  BY DEF Calm, Members
<1>2. \A q, c \in Tasks : (Adds(q, c)' <=> Adds(q, c)) /\ (pc'[q] = "unborn" <=> pc[q] = "unborn")
  BY DEF Calm, Adds
<1>3. ASSUME NEW q \in Tasks PROVE Unheard(q)' = Unheard(q)
  <2>1. done' = done BY DEF Calm
  <2>2. \A c : Adds(q, c)' <=> Adds(q, c) BY DEF Calm, Adds
  <2> QED BY <1>1, <2>1, <2>2 DEF Unheard
<1>4. GroupInv'
  <2>1. \A q, c \in Tasks : c \in Members(q)' \ done' => group'[c] = q \/ Adds(q, c)'
    BY <1>1, <1>2 DEF Calm, Groups, GroupInv
  <2>2. \A q, c \in Tasks : Adds(q, c)' \/ owner'[c] # None \/ pc'[c] = "unborn" => group'[c] = None
    BY <1>2 DEF Calm, Groups, GroupInv
  <2> QED BY <2>1, <2>2 DEF GroupInv
<1>5. FinishedInv'
  <2>1. \A q \in Tasks : \A c : Adds(q, c)' <=> Adds(q, c) BY DEF Calm, Adds
  <2> QED BY <1>1, <2>1 DEF Calm, Groups, FinishedInv
<1>6. RunningInv' BY <1>3 DEF Calm, Groups, RunningInv
<1> QED BY <1>4, <1>5, <1>6 DEF Groups

LEMMA CalmSteps ==
  ASSUME Types, Books, NEW p \in Tasks,
         \/ Park(p) \/ Unpark(p) \/ CancelClaims(p) \/ WaitEnds(p) \/ WaitStops(p) \/ Finish(p) \/ End(p)
         \/ Frees(p) \/ Asks(p, "nexts") \/ Asks(p, "settles") \/ Asks(p, "cancels") \/ Asks(p, "releasesGroup")
         \/ Unblocks(p, "nextWaits", "nexts") \/ Unblocks(p, "settleWaits", "settles")
         \/ NextEnds(p) \/ NextBlocks(p) \/ SettleFails(p) \/ SettleEnds(p) \/ SettleBlocks(p) \/ Takes(p)
         \/ CancelMember(p) \/ GroupCancelled(p) \/ FreeMember(p) \/ MemberFreed(p) \/ Retain(p) \/ LetGo(p)
         \/ \E c \in Tasks : Take(p, c) \/ Wait(p, c) \/ CancelJoin(p, c) \/ Detach(p, c) \/ Release(p, c)
  PROVE  Calm(p)
<1> USE DEF At, Code, Works, waitVars, countVars, endVars, groupVars, listVars, Calm
<1>0. pc \in [Tasks -> Pcs] /\ on \in [Tasks -> Tasks \cup {None}]
      /\ owner \in [Tasks -> Tasks \cup {None}]
  BY DEF Types
<1>1. CASE Park(p) \/ Unpark(p) \/ CancelClaims(p) \/ Finish(p) \/ End(p)
  BY <1>0, <1>1 DEF Park, Unpark, CancelClaims, Finish, End
<1>2. CASE WaitEnds(p) \/ WaitStops(p) \/ Frees(p)
  BY <1>0, <1>2 DEF WaitEnds, WaitStops, Frees, Give
<1>3. CASE \/ Asks(p, "nexts") \/ Asks(p, "settles") \/ Asks(p, "cancels") \/ Asks(p, "releasesGroup")
           \/ Unblocks(p, "nextWaits", "nexts") \/ Unblocks(p, "settleWaits", "settles")
  BY <1>0, <1>3 DEF Asks, Unblocks
<1>4. CASE NextEnds(p) \/ NextBlocks(p) \/ SettleFails(p) \/ SettleEnds(p) \/ SettleBlocks(p)
  BY <1>0, <1>4 DEF NextEnds, NextBlocks, SettleFails, SettleEnds, SettleBlocks, Blocks
<1>5. CASE Takes(p) \/ CancelMember(p) \/ GroupCancelled(p)
  BY <1>0, <1>5 DEF Takes, CancelMember, GroupCancelled
<1>6. CASE FreeMember(p)
  <2>1. PICK c \in Members(p) \ freed : on' = [on EXCEPT ![p] = c] BY <1>6, FreesOne
  <2> QED BY <1>0, <1>6, <2>1 DEF FreeMember
<1>7. CASE MemberFreed(p) \/ Retain(p) \/ LetGo(p)
  BY <1>0, <1>7 DEF MemberFreed, Retain, LetGo
<1>8. CASE \E c \in Tasks : Take(p, c) \/ Wait(p, c) \/ CancelJoin(p, c)
  BY <1>0, <1>8 DEF Take, Wait, CancelJoin
<1>9. CASE \E c \in Tasks : Detach(p, c) \/ Release(p, c)
  BY <1>0, <1>9 DEF Detach, Release
<1> QED BY <1>1, <1>2, <1>3, <1>4, <1>5, <1>6, <1>7, <1>8, <1>9

LEMMA MainCalm ==
  ASSUME Types, EndDetached \/ EndReleases \/ \E c \in Tasks : EndCancels(c)
  PROVE  Calm(MainTask)
<1>1. pc \in [Tasks -> Pcs] /\ on \in [Tasks -> Tasks \cup {None}] BY DEF Types
<1> QED BY <1>1, JoinsAssumption
  DEF EndDetached, EndReleases, EndCancels, At, Works, Calm, waitVars, countVars, endVars, groupVars, listVars

LEMMA SpawnGroups ==
  ASSUME Types, Books, Groups, NEW p \in Tasks, NEW c \in Tasks, Spawn(p, c)
  PROVE  Groups'
<1> USE NoneNot DEF waitVars, countVars, endVars, groupVars, listVars
<1>0. pc \in [Tasks -> Pcs] /\ owner \in [Tasks -> Tasks \cup {None}] BY DEF Types
<1>1. /\ pc[c] = "unborn" /\ pc' = [pc EXCEPT ![c] = "code"] /\ owner' = [owner EXCEPT ![c] = p]
      /\ UNCHANGED <<on, members, done, group, finished, running, failed, got>>
  BY DEF Spawn
<1>2. \A q \in Tasks : Members(q)' = Members(q) /\ ToSet(finished'[q]) = ToSet(finished[q])
  BY <1>1 DEF Members
<1>3. \A q \in Tasks : \A d : Adds(q, d)' <=> Adds(q, d) BY <1>0, <1>1 DEF Adds
<1>4. \A q \in Tasks : Unheard(q)' = Unheard(q) BY <1>1, <1>2, <1>3 DEF Unheard
<1>5. GroupInv'
  <2>1. \A q, d \in Tasks : d \in Members(q)' \ done' => group'[d] = q \/ Adds(q, d)'
    BY <1>1, <1>2, <1>3 DEF Groups, GroupInv
  <2>2. group[c] = None BY <1>1 DEF Groups, GroupInv
  <2>3. \A q, d \in Tasks : Adds(q, d)' \/ owner'[d] # None \/ pc'[d] = "unborn" => group'[d] = None
    BY <1>0, <1>1, <1>3, <2>2 DEF Groups, GroupInv
  <2> QED BY <2>1, <2>3 DEF GroupInv
<1>6. FinishedInv' BY <1>1, <1>2, <1>3 DEF Groups, FinishedInv
<1>7. RunningInv' BY <1>1, <1>4 DEF Groups, RunningInv
<1> QED BY <1>5, <1>6, <1>7 DEF Groups

\* The first that finished and was not taken.
LEMMA LeftHolds ==
  ASSUME MoreTypes, NEW p \in Tasks
  PROVE  /\ Left(p) = 0 => ToSet(finished[p]) \subseteq got
         /\ Left(p) # 0 =>
              LET c == finished[p][Left(p)]
                  rest == SubSeq(finished[p], Left(p) + 1, Len(finished[p]))
              IN /\ c \in Tasks /\ c \notin got /\ c \in ToSet(finished[p])
                 /\ rest \in Seq(Tasks) /\ ToSet(rest) \subseteq ToSet(finished[p])
                 /\ ToSet(finished[p]) \subseteq got \cup {c} \cup ToSet(rest)
<1> DEFINE s == finished[p]
           I == {i \in 1..Len(s) : s[i] \notin got}
<1>1. s \in Seq(Tasks) /\ Len(s) \in Nat /\ DOMAIN s = 1..Len(s) BY LenProperties DEF MoreTypes
<1>2. Left(p) = IF I # {} THEN Min(I) ELSE 0 BY DEF Left, SelectInSeq
<1>3. ToSet(s) = {s[i] : i \in 1..Len(s)} BY <1>1 DEF ToSet
<1>4. CASE I = {}
  <2>1. \A i \in 1..Len(s) : s[i] \in got BY <1>4
  <2> QED BY <1>2, <1>3, <1>4, <2>1
<1>5. CASE I # {}
  <2> DEFINE k == Min(I)
             rest == SubSeq(s, k + 1, Len(s))
  <2>1. I \subseteq Nat BY <1>1
  <2>2. k \in I /\ \A i \in I : k <= i BY <1>5, <2>1, Least
  <2> HIDE DEF k
  <2>3. k \in 1..Len(s) /\ s[k] \notin got BY <2>2
  <2>4. s[k] \in Tasks BY <1>1, <2>3, ElementOfSeq
  <2>5. k \in 0..Len(s) BY <1>1, <2>3
  <2>6. rest \in Seq(Tasks) /\ ToSet(rest) = {s[i] : i \in k + 1 .. Len(s)} BY <1>1, <2>5, RestHolds
  <2>7. ToSet(rest) \subseteq ToSet(s)
    <3>1. \A i \in k + 1 .. Len(s) : i \in 1..Len(s) BY <1>1, <2>3
    <3> QED BY <1>3, <2>6, <3>1
  <2>8. \A i \in 1..Len(s) : s[i] \in got \cup {s[k]} \cup ToSet(rest)
    <3> SUFFICES ASSUME NEW i \in 1..Len(s), s[i] \notin got, i # k PROVE s[i] \in ToSet(rest)
      OBVIOUS
    <3>1. k <= i BY <2>2
    <3>2. i \in k + 1 .. Len(s) BY <1>1, <2>3, <3>1
    <3> QED BY <2>6, <3>2
  <2>9. Left(p) = k BY <1>2, <1>5 DEF k
  <2> QED BY <1>3, <2>3, <2>4, <2>6, <2>7, <2>8, <2>9
<1> QED BY <1>4, <1>5

LEMMA NextGivesGroups ==
  ASSUME Types, MoreTypes, Groups, NEW p \in Tasks, NextGives(p)
  PROVE  Groups'
<1> USE NoneNot DEF At, waitVars, countVars, endVars, groupVars, listVars
<1> DEFINE c == finished[p][Left(p)]
           rest == SubSeq(finished[p], Left(p) + 1, Len(finished[p]))
<1>0. pc \in [Tasks -> Pcs] /\ finished \in [Tasks -> Seq(Tasks)] BY DEF Types, MoreTypes
<1>1. /\ pc[p] = "nexts" /\ pc' = [pc EXCEPT ![p] = "code"] /\ Left(p) # 0 /\ got' = got \cup {c}
      /\ finished' = [finished EXCEPT ![p] = rest]
      /\ UNCHANGED <<on, owner, members, done, group, running, failed>>
  BY DEF NextGives
<1>2. /\ ToSet(rest) \subseteq ToSet(finished[p])
      /\ ToSet(finished[p]) \subseteq got' \cup ToSet(rest)
  BY <1>1, LeftHolds
<1> HIDE DEF c, rest
<1>3. \A q \in Tasks : Members(q)' = Members(q) BY <1>1 DEF Members
<1>4. \A q \in Tasks : \A d : Adds(q, d)' <=> Adds(q, d) BY <1>0, <1>1 DEF Adds
<1>5. \A q \in Tasks : Unheard(q)' = Unheard(q) BY <1>1, <1>3, <1>4 DEF Unheard
<1>6. GroupInv'
  <2>1. \A d \in Tasks : pc'[d] = "unborn" <=> pc[d] = "unborn" BY <1>0, <1>1
  <2> QED BY <1>1, <1>3, <1>4, <2>1 DEF Groups, GroupInv
<1>7. FinishedInv'
  <2>1. \A q \in Tasks : /\ ToSet(finished'[q]) \subseteq ToSet(finished[q])
                         /\ ToSet(finished[q]) \subseteq ToSet(finished'[q]) \cup got'
    BY <1>0, <1>1, <1>2
  <2>2. got \subseteq got' BY <1>1
  <2> QED BY <1>1, <1>3, <1>4, <2>1, <2>2 DEF Groups, FinishedInv
<1>8. RunningInv' BY <1>1, <1>5 DEF Groups, RunningInv
<1> QED BY <1>6, <1>7, <1>8 DEF Groups

LEMMA GroupFreedGroups ==
  ASSUME Types, Books, MoreTypes, Groups, NEW p \in Tasks, GroupFreed(p)
  PROVE  Groups'
<1> USE NoneNot DEF At, waitVars, countVars, endVars, groupVars, listVars
<1>0. pc \in [Tasks -> Pcs] /\ members \in [Tasks -> Seq(Tasks)] /\ finished \in [Tasks -> Seq(Tasks)]
      /\ failed \in [Tasks -> Tasks \cup {None}]
  BY DEF Types, MoreTypes
<1>1. /\ pc[p] = "releasesGroup" /\ pc' = [pc EXCEPT ![p] = "code"] /\ Members(p) \subseteq freed
      /\ members' = [members EXCEPT ![p] = <<>>] /\ finished' = [finished EXCEPT ![p] = <<>>]
      /\ failed' = [failed EXCEPT ![p] = None]
      /\ UNCHANGED <<on, owner, done, group, running, got>>
  BY DEF GroupFreed
<1>2. Members(p) \subseteq done BY <1>1, Grouping DEF Books, LifeInv
<1>3. \A q \in Tasks : Members(q)' = IF q = p THEN {} ELSE Members(q) BY <1>0, <1>1 DEF Members, ToSet
<1>4. \A q \in Tasks : ToSet(finished'[q]) = IF q = p THEN {} ELSE ToSet(finished[q])
  BY <1>0, <1>1 DEF ToSet
<1>5. \A q \in Tasks : \A d : Adds(q, d)' <=> Adds(q, d) BY <1>0, <1>1 DEF Adds
<1>6. \A q \in Tasks : Unheard(q)' = Unheard(q)
  <2>1. \A d : ~Adds(p, d) BY <1>1 DEF Adds
  <2>2. Unheard(p) = {} BY <1>2, <2>1 DEF Unheard
  <2>3. Unheard(p)' = {} BY <1>3 DEF Unheard
  <2>4. \A q \in Tasks \ {p} : Unheard(q)' = Unheard(q) BY <1>1, <1>3, <1>5 DEF Unheard
  <2> QED BY <2>2, <2>3, <2>4
<1>7. GroupInv'
  <2>1. \A d \in Tasks : pc'[d] = "unborn" <=> pc[d] = "unborn" BY <1>0, <1>1
  <2> QED BY <1>1, <1>3, <1>5, <2>1 DEF Groups, GroupInv
<1>8. FinishedInv'
  <2>1. \A q \in Tasks : failed'[q] # None => failed[q] # None /\ failed'[q] = failed[q] BY <1>0, <1>1
  <2> QED BY <1>1, <1>3, <1>4, <1>5, <2>1 DEF Groups, FinishedInv
<1>9. RunningInv' BY <1>1, <1>6 DEF Groups, RunningInv
<1> QED BY <1>7, <1>8, <1>9 DEF Groups

LEMMA AddGroups ==
  ASSUME Types, Books, MoreTypes, Groups, NEW p \in Tasks, NEW c \in Tasks, Add(p, c)
  PROVE  Groups'
<1> USE NoneNot DEF At, Code, Works, waitVars, countVars, endVars, groupVars, listVars
<1>0. pc \in [Tasks -> Pcs] /\ on \in [Tasks -> Tasks \cup {None}] /\ owner \in [Tasks -> Tasks \cup {None}]
      /\ members \in [Tasks -> Seq(Tasks)] /\ running \in [Tasks -> Int]
  BY DEF Types, MoreTypes
<1>1. /\ pc[p] = "code" /\ pc' = [pc EXCEPT ![p] = "adds"] /\ on' = [on EXCEPT ![p] = c]
      /\ owner[c] = p /\ owner' = [owner EXCEPT ![c] = None]
      /\ members' = [members EXCEPT ![p] = Append(@, c)] /\ running' = [running EXCEPT ![p] = @ + 1]
      /\ UNCHANGED <<done, group, finished, failed, got>>
  BY DEF Add, Mine
<1>2. \A q \in Tasks : Members(q)' = IF q = p THEN Members(p) \cup {c} ELSE Members(q)
  <2>1. ToSet(Append(members[p], c)) = ToSet(members[p]) \cup {c} BY <1>0, AppendHolds
  <2> QED BY <1>0, <1>1, <2>1 DEF Members
<1>3. c \notin Members(p) /\ group[c] = None /\ pc[c] # "unborn"
  BY <1>1 DEF Books, HandleInv, LifeInv, Grouped, Groups, GroupInv
<1>4. \A q \in Tasks : \A d : Adds(q, d)' <=> Adds(q, d) \/ (q = p /\ d = c)
  BY <1>0, <1>1 DEF Adds
<1>5. Unheard(p)' = Unheard(p) \cup {c} /\ c \notin Unheard(p)
  BY <1>1, <1>2, <1>3, <1>4 DEF Unheard
<1>6. \A q \in Tasks \ {p} : Unheard(q)' = Unheard(q) BY <1>1, <1>2, <1>4 DEF Unheard
<1>7. GroupInv'
  <2>1. \A d \in Tasks : pc'[d] = "unborn" => pc[d] = "unborn" BY <1>0, <1>1
  <2>2. \A d \in Tasks : owner'[d] # None => owner[d] # None BY <1>0, <1>1
  <2>3. \A q, d \in Tasks : d \in Members(q)' \ done' => group'[d] = q \/ Adds(q, d)'
    BY <1>1, <1>2, <1>4 DEF Groups, GroupInv
  <2>4. \A q, d \in Tasks : Adds(q, d)' \/ owner'[d] # None \/ pc'[d] = "unborn" => group'[d] = None
    BY <1>1, <1>3, <1>4, <2>1, <2>2 DEF Groups, GroupInv
  <2> QED BY <2>3, <2>4 DEF GroupInv
<1>8. FinishedInv' BY <1>1, <1>2, <1>4 DEF Groups, FinishedInv
<1>9. RunningInv'
  <2>1. IsFiniteSet(Unheard(p)) BY UnheardFinite
  <2>2. Cardinality(Unheard(p) \cup {c}) = Cardinality(Unheard(p)) + 1 BY <1>5, <2>1, FS_AddElement
  <2>3. running'[p] = Cardinality(Unheard(p)') BY <1>0, <1>1, <1>5, <2>2 DEF Groups, RunningInv
  <2>4. \A q \in Tasks \ {p} : running'[q] = Cardinality(Unheard(q)')
    BY <1>0, <1>1, <1>6 DEF Groups, RunningInv
  <2> QED BY <2>3, <2>4 DEF RunningInv
<1> QED BY <1>7, <1>8, <1>9 DEF Groups

\* A group hears of c: c is among those that finished, and one less is missing.
LEMMA CompletedHeard ==
  ASSUME Types, MoreTypes, NEW g \in Tasks, NEW c \in Tasks, GroupCompleted(g, c)
  PROVE  /\ finished' \in [Tasks -> Seq(Tasks)] /\ running' \in [Tasks -> Int]
         /\ \A q \in Tasks :
              /\ ToSet(finished'[q]) = IF q = g THEN ToSet(finished[g]) \cup {c} ELSE ToSet(finished[q])
              /\ running'[q] = IF q = g THEN running[g] - 1 ELSE running[q]
              /\ failed'[q] \in {failed[q], c}
<1>0. finished \in [Tasks -> Seq(Tasks)] /\ running \in [Tasks -> Int] /\ failed \in [Tasks -> Tasks \cup {None}]
  BY DEF Types, MoreTypes
<1>1. /\ finished' = [finished EXCEPT ![g] = Append(finished[g], c)]
      /\ running' = [running EXCEPT ![g] = running[g] - 1]
      /\ failed' = [failed EXCEPT ![g] = IF c \in Fails /\ failed[g] = None THEN c ELSE failed[g]]
  BY DEF GroupCompleted
<1>2. Append(finished[g], c) \in Seq(Tasks) /\ ToSet(Append(finished[g], c)) = ToSet(finished[g]) \cup {c}
  BY <1>0, AppendHolds
<1>3. finished' \in [Tasks -> Seq(Tasks)] /\ running' \in [Tasks -> Int] BY <1>0, <1>1, <1>2
<1>4. \A q \in Tasks : ToSet(finished'[q]) = IF q = g THEN ToSet(finished[g]) \cup {c} ELSE ToSet(finished[q])
  BY <1>0, <1>1, <1>2
<1>5. \A q \in Tasks : running'[q] = IF q = g THEN running[g] - 1 ELSE running[q] BY <1>0, <1>1
<1>6. \A q \in Tasks : failed'[q] \in {failed[q], c} BY <1>0, <1>1
<1> QED BY <1>3, <1>4, <1>5, <1>6

LEMMA AddedGroups ==
  ASSUME Types, Books, MoreTypes, Groups, NEW p \in Tasks, Added(p)
  PROVE  Groups'
<1> USE NoneNot DEF At, Works, waitVars, countVars, endVars, groupVars, listVars
<1> DEFINE c == on[p]
<1>0. pc \in [Tasks -> Pcs] /\ on \in [Tasks -> Tasks \cup {None}] /\ group \in [Tasks -> Tasks \cup {None}]
      /\ running \in [Tasks -> Int]
  BY DEF Types, MoreTypes
<1>1. /\ pc[p] = "adds" /\ pc' = [pc EXCEPT ![p] = "code"] /\ on' = [on EXCEPT ![p] = None]
      /\ UNCHANGED <<members, done, owner, got>>
  BY DEF Added
<1>2. \A q \in Tasks : Members(q)' = Members(q) BY <1>1 DEF Members
<1>3. c \in Members(p) /\ c \in Tasks /\ Adds(p, c)
  BY <1>0, <1>1, Grouping DEF Books, OnInv, On, Adds
<1>4. \A q \in Tasks : \A d \in Tasks : Adds(q, d)' <=> Adds(q, d) /\ q # p
  BY <1>0, <1>1 DEF Adds
<1>5. \A d \in Tasks : Adds(p, d) <=> d = c BY <1>1 DEF Adds
<1>6. group[c] = None /\ owner[c] = None /\ pc[c] # "unborn"
  <2>1. Grouped(c) BY <1>3 DEF Grouped
  <2> QED BY <1>3, <2>1 DEF Books, HandleInv, LifeInv, Groups, GroupInv
<1>7. \A d \in Tasks : pc'[d] = "unborn" <=> pc[d] = "unborn" BY <1>0, <1>1
<1>8. \A q \in Tasks \ {p} : Unheard(q)' = Unheard(q)
  <2>1. \A q \in Tasks : Members(q) \subseteq Tasks BY Grouping
  <2> QED BY <1>1, <1>2, <1>4, <2>1 DEF Unheard
<1>9. Members(p) \subseteq Tasks BY Grouping
<1>10. CASE c \in done
  <2>1. GroupCompleted(p, c) /\ group' = group BY <1>10 DEF Added
  <2>2. \A q \in Tasks :
          /\ ToSet(finished'[q]) = IF q = p THEN ToSet(finished[p]) \cup {c} ELSE ToSet(finished[q])
          /\ running'[q] = IF q = p THEN running[p] - 1 ELSE running[q]
          /\ failed'[q] \in {failed[q], c}
    <3>1. c \in Tasks BY <1>3
    <3> HIDE DEF c
    <3> QED BY <2>1, <3>1, CompletedHeard
  <2>3. GroupInv'
    <3>1. \A q, d \in Tasks : d \in Members(q) \ done => d # c BY <1>10
    <3> QED BY <1>1, <1>2, <1>4, <1>5, <1>7, <2>1, <3>1 DEF Groups, GroupInv
  <2>4. FinishedInv'
    <3>1. \A q \in Tasks :
            /\ ToSet(finished'[q]) = IF q = p THEN ToSet(finished[p]) \cup {c} ELSE ToSet(finished[q])
            /\ failed'[q] \in {failed[q], c}
      BY <2>2
    <3>2. \A q \in Tasks : failed'[q] # None => failed'[q] \in done'
      BY <1>1, <1>10, <3>1 DEF Groups, FinishedInv
    <3>3. \A q \in Tasks : ToSet(finished'[q]) \subseteq Members(q)' \cap done'
      BY <1>1, <1>2, <1>3, <1>10, <3>1 DEF Groups, FinishedInv
    <3>4. \A q \in Tasks : \A d \in Members(q)' \cap done' :
            d \in ToSet(finished'[q]) \/ d \in got' \/ Adds(q, d)'
      <4> SUFFICES ASSUME NEW q \in Tasks, NEW d \in Members(q) \cap done
                   PROVE  d \in ToSet(finished'[q]) \/ d \in got \/ Adds(q, d)'
        BY <1>1, <1>2
      <4>1. d \in Tasks BY Grouping
      <4>2. d \in ToSet(finished[q]) \/ d \in got \/ Adds(q, d) BY DEF Groups, FinishedInv
      <4> QED BY <1>4, <1>5, <3>1, <4>1, <4>2
    <3> QED BY <3>2, <3>3, <3>4 DEF FinishedInv
  <2>5. RunningInv'
    <3>1. Unheard(p)' = Unheard(p) \ {c} /\ c \in Unheard(p)
      BY <1>1, <1>2, <1>3, <1>4, <1>5, <1>9, <1>10 DEF Unheard
    <3>2. IsFiniteSet(Unheard(p)) BY UnheardFinite
    <3>3. Cardinality(Unheard(p) \ {c}) = Cardinality(Unheard(p)) - 1 BY <3>1, <3>2, FS_RemoveElement
    <3>4. \A q \in Tasks : running'[q] = IF q = p THEN running[p] - 1 ELSE running[q]
      BY <2>2
    <3> QED BY <1>8, <3>1, <3>3, <3>4 DEF Groups, RunningInv
  <2> QED BY <2>3, <2>4, <2>5 DEF Groups
<1>11. CASE c \notin done
  <2>1. group' = [group EXCEPT ![c] = p] /\ UNCHANGED <<finished, running, failed>> BY <1>11 DEF Added
  <2>2. GroupInv'
    <3>1. \A q \in Tasks : c \in Members(q) => q = p BY <1>3 DEF Books, OneInv
    <3>2. \A q \in Tasks \ {p} : ~Adds(q, c)
      BY <1>3, <3>1 DEF Adds, Books, OnInv, On
    <3>3. \A q, d \in Tasks : d \in Members(q)' \ done' => group'[d] = q \/ Adds(q, d)'
      BY <1>0, <1>1, <1>2, <1>3, <1>4, <1>5, <2>1, <3>1 DEF Groups, GroupInv
    <3>4. \A q, d \in Tasks : Adds(q, d)' \/ owner'[d] # None \/ pc'[d] = "unborn" => group'[d] = None
      BY <1>0, <1>1, <1>3, <1>4, <1>6, <1>7, <2>1, <3>2 DEF Groups, GroupInv
    <3> QED BY <3>3, <3>4 DEF GroupInv
  <2>3. FinishedInv'
    <3>1. \A q \in Tasks : \A d \in Members(q) \cap done : d \in Tasks /\ (Adds(q, d) => q # p)
      BY <1>5, <1>11, Grouping
    <3>2. \A q \in Tasks : \A d \in Members(q)' \cap done' :
            d \in ToSet(finished'[q]) \/ d \in got' \/ Adds(q, d)'
      BY <1>1, <1>2, <1>4, <2>1, <3>1 DEF Groups, FinishedInv
    <3> QED BY <1>1, <1>2, <2>1, <3>2 DEF Groups, FinishedInv
  <2>4. RunningInv'
    <3>1. Unheard(p)' = Unheard(p)
      BY <1>1, <1>2, <1>4, <1>5, <1>9, <1>11 DEF Unheard
    <3> QED BY <1>8, <2>1, <3>1 DEF Groups, RunningInv
  <2> QED BY <2>2, <2>3, <2>4 DEF Groups
<1> QED BY <1>10, <1>11

LEMMA CompleteGroups ==
  ASSUME Types, Books, MoreTypes, Groups, NEW p \in Tasks, Complete(p)
  PROVE  Groups'
<1> USE NoneNot DEF At, waitVars, countVars, endVars, groupVars, listVars
<1> DEFINE g == group[p]
<1>0. pc \in [Tasks -> Pcs] /\ on \in [Tasks -> Tasks \cup {None}] /\ group \in [Tasks -> Tasks \cup {None}]
  BY DEF Types
<1>1. /\ pc[p] = "completes" /\ pc' = [pc EXCEPT ![p] = IF p \in detached THEN "retains" ELSE "off"]
      /\ done' = done \cup {p} /\ UNCHANGED <<on, owner, members, group, got>>
  BY DEF Complete
<1>2. \A q \in Tasks : Members(q)' = Members(q) BY <1>1 DEF Members
<1>3. \A q \in Tasks : \A d : Adds(q, d)' <=> Adds(q, d) BY <1>0, <1>1 DEF Adds
<1>4. p \notin done BY <1>1 DEF Books, LifeInv
<1>5. \A q \in Tasks : p \in Members(q) => q = g \/ Adds(q, p) BY <1>4 DEF Groups, GroupInv
<1>6. GroupInv'
  <2>1. \A d \in Tasks : pc'[d] = "unborn" <=> pc[d] = "unborn" BY <1>0, <1>1
  <2> QED BY <1>1, <1>2, <1>3, <2>1 DEF Groups, GroupInv
<1>7. CASE g = None
  <2>1. UNCHANGED <<finished, running, failed>> BY <1>7 DEF Complete
  <2>2. \A q \in Tasks : p \in Members(q) => Adds(q, p) BY <1>5, <1>7
  <2>3. \A q \in Tasks : Unheard(q)' = Unheard(q) BY <1>1, <1>2, <1>3, <2>2 DEF Unheard
  <2>4. RunningInv' BY <2>1, <2>3 DEF Groups, RunningInv
  <2>5. FinishedInv'
    <3>1. \A q \in Tasks : \A d \in Members(q)' \cap done' :
            d \in ToSet(finished'[q]) \/ d \in got' \/ Adds(q, d)'
      BY <1>1, <1>2, <1>3, <2>1, <2>2 DEF Groups, FinishedInv
    <3> QED BY <1>1, <1>2, <2>1, <3>1 DEF Groups, FinishedInv
  <2> QED BY <1>6, <2>4, <2>5 DEF Groups
<1>8. CASE g # None
  <2>0. PICK h \in Tasks : h = g BY <1>0, <1>8
  <2>1. p \in Members(h) BY <1>4, <1>8, <2>0 DEF Books, NamesInv
  <2>2. ~Adds(h, p) BY <1>8, <2>0 DEF Groups, GroupInv
  <2>3. GroupCompleted(h, p) BY <1>8, <2>0 DEF Complete
  <2>4. \A q \in Tasks :
          /\ ToSet(finished'[q]) = IF q = h THEN ToSet(finished[h]) \cup {p} ELSE ToSet(finished[q])
          /\ running'[q] = IF q = h THEN running[h] - 1 ELSE running[q]
          /\ failed'[q] \in {failed[q], p}
    BY <2>1, <2>3, CompletedHeard
  <2>5. FinishedInv'
    <3>1. \A q \in Tasks : failed'[q] # None => failed'[q] \in done'
      BY <1>1, <2>4 DEF Groups, FinishedInv
    <3>2. \A q \in Tasks : ToSet(finished'[q]) \subseteq Members(q)' \cap done'
      BY <1>1, <1>2, <2>1, <2>4 DEF Groups, FinishedInv
    <3>3. \A q \in Tasks : \A d \in Members(q)' \cap done' :
            d \in ToSet(finished'[q]) \/ d \in got' \/ Adds(q, d)'
      <4> SUFFICES ASSUME NEW q \in Tasks, NEW d \in Members(q), d \in done \cup {p}
                   PROVE  d \in ToSet(finished'[q]) \/ d \in got \/ Adds(q, d)
        BY <1>1, <1>2, <1>3
      <4>1. CASE d = p BY <1>5, <2>0, <2>4, <4>1
      <4>2. CASE d # p
        <5>1. d \in ToSet(finished[q]) \/ d \in got \/ Adds(q, d) BY <4>2 DEF Groups, FinishedInv
        <5> QED BY <2>4, <5>1
      <4> QED BY <4>1, <4>2
    <3> QED BY <3>1, <3>2, <3>3 DEF FinishedInv
  <2>6. RunningInv'
    <3>1. Unheard(h)' = Unheard(h) \ {p} /\ p \in Unheard(h)
      BY <1>1, <1>2, <1>3, <1>4, <2>1, <2>2 DEF Unheard
    <3>2. IsFiniteSet(Unheard(h)) BY UnheardFinite
    <3>3. Cardinality(Unheard(h) \ {p}) = Cardinality(Unheard(h)) - 1 BY <3>1, <3>2, FS_RemoveElement
    <3>4. \A q \in Tasks \ {h} : Unheard(q)' = Unheard(q)
      BY <1>1, <1>2, <1>3, <1>5, <2>0 DEF Unheard
    <3> QED BY <2>4, <3>1, <3>3, <3>4 DEF Groups, RunningInv
  <2> QED BY <1>6, <2>5, <2>6 DEF Groups
<1> QED BY <1>7, <1>8

LEMMA MoreTypesStep == ASSUME Types, WaitTypes, Books, MoreTypes, [Next]_vars PROVE MoreTypes'
<1> USE DEF At, Code, waitVars, countVars, endVars, groupVars, listVars
<1>0. /\ finished \in [Tasks -> Seq(Tasks)] /\ running \in [Tasks -> Int] /\ got \subseteq Tasks
      /\ taken \subseteq Tasks /\ cancelled \subseteq Tasks /\ result \in [Tasks -> Results]
  BY DEF MoreTypes
<1>1. \A c \in Tasks : [result EXCEPT ![c] = "join"] \in [Tasks -> Results]
                       /\ [result EXCEPT ![c] = "given"] \in [Tasks -> Results]
                       /\ [result EXCEPT ![c] = "lost"] \in [Tasks -> Results]
                       /\ [result EXCEPT ![c] = "released"] \in [Tasks -> Results]
  BY <1>0 DEF Results
<1>2. ASSUME NEW p \in Tasks, NEW c \in Tasks,
             \/ Spawn(p, c) \/ Take(p, c) \/ Wait(p, c) \/ CancelJoin(p, c) \/ Detach(p, c) \/ Release(p, c)
      PROVE  MoreTypes'
  <2>1. cancelled' \subseteq Tasks
    BY <1>0, <1>2 DEF Spawn, Take, Wait, CancelJoin, Detach, Release, Cancel, CancelToo
  <2>2. result' \in [Tasks -> Results] /\ taken' \subseteq Tasks
    BY <1>0, <1>1, <1>2 DEF Spawn, Take, Wait, CancelJoin, Detach, Release, Give
  <2> QED BY <1>0, <1>2, <2>1, <2>2 DEF MoreTypes, Spawn, Take, Wait, CancelJoin, Detach, Release
<1>3. ASSUME NEW p \in Tasks, NEW c \in Tasks, Add(p, c)
      PROVE  MoreTypes'
  BY <1>0, <1>3 DEF MoreTypes, Add
<1>4. ASSUME NEW p \in Tasks,
             \/ Park(p) \/ Unpark(p) \/ CancelClaims(p) \/ WaitEnds(p) \/ WaitStops(p) \/ Finish(p) \/ Frees(p)
             \/ Asks(p, "nexts") \/ Asks(p, "settles") \/ Asks(p, "cancels") \/ Asks(p, "releasesGroup")
      PROVE  MoreTypes'
  <2>1. pc[p] \in {"waits", "frees"} => on[p] \in Tasks BY DEF Books, OnInv, On
  <2>2. result' \in [Tasks -> Results] /\ taken' \subseteq Tasks
    <3>1. CASE WaitEnds(p)
      <4>1. on[p] \in Tasks BY <2>1, <3>1 DEF WaitEnds
      <4>2. taken' = taken \cup {on[p]} /\ result' = [result EXCEPT ![on[p]] = "given"] BY <3>1 DEF WaitEnds, Give
      <4>3. taken' \subseteq Tasks BY <1>0, <4>1, <4>2
      <4>4. result' \in [Tasks -> Results] BY <1>1, <4>1, <4>2
      <4> QED BY <4>3, <4>4
    <3>2. CASE Frees(p)
      <4>1. on[p] \in Tasks BY <2>1, <3>2 DEF Frees
      <4>2. taken' = taken /\ (result' = result \/ result' = [result EXCEPT ![on[p]] = "released"])
        BY <3>2 DEF Frees, Free
      <4>3. taken' \subseteq Tasks BY <1>0, <4>2
      <4>4. CASE result' = result BY <1>0, <4>3, <4>4
      <4>5. CASE result' = [result EXCEPT ![on[p]] = "released"]
        <5>1. [result EXCEPT ![on[p]] = "released"] \in [Tasks -> Results] BY ONLY <1>1, <4>1
        <5> QED BY <4>3, <4>5, <5>1
      <4> QED BY <4>2, <4>4, <4>5
    <3>3. CASE ~WaitEnds(p) /\ ~Frees(p)
      <4>1. UNCHANGED <<taken, result>>
        BY <1>4, <3>3 DEF Park, Unpark, CancelClaims, WaitStops, Finish, Asks
      <4> QED BY <1>0, <4>1
    <3> QED BY <3>1, <3>2, <3>3
  <2> QED BY <1>0, <1>4, <2>2
      DEF MoreTypes, Park, Unpark, CancelClaims, WaitEnds, WaitStops, Finish, Frees, Asks
<1>5. ASSUME NEW p \in Tasks,
             \/ Unblocks(p, "nextWaits", "nexts") \/ Unblocks(p, "settleWaits", "settles")
             \/ NextEnds(p) \/ NextBlocks(p) \/ SettleFails(p) \/ SettleEnds(p) \/ SettleBlocks(p)
      PROVE  MoreTypes'
  BY <1>0, <1>5
  DEF MoreTypes, Unblocks, NextEnds, NextBlocks, SettleFails, SettleEnds, SettleBlocks, Blocks
<1>6. ASSUME NEW p \in Tasks, NextGives(p)
      PROVE  MoreTypes'
  <2> DEFINE c == finished[p][Left(p)]
             rest == SubSeq(finished[p], Left(p) + 1, Len(finished[p]))
  <2>1. /\ Left(p) # 0 /\ got' = got \cup {c} /\ taken' = taken \cup {c}
        /\ result' = [result EXCEPT ![c] = IF p \in cancelled THEN "lost" ELSE "given"]
        /\ finished' = [finished EXCEPT ![p] = rest]
        /\ UNCHANGED <<running, cancelled>>
    BY <1>6 DEF NextGives
  <2>2. c \in Tasks /\ rest \in Seq(Tasks) BY <2>1, LeftHolds
  <2> HIDE DEF c, rest
  <2>3. finished' \in [Tasks -> Seq(Tasks)] BY <1>0, <2>1, <2>2
  <2>4. result' \in [Tasks -> Results] BY <1>1, <2>1, <2>2
  <2> QED BY <1>0, <2>1, <2>2, <2>3, <2>4 DEF MoreTypes
<1>7. ASSUME NEW p \in Tasks, Takes(p)
      PROVE  MoreTypes'
  <2>1. Members(p) \subseteq Tasks BY Grouping
  <2>2. result' \in [Tasks -> Results] BY <1>0, <1>7 DEF Takes, Results
  <2> QED BY <1>0, <1>7, <2>1, <2>2 DEF MoreTypes, Takes
<1>8. ASSUME NEW p \in Tasks, GroupCancelled(p)
      PROVE  MoreTypes'
  <2>1. on[p] = None \/ on[p] \in Tasks BY DEF Types
  <2>2. result' \in [Tasks -> Results] /\ taken' \subseteq Tasks /\ got' \subseteq Tasks
    <3>1. CASE on[p] = None
      <4>1. UNCHANGED <<taken, result, got>> BY <1>8, <3>1 DEF GroupCancelled
      <4> QED BY <1>0, <4>1
    <3>2. CASE on[p] # None
      <4>1. /\ taken' = taken \cup {on[p]} /\ result' = [result EXCEPT ![on[p]] = "given"]
            /\ got' = got \cup {on[p]}
        BY <1>8, <3>2 DEF GroupCancelled, Give
      <4> QED BY <1>0, <1>1, <2>1, <3>2, <4>1
    <3> QED BY <3>1, <3>2
  <2> QED BY <1>0, <1>8, <2>2 DEF MoreTypes, GroupCancelled
<1>9. ASSUME NEW p \in Tasks, CancelMember(p)
      PROVE  MoreTypes'
  <2> DEFINE I == {i \in 1..Len(members[p]) : members[p][i] \notin done}
             i == IF I # {} THEN Min(I) ELSE 0
  <2>1. members[p] \in Seq(Tasks) BY DEF Types
  <2>2. i # 0 /\ Cancel(members[p][i]) /\ UNCHANGED <<finished, running, got, taken, result>>
    BY <1>9 DEF CancelMember, SelectInSeq
  <2>3. i \in I
    <3>1. I \subseteq Nat /\ I # {} BY <2>1, <2>2
    <3> QED BY <3>1, Least
  <2>4. members[p][i] \in Tasks BY <2>1, <2>3, ElementOfSeq
  <2> QED BY <1>0, <2>2, <2>4 DEF MoreTypes, Cancel
<1>10. ASSUME NEW p \in Tasks, FreeMember(p)
       PROVE  MoreTypes'
  <2>1. PICK c \in Members(p) \ freed : cancelled' = cancelled \/ cancelled' = cancelled \cup {c}
    <3> DEFINE I == {i \in 1..Len(members[p]) : members[p][i] \notin freed}
               i == IF I # {} THEN Min(I) ELSE 0
    <3>1. members[p] \in Seq(Tasks) BY DEF Types
    <3>2. i # 0 /\ CancelToo(p, members[p][i]) BY <1>10 DEF FreeMember, SelectInSeq
    <3>3. i \in I
      <4>1. I \subseteq Nat /\ I # {} BY <3>1, <3>2
      <4> QED BY <4>1, Least
    <3>4. members[p][i] \in Members(p)
      <4>1. DOMAIN members[p] = 1..Len(members[p]) BY <3>1, LenProperties
      <4> QED BY <3>3, <4>1 DEF Members, ToSet
    <3> QED BY <3>2, <3>3, <3>4 DEF CancelToo, Cancel
  <2>2. c \in Tasks BY <2>1, Grouping
  <2>3. UNCHANGED <<finished, running, got, taken, result>> BY <1>10 DEF FreeMember
  <2> QED BY <1>0, <2>1, <2>2, <2>3 DEF MoreTypes
<1>11. ASSUME NEW p \in Tasks, MemberFreed(p)
       PROVE  MoreTypes'
  <2>1. on[p] \in Tasks BY <1>11, Grouping DEF MemberFreed, Books, OnInv, On
  <2> QED BY <1>0, <1>1, <1>11, <2>1 DEF MoreTypes, MemberFreed, Free
<1>12. ASSUME NEW p \in Tasks, GroupFreed(p)
       PROVE  MoreTypes'
  <2>1. <<>> \in Seq(Tasks) OBVIOUS
  <2> QED BY <1>0, <1>12, <2>1 DEF MoreTypes, GroupFreed
<1>13. ASSUME NEW p \in Tasks, End(p) \/ Retain(p) \/ LetGo(p)
       PROVE  MoreTypes'
  <2>1. result' = result \/ result' = [result EXCEPT ![p] = "join"] \/ result' = [result EXCEPT ![p] = "released"]
    BY <1>13 DEF End, Retain, LetGo, Drop, Free
  <2>2. result' \in [Tasks -> Results] BY <1>0, <1>1, <2>1
  <2> QED BY <1>0, <1>13, <2>2 DEF MoreTypes, End, Retain, LetGo
<1>14. ASSUME NEW p \in Tasks, Added(p)
       PROVE  MoreTypes'
  <2>1. on[p] \in Tasks BY <1>14, Grouping DEF Added, Books, OnInv, On
  <2>2. finished' \in [Tasks -> Seq(Tasks)] /\ running' \in [Tasks -> Int]
    <3>1. CASE on[p] \in done
      <4>1. GroupCompleted(p, on[p]) BY <1>14, <3>1 DEF Added
      <4> QED BY <2>1, <4>1, CompletedHeard
    <3>2. CASE on[p] \notin done BY <1>0, <1>14, <3>2 DEF Added
    <3> QED BY <3>1, <3>2
  <2> QED BY <1>0, <1>14, <2>2 DEF MoreTypes, Added
<1>15. ASSUME NEW p \in Tasks, Complete(p)
       PROVE  MoreTypes'
  <2>1. finished' \in [Tasks -> Seq(Tasks)] /\ running' \in [Tasks -> Int]
    <3>1. CASE group[p] = None BY <1>0, <1>15, <3>1 DEF Complete
    <3>2. CASE group[p] # None
      <4>1. group[p] \in Tasks BY <3>2 DEF Types
      <4>2. GroupCompleted(group[p], p) BY <1>15, <3>2 DEF Complete
      <4> QED BY <4>1, <4>2, CompletedHeard
    <3> QED BY <3>1, <3>2
  <2> QED BY <1>0, <1>15, <2>1 DEF MoreTypes, Complete
<1>16. ASSUME NEW c \in Tasks, EndDetached \/ EndCancels(c)
       PROVE  MoreTypes'
  BY <1>0, <1>16 DEF MoreTypes, EndDetached, EndCancels, Cancel
<1>17. ASSUME EndReleases
       PROVE  MoreTypes'
  <2>1. on[MainTask] \in Tasks BY <1>17, JoinsAssumption DEF EndReleases, Books, OnInv, On, Types
  <2>2. result' \in [Tasks -> Results]
    <3>1. result' = result \/ result' = [result EXCEPT ![on[MainTask]] = "released"]
      BY <1>17 DEF EndReleases, Drop, Free
    <3>2. [result EXCEPT ![on[MainTask]] = "released"] \in [Tasks -> Results] BY ONLY <1>1, <2>1
    <3> QED BY <1>0, <3>1, <3>2
  <2> QED BY <1>0, <1>17, <2>2 DEF MoreTypes, EndReleases, Drop, Free
<1>18. CASE UNCHANGED vars BY <1>18 DEF vars, MoreTypes
<1> QED
  BY <1>2, <1>3, <1>4, <1>5, <1>6, <1>7, <1>8, <1>9, <1>10, <1>11, <1>12, <1>13, <1>14, <1>15, <1>16, <1>17, <1>18,
     JoinsAssumption
  DEF Next, Ends, Goes, Chooses

LEMMA GroupsStep == ASSUME Types, Books, MoreTypes, Groups, [Next]_vars PROVE Groups'
<1>1. ASSUME NEW p \in Tasks, Calm(p) PROVE Groups' BY <1>1, CalmKeeps
<1>2. ASSUME NEW p \in Tasks, NEW c \in Tasks, Spawn(p, c) \/ Add(p, c)
      PROVE  Groups'
  BY <1>2, SpawnGroups, AddGroups
<1>3. ASSUME NEW p \in Tasks, NEW c \in Tasks,
             Take(p, c) \/ Wait(p, c) \/ CancelJoin(p, c) \/ Detach(p, c) \/ Release(p, c)
      PROVE  Groups'
  BY <1>1, <1>3, CalmSteps
<1>4. ASSUME NEW p \in Tasks, Goes(p) PROVE Groups'
  BY <1>1, <1>3, <1>4, CalmSteps, NextGivesGroups, GroupFreedGroups, AddedGroups, CompleteGroups DEF Goes
<1>5. ASSUME NEW p \in Tasks, Chooses(p) PROVE Groups'
  BY <1>1, <1>2, <1>3, <1>5, CalmSteps DEF Chooses
<1>6. CASE Ends BY <1>1, <1>6, MainCalm, JoinsAssumption DEF Ends
<1>7. CASE UNCHANGED vars
  <2>1. UNCHANGED <<pc, on, owner, members, done, group, finished, running, failed, got>>
    BY <1>7 DEF vars, groupVars, endVars
  <2>2. \A q \in Tasks : Members(q)' = Members(q) /\ ToSet(finished'[q]) = ToSet(finished[q])
    BY <2>1 DEF Members
  <2>3. \A q, c : Adds(q, c)' <=> Adds(q, c) BY <2>1 DEF Adds
  <2>4. \A q \in Tasks : Unheard(q)' = Unheard(q) BY <2>1, <2>2, <2>3 DEF Unheard
  <2> QED BY <2>1, <2>2, <2>3, <2>4 DEF Groups, GroupInv, FinishedInv, RunningInv
<1> QED BY <1>4, <1>5, <1>6, <1>7 DEF Next

-----------------------------------------------------------------------------
(* Who waits hears: of the end of a task, or of a task of its group. *)

Waiting == {"waits", "nextWaits", "settleWaits"}
Hear(p) ==
  /\ pc[p] = "waits" /\ fired[p] = "end" => on[p] \in done
  /\ pc[p] = "waits" /\ fired[p] = None => p \in waiters[on[p]]
  /\ pc[p] \in {"nextWaits", "settleWaits"} /\ fired[p] = None => p \in waiter
  /\ pc[p] = "nextWaits" /\ fired[p] = None => Members(p) \cap done \subseteq got
  /\ pc[p] = "settleWaits" /\ fired[p] = None => running[p] > 0 /\ ~Failed(p)
  /\ pc[p] = "takes" => Members(p) \subseteq done
  /\ pc[p] = "cancels" => on[p] = None \/ on[p] \in done
HearInv ==
  /\ taken \subseteq done
  /\ \A c \in done : waiters[c] = {}
  /\ \A p \in Tasks : Hear(p)

LEMMA InitHear == Init => HearInv
<1> SUFFICES ASSUME Init PROVE HearInv
  OBVIOUS
<1>1. taken = {} /\ done = {} /\ pc = [t \in Tasks |-> IF t = MainTask THEN "code" ELSE "unborn"]
  BY DEF Init
<1>2. \A p \in Tasks : pc[p] \notin Waiting \cup {"takes", "cancels"} BY <1>1 DEF Waiting
<1> QED BY <1>1, <1>2 DEF HearInv, Hear, Waiting

\* A step in which no task ends.
Alone(p) ==
  /\ done' = done /\ got \subseteq got' /\ waiter \ {p} \subseteq waiter'
  /\ \A c \in Tasks : waiters[c] \ {p} \subseteq waiters'[c]
  /\ \A q \in Tasks \ {p} :
       /\ pc'[q] = pc[q] /\ on'[q] = on[q] /\ fired'[q] = fired[q]
       /\ members'[q] = members[q] /\ running'[q] = running[q] /\ failed'[q] = failed[q]

LEMMA AloneKeeps ==
  ASSUME Types, Books, HearInv, NEW p \in Tasks, Alone(p),
         taken' \subseteq done, \A c \in done : waiters'[c] = {}, Hear(p)'
  PROVE  HearInv'
<1>1. ASSUME NEW q \in Tasks \ {p} PROVE Hear(q)'
  <2>1. /\ pc'[q] = pc[q] /\ on'[q] = on[q] /\ fired'[q] = fired[q] /\ Members(q)' = Members(q)
        /\ running'[q] = running[q] /\ failed'[q] = failed[q] /\ done' = done /\ got \subseteq got'
    BY DEF Alone, Members
  <2>2. Hear(q) BY DEF HearInv
  <2>3. q \in waiter => q \in waiter' BY DEF Alone
  <2>4. pc[q] = "waits" => on[q] \in Tasks BY DEF Books, OnInv, On
  <2>5. pc[q] = "waits" /\ q \in waiters[on[q]] => q \in waiters'[on[q]] BY <2>4 DEF Alone
  <2>6. Failed(q)' => Failed(q) BY <2>1 DEF Failed
  <2> QED BY <2>1, <2>2, <2>3, <2>5, <2>6 DEF Hear
<1>2. done' = done BY DEF Alone
<1> QED BY <1>1, <1>2 DEF HearInv

\* Most steps neither wait nor take.
LEMMA IdleHears ==
  ASSUME NEW p, pc'[p] \notin Waiting \cup {"takes", "cancels"}
  PROVE  Hear(p)'
BY DEF Hear, Waiting

LEMMA IdleSteps ==
  ASSUME Types, WaitTypes, Books, MoreTypes, HearInv, NEW p \in Tasks,
         \/ Park(p) \/ Unpark(p) \/ Finish(p) \/ End(p) \/ Frees(p) \/ Added(p)
         \/ Asks(p, "nexts") \/ Asks(p, "settles") \/ Asks(p, "releasesGroup")
         \/ Unblocks(p, "nextWaits", "nexts") \/ Unblocks(p, "settleWaits", "settles")
         \/ NextEnds(p) \/ FreeMember(p) \/ MemberFreed(p) \/ GroupFreed(p) \/ Retain(p) \/ LetGo(p)
         \/ \E c \in Tasks : CancelJoin(p, c) \/ Detach(p, c) \/ Release(p, c) \/ Add(p, c)
  PROVE  HearInv'
<1> USE DEF At, Code, Works, waitVars, countVars, endVars, groupVars, listVars
<1>0. pc \in [Tasks -> Pcs] /\ on \in [Tasks -> Tasks \cup {None}] /\ fired \in [Tasks -> {None, "end", "cancel"}]
      /\ running \in [Tasks -> Int] /\ failed \in [Tasks -> Tasks \cup {None}]
      /\ members \in [Tasks -> Seq(Tasks)] /\ taken \subseteq done
  BY DEF Types, WaitTypes, MoreTypes, HearInv
<1>1. /\ Alone(p) /\ taken' = taken /\ waiters' = waiters
      /\ pc'[p] \notin Waiting \cup {"takes", "cancels"}
  <2> USE DEF Alone, Waiting
  <2>1. CASE Park(p) \/ Unpark(p) \/ Finish(p) \/ End(p) \/ Frees(p)
    BY <1>0, <2>1 DEF Park, Unpark, Finish, End, Frees
  <2>2. CASE Added(p)
    <3>1. /\ \A q \in Tasks \ {p} : running'[q] = running[q] /\ failed'[q] = failed[q]
          /\ waiter \ {p} \subseteq waiter'
      BY <1>0, <2>2 DEF Added, GroupCompleted
    <3> QED BY <1>0, <2>2, <3>1 DEF Added
  <2>3. CASE \/ Asks(p, "nexts") \/ Asks(p, "settles") \/ Asks(p, "releasesGroup")
             \/ Unblocks(p, "nextWaits", "nexts") \/ Unblocks(p, "settleWaits", "settles")
    BY <1>0, <2>3 DEF Asks, Unblocks
  <2>4. CASE NextEnds(p) \/ MemberFreed(p) \/ GroupFreed(p) \/ Retain(p) \/ LetGo(p)
    BY <1>0, <2>4 DEF NextEnds, MemberFreed, GroupFreed, Retain, LetGo
  <2>5. CASE FreeMember(p)
    <3>1. PICK c \in Members(p) \ freed : on' = [on EXCEPT ![p] = c] BY <2>5, FreesOne
    <3> QED BY <1>0, <2>5, <3>1 DEF FreeMember
  <2>6. CASE \E c \in Tasks : CancelJoin(p, c) \/ Detach(p, c) \/ Release(p, c)
    BY <1>0, <2>6 DEF CancelJoin, Detach, Release
  <2>7. CASE \E c \in Tasks : Add(p, c)
    BY <1>0, <2>7 DEF Add
  <2> QED BY <2>1, <2>2, <2>3, <2>4, <2>5, <2>6, <2>7
<1>2. Hear(p)' BY <1>1, IdleHears
<1>3. \A c \in done : waiters'[c] = {} BY <1>1 DEF HearInv
<1> QED BY <1>0, <1>1, <1>2, <1>3, AloneKeeps

\* Those that wait, and those that take.
LEMMA HearSteps ==
  ASSUME Types, WaitTypes, Books, MoreTypes, Groups, WaitInv, HearInv, NEW p \in Tasks,
         \/ CancelClaims(p) \/ WaitEnds(p) \/ WaitStops(p) \/ Asks(p, "cancels")
         \/ NextGives(p) \/ NextBlocks(p) \/ SettleFails(p) \/ SettleEnds(p) \/ SettleBlocks(p) \/ Takes(p)
         \/ CancelMember(p) \/ GroupCancelled(p)
         \/ \E c \in Tasks : Take(p, c) \/ Wait(p, c)
  PROVE  HearInv'
<1> USE NoneNot DEF At, Code, Works, waitVars, countVars, endVars, groupVars, listVars
<1>0. pc \in [Tasks -> Pcs] /\ on \in [Tasks -> Tasks \cup {None}] /\ fired \in [Tasks -> {None, "end", "cancel"}]
      /\ waiters \in [Tasks -> SUBSET Tasks] /\ taken \subseteq done /\ On(p) /\ Hear(p)
      /\ \A c \in done : waiters[c] = {}
  BY DEF Types, WaitTypes, HearInv, Books, OnInv
<1>1. CASE CancelClaims(p)
  <2>1. Alone(p) /\ taken' = taken /\ waiters' = waiters BY <1>0, <1>1 DEF CancelClaims, Alone
  <2>2. Hear(p)' BY <1>0, <1>1 DEF CancelClaims, Hear, None
  <2> QED BY <1>0, <2>1, <2>2, AloneKeeps
<1>2. CASE WaitEnds(p)
  <2>1. /\ Alone(p) /\ pc[p] = "waits" /\ fired[p] = "end" /\ pc'[p] = "code" /\ taken' = taken \cup {on[p]}
        /\ waiters' = waiters
    BY <1>0, <1>2 DEF WaitEnds, Give, Alone
  <2>2. Hear(p)' BY <2>1, IdleHears DEF Waiting
  <2>3. on[p] \in done BY <1>0, <2>1 DEF Hear
  <2> QED BY <1>0, <2>1, <2>2, <2>3, AloneKeeps
<1>3. CASE WaitStops(p)
  <2>1. /\ pc'[p] = "code" /\ taken' = taken /\ waiters' = [waiters EXCEPT ![on[p]] = @ \ {p}]
    BY <1>0, <1>3 DEF WaitStops
  <2>2. Alone(p) BY <1>0, <1>3 DEF WaitStops, Alone
  <2>3. Hear(p)' BY <2>1, IdleHears DEF Waiting
  <2>4. \A c \in done : waiters'[c] = {}
    <3>1. \A c \in Tasks : waiters'[c] \subseteq waiters[c] BY <1>0, <2>1
    <3> QED BY <1>0, <3>1 DEF Types
  <2> QED BY <1>0, <2>1, <2>2, <2>3, <2>4, AloneKeeps
<1>4. CASE Asks(p, "cancels")
  <2>1. Alone(p) /\ taken' = taken /\ waiters' = waiters /\ pc[p] = "code" /\ pc'[p] = "cancels" /\ on' = on
    BY <1>0, <1>4 DEF Asks, Alone
  <2>2. on[p] = None BY <1>0, <2>1 DEF On
  <2>3. Hear(p)' BY <2>1, <2>2 DEF Hear
  <2> QED BY <1>0, <2>1, <2>3, AloneKeeps
<1>5. CASE NextGives(p)
  <2>1. /\ Left(p) # 0 /\ got' = got \cup {finished[p][Left(p)]}
        /\ taken' = taken \cup {finished[p][Left(p)]} /\ waiters' = waiters /\ pc'[p] = "code"
    BY <1>0, <1>5 DEF NextGives
  <2>2. Alone(p)
    <3>1. /\ \A q \in Tasks \ {p} : pc'[q] = pc[q]
          /\ UNCHANGED <<on, fired, done, members, running, failed, waiter, waiters>>
      BY <1>0, <1>5 DEF NextGives
    <3> QED BY <2>1, <3>1 DEF Alone
  <2>3. Hear(p)' BY <2>1, IdleHears DEF Waiting
  <2>4. finished[p][Left(p)] \in done
    <3>1. finished[p][Left(p)] \in ToSet(finished[p]) BY <2>1, LeftHolds
    <3> QED BY <3>1 DEF Groups, FinishedInv
  <2> QED BY <1>0, <2>1, <2>2, <2>3, <2>4, AloneKeeps
<1>6. CASE NextBlocks(p)
  <2>1. /\ Left(p) = 0 /\ pc[p] = "nexts" /\ pc'[p] = "nextWaits" /\ waiter' = waiter \cup {p}
        /\ UNCHANGED <<on, taken, waiters, members, done, got>>
    BY <1>0, <1>6 DEF NextBlocks, Blocks
  <2>2. Alone(p) BY <1>0, <1>6 DEF NextBlocks, Blocks, Alone
  <2>3. Members(p)' \cap done' \subseteq got'
    <3>1. ToSet(finished[p]) \subseteq got BY <2>1, LeftHolds
    <3>2. \A c : ~Adds(p, c) BY <2>1 DEF Adds
    <3>3. \A c \in Members(p) \cap done : c \in got BY <3>1, <3>2 DEF Groups, FinishedInv
    <3> QED BY <2>1, <3>3 DEF Members
  <2>4. Hear(p)' BY <2>1, <2>3 DEF Hear
  <2> QED BY <1>0, <2>1, <2>2, <2>4, AloneKeeps
<1>7. CASE SettleFails(p)
  <2>1. /\ pc'[p] = "cancels" /\ on'[p] = failed[p] /\ failed[p] # None
        /\ UNCHANGED <<taken, waiters, done>>
    BY <1>0, <1>7 DEF SettleFails, Failed
  <2>2. Alone(p) BY <1>0, <1>7 DEF SettleFails, Alone
  <2>3. failed[p] \in done BY <2>1 DEF Groups, FinishedInv
  <2>4. Hear(p)' BY <2>1, <2>3 DEF Hear
  <2> QED BY <1>0, <2>1, <2>2, <2>4, AloneKeeps
<1>8. CASE SettleEnds(p)
  <2>1. /\ pc[p] = "settles" /\ pc'[p] \in {"code", "takes"} /\ (pc'[p] = "takes" => running[p] = 0)
        /\ UNCHANGED <<taken, waiters, done, members>>
    BY <1>0, <1>8 DEF SettleEnds
  <2>2. Alone(p) BY <1>0, <1>8 DEF SettleEnds, Alone
  <2>3. pc'[p] = "takes" => Members(p)' \subseteq done'
    <3>1. IsFiniteSet(Unheard(p)) BY UnheardFinite
    <3>2. running[p] = 0 => Unheard(p) = {} BY <3>1, FS_EmptySet DEF Groups, RunningInv
    <3>3. Unheard(p) = {} => Members(p) \subseteq done BY DEF Unheard
    <3> QED BY <2>1, <3>2, <3>3 DEF Members
  <2>4. Hear(p)' BY <2>1, <2>3 DEF Hear
  <2> QED BY <1>0, <2>1, <2>2, <2>4, AloneKeeps
<1>9. CASE SettleBlocks(p)
  <2>1. /\ pc'[p] = "settleWaits" /\ waiter' = waiter \cup {p} /\ ~Failed(p) /\ running[p] > 0
        /\ UNCHANGED <<on, taken, waiters, members, done, got, running, failed>>
    BY <1>0, <1>9 DEF SettleBlocks, Blocks
  <2>2. Alone(p) BY <1>0, <1>9 DEF SettleBlocks, Blocks, Alone
  <2>3. Hear(p)' BY <2>1 DEF Hear, Failed
  <2> QED BY <1>0, <2>1, <2>2, <2>3, AloneKeeps
<1>10. CASE Takes(p)
  <2>1. /\ pc[p] = "takes" /\ pc'[p] = "code" /\ taken' \subseteq taken \cup Members(p) /\ waiters' = waiters
    BY <1>0, <1>10 DEF Takes
  <2>2. Alone(p) BY <1>0, <1>10 DEF Takes, Alone
  <2>3. Members(p) \subseteq done BY <1>0, <2>1 DEF Hear
  <2>4. Hear(p)' BY <2>1, IdleHears DEF Waiting
  <2> QED BY <1>0, <2>1, <2>2, <2>3, <2>4, AloneKeeps
<1>11. CASE CancelMember(p)
  <2>1. UNCHANGED <<pc, on, fired, taken, endVars, groupVars>> BY <1>11 DEF CancelMember
  <2>2. Alone(p) BY <2>1 DEF Alone
  <2>3. Hear(p)' BY <1>0, <2>1 DEF Hear, Members, Failed
  <2> QED BY <1>0, <2>1, <2>2, <2>3, AloneKeeps
<1>12. CASE GroupCancelled(p)
  <2>1. /\ pc[p] = "cancels" /\ pc'[p] = "code" /\ waiters' = waiters
        /\ taken' = taken \/ (on[p] # None /\ taken' = taken \cup {on[p]})
    BY <1>0, <1>12 DEF GroupCancelled, Give
  <2>2. Alone(p) BY <1>0, <1>12 DEF GroupCancelled, Alone
  <2>3. on[p] # None => on[p] \in done BY <1>0, <2>1 DEF Hear
  <2>4. Hear(p)' BY <2>1, IdleHears DEF Waiting
  <2> QED BY <1>0, <2>1, <2>2, <2>3, <2>4, AloneKeeps
<1>13. ASSUME NEW c \in Tasks, Take(p, c) PROVE HearInv'
  <2>1. UNCHANGED <<pc, on, fired, endVars, groupVars>> /\ taken' = taken \cup {c} /\ c \in done
    BY <1>13 DEF Take, Give
  <2>2. Alone(p) BY <2>1 DEF Alone
  <2>3. Hear(p)' BY <1>0, <2>1 DEF Hear, Members, Failed
  <2> QED BY <1>0, <2>1, <2>2, <2>3, AloneKeeps
<1>14. ASSUME NEW c \in Tasks, Wait(p, c) PROVE HearInv'
  <2>1. /\ pc'[p] = "waits" /\ on'[p] = c /\ fired'[p] = None /\ waiters' = [waiters EXCEPT ![c] = @ \cup {p}]
        /\ c \notin done /\ UNCHANGED <<taken, done>>
    BY <1>0, <1>14 DEF Wait
  <2>2. Alone(p) BY <1>0, <1>14 DEF Wait, Alone
  <2>3. p \in waiters'[c] BY <1>0, <2>1
  <2>4. Hear(p)' BY <2>1, <2>3 DEF Hear, None
  <2>5. \A d \in done : waiters'[d] = {} BY <1>0, <2>1 DEF Types
  <2> QED BY <1>0, <2>1, <2>2, <2>4, <2>5, AloneKeeps
<1> QED
  BY <1>1, <1>2, <1>3, <1>4, <1>5, <1>6, <1>7, <1>8, <1>9, <1>10, <1>11, <1>12, <1>13, <1>14

\* A task ends: who waits for it is told, and so is its group.
LEMMA CompleteHears ==
  ASSUME Types, WaitTypes, Books, MoreTypes, Groups, WaitInv, HearInv, NEW p \in Tasks, Complete(p)
  PROVE  HearInv'
<1> USE NoneNot DEF At, waitVars, countVars, endVars, groupVars, listVars
<1> DEFINE g == group[p]
           told == waiters[p] \cup (IF g = None THEN {} ELSE waiter \cap {g})
<1>0. pc \in [Tasks -> Pcs] /\ fired \in [Tasks -> {None, "end", "cancel"}]
      /\ waiters \in [Tasks -> SUBSET Tasks] /\ waiter \subseteq Tasks /\ group \in [Tasks -> Tasks \cup {None}]
      /\ running \in [Tasks -> Int] /\ failed \in [Tasks -> Tasks \cup {None}]
  BY DEF Types, WaitTypes, MoreTypes
<1>1. /\ pc[p] = "completes" /\ pc' = [pc EXCEPT ![p] = IF p \in detached THEN "retains" ELSE "off"]
      /\ done' = done \cup {p} /\ waiters' = [waiters EXCEPT ![p] = {}]
      /\ fired' = [t \in Tasks |-> IF t \in told /\ fired[t] = None THEN "end" ELSE fired[t]]
      /\ UNCHANGED <<on, taken, members, got>>
  BY DEF Complete
<1>2. /\ g = None => UNCHANGED <<running, failed, waiter>>
      /\ g # None => GroupCompleted(g, p)
  BY DEF Complete
<1>3. p \notin done BY <1>1 DEF Books, LifeInv
<1>4. \A c \in done' : waiters'[c] = {}
  <2>1. \A c \in done : c \in Tasks BY DEF Types
  <2> QED BY <1>0, <1>1, <2>1 DEF HearInv
<1>5. taken' \subseteq done' BY <1>1 DEF HearInv
<1>6. ASSUME NEW q \in Tasks PROVE Hear(q)'
  <2>1. CASE q = p BY <1>0, <1>1, <2>1, IdleHears DEF Waiting
  <2>2. CASE q # p
    <3>1. /\ pc'[q] = pc[q] /\ on'[q] = on[q] /\ Members(q)' = Members(q)
          /\ fired'[q] = IF q \in told /\ fired[q] = None THEN "end" ELSE fired[q]
      BY <1>0, <1>1, <2>2 DEF Members
    <3>2. Hear(q) BY DEF HearInv
    <3>3. q # g => running'[q] = running[q] /\ failed'[q] = failed[q] /\ (q \in waiter => q \in waiter')
      BY <1>0, <1>2 DEF GroupCompleted
    <3>4. q \in waiters[p] => pc[q] = "waits" /\ on[q] = p BY DEF WaitInv
    <3>5. q \in waiter => pc[q] \in {"nextWaits", "settleWaits"} BY DEF WaitInv
    <3>6. CASE pc[q] = "waits"
      <4>1. q \in told => on[q] = p BY <3>4, <3>5, <3>6
      <4>2. fired'[q] = "end" => on[q] \in done' BY <1>1, <3>1, <3>2, <3>6, <4>1 DEF Hear, None
      <4>3. fired'[q] = None => fired[q] = None /\ q \notin told BY <3>1 DEF None
      <4>4. on[q] \in Tasks BY <3>6 DEF Books, OnInv, On
      <4>5. fired'[q] = None => q \in waiters'[on[q]]
        <5>1. fired'[q] = None => q \in waiters[on[q]] /\ on[q] # p BY <3>2, <3>6, <4>3 DEF Hear
        <5> QED BY <1>0, <1>1, <4>4, <5>1
      <4> QED BY <3>1, <3>6, <4>2, <4>5 DEF Hear
    <3>7. CASE pc[q] \in {"nextWaits", "settleWaits"}
      <4>1. q = g /\ fired[q] = None => q \in told BY <3>2, <3>7 DEF Hear
      <4>2. fired'[q] = None => q # g /\ fired[q] = None BY <3>1, <4>1 DEF None
      <4>3. fired'[q] = None => q \in waiter' BY <3>2, <3>3, <3>7, <4>2 DEF Hear
      <4>4. pc[q] = "nextWaits" /\ fired'[q] = None => Members(q) \cap done' \subseteq got'
        <5>1. p \in Members(q) => q = g \/ Adds(q, p) BY <1>3 DEF Groups, GroupInv
        <5>2. ~Adds(q, p) BY <3>7 DEF Adds
        <5>3. pc[q] = "nextWaits" /\ fired'[q] = None => Members(q) \cap done \subseteq got /\ p \notin Members(q)
          BY <3>2, <4>2, <5>1, <5>2 DEF Hear
        <5> QED BY <1>1, <5>3
      <4>5. pc[q] = "settleWaits" /\ fired'[q] = None => running'[q] > 0 /\ ~Failed(q)'
        BY <1>1, <3>2, <3>3, <4>2 DEF Hear, Failed
      <4> QED BY <3>1, <3>7, <4>3, <4>4, <4>5 DEF Hear
    <3>8. CASE pc[q] \in {"takes", "cancels"}
      BY <1>1, <3>1, <3>2, <3>8 DEF Hear
    <3>9. CASE pc[q] \notin Waiting \cup {"takes", "cancels"} BY <3>1, <3>9, IdleHears
    <3> QED BY <3>6, <3>7, <3>8, <3>9 DEF Waiting
  <2> QED BY <2>1, <2>2
<1> QED BY <1>4, <1>5, <1>6 DEF HearInv

LEMMA HearStep ==
  ASSUME Types, WaitTypes, Books, MoreTypes, Groups, WaitInv, HearInv, [Next]_vars
  PROVE  HearInv'
<1>0. pc \in [Tasks -> Pcs] /\ on \in [Tasks -> Tasks \cup {None}] /\ taken \subseteq done
      /\ \A c \in done : waiters[c] = {}
  BY DEF Types, WaitTypes, HearInv
<1>1. ASSUME NEW p \in Tasks, NEW c \in Tasks, Spawn(p, c) PROVE HearInv'
  <2>1. Alone(c) /\ pc'[c] = "code" /\ UNCHANGED <<taken, waiters>>
    BY <1>0, <1>1 DEF Spawn, Alone, waitVars, endVars, groupVars
  <2>2. Hear(c)' BY <2>1, IdleHears DEF Waiting
  <2> QED BY <1>0, <2>1, <2>2, AloneKeeps
<1>2. ASSUME NEW p \in Tasks, NEW c \in Tasks,
             \/ Take(p, c) \/ Wait(p, c) \/ CancelJoin(p, c) \/ Detach(p, c) \/ Release(p, c) \/ Add(p, c)
      PROVE  HearInv'
  BY <1>2, IdleSteps, HearSteps
<1>3. ASSUME NEW p \in Tasks, Goes(p) PROVE HearInv'
  BY <1>2, <1>3, IdleSteps, HearSteps, CompleteHears DEF Goes
<1>4. ASSUME NEW p \in Tasks, Chooses(p) PROVE HearInv'
  BY <1>1, <1>2, <1>4, IdleSteps, HearSteps DEF Chooses
<1>5. CASE Ends
  <2>1. /\ Alone(MainTask) /\ UNCHANGED <<taken, waiters>>
        /\ pc'[MainTask] \notin Waiting \cup {"takes", "cancels"}
    <3>1. /\ UNCHANGED <<fired, done, members, running, failed, got, waiter, waiters, taken>>
          /\ pc'[MainTask] \in MainPcs /\ \A q \in Tasks \ {MainTask} : pc'[q] = pc[q] /\ on'[q] = on[q]
      BY <1>0, <1>5, JoinsAssumption
      DEF Ends, EndDetached, EndCancels, EndReleases, At, Works, waitVars, countVars, endVars, groupVars
    <3> QED BY <3>1 DEF Alone, Waiting
  <2>2. Hear(MainTask)' BY <2>1, IdleHears
  <2> QED BY <1>0, <2>1, <2>2, AloneKeeps, JoinsAssumption
<1>6. CASE UNCHANGED vars
  <2>1. UNCHANGED <<pc, on, fired, taken, done, waiters, got, waiter, members, running, failed>>
    BY <1>6 DEF vars, waitVars, endVars, groupVars
  <2> QED BY <2>1 DEF HearInv, Hear, Members, Failed
<1> QED BY <1>3, <1>4, <1>5, <1>6 DEF Next

\* Who waits for nothing that happened: it would have been told.
LEMMA HearingHolds == ASSUME Types, Books, HearInv PROVE EndsHeard
<1> SUFFICES ASSUME NEW p \in Tasks, fired[p] = None
             PROVE  /\ pc[p] = "waits" => on[p] \notin done
                    /\ pc[p] = "nextWaits" => Members(p) \cap done \subseteq got
                    /\ pc[p] = "settleWaits" => running[p] > 0 /\ ~Failed(p)
  BY DEF EndsHeard
<1>1. Hear(p) BY DEF HearInv
<1>2. pc[p] = "waits" => on[p] \notin done BY <1>1 DEF Hear, HearInv
<1> QED BY <1>1, <1>2 DEF Hear

-----------------------------------------------------------------------------
(* Results: a result is given, or goes with its join. *)

ResultInv ==
  \A c \in Tasks :
    /\ c \in taken => result[c] \in {"given", "lost"}
    /\ c \in freed \ taken => result[c] = "released"
    /\ result[c] = "lost" => cancelled \cap Groupers # {}

\* Who asks a group for its next has one.
GroupersInv == \A p \in Tasks : members[p] # <<>> \/ pc[p] \in {"nexts", "nextWaits"} => p \in Groupers

\* `main` is nobody's task.
RootInv ==
  /\ owner[MainTask] = None /\ pc[MainTask] # "unborn"
  /\ ~Grouped(MainTask) /\ MainTask \notin detached /\ MainTask \notin cancelled

LEMMA InitResults == Init => ResultInv /\ GroupersInv /\ RootInv
<1> SUFFICES ASSUME Init PROVE ResultInv /\ GroupersInv /\ RootInv
  OBVIOUS
<1>1. /\ pc = [t \in Tasks |-> IF t = MainTask THEN "code" ELSE "unborn"]
      /\ owner = [t \in Tasks |-> None] /\ result = [t \in Tasks |-> None]
      /\ members = [t \in Tasks |-> <<>>] /\ taken = {} /\ freed = {} /\ detached = {} /\ cancelled = {}
  BY DEF Init
<1>2. \A p \in Tasks : Members(p) = {} BY <1>1 DEF Members, ToSet
<1>3. ResultInv BY <1>1 DEF ResultInv, None
<1>4. GroupersInv BY <1>1 DEF GroupersInv
<1>5. RootInv BY <1>1, <1>2, JoinsAssumption DEF RootInv, Grouped
<1> QED BY <1>3, <1>4, <1>5

LEMMA GroupersStep == ASSUME Types, Books, GroupersInv, [Next]_vars PROVE GroupersInv'
<1> USE DEF At, Code, Works, waitVars, countVars, endVars, groupVars, listVars
<1>0. pc \in [Tasks -> Pcs] /\ on \in [Tasks -> Tasks \cup {None}] /\ members \in [Tasks -> Seq(Tasks)]
  BY DEF Types
<1> DEFINE Same(p) == /\ \A q \in Tasks : members'[q] # <<>> => members[q] # <<>>
                      /\ \A q \in Tasks \ {p} : pc'[q] = pc[q]
                      /\ pc'[p] \in {"nexts", "nextWaits"} => members[p] # <<>> \/ pc[p] \in {"nexts", "nextWaits"}
<1>1. ASSUME NEW p \in Tasks, Same(p) PROVE GroupersInv'
  BY <1>1 DEF GroupersInv
<1>2. ASSUME NEW p \in Tasks, NEW c \in Tasks, Spawn(p, c) PROVE GroupersInv'
  <2>1. Same(c) BY <1>0, <1>2 DEF Spawn
  <2> QED BY <1>1, <2>1
<1>3. ASSUME NEW p \in Tasks, NEW c \in Tasks,
             Take(p, c) \/ Wait(p, c) \/ CancelJoin(p, c) \/ Detach(p, c) \/ Release(p, c)
      PROVE  GroupersInv'
  <2>1. Same(p) BY <1>0, <1>3 DEF Take, Wait, CancelJoin, Detach, Release
  <2> QED BY <1>1, <2>1
<1>4. ASSUME NEW p \in Tasks, NEW c \in Tasks, Add(p, c) PROVE GroupersInv'
  <2>1. /\ p \in Groupers /\ pc'[p] = "adds"
        /\ \A q \in Tasks \ {p} : pc'[q] = pc[q] /\ members'[q] = members[q]
    BY <1>0, <1>4 DEF Add
  <2> QED BY <2>1 DEF GroupersInv
<1>5. ASSUME NEW p \in Tasks,
             \/ Park(p) \/ Unpark(p) \/ CancelClaims(p) \/ WaitEnds(p) \/ WaitStops(p) \/ Finish(p) \/ Frees(p)
             \/ Added(p) \/ Asks(p, "nexts") \/ Asks(p, "settles") \/ Asks(p, "cancels") \/ Asks(p, "releasesGroup")
      PROVE  GroupersInv'
  <2>1. Same(p)
    BY <1>0, <1>5 DEF Park, Unpark, CancelClaims, WaitEnds, WaitStops, Finish, Frees, Added, Asks
  <2> QED BY <1>1, <2>1
<1>6. ASSUME NEW p \in Tasks,
             \/ Unblocks(p, "nextWaits", "nexts") \/ Unblocks(p, "settleWaits", "settles")
             \/ NextGives(p) \/ NextEnds(p) \/ NextBlocks(p) \/ SettleFails(p) \/ SettleEnds(p) \/ SettleBlocks(p)
      PROVE  GroupersInv'
  <2>1. Same(p)
    BY <1>0, <1>6
    DEF Unblocks, Blocks, NextGives, NextEnds, NextBlocks, SettleFails, SettleEnds, SettleBlocks
  <2> QED BY <1>1, <2>1
<1>7. ASSUME NEW p \in Tasks,
             \/ Takes(p) \/ CancelMember(p) \/ GroupCancelled(p) \/ FreeMember(p) \/ MemberFreed(p) \/ GroupFreed(p)
             \/ End(p) \/ Complete(p) \/ Retain(p) \/ LetGo(p)
      PROVE  GroupersInv'
  <2>1. Same(p)
    BY <1>0, <1>7
    DEF Takes, CancelMember, GroupCancelled, FreeMember, MemberFreed, GroupFreed, End, Complete, Retain, LetGo
  <2> QED BY <1>1, <2>1
<1>8. CASE Ends
  <2>1. Same(MainTask)
    BY <1>0, <1>8, JoinsAssumption DEF Ends, EndDetached, EndCancels, EndReleases
  <2> QED BY <1>1, <2>1, JoinsAssumption
<1>9. CASE UNCHANGED vars BY <1>9 DEF vars, GroupersInv
<1> HIDE DEF Same
<1>10. ASSUME NEW p \in Tasks, Goes(p) PROVE GroupersInv'
  BY <1>3, <1>5, <1>6, <1>7, <1>10 DEF Goes
<1>11. ASSUME NEW p \in Tasks, Chooses(p) PROVE GroupersInv'
  BY <1>2, <1>3, <1>4, <1>5, <1>11 DEF Chooses
<1> QED BY <1>8, <1>9, <1>10, <1>11 DEF Next

\* Who is cancelled has an owner, is in a group or detached.
LEMMA CancelsOthers ==
  ASSUME Types, Books, RootInv, [Next]_vars
  PROVE  MainTask \notin cancelled'
<1> USE NoneNot, JoinsAssumption DEF Cancel, CancelToo, waitVars, countVars, endVars, groupVars, listVars
<1>0. MainTask \notin cancelled /\ owner[MainTask] = None /\ MainTask \notin todo
      /\ \A p \in Tasks : MainTask \notin Members(p)
  BY DEF RootInv, Grouped, Books, DetachInv
<1>1. ASSUME NEW p \in Tasks, NEW c \in Tasks,
             \/ Spawn(p, c) \/ Take(p, c) \/ Wait(p, c) \/ CancelJoin(p, c) \/ Detach(p, c) \/ Release(p, c)
             \/ Add(p, c)
      PROVE  MainTask \notin cancelled'
  BY <1>0, <1>1 DEF Spawn, Take, Wait, CancelJoin, Detach, Release, Add, Mine
<1>2. ASSUME NEW p \in Tasks, CancelMember(p) \/ FreeMember(p)
      PROVE  MainTask \notin cancelled'
  <2> DEFINE I(S) == {i \in 1..Len(members[p]) : members[p][i] \notin S}
             First(S) == IF I(S) # {} THEN Min(I(S)) ELSE 0
  <2>1. members[p] \in Seq(Tasks) BY DEF Types
  <2>2. PICK S \in {done, freed} :
          First(S) # 0 /\ (cancelled' = cancelled \/ cancelled' = cancelled \cup {members[p][First(S)]})
    BY <1>2 DEF CancelMember, FreeMember, SelectInSeq
  <2>3. First(S) \in I(S)
    <3>1. I(S) \subseteq Nat /\ I(S) # {} BY <2>1, <2>2
    <3> QED BY <3>1, Least
  <2>4. members[p][First(S)] \in Members(p)
    <3>1. DOMAIN members[p] = 1..Len(members[p]) BY <2>1, LenProperties
    <3> QED BY <2>3, <3>1 DEF Members, ToSet
  <2> QED BY <1>0, <2>2, <2>4
<1>3. ASSUME NEW p \in Tasks, Goes(p) PROVE MainTask \notin cancelled'
  <2>1. CASE \/ CancelClaims(p) \/ WaitEnds(p) \/ WaitStops(p) \/ Finish(p) \/ Frees(p) \/ Added(p)
             \/ Unblocks(p, "nextWaits", "nexts") \/ Unblocks(p, "settleWaits", "settles")
             \/ Asks(p, "releasesGroup") \/ Unpark(p)
    BY <1>0, <2>1 DEF CancelClaims, WaitEnds, WaitStops, Finish, Frees, Added, Unblocks, Asks, Unpark
  <2>2. CASE \/ NextGives(p) \/ NextEnds(p) \/ NextBlocks(p) \/ SettleFails(p) \/ SettleEnds(p) \/ SettleBlocks(p)
             \/ Takes(p) \/ GroupCancelled(p)
    BY <1>0, <2>2
    DEF NextGives, NextEnds, NextBlocks, SettleFails, SettleEnds, SettleBlocks, Blocks, Takes, GroupCancelled
  <2>3. CASE \/ MemberFreed(p) \/ GroupFreed(p) \/ End(p) \/ Complete(p) \/ Retain(p) \/ LetGo(p)
    BY <1>0, <2>3 DEF MemberFreed, GroupFreed, End, Complete, Retain, LetGo
  <2> QED BY <1>1, <1>2, <1>3, <2>1, <2>2, <2>3 DEF Goes
<1>4. ASSUME NEW p \in Tasks, Chooses(p) PROVE MainTask \notin cancelled'
  <2>1. CASE Park(p) \/ Unpark(p) \/ Asks(p, "nexts") \/ Asks(p, "settles") \/ Asks(p, "cancels")
    BY <1>0, <2>1 DEF Park, Unpark, Asks
  <2> QED BY <1>1, <1>4, <2>1 DEF Chooses
<1>5. CASE Ends BY <1>0, <1>5 DEF Ends, EndDetached, EndCancels, EndReleases
<1>6. CASE UNCHANGED vars BY <1>0, <1>6 DEF vars
<1> QED BY <1>3, <1>4, <1>5, <1>6 DEF Next

LEMMA RootStep == ASSUME Types, Books, RootInv, [Next]_vars PROVE RootInv'
<1> USE NoneNot, JoinsAssumption DEF At, Code, Works, waitVars, countVars, endVars, groupVars, listVars
<1>0. pc \in [Tasks -> Pcs] /\ owner \in [Tasks -> Tasks \cup {None}] /\ members \in [Tasks -> Seq(Tasks)]
      /\ owner[MainTask] = None /\ pc[MainTask] # "unborn" /\ MainTask \notin detached
      /\ \A p \in Tasks : MainTask \notin Members(p)
  BY DEF Types, RootInv, Grouped
<1> DEFINE Same == /\ owner'[MainTask] = None /\ pc'[MainTask] # "unborn" /\ MainTask \notin detached'
                   /\ \A p \in Tasks : MainTask \notin Members(p)'
<1>1. ASSUME NEW p \in Tasks, NEW c \in Tasks,
             \/ Spawn(p, c) \/ Take(p, c) \/ Wait(p, c) \/ CancelJoin(p, c) \/ Detach(p, c) \/ Release(p, c)
      PROVE  Same
  <2>1. members' = members BY <1>1 DEF Spawn, Take, Wait, CancelJoin, Detach, Release
  <2>2. \A q \in Tasks : Members(q)' = Members(q) BY <2>1 DEF Members
  <2> QED BY <1>0, <1>1, <2>2 DEF Spawn, Take, Wait, CancelJoin, Detach, Release, Mine
<1>2. ASSUME NEW p \in Tasks, NEW c \in Tasks, Add(p, c) PROVE Same
  <2>1. ToSet(Append(members[p], c)) = Members(p) \cup {c} BY <1>0, AppendHolds DEF Members
  <2>2. members' = [members EXCEPT ![p] = Append(members[p], c)] /\ owner[c] = p BY <1>2 DEF Add, Mine
  <2>3. \A q \in Tasks : Members(q)' \subseteq Members(q) \cup {c} BY <1>0, <2>1, <2>2 DEF Members
  <2> QED BY <1>0, <1>2, <2>2, <2>3 DEF Add
<1>3. ASSUME NEW p \in Tasks,
             \/ Park(p) \/ Unpark(p) \/ CancelClaims(p) \/ WaitEnds(p) \/ WaitStops(p) \/ Finish(p) \/ Frees(p)
             \/ Added(p) \/ Asks(p, "nexts") \/ Asks(p, "settles") \/ Asks(p, "cancels") \/ Asks(p, "releasesGroup")
      PROVE  Same
  <2>1. members' = members
    BY <1>3 DEF Park, Unpark, CancelClaims, WaitEnds, WaitStops, Finish, Frees, Added, Asks
  <2>2. \A q \in Tasks : Members(q)' = Members(q) BY <2>1 DEF Members
  <2> QED BY <1>0, <1>3, <2>2 DEF Park, Unpark, CancelClaims, WaitEnds, WaitStops, Finish, Frees, Added, Asks
<1>4. ASSUME NEW p \in Tasks,
             \/ Unblocks(p, "nextWaits", "nexts") \/ Unblocks(p, "settleWaits", "settles")
             \/ NextGives(p) \/ NextEnds(p) \/ NextBlocks(p) \/ SettleFails(p) \/ SettleEnds(p) \/ SettleBlocks(p)
      PROVE  Same
  <2>1. members' = members
    BY <1>4 DEF Unblocks, Blocks, NextGives, NextEnds, NextBlocks, SettleFails, SettleEnds, SettleBlocks
  <2>2. \A q \in Tasks : Members(q)' = Members(q) BY <2>1 DEF Members
  <2> QED BY <1>0, <1>4, <2>2
          DEF Unblocks, Blocks, NextGives, NextEnds, NextBlocks, SettleFails, SettleEnds, SettleBlocks
<1>5. ASSUME NEW p \in Tasks,
             \/ Takes(p) \/ CancelMember(p) \/ GroupCancelled(p) \/ FreeMember(p) \/ MemberFreed(p)
             \/ End(p) \/ Complete(p) \/ Retain(p) \/ LetGo(p)
      PROVE  Same
  <2>1. members' = members
    BY <1>5 DEF Takes, CancelMember, GroupCancelled, FreeMember, MemberFreed, End, Complete, Retain, LetGo
  <2>2. \A q \in Tasks : Members(q)' = Members(q) BY <2>1 DEF Members
  <2> QED BY <1>0, <1>5, <2>2
          DEF Takes, CancelMember, GroupCancelled, FreeMember, MemberFreed, End, Complete, Retain, LetGo
<1>6. ASSUME NEW p \in Tasks, GroupFreed(p) PROVE Same
  <2>1. members' = [members EXCEPT ![p] = <<>>] BY <1>6 DEF GroupFreed
  <2>2. \A q \in Tasks : Members(q)' \subseteq Members(q) BY <1>0, <2>1 DEF Members, ToSet
  <2> QED BY <1>0, <1>6, <2>2 DEF GroupFreed
<1>7. ASSUME Ends PROVE Same
  <2>1. members' = members BY <1>7 DEF Ends, EndDetached, EndCancels, EndReleases
  <2>2. \A q \in Tasks : Members(q)' = Members(q) BY <2>1 DEF Members
  <2> QED BY <1>0, <1>7, <2>2 DEF Ends, EndDetached, EndCancels, EndReleases
<1>8. ASSUME UNCHANGED vars PROVE Same
  <2>1. \A q \in Tasks : Members(q)' = Members(q) BY <1>8 DEF vars, Members
  <2> QED BY <1>0, <1>8, <2>1 DEF vars
<1>9. MainTask \notin cancelled' BY CancelsOthers
<1> HIDE DEF Same
<1>10. ASSUME NEW p \in Tasks, Goes(p) PROVE Same
  BY <1>1, <1>3, <1>4, <1>5, <1>6, <1>10 DEF Goes
<1>11. ASSUME NEW p \in Tasks, Chooses(p) PROVE Same
  BY <1>1, <1>2, <1>3, <1>11 DEF Chooses
<1>12. Same BY <1>7, <1>8, <1>10, <1>11 DEF Next
<1> QED BY <1>9, <1>12 DEF Same, RootInv, Grouped

\* A join is let go: what nobody took goes with it.
LEMMA FreeResults ==
  ASSUME MoreTypes, ResultInv, NEW c \in Tasks, Free(c), taken' = taken, cancelled' = cancelled
  PROVE  ResultInv'
<1>1. /\ freed' = freed \cup {c}
      /\ \/ c \in taken /\ result' = result
         \/ c \notin taken /\ result' = [result EXCEPT ![c] = "released"]
  BY DEF Free
<1> QED BY <1>1 DEF MoreTypes, ResultInv

\* A result is given, or lost by a cancelled task.
LEMMA GiveResults ==
  ASSUME MoreTypes, ResultInv, NEW c \in Tasks, NEW how \in {"given", "lost"},
         how = "lost" => cancelled \cap Groupers # {},
         taken' = taken \cup {c}, result' = [result EXCEPT ![c] = how], freed' = freed, cancelled' = cancelled
  PROVE  ResultInv'
BY DEF MoreTypes, ResultInv

LEMMA SameResults ==
  ASSUME ResultInv, UNCHANGED <<taken, result, freed>>, cancelled \subseteq cancelled'
  PROVE  ResultInv'
BY DEF ResultInv

LEMMA ResultStep ==
  ASSUME Types, WaitTypes, Books, MoreTypes, HearInv, GroupersInv, ResultInv, [Next]_vars
  PROVE  ResultInv'
<1> USE DEF Cancel, CancelToo, waitVars, countVars, endVars, groupVars, listVars
<1>1. ASSUME NEW p \in Tasks, NEW c \in Tasks,
             \/ Spawn(p, c) \/ Wait(p, c) \/ CancelJoin(p, c) \/ Detach(p, c) \/ Release(p, c) \/ Add(p, c)
      PROVE  ResultInv'
  <2>1. UNCHANGED <<taken, result, freed>> /\ cancelled \subseteq cancelled'
    BY <1>1 DEF Spawn, Wait, CancelJoin, Detach, Release, Add
  <2> QED BY <2>1, SameResults
<1>2. ASSUME NEW p \in Tasks,
             \/ Park(p) \/ Unpark(p) \/ CancelClaims(p) \/ WaitStops(p) \/ Finish(p)
             \/ Added(p) \/ Asks(p, "nexts") \/ Asks(p, "settles") \/ Asks(p, "cancels") \/ Asks(p, "releasesGroup")
             \/ Unblocks(p, "nextWaits", "nexts") \/ Unblocks(p, "settleWaits", "settles")
             \/ NextEnds(p) \/ NextBlocks(p) \/ SettleFails(p) \/ SettleEnds(p) \/ SettleBlocks(p)
      PROVE  ResultInv'
  <2>1. CASE \/ Park(p) \/ Unpark(p) \/ CancelClaims(p) \/ WaitStops(p) \/ Finish(p)
             \/ Added(p) \/ Asks(p, "nexts") \/ Asks(p, "settles") \/ Asks(p, "cancels") \/ Asks(p, "releasesGroup")
    <3>1. UNCHANGED <<taken, result, freed, cancelled>>
      BY <2>1 DEF Park, Unpark, CancelClaims, WaitStops, Finish, Added, Asks
    <3> QED BY <3>1, SameResults
  <2>2. CASE \/ Unblocks(p, "nextWaits", "nexts") \/ Unblocks(p, "settleWaits", "settles")
             \/ NextEnds(p) \/ NextBlocks(p) \/ SettleFails(p) \/ SettleEnds(p) \/ SettleBlocks(p)
    <3>1. UNCHANGED <<taken, result, freed, cancelled>>
      BY <2>2 DEF Unblocks, Blocks, NextEnds, NextBlocks, SettleFails, SettleEnds, SettleBlocks
    <3> QED BY <3>1, SameResults
  <2> QED BY <1>2, <2>1, <2>2
<1>3. ASSUME NEW p \in Tasks, CancelMember(p) \/ FreeMember(p) \/ GroupFreed(p) \/ Complete(p) \/ Retain(p)
      PROVE  ResultInv'
  <2>1. UNCHANGED <<taken, result, freed>> /\ cancelled \subseteq cancelled'
    BY <1>3 DEF CancelMember, FreeMember, GroupFreed, Complete, Retain
  <2> QED BY <2>1, SameResults
<1>4. ASSUME NEW p \in Tasks, NEW c \in Tasks, Take(p, c) PROVE ResultInv'
  <2>1. taken' = taken \cup {c} /\ result' = [result EXCEPT ![c] = "given"] /\ UNCHANGED <<freed, cancelled>>
    BY <1>4 DEF Take, Give
  <2> QED BY <2>1, GiveResults
<1>5. ASSUME NEW p \in Tasks, WaitEnds(p) PROVE ResultInv'
  <2>1. on[p] \in Tasks BY <1>5 DEF WaitEnds, At, Books, OnInv, On
  <2>2. taken' = taken \cup {on[p]} /\ result' = [result EXCEPT ![on[p]] = "given"] /\ UNCHANGED <<freed, cancelled>>
    BY <1>5 DEF WaitEnds, Give
  <2> QED BY <2>1, <2>2, GiveResults
<1>6. ASSUME NEW p \in Tasks, GroupCancelled(p) PROVE ResultInv'
  <2>1. CASE on[p] = None
    <3>1. UNCHANGED <<taken, result, freed, cancelled>> BY <1>6, <2>1 DEF GroupCancelled
    <3> QED BY <3>1, SameResults
  <2>2. CASE on[p] # None
    <3>1. on[p] \in Tasks BY <2>2 DEF Types
    <3>2. taken' = taken \cup {on[p]} /\ result' = [result EXCEPT ![on[p]] = "given"]
          /\ UNCHANGED <<freed, cancelled>>
      BY <1>6, <2>2 DEF GroupCancelled, Give
    <3> QED BY <3>1, <3>2, GiveResults
  <2> QED BY <2>1, <2>2
<1>7. ASSUME NEW p \in Tasks, NextGives(p) PROVE ResultInv'
  <2> DEFINE c == finished[p][Left(p)]
             how == IF p \in cancelled THEN "lost" ELSE "given"
  <2>1. Left(p) # 0 /\ pc[p] = "nexts" /\ taken' = taken \cup {c} /\ result' = [result EXCEPT ![c] = how]
        /\ UNCHANGED <<freed, cancelled>>
    BY <1>7 DEF NextGives, At
  <2>2. c \in Tasks BY <2>1, LeftHolds
  <2>3. p \in Groupers BY <2>1 DEF GroupersInv
  <2>4. how \in {"given", "lost"} /\ (how = "lost" => cancelled \cap Groupers # {}) BY <2>3
  <2> HIDE DEF c, how
  <2> QED BY <2>1, <2>2, <2>4, GiveResults
<1>8. ASSUME NEW p \in Tasks, Takes(p) PROVE ResultInv'
  <2> DEFINE left == Members(p) \ got
  <2>1. taken' = taken \cup left /\ result' = [c \in Tasks |-> IF c \in left THEN "given" ELSE result[c]]
        /\ UNCHANGED <<freed, cancelled>>
    BY <1>8 DEF Takes
  <2> HIDE DEF left
  <2> QED BY <2>1 DEF ResultInv
<1>9. ASSUME NEW p \in Tasks, Frees(p) \/ MemberFreed(p) PROVE ResultInv'
  <2>1. on[p] \in Tasks BY <1>9, Grouping DEF Frees, MemberFreed, At, Books, OnInv, On
  <2>2. Free(on[p]) /\ UNCHANGED <<taken, cancelled>> BY <1>9 DEF Frees, MemberFreed
  <2> QED BY <2>1, <2>2, FreeResults
<1>10. ASSUME NEW c \in Tasks, Drop(c), UNCHANGED <<taken, cancelled>> PROVE ResultInv'
  <2>1. CASE rc[c] = 1 BY <1>10, <2>1, FreeResults DEF Drop
  <2>2. CASE rc[c] # 1
    <3>1. UNCHANGED <<freed, result>> BY <1>10, <2>2 DEF Drop
    <3> QED BY <1>10, <3>1, SameResults
  <2> QED BY <2>1, <2>2
<1>11. ASSUME NEW p \in Tasks, LetGo(p) PROVE ResultInv'
  BY <1>10, <1>11 DEF LetGo
<1>12. ASSUME NEW p \in Tasks, End(p) PROVE ResultInv'
  <2>1. pc[p] = "code" /\ UNCHANGED <<taken, freed, cancelled>>
        /\ (result' = result \/ result' = [result EXCEPT ![p] = "join"])
    BY <1>12 DEF End, Code, At
  <2>2. p \notin taken /\ p \notin freed BY <2>1 DEF Books, LifeInv, HearInv
  <2> QED BY <2>1, <2>2 DEF ResultInv, MoreTypes
<1>13. CASE Ends
  <2>1. ASSUME NEW c \in Tasks, EndDetached \/ EndCancels(c) PROVE ResultInv'
    <3>1. UNCHANGED <<taken, result, freed>> /\ cancelled \subseteq cancelled'
      BY <2>1 DEF EndDetached, EndCancels
    <3> QED BY <3>1, SameResults
  <2>2. CASE EndReleases
    <3>1. on[MainTask] \in Tasks BY <2>2, JoinsAssumption DEF EndReleases, Types, Books, OnInv, On, At
    <3> QED BY <1>10, <2>2, <3>1 DEF EndReleases
  <2> QED BY <1>13, <2>1, <2>2, JoinsAssumption DEF Ends
<1>14. CASE UNCHANGED vars
  <2>1. UNCHANGED <<taken, result, freed, cancelled>> BY <1>14 DEF vars
  <2> QED BY <2>1, SameResults
<1>15. ASSUME NEW p \in Tasks, Goes(p) PROVE ResultInv'
  BY <1>1, <1>2, <1>3, <1>5, <1>6, <1>7, <1>8, <1>9, <1>11, <1>12, <1>15 DEF Goes
<1>16. ASSUME NEW p \in Tasks, Chooses(p) PROVE ResultInv'
  BY <1>1, <1>2, <1>4, <1>16 DEF Chooses
<1> QED BY <1>13, <1>14, <1>15, <1>16 DEF Next

\* As long as no task that has a group is cancelled, no result is lost.
LEMMA KeptHolds ==
  ASSUME MoreTypes, ResultInv, cancelled \cap Groupers = {}
  PROVE  ResultKept
<1> SUFFICES ASSUME NEW c \in Tasks
             PROVE  /\ result[c] # "lost"
                    /\ c \in freed => result[c] = IF c \in taken THEN "given" ELSE "released"
  BY DEF ResultKept
<1> QED BY DEF ResultInv

-----------------------------------------------------------------------------
(* No task is left: one that runs is detached, or another runs that holds it. *)

Holds(p, c) == owner[c] = p \/ c \in Members(p) \/ (pc[p] = "frees" /\ on[p] = c)
\* Where a task holds no other.
Closed == MainPcs \cup Ended \cup {"completes", "unborn"}

HolderInv ==
  /\ \A c \in Tasks \ {MainTask} : pc[c] # "unborn" /\ c \notin done =>
       c \in DETACHED \/ \E p \in Tasks : Holds(p, c)
  /\ \A c \in detached : c \in DETACHED \/ c \in done
  /\ \A p, c \in Tasks : Holds(p, c) => pc[p] \notin Closed

\* The order in which the tasks started: nobody holds, through others, itself.
Ranks(rank) == \A p, c \in Tasks : Holds(p, c) => rank[p] < rank[c]
RankInv == \E rank \in [Tasks -> Nat] : Ranks(rank)

LEMMA InitHolds == Init => HolderInv /\ RankInv
<1> SUFFICES ASSUME Init PROVE HolderInv /\ RankInv
  OBVIOUS
<1>1. /\ pc = [t \in Tasks |-> IF t = MainTask THEN "code" ELSE "unborn"]
      /\ owner = [t \in Tasks |-> None] /\ members = [t \in Tasks |-> <<>>] /\ detached = {}
  BY DEF Init
<1>2. \A p \in Tasks : Members(p) = {} BY <1>1 DEF Members, ToSet
<1>3. \A p, c \in Tasks : ~Holds(p, c) BY <1>1, <1>2, NoneNot DEF Holds
<1>4. HolderInv BY <1>1, <1>3 DEF HolderInv
<1>5. RankInv
  <2>1. [t \in Tasks |-> 0] \in [Tasks -> Nat] OBVIOUS
  <2> QED BY <1>3, <2>1 DEF RankInv, Ranks
<1> QED BY <1>4, <1>5

\* No step but Spawn gives a task one more to hold.
Keeps ==
  /\ done \subseteq done'
  /\ \A c \in detached' : c \in detached \/ c \in DETACHED'
  /\ \A c \in DETACHED : c \in DETACHED' \/ c \in done'
  /\ \A p, c \in Tasks : Holds(p, c)' => Holds(p, c)
  /\ \A p, c \in Tasks : Holds(p, c) => c \in DETACHED' \/ c \in done' \/ Holds(p, c)'
  /\ \A p, c \in Tasks : Holds(p, c)' => pc'[p] \notin Closed
  /\ \A c \in Tasks : pc'[c] # "unborn" => pc[c] # "unborn"

LEMMA KeepsHolders == ASSUME Types, HolderInv, RankInv, Keeps PROVE HolderInv' /\ RankInv'
<1>1. \A c \in Tasks \ {MainTask} : pc'[c] # "unborn" /\ c \notin done' =>
        c \in DETACHED' \/ \E p \in Tasks : Holds(p, c)'
  <2> SUFFICES ASSUME NEW c \in Tasks \ {MainTask}, pc'[c] # "unborn", c \notin done', c \notin DETACHED'
               PROVE  \E p \in Tasks : Holds(p, c)'
    OBVIOUS
  <2>1. pc[c] # "unborn" /\ c \notin done /\ c \notin DETACHED BY DEF Keeps
  <2>2. PICK p \in Tasks : Holds(p, c) BY <2>1 DEF HolderInv
  <2>3. Holds(p, c)' BY <2>2 DEF Keeps
  <2> QED BY <2>3
<1>2. \A c \in detached' : c \in DETACHED' \/ c \in done' BY DEF HolderInv, Keeps
<1>3. \A p, c \in Tasks : Holds(p, c)' => pc'[p] \notin Closed BY DEF Keeps
<1>4. HolderInv' BY <1>1, <1>2, <1>3 DEF HolderInv
<1>5. RankInv'
  <2>1. PICK rank \in [Tasks -> Nat] : Ranks(rank) BY DEF RankInv
  <2>2. \A p, c \in Tasks : Holds(p, c)' => rank[p] < rank[c] BY <2>1 DEF Ranks, Keeps
  <2> QED BY <2>2 DEF RankInv, Ranks
<1> QED BY <1>4, <1>5

LEMMA SpawnHolds ==
  ASSUME Types, Books, HolderInv, RankInv, NEW p \in Tasks, NEW c \in Tasks, Spawn(p, c)
  PROVE  HolderInv' /\ RankInv'
<1> USE NoneNot DEF waitVars, countVars, endVars, groupVars, listVars
<1>0. pc \in [Tasks -> Pcs] /\ owner \in [Tasks -> Tasks \cup {None}] BY DEF Types
<1>1. /\ pc[p] = "code" /\ pc[c] = "unborn" /\ pc' = [pc EXCEPT ![c] = "code"] /\ owner' = [owner EXCEPT ![c] = p]
      /\ UNCHANGED <<on, members, done, detached, DETACHED>>
  BY DEF Spawn
<1>2. \A q \in Tasks : Members(q)' = Members(q) BY <1>1 DEF Members
<1>3. \A q \in Tasks : ~Holds(q, c) BY <1>1 DEF Books, LifeInv, Holds, Grouped, Freeing
<1>4. \A d \in Tasks : ~Holds(c, d) BY <1>1 DEF HolderInv, Closed
<1>5. \A q, d \in Tasks : Holds(q, d)' <=> Holds(q, d) \/ (q = p /\ d = c)
  BY <1>0, <1>1, <1>2, <1>3 DEF Holds
<1>6. HolderInv'
  <2>1. \A d \in Tasks : pc'[d] = IF d = c THEN "code" ELSE pc[d] BY <1>0, <1>1
  <2>2. \A d \in Tasks \ {MainTask} : pc'[d] # "unborn" /\ d \notin done' =>
          d \in DETACHED' \/ \E q \in Tasks : Holds(q, d)'
    BY <1>1, <1>5, <2>1 DEF HolderInv
  <2>3. \A q, d \in Tasks : Holds(q, d)' => pc'[q] \notin Closed
    BY <1>1, <1>5, <2>1 DEF HolderInv, Closed
  <2> QED BY <1>1, <2>2, <2>3 DEF HolderInv
<1>7. RankInv'
  <2>1. PICK rank \in [Tasks -> Nat] : Ranks(rank) BY DEF RankInv
  <2> DEFINE new == [rank EXCEPT ![c] = rank[p] + 1]
  <2>2. new \in [Tasks -> Nat] /\ new[c] = rank[p] + 1 /\ (\A d \in Tasks \ {c} : new[d] = rank[d])
    OBVIOUS
  <2>3. p # c BY <1>1
  <2> HIDE DEF new
  <2>4. \A q, d \in Tasks : Holds(q, d)' => new[q] < new[d]
    <3> SUFFICES ASSUME NEW q \in Tasks, NEW d \in Tasks, Holds(q, d)' PROVE new[q] < new[d]
      OBVIOUS
    <3>1. CASE Holds(q, d)
      <4>1. rank[q] < rank[d] BY <2>1, <3>1 DEF Ranks
      <4>2. q # c /\ d # c BY <1>3, <1>4, <3>1
      <4> QED BY <2>2, <4>1, <4>2
    <3>2. CASE q = p /\ d = c
      <4>1. rank[p] < rank[p] + 1 BY <2>1
      <4> QED BY <2>2, <2>3, <3>2, <4>1
    <3> QED BY <1>5, <3>1, <3>2
  <2> QED BY <2>2, <2>4 DEF RankInv, Ranks
<1> QED BY <1>6, <1>7

\* Steps in which no handle moves.
Stays(p) ==
  /\ UNCHANGED <<owner, members, detached, DETACHED>> /\ done \subseteq done'
  /\ \A q \in Tasks \ {p} : pc'[q] = pc[q] /\ on'[q] = on[q]
  /\ pc[p] \notin {"frees", "unborn"} /\ pc'[p] \notin {"frees", "unborn"}
  /\ pc'[p] \in Closed => pc[p] \in Closed \/ (members[p] = <<>> /\ \A c \in Tasks : owner[c] # p)

LEMMA StaysKeeps == ASSUME HolderInv, NEW p \in Tasks, Stays(p) PROVE Keeps
<1>1. \A q \in Tasks : Members(q)' = Members(q) BY DEF Stays, Members
<1>2. \A q, c \in Tasks : Holds(q, c)' <=> Holds(q, c) BY <1>1 DEF Stays, Holds
<1>3. \A q, c \in Tasks : Holds(q, c)' => pc'[q] \notin Closed
  <2> SUFFICES ASSUME NEW q \in Tasks, NEW c \in Tasks, Holds(q, c), pc'[q] \in Closed PROVE FALSE
    BY <1>2
  <2>1. pc[q] \notin Closed BY DEF HolderInv
  <2>2. q = p /\ members[p] = <<>> /\ owner[c] # p BY <2>1 DEF Stays
  <2>3. c \notin Members(p) BY <2>2 DEF Members, ToSet
  <2> QED BY <2>2, <2>3 DEF Holds, Stays
<1>4. \A c \in Tasks : pc'[c] # "unborn" => pc[c] # "unborn" BY DEF Stays
<1>5. done \subseteq done' /\ UNCHANGED <<detached, DETACHED>> BY DEF Stays
<1> QED BY <1>2, <1>3, <1>4, <1>5 DEF Keeps

LEMMA StaySteps ==
  ASSUME Types, Books, NEW p \in Tasks,
         \/ Park(p) \/ Unpark(p) \/ CancelClaims(p) \/ WaitEnds(p) \/ WaitStops(p) \/ Finish(p) \/ Added(p)
         \/ Asks(p, "nexts") \/ Asks(p, "settles") \/ Asks(p, "cancels") \/ Asks(p, "releasesGroup")
         \/ Unblocks(p, "nextWaits", "nexts") \/ Unblocks(p, "settleWaits", "settles")
         \/ NextGives(p) \/ NextEnds(p) \/ NextBlocks(p) \/ SettleFails(p) \/ SettleEnds(p) \/ SettleBlocks(p)
         \/ Takes(p) \/ CancelMember(p) \/ GroupCancelled(p) \/ FreeMember(p) \/ MemberFreed(p)
         \/ End(p) \/ Complete(p) \/ LetGo(p)
         \/ \E c \in Tasks : Take(p, c) \/ Wait(p, c) \/ CancelJoin(p, c)
  PROVE  Stays(p)
<1> USE DEF At, Code, Works, waitVars, countVars, endVars, groupVars, listVars, Stays, Closed
<1>0. pc \in [Tasks -> Pcs] /\ on \in [Tasks -> Tasks \cup {None}] BY DEF Types
<1>1. CASE Park(p) \/ Unpark(p) \/ CancelClaims(p) \/ Finish(p) \/ WaitEnds(p) \/ WaitStops(p) \/ Added(p)
  BY <1>0, <1>1 DEF Park, Unpark, CancelClaims, Finish, WaitEnds, WaitStops, Added
<1>2. CASE \/ Asks(p, "nexts") \/ Asks(p, "settles") \/ Asks(p, "cancels") \/ Asks(p, "releasesGroup")
           \/ Unblocks(p, "nextWaits", "nexts") \/ Unblocks(p, "settleWaits", "settles")
  BY <1>0, <1>2 DEF Asks, Unblocks
<1>3. CASE NextGives(p) \/ NextEnds(p) \/ NextBlocks(p)
  BY <1>0, <1>3 DEF NextGives, NextEnds, NextBlocks, Blocks
<1>4. CASE SettleFails(p) \/ SettleEnds(p) \/ SettleBlocks(p) \/ Takes(p)
  BY <1>0, <1>4 DEF SettleFails, SettleEnds, SettleBlocks, Blocks, Takes
<1>5. CASE CancelMember(p) \/ GroupCancelled(p) \/ MemberFreed(p) \/ LetGo(p)
  BY <1>0, <1>5 DEF CancelMember, GroupCancelled, MemberFreed, LetGo
<1>6. CASE FreeMember(p)
  <2>1. PICK c \in Members(p) \ freed : on' = [on EXCEPT ![p] = c] BY <1>6, FreesOne
  <2> QED BY <1>0, <1>6, <2>1 DEF FreeMember
<1>7. CASE End(p) BY <1>0, <1>7 DEF End
<1>8. CASE Complete(p) BY <1>0, <1>8 DEF Complete
<1>9. CASE \E c \in Tasks : Take(p, c) \/ Wait(p, c) \/ CancelJoin(p, c)
  BY <1>0, <1>9 DEF Take, Wait, CancelJoin
<1> QED BY <1>1, <1>2, <1>3, <1>4, <1>5, <1>6, <1>7, <1>8, <1>9

LEMMA MainStays ==
  ASSUME Types, EndDetached \/ EndReleases \/ \E c \in Tasks : EndCancels(c)
  PROVE  Stays(MainTask)
<1>1. pc \in [Tasks -> Pcs] /\ on \in [Tasks -> Tasks \cup {None}] BY DEF Types
<1> QED BY <1>1, JoinsAssumption
  DEF EndDetached, EndReleases, EndCancels, At, Works, Stays, Closed, waitVars, countVars, endVars, groupVars, listVars

\* Steps that move a handle: to another place of its task, to where it is let go, or away.
LEMMA MovesKeep ==
  ASSUME Types, Books, HolderInv, NEW p \in Tasks,
         \/ Frees(p) \/ GroupFreed(p) \/ Retain(p)
         \/ \E c \in Tasks : Detach(p, c) \/ Release(p, c) \/ Add(p, c)
  PROVE  Keeps
<1> USE NoneNot DEF At, Code, Works, waitVars, countVars, endVars, groupVars, listVars
<1>0. pc \in [Tasks -> Pcs] /\ on \in [Tasks -> Tasks \cup {None}] /\ owner \in [Tasks -> Tasks \cup {None}]
      /\ members \in [Tasks -> Seq(Tasks)]
  BY DEF Types
<1>1. \A q, d \in Tasks : Holds(q, d) => pc[q] \notin Closed BY DEF HolderInv
<1>2. CASE Frees(p)
  <2>1. /\ pc[p] = "frees" /\ pc' = [pc EXCEPT ![p] = "code"] /\ on' = [on EXCEPT ![p] = None] /\ on[p] \in done
        /\ UNCHANGED <<owner, members, done, detached, DETACHED>>
    BY <1>2 DEF Frees
  <2>2. \A q \in Tasks : Members(q)' = Members(q) BY <2>1 DEF Members
  <2>3. \A q, d \in Tasks : Holds(q, d)' => Holds(q, d) BY <1>0, <2>1, <2>2 DEF Holds
  <2>4. \A q, d \in Tasks : Holds(q, d) => d \in done \/ Holds(q, d)' BY <1>0, <2>1, <2>2 DEF Holds
  <2>5. \A q \in Tasks : pc'[q] = IF q = p THEN "code" ELSE pc[q] BY <1>0, <2>1
  <2>6. \A q, d \in Tasks : Holds(q, d)' => pc'[q] \notin Closed BY <1>1, <2>3, <2>5 DEF Closed
  <2> QED BY <2>1, <2>3, <2>4, <2>5, <2>6 DEF Keeps
<1>3. CASE GroupFreed(p)
  <2>1. /\ pc[p] = "releasesGroup" /\ pc' = [pc EXCEPT ![p] = "code"] /\ Members(p) \subseteq freed
        /\ members' = [members EXCEPT ![p] = <<>>] /\ UNCHANGED <<on, owner, done, detached, DETACHED>>
    BY <1>3 DEF GroupFreed
  <2>2. \A q \in Tasks : Members(q)' = IF q = p THEN {} ELSE Members(q) BY <1>0, <2>1 DEF Members, ToSet
  <2>3. Members(p) \subseteq done BY <2>1, Grouping DEF Books, LifeInv
  <2>4. \A q, d \in Tasks : Holds(q, d)' => Holds(q, d) BY <1>0, <2>1, <2>2 DEF Holds
  <2>5. \A q, d \in Tasks : Holds(q, d) => d \in done \/ Holds(q, d)' BY <1>0, <2>1, <2>2, <2>3 DEF Holds
  <2>6. \A q \in Tasks : pc'[q] = IF q = p THEN "code" ELSE pc[q] BY <1>0, <2>1
  <2>7. \A q, d \in Tasks : Holds(q, d)' => pc'[q] \notin Closed BY <1>1, <2>4, <2>6 DEF Closed
  <2> QED BY <2>1, <2>4, <2>5, <2>6, <2>7 DEF Keeps
<1>4. CASE Retain(p)
  <2>1. /\ pc[p] = "retains" /\ pc' = [pc EXCEPT ![p] = "letsGo"] /\ DETACHED' = DETACHED \ {p}
        /\ UNCHANGED <<on, owner, members, done, detached>>
    BY <1>4 DEF Retain
  <2>2. \A q \in Tasks : Members(q)' = Members(q) BY <2>1 DEF Members
  <2>3. p \in done BY <2>1 DEF Books, LifeInv
  <2>4. \A q, d \in Tasks : Holds(q, d)' <=> Holds(q, d) BY <1>0, <2>1, <2>2 DEF Holds
  <2>5. \A q \in Tasks : pc'[q] = IF q = p THEN "letsGo" ELSE pc[q] BY <1>0, <2>1
  <2>6. \A d \in Tasks : ~Holds(p, d) BY <1>1, <2>1 DEF Closed
  <2>7. \A q, d \in Tasks : Holds(q, d)' => pc'[q] \notin Closed BY <1>1, <2>4, <2>5, <2>6
  <2> QED BY <2>1, <2>3, <2>4, <2>5, <2>7 DEF Keeps
<1>5. ASSUME NEW c \in Tasks, Detach(p, c) PROVE Keeps
  <2>1. /\ pc[p] = "code" /\ pc' = [pc EXCEPT ![p] = "releases"] /\ on' = [on EXCEPT ![p] = c]
        /\ UNCHANGED <<owner, members, done>>
        /\ (UNCHANGED <<detached, DETACHED>>) \/ (detached' = detached \cup {c} /\ DETACHED' = DETACHED \cup {c})
    BY <1>5 DEF Detach
  <2>2. \A q \in Tasks : Members(q)' = Members(q) BY <2>1 DEF Members
  <2>3. \A q, d \in Tasks : Holds(q, d)' <=> Holds(q, d) BY <1>0, <2>1, <2>2 DEF Holds
  <2>4. \A q \in Tasks : pc'[q] = IF q = p THEN "releases" ELSE pc[q] BY <1>0, <2>1
  <2>5. \A q, d \in Tasks : Holds(q, d)' => pc'[q] \notin Closed BY <1>1, <2>3, <2>4 DEF Closed
  <2> QED BY <2>1, <2>3, <2>4, <2>5 DEF Keeps
<1>6. ASSUME NEW c \in Tasks, Release(p, c) PROVE Keeps
  <2>1. /\ owner[c] = p /\ owner' = [owner EXCEPT ![c] = None]
        /\ pc[p] = "code" \/ (pc[p] = "releases" /\ on[p] = c)
        /\ UNCHANGED <<members, done, detached, DETACHED>>
    BY <1>6 DEF Release
  <2>2. \/ rc[c] > 1 /\ pc' = [pc EXCEPT ![p] = "code"] /\ on' = [on EXCEPT ![p] = None]
        \/ ~(rc[c] > 1) /\ pc' = [pc EXCEPT ![p] = "frees"] /\ on' = [on EXCEPT ![p] = c]
    BY <1>6 DEF Release
  <2>3. \A q \in Tasks : Members(q)' = Members(q) BY <2>1 DEF Members
  <2>4. rc[c] > 1 => c \in detached
    <3>1. HandleCount(c) = 1 /\ (c \notin detached => HoldCount(c) = 0 /\ TodoCount(c) = 0)
      BY <2>1 DEF HandleCount, HoldCount, TodoCount, Books, DetachInv
    <3>2. rc[c] = HandleCount(c) + HoldCount(c) + TodoCount(c) BY DEF Books, CountInv
    <3> QED BY <3>1, <3>2
  <2>5. \A q, d \in Tasks : Holds(q, d)' => Holds(q, d) BY <1>0, <2>1, <2>2, <2>3 DEF Holds
  <2>6. \A q, d \in Tasks : Holds(q, d) => Holds(q, d)' \/ (d = c /\ rc[c] > 1)
    BY <1>0, <2>1, <2>2, <2>3 DEF Holds
  <2>7. \A q \in Tasks : pc'[q] = pc[q] \/ (q = p /\ pc'[q] \in {"code", "frees"}) BY <1>0, <2>2
  <2>8. \A q, d \in Tasks : Holds(q, d)' => pc'[q] \notin Closed BY <1>1, <2>5, <2>7 DEF Closed
  <2>9. c \in detached => c \in DETACHED \/ c \in done BY DEF HolderInv
  <2>10. \A q \in Tasks : pc'[q] # "unborn" => pc[q] # "unborn" BY <1>0, <2>1, <2>2
  <2> QED BY <2>1, <2>4, <2>5, <2>6, <2>8, <2>9, <2>10 DEF Keeps
<1>7. ASSUME NEW c \in Tasks, Add(p, c) PROVE Keeps
  <2>1. /\ pc[p] = "code" /\ pc' = [pc EXCEPT ![p] = "adds"] /\ on' = [on EXCEPT ![p] = c]
        /\ owner[c] = p /\ owner' = [owner EXCEPT ![c] = None]
        /\ members' = [members EXCEPT ![p] = Append(@, c)]
        /\ UNCHANGED <<done, detached, DETACHED>>
    BY <1>7 DEF Add, Mine
  <2>2. \A q \in Tasks : Members(q)' = IF q = p THEN Members(p) \cup {c} ELSE Members(q)
    <3>1. ToSet(Append(members[p], c)) = ToSet(members[p]) \cup {c} BY <1>0, AppendHolds
    <3> QED BY <1>0, <2>1, <3>1 DEF Members
  <2>3. \A q, d \in Tasks : Holds(q, d)' <=> Holds(q, d) BY <1>0, <2>1, <2>2 DEF Holds
  <2>4. \A q \in Tasks : pc'[q] = IF q = p THEN "adds" ELSE pc[q] BY <1>0, <2>1
  <2>5. \A q, d \in Tasks : Holds(q, d)' => pc'[q] \notin Closed BY <1>1, <2>3, <2>4 DEF Closed
  <2> QED BY <2>1, <2>3, <2>4, <2>5 DEF Keeps
<1> QED BY <1>2, <1>3, <1>4, <1>5, <1>6, <1>7

LEMMA HolderStep ==
  ASSUME Types, Books, HolderInv, RankInv, [Next]_vars
  PROVE  HolderInv' /\ RankInv'
<1>1. ASSUME NEW p \in Tasks, Stays(p) PROVE Keeps BY <1>1, StaysKeeps
<1>2. ASSUME NEW p \in Tasks, Goes(p) PROVE Keeps
  BY <1>1, <1>2, StaySteps, MovesKeep DEF Goes
<1>3. ASSUME NEW p \in Tasks, NEW c \in Tasks,
             Take(p, c) \/ Wait(p, c) \/ CancelJoin(p, c) \/ Detach(p, c) \/ Add(p, c)
      PROVE  Keeps
  BY <1>1, <1>3, StaySteps, MovesKeep
<1>4. ASSUME NEW p \in Tasks, Chooses(p) PROVE Keeps \/ \E c \in Tasks : Spawn(p, c)
  BY <1>1, <1>3, <1>4, StaySteps DEF Chooses
<1>5. ASSUME Ends PROVE Keeps BY <1>1, <1>5, MainStays, JoinsAssumption DEF Ends
<1>6. ASSUME UNCHANGED vars PROVE Keeps
  <2>1. UNCHANGED <<pc, on, owner, members, done, detached, DETACHED>>
    BY <1>6 DEF vars, endVars, groupVars, listVars
  <2>2. \A q, c \in Tasks : Holds(q, c)' <=> Holds(q, c) BY <2>1 DEF Holds, Members
  <2> QED BY <2>1, <2>2 DEF Keeps, HolderInv
<1>7. Keeps \/ \E p, c \in Tasks : Spawn(p, c) BY <1>2, <1>4, <1>5, <1>6 DEF Next
<1> QED BY <1>7, KeepsHolders, SpawnHolds

\* `main` comes to its end when the list of detached tasks is empty: then no task runs,
\* for the one that started first of those that do would be held by one before it.
LEMMA EndsAlone ==
  ASSUME Types, Books, HolderInv, RankInv, EndDetached, DETACHED = {}
  PROVE  \A c \in Tasks \ {MainTask} : pc[c] = "unborn" \/ c \in done
<1> DEFINE Runs == {c \in Tasks \ {MainTask} : pc[c] # "unborn" /\ c \notin done}
<1>1. PICK rank \in [Tasks -> Nat] : Ranks(rank) BY DEF RankInv
<1>2. SUFFICES ASSUME Runs # {} PROVE FALSE
  OBVIOUS
<1> DEFINE R == {rank[c] : c \in Runs}
<1>3. R \subseteq Nat /\ R # {} BY <1>2
<1>4. PICK c \in Runs : rank[c] = Min(R) BY <1>3, Least
<1>5. \A d \in Runs : rank[c] <= rank[d]
  <2> HIDE DEF Runs
  <2>1. \A r \in R : Min(R) <= r BY <1>3, Least
  <2> QED BY <1>4, <2>1
<1>6. PICK p \in Tasks : Holds(p, c) BY DEF HolderInv
<1>7. rank[p] < rank[c] BY <1>1, <1>6 DEF Ranks
<1>8. pc[p] \notin Closed BY <1>6 DEF HolderInv
<1>9. pc[MainTask] = "ends" BY DEF EndDetached, At
<1>10. p \in Runs
  <2>1. p # MainTask BY <1>8, <1>9 DEF Closed
  <2>2. pc[p] # "unborn" /\ p \notin done BY <1>8 DEF Closed, Books, LifeInv
  <2> QED BY <2>1, <2>2
<1>11. rank[c] <= rank[p] BY <1>5, <1>10
<1>12. rank[c] \in Nat /\ rank[p] \in Nat OBVIOUS
<1> QED BY <1>7, <1>11, <1>12

\* When none runs, none starts.
Over == pc[MainTask] = "over" => \A c \in Tasks : pc[c] \in Ended \cup {"unborn", "over"}

LEMMA OverStep ==
  ASSUME Types, Books, RootInv, HolderInv, RankInv, Over, [Next]_vars
  PROVE  Over'
<1> USE DEF At, Code, Works, waitVars, countVars, endVars, groupVars, listVars
<1>0. pc \in [Tasks -> Pcs] /\ on \in [Tasks -> Tasks \cup {None}] BY DEF Types
<1>1. SUFFICES ASSUME pc'[MainTask] = "over"
               PROVE  \A c \in Tasks : pc'[c] \in Ended \cup {"unborn", "over"}
  BY DEF Over
<1>2. CASE EndDetached
  <2>1. DETACHED = {} /\ pc' = [pc EXCEPT ![MainTask] = "over"]
    BY <1>0, <1>1, <1>2, JoinsAssumption DEF EndDetached
  <2>2. \A c \in Tasks \ {MainTask} : pc[c] = "unborn" \/ c \in done BY <1>2, <2>1, EndsAlone
  <2>3. \A c \in Tasks \ {MainTask} : pc[c] \in Ended \cup {"unborn"} BY <2>2 DEF Books, LifeInv
  <2> QED BY <1>0, <2>1, <2>3
<1>3. CASE EndReleases \/ \E c \in Tasks : EndCancels(c)
  BY <1>0, <1>1, <1>3, JoinsAssumption DEF EndReleases, EndCancels
<1>4. ASSUME NEW p \in Tasks, NEW c \in Tasks,
             \/ Spawn(p, c) \/ Take(p, c) \/ Wait(p, c) \/ CancelJoin(p, c) \/ Detach(p, c) \/ Release(p, c)
             \/ Add(p, c)
      PROVE  pc[MainTask] = "over" /\ pc[p] \in {"code", "releases"}
  BY <1>0, <1>1, <1>4, JoinsAssumption DEF Spawn, Take, Wait, CancelJoin, Detach, Release, Add
<1>5. ASSUME NEW p \in Tasks, NEW c \in Tasks,
             \/ Spawn(p, c) \/ Take(p, c) \/ Wait(p, c) \/ CancelJoin(p, c) \/ Detach(p, c) \/ Release(p, c)
             \/ Add(p, c)
      PROVE  FALSE
  <2>1. pc[MainTask] = "over" /\ pc[p] \in {"code", "releases"} BY <1>4, <1>5
  <2> QED BY <2>1 DEF Over
<1>6. ASSUME NEW p \in Tasks,
             \/ Park(p) \/ Unpark(p) \/ CancelClaims(p) \/ WaitEnds(p) \/ WaitStops(p) \/ Finish(p) \/ Frees(p)
             \/ Added(p) \/ Asks(p, "nexts") \/ Asks(p, "settles") \/ Asks(p, "cancels") \/ Asks(p, "releasesGroup")
      PROVE  FALSE
  <2>1. pc[MainTask] = "over" /\ pc[p] \notin Ended \cup {"unborn", "over"}
    BY <1>0, <1>1, <1>6, JoinsAssumption
    DEF Park, Unpark, CancelClaims, WaitEnds, WaitStops, Finish, Frees, Added, Asks
  <2> QED BY <2>1 DEF Over
<1>7. ASSUME NEW p \in Tasks,
             \/ Unblocks(p, "nextWaits", "nexts") \/ Unblocks(p, "settleWaits", "settles")
             \/ NextGives(p) \/ NextEnds(p) \/ NextBlocks(p) \/ SettleFails(p) \/ SettleEnds(p) \/ SettleBlocks(p)
      PROVE  FALSE
  <2>1. pc[MainTask] = "over" /\ pc[p] \notin Ended \cup {"unborn", "over"}
    BY <1>0, <1>1, <1>7, JoinsAssumption
    DEF Unblocks, Blocks, NextGives, NextEnds, NextBlocks, SettleFails, SettleEnds, SettleBlocks
  <2> QED BY <2>1 DEF Over
<1>8. ASSUME NEW p \in Tasks,
             \/ Takes(p) \/ CancelMember(p) \/ GroupCancelled(p) \/ FreeMember(p) \/ MemberFreed(p) \/ GroupFreed(p)
             \/ End(p) \/ Complete(p)
      PROVE  FALSE
  <2>1. pc[MainTask] = "over" /\ pc[p] \notin Ended \cup {"unborn", "over"}
    BY <1>0, <1>1, <1>8, JoinsAssumption
    DEF Takes, CancelMember, GroupCancelled, FreeMember, MemberFreed, GroupFreed, End, Complete
  <2> QED BY <2>1 DEF Over
<1>9. ASSUME NEW p \in Tasks, Retain(p) \/ LetGo(p)
      PROVE  \A c \in Tasks : pc'[c] \in Ended \cup {"unborn", "over"}
  <2>1. pc[MainTask] = "over" /\ \A c \in Tasks : pc'[c] = pc[c] \/ pc'[c] \in Ended
    BY <1>0, <1>1, <1>9, JoinsAssumption DEF Retain, LetGo
  <2> QED BY <2>1 DEF Over
<1>10. CASE UNCHANGED vars
  <2>1. pc' = pc BY <1>10 DEF vars
  <2> QED BY <1>1, <2>1 DEF Over
<1>11. ASSUME NEW p \in Tasks, Goes(p) PROVE \A c \in Tasks : pc'[c] \in Ended \cup {"unborn", "over"}
  BY <1>5, <1>6, <1>7, <1>8, <1>9, <1>11 DEF Goes
<1>12. ASSUME NEW p \in Tasks, Chooses(p) PROVE FALSE
  BY <1>5, <1>6, <1>12 DEF Chooses
<1> QED BY <1>2, <1>3, <1>10, <1>11, <1>12 DEF Next, Ends

-----------------------------------------------------------------------------
(* All together. *)

Whole == Inv /\ MoreTypes /\ Groups /\ HearInv /\ ResultInv /\ GroupersInv /\ RootInv /\ HolderInv /\ RankInv /\ Over

LEMMA InitWhole == Init => Whole
<1> SUFFICES ASSUME Init PROVE Whole
  OBVIOUS
<1>1. Over BY JoinsAssumption DEF Init, Over
<1> QED BY <1>1, InitInv, InitGroups, InitHear, InitResults, InitHolds DEF Whole

LEMMA WholeStep == ASSUME Whole, [Next]_vars PROVE Whole'
<1>1. Inv /\ MoreTypes /\ Groups /\ HearInv /\ ResultInv /\ GroupersInv /\ RootInv /\ HolderInv /\ RankInv /\ Over
  BY DEF Whole
<1>2. Types /\ WaitTypes /\ Books /\ WaitInv BY <1>1 DEF Inv
<1>3. Inv' BY <1>1, InvStep
<1>4. MoreTypes' BY <1>1, <1>2, MoreTypesStep
<1>5. Groups' BY <1>1, <1>2, GroupsStep
<1>6. HearInv' BY <1>1, <1>2, HearStep
<1>7. ResultInv' BY <1>1, <1>2, ResultStep
<1>8. GroupersInv' BY <1>1, <1>2, GroupersStep
<1>9. RootInv' BY <1>1, <1>2, RootStep
<1>10. HolderInv' /\ RankInv' BY <1>1, <1>2, HolderStep
<1>11. Over' BY <1>1, <1>2, OverStep
<1> QED BY <1>3, <1>4, <1>5, <1>6, <1>7, <1>8, <1>9, <1>10, <1>11 DEF Whole

\* Types, for any tasks: the counts of references and of running tasks are never
\* below zero (JoinObject, GroupObject).
THEOREM TypesHold == Spec => []TypeOK
<1>1. ASSUME Whole PROVE TypeOK
  <2>1. Types /\ WaitTypes /\ Books /\ MoreTypes /\ Groups BY <1>1 DEF Whole, Inv
  <2>2. rc \in [Tasks -> Nat]
    <3>1. \A c \in Tasks : HandleCount(c) \in Nat /\ HoldCount(c) \in Nat /\ TodoCount(c) \in Nat
      BY DEF HandleCount, HoldCount, TodoCount
    <3>2. \A c \in Tasks : rc[c] \in Nat BY <2>1, <3>1 DEF Books, CountInv
    <3> QED BY <2>1, <3>2 DEF Types
  <2>3. running \in [Tasks -> Nat]
    <3>1. ASSUME NEW p \in Tasks PROVE running[p] \in Nat
      <4>1. IsFiniteSet(Unheard(p)) BY <2>1, UnheardFinite
      <4>2. Cardinality(Unheard(p)) \in Nat BY <4>1, FS_CardinalityType
      <4> QED BY <2>1, <4>2 DEF Groups, RunningInv
    <3> QED BY <2>1, <3>1 DEF MoreTypes
  <2>4. UNION {done, taken, detached, freed, got, waiter, DETACHED, todo} \subseteq Tasks
    BY <2>1 DEF Types, WaitTypes, MoreTypes
  <2>5. {owner, group, failed} \subseteq [Tasks -> Tasks \cup {None}] BY <2>1 DEF Types
  <2>6. {members, finished} \subseteq [Tasks -> Seq(Tasks)] BY <2>1 DEF Types, MoreTypes
  <2> QED BY <2>1, <2>2, <2>3, <2>4, <2>5, <2>6 DEF TypeOK, Types, WaitTypes, MoreTypes, Results
<1> QED BY InitWhole, WholeStep, <1>1, PTL DEF Spec

\* Nobody waits for an end that was: neither at a join nor at a group, whatever ends
\* while the wait is made (`complete`, `tondo_rt_group_add`, `group_block`).
THEOREM EndsAreHeard == Spec => []EndsHeard
<1>1. Whole => EndsHeard BY HearingHolds DEF Whole, Inv
<1> QED BY InitWhole, WholeStep, <1>1, PTL DEF Spec

\* Every result is given or released with its join, as long as no task that has a group
\* is cancelled: `tondo_rt_group_next` takes before it looks whether it is.
THEOREM ResultsAreKept == Spec => [](cancelled \cap Groupers = {} => ResultKept)
<1>1. Whole => (cancelled \cap Groupers = {} => ResultKept) BY KeptHolds DEF Whole
<1> QED BY InitWhole, WholeStep, <1>1, PTL DEF Spec

\* So it is when only `main`, which nobody can cancel, has groups.
THEOREM MainKeepsResults == ASSUME Groupers \subseteq {MainTask} PROVE Spec => []ResultKept
<1>1. Whole => ResultKept
  <2> SUFFICES ASSUME Whole PROVE ResultKept
    OBVIOUS
  <2>1. MainTask \notin cancelled BY DEF Whole, RootInv
  <2>2. cancelled \cap Groupers = {} BY <2>1
  <2> QED BY <2>2, KeptHolds DEF Whole
<1> QED BY InitWhole, WholeStep, <1>1, PTL DEF Spec

\* When the program is over every task that was started has ended, detached ones and
\* those they started included (`end_detached`).
THEOREM NoTaskIsLeft == Spec => []NoTaskLeft
<1>1. ASSUME Whole PROVE NoTaskLeft
  <2> SUFFICES ASSUME pc[MainTask] = "over", NEW c \in Tasks \ {MainTask} PROVE pc[c] = "unborn" \/ c \in done
    BY DEF NoTaskLeft
  <2>1. Over /\ Books BY <1>1 DEF Whole, Inv
  <2>2. pc[c] \in Ended \cup {"unborn", "over"} BY <2>1 DEF Over
  <2>3. pc[c] # "over" BY <2>1 DEF Books, MainInv
  <2> QED BY <2>1, <2>2, <2>3 DEF Books, LifeInv
<1> QED BY InitWhole, WholeStep, <1>1, PTL DEF Spec
=============================================================================
