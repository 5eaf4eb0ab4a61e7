--------------------------- MODULE WorkersProofs ----------------------------
(***************************************************************************)
(* Theorems about Workers, for any workers, tasks, waits and calls of C:   *)
(* the deadlock that `stalled` finds by counting is one, SEEKING is set    *)
(* for somebody, and a task is in one place, whatever workers steal.       *)
(***************************************************************************)
EXTENDS Workers, FiniteSetTheorems, SequenceTheorems, TLAPS

-----------------------------------------------------------------------------
(* Sequences and what they hold. *)

LEMMA TailHolds ==
  ASSUME NEW S, NEW s \in Seq(S), s # <<>>
  PROVE  /\ Head(s) \in S /\ Tail(s) \in Seq(S) /\ Len(Tail(s)) = Len(s) - 1
         /\ ToSet(s) = {Head(s)} \cup ToSet(Tail(s))
<1>1. Len(s) \in Nat \ {0} /\ Head(s) = s[1] BY EmptySeq
<1>2. Tail(s) \in Seq(S) /\ Len(Tail(s)) = Len(s) - 1
  BY HeadTailProperties
<1>3. \A i \in 1..Len(Tail(s)) : Tail(s)[i] = s[i + 1] BY HeadTailProperties
<1>4. ToSet(s) = {s[i] : i \in 1..Len(s)} BY LenProperties DEF ToSet
<1>5. ToSet(Tail(s)) = {Tail(s)[i] : i \in 1..Len(Tail(s))}
  <2>1. DOMAIN Tail(s) = 1..Len(Tail(s)) BY <1>2, LenProperties
  <2> QED BY <2>1 DEF ToSet
<1>6. ToSet(s) \subseteq {Head(s)} \cup ToSet(Tail(s))
  <2> SUFFICES ASSUME NEW i \in 1..Len(s), i # 1
               PROVE  s[i] \in ToSet(Tail(s))
    BY <1>1, <1>4
  <2>1. i - 1 \in 1..Len(Tail(s))
    <3>1. \A n \in Nat : i \in 1..n => i - 1 \in 1..n - 1 OBVIOUS
    <3> QED BY <3>1, <1>1, <1>2
  <2>2. Tail(s)[i - 1] = s[i] BY <2>1, <1>3
  <2> QED BY <2>1, <2>2, <1>5
<1>7. {Head(s)} \cup ToSet(Tail(s)) \subseteq ToSet(s)
  <2>1. \A i \in 1..Len(Tail(s)) : i + 1 \in 1..Len(s) BY <1>1, <1>2
  <2> QED BY <2>1, <1>1, <1>3, <1>4, <1>5
<1> QED BY <1>1, <1>2, <1>6, <1>7, HeadTailProperties

LEMMA ConcatHolds ==
  ASSUME NEW S, NEW s \in Seq(S), NEW u \in Seq(S)
  PROVE  s \o u \in Seq(S) /\ ToSet(s \o u) = ToSet(s) \cup ToSet(u)
<1>1. Len(s) \in Nat /\ Len(u) \in Nat BY LenProperties
<1>2. s \o u \in Seq(S) /\ Len(s \o u) = Len(s) + Len(u) BY ConcatProperties
<1>3. \A i \in 1..Len(s) + Len(u) :
        (s \o u)[i] = IF i <= Len(s) THEN s[i] ELSE u[i - Len(s)]
  BY ConcatProperties
<1>4. ToSet(s) = {s[i] : i \in 1..Len(s)} /\ ToSet(u) = {u[i] : i \in 1..Len(u)}
  BY LenProperties DEF ToSet
<1>5. ToSet(s \o u) = {(s \o u)[i] : i \in 1..Len(s) + Len(u)}
  BY <1>2, LenProperties DEF ToSet
<1>6. ASSUME NEW i \in 1..Len(s) + Len(u) PROVE (s \o u)[i] \in ToSet(s) \cup ToSet(u)
  BY <1>1, <1>3, <1>4
<1>7. ASSUME NEW i \in 1..Len(s) PROVE s[i] \in ToSet(s \o u)
  BY <1>1, <1>3, <1>5
<1>8. ASSUME NEW i \in 1..Len(u) PROVE u[i] \in ToSet(s \o u)
  <2>1. i + Len(s) \in 1..Len(s) + Len(u) /\ ~(i + Len(s) <= Len(s)) BY <1>1
  <2>2. (s \o u)[i + Len(s)] = u[i] BY <2>1, <1>1, <1>3
  <2> QED BY <2>1, <2>2, <1>5
<1>9. ToSet(s \o u) \subseteq ToSet(s) \cup ToSet(u) BY <1>5, <1>6
<1>10. ToSet(s) \subseteq ToSet(s \o u) BY <1>4, <1>7
<1>11. ToSet(u) \subseteq ToSet(s \o u) BY <1>4, <1>8
<1> QED BY <1>2, <1>9, <1>10, <1>11

LEMMA AppendHolds ==
  ASSUME NEW S, NEW s \in Seq(S), NEW e \in S
  PROVE  /\ Append(s, e) \in Seq(S) /\ Len(Append(s, e)) = Len(s) + 1
         /\ ToSet(Append(s, e)) = ToSet(s) \cup {e}
<1>1. Append(s, e) = s \o <<e>> /\ Len(Append(s, e)) = Len(s) + 1
  BY AppendIsConcat, AppendProperties
<1> DEFINE u == <<e>>
<1>2. u \in Seq(S) /\ ToSet(u) = {e} BY DEF ToSet
<1> HIDE DEF u
<1>3. s \o u \in Seq(S) /\ ToSet(s \o u) = ToSet(s) \cup ToSet(u) BY <1>2, ConcatHolds
<1> QED BY <1>1, <1>2, <1>3 DEF u

\* What `steal` leaves and what it takes.
LEMMA HalvesHold ==
  ASSUME NEW S, NEW s \in Seq(S), NEW h \in 1..Len(s)
  PROVE  LET taken == SubSeq(s, 1, h)
             rest == SubSeq(s, h + 1, Len(s))
         IN /\ taken \in Seq(S) /\ taken # <<>> /\ rest \in Seq(S)
            /\ Len(taken) = h /\ Len(rest) = Len(s) - h
            /\ ToSet(s) = ToSet(taken) \cup ToSet(rest)
<1> DEFINE taken == SubSeq(s, 1, h)
           rest == SubSeq(s, h + 1, Len(s))
<1>1. Len(s) \in Nat /\ s = SubSeq(s, 1, Len(s)) BY LenProperties, SubSeqFull
<1>2. \A i \in 1..Len(s) : s[i] \in S BY ElementOfSeq
<1>3. taken \in Seq(S) /\ Len(taken) = h BY <1>1, <1>2, SubSeqProperties
<1>4. rest \in Seq(S) /\ Len(rest) = Len(s) - h
  <2>1. \A i \in h + 1..Len(s) : s[i] \in S BY <1>1, <1>2
  <2>2. rest \in Seq(S) /\ Len(rest) = IF h + 1 <= Len(s) THEN Len(s) - (h + 1) + 1 ELSE 0
    BY <1>1, <2>1, SubSeqProperties
  <2>3. \A n \in Nat : h \in 1..n => (IF h + 1 <= n THEN n - (h + 1) + 1 ELSE 0) = n - h OBVIOUS
  <2> QED BY <1>1, <2>2, <2>3
<1>5. taken \o rest = s
  <2>1. 1 \in 1..Len(s) + 1 /\ h \in 1 - 1..Len(s) /\ Len(s) \in h..Len(s) BY <1>1
  <2> QED BY <1>1, <2>1, ConcatAdjacentSubSeq
<1>6. taken # <<>> BY <1>3, EmptySeq
<1>7. ToSet(s) = ToSet(taken) \cup ToSet(rest)
  <2> HIDE DEF taken, rest
  <2>1. ToSet(taken \o rest) = ToSet(taken) \cup ToSet(rest) BY <1>3, <1>4, ConcatHolds
  <2> QED BY ONLY <2>1, <1>5
<1> QED BY <1>3, <1>4, <1>6, <1>7

LEMMA ListHolds ==
  ASSUME NEW T, NEW S, IsFiniteSet(T), T \subseteq S
  PROVE  SetToSeq(T) \in Seq(S) /\ ToSet(SetToSeq(T)) = T
<1> DEFINE n == Cardinality(T)
           s == SetToSeq(T)
<1>1. n \in Nat /\ ExistsBijection(1..n, T) BY FS_CardinalityType
<1>2. PICK f \in Bijection(1..n, T) : TRUE BY <1>1 DEF ExistsBijection
<1>3. f \in [1..n -> T] /\ IsInjective(f)
  BY <1>2 DEF Bijection, Injection
<1>4. s \in [1..n -> T] /\ IsInjective(s) BY <1>3 DEF SetToSeq
<1>5. s \in Injection(1..n, T) BY <1>4 DEF Injection
<1>6. Cardinality(1..n) = n BY <1>1, FS_Interval
<1>7. s \in Surjection(1..n, T) BY <1>5, <1>6, FS_Injection
<1>8. \A t \in T : \E i \in 1..n : s[i] = t BY <1>7 DEF Surjection
<1>9. ToSet(s) = T BY <1>4, <1>8 DEF ToSet
<1>10. s \in Seq(S)
  <2>1. s \in [1..n -> S] BY <1>4
  <2> QED BY <1>1, <2>1, SeqDef
<1> QED BY <1>9, <1>10

-----------------------------------------------------------------------------
(* The invariant. *)

\* Pushed to its own queue, and not counted yet.
Pushing == {"pushed", "pushedFirst"}
\* A worker with no task.
FreePcs == IdlePcs \cup OffPcs \cup {"starts", "looks", "locks", "steals", "relocks"}

CountInv ==
  \A w \in Workers : Len(own[w]) = count[w] + (IF pc[w] \in Pushing THEN 1 ELSE 0)

FreeInv == \A w \in Workers : pc[w] \in FreePcs <=> cur[w] = None

\* What is runnable is in a queue, what runs has a worker.
Queued(t) ==
  \/ t \in ToSet(runnable)
  \/ \E w \in Workers : t \in ToSet(own[w]) \/ next[w] = t
ReadyInv == \A t \in Tasks : task[t] = "ready" => Queued(t)
RunInv == \A t \in Tasks : task[t] = "runs" => \E w \in Workers : cur[w] = t
PinInv == \A t \in Tasks : task[t] \in PinnedStates => \E w \in Workers : cur[w] = t /\ pc[w] \in PinnedPcs

\* What waits for something has it before it.
AwaitInv ==
  \A t \in Tasks :
    /\ task[t] = "host" => host[t] = "works"
    /\ task[t] = "time" => t \in timers

PlaceInv == CountInv /\ FreeInv /\ ReadyInv /\ RunInv /\ PinInv /\ AwaitInv

\* Whoever goes to sleep, or looks again, has QUEUE's lock.
HeldPcs == {"counted", "checks", "stalls", "sums", "rechecks"}
LockInv == \A w \in Workers : pc[w] \in HeldPcs => lock = w

HostPinInv == \A t \in Tasks : task[t] = "hostPinned" => "host" \in PinKinds

\* The workers whose task waits on their thread.
PinnedWorkers == {w \in Workers : pc[w] \in PinnedPcs /\ task[cur[w]] \in PinnedStates}

\* What `stalled` saw first still stands when it reads the rest.
AllHeld ==
  /\ runnable = <<>> /\ timers = {}
  /\ \A w \in Workers : pc[w] \in IdlePcs \cup OffPcs \/ w \in PinnedWorkers
Summing == {"sums", "rechecks"}
SumInv == \A w \in Workers : pc[w] \in Summing => AllHeld

Inv == TypeOK /\ PlaceInv /\ LockInv /\ HostPinInv

\* A step of a worker, or of who wakes it, that moves no task.
Quiet ==
  /\ UNCHANGED <<runnable, own, count, next, cur, task, host, timers>>
  /\ \A w \in Workers :
       /\ pc'[w] \in Pushing <=> pc[w] \in Pushing
       /\ pc'[w] \in FreePcs <=> pc[w] \in FreePcs
       /\ pc[w] \in PinnedPcs /\ task[cur[w]] \in PinnedStates => pc'[w] \in PinnedPcs

-----------------------------------------------------------------------------
USE DEF IdlePcs, OffPcs, PinnedPcs, PinnedStates, Pushing, FreePcs

\* TypeOK, one variable after another.
TaskStates == {"unborn", "ready", "runs", "done"} \cup AllKinds \cup PinnedStates
QueueTypes ==
  /\ runnable \in Seq(Tasks) /\ lock \in Workers \cup {None}
  /\ waking \in BOOLEAN /\ surplus \in Nat /\ seeking \in BOOLEAN
  /\ due \subseteq timers /\ timers \subseteq Tasks
NextTypes ==
  /\ own \in [Workers -> Seq(Tasks)] /\ count \in [Workers -> Nat]
  /\ next \in [Workers -> Tasks \cup {None}]
LocalTypes ==
  /\ seeker \in [Workers -> BOOLEAN] /\ woken \in [Workers -> BOOLEAN]
  /\ waited \in [Workers -> BOOLEAN] /\ stealing \in [Workers -> BOOLEAN]
  /\ rung \in [Workers -> BOOLEAN] /\ until \in [Workers -> SUBSET Tasks]
  /\ replaced \in [Workers -> BOOLEAN]
TaskTypes ==
  /\ pc \in [Workers -> Pcs] /\ cur \in [Workers -> Tasks \cup {None}]
  /\ task \in [Tasks -> TaskStates]
  /\ host \in [Tasks -> {"none", "works", "rings", "ends"}]
BoundTypes == parks \in Nat /\ calls \in Nat /\ reported \in BOOLEAN

LEMMA Types == TypeOK <=> QueueTypes /\ NextTypes /\ LocalTypes /\ TaskTypes /\ BoundTypes
BY DEF TypeOK, QueueTypes, NextTypes, LocalTypes, TaskTypes, BoundTypes, TaskStates

LEMMA TypesNext ==
  QueueTypes' /\ NextTypes' /\ LocalTypes' /\ TaskTypes' /\ BoundTypes' => TypeOK'
BY DEF TypeOK, QueueTypes, NextTypes, LocalTypes, TaskTypes, BoundTypes, TaskStates

LEMMA InitInv == Init => Inv
<1> SUFFICES ASSUME Init PROVE Inv
  OBVIOUS
<1>1. TypeOK
  <2>1. QueueTypes
    <3>1. runnable \in Seq(Tasks) BY WorkersAssumption DEF Init
    <3> QED BY <3>1 DEF Init, QueueTypes
  <2>2. NextTypes BY DEF Init, NextTypes
  <2>3. LocalTypes BY DEF Init, LocalTypes
  <2>4. TaskTypes BY DEF Init, TaskTypes, TaskStates, Pcs
  <2>5. BoundTypes BY DEF Init, BoundTypes
  <2> QED BY <2>1, <2>2, <2>3, <2>4, <2>5, Types
<1>2. CountInv /\ FreeInv /\ RunInv /\ PinInv /\ AwaitInv
  BY DEF Init, CountInv, FreeInv, RunInv, PinInv, AwaitInv
<1>3. ReadyInv BY DEF Init, ReadyInv, Queued, ToSet
<1>4. LockInv BY DEF Init, LockInv, HeldPcs
<1>5. HostPinInv BY DEF Init, HostPinInv
<1> QED BY <1>1, <1>2, <1>3, <1>4, <1>5 DEF Inv, PlaceInv

LEMMA QuietKeeps == ASSUME PlaceInv, Quiet PROVE PlaceInv'
<1>1. CountInv' BY DEF PlaceInv, Quiet, CountInv
<1>2. FreeInv' BY DEF PlaceInv, Quiet, FreeInv
<1>3. ReadyInv' BY DEF PlaceInv, Quiet, ReadyInv, Queued
<1>4. RunInv' /\ AwaitInv' BY DEF PlaceInv, Quiet, RunInv, AwaitInv
<1>5. PinInv' BY DEF PlaceInv, Quiet, PinInv
<1> QED BY <1>1, <1>2, <1>3, <1>4, <1>5 DEF PlaceInv

LEMMA QuietSteps ==
  ASSUME TypeOK, NEW w \in Workers,
         \/ Wake(w) \/ WakeOne(w) \/ Rings(w) \/ Starts(w) \/ LookQueue(w) \/ GoSteal(w) \/ StealNone(w)
         \/ GoIdle(w) \/ StopSeeking(w) \/ CheckWaiting(w) \/ Sums(w) \/ Sleep(w) \/ WakesUp(w)
         \/ EnterC(w) \/ BackInC(w) \/ LeaveC(w) \/ EndSeeking(w) \/ SeekMore(w) \/ Recheck(w) \/ RecheckEnds(w)
         \/ Monitor(w)
  PROVE  TypeOK' /\ Quiet
<1> USE DEF Go, queueVars, nextVars, localVars, sleepVars, taskVars, boundVars, AtQueue, Looked, Ring
<1>0. QueueTypes /\ NextTypes /\ LocalTypes /\ TaskTypes /\ BoundTypes BY Types
<1>t. QueueTypes' /\ NextTypes' /\ LocalTypes' /\ TaskTypes' /\ BoundTypes' => TypeOK' BY TypesNext
<1>1. CASE Wake(w)
  <2>1. QueueTypes' BY <1>0, <1>1 DEF Wake, QueueTypes
  <2>2. NextTypes' BY <1>0, <1>1 DEF Wake, NextTypes
  <2>3. LocalTypes' BY <1>0, <1>1 DEF Wake, LocalTypes, QueueTypes
  <2>4. TaskTypes' BY <1>0, <1>1 DEF Wake, TaskTypes, Pcs
  <2>5. BoundTypes' BY <1>0, <1>1 DEF Wake, BoundTypes
  <2>6. Quiet BY <1>0, <1>1 DEF Wake, Quiet, TaskTypes
  <2> QED BY <1>t, <2>1, <2>2, <2>3, <2>4, <2>5, <2>6
<1>2. CASE WakeOne(w)
  <2>1. QueueTypes' BY <1>0, <1>2 DEF WakeOne, QueueTypes
  <2>2. NextTypes' BY <1>0, <1>2 DEF WakeOne, NextTypes
  <2>3. LocalTypes' BY <1>0, <1>2 DEF WakeOne, LocalTypes, QueueTypes
  <2>4. TaskTypes' BY <1>0, <1>2 DEF WakeOne, TaskTypes, Pcs
  <2>5. BoundTypes' BY <1>0, <1>2 DEF WakeOne, BoundTypes
  <2>6. Quiet BY <1>0, <1>2 DEF WakeOne, Quiet, TaskTypes
  <2> QED BY <1>t, <2>1, <2>2, <2>3, <2>4, <2>5, <2>6
<1>3. CASE Rings(w)
  <2>1. QueueTypes' BY <1>0, <1>3 DEF Rings, QueueTypes
  <2>2. NextTypes' BY <1>0, <1>3 DEF Rings, NextTypes
  <2>3. LocalTypes' BY <1>0, <1>3 DEF Rings, LocalTypes, QueueTypes
  <2>4. TaskTypes' BY <1>0, <1>3 DEF Rings, TaskTypes, Pcs
  <2>5. BoundTypes' BY <1>0, <1>3 DEF Rings, BoundTypes
  <2>6. Quiet BY <1>0, <1>3 DEF Rings, Quiet, TaskTypes
  <2> QED BY <1>t, <2>1, <2>2, <2>3, <2>4, <2>5, <2>6
<1>4. CASE Starts(w)
  <2>1. QueueTypes' BY <1>0, <1>4 DEF Starts, QueueTypes
  <2>2. NextTypes' BY <1>0, <1>4 DEF Starts, NextTypes
  <2>3. LocalTypes' BY <1>0, <1>4 DEF Starts, LocalTypes, QueueTypes
  <2>4. TaskTypes' BY <1>0, <1>4 DEF Starts, TaskTypes, Pcs
  <2>5. BoundTypes' BY <1>0, <1>4 DEF Starts, BoundTypes
  <2>6. Quiet BY <1>0, <1>4 DEF Starts, Quiet, TaskTypes
  <2> QED BY <1>t, <2>1, <2>2, <2>3, <2>4, <2>5, <2>6
<1>5. CASE LookQueue(w)
  <2>1. QueueTypes' BY <1>0, <1>5 DEF LookQueue, QueueTypes
  <2>2. NextTypes' BY <1>0, <1>5 DEF LookQueue, NextTypes
  <2>3. LocalTypes' BY <1>0, <1>5 DEF LookQueue, LocalTypes, QueueTypes
  <2>4. TaskTypes' BY <1>0, <1>5 DEF LookQueue, TaskTypes, Pcs
  <2>5. BoundTypes' BY <1>0, <1>5 DEF LookQueue, BoundTypes
  <2>6. Quiet BY <1>0, <1>5 DEF LookQueue, Quiet, TaskTypes
  <2> QED BY <1>t, <2>1, <2>2, <2>3, <2>4, <2>5, <2>6
<1>6. CASE GoSteal(w)
  <2>1. QueueTypes' BY <1>0, <1>6 DEF GoSteal, QueueTypes
  <2>2. NextTypes' BY <1>0, <1>6 DEF GoSteal, NextTypes
  <2>3. LocalTypes' BY <1>0, <1>6 DEF GoSteal, LocalTypes, QueueTypes
  <2>4. TaskTypes' BY <1>0, <1>6 DEF GoSteal, TaskTypes, Pcs
  <2>5. BoundTypes' BY <1>0, <1>6 DEF GoSteal, BoundTypes
  <2>6. Quiet BY <1>0, <1>6 DEF GoSteal, Quiet, TaskTypes
  <2> QED BY <1>t, <2>1, <2>2, <2>3, <2>4, <2>5, <2>6
<1>7. CASE StealNone(w)
  <2>1. QueueTypes' BY <1>0, <1>7 DEF StealNone, QueueTypes
  <2>2. NextTypes' BY <1>0, <1>7 DEF StealNone, NextTypes
  <2>3. LocalTypes'
    <3>1. Waiting \in BOOLEAN BY DEF Waiting
    <3> QED BY <3>1, <1>0, <1>7 DEF StealNone, LocalTypes
  <2>4. TaskTypes' BY <1>0, <1>7 DEF StealNone, TaskTypes, Pcs
  <2>5. BoundTypes' BY <1>0, <1>7 DEF StealNone, BoundTypes
  <2>6. Quiet BY <1>0, <1>7 DEF StealNone, Quiet, TaskTypes
  <2> QED BY <1>t, <2>1, <2>2, <2>3, <2>4, <2>5, <2>6
<1>8. CASE GoIdle(w)
  <2>1. QueueTypes' BY <1>0, <1>8 DEF GoIdle, QueueTypes
  <2>2. NextTypes' BY <1>0, <1>8 DEF GoIdle, NextTypes
  <2>3. LocalTypes' BY <1>0, <1>8 DEF GoIdle, LocalTypes, QueueTypes
  <2>4. TaskTypes' BY <1>0, <1>8 DEF GoIdle, TaskTypes, Pcs
  <2>5. BoundTypes' BY <1>0, <1>8 DEF GoIdle, BoundTypes
  <2>6. Quiet BY <1>0, <1>8 DEF GoIdle, Quiet, TaskTypes
  <2> QED BY <1>t, <2>1, <2>2, <2>3, <2>4, <2>5, <2>6
<1>9. CASE StopSeeking(w)
  <2>1. QueueTypes' BY <1>0, <1>9 DEF StopSeeking, QueueTypes
  <2>2. NextTypes' BY <1>0, <1>9 DEF StopSeeking, NextTypes
  <2>3. LocalTypes' BY <1>0, <1>9 DEF StopSeeking, LocalTypes, QueueTypes
  <2>4. TaskTypes' BY <1>0, <1>9 DEF StopSeeking, TaskTypes, Pcs
  <2>5. BoundTypes' BY <1>0, <1>9 DEF StopSeeking, BoundTypes
  <2>6. Quiet BY <1>0, <1>9 DEF StopSeeking, Quiet, TaskTypes
  <2> QED BY <1>t, <2>1, <2>2, <2>3, <2>4, <2>5, <2>6
<1>10. CASE CheckWaiting(w)
  <2>1. QueueTypes' BY <1>0, <1>10 DEF CheckWaiting, QueueTypes
  <2>2. NextTypes' BY <1>0, <1>10 DEF CheckWaiting, NextTypes
  <2>3. LocalTypes' BY <1>0, <1>10 DEF CheckWaiting, LocalTypes, QueueTypes
  <2>4. TaskTypes' BY <1>0, <1>10 DEF CheckWaiting, TaskTypes, Pcs
  <2>5. BoundTypes' BY <1>0, <1>10 DEF CheckWaiting, BoundTypes
  <2>6. Quiet BY <1>0, <1>10 DEF CheckWaiting, Quiet, TaskTypes
  <2> QED BY <1>t, <2>1, <2>2, <2>3, <2>4, <2>5, <2>6
<1>11. CASE Sleep(w)
  <2>1. QueueTypes' BY <1>0, <1>11 DEF Sleep, QueueTypes
  <2>2. NextTypes' BY <1>0, <1>11 DEF Sleep, NextTypes
  <2>3. LocalTypes' BY <1>0, <1>11 DEF Sleep, LocalTypes, QueueTypes
  <2>4. TaskTypes' BY <1>0, <1>11 DEF Sleep, TaskTypes, Pcs
  <2>5. BoundTypes'
    <3>1. NothingElse \in BOOLEAN BY DEF NothingElse
    <3> QED BY <3>1, <1>0, <1>11 DEF Sleep, BoundTypes
  <2>6. Quiet BY <1>0, <1>11 DEF Sleep, Quiet, TaskTypes
  <2> QED BY <1>t, <2>1, <2>2, <2>3, <2>4, <2>5, <2>6
<1>12. CASE WakesUp(w)
  <2>1. QueueTypes' BY <1>0, <1>12 DEF WakesUp, QueueTypes
  <2>2. NextTypes' BY <1>0, <1>12 DEF WakesUp, NextTypes
  <2>3. LocalTypes' BY <1>0, <1>12 DEF WakesUp, LocalTypes, QueueTypes
  <2>4. TaskTypes' BY <1>0, <1>12 DEF WakesUp, TaskTypes, Pcs
  <2>5. BoundTypes' BY <1>0, <1>12 DEF WakesUp, BoundTypes
  <2>6. Quiet BY <1>0, <1>12 DEF WakesUp, Quiet, TaskTypes
  <2> QED BY <1>t, <2>1, <2>2, <2>3, <2>4, <2>5, <2>6
<1>13. CASE EnterC(w)
  <2>1. QueueTypes' BY <1>0, <1>13 DEF EnterC, QueueTypes
  <2>2. NextTypes' BY <1>0, <1>13 DEF EnterC, NextTypes
  <2>3. LocalTypes' BY <1>0, <1>13 DEF EnterC, LocalTypes, QueueTypes
  <2>4. TaskTypes' BY <1>0, <1>13 DEF EnterC, TaskTypes, Pcs
  <2>5. BoundTypes' BY <1>0, <1>13 DEF EnterC, BoundTypes
  <2>6. Quiet BY <1>0, <1>13 DEF EnterC, Quiet, TaskTypes
  <2> QED BY <1>t, <2>1, <2>2, <2>3, <2>4, <2>5, <2>6
<1>14. CASE BackInC(w)
  <2>1. QueueTypes' BY <1>0, <1>14 DEF BackInC, QueueTypes
  <2>2. NextTypes' BY <1>0, <1>14 DEF BackInC, NextTypes
  <2>3. LocalTypes' BY <1>0, <1>14 DEF BackInC, LocalTypes, QueueTypes
  <2>4. TaskTypes' BY <1>0, <1>14 DEF BackInC, TaskTypes, Pcs
  <2>5. BoundTypes' BY <1>0, <1>14 DEF BackInC, BoundTypes
  <2>6. Quiet BY <1>0, <1>14 DEF BackInC, Quiet, TaskTypes
  <2> QED BY <1>t, <2>1, <2>2, <2>3, <2>4, <2>5, <2>6
<1>15. CASE LeaveC(w)
  <2>1. QueueTypes' BY <1>0, <1>15 DEF LeaveC, QueueTypes
  <2>2. NextTypes' BY <1>0, <1>15 DEF LeaveC, NextTypes
  <2>3. LocalTypes' BY <1>0, <1>15 DEF LeaveC, LocalTypes, QueueTypes
  <2>4. TaskTypes' BY <1>0, <1>15 DEF LeaveC, TaskTypes, Pcs
  <2>5. BoundTypes' BY <1>0, <1>15 DEF LeaveC, BoundTypes
  <2>6. Quiet BY <1>0, <1>15 DEF LeaveC, Quiet, TaskTypes
  <2> QED BY <1>t, <2>1, <2>2, <2>3, <2>4, <2>5, <2>6
<1>16. CASE EndSeeking(w)
  <2>1. QueueTypes' BY <1>0, <1>16 DEF EndSeeking, QueueTypes
  <2>2. NextTypes' BY <1>0, <1>16 DEF EndSeeking, NextTypes
  <2>3. LocalTypes' BY <1>0, <1>16 DEF EndSeeking, LocalTypes, QueueTypes
  <2>4. TaskTypes' BY <1>0, <1>16 DEF EndSeeking, TaskTypes, Pcs
  <2>5. BoundTypes' BY <1>0, <1>16 DEF EndSeeking, BoundTypes
  <2>6. Quiet BY <1>0, <1>16 DEF EndSeeking, Quiet, TaskTypes
  <2> QED BY <1>t, <2>1, <2>2, <2>3, <2>4, <2>5, <2>6
<1>17. CASE SeekMore(w)
  <2>1. QueueTypes' BY <1>0, <1>17 DEF SeekMore, QueueTypes
  <2>2. NextTypes' BY <1>0, <1>17 DEF SeekMore, NextTypes
  <2>3. LocalTypes' BY <1>0, <1>17 DEF SeekMore, LocalTypes, QueueTypes
  <2>4. TaskTypes' BY <1>0, <1>17 DEF SeekMore, TaskTypes, Pcs
  <2>5. BoundTypes' BY <1>0, <1>17 DEF SeekMore, BoundTypes
  <2>6. Quiet BY <1>0, <1>17 DEF SeekMore, Quiet, TaskTypes
  <2> QED BY <1>t, <2>1, <2>2, <2>3, <2>4, <2>5, <2>6
<1>18. CASE Recheck(w)
  <2>1. QueueTypes' BY <1>0, <1>18 DEF Recheck, QueueTypes
  <2>2. NextTypes' BY <1>0, <1>18 DEF Recheck, NextTypes
  <2>3. LocalTypes' BY <1>0, <1>18 DEF Recheck, LocalTypes, QueueTypes
  <2>4. TaskTypes' BY <1>0, <1>18 DEF Recheck, TaskTypes, Pcs
  <2>5. BoundTypes' BY <1>0, <1>18 DEF Recheck, BoundTypes
  <2>6. Quiet BY <1>0, <1>18 DEF Recheck, Quiet, TaskTypes
  <2> QED BY <1>t, <2>1, <2>2, <2>3, <2>4, <2>5, <2>6
<1>19. CASE Monitor(w)
  <2>1. QueueTypes' BY <1>0, <1>19 DEF Monitor, MonitorWakes, MonitorStarts, Blocked, InC, QueueTypes
  <2>2. NextTypes' BY <1>0, <1>19 DEF Monitor, MonitorWakes, MonitorStarts, Blocked, InC, NextTypes
  <2>3. LocalTypes' BY <1>0, <1>19 DEF Monitor, MonitorWakes, MonitorStarts, Blocked, InC, LocalTypes, QueueTypes
  <2>4. TaskTypes' BY <1>0, <1>19 DEF Monitor, MonitorWakes, MonitorStarts, Blocked, InC, TaskTypes, Pcs
  <2>5. BoundTypes' BY <1>0, <1>19 DEF Monitor, MonitorWakes, MonitorStarts, Blocked, InC, BoundTypes
  <2>6. Quiet BY <1>0, <1>19 DEF Monitor, MonitorWakes, MonitorStarts, Blocked, InC, Quiet, TaskTypes
  <2> QED BY <1>t, <2>1, <2>2, <2>3, <2>4, <2>5, <2>6
<1>20. CASE Sums(w)
  <2>1. QueueTypes' BY <1>0, <1>20 DEF Sums, QueueTypes
  <2>2. NextTypes' BY <1>0, <1>20 DEF Sums, NextTypes
  <2>3. LocalTypes' BY <1>0, <1>20 DEF Sums, LocalTypes, QueueTypes
  <2>4. TaskTypes' BY <1>0, <1>20 DEF Sums, TaskTypes, Pcs
  <2>5. BoundTypes' BY <1>0, <1>20 DEF Sums, BoundTypes
  <2>6. Quiet BY <1>0, <1>20 DEF Sums, Quiet, TaskTypes
  <2> QED BY <1>t, <2>1, <2>2, <2>3, <2>4, <2>5, <2>6
<1>21. CASE RecheckEnds(w)
  <2>1. QueueTypes' BY <1>0, <1>21 DEF RecheckEnds, QueueTypes
  <2>2. NextTypes' BY <1>0, <1>21 DEF RecheckEnds, NextTypes
  <2>3. LocalTypes' BY <1>0, <1>21 DEF RecheckEnds, LocalTypes, QueueTypes
  <2>4. TaskTypes' BY <1>0, <1>21 DEF RecheckEnds, TaskTypes, Pcs
  <2>5. BoundTypes'
    <3>1. NothingElse \in BOOLEAN BY DEF NothingElse
    <3> QED BY <3>1, <1>0, <1>21 DEF RecheckEnds, BoundTypes
  <2>6. Quiet BY <1>0, <1>21 DEF RecheckEnds, Quiet, TaskTypes
  <2> QED BY <1>t, <2>1, <2>2, <2>3, <2>4, <2>5, <2>6
<1> QED BY <1>1, <1>2, <1>3, <1>4, <1>5, <1>6, <1>7, <1>8, <1>9, <1>10, <1>11, <1>12,
           <1>13, <1>14, <1>15, <1>16, <1>17, <1>18, <1>19, <1>20, <1>21

-----------------------------------------------------------------------------
(* Steps that move tasks.  Each one puts what it takes from a queue on a worker, *)
(* or in another queue. *)

\* w takes the task t, with the tasks `fired` made runnable: it loses none.
Moves(w, t, fired) ==
  /\ cur' = [cur EXCEPT ![w] = t]
  /\ task' = [s \in Tasks |-> IF s = t THEN "runs" ELSE IF s \in fired THEN "ready" ELSE task[s]]
  /\ timers' = timers \ fired
  /\ host' = host
  /\ \E to \in Pcs \ (Pushing \cup FreePcs) : pc' = [pc EXCEPT ![w] = to]
  /\ \A s \in Tasks \ {t} : Queued(s) \/ s \in fired => Queued(s)'

LEMMA MovesKeeps ==
  ASSUME TypeOK, PlaceInv, NEW w \in Workers, NEW t \in Tasks, NEW fired \in SUBSET Tasks,
         pc[w] \in FreePcs, Moves(w, t, fired), CountInv'
  PROVE  PlaceInv'
<1>1. cur[w] = None BY DEF PlaceInv, FreeInv
<1>2. None \notin Tasks /\ cur \in [Workers -> Tasks \cup {None}] /\ pc \in [Workers -> Pcs]
      /\ task \in [Tasks -> TaskStates]
  BY WorkersAssumption, Types DEF TaskTypes
<1>3. FreeInv' BY <1>2 DEF Moves, PlaceInv, FreeInv
<1>4. ReadyInv' BY <1>2 DEF Moves, PlaceInv, ReadyInv
<1>5. RunInv' BY <1>1, <1>2 DEF Moves, PlaceInv, RunInv
<1>6. PinInv' BY <1>1, <1>2 DEF Moves, PlaceInv, PinInv
<1>7. AwaitInv' BY <1>2 DEF Moves, PlaceInv, AwaitInv
<1> QED BY <1>3, <1>4, <1>5, <1>6, <1>7 DEF PlaceInv

LEMMA FoundTypes ==
  ASSUME TaskTypes, LocalTypes, NEW w \in Workers, NEW t \in Tasks, NEW more \in BOOLEAN,
         NEW fired \in SUBSET Tasks, Found(w, t, more, fired)
  PROVE  /\ cur' \in [Workers -> Tasks \cup {None}]
         /\ task' \in [Tasks -> TaskStates]
         /\ pc' \in [Workers -> Pcs]
         /\ woken' \in [Workers -> BOOLEAN] /\ waited' \in [Workers -> BOOLEAN]
         /\ \E to \in Pcs \ (Pushing \cup FreePcs) : pc' = [pc EXCEPT ![w] = to]
<1>1. cur' \in [Workers -> Tasks \cup {None}] BY DEF TaskTypes, Found
<1>2. task' \in [Tasks -> TaskStates] BY DEF TaskTypes, Found, TaskStates
<1>3. PICK to \in {"foundMore", "found", "wakes", "runs"} : pc' = [pc EXCEPT ![w] = to]
  BY DEF Found, Go
<1>4. to \in Pcs \ (Pushing \cup FreePcs) BY DEF Pcs
<1>5. pc' \in [Workers -> Pcs] BY <1>3, <1>4 DEF TaskTypes
<1>6. woken' \in [Workers -> BOOLEAN] /\ waited' \in [Workers -> BOOLEAN] BY DEF LocalTypes, Found
<1> QED BY <1>1, <1>2, <1>3, <1>4, <1>5, <1>6

LEMMA LookNextKeeps ==
  ASSUME TypeOK, PlaceInv, NEW w \in Workers, LookNext(w)
  PROVE  TypeOK' /\ PlaceInv'
<1> USE DEF Go, queueVars, localVars, sleepVars, boundVars
<1>0. QueueTypes /\ NextTypes /\ LocalTypes /\ TaskTypes /\ BoundTypes BY Types
<1>1. next[w] \in Tasks /\ pc[w] = "looks" BY <1>0 DEF NextTypes, LookNext
<1>2. NextTypes' BY <1>0 DEF LookNext, NextTypes
<1>3. TaskTypes' BY <1>0, <1>1 DEF LookNext, Runs, TaskTypes, TaskStates, Pcs
<1>4. TypeOK' BY <1>0, <1>2, <1>3, TypesNext DEF LookNext, QueueTypes, LocalTypes, BoundTypes
<1>5. CountInv' BY <1>0, <1>1 DEF LookNext, Runs, PlaceInv, CountInv, TaskTypes
<1>6. \A s \in Tasks \ {next[w]} : Queued(s) => Queued(s)' BY <1>0, <1>1 DEF LookNext, Queued, NextTypes
<1>7. Moves(w, next[w], {})
  <2>1. "runs" \in Pcs \ (Pushing \cup FreePcs) BY DEF Pcs
  <2>2. task' = [s \in Tasks |-> IF s = next[w] THEN "runs" ELSE IF s \in {} THEN "ready" ELSE task[s]]
    BY <1>0, <1>1 DEF LookNext, Runs, TaskTypes
  <2>3. pc' = [pc EXCEPT ![w] = "runs"] /\ cur' = [cur EXCEPT ![w] = next[w]] BY DEF LookNext, Runs
  <2>4. timers' = timers \ {} /\ host' = host BY DEF LookNext
  <2> QED BY <1>6, <2>1, <2>2, <2>3, <2>4 DEF Moves
<1> QED BY <1>1, <1>4, <1>5, <1>7, MovesKeeps

\* A worker's own queue gives its oldest.
LEMMA OwnGives ==
  ASSUME TypeOK, PlaceInv, NEW w \in Workers, TakeOwn(w), pc[w] \notin Pushing
  PROVE  /\ Head(own[w]) \in Tasks /\ own' \in [Workers -> Seq(Tasks)] /\ count' \in [Workers -> Nat]
         /\ \A v \in Workers : Len(own'[v]) = count'[v] + (IF pc[v] \in Pushing THEN 1 ELSE 0)
         /\ \A v \in Workers : ToSet(own[v]) \subseteq ToSet(own'[v]) \cup {Head(own[w])}
<1>1. own \in [Workers -> Seq(Tasks)] /\ count \in [Workers -> Nat] BY Types DEF NextTypes
<1>2. Len(own[w]) = count[w] /\ count[w] > 0 BY <1>1 DEF PlaceInv, CountInv, TakeOwn
<1>3. own[w] \in Seq(Tasks) /\ own[w] # <<>> BY <1>1, <1>2, EmptySeq
<1>4. /\ Head(own[w]) \in Tasks /\ Tail(own[w]) \in Seq(Tasks) /\ Len(Tail(own[w])) = Len(own[w]) - 1
      /\ ToSet(own[w]) = {Head(own[w])} \cup ToSet(Tail(own[w]))
  BY <1>3, TailHolds
<1>5. /\ own' = [own EXCEPT ![w] = Tail(own[w])]
      /\ count' = [count EXCEPT ![w] = count[w] - 1]
  BY DEF TakeOwn
<1> HIDE DEF Pushing
<1> QED BY <1>1, <1>2, <1>4, <1>5 DEF PlaceInv, CountInv

LEMMA LookOwnKeeps ==
  ASSUME TypeOK, PlaceInv, NEW w \in Workers, LookOwn(w)
  PROVE  TypeOK' /\ PlaceInv'
<1> USE DEF Go, queueVars, localVars, sleepVars, boundVars
<1> DEFINE t == Head(own[w])
<1>0. QueueTypes /\ NextTypes /\ LocalTypes /\ TaskTypes /\ BoundTypes BY Types
<1>1. pc[w] = "looks" /\ TakeOwn(w) BY DEF LookOwn
<1>2. /\ t \in Tasks /\ own' \in [Workers -> Seq(Tasks)] /\ count' \in [Workers -> Nat]
      /\ \A v \in Workers : Len(own'[v]) = count'[v] + (IF pc[v] \in Pushing THEN 1 ELSE 0)
      /\ \A v \in Workers : ToSet(own[v]) \subseteq ToSet(own'[v]) \cup {t}
  BY <1>1, OwnGives
<1>3. /\ Runs(w, t)
      /\ UNCHANGED <<queueVars, seeking, next, localVars, sleepVars, replaced, host, boundVars, reported>>
  BY DEF LookOwn
<1> HIDE DEF t
<1>4. TypeOK'
  <2>1. NextTypes' BY <1>0, <1>2, <1>3 DEF NextTypes
  <2>2. TaskTypes' BY <1>0, <1>2, <1>3 DEF Runs, TaskTypes, TaskStates, Pcs
  <2> QED BY <1>0, <1>3, <2>1, <2>2, TypesNext DEF QueueTypes, LocalTypes, BoundTypes
<1>5. CountInv' BY <1>0, <1>1, <1>2, <1>3 DEF Runs, CountInv, TaskTypes
<1>6. \A s \in Tasks \ {t} : Queued(s) => Queued(s)' BY <1>2, <1>3 DEF Queued
<1>7. Moves(w, t, {})
  <2>1. "runs" \in Pcs \ (Pushing \cup FreePcs) BY DEF Pcs
  <2>2. task' = [s \in Tasks |-> IF s = t THEN "runs" ELSE IF s \in {} THEN "ready" ELSE task[s]]
    BY <1>0, <1>2, <1>3 DEF Runs, TaskTypes
  <2> QED BY <1>3, <1>6, <2>1, <2>2 DEF Runs, Moves
<1> QED BY <1>1, <1>2, <1>4, <1>5, <1>7, MovesKeeps

LEMMA StealOwnKeeps ==
  ASSUME TypeOK, PlaceInv, NEW w \in Workers, StealOwn(w)
  PROVE  TypeOK' /\ PlaceInv'
<1> USE DEF queueVars, sleepVars, boundVars
<1> DEFINE t == Head(own[w])
<1>0. QueueTypes /\ NextTypes /\ LocalTypes /\ TaskTypes /\ BoundTypes BY Types
<1>1. pc[w] = "steals" /\ TakeOwn(w) BY DEF StealOwn
<1>2. /\ t \in Tasks /\ own' \in [Workers -> Seq(Tasks)] /\ count' \in [Workers -> Nat]
      /\ \A v \in Workers : Len(own'[v]) = count'[v] + (IF pc[v] \in Pushing THEN 1 ELSE 0)
      /\ \A v \in Workers : ToSet(own[v]) \subseteq ToSet(own'[v]) \cup {t}
  BY <1>1, OwnGives
<1>3. /\ Found(w, t, FALSE, {})
      /\ UNCHANGED <<queueVars, seeking, next, seeker, stealing, sleepVars, replaced, host,
                     boundVars, reported>>
  BY DEF StealOwn
<1> HIDE DEF t
<1>4. /\ cur' \in [Workers -> Tasks \cup {None}] /\ task' \in [Tasks -> TaskStates]
      /\ pc' \in [Workers -> Pcs]
      /\ woken' \in [Workers -> BOOLEAN] /\ waited' \in [Workers -> BOOLEAN]
      /\ \E to \in Pcs \ (Pushing \cup FreePcs) : pc' = [pc EXCEPT ![w] = to]
  <2>1. {} \in SUBSET Tasks /\ FALSE \in BOOLEAN OBVIOUS
  <2> HIDE DEF TaskStates
  <2> QED BY <1>0, <1>2, <1>3, <2>1, FoundTypes
<1>5. TypeOK'
  <2>1. NextTypes' BY <1>0, <1>2, <1>3 DEF NextTypes
  <2>2. LocalTypes' BY <1>0, <1>3, <1>4 DEF LocalTypes
  <2>3. TaskTypes' BY <1>0, <1>3, <1>4 DEF TaskTypes
  <2> QED BY <1>0, <1>3, <2>1, <2>2, <2>3, TypesNext DEF QueueTypes, BoundTypes
<1>6. CountInv' BY <1>0, <1>1, <1>2, <1>4 DEF CountInv, TaskTypes
<1>7. \A s \in Tasks \ {t} : Queued(s) => Queued(s)' BY <1>2, <1>3 DEF Queued
<1>8. Moves(w, t, {}) BY <1>3, <1>4, <1>7 DEF Found, Moves
<1> QED BY <1>1, <1>2, <1>5, <1>6, <1>8, MovesKeeps

\* What another worker has is halved, and w takes one of its half.
LEMMA StealKeeps ==
  ASSUME TypeOK, PlaceInv, NEW w \in Workers, Steal(w)
  PROVE  TypeOK' /\ PlaceInv'
<1> USE DEF queueVars, sleepVars, boundVars
<1>0. QueueTypes /\ NextTypes /\ LocalTypes /\ TaskTypes /\ BoundTypes BY Types
<1> DEFINE Half(v) == (Len(own[v]) + 1) \div 2
           Taken(v) == SubSeq(own[v], 1, Half(v))
           Rest(v) == SubSeq(own[v], Half(v) + 1, Len(own[v]))
<1>1. PICK v \in Workers \ {w} :
        /\ count[v] > 0
        /\ own' = [own EXCEPT ![v] = Rest(v), ![w] = Tail(Taken(v))]
        /\ count' = [count EXCEPT ![v] = count[v] - Half(v), ![w] = Half(v) - 1]
        /\ Found(w, Head(Taken(v)), Len(own[v]) > 1, {})
  BY DEF Steal
<1> DEFINE h == Half(v)
           taken == Taken(v)
           rest == Rest(v)
           t == Head(taken)
<1>2. own[v] \in Seq(Tasks) /\ count[v] \in Nat /\ Len(own[v]) \in Nat
  BY <1>0, LenProperties DEF NextTypes
<1>3. Len(own[v]) = count[v] + (IF pc[v] \in Pushing THEN 1 ELSE 0) BY DEF PlaceInv, CountInv
<1>4. h \in 1..Len(own[v]) /\ count[v] - h \in Nat
  <2>1. \A c \in Nat \ {0} : \A n \in {c, c + 1} : (n + 1) \div 2 \in 1..n /\ c - ((n + 1) \div 2) \in Nat
    OBVIOUS
  <2>2. count[v] \in Nat \ {0} /\ Len(own[v]) \in {count[v], count[v] + 1} BY <1>1, <1>2, <1>3
  <2>3. h = (Len(own[v]) + 1) \div 2 OBVIOUS
  <2> HIDE DEF h
  <2> QED BY <2>1, <2>2, <2>3
<1> HIDE DEF h
<1>5. /\ taken \in Seq(Tasks) /\ taken # <<>> /\ rest \in Seq(Tasks)
      /\ Len(taken) = h /\ Len(rest) = Len(own[v]) - h
      /\ ToSet(own[v]) = ToSet(taken) \cup ToSet(rest)
  BY <1>2, <1>4, HalvesHold DEF h
<1>6. /\ t \in Tasks /\ Tail(taken) \in Seq(Tasks) /\ Len(Tail(taken)) = h - 1
      /\ ToSet(taken) = {t} \cup ToSet(Tail(taken))
  BY <1>5, TailHolds
<1>7. /\ own' = [own EXCEPT ![v] = rest, ![w] = Tail(taken)]
      /\ count' = [count EXCEPT ![v] = count[v] - h, ![w] = h - 1]
      /\ Found(w, t, Len(own[v]) > 1, {})
  BY <1>1 DEF h
<1>8. /\ pc[w] = "steals" /\ count[w] = 0
      /\ UNCHANGED <<queueVars, seeking, next, seeker, stealing, sleepVars, replaced, host, boundVars, reported>>
  BY DEF Steal
<1> HIDE DEF taken, rest, t
<1>9. ToSet(own[w]) = {}
  <2>1. Len(own[w]) = 0 BY <1>8 DEF PlaceInv, CountInv
  <2>2. own[w] \in Seq(Tasks) BY <1>0 DEF NextTypes
  <2> QED BY <2>1, <2>2, LenProperties DEF ToSet
<1>10. /\ cur' \in [Workers -> Tasks \cup {None}] /\ task' \in [Tasks -> TaskStates]
       /\ pc' \in [Workers -> Pcs]
       /\ woken' \in [Workers -> BOOLEAN] /\ waited' \in [Workers -> BOOLEAN]
       /\ \E to \in Pcs \ (Pushing \cup FreePcs) : pc' = [pc EXCEPT ![w] = to]
  <2>1. {} \in SUBSET Tasks /\ w \in Workers OBVIOUS
  <2>2. PICK more \in BOOLEAN : Found(w, t, more, {})
    <3>1. CASE Len(own[v]) > 1 
      <4>1. Found(w, t, TRUE, {}) BY <1>7, <3>1 DEF Found
      <4> QED BY <4>1
    <3>2. CASE ~(Len(own[v]) > 1)
      <4>1. Found(w, t, FALSE, {}) BY <1>7, <3>2 DEF Found
      <4> QED BY <4>1
    <3> QED BY <3>1, <3>2
  <2> HIDE DEF TaskStates
  <2> QED BY <1>0, <1>6, <2>1, <2>2, FoundTypes
<1>11. TypeOK'
  <2>1. NextTypes'
    <3>1. own' \in [Workers -> Seq(Tasks)] BY <1>0, <1>5, <1>6, <1>7 DEF NextTypes
    <3>2. h - 1 \in Nat BY <1>2, <1>4
    <3>3. count' \in [Workers -> Nat] BY <1>0, <1>4, <1>7, <3>2 DEF NextTypes
    <3> QED BY <1>0, <1>8, <3>1, <3>3 DEF NextTypes
  <2>2. LocalTypes' BY <1>0, <1>8, <1>10 DEF LocalTypes
  <2>3. TaskTypes' BY <1>0, <1>8, <1>10 DEF TaskTypes
  <2> QED BY <1>0, <1>8, <2>1, <2>2, <2>3, TypesNext DEF QueueTypes, BoundTypes
<1>12. CountInv'
  <2> SUFFICES ASSUME NEW x \in Workers
               PROVE  Len(own'[x]) = count'[x] + (IF pc'[x] \in Pushing THEN 1 ELSE 0)
    BY DEF CountInv
  <2>1. CASE x = w BY <2>1, <1>0, <1>4, <1>6, <1>7, <1>10 DEF NextTypes, TaskTypes
  <2>2. CASE x = v
    <3>1. own'[v] = rest /\ count'[v] = count[v] - h BY <1>0, <1>7 DEF NextTypes
    <3>2. pc'[v] = pc[v] BY <1>0, <1>10 DEF TaskTypes
    <3> QED BY <2>2, <3>1, <3>2, <1>2, <1>3, <1>4, <1>5
  <2>3. CASE x # w /\ x # v BY <2>3, <1>0, <1>7, <1>10 DEF NextTypes, TaskTypes, PlaceInv, CountInv
  <2> QED BY <2>1, <2>2, <2>3
<1>13. \A s \in Tasks \ {t} : Queued(s) => Queued(s)'
  <2>1. own'[v] = rest /\ own'[w] = Tail(taken) /\ \A x \in Workers \ {v, w} : own'[x] = own[x]
    BY <1>0, <1>7 DEF NextTypes
  <2>2. \A x \in Workers : ToSet(own[x]) \subseteq {t} \cup ToSet(own'[v]) \cup ToSet(own'[w]) \cup ToSet(own'[x])
    BY <2>1, <1>5, <1>6, <1>9
  <2> QED BY <2>2, <1>8 DEF Queued
<1>14. Moves(w, t, {}) BY <1>7, <1>8, <1>10, <1>13 DEF Found, Moves
<1> QED BY <1>6, <1>8, <1>11, <1>12, <1>14, MovesKeeps

LEMMA TakeNextKeeps ==
  ASSUME TypeOK, PlaceInv, NEW w \in Workers, TakeNext(w)
  PROVE  TypeOK' /\ PlaceInv'
<1> USE DEF sleepVars, boundVars
<1>0. QueueTypes /\ NextTypes /\ LocalTypes /\ TaskTypes /\ BoundTypes BY Types
<1>1. PICK v \in Workers \ {w} :
        /\ next[v] # None
        /\ next' = [next EXCEPT ![v] = None]
        /\ Found(w, next[v], FALSE, {})
  BY DEF TakeNext, Seen
<1> DEFINE t == next[v]
<1>2. t \in Tasks BY <1>0, <1>1 DEF NextTypes
<1>3. /\ pc[w] = "relocks" /\ lock' = None
      /\ UNCHANGED <<runnable, waking, surplus, timers, due, seeking, own, count, seeker, stealing,
                     sleepVars, replaced, host, boundVars, reported>>
  BY DEF TakeNext, Looked
<1> HIDE DEF t
<1>4. /\ cur' \in [Workers -> Tasks \cup {None}] /\ task' \in [Tasks -> TaskStates]
      /\ pc' \in [Workers -> Pcs]
      /\ woken' \in [Workers -> BOOLEAN] /\ waited' \in [Workers -> BOOLEAN]
      /\ \E to \in Pcs \ (Pushing \cup FreePcs) : pc' = [pc EXCEPT ![w] = to]
  <2>1. {} \in SUBSET Tasks /\ FALSE \in BOOLEAN OBVIOUS
  <2>2. Found(w, t, FALSE, {}) BY <1>1 DEF t
  <2> HIDE DEF TaskStates
  <2> QED BY <1>0, <1>2, <2>1, <2>2, FoundTypes
<1>5. TypeOK'
  <2>1. NextTypes' BY <1>0, <1>1, <1>3 DEF NextTypes
  <2>2. LocalTypes' BY <1>0, <1>3, <1>4 DEF LocalTypes
  <2>3. TaskTypes' BY <1>0, <1>3, <1>4 DEF TaskTypes
  <2> QED BY <1>0, <1>3, <2>1, <2>2, <2>3, TypesNext DEF QueueTypes, BoundTypes
<1>6. CountInv' BY <1>0, <1>3, <1>4 DEF CountInv, TaskTypes, PlaceInv
<1>7. \A s \in Tasks \ {t} : Queued(s) => Queued(s)' BY <1>0, <1>1, <1>3 DEF Queued, t, NextTypes
<1>8. Moves(w, t, {}) BY <1>1, <1>3, <1>4, <1>7 DEF Found, Moves, t
<1>9. pc[w] \in FreePcs BY <1>3
<1> QED BY <1>2, <1>5, <1>6, <1>8, <1>9, MovesKeeps

\* The tasks whose time came are in the queue with those that were there.
LEMMA FiredHolds ==
  ASSUME QueueTypes
  PROVE  Fired \in Seq(Tasks) /\ ToSet(Fired) = ToSet(runnable) \cup due
<1>1. IsFiniteSet(due) /\ due \subseteq Tasks /\ runnable \in Seq(Tasks)
  <2>1. due \in SUBSET Tasks BY DEF QueueTypes
  <2> QED BY <2>1, WorkersAssumption, FS_Subset DEF QueueTypes
<1>2. SetToSeq(due) \in Seq(Tasks) /\ ToSet(SetToSeq(due)) = due BY <1>1, ListHolds
<1>3. runnable \o SetToSeq(due) \in Seq(Tasks)
      /\ ToSet(runnable \o SetToSeq(due)) = ToSet(runnable) \cup ToSet(SetToSeq(due))
  BY <1>1, <1>2, ConcatHolds
<1> QED BY <1>2, <1>3 DEF Fired

LEMMA PopKeeps ==
  ASSUME TypeOK, PlaceInv, NEW w \in Workers, Pop(w)
  PROVE  TypeOK' /\ PlaceInv'
<1> USE DEF sleepVars, boundVars, nextVars
<1>0. QueueTypes /\ NextTypes /\ LocalTypes /\ TaskTypes /\ BoundTypes BY Types
<1> DEFINE t == Head(Fired)
           rest == Tail(Fired)
<1>1. Fired \in Seq(Tasks) /\ ToSet(Fired) = ToSet(runnable) \cup due BY <1>0, FiredHolds
<1>2. Fired # <<>> BY DEF Pop
<1>3. t \in Tasks /\ rest \in Seq(Tasks) /\ ToSet(Fired) = {t} \cup ToSet(rest)
  BY <1>1, <1>2, TailHolds
<1>4. /\ pc[w] \in FreePcs /\ lock' = None /\ runnable' = rest
      /\ timers' = timers \ due /\ due' = {}
      /\ UNCHANGED <<waking, surplus, seeking, nextVars, seeker, stealing, sleepVars, replaced, host,
                     boundVars, reported>>
  BY DEF Pop, FiresTimers, AtQueue
<1>5. PICK more \in BOOLEAN : Found(w, t, more, due)
  <2>1. Found(w, t, Len(Fired) > 1, due) BY DEF Pop
  <2>2. CASE Len(Fired) > 1
    <3>1. Found(w, t, TRUE, due) BY <2>1, <2>2 DEF Found
    <3> QED BY <3>1
  <2>3. CASE ~(Len(Fired) > 1)
    <3>1. Found(w, t, FALSE, due) BY <2>1, <2>3 DEF Found
    <3> QED BY <3>1
  <2> QED BY <2>2, <2>3
<1> HIDE DEF t, rest
<1>6. due \in SUBSET Tasks /\ due \subseteq timers BY <1>0 DEF QueueTypes
<1>7. /\ cur' \in [Workers -> Tasks \cup {None}] /\ task' \in [Tasks -> TaskStates]
      /\ pc' \in [Workers -> Pcs]
      /\ woken' \in [Workers -> BOOLEAN] /\ waited' \in [Workers -> BOOLEAN]
      /\ \E to \in Pcs \ (Pushing \cup FreePcs) : pc' = [pc EXCEPT ![w] = to]
  <2> HIDE DEF TaskStates
  <2> QED BY <1>0, <1>3, <1>5, <1>6, FoundTypes
<1>8. TypeOK'
  <2>1. QueueTypes' BY <1>0, <1>3, <1>4 DEF QueueTypes
  <2>2. LocalTypes' BY <1>0, <1>4, <1>7 DEF LocalTypes
  <2>3. TaskTypes' BY <1>0, <1>4, <1>7 DEF TaskTypes
  <2> QED BY <1>0, <1>4, <2>1, <2>2, <2>3, TypesNext DEF NextTypes, BoundTypes
<1>9. CountInv' BY <1>0, <1>4, <1>7 DEF CountInv, TaskTypes, PlaceInv
<1>10. \A s \in Tasks \ {t} : Queued(s) \/ s \in due => Queued(s)' BY <1>1, <1>3, <1>4 DEF Queued
<1>11. Moves(w, t, due) BY <1>4, <1>5, <1>7, <1>10 DEF Found, Moves
<1> QED BY <1>3, <1>4, <1>6, <1>8, <1>9, <1>11, MovesKeeps

-----------------------------------------------------------------------------
(* Steps that move tasks from a queue to another. *)

Requeues ==
  /\ UNCHANGED <<cur, task, host, timers>>
  /\ \A s \in Tasks : Queued(s) => Queued(s)'
  /\ \A w \in Workers :
       /\ pc'[w] \in FreePcs <=> pc[w] \in FreePcs
       /\ pc[w] \in PinnedPcs => pc'[w] \in PinnedPcs

LEMMA RequeuesKeeps ==
  ASSUME PlaceInv, Requeues, CountInv'
  PROVE  PlaceInv'
<1>1. FreeInv' BY DEF Requeues, PlaceInv, FreeInv
<1>2. ReadyInv' BY DEF Requeues, PlaceInv, ReadyInv
<1>3. RunInv' /\ AwaitInv' BY DEF Requeues, PlaceInv, RunInv, AwaitInv
<1>4. PinInv' BY DEF Requeues, PlaceInv, PinInv
<1> QED BY <1>1, <1>2, <1>3, <1>4 DEF PlaceInv

LEMMA LookTurnKeeps ==
  ASSUME TypeOK, PlaceInv, NEW w \in Workers, LookTurn(w)
  PROVE  TypeOK' /\ PlaceInv'
<1> USE DEF Go, localVars, sleepVars, boundVars, taskVars
<1>0. QueueTypes /\ NextTypes /\ LocalTypes /\ TaskTypes /\ BoundTypes BY Types
<1> DEFINE first == IF next[w] = None THEN <<>> ELSE <<next[w]>>
           second == IF count[w] > 0 THEN <<Head(own[w])>> ELSE <<>>
<1>1. /\ pc[w] = "looks" /\ runnable' = runnable \o (first \o second)
      /\ next' = [next EXCEPT ![w] = None] /\ pc' = [pc EXCEPT ![w] = "locks"]
      /\ UNCHANGED <<lock, waking, surplus, timers, due, seeking, localVars, sleepVars, replaced,
                     taskVars, boundVars, reported>>
  BY DEF LookTurn
<1>2. /\ own' \in [Workers -> Seq(Tasks)] /\ count' \in [Workers -> Nat]
      /\ \A v \in Workers : Len(own'[v]) = count'[v] + (IF pc[v] \in Pushing THEN 1 ELSE 0)
      /\ \A v \in Workers : ToSet(own[v]) \subseteq ToSet(own'[v]) \cup ToSet(second)
      /\ second \in Seq(Tasks)
  <2>1. CASE count[w] > 0
    <3>1. TakeOwn(w) BY <2>1 DEF LookTurn
    <3>2. /\ Head(own[w]) \in Tasks /\ own' \in [Workers -> Seq(Tasks)] /\ count' \in [Workers -> Nat]
          /\ \A v \in Workers : Len(own'[v]) = count'[v] + (IF pc[v] \in Pushing THEN 1 ELSE 0)
          /\ \A v \in Workers : ToSet(own[v]) \subseteq ToSet(own'[v]) \cup {Head(own[w])}
      BY <1>1, <3>1, OwnGives
    <3>3. second = <<Head(own[w])>> BY <2>1
    <3>4. <<Head(own[w])>> \in Seq(Tasks) /\ ToSet(<<Head(own[w])>>) = {Head(own[w])} BY <3>2 DEF ToSet
    <3> HIDE DEF second
    <3> QED BY <3>2, <3>3, <3>4
  <2>2. CASE ~(count[w] > 0)
    <3>1. own' = own /\ count' = count /\ second = <<>> BY <2>2 DEF LookTurn
    <3>2. <<>> \in Seq(Tasks) BY EmptySeq
    <3> HIDE DEF second
    <3> QED BY <1>0, <3>1, <3>2 DEF NextTypes, PlaceInv, CountInv
  <2> QED BY <2>1, <2>2
<1>3. first \in Seq(Tasks) /\ (next[w] # None => next[w] \in ToSet(first))
  <2>1. CASE next[w] = None BY <2>1, EmptySeq
  <2>2. CASE next[w] # None
    <3>1. next[w] \in Tasks /\ first = <<next[w]>> BY <2>2, <1>0 DEF NextTypes
    <3>2. <<next[w]>> \in Seq(Tasks) /\ ToSet(<<next[w]>>) = {next[w]} BY <3>1 DEF ToSet
    <3> HIDE DEF first
    <3> QED BY <3>1, <3>2
  <2> QED BY <2>1, <2>2
<1> HIDE DEF first, second
<1>4. first \o second \in Seq(Tasks) /\ ToSet(first \o second) = ToSet(first) \cup ToSet(second)
  BY <1>2, <1>3, ConcatHolds
<1>5. runnable' \in Seq(Tasks) /\ ToSet(runnable') = ToSet(runnable) \cup ToSet(first) \cup ToSet(second)
  <2>1. runnable \in Seq(Tasks) BY <1>0 DEF QueueTypes
  <2> DEFINE both == first \o second
  <2>2. runnable' = runnable \o both /\ both \in Seq(Tasks) /\ ToSet(both) = ToSet(first) \cup ToSet(second)
    BY <1>1, <1>4
  <2> HIDE DEF both
  <2>3. runnable \o both \in Seq(Tasks) /\ ToSet(runnable \o both) = ToSet(runnable) \cup ToSet(both)
    BY <2>1, <2>2, ConcatHolds
  <2> QED BY <2>2, <2>3
<1>6. TypeOK'
  <2>1. QueueTypes' BY <1>0, <1>1, <1>5 DEF QueueTypes
  <2>2. NextTypes' BY <1>0, <1>1, <1>2 DEF NextTypes
  <2>3. LocalTypes' BY <1>0, <1>1 DEF LocalTypes
  <2>4. TaskTypes' BY <1>0, <1>1 DEF TaskTypes, Pcs
  <2> QED BY <1>0, <1>1, <2>1, <2>2, <2>3, <2>4, TypesNext DEF BoundTypes
<1>7. CountInv' BY <1>0, <1>1, <1>2 DEF CountInv, TaskTypes
<1>8. Requeues
  <2>1. \A s \in Tasks : Queued(s) => Queued(s)'
    <3> SUFFICES ASSUME NEW s \in Tasks, Queued(s) PROVE Queued(s)'
      OBVIOUS
    <3>1. CASE s \in ToSet(runnable) BY <3>1, <1>5 DEF Queued
    <3>2. CASE \E v \in Workers : s \in ToSet(own[v]) BY <3>2, <1>2, <1>5 DEF Queued
    <3>3. CASE \E v \in Workers : next[v] = s
      <4>1. PICK v \in Workers : next[v] = s BY <3>3
      <4>2. CASE v = w
        <5>1. next[w] # None BY <4>1, <4>2, WorkersAssumption
        <5> QED BY <4>1, <4>2, <5>1, <1>3, <1>5 DEF Queued
      <4>3. CASE v # w
        <5>1. next'[v] = s BY <4>1, <4>3, <1>0, <1>1 DEF NextTypes
        <5> QED BY <5>1 DEF Queued
      <4> QED BY <4>2, <4>3
    <3> QED BY <3>1, <3>2, <3>3 DEF Queued
  <2> QED BY <2>1, <1>0, <1>1 DEF Requeues, TaskTypes
<1> QED BY <1>6, <1>7, <1>8, RequeuesKeeps

LEMMA RetireKeeps ==
  ASSUME TypeOK, PlaceInv, NEW w \in Workers, Retire(w)
  PROVE  TypeOK' /\ PlaceInv'
<1> USE DEF Go, sleepVars, boundVars, taskVars
<1>0. QueueTypes /\ NextTypes /\ LocalTypes /\ TaskTypes /\ BoundTypes BY Types
<1>1. /\ pc[w] \in {"locks", "relocks"} /\ surplus > 0
      /\ seeking' = (seeking /\ ~seeker[w])
      /\ seeker' = [seeker EXCEPT ![w] = FALSE]
      /\ surplus' = surplus - 1
      /\ runnable' = runnable \o own[w]
      /\ own' = [own EXCEPT ![w] = <<>>]
      /\ count' = [count EXCEPT ![w] = 0]
      /\ lock' = None
      /\ UNCHANGED <<waking, timers, due, next, woken, waited, stealing, sleepVars, replaced, taskVars,
                     boundVars, reported>>
  BY DEF Retire, AtQueue, Retiring
<1>2. PICK to \in {"retires", "off"} : pc' = [pc EXCEPT ![w] = to] BY DEF Retire
<1>3. runnable' \in Seq(Tasks) /\ ToSet(runnable') = ToSet(runnable) \cup ToSet(own[w])
  <2>1. runnable \in Seq(Tasks) /\ own[w] \in Seq(Tasks) BY <1>0 DEF QueueTypes, NextTypes
  <2> QED BY <2>1, <1>1, ConcatHolds
<1>4. own' \in [Workers -> Seq(Tasks)]
  <2>1. <<>> \in Seq(Tasks) BY EmptySeq
  <2> QED BY <2>1, <1>0, <1>1 DEF NextTypes
<1>5. TypeOK'
  <2>1. QueueTypes'
    <3>1. surplus' \in Nat BY <1>0, <1>1 DEF QueueTypes
    <3>2. seeking' \in BOOLEAN BY <1>1
    <3> QED BY <1>0, <1>1, <1>3, <3>1, <3>2 DEF QueueTypes
  <2>2. NextTypes' BY <1>0, <1>1, <1>4 DEF NextTypes
  <2>3. LocalTypes' BY <1>0, <1>1 DEF LocalTypes
  <2>4. TaskTypes' BY <1>0, <1>1, <1>2 DEF TaskTypes, Pcs
  <2> QED BY <1>0, <1>1, <2>1, <2>2, <2>3, <2>4, TypesNext DEF BoundTypes
<1>6. CountInv'
  <2>1. Len(<<>>) = 0 OBVIOUS
  <2> QED BY <2>1, <1>0, <1>1, <1>2 DEF CountInv, PlaceInv, TaskTypes, NextTypes
<1>7. Requeues
  <2>1. \A v \in Workers \ {w} : own'[v] = own[v] BY <1>0, <1>1 DEF NextTypes
  <2>2. \A s \in Tasks : Queued(s) => Queued(s)' BY <1>1, <1>3, <2>1 DEF Queued
  <2> QED BY <2>2, <1>0, <1>1, <1>2 DEF Requeues, TaskTypes
<1> QED BY <1>5, <1>6, <1>7, RequeuesKeeps

LEMMA CountOwnKeeps ==
  ASSUME TypeOK, PlaceInv, NEW w \in Workers, CountOwn(w)
  PROVE  TypeOK' /\ PlaceInv'
<1> USE DEF Go, queueVars, localVars, sleepVars, boundVars, taskVars
<1>0. QueueTypes /\ NextTypes /\ LocalTypes /\ TaskTypes /\ BoundTypes BY Types
<1>1. PICK to \in {"wakes", "runs"} : pc' = [pc EXCEPT ![w] = to] BY DEF CountOwn
<1>2. TypeOK'
  <2>1. NextTypes' BY <1>0 DEF CountOwn, NextTypes
  <2>2. TaskTypes' BY <1>0, <1>1 DEF CountOwn, TaskTypes, Pcs
  <2> QED BY <1>0, <2>1, <2>2, TypesNext DEF CountOwn, QueueTypes, LocalTypes, BoundTypes
<1>3. CountInv' BY <1>0, <1>1 DEF CountOwn, CountInv, PlaceInv, TaskTypes, NextTypes
<1>4. Requeues BY <1>0, <1>1 DEF CountOwn, Requeues, Queued, TaskTypes
<1> QED BY <1>2, <1>3, <1>4, RequeuesKeeps

-----------------------------------------------------------------------------
(* What tasks do. *)

LEMMA SpawnKeeps ==
  ASSUME TypeOK, PlaceInv, NEW w \in Workers, NEW t \in Tasks, Spawn(w, t)
  PROVE  TypeOK' /\ PlaceInv'
<1> USE DEF Go, queueVars, localVars, sleepVars, boundVars
<1>0. QueueTypes /\ NextTypes /\ LocalTypes /\ TaskTypes /\ BoundTypes BY Types
<1>1. /\ pc[w] = "runs" /\ task' = [task EXCEPT ![t] = "ready"]
      /\ own' = [own EXCEPT ![w] = Append(own[w], t)]
      /\ UNCHANGED <<queueVars, seeking, count, next, localVars, sleepVars, replaced, cur, host,
                     boundVars, reported>>
  BY DEF Spawn, PushOwn
<1>2. PICK to \in Pushing : pc' = [pc EXCEPT ![w] = to] BY DEF Spawn, PushOwn
<1>3. /\ Append(own[w], t) \in Seq(Tasks) /\ Len(Append(own[w], t)) = Len(own[w]) + 1
      /\ ToSet(Append(own[w], t)) = ToSet(own[w]) \cup {t}
  <2>1. own[w] \in Seq(Tasks) BY <1>0 DEF NextTypes
  <2> QED BY <2>1, AppendHolds
<1>4. TypeOK'
  <2>1. NextTypes' BY <1>0, <1>1, <1>3 DEF NextTypes
  <2>2. TaskTypes' BY <1>0, <1>1, <1>2 DEF TaskTypes, TaskStates, Pcs
  <2> QED BY <1>0, <1>1, <2>1, <2>2, TypesNext DEF QueueTypes, LocalTypes, BoundTypes
<1>5. CountInv' BY <1>0, <1>1, <1>2, <1>3 DEF CountInv, PlaceInv, NextTypes, TaskTypes
<1>6. FreeInv' BY <1>0, <1>1, <1>2 DEF FreeInv, PlaceInv, TaskTypes
<1>7. ReadyInv'
  <2>1. \A v \in Workers : ToSet(own[v]) \subseteq ToSet(own'[v]) BY <1>0, <1>1, <1>3 DEF NextTypes
  <2>2. t \in ToSet(own'[w]) BY <1>0, <1>1, <1>3 DEF NextTypes
  <2> QED BY <2>1, <2>2, <1>0, <1>1 DEF ReadyInv, PlaceInv, Queued, TaskTypes
<1>8. RunInv' BY <1>0, <1>1 DEF RunInv, PlaceInv, TaskTypes
<1>9. PinInv' BY <1>0, <1>1, <1>2 DEF PinInv, PlaceInv, TaskTypes
<1>10. AwaitInv' BY <1>0, <1>1 DEF AwaitInv, PlaceInv, TaskTypes
<1> QED BY <1>4, <1>5, <1>6, <1>7, <1>8, <1>9, <1>10 DEF PlaceInv

\* The task that was next here goes to the worker's own queue.
LEMMA ScheduleKeeps ==
  ASSUME TypeOK, PlaceInv, NEW w \in Workers, NEW t \in Tasks, Schedule(w, t)
  PROVE  TypeOK' /\ PlaceInv'
<1> USE DEF Go, queueVars, localVars, sleepVars, boundVars
<1>0. QueueTypes /\ NextTypes /\ LocalTypes /\ TaskTypes /\ BoundTypes BY Types
<1>1. /\ pc[w] = "runs" /\ task' = [task EXCEPT ![t] = "ready"]
      /\ next' = [next EXCEPT ![w] = t]
      /\ UNCHANGED <<queueVars, seeking, count, localVars, sleepVars, replaced, cur, host, boundVars, reported>>
  BY DEF Schedule
<1>2. PICK to \in Pushing \cup {"wakes", "runs"} :
        /\ pc' = [pc EXCEPT ![w] = to]
        /\ own' \in [Workers -> Seq(Tasks)]
        /\ Len(own'[w]) = Len(own[w]) + (IF to \in Pushing THEN 1 ELSE 0)
        /\ \A v \in Workers \ {w} : own'[v] = own[v]
        /\ ToSet(own[w]) \cup ({next[w]} \ {None}) \subseteq ToSet(own'[w])
  <2>1. own[w] \in Seq(Tasks) /\ Len(own[w]) \in Nat BY <1>0, LenProperties DEF NextTypes
  <2>2. CASE next[w] # None
    <3>1. next[w] \in Tasks BY <2>2, <1>0 DEF NextTypes
    <3>2. /\ Append(own[w], next[w]) \in Seq(Tasks) /\ Len(Append(own[w], next[w])) = Len(own[w]) + 1
          /\ ToSet(Append(own[w], next[w])) = ToSet(own[w]) \cup {next[w]}
      BY <2>1, <3>1, AppendHolds
    <3>3. own' = [own EXCEPT ![w] = Append(own[w], next[w])] BY <2>2 DEF Schedule, PushOwn
    <3>4. PICK to \in Pushing : pc' = [pc EXCEPT ![w] = to] BY <2>2 DEF Schedule, PushOwn
    <3>5. /\ own' \in [Workers -> Seq(Tasks)] /\ own'[w] = Append(own[w], next[w])
          /\ \A v \in Workers \ {w} : own'[v] = own[v]
      BY <1>0, <3>2, <3>3 DEF NextTypes
    <3> QED BY <3>2, <3>4, <3>5
  <2>3. CASE next[w] = None
    <3>1. own' = own /\ (pc' = [pc EXCEPT ![w] = "wakes"] \/ pc' = pc) BY <2>3 DEF Schedule
    <3>2. PICK to \in {"wakes", "runs"} : pc' = [pc EXCEPT ![w] = to]
      <4>1. CASE pc' = pc
        <5>1. pc' = [pc EXCEPT ![w] = "runs"] BY <4>1, <1>0, <1>1 DEF TaskTypes
        <5> QED BY <5>1
      <4> QED BY <3>1, <4>1
    <3>3. /\ to \notin Pushing /\ own' \in [Workers -> Seq(Tasks)] /\ Len(own'[w]) = Len(own[w]) + 0
          /\ \A v \in Workers \ {w} : own'[v] = own[v]
          /\ ToSet(own[w]) \cup ({next[w]} \ {None}) \subseteq ToSet(own'[w])
      BY <2>1, <2>3, <3>1, <3>2, <1>0 DEF NextTypes
    <3> QED BY <3>2, <3>3
  <2> QED BY <2>2, <2>3
<1>3. TypeOK'
  <2>1. NextTypes' BY <1>0, <1>1, <1>2 DEF NextTypes
  <2>2. TaskTypes' BY <1>0, <1>1, <1>2 DEF TaskTypes, TaskStates, Pcs
  <2> QED BY <1>0, <1>1, <2>1, <2>2, TypesNext DEF QueueTypes, LocalTypes, BoundTypes
<1>4. CountInv'
  <2> SUFFICES ASSUME NEW v \in Workers
               PROVE  Len(own'[v]) = count'[v] + (IF pc'[v] \in Pushing THEN 1 ELSE 0)
    BY DEF CountInv
  <2>1. CASE v = w
    <3>1. Len(own[w]) = count[w] + 0 BY <1>1 DEF CountInv, PlaceInv
    <3>2. count[w] \in Nat /\ count' = count /\ pc'[w] = to BY <1>0, <1>1, <1>2 DEF NextTypes, TaskTypes
    <3> QED BY <2>1, <3>1, <3>2, <1>2
  <2>2. CASE v # w BY <2>2, <1>0, <1>1, <1>2 DEF CountInv, PlaceInv, TaskTypes
  <2> QED BY <2>1, <2>2
<1>5. FreeInv' BY <1>0, <1>1, <1>2 DEF FreeInv, PlaceInv, TaskTypes
<1>6. ReadyInv'
  <2> SUFFICES ASSUME NEW s \in Tasks, task'[s] = "ready" PROVE Queued(s)'
    BY DEF ReadyInv
  <2>1. CASE s = t
    <3>1. next'[w] = s BY <2>1, <1>0, <1>1 DEF NextTypes
    <3> QED BY <3>1 DEF Queued
  <2>2. CASE s # t
    <3>1. Queued(s) BY <2>2, <1>0, <1>1 DEF ReadyInv, PlaceInv, TaskTypes
    <3>2. CASE s \in ToSet(runnable) BY <3>2, <1>1 DEF Queued
    <3>3. CASE \E v \in Workers : s \in ToSet(own[v]) BY <3>3, <1>2 DEF Queued
    <3>4. CASE \E v \in Workers : next[v] = s
      <4>1. PICK v \in Workers : next[v] = s BY <3>4
      <4>2. CASE v = w BY <4>1, <4>2, <1>2, WorkersAssumption DEF Queued
      <4>3. CASE v # w
        <5>1. next'[v] = s BY <4>1, <4>3, <1>0, <1>1 DEF NextTypes
        <5> QED BY <5>1 DEF Queued
      <4> QED BY <4>2, <4>3
    <3> QED BY <3>1, <3>2, <3>3, <3>4 DEF Queued
  <2> QED BY <2>1, <2>2
<1>7. RunInv' BY <1>0, <1>1 DEF RunInv, PlaceInv, TaskTypes
<1>8. PinInv' BY <1>0, <1>1, <1>2 DEF PinInv, PlaceInv, TaskTypes
<1>9. AwaitInv' BY <1>0, <1>1 DEF AwaitInv, PlaceInv, TaskTypes
<1> QED BY <1>3, <1>4, <1>5, <1>6, <1>7, <1>8, <1>9 DEF PlaceInv

LEMMA UnpinKeeps ==
  ASSUME TypeOK, PlaceInv, NEW w \in Workers, NEW t \in Tasks, Unpin(w, t)
  PROVE  TypeOK' /\ PlaceInv'
<1> USE DEF queueVars, nextVars, localVars, sleepVars, boundVars
<1>0. QueueTypes /\ NextTypes /\ LocalTypes /\ TaskTypes /\ BoundTypes BY Types
<1>1. TypeOK'
  <2>1. TaskTypes' BY <1>0 DEF Unpin, TaskTypes, TaskStates
  <2> QED BY <1>0, <2>1, TypesNext DEF Unpin, QueueTypes, NextTypes, LocalTypes, BoundTypes
<1>2. CountInv' /\ FreeInv' BY DEF Unpin, CountInv, FreeInv, PlaceInv
<1>3. ReadyInv' BY <1>0 DEF Unpin, ReadyInv, PlaceInv, Queued, TaskTypes
<1>4. RunInv' /\ PinInv' BY <1>0 DEF Unpin, RunInv, PinInv, PlaceInv, TaskTypes
<1>5. AwaitInv' BY <1>0 DEF Unpin, AwaitInv, PlaceInv, TaskTypes
<1> QED BY <1>1, <1>2, <1>3, <1>4, <1>5 DEF PlaceInv

\* The task of w stops for what it waits for.
LEMMA LeavesKeeps ==
  ASSUME TaskTypes, PlaceInv, NEW w \in Workers, NEW to \in {"done", "task", "host", "time"}, Leaves(w, to),
         to = "host" => host' = [host EXCEPT ![cur[w]] = "works"],
         to # "host" => host' = host,
         timers \subseteq timers', to = "time" => cur[w] \in timers',
         UNCHANGED <<runnable, own, count, next>>
  PROVE  TaskTypes' /\ PlaceInv'
<1>1. /\ pc[w] = "runs" /\ task' = [task EXCEPT ![cur[w]] = to] /\ cur' = [cur EXCEPT ![w] = None]
      /\ pc' = [pc EXCEPT ![w] = "looks"]
  BY DEF Leaves, Go
<1>2. TaskTypes'
  <2>1. to \in TaskStates BY DEF TaskStates, AllKinds
  <2>2. pc' \in [Workers -> Pcs] /\ cur' \in [Workers -> Tasks \cup {None}] BY <1>1 DEF TaskTypes, Pcs
  <2>3. task' \in [Tasks -> TaskStates] BY <1>1, <2>1 DEF TaskTypes
  <2>4. host' \in [Tasks -> {"none", "works", "rings", "ends"}] BY DEF TaskTypes
  <2> QED BY <2>2, <2>3, <2>4 DEF TaskTypes
<1>3. CountInv' BY <1>1 DEF CountInv, PlaceInv, TaskTypes
<1>4. FreeInv' BY <1>1 DEF FreeInv, PlaceInv, TaskTypes
<1>5. ReadyInv' BY <1>1 DEF ReadyInv, PlaceInv, Queued, TaskTypes
<1>6. RunInv' BY <1>1 DEF RunInv, PlaceInv, TaskTypes
<1>7. PinInv' BY <1>1 DEF PinInv, PlaceInv, TaskTypes
<1>8. AwaitInv' BY <1>1 DEF AwaitInv, PlaceInv, TaskTypes
<1> QED BY <1>2, <1>3, <1>4, <1>5, <1>6, <1>7, <1>8 DEF PlaceInv

LEMMA StopsKeeps ==
  ASSUME TypeOK, PlaceInv, NEW w \in Workers, Finish(w) \/ ParkTask(w) \/ ParkHost(w) \/ ParkTime(w)
  PROVE  TypeOK' /\ PlaceInv'
<1> USE DEF queueVars, nextVars, localVars, sleepVars, boundVars
<1>0. QueueTypes /\ NextTypes /\ LocalTypes /\ TaskTypes /\ BoundTypes BY Types
<1>1. CASE Finish(w)
  <2>1. Leaves(w, "done") BY <1>1 DEF Finish
  <2>2. TaskTypes' /\ PlaceInv' BY <1>0, <1>1, <2>1, LeavesKeeps DEF Finish
  <2> QED BY <1>0, <1>1, <2>2, TypesNext DEF Finish, QueueTypes, NextTypes, LocalTypes, BoundTypes
<1>2. CASE ParkTask(w)
  <2>1. Leaves(w, "task") BY <1>2 DEF ParkTask
  <2>2. TaskTypes' /\ PlaceInv' BY <1>0, <1>2, <2>1, LeavesKeeps DEF ParkTask
  <2>3. BoundTypes' BY <1>0, <1>2 DEF ParkTask, Parks, BoundTypes
  <2> QED BY <1>0, <1>2, <2>2, <2>3, TypesNext DEF ParkTask, QueueTypes, NextTypes, LocalTypes
<1>3. CASE ParkHost(w)
  <2>1. Leaves(w, "host") /\ host' = [host EXCEPT ![cur[w]] = "works"] BY <1>3 DEF ParkHost
  <2>2. TaskTypes' /\ PlaceInv' BY <1>0, <1>3, <2>1, LeavesKeeps DEF ParkHost
  <2>3. BoundTypes' BY <1>0, <1>3 DEF ParkHost, Parks, BoundTypes
  <2> QED BY <1>0, <1>3, <2>2, <2>3, TypesNext DEF ParkHost, QueueTypes, NextTypes, LocalTypes
<1>4. CASE ParkTime(w)
  <2>1. Leaves(w, "time") /\ timers' = timers \cup {cur[w]} BY <1>4 DEF ParkTime
  <2>2. TaskTypes' /\ PlaceInv'
    <3>1. timers \subseteq timers' /\ cur[w] \in timers' BY <2>1
    <3> QED BY <1>0, <1>4, <2>1, <3>1, LeavesKeeps DEF ParkTime
  <2>3. BoundTypes' BY <1>0, <1>4 DEF ParkTime, Parks, BoundTypes
  <2>4. LocalTypes' BY <1>0, <1>4 DEF ParkTime, Ring, LocalTypes
  <2>5. QueueTypes'
    <3>1. cur[w] \in Tasks BY <1>0, <2>1 DEF Leaves, FreeInv, PlaceInv, TaskTypes
    <3> QED BY <1>0, <1>4, <2>1, <3>1 DEF ParkTime, QueueTypes
  <2> QED BY <1>0, <1>4, <2>2, <2>3, <2>4, <2>5, TypesNext DEF ParkTime, NextTypes
<1> QED BY <1>1, <1>2, <1>3, <1>4

LEMMA PinKeeps ==
  ASSUME TypeOK, PlaceInv, NEW w \in Workers, Pin(w)
  PROVE  TypeOK' /\ PlaceInv'
<1> USE DEF Go, queueVars, nextVars, localVars, sleepVars
<1>0. QueueTypes /\ NextTypes /\ LocalTypes /\ TaskTypes /\ BoundTypes BY Types
<1>1. PICK to \in PinnedStates :
        /\ pc[w] = "inC" /\ pc' = [pc EXCEPT ![w] = "pinned"]
        /\ task' = [task EXCEPT ![cur[w]] = to]
  BY DEF Pin
<1>2. TypeOK'
  <2>1. TaskTypes' BY <1>0, <1>1 DEF Pin, TaskTypes, TaskStates, Pcs
  <2>2. BoundTypes' BY <1>0 DEF Pin, BoundTypes
  <2> QED BY <1>0, <2>1, <2>2, TypesNext DEF Pin, QueueTypes, NextTypes, LocalTypes
<1>3. CountInv' /\ FreeInv' BY <1>0, <1>1 DEF Pin, CountInv, FreeInv, PlaceInv, TaskTypes
<1>4. ReadyInv' BY <1>0, <1>1 DEF Pin, ReadyInv, PlaceInv, Queued, TaskTypes
<1>5. RunInv' /\ PinInv' BY <1>0, <1>1 DEF Pin, RunInv, PinInv, PlaceInv, TaskTypes
<1>6. AwaitInv' BY <1>0, <1>1 DEF Pin, AwaitInv, PlaceInv, TaskTypes
<1> QED BY <1>2, <1>3, <1>4, <1>5, <1>6 DEF PlaceInv

LEMMA OutsideKeeps ==
  ASSUME TypeOK, PlaceInv, NEW t \in Tasks, Outside(t)
  PROVE  TypeOK' /\ PlaceInv'
<1> USE DEF queueVars, nextVars, localVars, sleepVars, boundVars
<1>0. QueueTypes /\ NextTypes /\ LocalTypes /\ TaskTypes /\ BoundTypes BY Types
<1>1. CASE HostEnds(t)
  <2>1. /\ host[t] = "works" /\ runnable' = Append(runnable, t) /\ task' = [task EXCEPT ![t] = "ready"]
        /\ \E to \in {"rings", "ends"} : host' = [host EXCEPT ![t] = to]
        /\ UNCHANGED <<lock, surplus, timers, due, nextVars, pc, localVars, sleepVars, replaced, cur,
                       boundVars, reported>>
    BY <1>1 DEF HostEnds
  <2>2. runnable' \in Seq(Tasks) /\ ToSet(runnable') = ToSet(runnable) \cup {t}
    <3>1. runnable \in Seq(Tasks) BY <1>0 DEF QueueTypes
    <3> QED BY <3>1, <2>1, AppendHolds
  <2>3. TypeOK'
    <3>1. waking' \in BOOLEAN /\ seeking' \in BOOLEAN BY <1>1 DEF HostEnds
    <3>2. QueueTypes' BY <1>0, <2>1, <2>2, <3>1 DEF QueueTypes
    <3>3. TaskTypes' BY <1>0, <2>1 DEF TaskTypes, TaskStates
    <3> QED BY <1>0, <2>1, <3>2, <3>3, TypesNext DEF NextTypes, LocalTypes, BoundTypes
  <2>4. CountInv' /\ FreeInv' BY <2>1 DEF CountInv, FreeInv, PlaceInv
  <2>5. ReadyInv' BY <1>0, <2>1, <2>2 DEF ReadyInv, PlaceInv, Queued, TaskTypes
  <2>6. RunInv' /\ PinInv' BY <1>0, <2>1 DEF RunInv, PinInv, PlaceInv, TaskTypes
  <2>7. AwaitInv' BY <1>0, <2>1 DEF AwaitInv, PlaceInv, TaskTypes
  <2> QED BY <2>3, <2>4, <2>5, <2>6, <2>7 DEF PlaceInv
<1>2. CASE HostRings(t)
  <2>1. TypeOK'
    <3>1. LocalTypes' BY <1>0, <1>2 DEF HostRings, Ring, LocalTypes
    <3>2. TaskTypes' BY <1>0, <1>2 DEF HostRings, TaskTypes
    <3> QED BY <1>0, <1>2, <3>1, <3>2, TypesNext DEF HostRings, QueueTypes, NextTypes, BoundTypes
  <2>2. CountInv' /\ FreeInv' /\ RunInv' /\ PinInv'
    BY <1>2 DEF HostRings, CountInv, FreeInv, RunInv, PinInv, PlaceInv
  <2>3. ReadyInv' BY <1>2 DEF HostRings, ReadyInv, PlaceInv, Queued
  <2>4. AwaitInv' BY <1>0, <1>2 DEF HostRings, AwaitInv, PlaceInv, TaskTypes
  <2> QED BY <2>1, <2>2, <2>3, <2>4 DEF PlaceInv
<1>3. CASE HostDone(t)
  <2>1. TypeOK'
    <3>1. TaskTypes' BY <1>0, <1>3 DEF HostDone, TaskTypes
    <3> QED BY <1>0, <1>3, <3>1, TypesNext DEF HostDone, QueueTypes, NextTypes, LocalTypes, BoundTypes
  <2>2. CountInv' /\ FreeInv' /\ RunInv' /\ PinInv'
    BY <1>3 DEF HostDone, CountInv, FreeInv, RunInv, PinInv, PlaceInv
  <2>3. ReadyInv' BY <1>3 DEF HostDone, ReadyInv, PlaceInv, Queued
  <2>4. AwaitInv' BY <1>0, <1>3 DEF HostDone, AwaitInv, PlaceInv, TaskTypes
  <2> QED BY <2>1, <2>2, <2>3, <2>4 DEF PlaceInv
<1>4. CASE TimeComes(t)
  <2> USE DEF taskVars
  <2>1. TypeOK'
    <3>1. QueueTypes' BY <1>0, <1>4 DEF TimeComes, QueueTypes
    <3> QED BY <1>0, <1>4, <3>1, TypesNext DEF TimeComes, NextTypes, LocalTypes, TaskTypes, BoundTypes
  <2>2. CountInv' /\ FreeInv' /\ RunInv' /\ PinInv'
    BY <1>4 DEF TimeComes, CountInv, FreeInv, RunInv, PinInv, PlaceInv
  <2>3. ReadyInv' BY <1>4 DEF TimeComes, ReadyInv, PlaceInv, Queued
  <2>4. AwaitInv' BY <1>4 DEF TimeComes, AwaitInv, PlaceInv
  <2> QED BY <2>1, <2>2, <2>3, <2>4 DEF PlaceInv
<1>5. CASE HostUnpins(t)
  <2>1. TypeOK'
    <3>1. TaskTypes' BY <1>0, <1>5 DEF HostUnpins, TaskTypes, TaskStates
    <3> QED BY <1>0, <1>5, <3>1, TypesNext DEF HostUnpins, QueueTypes, NextTypes, LocalTypes, BoundTypes
  <2>2. CountInv' /\ FreeInv' BY <1>5 DEF HostUnpins, CountInv, FreeInv, PlaceInv
  <2>3. ReadyInv' BY <1>0, <1>5 DEF HostUnpins, ReadyInv, PlaceInv, Queued, TaskTypes
  <2>4. RunInv' /\ PinInv' BY <1>0, <1>5 DEF HostUnpins, RunInv, PinInv, PlaceInv, TaskTypes
  <2>5. AwaitInv' BY <1>0, <1>5 DEF HostUnpins, AwaitInv, PlaceInv, TaskTypes
  <2> QED BY <2>1, <2>2, <2>3, <2>4, <2>5 DEF PlaceInv
<1> QED BY <1>1, <1>2, <1>3, <1>4, <1>5 DEF Outside

-----------------------------------------------------------------------------
(* The count finds a deadlock. *)

\* When `stalled` counts as many as there are, each worker is idle or pinned: there
\* are no more pinned tasks than workers that pin them.
LEMMA CountsAll ==
  ASSUME TypeOK, PlaceInv, EachWaits
  PROVE  \A w \in Workers : pc[w] \in IdlePcs \cup OffPcs \/ w \in PinnedWorkers
<1> DEFINE PinnedTasks == {t \in Tasks : task[t] \in PinnedStates}
<1>1. IsFiniteSet(Workers) BY WorkersAssumption
<1>2. /\ Idle \in SUBSET Workers /\ PinnedWorkers \in SUBSET Workers /\ Working \in SUBSET Workers
      /\ Idle \cup PinnedWorkers \in SUBSET Working /\ Idle \cap PinnedWorkers = {}
  BY DEF Idle, PinnedWorkers, Working
<1>3. IsFiniteSet(Idle) /\ IsFiniteSet(PinnedWorkers) /\ IsFiniteSet(Working)
  BY <1>1, <1>2, FS_Subset
<1>4. Cardinality(PinnedTasks) <= Cardinality(PinnedWorkers)
  <2> DEFINE f == [w \in PinnedWorkers |-> cur[w]]
  <2>1. f \in [PinnedWorkers -> PinnedTasks]
    <3> SUFFICES ASSUME NEW w \in PinnedWorkers PROVE cur[w] \in PinnedTasks
      OBVIOUS
    <3>1. cur[w] \in Tasks BY Types DEF PinnedWorkers, PlaceInv, FreeInv, TaskTypes
    <3> QED BY <3>1 DEF PinnedWorkers
  <2>2. \A t \in PinnedTasks : \E w \in PinnedWorkers : f[w] = t
    BY DEF PinnedWorkers, PlaceInv, PinInv
  <2>3. f \in Surjection(PinnedWorkers, PinnedTasks) BY <2>1, <2>2 DEF Surjection
  <2> QED BY <2>3, <1>3, FS_Surjection
<1>5. Cardinality(Idle) + Cardinality(PinnedTasks) >= Cardinality(Working) BY DEF EachWaits
<1>6. IsFiniteSet(PinnedTasks)
  <2>1. PinnedTasks \in SUBSET Tasks OBVIOUS
  <2> QED BY <2>1, WorkersAssumption, FS_Subset
<1>7. /\ Cardinality(Idle) \in Nat /\ Cardinality(PinnedTasks) \in Nat
      /\ Cardinality(PinnedWorkers) \in Nat /\ Cardinality(Working) \in Nat
  BY <1>3, <1>6, FS_CardinalityType
<1> HIDE DEF PinnedTasks
<1>8. Cardinality(Idle \cup PinnedWorkers) = Cardinality(Idle) + Cardinality(PinnedWorkers)
  <2>1. Cardinality(Idle \cup PinnedWorkers)
          = Cardinality(Idle) + Cardinality(PinnedWorkers) - Cardinality(Idle \cap PinnedWorkers)
    BY <1>3, FS_Union
  <2>2. Cardinality(Idle \cap PinnedWorkers) = 0 BY <1>2, FS_EmptySet
  <2> QED BY <2>1, <2>2, <1>7
<1>9. Cardinality(Idle \cup PinnedWorkers) <= Cardinality(Working) BY <1>2, <1>3, FS_Subset
<1>10. Cardinality(Working) = Cardinality(Idle \cup PinnedWorkers) BY <1>4, <1>5, <1>7, <1>8, <1>9
<1>11. Working = Idle \cup PinnedWorkers BY <1>2, <1>3, <1>10, FS_Subset
<1> QED BY <1>11 DEF Working, Idle

LEMMA StalledWaits ==
  ASSUME TypeOK, PlaceInv, HostPinInv, "host" \notin PinKinds, AllHeld, NothingElse, Goes
  PROVE  AllWait
<1>1. \A w \in Workers : pc[w] \in IdlePcs \cup OffPcs \/ w \in PinnedWorkers BY DEF AllHeld
<1>2. \A t \in Tasks : host[t] = "none" BY DEF NothingElse
<1>3. \A t \in Tasks : task[t] # "ready"
  <2>1. ToSet(<<>>) = {} BY DEF ToSet
  <2> QED BY <2>1, WorkersAssumption DEF AllHeld, NothingElse, PlaceInv, ReadyInv, Queued
<1>4. \A t \in Tasks : task[t] # "runs"
  <2> SUFFICES ASSUME NEW t \in Tasks, task[t] = "runs" PROVE FALSE
    OBVIOUS
  <2>1. PICK w \in Workers : cur[w] = t BY DEF PlaceInv, RunInv
  <2>2. pc[w] \notin FreePcs BY <2>1, WorkersAssumption DEF PlaceInv, FreeInv
  <2> QED BY <2>1, <2>2, <1>1 DEF PinnedWorkers
<1>5. \A t \in Tasks : task[t] # "host" /\ task[t] # "time"
  BY <1>2 DEF AllHeld, PlaceInv, AwaitInv
<1>6. \A t \in Tasks : task[t] \in TaskStates BY Types DEF TaskTypes
<1>7. task[MainTask] # "done" BY DEF Goes
<1>8. \A t \in Tasks : task[t] # "hostPinned" BY DEF HostPinInv
<1> QED BY <1>2, <1>3, <1>4, <1>5, <1>6, <1>7, <1>8 DEF AllWait, TaskStates, AllKinds

-----------------------------------------------------------------------------
LEMMA PlaceStep == ASSUME TypeOK, PlaceInv, Next PROVE TypeOK' /\ PlaceInv'
<1>1. CASE \E t \in Tasks : Outside(t) BY <1>1, OutsideKeeps
<1>2. ASSUME NEW w \in Workers, Works(w) \/ TaskStep(w) \/ Monitor(w)
      PROVE  TypeOK' /\ PlaceInv'
  <2>1. CASE \/ Wake(w) \/ WakeOne(w) \/ Rings(w) \/ Starts(w) \/ LookQueue(w) \/ GoSteal(w) \/ StealNone(w)
             \/ GoIdle(w) \/ StopSeeking(w) \/ CheckWaiting(w) \/ Sums(w) \/ Sleep(w) \/ WakesUp(w)
             \/ EnterC(w) \/ BackInC(w) \/ LeaveC(w) \/ EndSeeking(w) \/ SeekMore(w) \/ Recheck(w) \/ RecheckEnds(w)
         \/ Monitor(w)
    BY <2>1, QuietSteps, QuietKeeps
  <2>2. CASE LookNext(w) BY <2>2, LookNextKeeps
  <2>3. CASE LookOwn(w) BY <2>3, LookOwnKeeps
  <2>4. CASE LookTurn(w) BY <2>4, LookTurnKeeps
  <2>5. CASE Retire(w) BY <2>5, RetireKeeps
  <2>6. CASE Pop(w) BY <2>6, PopKeeps
  <2>7. CASE StealOwn(w) BY <2>7, StealOwnKeeps
  <2>8. CASE Steal(w) BY <2>8, StealKeeps
  <2>9. CASE TakeNext(w) BY <2>9, TakeNextKeeps
  <2>10. CASE CountOwn(w) BY <2>10, CountOwnKeeps
  <2>11. CASE Finish(w) \/ ParkTask(w) \/ ParkHost(w) \/ ParkTime(w) BY <2>11, StopsKeeps
  <2>12. CASE Pin(w) BY <2>12, PinKeeps
  <2>13. CASE \E t \in Tasks : Spawn(w, t) BY <2>13, SpawnKeeps
  <2>14. CASE \E t \in Tasks : Schedule(w, t) BY <2>14, ScheduleKeeps
  <2>15. CASE \E t \in Tasks : Unpin(w, t) BY <2>15, UnpinKeeps
  <2> QED BY <1>2, <2>1, <2>2, <2>3, <2>4, <2>5, <2>6, <2>7, <2>8, <2>9, <2>10, <2>11, <2>12, <2>13,
             <2>14, <2>15 DEF Works, TaskStep, Stops
<1> QED BY <1>1, <1>2 DEF Next

\* Whoever takes QUEUE's lock finds it free, and whoever goes to sleep has it.
LEMMA LockStep == ASSUME TypeOK, LockInv, Next PROVE LockInv'
<1> USE DEF queueVars, nextVars, localVars, sleepVars, taskVars, boundVars, Go, HeldPcs
<1>0. pc \in [Workers -> Pcs] /\ None \notin Workers BY Types, WorkersAssumption DEF TaskTypes
<1>1. CASE \E t \in Tasks : Outside(t)
  BY <1>1 DEF LockInv, Outside, HostEnds, HostUnpins, HostRings, HostDone, TimeComes
<1>2. ASSUME NEW w \in Workers, Works(w) PROVE LockInv'
  <2>1. CASE Wake(w) \/ WakeOne(w) \/ Rings(w) \/ Starts(w) \/ LookNext(w) \/ LookOwn(w) \/ LookTurn(w)
             \/ LookQueue(w)
    BY <2>1, <1>0 DEF LockInv, Wake, WakeOne, Rings, Starts, LookNext, LookOwn, Runs, LookTurn, LookQueue
  <2>2. CASE Retire(w) \/ GoSteal(w) \/ GoIdle(w)
    BY <2>2, <1>0 DEF LockInv, Retire, GoSteal, Looked, GoIdle, AtQueue, CanLock
  <2>3. CASE Pop(w) \/ TakeNext(w)
    BY <2>3, <1>0 DEF LockInv, Pop, Looked, TakeNext, AtQueue, CanLock, Found
  <2>4. CASE StealOwn(w) \/ Steal(w) \/ StealNone(w)
    <3>1. CASE StealOwn(w) BY <3>1, <1>0 DEF LockInv, StealOwn, Found
    <3>2. CASE Steal(w) BY <3>2, <1>0 DEF LockInv, Steal, Found
    <3>3. CASE StealNone(w) BY <3>3, <1>0 DEF LockInv, StealNone
    <3> QED BY <2>4, <3>1, <3>2, <3>3
  <2>5. CASE StopSeeking(w) \/ CheckWaiting(w) \/ Sums(w) \/ Sleep(w) \/ WakesUp(w)
    BY <2>5, <1>0 DEF LockInv, StopSeeking, CheckWaiting, Sums, Sleep, WakesUp
  <2>6. CASE EndSeeking(w) \/ SeekMore(w) \/ CountOwn(w) \/ BackInC(w) \/ Recheck(w) \/ RecheckEnds(w)
    BY <2>6, <1>0 DEF LockInv, EndSeeking, SeekMore, CountOwn, BackInC, Recheck, RecheckEnds
  <2> QED BY <1>2, <2>1, <2>2, <2>3, <2>4, <2>5, <2>6 DEF Works
<1>3. ASSUME NEW w \in Workers, TaskStep(w) PROVE LockInv'
  <2>1. CASE Stops(w)
    BY <2>1, <1>0 DEF LockInv, Stops, Finish, ParkTask, ParkHost, ParkTime, EnterC, Leaves
  <2>2. CASE Pin(w) \/ LeaveC(w) BY <2>2, <1>0 DEF LockInv, Pin, LeaveC
  <2>3. CASE \E t \in Tasks : Spawn(w, t) \/ Schedule(w, t) \/ Unpin(w, t)
    BY <2>3, <1>0 DEF LockInv, Spawn, Schedule, Unpin, PushOwn
  <2> QED BY <1>3, <2>1, <2>2, <2>3 DEF TaskStep
<1>4. ASSUME NEW w \in Workers, Monitor(w) PROVE LockInv'
  BY <1>4, <1>0 DEF LockInv, Monitor, MonitorWakes, MonitorStarts
<1> QED BY <1>1, <1>2, <1>3, <1>4 DEF Next

\* Only `Pin` lets a task wait on its thread.
LEMMA HostPinStep == ASSUME TypeOK, HostPinInv, Next PROVE HostPinInv'
<1> USE DEF queueVars, nextVars, localVars, sleepVars, taskVars, boundVars
<1>0. task \in [Tasks -> TaskStates] BY Types DEF TaskTypes
<1>1. CASE \E t \in Tasks : Outside(t)
  BY <1>1, <1>0 DEF HostPinInv, Outside, HostEnds, HostUnpins, HostRings, HostDone, TimeComes
<1>2. ASSUME NEW w \in Workers, Works(w) PROVE HostPinInv'
  <2>1. CASE LookNext(w) \/ LookOwn(w) BY <2>1, <1>0 DEF HostPinInv, LookNext, LookOwn, Runs
  <2>2. CASE Pop(w) BY <2>2, <1>0 DEF HostPinInv, Pop, Found
  <2>3. CASE StealOwn(w) \/ Steal(w) \/ TakeNext(w)
    BY <2>3, <1>0 DEF HostPinInv, StealOwn, Steal, TakeNext, Found
  <2>4. CASE UNCHANGED task BY <2>4 DEF HostPinInv
  <2> QED BY <1>2, <2>1, <2>2, <2>3, <2>4 DEF Works, Wake, WakeOne, Rings, Starts, LookTurn, LookQueue,
        Retire, GoSteal, StealNone, GoIdle, StopSeeking, CheckWaiting, Sums, Sleep, WakesUp, EndSeeking,
        SeekMore, CountOwn, BackInC, Recheck, RecheckEnds
<1>3. ASSUME NEW w \in Workers, TaskStep(w) PROVE HostPinInv'
  <2>1. CASE Stops(w)
    BY <2>1, <1>0 DEF HostPinInv, Stops, Finish, ParkTask, ParkHost, ParkTime, EnterC, Leaves
  <2>2. CASE Pin(w) \/ LeaveC(w) BY <2>2, <1>0 DEF HostPinInv, Pin, LeaveC
  <2>3. CASE \E t \in Tasks : Spawn(w, t) \/ Schedule(w, t) \/ Unpin(w, t)
    BY <2>3, <1>0 DEF HostPinInv, Spawn, Schedule, Unpin
  <2> QED BY <1>3, <2>1, <2>2, <2>3 DEF TaskStep
<1>4. ASSUME NEW w \in Workers, Monitor(w) PROVE HostPinInv'
  BY <1>4 DEF HostPinInv, Monitor, MonitorWakes, MonitorStarts
<1> QED BY <1>1, <1>2, <1>3, <1>4 DEF Next

\* Who begins to add up found that each worker waits.
LEMMA SumBegins ==
  ASSUME TypeOK, NEW w \in Workers, Next, pc[w] \notin Summing, pc'[w] \in Summing
  PROVE  Sums(w) \/ Recheck(w)
<1> USE DEF queueVars, nextVars, localVars, sleepVars, taskVars, boundVars, Go, Summing
<1>0. pc \in [Workers -> Pcs] BY Types DEF TaskTypes
<1>1. CASE \E t \in Tasks : Outside(t)
  BY <1>1 DEF Outside, HostEnds, HostUnpins, HostRings, HostDone, TimeComes
<1>2. ASSUME NEW v \in Workers, Works(v) PROVE Sums(w) \/ Recheck(w)
  <2>1. CASE Wake(v) \/ WakeOne(v) \/ Rings(v) \/ Starts(v) \/ LookNext(v) \/ LookOwn(v) \/ LookTurn(v)
             \/ LookQueue(v)
    BY <2>1, <1>0 DEF Wake, WakeOne, Rings, Starts, LookNext, LookOwn, Runs, LookTurn, LookQueue
  <2>2. CASE Retire(v) \/ GoSteal(v) \/ GoIdle(v) BY <2>2, <1>0 DEF Retire, GoSteal, GoIdle
  <2>3. CASE Pop(v) \/ TakeNext(v) \/ StealOwn(v) \/ Steal(v) \/ StealNone(v)
    BY <2>3, <1>0 DEF Pop, TakeNext, StealOwn, Steal, StealNone, Found
  <2>4. CASE StopSeeking(v) \/ CheckWaiting(v) \/ Sums(v) \/ Sleep(v) \/ WakesUp(v)
    BY <2>4, <1>0 DEF StopSeeking, CheckWaiting, Sums, Sleep, WakesUp
  <2>5. CASE EndSeeking(v) \/ SeekMore(v) \/ CountOwn(v) \/ BackInC(v) \/ Recheck(v) \/ RecheckEnds(v)
    BY <2>5, <1>0 DEF EndSeeking, SeekMore, CountOwn, BackInC, Recheck, RecheckEnds
  <2> QED BY <1>2, <2>1, <2>2, <2>3, <2>4, <2>5 DEF Works
<1>3. ASSUME NEW v \in Workers, TaskStep(v) PROVE FALSE
  <2>1. CASE Stops(v) BY <2>1, <1>0, <1>3 DEF Stops, Finish, ParkTask, ParkHost, ParkTime, EnterC, Leaves
  <2>2. CASE Pin(v) \/ LeaveC(v) BY <2>2, <1>0 DEF Pin, LeaveC
  <2>3. CASE \E t \in Tasks : Spawn(v, t) \/ Schedule(v, t) \/ Unpin(v, t)
    BY <2>3, <1>0 DEF Spawn, Schedule, Unpin, PushOwn
  <2> QED BY <1>3, <2>1, <2>2, <2>3 DEF TaskStep
<1>4. ASSUME NEW v \in Workers, Monitor(v) PROVE FALSE
  BY <1>4, <1>0 DEF Monitor, MonitorWakes, MonitorStarts
<1> QED BY <1>1, <1>2, <1>3, <1>4 DEF Next

\* While it does, with the lock, nobody else goes on: what could would wake a pinned
\* task without the lock, as the host does.
LEMMA SumStands ==
  ASSUME TypeOK, LockInv, HostPinInv, "host" \notin PinKinds, AllHeld, Next,
         NEW w \in Workers, pc[w] \in Summing, pc'[w] \in Summing
  PROVE  /\ UNCHANGED <<runnable, timers, cur, task>>
         /\ \A v \in Workers : pc'[v] = pc[v] \/ (pc[v] = "retires" /\ pc'[v] = "off")
<1> USE DEF queueVars, nextVars, localVars, sleepVars, taskVars, boundVars, Go, Summing
<1> DEFINE Stands ==
  /\ UNCHANGED <<runnable, timers, cur, task>>
  /\ \A v \in Workers : pc'[v] = pc[v] \/ (pc[v] = "retires" /\ pc'[v] = "off")
<1>0. pc \in [Workers -> Pcs] /\ None \notin Workers BY Types, WorkersAssumption DEF TaskTypes
<1>1. lock = w /\ lock # None BY <1>0 DEF LockInv, HeldPcs
<1>2. \A v \in Workers : pc[v] \in IdlePcs \cup OffPcs \/ (pc[v] \in PinnedPcs /\ task[cur[v]] \in PinnedStates)
  BY DEF AllHeld, PinnedWorkers
<1>3. \A v \in Workers : v # w => pc[v] \notin HeldPcs BY <1>1 DEF LockInv
<1>4. \A t \in Tasks : task[t] # "hostPinned" BY DEF HostPinInv
<1>5. CASE \E t \in Tasks : Outside(t)
  BY <1>1, <1>4, <1>5 DEF Outside, HostEnds, HostUnpins, HostRings, HostDone, TimeComes
<1>6. ASSUME NEW v \in Workers, Works(v) PROVE Stands
  <2>1. CASE Rings(v)
    <3>1. pc[v] = "retires" /\ pc' = [pc EXCEPT ![v] = "off"] BY <2>1, <1>2 DEF Rings
    <3> QED BY <2>1, <3>1, <1>0 DEF Rings
  <2>2. CASE Wake(v) \/ WakeOne(v) \/ Starts(v) \/ LookNext(v) \/ LookOwn(v) \/ LookTurn(v) \/ LookQueue(v)
    BY <2>2, <1>2 DEF Wake, WakeOne, Starts, LookNext, LookOwn, LookTurn, LookQueue
  <2>3. CASE Retire(v) \/ Pop(v) \/ GoSteal(v) \/ TakeNext(v) \/ GoIdle(v)
    BY <2>3, <1>2 DEF Retire, Pop, GoSteal, TakeNext, GoIdle, Looked, AtQueue
  <2>4. CASE StealOwn(v) \/ Steal(v) \/ StealNone(v) \/ EndSeeking(v) \/ SeekMore(v) \/ CountOwn(v)
    BY <2>4, <1>2 DEF StealOwn, Steal, StealNone, EndSeeking, SeekMore, CountOwn
  <2>5. CASE StopSeeking(v) \/ CheckWaiting(v) \/ Sums(v) \/ Sleep(v)
    BY <2>5, <1>0, <1>3 DEF StopSeeking, CheckWaiting, Sums, Sleep, HeldPcs
  <2>6. CASE WakesUp(v) \/ BackInC(v) \/ Recheck(v) BY <2>6, <1>1 DEF WakesUp, BackInC, Recheck
  <2>7. CASE RecheckEnds(v) BY <2>7, <1>0, <1>3 DEF RecheckEnds, HeldPcs
  <2> QED BY <1>6, <2>1, <2>2, <2>3, <2>4, <2>5, <2>6, <2>7 DEF Works
<1>7. ASSUME NEW v \in Workers, TaskStep(v) PROVE FALSE
  BY <1>7, <1>2 DEF TaskStep, Stops, Finish, ParkTask, ParkHost, ParkTime, Leaves, EnterC, Pin, LeaveC,
       Spawn, Schedule, Unpin
<1>8. ASSUME NEW v \in Workers, Monitor(v) PROVE FALSE
  BY <1>8, <1>1 DEF Monitor, MonitorWakes, MonitorStarts, Blocked
<1> QED BY <1>5, <1>6, <1>7, <1>8 DEF Next

LEMMA SumStep ==
  ASSUME Inv, "host" \notin PinKinds, SumInv, Next
  PROVE  SumInv'
<1> SUFFICES ASSUME NEW w \in Workers, pc'[w] \in Summing PROVE AllHeld'
  BY DEF SumInv
<1> USE DEF queueVars, nextVars, localVars, sleepVars, taskVars, boundVars, Go, Summing
<1>0. TypeOK /\ PlaceInv /\ LockInv /\ HostPinInv BY DEF Inv
<1>1. CASE pc[w] \in Summing
  <2>1. AllHeld BY <1>1 DEF SumInv
  <2>2. /\ UNCHANGED <<runnable, timers, cur, task>>
        /\ \A v \in Workers : pc'[v] = pc[v] \/ (pc[v] = "retires" /\ pc'[v] = "off")
    BY <1>0, <1>1, <2>1, SumStands
  <2> QED BY <2>1, <2>2 DEF AllHeld, PinnedWorkers
<1>2. CASE pc[w] \notin Summing
  <2>1. Sums(w) \/ Recheck(w) BY <1>0, <1>2, SumBegins
  <2>2. EachWaits BY <2>1 DEF Sums, Recheck
  <2>3. \A v \in Workers : pc[v] \in IdlePcs \cup OffPcs \/ v \in PinnedWorkers BY <1>0, <2>2, CountsAll
  <2>4. /\ UNCHANGED <<runnable, timers, cur, task>>
        /\ \/ pc[w] = "stalls" /\ pc' = [pc EXCEPT ![w] = "sums"]
           \/ pc[w] = "pinned" /\ pc' = [pc EXCEPT ![w] = "rechecks"]
    BY <2>1 DEF Sums, Recheck
  <2>5. pc \in [Workers -> Pcs] BY <1>0, Types DEF TaskTypes
  <2> QED BY <2>2, <2>3, <2>4, <2>5 DEF EachWaits, AllHeld, PinnedWorkers
<1> QED BY <1>1, <1>2

\* Only a worker that goes to sleep, or a pinned task that looks, reports.
LEMMA ReportStep ==
  ASSUME Inv, "host" \notin PinKinds, SumInv, DeadlockIsReal, Next
  PROVE  DeadlockIsReal'
<1>0. TypeOK /\ PlaceInv /\ HostPinInv BY DEF Inv
<1>1. Goes /\ ~reported BY DEF Next, Goes
<1>2. reported' => AllHeld /\ NothingElse /\ UNCHANGED <<task, host>>
  <2> USE DEF queueVars, nextVars, localVars, sleepVars, taskVars, boundVars
  <2>1. CASE \E t \in Tasks : Outside(t)
    BY <2>1, <1>1 DEF Outside, HostEnds, HostUnpins, HostRings, HostDone, TimeComes
  <2>2. ASSUME NEW w \in Workers, Works(w)
        PROVE  reported' => AllHeld /\ NothingElse /\ UNCHANGED <<task, host>>
    <3>1. CASE Sleep(w) BY <3>1, <1>1 DEF Sleep, SumInv, Summing
    <3>2. CASE RecheckEnds(w) BY <3>2 DEF RecheckEnds, SumInv, Summing
    <3>3. CASE ~Sleep(w) /\ ~RecheckEnds(w)
      <4>1. UNCHANGED reported
        BY <2>2, <3>3 DEF Works, Wake, WakeOne, Rings, Starts, LookNext, LookOwn, LookTurn, LookQueue,
             Retire, Pop, GoSteal, StealOwn, Steal, StealNone, TakeNext, GoIdle, StopSeeking,
             CheckWaiting, Sums, WakesUp, EndSeeking, SeekMore, CountOwn, BackInC, Recheck
      <4> QED BY <4>1, <1>1
    <3> QED BY <3>1, <3>2, <3>3
  <2>3. ASSUME NEW w \in Workers, TaskStep(w) \/ Monitor(w) PROVE UNCHANGED reported
    BY <2>3 DEF TaskStep, Stops, Finish, ParkTask, ParkHost, ParkTime, EnterC, Pin, LeaveC, Spawn,
         Schedule, Unpin, Monitor, MonitorWakes, MonitorStarts
  <2> QED BY <2>1, <2>2, <2>3, <1>1 DEF Next
<1>3. CASE reported'
  <2>1. AllWait BY <1>0, <1>1, <1>2, <1>3, StalledWaits
  <2> QED BY <2>1, <1>2, <1>3 DEF DeadlockIsReal, AllWait
<1>4. CASE ~reported' BY <1>4 DEF DeadlockIsReal
<1> QED BY <1>3, <1>4

LEMMA InvStep == Inv /\ [Next]_vars => Inv'
<1> SUFFICES ASSUME Inv, [Next]_vars PROVE Inv'
  OBVIOUS
<1>1. CASE Next BY <1>1, PlaceStep, LockStep, HostPinStep DEF Inv
<1>2. CASE UNCHANGED vars
  <2> USE <1>2 DEF vars, queueVars, nextVars, localVars, sleepVars, taskVars, boundVars
  <2>1. TypeOK' BY DEF Inv, TypeOK
  <2>2. PlaceInv'
    BY DEF Inv, PlaceInv, CountInv, FreeInv, ReadyInv, Queued, RunInv, PinInv, AwaitInv
  <2>3. LockInv' /\ HostPinInv' BY DEF Inv, LockInv, HostPinInv
  <2> QED BY <2>1, <2>2, <2>3 DEF Inv
<1> QED BY <1>1, <1>2

\* The types, for every instance.
THEOREM TypesHold == Spec => []TypeOK
<1>1. Inv => TypeOK BY DEF Inv
<1> QED BY <1>1, InitInv, InvStep, PTL DEF Spec

\* `deadlock` ends no program whose tasks could go on, however many workers and
\* tasks there are, when the host wakes no task that is pinned in C: when the idle
\* workers and the pinned tasks that `stalled` counts are as many as the workers,
\* each worker is one of them, and stays so while it reads the rest with the lock;
\* and what `work_until`, `schedule` and `steal` do leaves no runnable task outside
\* the queues it looked at.
THEOREM DeadlocksAreReal ==
  ASSUME "host" \notin PinKinds
  PROVE  Spec => []DeadlockIsReal
<1> DEFINE Sound == Inv /\ SumInv /\ DeadlockIsReal
<1>1. Init => Sound BY InitInv DEF Init, SumInv, Summing, DeadlockIsReal
<1>2. Sound /\ [Next]_vars => Sound'
  <2> SUFFICES ASSUME Sound, [Next]_vars PROVE Sound'
    OBVIOUS
  <2>1. CASE Next BY <2>1, InvStep, SumStep, ReportStep
  <2>2. CASE UNCHANGED vars
    <3> USE <2>2 DEF vars, queueVars, nextVars, localVars, sleepVars, taskVars, boundVars
    <3>1. Inv' BY InvStep
    <3>2. SumInv' /\ DeadlockIsReal'
      BY DEF SumInv, AllHeld, PinnedWorkers, DeadlockIsReal, AllWait
    <3> QED BY <3>1, <3>2
  <2> QED BY <2>1, <2>2
<1>3. Sound => DeadlockIsReal OBVIOUS
<1> QED BY <1>1, <1>2, <1>3, PTL DEF Spec
-----------------------------------------------------------------------------
(***************************************************************************)
(* SEEKING.                                                                *)
(***************************************************************************)
\* A thread that is not there, or starts, looks for nothing yet.
OutPcs == OffPcs \cup {"starts"}
SeekInv ==
  /\ SeekingStands
  /\ \A w \in Workers : pc[w] \in OutPcs => ~seeker[w]

\* A worker does something else.
LEMMA SeekKeeps ==
  ASSUME SeekInv, UNCHANGED <<seeking, waking, seeker>>,
         \A w \in Workers : pc'[w] \in OutPcs => pc[w] \in OutPcs
  PROVE  SeekInv'
BY DEF SeekInv, SeekingStands

LEMMA SeekStep ==
  ASSUME TypeOK, SeekInv, Next, \A w, v \in Workers : MonitorStarts(w, v) => ~waking
  PROVE  SeekInv'
<1> USE DEF Go, OutPcs, queueVars, nextVars, localVars, sleepVars, taskVars, boundVars, AtQueue, Looked
<1>t. /\ pc \in [Workers -> Pcs] /\ seeker \in [Workers -> BOOLEAN]
      /\ waking \in BOOLEAN /\ seeking \in BOOLEAN
  BY Types DEF QueueTypes, LocalTypes, TaskTypes
<1>1. ASSUME NEW t \in Tasks, Outside(t) PROVE SeekInv'
  <2>1. CASE HostEnds(t)
    <3>1. waking' = (waking \/ (~seeking /\ Idle # {})) /\ seeking' = (seeking \/ (~seeking /\ Idle # {}))
      BY <2>1 DEF HostEnds
    <3>2. UNCHANGED <<seeker, pc>> BY <2>1 DEF HostEnds
    <3> QED BY <3>1, <3>2 DEF SeekInv, SeekingStands
  <2>2. CASE ~HostEnds(t)
    <3>1. UNCHANGED <<seeking, waking, seeker, pc>>
      BY <1>1, <2>2 DEF Outside, HostUnpins, HostRings, HostDone, TimeComes
    <3> QED BY <3>1, SeekKeeps
  <2> QED BY <2>1, <2>2
<1>2. ASSUME NEW w \in Workers, Monitor(w) PROVE SeekInv'
  <2>1. CASE MonitorWakes(w) BY <2>1 DEF MonitorWakes, SeekInv, SeekingStands
  <2>2. ASSUME NEW v \in Workers, MonitorStarts(w, v) PROVE SeekInv'
    <3>1. ~waking BY <2>2
    <3>2. /\ seeking' = TRUE /\ waking' = ~seeking /\ seeker' = seeker
          /\ pc[v] = "off" /\ pc' = [pc EXCEPT ![v] = "starts"]
      BY <2>2 DEF MonitorStarts
    <3>3. ~seeker[v] BY <3>2 DEF SeekInv
    <3>4. SeekingStands' BY <3>1, <3>2 DEF SeekInv, SeekingStands
    <3> QED BY <3>2, <3>3, <3>4, <1>t DEF SeekInv
  <2> QED BY <1>2, <2>1, <2>2 DEF Monitor
<1>3. ASSUME NEW w \in Workers, TaskStep(w) PROVE SeekInv'
  <2>1. UNCHANGED <<seeking, waking, seeker>> /\ pc[w] \notin OutPcs
    BY <1>3 DEF TaskStep, Stops, Finish, ParkTask, ParkHost, ParkTime, EnterC, Pin, LeaveC, Leaves,
         Spawn, Schedule, Unpin
  <2>2. \A v \in Workers : pc'[v] \in OutPcs => pc[v] \in OutPcs
    <3>1. pc' = pc \/ \E to : pc' = [pc EXCEPT ![w] = to] /\ to \notin OutPcs
      <4>1. CASE Stops(w)
        BY <4>1 DEF Stops, Finish, ParkTask, ParkHost, ParkTime, EnterC, Leaves
      <4>2. CASE Pin(w) \/ LeaveC(w) BY <4>2 DEF Pin, LeaveC
      <4>3. ASSUME NEW t \in Tasks, Spawn(w, t) \/ Unpin(w, t)
            PROVE  pc' = pc \/ \E to : pc' = [pc EXCEPT ![w] = to] /\ to \notin OutPcs
        <5>1. CASE Spawn(w, t)
          <6>1. PICK to : to = IF own[w] = <<>> THEN "pushedFirst" ELSE "pushed" OBVIOUS
          <6>2. pc' = [pc EXCEPT ![w] = to] BY <5>1, <6>1 DEF Spawn, PushOwn
          <6>3. to \notin OutPcs BY <6>1
          <6> QED BY <6>2, <6>3
        <5>2. CASE Unpin(w, t) BY <5>2 DEF Unpin
        <5> QED BY <4>3, <5>1, <5>2
      <4>4. ASSUME NEW t \in Tasks, Schedule(w, t)
            PROVE  pc' = pc \/ \E to : pc' = [pc EXCEPT ![w] = to] /\ to \notin OutPcs
        BY <4>4 DEF Schedule, PushOwn
      <4> QED BY <1>3, <4>1, <4>2, <4>3, <4>4 DEF TaskStep
    <3> QED BY <3>1, <1>t
  <2> QED BY <2>1, <2>2, SeekKeeps
<1>4. ASSUME NEW w \in Workers, Works(w) PROVE SeekInv'
  <2>1. CASE WakeOne(w)
    <3>1. /\ (waking' /\ seeking') \/ UNCHANGED <<waking, seeking>>
          /\ seeker' = seeker
          /\ \E to \in {"rings", "runs"} : pc' = [pc EXCEPT ![w] = to]
      BY <2>1 DEF WakeOne
    <3> QED BY <3>1, <1>t DEF SeekInv, SeekingStands
  <2>2. CASE Starts(w)
    <3>1. /\ ~waking' /\ seeking' = seeking /\ seeker' = [seeker EXCEPT ![w] = waking]
          /\ pc[w] = "starts" /\ pc' = [pc EXCEPT ![w] = "looks"]
      BY <2>2 DEF Starts
    <3>2. ~seeker[w] BY <3>1 DEF SeekInv
    <3>3. \A v \in Workers : seeker[v] => seeker'[v] BY <3>1, <3>2, <1>t
    <3>4. SeekingStands' BY <3>1, <3>3, <1>t DEF SeekInv, SeekingStands
    <3> QED BY <3>1, <3>4, <1>t DEF SeekInv
  <2>3. CASE Retire(w) \/ StopSeeking(w)
    <3>1. /\ waking' = waking /\ seeking' = (seeking /\ ~seeker[w])
          /\ seeker' = [seeker EXCEPT ![w] = FALSE]
          /\ \E to : pc' = [pc EXCEPT ![w] = to]
      BY <2>3 DEF Retire, StopSeeking
    <3>2. seeking' => \A v \in Workers : seeker[v] => seeker'[v] BY <3>1, <1>t
    <3>3. SeekingStands' BY <3>1, <3>2 DEF SeekInv, SeekingStands
    <3> QED BY <3>1, <3>3, <1>t DEF SeekInv
  <2>4. CASE CheckWaiting(w)
    <3>1. /\ waking' = waking
          /\ (seeking' /\ seeker' = [seeker EXCEPT ![w] = TRUE]) \/ UNCHANGED <<seeking, seeker>>
          /\ pc[w] = "checks" /\ pc' = [pc EXCEPT ![w] = "stalls"]
      BY <2>4 DEF CheckWaiting
    <3> QED BY <3>1, <1>t DEF SeekInv, SeekingStands
  <2>5. CASE WakesUp(w)
    <3>1. /\ ~waking' /\ seeking' = seeking /\ seeker' = [seeker EXCEPT ![w] = seeker[w] \/ waking]
          /\ pc' = [pc EXCEPT ![w] = "locks"]
      BY <2>5 DEF WakesUp
    <3> QED BY <3>1, <1>t DEF SeekInv, SeekingStands
  <2>6. CASE EndSeeking(w)
    <3>1. /\ ~seeking' /\ seeker' = [seeker EXCEPT ![w] = FALSE]
          /\ \E to \in {"seeks", "wakes"} : pc' = [pc EXCEPT ![w] = to]
      BY <2>6 DEF EndSeeking
    <3> QED BY <3>1, <1>t DEF SeekInv, SeekingStands
  <2>7. CASE ~(WakeOne(w) \/ Starts(w) \/ Retire(w) \/ StopSeeking(w) \/ CheckWaiting(w)
               \/ WakesUp(w) \/ EndSeeking(w))
    <3>1. UNCHANGED <<seeking, waking, seeker>>
      BY <1>4, <2>7 DEF Works, Wake, Rings, LookNext, LookOwn, LookTurn, LookQueue, Pop, GoSteal,
           StealOwn, Steal, StealNone, TakeNext, GoIdle, Sums, Sleep, SeekMore, CountOwn, BackInC,
           Recheck, RecheckEnds
    <3>2. \E to : pc' = [pc EXCEPT ![w] = to] /\ (to \in OutPcs => pc[w] = "retires")
      <4>1. CASE Wake(w) \/ Rings(w) \/ SeekMore(w) \/ CountOwn(w) \/ BackInC(w) \/ Recheck(w)
                 \/ RecheckEnds(w) \/ Sums(w) \/ Sleep(w) \/ GoIdle(w)
        <5>1. CASE Wake(w) \/ SeekMore(w) \/ CountOwn(w)
          <6>1. \E to \in {"wakes", "wakesOne", "runs"} : pc' = [pc EXCEPT ![w] = to]
            BY <5>1 DEF Wake, SeekMore, CountOwn
          <6> QED BY <6>1
        <5>4. CASE Rings(w)
          <6>1. PICK to : to = IF pc[w] = "rings" THEN "runs" ELSE "off" OBVIOUS
          <6>2. pc' = [pc EXCEPT ![w] = to] BY <5>4, <6>1 DEF Rings
          <6>3. to \in OutPcs => pc[w] = "retires" BY <5>4, <6>1 DEF Rings
          <6> QED BY <6>2, <6>3
        <5>2. CASE BackInC(w) \/ Recheck(w) \/ RecheckEnds(w) BY <5>2 DEF BackInC, Recheck, RecheckEnds
        <5>3. CASE Sums(w) \/ Sleep(w) \/ GoIdle(w)
          <6>1. \E to \in {"sums", "asleep", "stalls", "counted"} : pc' = [pc EXCEPT ![w] = to]
            BY <5>3 DEF Sums, Sleep, GoIdle
          <6> QED BY <6>1
        <5> QED BY <4>1, <5>1, <5>2, <5>3, <5>4
      <4>2. CASE LookNext(w) \/ LookOwn(w) \/ LookTurn(w) \/ LookQueue(w) \/ GoSteal(w) \/ StealNone(w)
        BY <4>2 DEF LookNext, LookOwn, LookTurn, LookQueue, GoSteal, StealNone, Runs
      <4>3. CASE Pop(w) \/ StealOwn(w) \/ Steal(w) \/ TakeNext(w)
        <5>1. PICK t, more, fired : Found(w, t, more, fired)
          BY <4>3 DEF Pop, StealOwn, Steal, TakeNext
        <5> DEFINE to == IF seeker[w] THEN IF more THEN "foundMore" ELSE "found"
                         ELSE IF more THEN "wakes" ELSE "runs"
        <5>2. pc' = [pc EXCEPT ![w] = to] BY <5>1 DEF Found
        <5>3. to \notin OutPcs OBVIOUS
        <5> HIDE DEF to
        <5> QED BY <5>2, <5>3
      <4> QED BY <1>4, <2>7, <4>1, <4>2, <4>3 DEF Works
    <3> QED BY <3>1, <3>2, <1>t, SeekKeeps
  <2> QED BY <2>1, <2>2, <2>3, <2>4, <2>5, <2>6, <2>7
<1> QED BY <1>1, <1>2, <1>3, <1>4 DEF Next

\* SEEKING is for somebody as long as the monitor, which starts one more thread for
\* a worker that is long in C, overwrites no order that QUEUE.waking still holds:
\* that is the one step that can leave it set for nobody.
THEOREM SeekingIsForSomebody ==
  Spec /\ [][\A w, v \in Workers : MonitorStarts(w, v) => ~waking]_vars => []SeekingStands
<1> DEFINE Spares == \A w, v \in Workers : MonitorStarts(w, v) => ~waking
<1>1. Init => SeekInv BY DEF Init, SeekInv, SeekingStands
<1>2. TypeOK /\ SeekInv /\ [Next]_vars /\ [Spares]_vars => SeekInv'
  <2> SUFFICES ASSUME TypeOK, SeekInv, [Next]_vars, [Spares]_vars PROVE SeekInv'
    OBVIOUS
  <2>1. CASE UNCHANGED vars BY <2>1, SeekKeeps DEF vars, queueVars, localVars
  <2>2. CASE Next /\ Spares BY <2>2, SeekStep
  <2> QED BY <2>1, <2>2
<1>3. SeekInv => SeekingStands BY DEF SeekInv
<1> QED BY <1>1, <1>2, <1>3, TypesHold, PTL DEF Spec

\* When only one call of C is made, no order is overwritten: one that nobody asleep
\* can take is for the thread that replaces the caller.
OneCall ==
  /\ calls = 0 => InC = {}
  /\ \A w, v \in InC : w = v
  /\ waking /\ Idle = {} => calls # 0 /\ \A w \in InC : replaced[w]

LEMMA CallKeeps ==
  ASSUME OneCall, calls' = calls, InC' \subseteq InC, \A w \in InC' : replaced'[w] = replaced[w],
         waking' /\ Idle' = {} => waking /\ Idle = {}
  PROVE  OneCall'
BY DEF OneCall

LEMMA CallStep ==
  ASSUME MaxCalls \in {0, 1}, TypeOK, OneCall, Next
  PROVE  OneCall'
<1> USE DEF Go, OutPcs, queueVars, nextVars, localVars, sleepVars, taskVars, boundVars, AtQueue, Looked
<1>t. /\ pc \in [Workers -> Pcs] /\ replaced \in [Workers -> BOOLEAN]
      /\ waking \in BOOLEAN /\ calls \in Nat
  BY Types DEF QueueTypes, LocalTypes, TaskTypes, BoundTypes
<1>0. InC = {w \in Workers : pc[w] \in {"inC", "pinned", "rechecks"}}
      /\ Idle = {w \in Workers : pc[w] \in IdlePcs}
  BY DEF InC, Idle
<1>0p. InC' = {w \in Workers : pc'[w] \in {"inC", "pinned", "rechecks"}}
       /\ Idle' = {w \in Workers : pc'[w] \in IdlePcs}
  BY DEF InC, Idle
\* A worker goes from one place to another.
<1>g. ASSUME NEW w \in Workers, NEW to, pc' = [pc EXCEPT ![w] = to], UNCHANGED <<calls, replaced>>,
             to \in {"inC", "pinned", "rechecks"} => pc[w] \in {"inC", "pinned", "rechecks"},
             waking' => waking \/ Idle # {}, waking' /\ pc[w] \in IdlePcs => to \in IdlePcs
      PROVE  OneCall'
  <2>1. \A v \in Workers : pc'[v] = IF v = w THEN to ELSE pc[v] BY <1>g, <1>t
  <2>2. InC' \subseteq InC BY <2>1, <1>g, <1>0, <1>0p
  <2>3. waking' /\ Idle' = {} => waking /\ Idle = {}
    <3>1. waking' => Idle \subseteq Idle' BY <2>1, <1>g, <1>0, <1>0p
    <3> QED BY <3>1, <1>g
  <2> QED BY <2>2, <2>3, <1>g, CallKeeps
<1>1. ASSUME NEW t \in Tasks, Outside(t) PROVE OneCall'
  <2>1. UNCHANGED <<pc, calls, replaced>> /\ (waking' => waking \/ Idle # {})
    <3>1. CASE HostEnds(t)
      <4>1. waking' = (waking \/ (~seeking /\ Idle # {})) BY <3>1 DEF HostEnds
      <4> QED BY <3>1, <4>1 DEF HostEnds
    <3>2. CASE ~HostEnds(t) BY <1>1, <3>2 DEF Outside, HostUnpins, HostRings, HostDone, TimeComes
    <3> QED BY <3>1, <3>2
  <2>2. InC' = InC /\ Idle' = Idle BY <2>1, <1>0, <1>0p
  <2> QED BY <2>1, <2>2, CallKeeps
<1>2. ASSUME NEW w \in Workers, Monitor(w) PROVE OneCall'
  <2>1. CASE MonitorWakes(w)
    <3>1. UNCHANGED <<pc, calls, replaced>> /\ Idle # {} BY <2>1 DEF MonitorWakes
    <3>2. InC' = InC /\ Idle' = Idle BY <3>1, <1>0, <1>0p
    <3> QED BY <3>1, <3>2, CallKeeps
  <2>2. ASSUME NEW v \in Workers, MonitorStarts(w, v) PROVE OneCall'
    <3>1. /\ calls' = calls /\ replaced' = [replaced EXCEPT ![w] = TRUE] /\ w \in InC
          /\ pc[v] = "off" /\ pc' = [pc EXCEPT ![v] = "starts"]
      BY <2>2 DEF MonitorStarts, Blocked
    <3>2. InC' = InC
      <4>1. \A u \in Workers : pc'[u] = IF u = v THEN "starts" ELSE pc[u] BY <3>1, <1>t
      <4> QED BY <4>1, <3>1, <1>0, <1>0p
    <3>3. \A u \in InC : replaced'[u] BY <3>1, <1>0, <1>t DEF OneCall
    <3> QED BY <3>1, <3>2, <3>3, <1>0 DEF OneCall
  <2> QED BY <1>2, <2>1, <2>2 DEF Monitor
<1>3. ASSUME NEW w \in Workers, TaskStep(w) PROVE OneCall'
  <2>0. pc[w] \notin IdlePcs /\ waking' = waking
    BY <1>3 DEF TaskStep, Stops, Finish, ParkTask, ParkHost, ParkTime, EnterC, Pin, LeaveC, Leaves,
         Spawn, Schedule, Unpin
  <2>1. CASE EnterC(w)
    <3>1. /\ calls = 0 /\ calls' = 1 /\ UNCHANGED <<replaced, waking>>
          /\ pc' = [pc EXCEPT ![w] = "inC"] /\ pc[w] = "runs"
      BY <2>1, <1>t DEF EnterC
    <3>2. \A v \in Workers : pc'[v] = IF v = w THEN "inC" ELSE pc[v] BY <3>1, <1>t
    <3>3. InC' = {w} BY <3>1, <3>2, <1>0, <1>0p DEF OneCall
    <3>4. Idle' = Idle BY <3>1, <3>2, <1>0, <1>0p
    <3> QED BY <3>1, <3>3, <3>4 DEF OneCall
  <2>2. CASE LeaveC(w)
    <3>1. /\ UNCHANGED <<calls, waking>> /\ replaced' = [replaced EXCEPT ![w] = FALSE]
          /\ \E to \in {"rings", "runs"} : pc' = [pc EXCEPT ![w] = to]
      BY <2>2 DEF LeaveC
    <3>2. PICK to \in {"rings", "runs"} : pc' = [pc EXCEPT ![w] = to] BY <3>1
    <3>3. \A v \in Workers : pc'[v] = IF v = w THEN to ELSE pc[v] BY <3>2, <1>t
    <3>4. InC' \subseteq InC \ {w} BY <3>3, <1>0, <1>0p
    <3>5. Idle \subseteq Idle' BY <2>0, <3>3, <1>0, <1>0p
    <3>6. \A v \in InC' : replaced'[v] = replaced[v] BY <3>1, <3>4, <1>t, <1>0
    <3> QED BY <3>1, <3>4, <3>5, <3>6, CallKeeps
  <2>3. CASE ~EnterC(w) /\ ~LeaveC(w)
    <3>1. UNCHANGED <<calls, replaced>>
      BY <1>3, <2>3 DEF TaskStep, Stops, Finish, ParkTask, ParkHost, ParkTime, Pin, Leaves, Parks,
           Spawn, Schedule, Unpin
    <3>2. pc' = pc \/ \E to : pc' = [pc EXCEPT ![w] = to]
                              /\ (to \in {"inC", "pinned", "rechecks"} => pc[w] = "inC")
      <4>1. CASE Finish(w) \/ ParkTask(w) \/ ParkHost(w) \/ ParkTime(w) \/ Pin(w)
        BY <4>1 DEF Finish, ParkTask, ParkHost, ParkTime, Leaves, Pin
      <4>2. ASSUME NEW t \in Tasks, Spawn(w, t) \/ Unpin(w, t) \/ Schedule(w, t)
            PROVE  pc' = pc \/ \E to \in {"pushed", "pushedFirst", "wakes"} : pc' = [pc EXCEPT ![w] = to]
        BY <4>2 DEF Spawn, Unpin, Schedule, PushOwn
      <4> QED BY <1>3, <2>3, <4>1, <4>2 DEF TaskStep, Stops
    <3>3. CASE pc' = pc
      <4>1. InC' = InC /\ Idle' = Idle BY <3>3, <1>0, <1>0p
      <4> QED BY <2>0, <3>1, <4>1, CallKeeps
    <3> QED BY <2>0, <3>1, <3>2, <3>3, <1>g
  <2> QED BY <2>1, <2>2, <2>3
<1>4. ASSUME NEW w \in Workers, Works(w) PROVE OneCall'
  <2> DEFINE Far(to) ==
        /\ pc' = [pc EXCEPT ![w] = to] /\ UNCHANGED <<calls, replaced>>
        /\ to \in {"inC", "pinned", "rechecks"} => pc[w] \in {"inC", "pinned", "rechecks"}
        /\ (waking' => waking \/ Idle # {}) /\ (waking' /\ pc[w] \in IdlePcs => to \in IdlePcs)
  <2>1. CASE Wake(w) \/ WakeOne(w) \/ Rings(w) \/ SeekMore(w) \/ CountOwn(w)
    <3>1. \E to \in {"runs", "wakesOne", "rings", "off", "wakes"} : Far(to)
      BY <2>1 DEF Wake, WakeOne, Rings, SeekMore, CountOwn
    <3> QED BY <3>1, <1>g
  <2>2. CASE BackInC(w) \/ Recheck(w) \/ RecheckEnds(w)
    <3>1. \E to \in {"inC", "pinned", "rechecks"} : Far(to)
      BY <2>2 DEF BackInC, Recheck, RecheckEnds
    <3> QED BY <3>1, <1>g
  <2>3. CASE Sums(w) \/ Sleep(w) \/ GoIdle(w) \/ StopSeeking(w) \/ CheckWaiting(w)
    <3>1. \E to \in IdlePcs : Far(to)
      BY <2>3 DEF Sums, Sleep, GoIdle, StopSeeking, CheckWaiting
    <3> QED BY <3>1, <1>g
  <2>4. CASE Starts(w) \/ LookNext(w) \/ LookOwn(w) \/ LookTurn(w) \/ LookQueue(w)
    <3>1. \E to \in {"looks", "runs", "locks"} : Far(to)
      BY <2>4 DEF Starts, LookNext, LookOwn, LookTurn, LookQueue, Runs
    <3> QED BY <3>1, <1>g
  <2>5. CASE Retire(w) \/ GoSteal(w) \/ StealNone(w) \/ WakesUp(w) \/ EndSeeking(w)
    <3>1. \E to \in {"retires", "off", "steals", "relocks", "locks", "seeks", "wakes"} : Far(to)
      BY <2>5 DEF Retire, GoSteal, StealNone, WakesUp, EndSeeking
    <3> QED BY <3>1, <1>g
  <2>6. CASE Pop(w) \/ StealOwn(w) \/ Steal(w) \/ TakeNext(w)
    <3>1. PICK t, more, fired : Found(w, t, more, fired)
      BY <2>6 DEF Pop, StealOwn, Steal, TakeNext
    <3>2. UNCHANGED <<calls, replaced, waking>> /\ pc[w] \notin IdlePcs
      BY <2>6 DEF Pop, StealOwn, Steal, TakeNext
    <3> DEFINE to == IF seeker[w] THEN IF more THEN "foundMore" ELSE "found"
                     ELSE IF more THEN "wakes" ELSE "runs"
    <3>3. pc' = [pc EXCEPT ![w] = to] BY <3>1 DEF Found
    <3>4. to \notin {"inC", "pinned", "rechecks"} OBVIOUS
    <3> HIDE DEF to
    <3> QED BY <3>2, <3>3, <3>4, <1>g
  <2> QED BY <1>4, <2>1, <2>2, <2>3, <2>4, <2>5, <2>6 DEF Works
<1> QED BY <1>1, <1>2, <1>3, <1>4 DEF Next

\* With one call of C, as in the run that checks it, SEEKING is always for somebody.
THEOREM OneCallSeeks ==
  ASSUME MaxCalls \in {0, 1}
  PROVE  Spec => []SeekingStands
<1>1. Init => SeekInv BY DEF Init, SeekInv, SeekingStands
<1>2. Init => OneCall
  <2>1. Init => \A w \in Workers : pc[w] \in {"off", "starts"} BY DEF Init
  <2>2. Init => InC = {} BY <2>1 DEF InC
  <2> QED BY <2>2 DEF Init, OneCall
<1>3. OneCall => \A w, v \in Workers : MonitorStarts(w, v) => ~waking
  BY DEF OneCall, MonitorStarts, Blocked
<1>4. TypeOK /\ SeekInv /\ OneCall /\ [Next]_vars => SeekInv' /\ OneCall'
  <2> SUFFICES ASSUME TypeOK, SeekInv, OneCall, [Next]_vars PROVE SeekInv' /\ OneCall'
    OBVIOUS
  <2>1. CASE UNCHANGED vars
    <3> USE <2>1 DEF vars, queueVars, localVars, boundVars
    <3>1. SeekInv' BY SeekKeeps
    <3>2. InC' = InC /\ Idle' = Idle BY DEF InC, Idle
    <3> QED BY <3>1, <3>2, CallKeeps
  <2>2. CASE Next BY <2>2, <1>3, SeekStep, CallStep
  <2> QED BY <2>1, <2>2
<1>5. SeekInv => SeekingStands BY DEF SeekInv
<1> QED BY <1>1, <1>2, <1>4, <1>5, TypesHold, PTL DEF Spec
-----------------------------------------------------------------------------
(***************************************************************************)
(* Where a task is.                                                        *)
(***************************************************************************)
\* No task is twice in the sequence.
Once(s) == \A i, j \in 1..Len(s) : s[i] = s[j] => i = j

LEMMA ConcatOnce ==
  ASSUME NEW S, NEW s \in Seq(S), NEW u \in Seq(S)
  PROVE  Once(s \o u) <=> Once(s) /\ Once(u) /\ ToSet(s) \cap ToSet(u) = {}
<1> DEFINE c == s \o u
           m == Len(s)
           n == Len(u)
<1>1. /\ m \in Nat /\ n \in Nat /\ Len(c) = m + n
      /\ \A i \in 1..m + n : c[i] = IF i <= m THEN s[i] ELSE u[i - m]
  BY ConcatProperties, LenProperties
<1>2. ToSet(s) = {s[i] : i \in 1..m} /\ ToSet(u) = {u[i] : i \in 1..n} BY LenProperties DEF ToSet
<1> HIDE DEF c, m, n
<1>3. \A i \in 1..m : i \in 1..m + n /\ c[i] = s[i] BY <1>1
<1>4. \A i \in 1..n : i + m \in 1..m + n /\ c[i + m] = u[i]
  <2>1. \A i \in 1..n : i + m \in 1..m + n /\ ~(i + m <= m) /\ (i + m) - m = i BY <1>1
  <2> QED BY <2>1, <1>1
<1>5. ASSUME Once(c) PROVE Once(s) /\ Once(u) /\ ToSet(s) \cap ToSet(u) = {}
  <2>1. Once(s) BY <1>1, <1>3, <1>5 DEF Once, m
  <2>2. Once(u)
    <3> SUFFICES ASSUME NEW i \in 1..n, NEW j \in 1..n, u[i] = u[j] PROVE i = j BY DEF Once, n
    <3>1. i + m = j + m BY <1>1, <1>4, <1>5 DEF Once
    <3> QED BY <3>1, <1>1
  <2>3. ASSUME NEW i \in 1..m, NEW j \in 1..n, s[i] = u[j] PROVE FALSE
    <3>1. i = j + m BY <2>3, <1>1, <1>3, <1>4, <1>5 DEF Once
    <3> QED BY <3>1, <1>1
  <2> QED BY <2>1, <2>2, <2>3, <1>2
<1>6. ASSUME Once(s), Once(u), ToSet(s) \cap ToSet(u) = {} PROVE Once(c)
  <2> SUFFICES ASSUME NEW i \in 1..m + n, NEW j \in 1..m + n, c[i] = c[j] PROVE i = j BY <1>1 DEF Once
  <2>1. \A k \in 1..m + n : k \in 1..m \/ (k - m \in 1..n /\ k \notin 1..m /\ c[k] = u[k - m]) BY <1>1
  <2>2. CASE i \in 1..m /\ j \in 1..m BY <2>2, <1>3, <1>6 DEF Once, m
  <2>3. CASE i \notin 1..m /\ j \notin 1..m
    <3>1. i - m = j - m BY <2>1, <2>3, <1>6 DEF Once, n
    <3> QED BY <3>1, <1>1
  <2>4. CASE i \in 1..m /\ j \notin 1..m BY <2>1, <2>4, <1>2, <1>3, <1>6
  <2>5. CASE i \notin 1..m /\ j \in 1..m BY <2>1, <2>5, <1>2, <1>3, <1>6
  <2> QED BY <2>2, <2>3, <2>4, <2>5
<1> QED BY <1>5, <1>6 DEF c

LEMMA TailOnce ==
  ASSUME NEW S, NEW s \in Seq(S), s # <<>>, Once(s)
  PROVE  Once(Tail(s)) /\ Head(s) \notin ToSet(Tail(s))
<1>1. Len(s) \in Nat \ {0} /\ Head(s) = s[1] BY EmptySeq
<1>2. Tail(s) \in Seq(S) /\ Len(Tail(s)) = Len(s) - 1 /\ \A i \in 1..Len(Tail(s)) : Tail(s)[i] = s[i + 1]
  BY HeadTailProperties
<1>3. ToSet(Tail(s)) = {Tail(s)[i] : i \in 1..Len(Tail(s))} BY <1>2, LenProperties DEF ToSet
<1>4. \A i \in 1..Len(Tail(s)) : i + 1 \in 1..Len(s) /\ i + 1 # 1 BY <1>1, <1>2
<1>5. 1 \in 1..Len(s) BY <1>1
<1>6. Head(s) \notin ToSet(Tail(s)) BY <1>1, <1>2, <1>3, <1>4, <1>5 DEF Once
<1>7. Once(Tail(s))
  <2> SUFFICES ASSUME NEW i \in 1..Len(Tail(s)), NEW j \in 1..Len(Tail(s)), Tail(s)[i] = Tail(s)[j]
               PROVE  i = j
    BY DEF Once
  <2>1. i + 1 = j + 1 BY <1>2, <1>4 DEF Once
  <2> QED BY <2>1
<1> QED BY <1>6, <1>7

LEMMA AppendOnce ==
  ASSUME NEW S, NEW s \in Seq(S), NEW e \in S, Once(s), e \notin ToSet(s)
  PROVE  Once(Append(s, e))
<1>1. Append(s, e) = s \o <<e>> BY AppendIsConcat
<1> DEFINE u == <<e>>
<1>2. u \in Seq(S) /\ ToSet(u) = {e} BY DEF ToSet
<1>3. Once(u) BY DEF Once
<1> HIDE DEF u
<1>4. Once(s \o u) BY <1>2, <1>3, ConcatOnce
<1> QED BY <1>1, <1>4 DEF u

LEMMA HalvesOnce ==
  ASSUME NEW S, NEW s \in Seq(S), NEW h \in 1..Len(s), Once(s)
  PROVE  LET taken == SubSeq(s, 1, h)
             rest == SubSeq(s, h + 1, Len(s))
         IN Once(taken) /\ Once(rest) /\ ToSet(taken) \cap ToSet(rest) = {}
<1> DEFINE taken == SubSeq(s, 1, h)
           rest == SubSeq(s, h + 1, Len(s))
<1>1. Len(s) \in Nat /\ s = SubSeq(s, 1, Len(s)) BY LenProperties, SubSeqFull
<1>2. taken \in Seq(S) /\ rest \in Seq(S) BY HalvesHold
<1>3. taken \o rest = s
  <2>1. 1 \in 1..Len(s) + 1 /\ h \in 1 - 1..Len(s) /\ Len(s) \in h..Len(s) BY <1>1
  <2> QED BY <1>1, <2>1, ConcatAdjacentSubSeq
<1> HIDE DEF taken, rest
<1>4. Once(taken \o rest) BY <1>3
<1> QED BY <1>2, <1>4, ConcatOnce DEF taken, rest

LEMMA ListOnce ==
  ASSUME NEW T, IsFiniteSet(T)
  PROVE  Once(SetToSeq(T))
<1> DEFINE n == Cardinality(T)
           s == SetToSeq(T)
<1>1. n \in Nat /\ ExistsBijection(1..n, T) BY FS_CardinalityType
<1>2. PICK f \in Bijection(1..n, T) : TRUE BY <1>1 DEF ExistsBijection
<1>3. f \in [1..n -> T] /\ IsInjective(f)
  BY <1>2 DEF Bijection, Injection
<1>4. s \in [1..n -> T] /\ IsInjective(s) BY <1>3 DEF SetToSeq
<1>5. s \in Seq(T) /\ Len(s) = n BY <1>1, <1>4, SeqDef, LenProperties
<1> HIDE DEF s
<1>6. \A i, j \in 1..n : s[i] = s[j] => i = j BY <1>4 DEF IsInjective
<1> QED BY <1>5, <1>6 DEF Once, s

\* What may hold a task that is to run: the queue, a worker's own, its next.
TheQueue == <<"queue", None>>
Holds(h, t) ==
  \/ h = TheQueue /\ t \in ToSet(runnable)
  \/ \E w \in Workers : h = <<"own", w>> /\ t \in ToSet(own[w])
  \/ \E w \in Workers : h = <<"next", w>> /\ next[w] = t
Apart(t) == \A h, k : Holds(h, t) /\ Holds(k, t) => h = k

QueueOnce ==
  /\ Once(runnable) /\ \A w \in Workers : Once(own[w])
  /\ \A t \in Tasks : Apart(t)

\* Only what is ready is in a queue, only what waits for a time has a timer, and
\* a task that runs does on one worker.
Running == {"runs"} \cup PinnedStates
StateOnce ==
  /\ \A t \in Tasks : Queued(t) => task[t] = "ready"
  /\ \A t \in timers : task[t] = "time"
  /\ \A w \in Workers : cur[w] # None => task[cur[w]] \in Running
  /\ \A w, v \in Workers : cur[w] = cur[v] => w = v \/ cur[w] = None

OnceInv == QueueOnce /\ StateOnce

LEMMA QueuedIsHeld == ASSUME NEW t PROVE Queued(t) <=> \E h : Holds(h, t)
BY DEF Queued, Holds

LEMMA QueuedIsHeldNext == ASSUME NEW t PROVE Queued(t)' <=> \E h : Holds(h, t)'
BY DEF Queued, Holds

\* A task stays where it is, or comes to be in one place only.
LEMMA ApartStays ==
  ASSUME NEW t \in Tasks, Apart(t), \A h : Holds(h, t)' => Holds(h, t)
  PROVE  Apart(t)'
BY DEF Apart

LEMMA ApartGoes ==
  ASSUME NEW t \in Tasks, NEW k, \A h : Holds(h, t)' => h = k
  PROVE  Apart(t)'
BY DEF Apart

\* Where a task is held says which queues have it not.
LEMMA ApartIs ==
  ASSUME NEW t \in Tasks, Apart(t)
  PROVE  /\ t \in ToSet(runnable) => \A w \in Workers : t \notin ToSet(own[w]) /\ next[w] # t
         /\ \A w \in Workers : t \in ToSet(own[w]) =>
              \A v \in Workers : (t \in ToSet(own[v]) => v = w) /\ next[v] # t
         /\ \A w, v \in Workers : next[w] = t /\ next[v] = t => v = w
<1>1. t \in ToSet(runnable) => Holds(TheQueue, t) BY DEF Holds
<1>2. \A w \in Workers : t \in ToSet(own[w]) => Holds(<<"own", w>>, t) BY DEF Holds
<1>3. \A w \in Workers : next[w] = t => Holds(<<"next", w>>, t) BY DEF Holds
<1>4. \A w, v : TheQueue # <<"own", w>> /\ TheQueue # <<"next", w>> /\ <<"own", w>> # <<"next", v>>
  BY DEF TheQueue
<1>5. \A w, v : (<<"own", w>> = <<"own", v>> => w = v) /\ (<<"next", w>> = <<"next", v>> => w = v)
  OBVIOUS
<1> HIDE DEF Holds
<1> QED BY <1>1, <1>2, <1>3, <1>4, <1>5 DEF Apart

\* A step that moves no task.
LEMMA OnceQuiet ==
  ASSUME OnceInv, UNCHANGED <<runnable, own, next, cur, task, timers>>
  PROVE  OnceInv'
<1>1. QueueOnce' BY DEF OnceInv, QueueOnce, Once, Apart, Holds
<1>2. StateOnce' BY DEF OnceInv, StateOnce, Queued
<1> QED BY <1>1, <1>2 DEF OnceInv

\* w takes a task to run, and the tasks of `fired` join those that are ready.
LEMMA StateTakes ==
  ASSUME TypeOK, FreeInv, StateOnce, NEW w \in Workers, pc[w] \in FreePcs, NEW t \in Tasks,
         NEW fired \in SUBSET timers,
         cur' = [cur EXCEPT ![w] = t],
         task' = [s \in Tasks |-> IF s = t THEN "runs" ELSE IF s \in fired THEN "ready" ELSE task[s]],
         timers' = timers \ fired,
         Queued(t) \/ t \in fired, ~Queued(t)',
         \A s \in Tasks : Queued(s)' => Queued(s) \/ s \in fired
  PROVE  StateOnce'
<1>t. /\ cur \in [Workers -> Tasks \cup {None}] /\ task \in [Tasks -> TaskStates] /\ None \notin Tasks
      /\ timers \subseteq Tasks
  BY WorkersAssumption, Types DEF TaskTypes, QueueTypes
<1>1. task[t] \in {"ready", "time"} BY DEF StateOnce
<1>2. \A s \in fired : task[s] = "time" BY DEF StateOnce
<1>3. \A v \in Workers : cur'[v] = IF v = w THEN t ELSE cur[v] BY <1>t
<1>4. \A s \in Tasks : Queued(s)' => task'[s] = "ready" BY <1>t DEF StateOnce
<1>5. \A s \in timers' : task'[s] = "time"
  <2>1. \A s \in timers' : s \in Tasks /\ s \notin fired /\ task[s] = "time" BY <1>t DEF StateOnce
  <2>2. t \in timers' => FALSE
    <3>1. t \in timers' => task[t] = "time" /\ Queued(t) BY <2>1
    <3> QED BY <3>1 DEF StateOnce
  <2> QED BY <2>1, <2>2
<1>6. \A v \in Workers : cur[v] # None => cur[v] # t /\ cur[v] \notin fired
  BY <1>1, <1>2 DEF StateOnce, Running
<1>7. \A v \in Workers : cur'[v] # None => task'[cur'[v]] \in Running
  BY <1>t, <1>3, <1>6 DEF StateOnce, Running
<1>8. \A u, v \in Workers : cur'[u] = cur'[v] => u = v \/ cur'[u] = None
  BY <1>t, <1>3, <1>6 DEF StateOnce
<1> QED BY <1>4, <1>5, <1>7, <1>8 DEF StateOnce

\* Tasks that are not running become ready, or go to another queue.
LEMMA StateQueues ==
  ASSUME TypeOK, StateOnce, NEW joins \in SUBSET Tasks, \A s \in joins : task[s] \notin Running,
         \A s \in joins : s \notin timers,
         task' = [s \in Tasks |-> IF s \in joins THEN "ready" ELSE task[s]],
         UNCHANGED <<cur, timers>>,
         \A s \in Tasks : Queued(s)' => Queued(s) \/ s \in joins
  PROVE  StateOnce'
<1>t. /\ cur \in [Workers -> Tasks \cup {None}] /\ task \in [Tasks -> TaskStates] /\ None \notin Tasks
      /\ timers \subseteq Tasks
  BY WorkersAssumption, Types DEF TaskTypes, QueueTypes
<1>1. \A v \in Workers : cur[v] # None => cur[v] \in Tasks /\ cur[v] \notin joins
  BY <1>t DEF StateOnce
<1> QED BY <1>t, <1>1 DEF StateOnce

\* Tasks leave the queues.
LEMMA QueuesLess ==
  ASSUME QueueOnce, Once(runnable'), \A v \in Workers : Once(own'[v]),
         ToSet(runnable') \subseteq ToSet(runnable),
         \A v \in Workers : ToSet(own'[v]) \subseteq ToSet(own[v]) /\ next'[v] \in {next[v], None}
  PROVE  QueueOnce' /\ \A s \in Tasks : Queued(s)' => Queued(s)
<1>1. \A s \in Tasks : s # None BY WorkersAssumption
<1>2. \A s \in Tasks : \A h : Holds(h, s)' => Holds(h, s) BY <1>1 DEF Holds
<1>3. \A s \in Tasks : Apart(s)' BY <1>2, ApartStays DEF QueueOnce
<1>4. \A s \in Tasks : Queued(s)' => Queued(s) BY <1>2, QueuedIsHeld, QueuedIsHeldNext
<1> QED BY <1>3, <1>4 DEF QueueOnce

LEMMA LookNextOnce ==
  ASSUME TypeOK, FreeInv, OnceInv, NEW w \in Workers, LookNext(w)
  PROVE  OnceInv'
<1> USE DEF queueVars
<1>t. next \in [Workers -> Tasks \cup {None}] /\ task \in [Tasks -> TaskStates] /\ None \notin Tasks
  BY WorkersAssumption, Types DEF NextTypes, TaskTypes
<1>0. PICK t : t = next[w] OBVIOUS
<1>1. /\ pc[w] = "looks" /\ t # None /\ t \in Tasks /\ next' = [next EXCEPT ![w] = None]
      /\ cur' = [cur EXCEPT ![w] = t] /\ task' = [task EXCEPT ![t] = "runs"]
      /\ UNCHANGED <<runnable, own, timers>>
  BY <1>0, <1>t DEF LookNext, Runs
<1>2. \A v \in Workers : next'[v] = IF v = w THEN None ELSE next[v] BY <1>1, <1>t
<1>3. QueueOnce' /\ \A s \in Tasks : Queued(s)' => Queued(s)
  BY <1>1, <1>2, QueuesLess DEF OnceInv, QueueOnce
<1>4. Queued(t) BY <1>0 DEF Queued
<1>5. ~Queued(t)'
  <2>1. Apart(t) BY <1>1 DEF OnceInv, QueueOnce
  <2>2. \A v \in Workers : t \notin ToSet(own[v]) /\ next'[v] # t BY <1>0, <1>1, <1>2, <2>1, ApartIs
  <2>3. t \notin ToSet(runnable) BY <1>0, <1>1, <2>1, ApartIs
  <2> QED BY <1>1, <2>2, <2>3 DEF Queued
<1>6. /\ task' = [s \in Tasks |-> IF s = t THEN "runs" ELSE IF s \in {} THEN "ready" ELSE task[s]]
      /\ {} \in SUBSET timers /\ timers' = timers \ {} /\ pc[w] \in FreePcs
  BY <1>1, <1>t
<1>7. StateOnce' BY <1>1, <1>3, <1>4, <1>5, <1>6, StateTakes DEF OnceInv
<1> QED BY <1>3, <1>7 DEF OnceInv

\* A worker runs the oldest of its own.
LEMMA OwnOnce ==
  ASSUME TypeOK, FreeInv, CountInv, OnceInv, NEW w \in Workers, TakeOwn(w), pc[w] \in FreePcs,
         NEW t, t = Head(own[w]),
         cur' = [cur EXCEPT ![w] = t], task' = [task EXCEPT ![t] = "runs"],
         UNCHANGED <<runnable, next, timers>>
  PROVE  OnceInv'
<1>t. /\ own \in [Workers -> Seq(Tasks)] /\ count \in [Workers -> Nat] /\ task \in [Tasks -> TaskStates]
      /\ own[w] \in Seq(Tasks)
  BY Types DEF NextTypes, TaskTypes
<1>1. own[w] # <<>> /\ own' = [own EXCEPT ![w] = Tail(own[w])]
  <2>0. pc[w] \notin Pushing OBVIOUS
  <2>1. Len(own[w]) = count[w] /\ count[w] > 0
    <3> HIDE DEF Pushing, FreePcs
    <3> QED BY <2>0, <1>t DEF CountInv, TakeOwn
  <2> QED BY <1>t, <2>1, EmptySeq DEF TakeOwn
<1>2. /\ t \in Tasks /\ ToSet(own[w]) = {t} \cup ToSet(Tail(own[w])) BY <1>t, <1>1, TailHolds
<1>3. Once(Tail(own[w])) /\ t \notin ToSet(Tail(own[w]))
  <2>1. Once(own[w]) BY DEF OnceInv, QueueOnce
  <2> QED BY <1>t, <1>1, <2>1, TailOnce
<1>4. \A v \in Workers : own'[v] = IF v = w THEN Tail(own[w]) ELSE own[v] BY <1>1, <1>t
<1>5. QueueOnce' /\ \A s \in Tasks : Queued(s)' => Queued(s)
  <2>1. \A v \in Workers : Once(own'[v]) BY <1>3, <1>4 DEF OnceInv, QueueOnce
  <2>2. \A v \in Workers : ToSet(own'[v]) \subseteq ToSet(own[v]) /\ next'[v] \in {next[v], None}
    BY <1>2, <1>4
  <2>3. Once(runnable') /\ ToSet(runnable') \subseteq ToSet(runnable) BY DEF OnceInv, QueueOnce
  <2> QED BY <2>1, <2>2, <2>3, QueuesLess DEF OnceInv
<1>6. Queued(t) BY <1>2 DEF Queued
<1>7. ~Queued(t)'
  <2>1. Apart(t) BY <1>2 DEF OnceInv, QueueOnce
  <2>2. t \notin ToSet(runnable) /\ \A v \in Workers : (t \in ToSet(own[v]) => v = w) /\ next[v] # t
    BY <1>2, <2>1, ApartIs
  <2> QED BY <1>3, <1>4, <2>2 DEF Queued
<1>8. /\ task' = [s \in Tasks |-> IF s = t THEN "runs" ELSE IF s \in {} THEN "ready" ELSE task[s]]
      /\ {} \in SUBSET timers /\ timers' = timers \ {}
  BY <1>t, <1>2
<1>9. StateOnce' BY <1>2, <1>5, <1>6, <1>7, <1>8, StateTakes DEF OnceInv
<1> QED BY <1>5, <1>9 DEF OnceInv

LEMMA TakeNextOnce ==
  ASSUME TypeOK, FreeInv, OnceInv, NEW w \in Workers, TakeNext(w)
  PROVE  OnceInv'
<1>t. next \in [Workers -> Tasks \cup {None}] /\ task \in [Tasks -> TaskStates] /\ None \notin Tasks
  BY WorkersAssumption, Types DEF NextTypes, TaskTypes
<1>0. PICK v \in Workers : next[v] # None /\ next' = [next EXCEPT ![v] = None] /\ Found(w, next[v], FALSE, {})
  BY DEF TakeNext, Seen
<1>1. PICK t : t = next[v] OBVIOUS
<1>2. /\ pc[w] = "relocks" /\ t \in Tasks /\ UNCHANGED <<runnable, own, timers>>
      /\ cur' = [cur EXCEPT ![w] = t]
      /\ task' = [s \in Tasks |-> IF s = t THEN "runs" ELSE IF s \in {} THEN "ready" ELSE task[s]]
  <2>1. Found(w, t, FALSE, {}) BY <1>0, <1>1
  <2>2. pc[w] = "relocks" /\ t \in Tasks /\ UNCHANGED <<runnable, own>> /\ timers' = timers
    BY <1>t, <1>0, <1>1 DEF TakeNext, Looked
  <2> QED BY <2>1, <2>2 DEF Found
<1>3. \A u \in Workers : next'[u] = IF u = v THEN None ELSE next[u] BY <1>0, <1>t
<1>4. QueueOnce' /\ \A s \in Tasks : Queued(s)' => Queued(s)
  BY <1>2, <1>3, QueuesLess DEF OnceInv, QueueOnce
<1>5. Queued(t) BY <1>1 DEF Queued
<1>6. ~Queued(t)'
  <2>1. Apart(t) BY <1>2 DEF OnceInv, QueueOnce
  <2>2. \A u \in Workers : t \notin ToSet(own[u]) /\ next'[u] # t BY <1>t, <1>1, <1>2, <1>3, <2>1, ApartIs
  <2>3. t \notin ToSet(runnable) BY <1>1, <1>2, <2>1, ApartIs
  <2> QED BY <1>2, <2>2, <2>3 DEF Queued
<1>7. {} \in SUBSET timers /\ timers' = timers \ {} /\ pc[w] \in FreePcs BY <1>2
<1>8. StateOnce' BY <1>2, <1>4, <1>5, <1>6, <1>7, StateTakes DEF OnceInv
<1> QED BY <1>4, <1>8 DEF OnceInv

\* w takes half of what v has, and runs the first of it.
LEMMA StealOnce ==
  ASSUME TypeOK, FreeInv, CountInv, OnceInv, NEW w \in Workers, Steal(w)
  PROVE  OnceInv'
<1> USE DEF queueVars
<1>t. /\ own \in [Workers -> Seq(Tasks)] /\ count \in [Workers -> Nat] /\ task \in [Tasks -> TaskStates]
  BY Types DEF NextTypes, TaskTypes
<1> DEFINE Half(v) == (Len(own[v]) + 1) \div 2
           Taken(v) == SubSeq(own[v], 1, Half(v))
           Rest(v) == SubSeq(own[v], Half(v) + 1, Len(own[v]))
<1>1. PICK v \in Workers \ {w} :
        /\ count[v] > 0
        /\ own' = [own EXCEPT ![v] = Rest(v), ![w] = Tail(Taken(v))]
        /\ Found(w, Head(Taken(v)), Len(own[v]) > 1, {})
  BY DEF Steal
<1>2. own[v] \in Seq(Tasks) /\ Len(own[v]) \in Nat /\ Len(own[v]) > 0
  <2>1. own[v] \in Seq(Tasks) /\ Len(own[v]) \in Nat /\ count[v] \in Nat BY <1>t, LenProperties
  <2>2. Len(own[v]) = count[v] + (IF pc[v] \in Pushing THEN 1 ELSE 0) BY DEF CountInv
  <2>3. Len(own[v]) = count[v] \/ Len(own[v]) = count[v] + 1 BY <2>1, <2>2
  <2>4. count[v] > 0 BY <1>1
  <2> QED BY <2>1, <2>3, <2>4
<1>3. PICK h \in 1..Len(own[v]) : h = Half(v)
  <2>1. \A n \in Nat : n > 0 => (n + 1) \div 2 \in 1..n OBVIOUS
  <2> QED BY <2>1, <1>2
<1>4. PICK taken, rest, t :
        /\ taken = SubSeq(own[v], 1, h) /\ rest = SubSeq(own[v], h + 1, Len(own[v])) /\ t = Head(taken)
  OBVIOUS
<1>5. /\ taken \in Seq(Tasks) /\ taken # <<>> /\ rest \in Seq(Tasks)
      /\ ToSet(own[v]) = ToSet(taken) \cup ToSet(rest)
  <2>1. PICK s : s = own[v] OBVIOUS
  <2>2. /\ s \in Seq(Tasks) /\ h \in 1..Len(s)
        /\ taken = SubSeq(s, 1, h) /\ rest = SubSeq(s, h + 1, Len(s))
    BY <2>1, <1>2, <1>4
  <2>3. /\ taken \in Seq(Tasks) /\ taken # <<>> /\ rest \in Seq(Tasks)
        /\ ToSet(s) = ToSet(taken) \cup ToSet(rest)
    BY ONLY <2>2, HalvesHold
  <2> QED BY <2>1, <2>3
<1>6. Once(taken) /\ Once(rest) /\ ToSet(taken) \cap ToSet(rest) = {}
  <2>1. Once(own[v]) BY DEF OnceInv, QueueOnce
  <2> QED BY <1>2, <1>4, <2>1, HalvesOnce
<1>7. /\ t \in Tasks /\ Tail(taken) \in Seq(Tasks) /\ ToSet(taken) = {t} \cup ToSet(Tail(taken))
      /\ Once(Tail(taken)) /\ t \notin ToSet(Tail(taken))
  BY <1>4, <1>5, <1>6, TailHolds, TailOnce
<1>8. /\ own' = [own EXCEPT ![v] = rest, ![w] = Tail(taken)]
      /\ cur' = [cur EXCEPT ![w] = t]
      /\ task' = [s \in Tasks |-> IF s = t THEN "runs" ELSE IF s \in {} THEN "ready" ELSE task[s]]
  BY <1>1, <1>3, <1>4 DEF Found
<1>9. /\ pc[w] = "steals" /\ count[w] = 0 /\ UNCHANGED <<runnable, timers, next>>
  BY DEF Steal
<1> HIDE DEF Half, Taken, Rest
<1>10. \A x \in Workers : own'[x] = IF x = w THEN Tail(taken) ELSE IF x = v THEN rest ELSE own[x]
  BY <1>1, <1>8, <1>t
<1>11. \A x \in Workers : Once(own'[x]) BY <1>6, <1>7, <1>10 DEF OnceInv, QueueOnce
<1>12. ASSUME NEW s \in Tasks
       PROVE  /\ Apart(s)' /\ (Queued(s)' => Queued(s)) /\ (s = t => ~Queued(s)')
  <2>1. Apart(s) BY DEF OnceInv, QueueOnce
  <2>2. CASE s \notin ToSet(own[v])
    <3>1. s # t /\ s \notin ToSet(taken) /\ s \notin ToSet(rest) BY <2>2, <1>5, <1>7
    <3>2. \A x \in Workers : s \in ToSet(own'[x]) => s \in ToSet(own[x]) BY <3>1, <1>7, <1>10
    <3>3. \A h1 : Holds(h1, s)' => Holds(h1, s) BY <3>2, <1>9 DEF Holds
    <3> QED BY <2>1, <3>1, <3>3, ApartStays, QueuedIsHeld, QueuedIsHeldNext
  <2>3. CASE s \in ToSet(own[v])
    <3>1. /\ s \notin ToSet(runnable)
          /\ \A x \in Workers : (s \in ToSet(own[x]) => x = v) /\ next[x] # s
      BY <2>1, <2>3, ApartIs
    <3>2. \A x \in Workers : s \in ToSet(own'[x]) =>
            (x = v /\ s \in ToSet(rest)) \/ (x = w /\ s \in ToSet(Tail(taken)))
      <4> SUFFICES ASSUME NEW x \in Workers, s \in ToSet(own'[x])
                   PROVE  (x = v /\ s \in ToSet(rest)) \/ (x = w /\ s \in ToSet(Tail(taken)))
        OBVIOUS
      <4>1. CASE x = w BY <4>1, <1>10
      <4>2. CASE x # w /\ x = v BY <4>2, <1>10
      <4>3. CASE x # w /\ x # v
        <5>1. s \in ToSet(own[x]) BY <4>3, <1>10
        <5> QED BY <5>1, <4>3, <3>1
      <4> QED BY <4>1, <4>2, <4>3
    <3>3. Queued(s) BY <2>3, <1>1 DEF Queued
    <3>4. s = t => ~Queued(s)'
      <4>1. s = t => s \notin ToSet(rest) /\ s \notin ToSet(Tail(taken)) BY <1>6, <1>7
      <4> QED BY <3>1, <3>2, <4>1, <1>9 DEF Queued
    <3>5. Apart(s)'
      <4>1. CASE s \in ToSet(rest)
        <5>1. s \notin ToSet(Tail(taken)) BY <4>1, <1>6, <1>7
        <5>2. \A h1 : Holds(h1, s)' => h1 = <<"own", v>> BY <3>1, <3>2, <5>1, <1>9 DEF Holds
        <5> QED BY <5>2, ApartGoes
      <4>2. CASE s \notin ToSet(rest)
        <5>1. \A h1 : Holds(h1, s)' => h1 = <<"own", w>> BY <3>1, <3>2, <4>2, <1>9 DEF Holds
        <5> QED BY <5>1, ApartGoes
      <4> QED BY <4>1, <4>2
    <3> QED BY <3>3, <3>4, <3>5
  <2> QED BY <2>2, <2>3
<1>13. QueueOnce' BY <1>9, <1>11, <1>12 DEF OnceInv, QueueOnce
<1>14. Queued(t) BY <1>1, <1>5, <1>7 DEF Queued
<1>15. {} \in SUBSET timers /\ timers' = timers \ {} /\ pc[w] \in FreePcs BY <1>9
<1>16. StateOnce'
  <2>1. \A s \in Tasks : Queued(s)' => Queued(s) BY <1>12
  <2>2. ~Queued(t)' BY <1>7, <1>12
  <2> QED BY <1>7, <1>8, <1>14, <1>15, <2>1, <2>2, StateTakes DEF OnceInv
<1> QED BY <1>13, <1>16 DEF OnceInv

\* The tasks whose time came join the queue, and w runs the first.
LEMMA PopOnce ==
  ASSUME TypeOK, FreeInv, OnceInv, NEW w \in Workers, Pop(w)
  PROVE  OnceInv'
<1> USE DEF nextVars
<1>t. /\ runnable \in Seq(Tasks) /\ due \subseteq timers /\ timers \subseteq Tasks /\ IsFiniteSet(due)
      /\ QueueTypes
  <2>1. QueueTypes BY Types
  <2>2. due \in SUBSET Tasks BY <2>1 DEF QueueTypes
  <2> QED BY <2>1, <2>2, WorkersAssumption, FS_Subset DEF QueueTypes
<1>1. PICK all, t, rest : all = Fired /\ t = Head(all) /\ rest = Tail(all) OBVIOUS
<1>2. /\ all # <<>> /\ pc[w] \in FreePcs /\ runnable' = rest /\ timers' = timers \ due
      /\ UNCHANGED <<own, next>>
      /\ Found(w, t, Len(all) > 1, due)
  BY <1>1 DEF Pop, AtQueue, FiresTimers
<1>3. all \in Seq(Tasks) /\ ToSet(all) = ToSet(runnable) \cup due BY <1>t, <1>1, FiredHolds
<1>4. Once(all)
  <2>1. SetToSeq(due) \in Seq(Tasks) /\ ToSet(SetToSeq(due)) = due /\ Once(SetToSeq(due))
    BY <1>t, ListHolds, ListOnce
  <2>2. \A s \in due : s \notin ToSet(runnable)
    <3>1. \A s \in due : s \in Tasks /\ task[s] = "time" BY <1>t DEF OnceInv, StateOnce
    <3>2. \A s \in Tasks : s \in ToSet(runnable) => task[s] = "ready" BY DEF OnceInv, StateOnce, Queued
    <3> QED BY <3>1, <3>2
  <2>3. Once(runnable) BY DEF OnceInv, QueueOnce
  <2> QED BY <2>1, <2>2, <2>3, <1>t, <1>1, ConcatOnce DEF Fired
<1>5. /\ t \in Tasks /\ rest \in Seq(Tasks) /\ ToSet(all) = {t} \cup ToSet(rest)
      /\ Once(rest) /\ t \notin ToSet(rest)
  BY <1>1, <1>2, <1>3, <1>4, TailHolds, TailOnce
<1>6. \A s \in due : \A v \in Workers : s \notin ToSet(own[v]) /\ next[v] # s
  <2>1. \A s \in due : s \in Tasks /\ task[s] = "time" BY <1>t DEF OnceInv, StateOnce
  <2> QED BY <2>1 DEF OnceInv, StateOnce, Queued
<1>7. ASSUME NEW s \in Tasks
      PROVE  /\ Apart(s)' /\ (Queued(s)' => Queued(s) \/ s \in due) /\ (s = t => ~Queued(s)')
  <2>1. Apart(s) BY DEF OnceInv, QueueOnce
  <2>2. CASE s \in ToSet(runnable) \/ s \in due
    <3>1. \A v \in Workers : s \notin ToSet(own[v]) /\ next[v] # s BY <2>1, <2>2, <1>6, ApartIs
    <3>2. \A h : Holds(h, s)' => h = TheQueue BY <3>1, <1>2 DEF Holds
    <3>3. s = t => ~Queued(s)' BY <3>1, <1>2, <1>5 DEF Queued
    <3>4. Queued(s) \/ s \in due BY <2>2 DEF Queued
    <3> QED BY <3>2, <3>3, <3>4, ApartGoes
  <2>3. CASE ~(s \in ToSet(runnable) \/ s \in due)
    <3>1. s # t /\ s \notin ToSet(rest) BY <2>3, <1>3, <1>5
    <3>2. \A h : Holds(h, s)' => Holds(h, s) BY <3>1, <1>2 DEF Holds
    <3> QED BY <2>1, <3>1, <3>2, ApartStays, QueuedIsHeld, QueuedIsHeldNext
  <2> QED BY <2>2, <2>3
<1>8. QueueOnce' BY <1>2, <1>5, <1>7 DEF OnceInv, QueueOnce
<1>9. StateOnce'
  <2>1. Queued(t) \/ t \in due BY <1>3, <1>5 DEF Queued
  <2>2. ~Queued(t)' /\ \A s \in Tasks : Queued(s)' => Queued(s) \/ s \in due BY <1>5, <1>7
  <2>3. /\ cur' = [cur EXCEPT ![w] = t] /\ due \in SUBSET timers
        /\ task' = [s \in Tasks |-> IF s = t THEN "runs" ELSE IF s \in due THEN "ready" ELSE task[s]]
    BY <1>t, <1>2 DEF Found
  <2> QED BY <1>2, <1>5, <2>1, <2>2, <2>3, StateTakes DEF OnceInv
<1> QED BY <1>8, <1>9 DEF OnceInv

\* Tasks a worker has go to the queue.
LEMMA QueueJoins ==
  ASSUME TypeOK, QueueOnce, NEW u \in Seq(Tasks), Once(u), runnable' = runnable \o u,
         \A s \in ToSet(u) : s \notin ToSet(runnable),
         \A v \in Workers : Once(own'[v]) /\ ToSet(own'[v]) \subseteq ToSet(own[v]),
         \A v \in Workers : next'[v] \in {next[v], None},
         \A s \in ToSet(u), v \in Workers : s \notin ToSet(own'[v]) /\ next'[v] # s
  PROVE  QueueOnce' /\ \A s \in Tasks : Queued(s)' => Queued(s) \/ s \in ToSet(u)
<1>t. runnable \in Seq(Tasks) /\ None \notin Tasks BY WorkersAssumption, Types DEF QueueTypes
<1>1. ToSet(runnable') = ToSet(runnable) \cup ToSet(u) BY <1>t, ConcatHolds
<1>2. Once(runnable')
  <2>1. Once(runnable) /\ ToSet(runnable) \cap ToSet(u) = {} BY DEF QueueOnce
  <2> QED BY <2>1, <1>t, ConcatOnce
<1>3. ASSUME NEW s \in Tasks PROVE Apart(s)' /\ (Queued(s)' => Queued(s) \/ s \in ToSet(u))
  <2>1. Apart(s) BY DEF QueueOnce
  <2>2. CASE s \in ToSet(u)
    <3>1. \A h : Holds(h, s)' => h = TheQueue BY <2>2 DEF Holds
    <3> QED BY <2>2, <3>1, ApartGoes
  <2>3. CASE s \notin ToSet(u)
    <3>1. s # None BY <1>t
    <3>2. \A h : Holds(h, s)' => Holds(h, s) BY <2>3, <3>1, <1>1 DEF Holds
    <3> QED BY <2>1, <3>2, ApartStays, QueuedIsHeld, QueuedIsHeldNext
  <2> QED BY <2>2, <2>3
<1> QED BY <1>2, <1>3 DEF QueueOnce

LEMMA RetireOnce ==
  ASSUME TypeOK, OnceInv, NEW w \in Workers, Retire(w)
  PROVE  OnceInv'
<1> USE DEF taskVars
<1>t. own \in [Workers -> Seq(Tasks)] /\ task \in [Tasks -> TaskStates] BY Types DEF NextTypes, TaskTypes
<1>1. PICK u : u = own[w] OBVIOUS
<1>2. /\ runnable' = runnable \o u /\ own' = [own EXCEPT ![w] = <<>>]
      /\ UNCHANGED <<next, cur, task, timers>>
  BY <1>1 DEF Retire
<1>3. \A v \in Workers : own'[v] = IF v = w THEN <<>> ELSE own[v] BY <1>2, <1>t
<1>4. /\ u \in Seq(Tasks) /\ Once(u) /\ ToSet(u) \subseteq Tasks
  BY <1>1, <1>t, LenProperties, ElementOfSeq DEF OnceInv, QueueOnce, ToSet
<1>5. ToSet(<<>>) = {} /\ Once(<<>>) BY DEF ToSet, Once
<1>6. ASSUME NEW s \in ToSet(u)
      PROVE  s \notin ToSet(runnable) /\ \A v \in Workers : s \notin ToSet(own'[v]) /\ next'[v] # s
  <2>1. s \in Tasks /\ Apart(s) BY <1>4 DEF OnceInv, QueueOnce
  <2>2. s \notin ToSet(runnable) /\ \A v \in Workers : (s \in ToSet(own[v]) => v = w) /\ next[v] # s
    BY <1>1, <2>1, ApartIs
  <2> QED BY <2>2, <1>2, <1>3, <1>5
<1>7. \A v \in Workers : Once(own'[v]) /\ ToSet(own'[v]) \subseteq ToSet(own[v])
  BY <1>3, <1>5 DEF OnceInv, QueueOnce
<1>8. QueueOnce' /\ \A s \in Tasks : Queued(s)' => Queued(s) \/ s \in ToSet(u)
  BY <1>2, <1>4, <1>6, <1>7, QueueJoins DEF OnceInv
<1>9. \A s \in Tasks : Queued(s)' => Queued(s) \/ s \in {} BY <1>1, <1>8 DEF Queued
<1>10. {} \in SUBSET Tasks /\ task' = [s \in Tasks |-> IF s \in {} THEN "ready" ELSE task[s]] BY <1>2, <1>t
<1>11. StateOnce' BY <1>2, <1>9, <1>10, StateQueues DEF OnceInv
<1> QED BY <1>8, <1>11 DEF OnceInv

\* Its next and its oldest.
LEMMA LookTurnOnce ==
  ASSUME TypeOK, CountInv, OnceInv, NEW w \in Workers, LookTurn(w)
  PROVE  OnceInv'
<1> USE DEF taskVars
<1>t. /\ own \in [Workers -> Seq(Tasks)] /\ task \in [Tasks -> TaskStates] /\ None \notin Tasks
      /\ next \in [Workers -> Tasks \cup {None}] /\ own[w] \in Seq(Tasks) /\ count[w] \in Nat
  BY WorkersAssumption, Types DEF NextTypes, TaskTypes
<1>1. PICK first, second :
        /\ first = (IF next[w] = None THEN <<>> ELSE <<next[w]>>)
        /\ second = (IF count[w] > 0 THEN <<Head(own[w])>> ELSE <<>>)
  OBVIOUS
<1>2. PICK u : u = first \o second OBVIOUS
<1>3. /\ pc[w] = "looks" /\ runnable' = runnable \o u /\ next' = [next EXCEPT ![w] = None]
      /\ IF count[w] > 0 THEN TakeOwn(w) ELSE UNCHANGED <<own, count>>
      /\ UNCHANGED <<cur, task, timers>>
  BY <1>1, <1>2 DEF LookTurn
<1>4. \A v \in Workers : next'[v] = IF v = w THEN None ELSE next[v] BY <1>3, <1>t
<1>5. ToSet(<<>>) = {} /\ Once(<<>>) /\ <<>> \in Seq(Tasks) BY DEF ToSet, Once
<1>6. \A s : ToSet(<<s>>) = {s} /\ Once(<<s>>) BY DEF ToSet, Once
<1>7. first \in Seq(Tasks) /\ Once(first) /\ ToSet(first) = {next[w]} \ {None}
  <2>1. CASE next[w] = None BY <2>1, <1>1, <1>5
  <2>2. CASE next[w] # None
    <3>1. next[w] \in Tasks /\ first = <<next[w]>> BY <2>2, <1>1, <1>t
    <3>2. <<next[w]>> \in Seq(Tasks) BY <3>1
    <3> QED BY <2>2, <3>1, <3>2, <1>6
  <2> QED BY <2>1, <2>2
\* What it takes off its own queue, if anything.
<1>8. /\ second \in Seq(Tasks) /\ Once(second) /\ ToSet(second) \subseteq ToSet(own[w])
      /\ \A v \in Workers : Once(own'[v]) /\ ToSet(own'[v]) \subseteq ToSet(own[v])
      /\ ToSet(own'[w]) \cap ToSet(second) = {}
  <2>1. CASE count[w] > 0
    <3>0. pc[w] \notin Pushing BY <1>3
    <3>1. own[w] # <<>> /\ own' = [own EXCEPT ![w] = Tail(own[w])]
      <4>1. Len(own[w]) = count[w]
        <5> HIDE DEF Pushing
        <5> QED BY <3>0, <1>t DEF CountInv
      <4> QED BY <2>1, <1>3, <1>t, <4>1, EmptySeq DEF TakeOwn
    <3>2. \A v \in Workers : own'[v] = IF v = w THEN Tail(own[w]) ELSE own[v] BY <3>1, <1>t
    <3>3. \A v \in Workers : Once(own[v]) BY DEF OnceInv, QueueOnce
    <3>4. /\ Head(own[w]) \in Tasks /\ ToSet(own[w]) = {Head(own[w])} \cup ToSet(Tail(own[w]))
          /\ Once(Tail(own[w])) /\ Head(own[w]) \notin ToSet(Tail(own[w]))
      BY <1>t, <3>1, <3>3, TailHolds, TailOnce
    <3>5. second = <<Head(own[w])>> BY <2>1, <1>1
    <3>6. second \in Seq(Tasks) /\ Once(second) /\ ToSet(second) = {Head(own[w])} BY <3>4, <3>5, <1>6
    <3> QED BY <3>2, <3>3, <3>4, <3>6
  <2>2. CASE ~(count[w] > 0)
    <3>1. second = <<>> /\ own' = own BY <2>2, <1>1, <1>3
    <3> QED BY <3>1, <1>5 DEF OnceInv, QueueOnce
  <2> QED BY <2>1, <2>2
<1>9. \A s \in ToSet(own[w]) \cup ({next[w]} \ {None}) : s \in Tasks /\ Apart(s)
  <2>1. ToSet(own[w]) \subseteq Tasks BY <1>t, LenProperties, ElementOfSeq DEF ToSet
  <2> QED BY <2>1, <1>t DEF OnceInv, QueueOnce
<1>10. u \in Seq(Tasks) /\ Once(u) /\ ToSet(u) = ToSet(first) \cup ToSet(second)
  <2>1. ToSet(first) \cap ToSet(second) = {}
    <3>1. next[w] # None => next[w] \notin ToSet(own[w])
      <4> SUFFICES ASSUME next[w] # None PROVE next[w] \notin ToSet(own[w]) OBVIOUS
      <4>1. next[w] \in Tasks /\ Apart(next[w]) BY <1>9
      <4>2. PICK s \in Tasks : s = next[w] BY <4>1
      <4>3. Apart(s) BY <4>1, <4>2
      <4> QED BY <4>2, <4>3, ApartIs
    <3> QED BY <3>1, <1>7, <1>8
  <2> QED BY <2>1, <1>2, <1>7, <1>8, ConcatHolds, ConcatOnce
<1>11. ASSUME NEW s \in ToSet(u)
       PROVE  /\ s \notin ToSet(runnable) /\ Queued(s)
              /\ \A v \in Workers : s \notin ToSet(own'[v]) /\ next'[v] # s
  <2>1. s \in Tasks /\ Apart(s) /\ s # None BY <1>7, <1>8, <1>9, <1>10, <1>t
  <2>2. CASE next[w] = s
    <3>1. /\ s \notin ToSet(runnable)
          /\ \A v \in Workers : s \notin ToSet(own[v]) /\ (next[v] = s => v = w)
      BY <2>1, <2>2, ApartIs
    <3> QED BY <2>1, <2>2, <3>1, <1>4, <1>8 DEF Queued
  <2>3. CASE s \in ToSet(second)
    <3>0. s \in ToSet(own[w]) BY <2>3, <1>8
    <3>1. /\ s \notin ToSet(runnable)
          /\ \A v \in Workers : (s \in ToSet(own[v]) => v = w) /\ next[v] # s
      BY <2>1, <3>0, ApartIs
    <3>2. \A v \in Workers : s \notin ToSet(own'[v]) BY <2>3, <3>1, <1>8
    <3> QED BY <2>1, <3>0, <3>1, <3>2, <1>4 DEF Queued
  <2> QED BY <2>2, <2>3, <1>7, <1>10
<1>12. QueueOnce' /\ \A s \in Tasks : Queued(s)' => Queued(s) \/ s \in ToSet(u)
  <2>1. \A v \in Workers : next'[v] \in {next[v], None} BY <1>4
  <2> QED BY <2>1, <1>3, <1>8, <1>10, <1>11, QueueJoins DEF OnceInv
<1>13. \A s \in Tasks : Queued(s)' => Queued(s) \/ s \in {} BY <1>11, <1>12
<1>14. {} \in SUBSET Tasks /\ task' = [s \in Tasks |-> IF s \in {} THEN "ready" ELSE task[s]] BY <1>3, <1>t
<1>15. StateOnce' BY <1>3, <1>13, <1>14, StateQueues DEF OnceInv
<1> QED BY <1>12, <1>15 DEF OnceInv

LEMMA SpawnOnce ==
  ASSUME TypeOK, OnceInv, NEW w \in Workers, NEW t \in Tasks, Spawn(w, t)
  PROVE  OnceInv'
<1> USE DEF queueVars
<1>t. own \in [Workers -> Seq(Tasks)] /\ task \in [Tasks -> TaskStates] BY Types DEF NextTypes, TaskTypes
<1>1. /\ task[t] = "unborn" /\ own' = [own EXCEPT ![w] = Append(own[w], t)]
      /\ task' = [task EXCEPT ![t] = "ready"] /\ UNCHANGED <<runnable, next, cur, timers>>
  BY DEF Spawn, PushOwn
<1>2. ~Queued(t) /\ t \notin timers BY <1>1 DEF OnceInv, StateOnce
<1>3. /\ \A v \in Workers : own'[v] = IF v = w THEN Append(own[w], t) ELSE own[v]
      /\ ToSet(Append(own[w], t)) = ToSet(own[w]) \cup {t} /\ Once(Append(own[w], t))
  <2>1. Once(own[w]) /\ t \notin ToSet(own[w]) /\ own[w] \in Seq(Tasks)
    BY <1>2, <1>t DEF OnceInv, QueueOnce, Queued
  <2> QED BY <2>1, <1>1, <1>t, AppendHolds, AppendOnce
<1>4. QueueOnce'
  <2>1. \A h : Holds(h, t)' => h = <<"own", w>> BY <1>1, <1>2, <1>3 DEF Holds, Queued
  <2>2. \A s \in Tasks : \A h : s # t /\ Holds(h, s)' => Holds(h, s) BY <1>1, <1>3 DEF Holds
  <2>3. \A s \in Tasks : Apart(s)' BY <2>1, <2>2, ApartGoes, ApartStays DEF OnceInv, QueueOnce
  <2>4. Once(runnable') /\ \A v \in Workers : Once(own'[v]) BY <1>1, <1>3 DEF OnceInv, QueueOnce
  <2> QED BY <2>3, <2>4 DEF QueueOnce
<1>5. StateOnce'
  <2>1. \A s \in Tasks : Queued(s)' => Queued(s) \/ s \in {t} BY <1>1, <1>3 DEF Queued
  <2>2. /\ {t} \in SUBSET Tasks
        /\ task' = [s \in Tasks |-> IF s \in {t} THEN "ready" ELSE task[s]]
        /\ \A s \in {t} : task[s] \notin Running /\ s \notin timers
    BY <1>1, <1>2, <1>t DEF Running
  <2> QED BY <1>1, <2>1, <2>2, StateQueues DEF OnceInv
<1> QED BY <1>4, <1>5 DEF OnceInv

\* The task it wakes takes its next, and what was there goes to its own queue.
LEMMA ScheduleOnce ==
  ASSUME TypeOK, OnceInv, NEW w \in Workers, NEW t \in Tasks, Schedule(w, t)
  PROVE  OnceInv'
<1> USE DEF queueVars
<1>t. /\ own \in [Workers -> Seq(Tasks)] /\ task \in [Tasks -> TaskStates] /\ None \notin Tasks
      /\ next \in [Workers -> Tasks \cup {None}]
  BY WorkersAssumption, Types DEF NextTypes, TaskTypes
<1>0. PICK n : n = next[w] OBVIOUS
<1>1. /\ task[t] = "task" /\ next' = [next EXCEPT ![w] = t] /\ task' = [task EXCEPT ![t] = "ready"]
      /\ own' = IF n = None THEN own ELSE [own EXCEPT ![w] = Append(own[w], n)]
      /\ UNCHANGED <<runnable, cur, timers>>
  BY <1>0 DEF Schedule, PushOwn
<1>2. ~Queued(t) /\ t \notin timers BY <1>1 DEF OnceInv, StateOnce
<1>3. n # None => /\ n \in Tasks /\ n # t /\ n \notin ToSet(runnable)
                  /\ \A v \in Workers : n \notin ToSet(own[v]) /\ (next[v] = n => v = w)
  <2> SUFFICES ASSUME n # None
               PROVE  /\ n \in Tasks /\ n # t /\ n \notin ToSet(runnable)
                      /\ \A v \in Workers : n \notin ToSet(own[v]) /\ (next[v] = n => v = w)
    OBVIOUS
  <2>1. n \in Tasks /\ Queued(n) BY <1>0, <1>t DEF Queued
  <2>2. Apart(n) BY <2>1 DEF OnceInv, QueueOnce
  <2>3. n # t BY <2>1, <1>2
  <2> QED BY <2>1, <2>2, <2>3, <1>0, ApartIs
<1>4. \A v \in Workers : next'[v] = IF v = w THEN t ELSE next[v] BY <1>1, <1>t
<1>5. /\ \A v \in Workers : v # w => own'[v] = own[v]
      /\ Once(own'[w]) /\ ToSet(own'[w]) = ToSet(own[w]) \cup ({n} \ {None})
  <2>1. Once(own[w]) /\ own[w] \in Seq(Tasks) BY <1>t DEF OnceInv, QueueOnce
  <2>2. CASE n = None BY <2>1, <2>2, <1>1
  <2>3. CASE n # None
    <3>1. /\ ToSet(Append(own[w], n)) = ToSet(own[w]) \cup {n} /\ Once(Append(own[w], n))
      BY <2>1, <2>3, <1>3, AppendHolds, AppendOnce
    <3>2. own'[w] = Append(own[w], n) /\ \A v \in Workers : v # w => own'[v] = own[v] BY <2>3, <1>1, <1>t
    <3> QED BY <2>3, <3>1, <3>2
  <2> QED BY <2>2, <2>3
<1>6. QueueOnce'
  <2>1. \A h : Holds(h, t)' => h = <<"next", w>>
    <3>1. t # n => \A v \in Workers : t \notin ToSet(own'[v])
      BY <1>2, <1>5 DEF Queued
    <3>2. t # n BY <1>0, <1>2, <1>t DEF Queued
    <3> QED BY <3>1, <3>2, <1>1, <1>2, <1>4 DEF Holds, Queued
  <2>2. n # None => \A h : Holds(h, n)' => h = <<"own", w>>
    BY <1>1, <1>3, <1>4, <1>5 DEF Holds
  <2>3. \A s \in Tasks : \A h : s # t /\ s # n /\ Holds(h, s)' => Holds(h, s)
    BY <1>1, <1>4, <1>5 DEF Holds
  <2>4. \A s \in Tasks : Apart(s)'
    <3> SUFFICES ASSUME NEW s \in Tasks PROVE Apart(s)' OBVIOUS
    <3>1. CASE s = t BY <3>1, <2>1, ApartGoes
    <3>2. CASE s = n
      <4>1. \A h : Holds(h, s)' => h = <<"own", w>> BY <3>2, <2>2, <1>t
      <4> QED BY <4>1, ApartGoes
    <3>3. CASE s # t /\ s # n BY <3>3, <2>3, ApartStays DEF OnceInv, QueueOnce
    <3> QED BY <3>1, <3>2, <3>3
  <2>5. Once(runnable') /\ \A v \in Workers : Once(own'[v]) BY <1>1, <1>5 DEF OnceInv, QueueOnce
  <2> QED BY <2>4, <2>5 DEF QueueOnce
<1>7. StateOnce'
  <2>1. \A s \in Tasks : Queued(s)' => Queued(s) \/ s \in {t}
    <3>1. \A s \in Tasks, v \in Workers : s \in ToSet(own'[v]) => s \in ToSet(own[v]) \/ s = next[w]
      BY <1>0, <1>5
    <3> QED BY <3>1, <1>1, <1>4 DEF Queued
  <2>2. /\ {t} \in SUBSET Tasks
        /\ task' = [s \in Tasks |-> IF s \in {t} THEN "ready" ELSE task[s]]
        /\ \A s \in {t} : task[s] \notin Running /\ s \notin timers
    BY <1>1, <1>2, <1>t DEF Running
  <2> QED BY <1>1, <2>1, <2>2, StateQueues DEF OnceInv
<1> QED BY <1>6, <1>7 DEF OnceInv

\* A task that runs goes on, pinned or not, where it is.
LEMMA PinsOnce ==
  ASSUME TypeOK, OnceInv, NEW t \in Tasks, task[t] \in Running, NEW to \in Running,
         task' = [task EXCEPT ![t] = to], UNCHANGED <<runnable, own, next, cur, timers>>
  PROVE  OnceInv'
<1>t. task \in [Tasks -> TaskStates] /\ cur \in [Workers -> Tasks \cup {None}]
      /\ timers \subseteq Tasks
  BY Types DEF QueueTypes, TaskTypes
<1>1. \A s \in Tasks : task'[s] = IF s = t THEN to ELSE task[s] BY <1>t
<1>2. QueueOnce' BY DEF OnceInv, QueueOnce, Once, Apart, Holds
<1>3. \A s \in Tasks : Queued(s)' => Queued(s) BY DEF Queued
<1>4. ~Queued(t) /\ t \notin timers BY DEF OnceInv, StateOnce, Running
<1>5. \A s \in Tasks : Queued(s)' => task'[s] = "ready" BY <1>1, <1>3, <1>4 DEF OnceInv, StateOnce
<1>6. \A s \in timers' : task'[s] = "time" BY <1>t, <1>1, <1>4 DEF OnceInv, StateOnce
<1>7. \A v \in Workers : cur'[v] # None => task'[cur'[v]] \in Running
  <2> HIDE DEF PinnedStates
  <2> QED BY <1>t, <1>1 DEF OnceInv, StateOnce
<1>8. StateOnce' BY <1>5, <1>6, <1>7 DEF OnceInv, StateOnce
<1> QED BY <1>2, <1>8 DEF OnceInv

\* A task stops running, on the one worker it did.
LEMMA LeavesOnce ==
  ASSUME TypeOK, FreeInv, OnceInv, NEW w \in Workers, NEW to, Leaves(w, to), to # "time" \/ cur[w] \in timers',
         timers' \subseteq timers \cup (IF to = "time" THEN {cur[w]} ELSE {}),
         UNCHANGED <<runnable, own, next>>
  PROVE  OnceInv'
<1>t. /\ task \in [Tasks -> TaskStates] /\ cur \in [Workers -> Tasks \cup {None}]
      /\ timers \subseteq Tasks /\ None \notin Tasks
  BY WorkersAssumption, Types DEF QueueTypes, TaskTypes
<1>0. PICK t : t = cur[w] OBVIOUS
<1>1. /\ pc[w] = "runs" /\ task' = [task EXCEPT ![t] = to] /\ cur' = [cur EXCEPT ![w] = None]
  BY <1>0 DEF Leaves
<1>2. t # None /\ t \in Tasks BY <1>0, <1>1, <1>t DEF FreeInv
<1>3. task[t] \in Running BY <1>0, <1>2 DEF OnceInv, StateOnce
<1>4. ~Queued(t) /\ t \notin timers BY <1>2, <1>3 DEF OnceInv, StateOnce, Running
<1>5. /\ \A s \in Tasks : task'[s] = IF s = t THEN to ELSE task[s]
      /\ \A v \in Workers : cur'[v] = IF v = w THEN None ELSE cur[v]
  BY <1>1, <1>2, <1>t
<1>6. QueueOnce' BY DEF OnceInv, QueueOnce, Once, Apart, Holds
<1>7. \A s \in Tasks : Queued(s)' => task'[s] = "ready" BY <1>4, <1>5 DEF OnceInv, StateOnce, Queued
<1>8. \A s \in timers' : task'[s] = "time"
  <2> SUFFICES ASSUME NEW s \in timers' PROVE task'[s] = "time" OBVIOUS
  <2>1. CASE s \in timers BY <2>1, <1>4, <1>5, <1>t DEF OnceInv, StateOnce
  <2>2. CASE s \notin timers
    <3>1. to = "time" /\ s = t BY <2>2, <1>0
    <3> QED BY <3>1, <1>2, <1>5
  <2> QED BY <2>1, <2>2
<1>9. \A v \in Workers : cur'[v] # None => cur[v] # t BY <1>0, <1>2, <1>5 DEF OnceInv, StateOnce
<1>10. \A v \in Workers : cur'[v] # None => task'[cur'[v]] \in Running
  <2> HIDE DEF PinnedStates
  <2>1. \A v \in Workers : cur'[v] # None => cur'[v] = cur[v] /\ cur[v] \in Tasks /\ cur[v] # t
    BY <1>5, <1>9, <1>t
  <2> QED BY <2>1, <1>5 DEF OnceInv, StateOnce
<1>11. \A u, v \in Workers : cur'[u] = cur'[v] => u = v \/ cur'[u] = None
  BY <1>5 DEF OnceInv, StateOnce
<1>12. StateOnce' BY <1>7, <1>8, <1>10, <1>11 DEF StateOnce
<1> QED BY <1>6, <1>12 DEF OnceInv

\* The task of a host's operation that ended joins the queue.
LEMMA HostEndsOnce ==
  ASSUME TypeOK, OnceInv, NEW t \in Tasks, HostEnds(t)
  PROVE  OnceInv'
<1> USE DEF nextVars
<1>t. runnable \in Seq(Tasks) /\ task \in [Tasks -> TaskStates] BY Types DEF QueueTypes, TaskTypes
<1>1. /\ task[t] = "host" /\ runnable' = Append(runnable, t) /\ task' = [task EXCEPT ![t] = "ready"]
      /\ UNCHANGED <<own, next, cur, timers>>
  BY DEF HostEnds
<1>2. ~Queued(t) /\ t \notin timers BY <1>1 DEF OnceInv, StateOnce
<1>3. ToSet(runnable') = ToSet(runnable) \cup {t} /\ Once(runnable')
  <2>1. Once(runnable) /\ t \notin ToSet(runnable) BY <1>2 DEF OnceInv, QueueOnce, Queued
  <2> QED BY <2>1, <1>1, <1>t, AppendHolds, AppendOnce
<1>4. QueueOnce'
  <2>1. \A h : Holds(h, t)' => h = TheQueue BY <1>1, <1>2 DEF Holds, Queued
  <2>2. \A s \in Tasks : \A h : s # t /\ Holds(h, s)' => Holds(h, s) BY <1>1, <1>3 DEF Holds
  <2>3. \A s \in Tasks : Apart(s)' BY <2>1, <2>2, ApartGoes, ApartStays DEF OnceInv, QueueOnce
  <2> QED BY <2>3, <1>1, <1>3 DEF OnceInv, QueueOnce
<1>5. StateOnce'
  <2>1. \A s \in Tasks : Queued(s)' => Queued(s) \/ s \in {t} BY <1>1, <1>3 DEF Queued
  <2>2. /\ {t} \in SUBSET Tasks
        /\ task' = [s \in Tasks |-> IF s \in {t} THEN "ready" ELSE task[s]]
        /\ \A s \in {t} : task[s] \notin Running /\ s \notin timers
    BY <1>1, <1>2, <1>t DEF Running
  <2> QED BY <1>1, <2>1, <2>2, StateQueues DEF OnceInv
<1> QED BY <1>4, <1>5 DEF OnceInv

LEMMA OutsideOnce ==
  ASSUME TypeOK, OnceInv, NEW t \in Tasks, Outside(t)
  PROVE  OnceInv'
<1> USE DEF queueVars, nextVars, taskVars
<1>1. CASE HostEnds(t) BY <1>1, HostEndsOnce
<1>2. CASE HostUnpins(t) BY <1>2, PinsOnce DEF HostUnpins, Running
<1>3. CASE HostRings(t) \/ HostDone(t) \/ TimeComes(t)
  <2>1. UNCHANGED <<runnable, own, next, cur, task, timers>> BY <1>3 DEF HostRings, HostDone, TimeComes
  <2> QED BY <2>1, OnceQuiet
<1> QED BY <1>1, <1>2, <1>3 DEF Outside

LEMMA StopsOnce ==
  ASSUME TypeOK, FreeInv, OnceInv, NEW w \in Workers,
         Finish(w) \/ ParkTask(w) \/ ParkHost(w) \/ ParkTime(w)
  PROVE  OnceInv'
<1> USE DEF queueVars, nextVars
<1>1. CASE Finish(w)
  <2>1. Leaves(w, "done") /\ UNCHANGED <<runnable, own, next, timers>> BY <1>1 DEF Finish
  <2> QED BY <2>1, LeavesOnce
<1>2. CASE ParkTask(w)
  <2>1. Leaves(w, "task") /\ UNCHANGED <<runnable, own, next, timers>> BY <1>2 DEF ParkTask
  <2> QED BY <2>1, LeavesOnce
<1>3. CASE ParkHost(w)
  <2>1. Leaves(w, "host") /\ UNCHANGED <<runnable, own, next, timers>> BY <1>3 DEF ParkHost
  <2> QED BY <2>1, LeavesOnce
<1>4. CASE ParkTime(w)
  <2>1. /\ Leaves(w, "time") /\ UNCHANGED <<runnable, own, next>> /\ timers' = timers \cup {cur[w]}
    BY <1>4 DEF ParkTime
  <2> QED BY <2>1, LeavesOnce
<1> QED BY <1>1, <1>2, <1>3, <1>4

LEMMA TaskStepOnce ==
  ASSUME TypeOK, FreeInv, OnceInv, NEW w \in Workers, TaskStep(w), ~EnterC(w), ~LeaveC(w)
  PROVE  OnceInv'
<1> USE DEF queueVars, nextVars
<1>1. CASE Stops(w) BY <1>1, StopsOnce DEF Stops
<1>2. CASE Pin(w)
  <2>0. PICK t : t = cur[w] OBVIOUS
  <2>1. PICK to \in PinnedStates :
          /\ pc[w] = "inC" /\ task' = [task EXCEPT ![t] = to]
          /\ UNCHANGED <<runnable, own, next, cur, timers>>
    BY <1>2, <2>0 DEF Pin
  <2>2. t \in Tasks /\ task[t] \in Running
    <3>1. cur[w] \in Tasks \cup {None} /\ cur[w] # None BY <2>1, Types DEF FreeInv, TaskTypes
    <3> QED BY <2>0, <3>1 DEF OnceInv, StateOnce
  <2>3. to \in Running BY DEF Running
  <2> QED BY <2>1, <2>2, <2>3, PinsOnce
<1>3. ASSUME NEW t \in Tasks, Spawn(w, t) \/ Schedule(w, t) \/ Unpin(w, t) PROVE OnceInv'
  <2>1. CASE Spawn(w, t) BY <2>1, SpawnOnce
  <2>2. CASE Schedule(w, t) BY <2>2, ScheduleOnce
  <2>3. CASE Unpin(w, t) BY <2>3, PinsOnce DEF Unpin, Running
  <2> QED BY <1>3, <2>1, <2>2, <2>3
<1> QED BY <1>1, <1>2, <1>3 DEF TaskStep

LEMMA OnceStep ==
  ASSUME TypeOK, PlaceInv, OnceInv, Next
  PROVE  OnceInv'
<1>0. FreeInv /\ CountInv BY DEF PlaceInv
<1>1. CASE \E t \in Tasks : Outside(t) BY <1>1, OutsideOnce
<1>2. ASSUME NEW w \in Workers, Works(w) \/ TaskStep(w) \/ Monitor(w)
      PROVE  OnceInv'
  <2>1. CASE \/ Wake(w) \/ WakeOne(w) \/ Rings(w) \/ Starts(w) \/ LookQueue(w) \/ GoSteal(w) \/ StealNone(w)
             \/ GoIdle(w) \/ StopSeeking(w) \/ CheckWaiting(w) \/ Sums(w) \/ Sleep(w) \/ WakesUp(w)
             \/ EnterC(w) \/ BackInC(w) \/ LeaveC(w) \/ EndSeeking(w) \/ SeekMore(w) \/ Recheck(w) \/ RecheckEnds(w)
             \/ Monitor(w)
    <3>1. Quiet BY <2>1, QuietSteps
    <3> QED BY <3>1, OnceQuiet DEF Quiet
  <2>2. CASE LookNext(w) BY <2>2, <1>0, LookNextOnce
  <2>3. CASE LookOwn(w)
    <3>1. /\ pc[w] \in FreePcs /\ TakeOwn(w) /\ cur' = [cur EXCEPT ![w] = Head(own[w])]
          /\ task' = [task EXCEPT ![Head(own[w])] = "runs"] /\ UNCHANGED <<runnable, next, timers>>
      BY <2>3 DEF LookOwn, Runs, queueVars
    <3> QED BY <3>1, <1>0, OwnOnce
  <2>4. CASE StealOwn(w)
    <3>1. /\ pc[w] \in FreePcs /\ TakeOwn(w) /\ cur' = [cur EXCEPT ![w] = Head(own[w])]
          /\ UNCHANGED <<runnable, next, timers>>
      BY <2>4 DEF StealOwn, Found, queueVars
    <3>2. task' = [task EXCEPT ![Head(own[w])] = "runs"]
      <4>1. task \in [Tasks -> TaskStates] BY Types DEF TaskTypes
      <4> QED BY <4>1, <2>4 DEF StealOwn, Found
    <3> QED BY <3>1, <3>2, <1>0, OwnOnce
  <2>5. CASE LookTurn(w) BY <2>5, <1>0, LookTurnOnce
  <2>6. CASE Retire(w) BY <2>6, RetireOnce
  <2>7. CASE Pop(w) BY <2>7, <1>0, PopOnce
  <2>8. CASE Steal(w) BY <2>8, <1>0, StealOnce
  <2>9. CASE TakeNext(w) BY <2>9, <1>0, TakeNextOnce
  <2>10. CASE CountOwn(w)
    <3>1. UNCHANGED <<runnable, own, next, cur, task, timers>>
      BY <2>10 DEF CountOwn, queueVars, taskVars
    <3> QED BY <3>1, OnceQuiet
  <2>11. CASE TaskStep(w) /\ ~EnterC(w) /\ ~LeaveC(w) BY <2>11, <1>0, TaskStepOnce
  <2> QED BY <1>2, <2>1, <2>2, <2>3, <2>4, <2>5, <2>6, <2>7, <2>8, <2>9, <2>10, <2>11 DEF Works
<1> QED BY <1>1, <1>2 DEF Next

LEMMA OnceInit == Init => OnceInv
<1> SUFFICES ASSUME Init PROVE OnceInv
  OBVIOUS
<1>1. /\ runnable = <<MainTask>> /\ own = [w \in Workers |-> <<>>] /\ next = [w \in Workers |-> None]
      /\ cur = [w \in Workers |-> None] /\ timers = {} /\ None \notin Tasks
      /\ task = [t \in Tasks |-> IF t = MainTask THEN "ready" ELSE "unborn"]
  BY WorkersAssumption DEF Init
<1>2. /\ ToSet(<<MainTask>>) = {MainTask} /\ Once(<<MainTask>>)
      /\ ToSet(<<>>) = {} /\ Once(<<>>)
  BY DEF ToSet, Once
<1>3. \A t \in Tasks : \A h : Holds(h, t) => h = TheQueue /\ t = MainTask BY <1>1, <1>2 DEF Holds
<1>4. QueueOnce BY <1>1, <1>2, <1>3 DEF QueueOnce, Apart
<1>5. \A t \in Tasks : Queued(t) => task[t] = "ready" BY <1>1, <1>3, QueuedIsHeld
<1> QED BY <1>1, <1>4, <1>5 DEF OnceInv, StateOnce

\* Where a task is, one place after another.
LEMMA PlacesAre ==
  ASSUME NEW t \in Tasks, NEW p
  PROVE  p \in Places(t) <=>
           \/ \E i \in DOMAIN runnable : runnable[i] = t /\ p = <<None, i>>
           \/ \E w \in Workers : \E i \in DOMAIN own[w] : own[w][i] = t /\ p = <<w, i>>
           \/ \E w \in Workers : next[w] = t /\ p = <<w, 0>>
<1> DEFINE Mine == UNION {{w} \X At(own[w], t) : w \in Workers}
           Ahead == {w \in Workers : next[w] = t} \X {0}
<1>1. Places(t) = ({None} \X At(runnable, t)) \cup Mine \cup Ahead BY DEF Places
<1>2. p \in {None} \X At(runnable, t) <=> \E i \in DOMAIN runnable : runnable[i] = t /\ p = <<None, i>>
  BY DEF At
<1>3. p \in Mine <=> \E w \in Workers : \E i \in DOMAIN own[w] : own[w][i] = t /\ p = <<w, i>>
  <2>1. p \in Mine <=> \E w \in Workers : p \in {w} \X At(own[w], t) OBVIOUS
  <2>2. \A w \in Workers : p \in {w} \X At(own[w], t) <=> \E i \in DOMAIN own[w] : own[w][i] = t /\ p = <<w, i>>
    BY DEF At
  <2> QED BY <2>1, <2>2
<1>4. p \in Ahead <=> \E w \in Workers : next[w] = t /\ p = <<w, 0>> OBVIOUS
<1> HIDE DEF Mine, Ahead
<1> QED BY <1>1, <1>2, <1>3, <1>4

LEMMA OnePlace ==
  ASSUME Inv, OnceInv
  PROVE  InOnePlace
<1>0. TypeOK /\ FreeInv /\ ReadyInv /\ RunInv /\ PinInv BY DEF Inv, PlaceInv
<1>t. /\ None \notin Tasks /\ None \notin Workers /\ IsFiniteSet(Workers)
      /\ cur \in [Workers -> Tasks \cup {None}]
  BY <1>0, WorkersAssumption, Types DEF TaskTypes
<1> SUFFICES ASSUME NEW t \in Tasks
             PROVE  /\ Cardinality(Places(t)) = IF task[t] = "ready" THEN 1 ELSE 0
                    /\ Cardinality({w \in Workers : cur[w] = t}) = IF task[t] \in Running THEN 1 ELSE 0
  BY DEF InOnePlace, Running
<1>1. \A s, i : s[i] = t /\ i \in DOMAIN s => t \in ToSet(s) BY DEF ToSet
<1>2. ASSUME task[t] # "ready" PROVE Cardinality(Places(t)) = 0
  <2>1. ~Queued(t) BY <1>2 DEF OnceInv, StateOnce
  <2>2. \A p : p \notin Places(t) BY <2>1, <1>1, PlacesAre DEF Queued
  <2>3. Places(t) = {} BY <2>2
  <2> QED BY <2>3, FS_EmptySet
<1>3. ASSUME task[t] = "ready" PROVE Cardinality(Places(t)) = 1
  <2>1. Queued(t) BY <1>0, <1>3 DEF ReadyInv
  <2>2. /\ Apart(t)
        /\ \A i, j \in DOMAIN runnable : runnable[i] = runnable[j] => i = j
        /\ \A w \in Workers : \A i, j \in DOMAIN own[w] : own[w][i] = own[w][j] => i = j
    <3>1. Apart(t) /\ Once(runnable) /\ \A w \in Workers : Once(own[w]) BY DEF OnceInv, QueueOnce
    <3>2. DOMAIN runnable = 1..Len(runnable) /\ \A w \in Workers : DOMAIN own[w] = 1..Len(own[w])
      <4>1. runnable \in Seq(Tasks) /\ \A w \in Workers : own[w] \in Seq(Tasks)
        BY <1>0, Types DEF QueueTypes, NextTypes
      <4> QED BY <4>1, LenProperties
    <3> QED BY <3>1, <3>2 DEF Once
  <2>3. PICK p : p \in Places(t)
    <3>1. CASE t \in ToSet(runnable)
      <4>1. PICK i \in DOMAIN runnable : runnable[i] = t BY <3>1 DEF ToSet
      <4> QED BY <4>1, PlacesAre
    <3>2. ASSUME NEW w \in Workers, t \in ToSet(own[w]) PROVE \E p : p \in Places(t)
      <4>1. PICK i \in DOMAIN own[w] : own[w][i] = t BY <3>2 DEF ToSet
      <4>2. <<w, i>> \in Places(t) BY <4>1, PlacesAre
      <4> QED BY <4>2
    <3>3. ASSUME NEW w \in Workers, next[w] = t PROVE \E p : p \in Places(t)
      <4>1. <<w, 0>> \in Places(t) BY <3>3, PlacesAre
      <4> QED BY <4>1
    <3> QED BY <2>1, <3>1, <3>2, <3>3 DEF Queued
  <2>4. ASSUME NEW q \in Places(t), NEW r \in Places(t) PROVE q = r
    <3>a. /\ t \in ToSet(runnable) => \A w \in Workers : t \notin ToSet(own[w]) /\ next[w] # t
          /\ \A w \in Workers : t \in ToSet(own[w]) =>
               \A v \in Workers : (t \in ToSet(own[v]) => v = w) /\ next[v] # t
          /\ \A w, v \in Workers : next[w] = t /\ next[v] = t => v = w
      BY <2>2, ApartIs
    <3>1. CASE \E i \in DOMAIN runnable : runnable[i] = t /\ q = <<None, i>>
      <4>1. PICK i \in DOMAIN runnable : runnable[i] = t /\ q = <<None, i>> BY <3>1
      <4>2. t \in ToSet(runnable) BY <4>1, <1>1
      <4>3. PICK j \in DOMAIN runnable : runnable[j] = t /\ r = <<None, j>>
        BY <4>2, <3>a, <1>1, PlacesAre
      <4> QED BY <4>1, <4>3, <2>2
    <3>2. CASE \E w \in Workers : \E i \in DOMAIN own[w] : own[w][i] = t /\ q = <<w, i>>
      <4>1. PICK w \in Workers : \E i \in DOMAIN own[w] : own[w][i] = t /\ q = <<w, i>> BY <3>2
      <4>2. t \in ToSet(own[w]) BY <4>1, <1>1
      <4>3. PICK v \in Workers : \E j \in DOMAIN own[v] : own[v][j] = t /\ r = <<v, j>>
        BY <4>2, <3>a, <1>1, PlacesAre
      <4>4. v = w BY <4>2, <4>3, <3>a, <1>1
      <4> QED BY <4>1, <4>3, <4>4, <2>2
    <3>3. CASE \E w \in Workers : next[w] = t /\ q = <<w, 0>>
      <4>1. PICK w \in Workers : next[w] = t /\ q = <<w, 0>> BY <3>3
      <4>2. PICK v \in Workers : next[v] = t /\ r = <<v, 0>> BY <4>1, <3>a, <1>1, PlacesAre
      <4> QED BY <4>1, <4>2, <3>a
    <3> QED BY <3>1, <3>2, <3>3, PlacesAre
  <2>5. Places(t) = {p} BY <2>3, <2>4
  <2> QED BY <2>5, FS_Singleton
<1>4. Cardinality(Places(t)) = IF task[t] = "ready" THEN 1 ELSE 0 BY <1>2, <1>3
<1> DEFINE On == {w \in Workers : cur[w] = t}
<1>5. CASE task[t] \in Running
  <2>1. PICK w \in Workers : cur[w] = t BY <1>0, <1>5 DEF RunInv, PinInv, Running
  <2>2. On = {w} BY <2>1, <1>t DEF OnceInv, StateOnce
  <2> QED BY <1>4, <1>5, <2>2, FS_Singleton
<1>6. CASE task[t] \notin Running
  <2>1. On = {} BY <1>6, <1>t DEF OnceInv, StateOnce
  <2> QED BY <1>4, <1>6, <2>1, FS_EmptySet
<1> QED BY <1>5, <1>6

\* No task is lost or run twice, however many workers steal, take and leave tasks: what
\* is runnable is in one queue, once, and what runs has one worker.
THEOREM TasksAreQueuedOnce == Spec => []InOnePlace
<1> DEFINE Kept == Inv /\ OnceInv
<1>1. Init => Kept BY InitInv, OnceInit
<1>2. Kept /\ [Next]_vars => Kept'
  <2> SUFFICES ASSUME Kept, [Next]_vars PROVE Kept'
    OBVIOUS
  <2>1. Inv' BY InvStep
  <2>2. CASE Next BY <2>1, <2>2, OnceStep DEF Inv
  <2>3. CASE UNCHANGED vars
    <3>1. UNCHANGED <<runnable, own, next, cur, task, timers>>
      BY <2>3 DEF vars, queueVars, nextVars, taskVars
    <3> QED BY <2>1, <3>1, OnceQuiet
  <2> QED BY <2>2, <2>3
<1>3. Kept => InOnePlace BY OnePlace
<1> QED BY <1>1, <1>2, <1>3, PTL DEF Spec
=============================================================================
