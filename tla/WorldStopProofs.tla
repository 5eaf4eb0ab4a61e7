-------------------------- MODULE WorldStopProofs --------------------------
(***************************************************************************)
(* Theorems about WorldStop, for any threads, stoppers and number of stops: *)
(* while the world is stopped no thread runs Tondo code, and nobody undoes *)
(* the stop of another.                                                    *)
(***************************************************************************)
EXTENDS WorldStop, FiniteSetTheorems, TLAPS

\* A thread in Tondo code says that it runs, before it looks at STOPPING.
RunsInv == \A t \in Threads : pc[t] \in InTondo \cup {"check"} => running[t]

\* IN_TONDO has every thread that ever came near Tondo code.
RegisteredInv == \A t \in Threads : pc[t] \notin {"new", "gone"} => t \in registered

\* STOPPER belongs to one actor.
HoldsInv ==
  /\ \A a \in Actors : stop[a] \in Holds => STOPPER
  /\ \A a, b \in Actors : stop[a] \in Holds /\ stop[b] \in Holds => a = b

\* STOPPING stays set while the stop goes on.
SetsInv == \A a \in Actors : stop[a] \in Sets => STOPPING

\* What the stopper looked at, or did not have to, is out of Tondo code.
LookInv ==
  \A a \in Actors :
    /\ stop[a] \in {"look", "stopped"} =>
         /\ left[a] \subseteq list[a]
         /\ \A t \in Threads \ left[a] : pc[t] \notin InTondo
    /\ stop[a] = "stopped" => left[a] = {}

Inv == TypeOK /\ RunsInv /\ RegisteredInv /\ HoldsInv /\ SetsInv /\ LookInv

\* STOPPING is set by the stop that goes on.
SettingInv == STOPPING => \E a \in Actors : stop[a] \in Sets

\* ATTENTION is one while a stop goes on that counted itself.
CountInv ==
  ~Torn => attention = IF \E a \in Actors : stop[a] \in Counts THEN 1 ELSE 0

-----------------------------------------------------------------------------
USE DEF InTondo, ThreadPcs, StopPcs, Holds, Sets, Counts

LEMMA InitInv == Init => Inv
<1> SUFFICES ASSUME Init PROVE Inv
  OBVIOUS
<1> USE DEF Init
<1>1. TypeOK
  <2>1. list \in [Actors -> SUBSET Threads] /\ left \in [Actors -> SUBSET Threads] OBVIOUS
  <2>2. stops \in 0 .. MaxStops BY WorldStopAssumption
  <2>3. pc \in [Threads -> ThreadPcs] /\ stop \in [Actors -> StopPcs] OBVIOUS
  <2>4. running \in [Threads -> BOOLEAN] OBVIOUS
  <2>7. \A t \in Threads : running[t] => t \in registered OBVIOUS
  <2>5. STOPPING \in BOOLEAN /\ STOPPER \in BOOLEAN /\ registered \subseteq Threads OBVIOUS
  <2>6. attention \in Int OBVIOUS
  <2> HIDE DEF Init
  <2> QED BY <2>1, <2>2, <2>3, <2>4, <2>5, <2>6, <2>7 DEF TypeOK
<1>2. RunsInv /\ RegisteredInv BY DEF RunsInv, RegisteredInv
<1>3. HoldsInv /\ SetsInv /\ LookInv BY DEF HoldsInv, SetsInv, LookInv
<1> QED BY <1>1, <1>2, <1>3 DEF Inv

\* A step of a thread changes nothing of a stop; it comes into Tondo code
\* only from a look at STOPPING that found it unset.
LEMMA ThreadKeeps ==
  ASSUME Inv, TypeOK', NEW t \in Threads,
         UNCHANGED <<STOPPING, STOPPER, stop, list, left>>,
         \A u \in Threads \ {t} : pc'[u] = pc[u] /\ running'[u] = running[u],
         registered' = registered \/ registered' = registered \cup {t},
         pc'[t] \in InTondo => pc[t] \in InTondo \/ ~STOPPING,
         pc'[t] \in InTondo \cup {"check"} => running'[t],
         pc'[t] \notin {"new", "gone"} => t \in registered'
  PROVE  Inv'
<1>1. RunsInv' BY DEF Inv, RunsInv
<1>2. RegisteredInv' BY DEF Inv, RegisteredInv
<1>3. HoldsInv' BY DEF Inv, HoldsInv
<1>4. SetsInv' BY DEF Inv, SetsInv
<1>5. LookInv' 
  <2> SUFFICES ASSUME NEW a \in Actors, stop[a] \in {"look", "stopped"}
               PROVE  /\ left[a] \subseteq list[a]
                      /\ \A u \in Threads \ left[a] : pc'[u] \notin InTondo
                      /\ stop[a] = "stopped" => left[a] = {}
    BY DEF LookInv
  <2>1. STOPPING BY DEF Inv, SetsInv
  <2> QED BY <2>1 DEF Inv, LookInv
<1> QED BY <1>1, <1>2, <1>3, <1>4, <1>5 DEF Inv

LEMMA ThreadInv ==
  ASSUME Inv, NEW t \in Threads, ThreadStep(t) \/ ThreadChooses(t) PROVE Inv'
<1> USE DEF Goes, Runs, stopVars
<1>0. /\ pc \in [Threads -> ThreadPcs] /\ running \in [Threads -> BOOLEAN]
      /\ pc[t] \in InTondo \cup {"check"} => running[t]
      /\ pc[t] \notin {"new", "gone"} => t \in registered
  BY DEF Inv, TypeOK, RunsInv, RegisteredInv
<1>1. CASE Register(t)
  <2>1. TypeOK' BY <1>0, <1>1 DEF Inv, TypeOK, Register
  <2> QED BY <1>0, <1>1, <2>1, ThreadKeeps DEF Register
<1>2. CASE Enter(t)
  <2>1. TypeOK' BY <1>0, <1>2 DEF Inv, TypeOK, Enter
  <2> QED BY <1>0, <1>2, <2>1, ThreadKeeps DEF Enter
<1>3. CASE EnterStores(t)
  <2>1. TypeOK' BY <1>0, <1>3 DEF Inv, TypeOK, EnterStores
  <2> QED BY <1>0, <1>3, <2>1, ThreadKeeps DEF EnterStores
<1>4. CASE EnterChecks(t)
  <2>1. TypeOK' BY <1>0, <1>4 DEF Inv, TypeOK, EnterChecks
  <2> QED BY <1>0, <1>4, <2>1, ThreadKeeps DEF EnterChecks
<1>5. CASE EnterBacks(t)
  <2>1. TypeOK' BY <1>0, <1>5 DEF Inv, TypeOK, EnterBacks
  <2> QED BY <1>0, <1>5, <2>1, ThreadKeeps DEF EnterBacks
<1>6. CASE EnterWaits(t)
  <2>1. TypeOK' BY <1>0, <1>6 DEF Inv, TypeOK, EnterWaits
  <2> QED BY <1>0, <1>6, <2>1, ThreadKeeps DEF EnterWaits
<1>7. CASE WakesSpuriously(t)
  <2>1. TypeOK' BY <1>0, <1>7 DEF Inv, TypeOK, WakesSpuriously
  <2> QED BY <1>0, <1>7, <2>1, ThreadKeeps DEF WakesSpuriously
<1>8. CASE Call(t)
  <2>1. TypeOK' BY <1>0, <1>8 DEF Inv, TypeOK, Call
  <2> QED BY <1>0, <1>8, <2>1, ThreadKeeps DEF Call
<1>9. CASE SafePoint(t)
  <2>1. TypeOK' BY <1>0, <1>9 DEF Inv, TypeOK, SafePoint
  <2> QED BY <1>0, <1>9, <2>1, ThreadKeeps DEF SafePoint
<1>10. CASE Leave(t)
  <2>1. TypeOK' BY <1>0, <1>10 DEF Inv, TypeOK, Leave
  <2> QED BY <1>0, <1>10, <2>1, ThreadKeeps DEF Leave
<1>11. CASE Pause(t)
  <2>1. TypeOK' BY <1>0, <1>11 DEF Inv, TypeOK, Pause
  <2> QED BY <1>0, <1>11, <2>1, ThreadKeeps DEF Pause
<1>12. CASE Fork(t)
  <2> USE <1>12 DEF Fork
  <2>1. TypeOK'
    <3>1. attention' \in Int BY DEF Inv, TypeOK
    <3>2. pc' \in [Threads -> ThreadPcs] /\ stop' \in [Actors -> StopPcs] OBVIOUS
    <3> QED BY <3>1, <3>2 DEF Inv, TypeOK
  <2>2. RunsInv' BY <1>0 DEF RunsInv
  <2>3. RegisteredInv' BY <1>0 DEF RegisteredInv
  <2>4. HoldsInv' /\ SetsInv' /\ LookInv' BY DEF HoldsInv, SetsInv, LookInv
  <2> QED BY <2>1, <2>2, <2>3, <2>4 DEF Inv
<1> QED
  BY <1>1, <1>2, <1>3, <1>4, <1>5, <1>6, <1>7, <1>8, <1>9, <1>10, <1>11, <1>12
     DEF ThreadStep, ThreadChooses

\* A step of a stop that leaves the threads as they are: what is left to
\* prove is about the stop.
LEMMA StopKeeps ==
  ASSUME Inv, TypeOK', UNCHANGED threadVars, HoldsInv', SetsInv', LookInv'
  PROVE  Inv'
  BY DEF Inv, RunsInv, RegisteredInv, threadVars

LEMMA StopInv == ASSUME Inv, NEW a \in Actors, StopStarts(a) \/ StopStep(a) PROVE Inv'
<1> USE DEF StopGoes
<1>0. stop \in [Actors -> StopPcs] /\ left \in [Actors -> SUBSET Threads]
      /\ list \in [Actors -> SUBSET Threads]
  BY DEF Inv, TypeOK
<1>t. /\ pc \in [Threads -> ThreadPcs] /\ running \in [Threads -> BOOLEAN]
      /\ registered \subseteq Threads
  BY DEF Inv, TypeOK
<1>i. HoldsInv /\ SetsInv /\ LookInv /\ RunsInv /\ RegisteredInv BY DEF Inv
\* A step that keeps who holds STOPPER, and the flags.
<1>k. ASSUME UNCHANGED <<STOPPING, STOPPER, list, left>>, UNCHANGED threadVars, TypeOK',
             NEW from \in StopPcs, NEW to \in StopPcs, StopGoes(a, from, to),
             to \in Holds => from \in Holds,
             to \in Sets => from \in Sets,
             to \in {"look", "stopped"} =>
               from = "look" /\ (to = "stopped" => left[a] = {})
      PROVE  Inv'
  <2>1. \A b \in Actors : stop'[b] = IF b = a THEN to ELSE stop[b] BY <1>0, <1>k
  <2>2. HoldsInv' BY <1>i, <1>k, <2>1 DEF HoldsInv
  <2>3. SetsInv' BY <1>i, <1>k, <2>1 DEF SetsInv
  <2>4. LookInv' BY <1>i, <1>k, <2>1 DEF LookInv, threadVars
  <2> QED BY <1>k, <2>2, <2>3, <2>4, StopKeeps
<1>1. CASE StopStarts(a)
  <2>1. TypeOK' BY <1>1, WorldStopAssumption DEF Inv, TypeOK, StopStarts, threadVars
  <2> QED BY <1>1, <1>k, <2>1 DEF StopStarts
<1>2. CASE StopSwaps(a)
  <2> USE <1>2 DEF StopSwaps
  <2>1. TypeOK' BY DEF Inv, TypeOK, threadVars
  <2>2. \A b \in Actors : stop'[b] = IF b = a THEN "set" ELSE stop[b] BY <1>0
  <2>3. HoldsInv' /\ SetsInv' BY <1>i, <2>2 DEF HoldsInv, SetsInv
  <2>4. LookInv' BY <1>i, <2>2 DEF LookInv, threadVars
  <2> QED BY <2>1, <2>3, <2>4, StopKeeps
<1>3. CASE StopGivesUp(a)
  <2>1. TypeOK' BY <1>3 DEF Inv, TypeOK, StopGivesUp, threadVars
  <2> QED BY <1>3, <1>k, <2>1 DEF StopGivesUp
<1>4. CASE StopSets(a)
  <2> USE <1>4 DEF StopSets
  <2>1. TypeOK' BY DEF Inv, TypeOK, threadVars
  <2>2. \A b \in Actors : stop'[b] = IF b = a THEN "count" ELSE stop[b] BY <1>0
  <2>3. HoldsInv' /\ SetsInv' BY <1>i, <2>2 DEF HoldsInv, SetsInv
  <2>4. LookInv' BY <1>i, <2>2 DEF LookInv, threadVars
  <2> QED BY <2>1, <2>3, <2>4, StopKeeps
<1>5. CASE StopCounts(a)
  <2>1. TypeOK' BY <1>5 DEF Inv, TypeOK, StopCounts, threadVars
  <2> QED BY <1>5, <1>k, <2>1 DEF StopCounts
<1>6. CASE StopLists(a)
  <2> USE <1>6 DEF StopLists
  <2>1. TypeOK' BY <1>0, <1>t DEF Inv, TypeOK, threadVars
  <2>2. \A b \in Actors : stop'[b] = IF b = a THEN "look" ELSE stop[b] BY <1>0
  <2>3. HoldsInv' /\ SetsInv' BY <1>i, <2>2 DEF HoldsInv, SetsInv
  <2>4. ASSUME NEW b \in Actors PROVE
          /\ list'[b] = IF b = a THEN registered ELSE list[b]
          /\ left'[b] = IF b = a THEN registered ELSE left[b]
    BY <1>0
  <2>5. \A t \in Threads \ registered : pc[t] \notin InTondo BY <1>i DEF RegisteredInv
  <2>6. LookInv' BY <1>i, <2>2, <2>4, <2>5 DEF LookInv, threadVars
  <2> QED BY <2>1, <2>3, <2>6, StopKeeps
<1>7. CASE StopLooks(a)
  <2> USE <1>7 DEF StopLooks
  <2>0. PICK t \in left[a] :
          left' = [left EXCEPT ![a] = IF running[t] THEN list[a] ELSE left[a] \ {t}]
    OBVIOUS
  <2>1. TypeOK'
    <3>1. left' \in [Actors -> SUBSET Threads] BY <1>0, <2>0
    <3> QED BY <3>1 DEF Inv, TypeOK, threadVars
  <2>2. \A b \in Actors : left'[b] = IF b # a THEN left[b]
                                     ELSE IF running[t] THEN list[a] ELSE left[a] \ {t}
    BY <1>0, <2>0
  <2>3. HoldsInv' /\ SetsInv' BY <1>i DEF HoldsInv, SetsInv
  <2>4. t \in Threads /\ (~running[t] => pc[t] \notin InTondo)
    BY <1>0, <1>i, <2>0 DEF RunsInv
  <2>5. LookInv' BY <1>i, <2>2, <2>4 DEF LookInv, threadVars
  <2> QED BY <2>1, <2>3, <2>5, StopKeeps
<1>8. CASE StopIsDone(a)
  <2>1. TypeOK' BY <1>8 DEF Inv, TypeOK, StopIsDone, threadVars
  <2> QED BY <1>8, <1>k, <2>1 DEF StopIsDone
<1>9. CASE StopTimesOut(a)
  <2>1. TypeOK' BY <1>9 DEF Inv, TypeOK, StopTimesOut, threadVars
  <2> QED BY <1>9, <1>k, <2>1 DEF StopTimesOut
<1>10. CASE StopEnds(a)
  <2>1. TypeOK' BY <1>10 DEF Inv, TypeOK, StopEnds, threadVars
  <2> QED BY <1>10, <1>k, <2>1 DEF StopEnds
<1>11. CASE ResumeUnsets(a)
  <2> USE <1>11 DEF ResumeUnsets
  <2>1. TypeOK' BY DEF Inv, TypeOK, threadVars
  <2>2. \A b \in Actors : stop'[b] = IF b = a THEN "less" ELSE stop[b] BY <1>0
  <2>3. HoldsInv' /\ SetsInv' BY <1>i, <2>2 DEF HoldsInv, SetsInv
  <2>4. LookInv' BY <1>i, <2>2 DEF LookInv, threadVars
  <2> QED BY <2>1, <2>3, <2>4, StopKeeps
<1>12. CASE ResumeLess(a)
  <2>1. TypeOK' BY <1>12 DEF Inv, TypeOK, ResumeLess, threadVars
  <2> QED BY <1>12, <1>k, <2>1 DEF ResumeLess
<1>13. CASE ResumeWakes(a)
  <2> USE <1>13 DEF ResumeWakes
  <2>1. TypeOK' BY <1>t DEF Inv, TypeOK, threadVars
  <2>2. \A b \in Actors : stop'[b] = IF b = a THEN "free" ELSE stop[b] BY <1>0
  <2>3. HoldsInv' /\ SetsInv' BY <1>i, <2>2 DEF HoldsInv, SetsInv
  <2>4. \A t \in Threads : pc'[t] = IF pc[t] = "sleep" THEN "lock" ELSE pc[t] OBVIOUS
  <2>5. LookInv' BY <1>i, <2>2, <2>4 DEF LookInv
  <2>6. RunsInv' /\ RegisteredInv' BY <1>i, <2>4 DEF RunsInv, RegisteredInv
  <2> QED BY <2>1, <2>3, <2>5, <2>6 DEF Inv
<1>14. CASE ResumeFrees(a)
  <2> USE <1>14 DEF ResumeFrees
  <2>1. TypeOK' BY DEF Inv, TypeOK, threadVars
  <2>2. \A b \in Actors : stop'[b] = IF b = a THEN "none" ELSE stop[b] BY <1>0
  <2>3. HoldsInv' /\ SetsInv' BY <1>i, <2>2 DEF HoldsInv, SetsInv
  <2>4. LookInv' BY <1>i, <2>2 DEF LookInv, threadVars
  <2> QED BY <2>1, <2>3, <2>4, StopKeeps
<1> QED
  BY <1>1, <1>2, <1>3, <1>4, <1>5, <1>6, <1>7, <1>8, <1>9, <1>10, <1>11, <1>12, <1>13, <1>14
     DEF StopStep

THEOREM Invariance == Spec => []Inv
<1>1. Init => Inv BY InitInv
<1>2. Inv /\ [Next]_vars => Inv'
  <2> SUFFICES ASSUME Inv, [Next]_vars PROVE Inv'
    OBVIOUS
  <2>1. CASE UNCHANGED vars
    BY <2>1 DEF vars, threadVars, stopVars, Inv, TypeOK, RunsInv, RegisteredInv, HoldsInv,
                SetsInv, LookInv
  <2> QED BY <2>1, ThreadInv, StopInv DEF Next
<1> QED BY <1>1, <1>2, PTL DEF Spec

\* Every variable keeps its type.
THEOREM TypesHold == Spec => []TypeOK
<1>1. Inv => TypeOK BY DEF Inv
<1> QED BY <1>1, Invariance, PTL

\* While the world is stopped no thread runs Tondo code: the store of
\* `running` before the look at STOPPING in `enter_tondo`, and the store of
\* STOPPING before the copy of IN_TONDO in `stop_world`, leave no gap.
THEOREM WorldStands == Spec => []Stopped
<1>1. Inv => Stopped BY DEF Inv, LookInv, Stopped
<1> QED BY <1>1, Invariance, PTL

\* Nobody undoes the stop of another, whatever times out.
THEOREM StopsStand == Spec => []StopStands
<1>1. Inv => StopStands BY DEF Inv, HoldsInv, SetsInv, StopStands
<1> QED BY <1>1, Invariance, PTL

\* Who sets STOPPING goes on with its stop until it unsets it, or a fork does.
LEMMA SettingStep == Inv /\ SettingInv /\ [Next]_vars => SettingInv'
<1> SUFFICES ASSUME Inv, SettingInv, [Next]_vars PROVE SettingInv'
  OBVIOUS
<1>0. stop \in [Actors -> StopPcs] BY DEF Inv, TypeOK
<1>1. CASE UNCHANGED vars BY <1>1 DEF SettingInv, vars, stopVars
<1>2. ASSUME NEW t \in Threads, ThreadStep(t) \/ ThreadChooses(t) PROVE SettingInv'
  <2>1. STOPPING' = FALSE \/ UNCHANGED <<STOPPING, stop>>
    BY <1>2
       DEF ThreadStep, ThreadChooses, stopVars, Register, Enter, EnterStores, EnterChecks,
           EnterBacks, EnterWaits, WakesSpuriously, Call, SafePoint, Leave, Pause, Fork
  <2> QED BY <2>1 DEF SettingInv
<1>3. ASSUME NEW a \in Actors, StopStarts(a) \/ StopStep(a) PROVE SettingInv'
  <2>1. CASE ResumeUnsets(a) BY <2>1 DEF ResumeUnsets, SettingInv
  <2>2. CASE StopLooks(a) BY <2>2 DEF StopLooks, SettingInv
  <2>3. ASSUME NEW from \in StopPcs, NEW to \in StopPcs, StopGoes(a, from, to),
               from \in Sets => to \in Sets, STOPPING' => STOPPING \/ to \in Sets
        PROVE  SettingInv'
    <3>1. stop[a] = from /\ \A b \in Actors : stop'[b] = IF b = a THEN to ELSE stop[b]
      BY <1>0, <2>3 DEF StopGoes
    <3> QED BY <2>3, <3>1 DEF SettingInv
  <2> QED
    BY <1>3, <2>1, <2>2, <2>3
       DEF StopStarts, StopStep, StopSwaps, StopGivesUp, StopSets, StopCounts, StopLists,
           StopIsDone, StopTimesOut, StopEnds, ResumeLess, ResumeWakes, ResumeFrees
<1> QED BY <1>1, <1>2, <1>3 DEF Next

\* Whatever leaves ATTENTION alone leaves the stops that count in it.
LEMMA CountStep == Inv /\ SettingInv /\ CountInv /\ [Next]_vars => CountInv'
<1> SUFFICES ASSUME Inv, SettingInv, CountInv, [Next]_vars, ~Torn PROVE CountInv'
  BY DEF CountInv
<1> USE DEF StopGoes
<1>0. stop \in [Actors -> StopPcs] /\ attention \in Int BY DEF Inv, TypeOK
<1>k. ASSUME attention' = attention, \A a \in Actors : stop'[a] \in Counts <=> stop[a] \in Counts
      PROVE  CountInv'
  BY <1>k DEF CountInv
<1>1. CASE UNCHANGED vars BY <1>1, <1>k DEF vars, stopVars
<1>2. ASSUME NEW t \in Threads, ThreadStep(t) \/ ThreadChooses(t) PROVE CountInv'
  <2>1. CASE Fork(t)
    <3>1. STOPPING <=> \E a \in Actors : stop[a] \in Counts
      <4>1. \A a \in Actors : stop[a] # "less" /\ stop[a] # "count" BY <2>1 DEF Fork
      <4> QED BY <4>1 DEF Inv, SettingInv, SetsInv
    <3>2. attention = IF STOPPING THEN 1 ELSE 0 BY <3>1 DEF CountInv
    <3>3. attention' = 0 BY <2>1, <3>2 DEF Fork
    <3>4. \A a \in Actors : stop'[a] = "none" BY <2>1 DEF Fork
    <3> QED BY <3>3, <3>4 DEF CountInv
  <2>2. CASE UNCHANGED <<stop, attention>> BY <1>k, <2>2
  <2> QED
    BY <1>2, <2>1, <2>2
       DEF ThreadStep, ThreadChooses, stopVars, Register, Enter, EnterStores, EnterChecks,
           EnterBacks, EnterWaits, WakesSpuriously, Call, SafePoint, Leave, Pause
<1>3. ASSUME NEW a \in Actors, StopStarts(a) \/ StopStep(a) PROVE CountInv'
  <2>1. CASE StopCounts(a)
    <3>1. \A b \in Actors : stop[b] \notin Counts BY <2>1 DEF StopCounts, Inv, HoldsInv
    <3>2. attention = 0 BY <3>1 DEF CountInv
    <3>3. attention' = 1 /\ stop'[a] = "list" BY <1>0, <2>1, <3>2 DEF StopCounts
    <3> QED BY <3>3 DEF CountInv
  <2>2. CASE ResumeLess(a)
    <3>1. attention = 1 BY <2>2 DEF ResumeLess, CountInv
    <3>2. attention' = 0 BY <2>2, <3>1 DEF ResumeLess
    <3>3. \A b \in Actors \ {a} : stop[b] \notin Counts
      BY <2>2 DEF ResumeLess, Inv, HoldsInv
    <3>4. \A b \in Actors : stop'[b] = IF b = a THEN "wake" ELSE stop[b]
      BY <1>0, <2>2 DEF ResumeLess
    <3> QED BY <3>2, <3>3, <3>4 DEF CountInv
  <2>3. CASE StopLooks(a) BY <1>k, <2>3 DEF StopLooks
  <2>4. ASSUME NEW from \in StopPcs, NEW to \in StopPcs, StopGoes(a, from, to),
               from \in Counts <=> to \in Counts, attention' = attention
        PROVE  CountInv'
    <3>1. \A b \in Actors : stop'[b] = IF b = a THEN to ELSE stop[b] BY <1>0, <2>4
    <3> QED BY <1>k, <2>4, <3>1
  <2> HIDE DEF StopGoes
  <2> QED
    BY <1>3, <2>1, <2>2, <2>3, <2>4
       DEF StopStarts, StopStep, StopSwaps, StopGivesUp, StopSets, StopLists, StopIsDone,
           StopTimesOut, StopEnds, ResumeUnsets, ResumeWakes, ResumeFrees
<1> QED BY <1>1, <1>2, <1>3 DEF Next

\* ATTENTION counts the stop that goes on and nothing of one that ended, also
\* when a stop gives up and when `fork_copy` ends one, unless the fork came
\* between the two stores of `stop_world` or of `resume_world`.
THEOREM StopsAreCounted == ASSUME ~Torn PROVE Spec => []AttentionCounted
<1>1. Init => CountInv BY DEF Init, CountInv
<1>s. Init => SettingInv BY DEF Init, SettingInv
<1>2. Spec => []CountInv BY <1>1, <1>s, SettingStep, CountStep, Invariance, PTL DEF Spec
<1>3. Inv /\ CountInv => AttentionCounted
  <2> SUFFICES ASSUME Inv, CountInv PROVE AttentionCounted
    OBVIOUS
  <2> DEFINE Who == {a \in Actors : stop[a] \in Counts}
  <2>1. CASE Who = {}
    <3>1. attention = 0 BY <2>1 DEF CountInv
    <3> QED BY <2>1, <3>1, FS_EmptySet DEF AttentionCounted
  <2>2. ASSUME NEW a \in Who PROVE AttentionCounted
    <3>1. Who = {a} BY <2>2 DEF Inv, HoldsInv
    <3>2. attention = 1 BY <2>2 DEF CountInv
    <3> QED BY <3>1, <3>2, FS_Singleton DEF AttentionCounted
  <2> QED BY <2>1, <2>2
<1> QED BY <1>2, <1>3, Invariance, PTL

=============================================================================
