--------------------------- MODULE TaskWaitProofs ---------------------------
(***************************************************************************)
(* Theorems about TaskWait, for any tasks, agents and number of waits.     *)
(*                                                                         *)
(* Inv: each wait is claimed once and its task notified once, so a wake is *)
(* neither lost nor left over, and whoever notifies a task finds it in its *)
(* wait.  AliveInv: whoever stops a task holds what the task takes before  *)
(* it ends.  HaltReachesWait is inductive with Inv.  CountInv: what a      *)
(* thread counted and has not said, or said and has not counted.           *)
(* UndoneInv: every wait that ended undone did for a reason of its task.   *)
(***************************************************************************)
EXTENDS TaskWait, FiniteSetTheorems, TLAPS

\* The newest wait was claimed.
Claimed(t) == wait[t] \in Waits /\ fired[t][wait[t]] # "NONE"

\* The claimer of the newest wait notified the task, which has not spent the
\* notification yet.
Notified(t) ==
  \/ state[t] = "NOTIFIED"
  \/ pc[t] \in {"parked", "pinned", "woken"} /\ state[t] = "RUNNING"

Wakes(t) == \E a \in Agents : does[a] = "notify" /\ on[a] = t

\* The state a task is in at each place of its code.
StateInv(t) ==
  CASE pc[t] \in {"begun", "timed", "park"} -> state[t] \in {"RUNNING", "NOTIFIED"}
    [] pc[t] = "switched" -> state[t] \in {"PARKING", "NOTIFIED"}
    [] pc[t] = "parked" -> state[t] \in {"PARKED", "RUNNING"}
    [] pc[t] = "pinned" -> state[t] \in {"PINNED", "RUNNING"}
    [] pc[t] \in {"unnotify", "requeue", "yield", "reyield"} -> state[t] = "NOTIFIED"
    [] OTHER -> state[t] = "RUNNING"

\* Every wait that ended was claimed, and none that is not made yet.
ClaimInv(t) ==
  /\ pc[t] \in WaitPcs => wait[t] \in Waits
  /\ \A n \in Waits : n < wait[t] => fired[t][n] # "NONE"
  /\ \A n \in Waits : n > wait[t] => fired[t][n] = "NONE"
  /\ pc[t] \notin WaitPcs /\ wait[t] \in Waits => fired[t][wait[t]] # "NONE"

\* In a wait: claimed and about to be notified, or claimed and notified, or
\* not claimed.
TokenInv(t) ==
  pc[t] \in WaitPcs =>
    /\ Notified(t) => Claimed(t)
    /\ Claimed(t) => Notified(t) \/ Wakes(t)

\* Who can still reach the wait.
ReachInv(t) ==
  /\ waiting[t] # 0 => waiting[t] = wait[t] /\ pc[t] \in WaitPcs \ {"begun", "timed"}
  /\ listed[t] => wait[t] \in Waits /\ (pc[t] \in WaitPcs \/ pc[t] = "leave")

\* One place: a queue's entry belongs to a task that is to run.
QueueInv(t) ==
  /\ queued[t] \in {0, 1}
  /\ pc[t] = "ready" => queued[t] = 1
  /\ queued[t] = 1 => pc[t] = "ready" \/ (pc[t] = "parked" /\ state[t] = "RUNNING")
  /\ pc[t] = "parked" /\ state[t] = "RUNNING" /\ queued[t] = 0 =>
       \E a \in Agents : does[a] = "schedule" /\ on[a] = t

\* An agent that claimed a wait finds its task there, not notified.
AgentInv(a) ==
  /\ does[a] = "notify" =>
       /\ pc[on[a]] \in WaitPcs
       /\ Claimed(on[a])
       /\ ~Notified(on[a])
  /\ does[a] = "schedule" =>
       /\ pc[on[a]] = "parked"
       /\ Claimed(on[a])
       /\ state[on[a]] = "RUNNING"
       /\ queued[on[a]] = 0

\* One agent at a time ends the wait of a task.
OneEnds ==
  \A a, b \in Agents :
    does[a] \in {"notify", "schedule"} /\ does[b] \in {"notify", "schedule"} /\ on[a] = on[b]
      => a = b

TimersInv == \A t \in Tasks, n \in Waits, index \in {"op", "DEADLINE"} :
               <<t, n, index>> \in timers => n <= wait[t]

TaskInv(t) == StateInv(t) /\ ClaimInv(t) /\ TokenInv(t) /\ ReachInv(t) /\ QueueInv(t)

Inv ==
  /\ TypeOK
  /\ \A t \in Tasks : TaskInv(t)
  /\ \A a \in Agents : AgentInv(a)
  /\ OneEnds
  /\ TimersInv

-----------------------------------------------------------------------------
USE DEF Indices, States, WaitPcs, TaskPcs, Steps, Waits, AllKinds

(***************************************************************************)
(* Types.                                                                  *)
(***************************************************************************)
LEMMA InitType == Init => TypeOK
  BY ConstantsAssumption DEF Init, TypeOK

LEMMA ClaimType ==
  ASSUME fired \in [Tasks -> [Waits -> Indices]],
         NEW t \in Tasks, NEW n, NEW index \in Indices, Claim(t, n, index)
  PROVE  fired' \in [Tasks -> [Waits -> Indices]]
<1>1. fired \in [Tasks -> [Waits -> Indices]]
  OBVIOUS
<1>2. fired' = [fired EXCEPT ![t] = [fired[t] EXCEPT ![n] = index]]
  BY DEF Claim
<1>3. [fired[t] EXCEPT ![n] = index] \in [Waits -> Indices]
  <2>1. fired[t] \in [Waits -> Indices] BY <1>1
  <2> QED BY <2>1
<1> QED BY <1>1, <1>2, <1>3

LEMMA TypeStep == Inv /\ [Next]_vars => TypeOK'
<1> SUFFICES ASSUME TypeOK, \A t \in Tasks : ClaimInv(t), [Next]_vars PROVE TypeOK'
  BY DEF Inv, TaskInv
<1>w. \A t \in Tasks : pc[t] \in WaitPcs => wait[t] \in Waits
  BY DEF ClaimInv
<1> USE ConstantsAssumption DEF TypeOK, Goes, AttendMore, AttendLess, Starts, GoesOn
<1> USE DEF taskVars, flagVars, blockVars, agentVars
<1>p. pc \in [Tasks -> TaskPcs] /\ waiting \in [Tasks -> 0 .. MaxWaits]
      /\ wait \in [Tasks -> 0 .. MaxWaits] /\ MaxWaits \in Nat
  OBVIOUS
<1>f. fired \in [Tasks -> [Waits -> Indices]]
  OBVIOUS
<1>s. state \in [Tasks -> States]
  OBVIOUS
<1>r. res \in [Tasks -> {"op", "CANCELLED"}] /\ listed \in [Tasks -> BOOLEAN]
  OBVIOUS
<1>1. ASSUME NEW t \in Tasks, TaskStep(t) PROVE TypeOK'
  <2>1. CASE Run(t) BY <2>1 DEF Run
  <2>2. CASE Deadline(t)
    <3>1. timers' \subseteq (Tasks \X Waits \X {"op", "DEADLINE"})
      <4>1. CASE timers' = timers BY <4>1
      <4>2. CASE timers' = timers \cup {<<t, wait[t], "DEADLINE">>}
        BY <1>w, <2>2, <4>2 DEF Deadline
      <4> QED BY <2>2, <4>1, <4>2 DEF Deadline
    <3>2. attention' \in Int BY <2>2 DEF Deadline
    <3>3. pc' \in [Tasks -> TaskPcs]
      <4>1. pc' = [pc EXCEPT ![t] = "park"] \/ pc' = [pc EXCEPT ![t] = "timed"]
        BY <2>2 DEF Deadline
      <4> QED BY ONLY <4>1, <1>p
    <3>4. expired' \in [Tasks -> BOOLEAN] BY <2>2 DEF Deadline
    <3> QED BY <2>2, <3>1, <3>2, <3>3, <3>4 DEF Deadline
  <2>3. CASE Arm(t)
    <3>1. fired' \in [Tasks -> [Waits -> Indices]] BY <2>3, ClaimType DEF Arm
    <3>2. waiting' \in [Tasks -> 0 .. MaxWaits]
      <4>1. waiting' = waiting \/ waiting' = [waiting EXCEPT ![t] = wait[t]]
        BY <2>3 DEF Arm
      <4> QED BY ONLY <4>1, <1>p
    <3>3. pc' \in [Tasks -> TaskPcs]
      <4>1. pc' = [pc EXCEPT ![t] = "park"] \/ pc' = [pc EXCEPT ![t] = "leave"]
        BY <2>3 DEF Arm
      <4> QED BY ONLY <4>1, <1>p
    <3>4. cut' \in [Tasks -> BOOLEAN] /\ res' \in [Tasks -> {"op", "CANCELLED"}]
      <4>1. cut' = cut \/ cut' = [cut EXCEPT ![t] = cut[t] \/ deferring[t]] BY <2>3 DEF Arm
      <4>2. res' = res \/ res' = [res EXCEPT ![t] = "CANCELLED"] BY <2>3 DEF Arm
      <4>3. cut \in [Tasks -> BOOLEAN] /\ deferring \in [Tasks -> BOOLEAN] OBVIOUS
      <4> QED BY ONLY <4>1, <4>2, <4>3, <1>r
    <3> QED BY <2>3, <3>1, <3>2, <3>3, <3>4 DEF Arm
  <2>4. CASE Park(t)
    <3>1. pc' \in [Tasks -> TaskPcs]
      <4>1. \E to \in TaskPcs : pc' = [pc EXCEPT ![t] = to] BY <2>4 DEF Park, TaskPcs, WaitPcs
      <4> QED BY ONLY <4>1, <1>p
    <3>2. state' \in [Tasks -> States]
      <4>1. state' = state \/ \E s \in States : state' = [state EXCEPT ![t] = s]
        BY <2>4 DEF Park, States
      <4> QED BY ONLY <4>1, <1>s
    <3> QED BY <2>4, <3>1, <3>2 DEF Park
  <2>5. CASE Unnotify(t) BY <2>5 DEF Unnotify
  <2>6. CASE SwitchedOut(t)
    <3>1. pc' \in [Tasks -> TaskPcs]
      <4>1. \E to \in TaskPcs : pc' = [pc EXCEPT ![t] = to] BY <2>6 DEF SwitchedOut, TaskPcs, WaitPcs
      <4> QED BY ONLY <4>1, <1>p
    <3>2. state' \in [Tasks -> States]
      <4>1. state' = state \/ \E s \in States : state' = [state EXCEPT ![t] = s]
        BY <2>6 DEF SwitchedOut, States
      <4> QED BY ONLY <4>1, <1>s
    <3> QED BY <2>6, <3>1, <3>2 DEF SwitchedOut
  <2>7. CASE Requeue(t)
    <3>1. pc' \in [Tasks -> TaskPcs]
      <4>1. \E to \in TaskPcs : pc' = [pc EXCEPT ![t] = to] BY <2>7 DEF Requeue, TaskPcs, WaitPcs
      <4> QED BY ONLY <4>1, <1>p
    <3>2. state' \in [Tasks -> States]
      <4>1. state' = state \/ \E s \in States : state' = [state EXCEPT ![t] = s]
        BY <2>7 DEF Requeue, States
      <4> QED BY ONLY <4>1, <1>s
    <3>3. queued' \in [Tasks -> Nat] BY <2>7 DEF Requeue
    <3> QED BY <2>7, <3>1, <3>2, <3>3 DEF Requeue
  <2>8. CASE Unpin(t) BY <2>8 DEF Unpin
  <2>9. CASE Woken(t)
    <3>1. waiting' \in [Tasks -> 0 .. MaxWaits]
      <4>1. waiting' = waiting \/ waiting' = [waiting EXCEPT ![t] = 0]
        BY <2>9 DEF Woken
      <4> QED BY ONLY <4>1, <1>p
    <3>2. attention' \in Int BY <2>9 DEF Woken
    <3>3. pc' \in [Tasks -> TaskPcs]
      <4>1. pc' = [pc EXCEPT ![t] = "park"] \/ pc' = [pc EXCEPT ![t] = "leave"]
        BY <2>9 DEF Woken
      <4> QED BY ONLY <4>1, <1>p
    <3>4. expired' \in [Tasks -> BOOLEAN] BY <2>9 DEF Woken
    <3>5. cut' \in [Tasks -> BOOLEAN] BY <2>9 DEF Woken
    <3>6. res' \in [Tasks -> {"op", "CANCELLED"}]
      <4>1. \/ res' = res
            \/ res' = [res EXCEPT ![t] = IF fired[t][wait[t]] = "op" THEN "op" ELSE "CANCELLED"]
        BY <2>9 DEF Woken
      <4> QED BY ONLY <4>1, <1>r
    <3> QED BY <2>9, <3>1, <3>2, <3>3, <3>4, <3>5, <3>6 DEF Woken
  <2>10. CASE Leave(t) BY <2>10 DEF Leave
  <2>11. CASE Check(t) BY <2>11 DEF Check
  <2>12. CASE Asked(t) BY <2>12 DEF Asked
  <2>13. CASE Take(t) BY <2>13 DEF Take
  <2>14. CASE DeferStarts(t) BY <2>14 DEF DeferStarts
  <2>15. CASE DeferEnds(t) BY <2>15 DEF DeferEnds
  <2>16. CASE RecoverEnds(t) BY <2>16 DEF RecoverEnds
  <2>17. CASE Finish(t) BY <2>17 DEF Finish
  <2>18. CASE Unregister(t) BY <2>18 DEF Unregister
  <2>19. CASE Unwind(t) BY <2>19 DEF Unwind, Ends, LeavesWithin
  <2> QED
    BY <1>1, <2>1, <2>2, <2>3, <2>4, <2>5, <2>6, <2>7, <2>8, <2>9, <2>10, <2>11, <2>12,
       <2>13, <2>14, <2>15, <2>16, <2>17, <2>18, <2>19 DEF TaskStep
<1>2. ASSUME NEW t \in Tasks, BodyStep(t) \/ DeadlinePasses(t) PROVE TypeOK'
  <2>1. CASE Begin(t)
    <3>1. pc' \in [Tasks -> TaskPcs] /\ res' \in [Tasks -> {"op", "CANCELLED"}]
      <4>1. \E to \in TaskPcs : pc' = [pc EXCEPT ![t] = to] BY <2>1 DEF Begin, TaskPcs, WaitPcs
      <4>2. res' = res \/ res' = [res EXCEPT ![t] = "CANCELLED"] BY <2>1 DEF Begin
      <4> QED BY ONLY <4>1, <4>2, <1>p, <1>r
    <3>2. wait' \in [Tasks -> 0 .. MaxWaits]
      <4>1. wait' = wait \/ (wait[t] < MaxWaits /\ wait' = [wait EXCEPT ![t] = wait[t] + 1])
        BY <2>1 DEF Begin
      <4> QED BY ONLY <4>1, <1>p
    <3>3. listed' \in [Tasks -> BOOLEAN]
      <4>1. listed' = listed \/ \E l \in BOOLEAN : listed' = [listed EXCEPT ![t] = l]
        BY <2>1 DEF Begin
      <4> QED BY ONLY <4>1, <1>r
    <3>4. timers' \subseteq (Tasks \X Waits \X {"op", "DEADLINE"})
      <4>1. CASE timers' = timers BY <4>1
      <4>2. CASE timers' = timers \cup {<<t, wait[t] + 1, "op">>}
        <5>1. wait[t] + 1 \in Waits BY <2>1 DEF Begin
        <5> QED BY <4>2, <5>1
      <4> QED BY <2>1, <4>1, <4>2 DEF Begin
    <3> QED BY <2>1, <3>1, <3>2, <3>3, <3>4 DEF Begin
  <2>2. CASE WithinEnter(t) BY <2>2 DEF WithinEnter
  <2>3. CASE WithinLeave(t) BY <2>3 DEF WithinLeave, LeavesWithin
  <2>4. CASE GiveWay(t) BY <2>4 DEF GiveWay
  <2>5. CASE EndBody(t) BY <2>5 DEF EndBody, Ends, LeavesWithin
  <2>6. CASE DeadlinePasses(t) BY <2>6 DEF DeadlinePasses
  <2> QED BY <1>2, <2>1, <2>2, <2>3, <2>4, <2>5, <2>6 DEF BodyStep
<1>3. ASSUME NEW a \in Agents, AgentStarts(a) PROVE TypeOK'
  <2>1. PICK t \in Tasks :
          \/ OpClaims(a, t) \/ CancelStarts(a, t) \/ AlarmStarts(a, t) \/ AgainLooksUp(a, t)
          \/ \E n \in Waits, index \in {"op", "DEADLINE"} : TimerFires(a, t, n, index)
    BY <1>3 DEF AgentStarts
  <2>2. CASE OpClaims(a, t) BY <2>2, ClaimType DEF OpClaims
  <2>3. CASE CancelStarts(a, t)
    <3>1. attention' \in Int BY <2>3 DEF CancelStarts
    <3>2. /\ does' \in [Agents -> Steps]
          /\ kind' \in [Agents -> {"op"} \cup AllKinds]
          /\ on' \in [Agents -> Tasks]
      BY <2>3 DEF CancelStarts
    <3> QED BY <2>3, <3>1, <3>2 DEF CancelStarts
  <2>4. CASE AlarmStarts(a, t) BY <2>4 DEF AlarmStarts
  <2>5. CASE AgainLooksUp(a, t) BY <2>5 DEF AgainLooksUp
  <2>6. ASSUME NEW n \in Waits, NEW index \in {"op", "DEADLINE"}, TimerFires(a, t, n, index)
        PROVE TypeOK'
    <3>1. fired' = fired \/ Claim(t, n, index) BY <2>6 DEF TimerFires
    <3>2. fired' \in [Tasks -> [Waits -> Indices]]
      <4>1. index \in Indices OBVIOUS
      <4>2. CASE fired' = fired BY <4>2
      <4>3. CASE Claim(t, n, index) BY ONLY <1>f, <4>1, <4>3, ClaimType, Zenon
      <4> QED BY ONLY <3>1, <4>2, <4>3
    <3>3. UNCHANGED agentVars \/ Starts(a, "op", t, "notify") BY <2>6 DEF TimerFires
    <3>4. /\ does' \in [Agents -> Steps]
          /\ kind' \in [Agents -> {"op"} \cup AllKinds]
          /\ on' \in [Agents -> Tasks]
      <4>1. CASE UNCHANGED agentVars BY <4>1
      <4>2. CASE Starts(a, "op", t, "notify") BY <4>2
      <4> QED BY <3>3, <4>1, <4>2, Zenon
    <3>5. timers' \subseteq timers BY <2>6 DEF TimerFires
    <3> QED BY <2>6, <3>2, <3>4, <3>5 DEF TimerFires
  <2>7. CASE \E n \in Waits, index \in {"op", "DEADLINE"} : TimerFires(a, t, n, index)
    BY ONLY <2>6, <2>7
  <2> QED BY ONLY <2>1, <2>2, <2>3, <2>4, <2>5, <2>7
<1>4. ASSUME NEW a \in Agents, AgentStep(a) PROVE TypeOK'
  <2>1. CASE CancelSwaps(a) BY <2>1 DEF CancelSwaps
  <2>2. CASE CancelLess(a) BY <2>2 DEF CancelLess
  <2>3. CASE ClaimsWaiting(a)
    <3>1. on[a] \in Tasks OBVIOUS
    <3>2. fired' \in [Tasks -> [Waits -> Indices]]
      BY <2>3, <3>1, ClaimType DEF ClaimsWaiting
    <3>3. does' \in [Agents -> Steps] /\ kind' \in [Agents -> {"op"} \cup AllKinds]
      BY <2>3 DEF ClaimsWaiting
    <3> QED BY <2>3, <3>2, <3>3 DEF ClaimsWaiting
  <2>4. CASE AlarmRings(a) BY <2>4 DEF AlarmRings
  <2>5. CASE AlarmMore(a) BY <2>5 DEF AlarmMore
  <2>6. CASE AgainClaims(a)
    <3>1. on[a] \in Tasks OBVIOUS
    <3>2. fired' \in [Tasks -> [Waits -> Indices]]
      BY <2>6, <3>1, ClaimType DEF AgainClaims
    <3>3. does' \in [Agents -> Steps] /\ kind' \in [Agents -> {"op"} \cup AllKinds]
      BY <2>6 DEF AgainClaims
    <3>4. again' \in [Tasks -> BOOLEAN] /\ attention' \in Int BY <2>6 DEF AgainClaims
    <3> QED BY <2>6, <3>2, <3>3, <3>4 DEF AgainClaims
  <2>7. CASE Notify(a) BY <2>7 DEF Notify
  <2>8. CASE Schedule(a) BY <2>8 DEF Schedule
  <2> QED BY <1>4, <2>1, <2>2, <2>3, <2>4, <2>5, <2>6, <2>7, <2>8 DEF AgentStep
<1>5. CASE UNCHANGED vars BY <1>5 DEF vars
<1> QED BY <1>1, <1>2, <1>3, <1>4, <1>5 DEF Next

-----------------------------------------------------------------------------
(***************************************************************************)
(* The invariant, step by step.                                            *)
(***************************************************************************)
Ending == {"notify", "schedule"}

\* Places where a task runs code and no wait of its can be reached.
CodePcs == {"body", "check", "asked", "taking", "unwind", "end", "recoverend", "finished",
            "unregister", "freed"}

\* A step leaves a task as it was.
Same(u) ==
  /\ pc'[u] = pc[u] /\ state'[u] = state[u] /\ wait'[u] = wait[u] /\ fired'[u] = fired[u]
  /\ waiting'[u] = waiting[u] /\ listed'[u] = listed[u] /\ queued'[u] = queued[u]

LEMMA InitInv == Init => Inv
<1> SUFFICES ASSUME Init PROVE Inv
  OBVIOUS
<1>1. TypeOK BY InitType
<1>2. ASSUME NEW t \in Tasks PROVE TaskInv(t)
  BY ConstantsAssumption
     DEF Init, TaskInv, StateInv, ClaimInv, TokenInv, ReachInv, QueueInv
<1>3. ASSUME NEW a \in Agents PROVE AgentInv(a)
  BY DEF Init, AgentInv
<1>4. OneEnds BY DEF Init, OneEnds
<1>5. TimersInv BY DEF Init, TimersInv
<1> QED BY <1>1, <1>2, <1>3, <1>4, <1>5 DEF Inv

\* A task's step disturbs its own part of the invariant, and that of the
\* agents that work on it.
LEMMA OnlyTask ==
  ASSUME Inv, TypeOK', NEW t \in Tasks, UNCHANGED <<does, on>>,
         \A u \in Tasks \ {t} : Same(u),
         TaskInv(t)',
         \A a \in Agents : on[a] = t => AgentInv(a)',
         TimersInv'
  PROVE  Inv'
<1>1. ASSUME NEW u \in Tasks, u # t PROVE TaskInv(u)'
  <2>1. TaskInv(u) /\ Same(u) BY <1>1 DEF Inv
  <2>2. StateInv(u)' BY <2>1 DEF TaskInv, Same, StateInv
  <2>3. ClaimInv(u)' BY <2>1 DEF TaskInv, Same, ClaimInv
  <2>4. TokenInv(u)' BY <2>1 DEF TaskInv, Same, TokenInv, Notified, Claimed, Wakes
  <2>5. ReachInv(u)' BY <2>1 DEF TaskInv, Same, ReachInv
  <2>6. QueueInv(u)' BY <2>1 DEF TaskInv, Same, QueueInv
  <2> QED BY <2>2, <2>3, <2>4, <2>5, <2>6 DEF TaskInv
<1>2. ASSUME NEW a \in Agents PROVE AgentInv(a)'
  <2>1. CASE on[a] = t BY <2>1
  <2>2. CASE on[a] # t
    <3>1. AgentInv(a) /\ on[a] \in Tasks BY DEF Inv, TypeOK
    <3>2. Same(on[a]) BY <2>2, <3>1
    <3> QED BY <3>1, <3>2 DEF AgentInv, Same, Notified, Claimed
  <2> QED BY <2>1, <2>2
<1>3. OneEnds' BY DEF Inv, OneEnds
<1> QED BY <1>1, <1>2, <1>3 DEF Inv

\* A step of code between waits.
LEMMA CodeStep ==
  ASSUME Inv, TypeOK', NEW t \in Tasks, NEW place \in CodePcs,
         pc[t] \in CodePcs, pc' = [pc EXCEPT ![t] = place],
         UNCHANGED <<state, wait, fired, waiting, listed, timers, queued, does, on>>
  PROVE  Inv'
<1>1. TaskInv(t) /\ pc'[t] = place BY DEF Inv, TypeOK
<1>2. \A u \in Tasks \ {t} : Same(u) BY DEF Same, Inv, TypeOK
<1>3. TaskInv(t)'
  BY <1>1 DEF TaskInv, StateInv, ClaimInv, TokenInv, ReachInv, QueueInv, CodePcs
<1>4. \A a \in Agents : on[a] = t => AgentInv(a)'
  BY <1>1 DEF Inv, AgentInv, CodePcs
<1>5. TimersInv' BY DEF Inv, TimersInv
<1> QED BY <1>2, <1>3, <1>4, <1>5, OnlyTask

\* An agent goes from one step to another, and ends no wait.
LEMMA QuietAgent ==
  ASSUME Inv, TypeOK', NEW a \in Agents, NEW step \in Steps \ Ending,
         does[a] \notin Ending, does' = [does EXCEPT ![a] = step],
         \A b \in Agents \ {a} : on'[b] = on[b],
         UNCHANGED <<pc, state, wait, fired, waiting, listed, timers, queued>>
  PROVE  Inv'
<1>0. does \in [Agents -> Steps] BY DEF Inv, TypeOK
<1>1. \A b \in Agents : does[b] \in Ending <=> does'[b] \in Ending
  BY <1>0
<1>2. \A b \in Agents : does'[b] \in Ending => does'[b] = does[b] /\ on'[b] = on[b]
  BY <1>0
<1>3. \A b \in Agents : does[b] \in Ending => does'[b] = does[b] /\ on'[b] = on[b]
  BY <1>0
<1>4. ASSUME NEW t \in Tasks PROVE TaskInv(t)'
  <2>1. TaskInv(t) BY DEF Inv
  <2>2. StateInv(t)' BY <2>1 DEF TaskInv, StateInv
  <2>3. ClaimInv(t)' BY <2>1 DEF TaskInv, ClaimInv
  <2>4. TokenInv(t)' BY <1>3, <2>1 DEF TaskInv, TokenInv, Notified, Claimed, Wakes, Ending
  <2>5. ReachInv(t)' BY <2>1 DEF TaskInv, ReachInv
  <2>6. QueueInv(t)' BY <1>3, <2>1 DEF TaskInv, QueueInv, Ending
  <2> QED BY <2>2, <2>3, <2>4, <2>5, <2>6 DEF TaskInv
<1>5. ASSUME NEW b \in Agents PROVE AgentInv(b)'
  <2>1. AgentInv(b) BY DEF Inv
  <2> QED BY <1>2, <2>1 DEF AgentInv, Notified, Claimed, Ending
<1>6. OneEnds' BY <1>2 DEF Inv, OneEnds, Ending
<1>7. TimersInv' BY DEF Inv, TimersInv
<1> QED BY <1>4, <1>5, <1>6, <1>7 DEF Inv

\* An agent claims the newest wait of a task, and is to notify it.
LEMMA ClaimStep ==
  ASSUME Inv, TypeOK', NEW a \in Agents, NEW t \in Tasks, NEW index \in Indices \ {"NONE"},
         does[a] \notin Ending, does' = [does EXCEPT ![a] = "notify"],
         on' = [on EXCEPT ![a] = t],
         pc[t] \in WaitPcs, fired[t][wait[t]] = "NONE",
         fired' = [fired EXCEPT ![t][wait[t]] = index],
         listed' = listed \/ listed' = [listed EXCEPT ![t] = FALSE],
         timers' \subseteq timers,
         UNCHANGED <<pc, state, wait, waiting, queued>>
  PROVE  Inv'
<1>0. /\ does \in [Agents -> Steps] /\ on \in [Agents -> Tasks]
      /\ fired \in [Tasks -> [Waits -> Indices]] /\ listed \in [Tasks -> BOOLEAN]
      /\ wait \in [Tasks -> 0 .. MaxWaits]
  BY DEF Inv, TypeOK
<1>1. TaskInv(t) /\ wait[t] \in Waits BY DEF Inv, TaskInv, ClaimInv
<1>2. \A u \in Tasks, n \in Waits :
        fired'[u][n] = IF u = t /\ n = wait[t] THEN index ELSE fired[u][n]
  BY <1>0, <1>1
<1>3. \A u \in Tasks : listed'[u] => listed[u]
  BY <1>0
<1>4. ~Claimed(t) BY DEF Claimed
<1>5. \A b \in Agents : does[b] \in Ending => on[b] # t
  BY <1>4 DEF Inv, AgentInv, Ending
<1>6. /\ does'[a] = "notify" /\ on'[a] = t
      /\ \A b \in Agents \ {a} : does'[b] = does[b] /\ on'[b] = on[b]
  BY <1>0
<1>7. ~Notified(t) /\ state[t] # "NOTIFIED"
  BY <1>1, <1>4 DEF TaskInv, TokenInv, Notified
<1>8. ASSUME NEW u \in Tasks PROVE TaskInv(u)'
  <2>1. TaskInv(u) BY DEF Inv
  <2>2. StateInv(u)' BY <2>1 DEF TaskInv, StateInv
  <2>3. ClaimInv(u)' BY <1>2, <2>1 DEF TaskInv, ClaimInv
  <2>4. TokenInv(u)'
    <3>1. CASE u = t
      <4>1. Claimed(u)' /\ Wakes(u)' BY <1>1, <1>2, <1>6, <3>1 DEF Claimed, Wakes
      <4> QED BY <4>1 DEF TokenInv
    <3>2. CASE u # t
      <4>1. Claimed(u)' = Claimed(u) BY <1>2, <3>2 DEF Claimed
      <4>2. Notified(u)' = Notified(u) BY DEF Notified
      <4>3. Wakes(u) => Wakes(u)' BY <1>6 DEF Wakes, Ending
      <4> QED BY <2>1, <4>1, <4>2, <4>3 DEF TaskInv, TokenInv
    <3> QED BY <3>1, <3>2
  <2>5. ReachInv(u)' BY <1>3, <2>1 DEF TaskInv, ReachInv
  <2>6. QueueInv(u)' BY <1>6, <2>1 DEF TaskInv, QueueInv, Ending
  <2> QED BY <2>2, <2>3, <2>4, <2>5, <2>6 DEF TaskInv
<1>9. ASSUME NEW b \in Agents PROVE AgentInv(b)'
  <2>1. CASE b = a
    BY <1>1, <1>2, <1>6, <1>7, <2>1 DEF AgentInv, Claimed, Notified
  <2>2. CASE b # a
    <3>1. AgentInv(b) /\ does'[b] = does[b] /\ on'[b] = on[b] /\ on[b] \in Tasks
      BY <1>0, <1>6, <2>2 DEF Inv
    <3>2. CASE does[b] \in Ending
      <4>1. on[b] # t BY <1>5, <3>2
      <4>2. Claimed(on[b])' = Claimed(on[b]) BY <1>2, <3>1, <4>1 DEF Claimed
      <4>3. Notified(on[b])' = Notified(on[b]) BY <3>1 DEF Notified
      <4> QED BY <3>1, <4>2, <4>3 DEF AgentInv
    <3>3. CASE does[b] \notin Ending BY <3>1, <3>3 DEF AgentInv, Ending
    <3> QED BY <3>2, <3>3
  <2> QED BY <2>1, <2>2
<1>10. OneEnds' BY <1>5, <1>6 DEF Inv, OneEnds, Ending
<1>11. TimersInv' BY DEF Inv, TimersInv
<1> QED BY <1>8, <1>9, <1>10, <1>11 DEF Inv

\* The types a step of a task's wait is about.
CoreType ==
  /\ pc \in [Tasks -> TaskPcs] /\ state \in [Tasks -> States]
  /\ wait \in [Tasks -> 0 .. MaxWaits] /\ fired \in [Tasks -> [Waits -> Indices]]
  /\ waiting \in [Tasks -> 0 .. MaxWaits] /\ listed \in [Tasks -> BOOLEAN]
  /\ queued \in [Tasks -> Nat]

LEMMA TypeIsCore == TypeOK => CoreType
  BY DEF TypeOK, CoreType

LEMMA RunInv == ASSUME Inv, TypeOK', NEW t \in Tasks, Run(t) PROVE Inv'
<1> USE DEF Run, Goes
<1>0. TaskInv(t) /\ (\A a \in Agents : on[a] = t => AgentInv(a))
  BY DEF Inv
<1>c. CoreType BY TypeIsCore DEF Inv
<1>1. UNCHANGED <<does, on>> BY DEF agentVars
<1>2. \A u \in Tasks \ {t} : Same(u) BY <1>c DEF Same, CoreType
<1>3. StateInv(t)' BY <1>0, <1>c DEF CoreType, TaskInv, StateInv, QueueInv
<1>4. ClaimInv(t)'
  BY <1>0, <1>c, ConstantsAssumption
     DEF CoreType, TaskInv, ClaimInv, StateInv, TokenInv, Claimed, Notified
<1>5. TokenInv(t)'
  BY <1>0, <1>c, <1>1
     DEF CoreType, TaskInv, StateInv, ClaimInv, TokenInv, Claimed, Notified, Wakes
<1>6. ReachInv(t)' BY <1>0, <1>c DEF CoreType, TaskInv, ClaimInv, ReachInv
<1>7. QueueInv(t)' BY <1>0, <1>c, <1>1 DEF CoreType, TaskInv, QueueInv, StateInv
<1>8. ASSUME NEW a \in Agents, on[a] = t PROVE AgentInv(a)'
  <2>1. AgentInv(a) /\ on'[a] = t /\ does'[a] = does[a] BY <1>0, <1>1, <1>8
  <2> QED
    BY <1>0, <1>8, <1>c, <2>1
       DEF CoreType, TaskInv, StateInv, AgentInv, Claimed, Notified, QueueInv
<1>9. TimersInv' BY DEF Inv, TimersInv
<1> QED BY <1>1, <1>2, <1>3, <1>4, <1>5, <1>6, <1>7, <1>8, <1>9, OnlyTask DEF TaskInv

LEMMA BeginInv == ASSUME Inv, TypeOK', NEW t \in Tasks, Begin(t) PROVE Inv'
<1> USE DEF Begin, Goes
<1>0. TaskInv(t) /\ (\A a \in Agents : on[a] = t => AgentInv(a))
  BY DEF Inv
<1>c. CoreType BY TypeIsCore DEF Inv
<1>1. UNCHANGED <<does, on>> BY DEF agentVars
<1>2. \A u \in Tasks \ {t} : Same(u) BY <1>c DEF Same, CoreType
<1>3. StateInv(t)' BY <1>0, <1>c DEF CoreType, TaskInv, StateInv
<1>4. ClaimInv(t)'
  BY <1>0, <1>c, ConstantsAssumption
     DEF CoreType, TaskInv, ClaimInv, StateInv, TokenInv, Claimed, Notified
<1>5. TokenInv(t)'
  BY <1>0, <1>c, <1>1
     DEF CoreType, TaskInv, StateInv, ClaimInv, TokenInv, Claimed, Notified, Wakes
<1>6. ReachInv(t)'
  <2>1. waiting[t] = 0 /\ ~listed[t] /\ waiting' = waiting BY <1>0 DEF TaskInv, ReachInv
  <2>2. CASE pc' = [pc EXCEPT ![t] = "check"] /\ listed' = listed
    BY <2>1, <2>2 DEF ReachInv
  <2>3. CASE /\ pc' = [pc EXCEPT ![t] = "begun"] /\ wait[t] < MaxWaits
             /\ wait' = [wait EXCEPT ![t] = wait[t] + 1]
    <3>1. pc'[t] = "begun" /\ wait'[t] \in Waits
      BY <1>c, <2>3, ConstantsAssumption DEF CoreType
    <3> QED BY <2>1, <3>1 DEF ReachInv
  <2> QED BY <2>2, <2>3
<1>7. QueueInv(t)' BY <1>0, <1>c, <1>1 DEF CoreType, TaskInv, QueueInv, StateInv
<1>8. ASSUME NEW a \in Agents, on[a] = t PROVE AgentInv(a)'
  <2>1. AgentInv(a) /\ on'[a] = t /\ does'[a] = does[a] BY <1>0, <1>1, <1>8
  <2> QED
    BY <1>0, <1>8, <1>c, <2>1
       DEF CoreType, TaskInv, StateInv, AgentInv, Claimed, Notified, QueueInv
<1>9. TimersInv'
  <2>0. TimersInv /\ wait \in [Tasks -> Nat] BY <1>c, ConstantsAssumption DEF Inv, CoreType
  <2> SUFFICES ASSUME NEW u \in Tasks, NEW n \in Waits, NEW index \in {"op", "DEADLINE"},
                      <<u, n, index>> \in timers'
               PROVE  n <= wait'[u]
    BY DEF TimersInv
  <2>1. CASE timers' = timers /\ wait' = wait BY <2>0, <2>1 DEF TimersInv
  <2>2. CASE wait' = [wait EXCEPT ![t] = wait[t] + 1]
    <3>1. wait'[u] = IF u = t THEN wait[t] + 1 ELSE wait[u] BY <1>c, <2>2 DEF CoreType
    <3>2. CASE <<u, n, index>> \in timers
      <4>1. n <= wait[u] BY <2>0, <3>2 DEF TimersInv
      <4>2. wait[u] \in Nat /\ n \in Nat BY <2>0
      <4> QED BY ONLY <3>1, <4>1, <4>2
    <3>3. CASE <<u, n, index>> = <<t, wait[t] + 1, "op">>
      BY <2>0, <3>1, <3>3
    <3>4. timers' = timers \/ timers' = timers \cup {<<t, wait[t] + 1, "op">>}
      OBVIOUS
    <3> QED BY <3>2, <3>3, <3>4
  <2> QED BY <2>1, <2>2
<1> QED BY <1>1, <1>2, <1>3, <1>4, <1>5, <1>6, <1>7, <1>8, <1>9, OnlyTask DEF TaskInv

LEMMA DeadlineInv == ASSUME Inv, TypeOK', NEW t \in Tasks, Deadline(t) PROVE Inv'
<1> USE DEF Deadline, Goes
<1>0. TaskInv(t) /\ (\A a \in Agents : on[a] = t => AgentInv(a))
  BY DEF Inv
<1>c. CoreType BY TypeIsCore DEF Inv
<1>1. UNCHANGED <<does, on>> BY DEF agentVars
<1>2. \A u \in Tasks \ {t} : Same(u) BY <1>c DEF Same, CoreType
<1>3. StateInv(t)' BY <1>0, <1>c DEF CoreType, TaskInv, StateInv
<1>4. ClaimInv(t)'
  BY <1>0, <1>c, ConstantsAssumption
     DEF CoreType, TaskInv, ClaimInv, StateInv, TokenInv, Claimed, Notified
<1>5. TokenInv(t)'
  BY <1>0, <1>c, <1>1
     DEF CoreType, TaskInv, StateInv, ClaimInv, TokenInv, Claimed, Notified, Wakes
<1>6. ReachInv(t)' BY <1>0, <1>c DEF CoreType, TaskInv, ClaimInv, ReachInv
<1>7. QueueInv(t)' BY <1>0, <1>c, <1>1 DEF CoreType, TaskInv, QueueInv, StateInv
<1>8. ASSUME NEW a \in Agents, on[a] = t PROVE AgentInv(a)'
  <2>1. AgentInv(a) /\ on'[a] = t /\ does'[a] = does[a] BY <1>0, <1>1, <1>8
  <2> QED
    BY <1>0, <1>8, <1>c, <2>1
       DEF CoreType, TaskInv, StateInv, AgentInv, Claimed, Notified, QueueInv
<1>9. TimersInv'
  <2>0. TimersInv /\ wait \in [Tasks -> Nat] BY <1>c, ConstantsAssumption DEF Inv, CoreType
  <2> SUFFICES ASSUME NEW u \in Tasks, NEW n \in Waits, NEW index \in {"op", "DEADLINE"},
                      <<u, n, index>> \in timers'
               PROVE  n <= wait'[u]
    BY DEF TimersInv
  <2>1. wait' = wait OBVIOUS
  <2>2. CASE <<u, n, index>> \in timers BY <2>0, <2>1, <2>2 DEF TimersInv
  <2>3. CASE <<u, n, index>> = <<t, wait[t], "DEADLINE">> BY <2>0, <2>1, <2>3
  <2>4. timers' = timers \/ timers' = timers \cup {<<t, wait[t], "DEADLINE">>}
    OBVIOUS
  <2> QED BY <2>2, <2>3, <2>4
<1> QED BY <1>1, <1>2, <1>3, <1>4, <1>5, <1>6, <1>7, <1>8, <1>9, OnlyTask DEF TaskInv

LEMMA ArmInv == ASSUME Inv, TypeOK', NEW t \in Tasks, Arm(t) PROVE Inv'
<1>0. TaskInv(t) /\ (\A a \in Agents : on[a] = t => AgentInv(a)) BY DEF Inv
<1>c. CoreType BY TypeIsCore DEF Inv
<1>1. UNCHANGED <<does, on, state, wait, listed, timers, queued>> /\ pc[t] = "timed"
  BY DEF Arm, agentVars
<1>w. wait[t] \in Waits BY <1>0, <1>1 DEF TaskInv, ClaimInv
<1>t. TimersInv' BY <1>1 DEF Inv, TimersInv
<1>2. CASE fired' = fired /\ pc' = [pc EXCEPT ![t] = "park"]
           /\ waiting' = [waiting EXCEPT ![t] = wait[t]]
  <2>1. /\ pc'[t] = "park" /\ waiting'[t] = wait[t]
        /\ \A u \in Tasks \ {t} : pc'[u] = pc[u] /\ waiting'[u] = waiting[u]
    BY <1>2, <1>c DEF CoreType
  <2>2. \A u \in Tasks \ {t} : Same(u) BY <1>1, <1>2, <2>1 DEF Same
  <2>3. TaskInv(t)'
    BY <1>0, <1>1, <1>2, <1>w, <2>1
       DEF TaskInv, StateInv, ClaimInv, TokenInv, ReachInv, QueueInv, Claimed, Notified, Wakes
  <2>4. ASSUME NEW a \in Agents, on[a] = t PROVE AgentInv(a)'
    <3>1. AgentInv(a) /\ on'[a] = t /\ does'[a] = does[a] BY <1>0, <1>1, <2>4
    <3> QED BY <1>1, <1>2, <2>1, <2>4, <3>1 DEF AgentInv, Claimed, Notified
  <2> QED BY <1>1, <1>t, <2>2, <2>3, <2>4, OnlyTask
<1>3. CASE /\ fired[t][wait[t]] = "NONE" /\ fired' = [fired EXCEPT ![t][wait[t]] = "CANCELLED"]
           /\ pc' = [pc EXCEPT ![t] = "leave"] /\ waiting' = waiting
  <2>1. /\ pc'[t] = "leave" /\ fired'[t][wait[t]] = "CANCELLED"
        /\ \A n \in Waits : n # wait[t] => fired'[t][n] = fired[t][n]
        /\ \A u \in Tasks \ {t} : pc'[u] = pc[u] /\ fired'[u] = fired[u]
    BY <1>3, <1>c, <1>w DEF CoreType
  <2>2. \A u \in Tasks \ {t} : Same(u) BY <1>1, <1>3, <2>1 DEF Same
  <2>3. ~Claimed(t) /\ ~Notified(t) /\ state[t] = "RUNNING"
    BY <1>0, <1>1, <1>3 DEF TaskInv, StateInv, TokenInv, Claimed, Notified
  <2>4. waiting[t] = 0
    BY <1>0, <1>1 DEF TaskInv, ReachInv
  <2>5. TaskInv(t)'
    <3>1. StateInv(t)' /\ TokenInv(t)' BY <1>1, <2>1, <2>3 DEF StateInv, TokenInv
    <3>2. ClaimInv(t)'
      <4>1. ClaimInv(t) /\ wait' = wait BY <1>0, <1>1 DEF TaskInv
      <4>2. wait[t] \in Waits /\ pc'[t] = "leave" /\ fired'[t][wait[t]] # "NONE"
        BY <1>w, <2>1
      <4> QED BY <1>1, <2>1, <4>1, <4>2 DEF ClaimInv
    <3>3. ReachInv(t)' BY <1>0, <1>1, <1>3, <1>w, <2>1, <2>4 DEF TaskInv, ReachInv
    <3>4. QueueInv(t)' BY <1>0, <1>1, <2>1 DEF TaskInv, QueueInv
    <3> QED BY <3>1, <3>2, <3>3, <3>4 DEF TaskInv
  <2>6. ASSUME NEW a \in Agents, on[a] = t PROVE AgentInv(a)'
    <3>1. AgentInv(a) /\ on'[a] = t /\ does'[a] = does[a] BY <1>0, <1>1, <2>6
    <3>2. does[a] \notin Ending BY <1>1, <2>3, <2>6, <3>1 DEF AgentInv, Ending
    <3> QED BY <3>1, <3>2 DEF AgentInv, Ending
  <2> QED BY <1>1, <1>t, <2>2, <2>5, <2>6, OnlyTask
<1> QED BY <1>2, <1>3 DEF Arm, Claim, Goes, Unclaimed

LEMMA ParkInv == ASSUME Inv, TypeOK', NEW t \in Tasks, Park(t) PROVE Inv'
<1> USE DEF Park, Goes
<1>0. TaskInv(t) /\ (\A a \in Agents : on[a] = t => AgentInv(a))
  BY DEF Inv
<1>c. CoreType BY TypeIsCore DEF Inv
<1>1. UNCHANGED <<does, on>> BY DEF agentVars
<1>2. \A u \in Tasks \ {t} : Same(u) BY <1>c DEF Same, CoreType
<1>3. StateInv(t)' BY <1>0, <1>c DEF CoreType, TaskInv, StateInv
<1>4. ClaimInv(t)'
  BY <1>0, <1>c, ConstantsAssumption
     DEF CoreType, TaskInv, ClaimInv, StateInv, TokenInv, Claimed, Notified
<1>5. TokenInv(t)'
  BY <1>0, <1>c, <1>1
     DEF CoreType, TaskInv, StateInv, ClaimInv, TokenInv, Claimed, Notified, Wakes
<1>6. ReachInv(t)' BY <1>0, <1>c DEF CoreType, TaskInv, ClaimInv, ReachInv
<1>7. QueueInv(t)' BY <1>0, <1>c, <1>1 DEF CoreType, TaskInv, QueueInv, StateInv
<1>8. ASSUME NEW a \in Agents, on[a] = t PROVE AgentInv(a)'
  <2>1. AgentInv(a) /\ on'[a] = t /\ does'[a] = does[a] BY <1>0, <1>1, <1>8
  <2> QED
    BY <1>0, <1>8, <1>c, <2>1
       DEF CoreType, TaskInv, StateInv, AgentInv, Claimed, Notified, QueueInv
<1>9. TimersInv' BY DEF Inv, TimersInv
<1> QED BY <1>1, <1>2, <1>3, <1>4, <1>5, <1>6, <1>7, <1>8, <1>9, OnlyTask DEF TaskInv

LEMMA UnnotifyInv == ASSUME Inv, TypeOK', NEW t \in Tasks, Unnotify(t) PROVE Inv'
<1> USE DEF Unnotify, Goes
<1>0. TaskInv(t) /\ (\A a \in Agents : on[a] = t => AgentInv(a))
  BY DEF Inv
<1>c. CoreType BY TypeIsCore DEF Inv
<1>1. UNCHANGED <<does, on>> BY DEF agentVars
<1>2. \A u \in Tasks \ {t} : Same(u) BY <1>c DEF Same, CoreType
<1>3. StateInv(t)' BY <1>0, <1>c DEF CoreType, TaskInv, StateInv
<1>4. ClaimInv(t)'
  BY <1>0, <1>c, ConstantsAssumption
     DEF CoreType, TaskInv, ClaimInv, StateInv, TokenInv, Claimed, Notified
<1>5. TokenInv(t)'
  BY <1>0, <1>c, <1>1
     DEF CoreType, TaskInv, StateInv, ClaimInv, TokenInv, Claimed, Notified, Wakes
<1>6. ReachInv(t)' BY <1>0, <1>c DEF CoreType, TaskInv, ClaimInv, ReachInv
<1>7. QueueInv(t)' BY <1>0, <1>c, <1>1 DEF CoreType, TaskInv, QueueInv, StateInv
<1>8. ASSUME NEW a \in Agents, on[a] = t PROVE AgentInv(a)'
  <2>1. AgentInv(a) /\ on'[a] = t /\ does'[a] = does[a] BY <1>0, <1>1, <1>8
  <2> QED
    BY <1>0, <1>8, <1>c, <2>1
       DEF CoreType, TaskInv, StateInv, AgentInv, Claimed, Notified, QueueInv
<1>9. TimersInv' BY DEF Inv, TimersInv
<1> QED BY <1>1, <1>2, <1>3, <1>4, <1>5, <1>6, <1>7, <1>8, <1>9, OnlyTask DEF TaskInv

LEMMA SwitchedOutInv == ASSUME Inv, TypeOK', NEW t \in Tasks, SwitchedOut(t) PROVE Inv'
<1> USE DEF SwitchedOut, Goes
<1>0. TaskInv(t) /\ (\A a \in Agents : on[a] = t => AgentInv(a))
  BY DEF Inv
<1>c. CoreType BY TypeIsCore DEF Inv
<1>1. UNCHANGED <<does, on>> BY DEF agentVars
<1>2. \A u \in Tasks \ {t} : Same(u) BY <1>c DEF Same, CoreType
<1>3. StateInv(t)' BY <1>0, <1>c DEF CoreType, TaskInv, StateInv
<1>4. ClaimInv(t)'
  BY <1>0, <1>c, ConstantsAssumption
     DEF CoreType, TaskInv, ClaimInv, StateInv, TokenInv, Claimed, Notified
<1>5. TokenInv(t)'
  BY <1>0, <1>c, <1>1
     DEF CoreType, TaskInv, StateInv, ClaimInv, TokenInv, Claimed, Notified, Wakes
<1>6. ReachInv(t)' BY <1>0, <1>c DEF CoreType, TaskInv, ClaimInv, ReachInv
<1>7. QueueInv(t)' BY <1>0, <1>c, <1>1 DEF CoreType, TaskInv, QueueInv, StateInv
<1>8. ASSUME NEW a \in Agents, on[a] = t PROVE AgentInv(a)'
  <2>1. AgentInv(a) /\ on'[a] = t /\ does'[a] = does[a] BY <1>0, <1>1, <1>8
  <2> QED
    BY <1>0, <1>8, <1>c, <2>1
       DEF CoreType, TaskInv, StateInv, AgentInv, Claimed, Notified, QueueInv
<1>9. TimersInv' BY DEF Inv, TimersInv
<1> QED BY <1>1, <1>2, <1>3, <1>4, <1>5, <1>6, <1>7, <1>8, <1>9, OnlyTask DEF TaskInv

LEMMA RequeueInv == ASSUME Inv, TypeOK', NEW t \in Tasks, Requeue(t) PROVE Inv'
<1> USE DEF Requeue, Goes
<1>0. TaskInv(t) /\ (\A a \in Agents : on[a] = t => AgentInv(a))
  BY DEF Inv
<1>c. CoreType BY TypeIsCore DEF Inv
<1>1. UNCHANGED <<does, on>> BY DEF agentVars
<1>2. \A u \in Tasks \ {t} : Same(u) BY <1>c DEF Same, CoreType
<1>3. StateInv(t)' BY <1>0, <1>c DEF CoreType, TaskInv, StateInv
<1>4. ClaimInv(t)'
  BY <1>0, <1>c, ConstantsAssumption
     DEF CoreType, TaskInv, ClaimInv, StateInv, TokenInv, Claimed, Notified
<1>5. TokenInv(t)'
  BY <1>0, <1>c, <1>1
     DEF CoreType, TaskInv, StateInv, ClaimInv, TokenInv, Claimed, Notified, Wakes
<1>6. ReachInv(t)' BY <1>0, <1>c DEF CoreType, TaskInv, ClaimInv, ReachInv
<1>7. QueueInv(t)' BY <1>0, <1>c, <1>1 DEF CoreType, TaskInv, QueueInv, StateInv
<1>8. ASSUME NEW a \in Agents, on[a] = t PROVE AgentInv(a)'
  <2>1. AgentInv(a) /\ on'[a] = t /\ does'[a] = does[a] BY <1>0, <1>1, <1>8
  <2> QED
    BY <1>0, <1>8, <1>c, <2>1
       DEF CoreType, TaskInv, StateInv, AgentInv, Claimed, Notified, QueueInv
<1>9. TimersInv' BY DEF Inv, TimersInv
<1> QED BY <1>1, <1>2, <1>3, <1>4, <1>5, <1>6, <1>7, <1>8, <1>9, OnlyTask DEF TaskInv

LEMMA UnpinInv == ASSUME Inv, TypeOK', NEW t \in Tasks, Unpin(t) PROVE Inv'
<1> USE DEF Unpin, Goes
<1>0. TaskInv(t) /\ (\A a \in Agents : on[a] = t => AgentInv(a))
  BY DEF Inv
<1>c. CoreType BY TypeIsCore DEF Inv
<1>1. UNCHANGED <<does, on>> BY DEF agentVars
<1>2. \A u \in Tasks \ {t} : Same(u) BY <1>c DEF Same, CoreType
<1>3. StateInv(t)' BY <1>0, <1>c DEF CoreType, TaskInv, StateInv
<1>4. ClaimInv(t)'
  BY <1>0, <1>c, ConstantsAssumption
     DEF CoreType, TaskInv, ClaimInv, StateInv, TokenInv, Claimed, Notified
<1>5. TokenInv(t)'
  BY <1>0, <1>c, <1>1
     DEF CoreType, TaskInv, StateInv, ClaimInv, TokenInv, Claimed, Notified, Wakes
<1>6. ReachInv(t)' BY <1>0, <1>c DEF CoreType, TaskInv, ClaimInv, ReachInv
<1>7. QueueInv(t)' BY <1>0, <1>c, <1>1 DEF CoreType, TaskInv, QueueInv, StateInv
<1>8. ASSUME NEW a \in Agents, on[a] = t PROVE AgentInv(a)'
  <2>1. AgentInv(a) /\ on'[a] = t /\ does'[a] = does[a] BY <1>0, <1>1, <1>8
  <2> QED
    BY <1>0, <1>8, <1>c, <2>1
       DEF CoreType, TaskInv, StateInv, AgentInv, Claimed, Notified, QueueInv
<1>9. TimersInv' BY DEF Inv, TimersInv
<1> QED BY <1>1, <1>2, <1>3, <1>4, <1>5, <1>6, <1>7, <1>8, <1>9, OnlyTask DEF TaskInv

LEMMA WokenInv == ASSUME Inv, TypeOK', NEW t \in Tasks, Woken(t) PROVE Inv'
<1> USE DEF Woken, Goes
<1>0. TaskInv(t) /\ (\A a \in Agents : on[a] = t => AgentInv(a))
  BY DEF Inv
<1>c. CoreType BY TypeIsCore DEF Inv
<1>1. UNCHANGED <<does, on>> BY DEF agentVars
<1>2. \A u \in Tasks \ {t} : Same(u) BY <1>c DEF Same, CoreType
<1>3. StateInv(t)' BY <1>0, <1>c DEF CoreType, TaskInv, StateInv
<1>4. ClaimInv(t)'
  BY <1>0, <1>c, ConstantsAssumption
     DEF CoreType, TaskInv, ClaimInv, StateInv, TokenInv, Claimed, Notified
<1>5. TokenInv(t)'
  BY <1>0, <1>c, <1>1
     DEF CoreType, TaskInv, StateInv, ClaimInv, TokenInv, Claimed, Notified, Wakes
<1>6. ReachInv(t)' BY <1>0, <1>c DEF CoreType, TaskInv, ClaimInv, ReachInv
<1>7. QueueInv(t)' BY <1>0, <1>c, <1>1 DEF CoreType, TaskInv, QueueInv, StateInv
<1>8. ASSUME NEW a \in Agents, on[a] = t PROVE AgentInv(a)'
  <2>1. AgentInv(a) /\ on'[a] = t /\ does'[a] = does[a] BY <1>0, <1>1, <1>8
  <2> QED
    BY <1>0, <1>8, <1>c, <2>1
       DEF CoreType, TaskInv, StateInv, AgentInv, Claimed, Notified, QueueInv
<1>9. TimersInv' BY DEF Inv, TimersInv
<1> QED BY <1>1, <1>2, <1>3, <1>4, <1>5, <1>6, <1>7, <1>8, <1>9, OnlyTask DEF TaskInv

LEMMA LeaveInv == ASSUME Inv, TypeOK', NEW t \in Tasks, Leave(t) PROVE Inv'
<1> USE DEF Leave, Goes
<1>0. TaskInv(t) /\ (\A a \in Agents : on[a] = t => AgentInv(a))
  BY DEF Inv
<1>c. CoreType BY TypeIsCore DEF Inv
<1>1. UNCHANGED <<does, on>> BY DEF agentVars
<1>2. \A u \in Tasks \ {t} : Same(u) BY <1>c DEF Same, CoreType
<1>3. StateInv(t)' BY <1>0, <1>c DEF CoreType, TaskInv, StateInv
<1>4. ClaimInv(t)'
  BY <1>0, <1>c, ConstantsAssumption
     DEF CoreType, TaskInv, ClaimInv, StateInv, TokenInv, Claimed, Notified
<1>5. TokenInv(t)'
  BY <1>0, <1>c, <1>1
     DEF CoreType, TaskInv, StateInv, ClaimInv, TokenInv, Claimed, Notified, Wakes
<1>6. ReachInv(t)' BY <1>0, <1>c DEF CoreType, TaskInv, ClaimInv, ReachInv
<1>7. QueueInv(t)' BY <1>0, <1>c, <1>1 DEF CoreType, TaskInv, QueueInv, StateInv
<1>8. ASSUME NEW a \in Agents, on[a] = t PROVE AgentInv(a)'
  <2>1. AgentInv(a) /\ on'[a] = t /\ does'[a] = does[a] BY <1>0, <1>1, <1>8
  <2> QED
    BY <1>0, <1>8, <1>c, <2>1
       DEF CoreType, TaskInv, StateInv, AgentInv, Claimed, Notified, QueueInv
<1>9. TimersInv' BY DEF Inv, TimersInv
<1> QED BY <1>1, <1>2, <1>3, <1>4, <1>5, <1>6, <1>7, <1>8, <1>9, OnlyTask DEF TaskInv

LEMMA GiveWayInv == ASSUME Inv, TypeOK', NEW t \in Tasks, GiveWay(t) PROVE Inv'
<1> USE DEF GiveWay, Goes
<1>0. TaskInv(t) /\ (\A a \in Agents : on[a] = t => AgentInv(a))
  BY DEF Inv
<1>c. CoreType BY TypeIsCore DEF Inv
<1>1. UNCHANGED <<does, on>> BY DEF agentVars
<1>2. \A u \in Tasks \ {t} : Same(u) BY <1>c DEF Same, CoreType
<1>3. StateInv(t)' BY <1>0, <1>c DEF CoreType, TaskInv, StateInv
<1>4. ClaimInv(t)'
  BY <1>0, <1>c, ConstantsAssumption
     DEF CoreType, TaskInv, ClaimInv, StateInv, TokenInv, Claimed, Notified
<1>5. TokenInv(t)'
  BY <1>0, <1>c, <1>1
     DEF CoreType, TaskInv, StateInv, ClaimInv, TokenInv, Claimed, Notified, Wakes
<1>6. ReachInv(t)' BY <1>0, <1>c DEF CoreType, TaskInv, ClaimInv, ReachInv
<1>7. QueueInv(t)' BY <1>0, <1>c, <1>1 DEF CoreType, TaskInv, QueueInv, StateInv
<1>8. ASSUME NEW a \in Agents, on[a] = t PROVE AgentInv(a)'
  <2>1. AgentInv(a) /\ on'[a] = t /\ does'[a] = does[a] BY <1>0, <1>1, <1>8
  <2> QED
    BY <1>0, <1>8, <1>c, <2>1
       DEF CoreType, TaskInv, StateInv, AgentInv, Claimed, Notified, QueueInv
<1>9. TimersInv' BY DEF Inv, TimersInv
<1> QED BY <1>1, <1>2, <1>3, <1>4, <1>5, <1>6, <1>7, <1>8, <1>9, OnlyTask DEF TaskInv

LEMMA NotifyInv == ASSUME Inv, TypeOK', NEW a \in Agents, Notify(a) PROVE Inv'
<1> PICK t \in Tasks : t = on[a]
  BY DEF Inv, TypeOK
<1>0. /\ does[a] = "notify" /\ t \in Tasks /\ TaskInv(t) /\ AgentInv(a)
      /\ does \in [Agents -> Steps] /\ OneEnds /\ CoreType
  BY TypeIsCore DEF Notify, GoesOn, Inv, TypeOK
<1>1. UNCHANGED <<pc, wait, fired, waiting, listed, timers, queued, on>>
  BY DEF Notify, GoesOn
<1>2. pc[t] \in WaitPcs /\ Claimed(t) /\ ~Notified(t) BY <1>0 DEF AgentInv
<1>3. /\ state'[t] = IF state[t] \in {"PARKED", "PINNED"} THEN "RUNNING" ELSE "NOTIFIED"
      /\ \A u \in Tasks \ {t} : state'[u] = state[u]
  BY <1>0 DEF Notify, CoreType
<1>4. /\ does'[a] = IF state[t] = "PARKED" THEN "schedule" ELSE "idle"
      /\ \A b \in Agents \ {a} : does'[b] = does[b]
  BY <1>0 DEF Notify, GoesOn
<1>5. \A b \in Agents \ {a} : does[b] \in Ending => on[b] # t
  BY <1>0 DEF OneEnds, Ending
<1>6. \/ pc[t] \in {"begun", "timed", "park"} /\ state[t] = "RUNNING"
      \/ pc[t] = "switched" /\ state[t] = "PARKING"
      \/ pc[t] = "parked" /\ state[t] = "PARKED"
      \/ pc[t] = "pinned" /\ state[t] = "PINNED"
  BY <1>0, <1>2 DEF TaskInv, StateInv, Notified
<1>7. Notified(t)' BY <1>1, <1>3, <1>6 DEF Notified
<1>8. Claimed(t)' BY <1>1, <1>2 DEF Claimed
<1>9. TaskInv(t)'
  <2>1. StateInv(t)' BY <1>1, <1>3, <1>6 DEF StateInv
  <2>2. ClaimInv(t)' /\ ReachInv(t)' BY <1>0, <1>1 DEF TaskInv, ClaimInv, ReachInv
  <2>3. TokenInv(t)' BY <1>7, <1>8 DEF TokenInv
  <2>4. QueueInv(t)' BY <1>0, <1>1, <1>3, <1>4, <1>6 DEF TaskInv, QueueInv
  <2> QED BY <2>1, <2>2, <2>3, <2>4 DEF TaskInv
<1>10. ASSUME NEW u \in Tasks, u # t PROVE TaskInv(u)'
  <2>1. TaskInv(u) /\ state'[u] = state[u] BY <1>3, <1>10 DEF Inv
  <2>2. StateInv(u)' /\ ClaimInv(u)' /\ ReachInv(u)'
    BY <1>1, <2>1 DEF TaskInv, StateInv, ClaimInv, ReachInv
  <2>3. TokenInv(u)'
    BY <1>0, <1>1, <1>4, <1>10, <2>1 DEF TaskInv, TokenInv, Claimed, Notified, Wakes
  <2>4. QueueInv(u)' BY <1>0, <1>1, <1>4, <1>10, <2>1 DEF TaskInv, QueueInv
  <2> QED BY <2>2, <2>3, <2>4 DEF TaskInv
<1>11. ASSUME NEW b \in Agents PROVE AgentInv(b)'
  <2>1. CASE b = a
    <3>1. CASE state[t] = "PARKED"
      <4>1. pc[t] = "parked" /\ state'[t] = "RUNNING" BY <1>3, <1>6, <3>1
      <4>2. queued[t] = 0 BY <1>0, <3>1, <4>1 DEF TaskInv, QueueInv
      <4> QED BY <1>1, <1>4, <1>8, <2>1, <3>1, <4>1, <4>2 DEF AgentInv
    <3>2. CASE state[t] # "PARKED" BY <1>4, <2>1, <3>2 DEF AgentInv
    <3> QED BY <3>1, <3>2
  <2>2. CASE b # a
    <3>1. AgentInv(b) /\ does'[b] = does[b] /\ on'[b] = on[b] /\ on[b] \in Tasks
      BY <1>1, <1>4, <2>2 DEF Inv, TypeOK
    <3>2. CASE does[b] \in Ending
      <4>1. state'[on[b]] = state[on[b]] BY <1>3, <1>5, <2>2, <3>1, <3>2
      <4> QED BY <1>1, <3>1, <4>1 DEF AgentInv, Claimed, Notified
    <3>3. CASE does[b] \notin Ending BY <3>1, <3>3 DEF AgentInv, Ending
    <3> QED BY <3>2, <3>3
  <2> QED BY <2>1, <2>2
<1>12. OneEnds'
  <2>1. \A b \in Agents : does'[b] \in Ending => does[b] \in Ending BY <1>0, <1>4 DEF Ending
  <2> QED BY <1>0, <1>1, <2>1 DEF OneEnds, Ending
<1>13. TimersInv' BY <1>1 DEF Inv, TimersInv
<1> QED BY <1>9, <1>10, <1>11, <1>12, <1>13 DEF Inv

LEMMA ScheduleInv == ASSUME Inv, TypeOK', NEW a \in Agents, Schedule(a) PROVE Inv'
<1> PICK t \in Tasks : t = on[a]
  BY DEF Inv, TypeOK
<1>0. /\ does[a] = "schedule" /\ t \in Tasks /\ TaskInv(t) /\ AgentInv(a)
      /\ does \in [Agents -> Steps] /\ OneEnds /\ CoreType
  BY TypeIsCore DEF Schedule, GoesOn, Inv, TypeOK
<1>1. UNCHANGED <<pc, state, wait, fired, waiting, listed, timers, on>>
  BY DEF Schedule, GoesOn
<1>2. pc[t] = "parked" /\ state[t] = "RUNNING" /\ queued[t] = 0 /\ Claimed(t)
  BY <1>0 DEF AgentInv
<1>3. queued'[t] = 1 /\ \A u \in Tasks \ {t} : queued'[u] = queued[u]
  BY <1>0, <1>2 DEF Schedule, CoreType
<1>4. does'[a] = "idle" /\ \A b \in Agents \ {a} : does'[b] = does[b]
  BY <1>0 DEF Schedule, GoesOn
<1>5. \A b \in Agents \ {a} : does[b] \in Ending => on[b] # t
  BY <1>0 DEF OneEnds, Ending
<1>6. ASSUME NEW u \in Tasks PROVE TaskInv(u)'
  <2>1. TaskInv(u) BY DEF Inv
  <2>2. StateInv(u)' /\ ClaimInv(u)' /\ ReachInv(u)'
    BY <1>1, <2>1 DEF TaskInv, StateInv, ClaimInv, ReachInv
  <2>3. TokenInv(u)'
    BY <1>0, <1>1, <1>4, <2>1 DEF TaskInv, TokenInv, Claimed, Notified, Wakes
  <2>4. QueueInv(u)'
    <3>1. CASE u = t BY <1>1, <1>2, <1>3, <3>1 DEF QueueInv
    <3>2. CASE u # t BY <1>0, <1>1, <1>3, <1>4, <2>1, <3>2 DEF TaskInv, QueueInv
    <3> QED BY <3>1, <3>2
  <2> QED BY <2>2, <2>3, <2>4 DEF TaskInv
<1>7. ASSUME NEW b \in Agents PROVE AgentInv(b)'
  <2>1. CASE b = a BY <1>4, <2>1 DEF AgentInv
  <2>2. CASE b # a
    <3>1. AgentInv(b) /\ does'[b] = does[b] /\ on'[b] = on[b] /\ on[b] \in Tasks
      BY <1>1, <1>4, <2>2 DEF Inv, TypeOK
    <3>2. CASE does[b] \in Ending
      <4>1. queued'[on[b]] = queued[on[b]] BY <1>3, <1>5, <2>2, <3>1, <3>2
      <4> QED BY <1>1, <3>1, <4>1 DEF AgentInv, Claimed, Notified
    <3>3. CASE does[b] \notin Ending BY <3>1, <3>3 DEF AgentInv, Ending
    <3> QED BY <3>2, <3>3
  <2> QED BY <2>1, <2>2
<1>8. OneEnds'
  <2>1. \A b \in Agents : does'[b] \in Ending => does[b] \in Ending BY <1>0, <1>4 DEF Ending
  <2> QED BY <1>0, <1>1, <2>1 DEF OneEnds, Ending
<1>9. TimersInv' BY <1>1 DEF Inv, TimersInv
<1> QED BY <1>6, <1>7, <1>8, <1>9 DEF Inv

-----------------------------------------------------------------------------
(***************************************************************************)
(* Every step.                                                             *)
(***************************************************************************)
LEMMA TaskStepInv == ASSUME Inv, TypeOK', NEW t \in Tasks, TaskStep(t) PROVE Inv'
<1> USE DEF CodePcs, Goes, agentVars, taskVars
<1>1. CASE Run(t) BY <1>1, RunInv
<1>2. CASE Deadline(t) BY <1>2, DeadlineInv
<1>3. CASE Arm(t) BY <1>3, ArmInv
<1>4. CASE Park(t) BY <1>4, ParkInv
<1>5. CASE Unnotify(t) BY <1>5, UnnotifyInv
<1>6. CASE SwitchedOut(t) BY <1>6, SwitchedOutInv
<1>7. CASE Requeue(t) BY <1>7, RequeueInv
<1>8. CASE Unpin(t) BY <1>8, UnpinInv
<1>9. CASE Woken(t) BY <1>9, WokenInv
<1>10. CASE Leave(t) BY <1>10, LeaveInv
<1>11. CASE Check(t) BY <1>11, CodeStep DEF Check
<1>12. CASE Asked(t) BY <1>12, CodeStep DEF Asked
<1>13. CASE Take(t) BY <1>13, CodeStep DEF Take
<1>14. CASE DeferStarts(t) BY <1>14, CodeStep DEF DeferStarts
<1>15. CASE DeferEnds(t) BY <1>15, CodeStep DEF DeferEnds
<1>16. CASE RecoverEnds(t) BY <1>16, CodeStep DEF RecoverEnds
<1>17. CASE Finish(t) BY <1>17, CodeStep DEF Finish
<1>18. CASE Unregister(t) BY <1>18, CodeStep DEF Unregister
<1>19. CASE Unwind(t) BY <1>19, CodeStep DEF Unwind, Ends
<1> QED
  BY <1>1, <1>2, <1>3, <1>4, <1>5, <1>6, <1>7, <1>8, <1>9, <1>10, <1>11, <1>12, <1>13,
     <1>14, <1>15, <1>16, <1>17, <1>18, <1>19 DEF TaskStep

\* Nothing of a wait changes.
LEMMA WaitlessStep ==
  ASSUME Inv, TypeOK', UNCHANGED <<taskVars, does, on>>
  PROVE  Inv'
<1>1. ASSUME NEW t \in Tasks PROVE TaskInv(t)'
  <2>1. TaskInv(t) BY DEF Inv
  <2>2. StateInv(t)' BY <2>1 DEF TaskInv, StateInv, taskVars
  <2>3. ClaimInv(t)' BY <2>1 DEF TaskInv, ClaimInv, taskVars
  <2>4. TokenInv(t)' BY <2>1 DEF TaskInv, TokenInv, Claimed, Notified, Wakes, taskVars
  <2>5. ReachInv(t)' BY <2>1 DEF TaskInv, ReachInv, taskVars
  <2>6. QueueInv(t)' BY <2>1 DEF TaskInv, QueueInv, taskVars
  <2> QED BY <2>2, <2>3, <2>4, <2>5, <2>6 DEF TaskInv
<1>2. ASSUME NEW a \in Agents PROVE AgentInv(a)'
  <2>1. AgentInv(a) BY DEF Inv
  <2> QED BY <2>1 DEF AgentInv, Claimed, Notified, taskVars
<1>3. OneEnds' BY DEF Inv, OneEnds
<1>4. TimersInv' BY DEF Inv, TimersInv, taskVars
<1> QED BY <1>1, <1>2, <1>3, <1>4 DEF Inv

LEMMA BodyStepInv ==
  ASSUME Inv, TypeOK', NEW t \in Tasks, BodyStep(t) \/ DeadlinePasses(t) PROVE Inv'
<1>1. CASE Begin(t) BY <1>1, BeginInv
<1>2. CASE WithinEnter(t) BY <1>2, WaitlessStep DEF WithinEnter, agentVars
<1>3. CASE WithinLeave(t) BY <1>3, WaitlessStep DEF WithinLeave, agentVars
<1>4. CASE GiveWay(t) BY <1>4, GiveWayInv
<1>5. CASE EndBody(t) BY <1>5, CodeStep DEF EndBody, Ends, CodePcs, Goes, agentVars
<1>6. CASE DeadlinePasses(t) BY <1>6, WaitlessStep DEF DeadlinePasses, agentVars
<1> QED BY <1>1, <1>2, <1>3, <1>4, <1>5, <1>6 DEF BodyStep

LEMMA AgentStartsInv == ASSUME Inv, TypeOK', NEW a \in Agents, AgentStarts(a) PROVE Inv'
<1> USE DEF Starts, Ending
<1>0. on \in [Agents -> Tasks] /\ wait \in [Tasks -> 0 .. MaxWaits] /\ MaxWaits \in Nat
  BY ConstantsAssumption DEF Inv, TypeOK
<1>1. PICK t \in Tasks :
        \/ OpClaims(a, t) \/ CancelStarts(a, t) \/ AlarmStarts(a, t) \/ AgainLooksUp(a, t)
        \/ \E n \in Waits, index \in {"op", "DEADLINE"} : TimerFires(a, t, n, index)
  BY DEF AgentStarts
<1>2. TaskInv(t) /\ TimersInv BY DEF Inv
<1>3. CASE OpClaims(a, t)
  <2>1. wait[t] \in Waits /\ fired[t][wait[t]] = "NONE" /\ pc[t] \in WaitPcs
    BY <1>2, <1>3 DEF OpClaims, Unclaimed, TaskInv, ReachInv, ClaimInv
  <2> QED BY <1>3, <2>1, ClaimStep DEF OpClaims, Claim
<1>4. CASE CancelStarts(a, t) BY <1>0, <1>4, QuietAgent DEF CancelStarts, taskVars
<1>5. CASE AlarmStarts(a, t) BY <1>0, <1>5, QuietAgent DEF AlarmStarts, taskVars
<1>6. CASE AgainLooksUp(a, t) BY <1>0, <1>6, QuietAgent DEF AgainLooksUp, taskVars
<1>7. ASSUME NEW n \in Waits, NEW index \in {"op", "DEADLINE"}, TimerFires(a, t, n, index)
      PROVE  Inv'
  <2>1. CASE Unclaimed(t, n)
    <3>a. n <= wait[t] BY <1>2, <1>7 DEF TimerFires, TimersInv
    <3>b. ~(n < wait[t]) BY <1>2, <2>1 DEF Unclaimed, TaskInv, ClaimInv
    <3>c. wait[t] \in Nat /\ n \in Nat BY <1>0
    <3>d. n = wait[t] BY ONLY <3>a, <3>b, <3>c
    <3>1. n = wait[t] /\ pc[t] \in WaitPcs
      BY <1>2, <2>1, <3>d DEF Unclaimed, TaskInv, ClaimInv
    <3>2. index \in Indices \ {"NONE"} OBVIOUS
    <3> QED BY <1>7, <2>1, <3>1, <3>2, ClaimStep DEF TimerFires, Unclaimed, Claim
  <2>2. CASE ~Unclaimed(t, n)
    <3>1. UNCHANGED <<pc, state, wait, fired, waiting, listed, queued, does, on>>
          /\ timers' \subseteq timers
      BY <1>7, <2>2 DEF TimerFires, agentVars
    <3>2. ASSUME NEW u \in Tasks PROVE TaskInv(u)'
      BY <3>1 DEF Inv, TaskInv, StateInv, ClaimInv, TokenInv, ReachInv, QueueInv, Claimed,
                  Notified, Wakes
    <3>3. ASSUME NEW b \in Agents PROVE AgentInv(b)'
      BY <3>1 DEF Inv, AgentInv, Claimed, Notified
    <3>4. OneEnds' BY <3>1 DEF Inv, OneEnds
    <3>5. TimersInv' BY <3>1 DEF Inv, TimersInv
    <3> QED BY <3>2, <3>3, <3>4, <3>5 DEF Inv
  <2> QED BY <2>1, <2>2
<1> QED BY <1>1, <1>3, <1>4, <1>5, <1>6, <1>7

LEMMA AgentStepInv == ASSUME Inv, TypeOK', NEW a \in Agents, AgentStep(a) PROVE Inv'
<1> USE DEF GoesOn, Ending
<1>0. on[a] \in Tasks /\ on = [on EXCEPT ![a] = on[a]] /\ TaskInv(on[a])
  BY DEF Inv, TypeOK
<1>d. does[a] \in Steps /\ does \in [Agents -> Steps] BY DEF Inv, TypeOK
<1>w. waiting[on[a]] # 0 => waiting[on[a]] = wait[on[a]] /\ pc[on[a]] \in WaitPcs
  BY <1>0 DEF TaskInv, ReachInv
<1>1. CASE CancelSwaps(a) BY <1>1, QuietAgent DEF CancelSwaps, taskVars
<1>2. CASE CancelLess(a) BY <1>2, QuietAgent DEF CancelLess, taskVars
<1>3. CASE ClaimsWaiting(a)
  <2>1. CASE does' = [does EXCEPT ![a] = "notify"]
    <3>1. /\ waiting[on[a]] # 0 /\ fired[on[a]][waiting[on[a]]] = "NONE"
          /\ fired' = [fired EXCEPT ![on[a]][waiting[on[a]]] = "CANCELLED"]
      <4>1. does' # [does EXCEPT ![a] = "idle"]
        BY <1>d, <2>1
      <4> QED BY <1>3, <2>1, <4>1 DEF ClaimsWaiting, Claim, Unclaimed
    <3>2. /\ pc[on[a]] \in WaitPcs /\ fired[on[a]][wait[on[a]]] = "NONE"
          /\ fired' = [fired EXCEPT ![on[a]][wait[on[a]]] = "CANCELLED"]
      BY <1>w, <3>1
    <3>3. /\ does[a] \notin Ending /\ on' = [on EXCEPT ![a] = on[a]] /\ timers' \subseteq timers
          /\ listed' = listed /\ UNCHANGED <<pc, state, wait, waiting, queued>>
      BY <1>0, <1>3 DEF ClaimsWaiting
    <3>4. "CANCELLED" \in Indices \ {"NONE"} OBVIOUS
    <3> HIDE DEF Ending, GoesOn
    <3> QED BY <1>0, <2>1, <3>2, <3>3, <3>4, ClaimStep
  <2>2. CASE does' = [does EXCEPT ![a] = "idle"] /\ fired' = fired
    BY <1>3, <2>2, QuietAgent DEF ClaimsWaiting
  <2> QED BY <1>3, <2>1, <2>2 DEF ClaimsWaiting
<1>4. CASE AlarmRings(a) BY <1>4, QuietAgent DEF AlarmRings, taskVars
<1>5. CASE AlarmMore(a) BY <1>5, QuietAgent DEF AlarmMore, taskVars
<1>6. CASE AgainClaims(a)
  <2>1. CASE does' = [does EXCEPT ![a] = "notify"]
    <3>1. /\ waiting[on[a]] # 0 /\ fired[on[a]][waiting[on[a]]] = "NONE"
          /\ fired' = [fired EXCEPT ![on[a]][waiting[on[a]]] = "CANCELLED"]
      <4>1. does' # [does EXCEPT ![a] = "idle"]
        BY <1>d, <2>1
      <4> QED BY <1>6, <2>1, <4>1 DEF AgainClaims, Claim, Unclaimed
    <3>2. /\ pc[on[a]] \in WaitPcs /\ fired[on[a]][wait[on[a]]] = "NONE"
          /\ fired' = [fired EXCEPT ![on[a]][wait[on[a]]] = "CANCELLED"]
      BY <1>w, <3>1
    <3>3. /\ does[a] \notin Ending /\ on' = [on EXCEPT ![a] = on[a]] /\ timers' \subseteq timers
          /\ listed' = listed /\ UNCHANGED <<pc, state, wait, waiting, queued>>
      BY <1>0, <1>6 DEF AgainClaims
    <3>4. "CANCELLED" \in Indices \ {"NONE"} OBVIOUS
    <3> HIDE DEF Ending, GoesOn
    <3> QED BY <1>0, <2>1, <3>2, <3>3, <3>4, ClaimStep
  <2>2. CASE does' = [does EXCEPT ![a] = "idle"] /\ fired' = fired
    BY <1>6, <2>2, QuietAgent DEF AgainClaims
  <2> QED BY <1>6, <2>1, <2>2 DEF AgainClaims
<1>7. CASE Notify(a) BY <1>7, NotifyInv
<1>8. CASE Schedule(a) BY <1>8, ScheduleInv
<1> QED BY <1>1, <1>2, <1>3, <1>4, <1>5, <1>6, <1>7, <1>8 DEF AgentStep

LEMMA InvStep == Inv /\ [Next]_vars => Inv'
<1> SUFFICES ASSUME Inv, [Next]_vars PROVE Inv'
  OBVIOUS
<1>1. TypeOK' BY TypeStep
<1>2. CASE UNCHANGED vars BY <1>1, <1>2, WaitlessStep DEF vars, agentVars
<1>3. ASSUME NEW t \in Tasks, TaskStep(t) PROVE Inv' BY <1>1, <1>3, TaskStepInv
<1>4. ASSUME NEW t \in Tasks, BodyStep(t) \/ DeadlinePasses(t) PROVE Inv'
  BY <1>1, <1>4, BodyStepInv
<1>5. ASSUME NEW a \in Agents, AgentStarts(a) PROVE Inv' BY <1>1, <1>5, AgentStartsInv
<1>6. ASSUME NEW a \in Agents, AgentStep(a) PROVE Inv' BY <1>1, <1>6, AgentStepInv
<1> QED BY <1>2, <1>3, <1>4, <1>5, <1>6 DEF Next

-----------------------------------------------------------------------------
(***************************************************************************)
(* Theorems.                                                               *)
(***************************************************************************)
THEOREM Invariance == Spec => []Inv
<1>1. Init => Inv BY InitInv
<1>2. Inv /\ [Next]_vars => Inv' BY InvStep
<1> QED BY <1>1, <1>2, PTL DEF Spec

\* Every variable keeps its type, whatever the tasks and the threads do: the
\* fields of `Task` and `Wait` hold what their code expects.
THEOREM TypesHold == Spec => []TypeOK
<1>1. Inv => TypeOK BY DEF Inv
<1> QED BY <1>1, Invariance, PTL

\* A thread that claimed a wait finds the task in that wait until it notified
\* it and made it runnable: `notify_with` never touches a task that went on,
\* ended and was freed.
THEOREM ClaimersFindTheirTask == Spec => []ClaimerFindsTask
<1>1. Inv => ClaimerFindsTask
  <2> SUFFICES ASSUME Inv, NEW t \in Tasks, NEW a \in Notifiers(t) \cup Schedulers(t)
               PROVE  pc[t] \in WaitPcs /\ ~Unclaimed(t, wait[t])
    BY DEF ClaimerFindsTask
  <2>1. a \in Agents /\ on[a] = t /\ does[a] \in Ending
    BY DEF Notifiers, Schedulers, Ending
  <2>2. AgentInv(a) BY <2>1 DEF Inv
  <2> QED BY <2>1, <2>2 DEF AgentInv, Claimed, Unclaimed, Ending
<1> QED BY <1>1, Invariance, PTL

\* A task switched out of a wait that was claimed has a thread that is about
\* to notify it: `park`, `run` and `notify_with` lose no wake.
THEOREM WakesAreNotLost == Spec => []WakePending
<1>1. Inv => WakePending
  <2> SUFFICES ASSUME Inv, NEW t \in Tasks, pc[t] \in {"parked", "pinned"},
                      state[t] \in {"PARKED", "PINNED"}, ~Unclaimed(t, wait[t])
               PROVE  Notifiers(t) # {}
    BY DEF WakePending
  <2>1. ClaimInv(t) /\ TokenInv(t) BY DEF Inv, TaskInv
  <2>2. Claimed(t) /\ ~Notified(t) BY <2>1 DEF ClaimInv, Claimed, Notified, Unclaimed
  <2>3. Wakes(t) BY <2>1, <2>2 DEF TokenInv
  <2> QED BY <2>3 DEF Wakes, Notifiers
<1> QED BY <1>1, Invariance, PTL

\* A task that runs its code has no notification left over from a wait that
\* ended and none on its way: the next `park` ends only for its own wait.
THEOREM WakesAreNotLeft == Spec => []NoStrayWake
<1>1. Inv => NoStrayWake
  <2> SUFFICES ASSUME Inv, NEW t \in Tasks, pc[t] \in {"body", "begun", "timed"},
                      pc[t] = "body" \/ Unclaimed(t, wait[t])
               PROVE  state[t] = "RUNNING" /\ Notifiers(t) = {} /\ Schedulers(t) = {}
    BY DEF NoStrayWake
  <2>1. StateInv(t) /\ TokenInv(t) BY DEF Inv, TaskInv
  <2>2. state[t] = "RUNNING"
    BY <2>1 DEF StateInv, TokenInv, Notified, Claimed, Unclaimed
  <2>3. ASSUME NEW a \in Agents, does[a] \in Ending, on[a] = t PROVE FALSE
    <3>1. AgentInv(a) BY DEF Inv
    <3> QED BY <2>3, <3>1 DEF AgentInv, Claimed, Unclaimed, Ending
  <2> QED BY <2>2, <2>3 DEF Notifiers, Schedulers, Ending
<1> QED BY <1>1, Invariance, PTL

\* A task is in one place, so no two workers run it at once: it has one entry
\* in the run queues, or one thread about to make it runnable, exactly while
\* it is to run and no worker runs it.
THEOREM TasksAreInOnePlace == Spec => []OnePlace
<1>1. Inv => OnePlace
  <2> SUFFICES ASSUME Inv, NEW t \in Tasks
               PROVE  queued[t] + Cardinality(Schedulers(t)) =
                        IF pc[t] = "ready" \/ (pc[t] = "parked" /\ state[t] # "PARKED")
                          THEN 1 ELSE 0
    BY DEF OnePlace
  <2>1. QueueInv(t) /\ StateInv(t) BY DEF Inv, TaskInv
  <2>2. ASSUME NEW a \in Schedulers(t)
        PROVE  pc[t] = "parked" /\ state[t] = "RUNNING" /\ queued[t] = 0
               /\ Cardinality(Schedulers(t)) = 1
    <3>1. a \in Agents /\ does[a] = "schedule" /\ on[a] = t BY <2>2 DEF Schedulers
    <3>2. AgentInv(a) BY <3>1 DEF Inv
    <3>3. Schedulers(t) = {a} BY <2>2, <3>1 DEF Inv, OneEnds, Schedulers
    <3>4. Cardinality(Schedulers(t)) = 1 BY <3>3, FS_Singleton
    <3> QED BY <3>1, <3>2, <3>4 DEF AgentInv
  <2>3. CASE \E a \in Agents : a \in Schedulers(t) BY <2>2, <2>3
  <2>4. CASE Schedulers(t) = {}
    <3>1. Cardinality(Schedulers(t)) = 0 BY <2>4, FS_EmptySet
    <3>2. pc[t] = "parked" => state[t] \in {"PARKED", "RUNNING"} BY <2>1 DEF StateInv
    <3>3. ~ (\E a \in Agents : does[a] = "schedule" /\ on[a] = t) BY <2>4 DEF Schedulers
    <3>4. queued[t] = IF pc[t] = "ready" \/ (pc[t] = "parked" /\ state[t] # "PARKED")
                        THEN 1 ELSE 0
      BY <2>1, <3>2, <3>3 DEF QueueInv
    <3> QED BY <3>1, <3>4
  <2> QED BY <2>3, <2>4 DEF Schedulers
<1> QED BY <1>1, Invariance, PTL

-----------------------------------------------------------------------------
(***************************************************************************)
(* The task a thread stops is alive.                                       *)
(***************************************************************************)
LastPcs == {"finished", "unregister", "freed"}
StopSteps == {"swap", "less", "ring", "more", "claim"}

\* What an agent that stops a task holds, and what the task waits for before
\* it ends.
AliveInv ==
  /\ \A a \in Agents : does[a] \in StopSteps => kind[a] \in {"cancel", "alarm"}
  /\ \A a \in Agents : KeepsAlive(a, on[a]) => pc[on[a]] # "freed"
  /\ \A a \in Agents : HoldsOwner(a, on[a]) => recovering[on[a]]
  /\ \A t \in Tasks : recovering[t] => pc[t] \notin LastPcs

\* A step of the task before its end.
LEMMA AliveCode ==
  ASSUME TypeOK, AliveInv, NEW t \in Tasks, NEW place \in TaskPcs \ LastPcs,
         pc' = [pc EXCEPT ![t] = place],
         UNCHANGED <<recovering, does, kind, on>>
  PROVE  AliveInv'
<1>1. \A u \in Tasks : pc'[u] = IF u = t THEN place ELSE pc[u] BY DEF TypeOK
<1>2. \A a \in Agents : on[a] \in Tasks BY DEF TypeOK
<1> QED BY <1>1, <1>2 DEF AliveInv, KeepsAlive, HoldsOwner, LastPcs

\* A step of an agent: it goes on with what it started, or is done.
LEMMA AliveGoesOn ==
  ASSUME TypeOK, AliveInv, NEW a \in Agents, NEW from \in Steps \ {"idle"}, NEW to \in Steps,
         GoesOn(a, from, to), UNCHANGED <<pc, recovering>>,
         to \in StopSteps => from \in StopSteps
  PROVE  AliveInv'
<1>1. \A b \in Agents : does'[b] = IF b = a THEN to ELSE does[b] BY DEF TypeOK, GoesOn
<1>2. \A b \in Agents : kind'[b] = IF b = a /\ to = "idle" THEN "op" ELSE kind[b]
  BY DEF TypeOK, GoesOn
<1>3. does[a] = from /\ on' = on BY DEF GoesOn
<1> QED BY <1>1, <1>2, <1>3 DEF AliveInv, KeepsAlive, HoldsOwner, StopSteps

\* An agent starts an operation on a task.
LEMMA AliveStarts ==
  ASSUME TypeOK, AliveInv, NEW a \in Agents, NEW t \in Tasks, NEW step \in Steps,
         NEW k \in {"op"} \cup AllKinds,
         Starts(a, k, t, step), UNCHANGED <<pc, recovering>>,
         step \in StopSteps => k \in {"cancel", "alarm"},
         k = "cancel" => pc[t] # "freed",
         k = "alarm" => recovering[t]
  PROVE  AliveInv'
<1>1. \A b \in Agents : /\ does'[b] = IF b = a THEN step ELSE does[b]
                        /\ kind'[b] = IF b = a THEN k ELSE kind[b]
                        /\ on'[b] = IF b = a THEN t ELSE on[b]
  BY DEF TypeOK, Starts
<1> QED BY <1>1 DEF AliveInv, KeepsAlive, HoldsOwner

LEMMA AliveStep == TypeOK /\ AliveInv /\ [Next]_vars => AliveInv'
<1> SUFFICES ASSUME TypeOK, AliveInv, [Next]_vars PROVE AliveInv'
  OBVIOUS
<1> USE DEF taskVars, flagVars, blockVars, agentVars
<1>1. ASSUME NEW t \in Tasks, TaskStep(t) PROVE AliveInv'
  <2> DEFINE Code == /\ \E place \in TaskPcs \ LastPcs : pc' = [pc EXCEPT ![t] = place]
                     /\ UNCHANGED <<recovering, does, kind, on>>
  <2>1. Code => AliveInv' BY AliveCode
  <2> USE DEF Goes, TaskPcs, WaitPcs, LastPcs
  <2>2. CASE Run(t)
    <3>1. Code BY <2>2 DEF Run
    <3> QED BY ONLY <2>1, <3>1
  <2>3. CASE Deadline(t)
    <3>1. Code BY <2>3 DEF Deadline
    <3> QED BY ONLY <2>1, <3>1
  <2>4. CASE Arm(t)
    <3>1. Code BY <2>4 DEF Arm
    <3> QED BY ONLY <2>1, <3>1
  <2>5. CASE Park(t)
    <3>1. Code BY <2>5 DEF Park
    <3> QED BY ONLY <2>1, <3>1
  <2>6. CASE Unnotify(t)
    <3>1. Code BY <2>6 DEF Unnotify
    <3> QED BY ONLY <2>1, <3>1
  <2>7. CASE SwitchedOut(t)
    <3>1. Code BY <2>7 DEF SwitchedOut
    <3> QED BY ONLY <2>1, <3>1
  <2>8. CASE Requeue(t)
    <3>1. Code BY <2>8 DEF Requeue
    <3> QED BY ONLY <2>1, <3>1
  <2>9. CASE Unpin(t)
    <3>1. Code BY <2>9 DEF Unpin
    <3> QED BY ONLY <2>1, <3>1
  <2>10. CASE Woken(t)
    <3>1. Code BY <2>10 DEF Woken
    <3> QED BY ONLY <2>1, <3>1
  <2>11. CASE Leave(t)
    <3>1. Code BY <2>11 DEF Leave
    <3> QED BY ONLY <2>1, <3>1
  <2>12. CASE Check(t)
    <3>1. Code BY <2>12 DEF Check
    <3> QED BY ONLY <2>1, <3>1
  <2>13. CASE Asked(t)
    <3>1. Code BY <2>13 DEF Asked
    <3> QED BY ONLY <2>1, <3>1
  <2>14. CASE Take(t)
    <3>1. Code BY <2>14 DEF Take
    <3> QED BY ONLY <2>1, <3>1
  <2>15. CASE DeferStarts(t)
    <3>1. Code BY <2>15 DEF DeferStarts
    <3> QED BY ONLY <2>1, <3>1
  <2>16. CASE DeferEnds(t)
    <3>1. Code BY <2>16 DEF DeferEnds
    <3> QED BY ONLY <2>1, <3>1
  <2>17. CASE Unwind(t)
    <3>1. Code BY <2>17 DEF Unwind, Ends, LeavesWithin
    <3> QED BY ONLY <2>1, <3>1
  <2>18. CASE RecoverEnds(t)
    <3>1. /\ \A u \in Tasks : pc'[u] = IF u = t THEN "finished" ELSE pc[u]
          /\ \A u \in Tasks : recovering'[u] = (u # t /\ recovering[u])
      BY <2>18 DEF TypeOK, RecoverEnds
    <3>2. /\ UNCHANGED <<does, kind, on>>
          /\ \A a \in Agents : ~HoldsOwner(a, t)
      BY <2>18 DEF RecoverEnds
    <3>3. \A a \in Agents : on[a] \in Tasks BY DEF TypeOK
    <3> QED BY <3>1, <3>2, <3>3 DEF AliveInv, KeepsAlive, HoldsOwner
  <2>19. CASE Finish(t)
    <3>1. /\ pc[t] = "finished"
          /\ \A u \in Tasks : pc'[u] = IF u = t THEN "unregister" ELSE pc[u]
          /\ UNCHANGED <<recovering, does, kind, on>>
      BY <2>19 DEF TypeOK, Finish
    <3>2. \A a \in Agents : on[a] \in Tasks BY DEF TypeOK
    <3> QED BY <3>1, <3>2 DEF AliveInv, KeepsAlive, HoldsOwner
  <2>20. CASE Unregister(t)
    <3>1. /\ pc[t] = "unregister"
          /\ \A u \in Tasks : pc'[u] = IF u = t THEN "freed" ELSE pc[u]
          /\ UNCHANGED <<recovering, does, kind, on>>
          /\ \A a \in Agents : ~KeepsAlive(a, t)
      BY <2>20 DEF TypeOK, Unregister
    <3>2. \A a \in Agents : on[a] \in Tasks BY DEF TypeOK
    <3> QED BY <3>1, <3>2 DEF AliveInv, KeepsAlive, HoldsOwner
  <2> QED
    BY ONLY <1>1, <2>2, <2>3, <2>4, <2>5, <2>6, <2>7, <2>8, <2>9, <2>10, <2>11, <2>12,
       <2>13, <2>14, <2>15, <2>16, <2>17, <2>18, <2>19, <2>20 DEF TaskStep
<1>2. ASSUME NEW t \in Tasks, BodyStep(t) \/ DeadlinePasses(t) PROVE AliveInv'
  <2>1. UNCHANGED <<recovering, does, kind, on>>
    BY <1>2 DEF BodyStep, Begin, WithinEnter, WithinLeave, LeavesWithin, GiveWay, EndBody, Ends,
                DeadlinePasses
  <2>2. CASE \E place \in {"check", "begun", "yield", "end"} : pc' = [pc EXCEPT ![t] = place]
    BY <2>1, <2>2, AliveCode DEF TaskPcs, WaitPcs, LastPcs
  <2>3. CASE pc' = pc BY <2>1, <2>3 DEF AliveInv, KeepsAlive, HoldsOwner
  <2> QED
    BY <1>2, <2>2, <2>3 DEF BodyStep, Begin, WithinEnter, WithinLeave, GiveWay, EndBody, Ends,
                            DeadlinePasses, Goes
<1>3. ASSUME NEW a \in Agents, AgentStarts(a) PROVE AliveInv'
  <2> USE DEF Steps, AllKinds, StopSteps
  <2>1. PICK t \in Tasks :
          \/ OpClaims(a, t) \/ CancelStarts(a, t) \/ AlarmStarts(a, t) \/ AgainLooksUp(a, t)
          \/ \E n \in Waits, index \in {"op", "DEADLINE"} : TimerFires(a, t, n, index)
    BY <1>3 DEF AgentStarts
  <2>2. CASE OpClaims(a, t) BY <2>2, AliveStarts DEF OpClaims
  <2>3. CASE CancelStarts(a, t) BY <2>3, AliveStarts DEF CancelStarts
  <2>4. CASE AlarmStarts(a, t) BY <2>4, AliveStarts DEF AlarmStarts
  <2>5. CASE AgainLooksUp(a, t) BY <2>5, AliveStarts DEF AgainLooksUp
  <2>6. ASSUME NEW n \in Waits, NEW index \in {"op", "DEADLINE"}, TimerFires(a, t, n, index)
        PROVE  AliveInv'
    <3>1. CASE Starts(a, "op", t, "notify") BY <2>6, <3>1, AliveStarts DEF TimerFires
    <3>2. CASE UNCHANGED agentVars
      BY <2>6, <3>2 DEF TimerFires, AliveInv, KeepsAlive, HoldsOwner
    <3> QED BY <2>6, <3>1, <3>2 DEF TimerFires
  <2> QED BY <2>1, <2>2, <2>3, <2>4, <2>5, <2>6
<1>4. ASSUME NEW a \in Agents, AgentStep(a) PROVE AliveInv'
  <2> USE DEF Steps, StopSteps
  <2>1. CASE CancelSwaps(a)
    <3>1. PICK to \in Steps : GoesOn(a, "swap", to) /\ (to \in StopSteps => "swap" \in StopSteps)
      BY <2>1 DEF CancelSwaps
    <3>2. UNCHANGED <<pc, recovering>> BY <2>1 DEF CancelSwaps
    <3> QED BY <3>1, <3>2, AliveGoesOn
  <2>2. CASE CancelLess(a)
    <3>1. PICK to \in Steps : GoesOn(a, "less", to) /\ (to \in StopSteps => "less" \in StopSteps)
      BY <2>2 DEF CancelLess
    <3>2. UNCHANGED <<pc, recovering>> BY <2>2 DEF CancelLess
    <3> QED BY <3>1, <3>2, AliveGoesOn
  <2>3. CASE ClaimsWaiting(a)
    <3>1. PICK to \in Steps : GoesOn(a, "claim", to) /\ (to \in StopSteps => "claim" \in StopSteps)
      BY <2>3 DEF ClaimsWaiting
    <3>2. UNCHANGED <<pc, recovering>> BY <2>3 DEF ClaimsWaiting
    <3> QED BY <3>1, <3>2, AliveGoesOn
  <2>4. CASE AlarmRings(a)
    <3>1. PICK to \in Steps : GoesOn(a, "ring", to) /\ (to \in StopSteps => "ring" \in StopSteps)
      BY <2>4 DEF AlarmRings
    <3>2. UNCHANGED <<pc, recovering>> BY <2>4 DEF AlarmRings
    <3> QED BY <3>1, <3>2, AliveGoesOn
  <2>5. CASE AlarmMore(a)
    <3>1. PICK to \in Steps : GoesOn(a, "more", to) /\ (to \in StopSteps => "more" \in StopSteps)
      BY <2>5 DEF AlarmMore
    <3>2. UNCHANGED <<pc, recovering>> BY <2>5 DEF AlarmMore
    <3> QED BY <3>1, <3>2, AliveGoesOn
  <2>6. CASE AgainClaims(a)
    <3>1. PICK to \in Steps : GoesOn(a, "found", to) /\ (to \in StopSteps => "found" \in StopSteps)
      BY <2>6 DEF AgainClaims
    <3>2. UNCHANGED <<pc, recovering>> BY <2>6 DEF AgainClaims
    <3> QED BY <3>1, <3>2, AliveGoesOn
  <2>7. CASE Notify(a)
    <3>1. PICK to \in Steps : GoesOn(a, "notify", to) /\ (to \in StopSteps => "notify" \in StopSteps)
      BY <2>7 DEF Notify
    <3>2. UNCHANGED <<pc, recovering>> BY <2>7 DEF Notify
    <3> QED BY <3>1, <3>2, AliveGoesOn
  <2>8. CASE Schedule(a)
    <3>1. PICK to \in Steps : GoesOn(a, "schedule", to) /\ (to \in StopSteps => "schedule" \in StopSteps)
      BY <2>8 DEF Schedule
    <3>2. UNCHANGED <<pc, recovering>> BY <2>8 DEF Schedule
    <3> QED BY <3>1, <3>2, AliveGoesOn
  <2> QED BY <1>4, <2>1, <2>2, <2>3, <2>4, <2>5, <2>6, <2>7, <2>8 DEF AgentStep
<1>5. CASE UNCHANGED vars BY <1>5 DEF vars, AliveInv, KeepsAlive, HoldsOwner
<1> QED BY <1>1, <1>2, <1>3, <1>4, <1>5 DEF Next

\* A task that `cancel_task` or `alarm` works on is not freed before it is
\* through: `unregister` takes the lock a cancellation holds, and `recover`
\* closes its Owner, under the Owner's lock, before the task can end.
THEOREM StoppedTasksLive == Spec => []StoppedIsAlive
<1>1. Init => AliveInv
  BY DEF Init, AliveInv, KeepsAlive, HoldsOwner, StopSteps, LastPcs
<1>2. Spec => []AliveInv BY <1>1, AliveStep, TypesHold, PTL DEF Spec
<1>3. TypeOK /\ AliveInv => StoppedIsAlive
  BY DEF AliveInv, KeepsAlive, HoldsOwner, StopSteps, LastPcs, StoppedIsAlive, TypeOK
<1> QED BY <1>2, <1>3, TypesHold, PTL

-----------------------------------------------------------------------------
(***************************************************************************)
(* What stops a task reaches its wait.                                     *)
(***************************************************************************)
Stopping(t) == \E a \in Agents : on[a] = t /\ does[a] \in {"less", "more", "claim"}
Reached(t) ==
  waiting[t] # 0 /\ Halted(t) /\ ~late[t] /\ Unclaimed(t, waiting[t]) => Stopping(t)

\* What Reached says of a task, but for who stops it.
AsBefore(u) ==
  /\ waiting'[u] = waiting[u] /\ fired'[u] = fired[u] /\ late'[u] = late[u]
  /\ grace'[u] = grace[u] /\ cancelled'[u] = cancelled[u] /\ alarm'[u] = alarm[u]
  /\ expired'[u] = expired[u]

LEMMA ReachedSame ==
  ASSUME NEW u \in Tasks, Reached(u), AsBefore(u), Stopping(u) => Stopping(u)'
  PROVE  Reached(u)'
BY DEF Reached, AsBefore, Halted, Unclaimed

\* A step of a task's own.
LEMMA ReachedTask ==
  ASSUME HaltReachesWait, NEW t \in Tasks, UNCHANGED <<does, on>>,
         \A u \in Tasks \ {t} : AsBefore(u),
         Reached(t)'
  PROVE  HaltReachesWait'
<1> SUFFICES ASSUME NEW u \in Tasks PROVE Reached(u)'
  BY DEF HaltReachesWait, Reached, Stopping
<1>1. Reached(u) /\ (Stopping(u) => Stopping(u)') BY DEF HaltReachesWait, Reached, Stopping
<1>2. CASE u = t BY <1>2
<1>3. CASE u # t BY <1>1, <1>3, ReachedSame
<1> QED BY <1>2, <1>3

\* A task that runs its code has no wait a cancellation can claim.
LEMMA ReachedCode ==
  ASSUME Inv, HaltReachesWait, NEW t \in Tasks, pc[t] \notin WaitPcs \ {"begun", "timed"},
         UNCHANGED <<does, on, waiting>>,
         \A u \in Tasks \ {t} : AsBefore(u)
  PROVE  HaltReachesWait'
<1>1. waiting[t] = 0 BY DEF Inv, TaskInv, ReachInv
<1> QED BY <1>1, ReachedTask DEF Reached

\* A task that goes on in its wait.
LEMMA ReachedWait ==
  ASSUME HaltReachesWait, NEW t \in Tasks, UNCHANGED <<does, on>>, \A u \in Tasks : AsBefore(u)
  PROVE  HaltReachesWait'
<1>1. Reached(t)' BY ReachedSame DEF HaltReachesWait, Reached, Stopping
<1> QED BY <1>1, ReachedTask

\* A wait that is claimed stays so.
LEMMA ClaimKeeps ==
  ASSUME fired \in [Tasks -> [Waits -> Indices]],
         NEW t, NEW n, NEW index \in Indices \ {"NONE"}, Claim(t, n, index),
         NEW u \in Tasks, NEW m \in Waits, Unclaimed(u, m)'
  PROVE  Unclaimed(u, m)
<1>1. fired[u] \in [Waits -> Indices] OBVIOUS
<1>2. fired'[u] = fired[u] \/ fired'[u] = [fired[u] EXCEPT ![n] = index] BY DEF Claim
<1> QED BY <1>1, <1>2 DEF Unclaimed

\* A step of an agent that stops nobody: waits may be claimed meanwhile.
LEMMA ReachedAgent ==
  ASSUME HaltReachesWait, NEW a \in Agents, does[a] \notin {"less", "more", "claim"},
         \A b \in Agents \ {a} : does'[b] = does[b] /\ on'[b] = on[b],
         \A u \in Tasks : waiting[u] # 0 /\ Unclaimed(u, waiting[u])' => Unclaimed(u, waiting[u]),
         UNCHANGED <<waiting, cancelled, alarm, expired, grace, late>>
  PROVE  HaltReachesWait'
BY DEF HaltReachesWait, Halted

LEMMA HaltStep == Inv /\ HaltReachesWait /\ [Next]_vars => HaltReachesWait'
<1> SUFFICES ASSUME Inv, HaltReachesWait, [Next]_vars PROVE HaltReachesWait'
  OBVIOUS
<1> USE DEF taskVars, flagVars, blockVars, agentVars
<1>0. /\ pc \in [Tasks -> TaskPcs] /\ waiting \in [Tasks -> 0 .. MaxWaits]
      /\ wait \in [Tasks -> 0 .. MaxWaits] /\ fired \in [Tasks -> [Waits -> Indices]]
      /\ cancelled \in [Tasks -> BOOLEAN] /\ alarm \in [Tasks -> BOOLEAN]
      /\ expired \in [Tasks -> BOOLEAN] /\ grace \in [Tasks -> BOOLEAN]
      /\ late \in [Tasks -> BOOLEAN] /\ within \in [Tasks -> BOOLEAN]
      /\ on \in [Agents -> Tasks] /\ does \in [Agents -> Steps]
  BY DEF Inv, TypeOK
<1>1. ASSUME NEW t \in Tasks, TaskStep(t) PROVE HaltReachesWait'
  <2> USE DEF Goes, AsBefore
  <2>1. CASE Run(t) BY <2>1, ReachedWait DEF Run
  <2>2. CASE Deadline(t) BY <1>0, <2>2, ReachedCode DEF Deadline
  <2>3. CASE Arm(t)
    <3>1. pc[t] = "timed" /\ UNCHANGED <<does, on, cancelled, alarm, expired, grace, late>>
      BY <2>3 DEF Arm
    <3>2. waiting[t] = 0 BY <3>1 DEF Inv, TaskInv, ReachInv
    <3>3. CASE Halted(t) /\ Unclaimed(t, wait[t])
      <4>1. waiting' = waiting /\ \A u \in Tasks \ {t} : fired'[u] = fired[u]
        BY <1>0, <2>3, <3>3 DEF Arm, Claim
      <4> QED BY <3>1, <3>2, <4>1, ReachedTask DEF Reached
    <3>4. CASE ~(Halted(t) /\ Unclaimed(t, wait[t]))
      <4>1. waiting' = [waiting EXCEPT ![t] = wait[t]] /\ fired' = fired BY <2>3, <3>4 DEF Arm
      <4>2. Reached(t)' BY <1>0, <3>1, <3>4, <4>1 DEF Reached, Halted, Unclaimed
      <4> QED BY <1>0, <3>1, <4>1, <4>2, ReachedTask
    <3> QED BY <3>3, <3>4
  <2>4. CASE Park(t) BY <2>4, ReachedWait DEF Park
  <2>5. CASE Unnotify(t) BY <2>5, ReachedWait DEF Unnotify
  <2>6. CASE SwitchedOut(t) BY <2>6, ReachedWait DEF SwitchedOut
  <2>7. CASE Requeue(t) BY <2>7, ReachedWait DEF Requeue
  <2>8. CASE Unpin(t) BY <2>8, ReachedWait DEF Unpin
  <2>9. CASE Woken(t)
    <3>1. UNCHANGED <<does, on, cancelled, alarm, grace, late, fired>> BY <2>9 DEF Woken
    <3>2. CASE fired[t][wait[t]] = "NONE" BY <2>9, <3>1, <3>2, ReachedWait DEF Woken
    <3>3. CASE fired[t][wait[t]] # "NONE"
      <4>1. /\ waiting' = [waiting EXCEPT ![t] = 0]
            /\ \E e \in BOOLEAN : expired' = [expired EXCEPT ![t] = e]
        BY <1>0, <2>9, <3>3 DEF Woken
      <4> QED BY <1>0, <3>1, <4>1, ReachedTask DEF Reached
    <3> QED BY <3>2, <3>3
  <2>10. CASE Leave(t) BY <2>10, ReachedWait DEF Leave
  <2>11. CASE Check(t) BY <2>11, ReachedWait DEF Check
  <2>12. CASE Asked(t) BY <1>0, <2>12, ReachedCode DEF Asked
  <2>13. CASE Take(t) BY <2>13, ReachedWait DEF Take
  <2>14. CASE DeferStarts(t) BY <2>14, ReachedWait DEF DeferStarts
  <2>15. CASE DeferEnds(t) BY <2>15, ReachedWait DEF DeferEnds
  <2>16. CASE RecoverEnds(t) BY <1>0, <2>16, ReachedCode DEF RecoverEnds
  <2>17. CASE Finish(t) BY <2>17, ReachedWait DEF Finish
  <2>18. CASE Unregister(t) BY <2>18, ReachedWait DEF Unregister
  <2>19. CASE Unwind(t) BY <1>0, <2>19, ReachedCode DEF Unwind, Ends, LeavesWithin
  <2> QED
    BY ONLY <1>1, <2>1, <2>2, <2>3, <2>4, <2>5, <2>6, <2>7, <2>8, <2>9, <2>10, <2>11, <2>12,
       <2>13, <2>14, <2>15, <2>16, <2>17, <2>18, <2>19 DEF TaskStep
<1>2. ASSUME NEW t \in Tasks, BodyStep(t) \/ DeadlinePasses(t) PROVE HaltReachesWait'
  <2> USE DEF Goes, AsBefore
  <2>1. CASE Begin(t) BY <2>1, ReachedWait DEF Begin
  <2>2. CASE WithinEnter(t) BY <1>0, <2>2, ReachedCode DEF WithinEnter
  <2>3. CASE WithinLeave(t) BY <1>0, <2>3, ReachedCode DEF WithinLeave, LeavesWithin
  <2>4. CASE GiveWay(t) BY <2>4, ReachedWait DEF GiveWay
  <2>5. CASE EndBody(t) BY <1>0, <2>5, ReachedCode DEF EndBody, Ends, LeavesWithin
  <2>6. CASE DeadlinePasses(t)
    <3>1. late' = [late EXCEPT ![t] = TRUE]
          /\ UNCHANGED <<does, on, waiting, fired, grace, cancelled, alarm, expired>>
      BY <2>6 DEF DeadlinePasses
    <3> QED BY <1>0, <3>1, ReachedTask DEF Reached
  <2> QED BY <1>2, <2>1, <2>2, <2>3, <2>4, <2>5, <2>6 DEF BodyStep
<1>3. ASSUME NEW a \in Agents, AgentStarts(a) PROVE HaltReachesWait'
  <2>1. PICK t \in Tasks :
          \/ OpClaims(a, t) \/ CancelStarts(a, t) \/ AlarmStarts(a, t) \/ AgainLooksUp(a, t)
          \/ \E n \in Waits, index \in {"op", "DEADLINE"} : TimerFires(a, t, n, index)
    BY <1>3 DEF AgentStarts
  <2>2. /\ UNCHANGED <<waiting, cancelled, alarm, expired, grace, late>>
        /\ \/ fired' = fired
           \/ \E n : \E index \in Indices \ {"NONE"} : Claim(t, n, index)
    <3>1. /\ UNCHANGED <<waiting, cancelled, alarm, expired, grace, late>>
          /\ \/ fired' = fired
             \/ Claim(t, wait[t], "op")
             \/ \E n : \E index \in {"op", "DEADLINE"} : Claim(t, n, index)
      BY <2>1 DEF OpClaims, CancelStarts, AlarmStarts, AgainLooksUp, TimerFires
    <3> QED BY <3>1
  <2>6. \/ UNCHANGED <<does, on>>
        \/ \E k, step : Starts(a, k, t, step)
    <3>1. UNCHANGED <<does, on>> \/ Starts(a, "op", t, "notify") \/ Starts(a, "cancel", t, "swap")
          \/ Starts(a, "alarm", t, "ring") \/ Starts(a, "again", t, "found")
      BY <2>1 DEF OpClaims, CancelStarts, AlarmStarts, AgainLooksUp, TimerFires
    <3> QED BY <3>1
  <2>3. \A u \in Tasks : waiting[u] # 0 /\ Unclaimed(u, waiting[u])' => Unclaimed(u, waiting[u])
    <3>1. \A u \in Tasks : waiting[u] # 0 => waiting[u] \in Waits BY <1>0, ConstantsAssumption
    <3>2. CASE fired' = fired BY <2>2, <3>2 DEF Unclaimed
    <3>3. ASSUME NEW n, NEW index \in Indices \ {"NONE"}, Claim(t, n, index)
          PROVE  \A u \in Tasks, m \in Waits : Unclaimed(u, m)' => Unclaimed(u, m)
      BY <1>0, <3>3, ClaimKeeps
    <3> QED BY <2>2, <3>1, <3>2, <3>3 DEF Unclaimed
  <2>4. CASE UNCHANGED <<does, on>>
    BY <2>2, <2>3, <2>4 DEF HaltReachesWait, Halted
  <2>5. ASSUME NEW k, NEW step, Starts(a, k, t, step) PROVE HaltReachesWait'
    <3>1. /\ does[a] \notin {"less", "more", "claim"}
          /\ \A b \in Agents \ {a} : does'[b] = does[b] /\ on'[b] = on[b]
      BY <1>0, <2>5 DEF Starts
    <3> QED BY <2>2, <2>3, <3>1, ReachedAgent
  <2> QED BY <2>6, <2>4, <2>5
<1>4. ASSUME NEW a \in Agents, AgentStep(a) PROVE HaltReachesWait'
  \* An agent that stops its task is not through with it.
  <2>1. ASSUME NEW from, NEW to \in {"less", "more", "claim"}, GoesOn(a, from, to),
               UNCHANGED <<waiting, fired, grace, late, expired>>,
               \A u \in Tasks \ {on[a]} : cancelled'[u] = cancelled[u] /\ alarm'[u] = alarm[u]
        PROVE  HaltReachesWait'
    <3>1. /\ does'[a] = to /\ on' = on
          /\ \A b \in Agents \ {a} : does'[b] = does[b]
      BY <1>0, <2>1 DEF GoesOn
    <3>3. \A u \in Tasks : Stopping(u) => Stopping(u)' BY <3>1, <2>1 DEF Stopping
    <3> SUFFICES ASSUME NEW u \in Tasks PROVE Reached(u)'
      BY DEF HaltReachesWait, Reached, Stopping
    <3>4. CASE u = on[a]
      <4>1. Stopping(u)' BY <3>1, <2>1, <3>4 DEF Stopping
      <4> QED BY <4>1 DEF Reached
    <3>5. CASE u # on[a]
      <4>1. Reached(u) BY DEF HaltReachesWait, Reached, Stopping
      <4> QED BY <2>1, <3>3, <3>5, <4>1, ReachedSame DEF AsBefore
    <3> QED BY <3>4, <3>5
  <2>2. CASE CancelSwaps(a)
    <3>1. /\ GoesOn(a, "swap", IF cancelled[on[a]] THEN "less" ELSE "claim")
          /\ UNCHANGED <<waiting, fired, grace, late, expired>>
          /\ \A u \in Tasks \ {on[a]} : cancelled'[u] = cancelled[u] /\ alarm'[u] = alarm[u]
      BY <1>0, <2>2 DEF CancelSwaps
    <3> QED BY <2>1, <3>1
  <2>3. CASE CancelLess(a) BY <2>1, <2>3 DEF CancelLess
  <2>4. CASE AlarmRings(a)
    <3>1. /\ GoesOn(a, "ring", IF alarm[on[a]] THEN "claim" ELSE "more")
          /\ UNCHANGED <<waiting, fired, grace, late, expired>>
          /\ \A u \in Tasks \ {on[a]} : cancelled'[u] = cancelled[u] /\ alarm'[u] = alarm[u]
      BY <1>0, <2>4 DEF AlarmRings
    <3> QED BY <2>1, <3>1
  <2>5. CASE AlarmMore(a) BY <2>1, <2>5 DEF AlarmMore
  <2>6. CASE ClaimsWaiting(a)
    <3> DEFINE t == on[a]
    <3>0. t \in Tasks BY <1>0
    <3>1. /\ UNCHANGED <<waiting, cancelled, alarm, expired, grace, late, on>>
          /\ \A b \in Agents \ {a} : does'[b] = does[b]
      BY <1>0, <2>6 DEF ClaimsWaiting, GoesOn
    <3>2. waiting[t] # 0 => ~Unclaimed(t, waiting[t])'
      <4> SUFFICES ASSUME waiting[t] # 0, Unclaimed(t, waiting[t]) PROVE fired'[t][waiting[t]] # "NONE"
        BY <2>6, <3>1 DEF ClaimsWaiting, Unclaimed
      <4>1. Claim(t, waiting[t], "CANCELLED") BY <2>6 DEF ClaimsWaiting
      <4>2. waiting[t] \in Waits BY <1>0, <3>0, ConstantsAssumption
      <4> HIDE DEF t
      <4> QED BY <1>0, <3>0, <4>1, <4>2 DEF Claim
    <3>3. \A u \in Tasks \ {t} : fired'[u] = fired[u] BY <1>0, <2>6 DEF ClaimsWaiting, Claim
    <3>4. \A u \in Tasks \ {t} : Stopping(u) => Stopping(u)' BY <3>1 DEF Stopping
    <3> SUFFICES ASSUME NEW u \in Tasks PROVE Reached(u)'
      BY DEF HaltReachesWait, Reached, Stopping
    <3>5. CASE u = t BY <3>1, <3>2, <3>5 DEF Reached
    <3>6. CASE u # t
      <4>1. Reached(u) BY DEF HaltReachesWait, Reached, Stopping
      <4> QED BY <3>1, <3>3, <3>4, <3>6, <4>1, ReachedSame DEF AsBefore
    <3> QED BY <3>5, <3>6
  <2>7. CASE AgainClaims(a)
    <3>1. /\ does[a] = "found" /\ on' = on /\ \A b \in Agents \ {a} : does'[b] = does[b]
          /\ UNCHANGED <<waiting, cancelled, alarm, expired, grace, late>>
          /\ \/ fired' = fired
             \/ Claim(on[a], waiting[on[a]], "CANCELLED")
      BY <1>0, <2>7 DEF AgainClaims, GoesOn
    <3>2. \A u \in Tasks : waiting[u] # 0 /\ Unclaimed(u, waiting[u])' => Unclaimed(u, waiting[u])
      <4>1. \A u \in Tasks : waiting[u] # 0 => waiting[u] \in Waits BY <1>0, ConstantsAssumption
      <4>2. CASE fired' = fired BY <3>1, <4>2 DEF Unclaimed
      <4>3. CASE Claim(on[a], waiting[on[a]], "CANCELLED")
        <5>1. "CANCELLED" \in Indices \ {"NONE"} OBVIOUS
        <5>2. \A u \in Tasks, m \in Waits : Unclaimed(u, m)' => Unclaimed(u, m)
          BY <1>0, <4>3, <5>1, ClaimKeeps
        <5> QED BY <3>1, <4>1, <5>2 DEF Unclaimed
      <4> QED BY <3>1, <4>2, <4>3
    <3> QED BY <3>1, <3>2, ReachedAgent
  <2>8. CASE Notify(a)
    <3>1. /\ does[a] = "notify" /\ on' = on /\ \A b \in Agents \ {a} : does'[b] = does[b]
          /\ UNCHANGED <<waiting, cancelled, alarm, expired, grace, late, fired>>
      BY <1>0, <2>8 DEF Notify, GoesOn
    <3> QED BY <3>1, ReachedAgent DEF Unclaimed
  <2>9. CASE Schedule(a)
    <3>1. /\ does[a] = "schedule" /\ on' = on /\ \A b \in Agents \ {a} : does'[b] = does[b]
          /\ UNCHANGED <<waiting, cancelled, alarm, expired, grace, late, fired>>
      BY <1>0, <2>9 DEF Schedule, GoesOn
    <3> QED BY <3>1, ReachedAgent DEF Unclaimed
  <2> QED BY <1>4, <2>2, <2>3, <2>4, <2>5, <2>6, <2>7, <2>8, <2>9 DEF AgentStep
<1>5. CASE UNCHANGED vars BY <1>5 DEF vars, HaltReachesWait, Halted, Unclaimed
<1> QED BY <1>1, <1>2, <1>3, <1>4, <1>5 DEF Next

\* A task that is cancelled, or that an alarm stops, before it blocks, while it does or
\* after, does not stay in the wait: `Wait::parked` and whoever stops it look at the
\* flag and at the wait, each after it set its own, under `waiting_lock`.
THEOREM HaltsReachWaits == Spec => []HaltReachesWait
<1>1. Init => HaltReachesWait BY DEF Init, HaltReachesWait
<1> QED BY <1>1, HaltStep, Invariance, PTL DEF Spec

-----------------------------------------------------------------------------
(***************************************************************************)
(* ATTENTION.                                                              *)
(***************************************************************************)
Bit(b) == IF b THEN 1 ELSE 0

\* Who counted a reason it has yet to give, or has to take back, and who gave one it
\* has yet to count.
Counting == {a \in Agents : does[a] \in {"swap", "less"}}
Ringing == {a \in Agents : does[a] = "more"}

\* ATTENTION is short by no more than the alarms that ring right now.
CountInv ==
  /\ IsFiniteSet(Reasons)
  /\ Cardinality(Reasons) + Cardinality(Counting) <= attention + Cardinality(Ringing)

Names == {"cancelled", "again", "expired", "alarm"}
Gives(r, t) ==
  CASE r = "cancelled" -> cancelled[t] /\ pc[t] \notin {"unregister", "freed"}
    [] r = "again" -> again[t] /\ pc[t] \notin {"unregister", "freed"}
    [] r = "expired" -> expired[t]
    [] r = "alarm" -> alarm[t]

LEMMA ReasonsAre == Reasons = {x \in Names \X Tasks : Gives(x[1], x[2])}
<1>1. ASSUME NEW r \in Names, NEW t \in Tasks PROVE <<r, t>> \in Reasons <=> Gives(r, t)
  BY DEF Reasons, Gives, Names
<1>2. Reasons \subseteq Names \X Tasks BY DEF Reasons, Names
<1> QED BY <1>1, <1>2

LEMMA ReasonsNext == Reasons' = {x \in Names \X Tasks : Gives(x[1], x[2])'}
<1>1. ASSUME NEW r \in Names, NEW t \in Tasks PROVE <<r, t>> \in Reasons' <=> Gives(r, t)'
  BY DEF Reasons, Gives, Names
<1>2. Reasons' \subseteq Names \X Tasks BY DEF Reasons, Names
<1> QED BY <1>1, <1>2

LEMMA CountType ==
  /\ IsFiniteSet(Counting) /\ Cardinality(Counting) \in Nat
  /\ IsFiniteSet(Ringing) /\ Cardinality(Ringing) \in Nat
<1>1. Counting \in SUBSET Agents /\ Ringing \in SUBSET Agents BY DEF Counting, Ringing
<1> QED BY <1>1, ConstantsAssumption, FS_Subset, FS_CardinalityType

LEMMA OneChange ==
  ASSUME NEW S, IsFiniteSet(S), NEW T, NEW x, T \ {x} = S \ {x}
  PROVE  /\ IsFiniteSet(T)
         /\ Cardinality(T) = Cardinality(S) + Bit(x \in T) - Bit(x \in S)
<1>1. Cardinality(S) \in Nat BY FS_CardinalityType
<1>2. CASE x \in T /\ x \notin S
  <2>1. T = S \cup {x} BY <1>2
  <2>2. IsFiniteSet(T) /\ Cardinality(T) = Cardinality(S) + 1 BY <2>1, <1>2, FS_AddElement
  <2> QED BY <2>2, <1>1, <1>2 DEF Bit
<1>3. CASE x \notin T /\ x \in S
  <2>1. T = S \ {x} BY <1>3
  <2>2. IsFiniteSet(T) /\ Cardinality(T) = Cardinality(S) - 1 BY <2>1, <1>3, FS_RemoveElement
  <2> QED BY <2>2, <1>1, <1>3 DEF Bit
<1>4. CASE x \in T <=> x \in S
  <2>1. T = S BY <1>4
  <2> QED BY <2>1, <1>1, <1>4 DEF Bit
<1> QED BY <1>2, <1>3, <1>4

\* A step that changes one reason of one task.
LEMMA ReasonChange ==
  ASSUME IsFiniteSet(Reasons), NEW r \in Names, NEW t \in Tasks,
         \A q \in Names, u \in Tasks : q # r \/ u # t => (Gives(q, u)' <=> Gives(q, u))
  PROVE  /\ IsFiniteSet(Reasons')
         /\ Cardinality(Reasons') = Cardinality(Reasons) + Bit(Gives(r, t)') - Bit(Gives(r, t))
<1>1. Reasons' \ {<<r, t>>} = Reasons \ {<<r, t>>} BY ReasonsAre, ReasonsNext
<1>2. <<r, t>> \in Reasons <=> Gives(r, t) BY ReasonsAre
<1>3. <<r, t>> \in Reasons' <=> Gives(r, t)' BY ReasonsNext
<1>4. Bit(<<r, t>> \in Reasons) = Bit(Gives(r, t)) /\ Bit(<<r, t>> \in Reasons') = Bit(Gives(r, t)')
  BY <1>2, <1>3 DEF Bit
<1> QED BY <1>1, <1>4, OneChange

\* A step that changes one reason of a task, and counts it.
LEMMA CountTask ==
  ASSUME CountInv, attention \in Int, NEW t \in Tasks, NEW r \in Names,
         Counting' = Counting, Ringing' = Ringing,
         \A q \in Names, u \in Tasks : q # r \/ u # t => (Gives(q, u)' <=> Gives(q, u)),
         attention' = attention + Bit(Gives(r, t)') - Bit(Gives(r, t))
  PROVE  CountInv'
<1>1. /\ IsFiniteSet(Reasons')
      /\ Cardinality(Reasons') = Cardinality(Reasons) + Bit(Gives(r, t)') - Bit(Gives(r, t))
  BY ReasonChange DEF CountInv
<1>3. Cardinality(Reasons) \in Nat BY FS_CardinalityType DEF CountInv
<1>4. Bit(Gives(r, t)') \in Int /\ Bit(Gives(r, t)) \in Int BY DEF Bit
<1> HIDE DEF Bit
<1> QED BY <1>1, <1>3, <1>4, CountType DEF CountInv

\* A step that gives no reason, and takes none back.
LEMMA CountSame ==
  ASSUME CountInv, \A q \in Names, u \in Tasks : Gives(q, u)' <=> Gives(q, u),
         Counting' = Counting, Ringing' = Ringing, attention' = attention
  PROVE  CountInv'
<1>1. Reasons' = Reasons BY ReasonsAre, ReasonsNext
<1> QED BY <1>1 DEF CountInv

\* The same of a step of a task that does not end there.
LEMMA CountCode ==
  ASSUME TypeOK, CountInv, NEW t \in Tasks, pc[t] \notin {"unregister", "freed"},
         NEW place, place \notin {"unregister", "freed"}, pc' = [pc EXCEPT ![t] = place],
         UNCHANGED <<cancelled, again, expired, alarm, does, attention>>
  PROVE  CountInv'
<1>1. pc \in [Tasks -> TaskPcs] BY DEF TypeOK
<1>2. \A q \in Names, u \in Tasks : Gives(q, u)' <=> Gives(q, u) BY <1>1 DEF Gives, Names
<1> QED BY <1>2, CountSame DEF Counting, Ringing

\* The sets of agents at work change with the agent that makes the step.
LEMMA CountAgent ==
  ASSUME NEW a \in Agents, \A b \in Agents \ {a} : does'[b] = does[b]
  PROVE  /\ Cardinality(Counting') =
              Cardinality(Counting) + Bit(does'[a] \in {"swap", "less"})
                                    - Bit(does[a] \in {"swap", "less"})
         /\ Cardinality(Ringing') =
              Cardinality(Ringing) + Bit(does'[a] = "more") - Bit(does[a] = "more")
<1>1. Counting' \ {a} = Counting \ {a} /\ Ringing' \ {a} = Ringing \ {a}
  BY DEF Counting, Ringing
<1>2. Bit(a \in Counting) = Bit(does[a] \in {"swap", "less"})
      /\ Bit(a \in Counting') = Bit(does'[a] \in {"swap", "less"})
  BY DEF Bit, Counting
<1>3. Bit(a \in Ringing) = Bit(does[a] = "more") /\ Bit(a \in Ringing') = Bit(does'[a] = "more")
  BY DEF Bit, Ringing
<1>4. Cardinality(Counting') = Cardinality(Counting) + Bit(a \in Counting') - Bit(a \in Counting)
  BY <1>1, CountType, OneChange
<1>5. Cardinality(Ringing') = Cardinality(Ringing) + Bit(a \in Ringing') - Bit(a \in Ringing)
  BY <1>1, CountType, OneChange
<1> QED BY <1>2, <1>3, <1>4, <1>5

\* An agent that stops nobody gives no reason.
LEMMA CountQuiet ==
  ASSUME TypeOK, CountInv, NEW a \in Agents, NEW step \in Steps,
         does' = [does EXCEPT ![a] = step],
         {does[a], step} \cap {"swap", "less", "more"} = {},
         UNCHANGED <<pc, cancelled, again, expired, alarm, attention>>
  PROVE  CountInv'
<1>1. \A b \in Agents : does'[b] = IF b = a THEN step ELSE does[b] BY DEF TypeOK
<1>2. Counting' = Counting /\ Ringing' = Ringing BY <1>1 DEF Counting, Ringing
<1>3. \A q \in Names, u \in Tasks : Gives(q, u)' <=> Gives(q, u) BY DEF Gives, Names
<1> QED BY <1>2, <1>3, CountSame

\* A task that ends takes its reasons with it.
LEMMA CountFinish ==
  ASSUME TypeOK, CountInv, NEW t \in Tasks, Finish(t)
  PROVE  CountInv'
<1> USE DEF flagVars, agentVars
<1>1. /\ pc[t] = "finished" /\ UNCHANGED <<cancelled, again, expired, alarm, does>>
      /\ \A u \in Tasks : pc'[u] = IF u = t THEN "unregister" ELSE pc[u]
      /\ attention \in Int
      /\ attention' = attention - Bit(cancelled[t]) - Bit(again[t])
  BY DEF Finish, Goes, TypeOK, Bit
<1> DEFINE c == <<"cancelled", t>>
           g == <<"again", t>>
           R == Reasons \ {c}
<1>2. c \in Reasons <=> cancelled[t] BY <1>1, ReasonsAre DEF Gives, Names
<1>3. g \in R <=> again[t] BY <1>1, ReasonsAre DEF Gives, Names
<1>4. Reasons' = R \ {g}
  <2>1. ASSUME NEW q \in Names, NEW u \in Tasks
        PROVE  Gives(q, u)' <=> Gives(q, u) /\ ~(u = t /\ q \in {"cancelled", "again"})
    BY <1>1 DEF Gives, Names
  <2>2. Reasons' = {x \in Names \X Tasks :
                      Gives(x[1], x[2]) /\ ~(x[2] = t /\ x[1] \in {"cancelled", "again"})}
    BY <2>1, ReasonsNext
  <2> QED BY <2>2, ReasonsAre
<1>5. Bit(cancelled[t]) \in {0, 1} /\ Bit(again[t]) \in {0, 1} BY DEF Bit
<1>6. IsFiniteSet(R) /\ Cardinality(R) = Cardinality(Reasons) - Bit(cancelled[t])
  <2>1. R \ {c} = Reasons \ {c} /\ c \notin R OBVIOUS
  <2>2. IsFiniteSet(R) /\ Cardinality(R) = Cardinality(Reasons) + Bit(c \in R) - Bit(c \in Reasons)
    BY <2>1, OneChange DEF CountInv
  <2>3. Bit(c \in R) = 0 /\ Bit(c \in Reasons) = Bit(cancelled[t]) BY <1>2 DEF Bit
  <2>4. Cardinality(Reasons) \in Nat BY FS_CardinalityType DEF CountInv
  <2> HIDE DEF R, c
  <2> QED BY <2>2, <2>3, <2>4, <1>5
<1>7. IsFiniteSet(Reasons') /\ Cardinality(Reasons') = Cardinality(R) - Bit(again[t])
  <2>1. Reasons' \ {g} = R \ {g} /\ g \notin Reasons' BY <1>4
  <2>2. /\ IsFiniteSet(Reasons')
        /\ Cardinality(Reasons') = Cardinality(R) + Bit(g \in Reasons') - Bit(g \in R)
    BY <2>1, <1>6, OneChange
  <2>3. Bit(g \in Reasons') = 0 /\ Bit(g \in R) = Bit(again[t]) BY <2>1, <1>3 DEF Bit
  <2>4. Cardinality(R) \in Nat BY <1>6, FS_CardinalityType
  <2> HIDE DEF R, g
  <2> QED BY <2>2, <2>3, <2>4, <1>5
<1>8. Counting' = Counting /\ Ringing' = Ringing BY <1>1 DEF Counting, Ringing
<1>9. Cardinality(Reasons) \in Nat /\ Cardinality(R) \in Nat
  BY <1>6, FS_CardinalityType DEF CountInv
<1> HIDE DEF R
<1> QED BY <1>1, <1>6, <1>7, <1>8, <1>9, <1>5, CountType DEF CountInv

\* A step of a task that does not end there, and whose deadline may pass or go.
LEMMA CountExpired ==
  ASSUME TypeOK, CountInv, NEW t \in Tasks, pc[t] \notin {"unregister", "freed"},
         NEW place \in TaskPcs \ {"unregister", "freed"},
         pc' = [pc EXCEPT ![t] = place] \/ pc' = pc,
         NEW e \in BOOLEAN, expired' = [expired EXCEPT ![t] = e],
         attention' = attention + Bit(e) - Bit(expired[t]),
         UNCHANGED <<cancelled, again, alarm, does>>
  PROVE  CountInv'
<1>1. /\ \A u \in Tasks : pc'[u] = pc[u] \/ (u = t /\ pc'[u] = place)
      /\ \A u \in Tasks : expired'[u] = IF u = t THEN e ELSE expired[u]
      /\ attention \in Int
  BY DEF TypeOK
<1>2. \A q \in Names, u \in Tasks : q # "expired" \/ u # t => (Gives(q, u)' <=> Gives(q, u))
  BY <1>1 DEF Gives, Names
<1>3. (Gives("expired", t) <=> expired[t]) /\ (Gives("expired", t)' <=> e)
  BY <1>1 DEF Gives
<1>4. attention' = attention + Bit(Gives("expired", t)') - Bit(Gives("expired", t))
  BY <1>3 DEF Bit
<1>5. Counting' = Counting /\ Ringing' = Ringing BY DEF Counting, Ringing
<1> QED BY <1>1, <1>2, <1>4, <1>5, CountTask DEF Names

LEMMA CountTaskStep ==
  ASSUME TypeOK, CountInv, NEW t \in Tasks, TaskStep(t)
  PROVE  CountInv'
<1> USE DEF Goes, flagVars, agentVars, taskVars, blockVars
<1> DEFINE Code(place) == /\ pc[t] \notin {"unregister", "freed"}
                          /\ place \in TaskPcs \ {"unregister", "freed"}
                          /\ pc' = [pc EXCEPT ![t] = place]
                          /\ UNCHANGED <<cancelled, again, expired, alarm, does, attention>>
<1>0. (\E place : Code(place)) => CountInv' BY CountCode
<1>t. /\ cancelled \in [Tasks -> BOOLEAN] /\ alarm \in [Tasks -> BOOLEAN]
      /\ again \in [Tasks -> BOOLEAN] /\ expired \in [Tasks -> BOOLEAN]
      /\ within \in [Tasks -> BOOLEAN] /\ pc \in [Tasks -> TaskPcs] /\ attention \in Int
  BY DEF TypeOK
<1>1. CASE Run(t)
  <2>1. Code("body") \/ Code("woken") BY <1>1 DEF Run
  <2> QED BY ONLY <1>0, <2>1
<1>2. CASE Deadline(t)
  <2>1. CASE pc' = [pc EXCEPT ![t] = "park"] /\ UNCHANGED <<timers, expired, attention>>
    <3>1. Code("park") BY <1>2, <2>1 DEF Deadline
    <3> QED BY ONLY <1>0, <3>1
  <2>2. CASE ~(pc' = [pc EXCEPT ![t] = "park"] /\ UNCHANGED <<timers, expired, attention>>)
    <3> DEFINE e == expired[t] \/ (within[t] /\ late[t])
    <3>1. /\ pc[t] = "begun" /\ pc' = [pc EXCEPT ![t] = "timed"]
          /\ UNCHANGED <<cancelled, again, alarm, does>>
          /\ expired' = [expired EXCEPT ![t] = e]
          /\ attention' = attention + (IF e /\ ~expired[t] THEN 1 ELSE 0)
      BY <1>2, <2>2 DEF Deadline, AttendMore
    <3>2. e \in BOOLEAN /\ attention' = attention + Bit(e) - Bit(expired[t])
      BY <3>1, <1>t DEF Bit
    <3> HIDE DEF e
    <3> QED BY <3>1, <3>2, CountExpired
  <2> QED BY <2>1, <2>2
<1>3. CASE Arm(t)
  <2>1. Code("leave") \/ Code("park") BY <1>3 DEF Arm
  <2> QED BY ONLY <1>0, <2>1
<1>4. CASE Park(t)
  <2>1. Code("unnotify") \/ Code("pinned") \/ Code("switched") BY <1>4 DEF Park
  <2> QED BY ONLY <1>0, <2>1
<1>5. CASE Unnotify(t)
  <2>1. Code("woken") BY <1>5 DEF Unnotify
  <2> QED BY ONLY <1>0, <2>1
<1>6. CASE SwitchedOut(t)
  <2>1. Code("parked") \/ Code("reyield") \/ Code("requeue") BY <1>6 DEF SwitchedOut
  <2> QED BY ONLY <1>0, <2>1
<1>7. CASE Requeue(t)
  <2>1. Code("ready") \/ Code("parked") BY <1>7 DEF Requeue
  <2> QED BY ONLY <1>0, <2>1
<1>8. CASE Unpin(t)
  <2>1. Code("woken") BY <1>8 DEF Unpin
  <2> QED BY ONLY <1>0, <2>1
<1>9. CASE Woken(t)
  <2>1. CASE fired[t][wait[t]] = "NONE"
    <3>1. Code("park") BY <1>9, <2>1 DEF Woken
    <3> QED BY ONLY <1>0, <3>1
  <2>2. CASE fired[t][wait[t]] # "NONE"
    <3> DEFINE e == expired[t] \/ (waiting[t] # 0 /\ fired[t][wait[t]] = "DEADLINE")
    <3>1. /\ pc[t] = "woken" /\ pc' = [pc EXCEPT ![t] = "leave"]
          /\ UNCHANGED <<cancelled, again, alarm, does>>
          /\ expired' = [expired EXCEPT ![t] = e]
          /\ attention' = attention + (IF e /\ ~expired[t] THEN 1 ELSE 0)
      BY <1>9, <2>2 DEF Woken, AttendMore
    <3>2. e \in BOOLEAN /\ attention' = attention + Bit(e) - Bit(expired[t])
      BY <3>1, <1>t DEF Bit
    <3> HIDE DEF e
    <3> QED BY <3>1, <3>2, CountExpired
  <2> QED BY <2>1, <2>2
<1>10. CASE Leave(t)
  <2>1. Code("check") BY <1>10 DEF Leave
  <2> QED BY ONLY <1>0, <2>1
<1>11. CASE Check(t)
  <2>1. PICK place \in {"unwind", "body", "asked"}, g \in BOOLEAN :
          /\ pc[t] = "check" /\ pc' = [pc EXCEPT ![t] = place]
          /\ UNCHANGED <<cancelled, alarm, expired, does>>
          /\ again' = [again EXCEPT ![t] = g]
          /\ (g => again[t]) /\ attention' = attention - (IF again[t] /\ ~g THEN 1 ELSE 0)
    <3> DEFINE restarts == /\ attention # 0
                           /\ ~ (attention # 0 /\ cancelled[t] /\ ~grace[t]
                                   /\ (~deferring[t] \/ cut[t]))
                           /\ again[t]
    <3>1. /\ pc[t] = "check" /\ \E place \in {"unwind", "body", "asked"} : pc' = [pc EXCEPT ![t] = place]
          /\ UNCHANGED <<cancelled, alarm, expired, does>>
      BY <1>11 DEF Check
    <3>2. /\ again' = [again EXCEPT ![t] = again[t] /\ ~restarts]
          /\ attention' = attention - (IF restarts THEN 1 ELSE 0)
      BY <1>11 DEF Check, AttendLess
    <3>3. (again[t] /\ ~(again[t] /\ ~restarts)) <=> restarts BY <1>t
    <3> HIDE DEF restarts
    <3>4. (again[t] /\ ~restarts) \in BOOLEAN OBVIOUS
    <3> QED BY <3>1, <3>2, <3>3, <3>4
  <2>2. /\ \A u \in Tasks : pc'[u] = IF u = t THEN place ELSE pc[u]
        /\ \A u \in Tasks : again'[u] = IF u = t THEN g ELSE again[u]
    BY <1>t, <2>1
  <2>3. \A q \in Names, u \in Tasks : q # "again" \/ u # t => (Gives(q, u)' <=> Gives(q, u))
    BY <2>1, <2>2 DEF Gives, Names
  <2>4. (Gives("again", t) <=> again[t]) /\ (Gives("again", t)' <=> g) BY <2>1, <2>2 DEF Gives
  <2>5. attention' = attention + Bit(Gives("again", t)') - Bit(Gives("again", t))
    BY <1>t, <2>1, <2>4 DEF Bit
  <2>6. Counting' = Counting /\ Ringing' = Ringing BY <2>1 DEF Counting, Ringing
  <2> QED BY <1>t, <2>3, <2>5, <2>6, CountTask DEF Names
<1>12. CASE Asked(t)
  <2> DEFINE takes == attention # 0 /\ alarm[t]
             stopped == attention # 0 /\ ~takes /\ expired[t]
  <2>1. /\ pc[t] = "asked" /\ UNCHANGED <<cancelled, again, does>>
        /\ pc' = [pc EXCEPT ![t] = IF takes THEN "taking" ELSE "body"]
        /\ alarm' = [alarm EXCEPT ![t] = alarm[t] /\ ~takes]
        /\ expired' = [expired EXCEPT ![t] = expired[t] /\ ~stopped]
        /\ attention' = attention - (IF takes \/ stopped THEN 1 ELSE 0)
    BY <1>12 DEF Asked, AttendLess
  <2>2. CASE takes
    <3>1. \A u \in Tasks : /\ pc'[u] = IF u = t THEN "taking" ELSE pc[u]
                           /\ alarm'[u] = (alarm[u] /\ u # t)
                           /\ expired'[u] = expired[u]
      BY <1>t, <2>1, <2>2
    <3>2. \A q \in Names, u \in Tasks : q # "alarm" \/ u # t => (Gives(q, u)' <=> Gives(q, u))
      BY <2>1, <3>1 DEF Gives, Names
    <3>3. Gives("alarm", t) /\ ~Gives("alarm", t)' BY <2>2, <3>1 DEF Gives
    <3>4. attention' = attention + Bit(Gives("alarm", t)') - Bit(Gives("alarm", t))
      BY <1>t, <2>1, <2>2, <3>3 DEF Bit
    <3>5. Counting' = Counting /\ Ringing' = Ringing BY <2>1 DEF Counting, Ringing
    <3> QED BY <1>t, <3>2, <3>4, <3>5, CountTask DEF Names
  <2>3. CASE ~takes
    <3> DEFINE e == expired[t] /\ ~stopped
    <3>1. alarm' = alarm /\ pc' = [pc EXCEPT ![t] = "body"] BY <1>t, <2>1, <2>3
    <3>2. e \in BOOLEAN /\ attention' = attention + Bit(e) - Bit(expired[t])
      BY <1>t, <2>1, <2>3 DEF Bit
    <3>3. expired' = [expired EXCEPT ![t] = e] BY <2>1
    <3> HIDE DEF e, stopped, takes
    <3> QED BY <2>1, <3>1, <3>2, <3>3, CountExpired
  <2> QED BY <2>2, <2>3
<1>13. CASE Take(t)
  <2>1. Code("unwind") \/ Code("body") BY <1>13 DEF Take
  <2> QED BY ONLY <1>0, <2>1
<1>14. CASE DeferStarts(t)
  <2>1. Code("body") BY <1>14 DEF DeferStarts
  <2> QED BY ONLY <1>0, <2>1
<1>15. CASE DeferEnds(t)
  <2>1. Code("recoverend") BY <1>15 DEF DeferEnds
  <2> QED BY ONLY <1>0, <2>1
<1>16. CASE RecoverEnds(t)
  <2>1. /\ pc[t] = "recoverend" /\ UNCHANGED <<cancelled, again, expired, does>>
        /\ \A u \in Tasks : /\ pc'[u] = IF u = t THEN "finished" ELSE pc[u]
                            /\ alarm'[u] = (alarm[u] /\ u # t)
        /\ attention' = attention - (IF alarm[t] THEN 1 ELSE 0)
    BY <1>t, <1>16 DEF RecoverEnds, AttendLess
  <2>2. \A q \in Names, u \in Tasks : q # "alarm" \/ u # t => (Gives(q, u)' <=> Gives(q, u))
    <3> SUFFICES ASSUME NEW q \in Names, NEW u \in Tasks, q # "alarm" \/ u # t
                 PROVE  Gives(q, u)' <=> Gives(q, u)
      OBVIOUS
    <3>1. pc'[u] \in {"unregister", "freed"} <=> pc[u] \in {"unregister", "freed"} BY <2>1
    <3> QED BY <2>1, <3>1 DEF Gives, Names
  <2>3. (Gives("alarm", t) <=> alarm[t]) /\ ~Gives("alarm", t)' BY <2>1 DEF Gives
  <2>4. attention' = attention + Bit(Gives("alarm", t)') - Bit(Gives("alarm", t))
    BY <1>t, <2>1, <2>3 DEF Bit
  <2>5. Counting' = Counting /\ Ringing' = Ringing BY <2>1 DEF Counting, Ringing
  <2> QED BY <1>t, <2>2, <2>4, <2>5, CountTask DEF Names
<1>17. CASE Finish(t) BY <1>17, CountFinish
<1>18. CASE Unregister(t)
  <2>1. /\ pc[t] = "unregister" /\ UNCHANGED <<cancelled, again, expired, alarm, does, attention>>
        /\ \A u \in Tasks : pc'[u] = IF u = t THEN "freed" ELSE pc[u]
    BY <1>t, <1>18 DEF Unregister
  <2>2. \A q \in Names, u \in Tasks : Gives(q, u)' <=> Gives(q, u) BY <2>1 DEF Gives, Names
  <2> QED BY <2>1, <2>2, CountSame DEF Counting, Ringing
<1>19. CASE Unwind(t)
  <2> DEFINE e == expired[t] /\ ~within[t]
  <2>1. /\ pc[t] = "unwind" /\ pc' = [pc EXCEPT ![t] = "end"]
        /\ UNCHANGED <<cancelled, again, alarm, does>> /\ expired' = [expired EXCEPT ![t] = e]
        /\ attention' = attention - (IF expired[t] /\ within[t] THEN 1 ELSE 0)
    BY <1>19 DEF Unwind, Ends, LeavesWithin, AttendLess
  <2>2. e \in BOOLEAN /\ attention' = attention + Bit(e) - Bit(expired[t])
    BY <1>t, <2>1 DEF Bit
  <2> HIDE DEF e
  <2> QED BY <2>1, <2>2, CountExpired
<1> QED
  BY ONLY TaskStep(t), <1>1, <1>2, <1>3, <1>4, <1>5, <1>6, <1>7, <1>8, <1>9, <1>10, <1>11, <1>12,
     <1>13, <1>14, <1>15, <1>16, <1>17, <1>18, <1>19 DEF TaskStep

LEMMA CountBodyStep ==
  ASSUME TypeOK, CountInv, NEW t \in Tasks, BodyStep(t) \/ DeadlinePasses(t)
  PROVE  CountInv'
<1> USE DEF Goes, flagVars, agentVars, taskVars, blockVars
<1>t. /\ expired \in [Tasks -> BOOLEAN] /\ within \in [Tasks -> BOOLEAN]
      /\ pc \in [Tasks -> TaskPcs] /\ attention \in Int
  BY DEF TypeOK
<1> DEFINE Stays == /\ UNCHANGED <<cancelled, again, expired, alarm, does, attention>>
                   /\ \/ pc' = pc
                      \/ /\ pc[t] = "body"
                         /\ \E place \in {"check", "begun", "yield"} : pc' = [pc EXCEPT ![t] = place]
<1>1. Stays => CountInv'
  <2> SUFFICES ASSUME Stays PROVE CountInv' OBVIOUS
  <2>1. \A u \in Tasks : pc'[u] = pc[u] \/ ({pc[u], pc'[u]} \cap {"unregister", "freed"} = {})
    BY <1>t
  <2>2. \A q \in Names, u \in Tasks : Gives(q, u)' <=> Gives(q, u) BY <2>1 DEF Gives, Names
  <2> QED BY <2>2, CountSame DEF Counting, Ringing
<1> DEFINE e == expired[t] /\ ~within[t]
           Leaves == /\ pc' = [pc EXCEPT ![t] = "end"] \/ pc' = pc
                     /\ UNCHANGED <<cancelled, again, alarm, does>>
                     /\ expired' = [expired EXCEPT ![t] = e]
                     /\ attention' = attention - (IF expired[t] /\ within[t] THEN 1 ELSE 0)
<1>2. pc[t] = "body" /\ Leaves => CountInv'
  <2> SUFFICES ASSUME pc[t] = "body", Leaves PROVE CountInv' OBVIOUS
  <2>1. e \in BOOLEAN /\ attention' = attention + Bit(e) - Bit(expired[t]) BY <1>t DEF Bit
  <2> HIDE DEF e
  <2> QED BY <2>1, CountExpired
<1>3. CASE Begin(t)
  <2>1. Stays BY <1>3 DEF Begin
  <2> QED BY <1>1, <2>1
<1>4. CASE WithinEnter(t)
  <2>1. Stays BY <1>4 DEF WithinEnter
  <2> QED BY <1>1, <2>1
<1>5. CASE WithinLeave(t)
  <2>1. pc[t] = "body" /\ Leaves BY <1>5 DEF WithinLeave, LeavesWithin, AttendLess
  <2> QED BY <1>2, <2>1
<1>6. CASE GiveWay(t)
  <2>1. Stays BY <1>6 DEF GiveWay
  <2> QED BY <1>1, <2>1
<1>7. CASE EndBody(t)
  <2>1. pc[t] = "body" /\ Leaves BY <1>7 DEF EndBody, Ends, LeavesWithin, AttendLess
  <2> QED BY <1>2, <2>1
<1>8. CASE DeadlinePasses(t)
  <2>1. Stays BY <1>8 DEF DeadlinePasses
  <2> QED BY <1>1, <2>1
<1> QED BY <1>3, <1>4, <1>5, <1>6, <1>7, <1>8 DEF BodyStep

LEMMA CountAgentStarts ==
  ASSUME TypeOK, CountInv, NEW a \in Agents, AgentStarts(a)
  PROVE  CountInv'
<1> USE DEF flagVars, agentVars, taskVars, blockVars
<1>1. PICK t \in Tasks :
        \/ OpClaims(a, t) \/ CancelStarts(a, t) \/ AlarmStarts(a, t) \/ AgainLooksUp(a, t)
        \/ \E n \in Waits, index \in {"op", "DEADLINE"} : TimerFires(a, t, n, index)
  BY DEF AgentStarts
<1>2. UNCHANGED <<pc, cancelled, again, expired, alarm>>
  BY <1>1 DEF OpClaims, CancelStarts, AlarmStarts, AgainLooksUp, TimerFires
<1>3. CASE CancelStarts(a, t)
  <2>1. /\ does[a] = "idle" /\ does'[a] = "swap" /\ \A b \in Agents \ {a} : does'[b] = does[b]
        /\ attention \in Int /\ attention' = attention + 1
    BY <1>3 DEF CancelStarts, Starts, AttendMore, TypeOK
  <2>2. Cardinality(Counting') = Cardinality(Counting) + 1 /\ Cardinality(Ringing') = Cardinality(Ringing)
    BY <2>1, CountAgent, CountType DEF Bit
  <2>3. \A q \in Names, u \in Tasks : Gives(q, u)' <=> Gives(q, u) BY <1>2 DEF Gives, Names
  <2>4. Reasons' = Reasons BY <2>3, ReasonsAre, ReasonsNext
  <2>5. Cardinality(Reasons) \in Nat BY FS_CardinalityType DEF CountInv
  <2> QED BY <2>1, <2>2, <2>4, <2>5, CountType DEF CountInv
<1>4. CASE ~CancelStarts(a, t)
  <2>1. attention' = attention BY <1>1, <1>4 DEF OpClaims, AlarmStarts, AgainLooksUp, TimerFires
  <2>2. CASE UNCHANGED does
    <3>1. \A q \in Names, u \in Tasks : Gives(q, u)' <=> Gives(q, u) BY <1>2 DEF Gives, Names
    <3> QED BY <2>1, <2>2, <3>1, CountSame DEF Counting, Ringing
  <2>3. CASE \E k : \E step \in {"notify", "ring", "found"} : Starts(a, k, t, step)
    <3>1. PICK step \in {"notify", "ring", "found"} :
            does[a] = "idle" /\ does' = [does EXCEPT ![a] = step]
      BY <2>3 DEF Starts
    <3> QED BY <1>2, <2>1, <3>1, CountQuiet
  <2>4. UNCHANGED does \/ Starts(a, "op", t, "notify") \/ Starts(a, "alarm", t, "ring")
        \/ Starts(a, "again", t, "found")
    BY <1>1, <1>4 DEF OpClaims, AlarmStarts, AgainLooksUp, TimerFires
  <2> QED BY <2>2, <2>3, <2>4
<1> QED BY <1>3, <1>4

LEMMA CountAgentStep ==
  ASSUME Inv, CountInv, NEW a \in Agents, AgentStep(a)
  PROVE  CountInv'
<1> USE DEF flagVars, agentVars, taskVars, blockVars
<1>0. PICK t \in Tasks : t = on[a]
  BY DEF Inv, TypeOK
<1>t. /\ t = on[a] /\ cancelled \in [Tasks -> BOOLEAN] /\ alarm \in [Tasks -> BOOLEAN]
      /\ again \in [Tasks -> BOOLEAN] /\ does \in [Agents -> Steps]
      /\ attention \in Int /\ TypeOK
  BY <1>0 DEF TypeOK, Inv
<1>n. Cardinality(Reasons) \in Nat BY FS_CardinalityType DEF CountInv
<1>1. ASSUME NEW from, NEW to \in Steps, GoesOn(a, from, to)
      PROVE  /\ does[a] = from /\ does'[a] = to
             /\ \A b \in Agents \ {a} : does'[b] = does[b]
  BY <1>t, <1>1 DEF GoesOn
\* It stops nobody.
<1>2. ASSUME NEW from, NEW to \in Steps, GoesOn(a, from, to),
             {from, to} \cap {"swap", "less", "more"} = {},
             UNCHANGED <<pc, cancelled, again, expired, alarm, attention>>
      PROVE  CountInv'
  <2>1. does[a] = from /\ does' = [does EXCEPT ![a] = to] BY <1>2 DEF GoesOn
  <2> QED BY <1>t, <1>2, <2>1, CountQuiet
<1>3. CASE CancelSwaps(a)
  <2> DEFINE gives == pc[t] \notin {"unregister", "freed"}
             to == IF cancelled[t] THEN "less" ELSE "claim"
  <2>1. /\ GoesOn(a, "swap", to) /\ UNCHANGED <<pc, again, expired, alarm, attention>>
        /\ \A u \in Tasks : cancelled'[u] = (cancelled[u] \/ u = t)
    BY <1>t, <1>3 DEF CancelSwaps
  <2>2. does[a] = "swap" /\ does'[a] = to /\ \A b \in Agents \ {a} : does'[b] = does[b]
    BY <1>1, <2>1
  <2>3. /\ Cardinality(Counting') = Cardinality(Counting) - (IF cancelled[t] THEN 0 ELSE 1)
        /\ Cardinality(Ringing') = Cardinality(Ringing)
    BY <2>2, CountAgent, CountType DEF Bit
  <2>4. \A q \in Names, u \in Tasks : q # "cancelled" \/ u # t => (Gives(q, u)' <=> Gives(q, u))
    BY <2>1 DEF Gives, Names
  <2>5. /\ IsFiniteSet(Reasons')
        /\ Cardinality(Reasons') =
             Cardinality(Reasons) + Bit(Gives("cancelled", t)') - Bit(Gives("cancelled", t))
    BY <1>t, <2>4, ReasonChange DEF Names, CountInv
  <2>6. (Gives("cancelled", t)' <=> gives) /\ (Gives("cancelled", t) <=> cancelled[t] /\ gives)
    BY <1>t, <2>1 DEF Gives
  <2>7. Cardinality(Reasons') <= Cardinality(Reasons) + (IF cancelled[t] THEN 0 ELSE 1)
        /\ Cardinality(Reasons') \in Nat
    BY <1>n, <2>5, <2>6, FS_CardinalityType DEF Bit
  <2>8. attention' = attention BY <2>1
  <2> QED BY <1>t, <1>n, <2>8, <2>3, <2>5, <2>7, CountType DEF CountInv
<1>4. CASE CancelLess(a)
  <2>1. /\ GoesOn(a, "less", "claim") /\ UNCHANGED <<pc, cancelled, again, expired, alarm>>
        /\ attention' = attention - 1
    BY <1>4 DEF CancelLess, AttendLess
  <2>2. /\ Cardinality(Counting') = Cardinality(Counting) - 1
        /\ Cardinality(Ringing') = Cardinality(Ringing)
    BY <1>1, <2>1, CountAgent, CountType DEF Bit
  <2>3. \A q \in Names, u \in Tasks : Gives(q, u)' <=> Gives(q, u) BY <2>1 DEF Gives, Names
  <2>4. Reasons' = Reasons BY <2>3, ReasonsAre, ReasonsNext
  <2> QED BY <1>t, <1>n, <2>1, <2>2, <2>4, CountType DEF CountInv
<1>5. CASE ClaimsWaiting(a)
  <2>1. PICK to \in {"notify", "idle"} :
          GoesOn(a, "claim", to) /\ UNCHANGED <<pc, cancelled, again, expired, alarm, attention>>
    BY <1>5 DEF ClaimsWaiting
  <2> QED BY <1>2, <2>1
<1>6. CASE AlarmRings(a)
  <2> DEFINE to == IF alarm[t] THEN "claim" ELSE "more"
  <2>1. /\ GoesOn(a, "ring", to) /\ UNCHANGED <<pc, cancelled, again, expired, attention>>
        /\ \A u \in Tasks : alarm'[u] = (alarm[u] \/ u = t)
    BY <1>t, <1>6 DEF AlarmRings
  <2>2. does[a] = "ring" /\ does'[a] = to /\ \A b \in Agents \ {a} : does'[b] = does[b]
    BY <1>1, <2>1
  <2>3. /\ Cardinality(Ringing') = Cardinality(Ringing) + (IF alarm[t] THEN 0 ELSE 1)
        /\ Cardinality(Counting') = Cardinality(Counting)
    BY <2>2, CountAgent, CountType DEF Bit
  <2>4. \A q \in Names, u \in Tasks : q # "alarm" \/ u # t => (Gives(q, u)' <=> Gives(q, u))
    BY <2>1 DEF Gives, Names
  <2>5. /\ IsFiniteSet(Reasons')
        /\ Cardinality(Reasons') =
             Cardinality(Reasons) + Bit(Gives("alarm", t)') - Bit(Gives("alarm", t))
    BY <1>t, <2>4, ReasonChange DEF Names, CountInv
  <2>6. Gives("alarm", t)' /\ (Gives("alarm", t) <=> alarm[t]) BY <1>t, <2>1 DEF Gives
  <2>7. Cardinality(Reasons') = Cardinality(Reasons) + (IF alarm[t] THEN 0 ELSE 1)
    BY <1>n, <2>5, <2>6 DEF Bit
  <2>8. attention' = attention BY <2>1
  <2> QED BY <1>t, <1>n, <2>8, <2>3, <2>5, <2>7, CountType DEF CountInv
<1>7. CASE AlarmMore(a)
  <2>1. /\ GoesOn(a, "more", "claim") /\ UNCHANGED <<pc, cancelled, again, expired, alarm>>
        /\ attention' = attention + 1
    BY <1>7 DEF AlarmMore, AttendMore
  <2>2. /\ Cardinality(Ringing') = Cardinality(Ringing) - 1
        /\ Cardinality(Counting') = Cardinality(Counting)
    BY <1>1, <2>1, CountAgent, CountType DEF Bit
  <2>3. \A q \in Names, u \in Tasks : Gives(q, u)' <=> Gives(q, u) BY <2>1 DEF Gives, Names
  <2>4. Reasons' = Reasons BY <2>3, ReasonsAre, ReasonsNext
  <2> QED BY <1>t, <1>n, <2>1, <2>2, <2>4, CountType DEF CountInv
<1>8. CASE AgainClaims(a)
  <2> DEFINE ends == waiting[t] # 0 /\ Unclaimed(t, waiting[t]) /\ pc[t] # "freed"
  <2>1. /\ \E to \in {"notify", "idle"} : GoesOn(a, "found", to)
        /\ UNCHANGED <<pc, cancelled, expired, alarm>>
        /\ \A u \in Tasks : again'[u] = (again[u] \/ (u = t /\ ends))
        /\ attention' = attention + (IF ends /\ ~again[t] THEN 1 ELSE 0)
    BY <1>t, <1>8 DEF AgainClaims, AttendMore
  <2>2. PICK to \in {"notify", "idle"} : GoesOn(a, "found", to) BY <2>1
  <2>3. does[a] = "found" /\ does'[a] = to /\ \A b \in Agents \ {a} : does'[b] = does[b]
    BY <1>1, <2>2
  <2>4. Counting' = Counting /\ Ringing' = Ringing BY <2>3 DEF Counting, Ringing
  <2>5. \A q \in Names, u \in Tasks : q # "again" \/ u # t => (Gives(q, u)' <=> Gives(q, u))
    BY <2>1 DEF Gives, Names
  <2>6. ends => pc[t] \notin {"unregister", "freed"} BY <1>t DEF Inv, TaskInv, ReachInv
  <2>7. attention' = attention + Bit(Gives("again", t)') - Bit(Gives("again", t))
    <3>1. CASE ends
      <4>1. (Gives("again", t) <=> again[t]) /\ Gives("again", t)'
        BY <1>t, <2>1, <2>6, <3>1 DEF Gives
      <4> QED BY <1>t, <2>1, <3>1, <4>1 DEF Bit
    <3>2. CASE ~ends
      <4>1. Gives("again", t)' <=> Gives("again", t) BY <1>t, <2>1, <3>2 DEF Gives
      <4> QED BY <1>t, <2>1, <3>2, <4>1 DEF Bit
    <3> QED BY <3>1, <3>2
  <2> QED BY <1>t, <2>4, <2>5, <2>7, CountTask DEF Names
<1>9. CASE Notify(a)
  <2>1. PICK to \in {"schedule", "idle"} :
          GoesOn(a, "notify", to) /\ UNCHANGED <<pc, cancelled, again, expired, alarm, attention>>
    BY <1>9 DEF Notify
  <2> QED BY <1>2, <2>1
<1>10. CASE Schedule(a)
  <2>1. GoesOn(a, "schedule", "idle")
        /\ UNCHANGED <<pc, cancelled, again, expired, alarm, attention>>
    BY <1>10 DEF Schedule
  <2> QED BY <1>2, <2>1
<1> QED BY <1>3, <1>4, <1>5, <1>6, <1>7, <1>8, <1>9, <1>10 DEF AgentStep

LEMMA CountStep == Inv /\ CountInv /\ [Next]_vars => CountInv'
<1> SUFFICES ASSUME Inv, CountInv, [Next]_vars PROVE CountInv'
  OBVIOUS
<1>1. TypeOK BY DEF Inv
<1>2. CASE Next BY <1>1, <1>2, CountTaskStep, CountBodyStep, CountAgentStarts, CountAgentStep DEF Next
<1>3. CASE UNCHANGED vars
  <2>1. \A q \in Names, u \in Tasks : Gives(q, u)' <=> Gives(q, u)
    BY <1>3 DEF vars, taskVars, flagVars, Gives, Names
  <2> QED BY <1>3, <2>1, CountSame DEF vars, agentVars, Counting, Ringing
<1> QED BY <1>2, <1>3

LEMMA CountInit == Init => CountInv
<1> SUFFICES ASSUME Init PROVE CountInv OBVIOUS
<1>1. \A q \in Names, u \in Tasks : ~Gives(q, u) BY DEF Init, Gives, Names
<1>2. Reasons = {} BY <1>1, ReasonsAre
<1>3. Counting = {} /\ Ringing = {} BY DEF Init, Counting, Ringing
<1>4. IsFiniteSet({}) /\ Cardinality({}) = 0 BY FS_EmptySet
<1>5. attention = 0 BY DEF Init
<1> QED BY <1>2, <1>3, <1>4, <1>5 DEF CountInv

LEMMA CountAlways == Spec => []CountInv
  BY CountInit, CountStep, Invariance, PTL DEF Spec

\* ATTENTION (tasks.rs:1051) is never short of the reasons tasks have by more than the
\* alarms whose thread has set the flag and counts it next.
THEOREM AttentionShortOfAlarmsOnly ==
  Spec => [](Cardinality(Reasons) <= attention + Cardinality(Ringing))
<1>1. TypeOK /\ CountInv => Cardinality(Reasons) <= attention + Cardinality(Ringing)
  BY CountType, FS_CardinalityType DEF CountInv, TypeOK
<1> QED BY <1>1, CountAlways, TypesHold, PTL

\* Nobody alarms a task when nothing is delivered to a `recover`.
NoAlarm ==
  /\ \A a \in Agents : does[a] \notin {"ring", "more"}
  /\ \A t \in Tasks : ~alarm[t]

LEMMA NoAlarmAlways ==
  ASSUME "alarm" \notin Kinds PROVE Spec => []NoAlarm
<1>1. Init => NoAlarm BY DEF Init, NoAlarm
<1>2. TypeOK /\ NoAlarm /\ [Next]_vars => NoAlarm'
  <2> SUFFICES ASSUME TypeOK, NoAlarm, [Next]_vars PROVE NoAlarm' OBVIOUS
  <2> USE DEF flagVars, agentVars, taskVars, blockVars, NoAlarm
  <2>t. alarm \in [Tasks -> BOOLEAN] /\ does \in [Agents -> Steps] BY DEF TypeOK
  <2>1. ASSUME NEW t \in Tasks, TaskStep(t) \/ BodyStep(t) \/ DeadlinePasses(t) PROVE NoAlarm'
    <3>1. does' = does
      BY <2>1 DEF TaskStep, BodyStep, DeadlinePasses, Run, Deadline, Arm, Park, Unnotify,
         SwitchedOut, Requeue, Unpin, Woken, Leave, Check, Asked, Take, DeferStarts, DeferEnds,
         RecoverEnds, Finish, Unregister, Unwind, Ends, LeavesWithin, Begin, WithinEnter,
         WithinLeave, GiveWay, EndBody
    <3>2. alarm' = alarm \/ alarm' = [alarm EXCEPT ![t] = FALSE]
      BY <2>t, <2>1 DEF TaskStep, BodyStep, DeadlinePasses, Run, Deadline, Arm, Park, Unnotify,
         SwitchedOut, Requeue, Unpin, Woken, Leave, Check, Asked, Take, DeferStarts, DeferEnds,
         RecoverEnds, Finish, Unregister, Unwind, Ends, LeavesWithin, Begin, WithinEnter,
         WithinLeave, GiveWay, EndBody
    <3> QED BY <2>t, <3>1, <3>2
  <2>2. ASSUME NEW a \in Agents, AgentStarts(a) PROVE NoAlarm'
    <3>1. alarm' = alarm /\ (does' = does \/ \E s \in {"notify", "swap", "found"} :
                                               does' = [does EXCEPT ![a] = s])
      <4>1. PICK t \in Tasks : \/ OpClaims(a, t) \/ CancelStarts(a, t) \/ AgainLooksUp(a, t)
                              \/ \E n \in Waits, index \in {"op", "DEADLINE"} : TimerFires(a, t, n, index)
        BY <2>2 DEF AgentStarts, AlarmStarts
      <4>2. CASE OpClaims(a, t) BY <4>2 DEF OpClaims, Starts
      <4>3. CASE CancelStarts(a, t) BY <4>3 DEF CancelStarts, Starts
      <4>4. CASE AgainLooksUp(a, t) BY <4>4 DEF AgainLooksUp, Starts
      <4>5. ASSUME NEW n \in Waits, NEW index \in {"op", "DEADLINE"}, TimerFires(a, t, n, index)
            PROVE  alarm' = alarm /\ (does' = does \/ does' = [does EXCEPT ![a] = "notify"])
        BY <4>5 DEF TimerFires, Starts
      <4> QED BY <4>1, <4>2, <4>3, <4>4, <4>5
    <3> QED BY <2>t, <3>1
  <2>3. ASSUME NEW a \in Agents, AgentStep(a) PROVE NoAlarm'
    <3>1. alarm' = alarm /\ \E s \in {"less", "claim", "notify", "schedule", "idle"} :
                              does' = [does EXCEPT ![a] = s]
      BY <2>3 DEF AgentStep, CancelSwaps, CancelLess, ClaimsWaiting, AlarmRings, AlarmMore,
                  AgainClaims, Notify, Schedule, GoesOn
    <3> QED BY <2>t, <3>1
  <2>4. CASE UNCHANGED vars BY <2>4 DEF vars
  <2> QED BY <2>1, <2>2, <2>3, <2>4 DEF Next
<1> QED BY <1>1, <1>2, TypesHold, PTL DEF Spec

\* In a program that delivers no panic to a `recover`, ATTENTION counts every reason at
\* every moment: `cancel_task` counts before it sets the flag, and all else is one step
\* of the task's own or under `waiting_lock`.  (With alarms it does not: `alarm` sets
\* the flag first, which the run that checks HaltNoticed shows.)
THEOREM AttentionCounts ==
  ASSUME "alarm" \notin Kinds PROVE Spec => []ReasonsCounted
<1>1. TypeOK /\ CountInv /\ NoAlarm => ReasonsCounted
  <2> SUFFICES ASSUME TypeOK, CountInv, NoAlarm PROVE ReasonsCounted OBVIOUS
  <2>1. Ringing = {} BY DEF Ringing, NoAlarm
  <2>2. Cardinality(Ringing) = 0 BY <2>1, FS_EmptySet
  <2> QED BY <2>2, CountType, FS_CardinalityType DEF CountInv, TypeOK, ReasonsCounted
<1> QED BY <1>1, CountAlways, NoAlarmAlways, TypesHold, PTL

-----------------------------------------------------------------------------
(***************************************************************************)
(* What was not done is noticed.                                           *)
(***************************************************************************)
\* No task is in the grace of a `within` when no `defer` enters one.
NoGrace == \A t \in Tasks : ~grace[t]

LEMMA NoGraceAlways ==
  ASSUME "defer" \notin Withins PROVE Spec => []NoGrace
<1>1. Init => NoGrace BY DEF Init, NoGrace
<1>2. TypeOK /\ NoGrace /\ [Next]_vars => NoGrace'
  <2> SUFFICES ASSUME TypeOK, NoGrace, [Next]_vars PROVE NoGrace' OBVIOUS
  <2> USE DEF flagVars, agentVars, taskVars, blockVars, NoGrace
  <2>t. grace \in [Tasks -> BOOLEAN] /\ deferring \in [Tasks -> BOOLEAN] BY DEF TypeOK
  <2>1. ASSUME NEW t \in Tasks, TaskStep(t) \/ BodyStep(t) \/ DeadlinePasses(t) PROVE NoGrace'
    <3>1. grace' = grace \/ \E g \in BOOLEAN : grace' = [grace EXCEPT ![t] = g /\ grace[t]]
      <4>1. CASE WithinEnter(t) BY <2>t, <4>1 DEF WithinEnter
      <4>2. CASE ~WithinEnter(t)
        BY <2>t, <2>1, <4>2 DEF TaskStep, BodyStep, DeadlinePasses, Run, Deadline, Arm, Park,
           Unnotify, SwitchedOut, Requeue, Unpin, Woken, Leave, Check, Asked, Take, DeferStarts,
           DeferEnds, RecoverEnds, Finish, Unregister, Unwind, Ends, LeavesWithin, Begin,
           WithinLeave, GiveWay, EndBody
      <4> QED BY <4>1, <4>2
    <3> QED BY <2>t, <3>1
  <2>2. ASSUME NEW a \in Agents, AgentStarts(a) \/ AgentStep(a) PROVE NoGrace'
    BY <2>2 DEF AgentStarts, AgentStep, OpClaims, CancelStarts, AlarmStarts, AgainLooksUp,
       TimerFires, CancelSwaps, CancelLess, ClaimsWaiting, AlarmRings, AlarmMore, AgainClaims,
       Notify, Schedule
  <2>3. CASE UNCHANGED vars BY <2>3 DEF vars
  <2> QED BY <2>1, <2>2, <2>3 DEF Next
<1> QED BY <1>1, <1>2, TypesHold, PTL DEF Spec

\* Why the task's last wait was not done, as compiled code is to learn it.
Excused(t) == (cancelled[t] /\ (~deferring[t] \/ cut[t])) \/ again[t] \/ expired[t]

\* A wait ends undone for a reason: a cancellation gave one before it claimed the wait,
\* a restart with the claim, and a deadline's timer is one of a wait `parked` began.
Noticed(t) ==
  /\ pc[t] \in WaitPcs =>
       /\ fired[t][wait[t]] = "CANCELLED" => cancelled[t] \/ again[t]
       /\ fired[t][wait[t]] = "DEADLINE" \/ <<t, wait[t], "DEADLINE">> \in timers
            => waiting[t] # 0 \/ pc[t] = "timed"
  /\ pc[t] \in {"leave", "check"} /\ res[t] = "CANCELLED" => Excused(t)
  /\ pc[t] = "asked" /\ res[t] = "CANCELLED" => expired[t]

UndoneInv ==
  /\ \A t \in Tasks : Noticed(t)
  /\ \A a \in Agents : does[a] \in {"less", "claim"} => cancelled[on[a]]

\* What Noticed says of a task, with reasons it may get.
Kept(u) ==
  /\ pc'[u] = pc[u] /\ wait'[u] = wait[u] /\ fired'[u] = fired[u] /\ waiting'[u] = waiting[u]
  /\ (<<u, wait[u], "DEADLINE">> \in timers' => <<u, wait[u], "DEADLINE">> \in timers)
  /\ (cancelled[u] => cancelled'[u]) /\ (again[u] => again'[u]) /\ expired'[u] = expired[u]
  /\ deferring'[u] = deferring[u] /\ cut'[u] = cut[u] /\ res'[u] = res[u]

LEMMA KeptNoticed == ASSUME NEW u \in Tasks, Noticed(u), Kept(u) PROVE Noticed(u)'
  BY DEF Noticed, Kept, Excused

\* A step of a task's own.
LEMMA UndoneTask ==
  ASSUME UndoneInv, NEW t \in Tasks, UNCHANGED <<does, on, cancelled>>,
         \A u \in Tasks \ {t} : Kept(u), Noticed(t)'
  PROVE  UndoneInv'
BY KeptNoticed DEF UndoneInv

\* A task that goes on in its wait, which nobody claims then.
LEMMA UndoneWait ==
  ASSUME TypeOK, UndoneInv, NEW t \in Tasks, NEW place \in WaitPcs,
         pc[t] \in WaitPcs \ {"timed"}, pc' = [pc EXCEPT ![t] = place],
         UNCHANGED <<wait, fired, waiting, timers, cancelled, again, expired, deferring, cut, res>>,
         UNCHANGED <<does, on>>
  PROVE  UndoneInv'
<1>1. \A u \in Tasks : pc'[u] = IF u = t THEN place ELSE pc[u] BY DEF TypeOK
<1>2. \A u \in Tasks \ {t} : Kept(u) BY <1>1 DEF Kept
<1>3. Noticed(t)' BY <1>1 DEF UndoneInv, Noticed
<1> QED BY <1>2, <1>3, UndoneTask

\* A task that is at no wait.
LEMMA UndoneCode ==
  ASSUME TypeOK, UndoneInv, NEW t \in Tasks,
         NEW place \in TaskPcs \ (WaitPcs \cup {"leave", "check", "asked"}),
         pc' = [pc EXCEPT ![t] = place],
         \A u \in Tasks \ {t} : again'[u] = again[u] /\ expired'[u] = expired[u]
                                 /\ deferring'[u] = deferring[u] /\ cut'[u] = cut[u],
         UNCHANGED <<wait, fired, waiting, timers, cancelled, res, does, on>>
  PROVE  UndoneInv'
<1>1. \A u \in Tasks : pc'[u] = IF u = t THEN place ELSE pc[u] BY DEF TypeOK
<1>2. \A u \in Tasks \ {t} : Kept(u) BY <1>1 DEF Kept
<1>3. Noticed(t)' BY <1>1 DEF Noticed
<1> QED BY <1>2, <1>3, UndoneTask

LEMMA UndoneTaskStep ==
  ASSUME Inv, ReasonsCounted, CountInv, NoAlarm, NoGrace, UndoneInv, NEW t \in Tasks, TaskStep(t)
  PROVE  UndoneInv'
<1> USE DEF Goes, flagVars, agentVars, taskVars, blockVars
<1>t. /\ pc \in [Tasks -> TaskPcs] /\ waiting \in [Tasks -> 0 .. MaxWaits]
      /\ wait \in [Tasks -> 0 .. MaxWaits] /\ fired \in [Tasks -> [Waits -> Indices]]
      /\ cancelled \in [Tasks -> BOOLEAN] /\ again \in [Tasks -> BOOLEAN]
      /\ expired \in [Tasks -> BOOLEAN] /\ cut \in [Tasks -> BOOLEAN]
      /\ deferring \in [Tasks -> BOOLEAN] /\ res \in [Tasks -> {"op", "CANCELLED"}]
      /\ attention \in Int /\ TypeOK
  BY DEF Inv, TypeOK
<1>i. Noticed(t) /\ ~alarm[t] /\ ~grace[t] BY DEF UndoneInv, NoAlarm, NoGrace
<1> DEFINE Wait(place) == /\ place \in WaitPcs /\ pc[t] \in WaitPcs \ {"timed"}
                          /\ pc' = [pc EXCEPT ![t] = place]
                          /\ UNCHANGED <<wait, fired, waiting, timers, cancelled, again, expired,
                                         deferring, cut, res, does, on>>
           Code(place) == /\ place \in TaskPcs \ (WaitPcs \cup {"leave", "check", "asked"})
                          /\ pc' = [pc EXCEPT ![t] = place]
                          /\ \A u \in Tasks \ {t} :
                               /\ again'[u] = again[u] /\ expired'[u] = expired[u]
                               /\ deferring'[u] = deferring[u] /\ cut'[u] = cut[u]
                          /\ UNCHANGED <<wait, fired, waiting, timers, cancelled, res, does, on>>
<1>w. (\E place : Wait(place)) => UndoneInv' BY <1>t, UndoneWait
<1>c. (\E place : Code(place)) => UndoneInv'
  <2> SUFFICES ASSUME NEW place, Code(place) PROVE UndoneInv' OBVIOUS
  <2>1. place \in TaskPcs \ (WaitPcs \cup {"leave", "check", "asked"}) OBVIOUS
  <2> QED BY <1>t, <2>1, UndoneCode
<1>1. CASE Run(t)
  <2>1. Code("body") \/ Wait("woken") BY <1>1 DEF Run
  <2> QED BY ONLY <1>w, <1>c, <2>1
<1>2. CASE Deadline(t)
  <2>1. /\ pc[t] = "begun" /\ waiting[t] = 0
        /\ UNCHANGED <<wait, fired, waiting, cancelled, again, deferring, cut, res, does, on>>
    BY <1>2 DEF Deadline, Inv, TaskInv, ReachInv
  <2>2. CASE pc' = [pc EXCEPT ![t] = "park"] /\ UNCHANGED <<timers, expired, attention>>
    <3>1. Wait("park") BY <2>1, <2>2
    <3> QED BY ONLY <1>w, <3>1
  <2>3. CASE pc' = [pc EXCEPT ![t] = "timed"]
    <3>1. \A u \in Tasks : pc'[u] = IF u = t THEN "timed" ELSE pc[u] BY <1>t, <2>3
    <3>2. \A u \in Tasks \ {t} : Kept(u)
      <4>1. \A u \in Tasks \ {t} : expired'[u] = expired[u] BY <1>t, <1>2 DEF Deadline
      <4>2. timers' \subseteq timers \cup {<<t, wait[t], "DEADLINE">>} BY <1>2 DEF Deadline
      <4> QED BY <2>1, <3>1, <4>1, <4>2 DEF Kept
    <3>3. Noticed(t)' BY <1>i, <2>1, <3>1 DEF Noticed
    <3> QED BY <2>1, <3>2, <3>3, UndoneTask
  <2> QED BY <1>2, <2>2, <2>3 DEF Deadline
<1>3. CASE Arm(t)
  <2>1. /\ pc[t] = "timed" /\ UNCHANGED <<wait, timers, cancelled, again, expired, deferring, does, on>>
        /\ wait[t] \in Waits
    BY <1>3 DEF Arm, Inv, TaskInv, ClaimInv
  <2>2. CASE Halted(t) /\ Unclaimed(t, wait[t])
    <3>1. /\ \A u \in Tasks : pc'[u] = IF u = t THEN "leave" ELSE pc[u]
          /\ \A u \in Tasks \ {t} : fired'[u] = fired[u] /\ cut'[u] = cut[u] /\ res'[u] = res[u]
          /\ waiting' = waiting /\ cut'[t] = (cut[t] \/ deferring[t])
      BY <1>t, <1>3, <2>2 DEF Arm, Claim
    <3>2. \A u \in Tasks \ {t} : Kept(u) BY <2>1, <3>1 DEF Kept
    <3>3. Noticed(t)' BY <1>i, <1>t, <2>1, <2>2, <3>1 DEF Noticed, Excused, Halted
    <3> QED BY <2>1, <3>2, <3>3, UndoneTask
  <2>3. CASE ~(Halted(t) /\ Unclaimed(t, wait[t]))
    <3>1. /\ \A u \in Tasks : pc'[u] = IF u = t THEN "park" ELSE pc[u]
          /\ \A u \in Tasks : waiting'[u] = IF u = t THEN wait[t] ELSE waiting[u]
          /\ UNCHANGED <<fired, cut, res>>
      BY <1>t, <1>3, <2>3 DEF Arm
    <3>2. \A u \in Tasks \ {t} : Kept(u) BY <2>1, <3>1 DEF Kept
    <3>3. wait[t] # 0 BY <2>1, ConstantsAssumption
    <3>4. Noticed(t)' BY <1>i, <2>1, <3>1, <3>3 DEF Noticed
    <3> QED BY <2>1, <3>2, <3>4, UndoneTask
  <2> QED BY <2>2, <2>3
<1>4. CASE Park(t)
  <2>1. Wait("unnotify") \/ Wait("pinned") \/ Wait("switched") BY <1>4 DEF Park
  <2> QED BY ONLY <1>w, <2>1
<1>5. CASE Unnotify(t)
  <2>1. Wait("woken") BY <1>5 DEF Unnotify
  <2> QED BY ONLY <1>w, <2>1
<1>6. CASE SwitchedOut(t)
  <2>1. CASE pc[t] = "switched"
    <3>1. Wait("parked") \/ Wait("requeue") BY <1>6, <2>1 DEF SwitchedOut
    <3> QED BY ONLY <1>w, <3>1
  <2>2. CASE pc[t] = "yield"
    <3>1. state[t] = "NOTIFIED" BY <2>2 DEF Inv, TaskInv, StateInv
    <3>2. Code("reyield") BY <1>6, <2>2, <3>1 DEF SwitchedOut
    <3> QED BY ONLY <1>c, <3>2
  <2> QED BY <1>6, <2>1, <2>2 DEF SwitchedOut
<1>7. CASE Requeue(t)
  <2>1. Code("ready") \/ Wait("parked") BY <1>7 DEF Requeue
  <2> QED BY ONLY <1>w, <1>c, <2>1
<1>8. CASE Unpin(t)
  <2>1. Wait("woken") BY <1>8 DEF Unpin
  <2> QED BY ONLY <1>w, <2>1
<1>9. CASE Woken(t)
  <2>1. /\ pc[t] = "woken"
        /\ UNCHANGED <<wait, fired, timers, cancelled, again, deferring, does, on>>
    BY <1>9 DEF Woken
  <2>2. CASE fired[t][wait[t]] = "NONE"
    <3>1. Wait("park") BY <1>9, <2>1, <2>2 DEF Woken
    <3> QED BY ONLY <1>w, <3>1
  <2>3. CASE fired[t][wait[t]] # "NONE"
    <3> DEFINE index == fired[t][wait[t]]
               expires == waiting[t] # 0 /\ index = "DEADLINE"
    <3>1. /\ pc' = [pc EXCEPT ![t] = "leave"]
          /\ waiting' = [waiting EXCEPT ![t] = 0]
          /\ res' = [res EXCEPT ![t] = IF index = "op" THEN "op" ELSE "CANCELLED"]
          /\ expired' = [expired EXCEPT ![t] = expired[t] \/ expires]
          /\ cut' = [cut EXCEPT ![t] = cut[t] \/ (index # "op" /\ deferring[t])]
      BY <1>9, <2>3 DEF Woken
    <3>2. \A u \in Tasks \ {t} : Kept(u) BY <1>t, <2>1, <3>1 DEF Kept
    <3>3. /\ pc'[t] = "leave" /\ (res'[t] = "CANCELLED" => index # "op")
          /\ expired'[t] = (expired[t] \/ expires)
          /\ cut'[t] = (cut[t] \/ (index # "op" /\ deferring[t]))
      BY <1>t, <3>1
    <3>4. wait[t] \in Waits BY <2>1 DEF Inv, TaskInv, ClaimInv
    <3>5. index \in {"op", "CANCELLED", "DEADLINE"}
      <4>1. fired[t] \in [Waits -> Indices] BY <1>t
      <4> QED BY <2>3, <3>4, <4>1
    <3>6. /\ index = "CANCELLED" => cancelled[t] \/ again[t]
          /\ index = "DEADLINE" => expires
      BY <1>i, <2>1 DEF Noticed
    <3> HIDE DEF index, expires
    <3>7. Noticed(t)' BY <2>1, <3>3, <3>5, <3>6 DEF Noticed, Excused
    <3> QED BY <2>1, <3>2, <3>7, UndoneTask
  <2> QED BY <2>2, <2>3
<1>10. CASE Leave(t)
  <2>1. /\ pc[t] = "leave"
        /\ UNCHANGED <<wait, fired, waiting, timers, cancelled, again, expired, deferring, cut, res,
                       does, on>>
        /\ \A u \in Tasks : pc'[u] = IF u = t THEN "check" ELSE pc[u]
    BY <1>t, <1>10 DEF Leave
  <2>2. Noticed(t)' BY <1>i, <2>1 DEF Noticed, Excused
  <2> QED BY <2>1, <2>2, UndoneTask DEF Kept
<1>11. CASE Check(t)
  <2> DEFINE asks == attention # 0
             unwinds == asks /\ cancelled[t] /\ ~grace[t] /\ (~deferring[t] \/ cut[t])
             restarts == asks /\ ~unwinds /\ again[t]
  <2>1. /\ pc[t] = "check"
        /\ pc' = [pc EXCEPT ![t] = IF unwinds THEN "unwind" ELSE IF restarts THEN "body" ELSE "asked"]
        /\ again' = [again EXCEPT ![t] = again[t] /\ ~restarts]
        /\ UNCHANGED <<wait, fired, waiting, timers, cancelled, expired, deferring, cut, res, does, on>>
    BY <1>11 DEF Check
  <2>2. CASE unwinds
    <3>1. Code("unwind") BY <1>t, <2>1, <2>2
    <3> QED BY ONLY <1>c, <3>1
  <2>3. CASE restarts
    <3>1. Code("body") BY <1>t, <2>1, <2>3
    <3> QED BY ONLY <1>c, <3>1
  <2>4. CASE ~unwinds /\ ~restarts
    <3>1. \A u \in Tasks : pc'[u] = IF u = t THEN "asked" ELSE pc[u] BY <1>t, <2>1, <2>4
    <3>2. \A u \in Tasks : again'[u] = again[u] BY <1>t, <2>1, <2>4
    <3>3. res[t] = "CANCELLED" => expired[t]
      <4> SUFFICES ASSUME res[t] = "CANCELLED" PROVE expired[t] OBVIOUS
      <4>1. Excused(t) BY <1>i, <2>1 DEF Noticed
      <4>2. asks
        <5>1. PICK r \in Names : Gives(r, t) BY <2>1, <4>1 DEF Excused, Gives, Names
        <5>2. <<r, t>> \in Reasons BY <5>1, ReasonsAre
        <5>3. Cardinality(Reasons) # 0 BY <5>2, FS_EmptySet DEF CountInv
        <5>4. Cardinality(Reasons) \in Nat BY FS_CardinalityType DEF CountInv
        <5> QED BY <1>t, <5>3, <5>4 DEF ReasonsCounted
      <4> QED BY <1>i, <2>4, <4>1, <4>2 DEF Excused
    <3>4. Noticed(t)' BY <2>1, <3>1, <3>3 DEF Noticed
    <3> QED BY <2>1, <3>1, <3>2, <3>4, UndoneTask DEF Kept
  <2> QED BY <2>2, <2>3, <2>4
<1>12. CASE Asked(t)
  <2>1. Code("body") \/ Code("taking") BY <1>t, <1>12 DEF Asked
  <2> QED BY ONLY <1>c, <2>1
<1>13. CASE Take(t)
  <2>1. Code("unwind") \/ Code("body") BY <1>13 DEF Take
  <2> QED BY ONLY <1>c, <2>1
<1>14. CASE DeferStarts(t)
  <2>1. Code("body") BY <1>t, <1>14 DEF DeferStarts
  <2> QED BY ONLY <1>c, <2>1
<1>15. CASE DeferEnds(t)
  <2>1. Code("recoverend") BY <1>t, <1>15 DEF DeferEnds
  <2> QED BY ONLY <1>c, <2>1
<1>16. CASE RecoverEnds(t)
  <2>1. Code("finished") BY <1>16 DEF RecoverEnds
  <2> QED BY ONLY <1>c, <2>1
<1>17. CASE Finish(t)
  <2>1. Code("unregister") BY <1>17 DEF Finish
  <2> QED BY ONLY <1>c, <2>1
<1>18. CASE Unregister(t)
  <2>1. Code("freed") BY <1>18 DEF Unregister
  <2> QED BY ONLY <1>c, <2>1
<1>19. CASE Unwind(t)
  <2>1. Code("end") BY <1>t, <1>19 DEF Unwind, Ends, LeavesWithin
  <2> QED BY ONLY <1>c, <2>1
<1> QED
  BY ONLY TaskStep(t), <1>1, <1>2, <1>3, <1>4, <1>5, <1>6, <1>7, <1>8, <1>9, <1>10, <1>11, <1>12,
     <1>13, <1>14, <1>15, <1>16, <1>17, <1>18, <1>19 DEF TaskStep

LEMMA UndoneBodyStep ==
  ASSUME Inv, NoAlarm, UndoneInv, NEW t \in Tasks, BodyStep(t) \/ DeadlinePasses(t)
  PROVE  UndoneInv'
<1> USE DEF Goes, flagVars, agentVars, taskVars, blockVars
<1>t. /\ pc \in [Tasks -> TaskPcs] /\ wait \in [Tasks -> 0 .. MaxWaits]
      /\ waiting \in [Tasks -> 0 .. MaxWaits] /\ fired \in [Tasks -> [Waits -> Indices]]
      /\ expired \in [Tasks -> BOOLEAN] /\ cancelled \in [Tasks -> BOOLEAN]
      /\ alarm \in [Tasks -> BOOLEAN] /\ res \in [Tasks -> {"op", "CANCELLED"}] /\ TypeOK
  BY DEF Inv, TypeOK
<1>1. CASE Begin(t)
  <2>1. /\ pc[t] = "body" /\ wait[t] < MaxWaits
        /\ UNCHANGED <<fired, waiting, cancelled, alarm, again, expired, deferring, cut, grace, does, on>>
    BY <1>1 DEF Begin
  <2>2. CASE Stops(t)
    <3>1. /\ \A u \in Tasks : pc'[u] = IF u = t THEN "check" ELSE pc[u]
          /\ \A u \in Tasks \ {t} : res'[u] = res[u]
          /\ UNCHANGED <<wait, timers>>
      BY <1>t, <1>1, <2>2 DEF Begin
    <3>2. \A u \in Tasks \ {t} : Kept(u) BY <2>1, <3>1 DEF Kept
    <3>3. Noticed(t)' BY <2>1, <2>2, <3>1 DEF Noticed, Excused, Stops, Halted, NoAlarm
    <3> QED BY <2>1, <3>2, <3>3, UndoneTask
  <2>3. CASE ~Stops(t)
    <3>1. /\ \A u \in Tasks : pc'[u] = IF u = t THEN "begun" ELSE pc[u]
          /\ \A u \in Tasks : wait'[u] = IF u = t THEN wait[t] + 1 ELSE wait[u]
          /\ timers' \subseteq timers \cup {<<t, wait[t] + 1, "op">>} /\ res' = res
      BY <1>t, <1>1, <2>3 DEF Begin
    <3>2. \A u \in Tasks \ {t} : Kept(u) BY <2>1, <3>1 DEF Kept
    <3>3. wait[t] + 1 \in Waits /\ wait[t] + 1 > wait[t] BY <1>t, <2>1, ConstantsAssumption
    <3>4. fired[t][wait[t] + 1] = "NONE" BY <3>3 DEF Inv, TaskInv, ClaimInv
    <3>5. <<t, wait[t] + 1, "DEADLINE">> \notin timers
      <4> DEFINE n == wait[t] + 1
      <4>1. <<t, n, "DEADLINE">> \in timers => n <= wait[t]
        <5>1. TimersInv /\ n \in Waits BY <3>3 DEF Inv
        <5> HIDE DEF n
        <5> QED BY ONLY <5>1, t \in Tasks DEF TimersInv
      <4> QED BY <1>t, <3>3, <4>1
    <3>6. Noticed(t)' BY <2>1, <3>1, <3>4, <3>5 DEF Noticed
    <3> QED BY <2>1, <3>2, <3>6, UndoneTask
  <2> QED BY <2>2, <2>3
<1> DEFINE Code(place) == /\ place \in TaskPcs \ (WaitPcs \cup {"leave", "check", "asked"})
                          /\ pc' = [pc EXCEPT ![t] = place]
                          /\ \A u \in Tasks \ {t} :
                               /\ again'[u] = again[u] /\ expired'[u] = expired[u]
                               /\ deferring'[u] = deferring[u] /\ cut'[u] = cut[u]
                          /\ UNCHANGED <<wait, fired, waiting, timers, cancelled, res, does, on>>
<1>c. (\E place : Code(place)) => UndoneInv'
  <2> SUFFICES ASSUME NEW place, Code(place) PROVE UndoneInv' OBVIOUS
  <2>1. place \in TaskPcs \ (WaitPcs \cup {"leave", "check", "asked"}) OBVIOUS
  <2> QED BY <1>t, <2>1, UndoneCode
<1>2. CASE WithinEnter(t)
  <2>1. pc' = [pc EXCEPT ![t] = "body"] BY <1>t, <1>2 DEF WithinEnter
  <2>2. Code("body") BY <1>2, <2>1 DEF WithinEnter
  <2> QED BY ONLY <1>c, <2>2
<1>3. CASE WithinLeave(t)
  <2>1. pc' = [pc EXCEPT ![t] = "body"] BY <1>t, <1>3 DEF WithinLeave
  <2>2. Code("body") BY <1>t, <1>3, <2>1 DEF WithinLeave, LeavesWithin
  <2> QED BY ONLY <1>c, <2>2
<1>4. CASE GiveWay(t)
  <2>1. Code("yield") BY <1>4 DEF GiveWay
  <2> QED BY ONLY <1>c, <2>1
<1>5. CASE EndBody(t)
  <2>1. Code("end") BY <1>t, <1>5 DEF EndBody, Ends, LeavesWithin
  <2> QED BY ONLY <1>c, <2>1
<1>6. CASE DeadlinePasses(t)
  <2>1. \A u \in Tasks : Kept(u) BY <1>6 DEF DeadlinePasses, Kept
  <2>2. UNCHANGED <<does, on, cancelled>> BY <1>6 DEF DeadlinePasses
  <2> QED BY <2>1, <2>2, KeptNoticed DEF UndoneInv
<1> QED BY <1>1, <1>2, <1>3, <1>4, <1>5, <1>6 DEF BodyStep

\* A wait claimed for a reason.
LEMMA UndoneClaim ==
  ASSUME Inv, UndoneInv, NEW t \in Tasks, NEW n \in Waits, NEW index \in Indices \ {"NONE"},
         Claim(t, n, index),
         pc[t] \in WaitPcs /\ n = wait[t] =>
           /\ index = "CANCELLED" => (cancelled[t] \/ again[t])'
           /\ index = "DEADLINE" => waiting[t] # 0 \/ pc[t] = "timed",
         \A u \in Tasks : (cancelled[u] => cancelled'[u]) /\ (again[u] => again'[u]),
         timers' \subseteq timers,
         UNCHANGED <<pc, wait, waiting, expired, deferring, cut, res>>
  PROVE  \A u \in Tasks : Noticed(u)'
<1>t. fired \in [Tasks -> [Waits -> Indices]] BY DEF Inv, TypeOK
<1>1. \A u \in Tasks \ {t} : fired'[u] = fired[u] BY <1>t DEF Claim
<1>2. \A u \in Tasks \ {t} : Noticed(u)' BY <1>1, KeptNoticed DEF Kept, UndoneInv
<1>3. Noticed(t)'
  <2>1. Noticed(t) BY DEF UndoneInv
  <2>2. fired[t] \in [Waits -> Indices] BY <1>t
  <2>3. fired'[t] = [fired[t] EXCEPT ![n] = index] BY <1>t DEF Claim
  <2>4. pc[t] \in WaitPcs => wait[t] \in Waits BY DEF Inv, TaskInv, ClaimInv
  <2>5. pc[t] \in WaitPcs => fired'[t][wait[t]] = IF n = wait[t] THEN index ELSE fired[t][wait[t]]
    BY <2>2, <2>3, <2>4
  <2> QED BY <2>1, <2>5 DEF Noticed, Excused
<1> QED BY <1>2, <1>3

LEMMA UndoneAgentStarts ==
  ASSUME Inv, NoAlarm, UndoneInv, NEW a \in Agents, AgentStarts(a)
  PROVE  UndoneInv'
<1> USE DEF flagVars, agentVars, taskVars, blockVars
<1>t. /\ does \in [Agents -> Steps] /\ on \in [Agents -> Tasks]
      /\ wait \in [Tasks -> 0 .. MaxWaits]
  BY DEF Inv, TypeOK
<1>1. PICK t \in Tasks :
        \/ OpClaims(a, t) \/ CancelStarts(a, t) \/ AlarmStarts(a, t) \/ AgainLooksUp(a, t)
        \/ \E n \in Waits, index \in {"op", "DEADLINE"} : TimerFires(a, t, n, index)
  BY DEF AgentStarts
<1>2. UNCHANGED <<pc, wait, waiting, cancelled, again, expired, deferring, cut, res>>
      /\ timers' \subseteq timers
  BY <1>1 DEF OpClaims, CancelStarts, AlarmStarts, AgainLooksUp, TimerFires
<1>3. \A b \in Agents : does'[b] \in {"less", "claim"} => cancelled'[on'[b]]
  <2>1. UNCHANGED <<does, on>> \/ Starts(a, "op", t, "notify") \/ Starts(a, "cancel", t, "swap")
        \/ Starts(a, "alarm", t, "ring") \/ Starts(a, "again", t, "found")
    BY <1>1 DEF OpClaims, CancelStarts, AlarmStarts, AgainLooksUp, TimerFires
  <2>2. UNCHANGED <<does, on>> \/ (/\ does'[a] \notin {"less", "claim"}
                                   /\ \A b \in Agents \ {a} : does'[b] = does[b] /\ on'[b] = on[b])
    BY <1>t, <2>1 DEF Starts
  <2> QED BY <1>2, <2>2 DEF UndoneInv
<1>4. \A u \in Tasks : Noticed(u)'
  <2>1. CASE OpClaims(a, t)
    <3>1. listed[t] /\ Claim(t, wait[t], "op") BY <2>1 DEF OpClaims
    <3>2. wait[t] \in Waits BY <3>1 DEF Inv, TaskInv, ReachInv
    <3> QED BY <1>2, <3>1, <3>2, UndoneClaim
  <2>2. ASSUME NEW n \in Waits, NEW index \in {"op", "DEADLINE"}, TimerFires(a, t, n, index),
               Claim(t, n, index)
        PROVE  \A u \in Tasks : Noticed(u)'
    <3>1. <<t, n, index>> \in timers BY <2>2 DEF TimerFires
    <3>2. pc[t] \in WaitPcs /\ n = wait[t] /\ index = "DEADLINE" => waiting[t] # 0 \/ pc[t] = "timed"
      BY <3>1 DEF UndoneInv, Noticed
    <3> QED BY <1>2, <2>2, <3>2, UndoneClaim
  <2>3. CASE fired' = fired
    <3>1. \A u \in Tasks : Kept(u) BY <1>2, <2>3 DEF Kept
    <3> QED BY <3>1, KeptNoticed DEF UndoneInv
  <2> QED
    BY <1>1, <2>1, <2>2, <2>3 DEF CancelStarts, AlarmStarts, AgainLooksUp, TimerFires
<1> QED BY <1>3, <1>4 DEF UndoneInv

LEMMA UndoneAgentStep ==
  ASSUME Inv, NoAlarm, UndoneInv, NEW a \in Agents, AgentStep(a)
  PROVE  UndoneInv'
<1> USE DEF flagVars, agentVars, taskVars, blockVars
<1>t. /\ does \in [Agents -> Steps] /\ cancelled \in [Tasks -> BOOLEAN]
      /\ again \in [Tasks -> BOOLEAN] /\ waiting \in [Tasks -> 0 .. MaxWaits]
      /\ on \in [Agents -> Tasks]
  BY DEF Inv, TypeOK
<1>0. PICK t \in Tasks : t = on[a] BY <1>t
<1>1. /\ UNCHANGED <<pc, wait, waiting, timers, expired, deferring, cut, res, on>>
      /\ \A u \in Tasks : (cancelled[u] => cancelled'[u]) /\ (again[u] => again'[u])
      /\ \A b \in Agents \ {a} : does'[b] = does[b]
  BY <1>t DEF AgentStep, CancelSwaps, CancelLess, ClaimsWaiting, AlarmRings, AlarmMore,
              AgainClaims, Notify, Schedule, GoesOn
<1>2. does'[a] \in {"less", "claim"} => cancelled'[t]
  <2>1. CASE CancelSwaps(a) BY <1>t, <1>0, <2>1 DEF CancelSwaps
  <2>2. CASE CancelLess(a) BY <1>t, <1>0, <2>2 DEF CancelLess, GoesOn, UndoneInv
  <2>3. CASE ClaimsWaiting(a) BY <1>t, <2>3 DEF ClaimsWaiting, GoesOn
  <2>4. CASE AlarmRings(a) BY <2>4 DEF AlarmRings, GoesOn, NoAlarm
  <2>5. CASE AlarmMore(a) BY <2>5 DEF AlarmMore, GoesOn, NoAlarm
  <2>6. CASE AgainClaims(a) BY <1>t, <2>6 DEF AgainClaims, GoesOn
  <2>7. CASE Notify(a) BY <1>t, <2>7 DEF Notify, GoesOn
  <2>8. CASE Schedule(a) BY <1>t, <2>8 DEF Schedule, GoesOn
  <2> QED BY <2>1, <2>2, <2>3, <2>4, <2>5, <2>6, <2>7, <2>8 DEF AgentStep
<1>3. \A b \in Agents : does'[b] \in {"less", "claim"} => cancelled'[on'[b]]
  BY <1>t, <1>0, <1>1, <1>2 DEF UndoneInv
<1>4. fired' = fired \/ (/\ waiting[t] # 0 /\ Claim(t, waiting[t], "CANCELLED")
                         /\ (cancelled[t] \/ again[t])')
  <2>1. CASE ClaimsWaiting(a)
    <3>1. does[a] = "claim" /\ cancelled' = cancelled BY <2>1 DEF ClaimsWaiting, GoesOn
    <3>2. cancelled'[t] BY <1>0, <3>1 DEF UndoneInv
    <3> QED BY <1>0, <2>1, <3>2 DEF ClaimsWaiting
  <2>2. CASE AgainClaims(a) BY <1>t, <1>0, <2>2 DEF AgainClaims
  <2>3. CASE ~ClaimsWaiting(a) /\ ~AgainClaims(a)
    BY <2>3 DEF AgentStep, CancelSwaps, CancelLess, AlarmRings, AlarmMore, Notify, Schedule
  <2> QED BY <2>1, <2>2, <2>3
<1>5. \A u \in Tasks : Noticed(u)'
  <2>1. CASE fired' = fired
    <3>1. \A u \in Tasks : Kept(u) BY <1>1, <2>1 DEF Kept
    <3> QED BY <3>1, KeptNoticed DEF UndoneInv
  <2>2. CASE waiting[t] # 0 /\ Claim(t, waiting[t], "CANCELLED") /\ (cancelled[t] \/ again[t])'
    <3>1. waiting[t] \in Waits BY <1>t, <2>2, ConstantsAssumption
    <3> QED BY <1>1, <2>2, <3>1, UndoneClaim
  <2> QED BY <1>4, <2>1, <2>2
<1> QED BY <1>3, <1>5 DEF UndoneInv

LEMMA UndoneStep ==
  Inv /\ CountInv /\ ReasonsCounted /\ NoAlarm /\ NoGrace /\ UndoneInv /\ [Next]_vars => UndoneInv'
<1> SUFFICES ASSUME Inv, CountInv, ReasonsCounted, NoAlarm, NoGrace, UndoneInv, [Next]_vars
             PROVE  UndoneInv'
  OBVIOUS
<1>1. CASE Next
  BY <1>1, UndoneTaskStep, UndoneBodyStep, UndoneAgentStarts, UndoneAgentStep DEF Next
<1>2. CASE UNCHANGED vars
  <2>1. \A u \in Tasks : Kept(u) BY <1>2 DEF vars, taskVars, flagVars, blockVars, Kept
  <2> QED BY <1>2, <2>1, KeptNoticed DEF vars, flagVars, agentVars, UndoneInv
<1> QED BY <1>1, <1>2

\* An operation cut before it was done is never taken for done, whatever ended its wait
\* and however that met the others, in a program that delivers no panic to a `recover` and
\* enters no `within` in a `defer`: the runs that check HaltNoticed and GraceKept are of
\* those two.  Compiled code looks at ATTENTION alone, so that this rests on it.
THEOREM UndoneIsNoticed ==
  ASSUME "alarm" \notin Kinds, "defer" \notin Withins PROVE Spec => UndoneNoticed
<1>1. Init => UndoneInv BY ConstantsAssumption DEF Init, UndoneInv, Noticed
<1>2. Spec => []UndoneInv
  BY <1>1, UndoneStep, Invariance, CountAlways, AttentionCounts, NoAlarmAlways, NoGraceAlways, PTL
     DEF Spec
<1>3. UndoneInv => [\A t \in Tasks : pc[t] = "asked" /\ res[t] = "CANCELLED" /\ pc'[t] = "body"
                                       => expired[t]]_vars
  BY DEF UndoneInv, Noticed
<1> QED BY <1>2, <1>3, PTL DEF UndoneNoticed

=============================================================================
