------------------------------ MODULE TaskWait ------------------------------
(***************************************************************************)
(* How a task of the runtime waits, and who may end its wait.              *)
(*                                                                         *)
(* crates/tondo-runtime/src/tasks.rs: `park`, `notify_with` and `run`,     *)
(* `Wait` with `claim`, `parked` and `block_fully`, the timers, and the    *)
(* three ways a wait ends from outside: `cancel_task`, `alarm` (panics.rs  *)
(* delivers a child's panic with it) and `wait_again`.                     *)
(*                                                                         *)
(* A task is a thread of control with a program counter, `pc`, that names  *)
(* the place of the code it is at.  Agents are the other threads: each     *)
(* runs one operation on one task at a time, step by step.  What a thread  *)
(* does while it holds a spin lock (`waiting_lock`, an object's lock, the  *)
(* queue's) is one step; everything else that shares memory is a step of   *)
(* its own.                                                                *)
(***************************************************************************)
EXTENDS Naturals, Integers, FiniteSets

CONSTANTS
  Tasks,     \* the tasks
  Agents,    \* threads that wake, cancel, alarm or restart tasks
  MaxWaits,  \* how many waits a task makes in its life (bound)
  Kinds,     \* what agents do besides ending waits: some of AllKinds
  Withins    \* where the program enters a `within`: some of {"body", "defer"}

AllKinds == {"cancel", "alarm", "again"}

ASSUME ConstantsAssumption ==
  /\ MaxWaits \in Nat \ {0}
  /\ Kinds \subseteq AllKinds
  /\ Withins \subseteq {"body", "defer"}
  /\ IsFiniteSet(Agents)

VARIABLES
  pc,        \* where each task is in its code
  state,     \* Task.state
  wait,      \* the number of the task's newest wait, 0 before the first
  fired,     \* Wait.fired of each wait of each task
  waiting,   \* Task.waiting: the wait a cancellation claims, 0 for null
  listed,    \* whether an object's list holds the newest wait
  timers,    \* the timers pending: <<task, wait, index>>
  queued,    \* how many times the run queues hold the task
  cancelled, alarm, again, expired,           \* the flags of Task
  deferring, cut, grace, within, late,        \* its `defer`s and `within`
  recovering, panic,                          \* its `recover` and Owner.panic
  res,       \* how its last operation ended
  attention, \* ATTENTION
  does, kind, on                              \* each agent's step

taskVars == <<pc, state, wait, fired, waiting, listed, timers, queued>>
flagVars == <<cancelled, alarm, again, expired>>
blockVars == <<deferring, cut, grace, within, late, recovering, panic>>
agentVars == <<does, kind, on>>
vars == <<taskVars, flagVars, blockVars, res, attention, agentVars>>

Indices == {"NONE", "op", "CANCELLED", "DEADLINE"}
States == {"RUNNING", "PARKING", "PARKED", "NOTIFIED", "PINNED"}

\* Where a task is in `parked` and `block_fully`, from `Wait::new` until it
\* has read what ended the wait.
WaitPcs == {"begun", "timed", "park", "unnotify", "switched", "requeue",
            "parked", "pinned", "woken"}
TaskPcs == WaitPcs \cup
           {"ready", "body", "yield", "reyield", "leave", "check", "asked", "taking", "unwind",
            "end", "recoverend", "finished", "unregister", "freed"}
Steps == {"idle", "swap", "less", "ring", "more", "found", "claim", "notify", "schedule"}

Waits == 1 .. MaxWaits

TypeOK ==
  /\ pc \in [Tasks -> TaskPcs]
  /\ state \in [Tasks -> States]
  /\ wait \in [Tasks -> 0 .. MaxWaits]
  /\ fired \in [Tasks -> [Waits -> Indices]]
  /\ waiting \in [Tasks -> 0 .. MaxWaits]
  /\ listed \in [Tasks -> BOOLEAN]
  /\ timers \subseteq (Tasks \X Waits \X {"op", "DEADLINE"})
  /\ queued \in [Tasks -> Nat]
  /\ cancelled \in [Tasks -> BOOLEAN] /\ alarm \in [Tasks -> BOOLEAN]
  /\ again \in [Tasks -> BOOLEAN] /\ expired \in [Tasks -> BOOLEAN]
  /\ deferring \in [Tasks -> BOOLEAN] /\ cut \in [Tasks -> BOOLEAN]
  /\ grace \in [Tasks -> BOOLEAN] /\ within \in [Tasks -> BOOLEAN]
  /\ late \in [Tasks -> BOOLEAN] /\ recovering \in [Tasks -> BOOLEAN]
  /\ panic \in [Tasks -> BOOLEAN]
  /\ res \in [Tasks -> {"op", "CANCELLED"}]
  /\ attention \in Int
  /\ does \in [Agents -> Steps]
  /\ kind \in [Agents -> {"op"} \cup AllKinds]
  /\ on \in [Agents -> Tasks]

-----------------------------------------------------------------------------
(* Operators of the code.                                                  *)

\* halted(task): whether its waits end at once.
Halted(t) == ((cancelled[t] \/ alarm[t]) /\ ~grace[t]) \/ expired[t]

\* stops(): whether an operation that may wait ends without being done.
Stops(t) == Halted(t) /\ ~deferring[t]

\* A wait not claimed yet.
Unclaimed(t, n) == fired[t][n] = "NONE"

\* Wait::claim, of a wait nobody claimed yet.
Claim(t, n, index) == fired' = [fired EXCEPT ![t][n] = index]

Goes(t, place) == pc' = [pc EXCEPT ![t] = place]

\* attend(true), attend(false) when `condition`.
AttendMore(condition) == attention' = attention + (IF condition THEN 1 ELSE 0)
AttendLess(condition) == attention' = attention - (IF condition THEN 1 ELSE 0)

\* An agent starts to run an operation on a task, goes on, or ends.
Starts(a, k, t, step) ==
  /\ does[a] = "idle"
  /\ does' = [does EXCEPT ![a] = step]
  /\ kind' = [kind EXCEPT ![a] = k]
  /\ on' = [on EXCEPT ![a] = t]
GoesOn(a, from, to) ==
  /\ does[a] = from
  /\ does' = [does EXCEPT ![a] = to]
  /\ kind' = IF to = "idle" THEN [kind EXCEPT ![a] = "op"] ELSE kind
  /\ UNCHANGED on

\* The agent holds a lock the task takes before it leaves: the registry's
\* (`cancel_by_id`, `abandon`) or the join's (`cancel_join`) for a cancel.
KeepsAlive(a, t) == does[a] # "idle" /\ kind[a] = "cancel" /\ on[a] = t

\* The agent holds the Owner of the task's `recover` (`deliver`).
HoldsOwner(a, t) == does[a] # "idle" /\ kind[a] = "alarm" /\ on[a] = t

Init ==
  /\ pc = [t \in Tasks |-> "ready"]
  /\ state = [t \in Tasks |-> "RUNNING"]
  /\ wait = [t \in Tasks |-> 0]
  /\ fired = [t \in Tasks |-> [n \in Waits |-> "NONE"]]
  /\ waiting = [t \in Tasks |-> 0]
  /\ listed = [t \in Tasks |-> FALSE]
  /\ timers = {}
  /\ queued = [t \in Tasks |-> 1]
  /\ cancelled = [t \in Tasks |-> FALSE]
  /\ alarm = [t \in Tasks |-> FALSE]
  /\ again = [t \in Tasks |-> FALSE]
  /\ expired = [t \in Tasks |-> FALSE]
  /\ deferring = [t \in Tasks |-> FALSE]
  /\ cut = [t \in Tasks |-> FALSE]
  /\ grace = [t \in Tasks |-> FALSE]
  /\ within = [t \in Tasks |-> FALSE]
  /\ late = [t \in Tasks |-> FALSE]
  /\ recovering = [t \in Tasks |-> TRUE]
  /\ panic = [t \in Tasks |-> FALSE]
  /\ res = [t \in Tasks |-> "op"]
  /\ attention = 0
  /\ does = [a \in Agents |-> "idle"]
  /\ kind = [a \in Agents |-> "op"]
  /\ \E t \in Tasks : on = [a \in Agents |-> t]

-----------------------------------------------------------------------------
(* A worker runs a task, and a task that waits.                            *)

\* Mutant: a worker runs a task no queue holds.
RunUnqueued(t) ==
  /\ pc[t] \in {"ready", "parked"}
  /\ queued' = [queued EXCEPT ![t] = @ - 1]
  /\ Goes(t, IF pc[t] = "ready" THEN "body" ELSE "woken")
  /\ UNCHANGED <<state, wait, fired, waiting, listed, timers, flagVars,
                 blockVars, res, attention, agentVars>>

\* A worker takes the task from a queue and switches to it (`run`).
Run(t) ==
  /\ queued[t] > 0
  /\ pc[t] \in {"ready", "parked"}
  /\ queued' = [queued EXCEPT ![t] = @ - 1]
  /\ Goes(t, IF pc[t] = "ready" THEN "body" ELSE "woken")
  /\ UNCHANGED <<state, wait, fired, waiting, listed, timers, flagVars,
                 blockVars, res, attention, agentVars>>

\* The body calls an operation that may wait.  It is not done when the task
\* stops; otherwise the task makes a wait: one that an object lists (a
\* channel, a lock, a join), one that a timer ends (`sleep`), or both.
Begin(t) ==
  /\ pc[t] = "body"
  /\ wait[t] < MaxWaits
  /\ IF Stops(t)
       THEN /\ Goes(t, "check")
            /\ res' = [res EXCEPT ![t] = "CANCELLED"]
            /\ UNCHANGED <<wait, listed, timers>>
       ELSE /\ Goes(t, "begun")
            /\ wait' = [wait EXCEPT ![t] = @ + 1]
            /\ \/ listed' = [listed EXCEPT ![t] = TRUE] /\ UNCHANGED timers
               \/ /\ timers' = timers \cup {<<t, wait[t] + 1, "op">>}
                  /\ \E l \in BOOLEAN : listed' = [listed EXCEPT ![t] = l]
            /\ UNCHANGED res
  /\ UNCHANGED <<state, fired, waiting, queued, flagVars, blockVars, attention, agentVars>>

\* Wait::parked, its first part: the deadline of a `within` gets a timer, or
\* it passed already and the task expires.  A release waits with
\* `block_fully` and does neither.
Deadline(t) ==
  /\ pc[t] = "begun"
  /\ \/ Goes(t, "park") /\ UNCHANGED <<timers, expired, attention>>
     \/ /\ Goes(t, "timed")
        /\ timers' = IF within[t] /\ ~late[t]
                     THEN timers \cup {<<t, wait[t], "DEADLINE">>} ELSE timers
        /\ LET expires == within[t] /\ late[t] IN
             /\ AttendMore(expires /\ ~expired[t])
             /\ expired' = [expired EXCEPT ![t] = @ \/ expires]
  /\ UNCHANGED <<state, wait, fired, waiting, listed, queued, cancelled, alarm, again,
                 blockVars, res, agentVars>>

\* Mutant: the task does not look whether it is halted before it blocks.
ArmBlind(t) ==
  /\ pc[t] = "timed"
  /\ waiting' = [waiting EXCEPT ![t] = wait[t]]
  /\ Goes(t, "park")
  /\ UNCHANGED <<state, wait, fired, listed, timers, queued, flagVars, blockVars, res,
                 attention, agentVars>>

\* Wait::parked under `waiting_lock`: a halted task claims its own wait;
\* otherwise, or when another claimed it first, the task blocks.
Arm(t) ==
  /\ pc[t] = "timed"
  /\ IF Halted(t) /\ Unclaimed(t, wait[t])
       THEN /\ Claim(t, wait[t], "CANCELLED")
            /\ Goes(t, "leave")
            /\ res' = [res EXCEPT ![t] = "CANCELLED"]
            /\ cut' = [cut EXCEPT ![t] = @ \/ deferring[t]]
            /\ UNCHANGED waiting
       ELSE /\ waiting' = [waiting EXCEPT ![t] = wait[t]]
            /\ Goes(t, "park")
            /\ UNCHANGED <<fired, res, cut>>
  /\ UNCHANGED <<state, wait, listed, timers, queued, flagVars, deferring, grace, within,
                 late, recovering, panic, attention, agentVars>>

\* park(): RUNNING to PARKING, or to PINNED with frames of C on the stack;
\* or the task was notified before it could wait.
Park(t) ==
  /\ pc[t] = "park"
  /\ IF state[t] # "RUNNING"
       THEN Goes(t, "unnotify") /\ UNCHANGED state
       ELSE \/ Goes(t, "pinned") /\ state' = [state EXCEPT ![t] = "PINNED"]
            \/ Goes(t, "switched") /\ state' = [state EXCEPT ![t] = "PARKING"]
  /\ UNCHANGED <<wait, fired, waiting, listed, timers, queued, flagVars, blockVars, res,
                 attention, agentVars>>

\* Mutant: the notification that came before the wait is left in the state.
UnnotifyKeeps(t) ==
  /\ pc[t] = "unnotify"
  /\ Goes(t, "woken")
  /\ UNCHANGED <<state, wait, fired, waiting, listed, timers, queued, flagVars, blockVars, res,
                 attention, agentVars>>

\* park() after the exchange failed: the notification is spent.
Unnotify(t) ==
  /\ pc[t] = "unnotify"
  /\ Goes(t, "woken")
  /\ state' = [state EXCEPT ![t] = "RUNNING"]
  /\ UNCHANGED <<wait, fired, waiting, listed, timers, queued, flagVars, blockVars, res,
                 attention, agentVars>>

\* Mutant: the worker parks the task without looking for a notification.
SwitchedOutBlind(t) ==
  /\ pc[t] \in {"switched", "yield"}
  /\ IF pc[t] = "yield"
       THEN Goes(t, "reyield") /\ UNCHANGED state
       ELSE Goes(t, "parked") /\ state' = [state EXCEPT ![t] = "PARKED"]
  /\ UNCHANGED <<wait, fired, waiting, listed, timers, queued, flagVars, blockVars, res,
                 attention, agentVars>>

\* run() after the task switched out, to wait ("switched") or to give way
\* ("yield"): it is parked, or was notified while it switched out.
SwitchedOut(t) ==
  /\ pc[t] \in {"switched", "yield"}
  /\ IF state[t] = "PARKING"
       THEN /\ state' = [state EXCEPT ![t] = "PARKED"]
            /\ Goes(t, "parked")
       ELSE /\ Goes(t, IF pc[t] = "yield" THEN "reyield" ELSE "requeue")
            /\ UNCHANGED state
  /\ UNCHANGED <<wait, fired, waiting, listed, timers, queued, flagVars, blockVars, res,
                 attention, agentVars>>

\* run(), a task notified while switching out: runnable again.
Requeue(t) ==
  /\ pc[t] \in {"requeue", "reyield"}
  /\ state' = [state EXCEPT ![t] = "RUNNING"]
  /\ queued' = [queued EXCEPT ![t] = @ + 1]
  /\ Goes(t, IF pc[t] = "reyield" THEN "ready" ELSE "parked")
  /\ UNCHANGED <<wait, fired, waiting, listed, timers, flagVars, blockVars, res, attention,
                 agentVars>>

\* wait_pinned(): the thread looks at the state until the notification.
Unpin(t) ==
  /\ pc[t] = "pinned"
  /\ state[t] = "RUNNING"
  /\ Goes(t, "woken")
  /\ UNCHANGED <<state, wait, fired, waiting, listed, timers, queued, flagVars, blockVars,
                 res, attention, agentVars>>

\* Mutant: a wait cut in a `defer` is not noted.
WokenUncut(t) ==
  /\ pc[t] = "woken"
  /\ LET index == fired[t][wait[t]]
         expires == waiting[t] # 0 /\ index = "DEADLINE" IN
       IF index = "NONE"
         THEN Goes(t, "park") /\ UNCHANGED <<waiting, res, expired, attention>>
         ELSE /\ Goes(t, "leave")
              /\ waiting' = [waiting EXCEPT ![t] = 0]
              /\ res' = [res EXCEPT ![t] = IF index = "op" THEN "op" ELSE "CANCELLED"]
              /\ AttendMore(expires /\ ~expired[t])
              /\ expired' = [expired EXCEPT ![t] = @ \/ expires]
  /\ UNCHANGED <<state, wait, fired, listed, timers, queued, cancelled, alarm, again,
                 deferring, cut, grace, within, late, recovering, panic, agentVars>>

\* block_fully() reads who ended the wait; nobody did, and it parks again;
\* or `parked` takes the wait back under `waiting_lock`, and a deadline
\* expires the task.
Woken(t) ==
  /\ pc[t] = "woken"
  /\ LET index == fired[t][wait[t]]
         expires == waiting[t] # 0 /\ index = "DEADLINE" IN
       IF index = "NONE"
         THEN Goes(t, "park") /\ UNCHANGED <<waiting, res, expired, cut, attention>>
         ELSE /\ Goes(t, "leave")
              /\ waiting' = [waiting EXCEPT ![t] = 0]
              /\ res' = [res EXCEPT ![t] = IF index = "op" THEN "op" ELSE "CANCELLED"]
              /\ AttendMore(expires /\ ~expired[t])
              /\ expired' = [expired EXCEPT ![t] = @ \/ expires]
              /\ cut' = [cut EXCEPT ![t] = @ \/ (index # "op" /\ deferring[t])]
  /\ UNCHANGED <<state, wait, fired, listed, timers, queued, cancelled, alarm, again,
                 deferring, grace, within, late, recovering, panic, agentVars>>

\* The task removes itself from the object's list, under the object's lock.
Leave(t) ==
  /\ pc[t] = "leave"
  /\ listed' = [listed EXCEPT ![t] = FALSE]
  /\ Goes(t, "check")
  /\ UNCHANGED <<state, wait, fired, waiting, timers, queued, flagVars, blockVars, res,
                 attention, agentVars>>

-----------------------------------------------------------------------------
(* What compiled code does around waits.                                   *)

\* Compiled code after a call that may wait: nothing when ATTENTION is zero;
\* otherwise tondo_rt_cancelled() answers 1 (unwind), 2 (the statement
\* starts again) or 0 (go on to the next question).
Check(t) ==
  /\ pc[t] = "check"
  /\ LET asks == attention # 0
         unwinds == asks /\ cancelled[t] /\ ~grace[t] /\ (~deferring[t] \/ cut[t])
         restarts == asks /\ ~unwinds /\ again[t] IN
       /\ Goes(t, IF unwinds THEN "unwind" ELSE IF restarts THEN "body" ELSE "asked")
       /\ again' = [again EXCEPT ![t] = @ /\ ~restarts]
       /\ AttendLess(restarts)
  /\ UNCHANGED <<state, wait, fired, waiting, listed, timers, queued, cancelled, alarm,
                 expired, blockVars, res, agentVars>>

\* The other question of compiled code, tondo_rt_unwinding(): an alarm is
\* taken, or a deadline that passed unwinds to its `within`, which catches it.
Asked(t) ==
  /\ pc[t] = "asked"
  /\ LET asks == attention # 0
         takes == asks /\ alarm[t]
         stopped == asks /\ ~takes /\ expired[t] IN
       /\ Goes(t, IF takes THEN "taking" ELSE "body")
       /\ alarm' = [alarm EXCEPT ![t] = @ /\ ~takes]
       /\ expired' = [expired EXCEPT ![t] = @ /\ ~stopped]
       /\ within' = [within EXCEPT ![t] = @ /\ ~stopped]
       /\ grace' = [grace EXCEPT ![t] = @ /\ ~stopped]
       /\ late' = [late EXCEPT ![t] = @ /\ ~stopped]
       /\ AttendLess(takes \/ stopped)
  /\ UNCHANGED <<state, wait, fired, waiting, listed, timers, queued, cancelled, again,
                 deferring, cut, recovering, panic, res, agentVars>>

\* take_alarm(), under the Owner's lock: the panic delivered goes on here.
Take(t) ==
  /\ pc[t] = "taking"
  /\ ~ \E a \in Agents : HoldsOwner(a, t)
  /\ Goes(t, IF panic[t] THEN "unwind" ELSE "body")
  /\ panic' = [panic EXCEPT ![t] = FALSE]
  /\ UNCHANGED <<state, wait, fired, waiting, listed, timers, queued, flagVars, deferring,
                 cut, grace, within, late, recovering, res, attention, agentVars>>

\* tondo_rt_within_enter(): in a `defer` of a halted task it gives grace.
WithinEnter(t) ==
  /\ pc[t] = "body"
  /\ ~within[t]
  /\ wait[t] < MaxWaits
  /\ (IF deferring[t] THEN "defer" ELSE "body") \in Withins
  /\ within' = [within EXCEPT ![t] = TRUE]
  /\ late' = [late EXCEPT ![t] = FALSE]
  /\ grace' = [grace EXCEPT ![t] = @ \/ ((cancelled[t] \/ alarm[t]) /\ deferring[t])]
  /\ UNCHANGED <<taskVars, flagVars, deferring, cut, recovering, panic, res, attention,
                 agentVars>>

\* The clock passes the deadline of the task's `within`.
DeadlinePasses(t) ==
  /\ within[t]
  /\ ~late[t]
  /\ late' = [late EXCEPT ![t] = TRUE]
  /\ UNCHANGED <<taskVars, flagVars, deferring, cut, grace, within, recovering, panic, res,
                 attention, agentVars>>

\* tondo_rt_within_leave(): the block ends by itself, or unwinding leaves it;
\* a deadline that passed unseen goes with it.
LeavesWithin(t) ==
  /\ within' = [within EXCEPT ![t] = FALSE]
  /\ late' = [late EXCEPT ![t] = FALSE]
  /\ grace' = [grace EXCEPT ![t] = FALSE]
  /\ expired' = [expired EXCEPT ![t] = @ /\ ~within[t]]
  /\ AttendLess(expired[t] /\ within[t])

WithinLeave(t) ==
  /\ pc[t] = "body"
  /\ within[t]
  /\ LeavesWithin(t)
  /\ UNCHANGED <<taskVars, cancelled, alarm, again, deferring, cut, recovering, panic, res,
                 agentVars>>

\* The frame unwinds, or the body comes to its end.
Ends(t) ==
  /\ LeavesWithin(t)
  /\ Goes(t, "end")
  /\ UNCHANGED <<state, wait, fired, waiting, listed, timers, queued, cancelled, alarm,
                 again, deferring, cut, recovering, panic, res, agentVars>>

Unwind(t) == pc[t] = "unwind" /\ Ends(t)
EndBody(t) == pc[t] = "body" /\ ~within[t] /\ Ends(t)

\* defer_starts() and defer_ends() around the cleanup of the frame.
DeferStarts(t) ==
  /\ pc[t] = "end"
  /\ ~deferring[t]
  /\ deferring' = [deferring EXCEPT ![t] = TRUE]
  /\ cut' = [cut EXCEPT ![t] = FALSE]
  /\ Goes(t, "body")
  /\ UNCHANGED <<state, wait, fired, waiting, listed, timers, queued, flagVars, grace,
                 within, late, recovering, panic, res, attention, agentVars>>

DeferEnds(t) ==
  /\ pc[t] = "end"
  /\ deferring[t]
  /\ deferring' = [deferring EXCEPT ![t] = FALSE]
  /\ cut' = [cut EXCEPT ![t] = FALSE]
  /\ Goes(t, "recoverend")
  /\ UNCHANGED <<state, wait, fired, waiting, listed, timers, queued, flagVars, grace,
                 within, late, recovering, panic, res, attention, agentVars>>

\* tondo_rt_recover_leave() and _catch(): the block closes its Owner under
\* its lock, and calm() ends an alarm no panic is left for.
RecoverEnds(t) ==
  /\ pc[t] = "recoverend"
  /\ ~ \E a \in Agents : HoldsOwner(a, t)
  /\ recovering' = [recovering EXCEPT ![t] = FALSE]
  /\ panic' = [panic EXCEPT ![t] = FALSE]
  /\ alarm' = [alarm EXCEPT ![t] = FALSE]
  /\ AttendLess(alarm[t])
  /\ Goes(t, "finished")
  /\ UNCHANGED <<state, wait, fired, waiting, listed, timers, queued, cancelled, again,
                 expired, deferring, cut, grace, within, late, res, agentVars>>

\* give_way(): while orders are explored, the task lets another one run.
GiveWay(t) ==
  /\ pc[t] = "body"
  /\ state' = [state EXCEPT ![t] = "NOTIFIED"]
  /\ Goes(t, "yield")
  /\ UNCHANGED <<wait, fired, waiting, listed, timers, queued, flagVars, blockVars, res,
                 attention, agentVars>>

\* run() of a finished task: the reasons it gave for attention go...
Finish(t) ==
  /\ pc[t] = "finished"
  /\ attention' = attention - (IF cancelled[t] THEN 1 ELSE 0) - (IF again[t] THEN 1 ELSE 0)
  /\ Goes(t, "unregister")
  /\ UNCHANGED <<state, wait, fired, waiting, listed, timers, queued, flagVars, blockVars,
                 res, agentVars>>

\* Mutant: the task is freed without taking the lock that keeps it.
UnregisterFree(t) ==
  /\ pc[t] = "unregister"
  /\ Goes(t, "freed")
  /\ UNCHANGED <<state, wait, fired, waiting, listed, timers, queued, flagVars, blockVars,
                 res, attention, agentVars>>

\* ... and, once no lock keeps it, it is freed.
Unregister(t) ==
  /\ pc[t] = "unregister"
  /\ ~ \E a \in Agents : KeepsAlive(a, t)
  /\ Goes(t, "freed")
  /\ UNCHANGED <<state, wait, fired, waiting, listed, timers, queued, flagVars, blockVars,
                 res, attention, agentVars>>

-----------------------------------------------------------------------------
(* The threads that end waits.                                             *)

\* An object's operation finds the wait in its list and claims it under its
\* lock; it notifies the task once it let the lock go.
OpClaims(a, t) ==
  /\ listed[t]
  /\ Starts(a, "op", t, "notify")
  /\ Unclaimed(t, wait[t])
  /\ Claim(t, wait[t], "op")
  /\ listed' = [listed EXCEPT ![t] = FALSE]
  /\ UNCHANGED <<pc, state, wait, waiting, timers, queued, flagVars, blockVars, res, attention>>

\* fire_timers(): a timer that is due claims its wait, unless it ended.  The
\* timer of a deadline is due once the deadline passed.
TimerFires(a, t, n, index) ==
  /\ <<t, n, index>> \in timers
  /\ timers' = timers \ {<<t, n, index>>}
  /\ IF Unclaimed(t, n)
       THEN /\ index = "DEADLINE" => late[t]
            /\ Claim(t, n, index)
            /\ Starts(a, "op", t, "notify")
       ELSE UNCHANGED <<fired, agentVars>>
  /\ UNCHANGED <<pc, state, wait, waiting, listed, queued, flagVars, blockVars, res, attention>>

\* cancel_task(), by a thread that holds what keeps the task alive: first
\* attention, ...
CancelStarts(a, t) ==
  /\ "cancel" \in Kinds
  /\ pc[t] # "freed"
  /\ Starts(a, "cancel", t, "swap")
  /\ AttendMore(TRUE)
  /\ UNCHANGED <<taskVars, flagVars, blockVars, res>>

\* Mutant: every cancellation takes its reason back.
CancelSwapsLess(a) ==
  /\ GoesOn(a, "swap", "less")
  /\ cancelled' = [cancelled EXCEPT ![on[a]] = TRUE]
  /\ UNCHANGED <<taskVars, alarm, again, expired, blockVars, res, attention>>

\* ... then the flag, ...
CancelSwaps(a) ==
  /\ GoesOn(a, "swap", IF cancelled[on[a]] THEN "less" ELSE "claim")
  /\ cancelled' = [cancelled EXCEPT ![on[a]] = TRUE]
  /\ UNCHANGED <<taskVars, alarm, again, expired, blockVars, res, attention>>

CancelLess(a) ==
  /\ GoesOn(a, "less", "claim")
  /\ AttendLess(TRUE)
  /\ UNCHANGED <<taskVars, flagVars, blockVars, res>>

\* ... then the wait, under `waiting_lock`, as alarm() does too.
ClaimsWaiting(a) ==
  /\ LET t == on[a]
         ends == waiting[t] # 0 /\ Unclaimed(t, waiting[t]) IN
       /\ GoesOn(a, "claim", IF ends THEN "notify" ELSE "idle")
       /\ IF ends THEN Claim(t, waiting[t], "CANCELLED") ELSE UNCHANGED fired
  /\ UNCHANGED <<pc, state, wait, waiting, listed, timers, queued, flagVars, blockVars, res,
                 attention>>

\* deliver(): a child's panic goes to the `recover` that runs, and alarm(),
\* under the Owner's lock, stops the task: the flag, then attention, then
\* the wait.
AlarmStarts(a, t) ==
  /\ "alarm" \in Kinds
  /\ recovering[t]
  /\ ~panic[t]
  /\ ~ \E b \in Agents : HoldsOwner(b, t)
  /\ panic' = [panic EXCEPT ![t] = TRUE]
  /\ Starts(a, "alarm", t, "ring")
  /\ UNCHANGED <<taskVars, flagVars, deferring, cut, grace, within, late, recovering, res,
                 attention>>

AlarmRings(a) ==
  /\ GoesOn(a, "ring", IF alarm[on[a]] THEN "claim" ELSE "more")
  /\ alarm' = [alarm EXCEPT ![on[a]] = TRUE]
  /\ UNCHANGED <<taskVars, cancelled, again, expired, blockVars, res, attention>>

AlarmMore(a) ==
  /\ GoesOn(a, "more", "claim")
  /\ AttendMore(TRUE)
  /\ UNCHANGED <<taskVars, flagVars, blockVars, res>>

\* wait_again(): the task is looked up with the registry locked, and the
\* lock let go; then its wait ends under `waiting_lock`.  (A task freed in
\* between is undefined behaviour there; the model does nothing then.)
AgainLooksUp(a, t) ==
  /\ "again" \in Kinds
  /\ pc[t] # "freed"
  /\ Starts(a, "again", t, "found")
  /\ UNCHANGED <<taskVars, flagVars, blockVars, res, attention>>

AgainClaims(a) ==
  /\ LET t == on[a]
         ends == waiting[t] # 0 /\ Unclaimed(t, waiting[t]) /\ pc[t] # "freed" IN
       /\ GoesOn(a, "found", IF ends THEN "notify" ELSE "idle")
       /\ IF ends THEN Claim(t, waiting[t], "CANCELLED") ELSE UNCHANGED fired
       /\ AttendMore(ends /\ ~again[t])
       /\ again' = [again EXCEPT ![t] = @ \/ ends]
  /\ UNCHANGED <<pc, state, wait, waiting, listed, timers, queued, cancelled, alarm, expired,
                 blockVars, res>>

\* Mutant: a task notified before it parked is made runnable too.
NotifyAlways(a) ==
  /\ LET t == on[a] IN
       /\ GoesOn(a, "notify", IF state[t] \in {"PARKED", "PARKING"} THEN "schedule" ELSE "idle")
       /\ state' = [state EXCEPT ![t] =
                      IF @ \in {"PARKED", "PINNED"} THEN "RUNNING" ELSE "NOTIFIED"]
  /\ UNCHANGED <<pc, wait, fired, waiting, listed, timers, queued, flagVars, blockVars, res,
                 attention>>

\* notify_with(): the exchange of the task's state.
Notify(a) ==
  /\ LET t == on[a] IN
       /\ GoesOn(a, "notify", IF state[t] = "PARKED" THEN "schedule" ELSE "idle")
       /\ state' = [state EXCEPT ![t] =
                      IF @ \in {"PARKED", "PINNED"} THEN "RUNNING" ELSE "NOTIFIED"]
  /\ UNCHANGED <<pc, wait, fired, waiting, listed, timers, queued, flagVars, blockVars, res,
                 attention>>

\* schedule(): a task that was parked is runnable.
Schedule(a) ==
  /\ GoesOn(a, "schedule", "idle")
  /\ queued' = [queued EXCEPT ![on[a]] = @ + 1]
  /\ UNCHANGED <<pc, state, wait, fired, waiting, listed, timers, flagVars, blockVars, res,
                 attention>>

-----------------------------------------------------------------------------
\* What the task's thread does by itself, without a choice of the program.
TaskStep(t) ==
  \/ Run(t) \/ Deadline(t) \/ Arm(t) \/ Park(t) \/ Unnotify(t) \/ SwitchedOut(t)
  \/ Requeue(t) \/ Unpin(t) \/ Woken(t) \/ Leave(t) \/ Check(t) \/ Asked(t) \/ Take(t)
  \/ DeferStarts(t) \/ DeferEnds(t) \/ RecoverEnds(t) \/ Finish(t) \/ Unregister(t)
  \/ Unwind(t)

\* What the program chooses to do.
BodyStep(t) == Begin(t) \/ WithinEnter(t) \/ WithinLeave(t) \/ GiveWay(t) \/ EndBody(t)

\* An agent starts an operation, or goes on with one.
AgentStarts(a) ==
  \E t \in Tasks :
    \/ OpClaims(a, t) \/ CancelStarts(a, t) \/ AlarmStarts(a, t) \/ AgainLooksUp(a, t)
    \/ \E n \in Waits, index \in {"op", "DEADLINE"} : TimerFires(a, t, n, index)
AgentStep(a) ==
  \/ CancelSwaps(a) \/ CancelLess(a) \/ ClaimsWaiting(a) \/ AlarmRings(a) \/ AlarmMore(a)
  \/ AgainClaims(a) \/ Notify(a) \/ Schedule(a)

Next ==
  \/ \E t \in Tasks : TaskStep(t) \/ BodyStep(t) \/ DeadlinePasses(t)
  \/ \E a \in Agents : AgentStarts(a) \/ AgentStep(a)

Spec == Init /\ [][Next]_vars

\* Workers run what is runnable, and a thread goes on with what it started;
\* nobody need start an operation, and the program may stay in its body.
FairSpec ==
  /\ Spec
  /\ \A t \in Tasks : WF_vars(TaskStep(t))
  /\ \A a \in Agents : WF_vars(AgentStep(a))

-----------------------------------------------------------------------------
(* Properties.                                                             *)

\* Threads that claimed the task's wait and have not notified it, and that
\* notified it and have not made it runnable.
Notifiers(t)  == {a \in Agents : does[a] = "notify" /\ on[a] = t}
Schedulers(t) == {a \in Agents : does[a] = "schedule" /\ on[a] = t}

\* Who ends a wait claimed it, alone, and notifies it once: whoever is about
\* to notify a task finds it in the wait it claimed, so `notify_with` never
\* touches a task that left its wait, ended and was freed.
ClaimerFindsTask ==
  \A t \in Tasks : \A a \in Notifiers(t) \cup Schedulers(t) :
    pc[t] \in WaitPcs /\ ~Unclaimed(t, wait[t])

\* A task that runs its code has no notification left over from a wait that
\* ended and none on its way, which would end its next wait before its time.
NoStrayWake ==
  \A t \in Tasks :
    pc[t] \in {"body", "begun", "timed"} /\ (pc[t] = "body" \/ Unclaimed(t, wait[t])) =>
      state[t] = "RUNNING" /\ Notifiers(t) = {} /\ Schedulers(t) = {}

\* A task is in one place: one entry of a run queue, or one thread about to
\* make it runnable, or one worker, or parked.  Two entries would run it on
\* two workers at once, on one stack.
OnePlace ==
  \A t \in Tasks :
    queued[t] + Cardinality(Schedulers(t)) =
      IF pc[t] = "ready" \/ (pc[t] = "parked" /\ state[t] # "PARKED") THEN 1 ELSE 0

\* No wake is lost: a task switched out of a wait that was claimed has a
\* thread that is about to notify it.
WakePending ==
  \A t \in Tasks :
    pc[t] \in {"parked", "pinned"} /\ state[t] \in {"PARKED", "PINNED"}
      /\ ~Unclaimed(t, wait[t]) => Notifiers(t) # {}

\* A task that a cancellation or an alarm stopped does not stay in a wait
\* that it can end: the wait is claimed, or a thread is about to claim it.
HaltReachesWait ==
  \A t \in Tasks :
    waiting[t] # 0 /\ Halted(t) /\ ~late[t] /\ Unclaimed(t, waiting[t]) =>
      \E a \in Agents : on[a] = t /\ does[a] \in {"less", "more", "claim"}

\* ATTENTION counts every reason a task has (tasks.rs:1051): cancelled, its
\* statement starts again, expired, alarmed.  (More, for a while, when a
\* thread counts before it sets the flag.)
Reasons ==
  {<<"cancelled", t>> : t \in {u \in Tasks : cancelled[u] /\ pc[u] \notin {"unregister", "freed"}}}
  \cup {<<"again", t>> : t \in {u \in Tasks : again[u] /\ pc[u] \notin {"unregister", "freed"}}}
  \cup {<<"expired", t>> : t \in {u \in Tasks : expired[u]}}
  \cup {<<"alarm", t>> : t \in {u \in Tasks : alarm[u]}}
ReasonsCounted == Cardinality(Reasons) <= attention

\* An operation that was not done is never taken for done: after a wait that
\* ended cancelled, compiled code unwinds or starts its statement again, and
\* goes on only from the `within` whose deadline passed.
UndoneNoticed ==
  [][\A t \in Tasks :
       pc[t] = "asked" /\ res[t] = "CANCELLED" /\ pc'[t] = "body" => expired[t]]_vars

\* "a task that sees itself cancelled, as a lock that returns at once without
\* its guard, unwinds only if compiled code then calls `tondo_rt_cancelled`"
\* (cancel_task, tasks.rs:3602): whoever stops a task counts its reason first.
HaltNoticed == \A t \in Tasks : pc[t] \in {"check", "asked"} /\ Halted(t) => attention # 0

\* "its waits go on until its deadline" (within_starts, tasks.rs:3254): a
\* wait in the grace of a `within` ends undone only once that passed.
GraceKept ==
  \A t \in Tasks : pc[t] = "leave" /\ res[t] = "CANCELLED" /\ grace[t] => late[t]

\* A task that a thread cancels, or delivers a panic to, is not freed under
\* it: `unregister` and the end of `recover` take the lock the thread holds.
StoppedIsAlive ==
  \A a \in Agents : does[a] \in {"swap", "less", "ring", "more", "claim"} => pc[on[a]] # "freed"

\* "while they are, no task is freed" (the shards locked, tasks.rs:2555): a
\* task looked up is alive when the thread that looked it up uses it.
LookedUpAlive ==
  \A a \in Agents : does[a] = "found" => pc[on[a]] # "freed"

\* The reasons of tasks that ended are gone from ATTENTION, which is zero
\* "nearly always" (tasks.rs:1055).
AttentionGoes ==
  (\A t \in Tasks : pc[t] = "freed") /\ (\A a \in Agents : does[a] = "idle") => attention = 0

\* A wait that somebody ended does end: the task goes on.
EndedWaitReturns ==
  \A t \in Tasks :
    (pc[t] \in WaitPcs /\ ~Unclaimed(t, wait[t])) ~> (pc[t] \notin WaitPcs)

\* "se detiene en su siguiente espera, o al instante si ya esta esperando"
\* (language spec 11.15): a cancelled task leaves a wait it may leave.
CancelEndsWait ==
  \A t \in Tasks : (cancelled[t] /\ ~grace[t] /\ waiting[t] # 0) ~> (waiting[t] = 0)

=============================================================================
