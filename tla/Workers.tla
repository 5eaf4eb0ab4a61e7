------------------------------ MODULE Workers -------------------------------
(***************************************************************************)
(* How the runtime's threads find tasks to run, go to sleep and are woken. *)
(*                                                                         *)
(* crates/tondo-runtime/src/tasks.rs: `work_until`, `schedule`, `enqueue`, *)
(* `steal`, `take_next`, `wake_idle`, `wake_one`, `stalled`, `fire_timers`,*)
(* the calls of C and their monitor.  A step is what the code does with    *)
(* QUEUE's lock held, or one atomic operation; the steps of a worker that  *)
(* goes to sleep are several, as others read and write SEEKING and the     *)
(* counts of the workers' own queues without the lock.  How a task parks   *)
(* and is notified is TaskWait's.                                          *)
(***************************************************************************)
EXTENDS Naturals, FiniteSets, Sequences, SequencesExt

CONSTANTS
  Workers, MainWorker, \* threads, and the one that runs `main` (work(true))
  Spare,               \* the threads not started at first
  Tasks, MainTask,
  Callers,             \* the tasks that call C
  Kinds,               \* what tasks wait for: some of AllKinds
  PinKinds,            \* what they wait for in a function that C called
  MaxParks, MaxCalls   \* how often tasks wait, and call C (bounds)

\* A task waits for another, for an operation of the host, or for a time.
AllKinds == {"task", "host", "time"}

\* A task that waits inside a function C called, for another or for the host.
PinnedStates == {"pinned", "hostPinned"}

None == "none"

ASSUME WorkersAssumption ==
  /\ IsFiniteSet(Workers) /\ IsFiniteSet(Tasks) /\ None \notin Workers \cup Tasks
  /\ Spare \subseteq Workers /\ MainWorker \in Workers \ Spare
  /\ MainTask \in Tasks /\ Callers \subseteq Tasks
  /\ Kinds \subseteq AllKinds /\ PinKinds \subseteq {"task", "host"}
  /\ MaxParks \in Nat /\ MaxCalls \in Nat

VARIABLES
  runnable, lock, waking, surplus,  \* QUEUE, and who holds its lock between steps
  timers, due,                      \* the tasks with a timer, and those it is time for
  seeking,                          \* SEEKING
  own, count, next,                 \* each worker's Next
  pc, cur,                          \* where each worker is, and the task it runs
  seeker, woken, waited, stealing,  \* the locals of work_until
  rung, until,                      \* READY: who was notified; the timers a sleep ends at
  replaced,                         \* InC.replaced
  task,                             \* where each task is
  host,                             \* its operation of the host
  parks, calls,                     \* how often tasks waited and called C
  reported                          \* P0013

queueVars == <<runnable, lock, waking, surplus, timers, due>>
nextVars == <<own, count, next>>
localVars == <<seeker, woken, waited, stealing>>
sleepVars == <<rung, until>>
taskVars == <<cur, task, host>>
boundVars == <<parks, calls>>
vars == <<queueVars, seeking, nextVars, pc, localVars, sleepVars, replaced,
          taskVars, boundVars, reported>>

\* A worker is counted in QUEUE.idle from `counted` until it wakes.
IdlePcs == {"counted", "checks", "stalls", "sums", "asleep"}
OffPcs == {"off", "retires"}
PinnedPcs == {"pinned", "rechecks"}
Pcs == IdlePcs \cup OffPcs \cup
       {"starts", "looks", "locks", "steals", "relocks", "found", "foundMore",
        "seeks", "wakes", "wakesOne", "rings", "runs", "pushed", "pushedFirst", "inC"} \cup PinnedPcs

Idle == {w \in Workers : pc[w] \in IdlePcs}
Working == {w \in Workers : pc[w] \notin OffPcs}
InC == {w \in Workers : pc[w] \in {"inC"} \cup PinnedPcs}
\* waiting_somewhere
Waiting == \E w \in Workers : count[w] > 0
CanLock(w) == lock \in {None, w}

TypeOK ==
  /\ runnable \in Seq(Tasks) /\ lock \in Workers \cup {None}
  /\ waking \in BOOLEAN /\ surplus \in Nat /\ seeking \in BOOLEAN
  /\ due \subseteq timers /\ timers \subseteq Tasks
  /\ own \in [Workers -> Seq(Tasks)] /\ count \in [Workers -> Nat]
  /\ next \in [Workers -> Tasks \cup {None}]
  /\ pc \in [Workers -> Pcs] /\ cur \in [Workers -> Tasks \cup {None}]
  /\ {seeker, woken, waited, stealing, rung, replaced} \subseteq [Workers -> BOOLEAN]
  /\ until \in [Workers -> SUBSET Tasks]
  /\ task \in [Tasks -> {"unborn", "ready", "runs", "done"} \cup AllKinds \cup PinnedStates]
  /\ host \in [Tasks -> {"none", "works", "rings", "ends"}]
  /\ parks \in Nat /\ calls \in Nat /\ reported \in BOOLEAN

Init ==
  /\ runnable = <<MainTask>> /\ lock = None /\ waking = FALSE /\ surplus = 0
  /\ timers = {} /\ due = {} /\ seeking = FALSE
  /\ own = [w \in Workers |-> <<>>] /\ count = [w \in Workers |-> 0]
  /\ next = [w \in Workers |-> None]
  /\ pc = [w \in Workers |-> IF w \in Spare THEN "off" ELSE "starts"]
  /\ cur = [w \in Workers |-> None]
  /\ seeker = [w \in Workers |-> FALSE] /\ woken = seeker /\ waited = seeker /\ stealing = seeker
  /\ rung = [w \in Workers |-> FALSE] /\ until = [w \in Workers |-> {}]
  /\ replaced = [w \in Workers |-> FALSE]
  /\ task = [t \in Tasks |-> IF t = MainTask THEN "ready" ELSE "unborn"]
  /\ host = [t \in Tasks |-> "none"]
  /\ parks = 0 /\ calls = 0 /\ reported = FALSE

-----------------------------------------------------------------------------
(* Waking workers. *)

\* READY.notify_one: a worker that waits there, if any.
Ring ==
  LET sleeping == {w \in Workers : pc[w] = "asleep" /\ ~rung[w]}
  IN IF sleeping = {} THEN UNCHANGED rung
     ELSE \E w \in sleeping : rung' = [rung EXCEPT ![w] = TRUE]

Go(w, to) == pc' = [pc EXCEPT ![w] = to]

\* wake_idle, read without the lock, ...
Wake(w) ==
  /\ pc[w] = "wakes"
  /\ Go(w, IF Idle = {} \/ seeking THEN "runs" ELSE "wakesOne")
  /\ UNCHANGED <<queueVars, seeking, nextVars, localVars, sleepVars, replaced, taskVars, boundVars, reported>>

\* ... with it, ...
WakeOne(w) ==
  /\ pc[w] = "wakesOne" /\ lock = None
  /\ IF Idle # {} /\ ~seeking
     THEN waking' = TRUE /\ seeking' = TRUE /\ Go(w, "rings")
     ELSE UNCHANGED <<waking, seeking>> /\ Go(w, "runs")
  /\ UNCHANGED <<runnable, lock, surplus, timers, due, nextVars, localVars, sleepVars, replaced,
                 taskVars, boundVars, reported>>

\* ... and after it; a worker that retires rings last.
Rings(w) ==
  /\ pc[w] \in {"rings", "retires"}
  /\ Ring
  /\ Go(w, IF pc[w] = "rings" THEN "runs" ELSE "off")
  /\ UNCHANGED <<queueVars, seeking, nextVars, localVars, until, replaced, taskVars, boundVars, reported>>

-----------------------------------------------------------------------------
(* A worker looks for a task. *)

\* What it takes it runs, unless it looked for SEEKING, or more wait; the tasks
\* whose time came are runnable.
Found(w, t, more, fired) ==
  /\ cur' = [cur EXCEPT ![w] = t]
  /\ task' = [s \in Tasks |-> IF s = t THEN "runs" ELSE IF s \in fired THEN "ready" ELSE task[s]]
  /\ woken' = [woken EXCEPT ![w] = FALSE]
  /\ waited' = [waited EXCEPT ![w] = FALSE]
  /\ Go(w, IF seeker[w] THEN IF more THEN "foundMore" ELSE "found"
           ELSE IF more THEN "wakes" ELSE "runs")

\* A thread starts: it may have been started to look.
Starts(w) ==
  /\ pc[w] = "starts" /\ lock = None
  /\ waking' = FALSE
  /\ woken' = [woken EXCEPT ![w] = waking]
  /\ seeker' = [seeker EXCEPT ![w] = waking]
  /\ waited' = [waited EXCEPT ![w] = FALSE]
  /\ Go(w, "looks")
  /\ UNCHANGED <<runnable, lock, surplus, timers, due, seeking, nextVars, stealing, sleepVars,
                 replaced, taskVars, boundVars, reported>>

Runs(w, t) ==
  /\ cur' = [cur EXCEPT ![w] = t]
  /\ task' = [task EXCEPT ![t] = "runs"]
  /\ Go(w, "runs")

\* Its next first, ...
LookNext(w) ==
  /\ pc[w] = "looks" /\ next[w] # None
  /\ Runs(w, next[w])
  /\ next' = [next EXCEPT ![w] = None]
  /\ UNCHANGED <<queueVars, seeking, own, count, localVars, sleepVars, replaced, host, boundVars, reported>>

\* ... then a task its tasks started, ...
TakeOwn(w) ==
  /\ count[w] > 0
  /\ own' = [own EXCEPT ![w] = Tail(@)]
  /\ count' = [count EXCEPT ![w] = @ - 1]

LookOwn(w) ==
  /\ pc[w] = "looks" /\ next[w] = None
  /\ TakeOwn(w)
  /\ Runs(w, Head(own[w]))
  /\ UNCHANGED <<queueVars, seeking, next, localVars, sleepVars, replaced, host, boundVars, reported>>

\* ... but now and then both go to the queue, ...
LookTurn(w) ==
  LET mine == (IF next[w] = None THEN <<>> ELSE <<next[w]>>)
                 \o (IF count[w] > 0 THEN <<Head(own[w])>> ELSE <<>>)
  IN /\ pc[w] = "looks" /\ lock = None /\ mine # <<>>
     /\ runnable' = runnable \o mine
     /\ next' = [next EXCEPT ![w] = None]
     /\ IF count[w] > 0 THEN TakeOwn(w) ELSE UNCHANGED <<own, count>>
     /\ Go(w, "locks")
     /\ UNCHANGED <<lock, waking, surplus, timers, due, seeking, localVars, sleepVars, replaced,
                    taskVars, boundVars, reported>>

\* ... where it looks when it has none.
LookQueue(w) ==
  /\ pc[w] = "looks" /\ next[w] = None /\ count[w] = 0
  /\ Go(w, "locks")
  /\ UNCHANGED <<queueVars, seeking, nextVars, localVars, sleepVars, replaced, taskVars, boundVars, reported>>

AtQueue(w) == pc[w] \in {"locks", "relocks"} /\ CanLock(w)
Retiring(w) == w # MainWorker /\ surplus > 0

\* Mutant of Retire: what it leaves is lost.
RetireLeaves(w) ==
  /\ AtQueue(w) /\ Retiring(w)
  /\ seeking' = (seeking /\ ~seeker[w])
  /\ seeker' = [seeker EXCEPT ![w] = FALSE]
  /\ surplus' = surplus - 1
  /\ own' = [own EXCEPT ![w] = <<>>]
  /\ count' = [count EXCEPT ![w] = 0]
  /\ lock' = None
  /\ Go(w, "off")
  /\ UNCHANGED <<runnable, waking, timers, due, next, woken, waited, stealing, sleepVars, replaced,
                 taskVars, boundVars, reported>>

\* Mutant of Retire: one that looked for tasks does not say it stops.
RetireSeeking(w) ==
  /\ AtQueue(w) /\ Retiring(w)
  /\ seeker' = [seeker EXCEPT ![w] = FALSE]
  /\ surplus' = surplus - 1
  /\ runnable' = runnable \o own[w]
  /\ own' = [own EXCEPT ![w] = <<>>]
  /\ count' = [count EXCEPT ![w] = 0]
  /\ lock' = None
  /\ Go(w, IF runnable' # <<>> /\ Idle # {} THEN "retires" ELSE "off")
  /\ UNCHANGED <<waking, timers, due, seeking, next, woken, waited, stealing, sleepVars, replaced,
                 taskVars, boundVars, reported>>

\* One worker too many ends; what it leaves is another's.
Retire(w) ==
  /\ AtQueue(w) /\ Retiring(w)
  /\ seeking' = (seeking /\ ~seeker[w])
  /\ seeker' = [seeker EXCEPT ![w] = FALSE]
  /\ surplus' = surplus - 1
  /\ runnable' = runnable \o own[w]
  /\ own' = [own EXCEPT ![w] = <<>>]
  /\ count' = [count EXCEPT ![w] = 0]
  /\ lock' = None
  /\ Go(w, IF runnable' # <<>> /\ Idle # {} THEN "retires" ELSE "off")
  /\ UNCHANGED <<waking, timers, due, next, woken, waited, stealing, sleepVars, replaced, taskVars,
                 boundVars, reported>>

\* fire_timers: the tasks it is time for join the queue.
Fired == runnable \o SetToSeq(due)
FiresTimers ==
  /\ timers' = timers \ due
  /\ due' = {}

Pop(w) ==
  /\ AtQueue(w) /\ ~Retiring(w) /\ Fired # <<>>
  /\ FiresTimers
  /\ runnable' = Tail(Fired)
  /\ lock' = None
  /\ Found(w, Head(Fired), Len(Fired) > 1, due)
  /\ UNCHANGED <<waking, surplus, seeking, nextVars, seeker, stealing, sleepVars, replaced, host,
                 boundVars, reported>>

\* The queue is empty: it looks at the workers' own, without the lock.
GoSteal(w) ==
  /\ AtQueue(w) /\ pc[w] = "locks" /\ ~Retiring(w) /\ Fired = <<>>
  /\ lock' = None
  /\ Go(w, "steals")
  /\ UNCHANGED <<runnable, waking, surplus, timers, due, seeking, nextVars, localVars, sleepVars, replaced,
                 taskVars, boundVars, reported>>

\* One of its own went to the queue and another ran it.
StealOwn(w) ==
  /\ pc[w] = "steals"
  /\ TakeOwn(w)
  /\ Found(w, Head(own[w]), FALSE, {})
  /\ UNCHANGED <<queueVars, seeking, next, seeker, stealing, sleepVars, replaced, host,
                 boundVars, reported>>

\* Mutant of Steal: it takes tasks not counted yet.
StealUncounted(w) ==
  /\ pc[w] = "steals" /\ count[w] = 0
  /\ \E v \in Workers \ {w} :
       LET half == (Len(own[v]) + 1) \div 2
           taken == SubSeq(own[v], 1, half)
       IN /\ own[v] # <<>>
          /\ own' = [own EXCEPT ![v] = SubSeq(@, half + 1, Len(@)), ![w] = Tail(taken)]
          /\ count' = [count EXCEPT ![v] = @ - half, ![w] = half - 1]
          /\ Found(w, Head(taken), Len(own[v]) > 1, {})
  /\ UNCHANGED <<queueVars, seeking, next, seeker, stealing, sleepVars, replaced, host, boundVars, reported>>

\* Half of those another started, which waited for NEXT_WAIT, ...
Steal(w) ==
  /\ pc[w] = "steals" /\ count[w] = 0
  /\ \E v \in Workers \ {w} :
       LET half == (Len(own[v]) + 1) \div 2
           taken == SubSeq(own[v], 1, half)
       IN /\ count[v] > 0
          /\ own' = [own EXCEPT ![v] = SubSeq(@, half + 1, Len(@)), ![w] = Tail(taken)]
          /\ count' = [count EXCEPT ![v] = @ - half, ![w] = half - 1]
          /\ Found(w, Head(taken), Len(own[v]) > 1, {})
  /\ UNCHANGED <<queueVars, seeking, next, seeker, stealing, sleepVars, replaced, host, boundVars, reported>>

\* ... or none: those there are, if any, are too young.
StealNone(w) ==
  /\ pc[w] = "steals" /\ count[w] = 0
  /\ stealing' = [stealing EXCEPT ![w] = Waiting]
  /\ Go(w, "relocks")
  /\ UNCHANGED <<queueVars, seeking, nextVars, seeker, woken, waited, sleepVars, replaced, taskVars,
                 boundVars, reported>>

\* take_next: only one just woken takes another's next, which waited for NEXT_WAIT.
Looked(w) == AtQueue(w) /\ pc[w] = "relocks" /\ ~Retiring(w) /\ Fired = <<>>
Seen(w) == {v \in Workers \ {w} : (woken[w] \/ waited[w]) /\ next[v] # None}
TakeNext(w) ==
  /\ Looked(w)
  /\ \E v \in Seen(w) :
       /\ next' = [next EXCEPT ![v] = None]
       /\ Found(w, next[v], FALSE, {})
  /\ lock' = None
  /\ UNCHANGED <<runnable, waking, surplus, timers, due, seeking, own, count, seeker, stealing,
                 sleepVars, replaced, host, boundVars, reported>>

\* It stops looking: counted idle, it goes to sleep with the lock held.
GoIdle(w) ==
  /\ Looked(w)
  /\ waited' = [waited EXCEPT ![w] = (Seen(w) # {} /\ woken[w]) \/ (stealing[w] /\ seeker[w])]
  /\ stealing' = [stealing EXCEPT ![w] = FALSE]
  /\ lock' = w
  /\ Go(w, IF waited'[w] THEN "stalls" ELSE "counted")
  /\ UNCHANGED <<runnable, waking, surplus, timers, due, seeking, nextVars, seeker, woken,
                 sleepVars, replaced, taskVars, boundVars, reported>>

StopSeeking(w) ==
  /\ pc[w] = "counted"
  /\ seeking' = (seeking /\ ~seeker[w])
  /\ seeker' = [seeker EXCEPT ![w] = FALSE]
  /\ Go(w, "checks")
  /\ UNCHANGED <<queueVars, nextVars, woken, waited, stealing, sleepVars, replaced, taskVars, boundVars, reported>>

\* "Before it sleeps": tasks wait somewhere and nobody looks for them.
CheckWaiting(w) ==
  /\ pc[w] = "checks"
  /\ IF Waiting /\ ~seeking
     THEN /\ seeking' = TRUE
          /\ seeker' = [seeker EXCEPT ![w] = TRUE]
          /\ waited' = [waited EXCEPT ![w] = TRUE]
     ELSE UNCHANGED <<seeking, seeker, waited>>
  /\ Go(w, "stalls")
  /\ UNCHANGED <<queueVars, nextVars, woken, stealing, sleepVars, replaced, taskVars, boundVars, reported>>

\* Mutant of EachWaits: it forgets the tasks that wait on their threads.
EachIsIdle ==
  /\ runnable = <<>> /\ timers = {}
  /\ Cardinality(Idle) >= Cardinality(Working)

\* stalled: every worker waits, as QUEUE and the pinned tasks' states say, ...
EachWaits ==
  /\ runnable = <<>> /\ timers = {}
  /\ Cardinality(Idle) + Cardinality({t \in Tasks : task[t] \in PinnedStates}) >= Cardinality(Working)

\* Mutant of NothingElse: it forgets the tasks workers have for themselves.
NoHostWork == \A t \in Tasks : host[t] = "none"

\* ... and, read after that, nothing else could end it.
NothingElse ==
  /\ \A t \in Tasks : host[t] = "none"
  /\ \A w \in Workers : next[w] = None /\ own[w] = <<>>

Sums(w) ==
  /\ pc[w] = "stalls" /\ EachWaits
  /\ Go(w, "sums")
  /\ UNCHANGED <<queueVars, seeking, nextVars, localVars, sleepVars, replaced, taskVars, boundVars, reported>>

Sleep(w) ==
  /\ \/ pc[w] = "stalls" /\ ~EachWaits /\ UNCHANGED reported
     \/ pc[w] = "sums" /\ reported' = NothingElse
  /\ lock' = None
  /\ rung' = [rung EXCEPT ![w] = FALSE]
  /\ until' = [until EXCEPT ![w] = timers]
  /\ Go(w, "asleep")
  /\ UNCHANGED <<runnable, waking, surplus, timers, due, seeking, nextVars, localVars, replaced, taskVars, boundVars>>

\* Notified, after NEXT_WAIT, or at the time of a timer.
EndsSleep(w) == rung[w] \/ waited[w] \/ \E t \in until[w] : t \in due \/ t \notin timers
WakesUp(w) ==
  /\ pc[w] = "asleep" /\ lock = None /\ EndsSleep(w)
  /\ woken' = [woken EXCEPT ![w] = waking /\ ~@]
  /\ seeker' = [seeker EXCEPT ![w] = @ \/ waking]
  /\ waking' = FALSE
  /\ lock' = w
  /\ rung' = [rung EXCEPT ![w] = FALSE]
  /\ until' = [until EXCEPT ![w] = {}]
  /\ Go(w, "locks")
  /\ UNCHANGED <<runnable, surplus, timers, due, seeking, nextVars, waited, stealing, replaced,
                 taskVars, boundVars, reported>>

\* The one that looked found a task, ...
EndSeeking(w) ==
  /\ pc[w] \in {"found", "foundMore"}
  /\ seeking' = FALSE
  /\ seeker' = [seeker EXCEPT ![w] = FALSE]
  /\ Go(w, IF pc[w] = "found" THEN "seeks" ELSE "wakes")
  /\ UNCHANGED <<queueVars, nextVars, woken, waited, stealing, sleepVars, replaced, taskVars, boundVars, reported>>

\* ... and the next looks if more wait anywhere.
SeekMore(w) ==
  /\ pc[w] = "seeks" /\ lock = None
  /\ Go(w, IF Waiting \/ runnable # <<>> THEN "wakes" ELSE "runs")
  /\ UNCHANGED <<queueVars, seeking, nextVars, localVars, sleepVars, replaced, taskVars, boundVars, reported>>

-----------------------------------------------------------------------------
(* What the task a worker runs does. *)

\* enqueue: a task started, or one replaced, goes to the worker's own queue, ...
PushOwn(w, t) ==
  /\ own' = [own EXCEPT ![w] = Append(@, t)]
  /\ Go(w, IF own[w] = <<>> THEN "pushedFirst" ELSE "pushed")

Spawn(w, t) ==
  /\ pc[w] = "runs" /\ task[t] = "unborn"
  /\ PushOwn(w, t)
  /\ task' = [task EXCEPT ![t] = "ready"]
  /\ UNCHANGED <<queueVars, seeking, count, next, localVars, sleepVars, replaced, cur, host,
                 boundVars, reported>>

\* ... counted before the idle workers are read.
CountOwn(w) ==
  /\ pc[w] \in {"pushed", "pushedFirst"}
  /\ count' = [count EXCEPT ![w] = @ + 1]
  /\ Go(w, IF pc[w] = "pushedFirst" THEN "wakes" ELSE "runs")
  /\ UNCHANGED <<queueVars, seeking, own, next, localVars, sleepVars, replaced, taskVars, boundVars, reported>>

\* schedule: a task it wakes runs next here; waking a worker for it is rationed.
Schedule(w, t) ==
  /\ pc[w] = "runs" /\ task[t] = "task"
  /\ next' = [next EXCEPT ![w] = t]
  /\ task' = [task EXCEPT ![t] = "ready"]
  /\ IF next[w] # None THEN PushOwn(w, next[w])
     ELSE UNCHANGED own /\ (Go(w, "wakes") \/ UNCHANGED pc)
  /\ UNCHANGED <<queueVars, seeking, count, localVars, sleepVars, replaced, cur, host, boundVars, reported>>

\* A task that waits inside a function C called is woken on its thread.
Unpin(w, t) ==
  /\ pc[w] = "runs" /\ task[t] = "pinned"
  /\ task' = [task EXCEPT ![t] = "runs"]
  /\ UNCHANGED <<queueVars, seeking, nextVars, pc, localVars, sleepVars, replaced, cur, host, boundVars, reported>>

\* The task stops running, and the worker looks for another.
Leaves(w, to) ==
  /\ pc[w] = "runs"
  /\ task' = [task EXCEPT ![cur[w]] = to]
  /\ cur' = [cur EXCEPT ![w] = None]
  /\ Go(w, "looks")

Finish(w) ==
  /\ Leaves(w, "done")
  /\ UNCHANGED <<queueVars, seeking, nextVars, localVars, sleepVars, replaced, host, boundVars, reported>>

Parks(kind) == kind \in Kinds /\ parks < MaxParks /\ parks' = parks + 1

ParkTask(w) ==
  /\ Parks("task") /\ Leaves(w, "task")
  /\ UNCHANGED <<queueVars, seeking, nextVars, localVars, sleepVars, replaced, host, calls, reported>>

\* HOST_WORK counts its operation first.
ParkHost(w) ==
  /\ Parks("host") /\ Leaves(w, "host")
  /\ host[cur[w]] = "none"
  /\ host' = [host EXCEPT ![cur[w]] = "works"]
  /\ UNCHANGED <<queueVars, seeking, nextVars, localVars, sleepVars, replaced, calls, reported>>

\* add_timer: an idle worker recomputes how long to sleep.
ParkTime(w) ==
  /\ Parks("time") /\ Leaves(w, "time") /\ lock = None
  /\ timers' = timers \cup {cur[w]}
  /\ Ring
  /\ UNCHANGED <<runnable, lock, waking, surplus, due, seeking, nextVars, localVars, until, replaced,
                 host, calls, reported>>

-----------------------------------------------------------------------------
(* Calls of C, and their monitor. *)

EnterC(w) ==
  /\ pc[w] = "runs" /\ cur[w] \in Callers /\ calls < MaxCalls
  /\ calls' = calls + 1
  /\ Go(w, "inC")
  /\ UNCHANGED <<queueVars, seeking, nextVars, localVars, sleepVars, replaced, taskVars, parks, reported>>

\* C called back, and the task waits on its thread, ...
Pin(w) ==
  /\ pc[w] = "inC" /\ lock = None
  /\ parks < MaxParks /\ parks' = parks + 1
  /\ Go(w, "pinned")
  /\ \/ /\ "task" \in PinKinds
        /\ task' = [task EXCEPT ![cur[w]] = "pinned"]
        /\ UNCHANGED host
     \/ /\ "host" \in PinKinds /\ host[cur[w]] = "none"
        /\ task' = [task EXCEPT ![cur[w]] = "hostPinned"]
        /\ host' = [host EXCEPT ![cur[w]] = "works"]
  /\ UNCHANGED <<queueVars, seeking, nextVars, localVars, sleepVars, replaced, cur, calls, reported>>

\* ... looking now and then whether that is a deadlock, with QUEUE's lock, ...
Recheck(w) ==
  /\ pc[w] = "pinned" /\ task[cur[w]] \in PinnedStates /\ lock = None
  /\ EachWaits
  /\ lock' = w
  /\ Go(w, "rechecks")
  /\ UNCHANGED <<runnable, waking, surplus, timers, due, seeking, nextVars, localVars, sleepVars, replaced,
                 taskVars, boundVars, reported>>

RecheckEnds(w) ==
  /\ pc[w] = "rechecks"
  /\ reported' = NothingElse
  /\ lock' = None
  /\ Go(w, "pinned")
  /\ UNCHANGED <<runnable, waking, surplus, timers, due, seeking, nextVars, localVars, sleepVars, replaced,
                 taskVars, boundVars>>

\* ... until it is notified.
BackInC(w) ==
  /\ pc[w] = "pinned" /\ task[cur[w]] = "runs" /\ lock = None
  /\ Go(w, "inC")
  /\ UNCHANGED <<queueVars, seeking, nextVars, localVars, sleepVars, replaced, taskVars, boundVars, reported>>

\* A worker that was replaced makes one retire, and wakes one.
LeaveC(w) ==
  /\ pc[w] = "inC"
  /\ replaced[w] => lock = None
  /\ surplus' = IF replaced[w] THEN surplus + 1 ELSE surplus
  /\ replaced' = [replaced EXCEPT ![w] = FALSE]
  /\ Go(w, IF replaced[w] /\ Idle # {} THEN "rings" ELSE "runs")
  /\ UNCHANGED <<runnable, lock, waking, timers, due, seeking, nextVars, localVars, sleepVars,
                 taskVars, boundVars, reported>>

\* Mutant of Blocked: it looks at the queue only.
BlockedByQueue(w) ==
  /\ w \in InC /\ lock = None
  /\ due # {} \/ runnable # <<>>

\* The monitor: tasks wait while a worker is long in C.
Blocked(w) ==
  /\ w \in InC /\ lock = None
  /\ \/ due # {} \/ runnable # <<>>
     \/ \E v \in Workers : next[v] # None \/ own[v] # <<>>

\* One that sleeps looks, ...
MonitorWakes(w) ==
  /\ Blocked(w) /\ Idle # {} /\ ~seeking
  /\ waking' = TRUE /\ seeking' = TRUE
  /\ Ring
  /\ UNCHANGED <<runnable, lock, surplus, timers, due, nextVars, pc, localVars, until, replaced,
                 taskVars, boundVars, reported>>

\* ... or a new one takes its place, told to look.
MonitorStarts(w, v) ==
  /\ Blocked(w) /\ Idle = {} /\ ~replaced[w] /\ pc[v] = "off"
  /\ replaced' = [replaced EXCEPT ![w] = TRUE]
  /\ waking' = ~seeking
  /\ seeking' = TRUE
  /\ Go(v, "starts")
  /\ UNCHANGED <<runnable, lock, surplus, timers, due, nextVars, localVars, sleepVars, taskVars,
                 boundVars, reported>>

-----------------------------------------------------------------------------
(* The host and the time. *)

\* The operation ends: its task is runnable, ...
HostEnds(t) ==
  /\ host[t] = "works" /\ task[t] = "host" /\ lock = None
  /\ runnable' = Append(runnable, t)
  /\ task' = [task EXCEPT ![t] = "ready"]
  /\ LET calls1 == ~seeking /\ Idle # {}
     IN /\ waking' = (waking \/ calls1)
        /\ seeking' = (seeking \/ calls1)
        /\ host' = [host EXCEPT ![t] = IF calls1 THEN "rings" ELSE "ends"]
  /\ UNCHANGED <<lock, surplus, timers, due, nextVars, pc, localVars, sleepVars, replaced, cur,
                 boundVars, reported>>

HostRings(t) ==
  /\ host[t] = "rings"
  /\ Ring
  /\ host' = [host EXCEPT ![t] = "ends"]
  /\ UNCHANGED <<queueVars, seeking, nextVars, pc, localVars, until, replaced, cur, task, boundVars, reported>>

\* ... or is woken on its thread, without QUEUE's lock, ...
HostUnpins(t) ==
  /\ host[t] = "works" /\ task[t] = "hostPinned"
  /\ task' = [task EXCEPT ![t] = "runs"]
  /\ host' = [host EXCEPT ![t] = "ends"]
  /\ UNCHANGED <<queueVars, seeking, nextVars, pc, localVars, sleepVars, replaced, cur, boundVars, reported>>

\* ... before the work is done.
HostDone(t) ==
  /\ host[t] = "ends"
  /\ host' = [host EXCEPT ![t] = "none"]
  /\ UNCHANGED <<queueVars, seeking, nextVars, pc, localVars, sleepVars, replaced, cur, task, boundVars, reported>>

TimeComes(t) ==
  /\ t \in timers \ due
  /\ due' = due \cup {t}
  /\ UNCHANGED <<runnable, lock, waking, surplus, timers, seeking, nextVars, pc, localVars, sleepVars,
                 replaced, taskVars, boundVars, reported>>

-----------------------------------------------------------------------------
\* The program goes on until main ends, or a deadlock is reported.
Goes == ~reported /\ task[MainTask] # "done"

Works(w) ==
  \/ Wake(w) \/ WakeOne(w) \/ Rings(w)
  \/ Starts(w) \/ LookNext(w) \/ LookOwn(w) \/ LookTurn(w) \/ LookQueue(w)
  \/ Retire(w) \/ Pop(w) \/ GoSteal(w) \/ StealOwn(w) \/ Steal(w) \/ StealNone(w)
  \/ TakeNext(w) \/ GoIdle(w) \/ StopSeeking(w) \/ CheckWaiting(w) \/ Sums(w) \/ Sleep(w) \/ WakesUp(w)
  \/ EndSeeking(w) \/ SeekMore(w) \/ CountOwn(w) \/ BackInC(w) \/ Recheck(w) \/ RecheckEnds(w)

Stops(w) == Finish(w) \/ ParkTask(w) \/ ParkHost(w) \/ ParkTime(w) \/ EnterC(w)

TaskStep(w) ==
  \/ Stops(w) \/ Pin(w) \/ LeaveC(w)
  \/ \E t \in Tasks : Spawn(w, t) \/ Schedule(w, t) \/ Unpin(w, t)

Monitor(w) == MonitorWakes(w) \/ \E v \in Workers : MonitorStarts(w, v)

Outside(t) == HostEnds(t) \/ HostUnpins(t) \/ HostRings(t) \/ HostDone(t) \/ TimeComes(t)

Next ==
  /\ Goes
  /\ \/ \E w \in Workers : Works(w) \/ TaskStep(w) \/ Monitor(w)
     \/ \E t \in Tasks : Outside(t)

Spec == Init /\ [][Next]_vars

-----------------------------------------------------------------------------
(* What a worker does it goes on doing, and a lock comes to whoever waits for it; a *)
(* task it runs stops some day.  Nothing makes a function of C return, nor a task   *)
(* start or wake another.                                                           *)
FairSpec ==
  /\ Spec
  /\ \A w \in Workers :
       /\ SF_vars(Goes /\ Works(w)) /\ WF_vars(Goes /\ Stops(w))
       \* What is too young to be taken grows old.
       /\ SF_vars(Goes /\ (Steal(w) \/ TakeNext(w)))
  /\ SF_vars(Goes /\ \E w \in Workers : Monitor(w))
  /\ \A t \in Tasks : WF_vars(Goes /\ Outside(t))

-----------------------------------------------------------------------------
At(s, t) == {i \in DOMAIN s : s[i] = t}
Places(t) ==
  ({None} \X At(runnable, t)) \cup (UNION {{w} \X At(own[w], t) : w \in Workers})
    \cup ({w \in Workers : next[w] = t} \X {0})

\* No task is lost or run twice: a runnable one is in one queue, once (QUEUE's, a
\* worker's own or its next), and one that runs on one worker, whatever workers
\* steal, take or leave to others when they retire.
InOnePlace ==
  \A t \in Tasks :
    /\ Cardinality(Places(t)) = IF task[t] = "ready" THEN 1 ELSE 0
    /\ Cardinality({w \in Workers : cur[w] = t}) = IF task[t] \in {"runs"} \cup PinnedStates THEN 1 ELSE 0

\* SEEKING is set for somebody: a worker that looks for tasks, or the one that will
\* take QUEUE.waking.  While it is set nobody else is woken, so one left set with
\* nobody looking leaves the queued tasks to the workers that are awake.
SeekingStands ==
  seeking => waking \/ \E w \in Workers : seeker[w]

\* What P0013 says: main waits, and no task that is left can wake another.
AllWait ==
  /\ \A t \in Tasks : task[t] \in {"unborn", "task", "pinned", "done"} /\ host[t] = "none"
  /\ task[MainTask] # "done"

\* `deadlock` ends no program whose tasks could go on: what `stalled` reads one
\* after another, some of it changed without QUEUE's lock, adds up to a deadlock.
\* With PinKinds = {"task"}: the host may wake a pinned task between the two.
DeadlockIsReal == reported => AllWait

\* A task that `enqueue`, `schedule` or `fire_timers` made runnable runs, though
\* each worker may be going to sleep or be held by a call of C when it is queued.
RunnableRuns ==
  \A t \in Tasks : (task[t] = "ready") ~> (task[t] # "ready" \/ ~Goes)

\* When no task can run any more the program ends with P0013 instead of hanging:
\* the last worker to go to sleep, or a pinned task's next look, finds it.
DeadlockFound == AllWait ~> ~Goes
=============================================================================
