----------------------------- MODULE WorldStop -----------------------------
(***************************************************************************)
(* How the cycle collector, a dump or an edit of the program's code stops  *)
(* every thread out of Tondo code, and lets them go on.                    *)
(*                                                                         *)
(* crates/tondo-runtime/src/tasks.rs: `enter_tondo`, `leave_tondo`,        *)
(* `pause_here`, `safe_point`, `stop_world`, `resume_world`, `fork_copy`.  *)
(* Every access of STOPPING, STOPPER, ATTENTION or a Runner is a step;     *)
(* what a thread does with RESUMED_LOCK or IN_TONDO held is one step.      *)
(***************************************************************************)
EXTENDS Integers, FiniteSets

CONSTANTS
  Threads,   \* the threads that run Tondo code
  Stoppers,  \* the collector's thread, the signal's, a debugger's...
  MaxStops,  \* how many times the world is stopped (bound)
  Torn       \* whether a fork may come between the two stores of another
             \* thread, to STOPPING and to ATTENTION

ASSUME WorldStopAssumption ==
  /\ Threads \cap Stoppers = {}
  /\ MaxStops \in Nat
  /\ Torn \in BOOLEAN

VARIABLES
  pc,         \* where each thread is
  running,    \* Runner.running
  registered, \* IN_TONDO
  STOPPING, STOPPER, attention,
  stop,       \* the step of each actor's stop of the world
  list, left, \* its copy of IN_TONDO, and what it has not looked at yet
  stops       \* stops begun

threadVars == <<pc, running, registered>>
stopVars == <<stop, list, left, stops>>
vars == <<threadVars, STOPPING, STOPPER, attention, stopVars>>

Actors == Threads \cup Stoppers

\* In Tondo code, with compiled code running or about to look for a stop.
InTondo == {"in", "safe"}
ThreadPcs == InTondo \cup {"new", "out", "enter", "check", "back", "lock", "sleep", "paused", "gone"}
StopPcs == {"none", "swap", "set", "count", "list", "look", "stopped", "unset", "less",
            "wake", "free"}

\* From the swap of STOPPER until it is FALSE again; with STOPPING set; and
\* with its reason in ATTENTION.
Holds == StopPcs \ {"none", "swap"}
Sets == {"count", "list", "look", "stopped", "unset"}
Counts == {"list", "look", "stopped", "unset", "less"}

TypeOK ==
  /\ pc \in [Threads -> ThreadPcs]
  /\ running \in [Threads -> BOOLEAN]
  /\ registered \subseteq Threads
  /\ \A t \in Threads : running[t] => t \in registered
  /\ STOPPING \in BOOLEAN /\ STOPPER \in BOOLEAN
  /\ attention \in Int
  /\ stop \in [Actors -> StopPcs]
  /\ list \in [Actors -> SUBSET Threads]
  /\ left \in [Actors -> SUBSET Threads]
  /\ stops \in 0 .. MaxStops

Init ==
  /\ pc = [t \in Threads |-> "new"]
  /\ running = [t \in Threads |-> FALSE]
  /\ registered = {}
  /\ STOPPING = FALSE /\ STOPPER = FALSE
  /\ attention = 0
  /\ stop = [a \in Actors |-> "none"]
  /\ list = [a \in Actors |-> {}]
  /\ left = [a \in Actors |-> {}]
  /\ stops = 0

Goes(t, from, to) == pc[t] = from /\ pc' = [pc EXCEPT ![t] = to]
Runs(t, value) == running' = [running EXCEPT ![t] = value]
StopGoes(a, from, to) == stop[a] = from /\ stop' = [stop EXCEPT ![a] = to]

-----------------------------------------------------------------------------
(* A thread that runs Tondo code.                                          *)

\* Mutant: a thread that is not in IN_TONDO.
RegisterNot(t) ==
  /\ Goes(t, "new", "enter")
  /\ UNCHANGED <<running, registered, STOPPING, STOPPER, attention, stopVars>>

\* running_here(), the first time.
Register(t) ==
  /\ Goes(t, "new", "enter")
  /\ registered' = registered \cup {t}
  /\ UNCHANGED <<running, STOPPING, STOPPER, attention, stopVars>>

\* The thread runs a task, returns from C or ends a pause.
Enter(t) ==
  /\ Goes(t, "out", "enter") \/ (stop[t] = "none" /\ Goes(t, "paused", "enter"))
  /\ UNCHANGED <<running, registered, STOPPING, STOPPER, attention, stopVars>>

\* Mutant: the thread looks at STOPPING before it says it runs.
EnterChecksFirst(t) ==
  /\ Goes(t, "enter", IF STOPPING THEN "lock" ELSE "in")
  /\ UNCHANGED <<running, registered, STOPPING, STOPPER, attention, stopVars>>

\* enter_tondo(): the store, and then the look at STOPPING.
EnterStores(t) ==
  /\ Goes(t, "enter", "check")
  /\ Runs(t, TRUE)
  /\ UNCHANGED <<registered, STOPPING, STOPPER, attention, stopVars>>

EnterChecks(t) ==
  /\ Goes(t, "check", IF STOPPING THEN "back" ELSE "in")
  /\ UNCHANGED <<running, registered, STOPPING, STOPPER, attention, stopVars>>

EnterBacks(t) ==
  /\ Goes(t, "back", "lock")
  /\ Runs(t, FALSE)
  /\ UNCHANGED <<registered, STOPPING, STOPPER, attention, stopVars>>

\* With RESUMED_LOCK: the thread waits for RESUMED while the world is stopped.
EnterWaits(t) ==
  /\ Goes(t, "lock", IF STOPPING THEN "sleep" ELSE "enter")
  /\ UNCHANGED <<running, registered, STOPPING, STOPPER, attention, stopVars>>

\* A condition variable may wake a thread for nothing.
WakesSpuriously(t) ==
  /\ Goes(t, "sleep", "lock")
  /\ UNCHANGED <<running, registered, STOPPING, STOPPER, attention, stopVars>>

\* Compiled code after a call that may wait: it looks at ATTENTION, and calls
\* the runtime when it is not zero.
Call(t) ==
  /\ attention # 0
  /\ Goes(t, "in", "safe")
  /\ UNCHANGED <<running, registered, STOPPING, STOPPER, attention, stopVars>>

\* safe_point().
SafePoint(t) ==
  /\ Goes(t, "safe", IF STOPPING THEN "enter" ELSE "in")
  /\ Runs(t, ~STOPPING)
  /\ UNCHANGED <<registered, STOPPING, STOPPER, attention, stopVars>>

\* leave_tondo(): the task ends or waits, or the thread calls C.
Leave(t) ==
  /\ Goes(t, "in", "out")
  /\ Runs(t, FALSE)
  /\ UNCHANGED <<registered, STOPPING, STOPPER, attention, stopVars>>

\* pause_here(): a thread in Tondo code stands still by itself, for memory,
\* a debugger, or a stop of its own.
Pause(t) ==
  /\ Goes(t, "in", "paused")
  /\ Runs(t, FALSE)
  /\ UNCHANGED <<registered, STOPPING, STOPPER, attention, stopVars>>

-----------------------------------------------------------------------------
(* An actor that stops the world.                                          *)

\* A caller of stop_world(): another thread, or one that paused.
StopStarts(a) ==
  /\ stops < MaxStops
  /\ stops' = stops + 1
  /\ a \in Threads => pc[a] = "paused"
  /\ StopGoes(a, "none", "swap")
  /\ UNCHANGED <<threadVars, STOPPING, STOPPER, attention, list, left>>

\* One at a time; whoever finds another one tries again, or gives up.
StopSwaps(a) ==
  /\ ~STOPPER
  /\ STOPPER' = TRUE
  /\ StopGoes(a, "swap", "set")
  /\ UNCHANGED <<threadVars, STOPPING, attention, list, left, stops>>

StopGivesUp(a) ==
  /\ STOPPER
  /\ StopGoes(a, "swap", "none")
  /\ UNCHANGED <<threadVars, STOPPING, STOPPER, attention, list, left, stops>>

StopSets(a) ==
  /\ StopGoes(a, "set", "count")
  /\ STOPPING' = TRUE
  /\ UNCHANGED <<threadVars, STOPPER, attention, list, left, stops>>

\* Mutant: compiled code is not told of a stop.
StopCountsNot(a) ==
  /\ StopGoes(a, "count", "list")
  /\ UNCHANGED <<threadVars, STOPPING, STOPPER, attention, list, left, stops>>

StopCounts(a) ==
  /\ StopGoes(a, "count", "list")
  /\ attention' = attention + 1
  /\ UNCHANGED <<threadVars, STOPPING, STOPPER, list, left, stops>>

StopLists(a) ==
  /\ StopGoes(a, "list", "look")
  /\ list' = [list EXCEPT ![a] = registered]
  /\ left' = [left EXCEPT ![a] = registered]
  /\ UNCHANGED <<threadVars, STOPPING, STOPPER, attention, stops>>

\* Each thread is looked at, and all of them again once one runs.  (The code
\* looks at them in order; here in any.)
StopLooks(a) ==
  /\ stop[a] = "look"
  /\ \E t \in left[a] :
       left' = [left EXCEPT ![a] = IF running[t] THEN list[a] ELSE @ \ {t}]
  /\ UNCHANGED <<threadVars, STOPPING, STOPPER, attention, stop, list, stops>>

StopIsDone(a) ==
  /\ left[a] = {}
  /\ StopGoes(a, "look", "stopped")
  /\ UNCHANGED <<threadVars, STOPPING, STOPPER, attention, list, left, stops>>

\* The deadline: the world goes on, and the caller hears that it never stopped.
StopTimesOut(a) ==
  /\ left[a] # {}
  /\ StopGoes(a, "look", "unset")
  /\ UNCHANGED <<threadVars, STOPPING, STOPPER, attention, list, left, stops>>

\* The caller did what it stopped the world for.
StopEnds(a) ==
  /\ StopGoes(a, "stopped", "unset")
  /\ UNCHANGED <<threadVars, STOPPING, STOPPER, attention, list, left, stops>>

\* resume_world(), in its order.
ResumeUnsets(a) ==
  /\ StopGoes(a, "unset", "less")
  /\ STOPPING' = FALSE
  /\ UNCHANGED <<threadVars, STOPPER, attention, list, left, stops>>

\* Mutant: who stops the world leaves its reason behind.
ResumeLessNot(a) ==
  /\ StopGoes(a, "less", "wake")
  /\ UNCHANGED <<threadVars, STOPPING, STOPPER, attention, list, left, stops>>

ResumeLess(a) ==
  /\ StopGoes(a, "less", "wake")
  /\ attention' = attention - 1
  /\ UNCHANGED <<threadVars, STOPPING, STOPPER, list, left, stops>>

\* Mutant: only one of the threads that wait is woken.
ResumeWakesOne(a) ==
  /\ StopGoes(a, "wake", "free")
  /\ \/ \A t \in Threads : pc[t] # "sleep" /\ UNCHANGED pc
     \/ \E t \in Threads : Goes(t, "sleep", "lock")
  /\ UNCHANGED <<running, registered, STOPPING, STOPPER, attention, list, left, stops>>

ResumeWakes(a) ==
  /\ StopGoes(a, "wake", "free")
  /\ pc' = [t \in Threads |-> IF pc[t] = "sleep" THEN "lock" ELSE pc[t]]
  /\ UNCHANGED <<running, registered, STOPPING, STOPPER, attention, list, left, stops>>

ResumeFrees(a) ==
  /\ StopGoes(a, "free", "none")
  /\ STOPPER' = FALSE
  /\ UNCHANGED <<threadVars, STOPPING, attention, list, left, stops>>

\* fork_copy(), seen from the copy: only the thread that forks is there.  It
\* runs Tondo code alone, as a replay's thread with the baton does.
Fork(t) ==
  /\ pc[t] = "in"
  /\ Torn \/ \A a \in Actors : stop[a] \notin {"count", "less"}
  /\ \A u \in Threads \ {t} : pc[u] \in {"new", "out", "gone"}
  /\ pc' = [u \in Threads |-> IF u = t THEN "in" ELSE "gone"]
  /\ stop' = [a \in Actors |-> "none"]
  /\ attention' = attention - (IF STOPPING THEN 1 ELSE 0)
  /\ STOPPING' = FALSE
  /\ STOPPER' = FALSE
  /\ UNCHANGED <<running, registered, list, left, stops>>

-----------------------------------------------------------------------------
\* What a thread does that nobody chooses: it goes on.
ThreadStep(t) ==
  \/ EnterStores(t) \/ EnterChecks(t) \/ EnterBacks(t) \/ EnterWaits(t)
  \/ Call(t) \/ SafePoint(t)

ThreadChooses(t) ==
  Register(t) \/ Enter(t) \/ WakesSpuriously(t) \/ Leave(t) \/ Pause(t) \/ Fork(t)

StopStep(a) ==
  \/ StopSwaps(a) \/ StopGivesUp(a) \/ StopSets(a) \/ StopCounts(a) \/ StopLists(a)
  \/ StopLooks(a) \/ StopIsDone(a) \/ StopTimesOut(a) \/ StopEnds(a)
  \/ ResumeUnsets(a) \/ ResumeLess(a) \/ ResumeWakes(a) \/ ResumeFrees(a)

Next ==
  \/ \E t \in Threads : ThreadStep(t) \/ ThreadChooses(t)
  \/ \E a \in Actors : StopStarts(a) \/ StopStep(a)

Spec == Init /\ [][Next]_vars

\* Threads go on, and compiled code comes to a call sooner or later.  Who
\* stops the world looks at every thread, and resumes it.
FairSpec ==
  /\ Spec
  /\ \A t \in Threads : WF_vars(ThreadStep(t))
  /\ \A a \in Actors : WF_vars(StopStep(a))

-----------------------------------------------------------------------------
(* Properties.                                                             *)

\* While the world is stopped no thread runs Tondo code, not even one that
\* registered after `stop_world` copied IN_TONDO: the collector follows
\* references that nobody changes.
Stopped ==
  \A a \in Actors : stop[a] = "stopped" => \A t \in Threads : pc[t] \notin InTondo

\* One stop at a time (stop_world: "the first to end would let the world go
\* on under another"): while one thread stops the world, no other undoes it.
StopStands ==
  \A a \in Actors : stop[a] \in Sets => STOPPING /\ STOPPER

\* ATTENTION counts the stop that goes on, and nothing of one that ended.
AttentionCounted ==
  attention = Cardinality({a \in Actors : stop[a] \in Counts})

\* A thread that a stop holds goes on after it: `resume_world` loses nobody
\* between the look at STOPPING and the wait.
HeldGoesOn ==
  \A t \in Threads : (pc[t] \in {"back", "lock", "sleep"}) ~> (pc[t] = "in")

\* A stop comes to be, unless it gives up or the program forks: each thread
\* hears of it through ATTENTION at its next call.
StopComes ==
  \A a \in Actors : (stop[a] = "swap") ~> (stop[a] \in {"stopped", "none"})

=============================================================================
