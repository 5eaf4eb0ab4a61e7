------------------------------ MODULE SyncLock ------------------------------
(***************************************************************************)
(* The lock of `Mutex`, `RwLock`, `Atomic` and `Once`: one task may hold   *)
(* it to change the value, or several to read it.                          *)
(*                                                                         *)
(* crates/tondo-runtime/src/sync.rs: `SyncObject`, `tondo_rt_sync_lock`,   *)
(* `_unlock` and `_await`, and `reading`.  A step is one atomic operation  *)
(* on `state`, or what the code does with `queue`, its spin lock, held.    *)
(* Between setting PARKED and enlisting, a task holds `queue` and others   *)
(* still change `state`: that section is two steps.  How a task that waits *)
(* is claimed and notified is TaskWait's; here a wait ends once it is      *)
(* claimed and its task was notified.                                      *)
(***************************************************************************)
EXTENDS Naturals, FiniteSets, Sequences, SequencesExt

CONSTANTS
  Tasks,
  Modes,     \* how tasks take the lock: some of AllModes
  Awaiters,  \* the tasks that give it up inside `updateWhen`
  Cancels,   \* the tasks that may be cancelled
  MaxReads,  \* how many times a task may hold it to read at once (bound)
  MaxLosses  \* how often a woken task may lose it within STARVATION (bound)

\* A debugger "peek"s: it reads the value if it need not wait.
AllModes == {"read", "change", "try", "peek"}

Nobody == "nobody"

ASSUME SyncLockAssumption ==
  /\ IsFiniteSet(Tasks) /\ Nobody \notin Tasks
  /\ Modes \subseteq AllModes
  /\ Awaiters \subseteq Tasks /\ Cancels \subseteq Tasks
  /\ MaxReads \in Nat \ {0} /\ MaxLosses \in Nat \ {0}

VARIABLES
  writer, readers, parked, starving, \* the bits of `state`
  queue,                             \* who holds the spin lock between two steps
  waiting, changes,                  \* who waits for the lock, and for a change
  since,                             \* who parked in its call, in order
  fired, told,                       \* how each task's wait was claimed, and
                                     \* whether the task was notified
  pc, mode, losses, tell,            \* each task's call
  reads, writes,                     \* Task.held: its holds
  cancelled,
  missed                             \* whose awaited change came

stateVars == <<writer, readers, parked, starving>>
queueVars == <<queue, waiting, changes, since>>
waitVars == <<fired, told>>
callVars == <<pc, mode, losses, tell>>
heldVars == <<reads, writes>>
vars == <<stateVars, queueVars, waitVars, callVars, heldVars, cancelled, missed>>

Pcs == {"run", "try", "mark", "enlist", "wait", "unlist", "release", "tell",
        "tellAwait", "await", "unchange"}

TypeOK ==
  /\ writer \in BOOLEAN /\ parked \in BOOLEAN /\ starving \in BOOLEAN
  /\ readers \in Nat
  /\ queue \in Tasks \cup {Nobody}
  /\ waiting \in Seq(Tasks) /\ changes \subseteq Tasks
  /\ since \in Seq(Tasks)
  /\ fired \in [Tasks -> {"NONE", "WOKEN", "HANDED", "CANCELLED"}]
  /\ told \in [Tasks -> BOOLEAN]
  /\ pc \in [Tasks -> Pcs]
  /\ mode \in [Tasks -> AllModes]
  /\ losses \in [Tasks -> 0 .. MaxLosses]
  /\ tell \in [Tasks -> SUBSET Tasks]
  /\ reads \in [Tasks -> 0 .. MaxReads] /\ writes \in [Tasks -> BOOLEAN]
  /\ cancelled \in [Tasks -> BOOLEAN] /\ missed \in [Tasks -> BOOLEAN]

Init ==
  /\ writer = FALSE /\ readers = 0 /\ parked = FALSE /\ starving = FALSE
  /\ queue = Nobody
  /\ waiting = <<>> /\ changes = {} /\ since = <<>>
  /\ fired = [t \in Tasks |-> "NONE"]
  /\ told = [t \in Tasks |-> FALSE]
  /\ pc = [t \in Tasks |-> "run"]
  /\ mode = [t \in Tasks |-> "read"]
  /\ losses = [t \in Tasks |-> 0]
  /\ tell = [t \in Tasks |-> {}]
  /\ reads = [t \in Tasks |-> 0]
  /\ writes = [t \in Tasks |-> FALSE]
  /\ cancelled = [t \in Tasks |-> FALSE]
  /\ missed = [t \in Tasks |-> FALSE]

-----------------------------------------------------------------------------
(* Operators of the code.                                                  *)

Exclusive(t) == mode[t] \in {"change", "try"}

Goes(t, from, to) == pc[t] = from /\ pc' = [pc EXCEPT ![t] = to]

\* A wait nobody claimed yet.
Waits(t) == fired[t] = "NONE"

\* The task's wait is over and its Wait gone.
Forgets(t) ==
  /\ fired' = [fired EXCEPT ![t] = "NONE"]
  /\ told' = [told EXCEPT ![t] = FALSE]

\* Mutant: a reader takes a lock that starves.
FreeToReaders(t) ==
  IF Exclusive(t) THEN ~writer /\ readers = 0 /\ ~starving ELSE ~writer

\* Mutant: a task that changes the value does not look for readers.
FreeOfWriters(t) == ~writer /\ ~starving

\* try_take(): the lock is free for the task's kind of hold.
Free(t) ==
  IF Exclusive(t) THEN ~writer /\ readers = 0 /\ ~starving ELSE ~writer /\ ~starving

\* The bits of the hold ...
TakeBits(t) ==
  IF Exclusive(t) THEN writer' = TRUE /\ UNCHANGED readers
                  ELSE readers' = readers + 1 /\ UNCHANGED writer

\* ... and the entry in `held`; the call is over.
Hold(t) ==
  /\ IF Exclusive(t)
       THEN writes' = [writes EXCEPT ![t] = TRUE] /\ UNCHANGED reads
       ELSE reads' = [reads EXCEPT ![t] = @ + 1] /\ UNCHANGED writes
  /\ since' = RemoveFirst(since, t)

-----------------------------------------------------------------------------
(* wake_lockers().                                                         *)

\* grant(), for the waiter at `i`, once those before it were handed the
\* lock: `alone` is whether WRITER is set.
Granted(i, alone) ==
  /\ ~alone
  /\ Exclusive(waiting[i]) => readers = 0
  /\ \A j \in 1 .. i - 1 :
       Waits(waiting[j]) => ~Exclusive(waiting[j]) /\ ~Exclusive(waiting[i])

\* The places of the queue a release of a starving lock goes past.
Passed(alone) == {i \in 1 .. Len(waiting) : \A j \in 1 .. i : Granted(j, alone)}

\* Who it hands the lock to.
HandedTo(alone) == {waiting[i] : i \in {j \in Passed(alone) : Waits(waiting[j])}}

\* Whoever a lock that does not starve wakes: the first that still waits.
First == SelectInSeq(waiting, Waits)
WokenNext == IF First = 0 THEN {} ELSE {waiting[First]}

AfterWoken ==
  IF First = 0 THEN <<>> ELSE SubSeq(waiting, First + 1, Len(waiting))

\* Mutant: a starving lock goes on starving when nobody waits for it.
StarvesOn(left) == starving

\* STARVING and PARKED, once a release is through, go with the last that waits.
Starves(left) == starving /\ left # <<>>

StillParked(t, left, awaiting) ==
  (parked \/ t \in awaiting) /\ (left # <<>> \/ awaiting # {})

\* With the queue locked, after a release: `alone` is WRITER then, `heard`
\* who hears of a change, and `awaiting` who still awaits one.  A task whose
\* wait another ended is handed the lock, loses it again at once, and is out
\* of the queue.
Wakes(t, alone, heard, awaiting) ==
  LET handed == IF starving THEN HandedTo(alone) ELSE {}
      woken == heard \cup (IF starving THEN {} ELSE WokenNext)
      left == IF starving
                THEN SubSeq(waiting, Cardinality(Passed(alone)) + 1, Len(waiting))
                ELSE AfterWoken
  IN /\ waiting' = left /\ changes' = awaiting
     /\ starving' = Starves(left)
     /\ parked' = StillParked(t, left, awaiting)
     /\ readers' = readers + Cardinality({u \in handed : ~Exclusive(u)})
     /\ writer' = (alone \/ \E u \in handed : Exclusive(u))
     /\ fired' = [u \in Tasks |-> IF u \in handed THEN "HANDED"
                                  ELSE IF u \in woken THEN "WOKEN" ELSE fired[u]]
     /\ tell' = [tell EXCEPT ![t] = handed \cup woken]
     /\ missed' = [u \in Tasks |-> missed[u] /\ u \notin heard]

-----------------------------------------------------------------------------
(* Taking the lock.                                                        *)

\* taken(), up to its loop: a task that stops takes nothing, and one that
\* would wait for its own hold panics (P0014) instead.
Lock(t, m) ==
  /\ ~cancelled[t] \/ m = "peek"
  /\ ~writes[t]
  /\ IF m = "read" THEN reads[t] < MaxReads ELSE reads[t] = 0
  /\ Goes(t, "run", "try")
  /\ mode' = [mode EXCEPT ![t] = m]
  /\ losses' = [losses EXCEPT ![t] = 0]
  /\ UNCHANGED <<stateVars, queueVars, waitVars, tell, heldVars, cancelled, missed>>

\* try_take() of a free lock, ...
Take(t) ==
  /\ Goes(t, "try", "run")
  /\ Free(t)
  /\ TakeBits(t) /\ Hold(t)
  /\ UNCHANGED <<parked, starving, queue, waiting, changes, waitVars, mode, losses, tell,
                 cancelled, missed>>

\* ... and of a taken one, after which it gives up, or parks once it spun.
Lose(t) ==
  /\ pc[t] = "try"
  /\ ~Free(t)
  /\ Goes(t, "try", IF mode[t] \in {"try", "peek"} THEN "run" ELSE "mark")
  /\ UNCHANGED <<stateVars, queueVars, waitVars, mode, losses, tell, heldVars, cancelled,
                 missed>>

\* Mutant: the task parks without saying so in `state`.
MarkNot(t) ==
  /\ Goes(t, "mark", "enlist")
  /\ queue = Nobody
  /\ queue' = t
  /\ UNCHANGED <<stateVars, waiting, changes, since, waitVars, mode, losses, tell,
                 heldVars, cancelled, missed>>

\* It locks the queue and sets PARKED, ...
Mark(t) ==
  /\ Goes(t, "mark", "enlist")
  /\ queue = Nobody
  /\ queue' = t
  /\ parked' = TRUE
  /\ UNCHANGED <<writer, readers, starving, waiting, changes, since, waitVars, mode,
                 losses, tell, heldVars, cancelled, missed>>

\* Mutant: it does not try again with PARKED set.
EnlistBlind(t) ==
  /\ Goes(t, "enlist", "wait")
  /\ queue' = Nobody
  /\ waiting' = IF losses[t] > 0 THEN <<t>> \o waiting ELSE Append(waiting, t)
  /\ since' = IF t \in ToSet(since) THEN since ELSE Append(since, t)
  /\ starving' = (starving \/ losses[t] = MaxLosses)
  /\ UNCHANGED <<writer, readers, parked, changes, waitVars, mode, losses, tell,
                 heldVars, cancelled, missed>>

\* Mutant: a lock never starves.
EnlistPatient(t) ==
  /\ pc[t] = "enlist"
  /\ queue' = Nobody
  /\ IF Free(t)
       THEN /\ Goes(t, "enlist", "run")
            /\ TakeBits(t) /\ Hold(t)
            /\ UNCHANGED <<waiting, starving>>
       ELSE /\ Goes(t, "enlist", "wait")
            /\ waiting' = IF losses[t] > 0 THEN <<t>> \o waiting ELSE Append(waiting, t)
            /\ since' = IF t \in ToSet(since) THEN since ELSE Append(since, t)
            /\ UNCHANGED <<starving, writer, readers, heldVars>>
  /\ UNCHANGED <<parked, changes, waitVars, mode, losses, tell, cancelled, missed>>

\* ... tries again, and enlists: first, if it was woken and lost, and then
\* the lock starves once it has lost for too long.
Enlist(t) ==
  /\ pc[t] = "enlist"
  /\ queue' = Nobody
  /\ IF Free(t)
       THEN /\ Goes(t, "enlist", "run")
            /\ TakeBits(t) /\ Hold(t)
            /\ UNCHANGED <<waiting, starving>>
       ELSE /\ Goes(t, "enlist", "wait")
            /\ waiting' = IF losses[t] > 0 THEN <<t>> \o waiting ELSE Append(waiting, t)
            /\ since' = IF t \in ToSet(since) THEN since ELSE Append(since, t)
            /\ \E tooLong \in {losses[t] = MaxLosses, losses[t] > 0} :
                 starving' = (starving \/ tooLong)
            /\ UNCHANGED <<writer, readers, heldVars>>
  /\ UNCHANGED <<parked, changes, waitVars, mode, losses, tell, cancelled, missed>>

\* The wait is over: the lock was handed over, or the task tries again.
Woken(t) ==
  /\ pc[t] = "wait"
  /\ told[t] /\ fired[t] \in {"WOKEN", "HANDED"}
  /\ Forgets(t)
  /\ IF fired[t] = "HANDED"
       THEN Goes(t, "wait", "run") /\ Hold(t) /\ UNCHANGED losses
       ELSE /\ Goes(t, "wait", "try")
            /\ losses' = [losses EXCEPT ![t] = IF @ < MaxLosses THEN @ + 1 ELSE @]
            /\ UNCHANGED <<heldVars, since>>
  /\ UNCHANGED <<stateVars, queue, waiting, changes, mode, tell, cancelled, missed>>

Cancel(t) ==
  /\ t \in Cancels /\ ~cancelled[t]
  /\ cancelled' = [cancelled EXCEPT ![t] = TRUE]
  /\ UNCHANGED <<stateVars, queueVars, waitVars, callVars, heldVars, missed>>

\* Mutant: a cancellation ends a wait the lock was handed to already.
CancelClaimsHanded(t) ==
  /\ cancelled[t]
  /\ pc[t] \in {"wait", "await"}
  /\ fired[t] \in {"NONE", "HANDED"}
  /\ fired' = [fired EXCEPT ![t] = "CANCELLED"]
  /\ told' = [told EXCEPT ![t] = TRUE]
  /\ UNCHANGED <<stateVars, queueVars, callVars, heldVars, cancelled, missed>>

\* cancel_task(), or the task itself, claims the wait if nobody did.
CancelClaims(t) ==
  /\ cancelled[t]
  /\ pc[t] \in {"wait", "await"}
  /\ fired[t] = "NONE"
  /\ fired' = [fired EXCEPT ![t] = "CANCELLED"]
  /\ told' = [told EXCEPT ![t] = TRUE]
  /\ UNCHANGED <<stateVars, queueVars, callVars, heldVars, cancelled, missed>>

CancelledWait(t) ==
  /\ fired[t] = "CANCELLED" /\ told[t]
  /\ Goes(t, "wait", "unlist") \/ Goes(t, "await", "unchange")
  /\ UNCHANGED <<stateVars, queueVars, waitVars, mode, losses, tell, heldVars, cancelled,
                 missed>>

\* A cancelled task leaves the list it is in, with the queue locked: it is in no
\* list twice.
Unlist(t) ==
  /\ queue = Nobody
  /\ \/ /\ Goes(t, "unlist", "run")
        /\ waiting' = RemoveFirst(waiting, t) /\ since' = RemoveFirst(since, t)
        /\ UNCHANGED changes
     \/ /\ Goes(t, "unchange", "run")
        /\ changes' = changes \ {t}
        /\ UNCHANGED <<waiting, since>>
  /\ Forgets(t)
  /\ missed' = [missed EXCEPT ![t] = FALSE]
  /\ UNCHANGED <<stateVars, queue, mode, losses, tell, heldVars, cancelled>>

-----------------------------------------------------------------------------
(* Letting it go.                                                          *)

\* Who awaits a change while the lock is let go after one.
Changed(t) == [u \in Tasks |-> missed[u] \/ (u \in changes /\ Waits(u) /\ u # t)]

\* Mutant: a task that let the lock go still has it in `held`.
UnlockKeepsHeld(t) ==
  /\ pc[t] = "run" /\ (reads[t] > 0 \/ writes[t])
  /\ IF writes[t]
       THEN writer' = FALSE /\ UNCHANGED readers /\ missed' = Changed(t)
       ELSE readers' = readers - 1 /\ UNCHANGED <<writer, missed>>
  /\ pc' = [pc EXCEPT ![t] = IF parked THEN "release" ELSE "run"]
  /\ mode' = [mode EXCEPT ![t] = IF writes[t] THEN "change" ELSE "read"]
  /\ UNCHANGED <<parked, starving, queueVars, waitVars, losses, tell, heldVars, cancelled>>

\* tondo_rt_sync_unlock(), and the end of reading(): its bits go, and it
\* wakes others if PARKED was set.
Unlock(t) ==
  /\ pc[t] = "run" /\ (reads[t] > 0 \/ writes[t])
  /\ IF writes[t]
       THEN /\ writer' = FALSE /\ UNCHANGED readers
            /\ missed' = Changed(t)
       ELSE readers' = readers - 1 /\ UNCHANGED <<writer, missed>>
  /\ pc' = [pc EXCEPT ![t] = IF parked THEN "release" ELSE "run"]
  /\ mode' = [mode EXCEPT ![t] = IF writes[t] THEN "change" ELSE "read"]
  /\ writes' = [writes EXCEPT ![t] = FALSE]
  /\ reads' = [reads EXCEPT ![t] = IF writes[t] THEN @ ELSE @ - 1]
  /\ UNCHANGED <<parked, starving, queueVars, waitVars, losses, tell, cancelled>>

\* Who hears of a change that was made: whoever awaits one and still waits.
Hearing == {u \in changes : Waits(u)}

\* Its second part, with the queue locked.
Release(t) ==
  /\ queue = Nobody
  /\ Goes(t, "release", "tell")
  /\ IF mode[t] = "change" THEN Wakes(t, writer, Hearing, {})
                           ELSE Wakes(t, writer, {}, changes)
  /\ UNCHANGED <<queue, since, told, mode, losses, heldVars, cancelled>>

\* tondo_rt_sync_await(), with the queue locked: the task lets the lock go
\* and waits for another to change the value; it may have changed it itself.
Await(t) ==
  /\ t \in Awaiters
  /\ queue = Nobody
  /\ Goes(t, "run", "tellAwait")
  /\ writes[t]
  /\ writes' = [writes EXCEPT ![t] = FALSE]
  /\ Wakes(t, FALSE, Hearing, {t})
  /\ UNCHANGED <<queue, since, told, mode, losses, reads, cancelled>>

\* The tasks woken are notified, one after the other.
Tell(t) ==
  /\ pc[t] \in {"tell", "tellAwait"}
  /\ IF tell[t] = {}
       THEN /\ pc' = [pc EXCEPT ![t] = IF @ = "tell" THEN "run" ELSE "await"]
            /\ UNCHANGED <<told, tell>>
       ELSE \E u \in tell[t] :
            /\ told' = [told EXCEPT ![u] = TRUE]
            /\ tell' = [tell EXCEPT ![t] = @ \ {u}]
            /\ UNCHANGED pc
  /\ UNCHANGED <<stateVars, queueVars, fired, mode, losses, heldVars, cancelled, missed>>

\* The value changed: the task takes the lock again, unless it stops.
Heard(t) ==
  /\ pc[t] = "await"
  /\ fired[t] = "WOKEN" /\ told[t]
  /\ Forgets(t)
  /\ Goes(t, "await", IF cancelled[t] THEN "run" ELSE "try")
  /\ mode' = [mode EXCEPT ![t] = "change"]
  /\ losses' = [losses EXCEPT ![t] = 0]
  /\ UNCHANGED <<stateVars, queueVars, tell, heldVars, cancelled, missed>>

-----------------------------------------------------------------------------
\* The runtime goes on with a call.
Step(t) ==
  \/ Take(t) \/ Lose(t) \/ Mark(t) \/ Enlist(t) \/ Woken(t)
  \/ CancelClaims(t) \/ CancelledWait(t) \/ Unlist(t)
  \/ Release(t) \/ Tell(t) \/ Heard(t)

Next ==
  \E t \in Tasks :
    Step(t) \/ Unlock(t) \/ Await(t) \/ Cancel(t) \/ \E m \in Modes : Lock(t, m)

Spec == Init /\ [][Next]_vars

\* Calls go on; who wants a spin lock gets it in the end; and who holds the
\* lock lets it go, by the end of its closure or to await a change.
WithQueue(t) == Mark(t) \/ Unlist(t) \/ Release(t)
FairSpec ==
  Spec /\ \A t \in Tasks : WF_vars(Step(t)) /\ SF_vars(WithQueue(t)) /\ WF_vars(Unlock(t))

-----------------------------------------------------------------------------
(* Properties.                                                             *)

\* The holds tasks have, those handed to a task that does not know yet
\* included.
Reading(t) == reads[t] + (IF fired[t] = "HANDED" /\ ~Exclusive(t) THEN 1 ELSE 0)
Changing(t) == writes[t] \/ (fired[t] = "HANDED" /\ Exclusive(t))
Holds(t) == Reading(t) > 0 \/ Changing(t)
ReadHolds == {h \in Tasks \X (1 .. MaxReads) : h[2] <= Reading(h[1])}

\* One task holds the lock to change the value, or any number to read it.
Exclusion ==
  \A t \in Tasks : Changing(t) => \A u \in Tasks \ {t} : ~Holds(u)

\* `state` counts the holds there are: none is left behind by a cancelled
\* task, and none is let go twice.
StateCounts ==
  /\ writer = (\E t \in Tasks : Changing(t))
  /\ readers = Cardinality(ReadHolds)

\* "Some task waits in `waiting` or `changes`" (PARKED, sync.rs:53): a release
\* that does not see it has nobody to wake.
WaitingIsParked == queue = Nobody /\ (waiting # <<>> \/ changes # {}) => parked

\* A lock that is free while somebody waits for it, or that starves, is on
\* its way to somebody: a release goes on, or a woken task has yet to try.
FreeIsGiven ==
  ~writer /\ readers = 0 =>
    \/ ~starving /\ \A t \in ToSet(waiting) : ~Waits(t)
    \/ \E u \in Tasks : pc[u] = "release"
    \/ ~starving /\ \E u \in Tasks : \/ pc[u] = "wait" /\ fired[u] = "WOKEN"
                                     \/ pc[u] \in {"try", "mark", "enlist"} /\ losses[u] > 0

\* "so no later change is missed" (tondo_rt_sync_await, sync.rs:428): a task
\* whose awaited change came is woken, or the release that wakes it goes on.
ChangesAreHeard ==
  \A t \in Tasks : missed[t] /\ Waits(t) => \E u \in Tasks : pc[u] = "release" /\ mode[u] = "change"

\* "nobody takes it ahead" (STARVING, sync.rs:55): whoever gets a hold of a lock
\* that starves was in the queue, and so do those before it that still wait.
Gaining == {t \in Tasks : Reading(t)' > Reading(t) \/ (Changing(t)' /\ ~Changing(t))}
TakenInTurn ==
  [][starving =>
       \A t \in Gaining :
         \E i \in 1 .. Len(waiting) :
           /\ waiting[i] = t
           /\ \A j \in 1 .. i - 1 : Waits(waiting[j]) => waiting[j] \in Gaining]_vars

\* No task waits for a contended lock for ever (std.sync 14.4.4.1), ...
LockEnds == \A t \in Tasks : (pc[t] = "try") ~> (pc[t] = "run")

\* ... and who awaits a change takes the lock again once it came.
ChangeReaches == \A t \in Tasks : missed[t] ~> (pc[t] = "run")

\* P0014: no task waits for its own hold (decisions.md:410).
NeverWaitsForItself ==
  \A i, j \in 1 .. Len(waiting) :
    i < j /\ starving /\ Exclusive(waiting[i]) /\ Waits(waiting[i])
      => reads[waiting[j]] = 0

\* "en orden de llegada" (std.sync 14.4.4.1): a starving lock's queue is in
\* the order its tasks came.
QueueInOrder ==
  starving =>
    \A i, j \in 1 .. Len(waiting) :
      i < j => SelectInSeq(since, LAMBDA t : t = waiting[i])
                 < SelectInSeq(since, LAMBDA t : t = waiting[j])

=============================================================================
