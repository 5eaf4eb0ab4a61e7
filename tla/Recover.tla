------------------------------ MODULE Recover -------------------------------
(***************************************************************************)
(* A task runs `recover` blocks and starts tasks in them; a panic of one   *)
(* of those reaches the block it belongs to (language 15.9).               *)
(*                                                                         *)
(* crates/tondo-runtime/src/panics.rs, with the end of a task and its      *)
(* Join in tasks.rs, and the order in which compiled code makes the calls  *)
(* (crates/tondo/src/lower.rs, `catcher` and `unwind_target`).  The frames *)
(* a panic unwinds between two recovers are one here; panics of the        *)
(* cleanups themselves, deadlines, and recovers inside a `defer` are left  *)
(* out.                                                                    *)
(***************************************************************************)
EXTENDS Naturals, FiniteSets, Sequences, SequencesExt

CONSTANTS
  Children,    \* the tasks it starts
  MaxDepth,    \* how deep its recovers nest (bound)
  MaxRecovers  \* how many it runs (bound)

None == "none"
Own == "own"  \* a panic of its own code

ASSUME RecoverAssumption ==
  /\ IsFiniteSet(Children) /\ {None, Own} \cap Children = {}
  /\ MaxDepth \in Nat /\ MaxRecovers \in Nat

VARIABLES
  pc, on,              \* where the task is, and the Join it waits for
  recovers, ran,       \* Task.recovers, and how many were entered
  open, stop,          \* Owner: whether it takes panics, and the one it has
  alarm, unwinding,    \* the task's
  paused, caught,
  child, owner,        \* where each task it started is, and its recover
  freed, detached,     \* Task.free; JoinObject.detached
  level, joinPanic,    \* the block that has its Join, and JoinObject.panic
  cancelled, took,     \* who was cancelled; whose result was taken last
  raised, settled      \* history: who panicked; whose panic was caught or told

ownerVars == <<open, stop>>
panicVars == <<alarm, unwinding, paused, caught>>
childVars == <<child, owner, freed, detached>>
joinVars == <<level, joinPanic, cancelled, took>>
vars == <<pc, on, recovers, ran, ownerVars, panicVars, childVars, joinVars, raised, settled>>

Gone == MaxDepth + 1  \* no block has the Join any more
Ids == 1..MaxRecovers
Depth == Len(recovers)
Cleaning == paused # <<>>

TypeOK ==
  /\ pc \in {"code", "waits", "frees", "checks", "collects", "cleans", "catches", "handles", "over"}
  /\ on \in Children \cup {None} /\ recovers \in Seq(Ids) /\ Depth <= MaxDepth /\ ran \in 0..MaxRecovers
  /\ open \subseteq Ids /\ stop \in [Ids -> Children \cup {None}]
  /\ alarm \in BOOLEAN /\ {unwinding, caught} \subseteq Children \cup {Own, None}
  /\ paused \in Seq(Children \cup {Own})
  /\ child \in [Children -> {"unborn", "runs", "panics", "ended", "done"}]
  /\ owner \in [Children -> Ids \cup {0}] /\ level \in [Children -> 0..Gone]
  /\ took \in Children \cup {None}
  /\ UNION {freed, detached, joinPanic, cancelled, raised, settled} \subseteq Children

Init ==
  /\ pc = "code" /\ on = None /\ recovers = <<>> /\ ran = 0
  /\ open = {} /\ stop = [r \in Ids |-> None]
  /\ alarm = FALSE /\ unwinding = None /\ paused = <<>> /\ caught = None
  /\ child = [c \in Children |-> "unborn"] /\ owner = [c \in Children |-> 0]
  /\ freed = {} /\ detached = {}
  /\ level = [c \in Children |-> Gone] /\ joinPanic = {} /\ cancelled = {} /\ took = None
  /\ raised = {} /\ settled = {}

-----------------------------------------------------------------------------
(* Panics go on in the task. *)

Told(ps) == settled' = settled \cup (ps \ {Own})

\* rethrow of some panics, `first` before the others, and the task goes to `to`: in a
\* cleanup they are reported as suppressed, while another unwinds they are its, and
\* with no recover to stop them they end the program.
Rethrow(ps, first, to) ==
  IF ps = {} THEN pc' = to /\ UNCHANGED <<unwinding, settled>>
  ELSE IF Cleaning THEN pc' = to /\ Told(ps) /\ UNCHANGED unwinding
  ELSE IF unwinding # None THEN pc' = to /\ UNCHANGED <<unwinding, settled>>
  ELSE IF recovers # <<>> THEN pc' = to /\ unwinding' = first /\ UNCHANGED settled
  ELSE pc' = "over" /\ Told({first}) /\ UNCHANGED unwinding

\* The panics some recovers hold, and the innermost's.
Delivered(rs) == {stop[r] : r \in ToSet(rs)} \ {None}
First(rs) == stop[rs[SelectLastInSeq(rs, LAMBDA r : stop[r] # None)]]
Taken(rs) == [r \in Ids |-> IF r \in ToSet(rs) THEN None ELSE stop[r]]

\* Mutant of Calm: the alarm stays until the next call.
NotCalm(rs) == alarm' = alarm

\* calm: the alarm ends when no recover that is left holds a panic.
Calm(rs) == alarm' = (alarm /\ Delivered(rs) # {})

\* tondo_rt_unwinding, which compiled code asks after a call; take_alarm first.
Unwinds ==
  /\ pc = "checks" /\ ~alarm
  /\ IF unwinding = None THEN pc' = "code" /\ UNCHANGED <<unwinding, paused, took>>
     \* tondo_rt_unwind_hold: it waits while what the block holds is released.
     ELSE /\ pc' = "cleans"
          /\ unwinding' = None
          /\ paused' = Append(paused, unwinding)
          /\ took' = None
  /\ UNCHANGED <<on, recovers, ran, ownerVars, alarm, caught, childVars, level, joinPanic, cancelled,
                 raised, settled>>

TakeAlarm ==
  /\ pc \in {"checks", "cleans"} /\ alarm
  /\ alarm' = FALSE
  /\ pc' = "collects"
  /\ UNCHANGED <<on, recovers, ran, ownerVars, unwinding, paused, caught, childVars, joinVars, raised, settled>>

Collect ==
  /\ pc = "collects"
  /\ Rethrow(Delivered(recovers), First(recovers), IF Cleaning THEN "cleans" ELSE "checks")
  /\ stop' = Taken(recovers)
  /\ UNCHANGED <<on, recovers, ran, open, alarm, paused, caught, childVars, joinVars, raised>>

-----------------------------------------------------------------------------
(* What its code does in a block. *)

Enter ==
  /\ pc = "code" /\ Depth < MaxDepth /\ ran < MaxRecovers
  /\ ran' = ran + 1
  /\ recovers' = Append(recovers, ran')
  /\ open' = open \cup {ran'}
  /\ UNCHANGED <<pc, on, stop, panicVars, childVars, joinVars, raised, settled>>

\* owner_of_new: the innermost recover.  The Join is of this block, or of one around it.
Spawn(c) ==
  /\ pc = "code" /\ child[c] = "unborn"
  /\ child' = [child EXCEPT ![c] = "runs"]
  /\ owner' = [owner EXCEPT ![c] = IF recovers = <<>> THEN 0 ELSE Last(recovers)]
  /\ \E l \in 0..Depth : level' = [level EXCEPT ![c] = l]
  /\ pc' = "checks"
  /\ UNCHANGED <<on, recovers, ran, ownerVars, panicVars, freed, detached, joinPanic, cancelled, took,
                 raised, settled>>

\* record: one with no recover ends the program.
Panic ==
  /\ pc = "code"
  /\ IF recovers = <<>> THEN pc' = "over" /\ UNCHANGED unwinding
     ELSE pc' = "checks" /\ unwinding' = Own
  /\ UNCHANGED <<on, recovers, ran, ownerVars, alarm, paused, caught, childVars, joinVars, raised, settled>>

\* tondo_rt_join_wait, ...
Wait(c) ==
  /\ pc = "code" /\ level[c] # Gone
  /\ on' = c
  /\ pc' = "waits"
  /\ UNCHANGED <<recovers, ran, ownerVars, panicVars, childVars, joinVars, raised, settled>>

\* ... which an alarm ends, ...
WaitStops ==
  /\ pc = "waits" /\ alarm
  /\ on' = None
  /\ pc' = "checks"
  /\ UNCHANGED <<recovers, ran, ownerVars, panicVars, childVars, joinVars, raised, settled>>

\* ... and else the task: its panic goes on here, or its result is taken.
WaitTakes ==
  /\ pc = "waits" /\ child[on] = "done"
  /\ IF on \in joinPanic
     THEN Rethrow({on}, on, "checks") /\ UNCHANGED took
     ELSE pc' = "checks" /\ took' = on /\ UNCHANGED <<unwinding, settled>>
  /\ joinPanic' = joinPanic \ {on}
  /\ level' = [level EXCEPT ![on] = Gone]
  /\ on' = None
  /\ UNCHANGED <<recovers, ran, ownerVars, alarm, paused, caught, childVars, cancelled, raised>>

\* tondo_rt_join_detach, and the release of the Join.
Detach(c) ==
  /\ pc = "code" /\ level[c] # Gone /\ child[c] # "done"
  /\ detached' = detached \cup {c}
  /\ freed' = freed \cup {c}
  /\ level' = [level EXCEPT ![c] = Gone]
  /\ pc' = "checks"
  /\ UNCHANGED <<on, recovers, ran, ownerVars, panicVars, child, owner, joinPanic, cancelled, took, raised, settled>>

\* free_join: what is left of a block waits for its tasks, cancelled when the task
\* unwinds or stops, ...
Mine(c) == level[c] # Gone /\ level[c] >= Depth
Free(c) ==
  /\ pc \in {"code", "cleans"} /\ Mine(c)
  /\ cancelled' = IF Cleaning \/ alarm THEN cancelled \cup {c} ELSE cancelled
  /\ on' = c
  /\ pc' = "frees"
  /\ UNCHANGED <<recovers, ran, ownerVars, panicVars, childVars, level, joinPanic, took, raised, settled>>

\* ... and then a panic it ended with goes on.
Freed ==
  /\ pc = "frees" /\ child[on] = "done"
  /\ Rethrow({on} \cap joinPanic, on, IF Cleaning THEN "cleans" ELSE "checks")
  /\ joinPanic' = joinPanic \ {on}
  /\ level' = [level EXCEPT ![on] = Gone]
  /\ on' = None
  /\ UNCHANGED <<recovers, ran, ownerVars, alarm, paused, caught, childVars, cancelled, took, raised>>

Top == Last(recovers)
Released == \A c \in Children : ~Mine(c)

\* Mutant of End: it looks only at the alarm's panics after it left the recover.
EndPops ==
  /\ pc = "code" /\ recovers # <<>> /\ Released
  /\ open' = open \ {Top}
  /\ stop' = [stop EXCEPT ![Top] = None]
  /\ recovers' = Front(recovers)
  /\ Calm(Front(recovers))
  /\ UNCHANGED <<pc, on, ran, unwinding, paused, caught, childVars, joinVars, raised, settled>>

\* tondo_rt_recover_end: a panic of a task of it stops at it.
End ==
  /\ pc = "code" /\ recovers # <<>> /\ Released
  /\ open' = open \ {Top}
  /\ LET seen == IF alarm THEN recovers ELSE <<Top>>
     IN /\ stop' = Taken(seen)
        /\ IF Delivered(seen) = {}
           THEN /\ recovers' = Front(recovers)
                /\ Calm(Front(recovers))
                /\ UNCHANGED <<pc, paused>>
           ELSE /\ alarm' = FALSE
                /\ paused' = <<First(seen)>>
                /\ pc' = "catches"
                /\ UNCHANGED recovers
  /\ UNCHANGED <<on, ran, unwinding, caught, childVars, joinVars, raised, settled>>

\* tondo_rt_recover_leave: one leaves by `return`, `?` and the like.
Leave ==
  /\ pc = "code" /\ recovers # <<>> /\ Released
  /\ open' = open \ {Top}
  /\ stop' = [stop EXCEPT ![Top] = None]
  /\ recovers' = Front(recovers)
  /\ Calm(Front(recovers))
  /\ IF stop[Top] = None THEN UNCHANGED <<pc, unwinding, settled>>
     ELSE IF Front(recovers) # <<>> THEN pc' = "checks" /\ unwinding' = stop[Top] /\ UNCHANGED settled
     ELSE pc' = "over" /\ Told({stop[Top]}) /\ UNCHANGED unwinding
  /\ UNCHANGED <<on, ran, paused, caught, childVars, joinVars, raised>>

\* After the cleanups, tondo_rt_recover_catch.
Catch ==
  /\ \/ pc = "catches"
     \/ pc = "cleans" /\ Released
  /\ caught' = Last(paused)
  /\ paused' = Front(paused)
  /\ Told(Delivered(<<Top>>))
  /\ open' = open \ {Top}
  /\ stop' = Taken(<<Top>>)
  /\ recovers' = Front(recovers)
  /\ Calm(Front(recovers))
  /\ pc' = "handles"
  /\ UNCHANGED <<on, ran, unwinding, childVars, joinVars, raised>>

\* The program handles it, ...
Handle ==
  /\ pc = "handles"
  /\ Told({caught})
  /\ caught' = None
  /\ pc' = "checks"
  /\ UNCHANGED <<on, recovers, ran, ownerVars, alarm, unwinding, paused, childVars, joinVars, raised>>

\* ... or it goes on (`p.resume()`).
Resume ==
  /\ pc = "handles"
  /\ Rethrow({caught}, caught, "checks")
  /\ caught' = None
  /\ UNCHANGED <<on, recovers, ran, ownerVars, alarm, paused, childVars, joinVars, raised>>

-----------------------------------------------------------------------------
(* The tasks it started end. *)

ChildEnds(c) ==
  /\ child[c] = "runs"
  /\ child' = [child EXCEPT ![c] = "ended"]
  /\ UNCHANGED <<pc, on, recovers, ran, ownerVars, panicVars, owner, freed, detached, joinVars, raised, settled>>

ChildPanics(c) ==
  /\ child[c] = "runs"
  /\ child' = [child EXCEPT ![c] = "panics"]
  /\ raised' = raised \cup {c}
  /\ UNCHANGED <<pc, on, recovers, ran, ownerVars, panicVars, owner, freed, detached, joinVars, settled>>

\* Mutant of Deliver: the Join keeps what its recover takes.
DeliverKeeps(c) ==
  /\ child[c] = "panics"
  /\ child' = [child EXCEPT ![c] = "ended"]
  /\ IF c \notin freed /\ owner[c] \in open /\ stop[owner[c]] = None
     THEN stop' = [stop EXCEPT ![owner[c]] = c] /\ alarm' = TRUE
     ELSE UNCHANGED <<stop, alarm>>
  /\ joinPanic' = joinPanic \cup {c}
  /\ UNCHANGED <<pc, on, recovers, ran, open, unwinding, paused, caught, owner, freed, detached,
                 level, cancelled, took, raised, settled>>

\* deliver: its recover takes it, while it runs, or the Join.
Deliver(c) ==
  /\ child[c] = "panics"
  /\ child' = [child EXCEPT ![c] = "ended"]
  /\ IF c \notin freed /\ owner[c] \in open /\ stop[owner[c]] = None
     THEN /\ stop' = [stop EXCEPT ![owner[c]] = c]
          /\ alarm' = TRUE
          /\ UNCHANGED joinPanic
     ELSE joinPanic' = joinPanic \cup {c} /\ UNCHANGED <<stop, alarm>>
  /\ UNCHANGED <<pc, on, recovers, ran, open, unwinding, paused, caught, owner, freed, detached,
                 level, cancelled, took, raised, settled>>

\* complete; the Join of a detached task is its own, and its panic ends the program.
Complete(c) ==
  /\ child[c] = "ended"
  /\ child' = [child EXCEPT ![c] = "done"]
  /\ IF c \in detached \cap joinPanic
     THEN pc' = "over" /\ Told({c}) /\ joinPanic' = joinPanic \ {c}
     ELSE UNCHANGED <<pc, settled, joinPanic>>
  /\ UNCHANGED <<on, recovers, ran, ownerVars, panicVars, owner, freed, detached, level, cancelled,
                 took, raised>>

-----------------------------------------------------------------------------
Runs ==
  \/ Unwinds \/ TakeAlarm \/ Collect \/ Enter \/ Panic \/ WaitStops \/ WaitTakes \/ Freed
  \/ End \/ Leave \/ Catch \/ Handle \/ Resume
  \/ \E c \in Children : Spawn(c) \/ Wait(c) \/ Detach(c) \/ Free(c)

Ends(c) == ChildEnds(c) \/ ChildPanics(c) \/ Deliver(c) \/ Complete(c)

Next ==
  \/ pc # "over" /\ Runs
  \/ \E c \in Children : pc # "over" /\ Ends(c)

Spec == Init /\ [][Next]_vars

-----------------------------------------------------------------------------
\* Where the panic of a task is: the recover it belongs to, the task that unwinds or
\* pauses it, the one that handles it, its Join, or told, which is handled, reported
\* as suppressed, or the end of the program.
Holders(c) ==
  Cardinality({r \in Ids : stop[r] = c})
    + Cardinality({i \in DOMAIN paused : paused[i] = c})
    + Cardinality({h \in {"unwinding", "caught", "join", "panics", "settled"} :
         \/ h = "unwinding" /\ unwinding = c
         \/ h = "caught" /\ caught = c
         \/ h = "join" /\ c \in joinPanic
         \/ h = "panics" /\ child[c] = "panics"
         \/ h = "settled" /\ c \in settled})

\* No panic is lost: `deliver`, `take_alarm`, `rethrow` and the ways a recover ends
\* hand each on until it is told.
PanicKept == \A c \in raised : Holders(c) > 0

\* Nor is one told twice, by the recover and by whoever waits for the Join.
PanicOnce == \A c \in Children : Holders(c) <= (IF c \in raised THEN 1 ELSE 0)

\* An alarm, which ends each wait of the task at once, is on in its code only while
\* a recover of it holds a panic: `take_alarm` and `calm` leave none behind for the
\* code after the block, whose waits would give nothing.
AlarmHasPanic ==
  alarm /\ pc \in {"code", "waits", "handles"} => \E r \in ToSet(recovers) : stop[r] # None

\* A recover with no other in its block gives `ok` only when no task of the block
\* ended with a panic before, wherever the task's Join is.  (The panic of a task of
\* an outer block stops at the innermost recover the task runs.)
OkIsClean ==
  [][End /\ recovers' # recovers /\ Top = ran =>
       \A c \in raised : owner[c] = Top /\ child[c] # "panics" => c \in freed]_vars

\* Code never goes on with the result of a task that ended with a panic, which is no
\* value of its type: `tondo_rt_join_wait` takes it only when the panic went elsewhere.
NoFalseResult == pc = "code" => took \notin raised
=============================================================================
