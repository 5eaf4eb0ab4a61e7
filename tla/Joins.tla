------------------------------- MODULE Joins --------------------------------
(***************************************************************************)
(* The handles of the tasks a task starts: `Join` and `Group`.             *)
(*                                                                         *)
(* crates/tondo-runtime/src/tasks.rs: `tondo_rt_spawn`, `complete`,        *)
(* `finish`, `cancel_join`, `tondo_rt_join_*`, `free_join`, `end_detached`,*)
(* `tondo_rt_group_*` and the end of a task in `trampoline`.  A step is    *)
(* what is done with a join's or a group's lock held, or one change of a   *)
(* count.  A wait is claimed once, by the end of the task waited for or by *)
(* a cancellation; how its task sleeps and wakes is TaskWait's, and panics *)
(* are Recover's.  `wait(timeout:)`, and a `select` among several, are     *)
(* left out.                                                               *)
(***************************************************************************)
EXTENDS Naturals, FiniteSets, Sequences, SequencesExt

CONSTANTS
  Tasks, MainTask,
  Spawners,   \* the tasks that start others
  Groupers,   \* those that put them in a group
  Fails       \* those that end with an error

None == "none"

ASSUME JoinsAssumption ==
  /\ IsFiniteSet(Tasks) /\ MainTask \in Tasks /\ None \notin Tasks
  /\ Spawners \cup Groupers \cup Fails \subseteq Tasks

VARIABLES
  pc, on,             \* where each task is, and the join it works on
  cancelled, fired,   \* Task.cancelled; how the wait it is in was claimed
  owner,              \* the task that holds each one's handle
  rc, done, taken, waiters, detached,  \* JoinObject
  group,              \* JoinObject.group, by the task whose group it is
  freed, result,      \* whether the join was let go, and where its result is
  members, finished, running, failed, waiter, got,  \* GroupObject: joins, ..., taken
  DETACHED, todo      \* the detached tasks; those `end_detached` goes through

waitVars == <<cancelled, fired>>
countVars == <<rc, freed>>
endVars == <<done, waiters, group>>
groupVars == <<members, finished, running, failed, waiter, got>>
listVars == <<detached, DETACHED, todo>>
vars == <<pc, on, waitVars, owner, countVars, taken, result, endVars, groupVars, listVars>>

Pcs == {"unborn", "code", "parks", "waits", "finishes", "releases", "frees", "adds", "nexts",
        "nextWaits", "settles", "settleWaits", "cancels", "takes", "releasesGroup", "freesMember",
        "completes", "retains", "letsGo", "ends", "endCancels", "endWaits", "over", "off"}

TypeOK ==
  /\ pc \in [Tasks -> Pcs] /\ on \in [Tasks -> Tasks \cup {None}]
  /\ cancelled \subseteq Tasks /\ fired \in [Tasks -> {None, "end", "cancel"}]
  /\ {owner, group, failed} \subseteq [Tasks -> Tasks \cup {None}] /\ rc \in [Tasks -> Nat]
  /\ UNION {done, taken, detached, freed, got, waiter, DETACHED, todo} \subseteq Tasks
  /\ waiters \in [Tasks -> SUBSET Tasks]
  /\ result \in [Tasks -> {None, "join", "given", "lost", "released"}]
  /\ {members, finished} \subseteq [Tasks -> Seq(Tasks)] /\ running \in [Tasks -> Nat]

Init ==
  /\ pc = [t \in Tasks |-> IF t = MainTask THEN "code" ELSE "unborn"]
  /\ on = [t \in Tasks |-> None] /\ cancelled = {} /\ fired = on
  /\ owner = on /\ rc = [t \in Tasks |-> 0] /\ done = {} /\ taken = {}
  /\ waiters = [t \in Tasks |-> {}] /\ detached = {} /\ group = on /\ freed = {} /\ result = on
  /\ members = [t \in Tasks |-> <<>>] /\ finished = members /\ running = rc /\ failed = on
  /\ waiter = {} /\ got = {}
  /\ DETACHED = {} /\ todo = {}

At(p, from, to) == pc[p] = from /\ pc' = [pc EXCEPT ![p] = to]
Code(p, to) == At(p, "code", to)
Works(p, c) == on' = [on EXCEPT ![p] = c]
\* cancel_task, under the join's lock.
Cancel(c) == cancelled' = IF c \in done THEN cancelled ELSE cancelled \cup {c}
\* free_join does that when the task that releases is cancelled itself.
CancelToo(p, c) == IF p \in cancelled THEN Cancel(c) ELSE UNCHANGED cancelled
Give(c) ==
  /\ taken' = taken \cup {c}
  /\ result' = [result EXCEPT ![c] = "given"]
\* Mutant of Free: it does not look whether the result was taken.
FreeTaken(c) ==
  /\ freed' = freed \cup {c}
  /\ rc' = [rc EXCEPT ![c] = 0]
  /\ result' = [result EXCEPT ![c] = "released"]

\* What nobody took is freed with the join.
Free(c) ==
  /\ freed' = freed \cup {c}
  /\ rc' = [rc EXCEPT ![c] = 0]
  /\ result' = IF c \in taken THEN result ELSE [result EXCEPT ![c] = "released"]
\* One reference less: the last one frees the join of a task that is done.
Drop(c) ==
  IF rc[c] = 1 THEN Free(c)
  ELSE rc' = [rc EXCEPT ![c] = @ - 1] /\ UNCHANGED <<freed, result>>

-----------------------------------------------------------------------------
(* A task starts others, and does what it wants with their joins. *)

Spawn(p, c) ==
  /\ p \in Spawners /\ pc[p] = "code" /\ pc[c] = "unborn"
  /\ pc' = [pc EXCEPT ![c] = "code"]
  /\ owner' = [owner EXCEPT ![c] = p]
  /\ rc' = [rc EXCEPT ![c] = 1]
  /\ UNCHANGED <<on, waitVars, freed, taken, result, endVars, groupVars, listVars>>

\* Another wait, which only a cancellation is sure to end.
Park(p) ==
  /\ Code(p, "parks") /\ p # MainTask /\ p \notin cancelled
  /\ fired' = [fired EXCEPT ![p] = None]
  /\ UNCHANGED <<on, cancelled, owner, countVars, taken, result, endVars, groupVars, listVars>>

Unpark(p) ==
  /\ At(p, "parks", "code")
  /\ UNCHANGED <<on, waitVars, owner, countVars, taken, result, endVars, groupVars, listVars>>

\* A cancelled task's wait is claimed, unless the end of the other came first.
CancelClaims(p) ==
  /\ p \in cancelled /\ fired[p] = None
  /\ pc[p] \in {"parks", "waits", "nextWaits", "settleWaits"}
  /\ fired' = [fired EXCEPT ![p] = "cancel"]
  /\ UNCHANGED <<pc, on, cancelled, owner, countVars, taken, result, endVars, groupVars, listVars>>

Mine(p, c) == owner[c] = p /\ c \notin taken

\* tondo_rt_join_wait: the result of a task that is done, ...
Take(p, c) ==
  /\ pc[p] = "code" /\ Mine(p, c) /\ p \notin cancelled /\ c \in done
  /\ Give(c)
  /\ UNCHANGED <<pc, on, waitVars, owner, countVars, endVars, groupVars, listVars>>

\* ... and finish, until it is, ...
Wait(p, c) ==
  /\ Mine(p, c) /\ p \notin cancelled /\ c \notin done
  /\ Code(p, "waits")
  /\ Works(p, c)
  /\ fired' = [fired EXCEPT ![p] = None]
  /\ waiters' = [waiters EXCEPT ![c] = @ \cup {p}]
  /\ UNCHANGED <<cancelled, owner, countVars, taken, result, done, group, groupVars, listVars>>

WaitEnds(p) ==
  /\ At(p, "waits", "code") /\ fired[p] = "end"
  /\ Give(on[p])
  /\ Works(p, None)
  /\ UNCHANGED <<waitVars, owner, countVars, endVars, groupVars, listVars>>

\* Mutant of WaitStops: the join still has the wait.
WaitStopsListed(p) ==
  /\ At(p, "waits", "code") /\ fired[p] = "cancel"
  /\ Works(p, None)
  /\ UNCHANGED <<waitVars, owner, countVars, taken, result, endVars, groupVars, listVars>>

\* ... unless it is cancelled: then the join no longer has its wait.
WaitStops(p) ==
  /\ At(p, "waits", "code") /\ fired[p] = "cancel"
  /\ waiters' = [waiters EXCEPT ![on[p]] = @ \ {p}]
  /\ Works(p, None)
  /\ UNCHANGED <<waitVars, owner, countVars, taken, result, done, group, groupVars, listVars>>

\* tondo_rt_join_cancel, which waits whatever happens.
CancelJoin(p, c) ==
  /\ Mine(p, c)
  /\ Code(p, "finishes")
  /\ Works(p, c)
  /\ Cancel(c)
  /\ UNCHANGED <<fired, owner, countVars, taken, result, endVars, groupVars, listVars>>

Finish(p) ==
  /\ At(p, "finishes", "releases") /\ on[p] \in done
  /\ UNCHANGED <<on, waitVars, owner, countVars, taken, result, endVars, groupVars, listVars>>

\* tondo_rt_join_detach; then the handle is released.
Detach(p, c) ==
  /\ Mine(p, c)
  /\ Code(p, "releases")
  /\ Works(p, c)
  /\ IF c \in done THEN UNCHANGED <<detached, DETACHED, rc>>
     ELSE /\ detached' = detached \cup {c}
          /\ DETACHED' = DETACHED \cup {c}
          /\ rc' = [rc EXCEPT ![c] = @ + 1]
  /\ UNCHANGED <<waitVars, owner, freed, taken, result, endVars, groupVars, todo>>

\* tondo_rt_join_release, at the latest at the end of its block: the last reference
\* waits for the task, ...
Release(p, c) ==
  /\ owner[c] = p
  /\ \/ pc[p] = "code"
     \/ pc[p] = "releases" /\ on[p] = c
  /\ owner' = [owner EXCEPT ![c] = None]
  /\ IF rc[c] > 1
     THEN /\ rc' = [rc EXCEPT ![c] = @ - 1]
          /\ pc' = [pc EXCEPT ![p] = "code"]
          /\ Works(p, None)
          /\ UNCHANGED cancelled
     ELSE /\ pc' = [pc EXCEPT ![p] = "frees"]
          /\ Works(p, c)
          /\ CancelToo(p, c)
          /\ UNCHANGED rc
  /\ UNCHANGED <<fired, freed, taken, result, endVars, groupVars, listVars>>

\* ... however long.
Frees(p) ==
  /\ At(p, "frees", "code") /\ on[p] \in done
  /\ Free(on[p])
  /\ Works(p, None)
  /\ UNCHANGED <<waitVars, owner, taken, endVars, groupVars, listVars>>

-----------------------------------------------------------------------------
(* Groups. *)

\* Under the group's lock: c finished.  Its task is told, if it waits.
GroupCompleted(p, c) ==
  /\ finished' = [finished EXCEPT ![p] = Append(@, c)]
  /\ running' = [running EXCEPT ![p] = @ - 1]
  /\ failed' = [failed EXCEPT ![p] = IF c \in Fails /\ @ = None THEN c ELSE @]
  /\ waiter' = waiter \ {p}

\* tondo_rt_group_add: first the group has the join, ...
Add(p, c) ==
  /\ p \in Groupers /\ Mine(p, c)
  /\ Code(p, "adds")
  /\ Works(p, c)
  /\ owner' = [owner EXCEPT ![c] = None]
  /\ members' = [members EXCEPT ![p] = Append(@, c)]
  /\ running' = [running EXCEPT ![p] = @ + 1]
  /\ UNCHANGED <<waitVars, countVars, taken, result, endVars, finished, failed, waiter, got, listVars>>

\* Mutant of Added: it does not look whether the task is done.
AddedBlind(p) ==
  /\ At(p, "adds", "code")
  /\ group' = [group EXCEPT ![on[p]] = p]
  /\ Works(p, None)
  /\ UNCHANGED <<waitVars, owner, countVars, taken, result, done, waiters, groupVars, listVars>>

\* ... then the join the group, unless the task is done.
Added(p) ==
  /\ At(p, "adds", "code")
  /\ IF on[p] \in done
     THEN GroupCompleted(p, on[p]) /\ UNCHANGED group
     ELSE group' = [group EXCEPT ![on[p]] = p] /\ UNCHANGED <<finished, running, failed, waiter>>
  /\ Works(p, None)
  /\ UNCHANGED <<waitVars, owner, countVars, taken, result, done, waiters, members, got, listVars>>

Members(p) == ToSet(members[p])
\* (Code that is cancelled only releases what it has.)
Asks(p, to) ==
  /\ members[p] # <<>>
  /\ p \in cancelled => to = "releasesGroup"
  /\ Code(p, to)
  /\ UNCHANGED <<on, waitVars, owner, countVars, taken, result, endVars, groupVars, listVars>>

\* group_block.
Blocks(p, from, to) ==
  /\ At(p, from, to)
  /\ waiter' = waiter \cup {p}
  /\ fired' = [fired EXCEPT ![p] = None]
  /\ UNCHANGED <<on, cancelled, owner, countVars, taken, result, endVars, members, finished, running,
                 failed, got, listVars>>

Unblocks(p, from, to) ==
  /\ At(p, from, IF fired[p] = "end" THEN to ELSE "code") /\ fired[p] # None
  /\ waiter' = waiter \ {p}
  /\ UNCHANGED <<on, waitVars, owner, countVars, taken, result, endVars, members, finished, running,
                 failed, got, listVars>>

\* tondo_rt_group_next gives the first that finished and was not taken, ...
Left(p) == SelectInSeq(finished[p], LAMBDA c : c \notin got)
NextGives(p) ==
  /\ At(p, "nexts", "code") /\ Left(p) # 0
  /\ LET c == finished[p][Left(p)]
     IN /\ got' = got \cup {c}
        /\ taken' = taken \cup {c}
        \* ... and a cancelled task nothing, not even what it took.
        /\ result' = [result EXCEPT ![c] = IF p \in cancelled THEN "lost" ELSE "given"]
  /\ finished' = [finished EXCEPT ![p] = SubSeq(@, Left(p) + 1, Len(@))]
  /\ UNCHANGED <<on, waitVars, owner, countVars, endVars, members, running, failed, waiter, listVars>>

NextEnds(p) ==
  /\ At(p, "nexts", "code") /\ Left(p) = 0
  /\ p \in cancelled \/ Members(p) \subseteq got
  /\ UNCHANGED <<on, waitVars, owner, countVars, taken, result, endVars, groupVars, listVars>>

NextBlocks(p) ==
  /\ Left(p) = 0 /\ p \notin cancelled /\ ~(Members(p) \subseteq got)
  /\ Blocks(p, "nexts", "nextWaits")

\* tondo_rt_group_settle, of `group.wait()`: the first that failed cancels the others, ...
Failed(p) == failed[p] # None /\ failed[p] \notin got
SettleFails(p) ==
  /\ At(p, "settles", "cancels") /\ p \notin cancelled /\ Failed(p)
  /\ Works(p, failed[p])
  /\ UNCHANGED <<waitVars, owner, countVars, taken, result, endVars, groupVars, listVars>>

\* ... or all of them are done, ...
SettleEnds(p) ==
  /\ At(p, "settles", IF p \in cancelled THEN "code" ELSE "takes")
  /\ \/ p \in cancelled
     \/ ~Failed(p) /\ running[p] = 0
  /\ UNCHANGED <<on, waitVars, owner, countVars, taken, result, endVars, groupVars, listVars>>

SettleBlocks(p) ==
  /\ p \notin cancelled /\ ~Failed(p) /\ running[p] > 0
  /\ Blocks(p, "settles", "settleWaits")

\* ... and tondo_rt_group_take gives their results.
Takes(p) ==
  /\ At(p, "takes", "code")
  /\ LET left == Members(p) \ got
     IN /\ got' = got \cup left
        /\ taken' = taken \cup left
        /\ result' = [c \in Tasks |-> IF c \in left THEN "given" ELSE result[c]]
  /\ UNCHANGED <<on, waitVars, owner, countVars, endVars, members, finished, running, failed, waiter, listVars>>

\* tondo_rt_group_cancel: one after another.
CancelMember(p) ==
  LET i == SelectInSeq(members[p], LAMBDA c : c \notin done)
  IN /\ pc[p] = "cancels" /\ i # 0 /\ members[p][i] \notin cancelled
     /\ Cancel(members[p][i])
     /\ UNCHANGED <<pc, on, fired, owner, countVars, taken, result, endVars, groupVars, listVars>>

GroupCancelled(p) ==
  /\ At(p, "cancels", "code") /\ Members(p) \subseteq done
  \* `group.wait()` gives the one that failed.
  /\ IF on[p] = None THEN UNCHANGED <<taken, result, got>>
     ELSE Give(on[p]) /\ got' = got \cup {on[p]}
  /\ Works(p, None)
  /\ UNCHANGED <<waitVars, owner, countVars, endVars, members, finished, running, failed, waiter, listVars>>

\* tondo_rt_group_release frees its joins in order, ...
FreeMember(p) ==
  LET i == SelectInSeq(members[p], LAMBDA c : c \notin freed)
  IN /\ At(p, "releasesGroup", "freesMember") /\ i # 0
     /\ Works(p, members[p][i])
     /\ CancelToo(p, members[p][i])
     /\ UNCHANGED <<fired, owner, countVars, taken, result, endVars, groupVars, listVars>>

MemberFreed(p) ==
  /\ At(p, "freesMember", "releasesGroup") /\ on[p] \in done
  /\ Free(on[p])
  /\ Works(p, None)
  /\ UNCHANGED <<waitVars, owner, taken, endVars, groupVars, listVars>>

\* ... then itself.
GroupFreed(p) ==
  /\ At(p, "releasesGroup", "code") /\ Members(p) \subseteq freed
  /\ members' = [members EXCEPT ![p] = <<>>]
  /\ finished' = [finished EXCEPT ![p] = <<>>]
  /\ failed' = [failed EXCEPT ![p] = None]
  /\ UNCHANGED <<on, waitVars, owner, countVars, taken, result, endVars, running, waiter, got, listVars>>

-----------------------------------------------------------------------------
(* A task ends. *)

\* Its code holds no handle any more.
End(p) ==
  /\ Code(p, IF p = MainTask THEN "ends" ELSE "completes")
  /\ members[p] = <<>> /\ \A c \in Tasks : owner[c] # p
  /\ result' = IF p = MainTask THEN result ELSE [result EXCEPT ![p] = "join"]
  /\ UNCHANGED <<on, waitVars, owner, countVars, taken, endVars, groupVars, listVars>>

\* complete: who waits for it hears, and its group.
Complete(p) ==
  /\ At(p, "completes", IF p \in detached THEN "retains" ELSE "off")
  /\ done' = done \cup {p}
  /\ waiters' = [waiters EXCEPT ![p] = {}]
  /\ LET g == group[p]
         told == waiters[p] \cup (IF g = None THEN {} ELSE waiter \cap {g})
     IN /\ fired' = [t \in Tasks |-> IF t \in told /\ fired[t] = None THEN "end" ELSE fired[t]]
        /\ IF g = None THEN UNCHANGED <<finished, running, failed, waiter>>
           ELSE GroupCompleted(g, p)
  /\ UNCHANGED <<on, cancelled, owner, countVars, taken, result, group, members, got, listVars>>

\* A detached one had a hold of its join.
Retain(p) ==
  /\ At(p, "retains", "letsGo")
  /\ DETACHED' = DETACHED \ {p}
  /\ UNCHANGED <<on, waitVars, owner, countVars, taken, result, endVars, groupVars, detached, todo>>

LetGo(p) ==
  /\ At(p, "letsGo", "off")
  /\ Drop(p)
  /\ UNCHANGED <<on, waitVars, owner, taken, endVars, groupVars, listVars>>

\* end_detached: `main` returned.  The detached tasks are cancelled and waited for,
\* with those they detach meanwhile.
EndDetached ==
  /\ At(MainTask, "ends", IF DETACHED = {} THEN "over" ELSE "endCancels")
  /\ todo' = DETACHED
  /\ rc' = [c \in Tasks |-> IF c \in DETACHED THEN rc[c] + 1 ELSE rc[c]]
  /\ UNCHANGED <<on, waitVars, owner, freed, taken, result, endVars, groupVars, detached, DETACHED>>

EndCancels(c) ==
  /\ At(MainTask, "endCancels", "endWaits") /\ c \in todo
  /\ Works(MainTask, c)
  /\ Cancel(c)
  /\ UNCHANGED <<fired, owner, countVars, taken, result, endVars, groupVars, listVars>>

\* Mutant of EndReleases: it does not look for those detached meanwhile.
EndReleasesOnce ==
  /\ on[MainTask] \in done
  /\ todo' = todo \ {on[MainTask]}
  /\ At(MainTask, "endWaits", IF todo' = {} THEN "over" ELSE "endCancels")
  /\ Drop(on[MainTask])
  /\ Works(MainTask, None)
  /\ UNCHANGED <<waitVars, owner, taken, endVars, groupVars, detached, DETACHED>>

EndReleases ==
  /\ on[MainTask] \in done
  /\ todo' = todo \ {on[MainTask]}
  /\ At(MainTask, "endWaits", IF todo' = {} THEN "ends" ELSE "endCancels")
  /\ Drop(on[MainTask])
  /\ Works(MainTask, None)
  /\ UNCHANGED <<waitVars, owner, taken, endVars, groupVars, detached, DETACHED>>

-----------------------------------------------------------------------------
\* What the runtime does by itself, and what code chooses to do.
Goes(p) ==
  \/ CancelClaims(p) \/ WaitEnds(p) \/ WaitStops(p) \/ Finish(p) \/ Frees(p) \/ Added(p)
  \/ Unblocks(p, "nextWaits", "nexts") \/ Unblocks(p, "settleWaits", "settles")
  \/ NextGives(p) \/ NextEnds(p) \/ NextBlocks(p)
  \/ SettleFails(p) \/ SettleEnds(p) \/ SettleBlocks(p) \/ Takes(p)
  \/ CancelMember(p) \/ GroupCancelled(p) \/ FreeMember(p) \/ MemberFreed(p) \/ GroupFreed(p)
  \/ End(p) \/ Complete(p) \/ Retain(p) \/ LetGo(p)
  \/ pc[p] = "parks" /\ fired[p] = "cancel" /\ Unpark(p)
  \/ \E c \in Tasks : Release(p, c)
  \/ Asks(p, "releasesGroup")

Chooses(p) ==
  \/ Park(p) \/ Unpark(p)
  \/ Asks(p, "nexts") \/ Asks(p, "settles") \/ Asks(p, "cancels")
  \/ \E c \in Tasks : Spawn(p, c) \/ Take(p, c) \/ Wait(p, c) \/ CancelJoin(p, c) \/ Detach(p, c) \/ Add(p, c)

Ends == EndDetached \/ (\E c \in Tasks : EndCancels(c)) \/ EndReleases

Next == Ends \/ \E p \in Tasks : Goes(p) \/ Chooses(p)

Spec == Init /\ [][Next]_vars

\* The runtime goes on, and code that is not in a wait ends some day.
FairSpec == Spec /\ WF_vars(Ends) /\ \A p \in Tasks : WF_vars(Goes(p))

-----------------------------------------------------------------------------
\* No block is used after it was freed: not by the task in the middle of a call with
\* it, by its own task, by the list of detached ones, by the loop at the end of
\* `main`, nor by a group; and a join has no wait of a task that left it.
UsesLive ==
  /\ \A p \in Tasks : on[p] \notin freed
  /\ (DETACHED \cup todo \cup {c \in Tasks : owner[c] # None}) \cap freed = {}
  /\ \A c \in Tasks : pc[c] \in {"code", "parks", "waits", "completes", "retains", "letsGo"} => c \notin freed
  /\ \A c \in Tasks : pc[c] # "off" /\ c \notin done /\ group[c] # None => c \in Members(group[c])
  /\ \A c \in Tasks : \A p \in waiters[c] : pc[p] = "waits" /\ on[p] = c

\* A result is given to who waits, or released with its join: not both, and it is
\* neither lost nor kept for ever.
ResultKept ==
  \A c \in Tasks :
    /\ result[c] # "lost"
    /\ c \in freed => result[c] = IF c \in taken THEN "given" ELSE "released"

\* The program ends with no task left, detached ones and those they start included.
NoTaskLeft == pc[MainTask] = "over" => \A c \in Tasks \ {MainTask} : pc[c] = "unborn" \/ c \in done

\* Nobody waits for what already happened: a join's waiter for a task that is done,
\* nor a group's owner with a task of it that finished and was not taken.
EndsHeard ==
  \A p \in Tasks : fired[p] = None =>
    /\ pc[p] = "waits" => on[p] \notin done
    /\ pc[p] = "nextWaits" => Members(p) \cap done \subseteq got
    /\ pc[p] = "settleWaits" => running[p] > 0 /\ ~Failed(p)

\* A cancelled task ends (11.15).
CancelEnds == \A c \in Tasks : c \in cancelled ~> c \in done
=============================================================================
