------------------------------- MODULE Select -------------------------------
(***************************************************************************)
(* `select`: one wait in several channels, joins, groups and timers, of    *)
(* which one operation completes.                                          *)
(*                                                                         *)
(* crates/tondo-runtime/src/tasks.rs, `select`, `select_within` and        *)
(* `try_case`, with what channels, joins and groups do to a wait.  A plain *)
(* send, receive or wait is a select of one case.  The spin locks of the   *)
(* objects are taken one by one; what is done with all of them held, and   *)
(* their release, is one step, since nobody else can look in between.  A   *)
(* wait that is claimed ends some time later (TaskWait); what a buffer     *)
(* holds, and the order of those who wait for it, is Channel's: a list is  *)
(* the set of what is in it here.                                          *)
(***************************************************************************)
EXTENDS Integers, FiniteSets, FiniteSetsExt, Sequences, SequencesExt

CONSTANTS
  Tasks,
  Channels, Joins, Groups,  \* the objects: each is the address of its lock
  Capacity,    \* of each channel; 0 for a rendezvous
  Selects,     \* what each task may wait with: how, and a list of cases
  MaxSelects,  \* how many times each does (bound)
  Members,     \* how many tasks run in a group at first
  Closing,     \* the channels somebody may close
  Cancels,     \* the tasks that may be cancelled
  Nobody

Objects == Channels \cup Joins \cup Groups

\* A case is its kind and its object; a sleep's, whether it takes any time.
Cases == ({"receive", "send"} \X Channels) \cup ({"wait"} \X Joins)
           \cup ({"next"} \X Groups) \cup ({"sleep"} \X {0, 1})

\* A select waits, or has an `else`; the first try of select_within() has one
\* case of the two.
Hows == {"block", "else", "first"}

ASSUME SelectAssumption ==
  /\ Objects \subseteq Nat
  /\ Nobody \notin Tasks
  /\ Capacity \in [Channels -> Nat]
  /\ Selects \in [Tasks -> SUBSET (Hows \X Seq(Cases))]
  /\ \A t \in Tasks : \A select \in Selects[t] : select[1] = "first" => Len(select[2]) = 2
  /\ MaxSelects \in [Tasks -> Nat] /\ Members \in Nat
  /\ Closing \subseteq Channels /\ Cancels \subseteq Tasks

\* A group stays with the task that made it.
ASSUME GroupsAssumption ==
  \A t, u \in Tasks : \A mine \in Selects[t], other \in Selects[u] : \A g \in Groups :
    <<"next", g>> \in ToSet(mine[2]) \cap ToSet(other[2]) => t = u

VARIABLES
  chan, join, group,  \* the objects, with the waits in them, each with the
                      \* index of its case
  lock,               \* who holds the lock of an object
  pc, cases, how,     \* a task's select: its cases, and whether it waits
  fired,              \* the case its wait was claimed for
  won,                \* what it returned, or will
  effects,            \* the cases that did something
  times, cancelled

objectVars == <<chan, join, group>>
taskVars == <<pc, cases, how, times>>
vars == <<objectVars, lock, taskVars, fired, won, effects, cancelled>>

\* What `fired` and the result are when they are no index of a case.
NONE == 0
IDLE == -1       \* no case is ready, and the select does not wait
CANCELLED == -2

Waiters == SUBSET (Tasks \X Nat)

TypeOK ==
  /\ chan \in [Channels -> [count : Nat, closed : BOOLEAN,
                            receiving : Waiters, sending : Waiters]]
  /\ join \in [Joins -> [done : BOOLEAN, taken : BOOLEAN, waiters : Waiters]]
  /\ group \in [Groups -> [running : Nat, finished : Nat, waiters : Waiters]]
  /\ \A g \in Groups : \A w, v \in group[g].waiters : w = v
  /\ lock \in [Objects -> Tasks \cup {Nobody}]
  /\ pc \in [Tasks -> {"idle", "lock", "wait", "relock"}]
  /\ cases \in [Tasks -> Seq(Cases)]
  /\ how \in [Tasks -> Hows]
  /\ fired \in [Tasks -> Int] /\ won \in [Tasks -> Int]
  /\ effects \in [Tasks -> SUBSET Nat]
  /\ times \in [Tasks -> Nat]
  /\ cancelled \in [Tasks -> BOOLEAN]

Init ==
  /\ chan = [c \in Channels |-> [count |-> 0, closed |-> FALSE,
                                 receiving |-> {}, sending |-> {}]]
  /\ join = [j \in Joins |-> [done |-> FALSE, taken |-> FALSE, waiters |-> {}]]
  /\ group = [g \in Groups |-> [running |-> Members, finished |-> 0, waiters |-> {}]]
  /\ lock = [o \in Objects |-> Nobody]
  /\ pc = [t \in Tasks |-> "idle"]
  /\ cases = [t \in Tasks |-> <<>>]
  /\ how = [t \in Tasks |-> "block"]
  /\ fired = [t \in Tasks |-> NONE]
  /\ won = [t \in Tasks |-> NONE]
  /\ effects = [t \in Tasks |-> {}]
  /\ times = [t \in Tasks |-> 0]
  /\ cancelled = [t \in Tasks |-> FALSE]

-----------------------------------------------------------------------------
(* Waits and their claims.                                                 *)

\* Mutant: a wait is claimed again for another case.
UnclaimedAgain(queue) == {w \in queue : pc[w[1]] = "wait"}

\* The waits of a list that can be claimed.
Unclaimed(queue) == {w \in queue : fired[w[1]] = NONE}

\* claim_first(): who is claimed, if anybody can be, and what is left of the list,
\* from which some that were claimed go.
Claims(queue) ==
  IF Unclaimed(queue) = {} THEN {<<<<Nobody, 0>>, {}>>}
  ELSE {c \in Unclaimed(queue) \X SUBSET queue :
          c[1] \notin c[2] /\ Unclaimed(queue) \ {c[1]} \subseteq c[2]}

\* The cases of a task in a list.
Of(queue, t) == {i \in {w[2] : w \in queue} : <<t, i>> \in queue}

\* All the waits of two lists that can be claimed are, each for the first of its
\* cases there.
ClaimAll(queue, after) ==
  fired' = [t \in Tasks |->
    IF fired[t] # NONE THEN fired[t]
    ELSE IF Of(queue, t) # {} THEN Min(Of(queue, t))
    ELSE IF Of(after, t) # {} THEN Min(Of(after, t))
    ELSE NONE]

\* The list without the entries of `t`.
Without(queue, t) == {w \in queue : w[1] # t}

-----------------------------------------------------------------------------
(* The cases.                                                              *)

\* The first try of select_within() has the one case only.
Looked(t) == IF how[t] = "first" THEN SubSeq(cases[t], 1, 1) ELSE cases[t]
Kind(t, i) == cases[t][i][1]
On(t, i) == cases[t][i][2]
Indexes(t, kind, o) == {i \in DOMAIN Looked(t) : cases[t][i] = <<kind, o>>}

Locks(t) == {On(t, i) : i \in {j \in DOMAIN Looked(t) : Kind(t, j) # "sleep"}}
Held(t) == {o \in Locks(t) : lock[o] = t}
Unlocks(t) == lock' = [o \in Objects |-> IF lock[o] = t THEN Nobody ELSE lock[o]]

\* Whether a case is ready, or raises: with its object locked.
Ready(t, i) ==
  LET o == On(t, i) IN
  \/ Kind(t, i) = "receive" /\ (chan[o].count > 0 \/ chan[o].closed
                                \/ Unclaimed(chan[o].sending) # {})
  \/ Kind(t, i) = "send" /\ (chan[o].count < Capacity[o] \/ chan[o].closed
                             \/ Unclaimed(chan[o].receiving) # {})
  \/ Kind(t, i) = "wait" /\ join[o].done
  \/ Kind(t, i) = "next" /\ (group[o].finished > 0 \/ group[o].running = 0)
  \/ Kind(t, i) = "sleep" /\ o = 0

\* The cases looked at before one that is ready, in a random order.  One that
\* is not leaves no waiter in the other list of its channel: all there were
\* claimed.
Tried(t, S) == [c \in Channels |-> [chan[c] EXCEPT
  !.receiving = IF S \cap Indexes(t, "send", c) # {} THEN {} ELSE @,
  !.sending = IF S \cap Indexes(t, "receive", c) # {} THEN {} ELSE @]]

-----------------------------------------------------------------------------
(* A select.                                                               *)

\* A task that stops completes nothing.
Starts(t) ==
  /\ pc[t] = "idle" /\ times[t] < MaxSelects[t]
  /\ times' = [times EXCEPT ![t] = @ + 1]
  /\ \E select \in Selects[t] :
       /\ \A j \in Joins : join[j].taken => <<"wait", j>> \notin ToSet(select[2])
       /\ how' = [how EXCEPT ![t] = select[1]]
       /\ cases' = [cases EXCEPT ![t] = select[2]]
  /\ pc' = [pc EXCEPT ![t] = IF cancelled[t] THEN "idle" ELSE "lock"]
  /\ won' = [won EXCEPT ![t] = IF cancelled[t] THEN CANCELLED ELSE NONE]
  /\ fired' = [fired EXCEPT ![t] = NONE]
  /\ effects' = [effects EXCEPT ![t] = {}]
  /\ UNCHANGED <<objectVars, lock, cancelled>>

\* Mutant: the locks are taken in the order of the cases.
LocksInTurn(t) ==
  /\ pc[t] \in {"lock", "relock"}
  /\ LET wanted == {i \in DOMAIN Looked(t) : On(t, i) \in Locks(t) \ Held(t)} IN
       /\ wanted # {}
       /\ lock[On(t, Min(wanted))] = Nobody
       /\ lock' = [lock EXCEPT ![On(t, Min(wanted))] = t]
  /\ UNCHANGED <<objectVars, taskVars, fired, won, effects, cancelled>>

\* lock_all(): each lock once, in address order.
TakesLock(t) ==
  /\ pc[t] \in {"lock", "relock"}
  /\ Locks(t) # Held(t)
  /\ LET o == Min(Locks(t) \ Held(t)) IN
       /\ lock[o] = Nobody
       /\ lock' = [lock EXCEPT ![o] = t]
  /\ UNCHANGED <<objectVars, taskVars, fired, won, effects, cancelled>>

LooksAt(t) == pc[t] = "lock" /\ Held(t) = Locks(t)
NotReady(t) == {i \in DOMAIN Looked(t) : ~Ready(t, i)}

\* The wait of a peer, if any, is claimed for its case, which is done then;
\* and so is case `i` of `t`, if a value moved.
Moves(t, i, peer, moved) ==
  /\ fired' = [u \in Tasks |-> IF u = peer[1] THEN peer[2] ELSE fired[u]]
  /\ effects' = [u \in Tasks |->
       IF u = peer[1] THEN effects[u] \cup {peer[2]}
       ELSE IF u = t /\ moved THEN {i} ELSE effects[u]]

Returns(t, result) ==
  /\ pc' = [pc EXCEPT ![t] = "idle"]
  /\ won' = [won EXCEPT ![t] = result]
  /\ Unlocks(t)
  /\ UNCHANGED <<cases, how, times, cancelled>>

\* try_receive(): from the buffer, in which a sender that waits moves its
\* own, or from that sender; or nothing comes any more.
Receives(t) ==
  /\ LooksAt(t)
  /\ \E i \in DOMAIN Looked(t) \ NotReady(t), tried \in SUBSET NotReady(t) :
       /\ Kind(t, i) = "receive"
       /\ LET c == On(t, i) IN
          \E claim \in Claims(chan[c].sending) :
            LET sender == claim[1] IN
            /\ chan' = [Tried(t, tried) EXCEPT
                         ![c].count = IF @ > 0 /\ sender[1] = Nobody THEN @ - 1 ELSE @,
                         ![c].sending = claim[2]]
            /\ Moves(t, i, sender, chan[c].count > 0 \/ sender[1] # Nobody)
       /\ Returns(t, i)
  /\ UNCHANGED <<join, group>>

\* try_send(): to a receiver that waits, or into the buffer.
Sends(t) ==
  /\ LooksAt(t)
  /\ \E i \in DOMAIN Looked(t) \ NotReady(t), tried \in SUBSET NotReady(t) :
       /\ Kind(t, i) = "send" /\ ~chan[On(t, i)].closed
       /\ LET c == On(t, i) IN
          \E claim \in Claims(chan[c].receiving) :
            LET receiver == claim[1] IN
            /\ chan' = [Tried(t, tried) EXCEPT
                         ![c].count = IF receiver[1] = Nobody THEN @ + 1 ELSE @,
                         ![c].receiving = claim[2]]
            /\ Moves(t, i, receiver, TRUE)
       /\ Returns(t, i)
  /\ UNCHANGED <<join, group>>

\* A send on a closed channel panics, and the select is over.
SendRaises(t) ==
  /\ LooksAt(t)
  /\ \E i \in DOMAIN Looked(t), tried \in SUBSET NotReady(t) :
       /\ Kind(t, i) = "send" /\ chan[On(t, i)].closed
       /\ chan' = Tried(t, tried)
  /\ Returns(t, CANCELLED)
  /\ UNCHANGED <<join, group, fired, effects>>

\* take() and group_try_next(): the result of the task of a join, or of the
\* next one of a group that finished, if any; the wait leaves them.
Gets(t, i) ==
  LET is(kind, o) == i \in Indexes(t, kind, o)
      next(g) == is("next", g) /\ group[g].finished > 0
  IN
  /\ join' = [j \in Joins |-> [join[j] EXCEPT
       !.waiters = Without(@, t), !.taken = @ \/ is("wait", j)]]
  /\ group' = [g \in Groups |-> [group[g] EXCEPT
       !.waiters = Without(@, t), !.finished = IF next(g) THEN @ - 1 ELSE @]]
  /\ effects' = [effects EXCEPT ![t] =
       IF (\E j \in Joins : is("wait", j)) \/ (\E g \in Groups : next(g))
         THEN @ \cup {i} ELSE @]

Takes(t) ==
  /\ LooksAt(t)
  /\ \E i \in DOMAIN Looked(t) \ NotReady(t), tried \in SUBSET NotReady(t) :
       /\ Kind(t, i) \in {"wait", "next", "sleep"}
       /\ Gets(t, i)
       /\ chan' = Tried(t, tried)
       /\ Returns(t, i)
  /\ UNCHANGED fired

\* Nothing is ready: the select returns, or is the first of select_within(),
\* and the second begins, if the task does not stop.
GivesUp(t) ==
  /\ LooksAt(t)
  /\ NotReady(t) = DOMAIN Looked(t)
  /\ how[t] # "block"
  /\ chan' = Tried(t, NotReady(t))
  /\ IF how[t] = "first" /\ ~cancelled[t]
       THEN /\ how' = [how EXCEPT ![t] = "block"]
            /\ UNCHANGED <<pc, won>>
       ELSE /\ pc' = [pc EXCEPT ![t] = "idle"]
            /\ won' = [won EXCEPT ![t] = IF how[t] = "first" THEN CANCELLED ELSE IDLE]
            /\ UNCHANGED how
  /\ Unlocks(t)
  /\ UNCHANGED <<join, group, cases, times, fired, effects, cancelled>>

\* The entries of a task for its cases of a kind on an object.
Entries(t, kind, o) == {t} \X Indexes(t, kind, o)

\* Nothing is ready: the wait enters everything; a group has room for one.
Enlists(t) ==
  /\ LooksAt(t)
  /\ NotReady(t) = DOMAIN Looked(t)
  /\ how[t] = "block"
  /\ LET tried == Tried(t, NotReady(t)) IN
     chan' = [c \in Channels |-> [tried[c] EXCEPT
       !.receiving = @ \cup Entries(t, "receive", c), !.sending = @ \cup Entries(t, "send", c)]]
  /\ join' = [j \in Joins |-> [join[j] EXCEPT !.waiters = @ \cup Entries(t, "wait", j)]]
  /\ group' = [g \in Groups |-> IF Indexes(t, "next", g) = {} THEN group[g]
       ELSE [group[g] EXCEPT !.waiters = {<<t, Max(Indexes(t, "next", g))>>}]]
  /\ pc' = [pc EXCEPT ![t] = "wait"]
  /\ Unlocks(t)
  /\ UNCHANGED <<cases, how, times, fired, won, effects, cancelled>>

\* The wait is over: back under the locks.
Wakes(t) ==
  /\ pc[t] = "wait" /\ fired[t] # NONE
  /\ pc' = [pc EXCEPT ![t] = "relock"]
  /\ UNCHANGED <<objectVars, lock, cases, how, times, fired, won, effects, cancelled>>

\* Mutant: who was not cancelled leaves no list, as in a plain send.
LeavesCancelled(t) ==
  chan' = [c \in Channels |-> IF fired[t] # CANCELLED THEN chan[c] ELSE
    [chan[c] EXCEPT !.receiving = Without(@, t), !.sending = Without(@, t)]]

\* The wait leaves every channel it is still in, ...
LeavesChannels(t) ==
  chan' = [c \in Channels |-> [chan[c] EXCEPT
    !.receiving = Without(@, t), !.sending = Without(@, t)]]

\* ... and what the case that won left to its task is done; a send that a
\* close ended raises.
Leaves(t) ==
  /\ pc[t] = "relock" /\ Held(t) = Locks(t)
  /\ LeavesChannels(t)
  /\ Gets(t, fired[t])
  /\ Returns(t, IF fired[t] # CANCELLED /\ Kind(t, fired[t]) = "send"
                     /\ fired[t] \notin effects[t]
                  THEN CANCELLED ELSE fired[t])
  /\ UNCHANGED fired

-----------------------------------------------------------------------------
(* What others do.                                                         *)

\* complete(): the task of a join ends.
Completes(j) ==
  /\ lock[j] = Nobody /\ ~join[j].done
  /\ join' = [join EXCEPT ![j].done = TRUE, ![j].waiters = {}]
  /\ ClaimAll(join[j].waiters, {})
  /\ UNCHANGED <<chan, group, lock, taskVars, won, effects, cancelled>>

\* group_completed(): a task of a group ends.
GroupCompleted(g) ==
  /\ lock[g] = Nobody /\ group[g].running > 0
  /\ group' = [group EXCEPT ![g].running = @ - 1, ![g].finished = @ + 1,
                            ![g].waiters = {}]
  /\ ClaimAll(group[g].waiters, {})
  /\ UNCHANGED <<chan, join, lock, taskVars, won, effects, cancelled>>

\* Mutant: a close ends the waits to send only.
CloseSenders(c) ==
  /\ c \in Closing
  /\ lock[c] = Nobody /\ ~chan[c].closed
  /\ chan' = [chan EXCEPT ![c].closed = TRUE, ![c].sending = {}]
  /\ ClaimAll(chan[c].sending, {})
  /\ UNCHANGED <<join, group, lock, taskVars, won, effects, cancelled>>

\* close_waits().
CloseWaits(c) ==
  /\ c \in Closing
  /\ lock[c] = Nobody /\ ~chan[c].closed
  /\ chan' = [chan EXCEPT ![c].closed = TRUE, ![c].receiving = {}, ![c].sending = {}]
  /\ ClaimAll(chan[c].receiving, chan[c].sending)
  /\ UNCHANGED <<join, group, lock, taskVars, won, effects, cancelled>>

\* fire_timers(): a sleep is over, and claims the wait if no case did.
TimerFires(t) ==
  /\ pc[t] = "wait" /\ fired[t] = NONE
  /\ \E i \in DOMAIN cases[t] :
       /\ Kind(t, i) = "sleep"
       /\ fired' = [fired EXCEPT ![t] = i]
  /\ UNCHANGED <<objectVars, lock, taskVars, won, effects, cancelled>>

\* cancel_task(): the task is marked, and its wait claimed, if no case did.
Cancel(t) ==
  /\ t \in Cancels /\ ~cancelled[t]
  /\ cancelled' = [cancelled EXCEPT ![t] = TRUE]
  /\ UNCHANGED <<objectVars, lock, taskVars, fired, won, effects>>

CancelClaims(t) ==
  /\ cancelled[t]
  /\ pc[t] = "wait" /\ fired[t] = NONE
  /\ fired' = [fired EXCEPT ![t] = CANCELLED]
  /\ UNCHANGED <<objectVars, lock, taskVars, won, effects, cancelled>>

-----------------------------------------------------------------------------

\* What a task goes on with once it has the locks, or is woken.
GoesOn(t) ==
  \/ Receives(t) \/ Sends(t) \/ SendRaises(t) \/ Takes(t)
  \/ GivesUp(t) \/ Enlists(t) \/ Wakes(t) \/ Leaves(t)

Next ==
  \/ \E t \in Tasks : Starts(t) \/ TakesLock(t) \/ GoesOn(t)
  \/ \E j \in Joins : Completes(j)
  \/ \E g \in Groups : GroupCompleted(g)
  \/ \E c \in Channels : CloseWaits(c)
  \/ \E t \in Tasks : TimerFires(t) \/ Cancel(t) \/ CancelClaims(t)

Spec == Init /\ [][Next]_vars

-----------------------------------------------------------------------------
(* Properties.                                                             *)

\* One case completes, and the others do nothing: whatever ends first,
\* whoever meets the wait in another list it is still in does not move its
\* value; and a send that won was sent, a result that won was taken.
OneEffect ==
  \A t \in Tasks :
    LET chosen == IF pc[t] = "idle" THEN won[t] ELSE fired[t] IN
      /\ effects[t] \subseteq {chosen}
      /\ pc[t] = "idle" /\ won[t] > 0 /\ Kind(t, won[t]) \in {"send", "wait"}
           => effects[t] = {won[t]}

\* Nobody waits for what is there: while no case of a wait was claimed, none
\* is ready; the buffer, the end of a task or the close came before the wait
\* entered, or found it, and of two that could meet, one met the other.
NoneMissed ==
  \A t \in Tasks :
    pc[t] = "wait" /\ fired[t] = NONE =>
      \A i \in DOMAIN cases[t] :
        LET o == On(t, i)
            others(queue) == Unclaimed(Without(queue, t)) # {}
        IN /\ Kind(t, i) = "receive" =>
                chan[o].count = 0 /\ ~chan[o].closed /\ ~others(chan[o].sending)
           /\ Kind(t, i) = "send" =>
                chan[o].count >= Capacity[o] /\ ~chan[o].closed /\ ~others(chan[o].receiving)
           /\ Kind(t, i) = "wait" => ~join[o].done
           /\ Kind(t, i) = "next" => group[o].finished = 0 /\ group[o].running > 0

\* The lists hold pointers into the frames of the selects: to those only
\* that still have theirs.
NoDangling ==
  LET live(queue) == \A w \in queue : pc[w[1]] \in {"wait", "relock"} IN
  /\ \A c \in Channels : live(chan[c].receiving) /\ live(chan[c].sending)
  /\ \A j \in Joins : live(join[j].waiters)
  /\ \A g \in Groups : live(group[g].waiters)

\* No stand-off over locks: among tasks that spin for their locks, at first or
\* to leave, there is one that has them all or wants one that none of the
\* others holds, whatever the order of the cases is.
NoStandOff ==
  \A S \in SUBSET {t \in Tasks : pc[t] \in {"lock", "relock"}} :
    S # {} => \E t \in S :
                \/ Held(t) = Locks(t)
                \/ \E o \in Locks(t) \ Held(t) : lock[o] \notin S
=============================================================================
