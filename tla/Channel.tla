------------------------------ MODULE Channel ------------------------------
(***************************************************************************)
(* A channel: its buffer, the tasks that wait to send and to receive, its  *)
(* closing, and the counts of its handles.                                 *)
(*                                                                         *)
(* crates/tondo-runtime/src/tasks.rs, from `Waiter` to                     *)
(* `tondo_rt_receiver_release`.  What an operation does with the channel   *)
(* locked is one step; what it does before and after, the counts of        *)
(* handles and the notifications, are steps of their own.  How a task that *)
(* waits is claimed and notified is TaskWait's; here a wait ends once it   *)
(* is claimed and its task was notified.                                   *)
(***************************************************************************)
EXTENDS Naturals, FiniteSets, Sequences, SequencesExt, Sublist

CONSTANTS
  Senders,    \* the tasks that hold a `Sender` at first, one each
  Receivers,  \* the tasks that hold the `Receiver` at first, one hold each
  Capacities, \* how many values the buffer may take; 0 for a rendezvous
  MayDiscard, \* whether it may be, or not be, `discardWhenAbandoned`
  MaxSends,   \* how many values are sent (bound)
  MaxCopies,  \* how many times a `Sender` is copied (bound)
  Cancels     \* the tasks that may be cancelled

Tasks == Senders \cup Receivers
Values == Senders \X (1 .. MaxSends)

ASSUME ChannelAssumption ==
  /\ IsFiniteSet(Tasks)
  /\ Senders \cap Receivers = {} /\ Senders # {}
  /\ Capacities \subseteq Nat /\ MaxSends \in Nat /\ MaxCopies \in Nat
  /\ MayDiscard \subseteq BOOLEAN
  /\ Cancels \subseteq Tasks

VARIABLES
  capacity, discard,                     \* how the channel was made,
  buffer, receiving, sending, closed,    \* the ChannelObject,
  senders, rc, freed,                    \* its counts, and whether it is gone
  fired, value, told,                    \* each task's Waiter: how its wait was
                                         \* claimed, the value at `value`, and
                                         \* whether it was notified
  pc, tell,                              \* each task's operation
  holds, copies,                         \* handles each task holds
  cancelled, made,
  last, gone                             \* the value received last, and how often
                                         \* each was released

NoValue == <<>>

madeVars == <<capacity, discard>>
channelVars == <<buffer, receiving, sending, closed>>
countVars == <<senders, rc, freed, holds, copies>>
waiterVars == <<fired, value, told>>
taskVars == <<pc, tell>>
historyVars == <<made, last, gone>>
vars == <<madeVars, channelVars, countVars, waiterVars, taskVars, cancelled, historyVars>>

Pcs == {"idle", "send", "tryOffer", "receive", "waiting", "unlist", "tell", "tellUnhold",
        "copying", "unhold", "hush"}

TypeOK ==
  /\ capacity \in Capacities /\ discard \in MayDiscard
  /\ buffer \in Seq(Values) /\ Len(buffer) <= capacity
  /\ receiving \in Seq(Receivers) /\ sending \in Seq(Senders)
  /\ closed \in BOOLEAN /\ freed \in BOOLEAN
  /\ senders \in Nat /\ rc \in Nat
  /\ fired \in [Tasks -> {"NONE", "MOVED", "CLOSED", "DISCARDED", "CANCELLED"}]
  /\ value \in [Tasks -> Values \cup {NoValue}]
  /\ pc \in [Tasks -> Pcs]
  /\ told \in [Tasks -> BOOLEAN]
  /\ tell \in [Tasks -> SUBSET Tasks]
  /\ holds \in [Tasks -> Nat] /\ copies \in 0 .. MaxCopies
  /\ cancelled \in [Tasks -> BOOLEAN]
  /\ made \in [Senders -> 0 .. MaxSends]
  /\ last \in Values \cup {NoValue}
  /\ gone \in [Values -> Nat]

Init ==
  /\ capacity \in Capacities /\ discard \in MayDiscard
  /\ buffer = <<>> /\ receiving = <<>> /\ sending = <<>>
  /\ closed = FALSE /\ freed = FALSE
  /\ senders = Cardinality(Senders)
  /\ rc = Cardinality(Tasks)
  /\ fired = [t \in Tasks |-> "NONE"]
  /\ value = [t \in Tasks |-> NoValue]
  /\ pc = [t \in Tasks |-> "idle"]
  /\ told = [t \in Tasks |-> FALSE]
  /\ tell = [t \in Tasks |-> {}]
  /\ holds = [t \in Tasks |-> 1]
  /\ copies = 0
  /\ cancelled = [t \in Tasks |-> FALSE]
  /\ made = [t \in Senders |-> 0]
  /\ last = NoValue
  /\ gone = [v \in Values |-> 0]

-----------------------------------------------------------------------------
(* Operators of the code.                                                  *)

Goes(t, from, to) == pc[t] = from /\ pc' = [pc EXCEPT ![t] = to]

\* Whether a channel that discards drops what is sent now.
Discarding == discard /\ rc <= senders

\* A waiter whose wait can still be claimed.
Waits(t) == fired[t] = "NONE"

\* Mutant: the first waiter, claimed already or not.
FirstListed(queue) == IF queue = <<>> THEN 0 ELSE 1

\* claim_first(): the place of the first waiter whose wait can be claimed, 0
\* for none; whoever is before it leaves the list, and so does everybody
\* when there is none.
ClaimFirst(queue) == SelectInSeq(queue, Waits)

AfterFirst(queue) ==
  IF ClaimFirst(queue) = 0 THEN <<>> ELSE SubSeq(queue, ClaimFirst(queue) + 1, Len(queue))

\* The waits of `woken` are claimed and get `how` they ended; the operation
\* of `t` notifies them once it let the lock go, and is then over, or goes on
\* to let a hold go.
Claims(t, woken, how) ==
  /\ fired' = [u \in Tasks |-> IF u \in woken THEN how ELSE fired[u]]
  /\ tell' = [tell EXCEPT ![t] = woken]
Ends(t, woken) == pc' = [pc EXCEPT ![t] = IF woken = {} THEN "idle" ELSE "tell"]

\* drop_unsent(), and what a receiver does with a value: it is released.
Releases(v) == gone' = [gone EXCEPT ![v] = @ + 1]

\* The operation of a task is over, and its value is no longer its.
Done(t) == Goes(t, pc[t], "idle") /\ value' = [value EXCEPT ![t] = NoValue]

\* The Waiter of a task that stops to wait is gone from its stack.
Forgets(t) ==
  /\ fired' = [fired EXCEPT ![t] = "NONE"]
  /\ told' = [told EXCEPT ![t] = FALSE]

\* Whose the value at a task's `value` is once its wait ended: a sender's
\* stays its own unless it was moved, and a receiver's is its own if it was.
Owns(t) == (t \in Senders) # (fired[t] = "MOVED")

-----------------------------------------------------------------------------
(* Sending.                                                                *)

\* The values there were to send up to now.
Made == {v \in Values : v[2] <= made[v[1]]}

\* tondo_rt_channel_send() and _offer(): a task that stops sends nothing.
SendStarts(t) ==
  /\ pc[t] = "idle" /\ holds[t] > 0
  /\ Cardinality(Made) < MaxSends
  /\ LET v == <<t, made[t] + 1>> IN
       /\ made' = [made EXCEPT ![t] = @ + 1]
       /\ \/ /\ ~cancelled[t]
             /\ Goes(t, "idle", "send") \/ Goes(t, "idle", "tryOffer")
             /\ value' = [value EXCEPT ![t] = v]
             /\ UNCHANGED gone
          \/ cancelled[t] /\ Releases(v) /\ UNCHANGED <<pc, value>>
  /\ UNCHANGED <<channelVars, countVars, fired, told, tell, cancelled, last>>

Sends(t) == pc[t] \in {"send", "tryOffer"}

\* With the channel locked: closed, or nobody will take the value.
SendFails(t) ==
  /\ Sends(t)
  /\ closed \/ Discarding
  /\ Done(t)
  /\ Releases(value[t])
  /\ UNCHANGED <<channelVars, countVars, fired, told, tell, cancelled, made, last>>

Sending(t) == Sends(t) /\ ~closed /\ ~Discarding

\* try_send(): a receiver that waits is handed the value, ...
SendHands(t) ==
  /\ Sending(t)
  /\ ClaimFirst(receiving) # 0
  /\ LET r == receiving[ClaimFirst(receiving)] IN
       /\ Claims(t, {r}, "MOVED") /\ Ends(t, {r})
       /\ value' = [value EXCEPT ![r] = value[t], ![t] = NoValue]
       /\ last' = value[t]
  /\ receiving' = AfterFirst(receiving)
  /\ UNCHANGED <<buffer, sending, closed, countVars, told, cancelled, made, gone>>

\* Mutant: the buffer takes one value too many.
SendBuffersMore(t) ==
  /\ Sending(t)
  /\ ClaimFirst(receiving) = 0
  /\ Len(buffer) <= capacity
  /\ buffer' = Append(buffer, value[t])
  /\ receiving' = <<>>
  /\ Done(t)
  /\ UNCHANGED <<sending, closed, countVars, fired, told, tell, cancelled,
                 historyVars>>

\* ... or the buffer has room, ...
SendBuffers(t) ==
  /\ Sending(t)
  /\ ClaimFirst(receiving) = 0
  /\ Len(buffer) < capacity
  /\ buffer' = Append(buffer, value[t])
  /\ receiving' = <<>>
  /\ Done(t)
  /\ UNCHANGED <<sending, closed, countVars, fired, told, tell, cancelled,
                 historyVars>>

\* ... or the task waits for room, or does not when it only offers.
SendWaits(t) ==
  /\ Sending(t)
  /\ ClaimFirst(receiving) = 0
  /\ Len(buffer) >= capacity
  /\ receiving' = <<>>
  /\ IF pc[t] = "tryOffer"
       THEN /\ Done(t)
            /\ Releases(value[t])
            /\ UNCHANGED sending
       ELSE /\ Goes(t, "send", "waiting")
            /\ sending' = Append(sending, t)
            /\ UNCHANGED <<value, gone>>
  /\ UNCHANGED <<buffer, closed, countVars, fired, told, tell, cancelled, made, last>>

-----------------------------------------------------------------------------
(* Receiving.                                                              *)

\* tondo_rt_channel_receive(): a task that stops receives nothing.
ReceiveStarts(t) ==
  /\ pc[t] = "idle" /\ holds[t] > 0
  /\ ~cancelled[t]
  /\ Goes(t, "idle", "receive")
  /\ UNCHANGED <<channelVars, countVars, waiterVars, tell, cancelled, historyVars>>

\* Mutant: the room a value leaves is given to no sender.
ReceiveTakesOnly(t) ==
  /\ pc[t] = "receive"
  /\ buffer # <<>>
  /\ last' = Head(buffer)
  /\ Releases(Head(buffer))
  /\ buffer' = Tail(buffer)
  /\ Claims(t, {}, "MOVED") /\ Ends(t, {})
  /\ UNCHANGED <<receiving, sending, closed, countVars, value, told, cancelled, made>>

\* try_receive(): the first value of the buffer; a sender that waits for
\* room moves its own in.
ReceiveTakes(t) ==
  /\ pc[t] = "receive"
  /\ buffer # <<>>
  /\ last' = Head(buffer)
  /\ Releases(Head(buffer))
  /\ IF ClaimFirst(sending) = 0
       THEN /\ buffer' = Tail(buffer)
            /\ Claims(t, {}, "MOVED") /\ Ends(t, {})
       ELSE LET s == sending[ClaimFirst(sending)] IN
            /\ buffer' = Append(Tail(buffer), value[s])
            /\ Claims(t, {s}, "MOVED") /\ Ends(t, {s})
  /\ sending' = AfterFirst(sending)
  /\ UNCHANGED <<receiving, closed, countVars, value, told, cancelled, made>>

\* A rendezvous: the value of a sender that waits.
ReceiveMeets(t) ==
  /\ pc[t] = "receive"
  /\ buffer = <<>>
  /\ ClaimFirst(sending) # 0
  /\ LET s == sending[ClaimFirst(sending)] IN
       /\ last' = value[s]
       /\ Releases(value[s])
       /\ Claims(t, {s}, "MOVED") /\ Ends(t, {s})
  /\ sending' = AfterFirst(sending)
  /\ UNCHANGED <<buffer, receiving, closed, countVars, value, told, cancelled, made>>

\* Nothing comes any more; or the task waits.
ReceiveWaits(t) ==
  /\ pc[t] = "receive"
  /\ buffer = <<>>
  /\ ClaimFirst(sending) = 0
  /\ sending' = <<>>
  /\ IF closed
       THEN Goes(t, "receive", "idle") /\ UNCHANGED receiving
       ELSE /\ Goes(t, "receive", "waiting")
            /\ receiving' = Append(receiving, t)
  /\ UNCHANGED <<buffer, closed, countVars, waiterVars, tell, cancelled, historyVars>>

-----------------------------------------------------------------------------
(* Waiting.                                                                *)

\* The operation notifies who it claimed.
Tell(t) ==
  /\ pc[t] \in {"tell", "tellUnhold"}
  /\ \E u \in tell[t] :
       /\ told' = [told EXCEPT ![u] = TRUE]
       /\ tell' = [tell EXCEPT ![t] = @ \ {u}]
       /\ pc' = [pc EXCEPT ![t] = IF tell[t] # {u} THEN @
                                 ELSE IF @ = "tellUnhold" THEN "unhold" ELSE "idle"]
  /\ UNCHANGED <<channelVars, countVars, fired, value, cancelled, historyVars>>

Cancel(t) ==
  /\ t \in Cancels
  /\ cancelled' = [cancelled EXCEPT ![t] = TRUE]
  /\ UNCHANGED <<channelVars, countVars, waiterVars, taskVars, historyVars>>

\* cancel_task(), or the task itself once it sees that it is halted, claims
\* the wait, if no operation did.
CancelClaims(t) ==
  /\ cancelled[t]
  /\ pc[t] = "waiting"
  /\ fired[t] = "NONE"
  /\ fired' = [fired EXCEPT ![t] = "CANCELLED"]
  /\ told' = [told EXCEPT ![t] = TRUE]
  /\ UNCHANGED <<channelVars, countVars, value, taskVars, cancelled, historyVars>>

\* The wait is over: what it came to.
Returns(t) ==
  /\ pc[t] = "waiting"
  /\ fired[t] # "NONE" /\ told[t]
  /\ IF fired[t] = "CANCELLED"
       THEN Goes(t, "waiting", "unlist") /\ UNCHANGED <<fired, value, told, gone>>
       ELSE /\ Done(t)
            /\ Forgets(t)
            /\ IF Owns(t) THEN Releases(value[t]) ELSE UNCHANGED gone
  /\ UNCHANGED <<channelVars, countVars, tell, cancelled, made, last>>

\* Mutant: a cancelled task does not leave the list.
UnlistNot(t) ==
  /\ pc[t] = "unlist"
  /\ Done(t)
  /\ Forgets(t)
  /\ IF t \in Senders THEN Releases(value[t]) ELSE UNCHANGED gone
  /\ UNCHANGED <<channelVars, countVars, tell, cancelled, made, last>>

\* A cancelled task leaves the list, in which it is once, with the channel
\* locked, and what it did not send is released.
Unlist(t) ==
  /\ pc[t] = "unlist"
  /\ sending' = RemoveFirst(sending, t)
  /\ receiving' = RemoveFirst(receiving, t)
  /\ Done(t)
  /\ Forgets(t)
  /\ IF t \in Senders THEN Releases(value[t]) ELSE UNCHANGED gone
  /\ UNCHANGED <<buffer, closed, countVars, tell, cancelled, made, last>>

-----------------------------------------------------------------------------
(* Closing, and the handles.                                               *)

\* Mutant: only receivers hear of a close.
ClosesReceivers == {t \in ToSet(receiving) : Waits(t)}

\* The waits a close ends, of both lists.
Closes == {t \in ToSet(receiving) \cup ToSet(sending) : Waits(t)}

\* close_waits().
CloseWaits(t) ==
  /\ closed' = TRUE
  /\ Claims(t, Closes, "CLOSED")
  /\ receiving' = <<>> /\ sending' = <<>>

\* tondo_rt_channel_close().
Close(t) ==
  /\ t \in Senders
  /\ pc[t] = "idle" /\ holds[t] > 0
  /\ ~closed
  /\ CloseWaits(t)
  /\ Ends(t, Closes)
  /\ UNCHANGED <<buffer, countVars, value, told, cancelled, historyVars>>

\* tondo_rt_sender_new(), for `copy()`: with the channel locked, ...
CopyCounts(t) ==
  /\ t \in Senders
  /\ holds[t] > 0
  /\ copies < MaxCopies
  /\ Goes(t, "idle", "copying")
  /\ senders' = senders + 1
  /\ copies' = copies + 1
  /\ UNCHANGED <<channelVars, rc, freed, holds, waiterVars, tell, cancelled, historyVars>>

\* Mutant: the copy has no hold of the channel.
CopyHoldsNot(t) ==
  /\ Goes(t, "copying", "idle")
  /\ holds' = [holds EXCEPT ![t] = @ + 1]
  /\ UNCHANGED <<channelVars, senders, rc, freed, copies, waiterVars, tell, cancelled,
                 historyVars>>

\* ... and then without.
CopyHolds(t) ==
  /\ Goes(t, "copying", "idle")
  /\ rc' = rc + 1
  /\ holds' = [holds EXCEPT ![t] = @ + 1]
  /\ UNCHANGED <<channelVars, senders, freed, copies, waiterVars, tell, cancelled,
                 historyVars>>

\* tondo_rt_sender_release(): the last sender closes the channel; then its
\* hold goes, as a receiver's.
SenderRelease(t) ==
  /\ t \in Senders
  /\ pc[t] = "idle" /\ holds[t] > 0
  /\ holds' = [holds EXCEPT ![t] = @ - 1]
  /\ senders' = senders - 1
  /\ IF senders = 1 /\ ~closed
       THEN /\ CloseWaits(t)
            /\ Goes(t, "idle", IF Closes = {} THEN "unhold" ELSE "tellUnhold")
       ELSE /\ Goes(t, "idle", "unhold")
            /\ UNCHANGED <<receiving, sending, closed, fired, tell>>
  /\ UNCHANGED <<buffer, rc, freed, copies, value, told, cancelled, historyVars>>

\* tondo_rt_receiver_release(), the count: the last one frees the channel
\* and what is buffered; another one goes on to look at the channel.
Unholds(t) ==
  /\ rc' = rc - 1
  /\ IF rc = 1
       THEN /\ freed' = TRUE
            /\ buffer' = <<>>
            /\ gone' = [v \in Values |-> gone[v] + (IF v \in ToSet(buffer) THEN 1 ELSE 0)]
            /\ pc' = [pc EXCEPT ![t] = "idle"]
       ELSE /\ pc' = [pc EXCEPT ![t] = "hush"]
            /\ UNCHANGED <<freed, buffer, gone>>
  /\ UNCHANGED <<receiving, sending, closed, senders, copies, waiterVars, tell,
                 cancelled, made, last>>

Unhold(t) == pc[t] = "unhold" /\ Unholds(t) /\ UNCHANGED holds

ReceiverRelease(t) ==
  /\ t \in Receivers
  /\ pc[t] = "idle" /\ holds[t] > 0
  /\ holds' = [holds EXCEPT ![t] = @ - 1]
  /\ Unholds(t)

\* Mutant: senders that wait are not looked for when the last receiver goes.
HushNot(t) ==
  /\ Goes(t, "hush", "idle")
  /\ UNCHANGED <<channelVars, countVars, waiterVars, tell, cancelled, historyVars>>

\* The waits a last receiver ends.
Discards == {s \in ToSet(sending) : Waits(s)}

\* Its second part: the senders of a channel that discards stop to wait.
\* (On a channel freed meanwhile this is undefined behaviour; the model does
\* nothing then.)
Hush(t) ==
  /\ pc[t] = "hush"
  /\ IF ~freed /\ Discarding
       THEN /\ Claims(t, Discards, "DISCARDED") /\ Ends(t, Discards)
            /\ sending' = <<>>
       ELSE Claims(t, {}, "DISCARDED") /\ Ends(t, {}) /\ UNCHANGED sending
  /\ UNCHANGED <<buffer, receiving, closed, countVars, value, told, cancelled, historyVars>>

-----------------------------------------------------------------------------
\* An operation goes on, and a wait ends that may end.
Step(t) ==
  /\ UNCHANGED madeVars
  /\ \/ SendFails(t) \/ SendHands(t) \/ SendBuffers(t) \/ SendWaits(t)
     \/ ReceiveTakes(t) \/ ReceiveMeets(t) \/ ReceiveWaits(t)
     \/ Tell(t) \/ CancelClaims(t) \/ Returns(t) \/ Unlist(t)
     \/ CopyHolds(t) \/ Unhold(t) \/ Hush(t)

\* The program starts an operation, or lets a handle go.
Starts(t) ==
  /\ UNCHANGED madeVars
  /\ \/ t \in Senders /\ SendStarts(t)
     \/ t \in Receivers /\ ReceiveStarts(t)
     \/ Close(t) \/ CopyCounts(t) \/ SenderRelease(t) \/ ReceiverRelease(t) \/ Cancel(t)

Next == \E t \in Tasks : Step(t) \/ Starts(t)

Spec == Init /\ [][Next]_vars

\* Operations that started go on; nobody need start one.
FairSpec == Spec /\ \A t \in Tasks : WF_vars(Step(t))

-----------------------------------------------------------------------------
(* Properties.                                                             *)

\* The values sent and not received: the buffer, then those of the senders
\* that wait.  The channel is a line of them, whatever is claimed, cancelled,
\* closed or discarded meanwhile.
WaitingToSend == {i \in 1 .. Len(sending) : Waits(sending[i])}
Line == buffer \o Sublist([i \in 1 .. Len(sending) |-> value[sending[i]]], WaitingToSend)

Fifo == INSTANCE Fifo WITH line <- Line, last <- last
InOrder == Fifo!Spec

\* "A receiver only waits while the buffer is empty, and a sender only while
\* it is full" (ChannelObject, tasks.rs:4339), and never one of each: no
\* value that could move is left standing.
WaitsAreNeeded ==
  /\ \A t \in ToSet(receiving) : Waits(t) => buffer = <<>> /\ \A s \in ToSet(sending) : ~Waits(s)
  /\ \A t \in ToSet(sending) : Waits(t) => Len(buffer) = capacity

\* A value is in one place, and is released once.
InHand(v) == {t \in Tasks : value[t] = v /\ Owns(t)}
Buffered(v) == {i \in 1 .. Len(buffer) : buffer[i] = v}
ReleasedOnce ==
  \A v \in Values :
    gone[v] + Cardinality(InHand(v)) + Cardinality(Buffered(v)) =
      IF made[v[1]] >= v[2] THEN 1 ELSE 0

\* Who is in a list is a task that waits there and that an operation may
\* still touch: its Waiter is on its stack.
ListedWaits ==
  \A queue \in {receiving, sending} :
    /\ \A t \in ToSet(queue) : pc[t] \in {"waiting", "unlist"}
    /\ \A i, j \in 1 .. Len(queue) : queue[i] = queue[j] => i = j

\* What nobody can end does not wait: on a closed channel, or one without
\* senders, and on one that discards once the last release is through, every
\* wait is claimed.
NoLostWaiter ==
  /\ closed \/ senders = 0 => \A t \in Tasks : pc[t] = "waiting" => ~Waits(t)
  /\ discard /\ (\A t \in Tasks : pc[t] \notin {"hush", "unhold"} /\ (t \in Receivers => holds[t] = 0))
       => \A t \in Senders : pc[t] = "waiting" => ~Waits(t)

\* The channel lives while a handle does.
HeldIsAlive == (\E t \in Tasks : holds[t] > 0) => ~freed

\* "no `Receiver` is left, only the senders' holds" (discarding, tasks.rs:4331).
DiscardsAbandoned ==
  Discarding /\ ~freed => \A t \in Receivers : holds[t] = 0

\* "the last one frees the channel" (tondo_rt_receiver_release, tasks.rs:4800):
\* nobody looks at it afterwards.
LastOneFrees == freed => \A t \in Tasks : pc[t] # "hush"

\* A task that a close, a cancellation or another operation reached does not
\* stay in its wait.
ReachedReturns ==
  \A t \in Tasks :
    (pc[t] = "waiting" /\ (closed \/ cancelled[t] \/ fired[t] # "NONE")) ~> (pc[t] # "waiting")

=============================================================================
