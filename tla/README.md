# Formal models of the Tondo runtime

TLA+ models of the concurrent core of `crates/tondo-runtime`, the TLC runs that
check them on small instances, and TLAPS proofs of the properties that matter
most for every instance. Paths below are relative to the repository; the line
numbers are those of the commit the models were written from. `PROJECT.json`
gives, for every definition, the lines of source it stands for (`map`), the
runs, the hazards, and for each property a change of the model (`mutants`) that
breaks it, as a bug in those lines would.

## 1. The system

Tondo is a statically typed, compiled language. A program is compiled to machine
code that calls the runtime for whatever may wait, allocate or fail. The parts:

| Part | Where | State | What is hard |
|---|---|---|---|
| Compiler, linker, tools | `crates/tondo/src` | none that outlives a run | semantics, not interleavings |
| Standard library | `crates/tondo/std` | values of the program | ordinary sequential code |
| **Task waits** | `tasks.rs` | `Task` (state, flags, wait), `Wait.fired`, `ATTENTION` | every way a wait ends races every other |
| **Stop of the world** | `tasks.rs` | `STOPPING`, `STOPPER`, a `Runner` per thread | two flags in two threads, time-outs, forks |
| **Channels** | `tasks.rs` | `ChannelObject`, `Waiter`s on tasks' stacks | hand-over, close and cancel of one wait; counts kept apart |
| **Locks of cells** | `sync.rs` | a word of bits, two queues | barging, starvation, hand-over, lost wakes |
| **Scheduler** | `tasks.rs` | run queues, timers, idle workers, calls of C | sleeping workers, detection of deadlock |
| **Joins, groups** | `tasks.rs` | `JoinObject`, `GroupObject`, `DETACHED` | detach against end against the end of `main` |
| **Panics, `recover`** | `panics.rs` | owners, panics delivered | delivery against the end of the `recover` |
| **Select** | `tasks.rs` | one `Wait`, listed in many objects; the locks of all of them | the losers' entries, the order of locks |
| Semaphore, barrier, atomics | `sync.rs` | permits, arrived tasks | cancel against hand-over; overflow |
| Cycle collector | `cycles.rs` | registry of cells, counts | a snapshot of counts that others change |
| Virtual clock | `clock.rs` | active, external, timers | the moment nothing runs |
| Readiness of sockets | `poll.rs` | ticks, wakers | an event during an attempt |
| Servers, clients | `server.rs`, `net.rs`, `http.rs`, `grpc.rs` | phases, open connections | drain against accept |
| Live reload | `live.rs` | the barrier, patches | expiry against patch |
| Replay, recording, debugger, diagnostics | `replay.rs`, `recorder.rs`, `debugger.rs`, ... | logs | formats |
| Codecs, files, processes | `json.rs`, ..., `process.rs` | none, or the system's | pure functions, thin layers |

The parts in bold are modelled. How they meet: a compiled function calls an
operation of a channel, a lock, a join or a timer; the operation enlists a `Wait`
under the object's spin lock and calls `Wait::block_on_task`; whoever ends the wait
(another task's operation, a timer, a cancellation, a child's panic) must win
`Wait::claim` first and then `notify`s the task, which makes it runnable once it has
been switched out. Compiled code looks at `ATTENTION` at every call; it is not zero
when some task was cancelled or when somebody stops the world.

What makes each of the modelled parts correct:

* *Waits*: one party ends a wait; a wake is never lost, never left over for a later
  wait, never given to a task that is gone; a task is run by one worker; a cancelled
  task is told so, in its wait or at its next one, and never takes an operation that
  was undone for one that was done.
* *Stop*: while the world is stopped nobody runs Tondo code; one stopper at a time;
  held threads go on; nothing remains of a stop that ended.
* *Channels*: values come out in the order they went in; each has one owner and is
  released once; nobody waits for what is there, nor for what cannot come any more;
  the object outlives its handles.
* *Locks*: a writer is alone; the word and the holders agree; a lock is never free
  while somebody waits for it; a starving lock is not taken out of turn; an awaited
  change is heard; everybody gets the lock.
* *Scheduler*: a runnable task is in one queue and a running one on one worker,
  whatever is stolen, taken or left by a worker that retires; every runnable task
  runs, though all workers were about to sleep; the program ends with `P0013` when no
  task can run any more, and never otherwise.
* *Joins and groups*: a join is freed once, by the last who has it; the result of a
  task is given or released; nobody waits for a task that is done; the program ends
  with no task left.
* *Select*: one case of a `select` completes and the others do nothing; nobody waits
  for what is ready or closed; no list points at a `select` that returned; no two of
  them wait for each other's locks.
* *Panics*: a panic is told once, by the recover it stops at, by the `Join`, or by the
  end of the program; no alarm outlives its panic; a block that gives `ok` had no
  task of it end with a panic.

## 2. The modules

| Module | Models | Lines of `map` |
|---|---|---|
| `TaskWait.tla` | `park`, `notify_with`, `schedule`, `run`, `Wait`, `within`, `cancel_task`, `alarm`, `wait_again`, `unregister`; `take_alarm`, `calm`, `deliver` of `panics.rs`; the checks `lower.rs` compiles after a wait | `tasks.rs`, `panics.rs`, `contexts.rs`, `lower.rs` |
| `TaskWaitProofs.tla` | theorems about it | |
| `WorldStop.tla` | `enter_tondo`, `leave_tondo`, `safe_point`, `pause_here`, `stop_world`, `resume_world`, `fork_copy` | `tasks.rs`, `codegen.rs` |
| `WorldStopProofs.tla` | theorems about it | |
| `Channel.tla` | `tondo_rt_channel_*`, `tondo_rt_sender_*`, `tondo_rt_receiver_release` | `tasks.rs` |
| `ChannelProofs.tla` | theorems about it | |
| `Fifo.tla` | what a channel promises, abstractly: `Channel` implements it | |
| `Sublist.tla` | what a sequence has at some of its places, for both | |
| `SyncLock.tla` | `tondo_rt_sync_lock`, `_unlock`, `_await` and `reading` | `sync.rs` |
| `SyncLockProofs.tla` | theorems about it | |
| `Workers.tla` | `work_until`, `schedule`, `enqueue`, `steal`, `take_next`, `wake_idle`, `stalled`, `fire_timers`, the retiring of workers, calls of C and `monitor`, the count of host work | `tasks.rs`, `io.rs` |
| `WorkersProofs.tla` | theorems about it | |
| `Joins.tla` | `tondo_rt_spawn`, `complete`, `finish`, `tondo_rt_join_*`, `free_join`, `end_detached`, `tondo_rt_group_*` | `tasks.rs` |
| `JoinsProofs.tla` | theorems about it | |
| `Recover.tla` | `Owner`, `deliver`, `take_alarm`, `calm`, `rethrow`, `tondo_rt_recover_*`, and what a `Join` does with a panic | `panics.rs`, `tasks.rs`, `lower.rs` |
| `RecoverProofs.tla` | theorems about it | |
| `Select.tla` | `select`, `select_within`, `try_case`, and what `try_send`, `try_receive`, `close_waits`, `complete`, `group_completed` and `fire_timers` do to a wait | `tasks.rs` |
| `SelectProofs.tla` | theorems about it | |
| `MC*.tla` | symmetry sets for TLC; `MCSelect` the lists of cases | |

**Grain.** An atomic operation on shared memory is a step. A section under a spin
lock or a mutex is one step, unless another thread may observe its middle through
an atomic (`SyncLock`'s `Mark` and `Enlist`, `Channel`'s counts); then it is as many
steps as can be observed, and the lock is a variable or a program counter.

**TaskWait.** A task's `pc` names its place in the code. `Begin` starts an
operation that may wait; `Deadline` adds the `within`'s timer; `Arm` is `parked`'s
section under `waiting_lock`, which publishes the wait or ends it at once if the
task is halted; `Park` and `SwitchedOut` are the two halves of a park (the task
stores PARKING, the worker it left tries to make that PARKED), `Unnotify` the
early return; a pinned task (with frames of C on its stack) parks on its own thread
(`Unpin`). `Woken`, `Leave`, `Check` and `Asked` are the return of the operation and
what compiled code asks after it. Agents are all other threads: `OpClaims` (any
operation that ends a listed wait), `TimerFires`, `CancelStarts..ClaimsWaiting`,
`AlarmStarts..ClaimsWaiting`, `AgainLooksUp`/`AgainClaims`, and then `Notify` and
`Schedule`. Whether a cancelled task in a `defer` has a grace is `grace`; that the
deadline came is `late`.

**WorldStop.** A thread's `pc` says whether it is in Tondo code, out of it, or
between the two; `stop` is how far an actor's own stop of the world is. `Threads`
may stop the world too (a collection in the allocating thread); `Stoppers` only do
that. The step from `EnterStores` to `EnterChecks` and the one from `StopSets` to
`StopLooks` are the store-then-load pair the protocol rests on; the code's accesses
are `SeqCst`, so the model's interleavings are the code's.

**Channel.** The list fields hold tasks; `fired` is how a waiter's wait was claimed,
`value` what its frame holds. `SendFails/Hands/Buffers/Waits` are the four ends of a
send under the lock, `ReceiveTakes/Meets/Waits` those of a receive. `CloseWaits`
and `Hush` end waits when the channel closes or its last receiver goes. `Tell`
notifies, one task per step. Handles are counted as the code does: `CopyCounts` then
`CopyHolds`, `SenderRelease` then `Unhold` then `Hush`.

**SyncLock.** `Take` is the compare-exchange of `try_take`; `Lose` the decision to
wait; `Mark` sets PARKED with the queue locked, `Enlist` looks at the word again and
enlists; `Unlock` is the release of the word, `Release` what follows if somebody was
parked; `Await`, `Heard` are `updateWhen`. `losses` stands for the time a task has
waited: after `MaxLosses` lost turns it is longer than STARVATION.

**Workers.** A worker's `pc` follows `work_until`: `LookNext`, `LookOwn`, `LookTurn` and
`LookQueue` are the four ways it begins, `Pop` and `Retire` what it does with QUEUE
locked, `Steal` and `StealNone` its look at the other workers' queues without the lock,
`TakeNext` and `GoIdle` the second look with it. A worker keeps the lock (`lock`) from
`GoIdle` through `StopSeeking`, `CheckWaiting`, `Sums` and `Sleep`, which are steps
because the others read SEEKING and the counts, push to their own queues, and end host
work without it. `stalled` is two looks: QUEUE's counts and the states of the pinned tasks
(`EachWaits`), then HOST_WORK and the workers' queues (`NothingElse`). `Spawn`
and `CountOwn` are the push and the count that others read, `Wake`, `WakeOne` and
`Rings` the two looks of `wake_idle` and the notification of READY, which may find
nobody who sleeps yet. A task stops for another (`ParkTask`), for the host
(`ParkHost`, then `HostEnds`, `HostRings`, `HostDone`) or for a time (`ParkTime`,
`TimeComes`); `EnterC` and `LeaveC` are a call of C, `Pin` a wait inside one, for another
task or for the host (`PinKinds`; `Unpin` and `HostUnpins` end it), `Recheck` and
`RecheckEnds` the look for a deadlock it takes now and then, and
`MonitorWakes` and `MonitorStarts` what the monitor does about a long one. A task here
only says where it is: how it parks and is notified is `TaskWait`'s.

**Joins.** `owner` is who holds the handle, `rc` the count of the join, `on` the join a
task is in the middle of using. `Release` drops a reference or begins `free_join`, which
waits (`Frees`) and frees. `Add` and `Added` are the two steps that put a join in a
group, `Complete` the end of a task under its join's lock, `Retain` and `LetGo` what a
detached task does after it. `EndDetached`, `EndCancels` and `EndReleases` are the loop
of `end_detached`. `result` is a history of where each result went.

**Select.** Objects are the addresses of their locks, so the order in which `TakesLock`
takes them is the code's. A task's `pc` is "lock" and "relock" while it takes them, "wait"
in between. What a select does with all of them held, and their release, is one step:
`Receives`, `Sends`, `SendRaises` and `Takes` complete a case, `GivesUp` is the `else` and
the first of the two selects of `select_within`, `Enlists` the registration, `Leaves` what
is done on the way out. `tried` are the cases that the random order had before the one that
was ready: they drop claimed waits from their lists. A list is the set of the waits in it:
which of those that can be claimed is (`Claims`), and which claimed ones go with it, is left
open, so what holds here holds for any order of the queues. `fired` is what the wait was claimed
for, `won` what the select returned, `effects` the cases that moved a value or a result
(a `Waiter` in state MOVED, and what `take` and `group_try_next` did). A plain send or
receive is a select of one case here; what a claimer does up to the notification is
`TaskWait`'s, and the wait ends any time after the claim.

**Recover.** One task with its nested recovers, and the tasks it starts. `level` is the
block that holds a `Join`, which is released before the block's recover ends; `paused` is
the panic whose cleanups run. `Unwinds`, `TakeAlarm` and `Collect` are the question
compiled code asks after a call (`tondo_rt_unwinding`), with its two looks at the alarm;
`End`, `Leave` and `Catch` are the ways a recover ends; `Deliver` is a child's panic,
under the owner's lock. `raised` and `settled` are history.

## 3. The runs

All pass. "Bounds" says what is small and why that is
enough: the protocols are between a few parties (one that waits, those that end its
wait, one that comes in between), and two consecutive waits or stops are what it
takes for something of the first to disturb the second.

| Run | Question | Bounds |
|---|---|---|
| `MCTaskWait_safety` | Are waits ended once, are wakes neither lost nor left, is a task in one place, does a stop reach its wait, does nobody stop a freed task? | 1 task (tasks share only `ATTENTION`), 2 agents at a time, 2 waits, every kind, `within` in the body and in a defer. 3.0 M states. |
| `MCTaskWait_live` | Do ended waits return and cancelled ones end, is what was undone noticed, is every reason counted? | The same without alarms, `within` in the body. 0.5 M states. |
| `MCWorldStop_stops` | Is the world still while stopped; do stops come, end, and let everybody go on? | 2 threads, 1 other stopper, 3 stops; any of them may time out. Deadlock is checked. 0.27 M states. |
| `MCChannel_safety` | Who owns which value; who is listed; does anyone wait in vain; is the object alive? | 2 senders, 2 receivers, capacity 0 and 1, discarding or not, 3 sends, 1 copy, 1 cancellable sender. 1.7 M states. |
| `MCChannel_live` | Does the channel implement `Fifo`; does who was reached return? | 2 senders, 1 receiver, both kinds cancellable, 3 sends. 0.25 M states. |
| `MCSyncLock_safety` | Exclusion, the word, parking, hand-over, turns, changes. | 4 tasks (a holder, a starving one, a newcomer, one that awaits or is cancelled), all modes. 2.6 M states. |
| `MCSyncLock_live` | Does everyone get the lock, and hear of the change? | 3 tasks that read, change, await. 58 k states. |
| `MCWorkers_safety` | Is no task lost or run twice, does SEEKING stand for somebody, is a reported deadlock one? | 3 workers, one of them started by the monitor; 3 tasks, that wait for another and, out of C, for the host; 1 wait, 1 call of C. 1.5 M states. |
| `MCWorkers_live` | Does what is runnable run, and is a deadlock found? | 2 workers, 3 tasks, waits for another, for a time and, in C, for the host, 1 call of C. 64 k states. |
| `MCJoins_safety` | Who holds a join, who hears, where is the result, what is left at the end? | 4 tasks, two of which start others, one with groups; two fail. 0.7 M states. |
| `MCSelect_safety` | Does one case complete, is what is ready seen, who is left in a list, can two selects hold each other's locks? | 3 tasks (two selects each, one of them one), seven lists of cases over a channel with room for one, a rendezvous that may close, a join and a group of one task; one is cancelled. 0.8 M states. |
| `MCRecover_safety` | Where is each panic, is an alarm left, is `ok` clean? | 2 children, recovers nested 2 deep, 3 in all. 0.7 M states. |

Each module defines its types (`TypeOK`), which section 4 proves, as it does some properties
no run lists: `ClaimerFindsTask` and `WakePending` of `TaskWait`, `StopStands` of `WorldStop`,
`ChangesAreHeard` and `WaitingIsParked` of `SyncLock`. All of them hold when they are added to
a configuration above, and so does one that follows from what the configurations list:
`CancelEndsWait` of `TaskWait` (in `MCTaskWait_live`).

Deadlock is not checked where the program may simply stop: a bound on waits or
sends is used up, or every task waits for a value that nobody sends.

**Fairness.** Weak fairness of what a thread does without the program's choice: a
worker runs what is runnable, a call goes on, an agent that began an operation ends
it, compiled code comes to its next call (its checks are at every call and loop).
Nothing obliges the program to start an operation, to cancel, to send, nor a deadline
to pass. `SyncLock` adds two: strong fairness of the steps that take the queue's spin
lock (the code spins on it, the sections are short and do not wait, so a thread that
tries again and again gets it), and weak fairness of `Unlock` (the language holds these locks for the
length of a closure, which this assumes to end). `Workers` has strong fairness of what a
worker does (`Works`: QUEUE's mutex comes to whoever keeps trying) and of stealing a
task or taking another's next, since what is too young to be taken (NEXT_WAIT) grows
old, and of the monitor, which tries again every turn; weak fairness of the host and of
time, and of `Stops`: compiled
code that does not wait ends or calls some day. Nothing makes a function of C return
nor a task start or wake another. `Joins` has weak fairness of what the runtime goes on
with (`Goes`, `Ends`), which includes that code out of a wait reaches the end of its
block.

**Properties beyond the types**, by hazard: `PROJECT.json` lists each hazard at its
line with the properties that would catch it.

## 4. What is proved

TLAPS proves, for every value of the constants that the `ASSUME`s admit:

* `TaskWaitProofs`: `TypesHold`, `ClaimersFindTheirTask`, `WakesAreNotLost`,
  `WakesAreNotLeft`, `TasksAreInOnePlace`, `StoppedTasksLive`, `HaltsReachWaits`,
  `AttentionShortOfAlarmsOnly`; without alarms, `AttentionCounts`; without alarms and
  `within` in a `defer`, `UndoneIsNoticed`.
* `WorldStopProofs`: `TypesHold`, `WorldStands`, `StopsStand`, and, under `~Torn`,
  `StopsAreCounted`.
* `ChannelProofs`: `TypesHold`, `MovesWhatCan`, `ListsHoldWaits`, `NobodyIsLost`,
  `HandlesKeepAlive`, `ValuesAreReleasedOnce`, and the refinement of `Fifo`,
  `ValuesStandInLine`.
* `SyncLockProofs`: `TypesHold`, `HoldsExclude`, `BitsCount`, `ChangesCome`,
  `StarvingInTurn`, `FreeReachesWaiters`, `WaitersAreSeen`.
* `WorkersProofs`: `TypesHold`, `TasksAreQueuedOnce`; without a host that wakes tasks
  pinned in C, `DeadlocksAreReal`; with at most one call of C, `OneCallSeeks`, and with any, as
  long as the monitor overwrites no order, `SeekingIsForSomebody`.
* `JoinsProofs`: `TypesHold`, `UsesAreLive`, `EndsAreHeard`, `NoTaskIsLeft`; as long as no
  task that may have groups is cancelled, `ResultsAreKept`, hence `MainKeepsResults`.
* `RecoverProofs`: `TypesHold`, `AlarmsHavePanics`, `OkBlocksAreClean`, `PanicsOnce`.
* `SelectProofs`: `TypesHold`, `OneCaseCompletes`, `NothingIsMissed`, `NobodyDangles`,
  `NobodyStandsOff`.

Every invariant the runs check is stated by one of them, for all values of the constants or
under the hypothesis named here, and so is every property of steps.

Where a theorem has a hypothesis, section 5 has what the code does without it.

*Waits.* None of the five invariants is inductive alone: that a claimed wait has a
notifier (`WakePending`) depends on the notifier being the only one, which depends
on a task not beginning its next wait while one is about. The invariant relates, for
each task, its `pc`, its `state`, whether its newest wait is claimed, and the sets of
agents that claimed, that notified, and that are to schedule it: together they are at
most one agent, there is one exactly while the wait is claimed and the notification
not yet in `state`, and there is none when the task runs its code. Waits that no
longer are the newest are claimed for good, which is why a late timer does nothing.
`StoppedTasksLive` has an invariant of its own: an agent that stops a task holds the
registry's or the `recover`'s lock from before the task may be freed.
`HaltsReachWaits` is inductive with those: `Arm` and an agent that stops the task both
work under `waiting_lock`, and whichever is second sees the other. What `ATTENTION` counts
is a set of reasons, each a pair of a flag and a task; `CountInv` adds to them the agents
that have counted and are yet to set the flag (`Counting`: a cancel counts first) or to
take the count back, and allows a shortage of those that set a flag and are yet to count
(`Ringing`), which only an alarm does. `UndoneIsNoticed` is then that whatever left
CANCELLED in a wait left a reason in its task too (`UndoneInv`), which the count makes
visible to the check after it. Its hypotheses are the two cases in which that fails
(`HaltNoticed` and `GraceKept` of section 5).

*The stop.* Mutual exclusion of the two-flag kind: a thread that is in Tondo code,
or has looked at `STOPPING` and not yet at the result, has `running` set; a stopper
that has looked at a thread knows that it is not in Tondo code and cannot come in
while `STOPPING` is set. The part that is easy to miss is a thread that registers
after the stopper copied the list: it too must read `STOPPING` after it says it runs.
`StopsStand` says that no other stop clears the flags of one that goes on: it rests on
at most one actor being past the swap of `STOPPER`;
`StopsAreCounted` adds that a fork, which resets the counter by what it finds in
`STOPPING`, never sees the two disagree, which is the assumption `~Torn`.

*Channels.* The two counts of a channel are cardinalities of sets of holds: `senders` of
the senders' holds and of the copies already counted, `rc` of all of them and of the
releases not yet done. So `discard` and no receiver's hold means that whoever sends
discards, and a hold keeps the channel. A waiter that nobody claimed is in the list of its
kind, once; a list has claimed ones too, which is why each operation looks for the first
that can be claimed, and drops those before it. With that, `MovesWhatCan` is about the
order in a send or receive: first the other list, then the buffer, then its own list.
`NobodyIsLost` follows from the lists: they are empty when the channel is closed, and the
last release of a receiver empties the senders'. The model takes a wait out of a list by
its first place (`RemoveFirst`), where the code does with `retain`: a wait is in a list
once, which is part of `ListsHoldWaits`. That a program makes a channel with a sender
(`Senders # {}`) is an assumption.
`ValuesAreReleasedOnce` is inductive as a statement of every pair of a sender and a number,
sent or not (`Placed`): at most one task has it in hand, not while it is in the buffer, and
it is released exactly if it was sent and is nowhere. `TypesHold` needs it: that a channel
holds values that were sent, and no more than `MaxSends`, are facts about where values are.

*`Channel` implements `Fifo`.* The abstract line is the buffer followed by the values of the
senders that wait, in the order of their list (`Line`); `last` is the same in both. A send
that is buffered or listed is `Fifo`'s `Send`, one that meets a receiver its `Hand`, a
receive from the buffer or from a sender its `Receive`; the claim of a sender's wait by a
cancellation or a close, and a release that empties the buffer, are its `Withdraw`; all else
leaves the line as it is. The proof is in three layers. The lemmas at the head of
`ChannelProofs` say what `Sublist` returns: a set of places is enumerated in order in one
way only, so a sublist is determined by any increasing function onto its places (`NthIs`),
from which follow the sublists of a sequence with an element more, without its first ones
or without one, and that leaving out twice is leaving out (`Withdrawn`). The next say what
a step does to the part of the line that waits (`Rest`), and the last put it behind the
buffer (`LineStep`), with `MovesWhatCan`: a sender waits only behind a full buffer, so
what is appended to the buffer is the last of the line, and a receive that takes the first
of the buffer lets the first sender's value in behind it. Sublists are functions on
places, not recursive filters, for what a recursive operator returns cannot be proved
here.

*Locks.* `BitsCount` needs what a hold is in the middle of its way: a lock handed over is
counted before its task runs, and one given back by a cancelled task until it has
released it. The readers are counted as a finite set of pairs of a task and one of its
holds, since a task may read twice. `HoldsExclude` is that count and the compare-exchange
from a word that has no writer. `ChangesCome` rests on a release that saw PARKED being
under way from the change to the wake. `StarvingInTurn` is a property of steps: newcomers
fail on a starving word, a release hands over to a prefix of the queue.
`FreeReachesWaiters` is the absence of lost wakes. It needs that whoever is queued, or starves,
has PARKED set, and that a task between `Mark` and `Enlist` holds the queue with PARKED set
(`ParkInv`): so a release that clears the word either sees PARKED, and goes on to the
queue, or there is nobody there. A woken task that loses again, or is cancelled, passes
the wake on or goes back with the word not free. `WaitersAreSeen` is the part of it the comment
on PARKED promises. Both need that the owner of no lock is no task (`Nobody \notin Tasks`).

*Workers.* What `stalled` adds up it reads one after another, with QUEUE held, while
others change some of it. What makes the sum right: a ready task is in a queue that is
counted, and a running one on a worker that is neither idle nor pinned; the idle workers
and the pinned ones are apart, so that when they add up to the count of workers every
worker is one of them (`CountsAll`); whoever could change that between the two looks
needs QUEUE (`LockInv`, `SumStands`). Only the host does not, when it wakes a task pinned
in C, and then the sum is wrong (section 5): `DeadlocksAreReal` assumes that PinKinds has
no "host".
`TasksAreQueuedOnce` is two statements: no two places of the queues and next slots have the
same task (`QueueOnce`), and only a ready task has one, only one that runs has a worker, one
worker, and only one that waits for a time a timer (`StateOnce`). That they have
one at all is part of what makes the sum of `stalled` right. Half of a queue is stolen, or all
of one handed over, in a step that takes the tasks from one place and gives them to another:
a queue that holds none twice, cut in two, has none in both parts. For SEEKING, a worker in C is nobody that
looks (`SeekInv`); the one step that can take the last one away is the monitor's overwriting
of an order. With one call of C there is no second replacement (`OneCall`).

*Joins.* The count of a join is the references there are (`CountInv`): one of its handle,
which is with its owner, in a group, or with the task that frees the join; one of its own
task while it is detached; one of the loop at the end of `main`. Whoever frees a join has
the last of them (`HandleInv`), so nobody else does; a task in the middle of a call with a
join has one of its own (`OnInv`). The handle of a detached join is on its way out
(`DetachInv`), which is why a join in a group is never freed by its task.
What a group knows is counted too: `running` is the number of its members whose end it has not
heard, a member added in two steps included (`RunningInv`), and a member that ended is among
the finished, was taken, or is being added (`FinishedInv`). Hence nobody waits for what was
(`HearInv`): a task that ends wakes who waits for it, and who starts to wait looks first,
under the same lock. Of a result, what is lost is lost by the one step that takes it before it
asks whether its task is cancelled (`ResultInv`), so if no task with a group is. That
no task is left is an argument about all of them at once: each that runs is detached and on
the list, or held, by its handle or a group, by one that has not ended (`HolderInv`); holding
goes from earlier tasks to later ones (`RankInv`: some numbering grows along it), so it
does not go round; and when `main` finds the list empty, holding nothing itself, the task of lowest rank
that still ran would be held by nobody. `main` needs no holder and is nobody's task (`RootInv`).

*Recover.* The recovers that take panics (`open`) are those the task runs, in the order it
entered them, but the one that catches. A panic a child ended with is, if its recover still
runs, at that recover, or the task already unwinds (`HeardInv`): so a recover that finds
nothing in itself, in code that does not unwind, had no task end with a panic. Each panic
is in one of seven places; `deliver`, `rethrow` and the ends move it.

*Select.* `OneEffect` and `NoneMissed` are not inductive alone. What they need is that a list
has waits only, each for a case of its task on that object and of that kind (`EntryInv`, of
which `NoDangling` is a part); that what a wait was claimed for is a case of it (`CaseInv`);
that before the claim nothing is done and after it nothing but that case (`EffectInv`); and
that a wait nobody claimed is still in the list of every case of it (`WaitInv`). The last is
why emptying the other list of a channel is harmless: a case that is not ready found nobody
there who can be claimed (`TriedKeeps`), and a wait that can be claimed would be in it.
Most steps only thin the lists (`Thins`), claim waits for cases of theirs (`Claiming`), and
make no case of an unclaimed wait ready (`Unready`); a step that does all three keeps the
invariant (`ThinStep`), whoever takes it. Two that could meet do not both wait, since the
second to enter looked first, with the lock of their channel: the one step that puts waits
in lists is `EnlistStep`. The groups need that they stay with one task (`GroupsAssumption`):
a group has room for one waiter, and a second would take the place of the first, which would
then miss the end.
`NoStandOff` is about the locks alone: they are held by those who spin, the lowest of what each
wants first (`LockInv`), so of the locks that are wanted and held by one another the highest
is held by somebody who wants a higher one. That there is a highest needs that some number
is above all locks held (`BoundInv`), for nothing says that tasks or objects are finitely many.

*Only model-checked*: the liveness properties, since fairness and ENABLED are out of the
prover's reach.

## 5. Where the code disagrees with what it says

The configurations below are kept beside the runs, and each is violated as written: TLC
shows how the code comes to do what it says it does not.

| Configuration: property | What is said | What happens |
|---|---|---|
| `MCTaskWait_alarm`: `HaltNoticed` | "Attention first" (`tasks.rs:3602`) | `alarm` (3626) sets its flag first, and a task stopped in between goes on after an operation that was not done. |
| `MCTaskWait_grace`: `GraceKept` | "its waits go on until its deadline" (`tasks.rs:3254`) | a cancel's last step (3612) ends a wait that has a grace: a slow cancel, or a second one. |
| `MCTaskWait_again`: `LookedUpAlive` | "while they are, no task is freed" (`tasks.rs:2555`) | `wait_again` (3115-3136) lets the registry go before it uses the task it found. What a use of a freed task does is not modelled (nothing happens). |
| `MCTaskWait_attention`: `AttentionGoes` | zero "nearly always" (`tasks.rs:1055`) | a cancel between the end of a task's code and its leaving the registry adds a reason that nobody takes back (1743-1751), and every check takes the slow path for good. |
| `MCWorldStop_fork`: `AttentionCounted`, with `Torn` | the child's counter is put right (`tasks.rs:1205`) | a fork between the stores of another thread's stop to `STOPPING` and to `ATTENTION` leaves the child's counter one too high or too low (1205-1217). |
| `MCChannel_copy`: `DiscardsAbandoned` | "no `Receiver` is left, only the senders' holds" (`tasks.rs:4331`) | a copy counts `senders` under the lock and `rc` after it (4451-4457): meanwhile the channel discards although a receiver is there. |
| `MCChannel_free`: `LastOneFrees` | "the last one frees the channel" (`tasks.rs:4800`) | `tondo_rt_receiver_release` reads `c.discard` after it gave its hold back (4808-4813). As above, a step on a freed channel does nothing in the model. |
| `MCSyncLock_again`: `NeverWaitsForItself` | "Taking it again ... in a way that would wait forever, panics with `P0014`" (`sync.rs:192`) | a task that reads may read again (215), and when a starving writer is queued it waits behind it, for itself. |
| `MCSyncLock_order`: `QueueInOrder` | tasks that lost their turn go back to the front (`sync.rs:270`) | two of them go back in the order they ran, not the one they came in, and once the lock starves it is handed over in that order. |
| `MCWorkers_retire`: `DeadlockFound` | "When every worker is idle and nothing can run, the program panics with `P0013`" (`docs/decisions.md:351`) | a worker that comes back from C makes one too many; if the last one that looks retires (`tasks.rs:1483-1501`), the count of workers falls after everybody looked at `stalled`, and the program hangs. |
| `MCWorkers_host`: `DeadlockFound` | the same | an operation of the host notifies its task before it takes itself off `HOST_WORK` (`io.rs:59`). A task that ends or waits at once lets the last worker sleep in between, and nobody looks again. |
| `MCWorkers_pinned`: `DeadlockIsReal` | "The task is runnable before the work ends, so no worker can see a moment with neither and report a deadlock" (`io.rs:48`) | a task in a function that C called waits for the host on its thread. `stalled` reads that it is pinned (`tasks.rs:1242`, counted at 1247) before it reads `HOST_WORK` (1248); in between the host notifies the task, which takes no lock of QUEUE (922-927), and ends its work: P0013 ends a program whose task runs. |
| `MCWorkers_seek`: `SeekingStands` | SEEKING is for one that looks (`tasks.rs:698`) | the monitor overwrites `queue.waking` (2414): when it replaces two workers, the second replacement takes the first one's order away, and SEEKING stays set until somebody happens to look. |
| `MCRecover_lost`: `PanicKept` | "Another panic ... is reported as suppressed" (`panics.rs:683`) | `rethrow` (505) drops a panic when the task already unwinds. |
| `MCRecover_false`: `NoFalseResult` | "waits for the task and moves its result into `out`" (`tasks.rs:3955`) | a task is started in a `recover`, its `Join` kept outside; the recover takes the panic, and a later `tondo_rt_join_wait` (3961) finds a task that is done, with no panic, and moves a result that was never written. |
| `MCJoins_cancel`: `CancelEnds` | a cancelled task stops at once if it waits, "y sus propios `Join` y grupos pendientes se cancelan también" (`spec/TONDO_LANGUAGE_SPEC.md:4003-4007`) | `free_join` asks once whether its task is cancelled, before it waits (`tasks.rs:4066`), and then cannot be cancelled. A detached task at the end of its block waits for its own task, which waits for what never comes; `main` returns, `end_detached` cancels the first and waits (3893-3896), nothing cancels the second, and the program hangs. With `Spawners = {m}` the property holds. |
| `MCJoins_group`: `ResultKept` | a result is given or released | `group.next()` of a cancelled task (`tasks.rs:4216`) takes a result from its join and drops it. |

## 6. What is abstracted

* *Memory order.* Steps interleave; relaxed orders are not modelled. The flags the
  protocols rest on are `SeqCst`, or acquire and release inside locks.
* *Waits.* `ATTENTION` has one more kind of reason, a task that unwinds, and waits have
  more listers (`offer_new`, which is not modelled, and `Select`'s).
  `within`, `recover` and `defer` nest one level deep. `tondo_rt_unwinding`'s raise of
  the deadline and `within_catch` are part of `Asked`. A sleep in the `defer` of a
  cancelled task starts a wait that `Arm` ends at once, where the code returns before:
  the same outcome. Whether a park finds frames of C is a free choice.
* *Stop.* The collector's `assist`, which a safe point also runs, is left out. A stop
  may time out whenever it looks; a fork comes anywhere except between the two stores
  (and there too with `Torn`).
* *Channel.* Values are pairs of a sender and a number: the type's size, its `visit`
  and `release` functions are left out. `MaxSends` bounds all sends together.
* *SyncLock.* `wake_lockers` is part of the release's section. Lock-order and race
  diagnostics are left out. Time is `MaxLosses`.
* *Workers.* Whether a task has waited NEXT_WAIT, whether a tick sends a worker to the
  queue first, and whether the rationed wake of `schedule` is due are free choices. The
  `try_lock` of `steal` always succeeds, and the monitor's `wake_idle` is one step. Left out: the
  worker that polls the network, the flush of the output before sleep, the threads of C
  that call back, replay and the exploration of orders, the tools' `step_aside`, and
  what happens after `main` returned.
* *Joins.* A wait is claimed once, by an end or a cancellation. `wait(timeout:)` is a
  select and `spawn detached` a spawn and a detach. The groups of the run are `main`'s:
  in a cancelled task `group.next()` loses its result (section 5).
* *Select.* Buffers are counts and lists are sets; what is in a buffer, who of a list comes
  first, and abandoned channels are `Channel`'s. A group belongs to one task, as the language
  has it (`GroupsAssumption`); a join may have more waiters here than the one its handle
  allows. The select of a wait with a limit has two cases, the operation and a sleep.
  A sleep may end whenever its select waits. The timers losing sleeps leave in the heap are
  left out: they find the wait claimed (`fire_timers`), and are purged once they are many
  (`timers_ended`), though spec 11.14 says that a sleep that lost is not left armed, and until they
  are due `stalled` finds no deadlock (1250).
* *Recover.* One task and its children; a child's own recovers are not modelled. Unwinding
  through frames is one step. Deadlines that unwind, panics and recovers inside
  cleanups are left out. An `Owner` is made when its recover is entered, which the code
  does at the first spawn: nobody else has it before.

Not modelled at all, with reasons: the parts of section 1 that are not in bold; see
also `components` and the `note`s of `hazards` in `PROJECT.json`.

## 7. Plan

Done: (1) `TaskWait` with proofs, (2) `WorldStop` with proofs, (3) `Channel` over
`Fifo`, (4) `SyncLock`, (5) `Workers`, (6) `Joins`, (7) `Recover`, (8) `Select`.

Next modules, by weight:

9. `SyncObjects`: semaphore, barrier, and the atomics with a width.
10. `Cycles`: counts, the snapshot in the stop, what is freed after it, over
    `WorldStop`'s `Stopped`. Garbage only, against reachability as the reference.
11. `VirtualClock`, `Poll`, `ServerDrain`, `LiveReload`: small ones.

Next theorems: those of the modules above as they come. Of what is modelled, the safety
properties are proved; what remains is liveness, which is TLC's.

## 8. Running

In this directory, with TLC and TLAPS 1.4.5:

    tlc -workers 2 -config MCTaskWait_safety.cfg MCTaskWait.tla
    tlapm TaskWaitProofs.tla
