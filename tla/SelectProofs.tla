---------------------------- MODULE SelectProofs ----------------------------
(***************************************************************************)
(* Theorems about Select, for any tasks, objects, lists of cases and       *)
(* bounds: one case has an effect, what is ready is seen, nobody is left   *)
(* in a list, and the locks never stand off.                               *)
(***************************************************************************)
EXTENDS Select, WellFoundedInduction, TLAPS

-----------------------------------------------------------------------------
(* The invariant. *)

Waiting == {"wait", "relock"}
Spinning == {"lock", "relock"}

\* The cases of a task are those of one of its selects, and what its wait was
\* claimed for is one of them.
Fits(t) ==
  /\ cases[t] = <<>> \/ \E select \in Selects[t] : cases[t] = select[2]
  /\ how[t] = "first" => Len(cases[t]) = 2
  /\ pc[t] \in Waiting => /\ how[t] = "block"
                          /\ fired[t] \in DOMAIN cases[t] \cup {NONE, CANCELLED}
  /\ pc[t] = "lock" => fired[t] = NONE
  /\ pc[t] = "relock" => fired[t] # NONE

CaseInv == \A t \in Tasks : Fits(t)

\* The cases that wait in a list, and that list.
Listed == Cases \ ({"sleep"} \X {0, 1})
Queue(case) ==
  IF case[1] = "receive" THEN chan[case[2]].receiving
  ELSE IF case[1] = "send" THEN chan[case[2]].sending
  ELSE IF case[1] = "wait" THEN join[case[2]].waiters
  ELSE group[case[2]].waiters

\* What is in a list is a wait that is not over, for a case of its task.
EntryInv ==
  \A case \in Listed : \A w \in Queue(case) :
    /\ w[1] \in Tasks /\ pc[w[1]] \in Waiting
    /\ w[2] \in DOMAIN cases[w[1]] /\ cases[w[1]][w[2]] = case

\* Nothing is done before a claim, and nothing but the case it was for after it.
Does(t) ==
  /\ pc[t] = "lock" => effects[t] = {}
  /\ pc[t] \in Waiting => effects[t] \subseteq {fired[t]} \ {NONE}

EffectInv == \A t \in Tasks : Does(t)

\* A wait that was not claimed is in the list of every case of it.
WaitInv ==
  \A t \in Tasks : pc[t] = "wait" /\ fired[t] = NONE =>
    \A i \in DOMAIN cases[t] :
      cases[t][i] \in Listed => \E w \in Queue(cases[t][i]) : w[1] = t

\* Locks are held by those who want them, the lowest first.
Orderly(t) ==
  \A o \in Objects : lock[o] = t =>
    /\ pc[t] \in Spinning /\ o \in Locks(t)
    /\ \A p \in Locks(t) \ Held(t) : o < p

LockInv == \A t \in Tasks : Orderly(t)

\* Of the locks that are held, none is above some number.
BoundInv == \E n \in Nat : \A o \in Objects : lock[o] # Nobody => o <= n

-----------------------------------------------------------------------------
(* What the operators return. *)

LEMMA Least ==
  ASSUME NEW S, S \subseteq Nat, S # {}
  PROVE  Min(S) \in S /\ \A x \in S : Min(S) <= x
<1>1. PICK m \in S : \A x \in S : <<x, m>> \notin OpToRel(<, Nat)
  BY NatLessThanWellFounded, WFMin
<1>2. ASSUME NEW x \in S PROVE m <= x
  <2>1. x \in Nat /\ m \in Nat OBVIOUS
  <2>2. ~(x < m) BY <1>1, <2>1 DEF OpToRel
  <2> QED BY <2>1, <2>2
<1> QED BY <1>1, <1>2 DEF Min

LEMMA Most ==
  ASSUME NEW n \in Nat, NEW S, S \subseteq Nat, S # {}, \A x \in S : x <= n
  PROVE  \E m \in S : \A x \in S : x <= m
<1> DEFINE Below == {n - x : x \in S}
<1>1. Below \subseteq Nat /\ Below # {}
  <2>1. \A x \in S : x \in Nat /\ n - x \in Nat OBVIOUS
  <2> QED BY <2>1
<1>2. PICK m \in Below : \A y \in Below : m <= y
  <2> HIDE DEF Below
  <2> QED BY <1>1, Least
<1>3. PICK x \in S : m = n - x BY <1>2
<1>4. ASSUME NEW y \in S PROVE y <= x
  <2>1. n - x <= n - y BY <1>2, <1>3
  <2>2. x \in Nat /\ y \in Nat OBVIOUS
  <2> QED BY <2>1, <2>2
<1> QED BY <1>4

\* A case is of one of five kinds, each with its objects.
LEMMA KindIs ==
  ASSUME NEW case \in Cases
  PROVE  /\ case = <<case[1], case[2]>>
         /\ \/ case[1] \in {"receive", "send"} /\ case[2] \in Channels
            \/ case[1] = "wait" /\ case[2] \in Joins
            \/ case[1] = "next" /\ case[2] \in Groups
            \/ case[1] = "sleep" /\ case[2] \in {0, 1}
BY DEF Cases

LEMMA ListedIs ==
  ASSUME NEW case \in Cases
  PROVE  /\ case \in Listed <=> case[1] # "sleep"
         /\ case \in Listed => case[2] \in Objects
BY KindIs DEF Listed, Cases, Objects

\* The lists, one kind of object at a time.
LEMMA QueueIs ==
  /\ \A c \in Channels : /\ <<"receive", c>> \in Listed /\ <<"send", c>> \in Listed
                         /\ Queue(<<"receive", c>>) = chan[c].receiving
                         /\ Queue(<<"send", c>>) = chan[c].sending
  /\ \A j \in Joins : <<"wait", j>> \in Listed /\ Queue(<<"wait", j>>) = join[j].waiters
  /\ \A g \in Groups : <<"next", g>> \in Listed /\ Queue(<<"next", g>>) = group[g].waiters
<1>1. /\ "receive" # "send" /\ "wait" # "receive" /\ "wait" # "send"
      /\ "next" # "receive" /\ "next" # "send" /\ "next" # "wait"
      /\ "sleep" \notin {"receive", "send", "wait", "next"}
  OBVIOUS
<1> QED BY <1>1 DEF Queue, Listed, Cases

\* The case of a task, by its index.
LEMMA CaseIs ==
  ASSUME TypeOK, NEW t \in Tasks, NEW i \in DOMAIN cases[t]
  PROVE  /\ i \in Nat /\ i > 0
         /\ cases[t][i] \in Cases /\ cases[t][i] = <<Kind(t, i), On(t, i)>>
<1>1. cases[t] \in Seq(Cases) BY DEF TypeOK
<1>2. DOMAIN cases[t] = 1 .. Len(cases[t]) /\ Len(cases[t]) \in Nat BY <1>1
<1>3. cases[t][i] \in Cases BY <1>1, <1>2
<1> QED BY <1>2, <1>3, KindIs DEF Kind, On

LEMMA LooksIs ==
  ASSUME TypeOK, CaseInv, NEW t \in Tasks
  PROVE  /\ DOMAIN Looked(t) \subseteq DOMAIN cases[t]
         /\ how[t] # "first" => Looked(t) = cases[t]
         /\ \A kind, o : Indexes(t, kind, o) \subseteq DOMAIN Looked(t)
<1>1. cases[t] \in Seq(Cases) BY DEF TypeOK
<1>2. CASE how[t] = "first"
  <2>1. Len(cases[t]) = 2 /\ DOMAIN cases[t] = 1 .. 2 BY <1>1, <1>2 DEF CaseInv, Fits
  <2>2. DOMAIN SubSeq(cases[t], 1, 1) = 1 .. 1 BY <1>1, <2>1
  <2>3. Looked(t) = SubSeq(cases[t], 1, 1) BY <1>2 DEF Looked
  <2> QED BY <1>2, <2>1, <2>2, <2>3 DEF Indexes
<1>3. CASE how[t] # "first" BY <1>3 DEF Looked, Indexes
<1> QED BY <1>2, <1>3

LEMMA LocksAre ==
  ASSUME TypeOK, CaseInv, NEW t \in Tasks
  PROVE  Locks(t) \subseteq Objects /\ Held(t) \subseteq Locks(t)
<1>1. ASSUME NEW i \in DOMAIN Looked(t), Kind(t, i) # "sleep" PROVE On(t, i) \in Objects
  <2>1. i \in DOMAIN cases[t] BY LooksIs
  <2> QED BY <1>1, <2>1, CaseIs, KindIs DEF Kind, On, Objects
<1> QED BY <1>1 DEF Locks, Held

ChanRec == [count : Nat, closed : BOOLEAN, receiving : Waiters, sending : Waiters]

\* What the cases that were looked at leave.
LEMMA TriedIs ==
  ASSUME TypeOK, NEW t \in Tasks, NEW S
  PROVE  /\ Tried(t, S) \in [Channels -> ChanRec]
         /\ \A c \in Channels :
              /\ Tried(t, S)[c].count = chan[c].count /\ Tried(t, S)[c].closed = chan[c].closed
              /\ Tried(t, S)[c].receiving =
                   IF S \cap Indexes(t, "send", c) # {} THEN {} ELSE chan[c].receiving
              /\ Tried(t, S)[c].sending =
                   IF S \cap Indexes(t, "receive", c) # {} THEN {} ELSE chan[c].sending
<1>1. chan \in [Channels -> ChanRec] BY DEF TypeOK, ChanRec
<1>2. {} \in Waiters BY DEF Waiters
<1> QED BY <1>1, <1>2 DEF Tried, ChanRec

\* The lists are of tasks and indexes.
LEMMA QueueType ==
  ASSUME TypeOK, NEW case \in Listed
  PROVE  Queue(case) \in Waiters
<1>1. case \in Cases BY DEF Listed
<1>2. case[1] # "sleep" BY <1>1, ListedIs
<1> QED BY <1>1, <1>2, KindIs DEF TypeOK, Queue

LEMMA NextQueueIs ==
  /\ \A c \in Channels : /\ Queue(<<"receive", c>>)' = chan'[c].receiving
                         /\ Queue(<<"send", c>>)' = chan'[c].sending
  /\ \A j \in Joins : Queue(<<"wait", j>>)' = join'[j].waiters
  /\ \A g \in Groups : Queue(<<"next", g>>)' = group'[g].waiters
<1>1. /\ "receive" # "send" /\ "wait" # "receive" /\ "wait" # "send"
      /\ "next" # "receive" /\ "next" # "send" /\ "next" # "wait"
  OBVIOUS
<1> QED BY <1>1 DEF Queue

\* Who can be claimed waits.
LEMMA UnclaimedWaits ==
  ASSUME TypeOK, CaseInv, EntryInv, NEW case \in Listed, NEW w \in Unclaimed(Queue(case))
  PROVE  /\ w[1] \in Tasks /\ pc[w[1]] = "wait" /\ fired[w[1]] = NONE
         /\ w = <<w[1], w[2]>> /\ w[2] \in Nat /\ w[2] > 0
         /\ w[2] \in DOMAIN cases[w[1]] /\ cases[w[1]][w[2]] = case
<1>1. w \in Queue(case) /\ fired[w[1]] = NONE BY DEF Unclaimed
<1>2. /\ w[1] \in Tasks /\ pc[w[1]] \in Waiting
      /\ w[2] \in DOMAIN cases[w[1]] /\ cases[w[1]][w[2]] = case
  BY <1>1 DEF EntryInv
<1>3. pc[w[1]] = "wait" BY <1>1, <1>2 DEF CaseInv, Fits, Waiting
<1>4. w \in Tasks \X Nat BY <1>1, QueueType DEF Waiters
<1>5. w[2] > 0 BY <1>2, CaseIs
<1> QED BY <1>1, <1>2, <1>3, <1>4, <1>5

LEMMA ClaimsIs ==
  ASSUME NEW queue, NEW claim \in Claims(queue)
  PROVE  \/ Unclaimed(queue) = {} /\ claim = <<<<Nobody, 0>>, {}>>
         \/ /\ claim[1] \in Unclaimed(queue) /\ claim[2] \subseteq queue
            /\ Unclaimed(queue) \ {claim[1]} \subseteq claim[2]
BY DEF Claims

-----------------------------------------------------------------------------
(* What a step does to the waits. *)

\* Nobody enters a list, and who leaves one was claimed.
Thins ==
  \A case \in Listed :
    /\ Queue(case)' \subseteq Queue(case)
    /\ \A w \in Queue(case) :
         pc[w[1]] = "wait" /\ fired[w[1]] = NONE /\ fired'[w[1]] = NONE => w \in Queue(case)'

\* Waits are claimed, for a case of theirs.
Claiming ==
  \A u \in Tasks :
    \/ fired'[u] = fired[u]
    \/ pc[u] = "wait" /\ fired[u] = NONE /\ fired'[u] \in DOMAIN cases[u] \cup {CANCELLED}

\* Of the others, only who is claimed has something done, which is that case.
Doing(t) ==
  \A u \in Tasks \ {t} :
    \/ effects'[u] = effects[u]
    \/ fired'[u] # fired[u] /\ effects'[u] = effects[u] \cup {fired'[u]}

\* The select of nobody else changes.
Alone(t) ==
  \A u \in Tasks \ {t} : pc'[u] = pc[u] /\ cases'[u] = cases[u] /\ how'[u] = how[u] /\ won'[u] = won[u]

\* A claim under the lock of a channel, by `t`.
Claimed(t, claim) ==
  /\ \A u \in Tasks : fired'[u] = IF u = claim[1][1] THEN claim[1][2] ELSE fired[u]
  /\ \A u \in Tasks \ {t} :
       effects'[u] = IF u = claim[1][1] THEN effects[u] \cup {claim[1][2]} ELSE effects[u]

Met(t, case, claim) ==
  /\ Claiming /\ Doing(t)
  /\ \A u \in Tasks : fired'[u] \in Int /\ (u # t => effects'[u] \in SUBSET Nat)
  /\ fired'[t] = fired[t] /\ t # claim[1][1]
  /\ claim[2] \subseteq Queue(case)
  /\ \A w \in Queue(case) : fired[w[1]] = NONE /\ fired'[w[1]] = NONE => w \in claim[2]
  /\ claim[1][1] = Nobody <=> Unclaimed(Queue(case)) = {}

LEMMA Meets ==
  ASSUME TypeOK, CaseInv, EntryInv, NEW t \in Tasks, pc[t] = "lock",
         NEW case \in Listed, NEW claim \in Claims(Queue(case)), Claimed(t, claim)
  PROVE  Met(t, case, claim)
<1> USE DEF Claimed
<1>2. fired \in [Tasks -> Int] /\ effects \in [Tasks -> SUBSET Nat] BY DEF TypeOK
<1>3. Nobody \notin Tasks BY SelectAssumption
<1>4. CASE Unclaimed(Queue(case)) = {} /\ claim = <<<<Nobody, 0>>, {}>>
  <2>1. /\ claim[1][1] = Nobody /\ claim[2] = {}
        /\ \A u \in Tasks : fired'[u] = fired[u] /\ (u # t => effects'[u] = effects[u])
    BY <1>3, <1>4
  <2>2. \A u \in Tasks : fired'[u] \in Int /\ (u # t => effects'[u] \in SUBSET Nat) BY <1>2, <2>1
  <2>3. \A w \in Queue(case) : fired[w[1]] # NONE BY <1>4 DEF Unclaimed
  <2> QED BY <2>1, <2>2, <2>3, <1>3, <1>4 DEF Claiming, Doing, Met
<1>5. CASE /\ claim[1] \in Unclaimed(Queue(case)) /\ claim[2] \subseteq Queue(case)
           /\ Unclaimed(Queue(case)) \ {claim[1]} \subseteq claim[2]
  <2> DEFINE p == claim[1][1]
             k == claim[1][2]
  <2>1. /\ p \in Tasks /\ pc[p] = "wait" /\ fired[p] = NONE /\ k \in Nat /\ k > 0
        /\ k \in DOMAIN cases[p]
    BY <1>5, UnclaimedWaits
  <2>2. p # t BY <2>1
  <2>3. /\ fired'[p] = k /\ effects'[p] = effects[p] \cup {k}
        /\ \A u \in Tasks \ {p} : fired'[u] = fired[u]
        /\ \A u \in Tasks \ {p, t} : effects'[u] = effects[u]
    BY <2>1, <2>2
  <2>4. \A u \in Tasks : fired'[u] \in Int /\ (u # t => effects'[u] \in SUBSET Nat)
    BY <1>2, <2>1, <2>3
  <2>5. k # NONE BY <2>1 DEF NONE
  <2>6. ASSUME NEW w \in Queue(case), fired[w[1]] = NONE, fired'[w[1]] = NONE
        PROVE  w \in claim[2]
    <3>1. w \in Unclaimed(Queue(case)) BY <2>6 DEF Unclaimed
    <3>2. w # claim[1] BY <2>3, <2>5, <2>6
    <3> QED BY <3>1, <3>2, <1>5
  <2>7. Claiming BY <2>1, <2>3 DEF Claiming
  <2>8. Doing(t) BY <2>1, <2>2, <2>3, <2>5 DEF Doing
  <2>9. fired'[t] = fired[t] BY <2>2, <2>3
  <2>10. claim[1][1] # Nobody /\ Unclaimed(Queue(case)) # {} BY <2>1, <1>3, <1>5
  <2> QED BY <2>2, <2>3, <2>4, <2>6, <2>7, <2>8, <2>9, <2>10, <1>5 DEF Met
<1> QED BY <1>4, <1>5, ClaimsIs

\* A list is emptied for a case that is not ready only if nobody in it can be claimed.
LEMMA TriedKeeps ==
  ASSUME TypeOK, CaseInv, NEW t \in Tasks, NEW S \in SUBSET NotReady(t), NEW c \in Channels
  PROVE  /\ Tried(t, S)[c].receiving \subseteq chan[c].receiving
         /\ Tried(t, S)[c].sending \subseteq chan[c].sending
         /\ Unclaimed(chan[c].receiving) \subseteq Tried(t, S)[c].receiving
         /\ Unclaimed(chan[c].sending) \subseteq Tried(t, S)[c].sending
<1>1. ASSUME NEW i \in S \cap Indexes(t, "send", c) PROVE Unclaimed(chan[c].receiving) = {}
  <2>1. ~Ready(t, i) /\ cases[t][i] = <<"send", c>> BY DEF NotReady, Indexes
  <2> QED BY <2>1 DEF Ready, Kind, On
<1>2. ASSUME NEW i \in S \cap Indexes(t, "receive", c) PROVE Unclaimed(chan[c].sending) = {}
  <2>1. ~Ready(t, i) /\ cases[t][i] = <<"receive", c>> BY DEF NotReady, Indexes
  <2> QED BY <2>1 DEF Ready, Kind, On
<1>3. Unclaimed(chan[c].receiving) \subseteq chan[c].receiving
      /\ Unclaimed(chan[c].sending) \subseteq chan[c].sending
  BY DEF Unclaimed
<1> QED BY <1>1, <1>2, <1>3, TriedIs

\* A wait that nothing ended.
Pending(u) == pc[u] = "wait" /\ fired[u] = NONE

\* No case of a wait becomes ready without a claim of it.
Unready ==
  \A u \in Tasks : Pending(u) /\ fired'[u] = NONE =>
    \A i \in DOMAIN cases[u] :
      /\ Kind(u, i) = "receive" => chan'[On(u, i)].count = 0 /\ ~chan'[On(u, i)].closed
      /\ Kind(u, i) = "send" => chan'[On(u, i)].count >= Capacity[On(u, i)] /\ ~chan'[On(u, i)].closed
      /\ Kind(u, i) = "wait" => ~join'[On(u, i)].done
      /\ Kind(u, i) = "next" => group'[On(u, i)].finished = 0 /\ group'[On(u, i)].running > 0

Before == TypeOK /\ CaseInv /\ EntryInv /\ WaitInv /\ NoneMissed

LEMMA PendingIs ==
  ASSUME Before, NEW u \in Tasks, Pending(u), NEW i \in DOMAIN cases[u]
  PROVE  /\ cases[u][i] = <<Kind(u, i), On(u, i)>> /\ cases[u][i] \in Cases
         /\ cases[u][i] \in Listed => Unclaimed(Queue(cases[u][i])) # {}
         /\ Kind(u, i) = "receive" => /\ On(u, i) \in Channels
                                      /\ chan[On(u, i)].count = 0 /\ ~chan[On(u, i)].closed
                                      /\ Unclaimed(Without(chan[On(u, i)].sending, u)) = {}
         /\ Kind(u, i) = "send" => /\ On(u, i) \in Channels
                                   /\ chan[On(u, i)].count >= Capacity[On(u, i)]
                                   /\ ~chan[On(u, i)].closed
                                   /\ Unclaimed(Without(chan[On(u, i)].receiving, u)) = {}
         /\ Kind(u, i) = "wait" => On(u, i) \in Joins /\ ~join[On(u, i)].done
         /\ Kind(u, i) = "next" => /\ On(u, i) \in Groups
                                   /\ group[On(u, i)].finished = 0 /\ group[On(u, i)].running > 0
<1>1. cases[u][i] = <<Kind(u, i), On(u, i)>> /\ cases[u][i] \in Cases BY CaseIs DEF Before
<1>2. ASSUME cases[u][i] \in Listed PROVE Unclaimed(Queue(cases[u][i])) # {}
  <2>1. PICK w \in Queue(cases[u][i]) : w[1] = u BY <1>2 DEF Before, WaitInv, Pending
  <2> QED BY <2>1 DEF Unclaimed, Pending
<1>3. /\ Kind(u, i) \in {"receive", "send"} => On(u, i) \in Channels
      /\ Kind(u, i) = "wait" => On(u, i) \in Joins
      /\ Kind(u, i) = "next" => On(u, i) \in Groups
  <2>1. cases[u][i][1] = Kind(u, i) /\ cases[u][i][2] = On(u, i) BY DEF Kind, On
  <2> QED BY <1>1, <2>1, KindIs
<1> QED BY <1>1, <1>2, <1>3 DEF Before, NoneMissed, Pending

\* Who comes and goes makes nothing ready.
LEMMA UnreadyIf ==
  ASSUME Before,
         \A c \in Channels : chan'[c].count = chan[c].count /\ chan'[c].closed = chan[c].closed,
         \A j \in Joins : join'[j].done = join[j].done,
         \A g \in Groups : /\ group[g].finished = 0 => group'[g].finished = 0
                           /\ group'[g].running = group[g].running
  PROVE  Unready
<1> SUFFICES ASSUME NEW u \in Tasks, Pending(u), NEW i \in DOMAIN cases[u],
                    NEW o, o = On(u, i), NEW kind, kind = Kind(u, i)
             PROVE  /\ kind = "receive" => chan'[o].count = 0 /\ ~chan'[o].closed
                    /\ kind = "send" => chan'[o].count >= Capacity[o] /\ ~chan'[o].closed
                    /\ kind = "wait" => ~join'[o].done
                    /\ kind = "next" => group'[o].finished = 0 /\ group'[o].running > 0
  BY DEF Unready
<1>1. /\ kind = "receive" => o \in Channels /\ chan[o].count = 0 /\ ~chan[o].closed
      /\ kind = "send" => o \in Channels /\ chan[o].count >= Capacity[o] /\ ~chan[o].closed
      /\ kind = "wait" => o \in Joins /\ ~join[o].done
      /\ kind = "next" => o \in Groups /\ group[o].finished = 0 /\ group[o].running > 0
  BY PendingIs
<1> QED BY <1>1

\* Once the lists of a channel, the joins and the groups thin, all do.
LEMMA ThinsIf ==
  ASSUME \A c \in Channels :
           /\ chan'[c].receiving \subseteq chan[c].receiving
           /\ chan'[c].sending \subseteq chan[c].sending
           /\ \A w : pc[w[1]] = "wait" /\ fired[w[1]] = NONE /\ fired'[w[1]] = NONE =>
                /\ w \in chan[c].receiving => w \in chan'[c].receiving
                /\ w \in chan[c].sending => w \in chan'[c].sending,
         \A j \in Joins :
           /\ join'[j].waiters \subseteq join[j].waiters
           /\ \A w : pc[w[1]] = "wait" /\ fired[w[1]] = NONE /\ fired'[w[1]] = NONE =>
                (w \in join[j].waiters => w \in join'[j].waiters),
         \A g \in Groups :
           /\ group'[g].waiters \subseteq group[g].waiters
           /\ \A w : pc[w[1]] = "wait" /\ fired[w[1]] = NONE /\ fired'[w[1]] = NONE =>
                (w \in group[g].waiters => w \in group'[g].waiters)
  PROVE  Thins
<1> SUFFICES ASSUME NEW case \in Listed
             PROVE  /\ Queue(case)' \subseteq Queue(case)
                    /\ \A w \in Queue(case) :
                         pc[w[1]] = "wait" /\ fired[w[1]] = NONE /\ fired'[w[1]] = NONE
                           => w \in Queue(case)'
  BY DEF Thins
<1>1. case \in Cases /\ case[1] # "sleep" BY ListedIs DEF Listed
<1>2. case = <<case[1], case[2]>> BY <1>1, KindIs
<1>3. CASE case[1] \in {"receive", "send"} /\ case[2] \in Channels
  <2> DEFINE c == case[2]
  <2>1. CASE case[1] = "receive"
    <3>1. Queue(case) = chan[c].receiving /\ Queue(case)' = chan'[c].receiving
      BY <1>2, <1>3, <2>1, QueueIs, NextQueueIs
    <3> QED BY <3>1, <1>3
  <2>2. CASE case[1] = "send"
    <3>1. Queue(case) = chan[c].sending /\ Queue(case)' = chan'[c].sending
      BY <1>2, <1>3, <2>2, QueueIs, NextQueueIs
    <3> QED BY <3>1, <1>3
  <2> QED BY <1>3, <2>1, <2>2
<1>4. CASE case[1] = "wait" /\ case[2] \in Joins BY <1>2, <1>4, QueueIs, NextQueueIs
<1>5. CASE case[1] = "next" /\ case[2] \in Groups BY <1>2, <1>5, QueueIs, NextQueueIs
<1> QED BY <1>1, <1>3, <1>4, <1>5, KindIs

LEMMA ReturnsDoes ==
  ASSUME TypeOK, NEW t \in Tasks, NEW result \in Int, Returns(t, result)
  PROVE  /\ Alone(t) /\ pc'[t] = "idle" /\ won'[t] = result /\ cases'[t] = cases[t]
         /\ how'[t] = how[t]
         /\ lock' \in [Objects -> Tasks \cup {Nobody}] /\ how' \in [Tasks -> Hows]
         /\ pc' \in [Tasks -> {"idle", "lock", "wait", "relock"}] /\ won' \in [Tasks -> Int]
         /\ cases' \in [Tasks -> Seq(Cases)] /\ times' \in [Tasks -> Nat]
         /\ cancelled' \in [Tasks -> BOOLEAN]
BY DEF TypeOK, Returns, Unlocks, Alone

LEMMA ReceivesDoes ==
  ASSUME Before, NEW t \in Tasks, Receives(t)
  PROVE  /\ TypeOK' /\ Thins /\ Claiming /\ Doing(t) /\ Alone(t) /\ Unready
         /\ pc'[t] = "idle" /\ fired'[t] = fired[t] /\ cases'[t] = cases[t] /\ how'[t] = how[t]
         /\ \E i \in DOMAIN cases[t] :
              /\ won'[t] = i /\ Kind(t, i) = "receive"
              /\ effects'[t] = {i} \/ effects'[t] = effects[t]
<1>1. TypeOK /\ CaseInv /\ EntryInv BY DEF Before
<1>2. pc[t] = "lock" /\ UNCHANGED <<join, group>> BY DEF Receives, LooksAt
<1>3. PICK i \in DOMAIN Looked(t) \ NotReady(t), tried \in SUBSET NotReady(t) :
        /\ Kind(t, i) = "receive"
        /\ \E claim \in Claims(chan[On(t, i)].sending) :
             /\ chan' = [Tried(t, tried) EXCEPT
                  ![On(t, i)].count = IF @ > 0 /\ claim[1][1] = Nobody THEN @ - 1 ELSE @,
                  ![On(t, i)].sending = claim[2]]
             /\ Moves(t, i, claim[1], chan[On(t, i)].count > 0 \/ claim[1][1] # Nobody)
        /\ Returns(t, i)
  BY DEF Receives
<1> DEFINE c == On(t, i)
<1>4. PICK claim \in Claims(chan[c].sending) :
             /\ chan' = [Tried(t, tried) EXCEPT
                  ![c].count = IF @ > 0 /\ claim[1][1] = Nobody THEN @ - 1 ELSE @,
                  ![c].sending = claim[2]]
             /\ Moves(t, i, claim[1], chan[c].count > 0 \/ claim[1][1] # Nobody)
  BY <1>3
<1>5. /\ i \in DOMAIN cases[t] /\ i \in Nat /\ c \in Channels
      /\ <<"send", c>> \in Listed /\ Queue(<<"send", c>>) = chan[c].sending
  <2>1. i \in DOMAIN cases[t] BY <1>1, LooksIs
  <2>2. c \in Channels BY <2>1, <1>1, <1>3, CaseIs, KindIs DEF Kind, On
  <2> QED BY <2>1, <2>2, <1>1, CaseIs, QueueIs
<1> HIDE DEF c
<1>6. /\ Claiming /\ Doing(t)
      /\ fired' \in [Tasks -> Int] /\ effects' \in [Tasks -> SUBSET Nat]
      /\ fired'[t] = fired[t] /\ effects'[t] \in {{i}, effects[t]}
      /\ claim[2] \subseteq chan[c].sending
      /\ \A w \in chan[c].sending : fired[w[1]] = NONE /\ fired'[w[1]] = NONE => w \in claim[2]
      /\ claim[1][1] = Nobody <=> Unclaimed(chan[c].sending) = {}
  <2> DEFINE case == <<"send", c>>
  <2>1. case \in Listed /\ claim \in Claims(Queue(case)) /\ chan[c].sending = Queue(case)
    BY <1>5
  <2>2. /\ fired' = [u \in Tasks |-> IF u = claim[1][1] THEN claim[1][2] ELSE fired[u]]
        /\ effects' = [u \in Tasks |->
             IF u = claim[1][1] THEN effects[u] \cup {claim[1][2]}
             ELSE IF u = t /\ (chan[c].count > 0 \/ claim[1][1] # Nobody) THEN {i} ELSE effects[u]]
    BY <1>4 DEF Moves
  <2>3. /\ Claimed(t, claim)
        /\ t # claim[1][1] => effects'[t] \in {{i}, effects[t]}
    BY <2>2 DEF Claimed
  <2> HIDE DEF case
  <2>4. Met(t, case, claim) BY <2>1, <2>3, <1>1, <1>2, Meets
  <2>5. effects[t] \in SUBSET Nat BY <1>1 DEF TypeOK
  <2>6. fired' \in [Tasks -> Int] /\ effects' \in [Tasks -> SUBSET Nat]
    BY <2>2, <2>3, <2>4, <2>5, <1>5 DEF Met
  <2> QED BY <2>1, <2>3, <2>4, <2>6 DEF Met
<1>7. /\ Tried(t, tried) \in [Channels -> ChanRec]
      /\ chan[c].sending \in Waiters /\ claim[2] \in Waiters
      /\ chan \in [Channels -> ChanRec]
  BY <1>1, <1>5, <1>6, TriedIs DEF TypeOK, Waiters, ChanRec
<1> DEFINE tries == Tried(t, tried)
           left == IF tries[c].count > 0 /\ claim[1][1] = Nobody
                     THEN tries[c].count - 1 ELSE tries[c].count
<1>8. /\ chan' \in [Channels -> ChanRec]
      /\ \A d \in Channels :
           /\ chan'[d].count = IF d = c THEN left ELSE chan[d].count
           /\ chan'[d].closed = chan[d].closed
           /\ chan'[d].receiving = tries[d].receiving
           /\ chan'[d].sending = IF d = c THEN claim[2] ELSE tries[d].sending
  <2>1. /\ \A d \in Channels : tries[d].count = chan[d].count /\ tries[d].closed = chan[d].closed
        /\ tries \in [Channels -> ChanRec]
    BY <1>1, TriedIs
  <2>2. chan' = [tries EXCEPT ![c].count = left, ![c].sending = claim[2]] BY <1>4
  <2>3. tries[c] \in ChanRec /\ left \in Nat BY <1>5, <2>1 DEF ChanRec
  <2> HIDE DEF tries, left
  <2>4. /\ DOMAIN chan' = Channels
        /\ chan'[c] = [tries[c] EXCEPT !.count = left, !.sending = claim[2]]
        /\ \A d \in Channels \ {c} : chan'[d] = tries[d]
    BY <1>5, <2>1, <2>2, <2>3 DEF ChanRec
  <2>5. /\ chan'[c] \in ChanRec /\ chan'[c].count = left /\ chan'[c].closed = tries[c].closed
        /\ chan'[c].receiving = tries[c].receiving /\ chan'[c].sending = claim[2]
    BY <1>7, <2>3, <2>4 DEF ChanRec
  <2>6. chan' = [d \in Channels |-> chan'[d]] BY <2>2, <2>1
  <2>7. \A d \in Channels : chan'[d] \in ChanRec BY <2>1, <2>4, <2>5
  <2>8. chan' \in [Channels -> ChanRec] BY <2>6, <2>7
  <2>9. ASSUME NEW d \in Channels
        PROVE  /\ chan'[d].count = IF d = c THEN left ELSE chan[d].count
               /\ chan'[d].closed = chan[d].closed
               /\ chan'[d].receiving = tries[d].receiving
               /\ chan'[d].sending = IF d = c THEN claim[2] ELSE tries[d].sending
    BY <2>1, <2>4, <2>5
  <2> QED BY <2>8, <2>9
<1>9. left = IF chan[c].count > 0 /\ claim[1][1] = Nobody
               THEN chan[c].count - 1 ELSE chan[c].count
  BY <1>1, <1>5, TriedIs
<1> HIDE DEF left
<1>10. i \in Int BY <1>5
<1>11. TypeOK'
  <2>1. join' = join /\ group' = group BY <1>2
  <2>2. /\ lock' \in [Objects -> Tasks \cup {Nobody}] /\ how' \in [Tasks -> Hows]
        /\ pc' \in [Tasks -> {"idle", "lock", "wait", "relock"}] /\ won' \in [Tasks -> Int]
        /\ cases' \in [Tasks -> Seq(Cases)] /\ times' \in [Tasks -> Nat]
        /\ cancelled' \in [Tasks -> BOOLEAN]
    BY <1>1, <1>3, <1>10, ReturnsDoes
  <2> QED BY <2>1, <2>2, <1>1, <1>6, <1>8 DEF TypeOK, ChanRec
<1>12. Thins
  <2>1. \A d \in Channels :
           /\ Tried(t, tried)[d].receiving \subseteq chan[d].receiving
           /\ Tried(t, tried)[d].sending \subseteq chan[d].sending
           /\ Unclaimed(chan[d].receiving) \subseteq Tried(t, tried)[d].receiving
           /\ Unclaimed(chan[d].sending) \subseteq Tried(t, tried)[d].sending
    BY <1>1, TriedKeeps
  <2>2. ASSUME NEW d \in Channels
        PROVE  /\ chan'[d].receiving \subseteq chan[d].receiving
               /\ chan'[d].sending \subseteq chan[d].sending
               /\ \A w : pc[w[1]] = "wait" /\ fired[w[1]] = NONE /\ fired'[w[1]] = NONE =>
                    /\ w \in chan[d].receiving => w \in chan'[d].receiving
                    /\ w \in chan[d].sending => w \in chan'[d].sending
    BY <2>1, <1>6, <1>8 DEF Unclaimed
  <2> QED BY <2>2, <1>2, ThinsIf
<1>13. Unready
  <2> SUFFICES ASSUME NEW u \in Tasks, Pending(u), fired'[u] = NONE, NEW k \in DOMAIN cases[u]
               PROVE  /\ Kind(u, k) = "receive" =>
                           chan'[On(u, k)].count = 0 /\ ~chan'[On(u, k)].closed
                      /\ Kind(u, k) = "send" =>
                           chan'[On(u, k)].count >= Capacity[On(u, k)] /\ ~chan'[On(u, k)].closed
                      /\ Kind(u, k) = "wait" => ~join'[On(u, k)].done
                      /\ Kind(u, k) = "next" =>
                           group'[On(u, k)].finished = 0 /\ group'[On(u, k)].running > 0
    BY DEF Unready
  <2>1. Kind(u, k) = "send" /\ On(u, k) = c => Unclaimed(chan[c].sending) # {}
    BY <1>5, PendingIs
  <2> QED BY <2>1, <1>2, <1>6, <1>8, <1>9, PendingIs
<1>14. \E k \in DOMAIN cases[t] :
         /\ won'[t] = k /\ Kind(t, k) = "receive"
         /\ effects'[t] = {k} \/ effects'[t] = effects[t]
  BY <1>1, <1>3, <1>5, <1>6, <1>10, ReturnsDoes
<1> QED BY <1>1, <1>3, <1>6, <1>10, <1>11, <1>12, <1>13, <1>14, ReturnsDoes

LEMMA SendsDoes ==
  ASSUME Before, NEW t \in Tasks, Sends(t)
  PROVE  /\ TypeOK' /\ Thins /\ Claiming /\ Doing(t) /\ Alone(t) /\ Unready
         /\ pc'[t] = "idle" /\ fired'[t] = fired[t] /\ cases'[t] = cases[t] /\ how'[t] = how[t]
         /\ \E i \in DOMAIN cases[t] :
              won'[t] = i /\ Kind(t, i) = "send" /\ effects'[t] = {i}
<1>1. TypeOK /\ CaseInv /\ EntryInv BY DEF Before
<1>2. pc[t] = "lock" /\ UNCHANGED <<join, group>> BY DEF Sends, LooksAt
<1>3. PICK i \in DOMAIN Looked(t) \ NotReady(t), tried \in SUBSET NotReady(t) :
        /\ Kind(t, i) = "send"
        /\ \E claim \in Claims(chan[On(t, i)].receiving) :
             /\ chan' = [Tried(t, tried) EXCEPT
                  ![On(t, i)].count = IF claim[1][1] = Nobody THEN @ + 1 ELSE @,
                  ![On(t, i)].receiving = claim[2]]
             /\ Moves(t, i, claim[1], TRUE)
        /\ Returns(t, i)
  BY DEF Sends
<1> DEFINE c == On(t, i)
<1>4. PICK claim \in Claims(chan[c].receiving) :
             /\ chan' = [Tried(t, tried) EXCEPT
                  ![c].count = IF claim[1][1] = Nobody THEN @ + 1 ELSE @,
                  ![c].receiving = claim[2]]
             /\ Moves(t, i, claim[1], TRUE)
  BY <1>3
<1>5. /\ i \in DOMAIN cases[t] /\ i \in Nat /\ c \in Channels
      /\ <<"receive", c>> \in Listed /\ Queue(<<"receive", c>>) = chan[c].receiving
  <2>1. i \in DOMAIN cases[t] BY <1>1, LooksIs
  <2>2. c \in Channels BY <2>1, <1>1, <1>3, CaseIs, KindIs DEF Kind, On
  <2> QED BY <2>1, <2>2, <1>1, CaseIs, QueueIs
<1> HIDE DEF c
<1>6. /\ Claiming /\ Doing(t)
      /\ fired' \in [Tasks -> Int] /\ effects' \in [Tasks -> SUBSET Nat]
      /\ fired'[t] = fired[t] /\ effects'[t] = {i}
      /\ claim[2] \subseteq chan[c].receiving
      /\ \A w \in chan[c].receiving : fired[w[1]] = NONE /\ fired'[w[1]] = NONE => w \in claim[2]
      /\ claim[1][1] = Nobody <=> Unclaimed(chan[c].receiving) = {}
  <2> DEFINE case == <<"receive", c>>
  <2>1. case \in Listed /\ claim \in Claims(Queue(case)) /\ chan[c].receiving = Queue(case)
    BY <1>5
  <2>2. /\ fired' = [u \in Tasks |-> IF u = claim[1][1] THEN claim[1][2] ELSE fired[u]]
        /\ effects' = [u \in Tasks |->
             IF u = claim[1][1] THEN effects[u] \cup {claim[1][2]}
             ELSE IF u = t /\ TRUE THEN {i} ELSE effects[u]]
    BY <1>4 DEF Moves
  <2>3. /\ Claimed(t, claim)
        /\ t # claim[1][1] => effects'[t] = {i}
    BY <2>2 DEF Claimed
  <2> HIDE DEF case
  <2>4. Met(t, case, claim) BY <2>1, <2>3, <1>1, <1>2, Meets
  <2>5. effects[t] \in SUBSET Nat BY <1>1 DEF TypeOK
  <2>6. fired' \in [Tasks -> Int] /\ effects' \in [Tasks -> SUBSET Nat]
    BY <2>2, <2>3, <2>4, <2>5, <1>5 DEF Met
  <2> QED BY <2>1, <2>3, <2>4, <2>6 DEF Met
<1>7. /\ Tried(t, tried) \in [Channels -> ChanRec]
      /\ chan[c].receiving \in Waiters /\ claim[2] \in Waiters
      /\ chan \in [Channels -> ChanRec]
  BY <1>1, <1>5, <1>6, TriedIs DEF TypeOK, Waiters, ChanRec
<1> DEFINE tries == Tried(t, tried)
           left == IF claim[1][1] = Nobody THEN tries[c].count + 1 ELSE tries[c].count
<1>8. /\ chan' \in [Channels -> ChanRec]
      /\ \A d \in Channels :
           /\ chan'[d].count = IF d = c THEN left ELSE chan[d].count
           /\ chan'[d].closed = chan[d].closed
           /\ chan'[d].receiving = IF d = c THEN claim[2] ELSE tries[d].receiving
           /\ chan'[d].sending = tries[d].sending
  <2>1. /\ \A d \in Channels : tries[d].count = chan[d].count /\ tries[d].closed = chan[d].closed
        /\ tries \in [Channels -> ChanRec]
    BY <1>1, TriedIs
  <2>2. chan' = [tries EXCEPT ![c].count = left, ![c].receiving = claim[2]] BY <1>4
  <2>3. tries[c] \in ChanRec /\ left \in Nat BY <1>5, <2>1 DEF ChanRec
  <2> HIDE DEF tries, left
  <2>4. /\ DOMAIN chan' = Channels
        /\ chan'[c] = [tries[c] EXCEPT !.count = left, !.receiving = claim[2]]
        /\ \A d \in Channels \ {c} : chan'[d] = tries[d]
    BY <1>5, <2>1, <2>2, <2>3 DEF ChanRec
  <2>5. /\ chan'[c] \in ChanRec /\ chan'[c].count = left /\ chan'[c].closed = tries[c].closed
        /\ chan'[c].receiving = claim[2] /\ chan'[c].sending = tries[c].sending
    BY <1>7, <2>3, <2>4 DEF ChanRec
  <2>6. chan' = [d \in Channels |-> chan'[d]] BY <2>2, <2>1
  <2>7. \A d \in Channels : chan'[d] \in ChanRec BY <2>1, <2>4, <2>5
  <2>8. chan' \in [Channels -> ChanRec] BY <2>6, <2>7
  <2>9. ASSUME NEW d \in Channels
        PROVE  /\ chan'[d].count = IF d = c THEN left ELSE chan[d].count
               /\ chan'[d].closed = chan[d].closed
               /\ chan'[d].receiving = IF d = c THEN claim[2] ELSE tries[d].receiving
               /\ chan'[d].sending = tries[d].sending
    BY <2>1, <2>4, <2>5
  <2> QED BY <2>8, <2>9
<1>9. left = IF claim[1][1] = Nobody THEN chan[c].count + 1 ELSE chan[c].count
  BY <1>1, <1>5, TriedIs
<1> HIDE DEF left
<1>10. i \in Int BY <1>5
<1>11. TypeOK'
  <2>1. join' = join /\ group' = group BY <1>2
  <2>2. /\ lock' \in [Objects -> Tasks \cup {Nobody}] /\ how' \in [Tasks -> Hows]
        /\ pc' \in [Tasks -> {"idle", "lock", "wait", "relock"}] /\ won' \in [Tasks -> Int]
        /\ cases' \in [Tasks -> Seq(Cases)] /\ times' \in [Tasks -> Nat]
        /\ cancelled' \in [Tasks -> BOOLEAN]
    BY <1>1, <1>3, <1>10, ReturnsDoes
  <2> QED BY <2>1, <2>2, <1>1, <1>6, <1>8 DEF TypeOK, ChanRec
<1>12. Thins
  <2>1. \A d \in Channels :
           /\ Tried(t, tried)[d].receiving \subseteq chan[d].receiving
           /\ Tried(t, tried)[d].sending \subseteq chan[d].sending
           /\ Unclaimed(chan[d].receiving) \subseteq Tried(t, tried)[d].receiving
           /\ Unclaimed(chan[d].sending) \subseteq Tried(t, tried)[d].sending
    BY <1>1, TriedKeeps
  <2>2. ASSUME NEW d \in Channels
        PROVE  /\ chan'[d].receiving \subseteq chan[d].receiving
               /\ chan'[d].sending \subseteq chan[d].sending
               /\ \A w : pc[w[1]] = "wait" /\ fired[w[1]] = NONE /\ fired'[w[1]] = NONE =>
                    /\ w \in chan[d].receiving => w \in chan'[d].receiving
                    /\ w \in chan[d].sending => w \in chan'[d].sending
    BY <2>1, <1>6, <1>8 DEF Unclaimed
  <2> QED BY <2>2, <1>2, ThinsIf
<1>13. Unready
  <2> SUFFICES ASSUME NEW u \in Tasks, Pending(u), fired'[u] = NONE, NEW k \in DOMAIN cases[u]
               PROVE  /\ Kind(u, k) = "receive" =>
                           chan'[On(u, k)].count = 0 /\ ~chan'[On(u, k)].closed
                      /\ Kind(u, k) = "send" =>
                           chan'[On(u, k)].count >= Capacity[On(u, k)] /\ ~chan'[On(u, k)].closed
                      /\ Kind(u, k) = "wait" => ~join'[On(u, k)].done
                      /\ Kind(u, k) = "next" =>
                           group'[On(u, k)].finished = 0 /\ group'[On(u, k)].running > 0
    BY DEF Unready
  <2>1. Kind(u, k) = "receive" /\ On(u, k) = c => Unclaimed(chan[c].receiving) # {}
    BY <1>5, PendingIs
  <2>2. \A d \in Channels : chan[d].count \in Nat /\ Capacity[d] \in Nat
    BY <1>1, SelectAssumption DEF TypeOK
  <2> QED BY <2>1, <2>2, <1>2, <1>6, <1>8, <1>9, PendingIs
<1>14. \E k \in DOMAIN cases[t] :
         won'[t] = k /\ Kind(t, k) = "send" /\ effects'[t] = {k}
  BY <1>1, <1>3, <1>5, <1>6, <1>10, ReturnsDoes
<1> QED BY <1>1, <1>3, <1>6, <1>10, <1>11, <1>12, <1>13, <1>14, ReturnsDoes

JoinRec == [done : BOOLEAN, taken : BOOLEAN, waiters : Waiters]
GroupRec == [running : Nat, finished : Nat, waiters : Waiters]

\* The channels, once some cases of `t` were looked at and none was ready.
LEMMA TriesDoes ==
  ASSUME Before, NEW t \in Tasks, NEW S \in SUBSET NotReady(t), chan' = Tried(t, S)
  PROVE  /\ chan' \in [Channels -> ChanRec]
         /\ \A c \in Channels :
              /\ chan'[c].count = chan[c].count /\ chan'[c].closed = chan[c].closed
              /\ chan'[c].receiving \subseteq chan[c].receiving
              /\ chan'[c].sending \subseteq chan[c].sending
              /\ \A w : fired[w[1]] = NONE =>
                   /\ w \in chan[c].receiving => w \in chan'[c].receiving
                   /\ w \in chan[c].sending => w \in chan'[c].sending
<1>1. TypeOK /\ CaseInv BY DEF Before
<1>2. \A c \in Channels :
        /\ Tried(t, S)[c].receiving \subseteq chan[c].receiving
        /\ Tried(t, S)[c].sending \subseteq chan[c].sending
        /\ Unclaimed(chan[c].receiving) \subseteq Tried(t, S)[c].receiving
        /\ Unclaimed(chan[c].sending) \subseteq Tried(t, S)[c].sending
  BY <1>1, TriedKeeps
<1>3. \A c \in Channels :
        \A w : fired[w[1]] = NONE =>
          /\ w \in chan[c].receiving => w \in Unclaimed(chan[c].receiving)
          /\ w \in chan[c].sending => w \in Unclaimed(chan[c].sending)
  BY DEF Unclaimed
<1>4. /\ Tried(t, S) \in [Channels -> ChanRec]
      /\ \A c \in Channels : /\ Tried(t, S)[c].count = chan[c].count
                             /\ Tried(t, S)[c].closed = chan[c].closed
  BY <1>1, TriedIs
<1> QED BY <1>2, <1>3, <1>4

LEMMA GetsDoes ==
  ASSUME TypeOK, CaseInv, NEW t \in Tasks, NEW i \in Int, Gets(t, i)
  PROVE  /\ join' \in [Joins -> JoinRec] /\ group' \in [Groups -> GroupRec]
         /\ \A g \in Groups : \A w, v \in group'[g].waiters : w = v
         /\ \A j \in Joins : /\ join'[j].done = join[j].done
                             /\ join'[j].waiters = Without(join[j].waiters, t)
         /\ \A g \in Groups : /\ group'[g].running = group[g].running
                              /\ group[g].finished = 0 => group'[g].finished = 0
                              /\ group'[g].waiters = Without(group[g].waiters, t)
         /\ effects' \in [Tasks -> SUBSET Nat]
         /\ \A u \in Tasks \ {t} : effects'[u] = effects[u]
         /\ effects'[t] \in {effects[t], effects[t] \cup {i}}
         /\ (\E j \in Joins : i \in Indexes(t, "wait", j)) => effects'[t] = effects[t] \cup {i}
         /\ (\A o \in Objects : i \notin Indexes(t, "wait", o) /\ i \notin Indexes(t, "next", o))
              => effects'[t] = effects[t]
<1> DEFINE is(kind, o) == i \in Indexes(t, kind, o)
           next(g) == is("next", g) /\ group[g].finished > 0
           waited == \E j \in Joins : is("wait", j)
           heard == \E g \in Groups : next(g)
<1>1. /\ join' = [j \in Joins |-> [join[j] EXCEPT
            !.waiters = Without(@, t), !.taken = @ \/ is("wait", j)]]
      /\ group' = [g \in Groups |-> [group[g] EXCEPT
            !.waiters = Without(@, t), !.finished = IF next(g) THEN @ - 1 ELSE @]]
      /\ effects' = [effects EXCEPT ![t] = IF waited \/ heard THEN @ \cup {i} ELSE @]
  BY DEF Gets
<1>2. /\ join \in [Joins -> JoinRec] /\ group \in [Groups -> GroupRec]
      /\ effects \in [Tasks -> SUBSET Nat]
      /\ \A g \in Groups : \A w, v \in group[g].waiters : w = v
  BY DEF TypeOK, JoinRec, GroupRec
<1>3. \A queue : Without(queue, t) \subseteq queue BY DEF Without
<1>4. \A queue \in Waiters : Without(queue, t) \in Waiters BY <1>3 DEF Waiters
<1> HIDE DEF next, waited, heard, is
<1>5. ASSUME NEW j \in Joins
      PROVE  /\ join'[j] \in JoinRec /\ join'[j].done = join[j].done
             /\ join'[j].waiters = Without(join[j].waiters, t)
  BY <1>1, <1>2, <1>4 DEF JoinRec
<1>6. ASSUME NEW g \in Groups
      PROVE  /\ group'[g] \in GroupRec /\ group'[g].running = group[g].running
             /\ group[g].finished = 0 => group'[g].finished = 0
             /\ group'[g].waiters = Without(group[g].waiters, t)
  <2>1. group[g].finished \in Nat /\ (next(g) => group[g].finished > 0)
    BY <1>2 DEF next, GroupRec
  <2> DEFINE left == IF next(g) THEN group[g].finished - 1 ELSE group[g].finished
  <2>2. left \in Nat /\ (group[g].finished = 0 => left = 0) BY <2>1
  <2>3. group'[g] = [group[g] EXCEPT !.waiters = Without(group[g].waiters, t), !.finished = left]
    BY <1>1, <1>2 DEF GroupRec
  <2> HIDE DEF left
  <2>4. /\ group[g].running \in Nat /\ Without(group[g].waiters, t) \in Waiters
        /\ group[g] = [running |-> group[g].running, finished |-> group[g].finished,
                       waiters |-> group[g].waiters]
    BY <1>2, <1>4 DEF GroupRec
  <2>5. group'[g] = [running |-> group[g].running, finished |-> left,
                     waiters |-> Without(group[g].waiters, t)]
    BY <2>3, <2>4
  <2>6. group'[g] \in GroupRec BY <2>2, <2>4, <2>5 DEF GroupRec
  <2> QED BY <2>2, <2>5, <2>6
<1>7. join' \in [Joins -> JoinRec] /\ group' \in [Groups -> GroupRec]
  BY <1>1, <1>5, <1>6
<1>8. \A g \in Groups : \A w, v \in group'[g].waiters : w = v BY <1>2, <1>3, <1>6
<1>9. waited \/ heard => i \in Nat
  <2>1. ASSUME NEW kind, NEW o, is(kind, o) PROVE i \in Nat
    <3>1. i \in DOMAIN cases[t] BY <2>1, LooksIs DEF is
    <3> QED BY <3>1, CaseIs
  <2> QED BY <2>1 DEF waited, heard, next
<1>10. /\ \A u \in Tasks \ {t} : effects'[u] = effects[u]
       /\ effects'[t] = IF waited \/ heard THEN effects[t] \cup {i} ELSE effects[t]
       /\ effects' \in [Tasks -> SUBSET Nat]
  BY <1>1, <1>2, <1>9
<1>11. (\E j \in Joins : i \in Indexes(t, "wait", j)) => waited BY DEF waited, is
<1>12. (\A o \in Objects : i \notin Indexes(t, "wait", o) /\ i \notin Indexes(t, "next", o))
         => ~waited /\ ~heard
  BY DEF waited, heard, next, is, Objects
<1> QED BY <1>5, <1>6, <1>7, <1>8, <1>10, <1>11, <1>12

\* A send that raises, a select that gives up: nothing is done.
LEMMA SendRaisesDoes ==
  ASSUME Before, NEW t \in Tasks, SendRaises(t)
  PROVE  /\ TypeOK' /\ Thins /\ Claiming /\ Doing(t) /\ Alone(t) /\ Unready
         /\ pc'[t] = "idle" /\ fired' = fired /\ effects' = effects /\ cases'[t] = cases[t]
         /\ won'[t] < 0 /\ how'[t] = how[t]
<1>1. TypeOK /\ CaseInv /\ EntryInv BY DEF Before
<1>2. PICK S \in SUBSET NotReady(t) : chan' = Tried(t, S) BY DEF SendRaises
<1>3. /\ UNCHANGED <<join, group, fired, effects>> /\ Returns(t, CANCELLED) /\ CANCELLED \in Int
      /\ CANCELLED < 0
  BY DEF SendRaises, CANCELLED
<1>4. TypeOK'
  <2>1. /\ lock' \in [Objects -> Tasks \cup {Nobody}] /\ how' \in [Tasks -> Hows]
        /\ pc' \in [Tasks -> {"idle", "lock", "wait", "relock"}] /\ won' \in [Tasks -> Int]
        /\ cases' \in [Tasks -> Seq(Cases)] /\ times' \in [Tasks -> Nat]
        /\ cancelled' \in [Tasks -> BOOLEAN]
    BY <1>1, <1>3, ReturnsDoes
  <2>2. chan' \in [Channels -> ChanRec] BY <1>2, TriesDoes
  <2> QED BY <2>1, <2>2, <1>1, <1>3 DEF TypeOK, ChanRec
<1>5. Thins BY <1>2, <1>3, TriesDoes, ThinsIf
<1>6. Unready BY <1>2, <1>3, TriesDoes, UnreadyIf
<1>7. Claiming /\ Doing(t) BY <1>3 DEF Claiming, Doing
<1> QED BY <1>1, <1>3, <1>4, <1>5, <1>6, <1>7, ReturnsDoes

LEMMA TakesDoes ==
  ASSUME Before, NEW t \in Tasks, Takes(t)
  PROVE  /\ TypeOK' /\ Thins /\ Claiming /\ Doing(t) /\ Alone(t) /\ Unready
         /\ pc'[t] = "idle" /\ fired' = fired /\ cases'[t] = cases[t] /\ how'[t] = how[t]
         /\ \E i \in DOMAIN cases[t] :
              /\ won'[t] = i /\ Kind(t, i) # "send"
              /\ effects'[t] \in {effects[t], effects[t] \cup {i}}
              /\ Kind(t, i) = "wait" => effects'[t] = effects[t] \cup {i}
<1>1. TypeOK /\ CaseInv /\ EntryInv BY DEF Before
<1>2. PICK i \in DOMAIN Looked(t) \ NotReady(t), S \in SUBSET NotReady(t) :
        /\ Kind(t, i) \in {"wait", "next", "sleep"}
        /\ Gets(t, i) /\ chan' = Tried(t, S) /\ Returns(t, i)
  BY DEF Takes
<1>3. pc[t] = "lock" /\ UNCHANGED fired BY DEF Takes, LooksAt
<1>4. i \in DOMAIN cases[t] /\ i \in Int BY <1>1, LooksIs, CaseIs
<1>5. TypeOK'
  <2>1. /\ lock' \in [Objects -> Tasks \cup {Nobody}] /\ how' \in [Tasks -> Hows]
        /\ pc' \in [Tasks -> {"idle", "lock", "wait", "relock"}] /\ won' \in [Tasks -> Int]
        /\ cases' \in [Tasks -> Seq(Cases)] /\ times' \in [Tasks -> Nat]
        /\ cancelled' \in [Tasks -> BOOLEAN]
    BY <1>1, <1>2, <1>4, ReturnsDoes
  <2>2. chan' \in [Channels -> ChanRec] BY <1>2, TriesDoes
  <2>3. /\ join' \in [Joins -> JoinRec] /\ group' \in [Groups -> GroupRec]
        /\ \A g \in Groups : \A w, v \in group'[g].waiters : w = v
        /\ effects' \in [Tasks -> SUBSET Nat]
    BY <1>1, <1>2, <1>4, GetsDoes
  <2> QED BY <2>1, <2>2, <2>3, <1>1, <1>3 DEF TypeOK, ChanRec, JoinRec, GroupRec
<1>6. /\ \A j \in Joins : /\ join'[j].done = join[j].done
                          /\ join'[j].waiters = Without(join[j].waiters, t)
      /\ \A g \in Groups : /\ group'[g].running = group[g].running
                           /\ group[g].finished = 0 => group'[g].finished = 0
                           /\ group'[g].waiters = Without(group[g].waiters, t)
      /\ \A u \in Tasks \ {t} : effects'[u] = effects[u]
      /\ effects'[t] \in {effects[t], effects[t] \cup {i}}
      /\ (\E j \in Joins : i \in Indexes(t, "wait", j)) => effects'[t] = effects[t] \cup {i}
  BY <1>1, <1>2, <1>4, GetsDoes
<1>7. Thins
  <2>1. \A queue : /\ Without(queue, t) \subseteq queue
                   /\ \A w : pc[w[1]] = "wait" /\ w \in queue => w \in Without(queue, t)
    BY <1>3 DEF Without
  <2>2. \A c \in Channels :
          /\ chan'[c].receiving \subseteq chan[c].receiving
          /\ chan'[c].sending \subseteq chan[c].sending
          /\ \A w : fired[w[1]] = NONE =>
               /\ w \in chan[c].receiving => w \in chan'[c].receiving
               /\ w \in chan[c].sending => w \in chan'[c].sending
    BY <1>2, TriesDoes
  <2> QED BY <2>1, <2>2, <1>6, ThinsIf
<1>8. Unready BY <1>2, <1>6, TriesDoes, UnreadyIf
<1>9. Claiming /\ Doing(t) BY <1>3, <1>6 DEF Claiming, Doing
<1>10. Kind(t, i) = "wait" => effects'[t] = effects[t] \cup {i}
  <2> SUFFICES ASSUME Kind(t, i) = "wait" PROVE \E j \in Joins : i \in Indexes(t, "wait", j)
    BY <1>6
  <2>1. cases[t][i] = <<"wait", On(t, i)>> /\ On(t, i) \in Joins
    BY <1>1, <1>4, CaseIs, KindIs DEF Kind, On
  <2> QED BY <2>1, <1>2 DEF Indexes
<1> QED BY <1>1, <1>2, <1>3, <1>4, <1>5, <1>6, <1>7, <1>8, <1>9, <1>10, ReturnsDoes

LEMMA GivesUpDoes ==
  ASSUME Before, NEW t \in Tasks, GivesUp(t)
  PROVE  /\ TypeOK' /\ Thins /\ Claiming /\ Doing(t) /\ Alone(t) /\ Unready
         /\ fired' = fired /\ effects' = effects /\ cases'[t] = cases[t]
         /\ \/ pc'[t] = "idle" /\ won'[t] < 0 /\ how'[t] = how[t]
            \/ pc'[t] = "lock" /\ how'[t] = "block"
         /\ lock' = [o \in Objects |-> IF lock[o] = t THEN Nobody ELSE lock[o]]
<1>1. TypeOK /\ CaseInv /\ EntryInv BY DEF Before
<1>2. /\ NotReady(t) \in SUBSET NotReady(t) /\ chan' = Tried(t, NotReady(t))
      /\ pc[t] = "lock" /\ UNCHANGED <<join, group, cases, times, fired, effects, cancelled>>
      /\ lock' = [o \in Objects |-> IF lock[o] = t THEN Nobody ELSE lock[o]]
  BY DEF GivesUp, LooksAt, Unlocks
<1>3. \/ how' = [how EXCEPT ![t] = "block"] /\ UNCHANGED <<pc, won>>
      \/ /\ pc' = [pc EXCEPT ![t] = "idle"] /\ UNCHANGED how
         /\ \/ won' = [won EXCEPT ![t] = CANCELLED]
            \/ won' = [won EXCEPT ![t] = IDLE]
  BY DEF GivesUp
<1>4. CANCELLED \in Int /\ IDLE \in Int /\ CANCELLED < 0 /\ IDLE < 0 /\ "block" \in Hows
  BY DEF CANCELLED, IDLE, Hows
<1>5. /\ pc \in [Tasks -> {"idle", "lock", "wait", "relock"}] /\ won \in [Tasks -> Int]
      /\ how \in [Tasks -> Hows] /\ lock \in [Objects -> Tasks \cup {Nobody}]
  BY <1>1 DEF TypeOK
<1>6. /\ pc' \in [Tasks -> {"idle", "lock", "wait", "relock"}] /\ won' \in [Tasks -> Int]
      /\ how' \in [Tasks -> Hows] /\ lock' \in [Objects -> Tasks \cup {Nobody}]
  BY <1>2, <1>3, <1>4, <1>5
<1>7. /\ Alone(t)
      /\ \/ pc'[t] = "idle" /\ won'[t] < 0 /\ how'[t] = how[t]
         \/ pc'[t] = "lock" /\ how'[t] = "block"
  <2>1. Alone(t) BY <1>2, <1>3, <1>5 DEF Alone
  <2>2. CASE how' = [how EXCEPT ![t] = "block"] /\ UNCHANGED <<pc, won>>
    BY <2>1, <2>2, <1>2, <1>5
  <2>3. CASE ~(how' = [how EXCEPT ![t] = "block"] /\ UNCHANGED <<pc, won>>)
    BY <2>1, <2>3, <1>3, <1>4, <1>5
  <2> QED BY <2>2, <2>3
<1>8. chan' \in [Channels -> ChanRec] BY <1>2, TriesDoes
<1>9. TypeOK' BY <1>1, <1>2, <1>6, <1>8 DEF TypeOK, ChanRec
<1>10. Thins BY <1>2, TriesDoes, ThinsIf
<1>11. Unready BY <1>2, TriesDoes, UnreadyIf
<1>12. Claiming /\ Doing(t) BY <1>2 DEF Claiming, Doing
<1> QED BY <1>2, <1>7, <1>9, <1>10, <1>11, <1>12

LEMMA LeavesDoes ==
  ASSUME Before, NEW t \in Tasks, Leaves(t)
  PROVE  /\ TypeOK' /\ Thins /\ Claiming /\ Doing(t) /\ Alone(t) /\ Unready
         /\ pc[t] = "relock" /\ pc'[t] = "idle" /\ fired' = fired /\ cases'[t] = cases[t]
         /\ how'[t] = how[t]
         /\ \A case \in Listed : \A w \in Queue(case)' : w[1] # t
         /\ effects'[t] \in {effects[t], effects[t] \cup {fired[t]}}
         /\ \/ /\ won'[t] = CANCELLED /\ effects'[t] = effects[t]
               /\ fired[t] = CANCELLED \/ fired[t] \notin effects[t]
            \/ /\ won'[t] = fired[t] /\ fired[t] \in DOMAIN cases[t]
               /\ Kind(t, fired[t]) = "send" => fired[t] \in effects[t]
               /\ Kind(t, fired[t]) = "wait" => effects'[t] = effects[t] \cup {fired[t]}
<1> DEFINE i == fired[t]
           raises == fired[t] # CANCELLED /\ Kind(t, fired[t]) = "send" /\ fired[t] \notin effects[t]
           result == IF raises THEN CANCELLED ELSE fired[t]
<1>1. TypeOK /\ CaseInv /\ EntryInv BY DEF Before
<1>2. /\ pc[t] = "relock" /\ UNCHANGED fired /\ Gets(t, i) /\ Returns(t, result)
      /\ chan' = [c \in Channels |-> [chan[c] EXCEPT
           !.receiving = Without(@, t), !.sending = Without(@, t)]]
  BY DEF Leaves, LeavesChannels
<1>3. i \in Int /\ CANCELLED \in Int /\ i \in DOMAIN cases[t] \cup {CANCELLED}
  <2>1. fired[t] \in Int /\ CANCELLED \in Int BY <1>1 DEF TypeOK, CANCELLED
  <2>2. fired[t] # NONE /\ fired[t] \in DOMAIN cases[t] \cup {NONE, CANCELLED}
    BY <1>1, <1>2 DEF CaseInv, Fits, Waiting
  <2> QED BY <2>1, <2>2
<1>4. result \in Int /\ result \in {CANCELLED, i} /\ (result # i => raises) BY <1>3
<1>5. how[t] = "block" BY <1>1, <1>2 DEF CaseInv, Fits, Waiting
<1>6. Looked(t) = cases[t] BY <1>1, <1>5, LooksIs
<1>7. i = CANCELLED => i \notin DOMAIN cases[t]
  <2>1. \A k \in DOMAIN cases[t] : k > 0 BY <1>1, CaseIs
  <2> QED BY <2>1 DEF CANCELLED
<1> HIDE DEF i, result
<1>8. /\ Alone(t) /\ pc'[t] = "idle" /\ won'[t] = result /\ cases'[t] = cases[t] /\ how'[t] = how[t]
      /\ lock' \in [Objects -> Tasks \cup {Nobody}] /\ how' \in [Tasks -> Hows]
      /\ pc' \in [Tasks -> {"idle", "lock", "wait", "relock"}] /\ won' \in [Tasks -> Int]
      /\ cases' \in [Tasks -> Seq(Cases)] /\ times' \in [Tasks -> Nat]
      /\ cancelled' \in [Tasks -> BOOLEAN]
  BY <1>1, <1>2, <1>4, ReturnsDoes
<1>9. /\ join' \in [Joins -> JoinRec] /\ group' \in [Groups -> GroupRec]
      /\ \A g \in Groups : \A w, v \in group'[g].waiters : w = v
      /\ effects' \in [Tasks -> SUBSET Nat]
      /\ \A j \in Joins : /\ join'[j].done = join[j].done
                          /\ join'[j].waiters = Without(join[j].waiters, t)
      /\ \A g \in Groups : /\ group'[g].running = group[g].running
                           /\ group[g].finished = 0 => group'[g].finished = 0
                           /\ group'[g].waiters = Without(group[g].waiters, t)
      /\ \A u \in Tasks \ {t} : effects'[u] = effects[u]
      /\ effects'[t] \in {effects[t], effects[t] \cup {i}}
      /\ (\E j \in Joins : i \in Indexes(t, "wait", j)) => effects'[t] = effects[t] \cup {i}
      /\ (\A o \in Objects : i \notin Indexes(t, "wait", o) /\ i \notin Indexes(t, "next", o))
           => effects'[t] = effects[t]
  BY <1>1, <1>2, <1>3, GetsDoes
<1>10. \A queue : /\ Without(queue, t) \subseteq queue
                  /\ \A w : pc[w[1]] = "wait" /\ w \in queue => w \in Without(queue, t)
                  /\ \A w \in Without(queue, t) : w[1] # t
  BY <1>2 DEF Without
<1>11. /\ chan' \in [Channels -> ChanRec]
       /\ \A c \in Channels :
            /\ chan'[c].count = chan[c].count /\ chan'[c].closed = chan[c].closed
            /\ chan'[c].receiving = Without(chan[c].receiving, t)
            /\ chan'[c].sending = Without(chan[c].sending, t)
  <2>1. \A queue \in Waiters : Without(queue, t) \in Waiters BY <1>10 DEF Waiters
  <2>2. chan \in [Channels -> ChanRec] BY <1>1 DEF TypeOK, ChanRec
  <2> QED BY <2>1, <2>2, <1>2 DEF ChanRec
<1>12. TypeOK' BY <1>1, <1>2, <1>8, <1>9, <1>11 DEF TypeOK, ChanRec, JoinRec, GroupRec
<1>13. Thins BY <1>9, <1>10, <1>11, ThinsIf
<1>14. Unready BY <1>9, <1>11, UnreadyIf
<1>15. Claiming /\ Doing(t) BY <1>2, <1>9 DEF Claiming, Doing
<1>16. ASSUME NEW case \in Listed, NEW w \in Queue(case)' PROVE w[1] # t
  <2>1. case \in Cases /\ case[1] # "sleep" BY ListedIs DEF Listed
  <2>2. case = <<case[1], case[2]>> BY <2>1, KindIs
  <2>3. \E queue : Queue(case)' = Without(queue, t)
    <3>1. CASE case[1] = "receive" /\ case[2] \in Channels
      <4>1. Queue(case)' = chan'[case[2]].receiving BY <3>1, <2>2, NextQueueIs
      <4> QED BY <4>1, <3>1, <1>11
    <3>2. CASE case[1] = "send" /\ case[2] \in Channels
      <4>1. Queue(case)' = chan'[case[2]].sending BY <3>2, <2>2, NextQueueIs
      <4> QED BY <4>1, <3>2, <1>11
    <3>3. CASE case[1] = "wait" /\ case[2] \in Joins BY <3>3, <2>2, <1>9, NextQueueIs
    <3>4. CASE case[1] = "next" /\ case[2] \in Groups BY <3>4, <2>2, <1>9, NextQueueIs
    <3> QED BY <3>1, <3>2, <3>3, <3>4, <2>1, KindIs
  <2> QED BY <2>3, <1>10
<1>17. ASSUME NEW kind, kind \in {"wait", "next"}, NEW o, i \in Indexes(t, kind, o)
       PROVE  i # CANCELLED /\ Kind(t, i) = kind
  BY <1>6, <1>7, <1>17 DEF Indexes, Kind
<1>18. /\ i = CANCELLED => effects'[t] = effects[t]
       /\ Kind(t, i) = "send" => effects'[t] = effects[t]
  <2>1. "send" # "wait" /\ "send" # "next" OBVIOUS
  <2> QED BY <2>1, <1>9, <1>17
<1>19. i \in DOMAIN cases[t] /\ Kind(t, i) = "wait" => effects'[t] = effects[t] \cup {i}
  <2> SUFFICES ASSUME i \in DOMAIN cases[t], Kind(t, i) = "wait"
               PROVE  \E j \in Joins : i \in Indexes(t, "wait", j)
    BY <1>9
  <2>1. cases[t][i] = <<"wait", On(t, i)>> /\ On(t, i) \in Joins
    BY <1>1, CaseIs, KindIs DEF Kind, On
  <2> QED BY <2>1, <1>6 DEF Indexes
<1>20. \/ /\ won'[t] = CANCELLED /\ effects'[t] = effects[t]
          /\ fired[t] = CANCELLED \/ fired[t] \notin effects[t]
       \/ /\ won'[t] = fired[t] /\ fired[t] \in DOMAIN cases[t]
          /\ Kind(t, fired[t]) = "send" => fired[t] \in effects[t]
          /\ Kind(t, fired[t]) = "wait" => effects'[t] = effects[t] \cup {fired[t]}
  <2>1. CASE raises BY <2>1, <1>8, <1>18 DEF result, i
  <2>2. CASE ~raises /\ i = CANCELLED BY <2>2, <1>8, <1>18 DEF result, i
  <2>3. CASE ~raises /\ i # CANCELLED BY <2>3, <1>3, <1>8, <1>19 DEF result, i
  <2> QED BY <2>1, <2>2, <2>3
<1> QED BY <1>2, <1>8, <1>9, <1>12, <1>13, <1>14, <1>15, <1>16, <1>20 DEF i

LEMMA Highest ==
  ASSUME NEW n \in Nat, NEW S, S \subseteq 1 .. n, S # {}
  PROVE  Max(S) \in S
<1>1. S \subseteq Nat /\ \A x \in S : x <= n OBVIOUS
<1>2. \E m \in S : \A x \in S : x <= m BY <1>1, Most
<1>3. \E m \in S : \A x \in S : m >= x BY <1>1, <1>2
<1> QED BY <1>3 DEF Max

\* No two tasks wait in one group.
LEMMA OwnGroup ==
  ASSUME TypeOK, CaseInv, NEW t \in Tasks, NEW u \in Tasks, NEW g \in Groups,
         NEW i \in DOMAIN cases[t], NEW k \in DOMAIN cases[u],
         cases[t][i] = <<"next", g>>, cases[u][k] = <<"next", g>>
  PROVE  t = u
<1>1. cases[t] \in Seq(Cases) /\ cases[u] \in Seq(Cases) BY DEF TypeOK
<1>2. cases[t] # <<>> /\ cases[u] # <<>> BY <1>1
<1>3. PICK mine \in Selects[t] : cases[t] = mine[2] BY <1>2 DEF CaseInv, Fits
<1>4. PICK other \in Selects[u] : cases[u] = other[2] BY <1>2 DEF CaseInv, Fits
<1>5. <<"next", g>> \in ToSet(mine[2]) \cap ToSet(other[2]) BY <1>3, <1>4 DEF ToSet
<1> QED BY <1>5, GroupsAssumption

\* What a wait that enters leaves and brings.
LEMMA EnlistsDoes ==
  ASSUME Before, NEW t \in Tasks, Enlists(t)
  PROVE  /\ TypeOK' /\ Alone(t) /\ Unready
         /\ pc[t] = "lock" /\ pc'[t] = "wait" /\ how[t] = "block" /\ how' = how /\ cases' = cases
         /\ fired' = fired /\ effects' = effects
         /\ lock' = [o \in Objects |-> IF lock[o] = t THEN Nobody ELSE lock[o]]
         /\ Looked(t) = cases[t] /\ \A i \in DOMAIN cases[t] : ~Ready(t, i)
         /\ \A c \in Channels : chan'[c].count = chan[c].count /\ chan'[c].closed = chan[c].closed
         /\ join' \in [Joins -> JoinRec] /\ \A j \in Joins : join'[j].done = join[j].done
         /\ \A g \in Groups : /\ group'[g].finished = group[g].finished
                              /\ group'[g].running = group[g].running
         /\ \A case \in Listed :
              /\ \A w \in Queue(case)' : w \in Queue(case) \/ \E i \in Indexes(t, case[1], case[2]) : w = <<t, i>>
              /\ \A w \in Queue(case) : pc[w[1]] = "wait" /\ fired[w[1]] = NONE => w \in Queue(case)'
              /\ \A i \in DOMAIN cases[t] : cases[t][i] = case => \E w \in Queue(case)' : w[1] = t
<1> DEFINE tried == Tried(t, NotReady(t))
<1>1. TypeOK /\ CaseInv /\ EntryInv BY DEF Before
<1>2. /\ pc[t] = "lock" /\ how[t] = "block" /\ NotReady(t) = DOMAIN Looked(t)
      /\ chan' = [c \in Channels |-> [tried[c] EXCEPT
           !.receiving = @ \cup Entries(t, "receive", c), !.sending = @ \cup Entries(t, "send", c)]]
      /\ join' = [j \in Joins |-> [join[j] EXCEPT !.waiters = @ \cup Entries(t, "wait", j)]]
      /\ group' = [g \in Groups |-> IF Indexes(t, "next", g) = {} THEN group[g]
           ELSE [group[g] EXCEPT !.waiters = {<<t, Max(Indexes(t, "next", g))>>}]]
      /\ pc' = [pc EXCEPT ![t] = "wait"]
      /\ lock' = [o \in Objects |-> IF lock[o] = t THEN Nobody ELSE lock[o]]
      /\ UNCHANGED <<cases, how, times, fired, won, effects, cancelled>>
  BY DEF Enlists, LooksAt, Unlocks
<1>3. Looked(t) = cases[t] BY <1>1, <1>2, LooksIs
<1>4. ASSUME NEW i \in DOMAIN cases[t] PROVE ~Ready(t, i)
  BY <1>2, <1>3 DEF NotReady
<1>5. \A kind, o : /\ Indexes(t, kind, o) = {i \in DOMAIN cases[t] : cases[t][i] = <<kind, o>>}
                   /\ Indexes(t, kind, o) \subseteq Nat
  <2>1. \A i \in DOMAIN cases[t] : i \in Nat BY <1>1, CaseIs
  <2> QED BY <2>1, <1>3 DEF Indexes
<1>6. \A kind, o : Entries(t, kind, o) = {<<t, i>> : i \in Indexes(t, kind, o)}
                   /\ Entries(t, kind, o) \in Waiters
  BY <1>5 DEF Entries, Waiters
<1>7. /\ tried \in [Channels -> ChanRec]
      /\ \A c \in Channels :
           /\ tried[c].count = chan[c].count /\ tried[c].closed = chan[c].closed
           /\ tried[c].receiving \subseteq chan[c].receiving
           /\ tried[c].sending \subseteq chan[c].sending
           /\ Unclaimed(chan[c].receiving) \subseteq tried[c].receiving
           /\ Unclaimed(chan[c].sending) \subseteq tried[c].sending
  BY <1>1, TriedIs, TriedKeeps
<1> HIDE DEF tried
<1>8. /\ chan' \in [Channels -> ChanRec]
      /\ \A c \in Channels :
           /\ chan'[c].count = chan[c].count /\ chan'[c].closed = chan[c].closed
           /\ chan'[c].receiving = tried[c].receiving \cup Entries(t, "receive", c)
           /\ chan'[c].sending = tried[c].sending \cup Entries(t, "send", c)
  <2>1. \A p, q \in Waiters : p \cup q \in Waiters BY DEF Waiters
  <2>2. ASSUME NEW c \in Channels
        PROVE  /\ chan'[c] \in ChanRec
               /\ chan'[c].count = tried[c].count /\ chan'[c].closed = tried[c].closed
               /\ chan'[c].receiving = tried[c].receiving \cup Entries(t, "receive", c)
               /\ chan'[c].sending = tried[c].sending \cup Entries(t, "send", c)
    BY <2>1, <1>2, <1>6, <1>7 DEF ChanRec
  <2>3. chan' = [c \in Channels |-> chan'[c]] BY <1>2
  <2> QED BY <2>2, <2>3, <1>7
<1>9. /\ join' \in [Joins -> JoinRec]
      /\ \A j \in Joins : /\ join'[j].done = join[j].done
                          /\ join'[j].waiters = join[j].waiters \cup Entries(t, "wait", j)
  <2>1. \A p, q \in Waiters : p \cup q \in Waiters BY DEF Waiters
  <2>2. join \in [Joins -> JoinRec] BY <1>1 DEF TypeOK, JoinRec
  <2> QED BY <2>1, <2>2, <1>2, <1>6 DEF JoinRec
<1>10. ASSUME NEW g \in Groups, Indexes(t, "next", g) # {}
       PROVE  Max(Indexes(t, "next", g)) \in Indexes(t, "next", g)
  <2>1. cases[t] \in Seq(Cases) BY <1>1 DEF TypeOK
  <2>2. Len(cases[t]) \in Nat /\ DOMAIN cases[t] = 1 .. Len(cases[t]) BY <2>1
  <2>3. Indexes(t, "next", g) \subseteq 1 .. Len(cases[t]) BY <2>2, <1>5
  <2> QED BY <2>2, <2>3, <1>10, Highest
<1>11. /\ group' \in [Groups -> GroupRec]
       /\ \A g \in Groups :
            /\ group'[g].finished = group[g].finished /\ group'[g].running = group[g].running
            /\ group'[g].waiters = IF Indexes(t, "next", g) = {} THEN group[g].waiters
                                   ELSE {<<t, Max(Indexes(t, "next", g))>>}
            /\ \A w, v \in group'[g].waiters : w = v
  <2>1. /\ group \in [Groups -> GroupRec]
        /\ \A g \in Groups : \A w, v \in group[g].waiters : w = v
    BY <1>1 DEF TypeOK, GroupRec
  <2>2. ASSUME NEW g \in Groups
        PROVE  /\ group'[g] \in GroupRec
               /\ group'[g].finished = group[g].finished /\ group'[g].running = group[g].running
               /\ group'[g].waiters = IF Indexes(t, "next", g) = {} THEN group[g].waiters
                                      ELSE {<<t, Max(Indexes(t, "next", g))>>}
    <3>1. CASE Indexes(t, "next", g) = {} BY <3>1, <2>1, <1>2
    <3>2. CASE Indexes(t, "next", g) # {}
      <4>1. {<<t, Max(Indexes(t, "next", g))>>} \in Waiters BY <3>2, <1>5, <1>10 DEF Waiters
      <4>2. group'[g] = [group[g] EXCEPT !.waiters = {<<t, Max(Indexes(t, "next", g))>>}]
        BY <3>2, <1>2
      <4> QED BY <3>2, <4>1, <4>2, <2>1 DEF GroupRec
    <3> QED BY <3>1, <3>2
  <2>3. group' = [g \in Groups |-> group'[g]] BY <1>2
  <2> QED BY <2>1, <2>2, <2>3
<1>12. TypeOK'
  <2>1. /\ pc' \in [Tasks -> {"idle", "lock", "wait", "relock"}]
        /\ lock' \in [Objects -> Tasks \cup {Nobody}]
    BY <1>1, <1>2 DEF TypeOK
  <2> QED BY <2>1, <1>1, <1>2, <1>8, <1>9, <1>11 DEF TypeOK, ChanRec, JoinRec, GroupRec
<1>13. ASSUME NEW case \in Listed
       PROVE  /\ \A w \in Queue(case)' :
                   w \in Queue(case) \/ \E i \in Indexes(t, case[1], case[2]) : w = <<t, i>>
              /\ \A w \in Queue(case) : pc[w[1]] = "wait" /\ fired[w[1]] = NONE => w \in Queue(case)'
              /\ \A i \in DOMAIN cases[t] : cases[t][i] = case => \E w \in Queue(case)' : w[1] = t
  <2>1. case \in Cases /\ case[1] # "sleep" BY ListedIs DEF Listed
  <2>2. case = <<case[1], case[2]>> BY <2>1, KindIs
  <2> DEFINE mine == Indexes(t, case[1], case[2])
  <2>3. \A i \in DOMAIN cases[t] : cases[t][i] = case => i \in mine BY <2>2, <1>5
  <2>4. Entries(t, case[1], case[2]) = {<<t, i>> : i \in mine} BY <1>6
  <2>5. CASE /\ case[1] \in {"receive", "send", "wait"}
             /\ \E kept : /\ Queue(case)' = kept \cup Entries(t, case[1], case[2])
                          /\ kept \subseteq Queue(case) /\ Unclaimed(Queue(case)) \subseteq kept
    <3>1. PICK kept : /\ Queue(case)' = kept \cup Entries(t, case[1], case[2])
                      /\ kept \subseteq Queue(case) /\ Unclaimed(Queue(case)) \subseteq kept
      BY <2>5
    <3>2. \A w \in Queue(case) : fired[w[1]] = NONE => w \in Unclaimed(Queue(case)) BY DEF Unclaimed
    <3>3. \A i \in mine : <<t, i>> \in Queue(case)' BY <3>1, <2>4
    <3> HIDE DEF mine
    <3>4. \A i \in DOMAIN cases[t] : cases[t][i] = case => \E w \in Queue(case)' : w[1] = t
      <4> SUFFICES ASSUME NEW i \in DOMAIN cases[t], cases[t][i] = case
                   PROVE  \E w \in Queue(case)' : w[1] = t
        OBVIOUS
      <4>1. <<t, i>> \in Queue(case)' BY <2>3, <3>3
      <4> QED BY <4>1
    <3>5. \A w \in Queue(case)' : w \in Queue(case) \/ \E i \in mine : w = <<t, i>>
      BY <3>1, <2>4
    <3> QED BY <3>1, <3>2, <3>4, <3>5 DEF mine
  <2>6. CASE case[1] = "next" /\ case[2] \in Groups
    <3> DEFINE g == case[2]
    <3>1. /\ Queue(case) = group[g].waiters /\ Queue(case)' = group'[g].waiters
          /\ mine = Indexes(t, "next", g)
      BY <2>2, <2>6, QueueIs, NextQueueIs
    <3>2. ASSUME NEW w \in Queue(case), pc[w[1]] = "wait" PROVE mine = {}
      <4>1. /\ w[1] \in Tasks /\ w[2] \in DOMAIN cases[w[1]] /\ cases[w[1]][w[2]] = case
        BY <1>1 DEF EntryInv
      <4>2. w[1] # t BY <3>2, <1>2
      <4>3. ASSUME NEW i \in mine PROVE FALSE
        <5>1. i \in DOMAIN cases[t] /\ cases[t][i] = case BY <2>2, <1>5
        <5> QED BY <5>1, <4>1, <4>2, <2>2, <2>6, <1>1, OwnGroup
      <4> QED BY <4>3
    <3>3. CASE mine = {}
      <4>1. Queue(case)' = Queue(case) BY <3>1, <3>3, <2>6, <1>11
      <4>2. \A i \in DOMAIN cases[t] : cases[t][i] # case BY <3>3, <2>3
      <4> QED BY <4>1, <4>2
    <3>4. CASE mine # {}
      <4>1. Queue(case)' = {<<t, Max(mine)>>} /\ Max(mine) \in mine BY <3>1, <3>4, <2>6, <1>10, <1>11
      <4>2. \A w \in Queue(case) : pc[w[1]] # "wait" BY <3>2, <3>4
      <4> HIDE DEF mine
      <4>3. /\ \A w \in Queue(case)' : \E i \in mine : w = <<t, i>>
            /\ \E w \in Queue(case)' : w[1] = t
        BY <4>1
      <4> QED BY <4>2, <4>3 DEF mine
    <3> QED BY <3>3, <3>4
  <2>7. ASSUME case[1] \in {"receive", "send", "wait"}
        PROVE  \E kept : /\ Queue(case)' = kept \cup Entries(t, case[1], case[2])
                         /\ kept \subseteq Queue(case) /\ Unclaimed(Queue(case)) \subseteq kept
    <3> DEFINE o == case[2]
    <3>1. CASE case[1] = "receive" /\ o \in Channels
      <4>1. Queue(case) = chan[o].receiving /\ Queue(case)' = chan'[o].receiving
        BY <3>1, <2>2, QueueIs, NextQueueIs
      <4>2. Queue(case)' = tried[o].receiving \cup Entries(t, case[1], case[2]) BY <4>1, <3>1, <1>8
      <4>3. /\ tried[o].receiving \subseteq Queue(case)
            /\ Unclaimed(Queue(case)) \subseteq tried[o].receiving
        BY <4>1, <3>1, <1>7
      <4> QED BY <4>2, <4>3
    <3>2. CASE case[1] = "send" /\ o \in Channels
      <4>1. Queue(case) = chan[o].sending /\ Queue(case)' = chan'[o].sending
        BY <3>2, <2>2, QueueIs, NextQueueIs
      <4>2. Queue(case)' = tried[o].sending \cup Entries(t, case[1], case[2]) BY <4>1, <3>2, <1>8
      <4>3. /\ tried[o].sending \subseteq Queue(case)
            /\ Unclaimed(Queue(case)) \subseteq tried[o].sending
        BY <4>1, <3>2, <1>7
      <4> QED BY <4>2, <4>3
    <3>3. CASE case[1] = "wait" /\ o \in Joins
      <4>1. Queue(case) = join[o].waiters /\ Queue(case)' = join'[o].waiters
        BY <3>3, <2>2, QueueIs, NextQueueIs
      <4>2. Unclaimed(Queue(case)) \subseteq Queue(case) BY DEF Unclaimed
      <4> QED BY <4>1, <4>2, <3>3, <1>9
    <3>4. "next" \notin {"receive", "send", "wait"} /\ "sleep" \notin {"receive", "send", "wait"}
      OBVIOUS
    <3> QED BY <3>1, <3>2, <3>3, <3>4, <2>1, <2>7, KindIs
  <2> QED BY <2>1, <2>5, <2>6, <2>7, KindIs
<1>14. Alone(t) /\ pc'[t] = "wait" BY <1>1, <1>2 DEF TypeOK, Alone
<1>15. Unready BY <1>8, <1>9, <1>11, UnreadyIf
<1> QED BY <1>2, <1>3, <1>4, <1>8, <1>9, <1>11, <1>12, <1>13, <1>14, <1>15

\* Everybody in two lists is claimed.
LEMMA ClaimAllDoes ==
  ASSUME Before, NEW queue, NEW after, ClaimAll(queue, after),
         \A w \in queue \cup after : \E case \in Listed : w \in Queue(case)
  PROVE  /\ Claiming /\ fired' \in [Tasks -> Int]
         /\ \A w \in queue \cup after : w[1] \in Tasks /\ fired'[w[1]] # NONE
<1>1. TypeOK /\ CaseInv /\ EntryInv BY DEF Before
<1>2. \A w \in queue \cup after :
        /\ w \in Tasks \X Nat /\ w[2] > 0
        /\ pc[w[1]] \in Waiting /\ w[2] \in DOMAIN cases[w[1]]
  <2> SUFFICES ASSUME NEW w \in queue \cup after
               PROVE  /\ w \in Tasks \X Nat /\ w[2] > 0
                      /\ pc[w[1]] \in Waiting /\ w[2] \in DOMAIN cases[w[1]]
    OBVIOUS
  <2>1. PICK case \in Listed : w \in Queue(case) OBVIOUS
  <2>2. w[1] \in Tasks /\ pc[w[1]] \in Waiting /\ w[2] \in DOMAIN cases[w[1]]
    BY <2>1, <1>1 DEF EntryInv
  <2>3. w \in Tasks \X Nat BY <2>1, <1>1, QueueType DEF Waiters
  <2> QED BY <2>2, <2>3, <1>1, CaseIs
<1>3. ASSUME NEW list, list \subseteq queue \cup after, NEW t \in Tasks
      PROVE  /\ Of(list, t) # {} => Min(Of(list, t)) \in Of(list, t)
             /\ \A i \in Of(list, t) : /\ i \in Nat /\ i > 0 /\ i \in DOMAIN cases[t]
                                       /\ pc[t] \in Waiting
             /\ \A w \in list : w[1] = t => w[2] \in Of(list, t)
  <2>1. \A i \in Of(list, t) : <<t, i>> \in queue \cup after BY <1>3 DEF Of
  <2>2. ASSUME NEW i \in Of(list, t)
        PROVE  i \in Nat /\ i > 0 /\ i \in DOMAIN cases[t] /\ pc[t] \in Waiting
    <3> DEFINE w == <<t, i>>
    <3>1. w \in queue \cup after BY <2>1
    <3>2. w[1] = t /\ w[2] = i OBVIOUS
    <3> HIDE DEF w
    <3>3. /\ w \in Tasks \X Nat /\ w[2] > 0
          /\ pc[w[1]] \in Waiting /\ w[2] \in DOMAIN cases[w[1]]
      BY <3>1, <1>2
    <3> QED BY <3>2, <3>3
  <2>3. Of(list, t) # {} => Min(Of(list, t)) \in Of(list, t)
    <3>1. Of(list, t) \subseteq Nat BY <2>2
    <3> QED BY <3>1, Least
  <2>4. ASSUME NEW w \in list, w[1] = t PROVE w[2] \in Of(list, t)
    <3>1. w \in Tasks \X Nat BY <1>2, <1>3
    <3>2. w = <<t, w[2]>> BY <3>1, <2>4
    <3> QED BY <3>2 DEF Of
  <2> QED BY <2>2, <2>3, <2>4
<1>4. fired' = [t \in Tasks |->
        IF fired[t] # NONE THEN fired[t]
        ELSE IF Of(queue, t) # {} THEN Min(Of(queue, t))
        ELSE IF Of(after, t) # {} THEN Min(Of(after, t))
        ELSE NONE]
  BY DEF ClaimAll
<1>5. queue \subseteq queue \cup after /\ after \subseteq queue \cup after OBVIOUS
<1>6. ASSUME NEW t \in Tasks
      PROVE  /\ fired'[t] = fired[t]
                \/ /\ fired[t] = NONE /\ pc[t] \in Waiting /\ fired'[t] \in Nat
                   /\ fired'[t] > 0 /\ fired'[t] \in DOMAIN cases[t]
             /\ Of(queue, t) # {} \/ Of(after, t) # {} => fired'[t] # NONE
  <2>1. CASE fired[t] # NONE BY <2>1, <1>4
  <2>2. CASE fired[t] = NONE /\ Of(queue, t) # {}
    <3>1. fired'[t] = Min(Of(queue, t)) BY <2>2, <1>4
    <3>2. fired'[t] \in Of(queue, t) BY <3>1, <2>2, <1>3, <1>5
    <3>3. \A i \in Of(queue, t) : i \in Nat /\ i > 0 /\ i \in DOMAIN cases[t] /\ pc[t] \in Waiting
      BY <1>3, <1>5
    <3> QED BY <3>2, <3>3, <2>2 DEF NONE
  <2>3. CASE fired[t] = NONE /\ Of(queue, t) = {} /\ Of(after, t) # {}
    <3>1. fired'[t] = Min(Of(after, t)) BY <2>3, <1>4
    <3>2. fired'[t] \in Of(after, t) BY <3>1, <2>3, <1>3, <1>5
    <3>3. \A i \in Of(after, t) : i \in Nat /\ i > 0 /\ i \in DOMAIN cases[t] /\ pc[t] \in Waiting
      BY <1>3, <1>5
    <3> QED BY <3>2, <3>3, <2>3 DEF NONE
  <2>4. CASE fired[t] = NONE /\ Of(queue, t) = {} /\ Of(after, t) = {} BY <2>4, <1>4
  <2> QED BY <2>1, <2>2, <2>3, <2>4
<1>7. Claiming
  <2> SUFFICES ASSUME NEW u \in Tasks, fired'[u] # fired[u]
               PROVE  /\ pc[u] = "wait" /\ fired[u] = NONE
                      /\ fired'[u] \in DOMAIN cases[u] \cup {CANCELLED}
    BY DEF Claiming
  <2>1. fired[u] = NONE /\ pc[u] \in Waiting /\ fired'[u] \in DOMAIN cases[u] BY <1>6
  <2> QED BY <2>1, <1>1 DEF CaseInv, Fits, Waiting
<1>8. fired' \in [Tasks -> Int]
  <2>1. \A t \in Tasks : fired'[t] \in Int BY <1>1, <1>6 DEF TypeOK
  <2> QED BY <2>1, <1>4
<1>9. ASSUME NEW w \in queue \cup after PROVE w[1] \in Tasks /\ fired'[w[1]] # NONE
  <2>1. w[1] \in Tasks BY <1>2
  <2>2. w[2] \in Of(queue, w[1]) \/ w[2] \in Of(after, w[1]) BY <2>1, <1>3, <1>5
  <2> QED BY <2>1, <2>2, <1>6
<1> QED BY <1>7, <1>8, <1>9

LEMMA QuietDoes ==
  ASSUME Before, UNCHANGED objectVars
  PROVE  Thins /\ Unready
<1>1. chan' = chan /\ join' = join /\ group' = group BY DEF objectVars
<1> QED BY <1>1, ThinsIf, UnreadyIf

\* What others do under the lock of an object: nothing changes but it and the claims.
LEMMA CompletesDoes ==
  ASSUME Before, NEW j \in Joins, Completes(j)
  PROVE  TypeOK' /\ Thins /\ Claiming /\ Unready
<1>1. TypeOK /\ CaseInv /\ EntryInv BY DEF Before
<1>2. /\ join' = [join EXCEPT ![j].done = TRUE, ![j].waiters = {}]
      /\ ClaimAll(join[j].waiters, {})
      /\ UNCHANGED <<chan, group, lock, taskVars, won, effects, cancelled>>
  BY DEF Completes
<1>3. <<"wait", j>> \in Listed /\ Queue(<<"wait", j>>) = join[j].waiters BY QueueIs
<1>4. /\ Claiming /\ fired' \in [Tasks -> Int]
      /\ \A w \in join[j].waiters : fired'[w[1]] # NONE
  <2>1. \A w \in join[j].waiters \cup {} : \E case \in Listed : w \in Queue(case) BY <1>3
  <2> QED BY <2>1, <1>2, ClaimAllDoes
<1>5. /\ join' \in [Joins -> JoinRec]
      /\ \A k \in Joins : k # j => join'[k] = join[k]
      /\ join'[j].waiters = {}
  <2>1. join \in [Joins -> JoinRec] /\ {} \in Waiters BY <1>1 DEF TypeOK, JoinRec, Waiters
  <2> QED BY <2>1, <1>2 DEF JoinRec
<1>6. TypeOK' BY <1>1, <1>2, <1>4, <1>5 DEF TypeOK, JoinRec, taskVars
<1>7. Thins BY <1>2, <1>4, <1>5, ThinsIf
<1>8. Unready
  <2> SUFFICES ASSUME NEW u \in Tasks, Pending(u), fired'[u] = NONE, NEW k \in DOMAIN cases[u]
               PROVE  /\ Kind(u, k) = "receive" =>
                           chan'[On(u, k)].count = 0 /\ ~chan'[On(u, k)].closed
                      /\ Kind(u, k) = "send" =>
                           chan'[On(u, k)].count >= Capacity[On(u, k)] /\ ~chan'[On(u, k)].closed
                      /\ Kind(u, k) = "wait" => ~join'[On(u, k)].done
                      /\ Kind(u, k) = "next" =>
                           group'[On(u, k)].finished = 0 /\ group'[On(u, k)].running > 0
    BY DEF Unready
  <2>1. ~(Kind(u, k) = "wait" /\ On(u, k) = j)
    <3> SUFFICES ASSUME Kind(u, k) = "wait", On(u, k) = j PROVE FALSE
      OBVIOUS
    <3>1. cases[u][k] = <<"wait", j>> BY PendingIs
    <3>2. \E w \in join[j].waiters : w[1] = u
      BY <3>1, <1>3 DEF Before, WaitInv, Pending
    <3> QED BY <3>2, <1>4
  <2> QED BY <2>1, <1>2, <1>5, PendingIs
<1> QED BY <1>4, <1>6, <1>7, <1>8

LEMMA GroupCompletedDoes ==
  ASSUME Before, NEW g \in Groups, GroupCompleted(g)
  PROVE  TypeOK' /\ Thins /\ Claiming /\ Unready
<1>1. TypeOK /\ CaseInv /\ EntryInv BY DEF Before
<1>2. /\ group[g].running > 0
      /\ group' = [group EXCEPT ![g].running = @ - 1, ![g].finished = @ + 1, ![g].waiters = {}]
      /\ ClaimAll(group[g].waiters, {})
      /\ UNCHANGED <<chan, join, lock, taskVars, won, effects, cancelled>>
  BY DEF GroupCompleted
<1>3. <<"next", g>> \in Listed /\ Queue(<<"next", g>>) = group[g].waiters BY QueueIs
<1>4. /\ Claiming /\ fired' \in [Tasks -> Int]
      /\ \A w \in group[g].waiters : fired'[w[1]] # NONE
  <2>1. \A w \in group[g].waiters \cup {} : \E case \in Listed : w \in Queue(case) BY <1>3
  <2> QED BY <2>1, <1>2, ClaimAllDoes
<1>5. /\ group' \in [Groups -> GroupRec]
      /\ \A h \in Groups : h # g => group'[h] = group[h]
      /\ group'[g].waiters = {}
  <2>1. /\ group \in [Groups -> GroupRec] /\ {} \in Waiters
        /\ group[g].running \in Nat /\ group[g].finished \in Nat
    BY <1>1 DEF TypeOK, GroupRec, Waiters
  <2>2. group[g].running - 1 \in Nat /\ group[g].finished + 1 \in Nat BY <2>1, <1>2
  <2>3. group'[g] = [group[g] EXCEPT !.running = group[g].running - 1,
                       !.finished = group[g].finished + 1, !.waiters = {}]
    BY <2>1, <1>2 DEF GroupRec
  <2>4. group'[g] \in GroupRec /\ group'[g].waiters = {} BY <2>1, <2>2, <2>3 DEF GroupRec
  <2>5. DOMAIN group' = Groups /\ \A h \in Groups : h # g => group'[h] = group[h] BY <2>1, <1>2
  <2>6. group' = [h \in Groups |-> group'[h]] BY <2>1, <1>2
  <2> QED BY <2>1, <2>4, <2>5, <2>6
<1>6. \A h \in Groups : \A w, v \in group'[h].waiters : w = v BY <1>1, <1>5 DEF TypeOK
<1>7. TypeOK' BY <1>1, <1>2, <1>4, <1>5, <1>6 DEF TypeOK, GroupRec, taskVars
<1>8. Thins BY <1>2, <1>4, <1>5, ThinsIf
<1>9. Unready
  <2> SUFFICES ASSUME NEW u \in Tasks, Pending(u), fired'[u] = NONE, NEW k \in DOMAIN cases[u]
               PROVE  /\ Kind(u, k) = "receive" =>
                           chan'[On(u, k)].count = 0 /\ ~chan'[On(u, k)].closed
                      /\ Kind(u, k) = "send" =>
                           chan'[On(u, k)].count >= Capacity[On(u, k)] /\ ~chan'[On(u, k)].closed
                      /\ Kind(u, k) = "wait" => ~join'[On(u, k)].done
                      /\ Kind(u, k) = "next" =>
                           group'[On(u, k)].finished = 0 /\ group'[On(u, k)].running > 0
    BY DEF Unready
  <2>1. ~(Kind(u, k) = "next" /\ On(u, k) = g)
    <3> SUFFICES ASSUME Kind(u, k) = "next", On(u, k) = g PROVE FALSE
      OBVIOUS
    <3>1. cases[u][k] = <<"next", g>> BY PendingIs
    <3>2. \E w \in group[g].waiters : w[1] = u
      BY <3>1, <1>3 DEF Before, WaitInv, Pending
    <3> QED BY <3>2, <1>4
  <2> QED BY <2>1, <1>2, <1>5, PendingIs
<1> QED BY <1>4, <1>7, <1>8, <1>9

LEMMA CloseWaitsDoes ==
  ASSUME Before, NEW c \in Channels, CloseWaits(c)
  PROVE  TypeOK' /\ Thins /\ Claiming /\ Unready
<1>1. TypeOK /\ CaseInv /\ EntryInv BY DEF Before
<1>2. /\ chan' = [chan EXCEPT ![c].closed = TRUE, ![c].receiving = {}, ![c].sending = {}]
      /\ ClaimAll(chan[c].receiving, chan[c].sending)
      /\ UNCHANGED <<join, group, lock, taskVars, won, effects, cancelled>>
  BY DEF CloseWaits
<1>3. /\ <<"receive", c>> \in Listed /\ Queue(<<"receive", c>>) = chan[c].receiving
      /\ <<"send", c>> \in Listed /\ Queue(<<"send", c>>) = chan[c].sending
  BY QueueIs
<1>4. /\ Claiming /\ fired' \in [Tasks -> Int]
      /\ \A w \in chan[c].receiving \cup chan[c].sending : fired'[w[1]] # NONE
  <2>1. \A w \in chan[c].receiving \cup chan[c].sending : \E case \in Listed : w \in Queue(case)
    BY <1>3
  <2> QED BY <2>1, <1>2, ClaimAllDoes
<1>5. /\ chan' \in [Channels -> ChanRec]
      /\ \A d \in Channels : d # c => chan'[d] = chan[d]
      /\ chan'[c].receiving = {} /\ chan'[c].sending = {}
  <2>1. chan \in [Channels -> ChanRec] /\ {} \in Waiters BY <1>1 DEF TypeOK, ChanRec, Waiters
  <2> QED BY <2>1, <1>2 DEF ChanRec
<1>6. TypeOK' BY <1>1, <1>2, <1>4, <1>5 DEF TypeOK, ChanRec, taskVars
<1>7. Thins BY <1>2, <1>4, <1>5, ThinsIf
<1>8. Unready
  <2> SUFFICES ASSUME NEW u \in Tasks, Pending(u), fired'[u] = NONE, NEW k \in DOMAIN cases[u]
               PROVE  /\ Kind(u, k) = "receive" =>
                           chan'[On(u, k)].count = 0 /\ ~chan'[On(u, k)].closed
                      /\ Kind(u, k) = "send" =>
                           chan'[On(u, k)].count >= Capacity[On(u, k)] /\ ~chan'[On(u, k)].closed
                      /\ Kind(u, k) = "wait" => ~join'[On(u, k)].done
                      /\ Kind(u, k) = "next" =>
                           group'[On(u, k)].finished = 0 /\ group'[On(u, k)].running > 0
    BY DEF Unready
  <2>1. ASSUME Kind(u, k) \in {"receive", "send"}, On(u, k) = c PROVE FALSE
    <3>1. cases[u][k] = <<Kind(u, k), c>> BY <2>1, PendingIs
    <3>2. \E w \in chan[c].receiving \cup chan[c].sending : w[1] = u
      <4>1. CASE Kind(u, k) = "receive" BY <4>1, <3>1, <1>3 DEF Before, WaitInv, Pending
      <4>2. CASE Kind(u, k) = "send" BY <4>2, <3>1, <1>3 DEF Before, WaitInv, Pending
      <4> QED BY <4>1, <4>2, <2>1
    <3> QED BY <3>2, <1>4
  <2> QED BY <2>1, <1>2, <1>5, PendingIs
<1> QED BY <1>4, <1>6, <1>7, <1>8

-----------------------------------------------------------------------------
(* What keeps the invariant. *)

\* A step in which nobody begins to wait.
LEMMA ThinStep ==
  ASSUME Before, Thins, Unready,
         \A u \in Tasks : pc[u] \in Waiting /\ fired'[u] = NONE => fired[u] = NONE,
         \A u \in Tasks : pc'[u] = "wait" => pc[u] = "wait",
         \A u \in Tasks : pc[u] \in Waiting => cases'[u] = cases[u],
         \A case \in Listed : \A w \in Queue(case)' : pc'[w[1]] \in Waiting
  PROVE  EntryInv' /\ WaitInv' /\ NoneMissed'
<1>1. TypeOK /\ CaseInv /\ EntryInv /\ WaitInv BY DEF Before
<1>2. ASSUME NEW case \in Listed, NEW w \in Queue(case)'
      PROVE  /\ w \in Queue(case) /\ w[1] \in Tasks /\ pc[w[1]] \in Waiting
             /\ pc'[w[1]] \in Waiting
             /\ w[2] \in DOMAIN cases'[w[1]] /\ cases'[w[1]][w[2]] = case
  <2>1. w \in Queue(case) BY DEF Thins
  <2>2. /\ w[1] \in Tasks /\ pc[w[1]] \in Waiting
        /\ w[2] \in DOMAIN cases[w[1]] /\ cases[w[1]][w[2]] = case
    BY <2>1, <1>1 DEF EntryInv
  <2> QED BY <2>1, <2>2
<1>3. EntryInv' BY <1>2 DEF EntryInv
<1>4. ASSUME NEW u \in Tasks, pc'[u] = "wait", fired'[u] = NONE
      PROVE  Pending(u) /\ cases'[u] = cases[u]
  BY <1>4 DEF Pending, Waiting
<1>5. WaitInv'
  <2>1. ASSUME NEW u \in Tasks, pc'[u] = "wait", fired'[u] = NONE,
               NEW i \in DOMAIN cases'[u], NEW case \in Listed, cases'[u][i] = case
        PROVE  \E w \in Queue(case)' : w[1] = u
    <3>1. Pending(u) /\ cases[u][i] = case /\ i \in DOMAIN cases[u] BY <2>1, <1>4
    <3>2. PICK w \in Queue(case) : w[1] = u BY <3>1, <1>1 DEF WaitInv, Pending
    <3>3. w \in Queue(case)' BY <2>1, <3>1, <3>2 DEF Thins, Pending
    <3> QED BY <3>2, <3>3
  <2>2. ASSUME NEW u \in Tasks, pc'[u] = "wait", fired'[u] = NONE,
               NEW i \in DOMAIN cases'[u], cases'[u][i] \in Listed
        PROVE  (\E w \in Queue(cases[u][i]) : w[1] = u)'
    <3>1. PICK case \in Listed : cases'[u][i] = case BY <2>2
    <3>2. \E w \in Queue(case)' : w[1] = u BY <2>1, <2>2, <3>1
    <3> QED BY <3>1, <3>2 DEF Queue
  <2> QED BY <2>2 DEF WaitInv
<1>6. ASSUME NEW u \in Tasks, NEW kind \in {"receive", "send"}, NEW o \in Channels,
             Unclaimed(Without(Queue(<<kind, o>>), u)) = {}
      PROVE  \A w \in Queue(<<kind, o>>)' : w[1] = u \/ fired'[w[1]] # NONE
  <2> SUFFICES ASSUME NEW w \in Queue(<<kind, o>>)', w[1] # u, fired'[w[1]] = NONE PROVE FALSE
    OBVIOUS
  <2>1. <<kind, o>> \in Listed BY QueueIs
  <2>2. w \in Queue(<<kind, o>>) /\ w[1] \in Tasks /\ pc[w[1]] \in Waiting BY <2>1, <1>2
  <2>3. w \in Unclaimed(Without(Queue(<<kind, o>>), u)) BY <2>2 DEF Unclaimed, Without
  <2> QED BY <2>3, <1>6
<1>7. NoneMissed'
  <2>1. ASSUME NEW u \in Tasks, pc'[u] = "wait", fired'[u] = NONE, NEW i \in DOMAIN cases'[u],
               NEW kind, NEW o, Kind(u, i)' = kind, On(u, i)' = o
        PROVE  /\ kind = "receive" =>
                    /\ chan'[o].count = 0 /\ ~chan'[o].closed
                    /\ \A w \in chan'[o].sending : w[1] = u \/ fired'[w[1]] # NONE
               /\ kind = "send" =>
                    /\ chan'[o].count >= Capacity[o] /\ ~chan'[o].closed
                    /\ \A w \in chan'[o].receiving : w[1] = u \/ fired'[w[1]] # NONE
               /\ kind = "wait" => ~join'[o].done
               /\ kind = "next" => group'[o].finished = 0 /\ group'[o].running > 0
    <3>1. Pending(u) /\ cases'[u] = cases[u] BY <2>1, <1>4
    <3>2. i \in DOMAIN cases[u] /\ o = On(u, i) /\ kind = Kind(u, i)
      BY <2>1, <3>1 DEF On, Kind
    <3>3. /\ kind = "receive" => chan'[o].count = 0 /\ ~chan'[o].closed
          /\ kind = "send" => chan'[o].count >= Capacity[o] /\ ~chan'[o].closed
          /\ kind = "wait" => ~join'[o].done
          /\ kind = "next" => group'[o].finished = 0 /\ group'[o].running > 0
      BY <2>1, <3>1, <3>2 DEF Unready
    <3>4. ASSUME kind = "receive"
          PROVE  \A w \in chan'[o].sending : w[1] = u \/ fired'[w[1]] # NONE
      <4>1. o \in Channels /\ Unclaimed(Without(chan[o].sending, u)) = {}
        BY <3>1, <3>2, <3>4, PendingIs
      <4>2. Queue(<<"send", o>>) = chan[o].sending /\ Queue(<<"send", o>>)' = chan'[o].sending
        BY <4>1, QueueIs, NextQueueIs
      <4> QED BY <4>1, <4>2, <1>6
    <3>5. ASSUME kind = "send"
          PROVE  \A w \in chan'[o].receiving : w[1] = u \/ fired'[w[1]] # NONE
      <4>1. o \in Channels /\ Unclaimed(Without(chan[o].receiving, u)) = {}
        BY <3>1, <3>2, <3>5, PendingIs
      <4>2. Queue(<<"receive", o>>) = chan[o].receiving
            /\ Queue(<<"receive", o>>)' = chan'[o].receiving
        BY <4>1, QueueIs, NextQueueIs
      <4> QED BY <4>1, <4>2, <1>6
    <3> QED BY <3>3, <3>4, <3>5
  <2> QED BY <2>1 DEF NoneMissed, Kind, On, Unclaimed, Without
<1> QED BY <1>3, <1>5, <1>7

\* A wait enters: what it waits for is not there, and who waits for it does not pass.
LEMMA EnlistStep ==
  ASSUME Before, NEW t \in Tasks, Enlists(t)
  PROVE  EntryInv' /\ WaitInv' /\ NoneMissed'
<1>1. TypeOK /\ CaseInv /\ EntryInv /\ WaitInv BY DEF Before
<1>2. /\ Alone(t) /\ Unready
      /\ pc[t] = "lock" /\ pc'[t] = "wait" /\ how[t] = "block" /\ cases' = cases /\ fired' = fired
      /\ Looked(t) = cases[t] /\ \A i \in DOMAIN cases[t] : ~Ready(t, i)
      /\ \A c \in Channels : chan'[c].count = chan[c].count /\ chan'[c].closed = chan[c].closed
      /\ \A j \in Joins : join'[j].done = join[j].done
      /\ \A g \in Groups : /\ group'[g].finished = group[g].finished
                           /\ group'[g].running = group[g].running
  BY EnlistsDoes
<1>3. ASSUME NEW case \in Listed
      PROVE  /\ \A w \in Queue(case)' : w \in Queue(case) \/ \E i \in Indexes(t, case[1], case[2]) : w = <<t, i>>
             /\ \A w \in Queue(case) : pc[w[1]] = "wait" /\ fired[w[1]] = NONE => w \in Queue(case)'
             /\ \A i \in DOMAIN cases[t] : cases[t][i] = case => \E w \in Queue(case)' : w[1] = t
  BY EnlistsDoes
<1>4. /\ \A u \in Tasks \ {t} : pc'[u] = pc[u]
      /\ \A u \in Tasks : pc[u] \in Waiting => pc'[u] \in Waiting
  BY <1>2 DEF Alone, Waiting
<1>5. ASSUME NEW case \in Listed, NEW w \in Queue(case)'
      PROVE  /\ \/ w \in Queue(case) /\ w[1] # t
                \/ w[1] = t /\ w[2] \in DOMAIN cases[t] /\ cases[t][w[2]] = case
             /\ w[1] \in Tasks /\ pc'[w[1]] \in Waiting
             /\ w[2] \in DOMAIN cases[w[1]] /\ cases[w[1]][w[2]] = case
  <2>1. CASE w \in Queue(case)
    <3>1. /\ w[1] \in Tasks /\ pc[w[1]] \in Waiting
          /\ w[2] \in DOMAIN cases[w[1]] /\ cases[w[1]][w[2]] = case
      BY <2>1, <1>1 DEF EntryInv
    <3>2. w[1] # t BY <3>1, <1>2 DEF Waiting
    <3> QED BY <2>1, <3>1, <3>2, <1>4
  <2>2. CASE w \notin Queue(case)
    <3>1. PICK i \in Indexes(t, case[1], case[2]) : w = <<t, i>> BY <2>2, <1>3
    <3>2. case \in Cases BY DEF Listed
    <3>3. case = <<case[1], case[2]>> BY <3>2, KindIs
    <3>4. i \in DOMAIN cases[t] /\ cases[t][i] = case BY <3>1, <3>3, <1>2 DEF Indexes
    <3>5. w[1] = t /\ w[2] = i BY <3>1
    <3> QED BY <3>4, <3>5, <1>2 DEF Waiting
  <2> QED BY <2>1, <2>2
<1>6. EntryInv' BY <1>2, <1>5 DEF EntryInv
<1>7. WaitInv'
  <2>1. ASSUME NEW u \in Tasks, pc'[u] = "wait", fired'[u] = NONE,
               NEW i \in DOMAIN cases[u], NEW case \in Listed, cases[u][i] = case
        PROVE  \E w \in Queue(case)' : w[1] = u
    <3>1. CASE u = t BY <3>1, <2>1, <1>3
    <3>2. CASE u # t
      <4>1. pc[u] = "wait" /\ fired[u] = NONE BY <2>1, <3>2, <1>2, <1>4
      <4>2. PICK w \in Queue(case) : w[1] = u BY <2>1, <4>1, <1>1 DEF WaitInv
      <4> QED BY <4>1, <4>2, <1>3
    <3> QED BY <3>1, <3>2
  <2>2. ASSUME NEW u \in Tasks, pc'[u] = "wait", fired'[u] = NONE,
               NEW i \in DOMAIN cases'[u], cases'[u][i] \in Listed
        PROVE  (\E w \in Queue(cases[u][i]) : w[1] = u)'
    <3>1. PICK case \in Listed : cases'[u][i] = case BY <2>2
    <3>2. \E w \in Queue(case)' : w[1] = u BY <2>1, <2>2, <3>1, <1>2
    <3> QED BY <3>1, <3>2 DEF Queue
  <2> QED BY <2>2 DEF WaitInv
\* Two that could meet do not both wait: of the pair the second would have been ready.
<1>8. ASSUME NEW u \in Tasks, pc'[u] = "wait", fired'[u] = NONE, NEW i \in DOMAIN cases[u],
             NEW c \in Channels,
             NEW kind \in {"receive", "send"}, NEW against \in {"receive", "send"}, kind # against,
             cases[u][i] = <<kind, c>>
      PROVE  \A w \in Queue(<<against, c>>)' : w[1] = u \/ fired'[w[1]] # NONE
  <2> SUFFICES ASSUME NEW w \in Queue(<<against, c>>)', w[1] # u, fired'[w[1]] = NONE PROVE FALSE
    OBVIOUS
  <2>1. <<against, c>> \in Listed /\ <<kind, c>> \in Listed BY QueueIs
  <2>2. /\ Queue(<<"receive", c>>) = chan[c].receiving /\ Queue(<<"send", c>>) = chan[c].sending
    BY QueueIs
  <2>3. ASSUME NEW k \in DOMAIN cases[t], NEW here \in {"receive", "send"},
               NEW there \in {"receive", "send"}, here # there, cases[t][k] = <<here, c>>
        PROVE  \A v \in Queue(<<there, c>>) : fired[v[1]] # NONE
    <3>1. ~Ready(t, k) /\ Kind(t, k) = here /\ On(t, k) = c BY <2>3, <1>2 DEF Kind, On
    <3>2. CASE here = "receive"
      <4>1. there = "send" /\ Unclaimed(chan[c].sending) = {} BY <2>3, <3>1, <3>2 DEF Ready
      <4> QED BY <4>1, <2>2 DEF Unclaimed
    <3>3. CASE here = "send"
      <4>1. there = "receive" /\ Unclaimed(chan[c].receiving) = {} BY <2>3, <3>1, <3>3 DEF Ready
      <4> QED BY <4>1, <2>2 DEF Unclaimed
    <3> QED BY <3>2, <3>3
  <2>4. CASE u = t
    <3>1. w \in Queue(<<against, c>>) BY <2>1, <2>4, <1>5
    <3> QED BY <3>1, <2>3, <2>4, <1>2, <1>8
  <2>5. CASE w[1] = t
    <3>1. w[2] \in DOMAIN cases[t] /\ cases[t][w[2]] = <<against, c>> BY <2>1, <2>5, <1>5
    <3>2. u # t /\ pc[u] = "wait" /\ fired[u] = NONE BY <2>5, <1>2, <1>4, <1>8
    <3>3. PICK v \in Queue(<<kind, c>>) : v[1] = u BY <3>2, <2>1, <1>1, <1>8 DEF WaitInv
    <3> QED BY <3>1, <3>2, <3>3, <2>3, <1>8
  <2>6. CASE u # t /\ w[1] # t
    <3>1. w \in Queue(<<against, c>>) BY <2>1, <2>6, <1>5
    <3>2. Pending(u) BY <2>6, <1>2, <1>4, <1>8 DEF Pending
    <3>3. Kind(u, i) = kind /\ On(u, i) = c BY <1>8 DEF Kind, On
    <3>4. w \in Unclaimed(Without(Queue(<<against, c>>), u)) BY <3>1, <1>2 DEF Unclaimed, Without
    <3>5. CASE kind = "receive"
      <4>1. against = "send" BY <3>5, <1>8
      <4> QED BY <4>1, <3>2, <3>3, <3>4, <3>5, <2>2, PendingIs
    <3>6. CASE kind = "send"
      <4>1. against = "receive" BY <3>6, <1>8
      <4> QED BY <4>1, <3>2, <3>3, <3>4, <3>6, <2>2, PendingIs
    <3> QED BY <3>5, <3>6
  <2> QED BY <2>4, <2>5, <2>6
<1>9. NoneMissed'
  <2>1. ASSUME NEW u \in Tasks, pc'[u] = "wait", fired'[u] = NONE, NEW i \in DOMAIN cases'[u],
               NEW kind, NEW o, Kind(u, i)' = kind, On(u, i)' = o
        PROVE  /\ kind = "receive" =>
                    /\ chan'[o].count = 0 /\ ~chan'[o].closed
                    /\ \A w \in chan'[o].sending : w[1] = u \/ fired'[w[1]] # NONE
               /\ kind = "send" =>
                    /\ chan'[o].count >= Capacity[o] /\ ~chan'[o].closed
                    /\ \A w \in chan'[o].receiving : w[1] = u \/ fired'[w[1]] # NONE
               /\ kind = "wait" => ~join'[o].done
               /\ kind = "next" => group'[o].finished = 0 /\ group'[o].running > 0
    <3>1. i \in DOMAIN cases[u] /\ o = On(u, i) /\ kind = Kind(u, i) /\ cases[u][i] = <<kind, o>>
      <4>1. i \in DOMAIN cases[u] /\ o = On(u, i) /\ kind = Kind(u, i)
        BY <2>1, <1>2 DEF Kind, On
      <4> QED BY <4>1, <1>1, CaseIs
    <3>2. /\ kind \in {"receive", "send"} => o \in Channels
          /\ kind = "wait" => o \in Joins
          /\ kind = "next" => o \in Groups
      <4>1. cases[u][i] \in Cases /\ cases[u][i][1] = kind /\ cases[u][i][2] = o
        BY <3>1, <1>1, CaseIs DEF Kind, On
      <4> QED BY <4>1, KindIs
    <3>3. /\ kind = "receive" => chan'[o].count = 0 /\ ~chan'[o].closed
          /\ kind = "send" => chan'[o].count >= Capacity[o] /\ ~chan'[o].closed
          /\ kind = "wait" => ~join'[o].done
          /\ kind = "next" => group'[o].finished = 0 /\ group'[o].running > 0
      <4>1. CASE u # t
        <5>1. Pending(u) BY <4>1, <2>1, <1>2, <1>4 DEF Pending
        <5> QED BY <5>1, <2>1, <3>1, <1>2 DEF Unready
      <4>2. CASE u = t
        <5>1. ~Ready(t, i) BY <4>2, <3>1, <1>2
        <5>2. /\ kind = "receive" => ~(chan[o].count > 0) /\ ~chan[o].closed
              /\ kind = "send" => ~(chan[o].count < Capacity[o]) /\ ~chan[o].closed
              /\ kind = "wait" => ~join[o].done
              /\ kind = "next" => ~(group[o].finished > 0) /\ group[o].running # 0
          BY <4>2, <5>1, <3>1 DEF Ready
        <5>3. /\ o \in Channels => chan[o].count \in Nat /\ Capacity[o] \in Nat
              /\ o \in Groups => group[o].finished \in Nat /\ group[o].running \in Nat
          BY <1>1, SelectAssumption DEF TypeOK
        <5> QED BY <5>2, <5>3, <3>2, <1>2
      <4> QED BY <4>1, <4>2
    <3>4. ASSUME kind = "receive"
          PROVE  \A w \in chan'[o].sending : w[1] = u \/ fired'[w[1]] # NONE
      <4>1. o \in Channels /\ cases[u][i] = <<"receive", o>> BY <3>1, <3>2, <3>4
      <4>2. Queue(<<"send", o>>)' = chan'[o].sending BY <4>1, NextQueueIs
      <4> QED BY <4>1, <4>2, <2>1, <3>1, <1>8
    <3>5. ASSUME kind = "send"
          PROVE  \A w \in chan'[o].receiving : w[1] = u \/ fired'[w[1]] # NONE
      <4>1. o \in Channels /\ cases[u][i] = <<"send", o>> BY <3>1, <3>2, <3>5
      <4>2. Queue(<<"receive", o>>)' = chan'[o].receiving BY <4>1, NextQueueIs
      <4> QED BY <4>1, <4>2, <2>1, <3>1, <1>8
    <3> QED BY <3>3, <3>4, <3>5
  <2> QED BY <2>1 DEF NoneMissed, Kind, On, Unclaimed, Without
<1> QED BY <1>6, <1>7, <1>9

\* One case completes for `t`: the body of OneEffect.
OneOf(t) ==
  LET chosen == IF pc[t] = "idle" THEN won[t] ELSE fired[t] IN
    /\ effects[t] \subseteq {chosen}
    /\ pc[t] = "idle" /\ won[t] > 0 /\ Kind(t, won[t]) \in {"send", "wait"}
         => effects[t] = {won[t]}

\* Whoever is claimed, or nothing happens to.
LEMMA OthersKeep ==
  ASSUME TypeOK, CaseInv, EffectInv, OneEffect, Claiming, NEW u \in Tasks,
         pc'[u] = pc[u], cases'[u] = cases[u], how'[u] = how[u], won'[u] = won[u],
         \/ effects'[u] = effects[u]
         \/ fired'[u] # fired[u] /\ effects'[u] = effects[u] \cup {fired'[u]}
  PROVE  Fits(u)' /\ Does(u)' /\ OneOf(u)'
<1>1. Fits(u) /\ Does(u) /\ OneOf(u) BY DEF CaseInv, EffectInv, OneEffect, OneOf
<1>2. CASE fired'[u] = fired[u]
  BY <1>1, <1>2 DEF Fits, Does, OneOf, Kind
<1>3. CASE fired'[u] # fired[u]
  <2>1. /\ pc[u] = "wait" /\ fired[u] = NONE /\ fired'[u] \in DOMAIN cases[u] \cup {CANCELLED}
    BY <1>3 DEF Claiming
  <2>2. fired'[u] # NONE
    <3>1. \A i \in DOMAIN cases[u] : i > 0 BY CaseIs
    <3> QED BY <3>1, <2>1 DEF NONE, CANCELLED
  <2>3. effects[u] = {} BY <1>1, <2>1 DEF Does, Waiting
  <2>4. effects'[u] \subseteq {fired'[u]} \ {NONE} BY <2>2, <2>3
  <2> QED BY <1>1, <2>1, <2>2, <2>4 DEF Fits, Does, OneOf, Waiting
<1> QED BY <1>2, <1>3

\* A step of `t`, for which the three hold.
LEMMA OwnStep ==
  ASSUME TypeOK, CaseInv, EffectInv, OneEffect, NEW t \in Tasks,
         Claiming, Doing(t), Alone(t), Fits(t)', Does(t)', OneOf(t)'
  PROVE  CaseInv' /\ EffectInv' /\ OneEffect'
<1>1. ASSUME NEW u \in Tasks, u # t PROVE Fits(u)' /\ Does(u)' /\ OneOf(u)'
  BY <1>1, OthersKeep DEF Alone, Doing
<1>2. \A u \in Tasks : Fits(u)' /\ Does(u)' /\ OneOf(u)' BY <1>1
<1> QED BY <1>2 DEF CaseInv, EffectInv, OneEffect, OneOf

\* A step of nobody's select, but for claims.
LEMMA OthersStep ==
  ASSUME TypeOK, CaseInv, EffectInv, OneEffect, Claiming, UNCHANGED <<taskVars, won, effects>>
  PROVE  CaseInv' /\ EffectInv' /\ OneEffect'
<1>1. \A u \in Tasks : Fits(u)' /\ Does(u)' /\ OneOf(u)' BY OthersKeep DEF taskVars
<1> QED BY <1>1 DEF CaseInv, EffectInv, OneEffect, OneOf

Inv == TypeOK /\ CaseInv /\ EntryInv /\ EffectInv /\ WaitInv /\ NoneMissed /\ OneEffect

\* A step of `t` in which nobody begins to wait.
LEMMA NobodyEnters ==
  ASSUME Before, Thins, Unready, Claiming, NEW t \in Tasks, Alone(t),
         pc'[t] = "wait" => pc[t] = "wait",
         pc[t] \in Waiting =>
           /\ cases'[t] = cases[t]
           /\ pc'[t] \in Waiting \/ \A case \in Listed : \A w \in Queue(case)' : w[1] # t
  PROVE  EntryInv' /\ WaitInv' /\ NoneMissed'
<1>1. \A u \in Tasks : /\ pc[u] \in Waiting /\ fired'[u] = NONE => fired[u] = NONE
                       /\ pc'[u] = "wait" => pc[u] = "wait"
                       /\ pc[u] \in Waiting => cases'[u] = cases[u]
                       /\ pc[u] \in Waiting /\ u # t => pc'[u] \in Waiting
  BY DEF Claiming, Alone
<1>2. \A case \in Listed : \A w \in Queue(case)' : w[1] \in Tasks /\ pc[w[1]] \in Waiting
  BY DEF Thins, EntryInv, Before
<1>3. \A case \in Listed : \A w \in Queue(case)' : pc'[w[1]] \in Waiting BY <1>1, <1>2
<1> QED BY <1>1, <1>3, ThinStep

\* The steps of `t`, which returns, or stays under the locks, or leaves.
LEMMA ReceivesKeeps ==
  ASSUME Inv, NEW t \in Tasks, Receives(t)
  PROVE  Inv'
<1>1. Before /\ TypeOK /\ CaseInv /\ EffectInv /\ OneEffect BY DEF Inv, Before
<1>2. pc[t] = "lock" /\ Fits(t) /\ effects[t] = {}
  BY <1>1 DEF Receives, LooksAt, CaseInv, EffectInv, Does
<1>3. /\ TypeOK' /\ Thins /\ Claiming /\ Doing(t) /\ Alone(t) /\ Unready
      /\ pc'[t] = "idle" /\ fired'[t] = fired[t] /\ cases'[t] = cases[t] /\ how'[t] = how[t]
      /\ \E i \in DOMAIN cases[t] :
           /\ won'[t] = i /\ Kind(t, i) = "receive"
           /\ effects'[t] = {i} \/ effects'[t] = effects[t]
  BY <1>1, ReceivesDoes
<1>4. Fits(t)' /\ Does(t)' BY <1>2, <1>3 DEF Fits, Does, Waiting
<1>5. OneOf(t)' BY <1>2, <1>3 DEF OneOf, Kind
<1>6. CaseInv' /\ EffectInv' /\ OneEffect' BY <1>1, <1>3, <1>4, <1>5, OwnStep
<1>7. EntryInv' /\ WaitInv' /\ NoneMissed' BY <1>1, <1>2, <1>3, NobodyEnters DEF Waiting
<1> QED BY <1>3, <1>6, <1>7 DEF Inv

LEMMA SendsKeeps ==
  ASSUME Inv, NEW t \in Tasks, Sends(t)
  PROVE  Inv'
<1>1. Before /\ TypeOK /\ CaseInv /\ EffectInv /\ OneEffect BY DEF Inv, Before
<1>2. pc[t] = "lock" /\ Fits(t)
  BY <1>1 DEF Sends, LooksAt, CaseInv
<1>3. /\ TypeOK' /\ Thins /\ Claiming /\ Doing(t) /\ Alone(t) /\ Unready
      /\ pc'[t] = "idle" /\ fired'[t] = fired[t] /\ cases'[t] = cases[t] /\ how'[t] = how[t]
      /\ \E i \in DOMAIN cases[t] :
           won'[t] = i /\ Kind(t, i) = "send" /\ effects'[t] = {i}
  BY <1>1, SendsDoes
<1>4. Fits(t)' /\ Does(t)' BY <1>2, <1>3 DEF Fits, Does, Waiting
<1>5. OneOf(t)' BY <1>3 DEF OneOf
<1>6. CaseInv' /\ EffectInv' /\ OneEffect' BY <1>1, <1>3, <1>4, <1>5, OwnStep
<1>7. EntryInv' /\ WaitInv' /\ NoneMissed' BY <1>1, <1>2, <1>3, NobodyEnters DEF Waiting
<1> QED BY <1>3, <1>6, <1>7 DEF Inv

LEMMA SendRaisesKeeps ==
  ASSUME Inv, NEW t \in Tasks, SendRaises(t)
  PROVE  Inv'
<1>1. Before /\ TypeOK /\ CaseInv /\ EffectInv /\ OneEffect BY DEF Inv, Before
<1>2. pc[t] = "lock" /\ Fits(t) /\ effects[t] = {}
  BY <1>1 DEF SendRaises, LooksAt, CaseInv, EffectInv, Does
<1>3. /\ TypeOK' /\ Thins /\ Claiming /\ Doing(t) /\ Alone(t) /\ Unready
      /\ pc'[t] = "idle" /\ fired' = fired /\ effects' = effects /\ cases'[t] = cases[t]
      /\ won'[t] < 0 /\ how'[t] = how[t]
  BY <1>1, SendRaisesDoes
<1>4. Fits(t)' /\ Does(t)' BY <1>2, <1>3 DEF Fits, Does, Waiting
<1>5. OneOf(t)'
  <2>1. ~(won'[t] > 0) BY <1>3 DEF TypeOK
  <2> QED BY <2>1, <1>2, <1>3 DEF OneOf
<1>6. CaseInv' /\ EffectInv' /\ OneEffect' BY <1>1, <1>3, <1>4, <1>5, OwnStep
<1>7. EntryInv' /\ WaitInv' /\ NoneMissed' BY <1>1, <1>2, <1>3, NobodyEnters DEF Waiting
<1> QED BY <1>3, <1>6, <1>7 DEF Inv

LEMMA TakesKeeps ==
  ASSUME Inv, NEW t \in Tasks, Takes(t)
  PROVE  Inv'
<1>1. Before /\ TypeOK /\ CaseInv /\ EffectInv /\ OneEffect BY DEF Inv, Before
<1>2. pc[t] = "lock" /\ Fits(t) /\ effects[t] = {}
  BY <1>1 DEF Takes, LooksAt, CaseInv, EffectInv, Does
<1>3. /\ TypeOK' /\ Thins /\ Claiming /\ Doing(t) /\ Alone(t) /\ Unready
      /\ pc'[t] = "idle" /\ fired' = fired /\ cases'[t] = cases[t] /\ how'[t] = how[t]
      /\ \E i \in DOMAIN cases[t] :
           /\ won'[t] = i /\ Kind(t, i) # "send"
           /\ effects'[t] \in {effects[t], effects[t] \cup {i}}
           /\ Kind(t, i) = "wait" => effects'[t] = effects[t] \cup {i}
  BY <1>1, TakesDoes
<1>4. Fits(t)' /\ Does(t)' BY <1>2, <1>3 DEF Fits, Does, Waiting
<1>5. OneOf(t)' BY <1>2, <1>3 DEF OneOf, Kind
<1>6. CaseInv' /\ EffectInv' /\ OneEffect' BY <1>1, <1>3, <1>4, <1>5, OwnStep
<1>7. EntryInv' /\ WaitInv' /\ NoneMissed' BY <1>1, <1>2, <1>3, NobodyEnters DEF Waiting
<1> QED BY <1>3, <1>6, <1>7 DEF Inv

LEMMA GivesUpKeeps ==
  ASSUME Inv, NEW t \in Tasks, GivesUp(t)
  PROVE  Inv'
<1>1. Before /\ TypeOK /\ CaseInv /\ EffectInv /\ OneEffect BY DEF Inv, Before
<1>2. pc[t] = "lock" /\ Fits(t) /\ effects[t] = {}
  BY <1>1 DEF GivesUp, LooksAt, CaseInv, EffectInv, Does
<1>3. /\ TypeOK' /\ Thins /\ Claiming /\ Doing(t) /\ Alone(t) /\ Unready
      /\ fired' = fired /\ effects' = effects /\ cases'[t] = cases[t]
      /\ \/ pc'[t] = "idle" /\ won'[t] < 0 /\ how'[t] = how[t]
         \/ pc'[t] = "lock" /\ how'[t] = "block"
  BY <1>1, GivesUpDoes
<1>4. Fits(t)' /\ Does(t)' BY <1>2, <1>3 DEF Fits, Does, Waiting
<1>5. OneOf(t)'
  <2>1. pc'[t] = "idle" => ~(won'[t] > 0) BY <1>3 DEF TypeOK
  <2> QED BY <2>1, <1>2, <1>3 DEF OneOf
<1>6. CaseInv' /\ EffectInv' /\ OneEffect' BY <1>1, <1>3, <1>4, <1>5, OwnStep
<1>7. EntryInv' /\ WaitInv' /\ NoneMissed' BY <1>1, <1>2, <1>3, NobodyEnters DEF Waiting
<1> QED BY <1>3, <1>6, <1>7 DEF Inv

LEMMA EnlistsKeeps ==
  ASSUME Inv, NEW t \in Tasks, Enlists(t)
  PROVE  Inv'
<1>1. Before /\ TypeOK /\ CaseInv /\ EffectInv /\ OneEffect BY DEF Inv, Before
<1>2. /\ TypeOK' /\ Alone(t) /\ Unready
      /\ pc[t] = "lock" /\ pc'[t] = "wait" /\ how[t] = "block" /\ how' = how /\ cases' = cases
      /\ fired' = fired /\ effects' = effects
  BY <1>1, EnlistsDoes
<1>3. Fits(t) /\ effects[t] = {} /\ fired[t] = NONE
  BY <1>1, <1>2 DEF CaseInv, EffectInv, Does, Fits
<1>4. Fits(t)' /\ Does(t)' BY <1>2, <1>3 DEF Fits, Does, Waiting
<1>5. OneOf(t)' BY <1>2, <1>3 DEF OneOf
<1>6. Claiming /\ Doing(t) BY <1>2 DEF Claiming, Doing
<1>7. CaseInv' /\ EffectInv' /\ OneEffect' BY <1>1, <1>2, <1>4, <1>5, <1>6, OwnStep
<1>8. EntryInv' /\ WaitInv' /\ NoneMissed' BY <1>1, EnlistStep
<1> QED BY <1>2, <1>7, <1>8 DEF Inv

LEMMA LeavesKeeps ==
  ASSUME Inv, NEW t \in Tasks, Leaves(t)
  PROVE  Inv'
<1>1. Before /\ TypeOK /\ CaseInv /\ EffectInv /\ OneEffect BY DEF Inv, Before
<1>2. /\ TypeOK' /\ Thins /\ Claiming /\ Doing(t) /\ Alone(t) /\ Unready
      /\ pc[t] = "relock" /\ pc'[t] = "idle" /\ fired' = fired /\ cases'[t] = cases[t]
      /\ how'[t] = how[t]
      /\ \A case \in Listed : \A w \in Queue(case)' : w[1] # t
      /\ effects'[t] \in {effects[t], effects[t] \cup {fired[t]}}
      /\ \/ /\ won'[t] = CANCELLED /\ effects'[t] = effects[t]
            /\ fired[t] = CANCELLED \/ fired[t] \notin effects[t]
         \/ /\ won'[t] = fired[t] /\ fired[t] \in DOMAIN cases[t]
            /\ Kind(t, fired[t]) = "send" => fired[t] \in effects[t]
            /\ Kind(t, fired[t]) = "wait" => effects'[t] = effects[t] \cup {fired[t]}
  BY <1>1, LeavesDoes
<1>3. Fits(t) /\ effects[t] \subseteq {fired[t]}
  BY <1>1, <1>2 DEF CaseInv, EffectInv, Does, Waiting
<1>4. Fits(t)' /\ Does(t)' BY <1>2, <1>3 DEF Fits, Does, Waiting
<1>5. OneOf(t)'
  <2>1. CASE /\ won'[t] = CANCELLED /\ effects'[t] = effects[t]
             /\ fired[t] = CANCELLED \/ fired[t] \notin effects[t]
    <3>1. ~(won'[t] > 0) BY <2>1 DEF CANCELLED
    <3> QED BY <2>1, <3>1, <1>2, <1>3 DEF OneOf
  <2>2. CASE /\ won'[t] = fired[t] /\ fired[t] \in DOMAIN cases[t]
             /\ Kind(t, fired[t]) = "send" => fired[t] \in effects[t]
             /\ Kind(t, fired[t]) = "wait" => effects'[t] = effects[t] \cup {fired[t]}
    <3>1. effects'[t] \subseteq {fired[t]} BY <1>2, <1>3
    <3>2. Kind(t, fired[t]) \in {"send", "wait"} => effects'[t] = {fired[t]} BY <2>2, <1>2, <1>3
    <3> QED BY <2>2, <3>1, <3>2, <1>2 DEF OneOf, Kind
  <2> QED BY <2>1, <2>2, <1>2
<1>6. CaseInv' /\ EffectInv' /\ OneEffect' BY <1>1, <1>2, <1>4, <1>5, OwnStep
<1>7. EntryInv' /\ WaitInv' /\ NoneMissed' BY <1>1, <1>2, NobodyEnters DEF Waiting
<1> QED BY <1>2, <1>6, <1>7 DEF Inv

\* The steps that do nothing to the objects.
LEMMA StartsKeeps ==
  ASSUME Inv, NEW t \in Tasks, Starts(t)
  PROVE  Inv'
<1>1. Before /\ TypeOK /\ CaseInv /\ EffectInv /\ OneEffect /\ EntryInv BY DEF Inv, Before
<1>2. PICK select \in Selects[t] : /\ how' = [how EXCEPT ![t] = select[1]]
                                  /\ cases' = [cases EXCEPT ![t] = select[2]]
  BY DEF Starts
<1>3. /\ pc[t] = "idle"
      /\ times' = [times EXCEPT ![t] = @ + 1]
      /\ pc' = [pc EXCEPT ![t] = IF cancelled[t] THEN "idle" ELSE "lock"]
      /\ won' = [won EXCEPT ![t] = IF cancelled[t] THEN CANCELLED ELSE NONE]
      /\ fired' = [fired EXCEPT ![t] = NONE]
      /\ effects' = [effects EXCEPT ![t] = {}]
      /\ UNCHANGED <<objectVars, lock, cancelled>>
  BY DEF Starts
<1>4. /\ select[1] \in Hows /\ select[2] \in Seq(Cases)
      /\ select[1] = "first" => Len(select[2]) = 2
  BY SelectAssumption
<1>5. TypeOK'
  <2>1. /\ pc' \in [Tasks -> {"idle", "lock", "wait", "relock"}]
        /\ won' \in [Tasks -> Int] /\ fired' \in [Tasks -> Int]
        /\ effects' \in [Tasks -> SUBSET Nat] /\ times' \in [Tasks -> Nat]
    BY <1>1, <1>3 DEF TypeOK, CANCELLED, NONE
  <2>2. how' \in [Tasks -> Hows] /\ cases' \in [Tasks -> Seq(Cases)]
    BY <1>1, <1>2, <1>4 DEF TypeOK
  <2> QED BY <2>1, <2>2, <1>1, <1>3 DEF TypeOK, objectVars
<1>6. \A u \in Tasks \ {t} : /\ pc'[u] = pc[u] /\ cases'[u] = cases[u] /\ how'[u] = how[u]
                             /\ won'[u] = won[u] /\ fired'[u] = fired[u]
                             /\ effects'[u] = effects[u]
  BY <1>1, <1>2, <1>3 DEF TypeOK
<1>7. /\ pc'[t] \in {"idle", "lock"} /\ won'[t] \in {CANCELLED, NONE} /\ fired'[t] = NONE
      /\ effects'[t] = {} /\ cases'[t] = select[2] /\ how'[t] = select[1]
  BY <1>1, <1>2, <1>3 DEF TypeOK
<1>8. \A u \in Tasks : Fits(u)' /\ Does(u)' /\ OneOf(u)'
  <2>1. ASSUME NEW u \in Tasks, u # t PROVE Fits(u)' /\ Does(u)' /\ OneOf(u)'
    <3>1. Fits(u) /\ Does(u) /\ OneOf(u)
      BY <1>1 DEF CaseInv, EffectInv, OneEffect, OneOf
    <3> QED BY <3>1, <2>1, <1>6 DEF Fits, Does, OneOf, Kind
  <2>2. Fits(t)' BY <1>4, <1>7 DEF Fits, Waiting
  <2>3. Does(t)' BY <1>7 DEF Does, Waiting
  <2>4. OneOf(t)' BY <1>7 DEF OneOf, CANCELLED, NONE
  <2> QED BY <2>1, <2>2, <2>3, <2>4
<1>9. CaseInv' /\ EffectInv' /\ OneEffect' BY <1>8 DEF CaseInv, EffectInv, OneEffect, OneOf
<1>10. Thins /\ Unready BY <1>1, <1>3, QuietDoes
<1>11. \A u \in Tasks : /\ pc[u] \in Waiting => u # t
                        /\ pc'[u] = "wait" => u # t
  BY <1>3, <1>7 DEF Waiting
<1>12. \A case \in Listed : \A w \in Queue(case)' : pc'[w[1]] \in Waiting
  <2>1. \A case \in Listed : \A w \in Queue(case)' : w[1] \in Tasks /\ pc[w[1]] \in Waiting
    BY <1>1, <1>10 DEF Thins, EntryInv
  <2> QED BY <2>1, <1>6, <1>11
<1>13. \A u \in Tasks : /\ pc[u] \in Waiting /\ fired'[u] = NONE => fired[u] = NONE
                        /\ pc'[u] = "wait" => pc[u] = "wait"
                        /\ pc[u] \in Waiting => cases'[u] = cases[u]
  BY <1>6, <1>11
<1>14. EntryInv' /\ WaitInv' /\ NoneMissed' BY <1>1, <1>10, <1>12, <1>13, ThinStep
<1> QED BY <1>5, <1>9, <1>14 DEF Inv

\* Nothing but claims, and what is done about the locks and the objects under them.
LEMMA NobodySteps ==
  ASSUME Inv, TypeOK', Thins, Claiming, Unready, UNCHANGED <<taskVars, won, effects>>
  PROVE  Inv'
<1>1. Before /\ TypeOK /\ CaseInv /\ EffectInv /\ OneEffect /\ EntryInv BY DEF Inv, Before
<1>2. CaseInv' /\ EffectInv' /\ OneEffect' BY <1>1, OthersStep
<1>3. pc' = pc /\ cases' = cases BY DEF taskVars
<1>4. \A u \in Tasks : pc[u] \in Waiting /\ fired'[u] = NONE => fired[u] = NONE BY DEF Claiming
<1>5. \A case \in Listed : \A w \in Queue(case)' : pc'[w[1]] \in Waiting
  BY <1>1, <1>3 DEF Thins, EntryInv
<1>6. EntryInv' /\ WaitInv' /\ NoneMissed' BY <1>1, <1>3, <1>4, <1>5, ThinStep
<1> QED BY <1>2, <1>6 DEF Inv

LEMMA TakesLockKeeps ==
  ASSUME Inv, NEW t \in Tasks, TakesLock(t)
  PROVE  Inv'
<1>1. Before /\ TypeOK BY DEF Inv, Before
<1>2. UNCHANGED <<objectVars, taskVars, fired, won, effects, cancelled>> BY DEF TakesLock
<1>3. lock' \in [Objects -> Tasks \cup {Nobody}] BY <1>1 DEF TakesLock, TypeOK
<1>4. TypeOK' BY <1>1, <1>2, <1>3 DEF TypeOK, objectVars, taskVars
<1>5. Thins /\ Unready BY <1>1, <1>2, QuietDoes
<1>6. Claiming BY <1>2 DEF Claiming
<1> QED BY <1>2, <1>4, <1>5, <1>6, NobodySteps

LEMMA WakesKeeps ==
  ASSUME Inv, NEW t \in Tasks, Wakes(t)
  PROVE  Inv'
<1>1. Before /\ TypeOK /\ CaseInv /\ EffectInv /\ OneEffect BY DEF Inv, Before
<1>2. /\ pc[t] = "wait" /\ fired[t] # NONE /\ pc' = [pc EXCEPT ![t] = "relock"]
      /\ UNCHANGED <<objectVars, lock, cases, how, times, fired, won, effects, cancelled>>
  BY DEF Wakes
<1>3. TypeOK' BY <1>1, <1>2 DEF TypeOK, objectVars
<1>4. pc'[t] = "relock" /\ \A u \in Tasks \ {t} : pc'[u] = pc[u] BY <1>1, <1>2 DEF TypeOK
<1>5. Thins /\ Unready BY <1>1, <1>2, QuietDoes
<1>6. Claiming /\ Doing(t) /\ Alone(t) BY <1>2, <1>4 DEF Claiming, Doing, Alone
<1>7. Fits(t) /\ Does(t) /\ OneOf(t) BY <1>1 DEF CaseInv, EffectInv, OneEffect, OneOf
<1>8. Fits(t)' /\ Does(t)' /\ OneOf(t)' BY <1>2, <1>4, <1>7 DEF Fits, Does, OneOf, Waiting, Kind
<1>9. CaseInv' /\ EffectInv' /\ OneEffect' BY <1>1, <1>6, <1>8, OwnStep
<1>10. EntryInv' /\ WaitInv' /\ NoneMissed' BY <1>1, <1>2, <1>4, <1>5, <1>6, NobodyEnters DEF Waiting
<1> QED BY <1>3, <1>9, <1>10 DEF Inv

LEMMA TimerFiresKeeps ==
  ASSUME Inv, NEW t \in Tasks, TimerFires(t)
  PROVE  Inv'
<1>1. Before /\ TypeOK BY DEF Inv, Before
<1>2. /\ pc[t] = "wait" /\ fired[t] = NONE
      /\ UNCHANGED <<objectVars, lock, taskVars, won, effects, cancelled>>
  BY DEF TimerFires
<1>3. PICK i \in DOMAIN cases[t] : fired' = [fired EXCEPT ![t] = i] BY DEF TimerFires
<1>4. fired' \in [Tasks -> Int] BY <1>1, <1>3, CaseIs DEF TypeOK
<1>5. TypeOK' BY <1>1, <1>2, <1>4 DEF TypeOK, objectVars, taskVars
<1>6. Thins /\ Unready BY <1>1, <1>2, QuietDoes
<1>7. Claiming BY <1>1, <1>2, <1>3 DEF Claiming, TypeOK
<1> QED BY <1>2, <1>5, <1>6, <1>7, NobodySteps

LEMMA CancelClaimsKeeps ==
  ASSUME Inv, NEW t \in Tasks, CancelClaims(t)
  PROVE  Inv'
<1>1. Before /\ TypeOK BY DEF Inv, Before
<1>2. /\ pc[t] = "wait" /\ fired[t] = NONE /\ fired' = [fired EXCEPT ![t] = CANCELLED]
      /\ UNCHANGED <<objectVars, lock, taskVars, won, effects, cancelled>>
  BY DEF CancelClaims
<1>3. fired' \in [Tasks -> Int] BY <1>1, <1>2 DEF TypeOK, CANCELLED
<1>4. TypeOK' BY <1>1, <1>2, <1>3 DEF TypeOK, objectVars, taskVars
<1>5. Thins /\ Unready BY <1>1, <1>2, QuietDoes
<1>6. Claiming BY <1>1, <1>2 DEF Claiming, TypeOK
<1> QED BY <1>2, <1>4, <1>5, <1>6, NobodySteps

LEMMA CancelKeeps ==
  ASSUME Inv, (\E t \in Tasks : Cancel(t)) \/ UNCHANGED vars
  PROVE  Inv'
<1>1. Before /\ TypeOK BY DEF Inv, Before
<1>2. /\ UNCHANGED <<objectVars, lock, taskVars, fired, won, effects>>
      /\ cancelled' \in [Tasks -> BOOLEAN]
  BY <1>1 DEF Cancel, vars, TypeOK
<1>3. TypeOK' BY <1>1, <1>2 DEF TypeOK, objectVars, taskVars
<1>4. Thins /\ Unready BY <1>1, <1>2, QuietDoes
<1>5. Claiming BY <1>2 DEF Claiming
<1> QED BY <1>2, <1>3, <1>4, <1>5, NobodySteps

-----------------------------------------------------------------------------
(* The locks. *)

\* What a task wants, and holds, is up to its own cases and the locks.
LEMMA LocksStay ==
  ASSUME TypeOK, CaseInv, NEW u \in Tasks, cases'[u] = cases[u], how'[u] = how[u]
  PROVE  Locks(u)' = Locks(u) /\ Locks(u) \subseteq Objects
BY LocksAre DEF Locks, Looked, On, Kind

LEMMA OrderStays ==
  ASSUME TypeOK, CaseInv, NEW u \in Tasks, Orderly(u),
         pc'[u] = pc[u], cases'[u] = cases[u], how'[u] = how[u],
         \A o \in Objects : lock'[o] = u <=> lock[o] = u
  PROVE  Orderly(u)'
<1>1. Locks(u)' = Locks(u) /\ Locks(u) \subseteq Objects BY LocksStay
<1>2. Held(u)' = Held(u) BY <1>1 DEF Held
<1> QED BY <1>1, <1>2 DEF Orderly

\* A step of `t` that takes no lock, and lets all go if any was held.
LEMMA DropsKeeps ==
  ASSUME TypeOK, CaseInv, LockInv, BoundInv, NEW t \in Tasks, Alone(t),
         \/ pc[t] \notin Spinning /\ lock' = lock
         \/ lock' = [o \in Objects |-> IF lock[o] = t THEN Nobody ELSE lock[o]]
  PROVE  LockInv' /\ BoundInv'
<1>1. \A o \in Objects : lock'[o] # t /\ lock'[o] \in {lock[o], Nobody}
  <2>1. CASE pc[t] \notin Spinning /\ lock' = lock BY <2>1 DEF LockInv, Orderly
  <2>2. CASE lock' = [o \in Objects |-> IF lock[o] = t THEN Nobody ELSE lock[o]]
    BY <2>2, SelectAssumption
  <2> QED BY <2>1, <2>2
<1>2. \A u \in Tasks \ {t} : \A o \in Objects : lock'[o] = u <=> lock[o] = u
  <2>1. CASE pc[t] \notin Spinning /\ lock' = lock BY <2>1
  <2>2. CASE lock' = [o \in Objects |-> IF lock[o] = t THEN Nobody ELSE lock[o]]
    BY <2>2, SelectAssumption
  <2> QED BY <2>1, <2>2
<1>3. ASSUME NEW u \in Tasks, u # t PROVE Orderly(u)'
  BY <1>2, <1>3, OrderStays DEF Alone, LockInv
<1>4. Orderly(t)' BY <1>1 DEF Orderly
<1>5. LockInv' BY <1>3, <1>4 DEF LockInv
<1>6. BoundInv' BY <1>1 DEF BoundInv
<1> QED BY <1>5, <1>6

\* The lowest of the locks it still wants, above those it has.
LEMMA TakesLockOrders ==
  ASSUME TypeOK, CaseInv, LockInv, BoundInv, NEW t \in Tasks, TakesLock(t)
  PROVE  LockInv' /\ BoundInv'
<1> DEFINE wanted == Locks(t) \ Held(t)
<1>1. PICK o : o = Min(wanted) OBVIOUS
<1>2. /\ pc[t] \in Spinning /\ Locks(t) # Held(t) /\ lock[o] = Nobody
      /\ lock' = [lock EXCEPT ![o] = t] /\ pc' = pc /\ cases' = cases /\ how' = how
  BY <1>1 DEF TakesLock, Spinning, taskVars
<1>3. Locks(t) \subseteq Objects /\ Held(t) \subseteq Locks(t) /\ Objects \subseteq Nat
  BY LocksAre, SelectAssumption
<1>4. o \in wanted /\ \A p \in wanted : o <= p
  <2>1. wanted # {} /\ wanted \subseteq Nat BY <1>2, <1>3
  <2> HIDE DEF wanted
  <2> QED BY <1>1, <2>1, Least
<1>5. /\ o \in Objects /\ lock'[o] = t
      /\ \A p \in Objects : p # o => lock'[p] = lock[p]
  BY <1>2, <1>3, <1>4 DEF TypeOK
<1>6. Nobody \notin Tasks BY SelectAssumption
<1>7. ASSUME NEW u \in Tasks, u # t PROVE Orderly(u)'
  BY <1>2, <1>5, <1>6, <1>7, OrderStays DEF LockInv
<1>8. Orderly(t)'
  <2>1. Locks(t)' = Locks(t) BY <1>2, LocksStay
  <2>2. Held(t)' = Held(t) \cup {o} BY <2>1, <1>3, <1>4, <1>5 DEF Held
  <2>3. ASSUME NEW q \in Objects, lock'[q] = t, NEW p \in Locks(t) \ (Held(t) \cup {o})
        PROVE  q < p
    <3>1. p \in wanted /\ p \in Nat /\ q \in Nat /\ o \in Nat /\ p # o BY <1>3, <1>4
    <3>2. CASE q = o BY <3>1, <3>2, <1>4
    <3>3. CASE q # o
      <4>1. lock[q] = t BY <3>3, <2>3, <1>5
      <4> QED BY <4>1, <3>1 DEF LockInv, Orderly
    <3> QED BY <3>2, <3>3
  <2>4. ASSUME NEW q \in Objects, lock'[q] = t PROVE q \in Locks(t)
    BY <2>4, <1>3, <1>4, <1>5 DEF LockInv, Orderly
  <2> QED BY <2>1, <2>2, <2>3, <2>4, <1>2 DEF Orderly
<1>9. LockInv' BY <1>7, <1>8 DEF LockInv
<1>10. BoundInv'
  <2>1. PICK n \in Nat : \A p \in Objects : lock[p] # Nobody => p <= n BY DEF BoundInv
  <2>2. PICK m \in {n, o} : n <= m /\ o <= m BY <2>1, <1>3, <1>5
  <2>3. m \in Nat /\ \A p \in Objects : lock'[p] # Nobody => p <= m
    <3>1. m \in Nat /\ o \in Nat BY <2>1, <2>2, <1>3, <1>5
    <3>2. ASSUME NEW p \in Objects, lock'[p] # Nobody PROVE p <= m
      <4>1. CASE p = o BY <4>1, <2>2
      <4>2. CASE p # o
        <5>1. p <= n /\ p \in Nat BY <4>2, <3>2, <2>1, <1>3, <1>5
        <5> QED BY <5>1, <2>1, <2>2, <3>1
      <4> QED BY <4>1, <4>2
    <3> QED BY <3>1, <3>2
  <2> QED BY <2>3 DEF BoundInv
<1> QED BY <1>9, <1>10

LEMMA OwnStepOrders ==
  ASSUME TypeOK, CaseInv, LockInv, BoundInv, NEW t \in Tasks, Starts(t) \/ GoesOn(t)
  PROVE  LockInv' /\ BoundInv'
<1>1. ASSUME NEW result, Returns(t, result) PROVE LockInv' /\ BoundInv'
  <2>1. /\ Alone(t)
        /\ lock' = [o \in Objects |-> IF lock[o] = t THEN Nobody ELSE lock[o]]
    BY <1>1 DEF Returns, Unlocks, Alone, TypeOK
  <2> QED BY <2>1, DropsKeeps
<1>2. CASE Starts(t)
  <2>1. pc[t] \notin Spinning /\ lock' = lock BY <1>2 DEF Starts, Spinning
  <2>2. Alone(t) BY <1>2 DEF Starts, Alone, TypeOK
  <2> QED BY <2>1, <2>2, DropsKeeps
<1>3. CASE Receives(t) BY <1>1, <1>3 DEF Receives
<1>4. CASE Sends(t) BY <1>1, <1>4 DEF Sends
<1>5. CASE SendRaises(t) BY <1>1, <1>5 DEF SendRaises
<1>6. CASE Takes(t) BY <1>1, <1>6 DEF Takes
<1>7. CASE GivesUp(t)
  <2>1. lock' = [o \in Objects |-> IF lock[o] = t THEN Nobody ELSE lock[o]]
    BY <1>7 DEF GivesUp, Unlocks
  <2>2. Alone(t) BY <1>7 DEF GivesUp, Alone, TypeOK
  <2> QED BY <2>1, <2>2, DropsKeeps
<1>8. CASE Enlists(t)
  <2>1. lock' = [o \in Objects |-> IF lock[o] = t THEN Nobody ELSE lock[o]]
    BY <1>8 DEF Enlists, Unlocks
  <2>2. Alone(t) BY <1>8 DEF Enlists, Alone, TypeOK
  <2> QED BY <2>1, <2>2, DropsKeeps
<1>9. CASE Wakes(t)
  <2>1. pc[t] \notin Spinning /\ lock' = lock BY <1>9 DEF Wakes, Spinning
  <2>2. Alone(t) BY <1>9 DEF Wakes, Alone, TypeOK
  <2> QED BY <2>1, <2>2, DropsKeeps
<1>10. CASE Leaves(t) BY <1>1, <1>10 DEF Leaves
<1> QED BY <1>2, <1>3, <1>4, <1>5, <1>6, <1>7, <1>8, <1>9, <1>10 DEF GoesOn

\* Nothing else touches a lock.
LEMMA LocksKeep ==
  ASSUME TypeOK, CaseInv, LockInv, BoundInv, UNCHANGED <<lock, taskVars>>
  PROVE  LockInv' /\ BoundInv'
<1>1. ASSUME NEW u \in Tasks PROVE Orderly(u)'
  BY <1>1, OrderStays DEF LockInv, taskVars
<1> QED BY <1>1 DEF LockInv, BoundInv

\* No stand-off: the highest lock that is wanted and held is held by somebody who
\* wants a higher one, or has all.
LEMMA Staggered ==
  ASSUME TypeOK, CaseInv, LockInv, BoundInv
  PROVE  NoStandOff
<1> SUFFICES ASSUME NEW S \in SUBSET {t \in Tasks : pc[t] \in {"lock", "relock"}}, S # {},
                    \A t \in S : /\ Held(t) # Locks(t)
                               /\ \A o \in Locks(t) \ Held(t) : lock[o] \in S
             PROVE  FALSE
  BY DEF NoStandOff
<1> DEFINE Between == {o \in Objects : /\ lock[o] \in S
                                     /\ \E t \in S : o \in Locks(t) \ Held(t)}
<1>1. ASSUME NEW t \in S
      PROVE  \E o \in Between : o \in Locks(t) \ Held(t)
  <2>1. Held(t) \subseteq Locks(t) /\ Locks(t) \subseteq Objects BY LocksAre
  <2> QED BY <2>1
<1>2. S \subseteq Tasks /\ Nobody \notin S BY SelectAssumption
<1>3. PICK n \in Nat : \A o \in Objects : lock[o] # Nobody => o <= n BY DEF BoundInv
<1>4. Between \subseteq Nat /\ Between # {} /\ \A o \in Between : o <= n
  BY <1>1, <1>2, <1>3, SelectAssumption
<1>5. PICK o \in Between : \A p \in Between : p <= o
  <2> HIDE DEF Between
  <2> QED BY <1>4, Most
<1>6. PICK t \in S : t = lock[o] BY <1>5
<1>7. PICK p \in Between : p \in Locks(t) \ Held(t) BY <1>1, <1>6
<1>8. o < p BY <1>2, <1>5, <1>6, <1>7 DEF LockInv, Orderly
<1> QED BY <1>4, <1>5, <1>7, <1>8

-----------------------------------------------------------------------------
(* The specification. *)

SInv == Inv /\ LockInv /\ BoundInv

LEMMA InitHolds == Init => SInv
<1> SUFFICES ASSUME Init PROVE SInv
  OBVIOUS
<1>1. {} \in Waiters /\ <<>> \in Seq(Cases) BY DEF Waiters
<1>2. TypeOK BY <1>1, SelectAssumption DEF Init, TypeOK, Hows, NONE
<1>3. \A case \in Listed : Queue(case) = {}
  BY KindIs, ListedIs DEF Init, Queue, Listed
<1>4. EntryInv /\ WaitInv /\ NoneMissed BY <1>3 DEF Init, EntryInv, WaitInv, NoneMissed
<1>5. CaseInv /\ EffectInv /\ OneEffect
  BY DEF Init, CaseInv, Fits, EffectInv, Does, OneEffect, Waiting, NONE
<1>6. LockInv /\ BoundInv
  <2>1. \A o \in Objects : lock[o] = Nobody BY DEF Init
  <2>2. LockInv BY <2>1, SelectAssumption DEF LockInv, Orderly
  <2>3. 0 \in Nat OBVIOUS
  <2> QED BY <2>1, <2>2, <2>3 DEF BoundInv
<1> QED BY <1>2, <1>4, <1>5, <1>6 DEF SInv, Inv

LEMMA StepKeeps == SInv /\ [Next]_vars => SInv'
<1> SUFFICES ASSUME SInv, [Next]_vars PROVE SInv'
  OBVIOUS
<1>1. Inv /\ Before /\ TypeOK /\ CaseInv /\ LockInv /\ BoundInv BY DEF SInv, Inv, Before
<1>2. ASSUME NEW t \in Tasks, Starts(t) \/ TakesLock(t) \/ GoesOn(t) PROVE Inv'
  BY <1>1, <1>2, StartsKeeps, TakesLockKeeps, ReceivesKeeps, SendsKeeps, SendRaisesKeeps,
     TakesKeeps, GivesUpKeeps, EnlistsKeeps, WakesKeeps, LeavesKeeps DEF GoesOn
<1>3. ASSUME NEW t \in Tasks, Starts(t) \/ TakesLock(t) \/ GoesOn(t)
      PROVE  LockInv' /\ BoundInv'
  BY <1>1, <1>3, TakesLockOrders, OwnStepOrders
<1>4. ASSUME NEW j \in Joins, Completes(j) PROVE SInv'
  <2>1. UNCHANGED <<lock, taskVars, won, effects>> BY <1>4 DEF Completes
  <2> QED BY <2>1, <1>1, <1>4, CompletesDoes, NobodySteps, LocksKeep DEF SInv
<1>5. ASSUME NEW g \in Groups, GroupCompleted(g) PROVE SInv'
  <2>1. UNCHANGED <<lock, taskVars, won, effects>> BY <1>5 DEF GroupCompleted
  <2> QED BY <2>1, <1>1, <1>5, GroupCompletedDoes, NobodySteps, LocksKeep DEF SInv
<1>6. ASSUME NEW c \in Channels, CloseWaits(c) PROVE SInv'
  <2>1. UNCHANGED <<lock, taskVars, won, effects>> BY <1>6 DEF CloseWaits
  <2> QED BY <2>1, <1>1, <1>6, CloseWaitsDoes, NobodySteps, LocksKeep DEF SInv
<1>7. ASSUME NEW t \in Tasks, TimerFires(t) \/ CancelClaims(t) PROVE SInv'
  <2>1. UNCHANGED <<lock, taskVars>> BY <1>7 DEF TimerFires, CancelClaims
  <2> QED BY <2>1, <1>1, <1>7, TimerFiresKeeps, CancelClaimsKeeps, LocksKeep DEF SInv
<1>8. ASSUME (\E t \in Tasks : Cancel(t)) \/ UNCHANGED vars PROVE SInv'
  <2>1. UNCHANGED <<lock, taskVars>> BY <1>8 DEF Cancel, vars
  <2> QED BY <2>1, <1>1, <1>8, CancelKeeps, LocksKeep DEF SInv
<1> QED BY <1>2, <1>3, <1>4, <1>5, <1>6, <1>7, <1>8 DEF Next, SInv

LEMMA SInvHolds == Spec => []SInv
BY InitHolds, StepKeeps, PTL DEF Spec

\* What is in a list is a live wait: the body of NoDangling.
LEMMA Live == EntryInv => NoDangling
<1> SUFFICES ASSUME EntryInv PROVE NoDangling
  OBVIOUS
<1>1. \A case \in Listed : \A w \in Queue(case) : pc[w[1]] \in {"wait", "relock"}
  BY DEF EntryInv, Waiting
<1>2. \A c \in Channels : /\ \A w \in chan[c].receiving : pc[w[1]] \in {"wait", "relock"}
                         /\ \A w \in chan[c].sending : pc[w[1]] \in {"wait", "relock"}
  BY <1>1, QueueIs
<1>3. \A j \in Joins : \A w \in join[j].waiters : pc[w[1]] \in {"wait", "relock"}
  BY <1>1, QueueIs
<1>4. \A g \in Groups : \A w \in group[g].waiters : pc[w[1]] \in {"wait", "relock"}
  BY <1>1, QueueIs
<1> QED BY <1>2, <1>3, <1>4 DEF NoDangling

\* The variables have their types, and a group has one waiter at most, for which there
\* is room (`select`, with the lists of channels, joins and groups).
THEOREM TypesHold == Spec => []TypeOK
<1>1. SInv => TypeOK BY DEF SInv, Inv
<1> QED BY <1>1, SInvHolds, PTL

\* Of the cases of a select one has an effect, the one it returns (claim() and
\* claim_first() against try_case() and what select() does after the wait): whoever
\* meets the wait in another list, or ends it at the same time.
THEOREM OneCaseCompletes == Spec => []OneEffect
<1>1. SInv => OneEffect BY DEF SInv, Inv
<1> QED BY <1>1, SInvHolds, PTL

\* While a wait is not claimed none of its cases is ready (try_case() and the entries of
\* select() are under all its locks): no value, room, end or close is missed, and no two
\* waits that could meet wait for each other.
THEOREM NothingIsMissed == Spec => []NoneMissed
<1>1. SInv => NoneMissed BY DEF SInv, Inv
<1> QED BY <1>1, SInvHolds, PTL

\* A list has no pointer to a select that is over (select() leaves every list before its
\* frame ends).
THEOREM NobodyDangles == Spec => []NoDangling
<1>1. SInv => NoDangling BY Live DEF SInv, Inv
<1> QED BY <1>1, SInvHolds, PTL

\* lock_all() takes the locks by address: of the tasks that spin for locks, one has all
\* of its own or can have another, whatever the order of the cases is.
THEOREM NobodyStandsOff == Spec => []NoStandOff
<1>1. SInv => NoStandOff BY Staggered DEF SInv, Inv
<1> QED BY <1>1, SInvHolds, PTL
=============================================================================
