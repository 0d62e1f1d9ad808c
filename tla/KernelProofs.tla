---------------------------- MODULE KernelProofs ----------------------------
(***************************************************************************)
(* Proofs about the scheduler, for any capacity of its lists, any quantum  *)
(* and any starvation limit, and about processes, blocking IPC and the     *)
(* timer on top of it, for any number of tasks, slots and messages and any *)
(* timeouts.  The lemmas about the operations of module Sched come first:  *)
(* both parts rest on them.                                                *)
(***************************************************************************)
EXTENDS Kernel, NatRecursion, FiniteSetTheorems

-----------------------------------------------------------------------------
(* Sequences.                                                              *)

\* What remove_at's shift leaves.
LEMMA RemoveAtProperties ==
    ASSUME NEW S, NEW q \in Seq(S), NEW k \in 1 .. Len(q)
    PROVE  /\ RemoveAt(q, k) \in Seq(S)
           /\ Len(RemoveAt(q, k)) = Len(q) - 1
           /\ DOMAIN RemoveAt(q, k) = 1 .. Len(q) - 1
           /\ \A j \in 1 .. Len(q) - 1 :
                 RemoveAt(q, k)[j] = IF j < k THEN q[j] ELSE q[j + 1]
<1>1. Len(q) \in Nat /\ Len(q) - 1 \in Nat
    OBVIOUS
<1>2. \A j \in 1 .. Len(q) - 1 : (IF j < k THEN q[j] ELSE q[j + 1]) \in S
    BY <1>1
<1>3. RemoveAt(q, k) \in Seq(S)
    BY <1>1, <1>2 DEF RemoveAt
<1>4. QED
    BY <1>1, <1>3 DEF RemoveAt

\* What a push at the tail leaves.
LEMMA AppendProperties ==
    ASSUME NEW S, NEW q \in Seq(S), NEW e \in S
    PROVE  /\ Append(q, e) \in Seq(S)
           /\ Len(Append(q, e)) = Len(q) + 1
           /\ DOMAIN Append(q, e) = 1 .. Len(q) + 1
           /\ \A j \in 1 .. Len(q) : Append(q, e)[j] = q[j]
           /\ Append(q, e)[Len(q) + 1] = e
    OBVIOUS

-----------------------------------------------------------------------------
(* The inductive invariant, as a predicate of a scheduler state.  OnePlace *)
(* and WithinCapacity need each other (a wake-up that finds the run queue  *)
(* full puts its task back on the blocked list, which has room because the *)
(* task was there), and GuardNeverReorders needs QueueOrdered.             *)

Distinct(s) ==
    /\ \A i, j \in 1 .. Len(s.queue) : s.queue[i].task = s.queue[j].task => i = j
    /\ \A i, j \in 1 .. Len(s.blocked) : s.blocked[i] = s.blocked[j] => i = j

Apart(s) ==
    /\ \A i \in 1 .. Len(s.queue), j \in 1 .. Len(s.blocked) :
          s.queue[i].task # s.blocked[j]
    /\ \A i \in 1 .. Len(s.queue) : s.queue[i].task # s.current
    /\ \A i \in 1 .. Len(s.blocked) : s.blocked[i] # s.current

Bounded(s) == Len(s.queue) <= QueueCapacity /\ Len(s.blocked) <= QueueCapacity

Ordered(s) ==
    /\ \A i, j \in 1 .. Len(s.queue) :
          i <= j => s.queue[i].since <= s.queue[j].since
    /\ \A i \in 1 .. Len(s.queue) : s.queue[i].since <= s.ticks

Good(s) == /\ s \in SchedState
           /\ Distinct(s) /\ Apart(s) /\ Bounded(s) /\ Ordered(s)

\* A scheduler just created.
LEMMA NewSchedulerGood == Good(NewScheduler)
<1>1. /\ NewScheduler \in SchedState /\ NewScheduler.queue = <<>>
      /\ NewScheduler.blocked = <<>>
    BY DEF NewScheduler, SchedState
<1>2. Len(NewScheduler.queue) = 0 /\ Len(NewScheduler.blocked) = 0
    BY <1>1
<1>3. QED
    BY <1>1, <1>2, SchedBoundsAssumption DEF Good, Distinct, Apart, Bounded, Ordered

\* The types of the parts of a scheduler state.
LEMMA GoodTypes ==
    ASSUME NEW s, Good(s)
    PROVE  /\ s \in SchedState
           /\ s.queue \in Seq(QueueEntry) /\ DOMAIN s.queue = 1 .. Len(s.queue)
           /\ s.blocked \in Seq(Tasks) /\ DOMAIN s.blocked = 1 .. Len(s.blocked)
           /\ s.current \in Tasks \cup {NoTask}
           /\ s.ticks \in Nat /\ s.slice \in Nat
           /\ \A i \in 1 .. Len(s.queue) :
                 s.queue[i].task \in Tasks /\ s.queue[i].since \in Nat
           /\ \A i \in 1 .. Len(s.blocked) : s.blocked[i] \in Tasks
<1>1. /\ s \in SchedState
      /\ s.queue \in Seq(QueueEntry) /\ DOMAIN s.queue = 1 .. Len(s.queue)
      /\ s.blocked \in Seq(Tasks) /\ DOMAIN s.blocked = 1 .. Len(s.blocked)
      /\ s.current \in Tasks \cup {NoTask}
      /\ s.ticks \in Nat /\ s.slice \in Nat
    BY DEF Good, SchedState
<1>2. \A i \in 1 .. Len(s.queue) : s.queue[i] \in QueueEntry
    BY <1>1
<1>3. \A e \in QueueEntry : e.task \in Tasks /\ e.since \in Nat
    BY DEF QueueEntry
<1>4. QED
    BY <1>1, <1>2, <1>3

\* Taking the k-th entry off the run queue keeps the invariant, and the
\* entry's task is then in no list.
LEMMA DequeueGood ==
    ASSUME NEW s, Good(s), NEW k \in 1 .. Len(s.queue)
    PROVE  LET r == [s EXCEPT !.queue = RemoveAt(s.queue, k)] IN
           /\ Good(r)
           /\ \A i \in 1 .. Len(r.queue) : r.queue[i].task # s.queue[k].task
           /\ \A i \in 1 .. Len(r.blocked) : r.blocked[i] # s.queue[k].task
           /\ Len(r.queue) = Len(s.queue) - 1
<1> DEFINE q == RemoveAt(s.queue, k)
           r == [s EXCEPT !.queue = q]
           old(j) == IF j < k THEN j ELSE j + 1
<1>1. s \in SchedState /\ s.queue \in Seq(QueueEntry) /\ s.blocked \in Seq(Tasks)
    BY DEF Good, SchedState
<1>2. /\ q \in Seq(QueueEntry)
      /\ Len(q) = Len(s.queue) - 1
      /\ \A j \in 1 .. Len(q) : q[j] = s.queue[old(j)]
    BY <1>1, RemoveAtProperties
<1>3. /\ r \in SchedState /\ r.queue = q /\ r.blocked = s.blocked
      /\ r.current = s.current /\ r.ticks = s.ticks
    BY <1>1, <1>2 DEF SchedState
<1>4. /\ \A j \in 1 .. Len(q) : old(j) \in 1 .. Len(s.queue) /\ old(j) # k
      /\ \A i, j \in 1 .. Len(q) : /\ old(i) = old(j) => i = j
                                   /\ i <= j => old(i) <= old(j)
    BY <1>1, <1>2
<1> HIDE DEF q, r, old
<1>5. Distinct(r)
    <2>1. ASSUME NEW i \in 1 .. Len(q), NEW j \in 1 .. Len(q), q[i].task = q[j].task
          PROVE  i = j
        <3>1. s.queue[old(i)].task = s.queue[old(j)].task
            BY <1>2, <2>1
        <3>2. old(i) = old(j)
            BY <1>4, <3>1 DEF Good, Distinct
        <3>3. QED
            BY <1>4, <3>2
    <2>2. QED
        BY <1>3, <2>1 DEF Good, Distinct
<1>6. Apart(r)
    <2>1. ASSUME NEW i \in 1 .. Len(q)
          PROVE  /\ q[i].task # s.current
                 /\ \A j \in 1 .. Len(s.blocked) : q[i].task # s.blocked[j]
        BY <1>2, <1>4 DEF Good, Apart
    <2>2. QED
        BY <1>3, <2>1 DEF Good, Apart
<1>7. Bounded(r)
    BY <1>1, <1>2, <1>3, SchedBoundsAssumption DEF Good, Bounded
<1>8. Ordered(r)
    BY <1>2, <1>3, <1>4 DEF Good, Ordered
<1>9. \A i \in 1 .. Len(q) : q[i].task # s.queue[k].task
    BY <1>2, <1>4 DEF Good, Distinct
<1>10. \A i \in 1 .. Len(s.blocked) : s.blocked[i] # s.queue[k].task
    BY DEF Good, Apart
<1>11. QED
    BY <1>2, <1>3, <1>5, <1>6, <1>7, <1>8, <1>9, <1>10 DEF Good, q, r

\* The same of the blocked list.
LEMMA UnblockGood ==
    ASSUME NEW s, Good(s), NEW k \in 1 .. Len(s.blocked)
    PROVE  LET r == [s EXCEPT !.blocked = RemoveAt(s.blocked, k)] IN
           /\ Good(r)
           /\ \A i \in 1 .. Len(r.queue) : r.queue[i].task # s.blocked[k]
           /\ \A i \in 1 .. Len(r.blocked) : r.blocked[i] # s.blocked[k]
           /\ Len(r.blocked) = Len(s.blocked) - 1
<1> DEFINE b == RemoveAt(s.blocked, k)
           r == [s EXCEPT !.blocked = b]
           old(j) == IF j < k THEN j ELSE j + 1
<1>1. s \in SchedState /\ s.queue \in Seq(QueueEntry) /\ s.blocked \in Seq(Tasks)
    BY DEF Good, SchedState
<1>2. /\ b \in Seq(Tasks)
      /\ Len(b) = Len(s.blocked) - 1
      /\ \A j \in 1 .. Len(b) : b[j] = s.blocked[old(j)]
    BY <1>1, RemoveAtProperties
<1>3. /\ r \in SchedState /\ r.blocked = b /\ r.queue = s.queue
      /\ r.current = s.current /\ r.ticks = s.ticks
    BY <1>1, <1>2 DEF SchedState
<1>4. /\ \A j \in 1 .. Len(b) : old(j) \in 1 .. Len(s.blocked) /\ old(j) # k
      /\ \A i, j \in 1 .. Len(b) : old(i) = old(j) => i = j
    BY <1>1, <1>2
<1> HIDE DEF b, r, old
<1>5. Distinct(r)
    <2>1. ASSUME NEW i \in 1 .. Len(b), NEW j \in 1 .. Len(b), b[i] = b[j]
          PROVE  i = j
        <3>1. old(i) = old(j)
            BY <1>2, <1>4, <2>1 DEF Good, Distinct
        <3>2. QED
            BY <1>4, <3>1
    <2>2. QED
        BY <1>3, <2>1 DEF Good, Distinct
<1>6. Apart(r)
    <2>1. ASSUME NEW i \in 1 .. Len(b)
          PROVE  /\ b[i] # s.current
                 /\ \A j \in 1 .. Len(s.queue) : s.queue[j].task # b[i]
        BY <1>2, <1>4 DEF Good, Apart
    <2>2. QED
        BY <1>3, <2>1 DEF Good, Apart
<1>7. Bounded(r)
    BY <1>1, <1>2, <1>3, SchedBoundsAssumption DEF Good, Bounded
<1>8. Ordered(r)
    BY <1>3 DEF Good, Ordered
<1>9. \A i \in 1 .. Len(b) : b[i] # s.blocked[k]
    BY <1>2, <1>4 DEF Good, Distinct
<1>10. \A i \in 1 .. Len(s.queue) : s.queue[i].task # s.blocked[k]
    BY DEF Good, Apart
<1>11. QED
    BY <1>2, <1>3, <1>5, <1>6, <1>7, <1>8, <1>9, <1>10 DEF Good, b, r

\* t is in no list.
Off(s, t) == /\ \A i \in 1 .. Len(s.queue) : s.queue[i].task # t
             /\ \A i \in 1 .. Len(s.blocked) : s.blocked[i] # t

\* A task that is nowhere joins the run queue.
LEMMA AdmitGood ==
    ASSUME NEW s, Good(s), NEW t \in Tasks, Off(s, t), s.current # t,
           Len(s.queue) < QueueCapacity
    PROVE  Good([s EXCEPT !.queue = Append(@, [task |-> t, since |-> s.ticks])])
<1> DEFINE e == [task |-> t, since |-> s.ticks]
           q == Append(s.queue, e)
           r == [s EXCEPT !.queue = q]
<1>1. /\ s \in SchedState /\ s.queue \in Seq(QueueEntry) /\ s.ticks \in Nat
      /\ s.blocked \in Seq(Tasks) /\ e \in QueueEntry
    BY DEF Good, SchedState, QueueEntry
<1>2. /\ q \in Seq(QueueEntry)
      /\ Len(q) = Len(s.queue) + 1
      /\ \A j \in 1 .. Len(s.queue) : q[j] = s.queue[j]
      /\ q[Len(q)] = e
    BY <1>1, AppendProperties
<1>3. /\ r \in SchedState /\ r.queue = q /\ r.blocked = s.blocked
      /\ r.current = s.current /\ r.ticks = s.ticks
    BY <1>1, <1>2 DEF SchedState
<1>4. \A j \in 1 .. Len(q) : j \in 1 .. Len(s.queue) \/ j = Len(q)
    BY <1>1, <1>2
<1>5. e.task = t /\ e.since = s.ticks
    OBVIOUS
<1> HIDE DEF e, q, r
<1>6. Distinct(r)
    <2>1. ASSUME NEW i \in 1 .. Len(q), NEW j \in 1 .. Len(q), q[i].task = q[j].task
          PROVE  i = j
        <3>1. CASE i \in 1 .. Len(s.queue) /\ j \in 1 .. Len(s.queue)
            BY <1>2, <2>1, <3>1 DEF Good, Distinct
        <3>2. CASE i = Len(q) /\ j \in 1 .. Len(s.queue)
            BY <1>2, <1>5, <2>1, <3>2 DEF Off
        <3>3. CASE j = Len(q) /\ i \in 1 .. Len(s.queue)
            BY <1>2, <1>5, <2>1, <3>3 DEF Off
        <3>4. QED
            BY <1>4, <3>1, <3>2, <3>3
    <2>2. QED
        BY <1>3, <2>1 DEF Good, Distinct
<1>7. Apart(r)
    <2>1. ASSUME NEW i \in 1 .. Len(q)
          PROVE  /\ q[i].task # s.current
                 /\ \A j \in 1 .. Len(s.blocked) : q[i].task # s.blocked[j]
        <3>1. CASE i \in 1 .. Len(s.queue)
            BY <1>2, <3>1 DEF Good, Apart
        <3>2. CASE i = Len(q)
            BY <1>2, <1>5, <3>2 DEF Off
        <3>3. QED
            BY <1>4, <3>1, <3>2
    <2>2. QED
        BY <1>3, <2>1 DEF Good, Apart
<1>8. Bounded(r)
    BY <1>1, <1>2, <1>3, SchedBoundsAssumption DEF Good, Bounded
<1>9. Ordered(r)
    <2>1. \A i \in 1 .. Len(q) : q[i].since <= s.ticks
        BY <1>1, <1>2, <1>4, <1>5 DEF Good, Ordered
    <2>2. ASSUME NEW i \in 1 .. Len(q), NEW j \in 1 .. Len(q), i <= j
          PROVE  q[i].since <= q[j].since
        <3>1. CASE j \in 1 .. Len(s.queue)
            <4>1. i \in 1 .. Len(s.queue)
                BY <1>1, <2>2, <3>1
            <4>2. QED
                BY <1>2, <2>2, <3>1, <4>1 DEF Good, Ordered
        <3>2. CASE j = Len(q)
            BY <1>2, <1>5, <2>1, <3>2
        <3>3. QED
            BY <1>4, <3>1, <3>2
    <2>3. QED
        BY <1>3, <2>1, <2>2 DEF Ordered
<1>10. QED
    BY <1>3, <1>6, <1>7, <1>8, <1>9 DEF Good, e, q, r

\* A task that is nowhere joins the blocked list.
LEMMA SleepGood ==
    ASSUME NEW s, Good(s), NEW t \in Tasks, Off(s, t), s.current # t,
           Len(s.blocked) < QueueCapacity
    PROVE  Good([s EXCEPT !.blocked = Append(@, t)])
<1> DEFINE b == Append(s.blocked, t)
           r == [s EXCEPT !.blocked = b]
<1>1. s \in SchedState /\ s.queue \in Seq(QueueEntry) /\ s.blocked \in Seq(Tasks)
    BY DEF Good, SchedState
<1>2. /\ b \in Seq(Tasks)
      /\ Len(b) = Len(s.blocked) + 1
      /\ \A j \in 1 .. Len(s.blocked) : b[j] = s.blocked[j]
      /\ b[Len(b)] = t
    BY <1>1, AppendProperties
<1>3. /\ r \in SchedState /\ r.blocked = b /\ r.queue = s.queue
      /\ r.current = s.current /\ r.ticks = s.ticks
    BY <1>1, <1>2 DEF SchedState
<1>4. \A j \in 1 .. Len(b) : j \in 1 .. Len(s.blocked) \/ j = Len(b)
    BY <1>1, <1>2
<1> HIDE DEF b, r
<1>5. Distinct(r)
    <2>1. ASSUME NEW i \in 1 .. Len(b), NEW j \in 1 .. Len(b), b[i] = b[j]
          PROVE  i = j
        BY <1>2, <1>4, <2>1 DEF Good, Distinct, Off
    <2>2. QED
        BY <1>3, <2>1 DEF Good, Distinct
<1>6. Apart(r)
    <2>1. ASSUME NEW i \in 1 .. Len(b)
          PROVE  /\ b[i] # s.current
                 /\ \A j \in 1 .. Len(s.queue) : s.queue[j].task # b[i]
        BY <1>2, <1>4 DEF Good, Apart, Off
    <2>2. QED
        BY <1>3, <2>1 DEF Good, Apart
<1>7. Bounded(r)
    BY <1>1, <1>2, <1>3, SchedBoundsAssumption DEF Good, Bounded
<1>8. Ordered(r)
    BY <1>3 DEF Good, Ordered
<1>9. QED
    BY <1>3, <1>5, <1>6, <1>7, <1>8 DEF Good, b, r

\* The CPU goes to a task that is in no list, or to nobody.
LEMMA CurrentGood ==
    ASSUME NEW s, Good(s), NEW t \in Tasks \cup {NoTask}, NEW n \in Nat,
           t # NoTask => Off(s, t)
    PROVE  Good([s EXCEPT !.current = t, !.slice = n])
<1> DEFINE r == [s EXCEPT !.current = t, !.slice = n]
<1>1. /\ s \in SchedState /\ s.queue \in Seq(QueueEntry) /\ s.blocked \in Seq(Tasks)
      /\ \A i \in 1 .. Len(s.queue) : s.queue[i].task \in Tasks
      /\ \A i \in 1 .. Len(s.blocked) : s.blocked[i] \in Tasks
    BY GoodTypes
<1>2. /\ r \in SchedState /\ r.queue = s.queue /\ r.blocked = s.blocked
      /\ r.current = t /\ r.ticks = s.ticks
    BY <1>1 DEF SchedState
<1> HIDE DEF r
<1>3. /\ \A i \in 1 .. Len(s.queue) : s.queue[i].task # t
      /\ \A i \in 1 .. Len(s.blocked) : s.blocked[i] # t
    BY <1>1, NoTaskAssumption DEF Off
<1>4. Apart(r)
    BY <1>2, <1>3 DEF Good, Apart
<1>5. QED
    BY <1>2, <1>4 DEF Good, Distinct, Bounded, Ordered, r

-----------------------------------------------------------------------------
(* The operations of module Sched.                                         *)

\* `remove' takes t off the run queue and leaves the rest alone.
LEMMA RemoveGood ==
    ASSUME NEW s, Good(s), NEW t \in Tasks
    PROVE  /\ Good(Remove(s, t))
           /\ \A i \in 1 .. Len(Remove(s, t).queue) : Remove(s, t).queue[i].task # t
           /\ Remove(s, t).blocked = s.blocked
           /\ Remove(s, t).current = s.current
           /\ Remove(s, t).ticks = s.ticks
           /\ Contains(s, t) =>
                 \A i \in 1 .. Len(s.blocked) : s.blocked[i] # t
<1>1. /\ s \in SchedState /\ s.queue \in Seq(QueueEntry)
      /\ DOMAIN s.queue = 1 .. Len(s.queue)
    BY DEF Good, SchedState
<1>2. CASE Contains(s, t)
    <2>1. PICK i \in 1 .. Len(s.queue) : s.queue[i].task = t
        BY <1>1, <1>2 DEF Contains
    <2>2. \A j \in DOMAIN s.queue : s.queue[j].task = t => i <= j
        BY <1>1, <2>1 DEF Good, Distinct
    <2>3. QueueIndex(s, t) \in 1 .. Len(s.queue) /\ s.queue[QueueIndex(s, t)].task = t
        BY <1>1, <2>1, <2>2 DEF QueueIndex
    <2>4. Remove(s, t) = [s EXCEPT !.queue = RemoveAt(s.queue, QueueIndex(s, t))]
        BY <1>2 DEF Remove
    <2>5. /\ Remove(s, t).blocked = s.blocked
          /\ Remove(s, t).current = s.current
          /\ Remove(s, t).ticks = s.ticks
        BY <1>1, <2>4 DEF SchedState
    <2>6. QED
        BY <2>3, <2>4, <2>5, DequeueGood
<1>3. CASE ~ Contains(s, t)
    BY <1>1, <1>3 DEF Remove, Contains
<1>4. QED
    BY <1>2, <1>3

\* remove_blocked takes t off the blocked list and leaves the rest alone.
LEMMA RemoveBlockedGood ==
    ASSUME NEW s, Good(s), NEW t \in Tasks
    PROVE  /\ Good(RemoveBlocked(s, t))
           /\ \A i \in 1 .. Len(s.blocked) : s.blocked[i] = t =>
                 Len(RemoveBlocked(s, t).blocked) = Len(s.blocked) - 1
           /\ \A i \in 1 .. Len(RemoveBlocked(s, t).blocked) :
                 RemoveBlocked(s, t).blocked[i] # t
           /\ RemoveBlocked(s, t).queue = s.queue
           /\ RemoveBlocked(s, t).current = s.current
           /\ RemoveBlocked(s, t).ticks = s.ticks
<1>1. /\ s \in SchedState /\ s.blocked \in Seq(Tasks)
      /\ DOMAIN s.blocked = 1 .. Len(s.blocked)
    BY DEF Good, SchedState
<1>2. CASE ContainsBlocked(s, t)
    <2>1. PICK i \in 1 .. Len(s.blocked) : s.blocked[i] = t
        BY <1>1, <1>2 DEF ContainsBlocked
    <2>2. \A j \in DOMAIN s.blocked : s.blocked[j] = t => i <= j
        BY <1>1, <2>1 DEF Good, Distinct
    <2>3. BlockedIndex(s, t) \in 1 .. Len(s.blocked) /\ s.blocked[BlockedIndex(s, t)] = t
        BY <1>1, <2>1, <2>2 DEF BlockedIndex
    <2>4. RemoveBlocked(s, t) = [s EXCEPT !.blocked = RemoveAt(s.blocked, BlockedIndex(s, t))]
        BY <1>2 DEF RemoveBlocked
    <2>5. /\ RemoveBlocked(s, t).queue = s.queue
          /\ RemoveBlocked(s, t).current = s.current
          /\ RemoveBlocked(s, t).ticks = s.ticks
        BY <1>1, <2>4 DEF SchedState
    <2>6. QED
        BY <2>3, <2>4, <2>5, UnblockGood
<1>3. CASE ~ ContainsBlocked(s, t)
    BY <1>1, <1>3 DEF RemoveBlocked, ContainsBlocked
<1>4. QED
    BY <1>2, <1>3

\* As the run queue is in the order of ready_since, its head has waited
\* longest: the starvation guard agrees with it.
LEMMA HeadIsNext ==
    ASSUME NEW s, Good(s), s.queue # <<>>
    PROVE  SelectNextOffset(s) = 1 /\ 1 \in 1 .. Len(s.queue)
<1>1. /\ s.queue \in Seq(QueueEntry) /\ s.ticks \in Nat
      /\ DOMAIN s.queue = 1 .. Len(s.queue)
      /\ \A i \in 1 .. Len(s.queue) : s.queue[i].since \in Nat
    BY GoodTypes
<1>2. 1 \in 1 .. Len(s.queue)
    BY <1>1
<1>3. \A i \in 1 .. Len(s.queue) : Waited(s, i) = s.ticks - s.queue[i].since
    BY DEF Waited, Good, Ordered
<1>4. \A j \in 1 .. Len(s.queue) : s.queue[1].since <= s.queue[j].since /\ 1 <= j
    BY <1>1, <1>2 DEF Good, Ordered
<1>5. \A j \in 1 .. Len(s.queue) :
          Waited(s, j) <= Waited(s, 1) /\ (Waited(s, j) = Waited(s, 1) => 1 <= j)
    BY <1>1, <1>2, <1>3, <1>4
<1>6. ASSUME NEW i \in 1 .. Len(s.queue),
             \A j \in 1 .. Len(s.queue) :
                 Waited(s, j) <= Waited(s, i) /\ (Waited(s, j) = Waited(s, i) => i <= j)
      PROVE  i = 1
    <2>1. Waited(s, i) \in Int /\ Waited(s, 1) \in Int
        BY <1>1, <1>2, <1>3
    <2>2. Waited(s, 1) = Waited(s, i)
        BY <1>2, <1>5, <1>6, <2>1
    <2>3. QED
        BY <1>2, <1>6, <2>2
<1>7. LongestWaiting(s) = 1
    BY <1>1, <1>2, <1>5, <1>6 DEF LongestWaiting
<1>8. QED
    BY <1>2, <1>7 DEF SelectNextOffset

\* `enqueue' of a task that is not blocked keeps the invariant.
LEMMA EnqueueGood ==
    ASSUME NEW s, Good(s), NEW t \in Tasks,
           \A i \in 1 .. Len(s.blocked) : s.blocked[i] # t
    PROVE  Good(EnqueueAt(s, t, s.ticks))
<1>1. CASE EnqueueAtOk(s, t) /\ ~ Contains(s, t) /\ s.current # t
    <2>1. Off(s, t)
        BY <1>1, GoodTypes DEF Off, Contains
    <2>2. Len(s.queue) < QueueCapacity
        BY <1>1 DEF EnqueueAtOk
    <2>3. QED
        BY <1>1, <2>1, <2>2, AdmitGood DEF EnqueueAt
<1>2. CASE ~ (EnqueueAtOk(s, t) /\ ~ Contains(s, t) /\ s.current # t)
    BY <1>2 DEF EnqueueAt
<1>3. QED
    BY <1>1, <1>2

\* begin_task keeps the invariant, wherever the task was before.
LEMMA BeginGood ==
    ASSUME NEW s, Good(s), NEW t \in Tasks
    PROVE  Good(BeginTask(s, t))
<1> DEFINE u == Remove(s, t)
           r == RemoveBlocked(u, t)
<1>1. Good(u) /\ \A i \in 1 .. Len(u.queue) : u.queue[i].task # t
    BY RemoveGood
<1> HIDE DEF u
<1>2. Good(r) /\ Off(r, t)
    BY <1>1, RemoveBlockedGood DEF Off
<1> HIDE DEF r
<1>3. Good([r EXCEPT !.current = t, !.slice = 0])
    BY <1>2, CurrentGood
<1>4. QED
    BY <1>3 DEF BeginTask, r, u

\* A task gives up the CPU and is then nowhere.
LEMMA ClearGood ==
    ASSUME NEW s, Good(s), NEW t \in Tasks
    PROVE  /\ Good(ClearCurrent(s, t))
           /\ s.current = t => Off(ClearCurrent(s, t), t)
           /\ ClearCurrent(s, t).current # t
           /\ ClearCurrent(s, t).blocked = s.blocked
<1>1. CASE s.current = t
    <2>1. ClearCurrent(s, t) = [s EXCEPT !.current = NoTask, !.slice = 0]
        BY <1>1 DEF ClearCurrent
    <2>2. Good(ClearCurrent(s, t))
        <3>1. NoTask \in Tasks \cup {NoTask} /\ 0 \in Nat
            OBVIOUS
        <3>2. Good([s EXCEPT !.current = NoTask, !.slice = 0])
            BY <3>1, CurrentGood
        <3>3. QED
            BY <2>1, <3>2
    <2>3. /\ ClearCurrent(s, t).queue = s.queue
          /\ ClearCurrent(s, t).blocked = s.blocked
          /\ ClearCurrent(s, t).current = NoTask
        BY <2>1, GoodTypes DEF SchedState
    <2>4. QED
        BY <1>1, <2>2, <2>3, NoTaskAssumption DEF Off, Good, Apart
<1>2. CASE s.current # t
    BY <1>2 DEF ClearCurrent
<1>3. QED
    BY <1>1, <1>2

\* finish_task keeps the invariant, wherever the task was before.
LEMMA FinishGood ==
    ASSUME NEW s, Good(s), NEW t \in Tasks
    PROVE  Good(FinishTask(s, t))
    BY ClearGood, RemoveGood, RemoveBlockedGood DEF FinishTask

\* block_task keeps the invariant: it moves the task or does nothing.
LEMMA BlockGood ==
    ASSUME NEW s, Good(s), NEW t \in Tasks
    PROVE  Good(BlockTask(s, t))
<1>1. CASE BlockTaskOk(s, t) /\ ~ ContainsBlocked(s, t)
    <2> DEFINE r == IF s.current = t THEN ClearCurrent(s, t) ELSE Remove(s, t)
    <2>1. Len(s.blocked) < QueueCapacity
        BY <1>1 DEF BlockTaskOk
    <2>2. \A i \in 1 .. Len(s.blocked) : s.blocked[i] # t
        BY <1>1, GoodTypes DEF ContainsBlocked
    <2>3. Good(r) /\ r.blocked = s.blocked /\ r.current # t /\ Off(r, t)
        BY <2>2, ClearGood, RemoveGood DEF Off
    <2> HIDE DEF r
    <2>4. Good([r EXCEPT !.blocked = Append(@, t)])
        BY <2>1, <2>3, SleepGood
    <2>5. QED
        BY <1>1, <2>4 DEF BlockTask, r
<1>2. CASE ~ (BlockTaskOk(s, t) /\ ~ ContainsBlocked(s, t))
    BY <1>2 DEF BlockTask
<1>3. QED
    BY <1>1, <1>2

\* wake_task keeps the invariant, also when the run queue is full and the
\* task goes back to the blocked list.
LEMMA WakeGood ==
    ASSUME NEW s, Good(s), NEW t \in Tasks
    PROVE  Good(WakeTask(s, t))
<1> DEFINE r == RemoveBlocked(s, t)
           stays == t = NoTask \/ s.current = t \/ Contains(s, t) \/ ~ ContainsBlocked(s, t)
<1>1. CASE stays
    BY <1>1 DEF WakeTask
<1>2. CASE ~ stays
    <2>1. /\ Good(r) /\ r.queue = s.queue /\ r.current = s.current /\ r.ticks = s.ticks
          /\ \A i \in 1 .. Len(r.blocked) : r.blocked[i] # t
          /\ Len(r.blocked) = Len(s.blocked) - 1
        <3>1. PICK i \in 1 .. Len(s.blocked) : s.blocked[i] = t
            BY <1>2, GoodTypes DEF ContainsBlocked
        <3>2. QED
            BY <3>1, RemoveBlockedGood
    <2>2. WakeTask(s, t) = IF EnqueueAtOk(r, t) THEN EnqueueAt(r, t, s.ticks)
                           ELSE [r EXCEPT !.blocked = Append(@, t)]
        BY <1>2 DEF WakeTask
    <2>3. Off(r, t) /\ r.current # t
        BY <1>2, <2>1, GoodTypes DEF Off, Contains
    <2> HIDE DEF r
    <2>4. CASE EnqueueAtOk(r, t)
        BY <2>1, <2>2, <2>4, EnqueueGood
    <2>5. CASE ~ EnqueueAtOk(r, t)
        <3>1. Len(r.blocked) < QueueCapacity
            BY <2>1, GoodTypes, SchedBoundsAssumption DEF Good, Bounded
        <3>2. QED
            BY <2>1, <2>2, <2>3, <2>5, <3>1, SleepGood
    <2>6. QED
        BY <2>4, <2>5
<1>3. QED
    BY <1>1, <1>2

\* The handoff of block_current_and_dispatch: the head of the run queue takes
\* the CPU and the blocking task its place on the blocked list.
LEMMA DispatchGood ==
    ASSUME NEW s, Good(s), NEW t \in Tasks
    PROVE  Good(BlockCurrentAndDispatch(s, t))
<1>1. CASE ~ DispatchOk(s, t)
    BY <1>1 DEF BlockCurrentAndDispatch
<1>2. CASE DispatchOk(s, t)
    <2> DEFINE next == s.queue[1].task
               r == [s EXCEPT !.queue = RemoveAt(s.queue, 1)]
               u == [r EXCEPT !.current = next, !.slice = 0]
    <2>1. /\ SelectNextOffset(s) = 1 /\ 1 \in 1 .. Len(s.queue)
          /\ s.current = t /\ Len(s.blocked) < QueueCapacity
        BY <1>2, HeadIsNext, GoodTypes DEF DispatchOk
    <2>2. /\ next \in Tasks /\ next # t
        BY <2>1, GoodTypes DEF Good, Apart
    <2>3. /\ Good(r) /\ Off(r, next)
        BY <2>1, DequeueGood DEF Off
    <2>4. /\ r.blocked = s.blocked /\ r.current = t /\ r.queue = RemoveAt(s.queue, 1)
        BY <2>1, GoodTypes DEF SchedState
    <2>5. BlockCurrentAndDispatch(s, t) = [u EXCEPT !.blocked = Append(@, t)]
        BY <1>2, <2>1, GoodTypes DEF BlockCurrentAndDispatch, NextTask, SchedState
    <2> HIDE DEF next
    <2>6. Off(r, t)
        BY <2>3, <2>4 DEF Off, Good, Apart
    <2> HIDE DEF r
    <2>7. Good(u)
        BY <2>2, <2>3, CurrentGood
    <2>8. u.queue = r.queue /\ u.blocked = r.blocked /\ u.current = next
        BY <2>3, GoodTypes DEF SchedState
    <2> HIDE DEF u
    <2>9. Off(u, t) /\ u.current # t /\ Len(u.blocked) < QueueCapacity
        BY <2>1, <2>2, <2>4, <2>6, <2>8 DEF Off
    <2>10. QED
        BY <2>5, <2>7, <2>9, SleepGood
<1>3. QED
    BY <1>1, <1>2

\* on_timer_tick keeps the invariant.
LEMMA TickGood ==
    ASSUME NEW s, Good(s)
    PROVE  Good(OnTimerTick(s)) /\ OnTimerTick(s).current = s.current
<1> DEFINE r == OnTimerTick(s)
<1>1. /\ r \in SchedState /\ r.queue = s.queue /\ r.blocked = s.blocked
      /\ r.current = s.current /\ r.ticks = s.ticks + 1
    <2> DEFINE n == IF s.current # NoTask THEN s.slice + 1 ELSE s.slice
    <2>1. n \in Nat /\ s.ticks + 1 \in Nat /\ s \in SchedState
        BY GoodTypes
    <2>2. r = [s EXCEPT !.ticks = s.ticks + 1, !.slice = n]
        BY <2>1 DEF OnTimerTick, SchedState
    <2> HIDE DEF n, r
    <2>3. QED
        BY <2>1, <2>2 DEF SchedState
<1> HIDE DEF r
<1>2. Ordered(r)
    <2>1. \A i \in 1 .. Len(s.queue) : s.queue[i].since <= s.ticks + 1
        BY GoodTypes DEF Good, Ordered
    <2>2. QED
        BY <1>1, <2>1 DEF Good, Ordered
<1>3. QED
    BY <1>1, <1>2 DEF Good, Distinct, Apart, Bounded, r

\* Preemption: the head of the run queue takes the CPU and the preempted task
\* goes to the tail.  There is always room for it, so the roll-back of
\* preempt_current is never taken.
LEMMA PreemptGood ==
    ASSUME NEW s, Good(s)
    PROVE  Good(PreemptCurrent(s))
<1>1. CASE ~ PreemptOk(s)
    BY <1>1 DEF PreemptCurrent
<1>2. CASE PreemptOk(s)
    <2> DEFINE next == s.queue[1].task
               d == [s EXCEPT !.queue = RemoveAt(s.queue, 1)]
               r == [s EXCEPT !.queue = RemoveAt(s.queue, 1), !.current = NoTask]
               e == [task |-> s.current, since |-> s.ticks]
               u == [r EXCEPT !.queue = Append(@, e)]
    <2>1. /\ SelectNextOffset(s) = 1 /\ 1 \in 1 .. Len(s.queue)
          /\ s.current \in Tasks /\ s.current # NoTask
        BY <1>2, HeadIsNext, GoodTypes DEF PreemptOk
    <2>2. next \in Tasks /\ next # s.current
        BY <2>1, GoodTypes DEF Good, Apart
    <2>3. Good(d) /\ Off(d, next) /\ Len(d.queue) = Len(s.queue) - 1
        BY <2>1, DequeueGood DEF Off
    <2>4. /\ d.blocked = s.blocked /\ d.current = s.current /\ d.ticks = s.ticks
          /\ d.slice = s.slice /\ s.slice \in Nat
        BY GoodTypes DEF SchedState
    <2>5. r = [d EXCEPT !.current = NoTask, !.slice = s.slice]
        BY GoodTypes DEF SchedState
    <2>6. Off(d, s.current)
        BY <2>3, <2>4 DEF Off, Good, Apart
    <2> HIDE DEF d
    <2>7. Good(r)
        <3>1. NoTask \in Tasks \cup {NoTask}
            OBVIOUS
        <3>2. Good([d EXCEPT !.current = NoTask, !.slice = s.slice])
            BY <2>3, <2>4, <3>1, CurrentGood
        <3>3. QED
            BY <2>5, <3>2
    <2>8. /\ r.queue = d.queue /\ r.blocked = d.blocked /\ r.current = NoTask
          /\ r.ticks = s.ticks
        BY <2>3, <2>4, <2>5, GoodTypes DEF SchedState
    <2>9. Off(r, s.current) /\ Off(r, next)
        BY <2>3, <2>6, <2>8 DEF Off
    <2>10. Len(r.queue) < QueueCapacity
        BY <2>3, <2>8, GoodTypes, SchedBoundsAssumption DEF Good, Bounded
    <2>11. EnqueueAtOk(r, s.current) /\ ~ Contains(r, s.current) /\ r.current # s.current
        <3>1. ~ Contains(r, s.current)
            BY <2>7, <2>9, GoodTypes DEF Contains, Off
        <3>2. QED
            BY <2>1, <2>8, <2>10, <3>1 DEF EnqueueAtOk
    <2>12. PreemptCurrent(s) = [u EXCEPT !.current = next, !.slice = 0]
        BY <1>2, <2>1, <2>11 DEF PreemptCurrent, EnqueueAt
    <2> HIDE DEF r, next
    <2>13. Good(u)
        <3>1. Good([r EXCEPT !.queue = Append(@, [task |-> s.current, since |-> r.ticks])])
            BY <2>1, <2>7, <2>9, <2>10, <2>11, AdmitGood
        <3>2. QED
            BY <2>8, <3>1
    <2>14. Off(u, next)
        BY <2>1, <2>2, <2>3, <2>7, <2>8, GoodTypes, AppendProperties
        DEF Off, SchedState, QueueEntry
    <2> HIDE DEF u
    <2>15. Good([u EXCEPT !.current = next, !.slice = 0])
        BY <2>2, <2>13, <2>14, CurrentGood
    <2>16. QED
        BY <2>12, <2>15
<1>3. QED
    BY <1>1, <1>2

\* What a preemption leaves.
LEMMA PreemptShape ==
    ASSUME NEW s, Good(s), PreemptOk(s)
    PROVE  LET p == PreemptCurrent(s) IN
           /\ 1 \in 1 .. Len(s.queue) /\ s.current \in Tasks
           /\ p.queue = Append(RemoveAt(s.queue, 1), [task |-> s.current, since |-> s.ticks])
           /\ p.blocked = s.blocked
           /\ p.current = s.queue[1].task
           /\ p.ticks = s.ticks
           /\ p.slice = 0
<1> DEFINE d == [s EXCEPT !.queue = RemoveAt(s.queue, 1)]
           r == [s EXCEPT !.queue = RemoveAt(s.queue, 1), !.current = NoTask]
           p == PreemptCurrent(s)
           e == [task |-> s.current, since |-> s.ticks]
<1>1. s.current # NoTask /\ s.current \in Tasks /\ Len(s.queue) # 0 /\ s.ticks \in Nat
    BY GoodTypes DEF PreemptOk
<1>2. SelectNextOffset(s) = 1 /\ 1 \in 1 .. Len(s.queue)
    BY <1>1, HeadIsNext, GoodTypes
<1>3. Good(d) /\ Len(d.queue) = Len(s.queue) - 1
    BY <1>2, DequeueGood
<1>4. /\ d.queue = RemoveAt(s.queue, 1) /\ d.current = s.current
      /\ r.queue = d.queue /\ r.blocked = s.blocked /\ r.current = NoTask
      /\ r.ticks = s.ticks
    BY GoodTypes DEF SchedState
<1>5. EnqueueAtOk(r, s.current) /\ ~ Contains(r, s.current) /\ r.current # s.current
    <2>1. ~ Contains(d, s.current)
        BY <1>3, <1>4, GoodTypes DEF Contains, Good, Apart
    <2>2. ~ Contains(r, s.current)
        BY <1>4, <2>1 DEF Contains
    <2>3. Len(r.queue) < QueueCapacity
        BY <1>3, <1>4, GoodTypes, SchedBoundsAssumption DEF Good, Bounded
    <2>4. QED
        BY <1>1, <1>4, <2>2, <2>3 DEF EnqueueAtOk
<1>6. p = [[r EXCEPT !.queue = Append(r.queue, e)] EXCEPT !.current = s.queue[1].task, !.slice = 0]
    BY <1>2, <1>5 DEF PreemptCurrent, EnqueueAt
<1>7. QED
    BY <1>1, <1>2, <1>4, <1>6, GoodTypes DEF SchedState

-----------------------------------------------------------------------------
(* Where a task is.  The process table has to agree with it.               *)

Place(s, t) ==
    CASE s.current = t         -> "Running"
      [] Contains(s, t)        -> "Ready"
      [] ContainsBlocked(s, t) -> "Blocked"
      [] OTHER                 -> "Unknown"

\* The places of r are those of s, but t is now at the place w.
Moved(s, r, t, w) ==
    /\ Place(r, t) = w
    /\ \A u \in Tasks : u # t => Place(r, u) = Place(s, u)

\* A task is at one place.
LEMMA PlaceIs ==
    ASSUME NEW s, Good(s), NEW t \in Tasks
    PROVE  /\ Place(s, t) = "Running" <=> s.current = t
           /\ Place(s, t) = "Ready" <=> Contains(s, t)
           /\ Place(s, t) = "Blocked" <=> ContainsBlocked(s, t)
           /\ Place(s, t) \in {"Running", "Ready", "Blocked", "Unknown"}
<1>1. ~ (s.current = t /\ Contains(s, t))
    BY GoodTypes DEF Contains, Good, Apart
<1>2. ~ (s.current = t /\ ContainsBlocked(s, t))
    BY GoodTypes DEF ContainsBlocked, Good, Apart
<1>3. ~ (Contains(s, t) /\ ContainsBlocked(s, t))
    BY GoodTypes DEF Contains, ContainsBlocked, Good, Apart
<1>4. QED
    BY <1>1, <1>2, <1>3 DEF Place

\* Equal lists have the same members.
LEMMA PlaceSame ==
    ASSUME NEW s, NEW r, r.queue = s.queue, r.blocked = s.blocked, r.current = s.current
    PROVE  \A u \in Tasks : Place(r, u) = Place(s, u)
    BY DEF Place, Contains, ContainsBlocked

LEMMA QueueShrinks ==
    ASSUME NEW s, Good(s), NEW k \in 1 .. Len(s.queue),
           NEW r, r.queue = RemoveAt(s.queue, k), NEW u
    PROVE  Contains(r, u) <=> Contains(s, u) /\ u # s.queue[k].task
<1> DEFINE n == Len(s.queue)
<1>1. s.queue \in Seq(QueueEntry) /\ DOMAIN s.queue = 1 .. n /\ n \in Nat
    BY GoodTypes
<1>2. /\ DOMAIN r.queue = 1 .. n - 1
      /\ \A j \in 1 .. n - 1 : r.queue[j] = IF j < k THEN s.queue[j] ELSE s.queue[j + 1]
    BY <1>1, RemoveAtProperties
<1> HIDE DEF n
<1>3. k \in 1 .. n
    BY DEF n
<1>4. \A i, j \in 1 .. n : s.queue[i].task = s.queue[j].task => i = j
    BY DEF Good, Distinct, n
<1>5. ASSUME Contains(r, u)
      PROVE  Contains(s, u) /\ u # s.queue[k].task
    <2>1. PICK j \in 1 .. n - 1 : r.queue[j].task = u
        BY <1>2, <1>5 DEF Contains
    <2> DEFINE i == IF j < k THEN j ELSE j + 1
    <2>2. i \in 1 .. n /\ i # k /\ s.queue[i].task = u
        BY <1>1, <1>2, <1>3, <2>1
    <2>3. QED
        BY <1>1, <1>3, <1>4, <2>2 DEF Contains
<1>6. ASSUME Contains(s, u), u # s.queue[k].task
      PROVE  Contains(r, u)
    <2>1. PICK i \in 1 .. n : s.queue[i].task = u
        BY <1>1, <1>6 DEF Contains
    <2> DEFINE j == IF i < k THEN i ELSE i - 1
    <2>2. i # k
        BY <1>6, <2>1
    <2>3. j \in 1 .. n - 1 /\ r.queue[j].task = u
        BY <1>1, <1>2, <1>3, <2>1, <2>2
    <2>4. QED
        BY <1>2, <2>3 DEF Contains
<1>7. QED
    BY <1>5, <1>6

LEMMA BlockedShrinks ==
    ASSUME NEW s, Good(s), NEW k \in 1 .. Len(s.blocked),
           NEW r, r.blocked = RemoveAt(s.blocked, k), NEW u
    PROVE  ContainsBlocked(r, u) <=> ContainsBlocked(s, u) /\ u # s.blocked[k]
<1> DEFINE n == Len(s.blocked)
<1>1. s.blocked \in Seq(Tasks) /\ DOMAIN s.blocked = 1 .. n /\ n \in Nat
    BY GoodTypes
<1>2. /\ DOMAIN r.blocked = 1 .. n - 1
      /\ \A j \in 1 .. n - 1 : r.blocked[j] = IF j < k THEN s.blocked[j] ELSE s.blocked[j + 1]
    BY <1>1, RemoveAtProperties
<1> HIDE DEF n
<1>3. k \in 1 .. n
    BY DEF n
<1>4. \A i, j \in 1 .. n : s.blocked[i] = s.blocked[j] => i = j
    BY DEF Good, Distinct, n
<1>5. ASSUME ContainsBlocked(r, u)
      PROVE  ContainsBlocked(s, u) /\ u # s.blocked[k]
    <2>1. PICK j \in 1 .. n - 1 : r.blocked[j] = u
        BY <1>2, <1>5 DEF ContainsBlocked
    <2> DEFINE i == IF j < k THEN j ELSE j + 1
    <2>2. i \in 1 .. n /\ i # k /\ s.blocked[i] = u
        BY <1>1, <1>2, <1>3, <2>1
    <2>3. QED
        BY <1>1, <1>3, <1>4, <2>2 DEF ContainsBlocked
<1>6. ASSUME ContainsBlocked(s, u), u # s.blocked[k]
      PROVE  ContainsBlocked(r, u)
    <2>1. PICK i \in 1 .. n : s.blocked[i] = u
        BY <1>1, <1>6 DEF ContainsBlocked
    <2> DEFINE j == IF i < k THEN i ELSE i - 1
    <2>2. i # k
        BY <1>6, <2>1
    <2>3. j \in 1 .. n - 1 /\ r.blocked[j] = u
        <3>1. CASE i < k
            BY <1>1, <1>2, <1>3, <2>1, <3>1
        <3>2. CASE i > k
            <4>1. j \in 1 .. n - 1 /\ ~ (j < k) /\ j + 1 = i
                BY <1>1, <1>3, <3>2
            <4>2. QED
                BY <1>2, <2>1, <4>1
        <3>3. QED
            BY <1>3, <2>2, <3>1, <3>2
    <2>4. QED
        BY <1>2, <2>3 DEF ContainsBlocked
<1>7. QED
    BY <1>5, <1>6

LEMMA QueueGrows ==
    ASSUME NEW s, Good(s), NEW t \in Tasks, NEW since \in Nat,
           NEW r, r.queue = Append(s.queue, [task |-> t, since |-> since]), NEW u
    PROVE  Contains(r, u) <=> Contains(s, u) \/ u = t
<1> DEFINE n == Len(s.queue)
           e == [task |-> t, since |-> since]
<1>0. e \in QueueEntry /\ e.task = t
    BY DEF QueueEntry
<1>1. s.queue \in Seq(QueueEntry) /\ DOMAIN s.queue = 1 .. n /\ n \in Nat
    BY GoodTypes
<1> HIDE DEF e
<1>2. /\ DOMAIN r.queue = 1 .. n + 1 /\ r.queue[n + 1] = e
      /\ \A j \in 1 .. n : r.queue[j] = s.queue[j]
    BY <1>0, <1>1, AppendProperties DEF e
<1> HIDE DEF n
<1>3. n + 1 \in 1 .. n + 1 /\ \A j \in 1 .. n + 1 : j \in 1 .. n \/ j = n + 1
    BY <1>1
<1>4. QED
    BY <1>0, <1>1, <1>2, <1>3 DEF Contains

LEMMA BlockedGrows ==
    ASSUME NEW s, Good(s), NEW t \in Tasks, NEW r, r.blocked = Append(s.blocked, t), NEW u
    PROVE  ContainsBlocked(r, u) <=> ContainsBlocked(s, u) \/ u = t
<1> DEFINE n == Len(s.blocked)
<1>1. /\ s.blocked \in Seq(Tasks) /\ DOMAIN s.blocked = 1 .. n /\ n \in Nat
    BY GoodTypes
<1>2. /\ DOMAIN r.blocked = 1 .. n + 1 /\ r.blocked[n + 1] = t
      /\ \A j \in 1 .. n : r.blocked[j] = s.blocked[j]
    BY <1>1, AppendProperties
<1> HIDE DEF n
<1>3. n + 1 \in 1 .. n + 1 /\ \A j \in 1 .. n + 1 : j \in 1 .. n \/ j = n + 1
    BY <1>1
<1>4. QED
    BY <1>1, <1>2, <1>3 DEF ContainsBlocked

LEMMA RemovePlace ==
    ASSUME NEW s, Good(s), NEW t \in Tasks, NEW u
    PROVE  /\ Contains(Remove(s, t), u) <=> Contains(s, u) /\ u # t
           /\ ContainsBlocked(Remove(s, t), u) <=> ContainsBlocked(s, u)
           /\ Remove(s, t).current = s.current /\ Remove(s, t).ticks = s.ticks
<1>1. s \in SchedState /\ DOMAIN s.queue = 1 .. Len(s.queue)
    BY GoodTypes
<1>2. CASE Contains(s, t)
    <2>1. PICK i \in 1 .. Len(s.queue) : s.queue[i].task = t
        BY <1>1, <1>2 DEF Contains
    <2>2. \A j \in DOMAIN s.queue : s.queue[j].task = t => i <= j
        BY <1>1, <2>1 DEF Good, Distinct
    <2> DEFINE k == QueueIndex(s, t)
    <2>3. k \in 1 .. Len(s.queue) /\ s.queue[k].task = t
        BY <1>1, <2>1, <2>2 DEF QueueIndex
    <2> HIDE DEF k
    <2>4. Remove(s, t) = [s EXCEPT !.queue = RemoveAt(s.queue, k)]
        BY <1>2 DEF Remove, k
    <2>5. /\ Remove(s, t).queue = RemoveAt(s.queue, k) /\ Remove(s, t).blocked = s.blocked
          /\ Remove(s, t).current = s.current /\ Remove(s, t).ticks = s.ticks
        BY <1>1, <2>4 DEF SchedState
    <2>6. Contains(Remove(s, t), u) <=> Contains(s, u) /\ u # t
        BY <2>3, <2>5, QueueShrinks
    <2>7. QED
        BY <2>5, <2>6 DEF ContainsBlocked
<1>3. CASE ~ Contains(s, t)
    BY <1>3 DEF Remove
<1>4. QED
    BY <1>2, <1>3

LEMMA RemoveBlockedPlace ==
    ASSUME NEW s, Good(s), NEW t \in Tasks, NEW u
    PROVE  /\ ContainsBlocked(RemoveBlocked(s, t), u) <=> ContainsBlocked(s, u) /\ u # t
           /\ Contains(RemoveBlocked(s, t), u) <=> Contains(s, u)
           /\ RemoveBlocked(s, t).current = s.current /\ RemoveBlocked(s, t).ticks = s.ticks
<1>1. s \in SchedState /\ DOMAIN s.blocked = 1 .. Len(s.blocked)
    BY GoodTypes
<1>2. CASE ContainsBlocked(s, t)
    <2>1. PICK i \in 1 .. Len(s.blocked) : s.blocked[i] = t
        BY <1>1, <1>2 DEF ContainsBlocked
    <2>2. \A j \in DOMAIN s.blocked : s.blocked[j] = t => i <= j
        BY <1>1, <2>1 DEF Good, Distinct
    <2> DEFINE k == BlockedIndex(s, t)
    <2>3. k \in 1 .. Len(s.blocked) /\ s.blocked[k] = t
        BY <1>1, <2>1, <2>2 DEF BlockedIndex
    <2> HIDE DEF k
    <2>4. RemoveBlocked(s, t) = [s EXCEPT !.blocked = RemoveAt(s.blocked, k)]
        BY <1>2 DEF RemoveBlocked, k
    <2>5. /\ RemoveBlocked(s, t).blocked = RemoveAt(s.blocked, k)
          /\ RemoveBlocked(s, t).queue = s.queue
          /\ RemoveBlocked(s, t).current = s.current /\ RemoveBlocked(s, t).ticks = s.ticks
        BY <1>1, <2>4 DEF SchedState
    <2>6. ContainsBlocked(RemoveBlocked(s, t), u) <=> ContainsBlocked(s, u) /\ u # t
        BY <2>3, <2>5, BlockedShrinks
    <2>7. QED
        BY <2>5, <2>6 DEF Contains
<1>3. CASE ~ ContainsBlocked(s, t)
    BY <1>3 DEF RemoveBlocked
<1>4. QED
    BY <1>2, <1>3

\* enqueue_task of a task that is nowhere.
LEMMA EnqueuePlace ==
    ASSUME NEW s, Good(s), NEW t \in Tasks, Place(s, t) = "Unknown",
           Len(s.queue) < QueueCapacity
    PROVE  /\ Good(Enqueue(s, t)) /\ Moved(s, Enqueue(s, t), t, "Ready")
           /\ Enqueue(s, t).ticks = s.ticks
<1> DEFINE r == Enqueue(s, t)
<1>1. s.current # t /\ ~ Contains(s, t) /\ ~ ContainsBlocked(s, t)
    BY PlaceIs
<1>2. t # NoTask /\ s.ticks \in Nat /\ s \in SchedState /\ DOMAIN s.blocked = 1 .. Len(s.blocked)
    BY NoTaskAssumption, GoodTypes
<1>3. r = [s EXCEPT !.queue = Append(s.queue, [task |-> t, since |-> s.ticks])]
    BY <1>1, <1>2 DEF Enqueue, EnqueueAt, EnqueueAtOk
<1>4. Good(r)
    BY <1>1, <1>2, EnqueueGood DEF Enqueue, ContainsBlocked
<1>5. /\ r.queue = Append(s.queue, [task |-> t, since |-> s.ticks])
      /\ r.blocked = s.blocked /\ r.current = s.current /\ r.ticks = s.ticks
    BY <1>2, <1>3 DEF SchedState
<1> HIDE DEF r
<1>6. \A u : Contains(r, u) <=> Contains(s, u) \/ u = t
    BY <1>2, <1>5, QueueGrows
<1>7. \A u : ContainsBlocked(r, u) <=> ContainsBlocked(s, u)
    BY <1>5 DEF ContainsBlocked
<1>8. Moved(s, r, t, "Ready")
    BY <1>1, <1>5, <1>6, <1>7 DEF Moved, Place
<1>9. QED
    BY <1>4, <1>5, <1>8 DEF r

\* begin_task of a queued task, when nobody has the CPU.
LEMMA BeginPlace ==
    ASSUME NEW s, Good(s), NEW t \in Tasks, s.current = NoTask
    PROVE  /\ Good(BeginTask(s, t)) /\ Moved(s, BeginTask(s, t), t, "Running")
           /\ BeginTask(s, t).ticks = s.ticks
<1> DEFINE u == Remove(s, t)
           w == RemoveBlocked(u, t)
           r == BeginTask(s, t)
<1>1. Good(u)
    BY RemoveGood
<1>2. Good(w)
    BY <1>1, RemoveBlockedGood
<1>3. \A v : /\ Contains(u, v) <=> Contains(s, v) /\ v # t
             /\ ContainsBlocked(u, v) <=> ContainsBlocked(s, v)
    BY RemovePlace
<1>4. u.ticks = s.ticks
    BY RemovePlace
<1> HIDE DEF u
<1>5. \A v : /\ ContainsBlocked(w, v) <=> ContainsBlocked(u, v) /\ v # t
             /\ Contains(w, v) <=> Contains(u, v)
    BY <1>1, RemoveBlockedPlace
<1>6. w.ticks = u.ticks
    BY <1>1, RemoveBlockedPlace
<1>7. r = [w EXCEPT !.current = t, !.slice = 0]
    BY DEF BeginTask, u
<1> HIDE DEF w, r
<1>8. r.queue = w.queue /\ r.blocked = w.blocked /\ r.current = t /\ r.ticks = w.ticks
    BY <1>2, <1>7, GoodTypes DEF SchedState
<1>9. \A v : /\ Contains(r, v) <=> Contains(w, v)
             /\ ContainsBlocked(r, v) <=> ContainsBlocked(w, v)
    BY <1>8 DEF Contains, ContainsBlocked
<1>10. ASSUME NEW v \in Tasks, v # t
       PROVE  Place(r, v) = Place(s, v)
    <2>1. r.current # v /\ s.current # v
        BY <1>8, <1>10, NoTaskAssumption
    <2>2. /\ Contains(r, v) <=> Contains(s, v)
          /\ ContainsBlocked(r, v) <=> ContainsBlocked(s, v)
        BY <1>3, <1>5, <1>9, <1>10
    <2>3. QED
        BY <2>1, <2>2 DEF Place
<1>11. Good(r) /\ Place(r, t) = "Running"
    <2>1. Good(r)
        BY BeginGood DEF r
    <2>2. QED
        BY <1>8, <2>1, PlaceIs
<1>12. QED
    BY <1>4, <1>6, <1>8, <1>10, <1>11 DEF Moved, r

\* finish_task, wherever the task was.
LEMMA FinishPlace ==
    ASSUME NEW s, Good(s), NEW t \in Tasks
    PROVE  /\ Good(FinishTask(s, t)) /\ Moved(s, FinishTask(s, t), t, "Unknown")
           /\ FinishTask(s, t).ticks = s.ticks
<1> DEFINE c == ClearCurrent(s, t)
           u == Remove(c, t)
           r == FinishTask(s, t)
<1>1. Good(c)
    BY ClearGood
<1>2. /\ c.queue = s.queue /\ c.blocked = s.blocked /\ c.ticks = s.ticks
      /\ c.current = IF s.current = t THEN NoTask ELSE s.current
    <2>1. s \in SchedState
        BY GoodTypes
    <2>2. CASE s.current = t
        BY <2>1, <2>2 DEF ClearCurrent, SchedState
    <2>3. CASE s.current # t
        BY <2>3 DEF ClearCurrent
    <2>4. QED
        BY <2>2, <2>3
<1> HIDE DEF c
<1>3. Good(u)
    BY <1>1, RemoveGood
<1>4. \A v : /\ Contains(u, v) <=> Contains(c, v) /\ v # t
             /\ ContainsBlocked(u, v) <=> ContainsBlocked(c, v)
    BY <1>1, RemovePlace
<1>5. u.current = c.current /\ u.ticks = c.ticks
    BY <1>1, RemovePlace
<1>6. r = RemoveBlocked(u, t)
    BY DEF FinishTask, c
<1> HIDE DEF u, r
<1>7. \A v : /\ ContainsBlocked(r, v) <=> ContainsBlocked(u, v) /\ v # t
             /\ Contains(r, v) <=> Contains(u, v)
    BY <1>3, <1>6, RemoveBlockedPlace
<1>8. r.current = u.current /\ r.ticks = u.ticks
    BY <1>3, <1>6, RemoveBlockedPlace
<1>9. \A v : /\ Contains(c, v) <=> Contains(s, v)
             /\ ContainsBlocked(c, v) <=> ContainsBlocked(s, v)
    BY <1>2 DEF Contains, ContainsBlocked
<1>10. ASSUME NEW v \in Tasks, v # t
       PROVE  Place(r, v) = Place(s, v)
    <2>1. r.current = v <=> s.current = v
        BY <1>2, <1>5, <1>8, <1>10, NoTaskAssumption
    <2>2. /\ Contains(r, v) <=> Contains(s, v)
          /\ ContainsBlocked(r, v) <=> ContainsBlocked(s, v)
        BY <1>4, <1>7, <1>9, <1>10
    <2>3. QED
        BY <2>1, <2>2 DEF Place
<1>11. Place(r, t) = "Unknown"
    <2>1. r.current # t
        BY <1>2, <1>5, <1>8, NoTaskAssumption
    <2>2. ~ Contains(r, t) /\ ~ ContainsBlocked(r, t)
        BY <1>4, <1>7
    <2>3. QED
        BY <2>1, <2>2 DEF Place
<1>12. QED
    BY <1>2, <1>5, <1>8, <1>10, <1>11, FinishGood DEF Moved, r

\* block_task that succeeds.
LEMMA BlockPlace ==
    ASSUME NEW s, Good(s), NEW t \in Tasks, BlockTaskOk(s, t)
    PROVE  /\ Good(BlockTask(s, t)) /\ Moved(s, BlockTask(s, t), t, "Blocked")
           /\ BlockTask(s, t).ticks = s.ticks
<1>1. CASE ContainsBlocked(s, t)
    <2>1. BlockTask(s, t) = s
        BY <1>1 DEF BlockTask
    <2>2. Place(s, t) = "Blocked"
        BY <1>1, PlaceIs
    <2>3. QED
        BY <2>1, <2>2 DEF Moved
<1>2. CASE ~ ContainsBlocked(s, t)
    <2> DEFINE c == IF s.current = t THEN ClearCurrent(s, t) ELSE Remove(s, t)
               r == BlockTask(s, t)
    <2>1. Good(c)
        BY ClearGood, RemoveGood
    <2>2. /\ c.ticks = s.ticks
          /\ c.current = IF s.current = t THEN NoTask ELSE s.current
          /\ \A v : v # t => (Contains(c, v) <=> Contains(s, v))
          /\ \A v : ContainsBlocked(c, v) <=> ContainsBlocked(s, v)
          /\ ~ Contains(c, t)
        <3>1. CASE s.current = t
            <4>1. c = [s EXCEPT !.current = NoTask, !.slice = 0]
                BY <3>1 DEF ClearCurrent
            <4> HIDE DEF c
            <4>2. /\ c.queue = s.queue /\ c.blocked = s.blocked /\ c.ticks = s.ticks
                  /\ c.current = NoTask
                BY <4>1, GoodTypes DEF SchedState
            <4>3. ~ Contains(s, t)
                BY <3>1, PlaceIs
            <4>4. QED
                BY <3>1, <4>2, <4>3 DEF Contains, ContainsBlocked
        <3>2. CASE s.current # t
            <4>1. c = Remove(s, t)
                BY <3>2
            <4> HIDE DEF c
            <4>2. QED
                BY <3>2, <4>1, RemovePlace
        <3>3. QED
            BY <3>1, <3>2
    <2>3. r = [c EXCEPT !.blocked = Append(c.blocked, t)]
        BY <1>2 DEF BlockTask
    <2> HIDE DEF c, r
    <2>4. /\ r.queue = c.queue /\ r.current = c.current /\ r.ticks = c.ticks
          /\ r.blocked = Append(c.blocked, t)
        BY <2>1, <2>3, GoodTypes DEF SchedState
    <2>5. \A v : ContainsBlocked(r, v) <=> ContainsBlocked(c, v) \/ v = t
        BY <2>1, <2>4, BlockedGrows
    <2>6. \A v : Contains(r, v) <=> Contains(c, v)
        BY <2>4 DEF Contains
    <2>7. ASSUME NEW v \in Tasks, v # t
          PROVE  Place(r, v) = Place(s, v)
        <3>1. r.current = v <=> s.current = v
            BY <2>2, <2>4, <2>7, NoTaskAssumption
        <3>2. /\ Contains(r, v) <=> Contains(s, v)
              /\ ContainsBlocked(r, v) <=> ContainsBlocked(s, v)
            BY <2>2, <2>5, <2>6, <2>7
        <3>3. QED
            BY <3>1, <3>2 DEF Place
    <2>8. Place(r, t) = "Blocked"
        <3>1. r.current # t
            BY <2>2, <2>4, NoTaskAssumption
        <3>2. ~ Contains(r, t) /\ ContainsBlocked(r, t)
            BY <2>2, <2>5, <2>6
        <3>3. QED
            BY <3>1, <3>2 DEF Place
    <2>9. QED
        BY <2>2, <2>4, <2>7, <2>8, BlockGood DEF Moved, r
<1>3. QED
    BY <1>1, <1>2

\* A blocked task can be woken when the run queue has room, and then it is
\* ready.
LEMMA WakePlace ==
    ASSUME NEW s, Good(s), NEW t \in Tasks, Place(s, t) = "Blocked"
    PROVE  /\ Len(s.queue) < QueueCapacity => WakeTaskOk(s, t)
           /\ WakeTaskOk(s, t) =>
                 /\ Good(WakeTask(s, t)) /\ Moved(s, WakeTask(s, t), t, "Ready")
                 /\ WakeTask(s, t).ticks = s.ticks /\ WakeTask(s, t).current = s.current
<1> DEFINE b == RemoveBlocked(s, t)
           r == WakeTask(s, t)
<1>1. s.current # t /\ ~ Contains(s, t) /\ ContainsBlocked(s, t) /\ t # NoTask
    BY PlaceIs, NoTaskAssumption
<1>2. Good(b) /\ b.queue = s.queue /\ b.current = s.current /\ b.ticks = s.ticks
    BY RemoveBlockedGood
<1>3. \A v : /\ ContainsBlocked(b, v) <=> ContainsBlocked(s, v) /\ v # t
             /\ Contains(b, v) <=> Contains(s, v)
    BY RemoveBlockedPlace
<1>4. WakeTaskOk(s, t) <=> EnqueueAtOk(b, t)
    BY <1>1 DEF WakeTaskOk
<1>5. r = IF EnqueueAtOk(b, t) THEN EnqueueAt(b, t, s.ticks)
          ELSE [b EXCEPT !.blocked = Append(@, t)]
    BY <1>1 DEF WakeTask
<1> HIDE DEF b, r
<1>6. Len(s.queue) < QueueCapacity => WakeTaskOk(s, t)
    BY <1>1, <1>2, <1>4 DEF EnqueueAtOk
<1>7. ASSUME WakeTaskOk(s, t)
      PROVE  Moved(s, r, t, "Ready") /\ r.ticks = s.ticks /\ r.current = s.current
    <2>1. r = Enqueue(b, t)
        BY <1>2, <1>4, <1>5, <1>7 DEF Enqueue
    <2>2. Place(b, t) = "Unknown"
        BY <1>1, <1>2, <1>3 DEF Place
    <2>3. Len(b.queue) < QueueCapacity
        BY <1>1, <1>2, <1>3, <1>4, <1>7 DEF EnqueueAtOk
    <2>4. Moved(b, r, t, "Ready") /\ r.ticks = b.ticks
        BY <1>2, <2>1, <2>2, <2>3, EnqueuePlace
    <2>5. r.current = b.current
        <3>1. r = [b EXCEPT !.queue = Append(b.queue, [task |-> t, since |-> b.ticks])] \/ r = b
            BY <2>1 DEF Enqueue, EnqueueAt
        <3>2. QED
            BY <1>2, <3>1, GoodTypes DEF SchedState
    <2>6. \A v \in Tasks : v # t => Place(b, v) = Place(s, v)
        BY <1>2, <1>3 DEF Place
    <2>7. QED
        BY <1>2, <2>4, <2>5, <2>6 DEF Moved
<1>8. QED
    BY <1>6, <1>7, WakeGood DEF r

\* block_current_and_dispatch that succeeds: t sleeps and the next task runs.
LEMMA DispatchPlace ==
    ASSUME NEW s, Good(s), NEW t \in Tasks, DispatchOk(s, t)
    PROVE  LET next == NextTask(s)
               r == BlockCurrentAndDispatch(s, t)
           IN  /\ next \in Tasks /\ next # t
               /\ Place(s, t) = "Running" /\ Place(s, next) = "Ready"
               /\ Good(r) /\ r.ticks = s.ticks
               /\ Place(r, t) = "Blocked" /\ Place(r, next) = "Running"
               /\ \A u \in Tasks : u # t /\ u # next => Place(r, u) = Place(s, u)
<1> DEFINE next == NextTask(s)
           r == BlockCurrentAndDispatch(s, t)
<1>1. s.current = t /\ Len(s.queue) # 0
    BY DEF DispatchOk
<1>2. SelectNextOffset(s) = 1 /\ 1 \in 1 .. Len(s.queue) /\ DOMAIN s.queue = 1 .. Len(s.queue)
    BY <1>1, HeadIsNext, GoodTypes
<1>3. next = s.queue[1].task /\ next \in Tasks /\ Contains(s, next)
    BY <1>2, GoodTypes DEF NextTask, Contains
<1>4. Place(s, t) = "Running" /\ Place(s, next) = "Ready" /\ next # t
    BY <1>1, <1>3, PlaceIs
<1>5. Good(r)
    BY DispatchGood
<1>6. r = [s EXCEPT !.queue = RemoveAt(s.queue, 1), !.blocked = Append(s.blocked, t),
                    !.current = next, !.slice = 0]
    BY <1>2 DEF BlockCurrentAndDispatch
<1> HIDE DEF next, r
<1>7. /\ r.queue = RemoveAt(s.queue, 1) /\ r.blocked = Append(s.blocked, t)
      /\ r.current = next /\ r.ticks = s.ticks
    BY <1>6, GoodTypes DEF SchedState
<1>8. \A v : Contains(r, v) <=> Contains(s, v) /\ v # next
    BY <1>2, <1>3, <1>7, QueueShrinks
<1>9. \A v : ContainsBlocked(r, v) <=> ContainsBlocked(s, v) \/ v = t
    BY <1>7, BlockedGrows
<1>10. Place(r, t) = "Blocked" /\ Place(r, next) = "Running"
    BY <1>3, <1>5, <1>7, <1>9, PlaceIs
<1>11. ASSUME NEW u \in Tasks, u # t, u # next
       PROVE  Place(r, u) = Place(s, u)
    BY <1>1, <1>7, <1>8, <1>9, <1>11 DEF Place
<1>12. QED
    BY <1>3, <1>4, <1>5, <1>7, <1>10, <1>11 DEF next, r

\* A tick moves nobody.
LEMMA TickPlace ==
    ASSUME NEW s, Good(s)
    PROVE  LET r == OnTimerTick(s) IN
           /\ Good(r) /\ r.ticks = s.ticks + 1 /\ r.current = s.current
           /\ \A u \in Tasks : Place(r, u) = Place(s, u)
<1> DEFINE r == OnTimerTick(s)
<1>1. Good(r)
    BY TickGood
<1>2. /\ r.queue = s.queue /\ r.blocked = s.blocked /\ r.current = s.current
      /\ r.ticks = s.ticks + 1
    BY GoodTypes DEF OnTimerTick, SchedState
<1> HIDE DEF r
<1>3. \A u \in Tasks : Place(r, u) = Place(s, u)
    BY <1>2, PlaceSame
<1>4. QED
    BY <1>1, <1>2, <1>3 DEF r

\* preempt_current does nothing, or the running task and the one it makes
\* room for change places.
LEMMA PreemptPlace ==
    ASSUME NEW s, Good(s)
    PROVE  LET r == PreemptCurrent(s) IN
           /\ Good(r) /\ r.ticks = s.ticks
           /\ \/ r = s
              \/ /\ s.current \in Tasks /\ r.current \in Tasks /\ s.current # r.current
                 /\ Place(s, s.current) = "Running" /\ Place(s, r.current) = "Ready"
                 /\ Place(r, s.current) = "Ready" /\ Place(r, r.current) = "Running"
                 /\ \A u \in Tasks : u # s.current /\ u # r.current
                       => Place(r, u) = Place(s, u)
<1> DEFINE r == PreemptCurrent(s)
           t == s.current
<1>1. Good(r)
    BY PreemptGood
<1>2. CASE ~ PreemptOk(s)
    BY <1>1, <1>2 DEF PreemptCurrent
<1>3. CASE PreemptOk(s)
    <2> DEFINE next == s.queue[1].task
               q == [s EXCEPT !.queue = RemoveAt(s.queue, 1)]
    <2>1. /\ 1 \in 1 .. Len(s.queue) /\ t \in Tasks
          /\ r.queue = Append(RemoveAt(s.queue, 1), [task |-> t, since |-> s.ticks])
          /\ r.blocked = s.blocked /\ r.current = next /\ r.ticks = s.ticks
        BY <1>3, PreemptShape
    <2>2. /\ s.ticks \in Nat /\ DOMAIN s.queue = 1 .. Len(s.queue) /\ next \in Tasks
        BY <2>1, GoodTypes
    <2>3. Contains(s, next)
        BY <2>1, <2>2 DEF Contains
    <2>4. Good(q)
        BY <2>1, DequeueGood
    <2>5. q.queue = RemoveAt(s.queue, 1)
        BY GoodTypes DEF SchedState
    <2> HIDE DEF r, q, next
    <2>6. \A v : Contains(q, v) <=> Contains(s, v) /\ v # next
        BY <2>1, <2>5, QueueShrinks DEF next
    <2>7. \A v : Contains(r, v) <=> Contains(q, v) \/ v = t
        BY <2>1, <2>2, <2>4, <2>5, QueueGrows
    <2>8. \A v : ContainsBlocked(r, v) <=> ContainsBlocked(s, v)
        BY <2>1 DEF ContainsBlocked
    <2>9. Place(s, t) = "Running" /\ Place(s, next) = "Ready" /\ next # t
        BY <2>1, <2>2, <2>3, PlaceIs
    <2>10. Place(r, t) = "Ready" /\ Place(r, next) = "Running"
        BY <1>1, <2>1, <2>2, <2>7, PlaceIs
    <2>11. ASSUME NEW u \in Tasks, u # t, u # next
           PROVE  Place(r, u) = Place(s, u)
        BY <2>1, <2>6, <2>7, <2>8, <2>11 DEF Place
    <2>12. QED
        BY <1>1, <2>1, <2>2, <2>9, <2>10, <2>11 DEF r
<1>4. QED
    BY <1>2, <1>3

-----------------------------------------------------------------------------
(* The invariants.                                                         *)

\* Good is the conjunction of the invariants that the runs check.
LEMMA GoodIsInvariant ==
    Good(sched) <=> SchedTypeOK /\ OnePlace /\ WithinCapacity /\ QueueOrdered
<1> SUFFICES ASSUME sched \in SchedState
             PROVE  Good(sched) <=> OnePlace /\ WithinCapacity /\ QueueOrdered
    BY DEF Good, SchedTypeOK
<1>1. /\ DOMAIN sched.queue = 1 .. Len(sched.queue)
      /\ DOMAIN sched.blocked = 1 .. Len(sched.blocked)
    BY DEF SchedState
<1>2. Distinct(sched) /\ Apart(sched) <=> OnePlace
    BY <1>1 DEF Distinct, Apart, OnePlace, Contains, ContainsBlocked
<1>3. Bounded(sched) <=> WithinCapacity
    BY DEF Bounded, WithinCapacity
<1>4. Ordered(sched) <=> QueueOrdered
    BY <1>1 DEF Ordered, QueueOrdered
<1>5. QED
    BY <1>2, <1>3, <1>4 DEF Good

\* The state that scheduler::init leaves satisfies the invariant.
LEMMA InitGood == SchedInit => Good(sched)
    BY NewSchedulerGood DEF SchedInit

\* Every call and every timer interrupt keeps the invariant.
LEMMA NextGood == Good(sched) /\ [SchedNext]_sched => Good(sched')
<1> SUFFICES ASSUME Good(sched), [SchedNext]_sched PROVE Good(sched')
    OBVIOUS
<1>1. ASSUME NEW t \in Tasks, EnqueueTask(t) PROVE Good(sched')
    <2>1. \A i \in 1 .. Len(sched.blocked) : sched.blocked[i] # t
        BY <1>1, GoodTypes DEF EnqueueTask, Blocked
    <2>2. QED
        BY <1>1, <2>1, EnqueueGood DEF EnqueueTask, Enqueue
<1>2. ASSUME NEW t \in Tasks, Begin(t) PROVE Good(sched')
    BY <1>2, BeginGood DEF Begin
<1>3. ASSUME NEW t \in Tasks, Finish(t) PROVE Good(sched')
    BY <1>3, FinishGood DEF Finish
<1>4. ASSUME NEW t \in Tasks, Block(t) PROVE Good(sched')
    BY <1>4, BlockGood DEF Block
<1>5. ASSUME NEW t \in Tasks, BlockAndDispatch(t) PROVE Good(sched')
    BY <1>5, DispatchGood DEF BlockAndDispatch
<1>6. ASSUME NEW t \in Tasks, Wake(t) PROVE Good(sched')
    BY <1>6, WakeGood DEF Wake
<1>7. CASE ClockTick
    BY <1>7, TickGood DEF ClockTick
<1>8. CASE TickAndPreempt
    BY <1>8, TickGood, PreemptGood DEF TickAndPreempt
<1>9. CASE UNCHANGED sched
    BY <1>9
<1>10. QED
    BY <1>1, <1>2, <1>3, <1>4, <1>5, <1>6, <1>7, <1>8, <1>9 DEF SchedNext

\* The scheduler's lists always hold what they should: entries of the right
\* types, each task in one place, neither array overfull, and the run queue
\* in the order in which its tasks became ready.
THEOREM SchedulerInvariant ==
    SchedSpec => [](SchedTypeOK /\ OnePlace /\ WithinCapacity /\ QueueOrdered)
<1>1. SchedInit => Good(sched)
    BY InitGood
<1>2. Good(sched) /\ [SchedNext]_sched => Good(sched)'
    BY NextGood
<1>3. Good(sched) => SchedTypeOK /\ OnePlace /\ WithinCapacity /\ QueueOrdered
    BY GoodIsInvariant
<1>4. QED
    BY <1>1, <1>2, <1>3, PTL DEF SchedSpec

\* No order of calls overflows an array of the scheduler or brings the run
\* queue out of the order of readiness: wake_task, which puts a task back on
\* the blocked list without a check, always finds room there.
THEOREM ArraysAreSound == SchedSpec => []ArraysSound
<1>1. SchedTypeOK /\ OnePlace /\ WithinCapacity /\ QueueOrdered => ArraysSound
    BY DEF ArraysSound
<1>2. QED
    BY <1>1, SchedulerInvariant, PTL

\* The starvation guard of select_next_offset is redundant: whatever its
\* limit is, the task it picks is the head of the run queue.
THEOREM GuardIsRedundant == SchedSpec => []GuardNeverReorders
<1>1. SchedInit => Good(sched)
    BY InitGood
<1>2. Good(sched) /\ [SchedNext]_sched => Good(sched)'
    BY NextGood
<1>3. Good(sched) => GuardNeverReorders
    BY HeadIsNext DEF GuardNeverReorders
<1>4. QED
    BY <1>1, <1>2, <1>3, PTL DEF SchedSpec

-----------------------------------------------------------------------------
(* In the preemptive regime the wait of a ready task is bounded.  The       *)
(* inductive invariant: the i-th in line has waited for no more than a     *)
(* quantum for each place behind it and the part of the slice that the     *)
(* running task has used.  A slice that has grown past the quantum, with   *)
(* nobody in line, counts for one tick less than a quantum: the next tick  *)
(* ends it.                                                                *)

Share(i) == (QueueCapacity - i) * Quantum

Used(s) == IF s.slice < Quantum THEN s.slice ELSE Quantum - 1

Timely(s) ==
    /\ s.current # NoTask
    /\ \A i \in 1 .. Len(s.queue) : s.ticks - s.queue[i].since <= Share(i) + Used(s)

\* A place further up is worth one quantum.
LEMMA ShareProperties ==
    ASSUME NEW i \in Nat, i <= QueueCapacity
    PROVE  /\ Share(i) \in Nat
           /\ Share(i) <= QueueCapacity * Quantum
           /\ i > 0 => Share(i - 1) = Share(i) + Quantum
<1>1. QueueCapacity \in Nat /\ Quantum \in Nat /\ Quantum > 0
    BY SchedBoundsAssumption
<1>2. Share(i) = QueueCapacity * Quantum - i * Quantum
    BY <1>1 DEF Share
<1>3. i * Quantum \in Nat
    BY <1>1
<1>4. QueueCapacity - i \in Nat
    BY <1>1
<1>5. Share(i) \in Nat
    BY <1>1, <1>4 DEF Share
<1>6. Share(i - 1) = Share(i) + Quantum
    BY <1>1 DEF Share
<1>7. QED
    BY <1>1, <1>2, <1>3, <1>5, <1>6

\* The part of the slice that counts.
LEMMA UsedProperties ==
    ASSUME NEW s, Good(s)
    PROVE  Used(s) \in Nat /\ Used(s) < Quantum
    BY GoodTypes, SchedBoundsAssumption DEF Used

\* A tick of waiting and a tick of the slice.
LEMMA OneMoreTick ==
    ASSUME NEW n \in Nat, NEW since \in Nat, NEW share \in Nat, NEW used \in Nat,
           n - since <= share + used
    PROVE  (n + 1) - since <= share + (used + 1)
    OBVIOUS

\* A tick of waiting within a quantum.
LEMMA TickWithinQuantum ==
    ASSUME NEW n \in Nat, NEW since \in Nat, NEW share \in Nat, NEW used \in Nat,
           NEW quantum \in Nat, n - since <= share + used, used < quantum
    PROVE  (n + 1) - since <= share + quantum
    OBVIOUS

\* The invariant gives the bound that the run checks.
LEMMA TimelyIsBounded == Good(sched) /\ Timely(sched) => WaitBounded
<1> SUFFICES ASSUME Good(sched), Timely(sched), NEW i \in 1 .. Len(sched.queue)
             PROVE  Waited(sched, i) <= QueueCapacity * Quantum
    BY GoodTypes DEF WaitBounded
<1>1. i \in Nat /\ i > 0 /\ i <= QueueCapacity
    BY GoodTypes, SchedBoundsAssumption DEF Good, Bounded
<1>2. /\ Share(i) \in Nat /\ Share(i - 1) = Share(i) + Quantum
    BY <1>1, ShareProperties
<1>3. Share(i - 1) <= QueueCapacity * Quantum
    BY <1>1, ShareProperties, SchedBoundsAssumption
<1>4. sched.ticks - sched.queue[i].since <= Share(i) + Used(sched)
    BY DEF Timely
<1>5. Used(sched) \in Nat /\ Used(sched) < Quantum
    BY UsedProperties
<1>6. sched.ticks \in Nat /\ sched.queue[i].since \in Nat /\ Quantum \in Nat
      /\ QueueCapacity * Quantum \in Nat
    BY GoodTypes, SchedBoundsAssumption
<1>7. QED
    BY <1>2, <1>3, <1>4, <1>5, <1>6 DEF Waited

\* A task that joins the line has not waited yet.
LEMMA EnqueueTimely ==
    ASSUME NEW s, Good(s), Timely(s), NEW t \in Tasks
    PROVE  Timely(EnqueueAt(s, t, s.ticks))
<1> DEFINE e == [task |-> t, since |-> s.ticks]
           r == EnqueueAt(s, t, s.ticks)
<1>1. CASE EnqueueAtOk(s, t) /\ ~ Contains(s, t) /\ s.current # t
    <2>1. /\ r.queue = Append(s.queue, e) /\ r.slice = s.slice
          /\ r.ticks = s.ticks /\ r.current = s.current
          /\ Len(s.queue) < QueueCapacity
        BY <1>1, GoodTypes DEF EnqueueAt, EnqueueAtOk, SchedState
    <2>2. s.queue \in Seq(QueueEntry) /\ e \in QueueEntry /\ Len(s.queue) \in Nat
          /\ s.ticks \in Nat
        <3>1. s.queue \in Seq(QueueEntry) /\ s.ticks \in Nat
            BY GoodTypes
        <3>2. e \in QueueEntry
            BY <3>1 DEF QueueEntry
        <3>3. QED
            BY <3>1, <3>2
    <2>3. /\ Len(r.queue) = Len(s.queue) + 1
          /\ \A i \in 1 .. Len(s.queue) : r.queue[i] = s.queue[i]
          /\ r.queue[Len(s.queue) + 1].since = s.ticks
        BY <2>1, <2>2, AppendProperties
    <2> HIDE DEF e, r
    <2>4. Used(r) = Used(s)
        BY <2>1 DEF Used
    <2>5. ASSUME NEW i \in 1 .. Len(r.queue)
          PROVE  r.ticks - r.queue[i].since <= Share(i) + Used(r)
        <3>1. CASE i \in 1 .. Len(s.queue)
            BY <2>1, <2>3, <2>4, <3>1 DEF Timely
        <3>2. CASE i = Len(s.queue) + 1
            <4>1. Share(i) \in Nat
                BY <2>1, <2>2, <3>2, ShareProperties, SchedBoundsAssumption
            <4>2. r.ticks - r.queue[i].since = 0
                BY <2>1, <2>2, <2>3, <3>2
            <4>3. QED
                BY <2>4, <4>1, <4>2, UsedProperties
        <3>3. i \in 1 .. Len(s.queue) \/ i = Len(s.queue) + 1
            BY <2>2, <2>3
        <3>4. QED
            BY <3>1, <3>2, <3>3
    <2>6. QED
        BY <2>1, <2>5 DEF Timely, r
<1>2. CASE ~ (EnqueueAtOk(s, t) /\ ~ Contains(s, t) /\ s.current # t)
    BY <1>2 DEF EnqueueAt
<1>3. QED
    BY <1>1, <1>2

\* Whatever the running task has used of its slice, those behind the head
\* move up when the head is dispatched.  n is the time at the dispatch.
LEMMA DispatchTimely ==
    ASSUME NEW s, Good(s), NEW n \in Nat, Len(s.queue) # 0,
           \A i \in 1 .. Len(s.queue) : n - s.queue[i].since <= Share(i) + Quantum
    PROVE  \A i \in 1 .. Len(s.queue) - 1 :
              n - RemoveAt(s.queue, 1)[i].since <= Share(i)
<1> SUFFICES ASSUME NEW i \in 1 .. Len(s.queue) - 1
             PROVE  n - RemoveAt(s.queue, 1)[i].since <= Share(i)
    OBVIOUS
<1>1. s.queue \in Seq(QueueEntry) /\ Len(s.queue) \in Nat /\ Len(s.queue) <= QueueCapacity
    BY GoodTypes DEF Good, Bounded
<1>2. i + 1 \in 1 .. Len(s.queue) /\ i + 1 \in Nat /\ i + 1 <= QueueCapacity /\ (i + 1) - 1 = i
    BY <1>1, SchedBoundsAssumption
<1>3. RemoveAt(s.queue, 1)[i] = s.queue[i + 1]
    <2>1. 1 \in 1 .. Len(s.queue) /\ ~ (i < 1)
        BY <1>1
    <2>2. QED
        BY <1>1, <2>1, RemoveAtProperties
<1>4. i + 1 > 0
    BY <1>2
<1>5. Share(i) = Share(i + 1) + Quantum
    BY <1>2, <1>4, ShareProperties
<1>6. QED
    BY <1>2, <1>3, <1>5

\* block_current_and_dispatch keeps the bound.
LEMMA BlockTimely ==
    ASSUME NEW s, Good(s), Timely(s), NEW t \in Tasks
    PROVE  Timely(BlockCurrentAndDispatch(s, t))
<1> DEFINE r == BlockCurrentAndDispatch(s, t)
<1>1. CASE ~ DispatchOk(s, t)
    BY <1>1 DEF BlockCurrentAndDispatch
<1>2. CASE DispatchOk(s, t)
    <2>1. Len(s.queue) # 0
        BY <1>2 DEF DispatchOk
    <2>2. SelectNextOffset(s) = 1 /\ 1 \in 1 .. Len(s.queue)
        BY <2>1, HeadIsNext, GoodTypes
    <2>3. /\ r.queue = RemoveAt(s.queue, 1) /\ r.ticks = s.ticks /\ r.slice = 0
          /\ r.current = s.queue[1].task
        BY <1>2, <2>2, GoodTypes DEF BlockCurrentAndDispatch, NextTask, SchedState
    <2> HIDE DEF r
    <2>4. s.ticks \in Nat /\ s.queue \in Seq(QueueEntry) /\ s.queue[1].task \in Tasks
          /\ Len(s.queue) <= QueueCapacity
        BY <2>2, GoodTypes DEF Good, Bounded
    <2>5. ASSUME NEW i \in 1 .. Len(s.queue)
          PROVE  s.ticks - s.queue[i].since <= Share(i) + Quantum
        <3>1. Share(i) \in Nat
            BY <2>4, ShareProperties, SchedBoundsAssumption
        <3>2. s.queue[i].since \in Nat /\ Quantum \in Nat
            BY GoodTypes, SchedBoundsAssumption
        <3>3. QED
            BY <2>4, <3>1, <3>2, UsedProperties DEF Timely
    <2>6. \A i \in 1 .. Len(s.queue) - 1 : s.ticks - r.queue[i].since <= Share(i)
        BY <2>1, <2>3, <2>4, <2>5, DispatchTimely
    <2>7. Len(r.queue) = Len(s.queue) - 1
        BY <2>2, <2>3, <2>4, RemoveAtProperties
    <2>8. Used(r) = 0
        BY <2>3, SchedBoundsAssumption DEF Used
    <2>9. ASSUME NEW i \in 1 .. Len(r.queue)
          PROVE  r.ticks - r.queue[i].since <= Share(i) + Used(r)
        <3>1. Share(i) \in Nat
            BY <2>4, <2>7, ShareProperties, SchedBoundsAssumption
        <3>2. QED
            BY <2>3, <2>6, <2>7, <2>8, <3>1
    <2>10. r.current # NoTask
        BY <2>3, <2>4, NoTaskAssumption
    <2>11. QED
        BY <2>9, <2>10 DEF Timely, r
<1>3. QED
    BY <1>1, <1>2

\* wake_task keeps the bound: the woken task starts to wait now.
LEMMA WakeTimely ==
    ASSUME NEW s, Good(s), Timely(s), NEW t \in Tasks
    PROVE  Timely(WakeTask(s, t))
<1> DEFINE u == RemoveBlocked(s, t)
           r == WakeTask(s, t)
           stays == t = NoTask \/ s.current = t \/ Contains(s, t) \/ ~ ContainsBlocked(s, t)
<1>1. CASE stays
    BY <1>1 DEF WakeTask
<1>2. CASE ~ stays
    <2>1. /\ Good(u) /\ u.queue = s.queue /\ u.current = s.current /\ u.ticks = s.ticks
        BY RemoveBlockedGood
    <2>2. u.slice = s.slice
        BY GoodTypes DEF RemoveBlocked, SchedState
    <2>3. r = IF EnqueueAtOk(u, t) THEN EnqueueAt(u, t, u.ticks)
              ELSE [u EXCEPT !.blocked = Append(u.blocked, t)]
        BY <1>2, <2>1 DEF WakeTask
    <2> HIDE DEF u, r
    <2>4. Timely(u)
        BY <2>1, <2>2 DEF Timely, Used
    <2>5. CASE EnqueueAtOk(u, t)
        BY <2>1, <2>3, <2>4, <2>5, EnqueueTimely DEF r
    <2>6. CASE ~ EnqueueAtOk(u, t)
        <3>1. r.queue = u.queue /\ r.current = u.current /\ r.ticks = u.ticks /\ r.slice = u.slice
            BY <2>1, <2>3, <2>6, GoodTypes DEF SchedState
        <3>2. QED
            BY <2>4, <3>1 DEF Timely, Used, r
    <2>7. QED
        BY <2>5, <2>6
<1>3. QED
    BY <1>1, <1>2

\* A timer interrupt keeps the bound: when it uses up the quantum and somebody
\* is in line, it preempts.
LEMMA TimerTimely ==
    ASSUME NEW s, Good(s), Timely(s)
    PROVE  Timely(PreemptCurrent(OnTimerTick(s)))
<1> DEFINE k == OnTimerTick(s)
           p == PreemptCurrent(k)
<1>1. /\ Good(k) /\ k.current = s.current /\ k.queue = s.queue
      /\ k.ticks = s.ticks + 1 /\ k.slice = s.slice + 1
    <2>1. s.current # NoTask
        BY DEF Timely
    <2>2. QED
        BY <2>1, TickGood, GoodTypes DEF OnTimerTick, SchedState
<1> SUFFICES Timely(p)
    OBVIOUS
<1> HIDE DEF k
<1>2. s.ticks \in Nat /\ s.slice \in Nat /\ Quantum \in Nat /\ Quantum > 0
      /\ Len(s.queue) \in Nat /\ Len(s.queue) <= QueueCapacity
      /\ QueueCapacity \in Nat
    BY GoodTypes, SchedBoundsAssumption DEF Good, Bounded
<1>3. ASSUME NEW i \in 1 .. Len(s.queue)
      PROVE  Share(i) \in Nat /\ s.queue[i].since \in Nat
    <2>1. i \in Nat /\ i <= QueueCapacity
        BY <1>2
    <2>2. QED
        BY <2>1, ShareProperties, GoodTypes
<1>4. \A i \in 1 .. Len(s.queue) : s.ticks - s.queue[i].since <= Share(i) + Used(s)
    BY DEF Timely
<1>5. CASE PreemptOk(k)
    <2>1. /\ 1 \in 1 .. Len(k.queue) /\ k.current \in Tasks
          /\ p.queue = Append(RemoveAt(k.queue, 1), [task |-> k.current, since |-> k.ticks])
          /\ p.current = k.queue[1].task /\ p.ticks = k.ticks /\ p.slice = 0
        BY <1>1, <1>5, PreemptShape
    <2> HIDE DEF p
    <2> DEFINE e == [task |-> k.current, since |-> k.ticks]
               q == RemoveAt(k.queue, 1)
    <2>2. /\ q \in Seq(QueueEntry) /\ Len(q) = Len(s.queue) - 1
        BY <1>1, <2>1, GoodTypes, RemoveAtProperties
    <2>3. e \in QueueEntry /\ e.since = k.ticks
        BY <1>1, <1>2, <2>1 DEF QueueEntry
    <2>4. ASSUME NEW i \in 1 .. Len(s.queue)
          PROVE  k.ticks - k.queue[i].since <= Share(i) + Quantum
        <3>1. Share(i) \in Nat /\ s.queue[i].since \in Nat
            BY <1>3
        <3>2. s.ticks - s.queue[i].since <= Share(i) + Used(s)
            BY <1>4
        <3>3. Used(s) \in Nat /\ Used(s) < Quantum
            BY UsedProperties
        <3>4. (s.ticks + 1) - s.queue[i].since <= Share(i) + Quantum
            BY <1>2, <3>1, <3>2, <3>3, TickWithinQuantum
        <3>5. k.ticks - k.queue[i].since = (s.ticks + 1) - s.queue[i].since
            BY <1>1
        <3>6. QED
            BY <3>4, <3>5
    <2>5. \A i \in 1 .. Len(s.queue) - 1 : k.ticks - q[i].since <= Share(i)
        <3>1. k.ticks \in Nat /\ Len(k.queue) # 0 /\ Len(k.queue) = Len(s.queue)
            BY <1>1, <1>2, <2>1
        <3>2. QED
            BY <1>1, <2>4, <3>1, DispatchTimely
    <2> HIDE DEF e, q
    <2>6. /\ Len(p.queue) = Len(s.queue)
          /\ \A i \in 1 .. Len(s.queue) - 1 : p.queue[i] = q[i]
          /\ p.queue[Len(s.queue)] = e
        <3>1. /\ Len(Append(q, e)) = Len(q) + 1
              /\ \A i \in 1 .. Len(q) : Append(q, e)[i] = q[i]
              /\ Append(q, e)[Len(q) + 1] = e
            BY <2>2, <2>3, AppendProperties
        <3>2. p.queue = Append(q, e)
            BY <2>1 DEF q, e
        <3>3. Len(q) + 1 = Len(s.queue)
            BY <1>2, <2>2
        <3>4. QED
            BY <2>2, <3>1, <3>2, <3>3
    <2>7. Used(p) = 0
        BY <1>2, <2>1 DEF Used
    <2>8. ASSUME NEW i \in 1 .. Len(p.queue)
          PROVE  p.ticks - p.queue[i].since <= Share(i) + Used(p)
        <3>1. Share(i) \in Nat
            BY <1>3, <2>6
        <3>2. CASE i \in 1 .. Len(s.queue) - 1
            BY <2>1, <2>5, <2>6, <2>7, <3>1, <3>2
        <3>3. CASE i = Len(s.queue)
            <4>1. p.ticks - p.queue[i].since = 0
                BY <1>1, <1>2, <2>1, <2>3, <2>6, <3>3
            <4>2. QED
                BY <2>7, <3>1, <4>1
        <3>4. i \in 1 .. Len(s.queue) - 1 \/ i = Len(s.queue)
            BY <1>2, <2>6
        <3>5. QED
            BY <3>2, <3>3, <3>4
    <2>9. p.current # NoTask
        BY <1>1, <2>1, GoodTypes, NoTaskAssumption
    <2>10. QED
        BY <2>8, <2>9 DEF Timely
<1>6. CASE ~ PreemptOk(k)
    <2>1. p = k
        BY <1>6 DEF PreemptCurrent
    <2>2. k.current # NoTask
        BY <1>1 DEF Timely
    <2>3. CASE Len(s.queue) = 0
        BY <1>1, <2>1, <2>2, <2>3 DEF Timely
    <2>4. CASE Len(s.queue) # 0
        <3>1. k.slice < Quantum
            BY <1>1, <1>2, <1>6, <2>2, <2>4 DEF PreemptOk
        <3>2. Used(k) = Used(s) + 1
            BY <1>1, <1>2, <3>1 DEF Used
        <3>3. ASSUME NEW i \in 1 .. Len(s.queue)
              PROVE  k.ticks - k.queue[i].since <= Share(i) + Used(k)
            <4>1. Share(i) \in Nat /\ s.queue[i].since \in Nat
                BY <1>3
            <4>2. s.ticks - s.queue[i].since <= Share(i) + Used(s)
                BY <1>4
            <4>3. Used(s) \in Nat
                BY UsedProperties
            <4>4. (s.ticks + 1) - s.queue[i].since <= Share(i) + (Used(s) + 1)
                BY <1>2, <4>1, <4>2, <4>3, OneMoreTick
            <4>5. k.ticks - k.queue[i].since = (s.ticks + 1) - s.queue[i].since
                BY <1>1
            <4>6. QED
                BY <3>2, <4>4, <4>5
        <3>4. QED
            BY <1>1, <2>1, <2>2, <3>3 DEF Timely
    <2>5. QED
        BY <2>3, <2>4
<1>7. QED
    BY <1>5, <1>6

-----------------------------------------------------------------------------

\* The regime starts with one task on the CPU and nobody in line.
LEMMA RegimeInitTimely == RegimeInit => Good(sched) /\ Timely(sched)
<1> SUFFICES ASSUME NEW t \in Tasks, sched = BeginTask(NewScheduler, t)
             PROVE  Good(sched) /\ Timely(sched)
    BY DEF RegimeInit
<1>1. /\ NewScheduler \in SchedState /\ NewScheduler.queue = <<>>
      /\ NewScheduler.blocked = <<>>
    BY DEF NewScheduler, SchedState
<1>2. Good(NewScheduler)
    BY NewSchedulerGood
<1>3. Good(sched)
    BY <1>2, BeginGood
<1>4. /\ Remove(NewScheduler, t) = NewScheduler
      /\ RemoveBlocked(NewScheduler, t) = NewScheduler
    BY <1>1 DEF Remove, RemoveBlocked, Contains, ContainsBlocked
<1>5. sched.queue = <<>> /\ sched.current = t
    BY <1>1, <1>4 DEF BeginTask, SchedState
<1>6. QED
    BY <1>3, <1>5, NoTaskAssumption DEF Timely

\* Every step of the regime keeps the bound.
LEMMA RegimeNextTimely ==
    Good(sched) /\ Timely(sched) /\ [RegimeNext]_sched => Good(sched') /\ Timely(sched')
<1> SUFFICES ASSUME Good(sched), Timely(sched), [RegimeNext]_sched
             PROVE  Good(sched') /\ Timely(sched')
    OBVIOUS
<1>1. [SchedNext]_sched
    BY DEF RegimeNext, SchedNext
<1>2. Good(sched')
    BY <1>1, NextGood
<1>3. CASE TickAndPreempt
    BY <1>2, <1>3, TimerTimely DEF TickAndPreempt
<1>4. ASSUME NEW t \in Tasks, EnqueueTask(t) PROVE Timely(sched')
    BY <1>4, EnqueueTimely DEF EnqueueTask, Enqueue
<1>5. ASSUME NEW t \in Tasks, BlockAndDispatch(t) PROVE Timely(sched')
    BY <1>5, BlockTimely DEF BlockAndDispatch
<1>6. ASSUME NEW t \in Tasks, Wake(t) PROVE Timely(sched')
    BY <1>6, WakeTimely DEF Wake
<1>7. CASE UNCHANGED sched
    BY <1>7
<1>8. QED
    BY <1>2, <1>3, <1>4, <1>5, <1>6, <1>7 DEF RegimeNext

\* While user tasks have the CPU and every timer interrupt may preempt, no
\* ready task waits for longer than a quantum per place of the run queue.
THEOREM WaitIsBounded == RegimeSpec => []WaitBounded
<1>1. RegimeInit => Good(sched) /\ Timely(sched)
    BY RegimeInitTimely
<1>2. Good(sched) /\ Timely(sched) /\ [RegimeNext]_sched => Good(sched)' /\ Timely(sched)'
    BY RegimeNextTimely
<1>3. Good(sched) /\ Timely(sched) => WaitBounded
    BY TimelyIsBounded
<1>4. QED
    BY <1>1, <1>2, <1>3, PTL DEF RegimeSpec

-----------------------------------------------------------------------------
(* The scheduler implements round robin.                                   *)
(*                                                                         *)
(* The line of ready tasks and the set of blocked ones.                    *)

\* The line has the run queue's tasks at the run queue's places.
LEMMA LineProperties ==
    ASSUME NEW s, Good(s)
    PROVE  /\ LineOf(s) \in Seq(Tasks)
           /\ Len(LineOf(s)) = Len(s.queue)
           /\ DOMAIN LineOf(s) = 1 .. Len(s.queue)
           /\ \A i \in 1 .. Len(s.queue) : LineOf(s)[i] = s.queue[i].task
<1>1. /\ Len(s.queue) \in Nat /\ DOMAIN s.queue = 1 .. Len(s.queue)
      /\ \A i \in 1 .. Len(s.queue) : s.queue[i].task \in Tasks
    BY GoodTypes
<1>2. LineOf(s) = [i \in 1 .. Len(s.queue) |-> s.queue[i].task]
    BY <1>1 DEF LineOf
<1>3. QED
    BY <1>1, <1>2

\* Sequences of the same length with the same members are equal.
LEMMA SeqExtensional ==
    ASSUME NEW S, NEW p \in Seq(S), NEW q \in Seq(S), Len(p) = Len(q),
           \A i \in 1 .. Len(p) : p[i] = q[i]
    PROVE  p = q
<1>1. p \in [1 .. Len(p) -> S] /\ q \in [1 .. Len(p) -> S]
    OBVIOUS
<1>2. QED
    BY <1>1

\* Whoever is enqueued joins the end of the line.
LEMMA LineAppend ==
    ASSUME NEW s, Good(s), NEW t \in Tasks, NEW n \in Nat,
           NEW r, r.queue = Append(s.queue, [task |-> t, since |-> n])
    PROVE  LineOf(r) = Append(LineOf(s), t)
<1> DEFINE e == [task |-> t, since |-> n]
<1>1. s.queue \in Seq(QueueEntry) /\ e \in QueueEntry
    BY GoodTypes DEF QueueEntry
<1>2. /\ Len(s.queue) \in Nat
      /\ DOMAIN r.queue = 1 .. Len(s.queue) + 1
      /\ \A i \in 1 .. Len(s.queue) : r.queue[i] = s.queue[i]
      /\ r.queue[Len(s.queue) + 1] = e
    BY <1>1, AppendProperties
<1>3. e.task = t
    OBVIOUS
<1> HIDE DEF e
<1>4. /\ LineOf(r) \in Seq(Tasks) /\ Len(LineOf(r)) = Len(s.queue) + 1
      /\ \A i \in 1 .. Len(s.queue) + 1 : LineOf(r)[i] = r.queue[i].task
    <2>1. LineOf(r) = [i \in 1 .. Len(s.queue) + 1 |-> r.queue[i].task]
        BY <1>2 DEF LineOf
    <2>2. \A i \in 1 .. Len(s.queue) + 1 : i \in 1 .. Len(s.queue) \/ i = Len(s.queue) + 1
        BY <1>2
    <2>3. \A i \in 1 .. Len(s.queue) + 1 : r.queue[i].task \in Tasks
        BY <1>2, <1>3, <2>2, GoodTypes
    <2>4. QED
        BY <1>2, <2>1, <2>3
<1>5. /\ Append(LineOf(s), t) \in Seq(Tasks)
      /\ Len(Append(LineOf(s), t)) = Len(s.queue) + 1
      /\ \A i \in 1 .. Len(s.queue) : Append(LineOf(s), t)[i] = s.queue[i].task
      /\ Append(LineOf(s), t)[Len(s.queue) + 1] = t
    BY LineProperties, AppendProperties
<1>6. ASSUME NEW i \in 1 .. Len(s.queue) + 1
      PROVE  LineOf(r)[i] = Append(LineOf(s), t)[i]
    <2>1. CASE i \in 1 .. Len(s.queue)
        BY <1>2, <1>4, <1>5, <2>1
    <2>2. CASE i = Len(s.queue) + 1
        BY <1>2, <1>3, <1>4, <1>5, <2>2
    <2>3. i \in 1 .. Len(s.queue) \/ i = Len(s.queue) + 1
        BY <1>2
    <2>4. QED
        BY <2>1, <2>2, <2>3
<1>7. QED
    BY <1>4, <1>5, <1>6, SeqExtensional

\* Whoever is taken off the run queue leaves the line.
LEMMA LineRemove ==
    ASSUME NEW s, Good(s), NEW k \in 1 .. Len(s.queue),
           NEW r, r.queue = RemoveAt(s.queue, k)
    PROVE  LineOf(r) = RemoveAt(LineOf(s), k)
<1>1. s.queue \in Seq(QueueEntry) /\ Len(s.queue) \in Nat
    BY GoodTypes
<1>2. /\ DOMAIN r.queue = 1 .. Len(s.queue) - 1
      /\ \A j \in 1 .. Len(s.queue) - 1 :
            r.queue[j] = IF j < k THEN s.queue[j] ELSE s.queue[j + 1]
    BY <1>1, RemoveAtProperties
<1>3. LineOf(r) = [j \in 1 .. Len(s.queue) - 1 |-> r.queue[j].task]
    BY <1>2 DEF LineOf
<1>4. RemoveAt(LineOf(s), k) =
          [j \in 1 .. Len(s.queue) - 1 |-> IF j < k THEN LineOf(s)[j] ELSE LineOf(s)[j + 1]]
    BY LineProperties DEF RemoveAt
<1>5. \A j \in 1 .. Len(s.queue) - 1 :
          r.queue[j].task = IF j < k THEN LineOf(s)[j] ELSE LineOf(s)[j + 1]
    <2>1. \A i \in 1 .. Len(s.queue) : LineOf(s)[i] = s.queue[i].task
        BY LineProperties
    <2>2. SUFFICES ASSUME NEW j \in 1 .. Len(s.queue) - 1
                   PROVE  r.queue[j].task = IF j < k THEN LineOf(s)[j] ELSE LineOf(s)[j + 1]
        OBVIOUS
    <2>3. j \in 1 .. Len(s.queue) /\ j + 1 \in 1 .. Len(s.queue)
        BY <1>1
    <2>4. LineOf(s)[j] = s.queue[j].task /\ LineOf(s)[j + 1] = s.queue[j + 1].task
        BY <2>1, <2>3
    <2>5. r.queue[j] = IF j < k THEN s.queue[j] ELSE s.queue[j + 1]
        BY <1>2
    <2>6. QED
        BY <2>4, <2>5
<1>6. QED
    BY <1>3, <1>4, <1>5

\* Whoever is pushed on the blocked list is asleep.
LEMMA BlockedAppend ==
    ASSUME NEW s, Good(s), NEW t \in Tasks, NEW r, r.blocked = Append(s.blocked, t)
    PROVE  Blocked(r) = Blocked(s) \cup {t}
<1>1. s.blocked \in Seq(Tasks) /\ Len(s.blocked) \in Nat
      /\ DOMAIN s.blocked = 1 .. Len(s.blocked)
    BY GoodTypes
<1>2. /\ DOMAIN r.blocked = 1 .. Len(s.blocked) + 1
      /\ \A i \in 1 .. Len(s.blocked) : r.blocked[i] = s.blocked[i]
      /\ r.blocked[Len(s.blocked) + 1] = t
    BY <1>1, AppendProperties
<1>3. \A i \in 1 .. Len(s.blocked) + 1 : i \in 1 .. Len(s.blocked) \/ i = Len(s.blocked) + 1
    BY <1>1
<1>4. \A i \in 1 .. Len(s.blocked) : i \in 1 .. Len(s.blocked) + 1
    BY <1>1
<1>5. Len(s.blocked) + 1 \in 1 .. Len(s.blocked) + 1
    BY <1>1
<1>6. QED
    BY <1>1, <1>2, <1>3, <1>4, <1>5 DEF Blocked

\* Whoever is taken off the blocked list is asleep no more.
LEMMA BlockedRemove ==
    ASSUME NEW s, Good(s), NEW t \in Tasks
    PROVE  Blocked(RemoveBlocked(s, t)) = Blocked(s) \ {t}
<1> DEFINE r == RemoveBlocked(s, t)
<1>1. /\ s \in SchedState /\ s.blocked \in Seq(Tasks) /\ Len(s.blocked) \in Nat
      /\ DOMAIN s.blocked = 1 .. Len(s.blocked)
    BY GoodTypes
<1>2. CASE ~ ContainsBlocked(s, t)
    BY <1>2 DEF RemoveBlocked, ContainsBlocked, Blocked
<1>3. CASE ContainsBlocked(s, t)
    <2>1. PICK i \in 1 .. Len(s.blocked) : s.blocked[i] = t
        BY <1>1, <1>3 DEF ContainsBlocked
    <2>2. \A j \in DOMAIN s.blocked : s.blocked[j] = t => i = j
        BY <1>1, <2>1 DEF Good, Distinct
    <2>3. BlockedIndex(s, t) = i
        BY <1>1, <2>1, <2>2 DEF BlockedIndex
    <2>4. r.blocked = RemoveAt(s.blocked, i)
        BY <1>1, <1>3, <2>3 DEF RemoveBlocked, SchedState
    <2> HIDE DEF r
    <2>5. /\ DOMAIN r.blocked = 1 .. Len(s.blocked) - 1
          /\ \A j \in 1 .. Len(s.blocked) - 1 :
                r.blocked[j] = IF j < i THEN s.blocked[j] ELSE s.blocked[j + 1]
        BY <1>1, <2>4, RemoveAtProperties
    <2>6. ASSUME NEW x \in Blocked(r) PROVE x \in Blocked(s) \ {t}
        <3>1. PICK j \in 1 .. Len(s.blocked) - 1 : x = r.blocked[j]
            BY <2>5 DEF Blocked
        <3>2. PICK m \in 1 .. Len(s.blocked) : m # i /\ x = s.blocked[m]
            <4>1. CASE j < i
                BY <1>1, <2>5, <3>1, <4>1
            <4>2. CASE ~ (j < i)
                <5>1. j + 1 \in 1 .. Len(s.blocked) /\ j + 1 # i
                    BY <1>1, <4>2
                <5>2. QED
                    BY <2>5, <3>1, <4>2, <5>1
            <4>3. QED
                BY <4>1, <4>2
        <3>3. QED
            BY <1>1, <2>2, <3>2 DEF Blocked
    <2>7. ASSUME NEW x \in Blocked(s) \ {t} PROVE x \in Blocked(r)
        <3>1. PICK m \in 1 .. Len(s.blocked) : x = s.blocked[m] /\ m # i
            BY <1>1, <2>1 DEF Blocked
        <3>2. PICK j \in 1 .. Len(s.blocked) - 1 : x = r.blocked[j]
            <4>1. CASE m < i
                BY <1>1, <2>5, <3>1, <4>1
            <4>2. CASE m > i
                <5>1. m - 1 \in 1 .. Len(s.blocked) - 1 /\ ~ (m - 1 < i) /\ (m - 1) + 1 = m
                    BY <1>1, <4>2
                <5>2. QED
                    BY <2>5, <3>1, <5>1
            <4>3. QED
                BY <1>1, <3>1, <4>1, <4>2
        <3>3. QED
            BY <2>5, <3>2 DEF Blocked
    <2>8. QED
        BY <2>6, <2>7 DEF r
<1>4. QED
    BY <1>2, <1>3

-----------------------------------------------------------------------------
(* Every operation of the scheduler, seen as a step of round robin.        *)

\* m is the line l after t has left it; t need not have been in it.
Leaves(l, m, t) ==
    \/ \E k \in DOMAIN l : l[k] = t /\ m = RemoveAt(l, k)
    \/ (\A k \in DOMAIN l : l[k] # t) /\ m = l

\* Being in line is being on the run queue.
LEMMA InLineIsQueued ==
    ASSUME NEW s, Good(s), NEW t
    PROVE  Contains(s, t) <=> \E k \in DOMAIN LineOf(s) : LineOf(s)[k] = t
    BY LineProperties, GoodTypes DEF Contains

\* Being asleep is being on the blocked list.
LEMMA AsleepIsBlocked ==
    ASSUME NEW s, NEW t
    PROVE  ContainsBlocked(s, t) <=> t \in Blocked(s)
    BY DEF ContainsBlocked, Blocked

\* `remove' takes the task out of the line.
LEMMA RemoveLeaves ==
    ASSUME NEW s, Good(s), NEW t \in Tasks
    PROVE  Leaves(LineOf(s), LineOf(Remove(s, t)), t)
<1>1. CASE Contains(s, t)
    <2> DEFINE k == QueueIndex(s, t)
    <2>1. PICK i \in 1 .. Len(s.queue) : s.queue[i].task = t
        BY <1>1, GoodTypes DEF Contains
    <2>2. \A j \in DOMAIN s.queue : s.queue[j].task = t => i <= j
        BY <2>1, GoodTypes DEF Good, Distinct
    <2>3. k \in 1 .. Len(s.queue) /\ s.queue[k].task = t
        BY <2>1, <2>2, GoodTypes DEF QueueIndex
    <2>4. Remove(s, t).queue = RemoveAt(s.queue, k)
        BY <1>1, GoodTypes DEF Remove, SchedState
    <2> HIDE DEF k
    <2>5. LineOf(Remove(s, t)) = RemoveAt(LineOf(s), k)
        BY <2>3, <2>4, LineRemove
    <2>6. k \in DOMAIN LineOf(s) /\ LineOf(s)[k] = t
        BY <2>3, LineProperties
    <2>7. QED
        BY <2>5, <2>6 DEF Leaves
<1>2. CASE ~ Contains(s, t)
    BY <1>2, InLineIsQueued DEF Remove, Leaves
<1>3. QED
    BY <1>1, <1>2

\* Clearing the CPU touches neither list.
LEMMA ClearKeeps ==
    ASSUME NEW s, Good(s), NEW t \in Tasks
    PROVE  /\ LineOf(ClearCurrent(s, t)) = LineOf(s)
           /\ Blocked(ClearCurrent(s, t)) = Blocked(s)
           /\ ClearCurrent(s, t).current = IF s.current = t THEN NoTask ELSE s.current
<1>1. /\ ClearCurrent(s, t).queue = s.queue
      /\ ClearCurrent(s, t).blocked = s.blocked
      /\ ClearCurrent(s, t).current = IF s.current = t THEN NoTask ELSE s.current
    BY GoodTypes DEF ClearCurrent, SchedState
<1>2. QED
    BY <1>1 DEF LineOf, Blocked

\* begin_task is Start.
LEMMA BeginStep ==
    ASSUME NEW s, Good(s), NEW t \in Tasks
    PROVE  /\ BeginTask(s, t).current = t
           /\ Leaves(LineOf(s), LineOf(BeginTask(s, t)), t)
           /\ Blocked(BeginTask(s, t)) = Blocked(s) \ {t}
<1> DEFINE u == Remove(s, t)
           r == RemoveBlocked(u, t)
<1>1. Good(u) /\ u.blocked = s.blocked /\ Leaves(LineOf(s), LineOf(u), t)
    BY RemoveGood, RemoveLeaves
<1>2. BeginTask(s, t) = [r EXCEPT !.current = t, !.slice = 0]
    BY DEF BeginTask
<1> HIDE DEF u
<1>3. Good(r) /\ r.queue = u.queue /\ Blocked(r) = Blocked(u) \ {t}
    BY <1>1, RemoveBlockedGood, BlockedRemove
<1> HIDE DEF r
<1>4. /\ BeginTask(s, t).queue = u.queue
      /\ BeginTask(s, t).blocked = r.blocked
      /\ BeginTask(s, t).current = t
    BY <1>2, <1>3, GoodTypes DEF SchedState
<1>5. /\ LineOf(BeginTask(s, t)) = LineOf(u)
      /\ Blocked(BeginTask(s, t)) = Blocked(r)
      /\ Blocked(u) = Blocked(s)
    BY <1>1, <1>4 DEF LineOf, Blocked
<1>6. QED
    BY <1>1, <1>3, <1>4, <1>5

\* finish_task is Finish.
LEMMA FinishStep ==
    ASSUME NEW s, Good(s), NEW t \in Tasks
    PROVE  /\ FinishTask(s, t).current = IF s.current = t THEN NoTask ELSE s.current
           /\ Leaves(LineOf(s), LineOf(FinishTask(s, t)), t)
           /\ Blocked(FinishTask(s, t)) = Blocked(s) \ {t}
<1> DEFINE c == ClearCurrent(s, t)
           u == Remove(c, t)
           r == RemoveBlocked(u, t)
<1>1. /\ Good(c) /\ LineOf(c) = LineOf(s) /\ Blocked(c) = Blocked(s)
      /\ c.current = IF s.current = t THEN NoTask ELSE s.current
    BY ClearGood, ClearKeeps
<1> HIDE DEF c
<1>2. Good(u) /\ u.blocked = c.blocked /\ u.current = c.current
      /\ Leaves(LineOf(c), LineOf(u), t)
    BY <1>1, RemoveGood, RemoveLeaves
<1> HIDE DEF u
<1>3. r.queue = u.queue /\ Blocked(r) = Blocked(u) \ {t} /\ r.current = u.current
    BY <1>2, RemoveBlockedGood, BlockedRemove
<1> HIDE DEF r
<1>4. LineOf(r) = LineOf(u) /\ Blocked(u) = Blocked(c)
    BY <1>2, <1>3 DEF LineOf, Blocked
<1>5. FinishTask(s, t) = r
    BY DEF FinishTask, r, u, c
<1>6. QED
    BY <1>1, <1>2, <1>3, <1>4, <1>5

\* block_task is Sleep, or does nothing.
LEMMA BlockRefines ==
    ASSUME NEW s, Good(s), NEW t \in Tasks, BlockTaskOk(s, t), ~ ContainsBlocked(s, t)
    PROVE  /\ s.current = t \/ Contains(s, t)
           /\ BlockTask(s, t).current = IF s.current = t THEN NoTask ELSE s.current
           /\ Leaves(LineOf(s), LineOf(BlockTask(s, t)), t)
           /\ Blocked(BlockTask(s, t)) = Blocked(s) \cup {t}
<1> DEFINE r == IF s.current = t THEN ClearCurrent(s, t) ELSE Remove(s, t)
<1>1. /\ Good(r) /\ Blocked(r) = Blocked(s)
      /\ r.current = IF s.current = t THEN NoTask ELSE s.current
      /\ Leaves(LineOf(s), LineOf(r), t)
    <2>1. CASE s.current = t
        <3>1. ~ Contains(s, t)
            BY <2>1, GoodTypes DEF Contains, Good, Apart
        <3>2. QED
            BY <2>1, <3>1, ClearGood, ClearKeeps, InLineIsQueued DEF Leaves
    <2>2. CASE s.current # t
        <3>1. Remove(s, t).blocked = s.blocked
            BY RemoveGood
        <3>2. QED
            BY <2>2, <3>1, RemoveGood, RemoveLeaves DEF Blocked
    <2>3. QED
        BY <2>1, <2>2
<1>2. BlockTask(s, t) = [r EXCEPT !.blocked = Append(r.blocked, t)]
    BY DEF BlockTask
<1> HIDE DEF r
<1>3. /\ BlockTask(s, t).queue = r.queue
      /\ BlockTask(s, t).blocked = Append(r.blocked, t)
      /\ BlockTask(s, t).current = r.current
    BY <1>1, <1>2, GoodTypes DEF SchedState
<1>4. LineOf(BlockTask(s, t)) = LineOf(r)
    BY <1>3 DEF LineOf
<1>5. Blocked(BlockTask(s, t)) = Blocked(r) \cup {t}
    BY <1>1, <1>3, BlockedAppend
<1>6. QED
    BY <1>1, <1>3, <1>4, <1>5 DEF BlockTaskOk

\* enqueue is Admit, or does nothing.
LEMMA EnqueueStep ==
    ASSUME NEW s, Good(s), NEW t \in Tasks,
           EnqueueAtOk(s, t), ~ Contains(s, t), s.current # t
    PROVE  /\ EnqueueAt(s, t, s.ticks).current = s.current
           /\ LineOf(EnqueueAt(s, t, s.ticks)) = Append(LineOf(s), t)
           /\ Blocked(EnqueueAt(s, t, s.ticks)) = Blocked(s)
           /\ Len(LineOf(s)) < QueueCapacity
<1> DEFINE r == EnqueueAt(s, t, s.ticks)
<1>1. r.queue = Append(s.queue, [task |-> t, since |-> s.ticks])
      /\ r.blocked = s.blocked /\ r.current = s.current
    BY GoodTypes DEF EnqueueAt, SchedState
<1> HIDE DEF r
<1>2. s.ticks \in Nat
    BY GoodTypes
<1>3. LineOf(r) = Append(LineOf(s), t)
    BY <1>1, <1>2, LineAppend
<1>4. Len(LineOf(s)) < QueueCapacity
    BY LineProperties DEF EnqueueAtOk
<1>5. QED
    BY <1>1, <1>3, <1>4 DEF Blocked, r

\* The first in line, whom the next dispatch takes.
LEMMA FirstInLine ==
    ASSUME NEW s, Good(s), Len(s.queue) # 0
    PROVE  /\ SelectNextOffset(s) = 1 /\ 1 \in 1 .. Len(s.queue)
           /\ LineOf(s)[1] = s.queue[1].task
           /\ LineOf(s) # <<>>
<1>1. SelectNextOffset(s) = 1 /\ 1 \in 1 .. Len(s.queue)
    BY HeadIsNext, GoodTypes
<1>2. QED
    BY <1>1, LineProperties

\* block_current_and_dispatch is Handoff, or does nothing.
LEMMA DispatchStep ==
    ASSUME NEW s, Good(s), NEW t \in Tasks, DispatchOk(s, t)
    PROVE  LET r == BlockCurrentAndDispatch(s, t) IN
           /\ s.current = t /\ LineOf(s) # <<>>
           /\ r.current = LineOf(s)[1]
           /\ LineOf(r) = RemoveAt(LineOf(s), 1)
           /\ Blocked(r) = Blocked(s) \cup {t}
<1> DEFINE r == BlockCurrentAndDispatch(s, t)
<1>1. s.current = t /\ Len(s.queue) # 0
    BY DEF DispatchOk
<1>2. /\ SelectNextOffset(s) = 1 /\ 1 \in 1 .. Len(s.queue)
      /\ LineOf(s)[1] = s.queue[1].task /\ LineOf(s) # <<>>
    BY <1>1, FirstInLine
<1>3. /\ r.queue = RemoveAt(s.queue, 1) /\ r.blocked = Append(s.blocked, t)
      /\ r.current = s.queue[1].task
    BY <1>2, GoodTypes DEF BlockCurrentAndDispatch, NextTask, SchedState
<1> HIDE DEF r
<1>4. LineOf(r) = RemoveAt(LineOf(s), 1)
    BY <1>2, <1>3, LineRemove
<1>5. Blocked(r) = Blocked(s) \cup {t}
    BY <1>3, BlockedAppend
<1>6. QED
    BY <1>1, <1>2, <1>3, <1>4, <1>5 DEF r

\* wake_task is Awake, or changes nothing but the order of the blocked list.
LEMMA WakeRefines ==
    ASSUME NEW s, Good(s), NEW t \in Tasks
    PROVE  LET r == WakeTask(s, t) IN
           \/ /\ t \in Blocked(s)
              /\ Len(LineOf(s)) < QueueCapacity
              /\ Blocked(r) = Blocked(s) \ {t}
              /\ LineOf(r) = Append(LineOf(s), t)
              /\ r.current = s.current
           \/ /\ Blocked(r) = Blocked(s)
              /\ LineOf(r) = LineOf(s)
              /\ r.current = s.current
<1> DEFINE u == RemoveBlocked(s, t)
           r == WakeTask(s, t)
           stays == t = NoTask \/ s.current = t \/ Contains(s, t) \/ ~ ContainsBlocked(s, t)
<1>1. CASE stays
    BY <1>1 DEF WakeTask
<1>2. CASE ~ stays
    <2>1. /\ Good(u) /\ u.queue = s.queue /\ u.current = s.current /\ u.ticks = s.ticks
          /\ Blocked(u) = Blocked(s) \ {t}
        BY RemoveBlockedGood, BlockedRemove
    <2>2. t \in Blocked(s)
        BY <1>2, AsleepIsBlocked
    <2>3. r = IF EnqueueAtOk(u, t) THEN EnqueueAt(u, t, s.ticks)
              ELSE [u EXCEPT !.blocked = Append(u.blocked, t)]
        BY <1>2 DEF WakeTask
    <2>4. ~ Contains(u, t) /\ u.current # t /\ LineOf(u) = LineOf(s)
        BY <1>2, <2>1 DEF Contains, LineOf
    <2> HIDE DEF u, r
    <2>5. CASE EnqueueAtOk(u, t)
        <3>1. /\ r.current = u.current
              /\ LineOf(r) = Append(LineOf(u), t)
              /\ Blocked(r) = Blocked(u)
              /\ Len(LineOf(u)) < QueueCapacity
            BY <2>1, <2>3, <2>4, <2>5, EnqueueStep
        <3>2. QED
            BY <2>1, <2>2, <2>4, <3>1 DEF r
    <2>6. CASE ~ EnqueueAtOk(u, t)
        <3>1. r.blocked = Append(u.blocked, t) /\ r.queue = u.queue /\ r.current = u.current
            BY <2>1, <2>3, <2>6, GoodTypes DEF SchedState
        <3>2. Blocked(r) = Blocked(u) \cup {t}
            BY <2>1, <3>1, BlockedAppend
        <3>3. LineOf(r) = LineOf(u)
            BY <3>1 DEF LineOf
        <3>4. QED
            BY <2>1, <2>2, <2>4, <3>1, <3>2, <3>3 DEF r
    <2>7. QED
        BY <2>5, <2>6
<1>3. QED
    BY <1>1, <1>2

\* The clock is invisible.
LEMMA TickStep ==
    ASSUME NEW s, Good(s)
    PROVE  /\ LineOf(OnTimerTick(s)) = LineOf(s)
           /\ Blocked(OnTimerTick(s)) = Blocked(s)
           /\ OnTimerTick(s).current = s.current
<1>1. /\ OnTimerTick(s).queue = s.queue /\ OnTimerTick(s).blocked = s.blocked
      /\ OnTimerTick(s).current = s.current
    BY GoodTypes DEF OnTimerTick, SchedState
<1>2. QED
    BY <1>1 DEF LineOf, Blocked

\* preempt_current is Rotate, or does nothing.
LEMMA PreemptStep ==
    ASSUME NEW s, Good(s), PreemptOk(s)
    PROVE  LET r == PreemptCurrent(s) IN
           /\ s.current # NoTask /\ LineOf(s) # <<>>
           /\ r.current = LineOf(s)[1]
           /\ LineOf(r) = Append(RemoveAt(LineOf(s), 1), s.current)
           /\ Blocked(r) = Blocked(s)
<1> DEFINE d == [s EXCEPT !.queue = RemoveAt(s.queue, 1)]
           p == PreemptCurrent(s)
<1>1. s.current # NoTask /\ Len(s.queue) # 0 /\ s.ticks \in Nat
    BY GoodTypes DEF PreemptOk
<1>2. /\ 1 \in 1 .. Len(s.queue) /\ LineOf(s)[1] = s.queue[1].task /\ LineOf(s) # <<>>
    BY <1>1, FirstInLine
<1>3. Good(d)
    BY <1>2, DequeueGood
<1>4. d.queue = RemoveAt(s.queue, 1)
    BY GoodTypes DEF SchedState
<1>5. /\ p.queue = Append(d.queue, [task |-> s.current, since |-> s.ticks])
      /\ p.blocked = s.blocked /\ p.current = s.queue[1].task /\ s.current \in Tasks
    BY <1>4, PreemptShape
<1> HIDE DEF d, p
<1>6. LineOf(d) = RemoveAt(LineOf(s), 1)
    BY <1>2, <1>4, LineRemove
<1>7. LineOf(p) = Append(LineOf(d), s.current)
    BY <1>1, <1>3, <1>5, LineAppend
<1>8. QED
    BY <1>1, <1>2, <1>5, <1>6, <1>7 DEF Blocked, p

-----------------------------------------------------------------------------
(* The refinement.                                                         *)

\* A step after which line, blocked tasks and CPU are as before is a stutter.
LEMMA Stutter ==
    ASSUME LineOf(sched') = LineOf(sched), Blocked(sched') = Blocked(sched),
           sched'.current = sched.current
    PROVE  UNCHANGED RR!rrVars
    BY DEF RR!rrVars

\* Leaving the line is what the abstract specification says.
LEMMA LeavesIsAbstract ==
    ASSUME NEW t, Leaves(LineOf(sched), LineOf(sched'), t)
    PROVE  RR!LeavesLine(t)
    BY DEF Leaves, RemoveAt, RR!LeavesLine, RR!LineWithout, RR!InLine

\* Every step of the scheduler is a step of round robin or invisible to it.
LEMMA StepRefines == Good(sched) /\ [SchedNext]_sched => [RR!RRNext]_(RR!rrVars)
<1> SUFFICES ASSUME Good(sched), [SchedNext]_sched
             PROVE  RR!RRNext \/ UNCHANGED RR!rrVars
    OBVIOUS
<1>1. ASSUME NEW t \in Tasks, EnqueueTask(t) PROVE RR!RRNext \/ UNCHANGED RR!rrVars
    <2>1. sched' = EnqueueAt(sched, t, sched.ticks) /\ t \notin Blocked(sched)
        BY <1>1 DEF EnqueueTask, Enqueue
    <2>2. CASE EnqueueAtOk(sched, t) /\ ~ Contains(sched, t) /\ sched.current # t
        <3>1. /\ sched'.current = sched.current
              /\ LineOf(sched') = Append(LineOf(sched), t)
              /\ Blocked(sched') = Blocked(sched)
              /\ Len(LineOf(sched)) < QueueCapacity
            BY <2>1, <2>2, EnqueueStep
        <3>2. RR!Admit(t)
            BY <2>1, <2>2, <3>1, InLineIsQueued DEF RR!Admit, RR!InLine
        <3>3. QED
            BY <3>2 DEF RR!RRNext
    <2>3. CASE ~ (EnqueueAtOk(sched, t) /\ ~ Contains(sched, t) /\ sched.current # t)
        BY <2>1, <2>3, Stutter DEF EnqueueAt
    <2>4. QED
        BY <2>2, <2>3
<1>2. ASSUME NEW t \in Tasks, Begin(t) PROVE RR!RRNext \/ UNCHANGED RR!rrVars
    <2>1. /\ sched.current = NoTask /\ sched'.current = t
          /\ Leaves(LineOf(sched), LineOf(sched'), t)
          /\ Blocked(sched') = Blocked(sched) \ {t}
        BY <1>2, BeginStep DEF Begin
    <2>2. RR!Start(t)
        BY <2>1, LeavesIsAbstract DEF RR!Start
    <2>3. QED
        BY <2>2 DEF RR!RRNext
<1>3. ASSUME NEW t \in Tasks, Finish(t) PROVE RR!RRNext \/ UNCHANGED RR!rrVars
    <2>1. /\ sched'.current = IF sched.current = t THEN NoTask ELSE sched.current
          /\ Leaves(LineOf(sched), LineOf(sched'), t)
          /\ Blocked(sched') = Blocked(sched) \ {t}
        BY <1>3, FinishStep DEF Finish
    <2>2. RR!Finish(t)
        BY <2>1, LeavesIsAbstract DEF RR!Finish
    <2>3. QED
        BY <2>2 DEF RR!RRNext
<1>4. ASSUME NEW t \in Tasks, Block(t) PROVE RR!RRNext \/ UNCHANGED RR!rrVars
    <2>1. CASE BlockTaskOk(sched, t) /\ ~ ContainsBlocked(sched, t)
        <3>1. /\ sched.current = t \/ Contains(sched, t)
              /\ sched'.current = IF sched.current = t THEN NoTask ELSE sched.current
              /\ Leaves(LineOf(sched), LineOf(sched'), t)
              /\ Blocked(sched') = Blocked(sched) \cup {t}
            BY <1>4, <2>1, BlockRefines DEF Block
        <3>2. RR!Sleep(t)
            BY <3>1, LeavesIsAbstract, InLineIsQueued DEF RR!Sleep, RR!InLine
        <3>3. QED
            BY <3>2 DEF RR!RRNext
    <2>2. CASE ~ (BlockTaskOk(sched, t) /\ ~ ContainsBlocked(sched, t))
        BY <1>4, <2>2, Stutter DEF Block, BlockTask
    <2>3. QED
        BY <2>1, <2>2
<1>5. ASSUME NEW t \in Tasks, BlockAndDispatch(t) PROVE RR!RRNext \/ UNCHANGED RR!rrVars
    <2>1. CASE DispatchOk(sched, t)
        <3>1. /\ sched.current = t /\ LineOf(sched) # <<>>
              /\ sched'.current = LineOf(sched)[1]
              /\ LineOf(sched') = RemoveAt(LineOf(sched), 1)
              /\ Blocked(sched') = Blocked(sched) \cup {t}
            BY <1>5, <2>1, DispatchStep DEF BlockAndDispatch
        <3>2. RR!Handoff
            BY <3>1, NoTaskAssumption DEF RR!Handoff, RR!LineWithout, RemoveAt
        <3>3. QED
            BY <3>2 DEF RR!RRNext
    <2>2. CASE ~ DispatchOk(sched, t)
        BY <1>5, <2>2, Stutter DEF BlockAndDispatch, BlockCurrentAndDispatch
    <2>3. QED
        BY <2>1, <2>2
<1>6. ASSUME NEW t \in Tasks, Wake(t) PROVE RR!RRNext \/ UNCHANGED RR!rrVars
    <2>1. \/ /\ t \in Blocked(sched)
             /\ Len(LineOf(sched)) < QueueCapacity
             /\ Blocked(sched') = Blocked(sched) \ {t}
             /\ LineOf(sched') = Append(LineOf(sched), t)
             /\ sched'.current = sched.current
          \/ /\ Blocked(sched') = Blocked(sched)
             /\ LineOf(sched') = LineOf(sched)
             /\ sched'.current = sched.current
        BY <1>6, WakeRefines DEF Wake
    <2>2. RR!Awake(t) \/ UNCHANGED RR!rrVars
        BY <2>1, Stutter DEF RR!Awake
    <2>3. QED
        BY <2>2 DEF RR!RRNext
<1>7. CASE ClockTick
    BY <1>7, TickStep, Stutter DEF ClockTick
<1>8. CASE TickAndPreempt
    <2> DEFINE s == OnTimerTick(sched)
    <2>1. /\ Good(s) /\ LineOf(s) = LineOf(sched) /\ Blocked(s) = Blocked(sched)
          /\ s.current = sched.current /\ sched' = PreemptCurrent(s)
        BY <1>8, TickGood, TickStep DEF TickAndPreempt
    <2> HIDE DEF s
    <2>2. CASE PreemptOk(s)
        <3>1. /\ s.current # NoTask /\ LineOf(s) # <<>>
              /\ sched'.current = LineOf(s)[1]
              /\ LineOf(sched') = Append(RemoveAt(LineOf(s), 1), s.current)
              /\ Blocked(sched') = Blocked(s)
            BY <2>1, <2>2, PreemptStep
        <3>2. RR!Rotate
            BY <2>1, <3>1 DEF RR!Rotate, RR!LineWithout, RemoveAt
        <3>3. QED
            BY <3>2 DEF RR!RRNext
    <2>3. CASE ~ PreemptOk(s)
        BY <2>1, <2>3, Stutter DEF PreemptCurrent
    <2>4. QED
        BY <2>2, <2>3
<1>9. CASE UNCHANGED sched
    BY <1>9 DEF RR!rrVars, LineOf, Blocked
<1>10. QED
    BY <1>1, <1>2, <1>3, <1>4, <1>5, <1>6, <1>7, <1>8, <1>9 DEF SchedNext

\* The scheduler implements round robin: whatever calls and interrupts come in
\* whatever order, a dispatch takes the task that has been ready longest, a
\* preempted task goes to the end of the line, and no task is lost or doubled.
THEOREM SchedulerIsRoundRobin == SchedSpec => ImplementsRoundRobin
<1>1. SchedInit => RR!RRInit
    <2> SUFFICES ASSUME SchedInit PROVE RR!RRInit
        OBVIOUS
    <2>1. sched.queue = <<>> /\ sched.blocked = <<>> /\ sched.current = NoTask
        BY DEF SchedInit, NewScheduler
    <2>2. DOMAIN sched.queue = {} /\ DOMAIN sched.blocked = {}
        BY <2>1
    <2>3. LineOf(sched) = <<>> /\ Blocked(sched) = {}
        BY <2>2 DEF LineOf, Blocked
    <2>4. QED
        BY <2>1, <2>3 DEF RR!RRInit
<1>2. SchedInit => Good(sched)
    BY InitGood
<1>3. Good(sched) /\ [SchedNext]_sched => Good(sched)'
    BY NextGood
<1>4. QED
    BY <1>1, <1>2, <1>3, StepRefines, PTL DEF SchedSpec, ImplementsRoundRobin, RR!RRSpec

-----------------------------------------------------------------------------
(* The inductive invariant, as predicates of the values that the scheduler *)
(* (s), the process table (p), the endpoints (b), the mode (m) and the     *)
(* next identifier (n) have, so that they can also be stated of what a     *)
(* timer interrupt has done half way through the table.                    *)

Alive(x) == x.state \in {"Ready", "Running", "Blocked"}

\* What the scheduler has to say of a task in this state.
Shown(state) == IF state = "Exited" THEN "Unknown" ELSE state

\* Identifiers are used once, and a task is younger than its parent.
Ident(p, n) ==
    /\ \A i \in Slots : p[i].state # "Empty" =>
          p[i].id \in Tasks /\ p[i].id < n /\ p[i].parent < p[i].id
    /\ \A i, j \in Slots :
          p[i].state # "Empty" /\ p[j].state # "Empty" /\ p[i].id = p[j].id => i = j

\* Scheduler and process table agree.
Agree(s, p) ==
    /\ \A i \in Slots : p[i].state # "Empty" => Place(s, p[i].id) = Shown(p[i].state)
    /\ \A t \in Tasks : Place(s, t) # "Unknown" =>
          \E i \in Slots : p[i].state # "Empty" /\ p[i].id = t

\* The open endpoints are those of the tasks that have their resources.
Owned(p, b) ==
    /\ \A i \in Slots : Alive(p[i]) => p[i].resources
    /\ \A t \in Tasks : b[t].open <=>
          \E i \in Slots : p[i].state # "Empty" /\ p[i].id = t /\ p[i].resources

Core(s, p, b, n) ==
    /\ Good(s)
    /\ p \in [Slots -> Task] /\ b \in [Tasks -> Endpoint] /\ n \in Nat
    /\ Ident(p, n) /\ Agree(s, p) /\ Owned(p, b)

Child(p, t) == \E j \in Slots : p[j].state # "Empty" /\ p[j].parent = t

\* x waits for a child that has not exited.
Awaits(p, x) == \E c \in Slots : /\ Alive(p[c]) /\ p[c].id = x.waitTarget
                                 /\ p[c].parent = x.id

\* What the entry x of the process table says of waiting, and its endpoint e.
Idle(x, e) == ~ x.ipcWaiting /\ x.waitTarget = NoTask /\ ~ e.waiting

Listening(p, x, e) ==
    e.waiting /\ e.count = 0 /\ x.waitTarget = NoTask /\ ~ Child(p, x.id)

Attending(p, x, e) == ~ e.waiting /\ Awaits(p, x)

WaitOk(p, x, e, m) ==
    /\ x.state \in {"Ready", "Running"} => Idle(x, e)
    /\ x.state = "Blocked" /\ x.ipcWaiting => Listening(p, x, e)
    /\ x.state = "Blocked" /\ ~ x.ipcWaiting => Attending(p, x, e)
    \* A task that will execute its receive again got no child since.
    /\ Alive(x) /\ m # "kernel" /\ x.context.at = "receive" => ~ Child(p, x.id)
    \* A task woken by a message finds one.
    /\ (/\ x.state \in {"Ready", "Running"} /\ m # "kernel" /\ x.context.at = "receive"
        /\ x.reason \notin {"Timeout", "Cancelled"}) => e.count > 0

Waits(p, b, m) ==
    \A i \in Slots : p[i].state # "Empty" => WaitOk(p, p[i], b[p[i].id], m)

\* The deadline of a blocked receive is still to come.
Pending(x, now) ==
    x.state = "Blocked" /\ x.ipcWaiting /\ x.deadline # 0 => now < x.deadline

\* What needs that no task waits for messages and for a child.
Calm(s, p, b, m) ==
    Waits(p, b, m) /\ \A i \in Slots : Pending(p[i], s.ticks)

KInv ==
    /\ Core(sched, slots, boxes, nextId)
    /\ mode \in {"kernel", "starting", "user"} /\ preempting \in BOOLEAN
    /\ ~ MixedWaits => Calm(sched, slots, boxes, mode)

-----------------------------------------------------------------------------
(* The process table.                                                      *)

LEMMA CoreTypes ==
    ASSUME NEW s, NEW p, NEW b, NEW n, Core(s, p, b, n)
    PROVE  /\ Good(s) /\ p \in [Slots -> Task] /\ b \in [Tasks -> Endpoint] /\ n \in Nat
           /\ Ident(p, n) /\ Agree(s, p) /\ Owned(p, b)
           /\ \A i \in Slots : p[i] \in Task
           /\ \A t \in Tasks : b[t] \in Endpoint
    BY DEF Core

LEMMA TaskTypes ==
    ASSUME NEW x \in Task
    PROVE  /\ x.id \in Tasks \cup {NoTask} /\ x.parent \in Tasks \cup {NoTask}
           /\ x.state \in States /\ x.resources \in BOOLEAN /\ x.cleaned \in BOOLEAN
           /\ x.waitTarget \in Tasks \cup {NoTask} /\ x.ipcWaiting \in BOOLEAN
           /\ x.restartPending \in BOOLEAN /\ x.deadline \in Nat /\ x.reason \in Reasons
           /\ x.context \in Contexts
           /\ x.context.at \in {"entry", "program", "receive"}
           /\ x.context.timeout \in Timeouts \cup {NoTimeout} /\ x.context.fits \in BOOLEAN
    BY DEF Task, Contexts

\* find_task finds the one slot that has the task.
LEMMA FindIs ==
    ASSUME NEW n, Ident(slots, n), NEW i \in Slots, slots[i].state # "Empty"
    PROVE  /\ Exists(slots[i].id) /\ Find(slots[i].id) = i
           /\ TaskOf(slots[i].id) = slots[i]
<1> DEFINE t == slots[i].id
<1>1. \A j \in Slots : slots[j].state # "Empty" /\ slots[j].id = t => j = i
    BY DEF Ident
<1>2. Slots \subseteq Int
    BY DEF Slots
<1>3. \A j \in Slots : slots[j].state # "Empty" /\ slots[j].id = t => i <= j
    BY <1>1, <1>2
<1>4. Find(t) = i
    BY <1>1, <1>3 DEF Find
<1>5. QED
    BY <1>4 DEF Exists, TaskOf

LEMMA FindExists ==
    ASSUME NEW n, Ident(slots, n), NEW t, Exists(t)
    PROVE  /\ Find(t) \in Slots /\ slots[Find(t)].state # "Empty"
           /\ slots[Find(t)].id = t /\ TaskOf(t) = slots[Find(t)]
<1>1. PICK i \in Slots : slots[i].state # "Empty" /\ slots[i].id = t
    BY DEF Exists
<1>2. Find(t) = i
    BY <1>1, FindIs
<1>3. QED
    BY <1>1, <1>2 DEF TaskOf

\* The run queue has room for one more as long as some slot is not ready:
\* the tasks on the run queue are those of different slots.
LEMMA RoomInQueue ==
    ASSUME NEW s, NEW p, NEW n, Good(s), Ident(p, n), Agree(s, p),
           NEW i \in Slots, p[i].state # "Ready"
    PROVE  Len(s.queue) < QueueCapacity
<1> DEFINE len == Len(s.queue)
           Has(k, j) == p[j].state # "Empty" /\ p[j].id = s.queue[k].task
           f == [k \in 1 .. len |-> CHOOSE j \in Slots : Has(k, j)]
<1>1. len \in Nat /\ DOMAIN s.queue = 1 .. len /\ MaxTasks \in Nat /\ QueueCapacity \in Nat
    BY GoodTypes, KernelAssumption, SchedBoundsAssumption
<1>2. ASSUME NEW k \in 1 .. len
      PROVE  f[k] \in Slots \ {i} /\ p[f[k]].id = s.queue[k].task
    <2>1. s.queue[k].task \in Tasks /\ Contains(s, s.queue[k].task)
        BY <1>1, GoodTypes DEF Contains
    <2>2. Place(s, s.queue[k].task) = "Ready"
        BY <2>1, PlaceIs
    <2>3. \E j \in Slots : Has(k, j)
        BY <2>1, <2>2 DEF Agree
    <2>4. f[k] \in Slots /\ Has(k, f[k])
        BY <2>3
    <2>5. p[f[k]].state = "Ready"
        BY <2>2, <2>4 DEF Agree, Shown
    <2>6. QED
        BY <2>4, <2>5
<1> HIDE DEF f
<1>3. \A k, l \in 1 .. len : s.queue[k].task = s.queue[l].task => k = l
    BY DEF Good, Distinct
<1>4. f \in [1 .. len -> Slots \ {i}]
    BY <1>2 DEF f
<1>5. f \in Injection(1 .. len, Slots \ {i})
    BY <1>2, <1>3, <1>4 DEF Injection, IsInjective
<1>6. IsFiniteSet(Slots) /\ Cardinality(Slots) = MaxTasks
    <2>1. 1 \in Int /\ MaxTasks \in Int /\ MaxTasks > 0
        BY KernelAssumption
    <2>2. /\ IsFiniteSet(1 .. MaxTasks)
          /\ Cardinality(1 .. MaxTasks) = IF 1 > MaxTasks THEN 0 ELSE MaxTasks - 1 + 1
        BY <2>1, FS_Interval
    <2>3. QED
        BY <2>1, <2>2 DEF Slots
<1>7. IsFiniteSet(Slots \ {i}) /\ Cardinality(Slots \ {i}) = MaxTasks - 1
    BY <1>6, FS_RemoveElement
<1>8. Cardinality(1 .. len) <= Cardinality(Slots \ {i})
    BY <1>5, <1>7, FS_Injection
<1>9. Cardinality(1 .. len) = len
    BY <1>1, FS_Interval
<1>10. QED
    BY <1>1, <1>7, <1>8, <1>9, TasksFitAssumption

\* x is another state of the task y.
Self(y, x) == x.id = y.id /\ x.parent = y.parent /\ x.state # "Empty" /\ y.state # "Empty"

\* Scheduler and table move together, for every task at once.
LEMMA CoreMove ==
    ASSUME NEW s, NEW p, NEW b, NEW n, Core(s, p, b, n),
           NEW r, Good(r), NEW q \in [Slots -> Task], NEW c \in [Tasks -> Endpoint],
           \A i \in Slots : /\ q[i].id = p[i].id /\ q[i].parent = p[i].parent
                            /\ q[i].state = "Empty" <=> p[i].state = "Empty"
                            /\ q[i].resources = p[i].resources
                            /\ Alive(q[i]) => q[i].resources,
           \A t \in Tasks : c[t].open = b[t].open,
           \A i \in Slots : p[i].state # "Empty" => Place(r, p[i].id) = Shown(q[i].state),
           \A t \in Tasks : (\A i \in Slots : p[i].state # "Empty" => p[i].id # t)
               => Place(r, t) = Place(s, t)
    PROVE  Core(r, q, c, n)
<1>1. Ident(p, n) /\ Agree(s, p) /\ Owned(p, b) /\ n \in Nat
    BY CoreTypes
<1>2. Ident(q, n)
    <2>1. ASSUME NEW i \in Slots, q[i].state # "Empty"
          PROVE  q[i].id \in Tasks /\ q[i].id < n /\ q[i].parent < q[i].id
        BY <1>1, <2>1 DEF Ident
    <2>2. ASSUME NEW i \in Slots, NEW j \in Slots,
                 q[i].state # "Empty", q[j].state # "Empty", q[i].id = q[j].id
          PROVE  i = j
        <3>1. p[i].state # "Empty" /\ p[j].state # "Empty" /\ p[i].id = p[j].id
            BY <2>2
        <3>2. QED
            BY <1>1, <3>1 DEF Ident
    <2>3. QED
        BY <2>1, <2>2 DEF Ident
<1>3. Agree(r, q)
    <2>1. ASSUME NEW i \in Slots, q[i].state # "Empty"
          PROVE  Place(r, q[i].id) = Shown(q[i].state)
        BY <2>1
    <2>2. ASSUME NEW t \in Tasks, Place(r, t) # "Unknown"
          PROVE  \E i \in Slots : q[i].state # "Empty" /\ q[i].id = t
        <3>1. CASE \A i \in Slots : p[i].state # "Empty" => p[i].id # t
            <4>1. Place(s, t) # "Unknown"
                BY <2>2, <3>1
            <4>2. QED
                BY <1>1, <3>1, <4>1 DEF Agree
        <3>2. CASE \E i \in Slots : p[i].state # "Empty" /\ p[i].id = t
            BY <3>2
        <3>3. QED
            BY <3>1, <3>2
    <2>3. QED
        BY <2>1, <2>2 DEF Agree
<1>4. Owned(q, c)
    <2>1. ASSUME NEW t \in Tasks
          PROVE  c[t].open <=> \E i \in Slots : /\ q[i].state # "Empty" /\ q[i].id = t
                                                /\ q[i].resources
        <3>1. b[t].open <=> \E i \in Slots : /\ p[i].state # "Empty" /\ p[i].id = t
                                             /\ p[i].resources
            BY <1>1 DEF Owned
        <3>2. c[t].open = b[t].open
            OBVIOUS
        <3>3. \A i \in Slots : /\ q[i].state # "Empty" <=> p[i].state # "Empty"
                               /\ q[i].id = p[i].id /\ q[i].resources = p[i].resources
            OBVIOUS
        <3>4. QED
            BY <3>1, <3>2, <3>3
    <2>2. QED
        BY <2>1 DEF Owned
<1>5. QED
    BY <1>1, <1>2, <1>3, <1>4 DEF Core

\* One task moves.
LEMMA CoreMoveOne ==
    ASSUME NEW s, NEW p, NEW b, NEW n, Core(s, p, b, n),
           NEW i \in Slots, NEW x \in Task, Self(p[i], x), x.resources = p[i].resources,
           Alive(x) => x.resources,
           NEW r, Good(r), Moved(s, r, p[i].id, Shown(x.state)),
           NEW c \in [Tasks -> Endpoint], \A t \in Tasks : c[t].open = b[t].open
    PROVE  Core(r, [p EXCEPT ![i] = x], c, n)
<1> DEFINE q == [p EXCEPT ![i] = x]
<1>1. Ident(p, n) /\ Agree(s, p) /\ Owned(p, b) /\ p \in [Slots -> Task]
    BY CoreTypes
<1>2. q \in [Slots -> Task] /\ q[i] = x /\ \A j \in Slots : j # i => q[j] = p[j]
    BY <1>1
<1> HIDE DEF q
<1>3. ASSUME NEW j \in Slots
      PROVE  /\ q[j].id = p[j].id /\ q[j].parent = p[j].parent
             /\ q[j].state = "Empty" <=> p[j].state = "Empty"
             /\ q[j].resources = p[j].resources
             /\ Alive(q[j]) => q[j].resources
    <2>1. CASE j = i
        BY <1>2, <2>1 DEF Self
    <2>2. CASE j # i
        BY <1>1, <1>2, <2>2 DEF Owned
    <2>3. QED
        BY <2>1, <2>2
<1>4. ASSUME NEW j \in Slots, p[j].state # "Empty"
      PROVE  Place(r, p[j].id) = Shown(q[j].state)
    <2>1. CASE j = i
        BY <1>2, <2>1 DEF Moved
    <2>2. CASE j # i
        <3>1. p[j].id \in Tasks /\ p[j].id # p[i].id
            BY <1>1, <1>4, <2>2 DEF Ident, Self
        <3>2. Place(r, p[j].id) = Place(s, p[j].id)
            BY <3>1 DEF Moved
        <3>3. QED
            BY <1>1, <1>2, <1>4, <2>2, <3>2 DEF Agree
    <2>3. QED
        BY <2>1, <2>2
<1>5. ASSUME NEW t \in Tasks, \A j \in Slots : p[j].state # "Empty" => p[j].id # t
      PROVE  Place(r, t) = Place(s, t)
    <2>1. t # p[i].id
        BY <1>5 DEF Self
    <2>2. QED
        BY <2>1 DEF Moved
<1>6. Core(r, q, c, n)
    BY <1>2, <1>3, <1>4, <1>5, CoreMove
<1>7. QED
    BY <1>6 DEF q

\* Two tasks move at once.
LEMMA CoreMoveTwo ==
    ASSUME NEW s, NEW p, NEW b, NEW n, Core(s, p, b, n), NEW q \in [Slots -> Task],
           NEW i \in Slots, NEW k \in Slots,
           \A j \in {i, k} : /\ Self(p[j], q[j]) /\ q[j].resources = p[j].resources
                             /\ Alive(q[j]) => q[j].resources,
           \A j \in Slots \ {i, k} : q[j] = p[j],
           NEW r, Good(r),
           \A j \in {i, k} : Place(r, p[j].id) = Shown(q[j].state),
           \A t \in Tasks \ {p[i].id, p[k].id} : Place(r, t) = Place(s, t),
           NEW c \in [Tasks -> Endpoint], \A t \in Tasks : c[t].open = b[t].open
    PROVE  Core(r, q, c, n)
<1>1. Ident(p, n) /\ Agree(s, p) /\ Owned(p, b) /\ p \in [Slots -> Task]
    BY CoreTypes
<1>2. ASSUME NEW j \in Slots
      PROVE  /\ q[j].id = p[j].id /\ q[j].parent = p[j].parent
             /\ q[j].state = "Empty" <=> p[j].state = "Empty"
             /\ q[j].resources = p[j].resources
             /\ Alive(q[j]) => q[j].resources
    <2>1. CASE j \in {i, k}
        BY <2>1 DEF Self
    <2>2. CASE j \notin {i, k}
        BY <1>1, <2>2 DEF Owned
    <2>3. QED
        BY <2>1, <2>2
<1>3. ASSUME NEW j \in Slots, p[j].state # "Empty"
      PROVE  Place(r, p[j].id) = Shown(q[j].state)
    <2>1. CASE j \in {i, k}
        BY <2>1
    <2>2. CASE j \notin {i, k}
        <3>1. p[j].id \in Tasks /\ p[j].id # p[i].id /\ p[j].id # p[k].id
            BY <1>1, <1>3, <2>2 DEF Ident, Self
        <3>2. Place(r, p[j].id) = Place(s, p[j].id)
            BY <3>1
        <3>3. QED
            BY <1>1, <1>3, <2>2, <3>2 DEF Agree
    <2>3. QED
        BY <2>1, <2>2
<1>4. ASSUME NEW t \in Tasks, \A j \in Slots : p[j].state # "Empty" => p[j].id # t
      PROVE  Place(r, t) = Place(s, t)
    <2>1. t # p[i].id /\ t # p[k].id
        BY <1>4 DEF Self
    <2>2. QED
        BY <2>1
<1>5. QED
    BY <1>2, <1>3, <1>4, CoreMove

\* The entry of one task changes, and its endpoint: what the others wait for
\* is still there.
LEMMA WaitsOne ==
    ASSUME NEW p \in [Slots -> Task], NEW b, NEW n, NEW m, Ident(p, n), Waits(p, b, m),
           NEW i \in Slots, NEW x \in Task, Self(p[i], x), Alive(p[i]) => Alive(x),
           NEW c, \A t \in Tasks : t # p[i].id => c[t] = b[t],
           WaitOk(p, x, c[p[i].id], m)
    PROVE  Waits([p EXCEPT ![i] = x], c, m)
<1> DEFINE q == [p EXCEPT ![i] = x]
<1>1. q[i] = x /\ \A j \in Slots : j # i => q[j] = p[j]
    OBVIOUS
<1> HIDE DEF q
<1>2. \A j \in Slots : /\ q[j].id = p[j].id /\ q[j].parent = p[j].parent
                       /\ q[j].state # "Empty" <=> p[j].state # "Empty"
                       /\ Alive(p[j]) => Alive(q[j])
    BY <1>1 DEF Self
<1>3. \A t : Child(q, t) <=> Child(p, t)
    BY <1>2 DEF Child
<1>4. \A y : Awaits(p, y) => Awaits(q, y)
    BY <1>2 DEF Awaits
<1>5. ASSUME NEW y, NEW e, WaitOk(p, y, e, m)
      PROVE  WaitOk(q, y, e, m)
    BY <1>3, <1>4, <1>5 DEF WaitOk, Listening, Attending
<1>6. ASSUME NEW j \in Slots, q[j].state # "Empty"
      PROVE  WaitOk(q, q[j], c[q[j].id], m)
    <2>1. CASE j = i
        <3>1. q[j] = x /\ q[j].id = p[i].id
            BY <1>1, <1>2, <2>1
        <3>2. QED
            BY <1>5, <3>1
    <2>2. CASE j # i
        <3>1. p[j].state # "Empty" /\ q[j] = p[j]
            BY <1>1, <1>6, <2>2
        <3>2. p[j].id \in Tasks /\ p[j].id # p[i].id
            BY <2>2, <3>1 DEF Ident, Self
        <3>3. WaitOk(p, p[j], b[p[j].id], m)
            BY <3>1 DEF Waits
        <3>4. c[p[j].id] = b[p[j].id]
            BY <3>2
        <3>5. QED
            BY <1>5, <3>1, <3>3, <3>4
    <2>3. QED
        BY <2>1, <2>2
<1>7. QED
    BY <1>6 DEF Waits, q

-----------------------------------------------------------------------------
(* What the operations make of an entry of the process table.              *)

LEMMA WokenFacts ==
    ASSUME NEW x \in Task, NEW why \in Reasons
    PROVE  LET y == Woken(x, why) IN
           /\ y \in Task /\ y.id = x.id /\ y.parent = x.parent /\ y.state = "Ready"
           /\ y.resources = x.resources /\ y.waitTarget = x.waitTarget
           /\ y.ipcWaiting = FALSE /\ y.reason = why /\ y.context = x.context
    BY DEF Woken, Task, States

LEMMA ExitedFacts ==
    ASSUME NEW x \in Task
    PROVE  LET y == ExitedTask(x) IN
           /\ y \in Task /\ y.id = x.id /\ y.parent = x.parent /\ y.state = "Exited"
           /\ y.resources = x.resources
    BY DEF ExitedTask, Task, States, Reasons

LEMMA ReturnedFacts ==
    ASSUME NEW x \in Task,
           NEW y \in {Returned(x), Completed(x), [Completed(x) EXCEPT !.deadline = 0]}
    PROVE  /\ y \in Task /\ y.id = x.id /\ y.parent = x.parent /\ y.state = x.state
           /\ y.resources = x.resources /\ y.waitTarget = x.waitTarget
           /\ y.ipcWaiting = x.ipcWaiting /\ y.context.at = "program"
<1>1. InProgram \in Contexts /\ InProgram.at = "program" /\ "None" \in Reasons
    BY DEF InProgram, Contexts, Reasons
<1>2. /\ Returned(x) \in Task
      /\ Returned(x) = [x EXCEPT !.reason = "None", !.context = InProgram]
    BY <1>1 DEF Returned, Task
<1>3. Completed(x) \in Task /\ Completed(x) = [Returned(x) EXCEPT !.restartPending = FALSE]
    BY <1>2 DEF Completed, Task
<1>4. CASE y = Returned(x)
    BY <1>1, <1>2, <1>4 DEF Task
<1>5. CASE y = Completed(x)
    BY <1>1, <1>2, <1>3, <1>5 DEF Task
<1>6. CASE y = [Completed(x) EXCEPT !.deadline = 0]
    <2>1. /\ Completed(x).id = x.id /\ Completed(x).parent = x.parent
          /\ Completed(x).state = x.state /\ Completed(x).resources = x.resources
          /\ Completed(x).waitTarget = x.waitTarget /\ Completed(x).ipcWaiting = x.ipcWaiting
          /\ Completed(x).context = InProgram
        BY <1>2, <1>3 DEF Task
    <2>2. QED
        BY <1>1, <1>3, <1>6, <2>1 DEF Task
<1>7. QED
    BY <1>4, <1>5, <1>6

LEMMA DispatchedFacts ==
    ASSUME NEW x \in Task
    PROVE  LET y == Dispatched(x) IN
           /\ y \in Task /\ y.id = x.id /\ y.parent = x.parent /\ y.state = "Running"
           /\ y.resources = x.resources /\ y.waitTarget = x.waitTarget
           /\ y.ipcWaiting = x.ipcWaiting /\ y.reason = x.reason
           /\ y.context.at = "receive" => x.context.at = "receive"
<1>1. InProgram \in Contexts /\ InProgram.at = "program"
    BY DEF InProgram, Contexts
<1> DEFINE k == IF x.context = NotYetRun THEN InProgram ELSE x.context
<1>2. k \in Contexts /\ (k.at = "receive" => x.context.at = "receive")
    BY <1>1, TaskTypes
<1>3. Dispatched(x) = [x EXCEPT !.state = "Running", !.context = k]
    BY DEF Dispatched
<1> HIDE DEF k
<1>4. QED
    BY <1>2, <1>3 DEF Task, States

LEMMA BlockedFacts ==
    ASSUME NEW x \in Task, NEW timeout \in Timeouts \cup {NoTimeout}, NEW fits \in BOOLEAN,
           Clock \in Nat
    PROVE  LET y == BlockedReceiver(x, timeout, fits) IN
           /\ y \in Task /\ y.id = x.id /\ y.parent = x.parent /\ y.state = "Blocked"
           /\ y.resources = x.resources /\ y.waitTarget = x.waitTarget
           /\ y.ipcWaiting = TRUE
           /\ timeout # 0 /\ y.deadline # 0 => Clock < y.deadline
<1> DEFINE d == IF timeout = NoTimeout THEN 0 ELSE Clock + timeout
<1>1. Timeouts \subseteq Nat
    BY KernelAssumption
<1>2. d \in Nat /\ (timeout # 0 /\ d # 0 => Clock < d)
    BY <1>1
<1>3. Restart(timeout, fits) \in Contexts
    BY DEF Restart, Contexts
<1>4. BlockedReceiver(x, timeout, fits) =
         [x EXCEPT !.state = "Blocked", !.ipcWaiting = TRUE, !.restartPending = TRUE,
                   !.reason = "None", !.deadline = d, !.context = Restart(timeout, fits)]
    BY DEF BlockedReceiver
<1> HIDE DEF d
<1>5. QED
    BY <1>2, <1>3, <1>4 DEF Task, States, Reasons

LEMMA EmptyFacts ==
    /\ EmptySlot \in Task /\ EmptySlot.state = "Empty"
    /\ \A id \in Tasks, parent \in Tasks \cup {NoTask} :
          LET y == NewTask(id, parent) IN
          /\ y \in Task /\ y.id = id /\ y.parent = parent /\ y.state = "Ready"
          /\ y.resources = TRUE /\ y.waitTarget = NoTask /\ y.ipcWaiting = FALSE
<1>1. NotYetRun \in Contexts
    BY DEF NotYetRun, Contexts
<1>2. EmptySlot \in Task /\ EmptySlot.state = "Empty"
    BY <1>1 DEF EmptySlot, Task, States, Reasons
<1>3. ASSUME NEW id \in Tasks, NEW parent \in Tasks \cup {NoTask}
      PROVE  LET y == NewTask(id, parent) IN
             /\ y \in Task /\ y.id = id /\ y.parent = parent /\ y.state = "Ready"
             /\ y.resources = TRUE /\ y.waitTarget = NoTask /\ y.ipcWaiting = FALSE
    <2> DEFINE y == NewTask(id, parent)
    <2>1. y = [EmptySlot EXCEPT !.id = id, !.parent = parent,
                                !.state = "Ready", !.resources = TRUE]
        BY DEF NewTask
    <2>2. EmptySlot.waitTarget = NoTask /\ EmptySlot.ipcWaiting = FALSE
        BY DEF EmptySlot
    <2> HIDE DEF y
    <2>3. "Ready" \in States
        BY DEF States
    <2>4. y \in Task
        BY <1>2, <2>1, <2>3 DEF Task
    <2>5. y.id = id /\ y.parent = parent /\ y.state = "Ready" /\ y.resources = TRUE
        BY <1>2, <2>1 DEF Task
    <2>6. y.waitTarget = NoTask
        BY <1>2, <2>1, <2>2 DEF Task
    <2>7. y.ipcWaiting = FALSE
        BY <1>2, <2>1, <2>2 DEF Task
    <2>8. QED
        BY <2>4, <2>5, <2>6, <2>7 DEF y
<1>4. QED
    BY <1>2, <1>3

-----------------------------------------------------------------------------
(* Waking a receiver: a message, a cancellation or a deadline.             *)

\* The endpoints c are those of b but for that of t, which is still open or
\* still closed.
OtherwiseSame(b, c, t) ==
    /\ c \in [Tasks -> Endpoint]
    /\ \A u \in Tasks : u # t => c[u] = b[u]
    /\ \A u \in Tasks : c[u].open = b[u].open

LEMMA WakeSlot ==
    ASSUME NEW s, NEW p, NEW b, NEW n, NEW m, Core(s, p, b, n), ~ MixedWaits => Waits(p, b, m),
           NEW i \in Slots, p[i].state = "Blocked", p[i].ipcWaiting,
           WakeTaskOk(s, p[i].id), NEW why \in Reasons,
           NEW c, OtherwiseSame(b, c, p[i].id), ~ c[p[i].id].waiting,
           c[p[i].id].count > 0 \/ why \in {"Timeout", "Cancelled"}
    PROVE  LET r == WakeTask(s, p[i].id)
               q == [p EXCEPT ![i] = Woken(p[i], why)]
           IN  /\ Core(r, q, c, n) /\ (~ MixedWaits => Waits(q, c, m))
               /\ r.ticks = s.ticks /\ r.current = s.current
<1> DEFINE t == p[i].id
           x == Woken(p[i], why)
           r == WakeTask(s, t)
<1>1. Good(s) /\ p \in [Slots -> Task] /\ Ident(p, n) /\ Agree(s, p) /\ Owned(p, b)
      /\ p[i] \in Task /\ t \in Tasks
    BY CoreTypes DEF Ident
<1>2. Place(s, t) = "Blocked"
    BY <1>1 DEF Agree, Shown
<1>3. Good(r) /\ Moved(s, r, t, "Ready") /\ r.ticks = s.ticks /\ r.current = s.current
    BY <1>1, <1>2, WakePlace
<1>4. /\ x \in Task /\ x.id = t /\ x.parent = p[i].parent /\ x.state = "Ready"
      /\ x.resources = p[i].resources /\ x.waitTarget = p[i].waitTarget
      /\ x.ipcWaiting = FALSE /\ x.reason = why /\ x.context = p[i].context
    BY <1>1, WokenFacts
<1> HIDE DEF x, r
<1>5. Self(p[i], x) /\ Alive(x) /\ x.resources /\ Shown(x.state) = "Ready"
    BY <1>1, <1>4 DEF Self, Alive, Owned, Shown
<1>6. c \in [Tasks -> Endpoint] /\ \A u \in Tasks : c[u].open = b[u].open
    BY DEF OtherwiseSame
<1>7. Core(r, [p EXCEPT ![i] = x], c, n)
    <2>1. Moved(s, r, p[i].id, Shown(x.state))
        BY <1>3, <1>5
    <2>2. QED
        BY <1>3, <1>4, <1>5, <1>6, <2>1, CoreMoveOne
<1>8. ASSUME ~ MixedWaits
      PROVE  Waits([p EXCEPT ![i] = x], c, m)
    <2>1. WaitOk(p, p[i], b[t], m)
        BY <1>8 DEF Waits
    <2>2. Listening(p, p[i], b[t])
        BY <2>1 DEF WaitOk
    <2>3. WaitOk(p, x, c[t], m)
        BY <1>4, <2>2 DEF WaitOk, Listening, Idle
    <2>4. \A u \in Tasks : u # t => c[u] = b[u]
        BY DEF OtherwiseSame
    <2>5. QED
        BY <1>1, <1>4, <1>5, <1>8, <2>3, <2>4, WaitsOne
<1>9. QED
    BY <1>3, <1>7, <1>8 DEF x, r

-----------------------------------------------------------------------------
(* Steps that change the entry of one task.                                *)

LEMMA KInvFacts ==
    ASSUME KInv
    PROVE  /\ Core(sched, slots, boxes, nextId) /\ Good(sched)
           /\ slots \in [Slots -> Task] /\ boxes \in [Tasks -> Endpoint] /\ nextId \in Nat
           /\ Ident(slots, nextId) /\ Agree(sched, slots) /\ Owned(slots, boxes)
           /\ \A i \in Slots : slots[i] \in Task
           /\ \A t \in Tasks : boxes[t] \in Endpoint
           /\ mode \in {"kernel", "starting", "user"} /\ preempting \in BOOLEAN
           /\ ~ MixedWaits => Waits(slots, boxes, mode)
           /\ ~ MixedWaits => \A i \in Slots : Pending(slots[i], sched.ticks)
           /\ Clock = sched.ticks /\ Clock \in Nat
<1>1. Core(sched, slots, boxes, nextId)
    BY DEF KInv
<1>2. Good(sched)
    BY <1>1, CoreTypes
<1>3. QED
    BY <1>1, <1>2, CoreTypes, GoodTypes DEF KInv, Calm, Clock

LEMMA PendingOne ==
    ASSUME NEW p \in [Slots -> Task], NEW i \in Slots, NEW x, NEW now,
           \A j \in Slots : Pending(p[j], now), Pending(x, now)
    PROVE  \A j \in Slots : Pending([p EXCEPT ![i] = x][j], now)
<1>1. ASSUME NEW j \in Slots
      PROVE  Pending([p EXCEPT ![i] = x][j], now)
    <2>1. CASE j = i
        BY <2>1
    <2>2. CASE j # i
        BY <2>2
    <2>3. QED
        BY <2>1, <2>2
<1>2. QED
    BY <1>1

LEMMA StepOne ==
    ASSUME KInv, NEW i \in Slots, NEW x \in Task, Self(slots[i], x),
           x.resources = slots[i].resources, Alive(x) => x.resources,
           Alive(slots[i]) => Alive(x),
           slots' = [slots EXCEPT ![i] = x],
           Good(sched'), Moved(sched, sched', slots[i].id, Shown(x.state)),
           sched'.ticks = sched.ticks,
           OtherwiseSame(boxes, boxes', slots[i].id),
           nextId' = nextId, mode' \in {"kernel", "starting", "user"}, preempting' \in BOOLEAN,
           ~ MixedWaits => Waits(slots, boxes, mode'),
           ~ MixedWaits => WaitOk(slots, x, boxes'[slots[i].id], mode'),
           ~ MixedWaits => Pending(x, sched.ticks)
    PROVE  KInv'
<1>1. /\ Core(sched, slots, boxes, nextId) /\ slots \in [Slots -> Task]
      /\ Ident(slots, nextId)
      /\ ~ MixedWaits => \A j \in Slots : Pending(slots[j], sched.ticks)
    BY KInvFacts
<1>2. /\ boxes' \in [Tasks -> Endpoint]
      /\ \A u \in Tasks : u # slots[i].id => boxes'[u] = boxes[u]
      /\ \A u \in Tasks : boxes'[u].open = boxes[u].open
    BY DEF OtherwiseSame
<1> DEFINE s1 == sched'
           q1 == [slots EXCEPT ![i] = x]
           b1 == boxes'
           m1 == mode'
<1> HIDE DEF s1, q1, b1, m1
<1>3. Core(s1, q1, b1, nextId)
    <2>1. Good(s1) /\ Moved(sched, s1, slots[i].id, Shown(x.state))
        BY DEF s1
    <2>2. b1 \in [Tasks -> Endpoint] /\ \A u \in Tasks : b1[u].open = boxes[u].open
        BY <1>2 DEF b1
    <2>3. QED
        BY <1>1, <2>1, <2>2, CoreMoveOne DEF q1
<1>4. ASSUME ~ MixedWaits
      PROVE  Waits(q1, b1, m1)
    <2>1. \A u \in Tasks : u # slots[i].id => b1[u] = boxes[u]
        BY <1>2 DEF b1
    <2>2. Waits(slots, boxes, m1) /\ WaitOk(slots, x, b1[slots[i].id], m1)
        BY <1>4 DEF b1, m1
    <2>3. QED
        BY <1>1, <2>1, <2>2, WaitsOne DEF q1
<1>5. ASSUME ~ MixedWaits
      PROVE  \A j \in Slots : Pending(q1[j], sched.ticks)
    <2>1. (\A j \in Slots : Pending(slots[j], sched.ticks)) /\ Pending(x, sched.ticks)
        BY <1>1, <1>5
    <2>2. QED
        BY <1>1, <2>1, PendingOne DEF q1
<1>6. Core(sched', slots', boxes', nextId')
    BY <1>3 DEF s1, q1, b1
<1>7. ~ MixedWaits => Calm(sched', slots', boxes', mode')
    BY <1>4, <1>5 DEF Calm, q1, b1, m1
<1>8. QED
    BY <1>6, <1>7 DEF KInv

\* A step that moves nobody in the scheduler.
LEMMA StaysPut ==
    ASSUME KInv, NEW i \in Slots, slots[i].state # "Empty"
    PROVE  Moved(sched, sched, slots[i].id, Shown(slots[i].state))
    BY KInvFacts DEF Agree, Moved

\* Waking the receiver in slot i, as a step.
LEMMA WakeStep ==
    ASSUME KInv, NEW i \in Slots, slots[i].state = "Blocked", slots[i].ipcWaiting,
           WakeTaskOk(sched, slots[i].id), NEW why \in Reasons,
           sched' = WakeTask(sched, slots[i].id),
           slots' = [slots EXCEPT ![i] = Woken(slots[i], why)],
           OtherwiseSame(boxes, boxes', slots[i].id), ~ boxes'[slots[i].id].waiting,
           boxes'[slots[i].id].count > 0 \/ why \in {"Timeout", "Cancelled"},
           UNCHANGED <<mode, preempting, nextId>>
    PROVE  KInv'
<1> DEFINE c == boxes'
           r == WakeTask(sched, slots[i].id)
           q == [slots EXCEPT ![i] = Woken(slots[i], why)]
<1>1. /\ Core(sched, slots, boxes, nextId) /\ slots \in [Slots -> Task]
      /\ ~ MixedWaits => Waits(slots, boxes, mode)
      /\ ~ MixedWaits => \A j \in Slots : Pending(slots[j], sched.ticks)
      /\ mode \in {"kernel", "starting", "user"} /\ preempting \in BOOLEAN
    BY KInvFacts
<1>2. /\ OtherwiseSame(boxes, c, slots[i].id) /\ ~ c[slots[i].id].waiting
      /\ c[slots[i].id].count > 0 \/ why \in {"Timeout", "Cancelled"}
    OBVIOUS
<1> HIDE DEF c
<1>3. /\ Core(r, q, c, nextId) /\ (~ MixedWaits => Waits(q, c, mode))
      /\ r.ticks = sched.ticks /\ r.current = sched.current
    BY <1>1, <1>2, WakeSlot
<1>4. ASSUME ~ MixedWaits
      PROVE  \A j \in Slots : Pending(q[j], sched.ticks)
    <2>1. slots[i] \in Task
        BY <1>1
    <2>2. Woken(slots[i], why).state = "Ready"
        BY <2>1, WokenFacts
    <2>3. Pending(Woken(slots[i], why), sched.ticks)
        BY <2>2 DEF Pending
    <2>4. QED
        BY <1>1, <1>4, <2>3, PendingOne
<1>5. Core(sched', slots', boxes', nextId')
    BY <1>3 DEF c
<1>6. ~ MixedWaits => Calm(sched', slots', boxes', mode')
    BY <1>3, <1>4 DEF Calm, c
<1>7. QED
    BY <1>1, <1>5, <1>6 DEF KInv

LEMMA EndpointTypes ==
    ASSUME NEW e \in Endpoint
    PROVE  e.open \in BOOLEAN /\ e.waiting \in BOOLEAN /\ e.count \in 0 .. QueueDepth
    BY DEF Endpoint

\* A change of one endpoint.
LEMMA BoxOne ==
    ASSUME KInv, NEW t \in Tasks, NEW e \in Endpoint, e.open = boxes[t].open,
           NEW c, c = [boxes EXCEPT ![t] = e]
    PROVE  OtherwiseSame(boxes, c, t) /\ c[t] = e
<1>1. boxes \in [Tasks -> Endpoint]
    BY KInvFacts
<1>2. QED
    BY <1>1 DEF OtherwiseSame

\* A message: its receiver is woken whenever it waits, because the run queue
\* has room for it.
LEMMA DeliverKInv ==
    ASSUME KInv, NEW sender \in Tasks, NEW r \in Tasks, Deliver(sender, r),
           UNCHANGED <<mode, preempting, nextId>>
    PROVE  KInv'
<1> DEFINE wakes  == boxes[r].waiting /\ CanWake(r)
           failed == boxes[r].waiting /\ ~ CanWake(r)
           e == [boxes[r] EXCEPT !.count = @ + 1, !.waiting = failed]
<1>1. /\ boxes[r].open /\ boxes[r].count < QueueDepth
      /\ boxes' = [boxes EXCEPT ![r].count = @ + 1, ![r].waiting = failed]
      /\ sched' = IF wakes THEN WakeTask(sched, r) ELSE sched
      /\ slots' = IF wakes THEN [slots EXCEPT ![Find(r)] = Woken(@, "Message")] ELSE slots
    BY DEF Deliver, HasRoom
<1>2. /\ boxes[r] \in Endpoint /\ boxes \in [Tasks -> Endpoint] /\ QueueDepth \in Nat
      /\ Ident(slots, nextId) /\ Owned(slots, boxes) /\ Good(sched) /\ Agree(sched, slots)
      /\ slots \in [Slots -> Task]
      /\ mode \in {"kernel", "starting", "user"} /\ preempting \in BOOLEAN
      /\ ~ MixedWaits => Waits(slots, boxes, mode)
      /\ ~ MixedWaits => \A j \in Slots : Pending(slots[j], sched.ticks)
    BY KInvFacts, KernelAssumption
<1>3. boxes[r].count \in Nat /\ boxes[r].count + 1 \in 0 .. QueueDepth
    BY <1>1, <1>2, EndpointTypes
<1>4. failed \in BOOLEAN
    OBVIOUS
<1> HIDE DEF failed, wakes
<1>5. /\ e \in Endpoint /\ e.open = boxes[r].open /\ e.waiting = failed
      /\ e.count = boxes[r].count + 1 /\ e.count > 0
    <2> DEFINE k == boxes[r].count + 1
    <2>1. k \in 0 .. QueueDepth /\ k > 0
        BY <1>3
    <2>2. e = [boxes[r] EXCEPT !.count = k, !.waiting = failed]
        BY <1>2 DEF Endpoint
    <2> HIDE DEF k, e
    <2>3. e \in Endpoint
        BY <1>2, <1>4, <2>1, <2>2 DEF Endpoint
    <2>4. e.open = boxes[r].open /\ e.count = k
        BY <1>2, <2>2 DEF Endpoint
    <2>5. e.waiting = failed
        BY <1>2, <2>2 DEF Endpoint
    <2>6. QED
        BY <2>1, <2>3, <2>4, <2>5 DEF k
<1>6. boxes' = [boxes EXCEPT ![r] = e]
    BY <1>1, <1>2 DEF Endpoint
<1> HIDE DEF e
<1>7. OtherwiseSame(boxes, boxes', r) /\ boxes'[r] = e
    BY <1>5, <1>6, BoxOne
<1>8. PICK i \in Slots : slots[i].state # "Empty" /\ slots[i].id = r
    BY <1>1, <1>2 DEF Owned
<1>9. Find(r) = i /\ TaskOf(r) = slots[i] /\ Exists(r) /\ slots[i] \in Task
    BY <1>2, <1>8, FindIs
<1>10. CASE wakes
    <2>1. boxes[r].waiting /\ CanWake(r) /\ ~ failed
        BY <1>10 DEF wakes, failed
    <2>2. slots[i].state = "Blocked" /\ slots[i].ipcWaiting /\ WakeTaskOk(sched, r)
        BY <1>9, <2>1 DEF CanWake
    <2>3. /\ sched' = WakeTask(sched, slots[i].id)
          /\ slots' = [slots EXCEPT ![i] = Woken(slots[i], "Message")]
        BY <1>1, <1>8, <1>9, <1>10
    <2>4. "Message" \in Reasons
        BY DEF Reasons
    <2>5. ~ boxes'[r].waiting /\ boxes'[r].count > 0
        BY <1>5, <1>7, <2>1
    <2>6. QED
        BY <1>7, <1>8, <2>2, <2>3, <2>4, <2>5, WakeStep
<1>11. CASE ~ wakes
    <2>1. sched' = sched /\ slots' = slots /\ failed = boxes[r].waiting
        BY <1>1, <1>2, <1>11, EndpointTypes DEF wakes, failed
    <2>2. slots' = [slots EXCEPT ![i] = slots[i]]
        BY <1>2, <2>1
    <2>3. ASSUME ~ MixedWaits
          PROVE  WaitOk(slots, slots[i], boxes'[r], mode)
        <3>1. WaitOk(slots, slots[i], boxes[r], mode)
            BY <1>2, <1>8, <2>3 DEF Waits
        <3>2. ~ (slots[i].state = "Blocked" /\ slots[i].ipcWaiting)
            <4> SUFFICES ASSUME slots[i].state = "Blocked", slots[i].ipcWaiting PROVE FALSE
                OBVIOUS
            <4>1. boxes[r].waiting
                BY <3>1 DEF WaitOk, Listening
            <4>2. Len(sched.queue) < QueueCapacity
                BY <1>2, RoomInQueue
            <4>3. Place(sched, r) = "Blocked"
                BY <1>2, <1>8 DEF Agree, Shown
            <4>4. WakeTaskOk(sched, r)
                BY <1>2, <4>2, <4>3, WakePlace
            <4>5. QED
                BY <1>9, <1>11, <4>1, <4>4 DEF wakes, CanWake
        <3>3. boxes'[r].waiting = boxes[r].waiting /\ boxes'[r].count > 0
            BY <1>5, <1>7, <2>1
        <3>4. QED
            BY <3>1, <3>2, <3>3 DEF WaitOk, Idle, Attending
    <2>4. Moved(sched, sched', r, Shown(slots[i].state)) /\ Good(sched')
        BY <1>2, <1>8, <2>1, StaysPut
    <2>5. Self(slots[i], slots[i]) /\ (Alive(slots[i]) => slots[i].resources)
        BY <1>2, <1>8 DEF Self, Owned
    <2>6. QED
        BY <1>2, <1>7, <1>8, <1>9, <2>1, <2>2, <2>3, <2>4, <2>5, StepOne
<1>12. QED
    BY <1>10, <1>11

\* An endpoint is no longer marked as waiting.
LEMMA UnmarkBox ==
    ASSUME NEW b \in [Tasks -> Endpoint], NEW t \in Tasks,
           NEW c, c = [b EXCEPT ![t].waiting = FALSE]
    PROVE  OtherwiseSame(b, c, t) /\ ~ c[t].waiting
<1> DEFINE e == [b[t] EXCEPT !.waiting = FALSE]
<1>1. b[t] \in Endpoint
    OBVIOUS
<1>2. c = [b EXCEPT ![t] = e]
    BY <1>1
<1>3. e \in Endpoint
    BY <1>1 DEF Endpoint
<1>4. e.open = b[t].open
    BY <1>1 DEF Endpoint
<1>5. ~ e.waiting
    BY <1>1 DEF Endpoint
<1> HIDE DEF e
<1>6. c \in [Tasks -> Endpoint] /\ c[t] = e /\ \A u \in Tasks : u # t => c[u] = b[u]
    BY <1>2, <1>3
<1>7. QED
    BY <1>4, <1>5, <1>6 DEF OtherwiseSame

LEMMA CancelKInv ==
    ASSUME KInv, NEW t \in Tasks, Cancel(t), UNCHANGED <<mode, preempting, nextId>>
    PROVE  KInv'
<1> DEFINE i == Find(t)
<1>1. /\ CanWake(t) /\ sched' = WakeTask(sched, t)
      /\ slots' = [slots EXCEPT ![Find(t)] = Woken(@, "Cancelled")]
      /\ boxes' = [boxes EXCEPT ![t].waiting = FALSE]
    BY DEF Cancel
<1>2. boxes \in [Tasks -> Endpoint] /\ Ident(slots, nextId)
    BY KInvFacts
<1>3. OtherwiseSame(boxes, boxes', t) /\ ~ boxes'[t].waiting
    <2> DEFINE c == boxes'
    <2>1. c = [boxes EXCEPT ![t].waiting = FALSE]
        BY <1>1
    <2> HIDE DEF c
    <2>2. OtherwiseSame(boxes, c, t) /\ ~ c[t].waiting
        BY <1>2, <2>1, UnmarkBox
    <2>3. QED
        BY <2>2 DEF c
<1>4. i \in Slots /\ slots[i].id = t /\ slots[i] = TaskOf(t)
    BY <1>1, <1>2, FindExists DEF CanWake
<1>5. slots[i].state = "Blocked" /\ slots[i].ipcWaiting /\ WakeTaskOk(sched, t)
    BY <1>1, <1>4 DEF CanWake
<1>6. slots' = [slots EXCEPT ![i] = Woken(slots[i], "Cancelled")] /\ "Cancelled" \in Reasons
    BY <1>1 DEF Reasons
<1> HIDE DEF i
<1>7. QED
    BY <1>1, <1>3, <1>4, <1>5, <1>6, WakeStep

-----------------------------------------------------------------------------
(* Who has the CPU.                                                        *)

\* The clauses about a restarted receive are of user mode only.
LEMMA WaitsMode ==
    ASSUME NEW p, NEW b, NEW m, NEW l, Waits(p, b, m), l = "kernel" \/ m # "kernel"
    PROVE  Waits(p, b, l)
<1>1. ASSUME NEW x, NEW e, WaitOk(p, x, e, m)
      PROVE  WaitOk(p, x, e, l)
    BY <1>1 DEF WaitOk
<1>2. QED
    BY <1>1 DEF Waits

LEMMA ModeStep ==
    ASSUME KInv, UNCHANGED <<sched, slots, boxes, preempting, nextId>>,
           mode' \in {"kernel", "starting", "user"}, mode' = "kernel" \/ mode # "kernel"
    PROVE  KInv'
<1>1. ~ MixedWaits => Waits(slots, boxes, mode')
    BY KInvFacts, WaitsMode
<1>2. Core(sched', slots', boxes', nextId')
    BY KInvFacts
<1>3. ~ MixedWaits => Calm(sched', slots', boxes', mode')
    BY <1>1, KInvFacts DEF Calm
<1>4. QED
    BY <1>2, <1>3, KInvFacts DEF KInv

LEMMA EnterUserKInv ==
    ASSUME KInv, EnterUser
    PROVE  KInv'
    BY ModeStep DEF EnterUser

LEMMA UserExitKInv ==
    ASSUME KInv, UserExit
    PROVE  KInv'
    BY ModeStep DEF UserExit

\* The entries that no step has an opinion about.
LEMMA SameBoxes ==
    ASSUME KInv, NEW t
    PROVE  OtherwiseSame(boxes, boxes, t)
    BY KInvFacts DEF OtherwiseSame

LEMMA MarkRunningKInv ==
    ASSUME KInv, NEW t \in Tasks, NEW preempt \in BOOLEAN, MarkRunning(t, preempt)
    PROVE  KInv'
<1> DEFINE i == Find(t)
           x == [slots[i] EXCEPT !.state = "Running", !.context = InProgram]
<1>1. /\ mode = "kernel" /\ Exists(t) /\ TaskOf(t).state = "Ready" /\ sched.current = NoTask
      /\ \A j \in Slots : slots[j].state \in {"Empty", "Exited"} \/ slots[j].context = NotYetRun
      /\ slots' = [slots EXCEPT ![Find(t)].state = "Running",
                                ![Find(t)].context = InProgram]
      /\ sched' = BeginTask(sched, t) /\ preempting' = preempt /\ mode' = "starting"
      /\ boxes' = boxes /\ nextId' = nextId
    BY DEF MarkRunning
<1>2. /\ Good(sched) /\ slots \in [Slots -> Task] /\ Ident(slots, nextId)
      /\ Owned(slots, boxes)
      /\ ~ MixedWaits => Waits(slots, boxes, mode)
    BY KInvFacts
<1>3. i \in Slots /\ slots[i].id = t /\ slots[i] = TaskOf(t) /\ slots[i] \in Task
    BY <1>1, <1>2, FindExists
<1>4. slots' = [slots EXCEPT ![i] = x]
    BY <1>1, <1>2, <1>3 DEF Task
<1> HIDE DEF i
<1>5. InProgram \in Contexts /\ InProgram.at = "program" /\ "Running" \in States
    BY DEF InProgram, Contexts, States
<1>6. x \in Task
    BY <1>3, <1>5 DEF Task
<1>7. /\ x.id = slots[i].id /\ x.parent = slots[i].parent /\ x.state = "Running"
      /\ x.resources = slots[i].resources /\ x.waitTarget = slots[i].waitTarget
      /\ x.context.at = "program"
    BY <1>3, <1>5 DEF Task
<1>8. x.ipcWaiting = slots[i].ipcWaiting
    BY <1>3 DEF Task
<1> HIDE DEF x
<1>9. slots[i].resources
    BY <1>1, <1>2, <1>3 DEF Owned, Alive
<1>10. ASSUME ~ MixedWaits
       PROVE  Waits(slots, boxes, mode')
    <2>1. NotYetRun.at = "entry"
        BY DEF NotYetRun
    <2>2. ASSUME NEW j \in Slots, slots[j].state # "Empty"
          PROVE  WaitOk(slots, slots[j], boxes[slots[j].id], mode')
        <3>1. WaitOk(slots, slots[j], boxes[slots[j].id], mode)
            BY <1>2, <1>10, <2>2 DEF Waits
        <3>2. Alive(slots[j]) => slots[j].context.at # "receive"
            BY <1>1, <2>1 DEF Alive
        <3>3. QED
            BY <3>1, <3>2 DEF WaitOk, Alive
    <2>3. QED
        BY <2>2 DEF Waits
<1>11. ASSUME ~ MixedWaits
       PROVE  WaitOk(slots, x, boxes'[slots[i].id], mode')
    <2>1. WaitOk(slots, slots[i], boxes[slots[i].id], mode)
        BY <1>1, <1>2, <1>3, <1>11 DEF Waits
    <2>2. Idle(slots[i], boxes[slots[i].id])
        BY <1>1, <1>3, <2>1 DEF WaitOk
    <2>3. QED
        BY <1>1, <1>7, <1>8, <2>2 DEF WaitOk, Idle
<1>12. /\ Good(sched') /\ Moved(sched, sched', slots[i].id, Shown(x.state))
       /\ sched'.ticks = sched.ticks
    BY <1>1, <1>2, <1>3, <1>7, BeginPlace DEF Shown
<1>13. /\ Self(slots[i], x) /\ x.resources = slots[i].resources /\ Alive(x) /\ x.resources
       /\ Pending(x, sched.ticks)
    BY <1>1, <1>3, <1>7, <1>9 DEF Self, Alive, Pending
<1>14. OtherwiseSame(boxes, boxes', slots[i].id)
    BY <1>1, SameBoxes
<1>15. QED
    BY <1>1, <1>3, <1>4, <1>6, <1>10, <1>11, <1>12, <1>13, <1>14, StepOne

-----------------------------------------------------------------------------
(* Waiting for a child, and for a message on behalf of a task.             *)

LEMMA WaitForChildKInv ==
    ASSUME KInv, NEW p \in Tasks, NEW c \in Tasks \cup {NoTask}, WaitForChild(p, c)
    PROVE  KInv'
<1> DEFINE i == Find(p)
<1>1. /\ mode = "kernel" /\ Live(p) /\ (MixedWaits \/ ~ TaskOf(p).ipcWaiting)
      /\ sched' = BlockTask(sched, p)
      /\ mode' = mode /\ boxes' = boxes /\ preempting' = preempting /\ nextId' = nextId
    BY DEF WaitForChild
<1>2. PICK k \in Slots :
         /\ FindsChild(k, p, c) /\ slots[k].state # "Exited" /\ BlockTaskOk(sched, p)
         /\ slots' = [slots EXCEPT ![Find(p)].state = "Blocked",
                                   ![Find(p)].waitTarget = slots[k].id]
    BY DEF WaitForChild
<1>3. /\ Good(sched) /\ slots \in [Slots -> Task] /\ Ident(slots, nextId)
      /\ Owned(slots, boxes) /\ mode \in {"kernel", "starting", "user"} /\ preempting \in BOOLEAN
      /\ slots[k] \in Task
      /\ ~ MixedWaits => Waits(slots, boxes, mode)
    BY KInvFacts
<1>4. /\ i \in Slots /\ slots[i].id = p /\ slots[i] = TaskOf(p) /\ slots[i] \in Task
      /\ slots[i].state # "Empty" /\ slots[i].state # "Exited"
    BY <1>1, <1>3, FindExists DEF Live
<1>5. slots[k].state # "Empty" /\ slots[k].parent = p /\ slots[k].id \in Tasks
    BY <1>2, <1>3 DEF FindsChild, IsChild, Ident
<1>6. Alive(slots[i]) /\ Alive(slots[k])
    BY <1>2, <1>3, <1>4, <1>5, TaskTypes DEF Alive, States
<1> DEFINE x == [slots[i] EXCEPT !.state = "Blocked", !.waitTarget = slots[k].id]
<1>7. slots' = [slots EXCEPT ![i] = x]
    BY <1>2, <1>3, <1>4 DEF Task
<1> HIDE DEF i
<1>8. x \in Task
    BY <1>4, <1>5 DEF Task, States
<1>9. /\ x.id = slots[i].id /\ x.parent = slots[i].parent /\ x.state = "Blocked"
      /\ x.resources = slots[i].resources /\ x.waitTarget = slots[k].id
      /\ x.ipcWaiting = slots[i].ipcWaiting
    BY <1>4, <1>5 DEF Task
<1> HIDE DEF x
<1>10. ASSUME ~ MixedWaits
       PROVE  WaitOk(slots, x, boxes'[slots[i].id], mode') /\ ~ x.ipcWaiting
    <2>1. WaitOk(slots, slots[i], boxes[slots[i].id], mode)
        BY <1>3, <1>4, <1>10 DEF Waits
    <2>2. ~ slots[i].ipcWaiting
        BY <1>1, <1>4, <1>10
    <2>3. ~ boxes[slots[i].id].waiting
        BY <1>6, <2>1, <2>2 DEF WaitOk, Alive, Idle, Attending
    <2>4. Awaits(slots, x)
        BY <1>4, <1>5, <1>6, <1>9 DEF Awaits
    <2>5. QED
        BY <1>1, <1>9, <2>2, <2>3, <2>4 DEF WaitOk, Attending
<1>11. /\ Good(sched') /\ Moved(sched, sched', slots[i].id, Shown(x.state))
       /\ sched'.ticks = sched.ticks
    BY <1>1, <1>2, <1>3, <1>4, <1>9, BlockPlace DEF Shown
<1>12. Self(slots[i], x) /\ Alive(x) /\ x.resources
    BY <1>3, <1>4, <1>6, <1>9 DEF Self, Alive, Owned
<1>13. ~ MixedWaits => Pending(x, sched.ticks)
    BY <1>10 DEF Pending
<1>14. OtherwiseSame(boxes, boxes', slots[i].id)
    BY <1>1, SameBoxes
<1>15. QED
    BY <1>1, <1>3, <1>4, <1>7, <1>8, <1>9, <1>10, <1>11, <1>12, <1>13, <1>14, StepOne

\* A message is taken from an endpoint.
LEMMA TakeBox ==
    ASSUME KInv, NEW t \in Tasks, boxes[t].count # 0
    PROVE  /\ OtherwiseSame(boxes, Take(t), t)
           /\ Take(t)[t].waiting = boxes[t].waiting
<1> DEFINE k == boxes[t].count - 1
           e == [boxes[t] EXCEPT !.count = k]
           c == Take(t)
<1>1. boxes \in [Tasks -> Endpoint] /\ boxes[t] \in Endpoint /\ QueueDepth \in Nat
    BY KInvFacts, KernelAssumption
<1>2. boxes[t].count \in 0 .. QueueDepth
    BY <1>1, EndpointTypes
<1>3. k \in 0 .. QueueDepth
    BY <1>1, <1>2
<1>4. c = [boxes EXCEPT ![t] = e]
    BY <1>1 DEF Take, Endpoint
<1> HIDE DEF k, c
<1>5. e \in Endpoint
    BY <1>1, <1>3 DEF Endpoint
<1>6. e.open = boxes[t].open
    BY <1>1 DEF Endpoint
<1>7. e.waiting = boxes[t].waiting
    BY <1>1 DEF Endpoint
<1> HIDE DEF e
<1>8. OtherwiseSame(boxes, c, t) /\ c[t] = e
    BY <1>4, <1>5, <1>6, BoxOne
<1>9. QED
    BY <1>7, <1>8 DEF c

\* An endpoint is marked as waiting.
LEMMA MarkBox ==
    ASSUME KInv, NEW t \in Tasks, NEW w \in BOOLEAN,
           NEW c, c = [boxes EXCEPT ![t].waiting = w]
    PROVE  /\ OtherwiseSame(boxes, c, t) /\ c[t].waiting = w
           /\ c[t].count = boxes[t].count
<1> DEFINE e == [boxes[t] EXCEPT !.waiting = w]
<1>1. boxes \in [Tasks -> Endpoint] /\ boxes[t] \in Endpoint
    BY KInvFacts
<1>2. c = [boxes EXCEPT ![t] = e]
    BY <1>1
<1>3. e \in Endpoint
    BY <1>1 DEF Endpoint
<1>4. e.open = boxes[t].open
    BY <1>1 DEF Endpoint
<1>5. e.waiting = w
    BY <1>1 DEF Endpoint
<1>6. e.count = boxes[t].count
    BY <1>1 DEF Endpoint
<1> HIDE DEF e
<1>7. OtherwiseSame(boxes, c, t) /\ c[t] = e
    BY <1>2, <1>3, <1>4, BoxOne
<1>8. QED
    BY <1>5, <1>6, <1>7

LEMMA KernelReceiveKInv ==
    ASSUME KInv, NEW t \in Tasks, KernelReceive(t)
    PROVE  KInv'
<1> DEFINE i == Find(t)
<1>1. /\ mode = "kernel" /\ Exists(t) /\ TaskOf(t).state = "Ready"
      /\ MayWaitForMessage(t)
      /\ mode' = mode /\ preempting' = preempting /\ nextId' = nextId
    BY DEF KernelReceive
<1>2. /\ Good(sched) /\ slots \in [Slots -> Task] /\ Ident(slots, nextId)
      /\ Owned(slots, boxes) /\ mode \in {"kernel", "starting", "user"} /\ preempting \in BOOLEAN
      /\ ~ MixedWaits => Waits(slots, boxes, mode)
      /\ ~ MixedWaits => \A j \in Slots : Pending(slots[j], sched.ticks)
    BY KInvFacts
<1>3. /\ i \in Slots /\ slots[i].id = t /\ slots[i] = TaskOf(t) /\ slots[i] \in Task
      /\ slots[i].state = "Ready"
    BY <1>1, <1>2, FindExists
<1>4. Alive(slots[i]) /\ slots[i].resources
    BY <1>2, <1>3 DEF Alive, Owned
<1>5. ~ MixedWaits => Idle(slots[i], boxes[t])
    BY <1>2, <1>3 DEF Waits, WaitOk
<1>6. CASE boxes[t].count > 0 /\ boxes' = Take(t) /\ UNCHANGED <<sched, slots>>
    <2> HIDE DEF i
    <2>1. boxes[t].count # 0
        BY <1>6
    <2>2. OtherwiseSame(boxes, boxes', t) /\ boxes'[t].waiting = boxes[t].waiting
        BY <1>6, <2>1, TakeBox
    <2>3. slots' = [slots EXCEPT ![i] = slots[i]]
        BY <1>2, <1>6
    <2>4. Self(slots[i], slots[i])
        BY <1>3 DEF Self
    <2>5. /\ Good(sched') /\ Moved(sched, sched', t, Shown(slots[i].state))
          /\ sched'.ticks = sched.ticks
        BY <1>2, <1>3, <1>6, StaysPut
    <2>6. ~ MixedWaits => WaitOk(slots, slots[i], boxes'[t], mode')
        BY <1>1, <1>3, <1>5, <2>2 DEF WaitOk, Idle
    <2>7. QED
        BY <1>1, <1>2, <1>3, <1>4, <2>2, <2>3, <2>4, <2>5, <2>6, StepOne
<1>7. CASE /\ boxes[t].count = 0 /\ BlockTaskOk(sched, t)
           /\ boxes' = [boxes EXCEPT ![t].waiting = TRUE]
           /\ sched' = BlockTask(sched, t)
           /\ slots' = [slots EXCEPT ![Find(t)].state = "Blocked",
                                     ![Find(t)].ipcWaiting = TRUE,
                                     ![Find(t)].deadline = 0,
                                     ![Find(t)].reason = "None"]
    <2> DEFINE x == [slots[i] EXCEPT !.state = "Blocked", !.ipcWaiting = TRUE,
                                     !.deadline = 0, !.reason = "None"]
    <2>1. slots' = [slots EXCEPT ![i] = x]
        BY <1>2, <1>3, <1>7 DEF Task
    <2> HIDE DEF i
    <2>2. x \in Task
        BY <1>3 DEF Task, States, Reasons
    <2>3. /\ x.id = slots[i].id /\ x.parent = slots[i].parent /\ x.state = "Blocked"
          /\ x.resources = slots[i].resources /\ x.waitTarget = slots[i].waitTarget
        BY <1>3 DEF Task
    <2>4. x.ipcWaiting /\ x.deadline = 0
        BY <1>3 DEF Task
    <2> HIDE DEF x
    <2>5. OtherwiseSame(boxes, boxes', t) /\ boxes'[t].waiting /\ boxes'[t].count = 0
        <3> DEFINE b1 == boxes'
        <3>1. b1 = [boxes EXCEPT ![t].waiting = TRUE]
            BY <1>7
        <3> HIDE DEF b1
        <3>2. OtherwiseSame(boxes, b1, t) /\ b1[t].waiting = TRUE /\ b1[t].count = boxes[t].count
            BY <3>1, MarkBox
        <3>3. QED
            BY <1>7, <3>2 DEF b1
    <2>6. ASSUME ~ MixedWaits
          PROVE  WaitOk(slots, x, boxes'[t], mode')
        <3>1. ~ Child(slots, t)
            BY <1>1, <2>6 DEF MayWaitForMessage, HasChildren, Child
        <3>2. Listening(slots, x, boxes'[t])
            BY <1>3, <1>5, <2>3, <2>5, <2>6, <3>1 DEF Listening, Idle
        <3>3. QED
            BY <1>1, <2>3, <2>4, <3>2 DEF WaitOk
    <2>7. /\ Good(sched') /\ Moved(sched, sched', t, Shown(x.state))
          /\ sched'.ticks = sched.ticks
        BY <1>2, <1>7, <2>3, BlockPlace DEF Shown
    <2>8. Self(slots[i], x) /\ Alive(x) /\ x.resources /\ Pending(x, sched.ticks)
        BY <1>3, <1>4, <2>3, <2>4 DEF Self, Alive, Pending
    <2>9. QED
        BY <1>1, <1>2, <1>3, <2>1, <2>2, <2>3, <2>5, <2>6, <2>7, <2>8, StepOne
<1>8. QED
    BY <1>6, <1>7 DEF KernelReceive

-----------------------------------------------------------------------------
(* One task gives the CPU to another.                                      *)

LEMMA IdentOne ==
    ASSUME NEW p \in [Slots -> Task], NEW n, Ident(p, n),
           NEW i \in Slots, NEW x, Self(p[i], x)
    PROVE  Ident([p EXCEPT ![i] = x], n)
<1> DEFINE q == [p EXCEPT ![i] = x]
<1>1. q[i] = x /\ \A j \in Slots : j # i => q[j] = p[j]
    OBVIOUS
<1> HIDE DEF q
<1>2. \A j \in Slots : /\ q[j].id = p[j].id /\ q[j].parent = p[j].parent
                       /\ q[j].state # "Empty" <=> p[j].state # "Empty"
    BY <1>1 DEF Self
<1>3. Ident(q, n)
    <2>1. ASSUME NEW j \in Slots, q[j].state # "Empty"
          PROVE  q[j].id \in Tasks /\ q[j].id < n /\ q[j].parent < q[j].id
        BY <1>2, <2>1 DEF Ident
    <2>2. ASSUME NEW j \in Slots, NEW k \in Slots,
                 q[j].state # "Empty", q[k].state # "Empty", q[j].id = q[k].id
          PROVE  j = k
        <3>1. p[j].state # "Empty" /\ p[k].state # "Empty" /\ p[j].id = p[k].id
            BY <1>2, <2>2
        <3>2. QED
            BY <3>1 DEF Ident
    <2>3. QED
        BY <2>1, <2>2 DEF Ident
<1>4. QED
    BY <1>3 DEF q

\* The scheduler went from s to r: the task in slot i is at the place w now
\* and the one in slot k is running.
Handover(s, r, p, i, k, w) ==
    /\ Good(r) /\ Place(r, p[i].id) = w /\ Place(r, p[k].id) = "Running"
    /\ \A t \in Tasks : t # p[i].id /\ t # p[k].id => Place(r, t) = Place(s, t)

\* The table went from p to q, where the task in slot i has the entry x.
Switched(p, q, i, x, k) ==
    /\ q \in [Slots -> Task] /\ q[i] = x /\ q[k] = Dispatched(p[k])
    /\ \A j \in Slots \ {i, k} : q[j] = p[j]

\* x is a living task, as y was.
StillAlive(y, x) == Self(y, x) /\ x.resources = y.resources /\ Alive(y) /\ Alive(x)

\* The task in slot i goes on as x, and the ready task in slot k runs.
LEMMA SwitchTo ==
    ASSUME NEW s, NEW p, NEW b, NEW n, NEW m, Core(s, p, b, n), NEW now,
           ~ MixedWaits => Waits(p, b, m),
           ~ MixedWaits => \A j \in Slots : Pending(p[j], now),
           NEW i \in Slots, NEW x \in Task, StillAlive(p[i], x),
           NEW k \in Slots, k # i, p[k].state = "Ready",
           NEW r, Handover(s, r, p, i, k, Shown(x.state)),
           NEW c, OtherwiseSame(b, c, p[i].id),
           ~ MixedWaits => WaitOk(p, x, c[p[i].id], m),
           ~ MixedWaits => Pending(x, now),
           NEW q, Switched(p, q, i, x, k)
    PROVE  /\ Core(r, q, c, n)
           /\ ~ MixedWaits => Waits(q, c, m)
           /\ ~ MixedWaits => \A j \in Slots : Pending(q[j], now)
<1> Self(p[i], x) /\ x.resources = p[i].resources /\ Alive(p[i]) /\ Alive(x)
    BY DEF StillAlive
<1> /\ Good(r) /\ Place(r, p[i].id) = Shown(x.state) /\ Place(r, p[k].id) = "Running"
    /\ \A t \in Tasks : t # p[i].id /\ t # p[k].id => Place(r, t) = Place(s, t)
    BY DEF Handover
<1> /\ q \in [Slots -> Task] /\ q[i] = x /\ q[k] = Dispatched(p[k])
    /\ \A j \in Slots \ {i, k} : q[j] = p[j]
    BY DEF Switched
<1> DEFINE y == Dispatched(p[k])
           o == [p EXCEPT ![i] = x]
<1>1. /\ p \in [Slots -> Task] /\ Ident(p, n) /\ Owned(p, b) /\ p[k] \in Task
      /\ \A j \in Slots : p[j] \in Task
    BY CoreTypes
<1>2. /\ y \in Task /\ y.id = p[k].id /\ y.parent = p[k].parent /\ y.state = "Running"
      /\ y.resources = p[k].resources /\ y.waitTarget = p[k].waitTarget
      /\ y.ipcWaiting = p[k].ipcWaiting /\ y.reason = p[k].reason
      /\ y.context.at = "receive" => p[k].context.at = "receive"
    BY <1>1, DispatchedFacts
<1>3. o \in [Slots -> Task] /\ o[k] = p[k] /\ q = [o EXCEPT ![k] = y]
    BY <1>1
<1> HIDE DEF y
<1>4. Self(p[k], y) /\ Alive(y) /\ y.resources /\ Shown(y.state) = "Running"
    BY <1>1, <1>2 DEF Self, Alive, Owned, Shown
<1>5. x.resources
    BY <1>1 DEF Owned
<1>6. /\ c \in [Tasks -> Endpoint] /\ \A t \in Tasks : c[t].open = b[t].open
      /\ \A t \in Tasks : t # p[i].id => c[t] = b[t]
    BY DEF OtherwiseSame
<1>7. Place(r, p[k].id) = Shown(y.state)
    BY <1>4
<1>8. Core(r, q, c, n)
    <2>1. q[k] = y
        BY DEF y
    <2>2. \A j \in {i, k} : /\ Self(p[j], q[j]) /\ q[j].resources = p[j].resources
                            /\ Alive(q[j]) => q[j].resources
        BY <1>2, <1>4, <1>5, <2>1
    <2>3. \A j \in {i, k} : Place(r, p[j].id) = Shown(q[j].state)
        BY <1>7, <2>1
    <2>4. \A t \in Tasks \ {p[i].id, p[k].id} : Place(r, t) = Place(s, t)
        OBVIOUS
    <2>5. c \in [Tasks -> Endpoint] /\ \A t \in Tasks : c[t].open = b[t].open
        BY <1>6
    <2>6. QED
        BY <2>1, <2>2, <2>3, <2>4, <2>5, CoreMoveTwo
<1>9. Ident(o, n)
    BY <1>1, IdentOne
<1>10. ASSUME ~ MixedWaits
       PROVE  Waits(q, c, m)
    <2>1. Waits(o, c, m)
        BY <1>1, <1>6, <1>10, WaitsOne
    <2> HIDE DEF o
    <2>2. WaitOk(o, p[k], c[p[k].id], m)
        BY <1>3, <2>1 DEF Waits
    <2>3. WaitOk(o, y, c[p[k].id], m)
        BY <1>2, <2>2 DEF WaitOk, Idle, Alive
    <2>4. Self(o[k], y) /\ o[k].id = p[k].id
        BY <1>3, <1>4
    <2>5. Waits([o EXCEPT ![k] = y], c, m)
        BY <1>2, <1>3, <1>4, <1>9, <2>1, <2>3, <2>4, WaitsOne
    <2>6. QED
        BY <1>3, <2>5
<1>11. ASSUME ~ MixedWaits
       PROVE  \A j \in Slots : Pending(q[j], now)
    <2>1. \A j \in Slots : Pending(o[j], now)
        BY <1>1, <1>11, PendingOne
    <2>2. Pending(y, now)
        BY <1>2 DEF Pending
    <2> HIDE DEF o
    <2>3. \A j \in Slots : Pending([o EXCEPT ![k] = y][j], now)
        BY <1>3, <2>1, <2>2, PendingOne
    <2>4. QED
        BY <1>3, <2>3
<1>12. QED
    BY <1>8, <1>10, <1>11

\* The scheduler's current task has a slot, and is running there.
LEMMA RunningSlot ==
    ASSUME KInv, NEW t \in Tasks, NEW w, Place(sched, t) = w, w # "Unknown"
    PROVE  \E i \in Slots : /\ slots[i].state = w /\ slots[i].state # "Empty"
                            /\ slots[i].id = t /\ Find(t) = i
                            /\ TaskOf(t) = slots[i] /\ Exists(t)
<1>1. Good(sched) /\ Ident(slots, nextId) /\ Agree(sched, slots)
    BY KInvFacts
<1>2. PICK i \in Slots : slots[i].state # "Empty" /\ slots[i].id = t
    BY <1>1 DEF Agree
<1>3. Shown(slots[i].state) = w
    BY <1>1, <1>2 DEF Agree
<1>4. slots[i].state = w
    BY <1>3 DEF Shown
<1>5. QED
    BY <1>1, <1>2, <1>4, FindIs

-----------------------------------------------------------------------------
(* The receive of the running task.                                        *)

\* It returns to the program.
LEMMA ReturnStep ==
    ASSUME KInv, NEW i \in Slots, slots[i].state = "Running",
           NEW y \in {Returned(slots[i]), Completed(slots[i]),
                      [Completed(slots[i]) EXCEPT !.deadline = 0]},
           slots' = [slots EXCEPT ![i] = y], sched' = sched,
           OtherwiseSame(boxes, boxes', slots[i].id),
           boxes[slots[i].id].waiting \/ ~ boxes'[slots[i].id].waiting,
           UNCHANGED <<mode, preempting, nextId>>
    PROVE  KInv'
<1>1. /\ Good(sched) /\ slots \in [Slots -> Task] /\ slots[i] \in Task /\ Owned(slots, boxes)
      /\ mode \in {"kernel", "starting", "user"} /\ preempting \in BOOLEAN
      /\ ~ MixedWaits => Waits(slots, boxes, mode)
    BY KInvFacts
<1>2. /\ y \in Task /\ y.id = slots[i].id /\ y.parent = slots[i].parent
      /\ y.state = slots[i].state /\ y.resources = slots[i].resources
      /\ y.waitTarget = slots[i].waitTarget /\ y.ipcWaiting = slots[i].ipcWaiting
      /\ y.context.at = "program"
    BY <1>1, ReturnedFacts
<1>3. /\ Good(sched') /\ Moved(sched, sched', slots[i].id, Shown(y.state))
      /\ sched'.ticks = sched.ticks
    BY <1>1, <1>2, StaysPut
<1>4. Self(slots[i], y) /\ Alive(y) /\ y.resources /\ Pending(y, sched.ticks)
    BY <1>1, <1>2 DEF Self, Alive, Owned, Pending
<1>5. ASSUME ~ MixedWaits
      PROVE  WaitOk(slots, y, boxes'[slots[i].id], mode)
    <2>1. WaitOk(slots, slots[i], boxes[slots[i].id], mode)
        BY <1>1, <1>5 DEF Waits
    <2>2. Idle(slots[i], boxes[slots[i].id])
        BY <2>1 DEF WaitOk
    <2>3. Idle(y, boxes'[slots[i].id])
        BY <1>2, <2>2 DEF Idle
    <2>4. QED
        BY <1>2, <2>3 DEF WaitOk
<1>6. /\ mode' \in {"kernel", "starting", "user"} /\ preempting' \in BOOLEAN
      /\ nextId' = nextId
      /\ ~ MixedWaits => Waits(slots, boxes, mode')
      /\ ~ MixedWaits => WaitOk(slots, y, boxes'[slots[i].id], mode')
    BY <1>1, <1>5
<1>7. y.resources = slots[i].resources /\ y \in Task
    BY <1>2
<1>8. QED
    BY <1>3, <1>4, <1>6, <1>7, StepOne

\* It blocks, and the next task runs.
LEMMA BlockStep ==
    ASSUME KInv, NEW t \in Tasks, t = sched.current,
           NEW timeout \in Timeouts \cup {NoTimeout}, NEW fits \in BOOLEAN, timeout # 0,
           boxes[t].count = 0, ~ MixedWaits => ~ Child(slots, t),
           BlockAndSwitch(t, timeout, fits), UNCHANGED <<mode, preempting, nextId>>
    PROVE  KInv'
<1> DEFINE next == NextTask(sched)
<1>1. /\ DispatchOk(sched, t)
      /\ boxes' = [boxes EXCEPT ![t].waiting = TRUE]
      /\ slots' = [slots EXCEPT ![Find(t)] = BlockedReceiver(@, timeout, fits),
                                ![Find(next)] = Dispatched(@)]
      /\ sched' = BlockCurrentAndDispatch(sched, t)
    BY DEF BlockAndSwitch, MayBlock
<1>2. /\ Core(sched, slots, boxes, nextId)
      /\ Good(sched) /\ slots \in [Slots -> Task] /\ Owned(slots, boxes) /\ Clock \in Nat
      /\ Clock = sched.ticks
      /\ mode \in {"kernel", "starting", "user"} /\ preempting \in BOOLEAN
      /\ \A j \in Slots : slots[j] \in Task
      /\ ~ MixedWaits => Waits(slots, boxes, mode)
      /\ ~ MixedWaits => \A j \in Slots : Pending(slots[j], sched.ticks)
    BY KInvFacts
<1> DEFINE r == BlockCurrentAndDispatch(sched, t)
<1>3. /\ next \in Tasks /\ next # t
      /\ Place(sched, t) = "Running" /\ Place(sched, next) = "Ready"
      /\ Good(r) /\ r.ticks = sched.ticks
      /\ Place(r, t) = "Blocked" /\ Place(r, next) = "Running"
      /\ \A u \in Tasks : u # t /\ u # next => Place(r, u) = Place(sched, u)
    BY <1>1, <1>2, DispatchPlace
<1> HIDE DEF next, r
<1>4. PICK i \in Slots : /\ slots[i].state = "Running" /\ slots[i].id = t /\ Find(t) = i
    BY <1>3, RunningSlot
<1>5. PICK k \in Slots : /\ slots[k].state = "Ready" /\ slots[k].id = next /\ Find(next) = k
    BY <1>3, RunningSlot
<1>6. k # i
    BY <1>4, <1>5
<1> DEFINE x == BlockedReceiver(slots[i], timeout, fits)
<1>7. /\ x \in Task /\ x.id = slots[i].id /\ x.parent = slots[i].parent /\ x.state = "Blocked"
      /\ x.resources = slots[i].resources /\ x.waitTarget = slots[i].waitTarget
      /\ x.ipcWaiting = TRUE
      /\ timeout # 0 /\ x.deadline # 0 => Clock < x.deadline
    BY <1>2, BlockedFacts
<1>8. slots' = [slots EXCEPT ![i] = x, ![k] = Dispatched(slots[k])]
    BY <1>1, <1>2, <1>4, <1>5, <1>6
<1> HIDE DEF x
<1>9. OtherwiseSame(boxes, boxes', t) /\ boxes'[t].waiting /\ boxes'[t].count = 0
    <2> DEFINE b1 == boxes'
    <2>1. b1 = [boxes EXCEPT ![t].waiting = TRUE]
        BY <1>1
    <2> HIDE DEF b1
    <2>2. OtherwiseSame(boxes, b1, t) /\ b1[t].waiting = TRUE /\ b1[t].count = boxes[t].count
        BY <2>1, MarkBox
    <2>3. QED
        BY <2>2 DEF b1
<1>10. ASSUME ~ MixedWaits
       PROVE  WaitOk(slots, x, boxes'[slots[i].id], mode)
    <2>1. WaitOk(slots, slots[i], boxes[t], mode)
        BY <1>2, <1>4, <1>10 DEF Waits
    <2>2. slots[i].waitTarget = NoTask
        BY <1>4, <2>1 DEF WaitOk, Idle
    <2>3. ~ Child(slots, x.id)
        BY <1>4, <1>7, <1>10
    <2>4. Listening(slots, x, boxes'[t])
        BY <1>7, <1>9, <2>2, <2>3 DEF Listening
    <2>5. QED
        BY <1>4, <1>7, <2>3, <2>4 DEF WaitOk
<1>11. Self(slots[i], x) /\ Alive(slots[i]) /\ Alive(x) /\ Shown(x.state) = "Blocked"
    BY <1>4, <1>7 DEF Self, Alive, Shown
<1>12. Pending(x, sched.ticks)
    BY <1>2, <1>7 DEF Pending
<1> DEFINE c == boxes'
<1>13. /\ OtherwiseSame(boxes, c, slots[i].id)
       /\ ~ MixedWaits => WaitOk(slots, x, c[slots[i].id], mode)
    BY <1>4, <1>9, <1>10
<1> HIDE DEF c
<1>14. /\ Place(r, slots[i].id) = Shown(x.state) /\ Place(r, slots[k].id) = "Running"
       /\ \A u \in Tasks : u # slots[i].id /\ u # slots[k].id => Place(r, u) = Place(sched, u)
    BY <1>3, <1>4, <1>5, <1>11
<1> DEFINE q == [slots EXCEPT ![i] = x, ![k] = Dispatched(slots[k])]
<1>15. /\ q \in [Slots -> Task] /\ q[i] = x /\ q[k] = Dispatched(slots[k])
       /\ \A j \in Slots \ {i, k} : q[j] = slots[j]
    <2>1. Dispatched(slots[k]) \in Task
        BY <1>2, DispatchedFacts
    <2>2. QED
        BY <1>2, <1>6, <1>7, <2>1
<1>16. slots' = q
    BY <1>8
<1> HIDE DEF q
<1>17. /\ Core(r, q, c, nextId)
       /\ ~ MixedWaits => Waits(q, c, mode)
       /\ ~ MixedWaits => \A j \in Slots : Pending(q[j], sched.ticks)
    <2>1. x \in Task /\ StillAlive(slots[i], x) /\ Switched(slots, q, i, x, k)
        BY <1>7, <1>11, <1>15 DEF StillAlive, Switched
    <2>2. Handover(sched, r, slots, i, k, Shown(x.state)) /\ slots[k].state = "Ready"
        BY <1>3, <1>5, <1>14 DEF Handover
    <2>3. /\ Core(sched, slots, boxes, nextId)
          /\ ~ MixedWaits => Waits(slots, boxes, mode)
          /\ ~ MixedWaits => \A j \in Slots : Pending(slots[j], sched.ticks)
        BY <1>2
    <2>4. QED
        BY <1>6, <1>12, <1>13, <2>1, <2>2, <2>3, SwitchTo
<1>18. Core(sched', slots', boxes', nextId')
    BY <1>1, <1>16, <1>17 DEF r, c
<1>19. ~ MixedWaits => Calm(sched', slots', boxes', mode')
    BY <1>1, <1>3, <1>16, <1>17 DEF r, c, Calm
<1>20. QED
    BY <1>2, <1>18, <1>19 DEF KInv

\* syscall_ipc_receive_common, from the program and restarted.
LEMMA ReceiveKInv ==
    ASSUME KInv, NEW t \in Tasks, t = sched.current,
           NEW timeout \in Timeouts \cup {NoTimeout}, NEW fits \in BOOLEAN,
           ~ MixedWaits => ~ Child(slots, t),
           Receive(t, timeout, fits), UNCHANGED <<mode, preempting, nextId>>
    PROVE  KInv'
<1>1. Good(sched) /\ slots \in [Slots -> Task] /\ boxes \in [Tasks -> Endpoint]
    BY KInvFacts
<1>2. Place(sched, t) = "Running"
    BY <1>1, PlaceIs
<1>3. PICK i \in Slots : slots[i].state = "Running" /\ slots[i].id = t /\ Find(t) = i
    BY <1>2, RunningSlot
<1> DEFINE ended == slots[i].reason \in {"Timeout", "Cancelled"}
           empty == boxes[t].count = 0
<1>4. CASE /\ slots' = [slots EXCEPT ![i] = Completed(@)] \/ slots' = [slots EXCEPT ![i] = Returned(@)]
           /\ UNCHANGED <<sched, boxes>>
    <2>1. OtherwiseSame(boxes, boxes', slots[i].id)
        BY <1>4, SameBoxes
    <2>2. boxes[slots[i].id].waiting \/ ~ boxes'[slots[i].id].waiting
        BY <1>4
    <2>3. PICK y \in {Returned(slots[i]), Completed(slots[i])} :
              slots' = [slots EXCEPT ![i] = y]
        BY <1>4
    <2>4. y \in {Returned(slots[i]), Completed(slots[i]),
                 [Completed(slots[i]) EXCEPT !.deadline = 0]}
        OBVIOUS
    <2>5. sched' = sched
        BY <1>4
    <2>6. QED
        BY <1>3, <2>1, <2>2, <2>3, <2>4, <2>5, ReturnStep
<1>5. CASE /\ ~ ended /\ ~ empty /\ fits
           /\ slots' = [slots EXCEPT ![i] = [Completed(@) EXCEPT !.deadline = 0]]
           /\ boxes' = Take(t) /\ sched' = sched
    <2>1. OtherwiseSame(boxes, boxes', t) /\ boxes'[t].waiting = boxes[t].waiting
        BY <1>5, TakeBox
    <2>2. /\ OtherwiseSame(boxes, boxes', slots[i].id)
          /\ boxes[slots[i].id].waiting \/ ~ boxes'[slots[i].id].waiting
        BY <1>3, <2>1
    <2> DEFINE y == [Completed(slots[i]) EXCEPT !.deadline = 0]
    <2>3. slots' = [slots EXCEPT ![i] = y]
        BY <1>5
    <2>4. y \in {Returned(slots[i]), Completed(slots[i]),
                 [Completed(slots[i]) EXCEPT !.deadline = 0]}
        OBVIOUS
    <2> HIDE DEF y
    <2>5. sched' = sched
        BY <1>5
    <2>6. QED
        BY <1>3, <2>2, <2>3, <2>4, <2>5, ReturnStep
<1>6. CASE ~ ended /\ empty /\ timeout # 0 /\ BlockAndSwitch(t, timeout, fits)
    BY <1>6, BlockStep
<1>7. CASE /\ slots' = [slots EXCEPT ![i] = Returned(@)]
           /\ boxes' = [boxes EXCEPT ![t].waiting = FALSE] /\ sched' = sched
    <2>1. OtherwiseSame(boxes, boxes', t) /\ ~ boxes'[t].waiting
        <3> DEFINE b1 == boxes'
        <3>1. b1 = [boxes EXCEPT ![t].waiting = FALSE]
            BY <1>7
        <3> HIDE DEF b1
        <3>2. OtherwiseSame(boxes, b1, t) /\ ~ b1[t].waiting
            BY <1>1, <3>1, UnmarkBox
        <3>3. QED
            BY <3>2 DEF b1
    <2>2. /\ OtherwiseSame(boxes, boxes', slots[i].id)
          /\ boxes[slots[i].id].waiting \/ ~ boxes'[slots[i].id].waiting
        BY <1>3, <2>1
    <2> DEFINE y == Returned(slots[i])
    <2>3. slots' = [slots EXCEPT ![i] = y]
        BY <1>7
    <2>4. y \in {Returned(slots[i]), Completed(slots[i]),
                 [Completed(slots[i]) EXCEPT !.deadline = 0]}
        OBVIOUS
    <2> HIDE DEF y
    <2>5. sched' = sched
        BY <1>7
    <2>6. QED
        BY <1>3, <2>2, <2>3, <2>4, <2>5, ReturnStep
<1>8. QED
    BY <1>3, <1>4, <1>5, <1>6, <1>7 DEF Receive

LEMMA SysReceiveKInv ==
    ASSUME KInv, NEW t \in Tasks, NEW timeout \in Timeouts \cup {NoTimeout},
           NEW fits \in BOOLEAN, SysReceive(t, timeout, fits)
    PROVE  KInv'
<1>1. t = sched.current /\ Receive(t, timeout, fits) /\ UNCHANGED <<mode, preempting, nextId>>
    BY DEF SysReceive, Executes
<1>2. ~ MixedWaits => ~ Child(slots, t)
    BY DEF SysReceive, MayWaitForMessage, HasChildren, Child
<1>3. QED
    BY <1>1, <1>2, ReceiveKInv

\* A task that restarts its receive got no child while it was blocked.
LEMMA SysRestartKInv ==
    ASSUME KInv, NEW t \in Tasks, SysRestart(t)
    PROVE  KInv'
<1> DEFINE timeout == TaskOf(t).context.timeout
           fits == TaskOf(t).context.fits
<1>1. /\ mode = "user" /\ t = sched.current /\ TaskOf(t).context.at = "receive"
      /\ Receive(t, timeout, fits) /\ UNCHANGED <<mode, preempting, nextId>>
    BY DEF SysRestart
<1>2. /\ Good(sched) /\ slots \in [Slots -> Task]
      /\ \A j \in Slots : slots[j] \in Task
      /\ ~ MixedWaits => Waits(slots, boxes, mode)
    BY KInvFacts
<1>3. Place(sched, t) = "Running"
    BY <1>1, <1>2, PlaceIs
<1>4. PICK i \in Slots : slots[i].state = "Running" /\ slots[i].id = t /\ TaskOf(t) = slots[i]
    BY <1>3, RunningSlot
<1>5. timeout \in Timeouts \cup {NoTimeout} /\ fits \in BOOLEAN
    BY <1>2, <1>4, TaskTypes
<1>6. ASSUME ~ MixedWaits
      PROVE  ~ Child(slots, t)
    <2>1. WaitOk(slots, slots[i], boxes[t], mode)
        BY <1>2, <1>4, <1>6 DEF Waits
    <2>2. QED
        BY <1>1, <1>4, <2>1 DEF WaitOk, Alive
<1> HIDE DEF timeout, fits
<1>7. QED
    BY <1>1, <1>5, <1>6, ReceiveKInv

-----------------------------------------------------------------------------
(* Slots that are taken and given back.                                    *)

\* What is awaited is alive, and so not in a slot that is reused.
LEMMA AwaitsElsewhere ==
    ASSUME NEW p, NEW q, NEW i \in Slots, ~ Alive(p[i]),
           \A j \in Slots \ {i} : q[j] = p[j], NEW x, Awaits(p, x)
    PROVE  Awaits(q, x)
<1>1. PICK c \in Slots : Alive(p[c]) /\ p[c].id = x.waitTarget /\ p[c].parent = x.id
    BY DEF Awaits
<1>2. c # i
    BY <1>1
<1>3. QED
    BY <1>1, <1>2 DEF Awaits

LEMMA SpawnKInv ==
    ASSUME KInv, NEW parent \in Tasks \cup {NoTask}, Spawn(parent)
    PROVE  KInv'
<1> DEFINE t == nextId
           y == NewTask(t, parent)
           r == Enqueue(sched, t)
           c == [boxes EXCEPT ![t] = OpenBox]
<1>1. /\ mode = "kernel" /\ t \in Tasks /\ MaySpawnChild(parent)
      /\ boxes' = c /\ sched' = r /\ nextId' = t + 1 /\ mode' = mode /\ preempting' = preempting
    BY DEF Spawn
<1>2. PICK i \in Slots : IsFreeSlot(i) /\ slots' = [slots EXCEPT ![i] = NewTask(nextId, parent)]
    BY DEF Spawn
<1>3. /\ Good(sched) /\ slots \in [Slots -> Task] /\ boxes \in [Tasks -> Endpoint]
      /\ nextId \in Nat /\ Ident(slots, nextId) /\ Agree(sched, slots) /\ Owned(slots, boxes)
      /\ preempting \in BOOLEAN /\ mode \in {"kernel", "starting", "user"}
      /\ \A j \in Slots : slots[j] \in Task
      /\ ~ MixedWaits => Waits(slots, boxes, mode)
      /\ ~ MixedWaits => \A j \in Slots : Pending(slots[j], sched.ticks)
    BY KInvFacts
<1>4. /\ y \in Task /\ y.id = t /\ y.parent = parent /\ y.state = "Ready"
      /\ y.resources = TRUE /\ y.waitTarget = NoTask /\ y.ipcWaiting = FALSE
    BY <1>1, EmptyFacts
<1>5. /\ OpenBox \in Endpoint /\ OpenBox.open /\ ~ OpenBox.waiting
    <2>1. QueueDepth \in Nat
        BY KernelAssumption
    <2>2. ClosedBox \in Endpoint /\ ~ ClosedBox.waiting
        BY <2>1 DEF ClosedBox, Endpoint
    <2>3. OpenBox \in Endpoint
        BY <2>2 DEF OpenBox, Endpoint
    <2>4. OpenBox.open
        BY <2>2 DEF OpenBox, Endpoint
    <2>5. ~ OpenBox.waiting
        BY <2>2 DEF OpenBox, Endpoint
    <2>6. QED
        BY <2>3, <2>4, <2>5
<1>6. /\ slots[i].state \in {"Empty", "Exited"}
      /\ slots[i].state # "Empty" => ~ slots[i].resources
    BY <1>2 DEF IsFreeSlot, Recyclable
<1> DEFINE q == [slots EXCEPT ![i] = y]
<1>7. slots' = q
    BY <1>2
<1>8. q \in [Slots -> Task] /\ q[i] = y /\ \A j \in Slots \ {i} : q[j] = slots[j]
    BY <1>3, <1>4
<1>9. /\ c \in [Tasks -> Endpoint] /\ c[t] = OpenBox
      /\ \A u \in Tasks \ {t} : c[u] = boxes[u]
    BY <1>1, <1>3, <1>5
<1> HIDE DEF y, q, c, r
<1>10. \A j \in Slots : slots[j].state # "Empty" => slots[j].id # t /\ slots[j].id < t
    BY <1>3 DEF Ident
<1>11. parent < t
    <2>1. Tasks \subseteq Nat /\ NoTask = 0 /\ NoTask \notin Tasks
        BY KernelAssumption, NoTaskAssumption
    <2>2. CASE parent = NoTask
        BY <1>1, <1>3, <2>1, <2>2
    <2>3. CASE parent # NoTask
        <3>1. Exists(parent)
            BY <1>1, <2>3 DEF MaySpawnChild, Live
        <3>2. QED
            BY <1>10, <3>1 DEF Exists
    <2>4. QED
        BY <2>2, <2>3
<1>12. Place(sched, t) = "Unknown"
    BY <1>1, <1>3, <1>10 DEF Agree
<1>13. Good(r) /\ Moved(sched, r, t, "Ready") /\ r.ticks = sched.ticks
    <2>1. Len(sched.queue) < QueueCapacity
        BY <1>3, <1>6, RoomInQueue
    <2>2. QED
        BY <1>1, <1>3, <1>12, <2>1, EnqueuePlace DEF r
<1>14. Ident(q, t + 1)
    <2>1. ASSUME NEW j \in Slots, q[j].state # "Empty"
          PROVE  q[j].id \in Tasks /\ q[j].id < t + 1 /\ q[j].parent < q[j].id
        <3>1. CASE j = i
            <4>1. q[j] = y /\ t < t + 1
                BY <1>3, <1>8, <3>1
            <4>2. QED
                BY <1>1, <1>4, <1>11, <4>1
        <3>2. CASE j # i
            <4>1. q[j] = slots[j] /\ slots[j].state # "Empty"
                BY <1>8, <2>1, <3>2
            <4>2. slots[j].id \in Tasks /\ slots[j].id < t /\ slots[j].parent < slots[j].id
                BY <1>3, <4>1 DEF Ident
            <4>3. Tasks \subseteq Nat
                BY KernelAssumption
            <4>4. slots[j].id < t + 1
                <5>1. slots[j].id \in Nat /\ nextId \in Nat
                    BY <1>3, <4>2, <4>3, Zenon
                <5>2. slots[j].id < nextId
                    BY <4>2
                <5>3. \A d, e \in Nat : d < e => d < e + 1
                    OBVIOUS
                <5>4. QED
                    BY <5>1, <5>2, <5>3
            <4>5. QED
                BY <4>1, <4>2, <4>4
        <3>3. QED
            BY <3>1, <3>2
    <2>2. ASSUME NEW j \in Slots, NEW k \in Slots,
                 q[j].state # "Empty", q[k].state # "Empty", q[j].id = q[k].id
          PROVE  j = k
        <3>1. CASE j # i /\ k # i
            BY <1>3, <1>8, <2>2, <3>1 DEF Ident
        <3>2. CASE j = i /\ k # i
            <4>1. q[j].id = t /\ q[k] = slots[k]
                BY <1>4, <1>8, <3>2
            <4>2. QED
                BY <1>10, <2>2, <4>1
        <3>3. CASE j # i /\ k = i
            <4>1. q[k].id = t /\ q[j] = slots[j]
                BY <1>4, <1>8, <3>3
            <4>2. QED
                BY <1>10, <2>2, <4>1
        <3>4. QED
            BY <3>1, <3>2, <3>3
    <2>3. QED
        BY <2>1, <2>2 DEF Ident
<1>15. Agree(r, q)
    <2>1. ASSUME NEW j \in Slots, q[j].state # "Empty"
          PROVE  Place(r, q[j].id) = Shown(q[j].state)
        <3>1. CASE j = i
            BY <1>4, <1>8, <1>13, <3>1 DEF Moved, Shown
        <3>2. CASE j # i
            <4>1. q[j] = slots[j] /\ slots[j].state # "Empty"
                BY <1>8, <2>1, <3>2
            <4>2. slots[j].id \in Tasks /\ slots[j].id # t
                BY <1>3, <1>10, <4>1 DEF Ident
            <4>3. Place(r, slots[j].id) = Place(sched, slots[j].id)
                BY <1>13, <4>2 DEF Moved
            <4>4. QED
                BY <1>3, <4>1, <4>3 DEF Agree
        <3>3. QED
            BY <3>1, <3>2
    <2>2. ASSUME NEW u \in Tasks, Place(r, u) # "Unknown"
          PROVE  \E j \in Slots : q[j].state # "Empty" /\ q[j].id = u
        <3>1. CASE u = t
            BY <1>4, <1>8, <3>1
        <3>2. CASE u # t
            <4>1. Place(sched, u) # "Unknown"
                BY <1>13, <2>2, <3>2 DEF Moved
            <4>2. PICK j \in Slots : slots[j].state # "Empty" /\ slots[j].id = u
                BY <1>3, <4>1 DEF Agree
            <4>3. j # i
                BY <1>3, <1>6, <4>1, <4>2 DEF Agree, Shown
            <4>4. QED
                BY <1>8, <4>2, <4>3
        <3>3. QED
            BY <3>1, <3>2
    <2>3. QED
        BY <2>1, <2>2 DEF Agree
<1>16. Owned(q, c)
    <2>1. ASSUME NEW j \in Slots, Alive(q[j])
          PROVE  q[j].resources
        <3>1. CASE j = i
            BY <1>4, <1>8, <3>1
        <3>2. CASE j # i
            BY <1>3, <1>8, <2>1, <3>2 DEF Owned
        <3>3. QED
            BY <3>1, <3>2
    <2>2. ASSUME NEW u \in Tasks
          PROVE  c[u].open <=> \E j \in Slots : /\ q[j].state # "Empty" /\ q[j].id = u
                                                /\ q[j].resources
        <3>1. CASE u = t
            <4>1. c[u].open
                BY <1>5, <1>9, <3>1
            <4>2. q[i].state # "Empty" /\ q[i].id = u /\ q[i].resources
                BY <1>4, <1>8, <3>1
            <4>3. QED
                BY <4>1, <4>2
        <3>2. CASE u # t
            <4>1. boxes[u].open <=> \E j \in Slots : /\ slots[j].state # "Empty"
                                                     /\ slots[j].id = u /\ slots[j].resources
                BY <1>3 DEF Owned
            <4>2. c[u] = boxes[u]
                BY <1>9, <3>2
            <4>3. \A j \in Slots : (q[j].state # "Empty" /\ q[j].id = u /\ q[j].resources)
                     <=> (slots[j].state # "Empty" /\ slots[j].id = u /\ slots[j].resources)
                <5>1. ASSUME NEW j \in Slots
                      PROVE  (q[j].state # "Empty" /\ q[j].id = u /\ q[j].resources)
                     <=> (slots[j].state # "Empty" /\ slots[j].id = u /\ slots[j].resources)
                    <6>1. CASE j = i
                        <7>1. q[j].id = t
                            BY <1>4, <1>8, <6>1
                        <7>2. QED
                            BY <1>6, <3>2, <6>1, <7>1
                    <6>2. CASE j # i
                        <7>1. q[j] = slots[j]
                            BY <1>8, <6>2
                        <7>2. QED
                            BY <7>1
                    <6>3. QED
                        BY <6>1, <6>2
                <5>2. QED
                    BY <5>1
            <4>4. QED
                BY <4>1, <4>2, <4>3
        <3>3. QED
            BY <3>1, <3>2
    <2>3. QED
        BY <2>1, <2>2 DEF Owned
<1>17. Core(r, q, c, t + 1)
    <2>1. t + 1 \in Nat
        BY <1>3
    <2>2. QED
        BY <1>8, <1>9, <1>13, <1>14, <1>15, <1>16, <2>1 DEF Core
<1>18. ASSUME ~ MixedWaits
       PROVE  Waits(q, c, "kernel")
    <2>1. ASSUME NEW j \in Slots, q[j].state # "Empty"
          PROVE  WaitOk(q, q[j], c[q[j].id], "kernel")
        <3>1. CASE j = i
            <4>1. q[j] = y /\ c[y.id] = OpenBox
                BY <1>4, <1>8, <1>9, <3>1
            <4>2. Idle(y, OpenBox)
                BY <1>4, <1>5 DEF Idle
            <4>3. QED
                BY <1>4, <4>1, <4>2 DEF WaitOk
        <3>2. CASE j # i
            <4>1. q[j] = slots[j] /\ slots[j].state # "Empty"
                BY <1>8, <2>1, <3>2
            <4>2. slots[j].id \in Tasks /\ slots[j].id # t /\ c[slots[j].id] = boxes[slots[j].id]
                BY <1>3, <1>9, <1>10, <4>1 DEF Ident
            <4>3. WaitOk(slots, slots[j], boxes[slots[j].id], "kernel")
                BY <1>1, <1>3, <1>18, <4>1 DEF Waits
            <4>4. Awaits(slots, slots[j]) => Awaits(q, slots[j])
                <5>1. ~ Alive(slots[i])
                    BY <1>6 DEF Alive
                <5>2. QED
                    BY <1>8, <5>1, AwaitsElsewhere
            <4>5. ASSUME Child(q, slots[j].id), slots[j].ipcWaiting
                  PROVE  Child(slots, slots[j].id)
                <5>1. PICK k \in Slots : q[k].state # "Empty" /\ q[k].parent = slots[j].id
                    BY <4>5 DEF Child
                <5>2. CASE k # i
                    BY <1>8, <5>1, <5>2 DEF Child
                <5>3. CASE k = i
                    <6>1. parent = slots[j].id
                        BY <1>4, <1>8, <5>1, <5>3
                    <6>2. parent # NoTask /\ TaskOf(parent) = slots[j]
                        BY <1>3, <4>1, <4>2, <6>1, FindIs, NoTaskAssumption
                    <6>3. QED
                        BY <1>1, <1>18, <4>5, <6>2 DEF MaySpawnChild
                <5>4. QED
                    BY <5>2, <5>3
            <4>6. QED
                BY <4>1, <4>2, <4>3, <4>4, <4>5 DEF WaitOk, Listening, Attending
        <3>3. QED
            BY <3>1, <3>2
    <2>2. QED
        BY <2>1 DEF Waits
<1>19. ASSUME ~ MixedWaits
       PROVE  \A j \in Slots : Pending(q[j], sched.ticks)
    <2>1. ASSUME NEW j \in Slots
          PROVE  Pending(q[j], sched.ticks)
        <3>1. CASE j = i
            BY <1>4, <1>8, <3>1 DEF Pending
        <3>2. CASE j # i
            BY <1>3, <1>8, <1>19, <3>2
        <3>3. QED
            BY <3>1, <3>2
    <2>2. QED
        BY <2>1
<1>20. Core(sched', slots', boxes', nextId')
    BY <1>1, <1>7, <1>17
<1>21. ~ MixedWaits => Calm(sched', slots', boxes', mode')
    BY <1>1, <1>7, <1>13, <1>18, <1>19 DEF Calm
<1>22. QED
    BY <1>1, <1>3, <1>20, <1>21 DEF KInv

LEMMA CleanupTaskKInv ==
    ASSUME KInv, NEW t \in Tasks, NEW released \in BOOLEAN, CleanupTask(t, released)
    PROVE  KInv'
<1> DEFINE i == Find(t)
           c == [boxes EXCEPT ![t] = ClosedBox]
           x == [slots[i] EXCEPT !.resources = FALSE, !.cleaned = released]
           q == [slots EXCEPT ![i] = x]
<1>1. /\ mode = "kernel" /\ Exists(t) /\ TaskOf(t).state = "Exited"
      /\ slots' = [slots EXCEPT ![Find(t)].resources = FALSE, ![Find(t)].cleaned = released]
      /\ boxes' = c /\ UNCHANGED <<sched, mode, preempting, nextId>>
    BY DEF CleanupTask
<1>2. /\ Good(sched) /\ slots \in [Slots -> Task] /\ boxes \in [Tasks -> Endpoint]
      /\ nextId \in Nat /\ Ident(slots, nextId) /\ Agree(sched, slots) /\ Owned(slots, boxes)
      /\ preempting \in BOOLEAN /\ mode \in {"kernel", "starting", "user"}
      /\ ~ MixedWaits => Waits(slots, boxes, mode)
      /\ ~ MixedWaits => \A j \in Slots : Pending(slots[j], sched.ticks)
    BY KInvFacts
<1>3. /\ i \in Slots /\ slots[i].id = t /\ slots[i] = TaskOf(t) /\ slots[i] \in Task
      /\ slots[i].state = "Exited"
    BY <1>1, <1>2, FindExists
<1>4. slots' = q
    BY <1>1, <1>2, <1>3 DEF Task
<1> HIDE DEF i
<1>5. x \in Task
    BY <1>3 DEF Task
<1>6. /\ x.id = slots[i].id /\ x.parent = slots[i].parent /\ x.state = "Exited"
    BY <1>3 DEF Task
<1>7. ~ x.resources
    BY <1>3 DEF Task
<1> HIDE DEF x
<1>8. Self(slots[i], x) /\ ~ Alive(slots[i]) /\ ~ Alive(x)
    BY <1>3, <1>6 DEF Self, Alive
<1>9. q \in [Slots -> Task] /\ q[i] = x /\ \A j \in Slots \ {i} : q[j] = slots[j]
    BY <1>2, <1>3, <1>5
<1>10. /\ c \in [Tasks -> Endpoint] /\ ~ c[t].open
       /\ \A u \in Tasks \ {t} : c[u] = boxes[u]
    <2>1. QueueDepth \in Nat
        BY KernelAssumption
    <2>2. ClosedBox \in Endpoint /\ ~ ClosedBox.open
        BY <2>1 DEF ClosedBox, Endpoint
    <2>3. QED
        BY <1>2, <2>2
<1> HIDE DEF c
<1>11. Ident(q, nextId)
    BY <1>2, <1>3, <1>8, IdentOne
<1>12. ~ MixedWaits => Waits(q, c, mode)
    <2>1. WaitOk(slots, x, c[slots[i].id], mode)
        BY <1>6 DEF WaitOk, Alive
    <2>2. \A u \in Tasks : u # slots[i].id => c[u] = boxes[u]
        BY <1>3, <1>10
    <2>3. QED
        BY <1>2, <1>3, <1>5, <1>8, <2>1, <2>2, WaitsOne
<1> HIDE DEF q
<1>13. \A j \in Slots : q[j].id = slots[j].id /\ q[j].state = slots[j].state
    BY <1>3, <1>6, <1>9
<1>14. Agree(sched, q)
    BY <1>2, <1>13 DEF Agree
<1>15. Owned(q, c)
    <2>1. ASSUME NEW j \in Slots, Alive(q[j])
          PROVE  q[j].resources
        <3>1. j # i
            BY <1>8, <1>9, <2>1
        <3>2. QED
            BY <1>2, <1>9, <2>1, <3>1 DEF Owned
    <2>2. ASSUME NEW u \in Tasks
          PROVE  c[u].open <=> \E j \in Slots : /\ q[j].state # "Empty" /\ q[j].id = u
                                                /\ q[j].resources
        <3>1. CASE u = t
            <4>1. ASSUME NEW j \in Slots, q[j].state # "Empty", q[j].id = u
                  PROVE  ~ q[j].resources
                <5>1. j = i
                    BY <1>2, <1>3, <1>13, <3>1, <4>1 DEF Ident
                <5>2. QED
                    BY <1>7, <1>9, <5>1
            <4>2. QED
                BY <1>10, <3>1, <4>1
        <3>2. CASE u # t
            <4>1. boxes[u].open <=> \E j \in Slots : /\ slots[j].state # "Empty"
                                                     /\ slots[j].id = u /\ slots[j].resources
                BY <1>2 DEF Owned
            <4>2. c[u] = boxes[u]
                BY <1>10, <3>2
            <4>3. \A j \in Slots : slots[j].id = u => j # i /\ q[j] = slots[j]
                BY <1>3, <1>9, <3>2
            <4>4. \A j \in Slots : q[j].id = u => j # i /\ q[j] = slots[j]
                BY <1>13, <4>3
            <4>5. QED
                BY <4>1, <4>2, <4>3, <4>4
        <3>3. QED
            BY <3>1, <3>2
    <2>3. QED
        BY <2>1, <2>2 DEF Owned
<1>16. Core(sched, q, c, nextId)
    BY <1>2, <1>9, <1>10, <1>11, <1>14, <1>15 DEF Core
<1>17. ASSUME ~ MixedWaits
       PROVE  \A j \in Slots : Pending(q[j], sched.ticks)
    <2>1. ASSUME NEW j \in Slots
          PROVE  Pending(q[j], sched.ticks)
        <3>1. CASE j = i
            BY <1>6, <1>9, <3>1 DEF Pending
        <3>2. CASE j # i
            BY <1>2, <1>9, <1>17, <3>2
        <3>3. QED
            BY <3>1, <3>2
    <2>2. QED
        BY <2>1
<1>18. Core(sched', slots', boxes', nextId')
    BY <1>1, <1>4, <1>16
<1>19. ~ MixedWaits => Calm(sched', slots', boxes', mode')
    BY <1>1, <1>4, <1>12, <1>17 DEF Calm
<1>20. QED
    BY <1>1, <1>2, <1>18, <1>19 DEF KInv

LEMMA ReapKInv ==
    ASSUME KInv, NEW p \in Tasks, NEW c \in Tasks \cup {NoTask}, Reap(p, c)
    PROVE  KInv'
<1>1. UNCHANGED <<sched, boxes, mode, preempting, nextId>> /\ mode = "kernel"
    BY DEF Reap
<1>2. PICK i \in Slots : /\ slots[i].state = "Exited" /\ ~ slots[i].resources
                         /\ slots' = [slots EXCEPT ![i] = EmptySlot]
    BY DEF Reap, Finished
<1>3. /\ Good(sched) /\ slots \in [Slots -> Task] /\ boxes \in [Tasks -> Endpoint]
      /\ nextId \in Nat /\ Ident(slots, nextId) /\ Agree(sched, slots) /\ Owned(slots, boxes)
      /\ preempting \in BOOLEAN /\ mode \in {"kernel", "starting", "user"}
      /\ ~ MixedWaits => Waits(slots, boxes, mode)
      /\ ~ MixedWaits => \A j \in Slots : Pending(slots[j], sched.ticks)
    BY KInvFacts
<1>4. EmptySlot \in Task /\ EmptySlot.state = "Empty"
    BY EmptyFacts
<1> DEFINE q == [slots EXCEPT ![i] = EmptySlot]
<1>5. slots' = q
    BY <1>2
<1>6. /\ q \in [Slots -> Task] /\ q[i].state = "Empty"
      /\ \A j \in Slots \ {i} : q[j] = slots[j]
    BY <1>3, <1>4
<1> HIDE DEF q
<1>7. \A j \in Slots : q[j].state # "Empty" => j # i /\ q[j] = slots[j]
    BY <1>6
<1>8. Ident(q, nextId)
    <2>1. ASSUME NEW j \in Slots, q[j].state # "Empty"
          PROVE  q[j].id \in Tasks /\ q[j].id < nextId /\ q[j].parent < q[j].id
        BY <1>3, <1>7, <2>1 DEF Ident
    <2>2. ASSUME NEW j \in Slots, NEW k \in Slots,
                 q[j].state # "Empty", q[k].state # "Empty", q[j].id = q[k].id
          PROVE  j = k
        BY <1>3, <1>7, <2>2 DEF Ident
    <2>3. QED
        BY <2>1, <2>2 DEF Ident
<1>9. Agree(sched, q)
    <2>1. ASSUME NEW j \in Slots, q[j].state # "Empty"
          PROVE  Place(sched, q[j].id) = Shown(q[j].state)
        BY <1>3, <1>7, <2>1 DEF Agree
    <2>2. ASSUME NEW u \in Tasks, Place(sched, u) # "Unknown"
          PROVE  \E j \in Slots : q[j].state # "Empty" /\ q[j].id = u
        <3>1. PICK j \in Slots : slots[j].state # "Empty" /\ slots[j].id = u
            BY <1>3, <2>2 DEF Agree
        <3>2. j # i
            BY <1>2, <1>3, <2>2, <3>1 DEF Agree, Shown
        <3>3. QED
            BY <1>6, <3>1, <3>2
    <2>3. QED
        BY <2>1, <2>2 DEF Agree
<1>10. Owned(q, boxes)
    <2>1. ASSUME NEW j \in Slots, Alive(q[j])
          PROVE  q[j].resources
        <3>1. j # i
            BY <1>6, <2>1 DEF Alive
        <3>2. QED
            BY <1>3, <1>6, <2>1, <3>1 DEF Owned
    <2>2. ASSUME NEW u \in Tasks
          PROVE  boxes[u].open <=> \E j \in Slots : /\ q[j].state # "Empty" /\ q[j].id = u
                                                    /\ q[j].resources
        <3>1. boxes[u].open <=> \E j \in Slots : /\ slots[j].state # "Empty"
                                                 /\ slots[j].id = u /\ slots[j].resources
            BY <1>3 DEF Owned
        <3>2. \A j \in Slots : slots[j].resources => j # i /\ q[j] = slots[j]
            BY <1>2, <1>6
        <3>3. QED
            BY <1>7, <3>1, <3>2
    <2>3. QED
        BY <2>1, <2>2 DEF Owned
<1>11. Core(sched, q, boxes, nextId)
    BY <1>3, <1>6, <1>8, <1>9, <1>10 DEF Core
<1>12. ASSUME ~ MixedWaits
       PROVE  Waits(q, boxes, mode)
    <2>1. ASSUME NEW j \in Slots, q[j].state # "Empty"
          PROVE  WaitOk(q, q[j], boxes[q[j].id], mode)
        <3>1. q[j] = slots[j] /\ slots[j].state # "Empty"
            BY <1>7, <2>1
        <3>2. WaitOk(slots, slots[j], boxes[slots[j].id], mode)
            BY <1>3, <1>12, <3>1 DEF Waits
        <3>3. Awaits(slots, slots[j]) => Awaits(q, slots[j])
            <4>1. ~ Alive(slots[i])
                BY <1>2 DEF Alive
            <4>2. QED
                BY <1>6, <4>1, AwaitsElsewhere
        <3>4. Child(q, slots[j].id) => Child(slots, slots[j].id)
            BY <1>7 DEF Child
        <3>5. QED
            BY <3>1, <3>2, <3>3, <3>4 DEF WaitOk, Listening, Attending
    <2>2. QED
        BY <2>1 DEF Waits
<1>13. ASSUME ~ MixedWaits
       PROVE  \A j \in Slots : Pending(q[j], sched.ticks)
    <2>1. ASSUME NEW j \in Slots
          PROVE  Pending(q[j], sched.ticks)
        <3>1. CASE j = i
            BY <1>6, <3>1 DEF Pending
        <3>2. CASE j # i
            BY <1>3, <1>6, <1>13, <3>2
        <3>3. QED
            BY <3>1, <3>2
    <2>2. QED
        BY <2>1
<1>14. Core(sched', slots', boxes', nextId')
    BY <1>1, <1>5, <1>11
<1>15. ~ MixedWaits => Calm(sched', slots', boxes', mode')
    BY <1>1, <1>5, <1>12, <1>13 DEF Calm
<1>16. QED
    BY <1>1, <1>3, <1>14, <1>15 DEF KInv

-----------------------------------------------------------------------------
(* The end of a task, and its parent.                                      *)

\* The parent that waits for the task in slot i is the only one that does,
\* and wake_waiting_parent does wake it: the slot of the task that ends is
\* not on the run queue any more.
LEMMA MarkExitedKInv ==
    ASSUME KInv, NEW t \in Tasks, MarkExited(t)
    PROVE  KInv'
<1> DEFINE i == Find(t)
           p == TaskOf(t).parent
           s == FinishTask(sched, t)
           z == ExitedTask(slots[i])
           o == [slots EXCEPT ![i] = z]
<1>1. /\ mode = "kernel" /\ Live(t) /\ UNCHANGED <<boxes, mode, preempting, nextId>>
      /\ \/ /\ ParentWakes(s, p, t) /\ sched' = WakeTask(s, p)
            /\ slots' = [[slots EXCEPT ![i] = ExitedTask(@)] EXCEPT
                            ![Find(p)].state = "Ready", ![Find(p)].waitTarget = NoTask]
         \/ /\ ~ ParentWakes(s, p, t) /\ sched' = s
            /\ slots' = [slots EXCEPT ![i] = ExitedTask(@)]
    BY DEF MarkExited
<1>2. /\ Core(sched, slots, boxes, nextId)
      /\ Good(sched) /\ slots \in [Slots -> Task] /\ boxes \in [Tasks -> Endpoint]
      /\ nextId \in Nat /\ Ident(slots, nextId) /\ Agree(sched, slots) /\ Owned(slots, boxes)
      /\ preempting \in BOOLEAN /\ mode \in {"kernel", "starting", "user"}
      /\ \A j \in Slots : slots[j] \in Task
      /\ ~ MixedWaits => Waits(slots, boxes, mode)
      /\ ~ MixedWaits => \A j \in Slots : Pending(slots[j], sched.ticks)
    BY KInvFacts
<1>3. /\ i \in Slots /\ slots[i].id = t /\ slots[i] = TaskOf(t) /\ slots[i] \in Task
      /\ slots[i].state # "Empty" /\ slots[i].parent = p
    BY <1>1, <1>2, FindExists DEF Live
<1>4. [slots EXCEPT ![i] = ExitedTask(@)] = o
    BY <1>2, <1>3
<1> HIDE DEF i
<1>5. p < t
    BY <1>2, <1>3 DEF Ident
<1> HIDE DEF p
<1>6. /\ z \in Task /\ z.id = t /\ z.parent = p /\ z.state = "Exited"
      /\ z.resources = slots[i].resources
    BY <1>3, ExitedFacts
<1> HIDE DEF z
<1>7. Good(s) /\ Moved(sched, s, t, "Unknown") /\ s.ticks = sched.ticks
    BY <1>2, FinishPlace
<1> HIDE DEF s
<1>8. Core(s, o, boxes, nextId)
    <2>1. Moved(sched, s, slots[i].id, Shown(z.state))
        BY <1>3, <1>6, <1>7 DEF Shown
    <2>2. Self(slots[i], z) /\ ~ Alive(z) /\ z.resources = slots[i].resources /\ z \in Task
        BY <1>3, <1>6 DEF Self, Alive
    <2>3. boxes \in [Tasks -> Endpoint] /\ \A u \in Tasks : boxes[u].open = boxes[u].open
        BY <1>2
    <2>4. Core(sched, slots, boxes, nextId)
        BY <1>2
    <2>5. QED
        BY <1>3, <1>7, <2>1, <2>2, <2>3, <2>4, CoreMoveOne
<1>9. o \in [Slots -> Task] /\ o[i] = z /\ \A j \in Slots \ {i} : o[j] = slots[j]
    BY <1>2, <1>3, <1>6
<1> HIDE DEF o
<1>10. /\ Good(s) /\ Ident(o, nextId) /\ Agree(s, o) /\ Owned(o, boxes)
       /\ \A j \in Slots : o[j] \in Task
    BY <1>8, CoreTypes
<1>11. \A u : Child(o, u) <=> Child(slots, u)
    <2>1. \A j \in Slots : o[j].parent = slots[j].parent
                           /\ (o[j].state # "Empty" <=> slots[j].state # "Empty")
        BY <1>3, <1>6, <1>9
    <2>2. QED
        BY <2>1 DEF Child
\* Only the parent awaits t.
<1> DEFINE Waiting(j) == /\ slots[j].state = "Blocked" /\ ~ slots[j].ipcWaiting
                         /\ slots[j].waitTarget = t
<1>12. ASSUME ~ MixedWaits, NEW j \in Slots, Waiting(j)
       PROVE  slots[j].id = p /\ Exists(p) /\ Find(p) = j /\ ParentWakes(s, p, t)
    <2>1. slots[j].id \in Tasks /\ slots[j].state # "Empty"
        BY <1>2, <1>12 DEF Ident
    <2>2. Awaits(slots, slots[j])
        BY <1>2, <1>12, <2>1 DEF Waits, WaitOk, Attending
    <2>3. PICK c \in Slots : /\ Alive(slots[c]) /\ slots[c].id = t
                             /\ slots[c].parent = slots[j].id
        BY <1>12, <2>2 DEF Awaits
    <2>4. c = i
        BY <1>2, <1>3, <2>3 DEF Ident, Alive
    <2>5. slots[j].id = p
        BY <1>3, <2>3, <2>4
    <2>6. Find(p) = j /\ TaskOf(p) = slots[j] /\ Exists(p)
        BY <1>2, <2>1, <2>5, FindIs
    <2>7. p \in Tasks /\ p # NoTask
        BY <2>1, <2>5, NoTaskAssumption
    <2>8. j # i
        BY <1>3, <1>5, <2>5, <2>7, KernelAssumption
    <2>9. o[j].state = "Blocked" /\ o[j].id = p
        BY <1>9, <1>12, <2>5, <2>8
    <2>10. Place(s, p) = "Blocked"
        BY <1>10, <2>9 DEF Agree, Shown
    <2>11. Len(s.queue) < QueueCapacity
        BY <1>3, <1>6, <1>9, <1>10, RoomInQueue
    <2>12. WakeTaskOk(s, p)
        BY <1>10, <2>7, <2>10, <2>11, WakePlace
    <2>13. QED
        BY <1>12, <2>5, <2>6, <2>7, <2>12 DEF ParentWakes
<1>13. ASSUME ~ MixedWaits, NEW j \in Slots, j # i, slots[j].state # "Empty", ~ Waiting(j)
       PROVE  WaitOk(o, slots[j], boxes[slots[j].id], mode)
    <2>1. WaitOk(slots, slots[j], boxes[slots[j].id], mode)
        BY <1>2, <1>13 DEF Waits
    <2>2. slots[j].state = "Blocked" /\ ~ slots[j].ipcWaiting => Awaits(o, slots[j])
        <3> SUFFICES ASSUME slots[j].state = "Blocked", ~ slots[j].ipcWaiting
                     PROVE  Awaits(o, slots[j])
            OBVIOUS
        <3>1. PICK c \in Slots : /\ Alive(slots[c]) /\ slots[c].id = slots[j].waitTarget
                                 /\ slots[c].parent = slots[j].id
            BY <2>1 DEF WaitOk, Attending, Awaits
        <3>2. c # i
            BY <1>3, <1>13, <3>1
        <3>3. QED
            BY <1>9, <3>1, <3>2 DEF Awaits
    <2>3. QED
        BY <1>11, <2>1, <2>2 DEF WaitOk, Listening, Attending
<1>14. \A e : WaitOk(o, z, e, mode)
    BY <1>6 DEF WaitOk, Alive
<1>15. ~ MixedWaits => \A j \in Slots : Pending(o[j], sched.ticks)
    <2>1. ASSUME ~ MixedWaits, NEW j \in Slots
          PROVE  Pending(o[j], sched.ticks)
        <3>1. CASE j = i
            BY <1>6, <1>9, <3>1 DEF Pending
        <3>2. CASE j # i
            BY <1>2, <1>9, <2>1, <3>2
        <3>3. QED
            BY <3>1, <3>2
    <2>2. QED
        BY <2>1
<1>16. CASE ~ ParentWakes(s, p, t) /\ sched' = s /\ slots' = o
    <2>1. ASSUME ~ MixedWaits
          PROVE  Waits(o, boxes, mode)
        <3>1. ASSUME NEW j \in Slots, o[j].state # "Empty"
              PROVE  WaitOk(o, o[j], boxes[o[j].id], mode)
            <4>1. CASE j = i
                BY <1>9, <1>14, <4>1
            <4>2. CASE j # i
                <5>1. o[j] = slots[j] /\ ~ Waiting(j)
                    BY <1>9, <1>12, <1>16, <2>1, <4>2
                <5>2. QED
                    BY <1>13, <2>1, <3>1, <4>2, <5>1
            <4>3. QED
                BY <4>1, <4>2
        <3>2. QED
            BY <3>1 DEF Waits
    <2>2. Core(sched', slots', boxes', nextId')
        BY <1>1, <1>8, <1>16
    <2>3. ~ MixedWaits => Calm(sched', slots', boxes', mode')
        BY <1>1, <1>7, <1>15, <1>16, <2>1 DEF Calm
    <2>4. QED
        BY <1>1, <1>2, <2>2, <2>3 DEF KInv
<1>17. CASE /\ ParentWakes(s, p, t) /\ sched' = WakeTask(s, p)
            /\ slots' = [o EXCEPT ![Find(p)].state = "Ready", ![Find(p)].waitTarget = NoTask]
    <2> DEFINE k == Find(p)
               r == WakeTask(s, p)
               y == [slots[k] EXCEPT !.state = "Ready", !.waitTarget = NoTask]
               q == [o EXCEPT ![k] = y]
    <2>1. p # NoTask /\ Exists(p) /\ TaskOf(p).state = "Blocked" /\ WakeTaskOk(s, p)
        BY <1>17 DEF ParentWakes
    <2>2. /\ k \in Slots /\ slots[k].id = p /\ slots[k].state = "Blocked"
          /\ slots[k] \in Task
        BY <1>2, <2>1, FindExists
    <2>3. p \in Tasks /\ k # i
        <3>1. p \in Tasks
            BY <1>2, <2>2 DEF Ident
        <3>2. p # t
            BY <1>5, <3>1, KernelAssumption
        <3>3. QED
            BY <1>3, <2>2, <3>1, <3>2
    <2>4. o[k] = slots[k] /\ slots' = q
        <3>1. o[k] = slots[k]
            BY <1>9, <2>2, <2>3
        <3>2. QED
            BY <1>9, <1>17, <2>2, <3>1 DEF Task
    <2> HIDE DEF k
    <2>5. y \in Task
        BY <2>2 DEF Task, States
    <2>6. /\ y.id = slots[k].id /\ y.parent = slots[k].parent /\ y.state = "Ready"
          /\ y.resources = slots[k].resources /\ y.waitTarget = NoTask
          /\ y.ipcWaiting = slots[k].ipcWaiting
        BY <2>2 DEF Task
    <2> HIDE DEF y
    <2>7. Self(o[k], y) /\ Alive(y) /\ Alive(o[k]) /\ y.resources = o[k].resources
        BY <2>2, <2>4, <2>6 DEF Self, Alive
    <2>8. y.resources
        BY <1>10, <2>2, <2>7 DEF Owned
    <2>9. Place(s, p) = "Blocked"
        BY <1>10, <2>2, <2>4 DEF Agree, Shown
    <2>10. Good(r) /\ Moved(s, r, p, "Ready") /\ r.ticks = s.ticks
        BY <1>10, <2>1, <2>3, <2>9, WakePlace
    <2> HIDE DEF r
    <2>11. Core(r, q, boxes, nextId)
        <3>1. Moved(s, r, o[k].id, Shown(y.state))
            BY <2>2, <2>4, <2>6, <2>10 DEF Shown
        <3>2. boxes \in [Tasks -> Endpoint] /\ \A u \in Tasks : boxes[u].open = boxes[u].open
            BY <1>2
        <3>3. QED
            BY <1>8, <2>2, <2>5, <2>7, <2>8, <2>10, <3>1, <3>2, CoreMoveOne
    <2>12. q[k] = y /\ \A j \in Slots \ {k} : q[j] = o[j]
        BY <1>9, <2>2
    <2> HIDE DEF q
    <2>13. ASSUME ~ MixedWaits
           PROVE  Waits(q, boxes, mode)
        <3>1. \A u : Child(q, u) <=> Child(o, u)
            <4>1. \A j \in Slots : q[j].parent = o[j].parent
                                   /\ (q[j].state # "Empty" <=> o[j].state # "Empty")
                BY <2>7, <2>12 DEF Self
            <4>2. QED
                BY <4>1 DEF Child
        <3>2. \A x : Awaits(o, x) => Awaits(q, x)
            <4>1. \A j \in Slots : /\ q[j].parent = o[j].parent /\ q[j].id = o[j].id
                                   /\ Alive(o[j]) => Alive(q[j])
                BY <2>7, <2>12 DEF Self
            <4>2. QED
                BY <4>1 DEF Awaits
        <3>3. ASSUME NEW x, NEW e, WaitOk(o, x, e, mode)
              PROVE  WaitOk(q, x, e, mode)
            BY <3>1, <3>2, <3>3 DEF WaitOk, Listening, Attending
        <3>4. WaitOk(q, y, boxes[p], mode)
            <4>1. WaitOk(slots, slots[k], boxes[p], mode)
                BY <1>2, <2>2, <2>13 DEF Waits
            <4>2. Child(slots, p)
                BY <1>3 DEF Child
            <4>3. ~ slots[k].ipcWaiting
                BY <2>2, <4>1, <4>2 DEF WaitOk, Listening
            <4>4. ~ boxes[p].waiting
                BY <2>2, <4>1, <4>3 DEF WaitOk, Attending
            <4>5. QED
                BY <1>1, <2>6, <4>3, <4>4 DEF WaitOk, Idle
        <3>5. ASSUME NEW j \in Slots, q[j].state # "Empty"
              PROVE  WaitOk(q, q[j], boxes[q[j].id], mode)
            <4>1. CASE j = k
                BY <2>2, <2>6, <2>12, <3>4, <4>1
            <4>2. CASE j = i
                <5>1. q[j] = z
                    BY <1>3, <1>9, <2>3, <2>12, <4>2
                <5>2. QED
                    BY <1>14, <3>3, <5>1
            <4>3. CASE j # i /\ j # k
                <5>1. q[j] = slots[j]
                    BY <1>9, <2>12, <4>3
                <5>2. ~ Waiting(j)
                    BY <1>12, <2>13, <4>3 DEF k
                <5>3. QED
                    BY <1>13, <2>13, <3>3, <3>5, <4>3, <5>1, <5>2
            <4>4. QED
                BY <4>1, <4>2, <4>3
        <3>6. QED
            BY <3>5 DEF Waits
    <2>14. ASSUME ~ MixedWaits
           PROVE  \A j \in Slots : Pending(q[j], sched.ticks)
        <3>1. Pending(y, sched.ticks)
            BY <2>6 DEF Pending
        <3>2. QED
            BY <1>15, <2>12, <2>14, <3>1
    <2>15. Core(sched', slots', boxes', nextId')
        BY <1>1, <1>17, <2>4, <2>11 DEF r
    <2>16. ~ MixedWaits => Calm(sched', slots', boxes', mode')
        <3>1. sched'.ticks = sched.ticks
            BY <1>7, <1>17, <2>10 DEF r
        <3>2. QED
            BY <1>1, <2>4, <2>13, <2>14, <3>1 DEF Calm
    <2>17. QED
        BY <1>1, <1>2, <2>15, <2>16 DEF KInv
<1>18. QED
    BY <1>1, <1>4, <1>16, <1>17

-----------------------------------------------------------------------------
(* The timer interrupt: the scheduler's tick, then the slots in order.     *)

Tables == [sched : SchedState, slots : [Slots -> Task], boxes : [Tasks -> Endpoint]]

\* What holds when the interrupt has looked at some of the slots.
HalfTicked ==
    {x \in Tables :
        /\ Core(x.sched, x.slots, x.boxes, nextId)
        /\ ~ MixedWaits => Waits(x.slots, x.boxes, mode)
        /\ x.sched.ticks = Clock + 1 /\ x.sched.current = sched.current
        /\ \A j \in Slots : /\ x.slots[j].id = slots[j].id
                            /\ x.slots[j].state = "Empty" <=> slots[j].state = "Empty"}

LEMMA HalfTickedFacts ==
    ASSUME NEW x \in HalfTicked
    PROVE  /\ x \in Tables /\ Core(x.sched, x.slots, x.boxes, nextId)
           /\ ~ MixedWaits => Waits(x.slots, x.boxes, mode)
           /\ x.sched.ticks = Clock + 1 /\ x.sched.current = sched.current
           /\ \A j \in Slots : /\ x.slots[j].id = slots[j].id
                               /\ x.slots[j].state = "Empty" <=> slots[j].state = "Empty"
    BY DEF HalfTicked

\* One slot: a deadline that has come is served, because the run queue has
\* room for the task.
LEMMA ExpireStep ==
    ASSUME KInv, NEW x \in HalfTicked, NEW i \in Slots, NEW y, y = ExpireSlot(x, i, Clock + 1)
    PROVE  /\ y \in HalfTicked /\ Pending(y.slots[i], Clock + 1)
           /\ \A j \in Slots \ {i} : y.slots[j] = x.slots[j]
<1> DEFINE now == Clock + 1
           t == x.slots[i].id
<1>1. now \in Nat
    BY KInvFacts
<1>2. /\ Core(x.sched, x.slots, x.boxes, nextId)
      /\ ~ MixedWaits => Waits(x.slots, x.boxes, mode)
      /\ x.sched.ticks = Clock + 1 /\ x.sched.current = sched.current
      /\ \A j \in Slots : /\ x.slots[j].id = slots[j].id
                          /\ x.slots[j].state = "Empty" <=> slots[j].state = "Empty"
    BY HalfTickedFacts
<1>3. /\ Good(x.sched) /\ x.slots \in [Slots -> Task] /\ x.boxes \in [Tasks -> Endpoint]
      /\ Ident(x.slots, nextId) /\ Agree(x.sched, x.slots) /\ x.slots[i] \in Task
    BY <1>2, CoreTypes
<1>4. x.slots[i].deadline \in Nat
    BY <1>3, TaskTypes
<1>5. CASE ~ Expired(x.slots[i], now)
    <2>1. y = x
        BY <1>5 DEF ExpireSlot
    <2>2. Pending(x.slots[i], now)
        BY <1>1, <1>4, <1>5 DEF Expired, Pending
    <2>3. QED
        BY <2>1, <2>2
<1>6. CASE Expired(x.slots[i], now)
    <2>1. x.slots[i].state = "Blocked" /\ x.slots[i].ipcWaiting
        BY <1>6 DEF Expired
    <2>2. t \in Tasks
        BY <1>3, <2>1 DEF Ident
    <2>3. Place(x.sched, t) = "Blocked"
        BY <1>3, <2>1 DEF Agree, Shown
    <2>4. Len(x.sched.queue) < QueueCapacity
        BY <1>3, <2>1, RoomInQueue
    <2>5. WakeTaskOk(x.sched, t)
        BY <1>3, <2>2, <2>3, <2>4, WakePlace
    <2> DEFINE r == WakeTask(x.sched, t)
               q == [x.slots EXCEPT ![i] = Woken(x.slots[i], "Timeout")]
               c == [x.boxes EXCEPT ![t].waiting = FALSE]
    <2>6. y = [sched |-> r, slots |-> q, boxes |-> c]
        <3>1. [x.slots EXCEPT ![i] = Woken(@, "Timeout")] = q
            BY <1>3
        <3>2. QED
            BY <1>6, <2>5, <3>1 DEF ExpireSlot
    <2>7. OtherwiseSame(x.boxes, c, t) /\ ~ c[t].waiting
        <3>1. c = [x.boxes EXCEPT ![t].waiting = FALSE]
            OBVIOUS
        <3> HIDE DEF c
        <3>2. QED
            BY <1>3, <2>2, <3>1, UnmarkBox
    <2> HIDE DEF c
    <2>8. "Timeout" \in Reasons
        BY DEF Reasons
    <2>9. /\ Core(r, q, c, nextId) /\ (~ MixedWaits => Waits(q, c, mode))
          /\ r.ticks = x.sched.ticks /\ r.current = x.sched.current
        BY <1>2, <2>1, <2>5, <2>7, <2>8, WakeSlot
    <2> DEFINE w == Woken(x.slots[i], "Timeout")
    <2>10. w.state = "Ready" /\ w.id = t /\ w \in Task
        BY <1>3, <2>8, WokenFacts
    <2>11. q \in [Slots -> Task] /\ q[i] = w /\ \A j \in Slots \ {i} : q[j] = x.slots[j]
        BY <1>3, <2>10
    <2> HIDE DEF r, q, w
    <2>12. y.sched = r /\ y.slots = q /\ y.boxes = c
        BY <2>6
    <2>13. y \in Tables
        <3>1. r \in SchedState /\ c \in [Tasks -> Endpoint]
            BY <2>9, CoreTypes, GoodTypes
        <3>2. QED
            BY <2>6, <2>11, <3>1 DEF Tables
    <2>14. \A j \in Slots : /\ q[j].id = slots[j].id
                            /\ q[j].state = "Empty" <=> slots[j].state = "Empty"
        <3>1. ASSUME NEW j \in Slots
              PROVE  /\ q[j].id = slots[j].id
                     /\ q[j].state = "Empty" <=> slots[j].state = "Empty"
            <4>1. CASE j = i
                <5>1. q[j].id = t /\ q[j].state = "Ready"
                    BY <2>10, <2>11, <4>1
                <5>2. x.slots[j].state = "Blocked" /\ x.slots[j].id = t
                    BY <2>1, <4>1
                <5>3. QED
                    BY <1>2, <5>1, <5>2
            <4>2. CASE j # i
                BY <1>2, <2>11, <4>2
            <4>3. QED
                BY <4>1, <4>2
        <3>2. QED
            BY <3>1
    <2>15. y \in HalfTicked
        BY <1>2, <2>9, <2>12, <2>13, <2>14 DEF HalfTicked
    <2>16. Pending(w, now)
        BY <2>10 DEF Pending
    <2>17. QED
        BY <2>11, <2>12, <2>15, <2>16
<1>7. QED
    BY <1>5, <1>6

\* The tick itself.
LEMMA TickedHalf ==
    ASSUME KInv, NEW x, x = [sched |-> OnTimerTick(sched), slots |-> slots, boxes |-> boxes]
    PROVE  x \in HalfTicked
<1> DEFINE r == OnTimerTick(sched)
<1>1. /\ Core(sched, slots, boxes, nextId) /\ Good(sched) /\ slots \in [Slots -> Task]
      /\ boxes \in [Tasks -> Endpoint] /\ Agree(sched, slots) /\ Owned(slots, boxes)
      /\ Ident(slots, nextId) /\ nextId \in Nat
      /\ ~ MixedWaits => Waits(slots, boxes, mode)
      /\ Clock = sched.ticks
    BY KInvFacts
<1>2. /\ Good(r) /\ r.ticks = sched.ticks + 1 /\ r.current = sched.current
      /\ \A u \in Tasks : Place(r, u) = Place(sched, u)
    BY <1>1, TickPlace
<1> HIDE DEF r
<1>3. x.sched = r /\ x.slots = slots /\ x.boxes = boxes
    BY DEF r
<1>4. Agree(r, slots)
    <2>1. \A j \in Slots : slots[j].state # "Empty" => slots[j].id \in Tasks
        BY <1>1 DEF Ident
    <2>2. QED
        BY <1>1, <1>2, <2>1 DEF Agree
<1>5. Core(r, slots, boxes, nextId)
    BY <1>1, <1>2, <1>4 DEF Core
<1>6. x \in Tables
    <2>1. r \in SchedState
        BY <1>2, GoodTypes
    <2>2. QED
        BY <1>1, <2>1 DEF Tables, r
<1>7. QED
    BY <1>1, <1>2, <1>3, <1>5, <1>6 DEF HalfTicked

\* After the whole table, no deadline is overdue.
LEMMA AfterTickFacts ==
    ASSUME KInv
    PROVE  /\ AfterTick \in HalfTicked
           /\ \A j \in Slots : Pending(AfterTick.slots[j], Clock + 1)
<1> DEFINE n == MaxTasks
           ticked == [sched |-> OnTimerTick(sched), slots |-> slots, boxes |-> boxes]
           Rec(f) == f = [i \in 0 .. n |-> IF i = 0 THEN ticked
                                           ELSE ExpireSlot(f[i - 1], i, Clock + 1)]
           step == [z \in HalfTicked \X (1 .. n) |-> ExpireSlot(z[1], z[2], Clock + 1)]
<1>1. n \in Nat /\ Slots = 1 .. n
    BY KernelAssumption DEF Slots
<1>2. ticked \in HalfTicked
    BY TickedHalf
<1> HIDE DEF ticked
<1>3. step \in [HalfTicked \X (1 .. n) -> HalfTicked]
    <2>1. ASSUME NEW z \in HalfTicked \X (1 .. n)
          PROVE  ExpireSlot(z[1], z[2], Clock + 1) \in HalfTicked
        <3>1. z[1] \in HalfTicked /\ z[2] \in Slots
            BY <1>1
        <3>2. QED
            BY <3>1, ExpireStep
    <2>2. QED
        BY <2>1
<1>4. PICK f \in [0 .. n -> HalfTicked] :
         f[0] = ticked /\ \A i \in 1 .. n : f[i] = step[<<f[i - 1], i>>]
    <2> HIDE DEF step, n
    <2>1. IsStep(step, n, HalfTicked)
        BY <1>3 DEF IsStep
    <2>2. PICK f : IsRun(f, n, HalfTicked, ticked, step)
        BY <1>1, <1>2, <2>1, RunExists
    <2>3. QED
        BY <2>2 DEF IsRun
<1>5. \A i \in 1 .. n : f[i] = ExpireSlot(f[i - 1], i, Clock + 1)
    <2> SUFFICES ASSUME NEW i \in 1 .. n PROVE f[i] = ExpireSlot(f[i - 1], i, Clock + 1)
        OBVIOUS
    <2>1. <<f[i - 1], i>> \in HalfTicked \X (1 .. n)
        BY <1>1
    <2>2. \A z \in HalfTicked \X (1 .. n) : step[z] = ExpireSlot(z[1], z[2], Clock + 1)
        OBVIOUS
    <2>3. <<f[i - 1], i>>[1] = f[i - 1] /\ <<f[i - 1], i>>[2] = i
        OBVIOUS
    <2> HIDE DEF step, n
    <2>4. step[<<f[i - 1], i>>] = ExpireSlot(f[i - 1], i, Clock + 1)
        BY <2>1, <2>2, <2>3
    <2>5. QED
        BY <1>4, <2>4
<1>6. Rec(f)
    <2> HIDE DEF n
    <2>1. \A i \in 0 .. n : f[i] = IF i = 0 THEN ticked ELSE ExpireSlot(f[i - 1], i, Clock + 1)
        BY <1>1, <1>4, <1>5
    <2>2. QED
        BY <2>1
<1> DEFINE upTo == CHOOSE g : Rec(g)
<1>7. Rec(upTo)
    BY <1>6
<1>8. AfterTick = upTo[n]
    BY DEF AfterTick, ticked
<1> HIDE DEF upTo, n
<1>9. ASSUME NEW i \in 0 .. n
      PROVE  upTo[i] = IF i = 0 THEN ticked ELSE ExpireSlot(upTo[i - 1], i, Clock + 1)
    BY <1>7
<1>10. \A i \in 0 .. n : upTo[i] = f[i]
    <2> DEFINE S == {i \in 0 .. n : upTo[i] = f[i]}
    <2>1. 0 \in S
        BY <1>1, <1>4, <1>9
    <2>2. ASSUME NEW i \in 0 .. n - 1, i \in S
          PROVE  i + 1 \in S
        <3>1. i + 1 \in 1 .. n /\ i + 1 \in 0 .. n /\ i + 1 # 0 /\ (i + 1) - 1 = i
            BY <1>1
        <3>2. upTo[i + 1] = ExpireSlot(upTo[i], i + 1, Clock + 1)
            BY <1>9, <3>1
        <3>3. f[i + 1] = ExpireSlot(f[i], i + 1, Clock + 1)
            BY <1>5, <3>1
        <3>4. QED
            BY <2>2, <3>1, <3>2, <3>3
    <2> HIDE DEF S
    <2>3. 0 .. n \subseteq S
        BY <1>1, <2>1, <2>2, InductionUpTo
    <2>4. QED
        BY <2>3 DEF S
\* The slots that have been looked at have no overdue deadline.
<1> DEFINE Served(i) == \A j \in 1 .. i : Pending(f[i].slots[j], Clock + 1)
           T == {i \in 0 .. n : Served(i)}
<1>11. 0 \in T
    BY <1>1
<1>12. ASSUME NEW i \in 0 .. n - 1, i \in T
       PROVE  i + 1 \in T
    <2>1. /\ i + 1 \in 1 .. n /\ i + 1 \in 0 .. n /\ (i + 1) - 1 = i /\ i \in 0 .. n
          /\ i + 1 \in Slots
        BY <1>1
    <2>2. f[i] \in HalfTicked /\ f[i + 1] = ExpireSlot(f[i], i + 1, Clock + 1)
        BY <1>4, <1>5, <2>1
    <2>3. /\ Pending(f[i + 1].slots[i + 1], Clock + 1)
          /\ \A j \in Slots \ {i + 1} : f[i + 1].slots[j] = f[i].slots[j]
        BY <2>1, <2>2, ExpireStep
    <2>4. ASSUME NEW j \in 1 .. i + 1
          PROVE  Pending(f[i + 1].slots[j], Clock + 1)
        <3>1. CASE j = i + 1
            BY <2>3, <3>1
        <3>2. CASE j # i + 1
            <4>1. j \in 1 .. i /\ j \in Slots \ {i + 1}
                BY <1>1, <2>1, <3>2
            <4>2. f[i + 1].slots[j] = f[i].slots[j]
                BY <2>3, <4>1
            <4>3. QED
                BY <1>12, <4>1, <4>2
        <3>3. QED
            BY <3>1, <3>2
    <2>5. QED
        BY <2>1, <2>4
<1>13. n \in T
    <2> HIDE DEF T
    <2>1. 0 .. n \subseteq T
        BY <1>1, <1>11, <1>12, InductionUpTo
    <2>2. QED
        BY <1>1, <2>1
<1>14. AfterTick = f[n] /\ f[n] \in HalfTicked
    BY <1>1, <1>4, <1>8, <1>10
<1>15. QED
    BY <1>1, <1>13, <1>14

LEMMA TickKInv ==
    ASSUME KInv, TimerTick \/ TimerStop
    PROVE  KInv'
<1> DEFINE x == AfterTick
<1>1. /\ sched' = x.sched /\ slots' = x.slots /\ boxes' = x.boxes
      /\ preempting' = preempting /\ nextId' = nextId
      /\ mode' = mode \/ mode' = "kernel"
    BY DEF TimerTick, TimerStop, Tick
<1>2. x \in HalfTicked /\ \A j \in Slots : Pending(x.slots[j], Clock + 1)
    BY AfterTickFacts
<1> HIDE DEF x
<1>3. /\ Core(x.sched, x.slots, x.boxes, nextId)
      /\ ~ MixedWaits => Waits(x.slots, x.boxes, mode)
      /\ x.sched.ticks = Clock + 1
    BY <1>2, HalfTickedFacts
<1>4. ASSUME ~ MixedWaits
      PROVE  Waits(x.slots, x.boxes, mode')
    <2>1. CASE mode' = mode
        BY <1>3, <1>4, <2>1
    <2>2. CASE mode' = "kernel"
        BY <1>3, <1>4, <2>2, WaitsMode
    <2>3. QED
        BY <1>1, <2>1, <2>2
<1>5. Core(sched', slots', boxes', nextId')
    BY <1>1, <1>3
<1>6. ~ MixedWaits => Calm(sched', slots', boxes', mode')
    BY <1>1, <1>2, <1>3, <1>4 DEF Calm
<1>7. mode' \in {"kernel", "starting", "user"} /\ preempting' \in BOOLEAN
    BY <1>1, KInvFacts
<1>8. QED
    BY <1>5, <1>6, <1>7 DEF KInv

\* The preempted task and the next one are where the table had them before
\* the interrupt woke others.
LEMMA PreemptKInv ==
    ASSUME KInv, TimerPreempt
    PROVE  KInv'
<1> DEFINE x == AfterTick
           r == PreemptCurrent(x.sched)
           prev == Find(sched.current)
           next == Find(r.current)
           now == Clock + 1
<1>1. /\ sched' = r /\ boxes' = x.boxes
      /\ slots' = IF prev = next THEN x.slots
                  ELSE [x.slots EXCEPT ![prev].state = "Ready", ![next] = Dispatched(@)]
      /\ UNCHANGED <<mode, preempting, nextId>>
    BY DEF TimerPreempt, Tick
<1>2. x \in HalfTicked /\ \A j \in Slots : Pending(x.slots[j], now)
    BY AfterTickFacts
<1> HIDE DEF x
<1>3. /\ Core(x.sched, x.slots, x.boxes, nextId)
      /\ ~ MixedWaits => Waits(x.slots, x.boxes, mode)
      /\ x.sched.ticks = now /\ x.sched.current = sched.current
      /\ \A j \in Slots : /\ x.slots[j].id = slots[j].id
                          /\ x.slots[j].state = "Empty" <=> slots[j].state = "Empty"
    BY <1>2, HalfTickedFacts
<1>4. /\ Good(x.sched) /\ x.slots \in [Slots -> Task] /\ x.boxes \in [Tasks -> Endpoint]
      /\ Ident(x.slots, nextId) /\ Agree(x.sched, x.slots)
      /\ \A j \in Slots : x.slots[j] \in Task
    BY <1>3, CoreTypes
<1>5. Ident(slots, nextId) /\ mode \in {"kernel", "starting", "user"} /\ preempting \in BOOLEAN
    BY KInvFacts
<1>6. /\ Good(r) /\ r.ticks = now
      /\ \/ r = x.sched
         \/ /\ x.sched.current \in Tasks /\ r.current \in Tasks /\ x.sched.current # r.current
            /\ Place(x.sched, x.sched.current) = "Running" /\ Place(x.sched, r.current) = "Ready"
            /\ Place(r, x.sched.current) = "Ready" /\ Place(r, r.current) = "Running"
            /\ \A u \in Tasks : u # x.sched.current /\ u # r.current
                  => Place(r, u) = Place(x.sched, u)
    BY <1>3, <1>4, PreemptPlace
<1> HIDE DEF now
<1>7. CASE r = x.sched
    <2>1. slots' = x.slots /\ sched' = x.sched
        BY <1>1, <1>3, <1>7
    <2>2. Core(sched', slots', boxes', nextId')
        BY <1>1, <1>3, <2>1
    <2>3. ~ MixedWaits => Calm(sched', slots', boxes', mode')
        BY <1>1, <1>2, <1>3, <2>1 DEF Calm
    <2>4. QED
        BY <1>1, <1>5, <2>2, <2>3 DEF KInv
<1>8. CASE /\ x.sched.current \in Tasks /\ r.current \in Tasks /\ x.sched.current # r.current
           /\ Place(x.sched, x.sched.current) = "Running" /\ Place(x.sched, r.current) = "Ready"
           /\ Place(r, x.sched.current) = "Ready" /\ Place(r, r.current) = "Running"
           /\ \A u \in Tasks : u # x.sched.current /\ u # r.current
                 => Place(r, u) = Place(x.sched, u)
    <2> HIDE DEF r
    <2>1. ASSUME NEW t \in Tasks, NEW w, w \in {"Running", "Ready"}, Place(x.sched, t) = w
          PROVE  /\ Find(t) \in Slots /\ x.slots[Find(t)].id = t
                 /\ x.slots[Find(t)].state = w
        <3>1. PICK j \in Slots : x.slots[j].state # "Empty" /\ x.slots[j].id = t
            BY <1>4, <2>1 DEF Agree
        <3>2. Shown(x.slots[j].state) = w
            BY <1>4, <2>1, <3>1 DEF Agree
        <3>3. x.slots[j].state = w
            BY <2>1, <3>2 DEF Shown
        <3>4. slots[j].state # "Empty" /\ slots[j].id = t
            BY <1>3, <3>1
        <3>5. Find(t) = j
            BY <1>5, <3>4, FindIs
        <3>6. QED
            BY <3>1, <3>3, <3>5
    <2>2. /\ prev \in Slots /\ x.slots[prev].id = x.sched.current
          /\ x.slots[prev].state = "Running"
        BY <1>3, <1>8, <2>1
    <2>3. /\ next \in Slots /\ x.slots[next].id = r.current /\ x.slots[next].state = "Ready"
        BY <1>8, <2>1
    <2> HIDE DEF prev, next
    <2>4. next # prev
        BY <1>8, <2>2, <2>3
    <2> DEFINE a == x.slots[prev]
               y == [a EXCEPT !.state = "Ready"]
               q == [x.slots EXCEPT ![prev] = y, ![next] = Dispatched(x.slots[next])]
    <2>5. a \in Task /\ a.state = "Running" /\ a.id = x.sched.current
        BY <1>4, <2>2
    <2>6. slots' = q
        BY <1>1, <1>4, <2>2, <2>3, <2>4
    <2> HIDE DEF a
    <2>7. y \in Task
        BY <2>5 DEF Task, States
    <2>8. /\ y.id = a.id /\ y.parent = a.parent /\ y.state = "Ready"
          /\ y.resources = a.resources /\ y.waitTarget = a.waitTarget
          /\ y.reason = a.reason /\ y.context = a.context
        BY <2>5 DEF Task
    <2>9. y.ipcWaiting = a.ipcWaiting
        BY <2>5 DEF Task
    <2> HIDE DEF y
    <2>10. Self(a, y) /\ Alive(a) /\ Alive(y) /\ Shown(y.state) = "Ready"
        BY <2>5, <2>8 DEF Self, Alive, Shown
    <2>11. /\ q \in [Slots -> Task] /\ q[prev] = y /\ q[next] = Dispatched(x.slots[next])
           /\ \A j \in Slots \ {prev, next} : q[j] = x.slots[j]
        <3>1. Dispatched(x.slots[next]) \in Task
            BY <1>4, <2>3, DispatchedFacts
        <3>2. QED
            BY <1>4, <2>2, <2>3, <2>4, <2>7, <3>1
    <2> HIDE DEF q
    <2>12. ~ MixedWaits => WaitOk(x.slots, y, x.boxes[a.id], mode)
        <3>1. ASSUME ~ MixedWaits
              PROVE  WaitOk(x.slots, y, x.boxes[a.id], mode)
            <4>1. WaitOk(x.slots, a, x.boxes[a.id], mode)
                BY <1>3, <2>2, <3>1 DEF Waits, a
            <4>2. QED
                BY <2>5, <2>8, <2>9, <4>1 DEF WaitOk, Idle, Alive
        <3>2. QED
            BY <3>1
    <2>13. Pending(y, now)
        BY <2>8 DEF Pending
    <2>14. OtherwiseSame(x.boxes, x.boxes, a.id)
        BY <1>4 DEF OtherwiseSame
    <2>15. /\ Core(r, q, x.boxes, nextId)
           /\ ~ MixedWaits => Waits(q, x.boxes, mode)
           /\ ~ MixedWaits => \A j \in Slots : Pending(q[j], now)
        <3> DEFINE s1 == x.sched
                   p1 == x.slots
                   b1 == x.boxes
        <3>1. /\ Core(s1, p1, b1, nextId)
              /\ ~ MixedWaits => Waits(p1, b1, mode)
              /\ ~ MixedWaits => \A j \in Slots : Pending(p1[j], now)
            BY <1>2, <1>3
        <3>2. y \in Task /\ StillAlive(p1[prev], y)
            <4>1. StillAlive(a, y)
                BY <2>8, <2>10 DEF StillAlive
            <4>2. QED
                BY <2>7, <4>1 DEF a
        <3>3. /\ prev \in Slots /\ next \in Slots /\ next # prev /\ p1[next].state = "Ready"
            BY <2>2, <2>3, <2>4
        <3>4. Handover(s1, r, p1, prev, next, Shown(y.state))
            BY <1>6, <1>8, <2>2, <2>3, <2>10 DEF Handover
        <3>5. /\ OtherwiseSame(b1, b1, p1[prev].id)
              /\ ~ MixedWaits => WaitOk(p1, y, b1[p1[prev].id], mode)
              /\ ~ MixedWaits => Pending(y, now)
            BY <2>12, <2>13, <2>14 DEF a
        <3>6. Switched(p1, q, prev, y, next)
            BY <2>11 DEF Switched
        <3> HIDE DEF s1, p1, b1
        <3>7. /\ Core(r, q, b1, nextId)
              /\ ~ MixedWaits => Waits(q, b1, mode)
              /\ ~ MixedWaits => \A j \in Slots : Pending(q[j], now)
            BY <3>1, <3>2, <3>3, <3>4, <3>5, <3>6, SwitchTo
        <3>8. QED
            BY <3>7 DEF b1
    <2>16. Core(sched', slots', boxes', nextId')
        BY <1>1, <2>6, <2>15
    <2>17. ~ MixedWaits => Calm(sched', slots', boxes', mode')
        BY <1>1, <1>6, <2>6, <2>15 DEF Calm
    <2>18. QED
        BY <1>1, <1>5, <2>16, <2>17 DEF KInv
<1>9. QED
    BY <1>6, <1>7, <1>8

-----------------------------------------------------------------------------
(* The theorems.                                                           *)

LEMMA InitKInv ==
    ASSUME Init
    PROVE  KInv
<1>1. /\ sched = NewScheduler /\ slots = [i \in Slots |-> EmptySlot]
      /\ boxes = [t \in Tasks |-> ClosedBox] /\ mode = "kernel" /\ preempting = FALSE
      /\ nextId = 1
    BY DEF Init
<1>2. Good(sched)
    BY <1>1, NewSchedulerGood
<1>3. EmptySlot \in Task /\ EmptySlot.state = "Empty"
    BY EmptyFacts
<1>4. ClosedBox \in Endpoint /\ ~ ClosedBox.open
    <2>1. QueueDepth \in Nat
        BY KernelAssumption
    <2>2. QED
        BY <2>1 DEF ClosedBox, Endpoint
<1>5. slots \in [Slots -> Task] /\ \A i \in Slots : slots[i].state = "Empty"
    BY <1>1, <1>3
<1>6. boxes \in [Tasks -> Endpoint] /\ \A t \in Tasks : ~ boxes[t].open
    BY <1>1, <1>4
<1>7. \A t \in Tasks : Place(sched, t) = "Unknown"
    <2>1. sched.current = NoTask /\ sched.queue = <<>> /\ sched.blocked = <<>>
        BY <1>1 DEF NewScheduler
    <2>2. ASSUME NEW t \in Tasks
          PROVE  Place(sched, t) = "Unknown"
        <3>1. sched.current # t /\ ~ Contains(sched, t) /\ ~ ContainsBlocked(sched, t)
            BY <2>1, NoTaskAssumption DEF Contains, ContainsBlocked
        <3>2. QED
            BY <1>2, <3>1, PlaceIs
    <2>3. QED
        BY <2>2
<1>8. Core(sched, slots, boxes, nextId)
    <2>1. Ident(slots, nextId)
        BY <1>5 DEF Ident
    <2>2. Agree(sched, slots)
        BY <1>5, <1>7 DEF Agree
    <2>3. Owned(slots, boxes)
        BY <1>5, <1>6 DEF Owned, Alive
    <2>4. nextId \in Nat
        BY <1>1
    <2>5. QED
        BY <1>2, <1>5, <1>6, <2>1, <2>2, <2>3, <2>4 DEF Core
<1>9. Calm(sched, slots, boxes, mode)
    BY <1>5 DEF Calm, Waits, Pending
<1>10. QED
    BY <1>1, <1>8, <1>9 DEF KInv

LEMMA StutterKInv ==
    ASSUME KInv, UNCHANGED vars
    PROVE  KInv'
    BY DEF KInv, vars

LEMMA NextKInv ==
    ASSUME KInv, [Next]_vars
    PROVE  KInv'
<1>1. CASE KernelThread
    <2>1. ASSUME NEW p \in Tasks \cup {NoTask}, Spawn(p) PROVE KInv'
        BY <2>1, SpawnKInv
    <2>2. ASSUME NEW t \in Tasks, NEW preempt \in BOOLEAN, MarkRunning(t, preempt) PROVE KInv'
        BY <2>2, MarkRunningKInv
    <2>3. CASE EnterUser
        BY <2>3, EnterUserKInv
    <2>4. ASSUME NEW t \in Tasks, MarkExited(t) PROVE KInv'
        BY <2>4, MarkExitedKInv
    <2>5. ASSUME NEW t \in Tasks, NEW released \in BOOLEAN, CleanupTask(t, released) PROVE KInv'
        BY <2>5, CleanupTaskKInv
    <2>6. ASSUME NEW p \in Tasks, NEW c \in Tasks \cup {NoTask}, Reap(p, c) PROVE KInv'
        BY <2>6, ReapKInv
    <2>7. ASSUME NEW p \in Tasks, NEW c \in Tasks \cup {NoTask}, WaitForChild(p, c) PROVE KInv'
        BY <2>7, WaitForChildKInv
    <2>8. ASSUME NEW s \in Tasks, NEW r \in Tasks, KernelSend(s, r) PROVE KInv'
        BY <2>8, DeliverKInv DEF KernelSend
    <2>9. ASSUME NEW t \in Tasks, KernelReceive(t) PROVE KInv'
        BY <2>9, KernelReceiveKInv
    <2>10. ASSUME NEW t \in Tasks, KernelCancel(t) PROVE KInv'
        BY <2>10, CancelKInv DEF KernelCancel
    <2>11. QED
        BY <1>1, <2>1, <2>2, <2>3, <2>4, <2>5, <2>6, <2>7, <2>8, <2>9, <2>10 DEF KernelThread
<1>2. CASE SystemCall
    <2>1. ASSUME NEW t \in Tasks, NEW r \in Tasks, SysSend(t, r) PROVE KInv'
        BY <2>1, DeliverKInv DEF SysSend
    <2>2. ASSUME NEW t \in Tasks, NEW r \in Tasks, SysCancel(t, r) PROVE KInv'
        BY <2>2, CancelKInv DEF SysCancel
    <2>3. ASSUME NEW t \in Tasks, NEW timeout \in Timeouts \cup {NoTimeout},
                 NEW fits \in BOOLEAN, SysReceive(t, timeout, fits)
          PROVE  KInv'
        BY <2>3, SysReceiveKInv
    <2>4. ASSUME NEW t \in Tasks, SysRestart(t) PROVE KInv'
        BY <2>4, SysRestartKInv
    <2>5. CASE UserExit
        BY <2>5, UserExitKInv
    <2>6. QED
        BY <1>2, <2>1, <2>2, <2>3, <2>4, <2>5 DEF SystemCall
<1>3. CASE Timer
    BY <1>3, TickKInv, PreemptKInv DEF Timer
<1>4. CASE UNCHANGED vars
    BY <1>4, StutterKInv
<1>5. QED
    BY <1>1, <1>2, <1>3, <1>4 DEF Next

\* The inductive invariant holds in every state: the scheduler, the process
\* table and the endpoints agree, and, where no task waits for messages and
\* for a child at once, every wait can still be ended.
THEOREM KernelInvariant == Spec => []KInv
<1>1. Init => KInv
    BY InitKInv
<1>2. KInv /\ [Next]_vars => KInv'
    BY NextKInv
<1>3. QED
    BY <1>1, <1>2, PTL DEF Spec

\* Whatever order system calls, timer interrupts, exits and wake-ups come in,
\* the tables keep their types and the scheduler has every task of the
\* process table where its state says, and no other.
THEOREM TablesStayConsistent == Spec => []Consistent
<1>1. KInv => Consistent
    <2> SUFFICES ASSUME KInv PROVE Consistent
        OBVIOUS
    <2>1. /\ Good(sched) /\ slots \in [Slots -> Task] /\ boxes \in [Tasks -> Endpoint]
          /\ nextId \in Nat /\ Ident(slots, nextId) /\ Agree(sched, slots)
          /\ preempting \in BOOLEAN /\ mode \in {"kernel", "starting", "user"}
        BY KInvFacts
    <2>2. TypeOK
        BY <2>1, GoodTypes DEF TypeOK
    <2>3. ASSUME NEW t \in Tasks
          PROVE  SchedulerState(t) = IF Live(t) THEN TaskOf(t).state ELSE "Unknown"
        <3>1. SchedulerState(t) = Place(sched, t)
            BY DEF SchedulerState, Place
        <3>2. CASE Exists(t)
            <4> DEFINE i == Find(t)
            <4>1. /\ i \in Slots /\ slots[i].state # "Empty" /\ slots[i].id = t
                  /\ TaskOf(t) = slots[i]
                BY <2>1, <3>2, FindExists
            <4>2. Place(sched, t) = Shown(slots[i].state)
                BY <2>1, <4>1 DEF Agree
            <4> HIDE DEF i
            <4>3. QED
                BY <3>1, <3>2, <4>1, <4>2 DEF Live, Shown
        <3>3. CASE ~ Exists(t)
            <4>1. Place(sched, t) = "Unknown"
                BY <2>1, <3>3 DEF Agree, Exists
            <4>2. QED
                BY <3>1, <3>3, <4>1 DEF Live
        <3>4. QED
            BY <3>2, <3>3
    <2>4. QED
        BY <2>2, <2>3 DEF Consistent, TablesAgree
<1>2. QED
    BY <1>1, KernelInvariant, PTL

\* Exit, cleanup, reaping and the reuse of a slot leave no endpoint open
\* without an owner, and close none whose task still has its resources.
THEOREM EndpointsDoNotLeak == Spec => []NoEndpointLeak
<1>1. KInv => NoEndpointLeak
    <2> SUFFICES ASSUME KInv, NEW t \in Tasks
                 PROVE  boxes[t].open <=>
                           Cardinality({i \in Slots : /\ slots[i].state # "Empty"
                                                      /\ slots[i].id = t
                                                      /\ slots[i].resources}) = 1
        BY DEF NoEndpointLeak
    <2> DEFINE S == {i \in Slots : /\ slots[i].state # "Empty" /\ slots[i].id = t
                                   /\ slots[i].resources}
    <2>1. Ident(slots, nextId) /\ Owned(slots, boxes)
        BY KInvFacts
    <2>2. boxes[t].open <=> S # {}
        BY <2>1 DEF Owned
    <2>3. \A i, j \in S : i = j
        BY <2>1 DEF Ident
    <2> HIDE DEF S
    <2>4. S # {} => Cardinality(S) = 1
        <3> SUFFICES ASSUME S # {} PROVE Cardinality(S) = 1
            OBVIOUS
        <3>1. PICK i \in S : TRUE
            OBVIOUS
        <3>2. S = {i}
            BY <2>3, <3>1
        <3>3. QED
            BY <3>2, FS_Singleton
    <2>5. S = {} => Cardinality(S) = 0
        BY FS_EmptySet
    <2>6. boxes[t].open <=> Cardinality(S) = 1
        BY <2>2, <2>4, <2>5
    <2>7. QED
        BY <2>6 DEF S
<1>2. QED
    BY <1>1, KernelInvariant, PTL

\* What the invariant says of the entries of the table.
LEMMA Calmly ==
    ASSUME KInv, ~ MixedWaits, NEW i \in Slots, slots[i].state # "Empty"
    PROVE  /\ WaitOk(slots, slots[i], boxes[slots[i].id], mode)
           /\ Pending(slots[i], Clock) /\ slots[i].id \in Tasks /\ slots[i] \in Task
           /\ Alive(slots[i]) => boxes[slots[i].id].open
<1>1. /\ Waits(slots, boxes, mode) /\ \A j \in Slots : Pending(slots[j], sched.ticks)
      /\ Clock = sched.ticks /\ Ident(slots, nextId) /\ Owned(slots, boxes) /\ slots[i] \in Task
    BY KInvFacts
<1>2. slots[i].id \in Tasks
    BY <1>1 DEF Ident
<1>3. Alive(slots[i]) => boxes[slots[i].id].open
    BY <1>1, <1>2 DEF Owned
<1>4. QED
    BY <1>1, <1>2, <1>3 DEF Waits

\* A task that sleeps until a message arrives has an empty mailbox whose flag
\* makes the next send wake it: no wake-up is lost between system calls,
\* cancellations and the timer.
THEOREM WakeupsAreNotLost ==
    ASSUME ~ MixedWaits
    PROVE  Spec => []NoLostWakeup
<1>1. KInv => NoLostWakeup
    <2> SUFFICES ASSUME KInv, NEW i \in Slots, slots[i].state = "Blocked", slots[i].ipcWaiting
                 PROVE  /\ boxes[slots[i].id].open /\ boxes[slots[i].id].waiting
                        /\ boxes[slots[i].id].count = 0
        BY DEF NoLostWakeup
    <2>1. /\ WaitOk(slots, slots[i], boxes[slots[i].id], mode)
          /\ Alive(slots[i]) => boxes[slots[i].id].open
        BY Calmly
    <2>2. QED
        BY <2>1 DEF WaitOk, Listening, Alive
<1>2. QED
    BY <1>1, KernelInvariant, PTL

\* A task that can run is not marked as waiting, neither in the process table
\* nor at its endpoint, however its wait ended.
THEOREM WaitsLeaveNothing ==
    ASSUME ~ MixedWaits
    PROVE  Spec => []NoStaleWait
<1>1. KInv => NoStaleWait
    <2> SUFFICES ASSUME KInv, NEW i \in Slots, slots[i].state \in {"Ready", "Running"}
                 PROVE  /\ ~ slots[i].ipcWaiting /\ slots[i].waitTarget = NoTask
                        /\ ~ boxes[slots[i].id].waiting
        BY DEF NoStaleWait
    <2>1. WaitOk(slots, slots[i], boxes[slots[i].id], mode)
        BY Calmly
    <2>2. QED
        BY <2>1 DEF WaitOk, Idle
<1>2. QED
    BY <1>1, KernelInvariant, PTL

\* No receive outlives its deadline: the interrupt that reaches it wakes the
\* task, because the run queue always has room for it.
THEOREM DeadlinesAreKept ==
    ASSUME ~ MixedWaits
    PROVE  Spec => []DeadlinesKept
<1>1. KInv => DeadlinesKept
    <2> SUFFICES ASSUME KInv, NEW i \in Slots, slots[i].state = "Blocked", slots[i].ipcWaiting,
                        slots[i].deadline # 0
                 PROVE  Clock < slots[i].deadline
        BY DEF DeadlinesKept
    <2>1. Pending(slots[i], Clock)
        BY Calmly
    <2>2. QED
        BY <2>1 DEF Pending
<1>2. QED
    BY <1>1, KernelInvariant, PTL

\* A receiver woken by a message finds one when it executes its receive again.
THEOREM RestartFindsMessage ==
    ASSUME ~ MixedWaits
    PROVE  Spec => []MessageAwaitsRestart
<1>1. KInv => MessageAwaitsRestart
    <2> SUFFICES ASSUME KInv, NEW i \in Slots, mode = "user",
                        slots[i].state \in {"Ready", "Running"}, slots[i].context.at = "receive",
                        slots[i].reason \notin {"Timeout", "Cancelled"}
                 PROVE  boxes[slots[i].id].count > 0
        BY DEF MessageAwaitsRestart
    <2>1. WaitOk(slots, slots[i], boxes[slots[i].id], mode)
        BY Calmly
    <2>2. QED
        BY <2>1 DEF WaitOk
<1>2. QED
    BY <1>1, KernelInvariant, PTL

\* A parent that sleeps until a child exits waits for one of its own children
\* that has not exited: wake_waiting_parent never misses it.
THEOREM ParentsAreWoken ==
    ASSUME ~ MixedWaits
    PROVE  Spec => []NoForgottenParent
<1>1. KInv => NoForgottenParent
    <2> SUFFICES ASSUME KInv, NEW i \in Slots, slots[i].state = "Blocked", ~ slots[i].ipcWaiting
                 PROVE  /\ Live(slots[i].waitTarget)
                        /\ TaskOf(slots[i].waitTarget).parent = slots[i].id
        BY DEF NoForgottenParent
    <2>1. WaitOk(slots, slots[i], boxes[slots[i].id], mode)
        BY Calmly
    <2>2. PICK c \in Slots : /\ Alive(slots[c]) /\ slots[c].id = slots[i].waitTarget
                             /\ slots[c].parent = slots[i].id
        BY <2>1 DEF WaitOk, Attending, Awaits
    <2>3. Ident(slots, nextId) /\ slots[c].state # "Empty" /\ slots[c].state # "Exited"
        BY <2>2, KInvFacts DEF Alive
    <2>4. Exists(slots[i].waitTarget) /\ TaskOf(slots[i].waitTarget) = slots[c]
        BY <2>2, <2>3, FindIs
    <2>5. QED
        BY <2>2, <2>3, <2>4 DEF Live
<1>2. QED
    BY <1>1, KernelInvariant, PTL
=============================================================================
