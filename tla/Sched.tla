------------------------------- MODULE Sched -------------------------------
(***************************************************************************)
(* The operations of the kernel scheduler (src/scheduler.rs) as functions  *)
(* of the scheduler's state, a record                                      *)
(*    queue    the run queue, oldest entry first; `since' is ready_since   *)
(*    blocked  the blocked list                                            *)
(*    current  current_task, NoTask when it is 0                           *)
(*    ticks    timer_ticks                                                 *)
(*    slice    slice_ticks                                                 *)
(* The counters that are only reported (context_switches, wake_events ...) *)
(* are left out.  The array of the run queue is a sequence: `head' is      *)
(* never advanced by the code (remove_at shifts the entries instead), so   *)
(* the window [head, head+len) never wraps.                                *)
(*                                                                         *)
(* An operation that can fail is a pair: XOk(s, t), the Boolean the code   *)
(* returns, and X(s, t), the state it leaves, which is s when it fails.    *)
(***************************************************************************)
EXTENDS Naturals, Sequences

CONSTANTS Tasks,             \* task identifiers (u64, never 0)
          NoTask,            \* the identifier 0
          QueueCapacity,     \* QUEUE_CAPACITY
          Quantum,           \* DEFAULT_QUANTUM_TICKS
          StarvationLimit    \* STARVATION_LIMIT_TICKS

ASSUME NoTaskAssumption == NoTask \notin Tasks
ASSUME SchedBoundsAssumption == /\ QueueCapacity \in Nat \ {0}
                                /\ Quantum \in Nat \ {0}
                                /\ StarvationLimit \in Nat

QueueEntry == [task : Tasks, since : Nat]

SchedState == [queue   : Seq(QueueEntry),
               blocked : Seq(Tasks),
               current : Tasks \cup {NoTask},
               ticks   : Nat,
               slice   : Nat]

NewScheduler == [queue |-> <<>>, blocked |-> <<>>, current |-> NoTask,
                 ticks |-> 0, slice |-> 0]

-----------------------------------------------------------------------------
(* Searching and removing.                                                 *)

Contains(s, t) == \E i \in DOMAIN s.queue : s.queue[i].task = t

ContainsBlocked(s, t) == \E i \in DOMAIN s.blocked : s.blocked[i] = t

\* Mutant of RemoveAt: the last entry fills the gap.
RemoveAtSwaps(seq, k) ==
    [j \in 1 .. Len(seq) - 1 |-> IF j = k THEN seq[Len(seq)] ELSE seq[j]]

\* The entries of seq but the k-th, in order: remove_at's shift loop.
RemoveAt(seq, k) ==
    [j \in 1 .. Len(seq) - 1 |-> IF j < k THEN seq[j] ELSE seq[j + 1]]

\* The first position of t, as the loops of `remove' and `position' find it.
QueueIndex(s, t) ==
    CHOOSE i \in DOMAIN s.queue :
        /\ s.queue[i].task = t
        /\ \A j \in DOMAIN s.queue : s.queue[j].task = t => i <= j

BlockedIndex(s, t) ==
    CHOOSE i \in DOMAIN s.blocked :
        /\ s.blocked[i] = t
        /\ \A j \in DOMAIN s.blocked : s.blocked[j] = t => i <= j

Remove(s, t) ==
    IF Contains(s, t)
    THEN [s EXCEPT !.queue = RemoveAt(s.queue, QueueIndex(s, t))]
    ELSE s

RemoveBlocked(s, t) ==
    IF ContainsBlocked(s, t)
    THEN [s EXCEPT !.blocked = RemoveAt(s.blocked, BlockedIndex(s, t))]
    ELSE s

-----------------------------------------------------------------------------
(* The run queue.                                                          *)

EnqueueAtOk(s, t) ==
    /\ t # NoTask
    /\ \/ Contains(s, t)
       \/ s.current = t
       \/ Len(s.queue) < QueueCapacity

\* A task that is queued or current already is left where it is.
EnqueueAt(s, t, since) ==
    IF EnqueueAtOk(s, t) /\ ~ Contains(s, t) /\ s.current # t
    THEN [s EXCEPT !.queue = Append(@, [task |-> t, since |-> since])]
    ELSE s

Enqueue(s, t) == EnqueueAt(s, t, s.ticks)

\* timer_ticks.saturating_sub(ready_since)
Waited(s, i) == IF s.queue[i].since <= s.ticks
                THEN s.ticks - s.queue[i].since ELSE 0

\* The first of the entries that have waited longest.
LongestWaiting(s) ==
    CHOOSE i \in DOMAIN s.queue :
        \A j \in DOMAIN s.queue :
            /\ Waited(s, j) <= Waited(s, i)
            /\ Waited(s, j) = Waited(s, i) => i <= j

\* The head, unless some entry has waited for the starvation limit.
SelectNextOffset(s) ==
    IF \E i \in DOMAIN s.queue : Waited(s, i) >= StarvationLimit
    THEN LongestWaiting(s)
    ELSE 1

-----------------------------------------------------------------------------
(* Starting, finishing, blocking and waking a task.                        *)

\* Mutant of BeginTask: a task that is started stays on the blocked list.
BeginTaskStaysBlocked(s, t) ==
    [Remove(s, t) EXCEPT !.current = t, !.slice = 0]

BeginTask(s, t) ==
    [RemoveBlocked(Remove(s, t), t) EXCEPT !.current = t, !.slice = 0]

ClearCurrent(s, t) ==
    IF s.current = t THEN [s EXCEPT !.current = NoTask, !.slice = 0] ELSE s

\* Mutant of FinishTask: a task that ends while blocked stays on the list.
FinishTaskStaysBlocked(s, t) == Remove(ClearCurrent(s, t), t)

FinishTask(s, t) == RemoveBlocked(Remove(ClearCurrent(s, t), t), t)

BlockTaskOk(s, t) ==
    /\ t # NoTask
    /\ \/ ContainsBlocked(s, t)
       \/ /\ Len(s.blocked) < QueueCapacity
          /\ s.current = t \/ Contains(s, t)

BlockTask(s, t) ==
    IF BlockTaskOk(s, t) /\ ~ ContainsBlocked(s, t)
    THEN [(IF s.current = t THEN ClearCurrent(s, t) ELSE Remove(s, t))
              EXCEPT !.blocked = Append(@, t)]
    ELSE s

DispatchOk(s, t) ==
    /\ t # NoTask
    /\ s.current = t
    /\ Len(s.queue) # 0
    /\ Len(s.blocked) < QueueCapacity

\* The task that the next dispatch takes from the run queue.
NextTask(s) == s.queue[SelectNextOffset(s)].task

\* Mutant of BlockCurrentAndDispatch: the task that blocks is forgotten.
BlockCurrentForgets(s, t) ==
    IF DispatchOk(s, t)
    THEN [s EXCEPT !.queue   = RemoveAt(@, SelectNextOffset(s)),
                   !.current = NextTask(s),
                   !.slice   = 0]
    ELSE s

\* block_current_and_dispatch: t blocks and the next task gets the CPU.
BlockCurrentAndDispatch(s, t) ==
    IF DispatchOk(s, t)
    THEN [s EXCEPT !.queue   = RemoveAt(@, SelectNextOffset(s)),
                   !.blocked = Append(@, t),
                   !.current = NextTask(s),
                   !.slice   = 0]
    ELSE s

WakeTaskOk(s, t) ==
    /\ t # NoTask
    /\ \/ s.current = t
       \/ Contains(s, t)
       \/ ContainsBlocked(s, t) /\ EnqueueAtOk(RemoveBlocked(s, t), t)

\* Mutant of WakeTask: ready_since is left at zero.
WakeTaskFromZero(s, t) ==
    IF t = NoTask \/ s.current = t \/ Contains(s, t) \/ ~ ContainsBlocked(s, t)
    THEN s
    ELSE EnqueueAt(RemoveBlocked(s, t), t, 0)

\* A woken task that does not fit in the run queue goes to the end of the
\* blocked list.
WakeTask(s, t) ==
    LET r == RemoveBlocked(s, t) IN
    CASE t = NoTask \/ s.current = t \/ Contains(s, t)
            \/ ~ ContainsBlocked(s, t)    -> s
      [] OTHER -> IF EnqueueAtOk(r, t)
                  THEN EnqueueAt(r, t, s.ticks)
                  ELSE [r EXCEPT !.blocked = Append(@, t)]

-----------------------------------------------------------------------------
(* The timer.                                                              *)

OnTimerTick(s) ==
    [s EXCEPT !.ticks = @ + 1,
              !.slice = IF s.current # NoTask THEN @ + 1 ELSE @]

\* Mutant of PreemptOk: a task runs for one tick more than its quantum.
PreemptOkLate(s) ==
    /\ s.current # NoTask
    /\ Len(s.queue) # 0
    /\ s.slice > Quantum

PreemptOk(s) ==
    /\ s.current # NoTask
    /\ Len(s.queue) # 0
    /\ s.slice >= Quantum

\* The preempted task goes to the tail.  When it does not fit, it keeps the
\* CPU and the entry taken from the queue goes back, at the tail.
PreemptCurrent(s) ==
    LET k    == SelectNextOffset(s)
        next == s.queue[k]
        r    == [s EXCEPT !.queue = RemoveAt(@, k), !.current = NoTask]
        back == [r EXCEPT !.current = s.current]
    IN  IF ~ PreemptOk(s) THEN s
        ELSE IF EnqueueAtOk(r, s.current)
        THEN [EnqueueAt(r, s.current, s.ticks)
                 EXCEPT !.current = next.task, !.slice = 0]
        ELSE EnqueueAt(back, next.task, next.since)
=============================================================================
