----------------------------- MODULE Scheduler -----------------------------
(***************************************************************************)
(* The scheduler of src/scheduler.rs as a component: any interleaving of   *)
(* the calls the process table makes on it and of the timer interrupt.     *)
(* Each call runs with interrupts disabled, so it is one step.             *)
(***************************************************************************)
EXTENDS Sched

VARIABLE sched

Queued(s)  == {s.queue[i].task : i \in DOMAIN s.queue}
Blocked(s) == {s.blocked[i] : i \in DOMAIN s.blocked}

\* The tasks the scheduler knows of.
Known(s) == Queued(s) \cup Blocked(s) \cup ({s.current} \ {NoTask})

SchedInit == sched = NewScheduler

\* install_task enqueues a task it has just created: it is not blocked.
EnqueueTask(t) ==
    /\ t \notin Blocked(sched)
    /\ sched' = Enqueue(sched, t)

\* mark_running is called by the kernel thread, which starts a task only when
\* the one it started before has left the CPU.
Begin(t) ==
    /\ sched.current = NoTask
    /\ sched' = BeginTask(sched, t)

Finish(t) == sched' = FinishTask(sched, t)

Block(t) == sched' = BlockTask(sched, t)

BlockAndDispatch(t) == sched' = BlockCurrentAndDispatch(sched, t)

Wake(t) == sched' = WakeTask(sched, t)

\* A timer interrupt taken in kernel mode, or with preemption off.
ClockTick == sched' = OnTimerTick(sched)

\* A timer interrupt taken in user mode with preemption on.
TickAndPreempt ==
    /\ sched.current # NoTask
    /\ sched' = PreemptCurrent(OnTimerTick(sched))

SchedNext ==
    \/ \E t \in Tasks : \/ EnqueueTask(t)
                       \/ Begin(t)
                       \/ Finish(t)
                       \/ Block(t)
                       \/ BlockAndDispatch(t)
                       \/ Wake(t)
    \/ ClockTick
    \/ TickAndPreempt

SchedSpec == SchedInit /\ [][SchedNext]_sched

-----------------------------------------------------------------------------
(***************************************************************************)
(* The preemptive regime: user tasks have the CPU, so every timer          *)
(* interrupt may preempt, and tasks block and are woken by system calls.   *)
(* It is entered by starting a task.                                       *)
(***************************************************************************)
RegimeInit ==
    \E t \in Tasks : sched = BeginTask(NewScheduler, t)

RegimeNext ==
    \/ TickAndPreempt
    \/ \E t \in Tasks : EnqueueTask(t) \/ BlockAndDispatch(t) \/ Wake(t)

RegimeSpec == RegimeInit /\ [][RegimeNext]_sched

-----------------------------------------------------------------------------

SchedTypeOK == sched \in SchedState

\* A task is in one place: it has the CPU, or is queued once, or is blocked
\* once.  selftest() asks for it (queue_has_duplicates,
\* blocked_has_duplicates, queue_blocked_overlap), for the CPU as well.
OnePlace ==
    /\ \A i, j \in DOMAIN sched.queue :
          sched.queue[i].task = sched.queue[j].task => i = j
    /\ \A i, j \in DOMAIN sched.blocked :
          sched.blocked[i] = sched.blocked[j] => i = j
    /\ \A i \in DOMAIN sched.queue, j \in DOMAIN sched.blocked :
          sched.queue[i].task # sched.blocked[j]
    /\ ~ Contains(sched, sched.current)
    /\ ~ ContainsBlocked(sched, sched.current)

\* Neither list outgrows its array, although wake_task puts a task back on
\* the blocked list, and preempt_current on the run queue, without looking.
WithinCapacity ==
    /\ Len(sched.queue) <= QueueCapacity
    /\ Len(sched.blocked) <= QueueCapacity

\* The run queue is in the order in which its tasks became ready.
QueueOrdered ==
    /\ \A i, j \in DOMAIN sched.queue :
          i <= j => sched.queue[i].since <= sched.queue[j].since
    /\ \A i \in DOMAIN sched.queue : sched.queue[i].since <= sched.ticks

\* The arrays of the scheduler are sound in every order of calls: well typed,
\* within their bounds, and the run queue in the order of readiness.
ArraysSound == SchedTypeOK /\ WithinCapacity /\ QueueOrdered

\* The starvation guard of select_next_offset never takes another entry than
\* the head: starvation_preventions is never counted.
GuardNeverReorders == sched.queue # <<>> => SelectNextOffset(sched) = 1

\* The scheduler is a plain round-robin one: whatever the clock, the slices
\* and the starvation guard do, a dispatch (blocking handoff or preemption)
\* takes the task that has been ready longest, a preempted task goes to the
\* end of the line, and no task is forgotten or duplicated on the way.
LineOf(s) == [i \in DOMAIN s.queue |-> s.queue[i].task]

RR == INSTANCE RoundRobin WITH running <- sched.current,
                               line    <- LineOf(sched),
                               asleep  <- Blocked(sched)

ImplementsRoundRobin == RR!RRSpec

\* In the preemptive regime a ready task waits for at most one quantum per
\* place of the run queue.  run_preemption_test asks for max_wait_ticks to
\* stay within the starvation limit and one quantum.
WaitBounded ==
    \A i \in DOMAIN sched.queue : Waited(sched, i) <= QueueCapacity * Quantum
=============================================================================
