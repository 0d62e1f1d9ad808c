------------------------------- MODULE Kernel -------------------------------
(***************************************************************************)
(* Processes, blocking IPC and the timer: the process table                *)
(* (src/process.rs), the mailboxes and their wake-ups (the public          *)
(* functions of src/ipc.rs), the system calls (src/syscall.rs) and the     *)
(* timer interrupt (src/interrupts.rs), composed with the scheduler, whose *)
(* state is the variable sched of module Scheduler.                        *)
(*                                                                         *)
(* There is one CPU.  Either the kernel thread has it (the shell and the   *)
(* run_* programs it starts), or user tasks have it, switching among       *)
(* themselves by blocking system calls and preemption until one of them    *)
(* exits, faults or is stopped by the timer, which returns to the kernel   *)
(* thread.  System calls and interrupt handlers run with interrupts off    *)
(* and the kernel thread calls the tables with interrupts off, so each of  *)
(* them is one step.                                                       *)
(*                                                                         *)
(* The capability checks of the system calls are in module Capability:     *)
(* here a task may name any endpoint that is open.  Of a mailbox only the  *)
(* number of messages is kept.                                             *)
(***************************************************************************)
EXTENDS Scheduler, FiniteSets

CONSTANTS MaxTasks,       \* MAX_TASKS, the slots of the process table
          QueueDepth,     \* QUEUE_DEPTH
          Timeouts,       \* the timeouts, in ticks, that programs ask for
          NoTimeout,      \* a receive without timeout
          MaxTicks,       \* bound on the clock
          MixedWaits      \* may a task that has children wait for messages?

\* Task identifiers are given out in order and never again.
ASSUME KernelAssumption ==
    /\ NoTask = 0 /\ Tasks \subseteq Nat
    /\ MaxTasks \in Nat \ {0} /\ QueueDepth \in Nat
    /\ Timeouts \subseteq Nat /\ NoTimeout \notin Nat
    /\ MixedWaits \in BOOLEAN

\* MAX_TASKS and QUEUE_CAPACITY are both 8.
ASSUME TasksFitAssumption == MaxTasks <= QueueCapacity

Slots == 1 .. MaxTasks

VARIABLES slots,       \* the process table
          boxes,       \* the endpoint of each task
          mode,        \* who has the CPU
          preempting,  \* preemption_active
          nextId       \* next_task_id

vars == <<sched, slots, boxes, mode, preempting, nextId>>

\* The system call that a task was blocked in and will execute again.
NotYetRun == [at |-> "entry", timeout |-> NoTimeout, fits |-> TRUE]
InProgram == [at |-> "program", timeout |-> NoTimeout, fits |-> TRUE]
Restart(timeout, fits) == [at |-> "receive", timeout |-> timeout, fits |-> fits]

EmptySlot == [id |-> NoTask, parent |-> NoTask, state |-> "Empty",
              resources |-> FALSE, cleaned |-> FALSE, waitTarget |-> NoTask,
              ipcWaiting |-> FALSE, restartPending |-> FALSE, deadline |-> 0,
              reason |-> "None", context |-> NotYetRun]

NewTask(id, parent) == [EmptySlot EXCEPT !.id = id, !.parent = parent,
                                         !.state = "Ready", !.resources = TRUE]

ClosedBox == [open |-> FALSE, waiting |-> FALSE, count |-> 0]
OpenBox   == [ClosedBox EXCEPT !.open = TRUE]

Init ==
    /\ sched = NewScheduler
    /\ slots = [i \in Slots |-> EmptySlot]
    /\ boxes = [t \in Tasks |-> ClosedBox]
    /\ mode = "kernel"
    /\ preempting = FALSE
    /\ nextId = 1

Clock == sched.ticks

-----------------------------------------------------------------------------
(* The process table.                                                      *)

Exists(t) == \E i \in Slots : slots[i].state # "Empty" /\ slots[i].id = t

\* find_task
Find(t) == CHOOSE i \in Slots :
               /\ slots[i].state # "Empty" /\ slots[i].id = t
               /\ \A j \in Slots :
                     (slots[j].state # "Empty" /\ slots[j].id = t) => i <= j

TaskOf(t) == slots[Find(t)]

Live(t) == Exists(t) /\ TaskOf(t).state # "Exited"

\* Mutant of Recyclable: the slot of a task that was not cleaned up is taken.
RecyclableUncleaned(i) ==
    \/ slots[i].state = "Empty"
    \/ slots[i].state = "Exited" /\ slots[i].parent = NoTask

Recyclable(i) ==
    \/ slots[i].state = "Empty"
    \/ /\ slots[i].state = "Exited"
       /\ ~ slots[i].resources
       /\ slots[i].parent = NoTask

\* free_slot
IsFreeSlot(i) ==
    /\ Recyclable(i)
    /\ \A j \in Slots : j < i => ~ Recyclable(j)

HasChildren(t) == \E i \in Slots : slots[i].state # "Empty" /\ slots[i].parent = t

\* No program of the kernel lets one task wait for messages and for a child.
MaySpawnChild(p) == p # NoTask => (Live(p) /\ (MixedWaits \/ ~ TaskOf(p).ipcWaiting))
MayWaitForMessage(t) == MixedWaits \/ ~ HasChildren(t)

\* A spawn that fails frees what it took and leaves everything as it was.
Spawn(parent) ==
    /\ mode = "kernel"
    /\ nextId \in Tasks
    /\ MaySpawnChild(parent)
    /\ \E i \in Slots :
          /\ IsFreeSlot(i)
          /\ slots' = [slots EXCEPT ![i] = NewTask(nextId, parent)]
    /\ boxes' = [boxes EXCEPT ![nextId] = OpenBox]
    /\ sched' = Enqueue(sched, nextId)
    /\ nextId' = nextId + 1
    /\ UNCHANGED <<mode, preempting>>

\* A program of the kernel starts one of its tasks when no earlier run is
\* unfinished: the other tasks have exited or have not run yet.
MarkRunning(t, preempt) ==
    /\ mode = "kernel"
    /\ Exists(t) /\ TaskOf(t).state = "Ready"
    /\ sched.current = NoTask
    /\ \A i \in Slots : \/ slots[i].state \in {"Empty", "Exited"}
                        \/ slots[i].context = NotYetRun
    /\ slots' = [slots EXCEPT ![Find(t)].state = "Running",
                              ![Find(t)].context = InProgram]
    /\ sched' = BeginTask(sched, t)
    /\ preempting' = preempt
    /\ mode' = "starting"
    /\ UNCHANGED <<boxes, nextId>>

EnterUser ==
    /\ mode = "starting"
    /\ mode' = "user"
    /\ UNCHANGED <<sched, slots, boxes, preempting, nextId>>

\* Mutant of ParentWakes: only a parent that waits for no child in particular.
ParentWakesForAny(s, p, t) ==
    /\ p # NoTask /\ Exists(p)
    /\ TaskOf(p).state = "Blocked"
    /\ TaskOf(p).waitTarget = NoTask
    /\ WakeTaskOk(s, p)

ParentWakes(s, p, t) ==
    /\ p # NoTask /\ Exists(p)
    /\ TaskOf(p).state = "Blocked"
    /\ TaskOf(p).waitTarget \in {NoTask, t}
    /\ WakeTaskOk(s, p)

ExitedTask(task) ==
    [task EXCEPT !.state = "Exited", !.ipcWaiting = FALSE,
                 !.restartPending = FALSE, !.deadline = 0, !.reason = "None"]

\* mark_exited, with wake_waiting_parent
MarkExited(t) ==
    LET p == TaskOf(t).parent
        s == FinishTask(sched, t)
        exited == [slots EXCEPT ![Find(t)] = ExitedTask(@)]
    IN  /\ mode = "kernel"
        /\ Live(t)
        /\ \/ /\ ParentWakes(s, p, t)
              /\ sched' = WakeTask(s, p)
              /\ slots' = [exited EXCEPT ![Find(p)].state = "Ready",
                                         ![Find(p)].waitTarget = NoTask]
           \/ /\ ~ ParentWakes(s, p, t)
              /\ sched' = s
              /\ slots' = exited
        /\ UNCHANGED <<boxes, mode, preempting, nextId>>

\* The heap block and the address space may fail to be released.
CleanupTask(t, released) ==
    /\ mode = "kernel"
    /\ Exists(t) /\ TaskOf(t).state = "Exited" /\ TaskOf(t).resources
    /\ slots' = [slots EXCEPT ![Find(t)].resources = FALSE,
                              ![Find(t)].cleaned = released]
    /\ boxes' = [boxes EXCEPT ![t] = ClosedBox]
    /\ UNCHANGED <<sched, mode, preempting, nextId>>

\* The slot that find_child returns: an exited child that was cleaned up, if
\* there is one, or the first child.
IsChild(i, p, c) ==
    /\ slots[i].state # "Empty" /\ slots[i].parent = p
    /\ c # NoTask => slots[i].id = c

Finished(i) == slots[i].state = "Exited" /\ ~ slots[i].resources

FindsChild(i, p, c) ==
    /\ IsChild(i, p, c)
    /\ \A j \in Slots : IsChild(j, p, c) =>
          \/ Finished(i) /\ (Finished(j) => i <= j)
          \/ ~ Finished(i) /\ ~ Finished(j) /\ i <= j

Reap(p, c) ==
    /\ mode = "kernel"
    /\ Live(p)
    /\ \E i \in Slots :
          /\ FindsChild(i, p, c)
          /\ Finished(i) /\ slots[i].cleaned
          /\ slots' = [slots EXCEPT ![i] = EmptySlot]
    /\ UNCHANGED <<sched, boxes, mode, preempting, nextId>>

WaitForChild(p, c) ==
    /\ mode = "kernel"
    /\ Live(p)
    /\ MixedWaits \/ ~ TaskOf(p).ipcWaiting
    /\ \E i \in Slots :
          /\ FindsChild(i, p, c)
          /\ slots[i].state # "Exited"
          /\ BlockTaskOk(sched, p)
          /\ slots' = [slots EXCEPT ![Find(p)].state = "Blocked",
                                    ![Find(p)].waitTarget = slots[i].id]
    /\ sched' = BlockTask(sched, p)
    /\ UNCHANGED <<boxes, mode, preempting, nextId>>

-----------------------------------------------------------------------------
(* Mailboxes.                                                              *)

CanWake(t) ==
    /\ Exists(t)
    /\ TaskOf(t).state = "Blocked" /\ TaskOf(t).ipcWaiting
    /\ WakeTaskOk(sched, t)

Woken(task, why) == [task EXCEPT !.state = "Ready", !.ipcWaiting = FALSE,
                                 !.deadline = 0, !.reason = why]

HasRoom(r) == boxes[r].open /\ boxes[r].count < QueueDepth

\* ipc::send and send_capability: the message is queued, and stays queued
\* (WakeFailed) when the receiver is waiting but cannot be woken.
Deliver(sender, r) ==
    LET wakes  == boxes[r].waiting /\ CanWake(r)
        failed == boxes[r].waiting /\ ~ CanWake(r)
    IN  /\ boxes[sender].open
        /\ HasRoom(r)
        /\ boxes' = [boxes EXCEPT ![r].count = @ + 1, ![r].waiting = failed]
        /\ sched' = IF wakes THEN WakeTask(sched, r) ELSE sched
        /\ slots' = IF wakes THEN [slots EXCEPT ![Find(r)] = Woken(@, "Message")]
                    ELSE slots

\* Mutant of Cancel: the endpoint is still marked as waiting.
CancelKeepsFlag(t) ==
    /\ boxes[t].open
    /\ CanWake(t)
    /\ sched' = WakeTask(sched, t)
    /\ slots' = [slots EXCEPT ![Find(t)] = Woken(@, "Cancelled")]
    /\ UNCHANGED boxes

\* cancel_wait
Cancel(t) ==
    /\ boxes[t].open
    /\ CanWake(t)
    /\ sched' = WakeTask(sched, t)
    /\ slots' = [slots EXCEPT ![Find(t)] = Woken(@, "Cancelled")]
    /\ boxes' = [boxes EXCEPT ![t].waiting = FALSE]

Take(t) == [boxes EXCEPT ![t].count = @ - 1]

\* The kernel thread sends and cancels on behalf of a task ...
KernelSend(s, r) ==
    /\ mode = "kernel"
    /\ Deliver(s, r)
    /\ UNCHANGED <<mode, preempting, nextId>>

KernelCancel(t) ==
    /\ mode = "kernel"
    /\ Cancel(t)
    /\ UNCHANGED <<mode, preempting, nextId>>

\* ... and receives for a task that is ready: ipc::receive with
\* block_when_empty, which blocks the task when there is no message.
KernelReceive(t) ==
    /\ mode = "kernel"
    /\ Exists(t) /\ TaskOf(t).state = "Ready" /\ boxes[t].open
    /\ MayWaitForMessage(t)
    /\ \/ /\ boxes[t].count > 0
          /\ boxes' = Take(t)
          /\ UNCHANGED <<sched, slots>>
       \/ /\ boxes[t].count = 0
          /\ TaskOf(t).waitTarget = NoTask /\ ~ TaskOf(t).ipcWaiting
          /\ BlockTaskOk(sched, t)
          /\ boxes' = [boxes EXCEPT ![t].waiting = TRUE]
          /\ sched' = BlockTask(sched, t)
          /\ slots' = [slots EXCEPT ![Find(t)].state = "Blocked",
                                    ![Find(t)].ipcWaiting = TRUE,
                                    ![Find(t)].deadline = 0,
                                    ![Find(t)].reason = "None"]
    /\ UNCHANGED <<mode, preempting, nextId>>

-----------------------------------------------------------------------------
(* System calls of the running task.                                       *)

\* The task executes a system call of its own choice, or returns to its
\* program from the one it is in.
Executes(t) ==
    /\ mode = "user"
    /\ t = sched.current
    /\ TaskOf(t).context.at = "program"

SysSend(t, r) ==
    /\ Executes(t)
    /\ Deliver(t, r)
    /\ UNCHANGED <<mode, preempting, nextId>>

SysCancel(t, r) ==
    /\ Executes(t)
    /\ Cancel(r)
    /\ UNCHANGED <<mode, preempting, nextId>>

\* The exit system call, and a fault of the task, return to the kernel thread.
UserExit ==
    /\ mode = "user"
    /\ mode' = "kernel"
    /\ UNCHANGED <<sched, slots, boxes, preempting, nextId>>

\* Back in the program: the wake reason has been taken.
Returned(task) == [task EXCEPT !.reason = "None", !.context = InProgram]

Completed(task) == [Returned(task) EXCEPT !.restartPending = FALSE]

\* Next gets the CPU; a task that has not run starts its program.
Dispatched(task) ==
    [task EXCEPT !.state = "Running",
                 !.context = IF @ = NotYetRun THEN InProgram ELSE @]

MayBlock(t) ==
    /\ TaskOf(t).state = "Running"
    /\ TaskOf(t).waitTarget = NoTask
    /\ ~ TaskOf(t).ipcWaiting
    /\ ~ TaskOf(t).restartPending
    /\ DispatchOk(sched, t)

BlockedReceiver(task, timeout, fits) ==
    [task EXCEPT !.state = "Blocked", !.ipcWaiting = TRUE,
                 !.restartPending = TRUE, !.reason = "None",
                 !.deadline = IF timeout = NoTimeout THEN 0 ELSE Clock + timeout,
                 !.context = Restart(timeout, fits)]

\* Mutant of BlockAndSwitch: the endpoint is not marked as waiting.
BlockAndSwitchUnmarked(t, timeout, fits) ==
    LET next == NextTask(sched) IN
    /\ MayBlock(t)
    /\ slots' = [slots EXCEPT ![Find(t)] = BlockedReceiver(@, timeout, fits),
                              ![Find(next)] = Dispatched(@)]
    /\ sched' = BlockCurrentAndDispatch(sched, t)
    /\ UNCHANGED boxes

\* block_syscall: the task blocks, the next one runs, and the task will
\* execute its receive again.
BlockAndSwitch(t, timeout, fits) ==
    LET next == NextTask(sched) IN
    /\ MayBlock(t)
    /\ boxes' = [boxes EXCEPT ![t].waiting = TRUE]
    /\ slots' = [slots EXCEPT ![Find(t)] = BlockedReceiver(@, timeout, fits),
                              ![Find(next)] = Dispatched(@)]
    /\ sched' = BlockCurrentAndDispatch(sched, t)

\* syscall_ipc_receive_common: `fits' tells whether the buffer is large
\* enough for the message in front.
Receive(t, timeout, fits) ==
    LET i == Find(t)
        ended == slots[i].reason \in {"Timeout", "Cancelled"}
        empty == boxes[t].count = 0
    IN  \/ /\ ended
           /\ slots' = [slots EXCEPT ![i] = Completed(@)]
           /\ UNCHANGED <<sched, boxes>>
        \/ /\ ~ ended /\ ~ empty /\ fits
           /\ slots' = [slots EXCEPT ![i] = [Completed(@) EXCEPT !.deadline = 0]]
           /\ boxes' = Take(t)
           /\ UNCHANGED sched
        \/ /\ ~ ended /\ ~ empty /\ ~ fits
           /\ slots' = [slots EXCEPT ![i] = Returned(@)]
           /\ UNCHANGED <<sched, boxes>>
        \/ /\ ~ ended /\ empty /\ timeout = 0
           /\ slots' = [slots EXCEPT ![i] = Returned(@)]
           /\ UNCHANGED <<sched, boxes>>
        \/ /\ ~ ended /\ empty /\ timeout # 0
           /\ BlockAndSwitch(t, timeout, fits)
        \/ /\ ~ ended /\ empty /\ timeout # 0
           /\ ~ MayBlock(t)
           /\ slots' = [slots EXCEPT ![i] = Returned(@)]
           /\ boxes' = [boxes EXCEPT ![t].waiting = FALSE]
           /\ UNCHANGED sched

SysReceive(t, timeout, fits) ==
    /\ Executes(t)
    /\ MayWaitForMessage(t)
    /\ Receive(t, timeout, fits)
    /\ UNCHANGED <<mode, preempting, nextId>>

\* A task that was blocked in a receive executes it again.
SysRestart(t) ==
    /\ mode = "user"
    /\ t = sched.current
    /\ TaskOf(t).context.at = "receive"
    /\ Receive(t, TaskOf(t).context.timeout, TaskOf(t).context.fits)
    /\ UNCHANGED <<mode, preempting, nextId>>

-----------------------------------------------------------------------------
(* The timer interrupt.                                                    *)

\* Mutant of Expired: the deadline itself is not late enough.
ExpiredLate(task, now) ==
    /\ task.state = "Blocked" /\ task.ipcWaiting
    /\ task.deadline # 0 /\ now > task.deadline

Expired(task, now) ==
    /\ task.state = "Blocked" /\ task.ipcWaiting
    /\ task.deadline # 0 /\ now >= task.deadline

\* Mutant of ExpireSlot: a timeout is reported as a message.
ExpireSlotAsMessage(x, i, now) ==
    IF Expired(x.slots[i], now) /\ WakeTaskOk(x.sched, x.slots[i].id)
    THEN [sched |-> WakeTask(x.sched, x.slots[i].id),
          slots |-> [x.slots EXCEPT ![i] = Woken(@, "Message")],
          boxes |-> [x.boxes EXCEPT ![x.slots[i].id].waiting = FALSE]]
    ELSE x

\* expire_ipc_deadlines: the slots in order, each on what the ones before it
\* left.  x is [sched, slots, boxes].
ExpireSlot(x, i, now) ==
    IF Expired(x.slots[i], now) /\ WakeTaskOk(x.sched, x.slots[i].id)
    THEN [sched |-> WakeTask(x.sched, x.slots[i].id),
          slots |-> [x.slots EXCEPT ![i] = Woken(@, "Timeout")],
          boxes |-> [x.boxes EXCEPT ![x.slots[i].id].waiting = FALSE]]
    ELSE x

\* Mutant of AfterTick: the last slot is not looked at.
AfterTickButLast ==
    LET ticked == [sched |-> OnTimerTick(sched), slots |-> slots, boxes |-> boxes]
        upTo[i \in 0 .. MaxTasks] ==
            IF i = 0 THEN ticked ELSE ExpireSlot(upTo[i - 1], i, Clock + 1)
    IN  upTo[MaxTasks - 1]

AfterTick ==
    LET ticked == [sched |-> OnTimerTick(sched), slots |-> slots, boxes |-> boxes]
        upTo[i \in 0 .. MaxTasks] ==
            IF i = 0 THEN ticked ELSE ExpireSlot(upTo[i - 1], i, Clock + 1)
    IN  upTo[MaxTasks]

Tick(x) ==
    /\ sched.ticks < MaxTicks
    /\ boxes' = x.boxes
    /\ UNCHANGED <<preempting, nextId>>

\* Taken in the kernel, or in a user task with preemption off.
TimerTick ==
    LET x == AfterTick IN
    /\ mode # "user" \/ ~ preempting
    /\ Tick(x)
    /\ sched' = x.sched
    /\ slots' = x.slots
    /\ UNCHANGED mode

\* Taken in a user task with preemption on: the task may be preempted.
TimerPreempt ==
    LET x    == AfterTick
        s    == PreemptCurrent(x.sched)
        prev == Find(sched.current)
        next == Find(s.current)
    IN  /\ mode = "user" /\ preempting
        /\ Tick(x)
        /\ sched' = s
        /\ slots' = IF prev = next THEN x.slots
                    ELSE [x.slots EXCEPT ![prev].state = "Ready",
                                         ![next] = Dispatched(@)]
        /\ UNCHANGED mode

\* The preemption test has seen enough switches (preemption_target).
TimerStop ==
    LET x == AfterTick IN
    /\ mode = "user" /\ preempting
    /\ Tick(x)
    /\ sched' = x.sched
    /\ slots' = x.slots
    /\ mode' = "kernel"

-----------------------------------------------------------------------------

KernelThread ==
    \/ \E p \in Tasks \cup {NoTask} : Spawn(p)
    \/ \E t \in Tasks, preempt \in BOOLEAN : MarkRunning(t, preempt)
    \/ EnterUser
    \/ \E t \in Tasks : MarkExited(t)
    \/ \E t \in Tasks, released \in BOOLEAN : CleanupTask(t, released)
    \/ \E p \in Tasks, c \in Tasks \cup {NoTask} : Reap(p, c) \/ WaitForChild(p, c)
    \/ \E s, r \in Tasks : KernelSend(s, r)
    \/ \E t \in Tasks : KernelReceive(t) \/ KernelCancel(t)

SystemCall ==
    \/ \E t, r \in Tasks : SysSend(t, r) \/ SysCancel(t, r)
    \/ \E t \in Tasks, timeout \in Timeouts \cup {NoTimeout}, fits \in BOOLEAN :
          SysReceive(t, timeout, fits)
    \/ \E t \in Tasks : SysRestart(t)
    \/ UserExit

Timer == TimerTick \/ TimerPreempt \/ TimerStop

Next == KernelThread \/ SystemCall \/ Timer

Spec == Init /\ [][Next]_vars

-----------------------------------------------------------------------------

States  == {"Empty", "Ready", "Running", "Blocked", "Exited"}
Reasons == {"None", "Message", "Timeout", "Cancelled"}

Contexts == [at : {"entry", "program", "receive"},
             timeout : Timeouts \cup {NoTimeout}, fits : BOOLEAN]

Task == [id : Tasks \cup {NoTask}, parent : Tasks \cup {NoTask}, state : States,
         resources : BOOLEAN, cleaned : BOOLEAN, waitTarget : Tasks \cup {NoTask},
         ipcWaiting : BOOLEAN, restartPending : BOOLEAN, deadline : Nat,
         reason : Reasons, context : Contexts]

Endpoint == [open : BOOLEAN, waiting : BOOLEAN, count : 0 .. QueueDepth]

TypeOK ==
    /\ sched \in SchedState
    /\ slots \in [Slots -> Task]
    /\ boxes \in [Tasks -> Endpoint]
    /\ mode \in {"kernel", "starting", "user"}
    /\ preempting \in BOOLEAN
    /\ nextId \in Nat

SchedulerState(t) ==
    CASE sched.current = t         -> "Running"
      [] Contains(sched, t)        -> "Ready"
      [] ContainsBlocked(sched, t) -> "Blocked"
      [] OTHER                     -> "Unknown"

\* The process table and the scheduler agree on every task, whatever order
\* system calls, timer interrupts, exits and wake-ups come in.
TablesAgree ==
    \A t \in Tasks :
        SchedulerState(t) = IF Live(t) THEN TaskOf(t).state ELSE "Unknown"

\* The tables are well formed and agree with each other.
Consistent == TypeOK /\ TablesAgree

\* No wake-up is lost: a task that sleeps until a message arrives has an
\* empty mailbox whose flag makes the next send wake it.
NoLostWakeup ==
    \A i \in Slots :
        (slots[i].state = "Blocked" /\ slots[i].ipcWaiting) =>
            /\ boxes[slots[i].id].open
            /\ boxes[slots[i].id].waiting
            /\ boxes[slots[i].id].count = 0

\* Nothing is left of a wait that is over: only a blocked task is marked as
\* waiting for a message, in the process table and at its endpoint.
\* run_ipc_test asks a woken receiver to be Ready and not ipc_waiting.
NoStaleWait ==
    \A i \in Slots : slots[i].state \in {"Ready", "Running"} =>
        /\ ~ slots[i].ipcWaiting
        /\ slots[i].waitTarget = NoTask
        /\ ~ boxes[slots[i].id].waiting

\* A timed receive that is still blocked has not reached its deadline.
DeadlinesKept ==
    \A i \in Slots :
        (slots[i].state = "Blocked" /\ slots[i].ipcWaiting /\ slots[i].deadline # 0)
            => Clock < slots[i].deadline

\* A receiver woken by a message finds one when it executes its receive
\* again, however late it gets the CPU: it never blocks twice.
MessageAwaitsRestart ==
    \A i \in Slots :
        ( /\ mode = "user"
          /\ slots[i].state \in {"Ready", "Running"}
          /\ slots[i].context.at = "receive"
          /\ slots[i].reason \notin {"Timeout", "Cancelled"} )
        => boxes[slots[i].id].count > 0

\* A parent that sleeps until a child exits waits for one that still can.
NoForgottenParent ==
    \A i \in Slots :
        (slots[i].state = "Blocked" /\ ~ slots[i].ipcWaiting) =>
            Live(slots[i].waitTarget) /\ TaskOf(slots[i].waitTarget).parent = slots[i].id

\* Every open endpoint belongs to exactly one task that still has its
\* resources: none leaks through exit, cleanup, reaping or slot reuse.
NoEndpointLeak ==
    \A t \in Tasks :
        boxes[t].open <=> Cardinality({i \in Slots : /\ slots[i].state # "Empty"
                                                     /\ slots[i].id = t
                                                     /\ slots[i].resources}) = 1

\* A timed receive ends: its task leaves the blocked state by the time the
\* clock has reached the deadline, whatever everybody else does.
TimedReceiveEnds ==
    \A i \in Slots, d \in 1 .. MaxTicks :
        (slots[i].state = "Blocked" /\ slots[i].ipcWaiting /\ slots[i].deadline = d)
            ~> (slots[i].state # "Blocked")
=============================================================================
