------------------------------ MODULE MCKernel ------------------------------
(***************************************************************************)
(* The kernel for TLC; every bound is a constant of Kernel.                *)
(***************************************************************************)
EXTENDS Kernel

\* All tasks have been spawned and the first runs, with preemption or
\* without: from here on only user tasks and the timer take steps.
Spawned == [i \in Slots |-> IF i = 1
                            THEN [NewTask(i, NoTask) EXCEPT !.state = "Running",
                                                            !.context = InProgram]
                            ELSE NewTask(i, NoTask)]

UserInit ==
    /\ slots = Spawned
    /\ boxes = [t \in Tasks |-> IF t <= MaxTasks THEN OpenBox ELSE ClosedBox]
    /\ sched = [NewScheduler EXCEPT
                  !.current = 1,
                  !.queue = [i \in 1 .. MaxTasks - 1 |-> [task |-> i + 1, since |-> 0]]]
    /\ mode = "user"
    /\ preempting \in BOOLEAN
    /\ nextId = MaxTasks + 1

UserNext == SystemCall \/ Timer

UserSpec == UserInit /\ [][UserNext]_vars /\ WF_vars(Timer)

\* The life of processes: spawning, running, exiting, cleaning up, waiting
\* for children and reaping, without messages and timer.
LifeNext ==
    \/ \E p \in Tasks \cup {NoTask} : Spawn(p)
    \/ \E t \in Tasks : MarkRunning(t, FALSE)
    \/ EnterUser
    \/ UserExit
    \/ \E t \in Tasks : MarkExited(t)
    \/ \E t \in Tasks, released \in BOOLEAN : CleanupTask(t, released)
    \/ \E p \in Tasks, c \in Tasks \cup {NoTask} : Reap(p, c) \/ WaitForChild(p, c)

=============================================================================
