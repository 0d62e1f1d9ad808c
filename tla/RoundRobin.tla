----------------------------- MODULE RoundRobin -----------------------------
(***************************************************************************)
(* What the scheduler promises, without clocks, time slices and starvation *)
(* guard: one task runs, the ready ones wait in line, and whoever gives up *)
(* the CPU is followed by the first in line.                               *)
(***************************************************************************)
EXTENDS Naturals, Sequences

CONSTANTS Tasks, NoTask, QueueCapacity

VARIABLES running,    \* the task that has the CPU, or NoTask
          line,       \* the ready tasks, first in line first
          asleep      \* the set of blocked tasks

rrVars == <<running, line, asleep>>

InLine(t) == \E k \in DOMAIN line : line[k] = t

\* line without its k-th member
LineWithout(k) ==
    [j \in 1 .. Len(line) - 1 |-> IF j < k THEN line[j] ELSE line[j + 1]]

\* line loses t, which may not be in it
LeavesLine(t) ==
    \/ \E k \in DOMAIN line : line[k] = t /\ line' = LineWithout(k)
    \/ ~ InLine(t) /\ line' = line

RRInit == running = NoTask /\ line = <<>> /\ asleep = {}

\* A task nobody knows of joins the line.
Admit(t) ==
    /\ t # running /\ t \notin asleep /\ ~ InLine(t)
    /\ Len(line) < QueueCapacity
    /\ line' = Append(line, t)
    /\ UNCHANGED <<running, asleep>>

\* The kernel gives the idle CPU to a task of its choice.
Start(t) ==
    /\ running = NoTask
    /\ running' = t
    /\ LeavesLine(t)
    /\ asleep' = asleep \ {t}

Finish(t) ==
    /\ running' = IF running = t THEN NoTask ELSE running
    /\ LeavesLine(t)
    /\ asleep' = asleep \ {t}

\* A running or ready task falls asleep; the CPU stays idle.
Sleep(t) ==
    /\ running = t \/ InLine(t)
    /\ running' = IF running = t THEN NoTask ELSE running
    /\ LeavesLine(t)
    /\ asleep' = asleep \cup {t}

\* The running task falls asleep and the first in line takes the CPU.
Handoff ==
    /\ running # NoTask /\ line # <<>>
    /\ running' = line[1]
    /\ line' = LineWithout(1)
    /\ asleep' = asleep \cup {running}

Awake(t) ==
    /\ t \in asleep
    /\ Len(line) < QueueCapacity
    /\ asleep' = asleep \ {t}
    /\ line' = Append(line, t)
    /\ UNCHANGED running

\* The running task goes to the end of the line.
Rotate ==
    /\ running # NoTask /\ line # <<>>
    /\ running' = line[1]
    /\ line' = Append(LineWithout(1), running)
    /\ UNCHANGED asleep

RRNext == \/ \E t \in Tasks : \/ Admit(t)
                              \/ Start(t)
                              \/ Finish(t)
                              \/ Sleep(t)
                              \/ Awake(t)
          \/ Handoff
          \/ Rotate

RRSpec == RRInit /\ [][RRNext]_rrVars
=============================================================================
