---------------------------- MODULE MCScheduler ----------------------------
(***************************************************************************)
(* The scheduler for TLC.  The clock is the only unbounded counter.        *)
(***************************************************************************)
EXTENDS Scheduler

CONSTANT MaxTicks      \* bound on timer_ticks

TicksBound == sched.ticks <= MaxTicks
=============================================================================
