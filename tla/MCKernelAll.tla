---------------------------- MODULE MCKernelAll -----------------------------
(***************************************************************************)
(* One run that looks at the kernel in three situations, each with the     *)
(* bounds that it needs: complete lives of two tasks with everything they  *)
(* can do; three user tasks among themselves; and families of processes.   *)
(***************************************************************************)
EXTENDS MCKernel

CONSTANT LivesTicks      \* bound on the clock in the first situation

VARIABLE situation

MCInit ==
    \/ situation \in {"lives", "families"} /\ Init
    \/ situation = "users" /\ UserInit

MCNext ==
    /\ \/ situation = "lives" /\ Next /\ nextId' <= 3 /\ sched'.ticks <= LivesTicks
       \/ situation = "users" /\ UserNext
       \/ situation = "families" /\ LifeNext
    /\ UNCHANGED situation

MCSpec == MCInit /\ [][MCNext]_<<vars, situation>>
=============================================================================
