------------------------------ MODULE MCPaging ------------------------------
(***************************************************************************)
(* The page tables for TLC: machines with little memory, so that every     *)
(* allocation of the boot sequence and of a spawn fails in one of them,    *)
(* one with a region beyond the identity map, and images with one or two   *)
(* segments in either order.                                               *)
(***************************************************************************)
EXTENDS Paging

SlotSymmetry == Permutations(Slots)

Region(first, count) == [start |-> first, end |-> first + count]

\* Frames for the boot alone, for a part of a process, for one and for two.
MCMemories ==
    {<<Region(6, n)>> : n \in 1 .. 18 \cup {22, 28}}
    \cup {<<Region(6, 21), Region(50, 2), Region(30, 4)>>}

Text == [pages |-> << <<0, 1, 0, 2>> >>, permissions |-> ReadExecute]
Data == [pages |-> << <<0, 1, 0, 3>> >>, permissions |-> ReadWrite]
LongText == [pages |-> << <<0, 1, 0, 2>>, <<0, 1, 0, 3>> >>, permissions |-> ReadExecute]

MCPlans == { <<Text, Data>>, <<Data, Text>>, <<LongText>> }
=============================================================================
