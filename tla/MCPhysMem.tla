----------------------------- MODULE MCPhysMem -----------------------------
(***************************************************************************)
(* The frame allocator for TLC: two regions that are neither adjacent nor  *)
(* in the order of their addresses, five frames in all.                    *)
(***************************************************************************)
EXTENDS PhysMem

MCRegions == << [start |-> 7, end |-> 10], [start |-> 3, end |-> 5] >>
=============================================================================
