---------------------------- MODULE MCCapability ----------------------------
(***************************************************************************)
(* The capability tables for TLC.                                          *)
(***************************************************************************)
EXTENDS Capability, TLC

\* The rights that callers ask for: everything, delegation and plain use.
MCRequests == {AllRights, {"SEND", "DELEGATE"}, {"SEND"}}

TaskSymmetry == Permutations(Tasks)

\* Stop where the generation counter would wrap around.
NoWrap == nextGen' > nextGen \/ nextGen' = nextGen
=============================================================================
