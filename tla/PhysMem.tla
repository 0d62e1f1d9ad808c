------------------------------ MODULE PhysMem ------------------------------
(***************************************************************************)
(* Every order of calls of the frame allocator after its init: any frame   *)
(* may be freed at any time, allocated or not.  No interrupt handler       *)
(* allocates or frees a frame, so a call is one step.                      *)
(***************************************************************************)
EXTENDS FrameAlloc

CONSTANT Regions          \* regions[..region_count]

ASSUME RegionsAssumption == IsRegionArray(Regions)

Frames == FramesOf(Regions)

VARIABLES pm,             \* the static FRAME_ALLOCATOR
          held            \* history: the frames given out and not taken back

frameVars == <<pm, held>>

FramesInit ==
    /\ pm = NewAllocator(Regions)
    /\ held = {}

Allocate ==
    /\ NextFrame(pm) # NoFrame
    /\ pm' = AllocateFrame(pm)
    /\ held' = held \cup {NextFrame(pm)}

AllocateFails ==
    /\ NextFrame(pm) = NoFrame
    /\ pm' = AllocateFrame(pm)
    /\ UNCHANGED held

Free(f) ==
    /\ pm' = FreeFrame(pm, f)
    /\ held' = IF Frees(pm, f) THEN held \ {f} ELSE held

FramesNext ==
    \/ Allocate
    \/ AllocateFails
    \/ \E f \in Frames : Free(f)

FramesSpec == FramesInit /\ [][FramesNext]_frameVars

-----------------------------------------------------------------------------

TypeOK ==
    /\ pm.region \in 1 .. Len(Regions) + 1
    /\ pm.nextFrame \in Nat
    /\ pm.recycled \in Seq(Frames)
    /\ pm.allocated \in Nat
    /\ pm.exhausted \in BOOLEAN
    /\ held \subseteq Frames

\* Every frame that was issued is held by somebody or waits, once, on the
\* stack, and no other frame is: whatever is freed, twice or without having
\* been allocated, no frame is given to two owners and none is lost.
FramesPartitioned ==
    /\ \A f \in Frames : IsIssued(pm, f) <=> (f \in held \/ IsRecycled(pm, f))
    /\ \A f \in held : ~ IsRecycled(pm, f)
    /\ \A i, j \in DOMAIN pm.recycled : pm.recycled[i] = pm.recycled[j] => i = j

\* The frame allocator's books: every issued frame is held or recycled, never
\* both and never twice (FramesPartitioned); allocated_frames counts the held
\* frames, so that free_frames of the snapshot is what allocate_frame can
\* still give out; and `exhausted' is only reported when nothing is left.
FramesAccounted ==
    /\ TypeOK
    /\ FramesPartitioned
    /\ pm.allocated = Cardinality(held)
    /\ pm.exhausted => pm.recycled = <<>> /\ held = Frames
=============================================================================
