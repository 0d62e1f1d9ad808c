----------------------------- MODULE FrameAlloc -----------------------------
(***************************************************************************)
(* The physical frame allocator of src/physmem.rs as operators on its      *)
(* state: frames are issued from the regions in order, and a frame that is *)
(* freed goes onto a bounded stack of recycled frames that is served       *)
(* first.  Module PhysMem is the state machine of its calls alone, module  *)
(* Paging composes it with the page tables.                                *)
(*                                                                         *)
(* A frame is its number, address / FRAME_SIZE; free_frame refuses an      *)
(* address that is not aligned, and no caller passes one.  NoFrame is the  *)
(* None of allocate_frame: frame 0 lies in protected memory.               *)
(***************************************************************************)
EXTENDS Integers, Sequences, FiniteSets

CONSTANT MaxRecycled      \* MAX_RECYCLED_FRAMES

ASSUME MaxRecycledAssumption == MaxRecycled \in Nat

Min2(m, n) == IF m < n THEN m ELSE n
Max2(m, n) == IF m > n THEN m ELSE n

NoFrame == 0

Disjoint(r, s) == Max2(r.start, s.start) >= Min2(r.end, s.end)

\* RegionsSound of Boot: what init leaves in the array of regions, [start, end)
\* in frames.
IsRegionArray(regions) ==
    /\ regions \in Seq([start : Nat, end : Nat])
    /\ \A k \in DOMAIN regions : 0 < regions[k].start /\ regions[k].start < regions[k].end
    /\ \A k, j \in DOMAIN regions : k # j => Disjoint(regions[k], regions[j])

\* The frames that can be issued at all.
FramesOf(regions) ==
    UNION {regions[k].start .. regions[k].end - 1 : k \in DOMAIN regions}

\* The state after init: region is current_region counted from 1, recycled is
\* recycled_frames[..recycled_count].
NewAllocator(regions) ==
    [regions   |-> regions,
     region    |-> 1,
     nextFrame |-> IF regions = <<>> THEN 0 ELSE regions[1].start,
     recycled  |-> <<>>,
     allocated |-> 0,
     exhausted |-> regions = <<>>]

-----------------------------------------------------------------------------

RegionsLeft(pm) == pm.region .. Len(pm.regions)

\* Where the loop of allocate_frame looks in region k.
Position(pm, k) ==
    IF k = pm.region THEN Max2(pm.nextFrame, pm.regions[k].start)
    ELSE pm.regions[k].start

HasFrame(pm, k) == Position(pm, k) < pm.regions[k].end

\* The first region, from the current one on, that has a frame left.
IsNextRegion(pm, k) ==
    /\ HasFrame(pm, k)
    /\ \A j \in pm.region .. k - 1 : ~ HasFrame(pm, j)

\* What allocate_frame returns.
NextFrame(pm) ==
    IF pm.recycled # <<>> THEN pm.recycled[Len(pm.recycled)]
    ELSE IF \E k \in RegionsLeft(pm) : HasFrame(pm, k)
    THEN Position(pm, CHOOSE k \in RegionsLeft(pm) : IsNextRegion(pm, k))
    ELSE NoFrame

\* Mutant of AllocateRecycled: recycled_count is not decremented.
AllocateRecycledKeeps(pm) ==
    [pm EXCEPT !.allocated = @ + 1, !.exhausted = FALSE]

AllocateRecycled(pm) ==
    [pm EXCEPT !.recycled = SubSeq(@, 1, Len(@) - 1),
               !.allocated = @ + 1,
               !.exhausted = FALSE]

\* When no region has a frame left the loop has run past the last one.
AllocateFresh(pm) ==
    IF NextFrame(pm) = NoFrame
    THEN [pm EXCEPT !.region = Max2(@, Len(pm.regions) + 1), !.exhausted = TRUE]
    ELSE [pm EXCEPT !.region = CHOOSE k \in RegionsLeft(pm) : IsNextRegion(pm, k),
                    !.nextFrame = NextFrame(pm) + 1,
                    !.allocated = @ + 1]

AllocateFrame(pm) ==
    IF pm.recycled # <<>> THEN AllocateRecycled(pm) ELSE AllocateFresh(pm)

-----------------------------------------------------------------------------

InRegion(pm, f, k) == pm.regions[k].start <= f /\ f < pm.regions[k].end

IsIssued(pm, f) ==
    \E k \in DOMAIN pm.regions :
        /\ InRegion(pm, f, k)
        /\ \/ k < pm.region
           \/ k = pm.region /\ f < pm.nextFrame

IsRecycled(pm, f) == \E i \in DOMAIN pm.recycled : pm.recycled[i] = f

\* What free_frame returns: a frame that was never issued or is recycled
\* already is refused, and so is every frame when the stack is full.
Frees(pm, f) ==
    /\ IsIssued(pm, f)
    /\ Len(pm.recycled) < MaxRecycled
    /\ ~ IsRecycled(pm, f)

\* A free that is refused changes nothing: nobody has the frame any more.
FreeFrame(pm, f) ==
    IF Frees(pm, f)
    THEN [pm EXCEPT !.recycled = Append(@, f),
                    !.allocated = Max2(@ - 1, 0),
                    !.exhausted = FALSE]
    ELSE pm
=============================================================================
