----------------------------- MODULE RegionMap -----------------------------
(***************************************************************************)
(* How the frame allocator of src/physmem.rs derives its regions from the  *)
(* memory map of the boot loader: FrameAllocator::init and its loop over   *)
(* add_memory_region, as operators.                                        *)
(*                                                                         *)
(* Addresses are bytes of a word of MaxAddr + 1 values, with the           *)
(* saturating additions of the code.                                       *)
(***************************************************************************)
EXTENDS Integers, Sequences

CONSTANTS FrameSize,         \* FRAME_SIZE
          MaxAddr,           \* the largest address, 2^64 - 1
          MaxAllocRegions    \* MAX_ALLOC_REGIONS

ASSUME RegionMapAssumption ==
    /\ FrameSize \in Nat \ {0} /\ MaxAddr \in Nat /\ MaxAllocRegions \in Nat
    /\ (MaxAddr + 1) % FrameSize = 0

SaturatingAdd(a, b) == IF a + b > MaxAddr THEN MaxAddr ELSE a + b

AlignDown(a) == a - (a % FrameSize)
AlignUp(a) == AlignDown(SaturatingAdd(a, FrameSize - 1))

FramesIn(from, to) == (to - from) \div FrameSize

\* MemoryRegion::end_addr
End(e) == SaturatingAdd(e.base, e.length)

\* FrameAllocator::new: regions is regions[..region_count], in bytes.
NoRegions == [regions |-> <<>>, usable |-> 0, allocatable |-> 0, skipped |-> 0,
              protectedUntil |-> 0]

\* Mutant of FrameBounds: a frame that is only partly in the entry counts.
FrameBoundsOutward(e) == [start |-> AlignDown(e.base), end |-> AlignUp(End(e))]

\* The whole frames of an entry of the map.
FrameBounds(e) == [start |-> AlignUp(e.base), end |-> AlignDown(End(e))]

Usable(e) == /\ e.available
             /\ e.length >= FrameSize
             /\ FrameBounds(e).end > FrameBounds(e).start

\* add_memory_region: what lies above the protected memory becomes a region if
\* the array has room; the rest is skipped.
AddMemoryRegion(a, e) ==
    LET b == FrameBounds(e)
        start == IF b.start > a.protectedUntil THEN b.start ELSE a.protectedUntil
        counted == [a EXCEPT !.usable = @ + FramesIn(b.start, b.end)]
    IN IF ~ Usable(e) THEN a
       ELSE IF b.end <= a.protectedUntil \/ Len(a.regions) >= MaxAllocRegions
       THEN [counted EXCEPT !.skipped = @ + FramesIn(b.start, b.end)]
       ELSE [counted EXCEPT
                !.regions = Append(@, [start |-> start, end |-> b.end]),
                !.allocatable = @ + FramesIn(start, b.end),
                !.skipped = @ + FramesIn(b.start, start)]

\* The loop of FrameAllocator::init.
DeriveRegions(map, protectedUntil) ==
    LET added[i \in 0 .. Len(map)] ==
            IF i = 0 THEN [NoRegions EXCEPT !.protectedUntil = protectedUntil]
            ELSE AddMemoryRegion(added[i - 1], map[i])
    IN  added[Len(map)]
=============================================================================
