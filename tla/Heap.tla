-------------------------------- MODULE Heap --------------------------------
(***************************************************************************)
(* The kernel heap of src/heap.rs: a table of blocks that tile the heap    *)
(* above its sentinel, first fit in the order of the table, splitting, and *)
(* coalescing of all free neighbours when a block is freed.                *)
(*                                                                         *)
(* Offsets are bytes from HEAP_BASE.  The memory is modelled by the canary *)
(* words that it holds, those that frees leave behind included; a write    *)
(* that touches one destroys it.  Every call runs with interrupts off and  *)
(* is one step; a call that is refused changes nothing but counters, which *)
(* are left out, as is the ring of recently freed addresses, which only    *)
(* names the error of a refused free.                                      *)
(***************************************************************************)
EXTENDS Integers, FiniteSets

CONSTANTS HeapSize,       \* HEAP_SIZE
          Sentinel,       \* HEAP_SENTINEL_BYTES
          CanaryBytes,    \* ALLOC_CANARY_BYTES
          MinSplit,       \* MIN_SPLIT_BYTES
          MaxBlocks,      \* MAX_BLOCKS
          Sizes,          \* the sizes that callers ask for
          Aligns          \* the alignments, powers of two up to MAX_ALIGNMENT

ASSUME HeapAssumption ==
    /\ {HeapSize, Sentinel, MinSplit} \subseteq Nat
    /\ {CanaryBytes, MaxBlocks} \subseteq Nat \ {0}
    /\ MinSplit > 0 /\ Sentinel < HeapSize
    /\ Sizes \subseteq Nat \ {0} /\ Aligns \subseteq Nat \ {0}

Slots == 1 .. MaxBlocks

Empty == [active |-> FALSE, offset |-> 0, size |-> 0, allocated |-> FALSE,
          payload |-> 0, requested |-> 0, align |-> 0]

FreeBlock(offset, size) ==
    [Empty EXCEPT !.active = TRUE, !.offset = offset, !.size = size]

VARIABLES blocks,     \* the table
          canaries,   \* the canary words in memory: <<"head" or "tail", offset>>
          overrun     \* history: the payloads of the allocations that were
                      \* written past their end and not repaired since

heapVars == <<blocks, canaries, overrun>>

HeapInit ==
    /\ blocks = [i \in Slots |-> IF i = 1 THEN FreeBlock(Sentinel, HeapSize - Sentinel)
                                 ELSE Empty]
    /\ canaries = {} /\ overrun = {}

-----------------------------------------------------------------------------

End(b) == b.offset + b.size

IsFree(b) == b.active /\ ~ b.allocated

AlignUp(n, align) == ((n + align - 1) \div align) * align

Larger(m, n) == IF m > n THEN m ELSE n

\* Where the payload starts and the tail canary ends in block b.
PayloadOffset(b, align) == AlignUp(b.offset + CanaryBytes, Larger(align, CanaryBytes))
UsedEnd(b, size, align) == PayloadOffset(b, align) + size + CanaryBytes

Fits(i, size, align) ==
    IsFree(blocks[i]) /\ UsedEnd(blocks[i], size, align) <= End(blocks[i])

\* free_metadata_slot
SplitSlot(j) == ~ blocks[j].active /\ \A k \in Slots : k < j => blocks[k].active

Overlap(b, c) == b.offset < End(c) /\ c.offset < End(b)

\* shape_ok of compute_stats
ShapeOk(b) ==
    /\ b.payload >= b.offset + CanaryBytes
    /\ b.payload + b.requested + CanaryBytes <= End(b)
    /\ b.align >= CanaryBytes /\ b.payload % b.align = 0

Active == {i \in Slots : blocks[i].active}

\* covered_bytes of compute_stats: the sizes of the active blocks.
Covered(t) ==
    LET sum[n \in 0 .. MaxBlocks] ==
            IF n = 0 THEN 0 ELSE sum[n - 1] + (IF t[n].active THEN t[n].size ELSE 0)
    IN  sum[MaxBlocks]

\* metadata_ok of compute_stats, which alloc asks for.
MetadataOk ==
    /\ \A i \in Active :
          /\ blocks[i].size # 0
          /\ blocks[i].offset >= Sentinel
          /\ End(blocks[i]) <= HeapSize
          /\ blocks[i].allocated => ShapeOk(blocks[i])
    /\ \A i, j \in Active : i # j => ~ Overlap(blocks[i], blocks[j])
    /\ Covered(blocks) = HeapSize - Sentinel

\* The block with all of its bytes, or with those it needs.
Taken(b, size, align, bytes) ==
    [b EXCEPT !.size = bytes, !.allocated = TRUE, !.payload = PayloadOffset(b, align),
              !.requested = size, !.align = Larger(align, CanaryBytes)]

\* The table after block i is allocated.  A remainder that is large enough
\* becomes a block, if the table has room for it.
Allocated(i, size, align) ==
    LET b    == blocks[i]
        used == UsedEnd(b, size, align)
        rest == End(b) - used
    IN  IF rest >= MinSplit /\ \E j \in Slots : SplitSlot(j)
        THEN [blocks EXCEPT ![i] = Taken(b, size, align, used - b.offset),
                            ![CHOOSE j \in Slots : SplitSlot(j)] = FreeBlock(used, rest)]
        ELSE [blocks EXCEPT ![i] = Taken(b, size, align, b.size)]

IsAllocated(i) == blocks[i].active /\ blocks[i].allocated

PayloadEnd(b) == b.payload + b.requested

\* Mutant of CanariesOf: the tail is at the end of the block, behind bytes
\* that alignment and a refused split leave unused.
CanariesAtEnd(b) == {<<"head", b.payload - CanaryBytes>>, <<"tail", End(b) - CanaryBytes>>}

\* Where the canaries of an allocation are.
CanariesOf(b) == {<<"head", b.payload - CanaryBytes>>, <<"tail", PayloadEnd(b)>>}

\* The words that a write of the bytes from .. to - 1 does not touch.
Untouched(words, from, to) ==
    {w \in words : w[2] + CanaryBytes <= from \/ to <= w[2]}

\* write_allocation_canaries
Stamped(words, b) ==
    {w \in words : \A c \in CanariesOf(b) : w \in Untouched(words, c[2], c[2] + CanaryBytes)}
        \union CanariesOf(b)

\* allocation_canaries_ok
CanariesOk(b) == CanariesOf(b) \subseteq canaries

\* The first free block that is large enough.  New canaries are written.
HeapAlloc(size, align) ==
    /\ MetadataOk
    /\ \E i \in Slots :
          /\ Fits(i, size, align)
          /\ \A j \in Slots : j < i => ~ Fits(j, size, align)
          /\ blocks' = Allocated(i, size, align)
          /\ canaries' = Stamped(canaries, blocks'[i])
    /\ UNCHANGED overrun

\* Mutant of Mergeable: every pair of slots is looked at in one order only.
MergeableBehind(t, l, r) ==
    /\ l < r /\ IsFree(t[l]) /\ IsFree(t[r])
    /\ End(t[l]) = t[r].offset

Mergeable(t, l, r) ==
    /\ l # r /\ IsFree(t[l]) /\ IsFree(t[r])
    /\ End(t[l]) = t[r].offset \/ End(t[r]) = t[l].offset

\* One round of coalesce_free_blocks on table t: the first free block that
\* has a free neighbour takes in the first such neighbour.
Merge(t) ==
    LET first == {p \in Slots \X Slots :
                    /\ Mergeable(t, p[1], p[2])
                    /\ \A l, r \in Slots : Mergeable(t, l, r) =>
                          p[1] < l \/ (p[1] = l /\ p[2] <= r)}
    IN  IF first = {} THEN t
        ELSE LET p == CHOOSE q \in first : TRUE
                 a == t[p[1]]
                 b == t[p[2]]
             IN  [t EXCEPT ![p[1]].offset = IF a.offset < b.offset THEN a.offset ELSE b.offset,
                           ![p[1]].size   = a.size + b.size,
                           ![p[2]]        = Empty]

\* Every round empties a slot, so MaxBlocks rounds are enough.
Coalesce(t) ==
    LET after[n \in 0 .. MaxBlocks] == IF n = 0 THEN t ELSE Merge(after[n - 1])
    IN  after[MaxBlocks]

\* A block whose canaries are damaged is not freed.
HeapFree(i) ==
    /\ IsAllocated(i) /\ CanariesOk(blocks[i])
    /\ blocks' = Coalesce([blocks EXCEPT ![i] = FreeBlock(@.offset, @.size)])
    /\ UNCHANGED <<canaries, overrun>>

\* The owner of block i writes its payload (external).
Use(i) ==
    /\ IsAllocated(i)
    /\ canaries' = Untouched(canaries, blocks[i].payload, PayloadEnd(blocks[i]))
    /\ UNCHANGED <<blocks, overrun>>

\* corrupt_tail_canary_for: a write past the end of the payload.
Corrupt(i) ==
    /\ IsAllocated(i)
    /\ canaries' = Untouched(canaries, PayloadEnd(blocks[i]), PayloadEnd(blocks[i]) + CanaryBytes)
    /\ overrun' = overrun \union {blocks[i].payload}
    /\ UNCHANGED blocks

\* repair_canaries_for
Repair(i) ==
    /\ IsAllocated(i)
    /\ canaries' = Stamped(canaries, blocks[i])
    /\ overrun' = overrun \ {blocks[i].payload}
    /\ UNCHANGED blocks

HeapNext ==
    \/ \E size \in Sizes, align \in Aligns : HeapAlloc(size, align)
    \/ \E i \in Slots : HeapFree(i) \/ Use(i) \/ Corrupt(i) \/ Repair(i)

HeapSpec == HeapInit /\ [][HeapNext]_heapVars

-----------------------------------------------------------------------------

\* The blocks tile the heap above the sentinel and every allocation has its
\* payload and both canaries inside its own block, aligned: no allocation
\* overlaps another, no byte is lost, and alloc never refuses because of its
\* own table.  corruption_check asks for the same.
HeapTiled == MetadataOk

\* No two free blocks are neighbours: all memory that is free and contiguous
\* can be allocated as one block, in whatever order blocks were freed and
\* wherever they are in the table.
FullyCoalesced ==
    \A i, j \in Active :
        (IsFree(blocks[i]) /\ IsFree(blocks[j])) => End(blocks[i]) # blocks[j].offset

\* The block table is sound: it tiles the heap in as few blocks as it can.
HeapSound == HeapTiled /\ FullyCoalesced

\* corruption_check and free find exactly the allocations that were written
\* past their end: whatever is split, merged, reused and written around it, a
\* block that was overrun stays allocated and is found damaged until it is
\* repaired, and no other allocation is ever found damaged, neither by its own
\* writes nor by what a neighbour or a former owner of its memory did.
DamageContained ==
    /\ \A a \in overrun : \E i \in Slots : IsAllocated(i) /\ blocks[i].payload = a
    /\ \A i \in Slots : IsAllocated(i) =>
          (CanariesOk(blocks[i]) <=> blocks[i].payload \notin overrun)
=============================================================================
