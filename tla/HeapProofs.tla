----------------------------- MODULE HeapProofs -----------------------------
(***************************************************************************)
(* Proofs about the blocks of the kernel heap, for every size of the heap, *)
(* of the table of blocks and of the canaries.                             *)
(***************************************************************************)
EXTENDS Heap, NatRecursion, FiniteSetTheorems, SequenceTheorems

-----------------------------------------------------------------------------
(* The inductive invariant.                                                *)

BlockRecord == [active : BOOLEAN, offset : Nat, size : Nat, allocated : BOOLEAN,
                payload : Nat, requested : Nat, align : Nat]

Tables == [Slots -> BlockRecord]

InUse(b) == b.active /\ b.allocated

BlockOk(b) ==
    b.active => /\ b.size # 0 /\ b.offset >= Sentinel /\ End(b) <= HeapSize
                /\ b.allocated => ShapeOk(b)

Apart(t) == \A i, j \in Slots : i # j /\ t[i].active /\ t[j].active => ~ Overlap(t[i], t[j])

\* MetadataOk of a table, with its type.
Tiled(t) ==
    /\ t \in Tables
    /\ \A i \in Slots : BlockOk(t[i])
    /\ Apart(t)
    /\ Covered(t) = HeapSize - Sentinel

\* FullyCoalesced of a table.
Settled(t) == \A i, j \in Slots : IsFree(t[i]) /\ IsFree(t[j]) => End(t[i]) # t[j].offset

HeadOf(b) == <<"head", b.payload - CanaryBytes>>
TailOf(b) == <<"tail", PayloadEnd(b)>>

\* The allocations in table t have their head canaries among the words, and
\* those that are not in hurt have their tails; hurt has allocations only.
Guarded(t, words, hurt) ==
    /\ \A a \in hurt : \E i \in Slots : InUse(t[i]) /\ t[i].payload = a
    /\ \A i \in Slots : InUse(t[i]) =>
          /\ HeadOf(t[i]) \in words
          /\ TailOf(t[i]) \in words <=> t[i].payload \notin hurt

HInv ==
    /\ Tiled(blocks)
    /\ Settled(blocks)
    /\ Guarded(blocks, canaries, overrun)

LEMMA HeapSizes ==
    /\ HeapSize \in Nat /\ Sentinel \in Nat /\ MinSplit \in Nat /\ MinSplit > 0
    /\ CanaryBytes \in Nat /\ CanaryBytes > 0 /\ MaxBlocks \in Nat /\ MaxBlocks > 0
    /\ Sentinel < HeapSize
    BY HeapAssumption

LEMMA TiledMetadata ==
    ASSUME Tiled(blocks)
    PROVE  MetadataOk
    BY DEF Tiled, MetadataOk, Active, Apart, BlockOk

-----------------------------------------------------------------------------
(* The sum of the sizes.                                                   *)

Weight(b) == IF b.active THEN b.size ELSE 0

IsSum(f, t) ==
    /\ f \in [0 .. MaxBlocks -> Nat] /\ f[0] = 0
    /\ \A n \in 1 .. MaxBlocks : f[n] = f[n - 1] + Weight(t[n])

LEMMA WeightType ==
    ASSUME NEW t \in Tables, NEW i \in Slots
    PROVE  Weight(t[i]) \in Nat /\ t[i] \in BlockRecord
<1>1. t[i] \in BlockRecord
    BY DEF Tables
<1>2. t[i].size \in Nat
    BY <1>1 DEF BlockRecord
<1>3. QED
    BY <1>1, <1>2 DEF Weight

\* The loop of compute_stats has a result.
LEMMA CoveredIsSum ==
    ASSUME NEW t \in Tables
    PROVE  \E f : IsSum(f, t) /\ Covered(t) = f[MaxBlocks]
<1> DEFINE w(n) == IF t[n].active THEN t[n].size ELSE 0
           step == [z \in Nat \X (1 .. MaxBlocks) |-> z[1] + w(z[2])]
           Rec(f) == f = [n \in 0 .. MaxBlocks |-> IF n = 0 THEN 0 ELSE f[n - 1] + w(n)]
<1>1. ASSUME NEW n \in 1 .. MaxBlocks PROVE w(n) \in Nat /\ w(n) = Weight(t[n])
    BY WeightType DEF Weight, Slots
<1> HIDE DEF w
<1>2. step \in [Nat \X (1 .. MaxBlocks) -> Nat]
    BY <1>1
<1>3. PICK f \in [0 .. MaxBlocks -> Nat] :
         f[0] = 0 /\ \A n \in 1 .. MaxBlocks : f[n] = step[<<f[n - 1], n>>]
    <2> HIDE DEF step
    <2>1. IsStep(step, MaxBlocks, Nat)
        BY <1>2 DEF IsStep
    <2>2. PICK f : IsRun(f, MaxBlocks, Nat, 0, step)
        BY <2>1, HeapSizes, RunExists
    <2>3. QED
        BY <2>2 DEF IsRun
<1>4. ASSUME NEW n \in 1 .. MaxBlocks PROVE f[n] = f[n - 1] + w(n)
    <2>1. n - 1 \in 0 .. MaxBlocks
        BY HeapSizes
    <2>2. <<f[n - 1], n>> \in Nat \X (1 .. MaxBlocks)
        BY <2>1
    <2>3. step[<<f[n - 1], n>>] = f[n - 1] + w(n)
        BY <2>2
    <2>4. QED
        BY <1>3, <2>3
<1>5. Rec(f)
    <2>1. \A n \in 0 .. MaxBlocks : f[n] = IF n = 0 THEN 0 ELSE f[n - 1] + w(n)
        BY <1>3, <1>4
    <2>2. QED
        BY <2>1
<1> DEFINE g == CHOOSE h : Rec(h)
<1>6. Rec(g)
    BY <1>5
<1>7. Covered(t) = g[MaxBlocks]
    BY DEF Covered, w
<1> HIDE DEF g
<1>8. ASSUME NEW n \in 0 .. MaxBlocks
      PROVE  g[n] = IF n = 0 THEN 0 ELSE g[n - 1] + w(n)
    BY <1>6
<1> DEFINE S == {n \in 0 .. MaxBlocks : g[n] \in Nat}
<1>9. 0 \in S
    BY <1>8, HeapSizes
<1>10. ASSUME NEW n \in 0 .. MaxBlocks - 1, n \in S PROVE n + 1 \in S
    <2>1. n + 1 \in 1 .. MaxBlocks /\ n + 1 \in 0 .. MaxBlocks /\ (n + 1) - 1 = n /\ n + 1 # 0
        BY HeapSizes
    <2>2. g[n + 1] = g[n] + w(n + 1)
        BY <1>8, <2>1
    <2>3. QED
        BY <1>1, <1>10, <2>1, <2>2
<1>11. 0 .. MaxBlocks \subseteq S
    <2> HIDE DEF S
    <2>1. QED
        BY <1>9, <1>10, HeapSizes, InductionUpTo
<1>12. g \in [0 .. MaxBlocks -> Nat]
    BY <1>6, <1>11
<1>13. IsSum(g, t)
    <2>1. ASSUME NEW n \in 1 .. MaxBlocks PROVE g[n] = g[n - 1] + Weight(t[n])
        BY <1>1, <1>8
    <2>2. QED
        BY <1>8, <1>12, <2>1, HeapSizes DEF IsSum
<1>14. QED
    BY <1>7, <1>13

LEMMA CoveredNat ==
    ASSUME NEW t \in Tables
    PROVE  Covered(t) \in Nat
<1>1. PICK f : IsSum(f, t) /\ Covered(t) = f[MaxBlocks]
    BY CoveredIsSum
<1>2. MaxBlocks \in 0 .. MaxBlocks
    BY HeapSizes
<1>3. QED
    BY <1>1, <1>2 DEF IsSum

\* A change of one slot changes the sum by as much.
LEMMA CoveredChange ==
    ASSUME NEW t \in Tables, NEW u \in Tables, NEW p \in Slots,
           \A i \in Slots \ {p} : u[i] = t[i]
    PROVE  Covered(u) + Weight(t[p]) = Covered(t) + Weight(u[p])
<1>1. PICK f : IsSum(f, t) /\ Covered(t) = f[MaxBlocks]
    BY CoveredIsSum
<1>2. PICK g : IsSum(g, u) /\ Covered(u) = g[MaxBlocks]
    BY CoveredIsSum
<1> DEFINE a == Weight(t[p])
           b == Weight(u[p])
<1>3. a \in Nat /\ b \in Nat
    BY WeightType
<1>4. p \in 1 .. MaxBlocks
    BY DEF Slots
<1>5. ASSUME NEW n \in 1 .. MaxBlocks
      PROVE  /\ f[n - 1] \in Nat /\ g[n - 1] \in Nat
             /\ Weight(t[n]) \in Nat /\ Weight(u[n]) \in Nat
             /\ f[n] = f[n - 1] + Weight(t[n]) /\ g[n] = g[n - 1] + Weight(u[n])
             /\ n # p => Weight(u[n]) = Weight(t[n])
    <2>1. n - 1 \in 0 .. MaxBlocks /\ n \in Slots
        BY HeapSizes DEF Slots
    <2>2. QED
        BY <1>1, <1>2, <2>1, WeightType DEF IsSum
<1>6. f[0] = 0 /\ g[0] = 0
    BY <1>1, <1>2 DEF IsSum
<1> DEFINE S == {n \in 0 .. MaxBlocks :
                    IF n < p THEN g[n] = f[n] ELSE g[n] + a = f[n] + b}
<1>7. 0 \in S
    BY <1>4, <1>6, HeapSizes
<1>8. ASSUME NEW n \in 0 .. MaxBlocks - 1, n \in S PROVE n + 1 \in S
    <2>1. n + 1 \in 1 .. MaxBlocks /\ n + 1 \in 0 .. MaxBlocks /\ (n + 1) - 1 = n
        BY HeapSizes
    <2>2. /\ f[n] \in Nat /\ g[n] \in Nat
          /\ Weight(t[n + 1]) \in Nat /\ Weight(u[n + 1]) \in Nat
          /\ f[n + 1] = f[n] + Weight(t[n + 1]) /\ g[n + 1] = g[n] + Weight(u[n + 1])
          /\ n + 1 # p => Weight(u[n + 1]) = Weight(t[n + 1])
        BY <1>5, <2>1
    <2>3. IF n < p THEN g[n] = f[n] ELSE g[n] + a = f[n] + b
        BY <1>8
    <2>4. n + 1 = p => Weight(t[n + 1]) = a /\ Weight(u[n + 1]) = b
        OBVIOUS
    <2> HIDE DEF a, b
    <2>5. IF n + 1 < p THEN g[n + 1] = f[n + 1] ELSE g[n + 1] + a = f[n + 1] + b
        BY <1>3, <1>4, <2>2, <2>3, <2>4
    <2>6. QED
        BY <2>1, <2>5
<1>9. 0 .. MaxBlocks \subseteq S
    <2> HIDE DEF S
    <2>1. QED
        BY <1>7, <1>8, HeapSizes, InductionUpTo
<1>10. MaxBlocks \in S /\ ~ (MaxBlocks < p)
    BY <1>4, <1>9, HeapSizes
<1>11. QED
    BY <1>1, <1>2, <1>10

-----------------------------------------------------------------------------
(* Alignment.                                                              *)

LEMMA AlignUpFacts ==
    ASSUME NEW n \in Nat, NEW a \in Nat \ {0}
    PROVE  AlignUp(n, a) \in Nat /\ AlignUp(n, a) >= n /\ AlignUp(n, a) % a = 0
<1> DEFINE x == n + a - 1
           q == x \div a
<1>0. x \in Nat
    OBVIOUS
<1>3. AlignUp(n, a) = q * a
    BY DEF AlignUp
<1>x. x = n + a - 1
    OBVIOUS
<1> HIDE DEF x
<1>1. q \in Nat /\ x % a \in 0 .. a - 1
    BY <1>0
<1>2. x = q * a + (x % a)
    BY <1>0
<1> HIDE DEF q
<1>4. q * a \in Nat /\ (q * a) % a = 0
    BY <1>1
<1>5. QED
    BY <1>0, <1>x, <1>1, <1>2, <1>3, <1>4

LEMMA PayloadFacts ==
    ASSUME NEW b \in BlockRecord, NEW align \in Nat \ {0}
    PROVE  /\ PayloadOffset(b, align) \in Nat
           /\ PayloadOffset(b, align) >= b.offset + CanaryBytes
           /\ Larger(align, CanaryBytes) \in Nat
           /\ Larger(align, CanaryBytes) >= CanaryBytes
           /\ PayloadOffset(b, align) % Larger(align, CanaryBytes) = 0
<1> DEFINE a == Larger(align, CanaryBytes)
           n == b.offset + CanaryBytes
<1>1. a \in Nat \ {0} /\ a >= CanaryBytes
    BY HeapSizes DEF Larger
<1>2. n \in Nat
    BY HeapSizes DEF BlockRecord
<1>3. PayloadOffset(b, align) = AlignUp(n, a)
    BY DEF PayloadOffset
<1> HIDE DEF a, n
<1>4. AlignUp(n, a) \in Nat /\ AlignUp(n, a) >= n /\ AlignUp(n, a) % a = 0
    BY <1>1, <1>2, AlignUpFacts
<1>5. QED
    BY <1>1, <1>3, <1>4 DEF a, n
-----------------------------------------------------------------------------
(* Changes of a table.                                                     *)

LEMMA BlockTypes ==
    ASSUME NEW b \in BlockRecord
    PROVE  /\ b.active \in BOOLEAN /\ b.allocated \in BOOLEAN
           /\ b.offset \in Nat /\ b.size \in Nat /\ End(b) \in Nat
           /\ b.payload \in Nat /\ b.requested \in Nat /\ b.align \in Nat
    BY DEF BlockRecord, End

LEMMA EmptyFacts ==
    Empty \in BlockRecord /\ ~ Empty.active /\ Weight(Empty) = 0
    BY DEF Empty, BlockRecord, Weight

LEMMA FreeBlockFacts ==
    ASSUME NEW o \in Nat, NEW n \in Nat
    PROVE  /\ FreeBlock(o, n) \in BlockRecord
           /\ FreeBlock(o, n).active /\ ~ FreeBlock(o, n).allocated
           /\ FreeBlock(o, n).offset = o /\ FreeBlock(o, n).size = n
           /\ End(FreeBlock(o, n)) = o + n /\ IsFree(FreeBlock(o, n))
    BY DEF FreeBlock, Empty, BlockRecord, End, IsFree

\* b lies within c.
Inside(b, c) == b.offset >= c.offset /\ End(b) <= End(c)

\* A table whose slot p has another block: it is tiled if the block is within
\* the old one, or the slot was empty and nothing is there.
LEMMA ReplaceApart ==
    ASSUME NEW t \in Tables, NEW u \in Tables, NEW p \in Slots, Apart(t),
           \A i \in Slots \ {p} : u[i] = t[i],
           u[p].active => \A i \in Slots \ {p} : t[i].active => ~ Overlap(u[p], t[i])
    PROVE  Apart(u)
<1>1. SUFFICES ASSUME NEW i \in Slots, NEW j \in Slots, i # j, u[i].active, u[j].active
               PROVE  ~ Overlap(u[i], u[j])
    BY DEF Apart
<1>2. CASE i # p /\ j # p
    BY <1>1, <1>2 DEF Apart
<1>3. CASE i = p
    BY <1>1, <1>3
<1>4. CASE j = p
    <2>1. ~ Overlap(u[j], u[i])
        BY <1>1, <1>4
    <2>2. QED
        BY <2>1 DEF Overlap
<1>5. QED
    BY <1>2, <1>3, <1>4

LEMMA InsideApart ==
    ASSUME NEW b \in BlockRecord, NEW c \in BlockRecord, NEW d \in BlockRecord,
           Inside(b, c), ~ Overlap(c, d)
    PROVE  ~ Overlap(b, d)
    BY BlockTypes DEF Inside, Overlap

-----------------------------------------------------------------------------
(* Allocation.                                                             *)

LEMMA TakenFacts ==
    ASSUME NEW b \in BlockRecord, NEW size \in Nat, NEW align \in Nat \ {0}, NEW bytes \in Nat,
           NEW d, d = Taken(b, size, align, bytes)
    PROVE  /\ d \in BlockRecord /\ d.active = b.active /\ d.allocated
           /\ d.offset = b.offset /\ d.size = bytes /\ End(d) = b.offset + bytes
           /\ d.payload = PayloadOffset(b, align) /\ d.requested = size
           /\ d.align = Larger(align, CanaryBytes)
<1>1. PayloadOffset(b, align) \in Nat /\ Larger(align, CanaryBytes) \in Nat
    BY PayloadFacts
<1>2. QED
    BY <1>1 DEF Taken, BlockRecord, End

\* The block of an allocation has room for it with both canaries.
LEMMA TakenOk ==
    ASSUME NEW b \in BlockRecord, BlockOk(b), b.active,
           NEW size \in Nat, NEW align \in Nat \ {0}, NEW bytes \in Nat,
           UsedEnd(b, size, align) <= b.offset + bytes, bytes <= b.size,
           NEW d, d = Taken(b, size, align, bytes)
    PROVE  BlockOk(d) /\ Inside(d, b) /\ InUse(d)
<1> DEFINE y == PayloadOffset(b, align)
           a == Larger(align, CanaryBytes)
<1>1. y \in Nat /\ y >= b.offset + CanaryBytes /\ a \in Nat /\ a >= CanaryBytes /\ y % a = 0
    BY PayloadFacts
<1>2. /\ d \in BlockRecord /\ d.active /\ d.allocated
      /\ d.offset = b.offset /\ d.size = bytes /\ End(d) = b.offset + bytes
      /\ d.payload = y /\ d.requested = size /\ d.align = a
    <2>1. d.active = b.active
        BY TakenFacts
    <2>2. d.active
        BY <2>1, Zenon
    <2>3. /\ d \in BlockRecord /\ d.allocated
          /\ d.offset = b.offset /\ d.size = bytes /\ End(d) = b.offset + bytes
          /\ d.payload = y /\ d.requested = size /\ d.align = a
        BY TakenFacts, SMTT(60)
    <2>4. QED
        BY <2>2, <2>3, Zenon
<1>3. UsedEnd(b, size, align) = y + size + CanaryBytes
    BY DEF UsedEnd
<1> HIDE DEF y, a
<1>4. b.offset \in Nat /\ b.size \in Nat /\ End(b) = b.offset + b.size
    BY BlockTypes DEF End
<1>5. ShapeOk(d) /\ d.size # 0
    BY <1>1, <1>2, <1>3, <1>4, HeapSizes DEF ShapeOk
<1>6. b.offset >= Sentinel /\ End(b) <= HeapSize
    BY DEF BlockOk
<1>7. d.offset >= Sentinel /\ End(d) <= HeapSize /\ Inside(d, b)
    BY <1>2, <1>4, <1>6, HeapSizes DEF Inside
<1>8. QED
    BY <1>2, <1>5, <1>7 DEF BlockOk, InUse

Replaced(t, i, d) == [t EXCEPT ![i] = d]

\* The table v, in which block i is allocated and has this many bytes.
HasTaken(v, i, bytes) ==
    /\ v \in Tables /\ \A j \in Slots \ {i} : v[j] = blocks[j]
    /\ v[i].active /\ v[i].allocated /\ v[i].offset = blocks[i].offset
    /\ v[i].size = bytes /\ End(v[i]) = blocks[i].offset + bytes
    /\ \A j \in Slots : BlockOk(v[j])
    /\ Apart(v)
    /\ Covered(v) + blocks[i].size = HeapSize - Sentinel + bytes

LEMMA TakenTable ==
    ASSUME Tiled(blocks), NEW i \in Slots, blocks[i].active,
           NEW size \in Nat, NEW align \in Nat \ {0}, NEW bytes \in Nat,
           UsedEnd(blocks[i], size, align) <= blocks[i].offset + bytes,
           bytes <= blocks[i].size,
           NEW v, v = Replaced(blocks, i, Taken(blocks[i], size, align, bytes))
    PROVE  HasTaken(v, i, bytes)
<1> DEFINE b == blocks[i]
           d == Taken(b, size, align, bytes)
<1>1. /\ blocks \in Tables /\ \A j \in Slots : blocks[j] \in BlockRecord /\ BlockOk(blocks[j])
      /\ Apart(blocks) /\ Covered(blocks) = HeapSize - Sentinel
    BY DEF Tiled, Tables
<1>2. /\ b \in BlockRecord /\ BlockOk(b) /\ b.active /\ bytes <= b.size
      /\ UsedEnd(b, size, align) <= b.offset + bytes /\ d = Taken(b, size, align, bytes)
      /\ v = Replaced(blocks, i, d)
    BY <1>1
<1>3. ASSUME NEW j \in Slots \ {i}, blocks[j].active PROVE ~ Overlap(b, blocks[j])
    BY <1>1, <1>2, <1>3 DEF Apart
<1>4. b.size \in Nat /\ Weight(b) = b.size
    BY <1>2, BlockTypes DEF Weight
<1>b. b = blocks[i]
    OBVIOUS
<1> HIDE DEF b, d
<1>5. /\ d \in BlockRecord /\ d.active /\ d.allocated
      /\ d.offset = b.offset /\ d.size = bytes /\ End(d) = b.offset + bytes
    BY <1>2, TakenFacts
<1>6. BlockOk(d) /\ Inside(d, b)
    BY <1>2, TakenOk
<1>7. v \in Tables /\ v[i] = d /\ \A j \in Slots \ {i} : v[j] = blocks[j]
    BY <1>1, <1>2, <1>5 DEF Tables, Replaced
<1>8. \A j \in Slots : BlockOk(v[j])
    BY <1>1, <1>6, <1>7
<1>9. ASSUME NEW j \in Slots \ {i}, blocks[j].active PROVE ~ Overlap(v[i], blocks[j])
    BY <1>1, <1>2, <1>3, <1>5, <1>6, <1>7, <1>9, InsideApart
<1>10. Apart(v)
    <2>1. v[i].active => \A j \in Slots \ {i} : blocks[j].active => ~ Overlap(v[i], blocks[j])
        BY <1>9
    <2>2. blocks \in Tables /\ v \in Tables /\ Apart(blocks) /\ \A j \in Slots \ {i} : v[j] = blocks[j]
        BY <1>1, <1>7
    <2>3. QED
        BY <2>1, <2>2, ReplaceApart
<1>11. Covered(v) + Weight(b) = Covered(blocks) + Weight(v[i])
    BY <1>1, <1>7, <1>b, CoveredChange
<1>12. Weight(v[i]) = bytes
    BY <1>5, <1>7 DEF Weight
<1>13. Covered(v) + b.size = HeapSize - Sentinel + bytes
    BY <1>1, <1>4, <1>11, <1>12
<1>14. QED
    BY <1>5, <1>7, <1>8, <1>10, <1>13, <1>b DEF HasTaken

\* What an allocation leaves of a table: a block that was free is taken, and
\* if something was split off it is in a slot that was empty.
LEMMA AllocatedSound ==
    ASSUME Tiled(blocks), Settled(blocks), NEW i \in Slots,
           NEW size \in Nat, NEW align \in Nat \ {0}, Fits(i, size, align),
           NEW u, u = Allocated(i, size, align)
    PROVE  /\ Tiled(u) /\ Settled(u) /\ InUse(u[i]) /\ ~ InUse(blocks[i])
           /\ \A j \in Slots \ {i} : InUse(blocks[j]) \/ InUse(u[j]) => u[j] = blocks[j]
<1> DEFINE b == blocks[i]
           used == UsedEnd(b, size, align)
           rest == End(b) - used
<1>1. /\ blocks \in Tables /\ \A j \in Slots : blocks[j] \in BlockRecord /\ BlockOk(blocks[j])
      /\ Apart(blocks) /\ Covered(blocks) = HeapSize - Sentinel
    BY DEF Tiled, Tables
<1>2. b \in BlockRecord /\ BlockOk(b) /\ b.active /\ ~ b.allocated /\ used <= End(b)
    BY <1>1 DEF Fits, IsFree
<1>3. b.offset \in Nat /\ b.size \in Nat /\ End(b) = b.offset + b.size /\ Weight(b) = b.size
    BY <1>2, BlockTypes DEF End, Weight
<1>4. used \in Nat /\ used >= b.offset + CanaryBytes
    <2>1. PayloadOffset(b, align) \in Nat /\ PayloadOffset(b, align) >= b.offset + CanaryBytes
        BY <1>2, PayloadFacts
    <2> HIDE DEF b
    <2>2. QED
        BY <1>3, <2>1, HeapSizes DEF UsedEnd
<1>5. rest \in Nat
    BY <1>2, <1>3, <1>4
<1>6. ASSUME NEW bytes \in Nat, used <= b.offset + bytes, bytes <= b.size,
             NEW v, v = [blocks EXCEPT ![i] = Taken(b, size, align, bytes)]
      PROVE  HasTaken(v, i, bytes)
    BY <1>2, <1>6, TakenTable DEF Replaced
<1>7. ASSUME NEW j \in Slots, IsFree(blocks[j]) PROVE End(b) # blocks[j].offset
    <2>1. IsFree(b)
        BY DEF Fits
    <2>2. QED
        BY <1>7, <2>1 DEF Settled
<1>8. CASE rest >= MinSplit /\ \E j \in Slots : SplitSlot(j)
    <2> DEFINE j == CHOOSE k \in Slots : SplitSlot(k)
               v == [blocks EXCEPT ![i] = Taken(b, size, align, used - b.offset)]
               f == FreeBlock(used, rest)
    <2>1. j \in Slots /\ SplitSlot(j)
        BY <1>8
    <2>2. ~ blocks[j].active /\ j # i
        BY <1>2, <2>1 DEF SplitSlot
    <2>3. u = [blocks EXCEPT ![i] = Taken(b, size, align, used - b.offset), ![j] = f]
        BY <1>8 DEF Allocated
    <2>4. used - b.offset \in Nat /\ used <= b.offset + (used - b.offset) /\ used - b.offset <= b.size
        BY <1>2, <1>3, <1>4, HeapSizes
    <2>5. /\ v \in Tables /\ \A k \in Slots \ {i} : v[k] = blocks[k]
          /\ v[i].active /\ v[i].allocated /\ v[i].offset = b.offset /\ End(v[i]) = used
          /\ \A k \in Slots : BlockOk(v[k])
          /\ Apart(v)
          /\ Covered(v) + b.size = HeapSize - Sentinel + (used - b.offset)
        <3>1. HasTaken(v, i, used - b.offset)
            BY <1>6, <2>4
        <3>2. b.offset + (used - b.offset) = used
            BY <1>3, <1>4
        <3> HIDE DEF used, v
        <3>3. QED
            BY <3>1, <3>2 DEF HasTaken
    <2>6. /\ f \in BlockRecord /\ f.active /\ ~ f.allocated
          /\ f.offset = used /\ f.size = rest /\ End(f) = used + rest /\ IsFree(f)
        BY <1>4, <1>5, FreeBlockFacts
    <2>7. used + rest = End(b) /\ rest # 0 /\ Weight(f) = rest
        BY <1>2, <1>3, <1>4, <1>5, <1>8, <2>6, HeapSizes DEF Weight
    <2>8. u = [v EXCEPT ![j] = f]
        BY <2>3, <2>2
    <2> HIDE DEF j, v, f
    <2>9. u \in Tables /\ u[j] = f /\ \A k \in Slots \ {j} : u[k] = v[k]
        BY <2>1, <2>5, <2>6, <2>8 DEF Tables
    <2>10. BlockOk(f) /\ Inside(f, b)
        <3>1. b.offset >= Sentinel /\ End(b) <= HeapSize
            BY <1>2 DEF BlockOk
        <3> HIDE DEF used, rest, b
        <3>2. f.offset >= Sentinel /\ End(f) <= HeapSize /\ f.size # 0
            BY <1>3, <1>4, <2>6, <2>7, <3>1, HeapSizes
        <3>3. f.offset >= b.offset /\ End(f) <= End(b)
            BY <1>3, <1>4, <2>6, <2>7, HeapSizes
        <3>4. QED
            BY <2>6, <3>2, <3>3 DEF BlockOk, Inside
    <2>11. ASSUME NEW k \in Slots \ {j}, v[k].active PROVE ~ Overlap(f, v[k])
        <3>1. CASE k = i
            <4> HIDE DEF used, rest, b
            <4>1. QED
                BY <1>4, <2>5, <2>6, <3>1 DEF Overlap
        <3>2. CASE k # i
            <4>1. v[k] = blocks[k] /\ ~ Overlap(b, blocks[k])
                BY <1>1, <1>2, <2>5, <2>11, <3>2 DEF Apart
            <4> HIDE DEF used, rest, b
            <4>2. QED
                BY <1>1, <1>2, <2>6, <2>10, <4>1, InsideApart
        <3>3. QED
            BY <3>1, <3>2
    <2>12. Apart(u)
        BY <2>1, <2>5, <2>6, <2>9, <2>11, ReplaceApart
    <2>13. Covered(u) = HeapSize - Sentinel
        <3>1. Covered(u) + Weight(v[j]) = Covered(v) + Weight(f)
            BY <2>1, <2>5, <2>9, CoveredChange
        <3>2. Weight(v[j]) = 0
            BY <2>1, <2>2, <2>5 DEF Weight
        <3>3. Covered(u) \in Nat /\ Covered(v) \in Nat
            BY <2>5, <2>9, CoveredNat
        <3> HIDE DEF used, rest, b
        <3>4. QED
            BY <1>3, <1>4, <1>5, <2>5, <2>7, <3>1, <3>2, <3>3, HeapSizes
    <2>14. Tiled(u)
        BY <2>5, <2>9, <2>10, <2>12, <2>13 DEF Tiled
    <2>15. ASSUME NEW k \in Slots, NEW l \in Slots, IsFree(u[k]), IsFree(u[l])
           PROVE  End(u[k]) # u[l].offset
        <3>1. k # i /\ l # i
            BY <2>2, <2>5, <2>9, <2>15 DEF IsFree
        <3>2. CASE k # j /\ l # j
            <4>1. u[k] = blocks[k] /\ u[l] = blocks[l]
                BY <2>5, <2>9, <3>1, <3>2
            <4>2. QED
                BY <2>15, <4>1 DEF Settled
        <3>3. CASE k = j /\ l # j
            <4>1. u[l] = blocks[l] /\ End(u[k]) = End(b)
                BY <2>5, <2>6, <2>7, <2>9, <3>1, <3>3
            <4>2. QED
                BY <1>7, <2>15, <4>1
        <3>4. CASE k # j /\ l = j
            <4>1. u[k] = blocks[k] /\ u[l].offset = used /\ blocks[k].active
                BY <2>5, <2>6, <2>9, <2>15, <3>1, <3>4 DEF IsFree
            <4>2. ~ Overlap(blocks[k], b) /\ blocks[k] \in BlockRecord /\ BlockOk(blocks[k])
                BY <1>1, <1>2, <3>1, <4>1 DEF Apart
            <4>3. /\ blocks[k].offset \in Nat /\ blocks[k].size \in Nat /\ blocks[k].size # 0
                  /\ End(blocks[k]) = blocks[k].offset + blocks[k].size
                BY <4>1, <4>2, BlockTypes DEF End, BlockOk
            <4> HIDE DEF used, rest, b
            <4>4. QED
                BY <1>2, <1>3, <1>4, <2>7, <4>1, <4>2, <4>3, HeapSizes DEF Overlap
        <3>5. CASE k = j /\ l = j
            <4> HIDE DEF used, rest, b
            <4>1. QED
                BY <1>4, <1>5, <2>6, <2>7, <2>9, <3>5
        <3>6. QED
            BY <3>2, <3>3, <3>4, <3>5
    <2>16. InUse(u[i])
        BY <2>2, <2>5, <2>9 DEF InUse
    <2>17. ASSUME NEW k \in Slots \ {i}, InUse(blocks[k]) \/ InUse(u[k]) PROVE u[k] = blocks[k]
        <3>1. k # j
            BY <2>2, <2>6, <2>9, <2>17 DEF InUse
        <3>2. QED
            BY <2>5, <2>9, <3>1
    <2>18. QED
        BY <1>2, <2>14, <2>15, <2>16, <2>17 DEF Settled, InUse
<1>9. CASE ~ (rest >= MinSplit /\ \E j \in Slots : SplitSlot(j))
    <2>1. u = [blocks EXCEPT ![i] = Taken(b, size, align, b.size)]
        BY <1>9 DEF Allocated
    <2>2. /\ u \in Tables /\ \A k \in Slots \ {i} : u[k] = blocks[k]
          /\ u[i].active /\ u[i].allocated
          /\ \A k \in Slots : BlockOk(u[k])
          /\ Apart(u)
          /\ Covered(u) + b.size = HeapSize - Sentinel + b.size
        <3>1. used <= b.offset + b.size
            BY <1>2, <1>3
        <3>2. HasTaken(u, i, b.size)
            <4>1. b.size \in Nat /\ b.size <= b.size
                BY <1>3
            <4> DEFINE n == b.size
            <4>2. n \in Nat /\ used <= b.offset + n /\ n <= b.size
                BY <3>1, <4>1
            <4>3. u = [blocks EXCEPT ![i] = Taken(b, size, align, n)]
                BY <2>1
            <4> HIDE DEF n
            <4>4. HasTaken(u, i, n)
                BY <1>6, <4>2, <4>3
            <4>5. QED
                BY <4>4 DEF n
        <3>3. QED
            BY <3>2 DEF HasTaken
    <2>3. Covered(u) = HeapSize - Sentinel
        <3>1. Covered(u) \in Nat
            BY <2>2, CoveredNat
        <3>2. QED
            BY <1>3, <2>2, <3>1, HeapSizes
    <2>4. Tiled(u)
        BY <2>2, <2>3 DEF Tiled
    <2>5. Settled(u)
        <3>1. ASSUME NEW k \in Slots, IsFree(u[k]) PROVE k # i /\ u[k] = blocks[k]
            BY <2>2, <3>1 DEF IsFree
        <3>2. QED
            BY <3>1 DEF Settled
    <2>6. QED
        BY <1>2, <2>2, <2>4, <2>5 DEF InUse
<1>10. QED
    BY <1>8, <1>9
-----------------------------------------------------------------------------
(* Coalescing.                                                             *)

CanMerge(t) == \E l, r \in Slots : Mergeable(t, l, r)

MergedBlock(a, b) ==
    [a EXCEPT !.offset = IF a.offset < b.offset THEN a.offset ELSE b.offset,
              !.size = a.size + b.size]

\* The pairs that Merge looks for.
FirstPairs(t) ==
    {p \in Slots \X Slots :
        /\ Mergeable(t, p[1], p[2])
        /\ \A l, r \in Slots : Mergeable(t, l, r) => p[1] < l \/ (p[1] = l /\ p[2] <= r)}

LEMMA FirstPairExists ==
    ASSUME NEW t, CanMerge(t)
    PROVE  FirstPairs(t) # {}
<1> DEFINE L == {l \in Slots : \E r \in Slots : Mergeable(t, l, r)}
<1>1. Slots \subseteq Nat
    BY HeapSizes DEF Slots
<1>2. PICK l \in L : \A m \in L : l <= m
    <2>1. L \in SUBSET Nat /\ L # {}
        BY <1>1 DEF CanMerge
    <2> HIDE DEF L
    <2>2. QED
        BY <2>1, LeastNatural
<1> DEFINE R == {r \in Slots : Mergeable(t, l, r)}
<1>3. PICK r \in R : \A m \in R : r <= m
    <2>1. R \in SUBSET Nat /\ R # {}
        BY <1>1, <1>2
    <2> HIDE DEF R
    <2>2. QED
        BY <2>1, LeastNatural
<1>4. l \in Slots /\ r \in Slots /\ Mergeable(t, l, r)
    BY <1>2, <1>3
<1>5. ASSUME NEW m \in Slots, NEW n \in Slots, Mergeable(t, m, n)
      PROVE  l < m \/ (l = m /\ r <= n)
    <2>1. m \in L /\ l <= m
        BY <1>2, <1>5
    <2>2. CASE l = m
        BY <1>3, <1>5, <2>2
    <2>3. CASE l # m
        BY <1>1, <1>4, <2>1, <2>3
    <2>4. QED
        BY <2>2, <2>3
<1> DEFINE p == <<l, r>>
<1>6. p \in Slots \X Slots /\ p[1] = l /\ p[2] = r
    BY <1>4
<1> HIDE DEF p
<1>7. p \in FirstPairs(t)
    BY <1>4, <1>5, <1>6 DEF FirstPairs
<1>8. QED
    BY <1>7

\* A round merges one pair of neighbours, if there is one.
LEMMA MergeCases ==
    ASSUME NEW t \in Tables
    PROVE  \/ ~ CanMerge(t) /\ Merge(t) = t
           \/ \E l, r \in Slots :
                 /\ Mergeable(t, l, r)
                 /\ Merge(t) = Replaced(Replaced(t, r, Empty), l, MergedBlock(t[l], t[r]))
<1> DEFINE F == FirstPairs(t)
<1>1. CASE F = {}
    <2>1. ~ CanMerge(t)
        BY <1>1, FirstPairExists
    <2>2. Merge(t) = t
        BY <1>1 DEF Merge, FirstPairs
    <2>3. QED
        BY <2>1, <2>2
<1>2. CASE F # {}
    <2> DEFINE p == CHOOSE q \in F : TRUE
               l == p[1]
               r == p[2]
               o == IF t[l].offset < t[r].offset THEN t[l].offset ELSE t[r].offset
               n == t[l].size + t[r].size
    <2>1. p \in F
        BY <1>2
    <2>2. Merge(t) = [t EXCEPT ![l].offset = o, ![l].size = n, ![r] = Empty]
        BY <1>2 DEF Merge, FirstPairs
    <2> HIDE DEF p
    <2>3. l \in Slots /\ r \in Slots /\ Mergeable(t, l, r) /\ l # r
        BY <2>1 DEF FirstPairs, Mergeable
    <2>4. MergedBlock(t[l], t[r]) = [t[l] EXCEPT !.offset = o, !.size = n]
        BY DEF MergedBlock
    <2> HIDE DEF l, r, o, n
    <2>5. [t EXCEPT ![l].offset = o, ![l].size = n, ![r] = Empty]
             = Replaced(Replaced(t, r, Empty), l, [t[l] EXCEPT !.offset = o, !.size = n])
        BY <2>3 DEF Replaced, Tables
    <2>6. QED
        BY <2>2, <2>3, <2>4, <2>5
<1>3. QED
    BY <1>1, <1>2

LEMMA MergedBlockFacts ==
    ASSUME NEW a \in BlockRecord, NEW b \in BlockRecord, NEW m, m = MergedBlock(a, b)
    PROVE  /\ m \in BlockRecord /\ m.active = a.active /\ m.allocated = a.allocated
           /\ m.offset = (IF a.offset < b.offset THEN a.offset ELSE b.offset)
           /\ m.size = a.size + b.size /\ End(m) = m.offset + m.size
<1> DEFINE o == IF a.offset < b.offset THEN a.offset ELSE b.offset
           n == a.size + b.size
<1>1. o \in Nat /\ n \in Nat
    BY BlockTypes
<1>2. m = [a EXCEPT !.offset = o, !.size = n]
    BY DEF MergedBlock
<1> HIDE DEF o, n
<1>3. /\ m \in BlockRecord /\ m.active = a.active /\ m.allocated = a.allocated
      /\ m.offset = o /\ m.size = n
    BY <1>1, <1>2 DEF BlockRecord
<1>4. QED
    BY <1>3 DEF End, o, n

\* Two neighbours as one block.
LEMMA MergedBlockOk ==
    ASSUME NEW a \in BlockRecord, NEW b \in BlockRecord, IsFree(a), IsFree(b),
           BlockOk(a), BlockOk(b), End(a) = b.offset \/ End(b) = a.offset,
           NEW m, m = MergedBlock(a, b)
    PROVE  /\ m \in BlockRecord /\ BlockOk(m) /\ IsFree(m) /\ m.size = a.size + b.size
           /\ \A c \in BlockRecord : BlockOk(c) /\ c.active /\ ~ Overlap(a, c) /\ ~ Overlap(b, c)
                                        => ~ Overlap(m, c)
<1>1. /\ a.active /\ b.active /\ ~ a.allocated /\ ~ b.allocated
      /\ a.offset \in Nat /\ b.offset \in Nat /\ a.size \in Nat /\ b.size \in Nat
      /\ a.size # 0 /\ b.size # 0 /\ a.offset >= Sentinel /\ b.offset >= Sentinel
      /\ End(a) <= HeapSize /\ End(b) <= HeapSize
      /\ End(a) = a.offset + a.size /\ End(b) = b.offset + b.size
    BY BlockTypes DEF IsFree, BlockOk, End
<1>2. /\ m \in BlockRecord /\ m.active /\ ~ m.allocated
      /\ m.offset = (IF a.offset < b.offset THEN a.offset ELSE b.offset)
      /\ m.size = a.size + b.size /\ End(m) = m.offset + m.size
    BY <1>1, MergedBlockFacts
<1>3. m.size # 0 /\ m.offset >= Sentinel /\ End(m) <= HeapSize
    BY <1>1, <1>2, HeapSizes
<1>4. ASSUME NEW c \in BlockRecord, BlockOk(c), c.active, ~ Overlap(a, c), ~ Overlap(b, c)
      PROVE  ~ Overlap(m, c)
    <2>1. c.offset \in Nat /\ c.size \in Nat /\ c.size # 0 /\ End(c) = c.offset + c.size
        BY <1>4, BlockTypes DEF BlockOk, End
    <2>2. ~ (a.offset < End(c) /\ c.offset < End(a)) /\ ~ (b.offset < End(c) /\ c.offset < End(b))
        BY <1>4 DEF Overlap
    <2>3. ~ (m.offset < End(c) /\ c.offset < End(m))
        BY <1>1, <1>2, <2>1, <2>2
    <2>4. QED
        BY <2>3 DEF Overlap
<1>5. QED
    BY <1>2, <1>3, <1>4 DEF BlockOk, IsFree

EmptySlots(t) == {i \in Slots : ~ t[i].active}

\* The slots in use are left alone by a round and by all of them.
UsersKept(t, u) == \A i \in Slots : InUse(t[i]) \/ InUse(u[i]) => u[i] = t[i]

LEMMA MergeSound ==
    ASSUME NEW t, Tiled(t), CanMerge(t)
    PROVE  /\ Tiled(Merge(t)) /\ UsersKept(t, Merge(t))
           /\ \E q \in Slots : /\ q \notin EmptySlots(t)
                               /\ EmptySlots(t) \cup {q} \subseteq EmptySlots(Merge(t))
<1> DEFINE u == Merge(t)
<1>1. /\ t \in Tables /\ \A i \in Slots : t[i] \in BlockRecord /\ BlockOk(t[i])
      /\ Apart(t) /\ Covered(t) = HeapSize - Sentinel
    BY DEF Tiled, Tables
<1>2. PICK l \in Slots, r \in Slots :
         /\ Mergeable(t, l, r)
         /\ u = Replaced(Replaced(t, r, Empty), l, MergedBlock(t[l], t[r]))
    BY <1>1, MergeCases
<1> DEFINE a == t[l]
           b == t[r]
           m == MergedBlock(a, b)
           v == Replaced(t, r, Empty)
<1>3. /\ l # r /\ IsFree(a) /\ IsFree(b) /\ (End(a) = b.offset \/ End(b) = a.offset)
      /\ a \in BlockRecord /\ b \in BlockRecord /\ BlockOk(a) /\ BlockOk(b)
    BY <1>1, <1>2 DEF Mergeable
<1>4. /\ m \in BlockRecord /\ BlockOk(m) /\ IsFree(m) /\ m.size = a.size + b.size
      /\ \A c \in BlockRecord : BlockOk(c) /\ c.active /\ ~ Overlap(a, c) /\ ~ Overlap(b, c)
                                   => ~ Overlap(m, c)
    <2>1. m = MergedBlock(a, b)
        OBVIOUS
    <2> HIDE DEF a, b, m
    <2>2. QED
        BY <1>3, <2>1, MergedBlockOk
<1>5. u = Replaced(v, l, m)
    BY <1>2
<1>6. v \in Tables /\ v[r] = Empty /\ \A i \in Slots \ {r} : v[i] = t[i]
    BY <1>1, EmptyFacts DEF Replaced, Tables
<1> HIDE DEF u, v, m
<1>7. u \in Tables /\ u[l] = m /\ \A i \in Slots \ {l} : u[i] = v[i]
    BY <1>4, <1>5, <1>6 DEF Replaced, Tables
<1>8. u[r] = Empty /\ v[l] = a /\ \A i \in Slots \ {l, r} : u[i] = t[i]
    BY <1>3, <1>6, <1>7
<1>9. ~ Empty.active /\ Weight(Empty) = 0 /\ BlockOk(Empty)
    BY EmptyFacts DEF BlockOk
<1>10. ASSUME NEW i \in Slots PROVE BlockOk(u[i])
    BY <1>1, <1>4, <1>7, <1>8, <1>9
<1>11. Apart(v)
    BY <1>1, <1>6, <1>9, ReplaceApart
<1>12. ASSUME NEW i \in Slots \ {l}, v[i].active PROVE ~ Overlap(m, v[i])
    <2>1. i # r /\ v[i] = t[i]
        BY <1>6, <1>9, <1>12
    <2>2. a.active /\ b.active
        BY <1>3 DEF IsFree
    <2>3. ~ Overlap(a, t[i]) /\ ~ Overlap(b, t[i])
        BY <1>1, <1>12, <2>1, <2>2 DEF Apart
    <2>4. QED
        BY <1>1, <1>4, <1>12, <2>1, <2>3
<1>13. Apart(u)
    <2>1. \A i \in Slots \ {l} : v[i].active => ~ Overlap(u[l], v[i])
        BY <1>7, <1>12
    <2>2. QED
        BY <1>6, <1>7, <1>11, <2>1, ReplaceApart
<1>14. Covered(u) = HeapSize - Sentinel
    <2>1. Covered(v) + Weight(b) = Covered(t) + 0
        BY <1>1, <1>6, <1>9, CoveredChange
    <2>2. Covered(u) + Weight(a) = Covered(v) + Weight(m)
        BY <1>6, <1>7, <1>8, CoveredChange
    <2>3. Weight(a) = a.size /\ Weight(b) = b.size /\ Weight(m) = a.size + b.size
        BY <1>3, <1>4 DEF Weight, IsFree
    <2>4. a.size \in Nat /\ b.size \in Nat
        BY <1>3, BlockTypes
    <2>5. Covered(u) \in Nat /\ Covered(v) \in Nat /\ Covered(t) \in Nat
        BY <1>1, <1>6, <1>7, CoveredNat
    <2> HIDE DEF a, b
    <2>6. QED
        BY <1>1, <2>1, <2>2, <2>3, <2>4, <2>5
<1>15. Tiled(u)
    BY <1>7, <1>10, <1>13, <1>14 DEF Tiled
<1>16. UsersKept(t, u)
    <2>1. ASSUME NEW i \in Slots, InUse(t[i]) \/ InUse(u[i]) PROVE u[i] = t[i]
        <3>1. i # l /\ i # r
            BY <1>3, <1>4, <1>7, <1>8, <1>9, <2>1 DEF InUse, IsFree
        <3>2. QED
            BY <1>8, <3>1
    <2>2. QED
        BY <2>1 DEF UsersKept
<1>17. r \notin EmptySlots(t) /\ EmptySlots(t) \cup {r} \subseteq EmptySlots(u)
    <2>1. r \notin EmptySlots(t) /\ l \notin EmptySlots(t)
        BY <1>3 DEF EmptySlots, IsFree
    <2>2. r \in EmptySlots(u)
        BY <1>8, <1>9 DEF EmptySlots
    <2>3. ASSUME NEW i \in EmptySlots(t) PROVE i \in EmptySlots(u)
        BY <1>8, <2>1 DEF EmptySlots
    <2>4. QED
        BY <2>1, <2>2, <2>3
<1>18. QED
    BY <1>15, <1>16, <1>17 DEF u
\* The rounds of coalesce_free_blocks end with a table that has no more free
\* neighbours: a round that finds some empties a slot, and there are as many
\* rounds as slots.
LEMMA CoalesceSound ==
    ASSUME NEW t, Tiled(t)
    PROVE  Tiled(Coalesce(t)) /\ ~ CanMerge(Coalesce(t)) /\ UsersKept(t, Coalesce(t))
<1> DEFINE D == {x \in Tables : Tiled(x) /\ UsersKept(t, x)}
           Rec(f) == f = [n \in 0 .. MaxBlocks |-> IF n = 0 THEN t ELSE Merge(f[n - 1])]
           step == [z \in D \X (1 .. MaxBlocks) |-> Merge(z[1])]
<1>1. t \in D
    BY DEF Tiled, UsersKept
<1>2. ASSUME NEW x \in D PROVE Merge(x) \in D
    <2>1. CASE CanMerge(x)
        <3>1. Tiled(Merge(x)) /\ UsersKept(x, Merge(x))
            BY <2>1, MergeSound
        <3>2. UsersKept(t, Merge(x))
            BY <3>1 DEF UsersKept
        <3>3. QED
            BY <3>1, <3>2 DEF Tiled
    <2>2. CASE ~ CanMerge(x)
        <3>1. Merge(x) = x
            BY <2>2, MergeCases DEF CanMerge
        <3>2. QED
            BY <3>1
    <2>3. QED
        BY <2>1, <2>2
<1>d. \A x \in D : Tiled(x) /\ UsersKept(t, x)
    OBVIOUS
<1> HIDE DEF D
<1>3. step \in [D \X (1 .. MaxBlocks) -> D]
    BY <1>2
<1>4. PICK f \in [0 .. MaxBlocks -> D] :
         f[0] = t /\ \A n \in 1 .. MaxBlocks : f[n] = step[<<f[n - 1], n>>]
    <2> HIDE DEF step
    <2>1. IsStep(step, MaxBlocks, D)
        BY <1>3 DEF IsStep
    <2>2. PICK f : IsRun(f, MaxBlocks, D, t, step)
        BY <1>1, <2>1, HeapSizes, RunExists
    <2>3. QED
        BY <2>2 DEF IsRun
<1>5. ASSUME NEW n \in 1 .. MaxBlocks PROVE f[n] = Merge(f[n - 1])
    <2>1. n - 1 \in 0 .. MaxBlocks
        BY HeapSizes
    <2>2. <<f[n - 1], n>> \in D \X (1 .. MaxBlocks)
        BY <2>1
    <2>3. \A z \in D \X (1 .. MaxBlocks) : step[z] = Merge(z[1])
        OBVIOUS
    <2>4. <<f[n - 1], n>>[1] = f[n - 1]
        OBVIOUS
    <2> HIDE DEF step
    <2>5. step[<<f[n - 1], n>>] = Merge(f[n - 1])
        BY <2>2, <2>3, <2>4
    <2>6. QED
        BY <1>4, <2>5
<1>6. Rec(f)
    <2>1. \A n \in 0 .. MaxBlocks : f[n] = IF n = 0 THEN t ELSE Merge(f[n - 1])
        BY <1>4, <1>5
    <2>2. QED
        BY <2>1
<1> DEFINE g == CHOOSE h : Rec(h)
<1>7. Rec(g)
    BY <1>6
<1>8. Coalesce(t) = g[MaxBlocks]
    BY DEF Coalesce
<1> HIDE DEF g
<1>9. ASSUME NEW n \in 0 .. MaxBlocks
      PROVE  g[n] = IF n = 0 THEN t ELSE Merge(g[n - 1])
    BY <1>7
<1> DEFINE Done(x, n) == ~ CanMerge(x) \/ Cardinality(EmptySlots(x)) >= n
           S == {n \in 0 .. MaxBlocks : g[n] \in D /\ Done(g[n], n)}
<1>10. ASSUME NEW x
       PROVE  /\ IsFiniteSet(EmptySlots(x)) /\ Cardinality(EmptySlots(x)) \in Nat
              /\ Cardinality(EmptySlots(x)) >= MaxBlocks => EmptySlots(x) = Slots
    <2>1. IsFiniteSet(Slots) /\ Cardinality(Slots) = MaxBlocks
        BY FS_Interval, HeapSizes DEF Slots
    <2>2. EmptySlots(x) \in SUBSET Slots
        BY DEF EmptySlots
    <2>3. /\ IsFiniteSet(EmptySlots(x)) /\ Cardinality(EmptySlots(x)) <= Cardinality(Slots)
          /\ Cardinality(Slots) = Cardinality(EmptySlots(x)) => Slots = EmptySlots(x)
        BY <2>1, <2>2, FS_Subset
    <2>4. Cardinality(EmptySlots(x)) \in Nat
        BY <2>3, FS_CardinalityType
    <2>5. QED
        BY <2>1, <2>3, <2>4, HeapSizes
<1>11. 0 \in S
    <2>1. g[0] = t
        BY <1>9, HeapSizes
    <2>2. Done(t, 0)
        BY <1>10
    <2>3. QED
        BY <1>1, <2>1, <2>2, HeapSizes
<1>12. ASSUME NEW n \in 0 .. MaxBlocks - 1, n \in S PROVE n + 1 \in S
    <2>1. n + 1 \in 0 .. MaxBlocks /\ (n + 1) - 1 = n /\ n + 1 # 0 /\ n \in 0 .. MaxBlocks
        BY HeapSizes
    <2>2. g[n + 1] = Merge(g[n])
        BY <1>9, <2>1
    <2>3. g[n] \in D /\ Done(g[n], n)
        BY <1>12
    <2>4. g[n + 1] \in D
        BY <1>2, <2>2, <2>3
    <2>5. Tiled(g[n])
        BY <1>d, <2>3
    <2>6. CASE ~ CanMerge(g[n])
        <3>1. g[n + 1] = g[n]
            BY <2>2, <2>5, <2>6, MergeCases DEF CanMerge, Tiled
        <3>2. QED
            BY <2>1, <2>3, <2>6, <3>1
    <2>7. CASE CanMerge(g[n])
        <3>1. PICK q \in Slots : /\ q \notin EmptySlots(g[n])
                                 /\ EmptySlots(g[n]) \cup {q} \subseteq EmptySlots(g[n + 1])
            BY <2>2, <2>5, <2>7, MergeSound
        <3> DEFINE E == EmptySlots(g[n])
                   F == EmptySlots(g[n + 1])
        <3>2. /\ IsFiniteSet(E) /\ Cardinality(E) \in Nat /\ Cardinality(E) >= n
              /\ IsFiniteSet(F) /\ Cardinality(F) \in Nat
            BY <1>10, <2>3, <2>7
        <3> HIDE DEF E, F
        <3>3. Cardinality(E \cup {q}) = Cardinality(E) + 1
            BY <3>1, <3>2, FS_AddElement DEF E
        <3>4. Cardinality(E \cup {q}) <= Cardinality(F)
            BY <3>1, <3>2, FS_Subset DEF E, F
        <3>5. Cardinality(F) >= n + 1
            BY <2>1, <3>2, <3>3, <3>4
        <3>6. QED
            BY <2>1, <2>4, <3>5 DEF F
    <2>8. QED
        BY <2>6, <2>7
<1>13. 0 .. MaxBlocks \subseteq S
    <2> HIDE DEF S
    <2>1. QED
        BY <1>11, <1>12, HeapSizes, InductionUpTo
<1>14. g[MaxBlocks] \in D /\ Done(g[MaxBlocks], MaxBlocks)
    BY <1>13, HeapSizes
<1>15. ASSUME NEW x, EmptySlots(x) = Slots PROVE ~ CanMerge(x)
    BY <1>15 DEF EmptySlots, CanMerge, Mergeable, IsFree
<1>16. ~ CanMerge(g[MaxBlocks])
    BY <1>10, <1>14, <1>15
<1>17. QED
    BY <1>d, <1>8, <1>14, <1>16

LEMMA UnmergeableSettled ==
    ASSUME NEW t, Tiled(t), ~ CanMerge(t)
    PROVE  Settled(t)
<1> SUFFICES ASSUME NEW i \in Slots, NEW j \in Slots, IsFree(t[i]), IsFree(t[j]),
                    End(t[i]) = t[j].offset
             PROVE  FALSE
    BY DEF Settled
<1>1. CASE i # j
    BY <1>1 DEF CanMerge, Mergeable
<1>2. CASE i = j
    <2>1. t[i] \in BlockRecord /\ t[i].size # 0
        BY DEF Tiled, Tables, BlockOk, IsFree
    <2>2. t[i].offset \in Nat /\ t[i].size \in Nat /\ End(t[i]) = t[i].offset + t[i].size
        BY <2>1, BlockTypes DEF End
    <2>3. End(t[i]) = t[i].offset
        BY <1>2
    <2> DEFINE o == t[i].offset
               n == t[i].size
    <2>4. o \in Nat /\ n \in Nat /\ n # 0 /\ o = o + n
        BY <2>1, <2>2, <2>3
    <2> HIDE DEF o, n
    <2>5. QED
        BY <2>4
<1>3. QED
    BY <1>1, <1>2

-----------------------------------------------------------------------------
(* The canaries.                                                           *)

\* Words and words2 differ inside block b only.
OnlyInside(words, words2, b) ==
    \A o \in Int : \A k \in {"head", "tail"} :
       (o + CanaryBytes <= b.offset \/ End(b) <= o) => (<<k, o>> \in words2 <=> <<k, o>> \in words)

\* The payload and the canaries of an allocation are in its block.
LEMMA PayloadPlace ==
    ASSUME NEW t, Tiled(t), NEW i \in Slots, InUse(t[i])
    PROVE  /\ t[i].offset \in Nat /\ End(t[i]) \in Nat
           /\ t[i].payload \in Nat /\ PayloadEnd(t[i]) \in Nat
           /\ t[i].offset <= t[i].payload - CanaryBytes
           /\ t[i].payload <= PayloadEnd(t[i])
           /\ PayloadEnd(t[i]) + CanaryBytes <= End(t[i])
<1> DEFINE b == t[i]
<1>1. b \in BlockRecord /\ ShapeOk(b)
    BY DEF Tiled, Tables, BlockOk, InUse
<1>2. /\ b.offset \in Nat /\ b.size \in Nat /\ b.payload \in Nat /\ b.requested \in Nat
      /\ b.payload >= b.offset + CanaryBytes
      /\ b.payload + b.requested + CanaryBytes <= b.offset + b.size
    BY <1>1 DEF BlockRecord, ShapeOk, End
<1> HIDE DEF b
<1>3. QED
    BY <1>2, HeapSizes DEF End, PayloadEnd, b

\* What is inside one block is not where the canaries or the payload of
\* another are.
LEMMA OthersKept ==
    ASSUME NEW t, Tiled(t), NEW i \in Slots, NEW j \in Slots, i # j, InUse(t[i]), InUse(t[j])
    PROVE  /\ t[i].payload # t[j].payload
           /\ \A words, words2 : OnlyInside(words, words2, t[i]) =>
                 /\ HeadOf(t[j]) \in words2 <=> HeadOf(t[j]) \in words
                 /\ TailOf(t[j]) \in words2 <=> TailOf(t[j]) \in words
<1> DEFINE h == t[j].payload - CanaryBytes
           e == PayloadEnd(t[j])
<1>1. ~ Overlap(t[i], t[j])
    BY DEF Tiled, Apart, InUse
<1>2. End(t[j]) <= t[i].offset \/ End(t[i]) <= t[j].offset
    BY <1>1, PayloadPlace DEF Overlap
<1>3. /\ t[i].offset \in Nat /\ End(t[i]) \in Nat
      /\ t[i].payload \in Nat /\ PayloadEnd(t[i]) \in Nat
      /\ t[i].offset <= t[i].payload - CanaryBytes
      /\ t[i].payload <= PayloadEnd(t[i])
      /\ PayloadEnd(t[i]) + CanaryBytes <= End(t[i])
    BY PayloadPlace
<1>4. /\ t[j].offset \in Nat /\ End(t[j]) \in Nat /\ t[j].payload \in Nat /\ e \in Nat
      /\ t[j].offset <= t[j].payload - CanaryBytes
      /\ t[j].payload <= e
      /\ e + CanaryBytes <= End(t[j])
    BY PayloadPlace
<1>5. t[i].payload # t[j].payload
    BY <1>2, <1>3, <1>4, HeapSizes
<1> HIDE DEF e
<1>6. /\ h \in Int /\ (h + CanaryBytes <= t[i].offset \/ End(t[i]) <= h)
      /\ e \in Int /\ (e + CanaryBytes <= t[i].offset \/ End(t[i]) <= e)
    BY <1>2, <1>3, <1>4, HeapSizes
<1>7. HeadOf(t[j]) = <<"head", h>> /\ TailOf(t[j]) = <<"tail", e>>
    BY DEF HeadOf, TailOf, e
<1> HIDE DEF h
<1>8. QED
    BY <1>5, <1>6, <1>7 DEF OnlyInside

\* What a write does to the words.
LEMMA UntouchedFacts ==
    ASSUME NEW words, NEW from \in Int, NEW to \in Int, NEW k, NEW o \in Int
    PROVE  <<k, o>> \in Untouched(words, from, to)
              <=> <<k, o>> \in words /\ (o + CanaryBytes <= from \/ to <= o)
    BY DEF Untouched

LEMMA UntouchedInside ==
    ASSUME NEW t, Tiled(t), NEW i \in Slots, InUse(t[i]), NEW words,
           NEW from \in Int, NEW to \in Int, t[i].offset <= from, to <= End(t[i])
    PROVE  OnlyInside(words, Untouched(words, from, to), t[i])
<1> SUFFICES ASSUME NEW o \in Int, NEW k \in {"head", "tail"},
                    o + CanaryBytes <= t[i].offset \/ End(t[i]) <= o
             PROVE  <<k, o>> \in Untouched(words, from, to) <=> <<k, o>> \in words
    BY DEF OnlyInside
<1>1. t[i].offset \in Nat /\ End(t[i]) \in Nat
    BY PayloadPlace
<1>2. o + CanaryBytes <= from \/ to <= o
    BY <1>1, HeapSizes
<1>3. QED
    BY <1>2, UntouchedFacts

LEMMA StampedInside ==
    ASSUME NEW t, Tiled(t), NEW i \in Slots, InUse(t[i]), NEW words
    PROVE  /\ OnlyInside(words, Stamped(words, t[i]), t[i])
           /\ HeadOf(t[i]) \in Stamped(words, t[i]) /\ TailOf(t[i]) \in Stamped(words, t[i])
<1> DEFINE b == t[i]
           h == b.payload - CanaryBytes
           e == PayloadEnd(b)
<1>1. CanariesOf(b) = {<<"head", h>>, <<"tail", e>>}
    BY DEF CanariesOf
<1>2. HeadOf(b) \in CanariesOf(b) /\ TailOf(b) \in CanariesOf(b)
    BY DEF CanariesOf, HeadOf, TailOf
<1>3. /\ b.offset \in Nat /\ End(b) \in Nat /\ h \in Int /\ e \in Int
      /\ b.offset <= h /\ h + CanaryBytes <= End(b)
      /\ b.offset <= e /\ e + CanaryBytes <= End(b)
    BY PayloadPlace, HeapSizes
<1> HIDE DEF b, h, e
<1>4. ASSUME NEW o \in Int, NEW k \in {"head", "tail"},
             o + CanaryBytes <= b.offset \/ End(b) <= o
      PROVE  <<k, o>> \in Stamped(words, b) <=> <<k, o>> \in words
    <2>1. o # h /\ o # e
        BY <1>3, <1>4, HeapSizes
    <2>2. <<k, o>> \notin CanariesOf(b)
        BY <1>1, <2>1
    <2>3. /\ o + CanaryBytes <= h \/ h + CanaryBytes <= o
          /\ o + CanaryBytes <= e \/ e + CanaryBytes <= o
        BY <1>3, <1>4, HeapSizes
    <2>4. /\ <<k, o>> \in Untouched(words, h, h + CanaryBytes) <=> <<k, o>> \in words
          /\ <<k, o>> \in Untouched(words, e, e + CanaryBytes) <=> <<k, o>> \in words
        <3>1. h + CanaryBytes \in Int /\ e + CanaryBytes \in Int
            BY <1>3, HeapSizes
        <3>2. QED
            BY <1>3, <2>3, <3>1, UntouchedFacts
    <2>5. \A c \in CanariesOf(b) :
             <<k, o>> \in Untouched(words, c[2], c[2] + CanaryBytes) <=> <<k, o>> \in words
        BY <1>1, <2>4
    <2>6. QED
        BY <2>2, <2>5 DEF Stamped
<1>5. OnlyInside(words, Stamped(words, b), b)
    BY <1>4 DEF OnlyInside
<1>6. QED
    BY <1>2, <1>5 DEF Stamped, b

\* A step that changes the words inside one allocation, and what is known of
\* this allocation.
LEMMA GuardedStep ==
    ASSUME NEW t, Tiled(t), NEW words, NEW hurt, Guarded(t, words, hurt),
           NEW i \in Slots, InUse(t[i]), NEW words2, OnlyInside(words, words2, t[i]),
           NEW hurt2, \A a : a # t[i].payload => (a \in hurt2 <=> a \in hurt),
           HeadOf(t[i]) \in words2, TailOf(t[i]) \in words2 <=> t[i].payload \notin hurt2
    PROVE  Guarded(t, words2, hurt2)
<1>1. ASSUME NEW j \in Slots, j # i, InUse(t[j])
      PROVE  /\ HeadOf(t[j]) \in words2
             /\ TailOf(t[j]) \in words2 <=> t[j].payload \notin hurt2
    <2>1. /\ t[i].payload # t[j].payload
          /\ HeadOf(t[j]) \in words2 <=> HeadOf(t[j]) \in words
          /\ TailOf(t[j]) \in words2 <=> TailOf(t[j]) \in words
        BY <1>1, OthersKept
    <2>2. QED
        BY <1>1, <2>1 DEF Guarded
<1>2. ASSUME NEW a \in hurt2 PROVE \E j \in Slots : InUse(t[j]) /\ t[j].payload = a
    BY DEF Guarded
<1>3. QED
    BY <1>1, <1>2 DEF Guarded

-----------------------------------------------------------------------------
(* The steps.                                                              *)

LEMMA InitHInv == HeapInit => HInv
<1> SUFFICES ASSUME HeapInit PROVE HInv
    OBVIOUS
<1> DEFINE b == FreeBlock(Sentinel, HeapSize - Sentinel)
           e == [i \in Slots |-> Empty]
<1>1. HeapSize - Sentinel \in Nat /\ HeapSize - Sentinel # 0
    BY HeapSizes
<1>2. /\ b \in BlockRecord /\ b.active /\ ~ b.allocated /\ b.offset = Sentinel
      /\ b.size = HeapSize - Sentinel /\ End(b) = Sentinel + (HeapSize - Sentinel)
    BY <1>1, HeapSizes, FreeBlockFacts
<1> HIDE DEF b
<1>3. BlockOk(b) /\ Weight(b) = HeapSize - Sentinel
    BY <1>1, <1>2, HeapSizes DEF BlockOk, Weight
<1>4. 1 \in Slots /\ blocks = [i \in Slots |-> IF i = 1 THEN b ELSE Empty]
    BY HeapSizes DEF HeapInit, Slots, b
<1>5. /\ blocks \in Tables /\ e \in Tables /\ blocks[1] = b
      /\ \A i \in Slots : e[i] = Empty
      /\ \A i \in Slots \ {1} : blocks[i] = e[i] /\ blocks[i] = Empty
    BY <1>2, <1>4, EmptyFacts DEF Tables
<1>6. \A i \in Slots : BlockOk(blocks[i])
    BY <1>3, <1>5, EmptyFacts DEF BlockOk
<1>7. Apart(blocks)
    BY <1>5, EmptyFacts DEF Apart
<1>8. Covered(e) = 0
    <2> HIDE DEF e
    <2>1. PICK f : IsSum(f, e) /\ Covered(e) = f[MaxBlocks]
        BY <1>5, CoveredIsSum
    <2> DEFINE S == {n \in 0 .. MaxBlocks : f[n] = 0}
    <2>2. 0 \in S
        BY <2>1, HeapSizes DEF IsSum
    <2>3. ASSUME NEW n \in 0 .. MaxBlocks - 1, n \in S PROVE n + 1 \in S
        <3>1. n + 1 \in 1 .. MaxBlocks /\ n + 1 \in 0 .. MaxBlocks /\ (n + 1) - 1 = n
            BY HeapSizes
        <3>2. f[n + 1] = f[n] + Weight(e[n + 1]) /\ Weight(e[n + 1]) = 0
            BY <1>5, <2>1, <3>1, EmptyFacts DEF IsSum, Slots
        <3>3. QED
            BY <2>3, <3>1, <3>2
    <2>4. 0 .. MaxBlocks \subseteq S
        <3> HIDE DEF S
        <3>1. QED
            BY <2>2, <2>3, HeapSizes, InductionUpTo
    <2>5. QED
        BY <2>1, <2>4, HeapSizes
<1>9. Covered(blocks) = HeapSize - Sentinel
    <2> HIDE DEF e
    <2>1. Covered(blocks) + Weight(e[1]) = Covered(e) + Weight(blocks[1])
        BY <1>4, <1>5, CoveredChange
    <2>2. Weight(e[1]) = 0 /\ Covered(blocks) \in Nat
        BY <1>4, <1>5, EmptyFacts, CoveredNat
    <2>3. QED
        BY <1>1, <1>3, <1>5, <1>8, <2>1, <2>2
<1>10. Tiled(blocks)
    BY <1>5, <1>6, <1>7, <1>9 DEF Tiled
<1>11. Settled(blocks)
    <2>1. \A i \in Slots : IsFree(blocks[i]) => i = 1
        BY <1>5, EmptyFacts DEF IsFree
    <2>2. End(b) # b.offset
        BY <1>1, <1>2, HeapSizes
    <2>3. QED
        BY <1>5, <2>1, <2>2 DEF Settled
<1>12. Guarded(blocks, canaries, overrun)
    <2>1. \A i \in Slots : ~ InUse(blocks[i])
        BY <1>2, <1>5, EmptyFacts DEF InUse
    <2>2. overrun = {}
        BY DEF HeapInit
    <2>3. QED
        BY <2>1, <2>2 DEF Guarded
<1>13. QED
    BY <1>10, <1>11, <1>12 DEF HInv

LEMMA AllocKeeps ==
    ASSUME HInv, NEW size \in Sizes, NEW align \in Aligns, HeapAlloc(size, align)
    PROVE  HInv'
<1>1. size \in Nat /\ align \in Nat \ {0}
    BY HeapAssumption
<1>2. PICK i \in Slots : /\ Fits(i, size, align) /\ blocks' = Allocated(i, size, align)
                         /\ canaries' = Stamped(canaries, blocks'[i]) /\ overrun' = overrun
    BY DEF HeapAlloc
<1>3. /\ Tiled(blocks') /\ Settled(blocks') /\ InUse(blocks'[i]) /\ ~ InUse(blocks[i])
      /\ \A j \in Slots \ {i} : InUse(blocks[j]) \/ InUse(blocks'[j]) => blocks'[j] = blocks[j]
    BY <1>1, <1>2, AllocatedSound DEF HInv
<1>4. /\ OnlyInside(canaries, canaries', blocks'[i])
      /\ HeadOf(blocks'[i]) \in canaries' /\ TailOf(blocks'[i]) \in canaries'
    BY <1>2, <1>3, StampedInside
<1>5. ASSUME NEW a \in overrun
      PROVE  \E j \in Slots \ {i} : InUse(blocks'[j]) /\ blocks'[j].payload = a
    <2>1. PICK j \in Slots : InUse(blocks[j]) /\ blocks[j].payload = a
        BY DEF HInv, Guarded
    <2>2. QED
        BY <1>3, <2>1
<1>6. blocks'[i].payload \notin overrun
    BY <1>3, <1>5, OthersKept
<1>7. ASSUME NEW j \in Slots, j # i, InUse(blocks'[j])
      PROVE  /\ HeadOf(blocks'[j]) \in canaries'
             /\ TailOf(blocks'[j]) \in canaries' <=> blocks'[j].payload \notin overrun
    <2>1. blocks'[j] = blocks[j] /\ InUse(blocks[j])
        BY <1>3, <1>7
    <2>2. /\ HeadOf(blocks[j]) \in canaries
          /\ TailOf(blocks[j]) \in canaries <=> blocks[j].payload \notin overrun
        BY <2>1 DEF HInv, Guarded
    <2>3. /\ HeadOf(blocks'[j]) \in canaries' <=> HeadOf(blocks'[j]) \in canaries
          /\ TailOf(blocks'[j]) \in canaries' <=> TailOf(blocks'[j]) \in canaries
        BY <1>3, <1>4, <1>7, OthersKept
    <2>4. QED
        BY <2>1, <2>2, <2>3
<1>8. Guarded(blocks', canaries', overrun')
    BY <1>2, <1>4, <1>5, <1>6, <1>7 DEF Guarded
<1>9. QED
    BY <1>3, <1>8 DEF HInv

LEMMA FreeKeeps ==
    ASSUME HInv, NEW i \in Slots, HeapFree(i)
    PROVE  HInv'
<1> DEFINE b == blocks[i]
           f == FreeBlock(b.offset, b.size)
           t == Replaced(blocks, i, f)
<1>1. /\ blocks \in Tables /\ \A j \in Slots : blocks[j] \in BlockRecord /\ BlockOk(blocks[j])
      /\ Apart(blocks) /\ Covered(blocks) = HeapSize - Sentinel
    BY DEF HInv, Tiled, Tables
<1>2. /\ b.active /\ b.allocated /\ TailOf(b) \in canaries
      /\ canaries' = canaries /\ overrun' = overrun
      /\ blocks' = Coalesce(t)
    BY DEF HeapFree, Replaced, IsAllocated, CanariesOk, CanariesOf, TailOf
<1>3. /\ b \in BlockRecord /\ BlockOk(b) /\ b.offset \in Nat /\ b.size \in Nat
      /\ End(b) = b.offset + b.size
    BY <1>1, BlockTypes DEF End
<1>4. /\ f \in BlockRecord /\ f.active /\ ~ f.allocated
      /\ f.offset = b.offset /\ f.size = b.size /\ End(f) = End(b)
    BY <1>3, FreeBlockFacts
<1> HIDE DEF f
<1>5. t \in Tables /\ t[i] = f /\ \A j \in Slots \ {i} : t[j] = blocks[j]
    BY <1>1, <1>4 DEF Replaced, Tables
<1> HIDE DEF t
<1>6. BlockOk(f)
    BY <1>2, <1>3, <1>4 DEF BlockOk
<1>7. Apart(t)
    <2>1. \A j \in Slots \ {i} : blocks[j].active => ~ Overlap(b, blocks[j])
        BY <1>1, <1>2 DEF Apart
    <2>2. \A j \in Slots \ {i} : blocks[j].active => ~ Overlap(t[i], blocks[j])
        BY <1>4, <1>5, <2>1 DEF Overlap
    <2>3. QED
        BY <1>1, <1>5, <2>2, ReplaceApart
<1>8. Covered(t) = HeapSize - Sentinel
    <2>1. Covered(t) + Weight(b) = Covered(blocks) + Weight(f)
        BY <1>1, <1>5, CoveredChange
    <2>2. Weight(b) = b.size /\ Weight(f) = b.size
        BY <1>2, <1>4 DEF Weight
    <2>3. Covered(t) \in Nat /\ Covered(blocks) \in Nat
        BY <1>1, <1>5, CoveredNat
    <2>4. QED
        BY <1>1, <1>3, <2>1, <2>2, <2>3
<1>9. Tiled(t)
    BY <1>1, <1>5, <1>6, <1>7, <1>8 DEF Tiled
<1>10. Tiled(blocks') /\ ~ CanMerge(blocks') /\ UsersKept(t, blocks')
    BY <1>2, <1>9, CoalesceSound
<1>11. Settled(blocks')
    BY <1>10, UnmergeableSettled
<1>12. b.payload \notin overrun
    BY <1>2 DEF HInv, Guarded, InUse
<1>13. ASSUME NEW j \in Slots, InUse(blocks'[j]) PROVE blocks'[j] = blocks[j]
    <2>1. blocks'[j] = t[j] /\ j # i
        BY <1>4, <1>5, <1>10, <1>13 DEF UsersKept, InUse
    <2>2. QED
        BY <1>5, <2>1
<1>14. ASSUME NEW j \in Slots, InUse(blocks[j]), j # i PROVE blocks'[j] = blocks[j]
    <2>1. t[j] = blocks[j]
        BY <1>5, <1>14
    <2>2. QED
        BY <1>10, <1>14, <2>1 DEF UsersKept
<1>15. Guarded(blocks', canaries, overrun)
    <2>1. ASSUME NEW a \in overrun
          PROVE  \E j \in Slots : InUse(blocks'[j]) /\ blocks'[j].payload = a
        <3>1. PICK j \in Slots : InUse(blocks[j]) /\ blocks[j].payload = a
            BY DEF HInv, Guarded
        <3>2. j # i
            BY <1>12, <3>1
        <3>3. QED
            BY <1>14, <3>1, <3>2
    <2>2. ASSUME NEW j \in Slots, InUse(blocks'[j])
          PROVE  /\ HeadOf(blocks'[j]) \in canaries
                 /\ TailOf(blocks'[j]) \in canaries <=> blocks'[j].payload \notin overrun
        <3>1. blocks'[j] = blocks[j] /\ InUse(blocks[j])
            BY <1>13, <2>2
        <3>2. QED
            BY <3>1 DEF HInv, Guarded
    <2>3. QED
        BY <2>1, <2>2 DEF Guarded
<1>16. QED
    BY <1>2, <1>10, <1>11, <1>15 DEF HInv

\* The steps of an owner: what they write is inside the block.
LEMMA OwnerKeeps ==
    ASSUME HInv, NEW i \in Slots, Use(i) \/ Corrupt(i) \/ Repair(i)
    PROVE  HInv'
<1> DEFINE b == blocks[i]
           h == b.payload - CanaryBytes
           e == PayloadEnd(b)
<1>1. /\ InUse(b) /\ blocks' = blocks /\ Tiled(blocks) /\ Settled(blocks)
      /\ Guarded(blocks, canaries, overrun)
    BY DEF HInv, Use, Corrupt, Repair, IsAllocated, InUse
<1>2. /\ b.offset \in Nat /\ End(b) \in Nat /\ b.payload \in Nat /\ e \in Nat
      /\ b.offset <= b.payload - CanaryBytes /\ b.payload <= e /\ e + CanaryBytes <= End(b)
    BY <1>1, PayloadPlace
<1>3. HeadOf(b) = <<"head", h>> /\ TailOf(b) = <<"tail", e>> /\ h \in Int
    BY <1>2, HeapSizes DEF HeadOf, TailOf
<1>4. HeadOf(b) \in canaries /\ (TailOf(b) \in canaries <=> b.payload \notin overrun)
    BY <1>1 DEF Guarded
<1>5. SUFFICES Guarded(blocks, canaries', overrun')
    BY <1>1 DEF HInv
<1>6. CASE Use(i)
    <2>1. canaries' = Untouched(canaries, b.payload, e) /\ overrun' = overrun
        BY <1>6 DEF Use
    <2> HIDE DEF e
    <2>2. b.offset <= b.payload /\ e <= End(b) /\ h + CanaryBytes <= b.payload
        BY <1>2, HeapSizes
    <2>3. OnlyInside(canaries, canaries', b)
        BY <1>1, <1>2, <2>1, <2>2, UntouchedInside
    <2>4. /\ HeadOf(b) \in canaries' <=> HeadOf(b) \in canaries
          /\ TailOf(b) \in canaries' <=> TailOf(b) \in canaries
        <3>1. b.payload \in Int /\ e \in Int /\ e <= e
            BY <1>2
        <3> HIDE DEF h
        <3>2. /\ <<"head", h>> \in canaries' <=> <<"head", h>> \in canaries
              /\ <<"tail", e>> \in canaries' <=> <<"tail", e>> \in canaries
            BY <1>3, <2>1, <2>2, <3>1, UntouchedFacts
        <3>3. QED
            BY <1>3, <3>2
    <2>5. QED
        BY <1>1, <1>4, <2>1, <2>3, <2>4, GuardedStep
<1>7. CASE Corrupt(i)
    <2>1. /\ canaries' = Untouched(canaries, e, e + CanaryBytes)
          /\ overrun' = overrun \union {b.payload}
        BY <1>7 DEF Corrupt
    <2> HIDE DEF e
    <2>2. /\ b.offset <= e /\ e + CanaryBytes <= End(b) /\ h + CanaryBytes <= e
          /\ e + CanaryBytes \in Int /\ ~ (e + CanaryBytes <= e)
        BY <1>2, HeapSizes
    <2>3. OnlyInside(canaries, canaries', b)
        BY <1>1, <1>2, <2>1, <2>2, UntouchedInside
    <2>4. HeadOf(b) \in canaries' /\ TailOf(b) \notin canaries'
        BY <1>2, <1>3, <1>4, <2>1, <2>2, UntouchedFacts
    <2>5. QED
        BY <1>1, <2>1, <2>3, <2>4, GuardedStep
<1>8. CASE Repair(i)
    <2>1. canaries' = Stamped(canaries, b) /\ overrun' = overrun \ {b.payload}
        BY <1>8 DEF Repair
    <2>2. /\ OnlyInside(canaries, canaries', b)
          /\ HeadOf(b) \in canaries' /\ TailOf(b) \in canaries'
        BY <1>1, <2>1, StampedInside
    <2>3. QED
        BY <1>1, <2>1, <2>2, GuardedStep
<1>9. QED
    BY <1>6, <1>7, <1>8

LEMMA StepKeeps == HInv /\ [HeapNext]_heapVars => HInv'
<1> SUFFICES ASSUME HInv, [HeapNext]_heapVars PROVE HInv'
    OBVIOUS
<1>1. ASSUME NEW size \in Sizes, NEW align \in Aligns, HeapAlloc(size, align) PROVE HInv'
    BY <1>1, AllocKeeps
<1>2. ASSUME NEW i \in Slots, HeapFree(i) PROVE HInv'
    BY <1>2, FreeKeeps
<1>3. ASSUME NEW i \in Slots, Use(i) \/ Corrupt(i) \/ Repair(i) PROVE HInv'
    BY <1>3, OwnerKeeps
<1>4. CASE UNCHANGED heapVars
    BY <1>4 DEF HInv, heapVars
<1>5. QED
    BY <1>1, <1>2, <1>3, <1>4 DEF HeapNext

-----------------------------------------------------------------------------

\* The inductive invariant: a table that tiles the heap, without free
\* neighbours, and with the canaries of every allocation in place but for the
\* tails of those that were overrun.
THEOREM HeapInvariant == HeapSpec => []HInv
<1>1. QED
    BY InitHInv, StepKeeps, PTL DEF HeapSpec

\* For every size of heap, table and canaries and every sequence of calls of
\* alloc and free, the blocks tile the heap, every allocation has its payload
\* and canaries within its own block, and the loop of coalesce_free_blocks
\* leaves no two free neighbours.
THEOREM HeapIsSound == HeapSpec => []HeapSound
<1>1. HInv => HeapSound
    <2> SUFFICES ASSUME HInv PROVE MetadataOk /\ FullyCoalesced
        BY DEF HeapSound, HeapTiled
    <2>1. MetadataOk
        BY TiledMetadata DEF HInv
    <2>2. FullyCoalesced
        BY DEF HInv, Settled, FullyCoalesced, Active
    <2>3. QED
        BY <2>1, <2>2
<1>2. QED
    BY <1>1, HeapInvariant, PTL

\* DamageContained: free and corruption_check find exactly the allocations
\* that were written past their end.  Blocks are apart and have their canaries
\* inside, so no stamp, split, merge or write within a payload touches the
\* canaries of another block; and a block that was overrun is not freed.
THEOREM DamageIsConfined == HeapSpec => []DamageContained
<1>1. HInv => DamageContained
    <2> SUFFICES ASSUME HInv PROVE DamageContained
        OBVIOUS
    <2>1. \A i \in Slots : CanariesOk(blocks[i]) <=>
             HeadOf(blocks[i]) \in canaries /\ TailOf(blocks[i]) \in canaries
        BY DEF CanariesOk, CanariesOf, HeadOf, TailOf
    <2>2. QED
        BY <2>1 DEF HInv, Guarded, DamageContained, InUse, IsAllocated
<1>2. QED
    BY <1>1, HeapInvariant, PTL
=============================================================================
