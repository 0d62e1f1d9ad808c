---------------------------- MODULE PagingProofs ----------------------------
(***************************************************************************)
(* Proofs about the frames of the physical memory and the page tables made *)
(* of them, for every array of regions, every size of the stack of         *)
(* recycled frames and of the tables of the mapper, every set of image     *)
(* plans and every number of processes.                                    *)
(***************************************************************************)
EXTENDS Paging, PhysMem, NatRecursion, FiniteSetTheorems, SequenceTheorems

-----------------------------------------------------------------------------
(* The inductive invariant, of an allocator state a and the frames h that  *)
(* are held.                                                               *)

AllocatorState(R) ==
    [regions : {R}, region : 1 .. Len(R) + 1, nextFrame : Nat,
     recycled : Seq(FramesOf(R)), allocated : Nat, exhausted : BOOLEAN]

\* next_frame lies in the current region or at its end, so that moving on to
\* the next region skips no frame.
Cursor(R, a) ==
    a.region <= Len(R) =>
        /\ R[a.region].start <= a.nextFrame
        /\ a.nextFrame <= R[a.region].end

Partition(R, a, h) ==
    /\ \A f \in FramesOf(R) : IsIssued(a, f) <=> (f \in h \/ IsRecycled(a, f))
    /\ \A f \in h : ~ IsRecycled(a, f)
    /\ \A i, j \in DOMAIN a.recycled : a.recycled[i] = a.recycled[j] => i = j

Good(R, a, h) ==
    /\ a \in AllocatorState(R)
    /\ Cursor(R, a)
    /\ h \subseteq FramesOf(R) /\ IsFiniteSet(h)
    /\ Partition(R, a, h)
    /\ a.allocated = Cardinality(h)
    /\ a.exhausted => a.recycled = <<>> /\ h = FramesOf(R)

-----------------------------------------------------------------------------
(* Regions.                                                                *)

LEMMA RegionFacts ==
    ASSUME NEW R, IsRegionArray(R)
    PROVE  /\ R \in Seq([start : Nat, end : Nat]) /\ Len(R) \in Nat
           /\ DOMAIN R = 1 .. Len(R)
           /\ \A l \in 1 .. Len(R) :
                 /\ R[l].start \in Nat /\ R[l].end \in Nat
                 /\ 0 < R[l].start /\ R[l].start < R[l].end
<1>1. R \in Seq([start : Nat, end : Nat])
    BY DEF IsRegionArray
<1>2. Len(R) \in Nat /\ DOMAIN R = 1 .. Len(R)
    BY <1>1
<1>3. \A l \in 1 .. Len(R) : R[l] \in [start : Nat, end : Nat]
    BY <1>1, ElementOfSeq
<1>4. \A l \in 1 .. Len(R) : R[l].start \in Nat /\ R[l].end \in Nat
    BY <1>3
<1>5. \A l \in DOMAIN R : 0 < R[l].start /\ R[l].start < R[l].end
    BY DEF IsRegionArray
<1>6. QED
    BY <1>1, <1>2, <1>3, <1>4, <1>5

\* A frame is in one region.
LEMMA OneRegion ==
    ASSUME NEW R, IsRegionArray(R), NEW l \in 1 .. Len(R), NEW j \in 1 .. Len(R), NEW f \in Nat,
           R[l].start <= f, f < R[l].end,
           R[j].start <= f, f < R[j].end
    PROVE  l = j
<1> DEFINE r == R[l]
           s == R[j]
<1>1. r.start \in Nat /\ r.end \in Nat /\ s.start \in Nat /\ s.end \in Nat
    BY RegionFacts
<1>2. l # j => Max2(r.start, s.start) >= Min2(r.end, s.end)
    BY RegionFacts DEF IsRegionArray, Disjoint
<1>3. r.start <= f /\ f < r.end /\ s.start <= f /\ f < s.end
    OBVIOUS
<1> HIDE DEF r, s
<1>4. QED
    BY <1>1, <1>2, <1>3 DEF Max2, Min2

LEMMA FrameFacts ==
    ASSUME NEW R, IsRegionArray(R)
    PROVE  \A f : f \in FramesOf(R) <=>
                    /\ f \in Nat /\ f # NoFrame
                    /\ \E l \in 1 .. Len(R) : R[l].start <= f /\ f < R[l].end
<1>1. ASSUME NEW f \in FramesOf(R)
      PROVE  /\ f \in Nat /\ f # NoFrame
             /\ \E l \in 1 .. Len(R) : R[l].start <= f /\ f < R[l].end
    <2>1. PICK l \in DOMAIN R : f \in R[l].start .. R[l].end - 1
        BY DEF FramesOf
    <2>2. /\ l \in 1 .. Len(R) /\ R[l].start \in Nat /\ R[l].end \in Nat
          /\ 0 < R[l].start /\ R[l].start < R[l].end
        BY RegionFacts
    <2>3. f \in Nat /\ R[l].start <= f /\ f < R[l].end /\ f # 0
        BY <2>1, <2>2
    <2>4. QED
        BY <2>2, <2>3 DEF NoFrame
<1>2. ASSUME NEW f \in Nat, NEW l \in 1 .. Len(R),
             R[l].start <= f, f < R[l].end
      PROVE  f \in FramesOf(R)
    <2>1. l \in DOMAIN R /\ f \in R[l].start .. R[l].end - 1
        BY <1>2, RegionFacts
    <2>2. QED
        BY <2>1 DEF FramesOf
<1>3. QED
    BY <1>1, <1>2

LEMMA GoodTypes ==
    ASSUME NEW R, IsRegionArray(R), NEW a, NEW h, Good(R, a, h)
    PROVE  /\ a.regions = R /\ a.region \in 1 .. Len(R) + 1
           /\ a.region \in Nat
           /\ a.nextFrame \in Nat /\ a.allocated \in Nat /\ a.exhausted \in BOOLEAN
           /\ a.recycled \in Seq(FramesOf(R)) /\ Len(a.recycled) \in Nat
           /\ DOMAIN a.recycled = 1 .. Len(a.recycled)
           /\ \A i \in 1 .. Len(a.recycled) : a.recycled[i] \in FramesOf(R)
<1>1. a \in AllocatorState(R)
    BY DEF Good
<1>2. /\ a.regions = R /\ a.region \in 1 .. Len(R) + 1
      /\ a.nextFrame \in Nat /\ a.allocated \in Nat /\ a.exhausted \in BOOLEAN
      /\ a.recycled \in Seq(FramesOf(R))
    BY <1>1 DEF AllocatorState
<1>3. QED
    BY <1>2

-----------------------------------------------------------------------------
(* Where the next fresh frame comes from.                                  *)

\* The loop of allocate_frame ends in the current region or, if that one is
\* used up, in the next: no region is empty.
LEMMA NextRegion ==
    ASSUME NEW R, IsRegionArray(R), NEW a, NEW h, Good(R, a, h),
           \E j \in RegionsLeft(a) : HasFrame(a, j)
    PROVE  LET l == CHOOSE j \in RegionsLeft(a) : IsNextRegion(a, j) IN
           /\ l \in 1 .. Len(R) /\ a.region <= Len(R)
           /\ \/ l = a.region /\ Position(a, l) = a.nextFrame
              \/ /\ l = a.region + 1 /\ Position(a, l) = R[l].start
                 /\ a.nextFrame = R[a.region].end
           /\ R[l].start <= Position(a, l) /\ Position(a, l) < R[l].end
<1> DEFINE n == Len(R)
           l == CHOOSE j \in RegionsLeft(a) : IsNextRegion(a, j)
<1>1. /\ a.regions = R /\ a.region \in 1 .. n + 1 /\ a.nextFrame \in Nat /\ n \in Nat
    BY GoodTypes, RegionFacts
<1>2. RegionsLeft(a) = a.region .. n
    BY <1>1 DEF RegionsLeft
<1>3. a.region <= n
    BY <1>1, <1>2
<1>4. R[a.region].start <= a.nextFrame /\ a.nextFrame <= R[a.region].end
    BY <1>3 DEF Good, Cursor
<1>5. Position(a, a.region) = a.nextFrame
    BY <1>1, <1>3, <1>4, RegionFacts DEF Position, Max2
<1>6. \A j \in a.region + 1 .. n : Position(a, j) = R[j].start /\ HasFrame(a, j)
    <2> SUFFICES ASSUME NEW j \in a.region + 1 .. n
                 PROVE  Position(a, j) = R[j].start /\ HasFrame(a, j)
        OBVIOUS
    <2>1. j # a.region /\ j \in 1 .. n
        BY <1>1
    <2>2. R[j].start < R[j].end
        BY <2>1, RegionFacts
    <2>3. QED
        BY <1>1, <2>1, <2>2 DEF Position, HasFrame
<1>7. \E j \in RegionsLeft(a) : IsNextRegion(a, j)
    <2>1. CASE HasFrame(a, a.region)
        <3>1. IsNextRegion(a, a.region) /\ a.region \in RegionsLeft(a)
            BY <1>1, <1>2, <1>3, <2>1 DEF IsNextRegion
        <3>2. QED
            BY <3>1
    <2>2. CASE ~ HasFrame(a, a.region)
        <3>1. PICK j \in RegionsLeft(a) : HasFrame(a, j)
            OBVIOUS
        <3>2. a.region + 1 \in a.region + 1 .. n
            BY <1>1, <1>2, <2>2, <3>1
        <3>3. HasFrame(a, a.region + 1)
            BY <1>6, <3>2
        <3>4. \A i \in a.region .. (a.region + 1) - 1 : i = a.region
            BY <1>1
        <3>5. IsNextRegion(a, a.region + 1)
            BY <2>2, <3>3, <3>4 DEF IsNextRegion
        <3>6. QED
            BY <1>1, <1>2, <3>2, <3>5
    <2>3. QED
        BY <2>1, <2>2
<1>8. l \in RegionsLeft(a) /\ IsNextRegion(a, l)
    BY <1>7
<1> HIDE DEF l
<1>9. l \in a.region .. n /\ l \in 1 .. n
    BY <1>1, <1>2, <1>8
<1>10. HasFrame(a, l) /\ Position(a, l) < R[l].end
    BY <1>1, <1>8 DEF IsNextRegion, HasFrame
<1>11. CASE l = a.region
    BY <1>3, <1>4, <1>5, <1>9, <1>10, <1>11 DEF l
<1>12. CASE l # a.region
    <2>1. a.region \in a.region .. l - 1 /\ l \in a.region + 1 .. n
        BY <1>1, <1>9, <1>12
    <2>2. ~ HasFrame(a, a.region)
        BY <1>8, <2>1 DEF IsNextRegion
    <2>3. a.nextFrame = R[a.region].end
        BY <1>1, <1>3, <1>4, <1>5, <2>2, RegionFacts DEF HasFrame
    <2>4. l = a.region + 1
        <3>1. SUFFICES ASSUME l # a.region + 1 PROVE FALSE
            OBVIOUS
        <3>2. a.region + 1 \in a.region .. l - 1 /\ a.region + 1 \in a.region + 1 .. n
            BY <1>1, <2>1, <3>1
        <3>3. HasFrame(a, a.region + 1) /\ ~ HasFrame(a, a.region + 1)
            BY <1>6, <1>8, <3>2 DEF IsNextRegion
        <3>4. QED
            BY <3>3
    <2>5. Position(a, l) = R[l].start
        BY <1>6, <2>1
    <2>6. R[l].start \in Nat
        BY <1>9, RegionFacts
    <2>7. QED
        BY <1>3, <1>9, <1>10, <2>3, <2>4, <2>5, <2>6 DEF l
<1>13. QED
    BY <1>11, <1>12

-----------------------------------------------------------------------------
(* The calls.                                                              *)

\* The top of the stack is taken off.
LEMMA RecycledGood ==
    ASSUME NEW R, IsRegionArray(R), NEW a, NEW h, Good(R, a, h), a.recycled # <<>>
    PROVE  /\ NextFrame(a) \in FramesOf(R) /\ NextFrame(a) \notin h
           /\ AllocateFrame(a) = AllocateRecycled(a)
           /\ Good(R, AllocateRecycled(a), h \cup {NextFrame(a)})
<1> DEFINE n == Len(a.recycled)
           f == a.recycled[n]
           q == SubSeq(a.recycled, 1, n - 1)
           b == AllocateRecycled(a)
           g == h \cup {f}
<1>1. /\ a.recycled \in Seq(FramesOf(R)) /\ n \in Nat \ {0} /\ DOMAIN a.recycled = 1 .. n
      /\ a.allocated \in Nat
      /\ \A i \in 1 .. n : a.recycled[i] \in FramesOf(R)
    BY GoodTypes
<1>2. f \in FramesOf(R) /\ NextFrame(a) = f /\ AllocateFrame(a) = b
    BY <1>1 DEF NextFrame, AllocateFrame
<1>3. /\ q \in Seq(FramesOf(R)) /\ Len(q) = n - 1 /\ DOMAIN q = 1 .. n - 1
      /\ \A i \in 1 .. n - 1 : q[i] = a.recycled[i]
    <2>1. \A i \in 1 .. n - 1 : a.recycled[i] \in FramesOf(R)
        BY <1>1
    <2>2. /\ q \in Seq(FramesOf(R))
          /\ Len(q) = IF 1 <= n - 1 THEN (n - 1) - 1 + 1 ELSE 0
          /\ \A i \in 1 .. (n - 1) - 1 + 1 : q[i] = a.recycled[1 + i - 1]
        BY <1>1, <2>1, SubSeqProperties
    <2> HIDE DEF q
    <2>3. QED
        BY <1>1, <2>2
<1>4. /\ b \in AllocatorState(R)
      /\ b.regions = a.regions /\ b.region = a.region /\ b.nextFrame = a.nextFrame
      /\ b.recycled = q /\ b.allocated = a.allocated + 1 /\ ~ b.exhausted
    <2>1. b = [a EXCEPT !.recycled = q, !.allocated = a.allocated + 1, !.exhausted = FALSE]
        BY DEF AllocateRecycled
    <2> HIDE DEF q, b
    <2>2. QED
        <3>1. a \in AllocatorState(R) /\ a.allocated + 1 \in Nat
            BY <1>1 DEF Good
        <3>2. QED
            BY <1>3, <2>1, <3>1 DEF AllocatorState
<1> HIDE DEF q, b
<1>5. \A x : IsIssued(b, x) <=> IsIssued(a, x)
    BY <1>4 DEF IsIssued, InRegion
<1>6. \A x : IsRecycled(b, x) <=> IsRecycled(a, x) /\ x # f
    <2>1. \A i \in 1 .. n - 1 : i \in 1 .. n /\ i # n /\ n \in 1 .. n
        BY <1>1
    <2>2. \A i \in 1 .. n - 1 : a.recycled[i] # f
        BY <1>1, <2>1 DEF Good, Partition
    <2>3. \A i \in 1 .. n : i = n \/ i \in 1 .. n - 1
        BY <1>1
    <2>4. QED
        BY <1>1, <1>3, <1>4, <2>1, <2>2, <2>3 DEF IsRecycled
<1>7. IsRecycled(a, f)
    BY <1>1 DEF IsRecycled
<1>8. f \notin h /\ IsFiniteSet(h) /\ h \subseteq FramesOf(R)
    BY <1>7 DEF Good, Partition
<1>9. IsFiniteSet(g) /\ Cardinality(g) = Cardinality(h) + 1
    BY <1>8, FS_AddElement
<1>10. Cursor(R, b)
    BY <1>4 DEF Good, Cursor
<1>11. Partition(R, b, g)
    <2>1. \A x \in FramesOf(R) : IsIssued(b, x) <=> (x \in g \/ IsRecycled(b, x))
        BY <1>5, <1>6, <1>7 DEF Good, Partition
    <2>2. \A x \in g : ~ IsRecycled(b, x)
        BY <1>6 DEF Good, Partition
    <2>3. \A i, j \in DOMAIN b.recycled : b.recycled[i] = b.recycled[j] => i = j
        <3>1. \A i \in 1 .. n - 1 : i \in 1 .. n
            BY <1>1
        <3>2. QED
            BY <1>1, <1>3, <1>4, <3>1 DEF Good, Partition
    <2>4. QED
        BY <2>1, <2>2, <2>3 DEF Partition
<1>12. b.allocated = Cardinality(g)
    BY <1>4, <1>9 DEF Good
<1>13. Good(R, b, g)
    BY <1>2, <1>4, <1>8, <1>9, <1>10, <1>11, <1>12 DEF Good
<1>14. QED
    BY <1>2, <1>8, <1>13 DEF b

\* A fresh frame is issued: the one that the loop finds.
LEMMA FreshGood ==
    ASSUME NEW R, IsRegionArray(R), NEW a, NEW h, Good(R, a, h), a.recycled = <<>>,
           NextFrame(a) # NoFrame
    PROVE  /\ NextFrame(a) \in FramesOf(R) /\ NextFrame(a) \notin h
           /\ Good(R, AllocateFrame(a), h \cup {NextFrame(a)})
<1> DEFINE l == CHOOSE j \in RegionsLeft(a) : IsNextRegion(a, j)
           f == NextFrame(a)
           b == AllocateFrame(a)
           g == h \cup {f}
<1>1. (\E j \in RegionsLeft(a) : HasFrame(a, j)) /\ f = Position(a, l)
    BY DEF NextFrame
<1>2. /\ l \in 1 .. Len(R) /\ a.region <= Len(R)
      /\ \/ l = a.region /\ f = a.nextFrame
         \/ l = a.region + 1 /\ f = R[l].start /\ a.nextFrame = R[a.region].end
      /\ R[l].start <= f /\ f < R[l].end
    BY <1>1, NextRegion
<1>3. b = [a EXCEPT !.region = l, !.nextFrame = f + 1, !.allocated = a.allocated + 1]
    BY DEF AllocateFrame, AllocateFresh
<1> HIDE DEF l, f, b
<1>4. /\ a.regions = R /\ a.region \in Nat \ {0} /\ a.nextFrame \in Nat
      /\ a.allocated \in Nat /\ a.exhausted \in BOOLEAN /\ Len(R) \in Nat
      /\ DOMAIN R = 1 .. Len(R)
    BY GoodTypes, RegionFacts
<1>5. f \in Nat
    BY <1>2, <1>4, RegionFacts
<1>6. f \in FramesOf(R)
    BY <1>2, <1>5, FrameFacts DEF f
<1>7. /\ b \in AllocatorState(R)
      /\ b.regions = R /\ b.region = l /\ b.nextFrame = f + 1
      /\ b.recycled = <<>> /\ b.allocated = a.allocated + 1 /\ b.exhausted = a.exhausted
    <2>1. l \in 1 .. Len(R) + 1 /\ f + 1 \in Nat /\ a.allocated + 1 \in Nat
        BY <1>2, <1>4, <1>5
    <2>2. QED
        BY <1>3, <1>4, <2>1 DEF Good, AllocatorState
<1>8. ~ IsIssued(a, f)
    <2> SUFFICES ASSUME NEW j \in 1 .. Len(R), R[j].start <= f, f < R[j].end,
                        j < a.region \/ (j = a.region /\ f < a.nextFrame)
                 PROVE  FALSE
        BY <1>4 DEF IsIssued, InRegion
    <2>1. j = l
        BY <1>2, <1>5, OneRegion
    <2>2. QED
        BY <1>2, <1>4, <1>5, <2>1
<1>9. \A x \in FramesOf(R) : IsIssued(b, x) <=> IsIssued(a, x) \/ x = f
    <2> SUFFICES ASSUME NEW x \in FramesOf(R)
                 PROVE  IsIssued(b, x) <=> IsIssued(a, x) \/ x = f
        OBVIOUS
    <2>1. x \in Nat
        BY FrameFacts
    <2>2. \A j \in 1 .. Len(R) : R[j].start \in Nat /\ R[j].end \in Nat
        BY RegionFacts
    <2>3. IsIssued(b, x) => IsIssued(a, x) \/ x = f
        <3> SUFFICES ASSUME NEW j \in 1 .. Len(R), R[j].start <= x, x < R[j].end,
                            j < l \/ (j = l /\ x < f + 1), x # f
                     PROVE  j < a.region \/ (j = a.region /\ x < a.nextFrame)
            BY <1>4, <1>7 DEF IsIssued, InRegion
        <3>1. QED
            BY <1>2, <1>4, <1>5, <2>1, <2>2
    <2>4. IsIssued(a, x) => IsIssued(b, x)
        <3> SUFFICES ASSUME NEW j \in 1 .. Len(R), R[j].start <= x, x < R[j].end,
                            j < a.region \/ (j = a.region /\ x < a.nextFrame)
                     PROVE  j < l \/ (j = l /\ x < f + 1)
            BY <1>4, <1>7 DEF IsIssued, InRegion
        <3>1. QED
            BY <1>2, <1>4, <1>5, <2>1, <2>2
    <2>5. IsIssued(b, f)
        BY <1>2, <1>4, <1>5, <1>7 DEF IsIssued, InRegion
    <2>6. QED
        BY <2>3, <2>4, <2>5
<1>10. \A x : ~ IsRecycled(a, x) /\ ~ IsRecycled(b, x)
    <2>1. DOMAIN a.recycled = {} /\ DOMAIN b.recycled = {}
        BY <1>7
    <2>2. QED
        BY <2>1 DEF IsRecycled
<1>11. f \notin h /\ h \subseteq FramesOf(R) /\ IsFiniteSet(h)
    BY <1>6, <1>8 DEF Good, Partition
<1>12. IsFiniteSet(g) /\ Cardinality(g) = Cardinality(h) + 1
    BY <1>11, FS_AddElement
<1>13. Cursor(R, b)
    <2>1. R[l].start \in Nat /\ R[l].end \in Nat
        BY <1>2, RegionFacts
    <2>2. QED
        BY <1>2, <1>5, <1>7, <2>1 DEF Cursor
<1>14. Partition(R, b, g)
    <2>1. DOMAIN b.recycled = {}
        BY <1>7
    <2>2. QED
        BY <1>9, <1>10, <2>1 DEF Good, Partition
<1>15. ~ a.exhausted
    BY <1>6, <1>11 DEF Good
<1>16. Good(R, b, g)
    BY <1>6, <1>7, <1>11, <1>12, <1>13, <1>14, <1>15 DEF Good
<1>17. QED
    BY <1>6, <1>11, <1>16 DEF f, b

\* Nothing is left: then every frame is held.
LEMMA ExhaustedGood ==
    ASSUME NEW R, IsRegionArray(R), NEW a, NEW h, Good(R, a, h), NextFrame(a) = NoFrame
    PROVE  Good(R, AllocateFrame(a), h)
<1> DEFINE n == Len(R)
           b == AllocateFrame(a)
<1>1. /\ a.regions = R /\ a.region \in 1 .. n + 1 /\ a.nextFrame \in Nat
      /\ n \in Nat /\ DOMAIN R = 1 .. n
    BY GoodTypes, RegionFacts
<1>2. a.recycled = <<>>
    <2> SUFFICES ASSUME a.recycled # <<>> PROVE FALSE
        OBVIOUS
    <2>1. NextFrame(a) \in FramesOf(R)
        BY RecycledGood
    <2>2. QED
        BY <2>1, FrameFacts
<1>3. \A j \in a.region .. n : ~ HasFrame(a, j)
    <2> SUFFICES ASSUME \E j \in RegionsLeft(a) : HasFrame(a, j) PROVE FALSE
        BY <1>1 DEF RegionsLeft
    <2> DEFINE l == CHOOSE j \in RegionsLeft(a) : IsNextRegion(a, j)
    <2>1. l \in 1 .. n /\ R[l].start <= Position(a, l) /\ Position(a, l) = NoFrame
        BY <1>2, NextRegion DEF NextFrame
    <2>2. QED
        BY <2>1, RegionFacts DEF NoFrame
<1>4. b = [a EXCEPT !.region = n + 1, !.exhausted = TRUE]
    <2>1. Max2(a.region, Len(a.regions) + 1) = n + 1
        BY <1>1 DEF Max2
    <2>2. QED
        BY <1>2, <2>1 DEF AllocateFrame, AllocateFresh
<1>5. /\ b \in AllocatorState(R) /\ b.regions = R /\ b.region = n + 1
      /\ b.recycled = <<>> /\ b.allocated = a.allocated /\ b.exhausted
    <2> HIDE DEF b
    <2>1. n + 1 \in 1 .. Len(R) + 1
        BY <1>1
    <2>2. QED
        <3>1. a \in AllocatorState(R)
            BY DEF Good
        <3>2. QED
            BY <1>1, <1>2, <1>4, <2>1, <3>1 DEF AllocatorState
<1> HIDE DEF b
<1>6. \A x \in FramesOf(R) : IsIssued(a, x)
    <2> SUFFICES ASSUME NEW x \in FramesOf(R) PROVE IsIssued(a, x)
        OBVIOUS
    <2>1. PICK l \in 1 .. n : R[l].start <= x /\ x < R[l].end
        BY FrameFacts
    <2>2. x \in Nat /\ R[l].start \in Nat /\ R[l].end \in Nat
        BY FrameFacts, RegionFacts
    <2>3. CASE l < a.region
        BY <1>1, <2>1, <2>3 DEF IsIssued, InRegion
    <2>4. CASE l >= a.region
        <3>1. ~ HasFrame(a, l)
            BY <1>1, <1>3, <2>4
        <3>2. l = a.region
            BY <1>1, <2>1, <2>2, <3>1 DEF HasFrame, Position
        <3>3. a.nextFrame >= R[l].end
            BY <1>1, <2>1, <2>2, <3>1, <3>2 DEF HasFrame, Position, Max2
        <3>4. x < a.nextFrame
            BY <1>1, <2>1, <2>2, <3>3
        <3>5. QED
            BY <1>1, <2>1, <3>2, <3>4 DEF IsIssued, InRegion
    <2>5. QED
        BY <1>1, <2>3, <2>4
<1>7. \A x \in FramesOf(R) : IsIssued(b, x)
    <2> SUFFICES ASSUME NEW x \in FramesOf(R) PROVE IsIssued(b, x)
        OBVIOUS
    <2>1. PICK l \in 1 .. n : R[l].start <= x /\ x < R[l].end
        BY FrameFacts
    <2>2. QED
        BY <1>1, <1>5, <2>1 DEF IsIssued, InRegion
<1>8. /\ \A x : ~ IsRecycled(a, x) /\ ~ IsRecycled(b, x)
      /\ DOMAIN b.recycled = {}
    <2>1. DOMAIN a.recycled = {} /\ DOMAIN b.recycled = {}
        BY <1>2, <1>5
    <2>2. QED
        BY <2>1 DEF IsRecycled
<1>9. h = FramesOf(R)
    BY <1>6, <1>8 DEF Good, Partition
<1>10. Partition(R, b, h)
    BY <1>7, <1>8, <1>9 DEF Partition
<1>11. Cursor(R, b)
    BY <1>1, <1>5 DEF Cursor
<1>12. QED
    BY <1>5, <1>9, <1>10, <1>11 DEF Good, b

\* A frame that is freed, if free_frame takes it, was held.
LEMMA FreeGood ==
    ASSUME NEW R, IsRegionArray(R), NEW a, NEW h, Good(R, a, h), NEW f \in FramesOf(R)
    PROVE  Good(R, FreeFrame(a, f), IF Frees(a, f) THEN h \ {f} ELSE h)
<1>1. CASE ~ Frees(a, f)
    BY <1>1 DEF FreeFrame
<1>2. CASE Frees(a, f)
    <2> DEFINE n == Len(a.recycled)
               q == Append(a.recycled, f)
               b == FreeFrame(a, f)
               g == h \ {f}
    <2>1. /\ a.recycled \in Seq(FramesOf(R)) /\ n \in Nat /\ DOMAIN a.recycled = 1 .. n
          /\ a.allocated \in Nat
        BY GoodTypes
    <2>2. IsIssued(a, f) /\ ~ IsRecycled(a, f)
        BY <1>2 DEF Frees
    <2>3. f \in h /\ IsFiniteSet(h) /\ h \subseteq FramesOf(R) /\ a.allocated = Cardinality(h)
        BY <2>2 DEF Good, Partition
    <2>4. IsFiniteSet(g) /\ Cardinality(g) = Cardinality(h) - 1 /\ Cardinality(g) \in Nat
        BY <2>3, FS_RemoveElement, FS_CardinalityType
    <2>5. /\ q \in Seq(FramesOf(R)) /\ Len(q) = n + 1 /\ DOMAIN q = 1 .. n + 1
          /\ \A i \in 1 .. n : q[i] = a.recycled[i]
          /\ q[n + 1] = f
        BY <2>1, AppendProperties
    <2>6. /\ b \in AllocatorState(R)
          /\ b.regions = a.regions /\ b.region = a.region /\ b.nextFrame = a.nextFrame
          /\ b.recycled = q /\ b.allocated = Cardinality(g) /\ ~ b.exhausted
        <3>1. Max2(a.allocated - 1, 0) = Cardinality(g)
            <4> HIDE DEF g
            <4>1. QED
                BY <2>3, <2>4, FS_CardinalityType DEF Max2
        <3>2. b = [a EXCEPT !.recycled = q, !.allocated = Cardinality(g), !.exhausted = FALSE]
            BY <1>2, <3>1 DEF FreeFrame
        <3> HIDE DEF q, b, g
        <3>3. QED
            <4>1. a \in AllocatorState(R)
                BY DEF Good
            <4>2. QED
                BY <2>4, <2>5, <3>2, <4>1 DEF AllocatorState
    <2> HIDE DEF q, b
    <2>7. \A x : IsIssued(b, x) <=> IsIssued(a, x)
        BY <2>6 DEF IsIssued, InRegion
    <2>8. \A i \in 1 .. n + 1 : i = n + 1 \/ i \in 1 .. n
        BY <2>1
    <2>9. \A x : IsRecycled(b, x) <=> IsRecycled(a, x) \/ x = f
        <3>1. n + 1 \in 1 .. n + 1 /\ \A i \in 1 .. n : i \in 1 .. n + 1
            BY <2>1
        <3>2. QED
            BY <2>1, <2>5, <2>6, <2>8, <3>1 DEF IsRecycled
    <2>10. Partition(R, b, g)
        <3>1. \A x \in FramesOf(R) : IsIssued(b, x) <=> (x \in g \/ IsRecycled(b, x))
            BY <2>2, <2>7, <2>9 DEF Good, Partition
        <3>2. \A x \in g : ~ IsRecycled(b, x)
            BY <2>9 DEF Good, Partition
        <3>3. \A i \in 1 .. n : a.recycled[i] # f
            BY <2>1, <2>2 DEF IsRecycled
        <3>4. \A i, j \in 1 .. n : a.recycled[i] = a.recycled[j] => i = j
            BY <2>1 DEF Good, Partition
        <3>5. \A i, j \in DOMAIN b.recycled : b.recycled[i] = b.recycled[j] => i = j
            BY <2>5, <2>6, <2>8, <3>3, <3>4
        <3>6. QED
            BY <3>1, <3>2, <3>5 DEF Partition
    <2>11. Cursor(R, b)
        BY <2>6 DEF Good, Cursor
    <2>12. Good(R, b, g)
        BY <2>3, <2>4, <2>6, <2>10, <2>11 DEF Good
    <2>13. QED
        BY <1>2, <2>12 DEF b
<1>3. QED
    BY <1>1, <1>2

LEMMA NewGood ==
    ASSUME NEW R, IsRegionArray(R)
    PROVE  Good(R, NewAllocator(R), {})
<1> DEFINE a == NewAllocator(R)
<1>1. a = [regions |-> R, region |-> 1,
           nextFrame |-> IF R = <<>> THEN 0 ELSE R[1].start,
           recycled |-> <<>>, allocated |-> 0, exhausted |-> R = <<>>]
    BY DEF NewAllocator
<1> HIDE DEF a
<1>2. Len(R) \in Nat /\ (R # <<>> => 1 \in 1 .. Len(R))
    BY RegionFacts
<1>3. (IF R = <<>> THEN 0 ELSE R[1].start) \in Nat
    BY <1>2, RegionFacts
<1>4. a \in AllocatorState(R)
    <2>1. (R = <<>>) \in BOOLEAN /\ <<>> \in Seq(FramesOf(R)) /\ 1 \in 1 .. Len(R) + 1
        BY <1>2
    <2>2. QED
        BY <1>1, <1>3, <2>1 DEF AllocatorState
<1>5. Cursor(R, a)
    <2>1. CASE R = <<>>
        BY <1>1, <2>1 DEF Cursor
    <2>2. CASE R # <<>>
        BY <1>1, <1>2, <2>2, RegionFacts DEF Cursor
    <2>3. QED
        BY <2>1, <2>2
<1>6. Partition(R, a, {})
    <2>1. DOMAIN a.recycled = {}
        BY <1>1
    <2>2. \A f : ~ IsRecycled(a, f)
        BY <2>1 DEF IsRecycled
    <2>3. \A f \in FramesOf(R) : ~ IsIssued(a, f)
        <3> SUFFICES ASSUME NEW f \in FramesOf(R), NEW l \in 1 .. Len(R),
                            R[l].start <= f,
                            l < a.region \/ (l = a.region /\ f < a.nextFrame)
                     PROVE  FALSE
            BY <1>1, RegionFacts DEF IsIssued, InRegion
        <3>1. l = 1 /\ f < a.nextFrame /\ R # <<>>
            BY <1>1, <1>2
        <3>2. QED
            BY <1>1, <3>1, FrameFacts, RegionFacts
    <2>4. QED
        BY <2>1, <2>2, <2>3 DEF Partition
<1>7. IsFiniteSet({}) /\ Cardinality({}) = 0
    BY FS_EmptySet
<1>8. a.exhausted => a.recycled = <<>> /\ {} = FramesOf(R)
    <2> SUFFICES ASSUME R = <<>> PROVE FramesOf(R) = {}
        BY <1>1
    <2>1. QED
        BY RegionFacts, FrameFacts
<1>9. QED
    BY <1>1, <1>4, <1>5, <1>6, <1>7, <1>8 DEF Good, a

-----------------------------------------------------------------------------
(* The frame allocator alone.                                              *)

\* Whatever is allocated and freed, in any order, twice or without having
\* been allocated: allocate_frame never gives a frame to two owners, no frame
\* is lost, allocated_frames counts the frames that are held, and exhausted
\* is only reported when every frame is held.
THEOREM FramesAreAccounted == FramesSpec => []FramesAccounted
<1> DEFINE Inv == Good(Regions, pm, held)
<1>1. FramesInit => Inv
    BY NewGood, RegionsAssumption DEF FramesInit
<1>2. ASSUME Inv, [FramesNext]_frameVars
      PROVE  Inv'
    <2>1. CASE Allocate
        <3>1. pm' = AllocateFrame(pm) /\ held' = held \cup {NextFrame(pm)} /\ NextFrame(pm) # NoFrame
            BY <2>1 DEF Allocate
        <3>2. Good(Regions, AllocateFrame(pm), held \cup {NextFrame(pm)})
            BY <1>2, <3>1, RecycledGood, FreshGood, RegionsAssumption
        <3>3. QED
            BY <3>1, <3>2
    <2>2. CASE AllocateFails
        BY <1>2, <2>2, ExhaustedGood, RegionsAssumption DEF AllocateFails
    <2>3. ASSUME NEW f \in Frames, Free(f)
          PROVE  Inv'
        BY <1>2, <2>3, FreeGood, RegionsAssumption DEF Free, Frames
    <2>4. CASE UNCHANGED frameVars
        BY <1>2, <2>4 DEF frameVars
    <2>5. QED
        BY <1>2, <2>1, <2>2, <2>3, <2>4 DEF FramesNext
<1>3. Inv => FramesAccounted
    <2> SUFFICES ASSUME Inv PROVE FramesAccounted
        OBVIOUS
    <2>1. TypeOK
        BY GoodTypes, RegionsAssumption DEF TypeOK, Good, Frames
    <2>2. FramesPartitioned
        BY DEF FramesPartitioned, Good, Partition, Frames
    <2>3. QED
        BY <2>1, <2>2 DEF FramesAccounted, Good, Frames
<1>4. QED
    BY <1>1, <1>2, <1>3, PTL DEF FramesSpec

-----------------------------------------------------------------------------
(* The kernel's tables as a tree.  A node is a place in it: the root, the  *)
(* p3 table of a half s of the address space, its p2 table, the p1 tables  *)
(* c of that, and their pages d.  Half 0 holds the user range, half 1 the  *)
(* range that the mapper manages.                                          *)

Half == 0 .. 1
Root == <<4, 0, 0, 0>>
N3(s) == <<3, s, 0, 0>>
N2(s) == <<2, s, 0, 0>>
N1(s, c) == <<1, s, c, 0>>
N0(s, c, d) == <<0, s, c, d>>
Node == {Root} \cup {N3(s) : s \in Half} \cup {N2(s) : s \in Half}
        \cup {N1(s, c) : s \in Half, c \in Half}
        \cup {N0(s, c, d) : s \in Half, c \in Half, d \in Index}
Inner == Node \ {Root}

IsTable(n) == n[1] # 0
HalfOf(n) == n[2]
Parent(n) ==
    CASE n[1] = 3 -> Root
      [] n[1] = 2 -> N3(n[2])
      [] n[1] = 1 -> N2(n[2])
      [] OTHER -> N1(n[2], n[3])

\* The entry of the parent that leads to a node.
Slot(n) ==
    CASE n[1] = 3 -> n[2]
      [] n[1] = 2 -> 1 - n[2]
      [] n[1] = 1 -> n[3]
      [] OTHER -> n[4]

\* The entries of a table that lead to no node.
Spare(n) ==
    CASE n[1] = 4 -> 2 .. 3
      [] n[1] = 3 -> Index \ {1 - n[2]}
      [] n[1] = 2 -> 2 .. 3
      [] OTHER -> {}

\* The page of a node without children.
Virt(s, c, d) == <<s, 1 - s, c, d>>

LEMMA NodeCases ==
    ASSUME NEW n \in Inner
    PROVE  \/ \E s \in Half : n = N3(s)
           \/ \E s \in Half : n = N2(s)
           \/ \E s, c \in Half : n = N1(s, c)
           \/ \E s, c \in Half, d \in Index : n = N0(s, c, d)
BY DEF Inner, Node

LEMMA NodeMembers ==
    /\ Root \in Node
    /\ \A s \in Half : N3(s) \in Inner /\ N2(s) \in Inner
    /\ \A s, c \in Half : N1(s, c) \in Inner
    /\ \A s, c \in Half, d \in Index : N0(s, c, d) \in Inner
    /\ Inner \subseteq Node /\ \A n \in Node : n = Root \/ n \in Inner
BY DEF Inner, Node, Root, N3, N2, N1, N0

LEMMA NodeTree ==
    /\ \A s \in Half : Parent(N3(s)) = Root /\ Slot(N3(s)) = s /\ HalfOf(N3(s)) = s
    /\ \A s \in Half : Parent(N2(s)) = N3(s) /\ Slot(N2(s)) = 1 - s /\ HalfOf(N2(s)) = s
    /\ \A s, c \in Half : /\ Parent(N1(s, c)) = N2(s) /\ Slot(N1(s, c)) = c
                          /\ HalfOf(N1(s, c)) = s
    /\ \A s, c \in Half, d \in Index : /\ Parent(N0(s, c, d)) = N1(s, c)
                                       /\ Slot(N0(s, c, d)) = d /\ HalfOf(N0(s, c, d)) = s
    /\ IsTable(Root) /\ \A s \in Half : IsTable(N3(s)) /\ IsTable(N2(s))
    /\ \A s, c \in Half : IsTable(N1(s, c))
    /\ \A s, c \in Half, d \in Index : ~ IsTable(N0(s, c, d))
BY DEF Parent, Slot, HalfOf, IsTable, Root, N3, N2, N1, N0

LEMMA NodeSpare ==
    /\ Spare(Root) = 2 .. 3
    /\ \A s \in Half : Spare(N3(s)) = Index \ {1 - s} /\ Spare(N2(s)) = 2 .. 3
    /\ \A s, c \in Half : Spare(N1(s, c)) = {}
BY DEF Spare, Root, N3, N2, N1

LEMMA NodesDiffer ==
    /\ \A s \in Half : N3(s) # Root /\ N2(s) # Root
    /\ \A s, t \in Half : N3(s) # N2(t)
    /\ \A s, t, c \in Half : /\ N1(t, c) # Root /\ N3(s) # N1(t, c) /\ N2(s) # N1(t, c)
    /\ \A s, t \in Half : (N3(s) = N3(t) => s = t) /\ (N2(s) = N2(t) => s = t)
    /\ \A s, t, c, e \in Half : N1(s, c) = N1(t, e) => s = t /\ c = e
    /\ \A s, c \in Half, d \in Index : \A t, e \in Half, g \in Index :
          N0(s, c, d) = N0(t, e, g) => s = t /\ c = e /\ d = g
    /\ \A n \in {Root} \cup {N3(s) : s \in Half} \cup {N2(s) : s \in Half}
               \cup {N1(s, c) : s \in Half, c \in Half} :
          \A s, c \in Half, d \in Index : n # N0(s, c, d)
BY DEF Root, N3, N2, N1, N0

LEMMA NodeLaws ==
    ASSUME NEW n \in Inner
    PROVE  /\ Parent(n) \in Node /\ IsTable(Parent(n)) /\ Parent(n) # n
           /\ Slot(n) \in Index /\ Slot(n) \notin Spare(Parent(n)) /\ HalfOf(n) \in Half
           /\ n # Root
           /\ Parent(n) = Root \/ (Parent(n) \in Inner /\ HalfOf(Parent(n)) = HalfOf(n))
<1> DEFINE Law(m) == /\ Parent(m) \in Node /\ IsTable(Parent(m)) /\ Parent(m) # m
                     /\ Slot(m) \in Index /\ Slot(m) \notin Spare(Parent(m))
                     /\ HalfOf(m) \in Half /\ m # Root
                     /\ \/ Parent(m) = Root
                        \/ Parent(m) \in Inner /\ HalfOf(Parent(m)) = HalfOf(m)
<1>0. \A s \in Half : s \in Index /\ 1 - s \in Index /\ s \notin 2 .. 3
    BY DEF Half, Index
<1>1. ASSUME NEW s \in Half PROVE Law(N3(s))
    BY <1>0, NodeMembers, NodeTree, NodeSpare, NodesDiffer
<1>2. ASSUME NEW s \in Half PROVE Law(N2(s))
    BY <1>0, NodeMembers, NodeTree, NodeSpare, NodesDiffer
<1>3. ASSUME NEW s \in Half, NEW c \in Half PROVE Law(N1(s, c))
    BY <1>0, NodeMembers, NodeTree, NodeSpare, NodesDiffer
<1>4. ASSUME NEW s \in Half, NEW c \in Half, NEW d \in Index PROVE Law(N0(s, c, d))
    BY <1>0, NodeMembers, NodeTree, NodeSpare, NodesDiffer
<1> HIDE DEF Law
<1>5. Law(n)
    BY <1>1, <1>2, <1>3, <1>4, NodeCases
<1>6. QED
    BY <1>5 DEF Law

\* Two children of a table are behind different entries.
LEMMA Siblings ==
    ASSUME NEW n \in Inner, NEW m \in Inner, Parent(m) = Parent(n), Slot(m) = Slot(n)
    PROVE  m = n
<1>1. CASE \E s \in Half : n = N3(s)
    BY <1>1, NodeCases, NodeTree, NodesDiffer
<1>2. CASE \E s \in Half : n = N2(s)
    BY <1>2, NodeCases, NodeTree, NodesDiffer
<1>3. CASE \E s, c \in Half : n = N1(s, c)
    BY <1>3, NodeCases, NodeTree, NodesDiffer
<1>4. CASE \E s, c \in Half, d \in Index : n = N0(s, c, d)
    BY <1>4, NodeCases, NodeTree, NodesDiffer
<1>5. QED
    BY <1>1, <1>2, <1>3, <1>4, NodeCases

-----------------------------------------------------------------------------
(* The invariant of the kernel's memory kk on a machine with the regions   *)
(* R.  en[n] is the entry that leads to node n, h the frames that are in   *)
(* use, H the ones among them that are not the kernel's.                   *)

Machine(R) == IsRegionArray(R) /\ FramesOf(R) \cap ImageFrames = {}

Entry == [present : BOOLEAN, frame : Nat, huge : BOOLEAN,
          writable : BOOLEAN, user : BOOLEAN, nx : BOOLEAN]
Table == [Index -> Entry]
Memory(R) == [ImageFrames \cup FramesOf(R) -> Table]
PageFlags == [writable : BOOLEAN, user : BOOLEAN, nx : BOOLEAN]
Record == [virt : Virtuals, phys : Nat, flags : PageFlags, owner : {"Heap", "Test", "User"}]

KernelMemory(R) ==
    [pm : AllocatorState(R), mem : Memory(R), records : SUBSET Record,
     overflowed : BOOLEAN, cleanupFailed : BOOLEAN]

FrameOk(R, n, e) ==
    CASE n = Root -> e.frame = BootP4
      [] n = N3(0) -> e.frame = BootP3
      [] OTHER -> \/ e.frame \in FramesOf(R) /\ Reachable(e.frame)
                  \/ ~ IsTable(n) /\ HalfOf(n) = 0 /\ e.frame \in {ProbeCodeFrame, ProbeStackFrame}

\* The flags of the entry e of node n under the entry p of its parent: a
\* page has the access that its entry grants, no table takes anything away.
FlagsOk(n, e, p) ==
    /\ e.writable => p.writable
    /\ IsTable(n) => ~ e.nx
    /\ HalfOf(n) = 1 => e.writable /\ ~ e.user /\ ~ e.nx
    /\ n = N3(0) => e.writable
    /\ HalfOf(n) = 0 /\ n # N3(0) => e.user /\ p.user

EntryOf(R, n, e, p) ==
    \/ e = NoEntry
    \/ /\ e \in Entry /\ e.present /\ ~ e.huge
       /\ FrameOk(R, n, e) /\ FlagsOk(n, e, p)

Fixed(n, i) == IF n = N3(0) /\ i = 0 THEN TableEntry(BootP2, TRUE, FALSE) ELSE NoEntry

KTree(R, mem, en) ==
    /\ en \in [Node -> Entry]
    /\ en[Root] = TableEntry(BootP4, TRUE, TRUE)
    /\ en[N3(0)].present
    /\ mem[BootP2] = BootTable(BootP2)
    /\ \A n \in Inner : EntryOf(R, n, en[n], en[Parent(n)])
    /\ \A n \in Inner : IF en[Parent(n)].present
                        THEN mem[en[Parent(n)].frame][Slot(n)] = en[n]
                        ELSE en[n] = NoEntry
    /\ \A n \in Node : IsTable(n) /\ en[n].present =>
          \A i \in Spare(n) : mem[en[n].frame][i] = Fixed(n, i)
    /\ \A n, m \in Node : en[n].present /\ en[m].present /\ en[n].frame = en[m].frame => n = m

\* The frames of the kernel's tables and pages, without its image.
KernelFrames(R, en) == {f \in FramesOf(R) : \E n \in Node : en[n].present /\ en[n].frame = f}

PageFlagsOf(e) == [writable |-> e.writable, user |-> e.user, nx |-> e.nx]

RecordTrue(en, r, s, c, d) ==
    /\ r.virt = Virt(s, c, d)
    /\ en[N0(s, c, d)].present
    /\ r.phys = en[N0(s, c, d)].frame
    /\ r.flags = PageFlagsOf(en[N0(s, c, d)])
    /\ r.owner = "User" <=> s = 0

\* What permission_audit looks at.
Recorded(kk, en) ==
    /\ \A r \in kk.records : \E s, c \in Half, d \in Index : RecordTrue(en, r, s, c, d)
    /\ ~ kk.overflowed =>
          \A s, c \in Half, d \in Index :
              en[N0(s, c, d)].present => \E r \in kk.records : r.virt = Virt(s, c, d)
    /\ ~ en[N0(1, 0, 0)].present /\ ~ en[N0(1, 0, 3)].present

Owners(R, kk, en, h, H) ==
    /\ H \cup KernelFrames(R, en) \subseteq h
    /\ H \cap KernelFrames(R, en) = {}
    /\ ~ kk.cleanupFailed => h \subseteq H \cup KernelFrames(R, en)

KInv(R, kk, en, h, H) ==
    /\ kk \in KernelMemory(R)
    /\ KTree(R, kk.mem, en)
    /\ Good(R, kk.pm, h)
    /\ Owners(R, kk, en, h, H)
    /\ Recorded(kk, en)

\* There is room for n more frames on the stack of recycled frames.
Room(a, n) == Len(a.recycled) + n <= MaxRecycled

-----------------------------------------------------------------------------
(* Frames for tables and pages.                                            *)

LEMMA RoomSums ==
    \A x, n, m \in Nat : /\ x + n <= m => (x - 1) + (n + 1) <= m
                         /\ x + (n + 1) <= m => x < m /\ (x + 1) + n <= m
OBVIOUS

\* allocate_frame for a caller that wants n frames given back to fit.
LEMMA TakeFrame ==
    ASSUME NEW R, IsRegionArray(R), NEW a, NEW h, Good(R, a, h),
           NEW n \in Nat, Room(a, n), n < MaxRecycled
    PROVE  LET f == NextFrame(a)
               b == AllocateFrame(a)
           IN /\ f = NoFrame => Good(R, b, h) /\ Room(b, n)
              /\ f # NoFrame => /\ f \in FramesOf(R) /\ f \notin h
                                /\ Good(R, b, h \cup {f}) /\ Room(b, n + 1)
<1> DEFINE f == NextFrame(a)
           b == AllocateFrame(a)
<1>0. Len(a.recycled) \in Nat /\ MaxRecycled \in Nat
    BY GoodTypes, MaxRecycledAssumption
<1>1. a.recycled \in Seq(FramesOf(R)) /\ a \in AllocatorState(R)
    BY GoodTypes DEF Good
<1>2. CASE a.recycled # <<>>
    <2>1. f \in FramesOf(R) /\ f \notin h /\ Good(R, b, h \cup {f}) /\ b = AllocateRecycled(a)
        <3>1. /\ NextFrame(a) \in FramesOf(R) /\ NextFrame(a) \notin h
              /\ AllocateFrame(a) = AllocateRecycled(a)
              /\ Good(R, AllocateRecycled(a), h \cup {NextFrame(a)})
            BY <1>2, RecycledGood
        <3>2. QED
            BY <3>1, Zenon
    <2>2. f # NoFrame
        BY <2>1, FrameFacts
    <2>3. b.recycled = SubSeq(a.recycled, 1, Len(a.recycled) - 1)
        BY <1>1, <2>1 DEF AllocateRecycled, AllocatorState
    <2>4. Len(a.recycled) > 0
        BY <1>1, <1>2
    <2>5. Len(b.recycled) = Len(a.recycled) - 1
        BY <1>1, <2>3, <2>4
    <2>6. Room(b, n + 1)
        <3> HIDE DEF b
        <3>1. Len(a.recycled) + n <= MaxRecycled
            BY DEF Room
        <3>2. (Len(a.recycled) - 1) + (n + 1) <= MaxRecycled
            BY <1>0, <3>1, RoomSums
        <3>3. QED
            BY <2>5, <3>2 DEF Room
    <2>7. QED
        BY <2>1, <2>2, <2>6
<1>3. CASE a.recycled = <<>>
    <2>1. b.recycled = <<>>
        BY <1>1, <1>3 DEF AllocateFrame, AllocateFresh, AllocatorState
    <2>2. Room(b, n) /\ Room(b, n + 1)
        BY <1>0, <2>1 DEF Room
    <2>3. f = NoFrame => Good(R, b, h)
        BY ExhaustedGood
    <2>4. f # NoFrame => f \in FramesOf(R) /\ f \notin h /\ Good(R, b, h \cup {f})
        BY <1>3, FreshGood
    <2>5. QED
        BY <2>2, <2>3, <2>4
<1>4. QED
    BY <1>2, <1>3

\* free_frame of a frame in use, while there is room.
LEMMA GiveBack ==
    ASSUME NEW R, IsRegionArray(R), NEW a, NEW h, Good(R, a, h),
           NEW n \in Nat, Room(a, n + 1), NEW f \in h
    PROVE  /\ Frees(a, f) /\ Good(R, FreeFrame(a, f), h \ {f})
           /\ Room(FreeFrame(a, f), n)
<1>0. Len(a.recycled) \in Nat /\ MaxRecycled \in Nat
    BY GoodTypes, MaxRecycledAssumption
<1>1. a.recycled \in Seq(FramesOf(R)) /\ a \in AllocatorState(R) /\ f \in FramesOf(R)
    BY GoodTypes DEF Good
<1>2. Frees(a, f)
    <2>1. IsIssued(a, f) /\ ~ IsRecycled(a, f)
        BY <1>1 DEF Good, Partition
    <2>2. Len(a.recycled) < MaxRecycled
        <3>1. Len(a.recycled) + (n + 1) <= MaxRecycled
            BY DEF Room
        <3>2. QED
            BY <1>0, <3>1, RoomSums
    <2>3. QED
        BY <2>1, <2>2 DEF Frees
<1>3. Good(R, FreeFrame(a, f), h \ {f})
    BY <1>1, <1>2, FreeGood
<1>4. FreeFrame(a, f).recycled = Append(a.recycled, f)
    BY <1>1, <1>2 DEF FreeFrame, AllocatorState
<1>5. Len(FreeFrame(a, f).recycled) = Len(a.recycled) + 1
    BY <1>1, <1>4
<1>6. Room(FreeFrame(a, f), n)
    <2>1. Len(a.recycled) + (n + 1) <= MaxRecycled
        BY DEF Room
    <2>2. (Len(a.recycled) + 1) + n <= MaxRecycled
        BY <1>0, <2>1, RoomSums
    <2>3. QED
        BY <1>5, <2>2 DEF Room
<1>7. QED
    BY <1>2, <1>3, <1>6

\* What allocate_zeroed_frame leaves: nothing, or a frame nobody had.
Obtained(R, kk, h, n, z) ==
    /\ z = [k |-> z.k, frame |-> z.frame]
    /\ z.k \in KernelMemory(R)
    /\ z.k.records = kk.records /\ z.k.overflowed = kk.overflowed
    /\ z.k.cleanupFailed = kk.cleanupFailed
    /\ \/ z.frame = NoFrame /\ z.k.mem = kk.mem /\ Good(R, z.k.pm, h) /\ Room(z.k.pm, n)
       \/ /\ z.frame \in FramesOf(R) /\ z.frame # NoFrame /\ z.frame \notin h
          /\ Reachable(z.frame)
          /\ z.k.mem = [kk.mem EXCEPT ![z.frame] = ZeroTable]
          /\ Good(R, z.k.pm, h \cup {z.frame}) /\ Room(z.k.pm, n + 1)

LEMMA ZeroTableType == ZeroTable \in Table /\ NoEntry \in Entry
BY DEF ZeroTable, Table, NoEntry, Entry

LEMMA KernelMemoryFields ==
    ASSUME NEW R, NEW kk \in KernelMemory(R)
    PROVE  /\ kk.pm \in AllocatorState(R) /\ kk.mem \in Memory(R) /\ kk.records \subseteq Record
           /\ kk.overflowed \in BOOLEAN /\ kk.cleanupFailed \in BOOLEAN
           /\ DOMAIN kk = {"pm", "mem", "records", "overflowed", "cleanupFailed"}
           /\ kk = [pm |-> kk.pm, mem |-> kk.mem, records |-> kk.records,
                    overflowed |-> kk.overflowed, cleanupFailed |-> kk.cleanupFailed]
BY DEF KernelMemory

LEMMA AllocateZeroedIs ==
    ASSUME NEW R, IsRegionArray(R), NEW kk \in KernelMemory(R), NEW h, Good(R, kk.pm, h),
           NEW n \in Nat, Room(kk.pm, n), n < MaxRecycled
    PROVE  Obtained(R, kk, h, n, AllocateZeroed(kk))
<1> DEFINE f == NextFrame(kk.pm)
           b == AllocateFrame(kk.pm)
           z == AllocateZeroed(kk)
<1>1. /\ f = NoFrame => Good(R, b, h) /\ Room(b, n)
      /\ f # NoFrame => /\ f \in FramesOf(R) /\ f \notin h
                        /\ Good(R, b, h \cup {f}) /\ Room(b, n + 1)
    BY TakeFrame
<1>2. z = Cleared(kk, f, b)
    BY DEF AllocateZeroed
<1>3. kk.mem \in Memory(R)
    BY DEF KernelMemory
<1> HIDE DEF f, b, z
<1>4. CASE f = NoFrame
    <2>1. z = [k |-> [kk EXCEPT !.pm = b], frame |-> NoFrame]
        BY <1>2, <1>4 DEF Cleared
    <2>2. b \in AllocatorState(R)
        BY <1>1, <1>4 DEF Good
    <2>3. [kk EXCEPT !.pm = b] \in KernelMemory(R)
        BY <2>2 DEF KernelMemory
    <2>4. QED
        BY <1>1, <1>4, <2>1, <2>3 DEF Obtained, KernelMemory, z
<1>5. CASE f # NoFrame /\ ~ Reachable(f)
    <2>1. z = [k |-> [kk EXCEPT !.pm = FreeFrame(b, f)], frame |-> NoFrame]
        BY <1>2, <1>5 DEF Cleared
    <2>2. Good(R, b, h \cup {f}) /\ f \in h \cup {f} /\ (h \cup {f}) \ {f} = h
        BY <1>1, <1>5
    <2>3. Good(R, FreeFrame(b, f), h) /\ Room(FreeFrame(b, f), n)
        BY <1>1, <1>5, <2>2, GiveBack
    <2>4. FreeFrame(b, f) \in AllocatorState(R)
        BY <2>3 DEF Good
    <2>5. [kk EXCEPT !.pm = FreeFrame(b, f)] \in KernelMemory(R)
        BY <2>4 DEF KernelMemory
    <2>6. QED
        BY <2>1, <2>3, <2>5 DEF Obtained, KernelMemory, z
<1>6. CASE f # NoFrame /\ Reachable(f)
    <2>1. z = [k |-> [kk EXCEPT !.pm = b, !.mem[f] = ZeroTable], frame |-> f]
        BY <1>2, <1>6 DEF Cleared
    <2>2. b \in AllocatorState(R)
        BY <1>1, <1>6 DEF Good
    <2>3. [kk.mem EXCEPT ![f] = ZeroTable] \in Memory(R)
        BY <1>3, ZeroTableType DEF Memory
    <2>4. /\ [kk EXCEPT !.pm = b, !.mem[f] = ZeroTable] \in KernelMemory(R)
          /\ [kk EXCEPT !.pm = b, !.mem[f] = ZeroTable].mem = [kk.mem EXCEPT ![f] = ZeroTable]
        BY <2>2, <2>3 DEF KernelMemory
    <2>5. /\ z = [k |-> z.k, frame |-> z.frame]
          /\ z.frame = f /\ z.k \in KernelMemory(R) /\ z.k.pm = b
          /\ z.k.mem = [kk.mem EXCEPT ![f] = ZeroTable]
          /\ z.k.records = kk.records /\ z.k.overflowed = kk.overflowed
          /\ z.k.cleanupFailed = kk.cleanupFailed
        BY <2>1, <2>4 DEF KernelMemory
    <2>6. QED
        BY <1>1, <1>6, <2>5 DEF Obtained, z
<1>7. QED
    BY <1>4, <1>5, <1>6 DEF z

-----------------------------------------------------------------------------
(* The tree and its frames.                                                *)

LEMMA TreeKept ==
    ASSUME NEW R, NEW mem, NEW mem2, NEW en, KTree(R, mem, en),
           mem2[BootP2] = mem[BootP2],
           \A n \in Node : IsTable(n) /\ en[n].present => mem2[en[n].frame] = mem[en[n].frame]
    PROVE  KTree(R, mem2, en)
<1>1. \A n \in Inner : Parent(n) \in Node /\ IsTable(Parent(n))
    BY NodeLaws
<1>2. QED
    BY <1>1 DEF KTree

LEMMA TreeFrames ==
    ASSUME NEW R, Machine(R), NEW mem, NEW en, KTree(R, mem, en),
           NEW n \in Node, en[n].present
    PROVE  /\ en[n] \in Entry /\ ~ en[n].huge
           /\ en[n].frame \in ImageFrames \cup FramesOf(R)
           /\ en[n].frame # NoFrame /\ en[n].frame # BootP2
           /\ IsTable(n) => Reachable(en[n].frame)
           /\ en[n].frame \in ImageFrames =>
                 en[n].frame \in {BootP4, BootP3, ProbeCodeFrame, ProbeStackFrame}
           /\ IsTable(n) /\ n # Root /\ n # N3(0) => en[n].frame \in FramesOf(R)
<1>1. en[n] \in Entry
    BY DEF KTree
<1>2. \A f \in FramesOf(R) : f # NoFrame /\ f \in Nat /\ f \notin ImageFrames /\ f # BootP2
    BY FrameFacts DEF Machine, BootP2, ImageFrames
<1>3. /\ {BootP4, BootP3, ProbeCodeFrame, ProbeStackFrame} \subseteq ImageFrames
      /\ NoFrame \notin ImageFrames
      /\ BootP2 \notin {BootP4, BootP3, ProbeCodeFrame, ProbeStackFrame}
      /\ Reachable(BootP4) /\ Reachable(BootP3)
    BY ImageAssumption DEF BootP4, BootP3, BootP2, ProbeCodeFrame, ProbeStackFrame, ImageFrames,
       NoFrame, Reachable
<1>4. CASE n = Root
    <2>1. ~ en[n].huge /\ en[n].frame = BootP4
        BY <1>4 DEF KTree, TableEntry, PageEntry
    <2>2. QED
        BY <1>1, <1>3, <1>4, <2>1
<1>5. CASE n # Root
    <2>1. n \in Inner
        BY <1>5, NodeMembers
    <2>2. en[n] # NoEntry
        BY DEF NoEntry
    <2>3. ~ en[n].huge /\ FrameOk(R, n, en[n])
        BY <2>1, <2>2 DEF KTree, EntryOf
    <2>4. \/ n = N3(0) /\ en[n].frame = BootP3
          \/ n # N3(0) /\ en[n].frame \in FramesOf(R) /\ Reachable(en[n].frame)
          \/ n # N3(0) /\ ~ IsTable(n) /\ en[n].frame \in {ProbeCodeFrame, ProbeStackFrame}
        BY <1>5, <2>3 DEF FrameOk
    <2>5. QED
        BY <1>1, <1>2, <1>3, <2>3, <2>4
<1>6. QED
    BY <1>4, <1>5

\* An entry of the tree is set: to a new table, which is empty, to a page, to
\* nothing in place of a page, or to the same table with wider flags.
SetsNode(R, mem, en, n, e) ==
    /\ EntryOf(R, n, e, en[Parent(n)]) /\ e \in Entry
    /\ en[Parent(n)].present
    /\ e.present => \A m \in Node : m # n /\ en[m].present => en[m].frame # e.frame
    /\ IsTable(n) => /\ e.present
                     /\ \/ /\ en[n].present /\ e.frame = en[n].frame
                           /\ en[n].writable => e.writable
                           /\ en[n].user => e.user
                        \/ en[n] = NoEntry /\ n # N3(0) /\ mem[e.frame] = ZeroTable

LEMMA TreeSet ==
    ASSUME NEW R, Machine(R), NEW mem \in Memory(R), NEW en, KTree(R, mem, en),
           NEW n \in Inner, NEW e, SetsNode(R, mem, en, n, e)
    PROVE  LET t == en[Parent(n)].frame IN
           /\ KTree(R, [mem EXCEPT ![t][Slot(n)] = e], [en EXCEPT ![n] = e])
           /\ [mem EXCEPT ![t][Slot(n)] = e] \in Memory(R)
<1> DEFINE t == en[Parent(n)].frame
           i == Slot(n)
           mem2 == [mem EXCEPT ![t][i] = e]
           en2 == [en EXCEPT ![n] = e]
<1>1. /\ Parent(n) \in Node /\ IsTable(Parent(n)) /\ Parent(n) # n /\ i \in Index
      /\ i \notin Spare(Parent(n)) /\ n \in Node /\ n # Root
    BY NodeLaws, NodeMembers
<1>2. en \in [Node -> Entry] /\ e \in Entry /\ en[Parent(n)].present
    BY DEF KTree, SetsNode
<1>3. t \in ImageFrames \cup FramesOf(R) /\ t # BootP2
    BY <1>1, <1>2, TreeFrames
<1>4. mem \in [ImageFrames \cup FramesOf(R) -> [Index -> Entry]]
    BY DEF Memory, Table
<1>5. /\ mem2 \in Memory(R) /\ mem2[t][i] = e
      /\ \A j \in Index : j # i => mem2[t][j] = mem[t][j]
      /\ \A f \in ImageFrames \cup FramesOf(R) : f # t => mem2[f] = mem[f]
    BY <1>1, <1>2, <1>3, <1>4 DEF Memory, Table
<1>6. /\ en2 \in [Node -> Entry] /\ en2[n] = e
      /\ \A m \in Node : m # n => en2[m] = en[m]
    BY <1>1, <1>2
<1> HIDE DEF mem2, en2, t, i
<1>7. \A m \in Node : en[m].present /\ en[m].frame = t => m = Parent(n)
    BY <1>1, <1>2 DEF KTree, t
<1>8. e.present => e.frame # t
    BY <1>1, <1>2 DEF SetsNode, t
<1>9. IsTable(n) => mem2[e.frame] = mem[e.frame]
    <2> SUFFICES ASSUME IsTable(n) PROVE e.frame \in ImageFrames \cup FramesOf(R)
        BY <1>5, <1>8 DEF SetsNode
    <2>1. CASE en[n].present /\ e.frame = en[n].frame
        BY <1>1, <2>1, TreeFrames
    <2>2. CASE n # N3(0)
        <3>1. FrameOk(R, n, e)
            BY DEF SetsNode, EntryOf, NoEntry
        <3>2. QED
            BY <1>1, <2>2, <3>1 DEF FrameOk
    <2>3. QED
        BY <2>1, <2>2 DEF SetsNode
<1>10. \A m \in Inner : EntryOf(R, m, en2[m], en2[Parent(m)])
    <2> SUFFICES ASSUME NEW m \in Inner PROVE EntryOf(R, m, en2[m], en2[Parent(m)])
        OBVIOUS
    <2>0. m \in Node /\ Parent(m) \in Node /\ EntryOf(R, m, en[m], en[Parent(m)])
        BY NodeLaws, NodeMembers DEF KTree
    <2>1. CASE m = n
        BY <1>1, <1>6, <2>1 DEF SetsNode
    <2>2. CASE m # n /\ Parent(m) # n
        BY <1>6, <2>0, <2>2
    <2>3. CASE m # n /\ Parent(m) = n /\ en[m] = NoEntry
        BY <1>6, <2>0, <2>3 DEF EntryOf
    <2>4. CASE m # n /\ Parent(m) = n /\ en[m] # NoEntry
        <3>1. IsTable(n) /\ en[n].present
            BY <2>4, NodeLaws DEF KTree
        <3>2. en[n] # NoEntry
            BY <3>1 DEF NoEntry
        <3>3. (en[n].writable => e.writable) /\ (en[n].user => e.user)
            BY <3>1, <3>2 DEF SetsNode
        <3>4. /\ en[m] \in Entry /\ en[m].present /\ ~ en[m].huge /\ FrameOk(R, m, en[m])
              /\ FlagsOk(m, en[m], en[n])
            BY <2>0, <2>4 DEF EntryOf
        <3>5. FlagsOk(m, en[m], e)
            BY <3>3, <3>4 DEF FlagsOk
        <3>6. QED
            BY <1>6, <2>0, <2>4, <3>4, <3>5 DEF EntryOf
    <2>5. QED
        BY <2>1, <2>2, <2>3, <2>4
<1>11. \A m \in Inner : IF en2[Parent(m)].present
                        THEN mem2[en2[Parent(m)].frame][Slot(m)] = en2[m]
                        ELSE en2[m] = NoEntry
    <2> SUFFICES ASSUME NEW m \in Inner
                 PROVE  IF en2[Parent(m)].present
                        THEN mem2[en2[Parent(m)].frame][Slot(m)] = en2[m]
                        ELSE en2[m] = NoEntry
        OBVIOUS
    <2>0. /\ m \in Node /\ Parent(m) \in Node /\ IsTable(Parent(m)) /\ Slot(m) \in Index
          /\ IF en[Parent(m)].present THEN mem[en[Parent(m)].frame][Slot(m)] = en[m]
             ELSE en[m] = NoEntry
        BY NodeLaws, NodeMembers DEF KTree
    <2>1. CASE m = n
        BY <1>1, <1>2, <1>5, <1>6, <2>1 DEF t, i
    <2>2. CASE m # n /\ Parent(m) = n
        <3>1. en2[Parent(m)] = e /\ en2[m] = en[m] /\ IsTable(n) /\ e.present
            BY <1>6, <2>0, <2>2 DEF SetsNode
        <3>2. CASE en[n].present /\ e.frame = en[n].frame
            BY <1>9, <2>0, <2>2, <3>1, <3>2
        <3>3. CASE en[n] = NoEntry /\ mem[e.frame] = ZeroTable
            <4>1. ~ en[n].present /\ ZeroTable[Slot(m)] = NoEntry
                BY <2>0, <3>3 DEF NoEntry, ZeroTable
            <4>2. QED
                BY <1>9, <2>0, <2>2, <3>1, <3>3, <4>1
        <3>4. QED
            BY <3>1, <3>2, <3>3 DEF SetsNode
    <2>3. CASE m # n /\ Parent(m) # n
        <3>1. en2[Parent(m)] = en[Parent(m)] /\ en2[m] = en[m]
            BY <1>6, <2>0, <2>3
        <3>2. CASE ~ en[Parent(m)].present
            BY <2>0, <3>1, <3>2
        <3>3. CASE en[Parent(m)].present /\ en[Parent(m)].frame # t
            <4>1. en[Parent(m)].frame \in ImageFrames \cup FramesOf(R)
                BY <2>0, <3>3, TreeFrames
            <4>2. QED
                BY <1>5, <2>0, <3>1, <3>3, <4>1
        <3>4. CASE en[Parent(m)].present /\ en[Parent(m)].frame = t
            <4>1. Parent(m) = Parent(n)
                BY <1>7, <2>0, <3>4
            <4>2. Slot(m) # i
                BY <2>3, <4>1, Siblings DEF i
            <4>3. QED
                BY <1>5, <2>0, <3>1, <3>4, <4>2
        <3>5. QED
            BY <3>2, <3>3, <3>4
    <2>4. QED
        BY <2>1, <2>2, <2>3
<1>12. \A m \in Node : IsTable(m) /\ en2[m].present =>
          \A j \in Spare(m) : mem2[en2[m].frame][j] = Fixed(m, j)
    <2> SUFFICES ASSUME NEW m \in Node, IsTable(m), en2[m].present, NEW j \in Spare(m)
                 PROVE  mem2[en2[m].frame][j] = Fixed(m, j)
        OBVIOUS
    <2>0. j \in Index /\ (en[m].present => mem[en[m].frame][j] = Fixed(m, j))
        BY DEF KTree, Spare, Index
    <2>1. CASE m = n
        <3>1. en2[m] = e
            BY <1>6, <2>1
        <3>2. CASE en[n].present /\ e.frame = en[n].frame
            BY <1>9, <2>0, <2>1, <3>1, <3>2
        <3>3. CASE n # N3(0) /\ mem[e.frame] = ZeroTable
            <4>1. Fixed(m, j) = NoEntry /\ ZeroTable[j] = NoEntry
                BY <2>0, <2>1, <3>3 DEF Fixed, ZeroTable
            <4>2. QED
                BY <1>9, <2>1, <3>1, <3>3, <4>1
        <3>4. QED
            BY <2>1, <3>2, <3>3 DEF SetsNode
    <2>2. CASE m # n /\ en[m].frame # t
        <3>1. en2[m] = en[m] /\ en[m].frame \in ImageFrames \cup FramesOf(R)
            BY <1>6, <2>2, TreeFrames
        <3>2. QED
            BY <1>5, <2>0, <2>2, <3>1
    <2>3. CASE m # n /\ en[m].frame = t
        <3>1. en2[m] = en[m]
            BY <1>6, <2>3
        <3>2. m = Parent(n)
            BY <1>7, <2>3, <3>1
        <3>3. j # i
            BY <1>1, <3>2
        <3>4. QED
            BY <1>5, <2>0, <2>3, <3>1, <3>3
    <2>4. QED
        BY <2>1, <2>2, <2>3
<1>13. \A p, m \in Node :
          en2[p].present /\ en2[m].present /\ en2[p].frame = en2[m].frame => p = m
    <2>1. \A m \in Node : m # n /\ en[m].present /\ e.present => en[m].frame # e.frame
        BY DEF SetsNode
    <2>2. QED
        BY <1>6, <2>1 DEF KTree
<1>14. en2[Root] = TableEntry(BootP4, TRUE, TRUE) /\ en2[N3(0)].present
    <2>1. N3(0) \in Node /\ Root \in Node /\ IsTable(N3(0))
        BY NodeMembers, NodeTree DEF Half
    <2>2. QED
        BY <1>1, <1>6, <2>1 DEF KTree, SetsNode
<1>15. mem2[BootP2] = BootTable(BootP2)
    <2>1. BootP2 \in ImageFrames \cup FramesOf(R)
        BY DEF BootP2, ImageFrames
    <2>2. QED
        BY <1>3, <1>5, <2>1 DEF KTree
<1>16. QED
    BY <1>5, <1>6, <1>10, <1>11, <1>12, <1>13, <1>14, <1>15 DEF KTree, mem2, en2, t, i

-----------------------------------------------------------------------------
(* One level of the mapper's walk.                                         *)

\* The entries down to node n grant what the flags of a page ask for.
Wide(en, n, flags) ==
    /\ en[n].present
    /\ flags.writable => en[n].writable
    /\ flags.user => en[n].user

\* The flags of a page below node n.
FlagsFor(n, flags) ==
    /\ flags \in PageFlags
    /\ HalfOf(n) = 1 => flags = KernelFlags
    /\ HalfOf(n) = 0 => flags.user

\* Tables may have been added or widened, nothing else has changed.
Steady(kk, en, kk2, en2, H) ==
    /\ \A f \in H : kk2.mem[f] = kk.mem[f]
    /\ \A n \in Node : ~ IsTable(n) => en2[n] = en[n]
    /\ \A n \in Inner : HalfOf(n) = 1 /\ en[n].present => en2[n] = en[n]
    /\ kk2.records = kk.records /\ kk2.overflowed = kk.overflowed
    /\ kk2.cleanupFailed = kk.cleanupFailed

LEMMA SteadyTrans ==
    ASSUME NEW k1, NEW e1, NEW k2, NEW e2, NEW k3, NEW e3, NEW H,
           Steady(k1, e1, k2, e2, H), Steady(k2, e2, k3, e3, H)
    PROVE  Steady(k1, e1, k3, e3, H)
<1>1. \A n \in Inner : HalfOf(n) = 1 /\ e1[n].present => e3[n] = e1[n]
    <2> SUFFICES ASSUME NEW n \in Inner, HalfOf(n) = 1, e1[n].present PROVE e3[n] = e1[n]
        OBVIOUS
    <2>1. e2[n] = e1[n]
        BY DEF Steady
    <2>2. e2[n].present
        BY <2>1
    <2>3. e3[n] = e2[n]
        BY <2>2 DEF Steady
    <2>4. QED
        BY <2>1, <2>3
<1>2. QED
    BY <1>1 DEF Steady

LEMMA SteadySame ==
    ASSUME NEW kk, NEW en, NEW kk2, NEW H, kk2.mem = kk.mem, kk2.records = kk.records,
           kk2.overflowed = kk.overflowed, kk2.cleanupFailed = kk.cleanupFailed
    PROVE  Steady(kk, en, kk2, en, H)
BY DEF Steady

LEMMA RecordedKept ==
    ASSUME NEW kk, NEW en, NEW kk2, NEW en2, Recorded(kk, en),
           kk2.records = kk.records, kk2.overflowed = kk.overflowed,
           \A n \in Node : ~ IsTable(n) => en2[n] = en[n]
    PROVE  Recorded(kk2, en2)
<1>1. \A s, c \in Half, d \in Index : en2[N0(s, c, d)] = en[N0(s, c, d)]
    BY NodeMembers, NodeTree
<1>2. 0 \in Half /\ 1 \in Half /\ 0 \in Index /\ 3 \in Index
    BY DEF Half, Index
<1>3. \A s, c \in Half, d \in Index : \A r :
         RecordTrue(en2, r, s, c, d) <=> RecordTrue(en, r, s, c, d)
    BY <1>1 DEF RecordTrue
<1>4. QED
    BY <1>1, <1>2, <1>3 DEF Recorded

LEMMA RoomLess ==
    ASSUME NEW a, NEW n \in Nat, Len(a.recycled) \in Nat, Room(a, n + 1)
    PROVE  Room(a, n)
<1>1. \A x, m, l \in Nat : x + (m + 1) <= l => x + m <= l
    OBVIOUS
<1>2. QED
    BY <1>1, MaxRecycledAssumption DEF Room

LEMMA WidenedIs ==
    ASSUME NEW e \in Entry, NEW fl \in PageFlags
    PROVE  LET w == Widened(e, fl) IN
           /\ w \in Entry
           /\ w.present = e.present /\ w.frame = e.frame /\ w.huge = e.huge /\ w.nx = e.nx
           /\ w.writable <=> (e.writable \/ fl.writable)
           /\ w.user <=> (e.user \/ fl.user)
           /\ e.writable /\ ~ e.user /\ fl = KernelFlags => w = e
<1> DEFINE w == Widened(e, fl)
<1>1. w = [e EXCEPT !.writable = e.writable \/ fl.writable, !.user = e.user \/ fl.user]
    BY DEF Widened
<1>2. (e.writable \/ fl.writable) \in BOOLEAN /\ (e.user \/ fl.user) \in BOOLEAN
    BY DEF Entry, PageFlags
<1> HIDE DEF w
<1>3. /\ w \in Entry
      /\ w.present = e.present /\ w.frame = e.frame /\ w.huge = e.huge /\ w.nx = e.nx
      /\ w.writable = (e.writable \/ fl.writable) /\ w.user = (e.user \/ fl.user)
    BY <1>1, <1>2 DEF Entry
<1>4. ASSUME e.writable, ~ e.user, fl = KernelFlags PROVE w = e
    <2>1. e.writable = TRUE /\ e.user = FALSE /\ fl.writable = TRUE /\ fl.user = FALSE
        BY <1>4 DEF Entry, KernelFlags
    <2>2. w.writable = e.writable /\ w.user = e.user
        BY <1>3, <2>1
    <2>3. QED
        BY <1>3, <2>2 DEF Entry
<1>5. QED
    BY <1>3, <1>4 DEF w

LEMMA TableEntryIs ==
    ASSUME NEW f \in Nat, NEW wr \in BOOLEAN, NEW us \in BOOLEAN
    PROVE  LET e == TableEntry(f, wr, us) IN
           /\ e \in Entry /\ e.present /\ e.frame = f /\ ~ e.huge /\ ~ e.nx
           /\ e.writable = wr /\ e.user = us
BY DEF TableEntry, PageEntry, Entry

LEMMA PageEntryIs ==
    ASSUME NEW f \in Nat, NEW fl \in PageFlags
    PROVE  LET e == PageEntry(f, fl) IN
           /\ e \in Entry /\ e.present /\ e.frame = f /\ ~ e.huge
           /\ e.nx = fl.nx /\ e.writable = fl.writable /\ e.user = fl.user
BY DEF PageEntry, Entry, PageFlags

\* What ensure_next_table leaves.
NextTable(R, kk, en, H, n, flags, r, z) ==
    \E en2, h2 : /\ KInv(R, z.k, en2, h2, H)
                 /\ Room(z.k.pm, r)
                 /\ Steady(kk, en, z.k, en2, H)
                 /\ z.frame # NoFrame => Wide(en2, n, flags) /\ z.frame = en2[n].frame

LEMMA MemSet ==
    ASSUME NEW R, NEW kk \in KernelMemory(R), NEW t \in ImageFrames \cup FramesOf(R),
           NEW i \in Index, NEW e \in Entry
    PROVE  LET kk2 == [kk EXCEPT !.mem[t][i] = e] IN
           /\ kk2 \in KernelMemory(R)
           /\ kk2.mem = [kk.mem EXCEPT ![t][i] = e]
           /\ kk2.pm = kk.pm /\ kk2.records = kk.records /\ kk2.overflowed = kk.overflowed
           /\ kk2.cleanupFailed = kk.cleanupFailed
<1> DEFINE m == [kk.mem EXCEPT ![t][i] = e]
           kk2 == [kk EXCEPT !.mem[t][i] = e]
<1>1. kk.mem \in [ImageFrames \cup FramesOf(R) -> [Index -> Entry]]
    BY DEF KernelMemory, Memory, Table
<1>2. m \in Memory(R)
    BY <1>1 DEF Memory, Table
<1>3. kk2 = [kk EXCEPT !.mem = m]
    BY DEF KernelMemory
<1> HIDE DEF m, kk2
<1>4. /\ kk2 \in KernelMemory(R) /\ kk2.mem = m
      /\ kk2.pm = kk.pm /\ kk2.records = kk.records /\ kk2.overflowed = kk.overflowed
      /\ kk2.cleanupFailed = kk.cleanupFailed
    BY <1>2, <1>3 DEF KernelMemory
<1>5. QED
    BY <1>4 DEF m, kk2

\* An entry of the kernel's tree is there and gets wider flags.
LEMMA WidenNode ==
    ASSUME NEW R, Machine(R), NEW kk, NEW en, NEW h, NEW H, KInv(R, kk, en, h, H),
           NEW n \in Inner, IsTable(n), NEW fl, FlagsFor(n, fl), Wide(en, Parent(n), fl),
           en[n].present
    PROVE  LET t == en[Parent(n)].frame
               kk2 == [kk EXCEPT !.mem[t][Slot(n)] = Widened(en[n], fl)]
               en2 == [en EXCEPT ![n] = Widened(en[n], fl)]
           IN /\ KInv(R, kk2, en2, h, H) /\ kk2.pm = kk.pm
              /\ Steady(kk, en, kk2, en2, H)
              /\ Wide(en2, n, fl) /\ en2[n].frame = en[n].frame
<1> DEFINE t == en[Parent(n)].frame
           w == Widened(en[n], fl)
           kk2 == [kk EXCEPT !.mem[t][Slot(n)] = w]
           en2 == [en EXCEPT ![n] = w]
<1>1. /\ kk \in KernelMemory(R) /\ KTree(R, kk.mem, en) /\ Good(R, kk.pm, h)
      /\ Owners(R, kk, en, h, H) /\ Recorded(kk, en) /\ kk.mem \in Memory(R)
    BY DEF KInv, KernelMemory
<1>2. /\ Parent(n) \in Node /\ IsTable(Parent(n)) /\ Parent(n) # n /\ Slot(n) \in Index
      /\ n \in Node /\ en[Parent(n)].present /\ HalfOf(n) \in Half
    BY NodeLaws, NodeMembers DEF Wide
<1>3. /\ t \in ImageFrames \cup FramesOf(R) /\ en[n] \in Entry /\ ~ en[n].huge
      /\ en \in [Node -> Entry]
    <2>1. en \in [Node -> Entry]
        BY <1>1 DEF KTree
    <2>2. QED
        BY <1>1, <1>2, <2>1, TreeFrames
<1>4. /\ fl \in PageFlags
      /\ HalfOf(n) = 1 => fl = KernelFlags
      /\ HalfOf(n) = 0 => fl.user
    BY DEF FlagsFor
<1>5. /\ w \in Entry
      /\ w.present = en[n].present /\ w.frame = en[n].frame /\ w.huge = en[n].huge
      /\ w.nx = en[n].nx
      /\ w.writable <=> (en[n].writable \/ fl.writable)
      /\ w.user <=> (en[n].user \/ fl.user)
      /\ en[n].writable /\ ~ en[n].user /\ fl = KernelFlags => w = en[n]
    BY <1>3, <1>4, WidenedIs
<1> HIDE DEF w
<1>6. FrameOk(R, n, en[n]) /\ FlagsOk(n, en[n], en[Parent(n)])
    <2>1. en[n] # NoEntry
        BY DEF NoEntry
    <2>2. QED
        BY <1>1, <2>1 DEF KTree, EntryOf
<1>7. HalfOf(n) = 1 => w = en[n]
    BY <1>4, <1>5, <1>6 DEF FlagsOk
<1>8. SetsNode(R, kk.mem, en, n, w)
    <2>1. FrameOk(R, n, w)
        BY <1>5, <1>6 DEF FrameOk
    <2>2. FlagsOk(n, w, en[Parent(n)])
        <3>1. CASE HalfOf(n) = 1
            BY <1>6, <1>7, <3>1
        <3>2. CASE HalfOf(n) = 0
            BY <1>4, <1>5, <1>6, <3>2 DEF FlagsOk, Wide
        <3>3. QED
            BY <1>2, <3>1, <3>2 DEF Half
    <2>3. \A m \in Node : m # n /\ en[m].present => en[m].frame # w.frame
        BY <1>1, <1>2, <1>5 DEF KTree
    <2>4. QED
        BY <1>2, <1>3, <1>5, <2>1, <2>2, <2>3 DEF SetsNode, EntryOf
<1>9. KTree(R, [kk.mem EXCEPT ![t][Slot(n)] = w], en2)
    BY <1>1, <1>8, TreeSet
<1>10. /\ kk2 \in KernelMemory(R) /\ kk2.mem = [kk.mem EXCEPT ![t][Slot(n)] = w]
       /\ kk2.pm = kk.pm /\ kk2.records = kk.records /\ kk2.overflowed = kk.overflowed
       /\ kk2.cleanupFailed = kk.cleanupFailed
    BY <1>1, <1>2, <1>3, <1>5, MemSet
<1>11. en2[n] = w /\ \A m \in Node : m # n => en2[m] = en[m]
    BY <1>2, <1>3
<1>12. \A f \in H : kk2.mem[f] = kk.mem[f]
    <2>1. H \subseteq FramesOf(R) /\ H \cap KernelFrames(R, en) = {}
        BY <1>1 DEF Owners, Good
    <2>2. t \notin H
        BY <1>2, <2>1 DEF KernelFrames
    <2>3. kk.mem \in [ImageFrames \cup FramesOf(R) -> [Index -> Entry]]
        BY <1>1 DEF Memory, Table
    <2> HIDE DEF t
    <2>4. QED
        BY <1>10, <2>1, <2>2, <2>3
<1> HIDE DEF kk2, en2, t
<1>13. KernelFrames(R, en2) = KernelFrames(R, en)
    BY <1>2, <1>5, <1>11 DEF KernelFrames
<1>14. Owners(R, kk2, en2, h, H)
    BY <1>1, <1>10, <1>13 DEF Owners
<1>15. \A m \in Node : ~ IsTable(m) => en2[m] = en[m]
    BY <1>11
<1>16. Recorded(kk2, en2)
    BY <1>1, <1>10, <1>15, RecordedKept
<1>17. Steady(kk, en, kk2, en2, H)
    BY <1>7, <1>10, <1>11, <1>12, <1>15, NodeMembers DEF Steady
<1>18. Wide(en2, n, fl) /\ en2[n].frame = en[n].frame
    BY <1>5, <1>11 DEF Wide
<1>19. KInv(R, kk2, en2, h, H)
    BY <1>1, <1>9, <1>10, <1>14, <1>16 DEF KInv
<1>20. QED
    BY <1>10, <1>17, <1>18, <1>19 DEF kk2, en2, t, w

\* The entry of a node that was not there: a table, which is empty, or a page.
\* Its frame was held outside of the tables, unless it is of the image.
Linked(R, kk, en, h, H, n, e, kk2, en2) ==
    /\ kk2 \in KernelMemory(R) /\ KTree(R, kk2.mem, en2)
    /\ Owners(R, kk2, en2, h, H)
    /\ kk2.pm = kk.pm /\ kk2.records = kk.records /\ kk2.overflowed = kk.overflowed
    /\ kk2.cleanupFailed = kk.cleanupFailed
    /\ \A g \in H : kk2.mem[g] = kk.mem[g]
    /\ en2[n] = e /\ \A m \in Node : m # n => en2[m] = en[m]

LEMMA LinkNode ==
    ASSUME NEW R, Machine(R), NEW kk, NEW en, NEW h, NEW H, NEW f,
           KInv(R, kk, en, h, H \cup ({f} \cap FramesOf(R))), f \notin H,
           \A m \in Node : en[m].present => en[m].frame # f,
           NEW n \in Inner, en[Parent(n)].present, ~ en[n].present,
           NEW e \in Entry, e.present, ~ e.huge, e.frame = f,
           FrameOk(R, n, e), FlagsOk(n, e, en[Parent(n)]),
           IsTable(n) => kk.mem[f] = ZeroTable
    PROVE  Linked(R, kk, en, h, H, n, e,
                  [kk EXCEPT !.mem[en[Parent(n)].frame][Slot(n)] = e], [en EXCEPT ![n] = e])
<1> DEFINE t == en[Parent(n)].frame
           H2 == H \cup ({f} \cap FramesOf(R))
           kk2 == [kk EXCEPT !.mem[t][Slot(n)] = e]
           en2 == [en EXCEPT ![n] = e]
<1>1. /\ kk \in KernelMemory(R) /\ KTree(R, kk.mem, en) /\ Good(R, kk.pm, h)
      /\ Owners(R, kk, en, h, H2) /\ kk.mem \in Memory(R)
    BY DEF KInv, KernelMemory
<1>2. /\ Parent(n) \in Node /\ IsTable(Parent(n)) /\ Parent(n) # n /\ Slot(n) \in Index
      /\ n \in Node
    BY NodeLaws, NodeMembers
<1>3. t \in ImageFrames \cup FramesOf(R)
    BY <1>1, <1>2, TreeFrames
<1>4. en \in [Node -> Entry] /\ en[n] = NoEntry /\ n # N3(0)
    BY <1>1 DEF KTree, EntryOf
<1>5. SetsNode(R, kk.mem, en, n, e)
    BY <1>4 DEF SetsNode, EntryOf
<1>6. KTree(R, [kk.mem EXCEPT ![t][Slot(n)] = e], en2)
    BY <1>1, <1>5, TreeSet
<1>7. /\ kk2 \in KernelMemory(R) /\ kk2.mem = [kk.mem EXCEPT ![t][Slot(n)] = e]
      /\ kk2.pm = kk.pm /\ kk2.records = kk.records /\ kk2.overflowed = kk.overflowed
      /\ kk2.cleanupFailed = kk.cleanupFailed
    BY <1>1, <1>2, <1>3, MemSet
<1>8. en2[n] = e /\ \A m \in Node : m # n => en2[m] = en[m]
    BY <1>2, <1>4
<1>9. \A g \in H : kk2.mem[g] = kk.mem[g]
    <2>1. H \subseteq FramesOf(R) /\ H \cap KernelFrames(R, en) = {}
        BY <1>1 DEF Owners, Good
    <2>2. t \notin H
        BY <1>2, <2>1 DEF KernelFrames
    <2>3. kk.mem \in [ImageFrames \cup FramesOf(R) -> [Index -> Entry]]
        BY <1>1 DEF Memory, Table
    <2> HIDE DEF t
    <2>4. QED
        BY <1>7, <2>1, <2>2, <2>3
<1> HIDE DEF kk2, en2, t
<1>10. KernelFrames(R, en2) = KernelFrames(R, en) \cup ({f} \cap FramesOf(R))
    BY <1>2, <1>8 DEF KernelFrames
<1>11. Owners(R, kk2, en2, h, H)
    <2>1. /\ H \cup ({f} \cap FramesOf(R)) \cup KernelFrames(R, en) \subseteq h
          /\ (H \cup ({f} \cap FramesOf(R))) \cap KernelFrames(R, en) = {}
          /\ ~ kk.cleanupFailed => h \subseteq H \cup ({f} \cap FramesOf(R)) \cup KernelFrames(R, en)
        BY <1>1 DEF Owners
    <2>2. QED
        BY <1>7, <1>10, <2>1 DEF Owners
<1>12. QED
    BY <1>6, <1>7, <1>8, <1>9, <1>11 DEF kk2, en2, t, Linked

\* A frame is taken for a table or a page: it is held outside of the tables.
Taken(R, kk, en, h, H, kk2, f) ==
    /\ KInv(R, kk2, en, h \cup {f}, H \cup {f})
    /\ f \notin H /\ Steady(kk, en, kk2, en, H)
    /\ \A m \in Node : en[m].present => en[m].frame # f
    /\ kk2.mem[f] = ZeroTable
    /\ \A g \in ImageFrames \cup FramesOf(R) : g # f => kk2.mem[g] = kk.mem[g]

LEMMA TakenKept ==
    ASSUME NEW R, Machine(R), NEW kk, NEW en, NEW h, NEW H, KInv(R, kk, en, h, H),
           NEW r \in Nat, NEW z, Obtained(R, kk, h, r, z), z.frame # NoFrame
    PROVE  Taken(R, kk, en, h, H, z.k, z.frame)
<1> DEFINE f == z.frame
<1>1. /\ kk \in KernelMemory(R) /\ KTree(R, kk.mem, en) /\ Good(R, kk.pm, h)
      /\ Owners(R, kk, en, h, H) /\ Recorded(kk, en) /\ kk.mem \in Memory(R)
    BY DEF KInv, KernelMemory
<1>2. /\ z.k \in KernelMemory(R) /\ z.k.records = kk.records /\ z.k.overflowed = kk.overflowed
      /\ z.k.cleanupFailed = kk.cleanupFailed
      /\ f \in FramesOf(R) /\ f \notin h /\ Reachable(f)
      /\ z.k.mem = [kk.mem EXCEPT ![f] = ZeroTable]
      /\ Good(R, z.k.pm, h \cup {f})
    BY DEF Obtained
<1>3. \A m \in Node : en[m].present => en[m].frame # f
    BY <1>1, <1>2 DEF Owners, KernelFrames
<1>4. /\ z.k.mem[f] = ZeroTable
      /\ \A g \in ImageFrames \cup FramesOf(R) : g # f => z.k.mem[g] = kk.mem[g]
    BY <1>1, <1>2 DEF Memory
<1>5. BootP2 \in ImageFrames /\ BootP2 # f
    BY <1>2 DEF Machine, BootP2, ImageFrames
<1>6. \A m \in Node : en[m].present => en[m].frame \in ImageFrames \cup FramesOf(R)
    BY <1>1, TreeFrames
<1>7. KTree(R, z.k.mem, en)
    BY <1>1, <1>3, <1>4, <1>5, <1>6, TreeKept
<1>8. Owners(R, z.k, en, h \cup {f}, H \cup {f}) /\ f \notin H
    BY <1>1, <1>2 DEF Owners
<1>9. Recorded(z.k, en)
    BY <1>1, <1>2, RecordedKept
<1>10. \A g \in H : z.k.mem[g] = kk.mem[g]
    <2>1. H \subseteq FramesOf(R)
        BY <1>1 DEF Owners, Good
    <2>2. QED
        BY <1>4, <1>8, <2>1
<1>11. Steady(kk, en, z.k, en, H)
    BY <1>2, <1>10 DEF Steady
<1>12. QED
    BY <1>2, <1>3, <1>4, <1>7, <1>8, <1>9, <1>11 DEF KInv, Taken

\* No frame was taken.
LEMMA UntakenKept ==
    ASSUME NEW R, NEW kk, NEW en, NEW h, NEW H, KInv(R, kk, en, h, H),
           NEW r \in Nat, NEW z, Obtained(R, kk, h, r, z), z.frame = NoFrame
    PROVE  KInv(R, z.k, en, h, H) /\ Steady(kk, en, z.k, en, H) /\ Room(z.k.pm, r)
           /\ z.k.mem = kk.mem
<1>1. /\ kk \in KernelMemory(R) /\ KTree(R, kk.mem, en) /\ Good(R, kk.pm, h)
      /\ Owners(R, kk, en, h, H) /\ Recorded(kk, en)
    BY DEF KInv
<1>2. /\ z.k \in KernelMemory(R) /\ z.k.records = kk.records /\ z.k.overflowed = kk.overflowed
      /\ z.k.cleanupFailed = kk.cleanupFailed
      /\ z.k.mem = kk.mem /\ Good(R, z.k.pm, h) /\ Room(z.k.pm, r)
    BY DEF Obtained
<1>3. Recorded(z.k, en)
    BY <1>1, <1>2, RecordedKept
<1>4. Owners(R, z.k, en, h, H)
    BY <1>1, <1>2 DEF Owners
<1>5. QED
    BY <1>1, <1>2, <1>3, <1>4 DEF KInv, Steady

LEMMA EnsureIs ==
    ASSUME NEW R, Machine(R), NEW kk, NEW en, NEW h, NEW H, KInv(R, kk, en, h, H),
           NEW n \in Inner, IsTable(n), NEW fl, FlagsFor(n, fl), Wide(en, Parent(n), fl),
           NEW r \in Nat, Room(kk.pm, r), r < MaxRecycled
    PROVE  NextTable(R, kk, en, H, n, fl, r,
                     EnsureNextTable(kk, en[Parent(n)].frame, Slot(n), fl))
<1> DEFINE t == en[Parent(n)].frame
           i == Slot(n)
           z == EnsureNextTable(kk, t, i, fl)
<1>1. /\ kk \in KernelMemory(R) /\ KTree(R, kk.mem, en) /\ Good(R, kk.pm, h)
    BY DEF KInv
<1>2. /\ Parent(n) \in Node /\ en[Parent(n)].present /\ n \in Node /\ HalfOf(n) \in Half
      /\ i \in Index /\ IsTable(Parent(n)) /\ n # Root
    BY NodeLaws, NodeMembers DEF Wide
<1>3. kk.mem[t][i] = en[n] /\ EntryOf(R, n, en[n], en[Parent(n)])
    BY <1>1, <1>2 DEF KTree
<1>4. IsRegionArray(R) /\ MaxRecycled \in Nat
    BY MaxRecycledAssumption DEF Machine
<1>5. CASE en[n].present
    <2> DEFINE kk2 == [kk EXCEPT !.mem[t][i] = Widened(en[n], fl)]
               en2 == [en EXCEPT ![n] = Widened(en[n], fl)]
    <2>1. ~ en[n].huge /\ Reachable(en[n].frame) /\ en[n].frame # NoFrame
        BY <1>1, <1>2, <1>5, TreeFrames
    <2>2. z = [k |-> kk2, frame |-> en[n].frame]
        BY <1>3, <1>5, <2>1 DEF EnsureNextTable
    <2>3. /\ KInv(R, kk2, en2, h, H) /\ kk2.pm = kk.pm
          /\ Steady(kk, en, kk2, en2, H)
          /\ Wide(en2, n, fl) /\ en2[n].frame = en[n].frame
        BY <1>5, WidenNode
    <2>4. z.k = kk2 /\ z.frame = en2[n].frame
        BY <2>2, <2>3
    <2> HIDE DEF kk2, en2, z
    <2>5. Room(z.k.pm, r)
        BY <2>3, <2>4
    <2>6. QED
        BY <2>3, <2>4, <2>5 DEF NextTable, z
<1>6. CASE ~ en[n].present
    <2> DEFINE y == AllocateZeroed(kk)
    <2>1. z = LinkTable(y, t, i, fl.writable, fl.user)
        BY <1>3, <1>6 DEF EnsureNextTable
    <2>2. Obtained(R, kk, h, r, y)
        BY <1>1, <1>4, AllocateZeroedIs
    <2>3. n # N3(0)
        BY <1>1, <1>6 DEF KTree
    <2> HIDE DEF y
    <2>4. CASE y.frame = NoFrame
        <3>1. z = y
            BY <2>1, <2>4 DEF LinkTable
        <3>2. KInv(R, y.k, en, h, H) /\ Steady(kk, en, y.k, en, H) /\ Room(y.k.pm, r)
            BY <2>2, <2>4, UntakenKept
        <3>3. QED
            BY <2>4, <3>1, <3>2 DEF NextTable
    <2>5. CASE y.frame # NoFrame
        <3> DEFINE f == y.frame
                   e == TableEntry(f, fl.writable, fl.user)
                   kk2 == [y.k EXCEPT !.mem[t][i] = e]
                   en2 == [en EXCEPT ![n] = e]
        <3>0. Taken(R, kk, en, h, H, y.k, f)
            BY <2>2, <2>5, TakenKept
        <3>1. /\ KInv(R, y.k, en, h \cup {f}, H \cup {f})
              /\ f \notin H /\ Steady(kk, en, y.k, en, H)
              /\ \A m \in Node : en[m].present => en[m].frame # f
              /\ y.k.mem[f] = ZeroTable
            BY <3>0, Zenon DEF Taken
        <3>2. /\ f \in FramesOf(R) /\ Reachable(f) /\ Room(y.k.pm, r + 1) /\ Good(R, y.k.pm, h \cup {f})
              /\ y = [k |-> y.k, frame |-> f]
            BY <2>2, <2>5 DEF Obtained
        <3>3. f \in Nat /\ fl.writable \in BOOLEAN /\ fl.user \in BOOLEAN
            BY <1>4, <3>2, FrameFacts DEF FlagsFor, PageFlags
        <3>4. /\ e \in Entry /\ e.present /\ e.frame = f /\ ~ e.huge /\ ~ e.nx
              /\ e.writable = fl.writable /\ e.user = fl.user
            BY <3>3, TableEntryIs
        <3>5. z.k = kk2 /\ z.frame = f
            BY <2>1, <2>5, <3>2 DEF LinkTable
        <3> HIDE DEF e, f
        <3>6. FrameOk(R, n, e)
            BY <1>2, <2>3, <3>2, <3>4 DEF FrameOk
        <3>7. FlagsOk(n, e, en[Parent(n)])
            <4>1. CASE HalfOf(n) = 1
                <5>1. fl.writable /\ ~ fl.user
                    BY <4>1 DEF FlagsFor, KernelFlags
                <5>2. QED
                    BY <2>3, <3>4, <4>1, <5>1 DEF FlagsOk, Wide
            <4>2. CASE HalfOf(n) = 0
                BY <2>3, <3>4, <4>2 DEF FlagsOk, Wide, FlagsFor
            <4>3. QED
                BY <1>2, <4>1, <4>2 DEF Half
        <3>8. H \cup {f} = H \cup ({f} \cap FramesOf(R))
            BY <3>2
        <3>9. KInv(R, y.k, en, h \cup {f}, H \cup ({f} \cap FramesOf(R)))
            BY <3>1, <3>8
        <3>10. /\ kk2 \in KernelMemory(R) /\ KTree(R, kk2.mem, en2)
               /\ Owners(R, kk2, en2, h \cup {f}, H)
               /\ kk2.pm = y.k.pm /\ kk2.records = y.k.records /\ kk2.overflowed = y.k.overflowed
               /\ kk2.cleanupFailed = y.k.cleanupFailed
               /\ \A g \in H : kk2.mem[g] = y.k.mem[g]
               /\ en2[n] = e /\ \A m \in Node : m # n => en2[m] = en[m]
            <4>1. Linked(R, y.k, en, h \cup {f}, H, n, e, kk2, en2)
                BY <1>2, <1>6, <3>1, <3>4, <3>6, <3>7, <3>9, LinkNode
            <4>2. QED
                BY <4>1, Zenon DEF Linked
        <3> HIDE DEF kk2, en2, z
        <3>11. \A m \in Node : ~ IsTable(m) => en2[m] = en[m]
            BY <3>10
        <3>12. Recorded(kk2, en2)
            <4>1. Recorded(y.k, en)
                BY <3>1 DEF KInv
            <4>2. QED
                BY <3>10, <3>11, <4>1, RecordedKept
        <3>13. Steady(y.k, en, kk2, en2, H)
            BY <1>6, <3>10, <3>11, NodeMembers DEF Steady
        <3>14. Steady(kk, en, kk2, en2, H)
            BY <3>1, <3>13, SteadyTrans
        <3>15. KInv(R, kk2, en2, h \cup {f}, H)
            BY <3>2, <3>10, <3>12 DEF KInv
        <3>16. Wide(en2, n, fl)
            BY <3>4, <3>10 DEF Wide
        <3>17. Room(kk2.pm, r)
            <4>1. Len(y.k.pm.recycled) \in Nat
                BY <1>4, <3>2, GoodTypes
            <4>2. Room(y.k.pm, r)
                BY <3>2, <4>1, RoomLess
            <4>3. QED
                BY <3>10, <4>2
        <3>18. en2[n].frame = f
            BY <3>4, <3>10
        <3>19. QED
            BY <3>5, <3>14, <3>15, <3>16, <3>17, <3>18 DEF NextTable, z
    <2>6. QED
        BY <2>4, <2>5
<1>7. QED
    BY <1>5, <1>6

LEMMA WalkStarts ==
    ASSUME NEW R, Machine(R), NEW kk, NEW en, NEW h, NEW H, KInv(R, kk, en, h, H),
           NEW fl, NEW r, Room(kk.pm, r)
    PROVE  NextTable(R, kk, en, H, Root, fl, r, [k |-> kk, frame |-> BootP4])
<1>1. en[Root] = TableEntry(BootP4, TRUE, TRUE)
    BY DEF KInv, KTree
<1>2. en[Root].frame = BootP4 /\ Wide(en, Root, fl)
    BY <1>1 DEF Wide, TableEntry, PageEntry
<1>3. Steady(kk, en, kk, en, H)
    BY DEF Steady
<1> DEFINE z == [k |-> kk, frame |-> BootP4]
<1>4. z.k = kk /\ z.frame = BootP4
    OBVIOUS
<1> HIDE DEF z
<1>5. NextTable(R, kk, en, H, Root, fl, r, z)
    BY <1>2, <1>3, <1>4 DEF NextTable
<1>6. QED
    BY <1>5 DEF z

LEMMA DescendIs ==
    ASSUME NEW R, Machine(R), NEW kk, NEW en, NEW H,
           NEW n \in Inner, IsTable(n), NEW fl, FlagsFor(n, fl),
           NEW r \in Nat, r < MaxRecycled,
           NEW y, NextTable(R, kk, en, H, Parent(n), fl, r, y)
    PROVE  NextTable(R, kk, en, H, n, fl, r, Descend(y, Slot(n), fl))
<1> DEFINE z == Descend(y, Slot(n), fl)
<1>1. PICK e1, h1 : /\ KInv(R, y.k, e1, h1, H) /\ Room(y.k.pm, r)
                    /\ Steady(kk, en, y.k, e1, H)
                    /\ y.frame # NoFrame => /\ Wide(e1, Parent(n), fl)
                                            /\ y.frame = e1[Parent(n)].frame
    BY DEF NextTable
<1>2. CASE y.frame = NoFrame
    <2>1. z = y
        BY <1>2 DEF Descend
    <2> HIDE DEF z
    <2>2. NextTable(R, kk, en, H, n, fl, r, z)
        BY <1>1, <1>2, <2>1 DEF NextTable
    <2>3. QED
        BY <2>2 DEF z
<1>3. CASE y.frame # NoFrame
    <2>1. z = EnsureNextTable(y.k, e1[Parent(n)].frame, Slot(n), fl)
        BY <1>1, <1>3 DEF Descend
    <2> HIDE DEF z
    <2>2. NextTable(R, y.k, e1, H, n, fl, r, z)
        BY <1>1, <1>3, <2>1, EnsureIs
    <2>3. PICK e2, h2 : /\ KInv(R, z.k, e2, h2, H) /\ Room(z.k.pm, r)
                        /\ Steady(y.k, e1, z.k, e2, H)
                        /\ z.frame # NoFrame => Wide(e2, n, fl) /\ z.frame = e2[n].frame
        BY <2>2 DEF NextTable
    <2>4. Steady(kk, en, z.k, e2, H)
        BY <1>1, <2>3, SteadyTrans
    <2>5. NextTable(R, kk, en, H, n, fl, r, z)
        BY <2>3, <2>4 DEF NextTable
    <2>6. QED
        BY <2>5 DEF z
<1>4. QED
    BY <1>2, <1>3

LEMMA VirtIs ==
    /\ \A s, c \in Half, d \in Index :
          LET v == Virt(s, c, d)
          IN /\ v[1] = s /\ v[2] = 1 - s /\ v[3] = c /\ v[4] = d /\ v \in Virtuals
             /\ InUserRange(v) <=> s = 0
             /\ InManagedRange(v) <=> s = 1
    /\ \A s, c \in Half, d \in Index : \A t, e \in Half, g \in Index :
          Virt(s, c, d) = Virt(t, e, g) => s = t /\ c = e /\ d = g
    /\ \A v \in Virtuals : InUserRange(v) \/ InManagedRange(v) =>
          \E s, c \in Half, d \in Index : v = Virt(s, c, d)
<1>1. \A s, c \in Half, d \in Index :
          LET v == Virt(s, c, d)
          IN /\ v[1] = s /\ v[2] = 1 - s /\ v[3] = c /\ v[4] = d /\ v \in Virtuals
             /\ InUserRange(v) <=> s = 0
             /\ InManagedRange(v) <=> s = 1
    BY DEF Virt, Virtuals, Half, Index, InUserRange, InManagedRange
<1>2. \A s, c \in Half, d \in Index : \A t, e \in Half, g \in Index :
          Virt(s, c, d) = Virt(t, e, g) => s = t /\ c = e /\ d = g
    BY DEF Virt
<1>3. ASSUME NEW v \in Virtuals, InUserRange(v) \/ InManagedRange(v)
      PROVE  \E s, c \in Half, d \in Index : v = Virt(s, c, d)
    <2>1. /\ v = <<v[1], v[2], v[3], v[4]>> /\ v[1] \in Half /\ v[3] \in Half /\ v[4] \in Index
        BY DEF Virtuals, Half
    <2>2. v[2] = 1 - v[1]
        BY <1>3 DEF InUserRange, InManagedRange
    <2>3. v = Virt(v[1], v[3], v[4])
        BY <2>1, <2>2 DEF Virt
    <2>4. QED
        BY <2>1, <2>3
<1>4. QED
    BY <1>1, <1>2, <1>3

\* The walk of map_page_inner_with_flags down to the p1 table.
LEMMA WalkIs ==
    ASSUME NEW R, Machine(R), NEW kk, NEW en, NEW h, NEW H, KInv(R, kk, en, h, H),
           NEW s \in Half, NEW c \in Half, NEW d \in Index, NEW v, v = Virt(s, c, d),
           NEW fl, \A n \in Inner : HalfOf(n) = s => FlagsFor(n, fl),
           NEW r \in Nat, Room(kk.pm, r), r < MaxRecycled
    PROVE  NextTable(R, kk, en, H, N1(s, c), fl, r,
                     Descend(Descend(Descend([k |-> kk, frame |-> BootP4], v[1], fl), v[2], fl),
                             v[3], fl))
<1> DEFINE y0 == [k |-> kk, frame |-> BootP4]
           y1 == Descend(y0, v[1], fl)
           y2 == Descend(y1, v[2], fl)
           y3 == Descend(y2, v[3], fl)
<1>1. /\ N3(s) \in Inner /\ IsTable(N3(s)) /\ Parent(N3(s)) = Root /\ Slot(N3(s)) = v[1]
      /\ N2(s) \in Inner /\ IsTable(N2(s)) /\ Parent(N2(s)) = N3(s) /\ Slot(N2(s)) = v[2]
      /\ N1(s, c) \in Inner /\ IsTable(N1(s, c)) /\ Parent(N1(s, c)) = N2(s)
      /\ Slot(N1(s, c)) = v[3]
      /\ FlagsFor(N3(s), fl) /\ FlagsFor(N2(s), fl) /\ FlagsFor(N1(s, c), fl)
    BY NodeMembers, NodeTree, VirtIs
<1>2. NextTable(R, kk, en, H, Root, fl, r, y0)
    BY WalkStarts
<1> HIDE DEF y0
<1>3. NextTable(R, kk, en, H, N3(s), fl, r, y1)
    BY <1>1, <1>2, DescendIs
<1> HIDE DEF y1
<1>4. NextTable(R, kk, en, H, N2(s), fl, r, y2)
    BY <1>1, <1>3, DescendIs
<1> HIDE DEF y2
<1>5. NextTable(R, kk, en, H, N1(s, c), fl, r, y3)
    BY <1>1, <1>4, DescendIs
<1>6. QED
    BY <1>5 DEF y0, y1, y2

-----------------------------------------------------------------------------
(* Pages and their records.                                                *)

LEMMA ParentPresent ==
    ASSUME NEW R, NEW mem, NEW en, KTree(R, mem, en), NEW n \in Inner, en[n].present
    PROVE  en[Parent(n)].present /\ mem[en[Parent(n)].frame][Slot(n)] = en[n]
<1>1. en[n] # NoEntry
    BY DEF NoEntry
<1>2. QED
    BY <1>1 DEF KTree

\* record_mapping for a page that was not mapped.
LEMMA RecordNew ==
    ASSUME NEW R, NEW kk \in KernelMemory(R), NEW en, Recorded(kk, en), NEW en2,
           NEW s \in Half, NEW c \in Half, NEW d \in Index,
           \A n \in Node : ~ IsTable(n) /\ n # N0(s, c, d) => en2[n] = en[n],
           ~ en[N0(s, c, d)].present,
           NEW phys \in Nat, NEW fl \in PageFlags, en2[N0(s, c, d)] = PageEntry(phys, fl),
           NEW owner \in {"Heap", "Test", "User"}, owner = "User" <=> s = 0,
           s = 1 => Virt(s, c, d) \notin {HeapGuardLow, HeapGuardHigh}
    PROVE  LET kk2 == RecordMapping(kk, Virt(s, c, d), phys, fl, owner) IN
           /\ kk2 \in KernelMemory(R) /\ Recorded(kk2, en2)
           /\ kk2.pm = kk.pm /\ kk2.mem = kk.mem /\ kk2.cleanupFailed = kk.cleanupFailed
<1> DEFINE v == Virt(s, c, d)
           rec == [virt |-> v, phys |-> phys, flags |-> fl, owner |-> owner]
           kk2 == RecordMapping(kk, v, phys, fl, owner)
           n0 == N0(s, c, d)
<1>1. /\ kk.records \subseteq Record /\ rec \in Record
    <2>1. v \in Virtuals
        BY VirtIs
    <2>2. QED
        BY <2>1 DEF KernelMemory, Record
<1>2. ASSUME NEW r \in kk.records PROVE r.virt # v
    <2>1. PICK t \in Half, e \in Half, g \in Index : RecordTrue(en, r, t, e, g)
        BY DEF Recorded
    <2>2. r.virt = Virt(t, e, g) /\ en[N0(t, e, g)].present
        BY <2>1 DEF RecordTrue
    <2>3. QED
        BY <2>2, VirtIs
<1>3. {r \in kk.records : r.virt # v} = kk.records
    BY <1>2
<1>4. \/ kk2 = [kk EXCEPT !.overflowed = TRUE]
      \/ kk2 = [kk EXCEPT !.records = kk.records \cup {rec}]
    BY <1>3 DEF RecordMapping
<1>5. /\ n0 \in Node /\ ~ IsTable(n0)
      /\ \A t, e \in Half, g \in Index : /\ N0(t, e, g) \in Node /\ ~ IsTable(N0(t, e, g))
                                         /\ N0(t, e, g) = n0 => t = s /\ e = c /\ g = d
    BY NodeMembers, NodeTree, NodesDiffer
<1>6. /\ en2[n0].present /\ en2[n0].frame = phys /\ PageFlagsOf(en2[n0]) = fl
    BY DEF PageEntry, PageFlagsOf, PageFlags
<1> HIDE DEF kk2
<1>7. /\ kk2 \in KernelMemory(R)
      /\ kk2.pm = kk.pm /\ kk2.mem = kk.mem /\ kk2.cleanupFailed = kk.cleanupFailed
      /\ \/ kk2.records = kk.records /\ kk2.overflowed = TRUE
         \/ kk2.records = kk.records \cup {rec} /\ kk2.overflowed = kk.overflowed
    <2>1. CASE kk2 = [kk EXCEPT !.overflowed = TRUE]
        BY <2>1 DEF KernelMemory
    <2>2. CASE kk2 = [kk EXCEPT !.records = kk.records \cup {rec}]
        <3>1. kk.records \cup {rec} \in SUBSET Record
            BY <1>1
        <3> HIDE DEF rec
        <3>2. QED
            BY <2>2, <3>1 DEF KernelMemory
    <2>3. QED
        BY <1>4, <2>1, <2>2
<1>8. RecordTrue(en2, rec, s, c, d)
    BY <1>6 DEF RecordTrue
<1>9. ASSUME NEW r \in kk.records
      PROVE  \E t, e \in Half, g \in Index : RecordTrue(en2, r, t, e, g)
    <2>1. PICK t \in Half, e \in Half, g \in Index : RecordTrue(en, r, t, e, g)
        BY DEF Recorded
    <2>2. en[N0(t, e, g)].present
        BY <2>1 DEF RecordTrue
    <2>3. en2[N0(t, e, g)] = en[N0(t, e, g)]
        BY <1>5, <2>2
    <2>4. QED
        BY <2>1, <2>3 DEF RecordTrue
<1>10. \A r \in kk2.records : \E t, e \in Half, g \in Index : RecordTrue(en2, r, t, e, g)
    BY <1>7, <1>8, <1>9
<1>11. ASSUME ~ kk2.overflowed, NEW t \in Half, NEW e \in Half, NEW g \in Index,
              en2[N0(t, e, g)].present
       PROVE  \E r \in kk2.records : r.virt = Virt(t, e, g)
    <2>1. kk2.records = kk.records \cup {rec} /\ ~ kk.overflowed
        BY <1>7, <1>11
    <2>2. CASE N0(t, e, g) = n0
        <3>1. t = s /\ e = c /\ g = d
            BY <1>5, <2>2
        <3>2. rec \in kk2.records /\ rec.virt = v
            BY <2>1
        <3> HIDE DEF rec
        <3>3. QED
            BY <3>1, <3>2
    <2>3. CASE N0(t, e, g) # n0
        <3>1. en[N0(t, e, g)].present
            BY <1>5, <1>11, <2>3
        <3>2. QED
            BY <2>1, <3>1 DEF Recorded
    <2>4. QED
        BY <2>2, <2>3
<1>12. ~ en2[N0(1, 0, 0)].present /\ ~ en2[N0(1, 0, 3)].present
    <2>1. 0 \in Half /\ 1 \in Half /\ 0 \in Index /\ 3 \in Index
        BY DEF Half, Index
    <2>2. Virt(1, 0, 0) = HeapGuardLow /\ Virt(1, 0, 3) = HeapGuardHigh
        BY DEF Virt, HeapGuardLow, HeapGuardHigh
    <2>3. N0(1, 0, 0) # n0 /\ N0(1, 0, 3) # n0
        BY <1>5, <2>1, <2>2
    <2>4. QED
        BY <1>5, <2>1, <2>3 DEF Recorded
<1>13. QED
    BY <1>7, <1>10, <1>11, <1>12 DEF Recorded, kk2

\* What is kept of the memory outside of the kernel's tables, of the tables of
\* the managed range and of the pages but the ones of P.
Kept(kk, en, kk2, en2, H, P) ==
    /\ kk2.cleanupFailed = kk.cleanupFailed
    /\ \A g \in H : kk2.mem[g] = kk.mem[g]
    /\ \A n \in Inner : HalfOf(n) = 1 /\ IsTable(n) /\ en[n].present => en2[n] = en[n]
    /\ \A n \in Node : ~ IsTable(n) /\ n \notin P => en2[n] = en[n]

LEMMA KeptTrans ==
    ASSUME NEW k1, NEW e1, NEW k2, NEW e2, NEW k3, NEW e3, NEW H, NEW P, NEW Q,
           Kept(k1, e1, k2, e2, H, P), Kept(k2, e2, k3, e3, H, Q)
    PROVE  Kept(k1, e1, k3, e3, H, P \cup Q)
<1>1. ASSUME NEW n \in Inner, HalfOf(n) = 1, IsTable(n), e1[n].present
      PROVE  e3[n] = e1[n]
    <2>1. e2[n] = e1[n]
        BY <1>1 DEF Kept
    <2>2. e2[n].present
        BY <1>1, <2>1
    <2>3. e3[n] = e2[n]
        BY <1>1, <2>2 DEF Kept
    <2>4. QED
        BY <2>1, <2>3
<1>2. QED
    BY <1>1 DEF Kept

LEMMA SteadyKept ==
    ASSUME NEW kk, NEW en, NEW kk2, NEW en2, NEW H, Steady(kk, en, kk2, en2, H), NEW P
    PROVE  Kept(kk, en, kk2, en2, H, P)
BY DEF Steady, Kept

\* What map_page_inner_with_flags leaves.  The frame of the page is held
\* outside of the tables before, and after an error.
MapOutcome(R, kk, en, H, phys, s, c, d, fl, r, z) ==
    /\ z.ok \in BOOLEAN /\ z = [k |-> z.k, ok |-> z.ok]
    /\ \E en2, h2 :
          /\ Room(z.k.pm, r)
          /\ Kept(kk, en, z.k, en2, H, {N0(s, c, d)})
          /\ IF z.ok
             THEN /\ KInv(R, z.k, en2, h2, H)
                  /\ ~ en[N0(s, c, d)].present
                  /\ en2[N0(s, c, d)] = PageEntry(phys, fl)
             ELSE /\ KInv(R, z.k, en2, h2, H \cup ({phys} \cap FramesOf(R)))
                  /\ en2[N0(s, c, d)] = en[N0(s, c, d)]

\* The page phys may be mapped at the page s, c, d.
MayMap(R, en, H, phys, s, fl, owner) ==
    /\ phys \in FramesOf(R) \/ (s = 0 /\ phys \in {ProbeCodeFrame, ProbeStackFrame})
    /\ phys \notin H
    /\ \A m \in Node : ~ IsTable(m) /\ en[m].present => en[m].frame # phys
    /\ fl \in PageFlags
    /\ owner \in {"Heap", "Test", "User"}
    /\ s = 0 => fl.user /\ owner = "User"
    /\ s = 1 => fl = KernelFlags /\ owner # "User"

LEMMA MapPageIs ==
    ASSUME NEW R, Machine(R), NEW kk, NEW en, NEW h, NEW H, NEW phys,
           KInv(R, kk, en, h, H \cup ({phys} \cap FramesOf(R))),
           NEW s \in Half, NEW c \in Half, NEW d \in Index,
           NEW fl, NEW owner, MayMap(R, en, H, phys, s, fl, owner),
           NEW r \in Nat, Room(kk.pm, r), r < MaxRecycled
    PROVE  MapOutcome(R, kk, en, H, phys, s, c, d, fl, r,
                      MapPage(kk, Virt(s, c, d), phys, fl, owner))
<1> DEFINE v == Virt(s, c, d)
           H2 == H \cup ({phys} \cap FramesOf(R))
           n0 == N0(s, c, d)
           n1 == N1(s, c)
           y == Descend(Descend(Descend([k |-> kk, frame |-> BootP4], v[1], fl), v[2], fl),
                        v[3], fl)
           z == MapPage(kk, v, phys, fl, owner)
<1>1. \A n \in Inner : HalfOf(n) = s => FlagsFor(n, fl)
    BY DEF MayMap, FlagsFor, Half
<1>2. NextTable(R, kk, en, H2, n1, fl, r, y)
    BY <1>1, WalkIs
<1>3. PICK e1, h1 : /\ KInv(R, y.k, e1, h1, H2) /\ Room(y.k.pm, r)
                    /\ Steady(kk, en, y.k, e1, H2)
                    /\ y.frame # NoFrame => Wide(e1, n1, fl) /\ y.frame = e1[n1].frame
    BY <1>2 DEF NextTable
<1>4. /\ n0 \in Inner /\ n0 \in Node /\ ~ IsTable(n0) /\ Parent(n0) = n1 /\ Slot(n0) = d
      /\ HalfOf(n0) = s /\ v[4] = d /\ n1 \in Node
    BY NodeMembers, NodeTree, VirtIs
<1>5. Kept(kk, en, kk, en, H, {n0}) /\ Kept(kk, en, y.k, e1, H, {n0}) /\ e1[n0] = en[n0]
    <2>1. Kept(kk, en, y.k, e1, H2, {n0}) /\ e1[n0] = en[n0]
        BY <1>3, <1>4, SteadyKept DEF Steady
    <2>2. QED
        BY <2>1 DEF Kept
<1> HIDE DEF y
<1>6. CASE z = [k |-> kk, ok |-> FALSE]
    <2>1. z.k = kk /\ z.ok = FALSE
        BY <1>6
    <2> HIDE DEF z
    <2>2. MapOutcome(R, kk, en, H, phys, s, c, d, fl, r, z)
        BY <1>5, <1>6, <2>1 DEF MapOutcome
    <2>3. QED
        BY <2>2 DEF z
<1>7. CASE z = [k |-> y.k, ok |-> FALSE]
    <2>1. z.k = y.k /\ z.ok = FALSE
        BY <1>7
    <2> HIDE DEF z
    <2>2. MapOutcome(R, kk, en, H, phys, s, c, d, fl, r, z)
        BY <1>3, <1>5, <1>7, <2>1 DEF MapOutcome
    <2>3. QED
        BY <2>2 DEF z
<1>8. CASE /\ InMappableRange(v, fl) /\ Reachable(phys) /\ y.frame # NoFrame
           /\ ~ y.k.mem[y.frame][d].present
    <2> DEFINE e == PageEntry(phys, fl)
               kk1 == [y.k EXCEPT !.mem[y.frame][d] = e]
               en2 == [e1 EXCEPT ![n0] = e]
               kk2 == RecordMapping(kk1, v, phys, fl, owner)
    <2>1. z = [k |-> kk2, ok |-> TRUE]
        BY <1>4, <1>8 DEF MapPage, SetPage, y
    <2>2. /\ KTree(R, y.k.mem, e1) /\ Good(R, y.k.pm, h1) /\ Owners(R, y.k, e1, h1, H2)
          /\ Recorded(y.k, e1) /\ Wide(e1, n1, fl) /\ y.frame = e1[n1].frame /\ e1[n1].present
        BY <1>3, <1>8 DEF KInv, Wide
    <2>3. y.k.mem[y.frame][d] = e1[n0]
        BY <1>4, <2>2 DEF KTree
    <2>4. ~ e1[n0].present /\ ~ en[n0].present
        BY <1>5, <1>8, <2>3
    <2>5. phys \in Nat /\ fl \in PageFlags /\ phys \notin H
        <3>1. IsRegionArray(R)
            BY DEF Machine
        <3>2. QED
            BY <3>1, FrameFacts DEF MayMap, ProbeCodeFrame, ProbeStackFrame
    <2>6. /\ e \in Entry /\ e.present /\ e.frame = phys /\ ~ e.huge
          /\ e.nx = fl.nx /\ e.writable = fl.writable /\ e.user = fl.user
        BY <2>5, PageEntryIs
    <2> HIDE DEF e
    <2>7. ASSUME NEW m \in Node, e1[m].present PROVE e1[m].frame # phys
        <3>1. CASE ~ IsTable(m)
            <4>1. e1[m] = en[m]
                BY <1>3, <3>1 DEF Steady
            <4>2. QED
                BY <2>7, <3>1, <4>1 DEF MayMap
        <3>2. CASE phys \in FramesOf(R)
            BY <2>2, <2>7, <3>2 DEF Owners, KernelFrames
        <3>3. CASE IsTable(m) /\ phys \in {ProbeCodeFrame, ProbeStackFrame}
            <4>1. phys \in ImageFrames /\ phys \notin {BootP4, BootP3}
                BY <3>3 DEF ImageFrames, ProbeCodeFrame, ProbeStackFrame, BootP4, BootP3
            <4>2. e1[m].frame \in ImageFrames => e1[m].frame \in {BootP4, BootP3}
                <5>1. CASE m = Root
                    BY <2>2, <5>1 DEF KTree, TableEntry, PageEntry
                <5>2. CASE m = N3(0)
                    <6>1. m # Root /\ m \in Inner /\ e1[m] # NoEntry
                        BY <2>7, <5>2, NodesDiffer, NodeMembers DEF Half, NoEntry
                    <6>2. FrameOk(R, m, e1[m])
                        BY <2>2, <6>1 DEF KTree, EntryOf
                    <6>3. QED
                        BY <5>2, <6>1, <6>2 DEF FrameOk
                <5>3. CASE m # Root /\ m # N3(0)
                    <6>1. e1[m].frame \in FramesOf(R)
                        BY <2>2, <2>7, <3>3, <5>3, TreeFrames
                    <6>2. QED
                        BY <6>1 DEF Machine
                <5>4. QED
                    BY <5>1, <5>2, <5>3
            <4>3. QED
                BY <4>1, <4>2
        <3>4. QED
            BY <3>1, <3>2, <3>3 DEF MayMap
    <2>8. FrameOk(R, n0, e)
        <3>1. n0 # Root /\ n0 # N3(0)
            BY <1>4, NodeTree DEF Half
        <3>2. QED
            BY <1>4, <1>8, <2>6, <3>1 DEF FrameOk, MayMap
    <2>9. FlagsOk(n0, e, e1[n1])
        <3>1. n0 # N3(0)
            BY <1>4, NodeTree DEF Half
        <3>2. CASE s = 1
            <4>1. fl.writable /\ ~ fl.user /\ ~ fl.nx
                BY <3>2 DEF MayMap, KernelFlags
            <4>2. QED
                BY <1>4, <2>2, <2>6, <3>1, <3>2, <4>1 DEF FlagsOk, Wide
        <3>3. CASE s = 0
            <4>1. fl.user
                BY <3>3 DEF MayMap
            <4>2. QED
                BY <1>4, <2>2, <2>6, <3>1, <3>3, <4>1 DEF FlagsOk, Wide
        <3>4. QED
            BY <3>2, <3>3 DEF Half
    <2>10. Linked(R, y.k, e1, h1, H, n0, e, kk1, en2)
        BY <1>3, <1>4, <2>2, <2>4, <2>5, <2>6, <2>7, <2>8, <2>9, LinkNode
    <2> HIDE DEF kk1, en2
    <2>11. /\ kk1 \in KernelMemory(R) /\ KTree(R, kk1.mem, en2) /\ Owners(R, kk1, en2, h1, H)
           /\ kk1.pm = y.k.pm /\ kk1.records = y.k.records /\ kk1.overflowed = y.k.overflowed
           /\ kk1.cleanupFailed = y.k.cleanupFailed
           /\ \A g \in H : kk1.mem[g] = y.k.mem[g]
           /\ en2[n0] = e /\ \A m \in Node : m # n0 => en2[m] = e1[m]
        BY <2>10, Zenon DEF Linked
    <2>12. Recorded(kk1, e1)
        BY <2>2, <2>11, RecordedKept
    <2>13. s = 1 => v \notin {HeapGuardLow, HeapGuardHigh}
        BY <1>8 DEF InMappableRange, MayMap, KernelFlags
    <2>14. /\ kk2 \in KernelMemory(R) /\ Recorded(kk2, en2)
           /\ kk2.pm = kk1.pm /\ kk2.mem = kk1.mem /\ kk2.cleanupFailed = kk1.cleanupFailed
        <3>1. owner \in {"Heap", "Test", "User"} /\ (owner = "User" <=> s = 0)
            BY DEF MayMap, Half
        <3>2. \A n \in Node : ~ IsTable(n) /\ n # n0 => en2[n] = e1[n]
            BY <2>11
        <3>3. en2[n0] = PageEntry(phys, fl)
            BY <2>11 DEF e
        <3>4. QED
            BY <2>4, <2>5, <2>11, <2>12, <2>13, <3>1, <3>2, <3>3, RecordNew
    <2>15. z.k = kk2 /\ z.ok = TRUE
        BY <2>1
    <2> HIDE DEF kk2, z
    <2>16. Owners(R, kk2, en2, h1, H)
        BY <2>11, <2>14 DEF Owners
    <2>17. KInv(R, kk2, en2, h1, H)
        <3>1. KTree(R, kk2.mem, en2) /\ Good(R, kk2.pm, h1)
            BY <2>2, <2>11, <2>14
        <3>2. QED
            BY <2>14, <2>16, <3>1 DEF KInv
    <2>18. Kept(y.k, e1, kk2, en2, H, {n0})
        BY <1>4, <2>11, <2>14, NodeMembers DEF Kept
    <2>19. Kept(kk, en, kk2, en2, H, {n0})
        <3>1. Kept(kk, en, kk2, en2, H, {n0} \cup {n0})
            BY <1>5, <2>18, KeptTrans
        <3>2. {n0} \cup {n0} = {n0}
            OBVIOUS
        <3>3. QED
            BY <3>1, <3>2
    <2>20. Room(kk2.pm, r)
        BY <1>3, <2>11, <2>14
    <2>21. en2[n0] = PageEntry(phys, fl)
        BY <2>11 DEF e
    <2>22. MapOutcome(R, kk, en, H, phys, s, c, d, fl, r, z)
        BY <2>1, <2>4, <2>15, <2>17, <2>19, <2>20, <2>21 DEF MapOutcome
    <2>23. QED
        BY <2>22 DEF z
<1>9. QED
    <2>1. \/ z = [k |-> kk, ok |-> FALSE]
          \/ z = [k |-> y.k, ok |-> FALSE]
          \/ /\ InMappableRange(v, fl) /\ Reachable(phys) /\ y.frame # NoFrame
             /\ ~ y.k.mem[y.frame][d].present
        BY <1>4 DEF MapPage, SetPage, y
    <2>2. QED
        BY <1>6, <1>7, <1>8, <2>1

\* What a translation of page v through the entry e of its p1 table gives,
\* when no table takes anything away.
PageView(e) ==
    IF e.present
    THEN [mapped |-> TRUE, phys |-> e.frame, huge |-> FALSE,
          user |-> e.user, writable |-> e.writable, executable |-> ~ e.nx]
    ELSE Unmapped

\* The entries e4 to e1 lead through the tables from root to page v; they
\* grant what the last one grants.
Path(mem, root, v, e4, e3, e2, e1) ==
    /\ mem[root][v[1]] = e4 /\ mem[e4.frame][v[2]] = e3
    /\ mem[e3.frame][v[3]] = e2 /\ mem[e2.frame][v[4]] = e1
    /\ Reachable(root) /\ Reachable(e4.frame) /\ Reachable(e3.frame) /\ Reachable(e2.frame)
    /\ e4.present /\ e3.present /\ e2.present /\ ~ e2.huge /\ e1.present
    /\ e4 \in Entry /\ e3 \in Entry /\ e2 \in Entry /\ e1 \in Entry
    /\ e1.user => e4.user /\ e3.user /\ e2.user
    /\ e1.writable => e4.writable /\ e3.writable /\ e2.writable
    /\ ~ e4.nx /\ ~ e3.nx /\ ~ e2.nx

LEMMA PathView ==
    ASSUME NEW mem, NEW root, NEW v, NEW e4, NEW e3, NEW e2, NEW e1,
           Path(mem, root, v, e4, e3, e2, e1)
    PROVE  Translate(mem, root, v) = PageView(e1)
<1> DEFINE path == {e4, e3, e2, e1}
<1>1. /\ (\A e \in path : e.user) <=> e1.user
      /\ (\A e \in path : e.writable) <=> e1.writable
      /\ (\A e \in path : ~ e.nx) <=> ~ e1.nx
    BY DEF Path
<1>2. /\ e1.user \in BOOLEAN /\ e1.writable \in BOOLEAN /\ e1.nx \in BOOLEAN /\ e1.present
    BY DEF Path, Entry
<1>3. /\ (\A e \in path : e.user) = e1.user
      /\ (\A e \in path : e.writable) = e1.writable
      /\ (\A e \in path : ~ e.nx) = (~ e1.nx)
    BY <1>1, <1>2
<1>4. Translate(mem, root, v) = Translation(e1.frame, FALSE, path)
    BY Zenon DEF Translate, Path
<1> HIDE DEF path
<1>5. Translation(e1.frame, FALSE, path) = PageView(e1)
    BY <1>2, <1>3, Zenon DEF Translation, PageView
<1>6. QED
    BY <1>4, <1>5

\* The kernel's translation of a page.
LEMMA KernelView ==
    ASSUME NEW R, Machine(R), NEW mem, NEW en, KTree(R, mem, en),
           NEW s \in Half, NEW c \in Half, NEW d \in Index
    PROVE  Translate(mem, BootP4, Virt(s, c, d)) = PageView(en[N0(s, c, d)])
<1> DEFINE v == Virt(s, c, d)
           t == Translate(mem, BootP4, v)
           n3 == N3(s)
           n2 == N2(s)
           n1 == N1(s, c)
           n0 == N0(s, c, d)
<1>1. /\ n3 \in Inner /\ n2 \in Inner /\ n1 \in Inner /\ n0 \in Inner
      /\ Parent(n3) = Root /\ Parent(n2) = n3 /\ Parent(n1) = n2 /\ Parent(n0) = n1
      /\ Slot(n3) = v[1] /\ Slot(n2) = v[2] /\ Slot(n1) = v[3] /\ Slot(n0) = v[4]
      /\ IsTable(n3) /\ IsTable(n2) /\ IsTable(n1) /\ ~ IsTable(n0)
      /\ HalfOf(n3) = s /\ HalfOf(n2) = s /\ HalfOf(n1) = s /\ HalfOf(n0) = s
    BY NodeMembers, NodeTree, VirtIs
<1>2. /\ n3 \in Node /\ n2 \in Node /\ n1 \in Node /\ n0 \in Node /\ Root \in Node
      /\ n2 # N3(0) /\ n1 # N3(0) /\ n0 # N3(0)
    BY <1>1, NodeMembers, NodesDiffer, NodeTree DEF Half
<1>3. en[Root].present /\ en[Root].frame = BootP4 /\ Reachable(BootP4)
    <2>1. BootP4 \in ImageFrames
        BY DEF BootP4, ImageFrames
    <2>2. QED
        BY <2>1, ImageAssumption DEF KTree, TableEntry, PageEntry, Reachable
<1>4. mem[BootP4][v[1]] = en[n3]
    BY <1>1, <1>3 DEF KTree
<1>5. /\ en[n3].present => mem[en[n3].frame][v[2]] = en[n2] /\ Reachable(en[n3].frame)
      /\ ~ en[n3].present => en[n2] = NoEntry
    <2>1. en[n3].present => Reachable(en[n3].frame)
        BY <1>1, <1>2, TreeFrames
    <2>2. QED
        BY <1>1, <2>1 DEF KTree
<1>6. /\ en[n2].present => /\ mem[en[n2].frame][v[3]] = en[n1] /\ Reachable(en[n2].frame)
                           /\ en[n3].present
      /\ ~ en[n2].present => en[n1] = NoEntry
    <2>1. en[n2].present => Reachable(en[n2].frame) /\ en[n3].present
        BY <1>1, <1>2, TreeFrames, ParentPresent
    <2>2. QED
        BY <1>1, <2>1 DEF KTree
<1>7. /\ en[n1].present => /\ mem[en[n1].frame][v[4]] = en[n0] /\ Reachable(en[n1].frame)
                           /\ ~ en[n1].huge /\ en[n2].present
      /\ ~ en[n1].present => en[n0] = NoEntry
    <2>1. en[n1].present => Reachable(en[n1].frame) /\ ~ en[n1].huge /\ en[n2].present
        BY <1>1, <1>2, TreeFrames, ParentPresent
    <2>2. QED
        BY <1>1, <2>1 DEF KTree
<1>8. CASE ~ en[n0].present
    <2>1. t = Unmapped
        BY <1>3, <1>4, <1>5, <1>6, <1>7, <1>8 DEF Translate, NoEntry
    <2>2. QED
        BY <1>8, <2>1 DEF PageView
<1>9. CASE en[n0].present
    <2>1. en[n1].present /\ en[n2].present /\ en[n3].present
        BY <1>1, <1>9, ParentPresent
    <2>3. en[n3] \in Entry /\ en[n2] \in Entry /\ en[n1] \in Entry /\ en[n0] \in Entry
        BY <1>2 DEF KTree
    <2>4. \A n \in Inner : en[n].present => FlagsOk(n, en[n], en[Parent(n)])
        BY DEF KTree, EntryOf, NoEntry
    <2>5. /\ FlagsOk(n3, en[n3], en[Root]) /\ FlagsOk(n2, en[n2], en[n3])
          /\ FlagsOk(n1, en[n1], en[n2]) /\ FlagsOk(n0, en[n0], en[n1])
        BY <1>1, <1>9, <2>1, <2>4
    <2> HIDE DEF n3, n2, n1, n0
    <2>6. /\ ~ en[n3].nx /\ ~ en[n2].nx /\ ~ en[n1].nx
          /\ en[n0].writable => en[n3].writable /\ en[n2].writable /\ en[n1].writable
        BY <1>1, <2>5 DEF FlagsOk
    <2>7. en[n0].user => en[n3].user /\ en[n2].user /\ en[n1].user
        <3>1. CASE s = 1
            BY <1>1, <2>5, <3>1 DEF FlagsOk
        <3>2. CASE s = 0
            BY <1>1, <1>2, <2>5, <3>2 DEF FlagsOk
        <3>3. QED
            BY <3>1, <3>2 DEF Half
    <2>8. Path(mem, BootP4, v, en[n3], en[n2], en[n1], en[n0])
        BY <1>3, <1>4, <1>5, <1>6, <1>7, <1>9, <2>1, <2>3, <2>6, <2>7 DEF Path
    <2>9. QED
        BY <2>8, PathView DEF n0
<1>10. QED
    BY <1>8, <1>9

\* A frame that is held outside of the tables is given back.
LEMMA ReleaseIs ==
    ASSUME NEW R, Machine(R), NEW kk, NEW en, NEW h, NEW H, KInv(R, kk, en, h, H),
           NEW f \in H, NEW r \in Nat, Room(kk.pm, r + 1)
    PROVE  LET kk2 == Release(kk, f) IN
           /\ KInv(R, kk2, en, h \ {f}, H \ {f})
           /\ Room(kk2.pm, r)
           /\ kk2.mem = kk.mem /\ kk2.cleanupFailed = kk.cleanupFailed
<1> DEFINE b == FreeFrame(kk.pm, f)
           kk2 == Release(kk, f)
<1>1. /\ kk \in KernelMemory(R) /\ KTree(R, kk.mem, en) /\ Good(R, kk.pm, h)
      /\ Owners(R, kk, en, h, H) /\ Recorded(kk, en)
    BY DEF KInv
<1>2. IsRegionArray(R) /\ f \in h
    BY <1>1 DEF Machine, Owners
<1>3. Good(R, b, h \ {f}) /\ Room(b, r)
    BY <1>1, <1>2, GiveBack
<1>4. b \in AllocatorState(R)
    BY <1>3 DEF Good
<1>5. kk2 = [kk EXCEPT !.pm = b]
    BY DEF Release
<1> HIDE DEF b, kk2
<1>6. /\ kk2 \in KernelMemory(R) /\ kk2.pm = b
      /\ kk2.mem = kk.mem /\ kk2.records = kk.records /\ kk2.overflowed = kk.overflowed
      /\ kk2.cleanupFailed = kk.cleanupFailed
    BY <1>1, <1>4, <1>5 DEF KernelMemory
<1>7. Owners(R, kk2, en, h \ {f}, H \ {f})
    BY <1>1, <1>6 DEF Owners
<1>8. Recorded(kk2, en)
    BY <1>1, <1>6, RecordedKept
<1>9. KInv(R, kk2, en, h \ {f}, H \ {f}) /\ Room(kk2.pm, r)
    BY <1>1, <1>3, <1>6, <1>7, <1>8 DEF KInv
<1>10. QED
    BY <1>6, <1>9 DEF kk2

\* The flags and the owner that the pages of a half are mapped with.
PageKind(s, fl, owner) ==
    /\ fl \in PageFlags
    /\ owner \in {"Heap", "Test", "User"}
    /\ s = 0 => fl.user /\ owner = "User"
    /\ s = 1 => fl = KernelFlags /\ owner # "User"

\* What map_new_page_with_flags leaves.
NewOutcome(R, kk, en, H, s, c, d, fl, r, z) ==
    /\ z.ok \in BOOLEAN /\ z = [k |-> z.k, ok |-> z.ok]
    /\ \E en2, h2 :
          /\ KInv(R, z.k, en2, h2, H)
          /\ Kept(kk, en, z.k, en2, H, {N0(s, c, d)})
          /\ IF z.ok
             THEN /\ Room(z.k.pm, r + 1)
                  /\ \E phys \in FramesOf(R) : en2[N0(s, c, d)] = PageEntry(phys, fl)
             ELSE Room(z.k.pm, r) /\ en2[N0(s, c, d)] = en[N0(s, c, d)]

LEMMA MapNewPageIs ==
    ASSUME NEW R, Machine(R), NEW kk, NEW en, NEW h, NEW H, KInv(R, kk, en, h, H),
           NEW s \in Half, NEW c \in Half, NEW d \in Index,
           NEW fl, NEW owner, PageKind(s, fl, owner),
           NEW r \in Nat, Room(kk.pm, r), r + 1 < MaxRecycled
    PROVE  NewOutcome(R, kk, en, H, s, c, d, fl, r,
                      MapNewPage(kk, Virt(s, c, d), fl, owner))
<1> DEFINE v == Virt(s, c, d)
           n0 == N0(s, c, d)
           y == AllocateZeroed(kk)
           z == MapNewPage(kk, v, fl, owner)
<1>1. kk \in KernelMemory(R) /\ Good(R, kk.pm, h) /\ IsRegionArray(R) /\ MaxRecycled \in Nat
    BY MaxRecycledAssumption DEF KInv, Machine
<1>2. Obtained(R, kk, h, r, y)
    BY <1>1, AllocateZeroedIs
<1>3. n0 \in Node /\ ~ IsTable(n0)
    BY NodeMembers, NodeTree
<1> HIDE DEF y
<1>4. CASE z = [k |-> kk, ok |-> FALSE]
    <2>1. z.k = kk /\ z.ok = FALSE
        BY <1>4
    <2>2. Kept(kk, en, kk, en, H, {n0})
        BY DEF Kept
    <2> HIDE DEF z
    <2>3. NewOutcome(R, kk, en, H, s, c, d, fl, r, z)
        BY <1>4, <2>1, <2>2 DEF NewOutcome
    <2>4. QED
        BY <2>3 DEF z
<1>5. CASE z = [k |-> y.k, ok |-> FALSE] /\ y.frame = NoFrame
    <2>1. z.k = y.k /\ z.ok = FALSE
        BY <1>5
    <2>2. KInv(R, y.k, en, h, H) /\ Steady(kk, en, y.k, en, H) /\ Room(y.k.pm, r)
        BY <1>2, <1>5, UntakenKept
    <2>3. Kept(kk, en, y.k, en, H, {n0})
        BY <2>2, SteadyKept
    <2> HIDE DEF z
    <2>4. NewOutcome(R, kk, en, H, s, c, d, fl, r, z)
        BY <1>5, <2>1, <2>2, <2>3 DEF NewOutcome
    <2>5. QED
        BY <2>4 DEF z
<1>6. CASE y.frame # NoFrame
           /\ z = KeepFrame(MapPage(y.k, v, y.frame, fl, owner), y.frame)
    <2> DEFINE f == y.frame
               x == MapPage(y.k, v, f, fl, owner)
    <2>1. Taken(R, kk, en, h, H, y.k, f)
        BY <1>2, <1>6, TakenKept
    <2>2. /\ KInv(R, y.k, en, h \cup {f}, H \cup {f})
          /\ f \notin H /\ Steady(kk, en, y.k, en, H)
          /\ \A m \in Node : en[m].present => en[m].frame # f
        BY <2>1, Zenon DEF Taken
    <2>3. f \in FramesOf(R) /\ Room(y.k.pm, r + 1)
        BY <1>2, <1>6 DEF Obtained
    <2>4. H \cup {f} = H \cup ({f} \cap FramesOf(R))
        BY <2>3
    <2>5. KInv(R, y.k, en, h \cup {f}, H \cup ({f} \cap FramesOf(R)))
        BY <2>2, <2>4
    <2>6. MayMap(R, en, H, f, s, fl, owner)
        BY <2>2, <2>3 DEF MayMap, PageKind
    <2>7. r + 1 \in Nat
        OBVIOUS
    <2>8. MapOutcome(R, y.k, en, H, f, s, c, d, fl, r + 1, x)
        BY <2>3, <2>5, <2>6, <2>7, MapPageIs
    <2> HIDE DEF x, f
    <2>9. /\ x.ok \in BOOLEAN /\ x = [k |-> x.k, ok |-> x.ok]
        BY <2>8 DEF MapOutcome
    <2>10. PICK e2, h2 :
              /\ Room(x.k.pm, r + 1)
              /\ Kept(y.k, en, x.k, e2, H, {n0})
              /\ IF x.ok
                 THEN /\ KInv(R, x.k, e2, h2, H)
                      /\ ~ en[n0].present
                      /\ e2[n0] = PageEntry(f, fl)
                 ELSE /\ KInv(R, x.k, e2, h2, H \cup ({f} \cap FramesOf(R)))
                      /\ e2[n0] = en[n0]
        BY <2>8 DEF MapOutcome
    <2>11. Kept(kk, en, x.k, e2, H, {n0})
        <3>1. Kept(kk, en, y.k, en, H, {n0})
            BY <2>2, SteadyKept
        <3>2. Kept(kk, en, x.k, e2, H, {n0} \cup {n0})
            BY <2>10, <3>1, KeptTrans
        <3>3. {n0} \cup {n0} = {n0}
            OBVIOUS
        <3>4. QED
            BY <3>2, <3>3
    <2>12. z = KeepFrame(x, f)
        BY <1>6 DEF x, f
    <2>13. CASE x.ok
        <3>1. z = x
            BY <2>12, <2>13 DEF KeepFrame
        <3> HIDE DEF z
        <3>2. NewOutcome(R, kk, en, H, s, c, d, fl, r, z)
            BY <2>3, <2>9, <2>10, <2>11, <2>13, <3>1 DEF NewOutcome
        <3>3. QED
            BY <3>2 DEF z
    <2>14. CASE ~ x.ok
        <3> DEFINE w == Release(x.k, f)
        <3>1. z = [x EXCEPT !.k = w]
            BY <2>12, <2>14 DEF KeepFrame
        <3>2. KInv(R, x.k, e2, h2, H \cup {f}) /\ Room(x.k.pm, r + 1) /\ f \notin H
            BY <2>2, <2>4, <2>10, <2>14
        <3>3. /\ KInv(R, w, e2, h2 \ {f}, H) /\ Room(w.pm, r)
              /\ w.mem = x.k.mem /\ w.cleanupFailed = x.k.cleanupFailed
            <4>1. f \in H \cup {f} /\ (H \cup {f}) \ {f} = H
                BY <3>2
            <4>2. /\ KInv(R, w, e2, h2 \ {f}, (H \cup {f}) \ {f}) /\ Room(w.pm, r)
                  /\ w.mem = x.k.mem /\ w.cleanupFailed = x.k.cleanupFailed
                BY <3>2, <4>1, ReleaseIs
            <4>3. QED
                BY <4>1, <4>2
        <3> HIDE DEF w, z
        <3>4. z.k = w /\ z.ok = FALSE /\ z = [k |-> w, ok |-> FALSE]
            BY <2>9, <2>14, <3>1
        <3>5. Kept(kk, en, w, e2, H, {n0})
            BY <2>11, <3>3 DEF Kept
        <3>6. NewOutcome(R, kk, en, H, s, c, d, fl, r, z)
            BY <2>10, <2>14, <3>3, <3>4, <3>5 DEF NewOutcome
        <3>7. QED
            BY <3>6 DEF z
    <2>15. QED
        BY <2>13, <2>14
<1>7. QED
    <2>1. \/ z = [k |-> kk, ok |-> FALSE]
          \/ z = [k |-> y.k, ok |-> FALSE] /\ y.frame = NoFrame
          \/ y.frame # NoFrame /\ z = KeepFrame(MapPage(y.k, v, y.frame, fl, owner), y.frame)
        BY DEF MapNewPage, MapFrame, y
    <2>2. QED
        BY <1>4, <1>5, <1>6, <2>1

-----------------------------------------------------------------------------
(* Pages that are unmapped.                                                *)

\* forget_mapping for a page that is not mapped any more.
LEMMA ForgetIs ==
    ASSUME NEW R, NEW kk \in KernelMemory(R), NEW en, Recorded(kk, en), NEW en2,
           NEW s \in Half, NEW c \in Half, NEW d \in Index,
           \A n \in Node : ~ IsTable(n) /\ n # N0(s, c, d) => en2[n] = en[n],
           en2[N0(s, c, d)] = NoEntry
    PROVE  LET kk2 == ForgetMapping(kk, Virt(s, c, d)) IN
           /\ kk2 \in KernelMemory(R) /\ Recorded(kk2, en2)
           /\ kk2.pm = kk.pm /\ kk2.mem = kk.mem /\ kk2.cleanupFailed = kk.cleanupFailed
<1> DEFINE v == Virt(s, c, d)
           rest == {x \in kk.records : x.virt # v}
           kk2 == ForgetMapping(kk, v)
           n0 == N0(s, c, d)
<1>1. kk2 = [kk EXCEPT !.records = rest]
    BY DEF ForgetMapping
<1>2. rest \in SUBSET Record /\ rest \subseteq kk.records
    BY DEF KernelMemory
<1>3. \A t, e \in Half, g \in Index : /\ N0(t, e, g) \in Node /\ ~ IsTable(N0(t, e, g))
                                      /\ N0(t, e, g) = n0 => t = s /\ e = c /\ g = d
    BY NodeMembers, NodeTree, NodesDiffer
<1>4. ~ en2[n0].present
    BY DEF NoEntry
<1> HIDE DEF kk2
<1>5. ASSUME NEW x \in rest
      PROVE  \E t, e \in Half, g \in Index : RecordTrue(en2, x, t, e, g)
    <2>1. PICK t \in Half, e \in Half, g \in Index : RecordTrue(en, x, t, e, g)
        BY <1>2 DEF Recorded
    <2>2. x.virt = Virt(t, e, g) /\ x.virt # v
        BY <2>1 DEF RecordTrue
    <2>3. N0(t, e, g) # n0
        BY <1>3, <2>2
    <2>4. en2[N0(t, e, g)] = en[N0(t, e, g)]
        BY <1>3, <2>3
    <2>5. QED
        BY <2>1, <2>4 DEF RecordTrue
<1>6. ASSUME ~ kk.overflowed, NEW t \in Half, NEW e \in Half, NEW g \in Index,
             en2[N0(t, e, g)].present
      PROVE  \E x \in rest : x.virt = Virt(t, e, g)
    <2>1. N0(t, e, g) # n0
        BY <1>4, <1>6
    <2>2. en[N0(t, e, g)].present
        BY <1>3, <1>6, <2>1
    <2>3. PICK x \in kk.records : x.virt = Virt(t, e, g)
        BY <1>6, <2>2 DEF Recorded
    <2>4. Virt(t, e, g) # v
        BY <2>1, VirtIs
    <2>5. x \in rest
        BY <2>3, <2>4
    <2>6. QED
        BY <2>3, <2>5
<1>7. ~ en2[N0(1, 0, 0)].present /\ ~ en2[N0(1, 0, 3)].present
    <2>1. 0 \in Half /\ 1 \in Half /\ 0 \in Index /\ 3 \in Index
        BY DEF Half, Index
    <2>2. QED
        BY <1>3, <1>4, <2>1 DEF Recorded
<1> HIDE DEF rest
<1>8. /\ kk2 \in KernelMemory(R) /\ kk2.records = rest /\ kk2.overflowed = kk.overflowed
      /\ kk2.pm = kk.pm /\ kk2.mem = kk.mem /\ kk2.cleanupFailed = kk.cleanupFailed
    BY <1>1, <1>2 DEF KernelMemory
<1>9. Recorded(kk2, en2)
    BY <1>5, <1>6, <1>7, <1>8 DEF Recorded
<1>10. QED
    BY <1>8, <1>9 DEF kk2

\* unmap_page_inner for a page that is not mapped.
LEMMA UnmapNothing ==
    ASSUME NEW R, Machine(R), NEW kk, NEW en, NEW h, NEW H, KInv(R, kk, en, h, H),
           NEW s \in Half, NEW c \in Half, NEW d \in Index, ~ en[N0(s, c, d)].present
    PROVE  DropPage(kk, Virt(s, c, d)) = kk
<1> DEFINE v == Virt(s, c, d)
<1>1. KTree(R, kk.mem, en)
    BY DEF KInv
<1>2. Translate(kk.mem, BootP4, v) = Unmapped
    BY <1>1, KernelView DEF PageView
<1>3. ~ Translate(kk.mem, BootP4, v).mapped
    BY <1>2 DEF Unmapped
<1> HIDE DEF v
<1>4. UnmapPage(kk, v) = [k |-> kk, frame |-> NoFrame]
    BY <1>3 DEF UnmapPage
<1>5. DropPage(kk, v) = kk
    BY <1>4 DEF DropPage
<1>6. QED
    BY <1>5 DEF v

\* What unmap_page_inner leaves of a mapped page: its frame is held by the
\* caller.
Unmaps(R, kk, en, h, H, s, c, d, u) ==
    LET n0 == N0(s, c, d)
        f == en[n0].frame
        en2 == [en EXCEPT ![n0] = NoEntry]
    IN /\ u.frame = f /\ f \notin H
       /\ KInv(R, u.k, en2, h, H \cup {f})
       /\ u.k.pm = kk.pm
       /\ Kept(kk, en, u.k, en2, H, {n0})

LEMMA UnmapIs ==
    ASSUME NEW R, Machine(R), NEW kk, NEW en, NEW h, NEW H, KInv(R, kk, en, h, H),
           NEW s \in Half, NEW c \in Half, NEW d \in Index, en[N0(s, c, d)].present,
           en[N0(s, c, d)].frame \in FramesOf(R)
    PROVE  Unmaps(R, kk, en, h, H, s, c, d, UnmapPage(kk, Virt(s, c, d)))
<1> DEFINE v == Virt(s, c, d)
           n0 == N0(s, c, d)
           n1 == N1(s, c)
           f == en[n0].frame
           p1 == en[n1].frame
           kk1 == [kk EXCEPT !.mem[p1][d] = NoEntry]
           kk2 == ForgetMapping(kk1, v)
           en2 == [en EXCEPT ![n0] = NoEntry]
           u == UnmapPage(kk, v)
<1>1. /\ kk \in KernelMemory(R) /\ KTree(R, kk.mem, en) /\ Good(R, kk.pm, h)
      /\ Owners(R, kk, en, h, H) /\ Recorded(kk, en) /\ kk.mem \in Memory(R)
    BY DEF KInv, KernelMemory
<1>2. /\ N3(s) \in Inner /\ N2(s) \in Inner /\ n1 \in Inner /\ n0 \in Inner
      /\ Parent(N3(s)) = Root /\ Parent(N2(s)) = N3(s) /\ Parent(n1) = N2(s) /\ Parent(n0) = n1
      /\ Slot(N3(s)) = v[1] /\ Slot(N2(s)) = v[2] /\ Slot(n1) = v[3] /\ Slot(n0) = d /\ v[4] = d
      /\ ~ IsTable(n0) /\ n0 \in Node /\ n1 \in Node
    BY NodeMembers, NodeTree, VirtIs
<1>3. /\ en[n1].present /\ en[N2(s)].present /\ en[N3(s)].present
      /\ kk.mem[en[N2(s)].frame][v[3]] = en[n1]
      /\ kk.mem[en[N3(s)].frame][v[2]] = en[N2(s)]
    BY <1>1, <1>2, ParentPresent
<1>4. kk.mem[BootP4][v[1]] = en[N3(s)]
    <2>1. en[Root].frame = BootP4
        BY <1>1 DEF KTree, TableEntry, PageEntry
    <2>2. QED
        BY <1>1, <1>2, <1>3, <2>1, ParentPresent
<1>5. /\ Translate(kk.mem, BootP4, v).mapped /\ ~ Translate(kk.mem, BootP4, v).huge
      /\ Translate(kk.mem, BootP4, v).phys = f
    <2>1. Translate(kk.mem, BootP4, v) = PageView(en[n0])
        BY <1>1, KernelView
    <2>2. QED
        BY <2>1 DEF PageView
<1>6. InManagedRange(v) \/ InUserRange(v)
    BY VirtIs DEF Half
<1>7. u = [k |-> kk2, frame |-> f]
    <2>1. kk.mem[kk.mem[kk.mem[BootP4][v[1]].frame][v[2]].frame][v[3]].frame = p1
        BY <1>3, <1>4
    <2>2. v[4] = d
        BY <1>2
    <2> HIDE DEF v, p1, f
    <2>3. QED
        BY <1>5, <1>6, <2>1, <2>2, Zenon DEF UnmapPage
<1>8. p1 \in ImageFrames \cup FramesOf(R)
    BY <1>1, <1>2, <1>3, TreeFrames
<1>9. SetsNode(R, kk.mem, en, n0, NoEntry)
    BY <1>2, <1>3, ZeroTableType DEF SetsNode, EntryOf, NoEntry
<1>10. KTree(R, [kk.mem EXCEPT ![p1][d] = NoEntry], en2)
    BY <1>1, <1>2, <1>9, TreeSet
<1>11. /\ kk1 \in KernelMemory(R) /\ kk1.mem = [kk.mem EXCEPT ![p1][d] = NoEntry]
       /\ kk1.pm = kk.pm /\ kk1.records = kk.records /\ kk1.overflowed = kk.overflowed
       /\ kk1.cleanupFailed = kk.cleanupFailed
    BY <1>1, <1>8, ZeroTableType, MemSet
<1>12. en2[n0] = NoEntry /\ \A m \in Node : m # n0 => en2[m] = en[m]
    BY <1>1, <1>2 DEF KTree
<1>13. \A m \in Node : en[m].present /\ en[m].frame = f => m = n0
    BY <1>1, <1>2 DEF KTree
<1>14. \A g \in H : kk1.mem[g] = kk.mem[g]
    <2>1. H \subseteq FramesOf(R) /\ H \cap KernelFrames(R, en) = {}
        BY <1>1 DEF Owners, Good
    <2>2. p1 \notin H
        BY <1>2, <1>3, <2>1 DEF KernelFrames
    <2>3. kk.mem \in [ImageFrames \cup FramesOf(R) -> [Index -> Entry]]
        BY <1>1 DEF Memory, Table
    <2> HIDE DEF p1
    <2>4. QED
        BY <1>11, <2>1, <2>2, <2>3
<1>15. f \in KernelFrames(R, en)
    BY <1>2 DEF KernelFrames
<1> HIDE DEF kk1, en2, p1, f
<1>16. KernelFrames(R, en2) = KernelFrames(R, en) \ {f}
    <2>1. ~ en2[n0].present
        BY <1>12 DEF NoEntry
    <2>2. ASSUME NEW m \in Node
          PROVE  en2[m].present <=> (en[m].present /\ m # n0)
        BY <1>12, <2>1
    <2>3. \A m \in Node : en2[m].present => en2[m].frame = en[m].frame
        BY <1>12, <2>2
    <2>4. en[n0].frame = f
        BY DEF f
    <2>5. QED
        BY <1>2, <1>13, <2>2, <2>3, <2>4 DEF KernelFrames
<1>17. Recorded(kk1, en)
    BY <1>1, <1>11, RecordedKept
<1>18. /\ kk2 \in KernelMemory(R) /\ Recorded(kk2, en2)
       /\ kk2.pm = kk1.pm /\ kk2.mem = kk1.mem /\ kk2.cleanupFailed = kk1.cleanupFailed
    <2>1. \A n \in Node : ~ IsTable(n) /\ n # n0 => en2[n] = en[n]
        BY <1>12
    <2>2. QED
        BY <1>11, <1>12, <1>17, <2>1, ForgetIs
<1> HIDE DEF kk2
<1>19. Owners(R, kk2, en2, h, H \cup {f}) /\ f \notin H
    <2>1. kk2.cleanupFailed = kk.cleanupFailed
        BY <1>11, <1>18
    <2>2. QED
        BY <1>1, <1>15, <1>16, <2>1 DEF Owners
<1>20. KInv(R, kk2, en2, h, H \cup {f})
    <2>1. KTree(R, kk2.mem, en2) /\ Good(R, kk2.pm, h)
        BY <1>1, <1>10, <1>11, <1>18
    <2>2. QED
        BY <1>18, <1>19, <2>1 DEF KInv
<1>21. Kept(kk, en, kk2, en2, H, {n0})
    BY <1>2, <1>11, <1>12, <1>14, <1>18, NodeMembers DEF Kept
<1>22. u.k = kk2 /\ u.frame = f
    BY <1>7
<1> HIDE DEF u
<1>23. Unmaps(R, kk, en, h, H, s, c, d, u)
    BY <1>11, <1>18, <1>19, <1>20, <1>21, <1>22 DEF Unmaps, en2, f
<1>24. QED
    BY <1>23 DEF u

\* What dropping a page leaves.
Dropped(R, kk, en, H, s, c, d, r, z) ==
    \E en2, h2 :
        /\ KInv(R, z, en2, h2, H)
        /\ Room(z.pm, r)
        /\ Kept(kk, en, z, en2, H, {N0(s, c, d)})
        /\ ~ en2[N0(s, c, d)].present

LEMMA DropPageIs ==
    ASSUME NEW R, Machine(R), NEW kk, NEW en, NEW h, NEW H, KInv(R, kk, en, h, H),
           NEW s \in Half, NEW c \in Half, NEW d \in Index,
           en[N0(s, c, d)].present => en[N0(s, c, d)].frame \in FramesOf(R),
           NEW r \in Nat, Room(kk.pm, r + 1)
    PROVE  Dropped(R, kk, en, H, s, c, d, r, DropPage(kk, Virt(s, c, d)))
<1> DEFINE v == Virt(s, c, d)
           n0 == N0(s, c, d)
           z == DropPage(kk, v)
           u == UnmapPage(kk, v)
<1>1. CASE ~ en[n0].present
    <2>1. z = kk
        BY <1>1, UnmapNothing
    <2>2. Room(kk.pm, r)
        <3>1. Len(kk.pm.recycled) \in Nat
            BY GoodTypes DEF KInv, Machine
        <3>2. QED
            BY <3>1, RoomLess
    <2>3. Kept(kk, en, kk, en, H, {n0})
        BY DEF Kept
    <2> HIDE DEF z
    <2>4. Dropped(R, kk, en, H, s, c, d, r, z)
        BY <1>1, <2>1, <2>2, <2>3 DEF Dropped
    <2>5. QED
        BY <2>4 DEF z
<1>2. CASE en[n0].present
    <2> DEFINE f == en[n0].frame
               en2 == [en EXCEPT ![n0] = NoEntry]
               w == Release(u.k, f)
    <2>1. f \in FramesOf(R) /\ n0 \in Node /\ en \in [Node -> Entry]
        BY <1>2, NodeMembers DEF KInv, KTree
    <2>2. Unmaps(R, kk, en, h, H, s, c, d, u)
        BY <1>2, <2>1, UnmapIs
    <2> HIDE DEF u
    <2>3. /\ u.frame = f /\ f \notin H
          /\ KInv(R, u.k, en2, h, H \cup {f})
          /\ u.k.pm = kk.pm
          /\ Kept(kk, en, u.k, en2, H, {n0})
        BY <2>2 DEF Unmaps
    <2>4. ~ en2[n0].present
        BY <2>1 DEF NoEntry
    <2>5. f # NoFrame
        BY <2>1, FrameFacts DEF Machine
    <2>6. z = w
        BY <2>3, <2>5 DEF DropPage, u
    <2> HIDE DEF en2, f
    <2>7. /\ f \in H \cup {f} /\ (H \cup {f}) \ {f} = H /\ Room(u.k.pm, r + 1)
          /\ KInv(R, u.k, en2, h, H \cup {f})
        BY <2>3
    <2>8. /\ KInv(R, w, en2, h \ {f}, (H \cup {f}) \ {f}) /\ Room(w.pm, r)
          /\ w.mem = u.k.mem /\ w.cleanupFailed = u.k.cleanupFailed
        BY <2>7, ReleaseIs
    <2> HIDE DEF w, z
    <2>9. Kept(kk, en, w, en2, H, {n0})
        BY <2>3, <2>8 DEF Kept
    <2>10. Dropped(R, kk, en, H, s, c, d, r, z)
        BY <2>4, <2>6, <2>7, <2>8, <2>9 DEF Dropped
    <2>11. QED
        BY <2>10 DEF z
<1>3. QED
    BY <1>1, <1>2

LEMMA SmallNumbers == 0 \in Half /\ 1 \in Half /\ {0, 1, 2, 3} \subseteq Index
BY DEF Half, Index

LEMMA RoomFacts == MaxRecycled \in Nat /\ 0 + 1 < MaxRecycled /\ 2 < MaxRecycled
BY MaxRecycledAssumption, RecycledAssumption

\* What probe_map_unmap leaves of the kernel's tables: more tables at most.
LEMMA ProbeIs ==
    ASSUME NEW R, Machine(R), NEW kk, NEW en, NEW h, NEW H, KInv(R, kk, en, h, H),
           Room(kk.pm, 0)
    PROVE  \E en2, h2 : /\ KInv(R, ProbeMapUnmap(kk, VmTestPage), en2, h2, H)
                        /\ Room(ProbeMapUnmap(kk, VmTestPage).pm, 0)
                        /\ Kept(kk, en, ProbeMapUnmap(kk, VmTestPage), en2, H, {N0(1, 1, 0)})
<1> DEFINE v == Virt(1, 1, 0)
           n0 == N0(1, 1, 0)
           m == MapNewPage(kk, v, KernelFlags, "Test")
           z == ProbeMapUnmap(kk, v)
<1>1. v = VmTestPage
    BY DEF Virt, VmTestPage
<1>2. 1 \in Half /\ 0 \in Index
    BY SmallNumbers
<1>3. PageKind(1, KernelFlags, "Test")
    BY DEF PageKind, KernelFlags, PageFlags
<1>4. NewOutcome(R, kk, en, H, 1, 1, 0, KernelFlags, 0, m)
    BY <1>2, <1>3, RoomFacts, MapNewPageIs
<1> HIDE DEF m
<1>5. PICK e2, h2 :
          /\ KInv(R, m.k, e2, h2, H)
          /\ Kept(kk, en, m.k, e2, H, {n0})
          /\ IF m.ok
             THEN /\ Room(m.k.pm, 0 + 1)
                  /\ \E phys \in FramesOf(R) : e2[n0] = PageEntry(phys, KernelFlags)
             ELSE Room(m.k.pm, 0) /\ e2[n0] = en[n0]
    BY <1>4 DEF NewOutcome
<1>6. CASE ~ m.ok
    <2>1. z = m.k
        BY <1>6 DEF ProbeMapUnmap, m
    <2>2. QED
        BY <1>1, <1>5, <1>6, <2>1
<1>7. CASE m.ok
    <2>1. z = DropPage(m.k, v)
        BY <1>7 DEF ProbeMapUnmap, m
    <2>2. e2[n0].frame \in FramesOf(R)
        <3>1. PICK phys \in FramesOf(R) : e2[n0] = PageEntry(phys, KernelFlags)
            BY <1>5, <1>7
        <3>2. QED
            BY <3>1 DEF PageEntry
    <2>3. Room(m.k.pm, 0 + 1)
        BY <1>5, <1>7
    <2>4. Dropped(R, m.k, e2, H, 1, 1, 0, 0, z)
        BY <1>2, <1>5, <2>1, <2>2, <2>3, DropPageIs
    <2> HIDE DEF z
    <2>5. PICK e3, h3 : /\ KInv(R, z, e3, h3, H) /\ Room(z.pm, 0)
                        /\ Kept(m.k, e2, z, e3, H, {n0})
        BY <2>4 DEF Dropped
    <2>6. Kept(kk, en, z, e3, H, {n0} \cup {n0})
        BY <1>5, <2>5, KeptTrans
    <2>7. {n0} \cup {n0} = {n0}
        OBVIOUS
    <2>8. Kept(kk, en, z, e3, H, {n0})
        BY <2>6, <2>7
    <2>9. \E en2, h4 : /\ KInv(R, z, en2, h4, H) /\ Room(z.pm, 0)
                       /\ Kept(kk, en, z, en2, H, {n0})
        BY <2>5, <2>8
    <2>10. QED
        BY <1>1, <2>9 DEF z
<1>8. QED
    BY <1>6, <1>7

-----------------------------------------------------------------------------
(* The loops.                                                              *)

\* The bodies of the loops.
Body(loop, x, y) ==
    CASE loop = "heap" -> MapHeapPage(x, y)
      [] loop = "load" -> LoadPage(x, y)
      [] loop = "drop" -> DropPage(x, y)
      [] loop = "user" -> AddUserPage(x, y)
      [] loop = "free" -> FreeFrame(x, y)
      [] loop = "pages" -> x \o PagesOf(y)

\* g[i] is the state after i turns.
Turns(loop, start, s, g) ==
    /\ g[0] = start
    /\ \A i \in 1 .. Len(s) : g[i] = Body(loop, g[i - 1], s[i])

\* The function that Loop defines, for m turns.
LoopFunction(loop, start, s, m, g) ==
    g = [i \in 0 .. m |-> IF i = 0 THEN start ELSE Body(loop, g[i - 1], s[i])]

LEMMA LoopExists ==
    ASSUME NEW loop, NEW start, NEW s, Len(s) \in Nat
    PROVE  \E g : LoopFunction(loop, start, s, Len(s), g)
<1> DEFINE n == Len(s)
           S == {m \in 0 .. n : \E g : LoopFunction(loop, start, s, m, g)}
<1>1. 0 \in S
    <2> DEFINE g == [i \in 0 .. 0 |-> start]
    <2>1. g = [i \in 0 .. 0 |-> IF i = 0 THEN start ELSE Body(loop, g[i - 1], s[i])]
        OBVIOUS
    <2> HIDE DEF g
    <2>2. LoopFunction(loop, start, s, 0, g) /\ 0 \in 0 .. n
        BY <2>1 DEF LoopFunction
    <2>3. QED
        BY <2>2
<1>2. ASSUME NEW m \in 0 .. n - 1, m \in S PROVE m + 1 \in S
    <2>1. PICK f : LoopFunction(loop, start, s, m, f)
        BY <1>2
    <2> DEFINE g == [i \in 0 .. m + 1 |-> IF i <= m THEN f[i] ELSE Body(loop, f[m], s[m + 1])]
    <2>2. \A i \in 0 .. m : f[i] = IF i = 0 THEN start ELSE Body(loop, f[i - 1], s[i])
        BY <2>1, Zenon DEF LoopFunction
    <2>3. /\ \A i \in 0 .. m : g[i] = f[i]
          /\ g[m + 1] = Body(loop, f[m], s[m + 1])
          /\ g = [i \in 0 .. m + 1 |-> g[i]]
        OBVIOUS
    <2> HIDE DEF g
    <2>4. ASSUME NEW i \in 0 .. m + 1
          PROVE  g[i] = IF i = 0 THEN start ELSE Body(loop, g[i - 1], s[i])
        <3>1. CASE i = m + 1
            <4>1. i # 0 /\ i - 1 = m /\ m \in 0 .. m
                BY <3>1
            <4>2. g[i - 1] = f[m]
                BY <2>3, <4>1
            <4>3. QED
                BY <2>3, <3>1, <4>1, <4>2
        <3>2. CASE i \in 0 .. m
            <4>1. i # 0 => i - 1 \in 0 .. m
                BY <3>2
            <4>2. QED
                BY <2>2, <2>3, <3>2, <4>1
        <3>3. QED
            BY <3>1, <3>2
    <2>5. LoopFunction(loop, start, s, m + 1, g)
        <3>1. g = [i \in 0 .. m + 1 |-> IF i = 0 THEN start ELSE Body(loop, g[i - 1], s[i])]
            BY <2>3, <2>4, Zenon
        <3>2. QED
            BY <3>1 DEF LoopFunction
    <2>6. m + 1 \in 0 .. n
        OBVIOUS
    <2>7. QED
        BY <2>5, <2>6
<1>3. 0 .. n \subseteq S
    <2> HIDE DEF S
    <2>1. QED
        BY <1>1, <1>2, InductionUpTo
<1>4. n \in S
    BY <1>3
<1>5. QED
    BY <1>4

LEMMA LoopTurns ==
    ASSUME NEW loop, NEW start, NEW s, Len(s) \in Nat, NEW g,
           LoopFunction(loop, start, s, Len(s), g)
    PROVE  Turns(loop, start, s, g)
<1>1. \A i \in 0 .. Len(s) : g[i] = IF i = 0 THEN start ELSE Body(loop, g[i - 1], s[i])
    BY Zenon DEF LoopFunction
<1>2. QED
    BY <1>1 DEF Turns

LEMMA HeapTurns ==
    ASSUME NEW start, NEW s, Len(s) \in Nat
    PROVE  \E g : Turns("heap", start, s, g) /\ Loop(MapHeapPage, start, s) = g[Len(s)]
<1> DEFINE n == Len(s)
           Rec(g) == g = [i \in 0 .. n |-> IF i = 0 THEN start ELSE MapHeapPage(g[i - 1], s[i])]
           g == CHOOSE g : Rec(g)
<1>1. Loop(MapHeapPage, start, s) = g[n]
    BY DEF Loop
<1>2. \A x, y : Body("heap", x, y) = MapHeapPage(x, y)
    BY DEF Body
<1>3. \A f : LoopFunction("heap", start, s, n, f) <=> Rec(f)
    BY <1>2, Zenon DEF LoopFunction
<1>4. \E f : Rec(f)
    BY <1>3, LoopExists
<1> HIDE DEF Rec
<1>5. Rec(g)
    BY <1>4
<1>6. Turns("heap", start, s, g)
    BY <1>3, <1>5, LoopTurns
<1> HIDE DEF g
<1>7. QED
    BY <1>1, <1>6

LEMMA LoadTurns ==
    ASSUME NEW start, NEW s, Len(s) \in Nat
    PROVE  \E g : Turns("load", start, s, g) /\ Loop(LoadPage, start, s) = g[Len(s)]
<1> DEFINE n == Len(s)
           Rec(g) == g = [i \in 0 .. n |-> IF i = 0 THEN start ELSE LoadPage(g[i - 1], s[i])]
           g == CHOOSE g : Rec(g)
<1>1. Loop(LoadPage, start, s) = g[n]
    BY DEF Loop
<1>2. \A x, y : Body("load", x, y) = LoadPage(x, y)
    BY DEF Body
<1>3. \A f : LoopFunction("load", start, s, n, f) <=> Rec(f)
    BY <1>2, Zenon DEF LoopFunction
<1>4. \E f : Rec(f)
    BY <1>3, LoopExists
<1> HIDE DEF Rec
<1>5. Rec(g)
    BY <1>4
<1>6. Turns("load", start, s, g)
    BY <1>3, <1>5, LoopTurns
<1> HIDE DEF g
<1>7. QED
    BY <1>1, <1>6

LEMMA DropTurns ==
    ASSUME NEW start, NEW s, Len(s) \in Nat
    PROVE  \E g : Turns("drop", start, s, g) /\ Loop(DropPage, start, s) = g[Len(s)]
<1> DEFINE n == Len(s)
           Rec(g) == g = [i \in 0 .. n |-> IF i = 0 THEN start ELSE DropPage(g[i - 1], s[i])]
           g == CHOOSE g : Rec(g)
<1>1. Loop(DropPage, start, s) = g[n]
    BY DEF Loop
<1>2. \A x, y : Body("drop", x, y) = DropPage(x, y)
    BY DEF Body
<1>3. \A f : LoopFunction("drop", start, s, n, f) <=> Rec(f)
    BY <1>2, Zenon DEF LoopFunction
<1>4. \E f : Rec(f)
    BY <1>3, LoopExists
<1> HIDE DEF Rec
<1>5. Rec(g)
    BY <1>4
<1>6. Turns("drop", start, s, g)
    BY <1>3, <1>5, LoopTurns
<1> HIDE DEF g
<1>7. QED
    BY <1>1, <1>6

LEMMA UserTurns ==
    ASSUME NEW start, NEW s, Len(s) \in Nat
    PROVE  \E g : Turns("user", start, s, g) /\ Loop(AddUserPage, start, s) = g[Len(s)]
<1> DEFINE n == Len(s)
           Rec(g) == g = [i \in 0 .. n |-> IF i = 0 THEN start ELSE AddUserPage(g[i - 1], s[i])]
           g == CHOOSE g : Rec(g)
<1>1. Loop(AddUserPage, start, s) = g[n]
    BY DEF Loop
<1>2. \A x, y : Body("user", x, y) = AddUserPage(x, y)
    BY DEF Body
<1>3. \A f : LoopFunction("user", start, s, n, f) <=> Rec(f)
    BY <1>2, Zenon DEF LoopFunction
<1>4. \E f : Rec(f)
    BY <1>3, LoopExists
<1> HIDE DEF Rec
<1>5. Rec(g)
    BY <1>4
<1>6. Turns("user", start, s, g)
    BY <1>3, <1>5, LoopTurns
<1> HIDE DEF g
<1>7. QED
    BY <1>1, <1>6

LEMMA FreeTurns ==
    ASSUME NEW start, NEW s, Len(s) \in Nat
    PROVE  \E g : Turns("free", start, s, g) /\ Loop(FreeFrame, start, s) = g[Len(s)]
<1> DEFINE n == Len(s)
           Rec(g) == g = [i \in 0 .. n |-> IF i = 0 THEN start ELSE FreeFrame(g[i - 1], s[i])]
           g == CHOOSE g : Rec(g)
<1>1. Loop(FreeFrame, start, s) = g[n]
    BY DEF Loop
<1>2. \A x, y : Body("free", x, y) = FreeFrame(x, y)
    BY DEF Body
<1>3. \A f : LoopFunction("free", start, s, n, f) <=> Rec(f)
    BY <1>2, Zenon DEF LoopFunction
<1>4. \E f : Rec(f)
    BY <1>3, LoopExists
<1> HIDE DEF Rec
<1>5. Rec(g)
    BY <1>4
<1>6. Turns("free", start, s, g)
    BY <1>3, <1>5, LoopTurns
<1> HIDE DEF g
<1>7. QED
    BY <1>1, <1>6

-----------------------------------------------------------------------------
(* heap::init and user::init.                                              *)

LEMMA KInvRoom ==
    ASSUME NEW R, Machine(R), NEW kk, NEW en, NEW h, NEW H, KInv(R, kk, en, h, H),
           NEW r \in Nat, Room(kk.pm, r + 1)
    PROVE  Room(kk.pm, r)
<1>1. Len(kk.pm.recycled) \in Nat
    BY GoodTypes DEF KInv, Machine
<1>2. QED
    BY <1>1, RoomLess

\* A page is mapped under present tables.
LEMMA PageTablesPresent ==
    ASSUME NEW R, NEW mem, NEW en, KTree(R, mem, en),
           NEW s \in Half, NEW c \in Half, NEW d \in Index, en[N0(s, c, d)].present
    PROVE  en[N3(s)].present /\ en[N2(s)].present /\ en[N1(s, c)].present
<1>1. /\ N2(s) \in Inner /\ N1(s, c) \in Inner /\ N0(s, c, d) \in Inner
      /\ Parent(N2(s)) = N3(s) /\ Parent(N1(s, c)) = N2(s) /\ Parent(N0(s, c, d)) = N1(s, c)
    BY NodeMembers, NodeTree
<1>2. QED
    BY <1>1, ParentPresent

HeapNodes == {N0(1, 0, 1), N0(1, 0, 2)}

\* The state x of the loop of heap::init, which has mapped a page when b.
HeapState(R, kk, en, H, b, x) ==
    /\ x.ok \in BOOLEAN
    /\ \E en2, h2 : /\ KInv(R, x.k, en2, h2, H) /\ Room(x.k.pm, 0)
                    /\ Kept(kk, en, x.k, en2, H, HeapNodes)
                    /\ b /\ x.ok => en2[N3(1)].present

LEMMA HeapTurn ==
    ASSUME NEW R, Machine(R), NEW kk, NEW en, NEW H, NEW b, NEW x, HeapState(R, kk, en, H, b, x),
           NEW d \in {1, 2}
    PROVE  HeapState(R, kk, en, H, TRUE, MapHeapPage(x, Virt(1, 0, d)))
<1> DEFINE z == MapHeapPage(x, Virt(1, 0, d))
           n0 == N0(1, 0, d)
<1>1. PICK e1, h1 : /\ KInv(R, x.k, e1, h1, H) /\ Room(x.k.pm, 0)
                    /\ Kept(kk, en, x.k, e1, H, HeapNodes)
    BY DEF HeapState
<1>2. CASE ~ x.ok
    <2>1. z = x
        BY <1>2 DEF MapHeapPage
    <2> HIDE DEF z
    <2>2. HeapState(R, kk, en, H, TRUE, z)
        BY <1>2, <2>1 DEF HeapState
    <2>3. QED
        BY <2>2 DEF z
<1>3. CASE x.ok
    <2>1. z = MapNewPage(x.k, Virt(1, 0, d), KernelFlags, "Heap")
        BY <1>3 DEF MapHeapPage
    <2>2. 0 \in Half /\ 1 \in Half /\ d \in Index
        BY SmallNumbers
    <2>3. PageKind(1, KernelFlags, "Heap")
        BY DEF PageKind, KernelFlags, PageFlags
    <2>4. NewOutcome(R, x.k, e1, H, 1, 0, d, KernelFlags, 0, z)
        BY <1>1, <2>1, <2>2, <2>3, RoomFacts, MapNewPageIs
    <2> HIDE DEF z
    <2>5. PICK e2, h2 :
              /\ KInv(R, z.k, e2, h2, H)
              /\ Kept(x.k, e1, z.k, e2, H, {n0})
              /\ IF z.ok
                 THEN /\ Room(z.k.pm, 0 + 1)
                      /\ \E phys \in FramesOf(R) : e2[n0] = PageEntry(phys, KernelFlags)
                 ELSE Room(z.k.pm, 0) /\ e2[n0] = e1[n0]
        BY <2>4 DEF NewOutcome
    <2>6. z.ok \in BOOLEAN
        BY <2>4 DEF NewOutcome
    <2>7. Room(z.k.pm, 0)
        BY <2>5, KInvRoom
    <2>8. z.ok => e2[N3(1)].present
        <3>1. HAVE z.ok
        <3>2. PICK phys \in FramesOf(R) : e2[n0] = PageEntry(phys, KernelFlags)
            BY <2>5, <3>1
        <3>3. e2[n0].present
            BY <3>2 DEF PageEntry
        <3>4. KTree(R, z.k.mem, e2)
            BY <2>5 DEF KInv
        <3>5. QED
            BY <2>2, <3>3, <3>4, PageTablesPresent
    <2>9. Kept(kk, en, z.k, e2, H, HeapNodes)
        <3>1. Kept(kk, en, z.k, e2, H, HeapNodes \cup {n0})
            BY <1>1, <2>5, KeptTrans
        <3>2. HeapNodes \cup {n0} = HeapNodes
            BY DEF HeapNodes
        <3>3. QED
            BY <3>1, <3>2
    <2>10. HeapState(R, kk, en, H, TRUE, z)
        BY <2>5, <2>6, <2>7, <2>8, <2>9 DEF HeapState
    <2>11. QED
        BY <2>10 DEF z
<1>4. QED
    BY <1>2, <1>3 DEF HeapState

LEMMA HeapIs ==
    ASSUME NEW R, Machine(R), NEW kk, NEW en, NEW h, NEW H, KInv(R, kk, en, h, H),
           Room(kk.pm, 0)
    PROVE  HeapState(R, kk, en, H, TRUE, Loop(MapHeapPage, [k |-> kk, ok |-> TRUE], HeapPages))
<1> DEFINE start == [k |-> kk, ok |-> TRUE]
<1>1. /\ Len(HeapPages) = 2 /\ HeapPages[1] = Virt(1, 0, 1) /\ HeapPages[2] = Virt(1, 0, 2)
    BY DEF HeapPages, Virt
<1>2. PICK g : /\ Turns("heap", start, HeapPages, g)
               /\ Loop(MapHeapPage, start, HeapPages) = g[Len(HeapPages)]
    <2>1. Len(HeapPages) \in Nat
        BY <1>1
    <2> HIDE DEF start
    <2>2. QED
        BY <2>1, HeapTurns, Zenon
<1>3. g[0] = start /\ g[1] = MapHeapPage(g[0], Virt(1, 0, 1))
      /\ g[2] = MapHeapPage(g[1], Virt(1, 0, 2))
    <2>1. \A i \in 1 .. 2 : g[i] = Body("heap", g[i - 1], HeapPages[i])
        BY <1>1, <1>2 DEF Turns
    <2>2. g[1] = Body("heap", g[0], HeapPages[1]) /\ g[2] = Body("heap", g[1], HeapPages[2])
        BY <2>1
    <2>3. QED
        BY <1>1, <1>2, <2>2 DEF Turns, Body
<1>4. HeapState(R, kk, en, H, FALSE, g[0])
    <2>1. g[0].k = kk /\ g[0].ok = TRUE
        BY <1>3
    <2>2. Kept(kk, en, kk, en, H, HeapNodes)
        BY DEF Kept
    <2>3. QED
        BY <2>1, <2>2 DEF HeapState
<1> HIDE DEF start
<1>5. HeapState(R, kk, en, H, TRUE, g[1])
    BY <1>3, <1>4, HeapTurn
<1>6. HeapState(R, kk, en, H, TRUE, g[2])
    BY <1>3, <1>5, HeapTurn
<1>7. QED
    BY <1>1, <1>2, <1>6, Zenon DEF start

\* The pages of the probe program, with their frames.
ProbeNodes == {N0(0, 0, 0), N0(0, 0, 1)}

\* No page of the user range is mapped but the ones of P.
UserPagesIn(en, P) == \A c \in Half, d \in Index : en[N0(0, c, d)].present => N0(0, c, d) \in P

\* A frame of the image that no page of the kernel's tables has.
LEMMA ProbeFrameFree ==
    ASSUME NEW R, Machine(R), NEW mem, NEW en, KTree(R, mem, en), NEW P, UserPagesIn(en, P),
           NEW f \in ImageFrames, \A n \in P : en[n].present => en[n].frame # f,
           NEW m \in Node, ~ IsTable(m), en[m].present
    PROVE  en[m].frame # f
<1>1. PICK s \in Half, c \in Half, d \in Index : m = N0(s, c, d)
    BY NodeCases, NodeMembers, NodeTree
<1>2. CASE s = 0
    BY <1>1, <1>2 DEF UserPagesIn
<1>3. CASE s = 1
    <2>1. m \in Inner /\ HalfOf(m) = 1 /\ en[m] # NoEntry /\ m # Root /\ m # N3(0)
        BY <1>1, <1>3, NodeMembers, NodeTree DEF NoEntry, Half
    <2>2. FrameOk(R, m, en[m])
        BY <2>1 DEF KTree, EntryOf
    <2>3. en[m].frame \in FramesOf(R)
        BY <2>1, <2>2 DEF FrameOk
    <2>4. QED
        BY <2>3 DEF Machine
<1>4. QED
    BY <1>2, <1>3 DEF Half

LEMMA UserPagesKept ==
    ASSUME NEW kk, NEW en, NEW kk2, NEW en2, NEW H, NEW P, NEW Q,
           Kept(kk, en, kk2, en2, H, Q), UserPagesIn(en, P)
    PROVE  UserPagesIn(en2, P \cup Q)
<1>1. \A c \in Half, d \in Index : N0(0, c, d) \in Node /\ ~ IsTable(N0(0, c, d))
    BY SmallNumbers, NodeMembers, NodeTree
<1>2. QED
    BY <1>1 DEF Kept, UserPagesIn

LEMMA PermissionFlags ==
    ASSUME NEW p \in [writable : BOOLEAN, executable : BOOLEAN]
    PROVE  Flags(p) \in PageFlags /\ Flags(p).user /\ PageKind(0, Flags(p), "User")
BY DEF Flags, PageFlags, PageKind

\* What map_probe_page leaves.
ProbePage(R, kk, en, H, d, phys, p, z) ==
    \E en2, h2 : /\ KInv(R, z.k, en2, h2, H) /\ Room(z.k.pm, 0)
                 /\ Kept(kk, en, z.k, en2, H, {N0(0, 0, d)})
                 /\ en2[N0(0, 0, d)] \in {en[N0(0, 0, d)], PageEntry(phys, Flags(p))}

\* The frame is one of the image.
LEMMA ProbePageIs ==
    ASSUME NEW R, Machine(R), NEW kk, NEW en, NEW h, NEW H, KInv(R, kk, en, h, H),
           Room(kk.pm, 0), NEW d \in {0, 1}, NEW phys \in {ProbeCodeFrame, ProbeStackFrame},
           NEW p \in [writable : BOOLEAN, executable : BOOLEAN],
           \A m \in Node : ~ IsTable(m) /\ en[m].present => en[m].frame # phys
    PROVE  ProbePage(R, kk, en, H, d, phys, p, MapProbePage(kk, Virt(0, 0, d), phys, p))
<1> DEFINE v == Virt(0, 0, d)
           n0 == N0(0, 0, d)
           x == MapPage(kk, v, phys, Flags(p), "User")
           z == MapProbePage(kk, v, phys, p)
<1>1. phys \in ImageFrames /\ phys \notin FramesOf(R)
    BY DEF ProbeCodeFrame, ProbeStackFrame, ImageFrames, Machine
<1>2. H \cup ({phys} \cap FramesOf(R)) = H /\ phys \notin H
    BY <1>1 DEF KInv, Owners, Good
<1>3. KInv(R, kk, en, h, H \cup ({phys} \cap FramesOf(R)))
    BY <1>2
<1>4. 0 \in Half /\ d \in Index /\ 0 \in Nat /\ 0 < MaxRecycled
    BY SmallNumbers, RoomFacts
<1>5. MayMap(R, en, H, phys, 0, Flags(p), "User")
    BY <1>2, PermissionFlags DEF MayMap
<1>6. MapOutcome(R, kk, en, H, phys, 0, 0, d, Flags(p), 0, x)
    BY <1>3, <1>4, <1>5, MapPageIs
<1> HIDE DEF x
<1>7. PICK e2, h2 :
          /\ Room(x.k.pm, 0)
          /\ Kept(kk, en, x.k, e2, H, {n0})
          /\ IF x.ok
             THEN /\ KInv(R, x.k, e2, h2, H)
                  /\ ~ en[n0].present
                  /\ e2[n0] = PageEntry(phys, Flags(p))
             ELSE /\ KInv(R, x.k, e2, h2, H \cup ({phys} \cap FramesOf(R)))
                  /\ e2[n0] = en[n0]
    BY <1>6 DEF MapOutcome
<1>8. x = [k |-> x.k, ok |-> x.ok]
    BY <1>6 DEF MapOutcome
<1>9. z.k = x.k
    BY <1>8 DEF MapProbePage, x
<1>10. /\ KInv(R, x.k, e2, h2, H)
       /\ e2[n0] \in {en[n0], PageEntry(phys, Flags(p))}
    BY <1>2, <1>7
<1> HIDE DEF z
<1>11. /\ KInv(R, z.k, e2, h2, H) /\ Room(z.k.pm, 0) /\ Kept(kk, en, z.k, e2, H, {n0})
       /\ e2[n0] \in {en[n0], PageEntry(phys, Flags(p))}
    BY <1>7, <1>9, <1>10
<1>12. QED
    BY <1>11 DEF z, ProbePage

LEMMA UserInitIs ==
    ASSUME NEW R, Machine(R), NEW kk, NEW en, NEW h, NEW H, KInv(R, kk, en, h, H),
           Room(kk.pm, 0), UserPagesIn(en, {})
    PROVE  LET code == MapProbePage(kk, ProbeCodePage, ProbeCodeFrame, ReadExecute)
               stack == MapProbePage(code.k, ProbeStackPage, ProbeStackFrame, ReadWrite)
           IN \E en2, h2 : /\ KInv(R, stack.k, en2, h2, H) /\ Room(stack.k.pm, 0)
                           /\ Kept(kk, en, stack.k, en2, H, ProbeNodes)
                           /\ UserPagesIn(en2, ProbeNodes)
<1> DEFINE code == MapProbePage(kk, ProbeCodePage, ProbeCodeFrame, ReadExecute)
           stack == MapProbePage(code.k, ProbeStackPage, ProbeStackFrame, ReadWrite)
           n0 == N0(0, 0, 0)
           n1 == N0(0, 0, 1)
<1>1. ProbeCodePage = Virt(0, 0, 0) /\ ProbeStackPage = Virt(0, 0, 1)
    BY DEF ProbeCodePage, ProbeStackPage, Virt
<1>2. /\ ReadExecute \in [writable : BOOLEAN, executable : BOOLEAN]
      /\ ReadWrite \in [writable : BOOLEAN, executable : BOOLEAN]
    BY DEF ReadExecute, ReadWrite
<1>3. /\ ProbeCodeFrame \in ImageFrames /\ ProbeStackFrame \in ImageFrames
      /\ ProbeCodeFrame # ProbeStackFrame
    BY DEF ProbeCodeFrame, ProbeStackFrame, ImageFrames
<1>4. KTree(R, kk.mem, en)
    BY DEF KInv
<1>5. \A m \in Node : ~ IsTable(m) /\ en[m].present => en[m].frame # ProbeCodeFrame
    BY <1>3, <1>4, ProbeFrameFree
<1>6. PICK e2, h2 : /\ KInv(R, code.k, e2, h2, H) /\ Room(code.k.pm, 0)
                    /\ Kept(kk, en, code.k, e2, H, {n0})
                    /\ e2[n0] \in {en[n0], PageEntry(ProbeCodeFrame, Flags(ReadExecute))}
    <2>1. ProbePage(R, kk, en, H, 0, ProbeCodeFrame, ReadExecute, code)
        BY <1>1, <1>2, <1>5, ProbePageIs
    <2> HIDE DEF code
    <2>2. QED
        BY <2>1 DEF ProbePage
<1> HIDE DEF code
<1>7. UserPagesIn(e2, {n0})
    <2>1. UserPagesIn(e2, {} \cup {n0})
        BY <1>6, UserPagesKept
    <2>2. {} \cup {n0} = {n0}
        OBVIOUS
    <2>3. QED
        BY <2>1, <2>2
<1>8. \A n \in {n0} : e2[n].present => e2[n].frame # ProbeStackFrame
    <2>1. ~ en[n0].present
        BY SmallNumbers DEF UserPagesIn
    <2>2. CASE e2[n0] = en[n0]
        BY <2>1, <2>2
    <2>3. CASE e2[n0] = PageEntry(ProbeCodeFrame, Flags(ReadExecute))
        BY <1>3, <2>3 DEF PageEntry
    <2>4. QED
        BY <1>6, <2>2, <2>3
<1>9. KTree(R, code.k.mem, e2)
    BY <1>6 DEF KInv
<1>10. \A m \in Node : ~ IsTable(m) /\ e2[m].present => e2[m].frame # ProbeStackFrame
    BY <1>3, <1>7, <1>8, <1>9, ProbeFrameFree
<1>11. PICK e3, h3 : /\ KInv(R, stack.k, e3, h3, H) /\ Room(stack.k.pm, 0)
                     /\ Kept(code.k, e2, stack.k, e3, H, {n1})
    <2>1. ProbePage(R, code.k, e2, H, 1, ProbeStackFrame, ReadWrite, stack)
        BY <1>1, <1>2, <1>6, <1>10, ProbePageIs
    <2> HIDE DEF stack
    <2>2. QED
        BY <2>1 DEF ProbePage
<1> HIDE DEF stack
<1>12. {n0} \cup {n1} = ProbeNodes
    BY DEF ProbeNodes
<1>13. Kept(kk, en, stack.k, e3, H, {n0} \cup {n1})
    BY <1>6, <1>11, KeptTrans
<1>14. UserPagesIn(e3, {n0} \cup {n1})
    BY <1>7, <1>11, UserPagesKept
<1>15. QED
    BY <1>11, <1>12, <1>13, <1>14 DEF code, stack

-----------------------------------------------------------------------------
(* The pages of an image.                                                  *)

Permissions == [writable : BOOLEAN, executable : BOOLEAN]
ImageVirts == ElfPages \cup {ElfStackPage}
ImageNodes == {N0(0, 0, 2), N0(0, 0, 3), N0(0, 1, 1)}

\* A page of an image; none is writable and executable.
ImagePage ==
    {x \in [virt : ImageVirts, permissions : Permissions] :
        ~ (x.permissions.writable /\ x.permissions.executable)}

LEMMA ImageVirtIs ==
    ASSUME NEW v \in ImageVirts
    PROVE  \E c \in Half, d \in Index : v = Virt(0, c, d) /\ N0(0, c, d) \in ImageNodes
<1>1. v \in {Virt(0, 0, 2), Virt(0, 0, 3), Virt(0, 1, 1)}
    BY DEF ImageVirts, ElfPages, ElfStackPage, Virt
<1>2. QED
    BY <1>1, SmallNumbers DEF ImageNodes

LEMMA SegmentTurns ==
    ASSUME NEW p, Len(p) \in Nat
    PROVE  \E g : /\ Turns("pages", <<>>, p, g)
                  /\ ImagePages(p) =
                         Append(g[Len(p)], [virt |-> ElfStackPage, permissions |-> ReadWrite])
<1> DEFINE n == Len(p)
           Rec(g) == g = [i \in 0 .. n |-> IF i = 0 THEN <<>> ELSE g[i - 1] \o PagesOf(p[i])]
           g == CHOOSE g : Rec(g)
<1>1. ImagePages(p) = Append(g[n], [virt |-> ElfStackPage, permissions |-> ReadWrite])
    BY DEF ImagePages, Loop
<1>2. \A x, y : Body("pages", x, y) = x \o PagesOf(y)
    BY DEF Body
<1>3. \A f : LoopFunction("pages", <<>>, p, n, f) <=> Rec(f)
    BY <1>2, Zenon DEF LoopFunction
<1>4. \E f : Rec(f)
    BY <1>3, LoopExists
<1> HIDE DEF Rec
<1>5. Rec(g)
    BY <1>4
<1>6. Turns("pages", <<>>, p, g)
    BY <1>3, <1>5, LoopTurns
<1> HIDE DEF g
<1>7. QED
    BY <1>1, <1>6

LEMMA ImagePagesIs ==
    ASSUME NEW p \in Plans
    PROVE  ImagePages(p) \in Seq(ImagePage) /\ Len(ImagePages(p)) < MaxRecycled
<1> DEFINE Segment == [pages : Seq(ElfPages), permissions : Permissions]
<1>1. /\ p \in Seq(Segment)
      /\ \A j \in DOMAIN p : ~ (p[j].permissions.writable /\ p[j].permissions.executable)
    BY PlansAssumption DEF Permissions
<1>2. /\ Len(p) \in Nat /\ DOMAIN p = 1 .. Len(p)
      /\ \A j \in 1 .. Len(p) : p[j] \in Segment
    <2> HIDE DEF Segment
    <2>1. QED
        BY <1>1, LenProperties, ElementOfSeq
<1>3. PICK g : /\ Turns("pages", <<>>, p, g)
               /\ ImagePages(p) =
                      Append(g[Len(p)], [virt |-> ElfStackPage, permissions |-> ReadWrite])
    BY <1>2, SegmentTurns
<1>4. g[0] = <<>> /\ \A i \in 1 .. Len(p) : g[i] = g[i - 1] \o PagesOf(p[i])
    BY <1>3 DEF Turns, Body
<1>5. ASSUME NEW j \in 1 .. Len(p) PROVE PagesOf(p[j]) \in Seq(ImagePage)
    <2>1. /\ p[j].pages \in Seq(ElfPages) /\ p[j].permissions \in Permissions
          /\ ~ (p[j].permissions.writable /\ p[j].permissions.executable)
        BY <1>1, <1>2
    <2> DEFINE q == p[j].pages
               perm == p[j].permissions
    <2>2. DOMAIN q = 1 .. Len(q) /\ Len(q) \in Nat /\ \A i \in 1 .. Len(q) : q[i] \in ElfPages
        BY <2>1
    <2> HIDE DEF q, perm
    <2>3. \A v \in ElfPages : [virt |-> v, permissions |-> perm] \in ImagePage
        BY <2>1 DEF perm, ImagePage, ImageVirts
    <2>4. PagesOf(p[j]) = [i \in 1 .. Len(q) |-> [virt |-> q[i], permissions |-> perm]]
        BY <2>2 DEF PagesOf, q, perm
    <2>5. \A i \in 1 .. Len(q) : [virt |-> q[i], permissions |-> perm] \in ImagePage
        BY <2>2, <2>3
    <2>6. [i \in 1 .. Len(q) |-> [virt |-> q[i], permissions |-> perm]]
              \in [1 .. Len(q) -> ImagePage]
        BY <2>5
    <2>7. QED
        BY <2>2, <2>4, <2>6
<1> DEFINE S == {i \in 0 .. Len(p) : g[i] \in Seq(ImagePage)}
<1>6. 0 \in S
    <2>1. <<>> \in Seq(ImagePage)
        BY EmptySeq
    <2>2. 0 \in 0 .. Len(p)
        BY <1>2
    <2>3. QED
        BY <1>4, <2>1, <2>2
<1>7. ASSUME NEW i \in 0 .. Len(p) - 1, i \in S PROVE i + 1 \in S
    <2>1. i + 1 \in 1 .. Len(p) /\ (i + 1) - 1 = i /\ i + 1 \in 0 .. Len(p)
        BY <1>2
    <2>2. g[i + 1] = g[i] \o PagesOf(p[i + 1])
        BY <1>4, <2>1
    <2>3. g[i] \in Seq(ImagePage) /\ PagesOf(p[i + 1]) \in Seq(ImagePage)
        BY <1>5, <1>7, <2>1
    <2>4. QED
        BY <2>1, <2>2, <2>3, ConcatProperties
<1>8. 0 .. Len(p) \subseteq S
    <2> HIDE DEF S
    <2>1. QED
        BY <1>2, <1>6, <1>7, InductionUpTo
<1>9. g[Len(p)] \in Seq(ImagePage)
    BY <1>2, <1>8
<1>10. [virt |-> ElfStackPage, permissions |-> ReadWrite] \in ImagePage
    BY DEF ImagePage, ImageVirts, Permissions, ReadWrite
<1>11. ImagePages(p) \in Seq(ImagePage)
    BY <1>3, <1>9, <1>10, AppendProperties
<1>12. QED
    BY <1>11, RecycledAssumption

-----------------------------------------------------------------------------
(* load_image.                                                             *)

LEMMA RoomZero ==
    ASSUME NEW R, Machine(R), NEW kk, NEW en, NEW h, NEW H, KInv(R, kk, en, h, H),
           NEW r \in Nat, Room(kk.pm, r)
    PROVE  Room(kk.pm, 0)
<1>1. Len(kk.pm.recycled) \in Nat
    BY GoodTypes DEF KInv, Machine
<1>2. \A x, n, m \in Nat : x + n <= m => x + 0 <= m
    OBVIOUS
<1>3. QED
    BY <1>1, <1>2, MaxRecycledAssumption DEF Room

\* The pages of the image that are mapped have allocated frames.
ImageFramed(R, en) == \A n \in ImageNodes : en[n].present => en[n].frame \in FramesOf(R)

\* The state x after i turns of the loop that maps the pages of an image.
LoadState(R, kk, en, H, i, x) ==
    /\ x.ok \in BOOLEAN
    /\ x.mapped \in Seq(ImageVirts) /\ Len(x.mapped) <= i
    /\ \E en2, h2 : /\ KInv(R, x.k, en2, h2, H) /\ Room(x.k.pm, Len(x.mapped))
                    /\ Kept(kk, en, x.k, en2, H, ImageNodes)
                    /\ ImageFramed(R, en2)

LEMMA LoadTurn ==
    ASSUME NEW R, Machine(R), NEW kk, NEW en, NEW H, NEW i \in Nat, i + 1 < MaxRecycled,
           NEW x, LoadState(R, kk, en, H, i, x), NEW page \in ImagePage
    PROVE  LoadState(R, kk, en, H, i + 1, LoadPage(x, page))
<1> DEFINE r == Len(x.mapped)
           v == page.virt
           fl == Flags(page.permissions)
           m == MapNewPage(x.k, v, fl, "User")
           z == LoadPage(x, page)
<1>1. x.ok \in BOOLEAN /\ x.mapped \in Seq(ImageVirts) /\ r \in Nat /\ r <= i
    BY DEF LoadState
<1>2. PICK e1, h1 : /\ KInv(R, x.k, e1, h1, H) /\ Room(x.k.pm, r)
                    /\ Kept(kk, en, x.k, e1, H, ImageNodes)
                    /\ ImageFramed(R, e1)
    BY DEF LoadState
<1>3. v \in ImageVirts /\ page.permissions \in Permissions
    BY DEF ImagePage
<1>4. PICK c \in Half, d \in Index : v = Virt(0, c, d) /\ N0(0, c, d) \in ImageNodes
    BY <1>3, ImageVirtIs
<1> DEFINE n0 == N0(0, c, d)
<1>5. PageKind(0, fl, "User")
    BY <1>3, PermissionFlags DEF Permissions
<1>6. r + 1 < MaxRecycled
    <2> HIDE DEF r
    <2>1. QED
        BY <1>1, RoomFacts
<1> HIDE DEF r, fl
<1>7. NewOutcome(R, x.k, e1, H, 0, c, d, fl, r, m)
    BY <1>1, <1>2, <1>4, <1>5, <1>6, SmallNumbers, MapNewPageIs
<1> HIDE DEF m
<1>8. PICK e2, h2 :
          /\ KInv(R, m.k, e2, h2, H)
          /\ Kept(x.k, e1, m.k, e2, H, {n0})
          /\ IF m.ok
             THEN /\ Room(m.k.pm, r + 1)
                  /\ \E phys \in FramesOf(R) : e2[n0] = PageEntry(phys, fl)
             ELSE Room(m.k.pm, r) /\ e2[n0] = e1[n0]
    BY <1>7 DEF NewOutcome
<1>9. m.ok \in BOOLEAN
    BY <1>7 DEF NewOutcome
<1>10. Kept(kk, en, m.k, e2, H, ImageNodes)
    <2>1. Kept(kk, en, m.k, e2, H, ImageNodes \cup {n0})
        BY <1>2, <1>8, KeptTrans
    <2>2. ImageNodes \cup {n0} = ImageNodes
        BY <1>4
    <2>3. QED
        BY <2>1, <2>2
<1>11. ImageFramed(R, e2)
    <2>1. \A n \in ImageNodes : n \in Node /\ ~ IsTable(n)
        BY SmallNumbers, NodeMembers, NodeTree DEF ImageNodes
    <2>2. \A n \in ImageNodes : n # n0 => e2[n] = e1[n]
        BY <1>8, <2>1 DEF Kept
    <2>3. e2[n0].present => e2[n0].frame \in FramesOf(R)
        <3>1. CASE m.ok
            <4>1. PICK phys \in FramesOf(R) : e2[n0] = PageEntry(phys, fl)
                BY <1>8, <3>1
            <4>2. QED
                BY <4>1 DEF PageEntry
        <3>2. CASE ~ m.ok
            BY <1>2, <1>4, <1>8, <3>2 DEF ImageFramed
        <3>3. QED
            BY <3>1, <3>2
    <2>4. QED
        BY <1>2, <2>2, <2>3 DEF ImageFramed
<1>12. CASE ~ x.ok
    <2>1. z = x
        BY <1>12 DEF LoadPage
    <2>2. Len(x.mapped) <= i + 1
        BY <1>1 DEF r
    <2> HIDE DEF z
    <2>3. LoadState(R, kk, en, H, i + 1, z)
        BY <2>1, <2>2 DEF LoadState
    <2>4. QED
        BY <2>3 DEF z
<1>13. CASE x.ok /\ m.ok
    <2>1. z = [k |-> m.k, ok |-> m.ok, mapped |-> Append(x.mapped, v)]
        BY <1>13 DEF LoadPage, m, fl
    <2>2. z.k = m.k /\ z.ok = m.ok /\ z.mapped = Append(x.mapped, v)
        BY <2>1
    <2> HIDE DEF z
    <2>3. z.mapped \in Seq(ImageVirts) /\ Len(z.mapped) = r + 1
        BY <1>1, <1>3, <2>2, AppendProperties DEF r
    <2>4. r + 1 <= i + 1
        BY <1>1
    <2>5. Room(z.k.pm, Len(z.mapped))
        BY <1>8, <1>13, <2>2, <2>3
    <2>6. LoadState(R, kk, en, H, i + 1, z)
        BY <1>8, <1>9, <1>10, <1>11, <2>2, <2>3, <2>4, <2>5 DEF LoadState
    <2>7. QED
        BY <2>6 DEF z
<1>14. CASE x.ok /\ ~ m.ok
    <2>1. z = [k |-> m.k, ok |-> m.ok, mapped |-> x.mapped]
        BY <1>14 DEF LoadPage, m, fl
    <2>2. z.k = m.k /\ z.ok = m.ok /\ z.mapped = x.mapped
        BY <2>1
    <2> HIDE DEF z
    <2>3. z.mapped \in Seq(ImageVirts) /\ Len(z.mapped) = r
        BY <1>1, <2>2 DEF r
    <2>4. r <= i + 1
        BY <1>1
    <2>5. Room(z.k.pm, Len(z.mapped))
        BY <1>8, <1>14, <2>2, <2>3
    <2>6. LoadState(R, kk, en, H, i + 1, z)
        BY <1>8, <1>9, <1>10, <1>11, <2>2, <2>3, <2>4, <2>5 DEF LoadState
    <2>7. QED
        BY <2>6 DEF z
<1>15. QED
    BY <1>1, <1>9, <1>12, <1>13, <1>14

\* The state x of rollback_mappings, with r pages still to be dropped.
RollState(R, kk, en, H, r, x) ==
    \E en2, h2 : /\ KInv(R, x, en2, h2, H) /\ Room(x.pm, r)
                 /\ Kept(kk, en, x, en2, H, ImageNodes)
                 /\ ImageFramed(R, en2)

LEMMA RollTurn ==
    ASSUME NEW R, Machine(R), NEW kk, NEW en, NEW H, NEW r \in Nat,
           NEW x, RollState(R, kk, en, H, r + 1, x), NEW v \in ImageVirts
    PROVE  RollState(R, kk, en, H, r, DropPage(x, v))
<1> DEFINE z == DropPage(x, v)
<1>1. PICK e1, h1 : /\ KInv(R, x, e1, h1, H) /\ Room(x.pm, r + 1)
                    /\ Kept(kk, en, x, e1, H, ImageNodes)
                    /\ ImageFramed(R, e1)
    BY DEF RollState
<1>2. PICK c \in Half, d \in Index : v = Virt(0, c, d) /\ N0(0, c, d) \in ImageNodes
    BY ImageVirtIs
<1> DEFINE n0 == N0(0, c, d)
<1>3. e1[n0].present => e1[n0].frame \in FramesOf(R)
    BY <1>1, <1>2 DEF ImageFramed
<1>4. Dropped(R, x, e1, H, 0, c, d, r, z)
    BY <1>1, <1>2, <1>3, SmallNumbers, DropPageIs
<1> HIDE DEF z
<1>5. PICK e2, h2 : /\ KInv(R, z, e2, h2, H) /\ Room(z.pm, r)
                    /\ Kept(x, e1, z, e2, H, {n0})
                    /\ ~ e2[n0].present
    BY <1>4 DEF Dropped
<1>6. Kept(kk, en, z, e2, H, ImageNodes)
    <2>1. Kept(kk, en, z, e2, H, ImageNodes \cup {n0})
        BY <1>1, <1>5, KeptTrans
    <2>2. ImageNodes \cup {n0} = ImageNodes
        BY <1>2
    <2>3. QED
        BY <2>1, <2>2
<1>7. ImageFramed(R, e2)
    <2>1. \A n \in ImageNodes : n \in Node /\ ~ IsTable(n)
        BY SmallNumbers, NodeMembers, NodeTree DEF ImageNodes
    <2>2. \A n \in ImageNodes : n # n0 => e2[n] = e1[n]
        BY <1>5, <2>1 DEF Kept
    <2>3. QED
        BY <1>1, <1>5, <2>2 DEF ImageFramed
<1>8. RollState(R, kk, en, H, r, z)
    BY <1>5, <1>6, <1>7 DEF RollState
<1>9. QED
    BY <1>8 DEF z

LEMMA ReverseIs ==
    ASSUME NEW T, NEW s \in Seq(T)
    PROVE  /\ Reverse(s) \in Seq(T) /\ Len(Reverse(s)) = Len(s)
           /\ \A i \in 1 .. Len(s) : Reverse(s)[i] = s[(Len(s) - i) + 1]
<1>1. Len(s) \in Nat /\ \A i \in 1 .. Len(s) : s[i] \in T
    BY LenProperties, ElementOfSeq
<1>2. Reverse(s) = [i \in 1 .. Len(s) |-> s[(Len(s) - i) + 1]]
    BY DEF Reverse
<1> DEFINE n == Len(s)
<1> HIDE DEF n
<1>3. n \in Nat /\ \A i \in 1 .. n : (n - i) + 1 \in 1 .. n
    BY <1>1 DEF n
<1>4. [i \in 1 .. n |-> s[(n - i) + 1]] \in [1 .. n -> T]
    BY <1>1, <1>3 DEF n
<1>5. Reverse(s) \in [1 .. n -> T]
    BY <1>2, <1>4 DEF n
<1>6. Reverse(s) \in Seq(T) /\ Len(Reverse(s)) = n
    BY <1>3, <1>5
<1>7. QED
    BY <1>2, <1>6 DEF n

LEMMA RollbackIs ==
    ASSUME NEW R, Machine(R), NEW kk, NEW en, NEW H, NEW x, NEW mapped \in Seq(ImageVirts),
           RollState(R, kk, en, H, Len(mapped), x)
    PROVE  RollState(R, kk, en, H, 0, Rollback(x, mapped))
<1> DEFINE s == Reverse(mapped)
           n == Len(s)
<1>1. s \in Seq(ImageVirts) /\ n = Len(mapped) /\ n \in Nat /\ \A i \in 1 .. n : s[i] \in ImageVirts
    BY ReverseIs, LenProperties, ElementOfSeq
<1>2. Rollback(x, mapped) = Loop(DropPage, x, s)
    BY DEF Rollback
<1> HIDE DEF s
<1>3. PICK g : Turns("drop", x, s, g) /\ Loop(DropPage, x, s) = g[Len(s)]
    BY <1>1, DropTurns, Zenon
<1>4. g[0] = x /\ \A i \in 1 .. n : g[i] = DropPage(g[i - 1], s[i])
    BY <1>3 DEF Turns, Body
<1> HIDE DEF n
<1> DEFINE S == {i \in 0 .. n : RollState(R, kk, en, H, n - i, g[i])}
<1>5. 0 \in S
    <2>1. n - 0 = n /\ 0 \in 0 .. n
        BY <1>1
    <2>2. QED
        BY <1>1, <1>4, <2>1
<1>6. ASSUME NEW i \in 0 .. n - 1, i \in S PROVE i + 1 \in S
    <2> DEFINE r == n - (i + 1)
    <2>1. r \in Nat /\ n - i = r + 1 /\ i + 1 \in 1 .. n /\ (i + 1) - 1 = i /\ i + 1 \in 0 .. n
        BY <1>1
    <2> HIDE DEF r
    <2>2. RollState(R, kk, en, H, r + 1, g[i])
        BY <1>6, <2>1
    <2>3. g[i + 1] = DropPage(g[i], s[i + 1]) /\ s[i + 1] \in ImageVirts
        BY <1>1, <1>4, <2>1
    <2>4. RollState(R, kk, en, H, r, g[i + 1])
        BY <2>1, <2>2, <2>3, RollTurn
    <2>5. QED
        BY <2>1, <2>4 DEF r
<1>7. 0 .. n \subseteq S
    <2> HIDE DEF S
    <2>1. QED
        BY <1>1, <1>5, <1>6, InductionUpTo
<1>8. n \in 0 .. n /\ n - n = 0
    BY <1>1
<1>9. RollState(R, kk, en, H, 0, g[n])
    BY <1>7, <1>8
<1>10. QED
    BY <1>2, <1>3, <1>9, Zenon DEF n

\* What load_image leaves, whatever fails.
Loaded(R, kk, en, H, z) ==
    \E en2, h2 : /\ KInv(R, z, en2, h2, H) /\ Room(z.pm, 0)
                 /\ Kept(kk, en, z, en2, H, ImageNodes)

LEMMA LoadImageIs ==
    ASSUME NEW R, Machine(R), NEW kk, NEW en, NEW h, NEW H, KInv(R, kk, en, h, H),
           Room(kk.pm, 0), UserPagesIn(en, ProbeNodes), NEW p \in Plans
    PROVE  Loaded(R, kk, en, H, LoadImage(kk, p))
<1> DEFINE s == ImagePages(p)
           n == Len(s)
           start == [k |-> kk, ok |-> TRUE, mapped |-> <<>>]
           z == LoadImage(kk, p)
<1>1. s \in Seq(ImagePage) /\ n < MaxRecycled /\ n \in Nat /\ \A i \in 1 .. n : s[i] \in ImagePage
    BY ImagePagesIs, LenProperties, ElementOfSeq
<1> HIDE DEF s, start
<1>2. PICK g : Turns("load", start, s, g) /\ Loop(LoadPage, start, s) = g[Len(s)]
    BY <1>1, LoadTurns, Zenon
<1>3. g[0] = start /\ \A i \in 1 .. n : g[i] = LoadPage(g[i - 1], s[i])
    BY <1>2 DEF Turns, Body
<1>4. \/ z = g[n].k /\ g[n].ok
      \/ z = Rollback(g[n].k, g[n].mapped)
    <2>1. LET y == Loop(LoadPage, start, s)
          IN z = IF y.ok /\ Copies(y.k.mem, BootP4, p) THEN y.k ELSE Rollback(y.k, y.mapped)
        BY DEF LoadImage, s, start
    <2>2. z = IF g[n].ok /\ Copies(g[n].k.mem, BootP4, p) THEN g[n].k
              ELSE Rollback(g[n].k, g[n].mapped)
        BY <1>2, <2>1, Zenon
    <2>3. QED
        BY <2>2
<1> HIDE DEF n, z
<1> DEFINE S == {i \in 0 .. n : LoadState(R, kk, en, H, i, g[i])}
<1>5. 0 \in S
    <2>1. g[0].k = kk /\ g[0].ok = TRUE /\ g[0].mapped = <<>>
        BY <1>3 DEF start
    <2>2. <<>> \in Seq(ImageVirts) /\ Len(<<>>) = 0 /\ 0 \in 0 .. n /\ 0 <= 0
        BY <1>1, EmptySeq
    <2>3. Kept(kk, en, kk, en, H, ImageNodes)
        BY DEF Kept
    <2>4. ImageFramed(R, en)
        <3>1. N0(0, 0, 2) \notin ProbeNodes /\ N0(0, 0, 3) \notin ProbeNodes
              /\ N0(0, 1, 1) \notin ProbeNodes
            BY DEF ProbeNodes, N0
        <3>2. ~ en[N0(0, 0, 2)].present /\ ~ en[N0(0, 0, 3)].present /\ ~ en[N0(0, 1, 1)].present
            BY <3>1, SmallNumbers DEF UserPagesIn
        <3>3. QED
            BY <3>2 DEF ImageFramed, ImageNodes
    <2>5. LoadState(R, kk, en, H, 0, g[0])
        BY <2>1, <2>2, <2>3, <2>4 DEF LoadState
    <2>6. QED
        BY <2>2, <2>5
<1>6. ASSUME NEW i \in 0 .. n - 1, i \in S PROVE i + 1 \in S
    <2>1. i \in Nat /\ i + 1 < MaxRecycled /\ i + 1 \in 1 .. n /\ (i + 1) - 1 = i /\ i + 1 \in 0 .. n
        BY <1>1, RoomFacts
    <2>2. g[i + 1] = LoadPage(g[i], s[i + 1]) /\ s[i + 1] \in ImagePage
        BY <1>1, <1>3, <2>1
    <2>3. LoadState(R, kk, en, H, i + 1, g[i + 1])
        BY <1>6, <2>1, <2>2, LoadTurn
    <2>4. QED
        BY <2>1, <2>3
<1>7. 0 .. n \subseteq S
    <2> HIDE DEF S
    <2>1. QED
        BY <1>1, <1>5, <1>6, InductionUpTo
<1>8. LoadState(R, kk, en, H, n, g[n])
    BY <1>1, <1>7
<1>9. g[n].mapped \in Seq(ImageVirts) /\ Len(g[n].mapped) \in Nat
    BY <1>8, LenProperties DEF LoadState
<1>10. RollState(R, kk, en, H, Len(g[n].mapped), g[n].k)
    BY <1>8 DEF LoadState, RollState
<1>11. CASE z = g[n].k
    <2>1. PICK e2, h2 : /\ KInv(R, z, e2, h2, H) /\ Room(z.pm, Len(g[n].mapped))
                        /\ Kept(kk, en, z, e2, H, ImageNodes)
        BY <1>10, <1>11 DEF RollState
    <2>2. Room(z.pm, 0)
        BY <1>9, <2>1, RoomZero
    <2>3. QED
        BY <2>1, <2>2 DEF Loaded, z
<1>12. CASE z = Rollback(g[n].k, g[n].mapped)
    <2>1. RollState(R, kk, en, H, 0, z)
        BY <1>9, <1>10, <1>12, RollbackIs
    <2>2. QED
        BY <2>1 DEF RollState, Loaded, z
<1>13. QED
    BY <1>4, <1>11, <1>12

-----------------------------------------------------------------------------
(* Frames that are freed in a loop.                                        *)

\* The first i elements of a sequence.
Firsts(s, i) == {s[j] : j \in 1 .. i}

Injective(s) == \A i, j \in 1 .. Len(s) : s[i] = s[j] => i = j

\* The allocator b after the first i frames of s were freed: those that the
\* full stack refused stay in use.
FreeState(R, a, h, s, i, b) ==
    \E h2 : /\ Good(R, b, h2)
            /\ h \ Firsts(s, i) \subseteq h2 /\ h2 \subseteq h
            /\ Len(b.recycled) <= Len(a.recycled) + i
            /\ Len(b.recycled) = Len(a.recycled) + i => h2 = h \ Firsts(s, i)
            /\ Room(a, Len(s)) => Len(b.recycled) = Len(a.recycled) + i
            /\ Room(a, 0) => Room(b, 0)

LEMMA FreeTurn ==
    ASSUME NEW R, IsRegionArray(R), NEW a, NEW h, Len(a.recycled) \in Nat,
           NEW s, Len(s) \in Nat, Injective(s), \A j \in 1 .. Len(s) : s[j] \in h,
           NEW i \in 0 .. Len(s) - 1, NEW b, FreeState(R, a, h, s, i, b)
    PROVE  FreeState(R, a, h, s, i + 1, FreeFrame(b, s[i + 1]))
<1> DEFINE f == s[i + 1]
           z == FreeFrame(b, f)
<1>1. PICK h2 : /\ Good(R, b, h2)
                /\ h \ Firsts(s, i) \subseteq h2 /\ h2 \subseteq h
                /\ Len(b.recycled) <= Len(a.recycled) + i
                /\ Len(b.recycled) = Len(a.recycled) + i => h2 = h \ Firsts(s, i)
                /\ Room(a, Len(s)) => Len(b.recycled) = Len(a.recycled) + i
                /\ Room(a, 0) => Room(b, 0)
    BY DEF FreeState
<1>2. i + 1 \in 1 .. Len(s) /\ i \in Nat /\ f \in h
    OBVIOUS
<1>3. f \notin Firsts(s, i)
    <2>1. \A j \in 1 .. i : j \in 1 .. Len(s) /\ j # i + 1
        OBVIOUS
    <2>2. \A j \in 1 .. i : s[j] # f
        BY <1>2, <2>1 DEF Injective
    <2>3. QED
        BY <2>2 DEF Firsts
<1>4. Firsts(s, i + 1) = Firsts(s, i) \cup {f}
    <2>1. 1 .. i + 1 = (1 .. i) \cup {i + 1}
        BY <1>2
    <2>2. QED
        BY <2>1, Zenon DEF Firsts
<1>5. f \in h2
    BY <1>1, <1>2, <1>3
<1>6. Len(b.recycled) \in Nat /\ b.recycled \in Seq(FramesOf(R)) /\ b \in AllocatorState(R)
      /\ MaxRecycled \in Nat /\ f \in FramesOf(R)
    BY <1>1, <1>5, GoodTypes, MaxRecycledAssumption DEF Good
<1>7. Frees(b, f) <=> Len(b.recycled) < MaxRecycled
    <2>1. IsIssued(b, f) /\ ~ IsRecycled(b, f)
        BY <1>1, <1>5, <1>6 DEF Good, Partition
    <2>2. QED
        BY <2>1 DEF Frees
<1> HIDE DEF f
<1>8. CASE Frees(b, f)
    <2>1. Good(R, z, h2 \ {f})
        BY <1>1, <1>6, <1>8, FreeGood
    <2>2. z.recycled = Append(b.recycled, f)
        BY <1>6, <1>8 DEF FreeFrame, AllocatorState
    <2>3. Len(z.recycled) = Len(b.recycled) + 1
        BY <1>6, <2>2
    <2> HIDE DEF z
    <2>4. /\ Len(z.recycled) <= Len(a.recycled) + (i + 1)
          /\ Len(z.recycled) = Len(a.recycled) + (i + 1)
                <=> Len(b.recycled) = Len(a.recycled) + i
        <3> DEFINE x == Len(b.recycled)
                   y == Len(a.recycled)
                   w == Len(z.recycled)
        <3>1. x \in Nat /\ y \in Nat /\ x <= y + i /\ w = x + 1
            BY <1>1, <1>6, <2>3
        <3> HIDE DEF x, y, w
        <3>2. w <= y + (i + 1) /\ (w = y + (i + 1) <=> x = y + i)
            BY <1>2, <3>1
        <3>3. QED
            BY <3>2 DEF x, y, w
    <2>5. /\ h \ Firsts(s, i + 1) \subseteq h2 \ {f} /\ h2 \ {f} \subseteq h
          /\ Len(z.recycled) = Len(a.recycled) + (i + 1) => h2 \ {f} = h \ Firsts(s, i + 1)
        BY <1>1, <1>4, <2>4
    <2>6. Room(z, 0)
        <3>1. \A x, m \in Nat : x < m => (x + 1) + 0 <= m
            OBVIOUS
        <3>2. QED
            BY <1>6, <1>7, <1>8, <2>3, <3>1 DEF Room
    <2>7. FreeState(R, a, h, s, i + 1, z)
        BY <1>1, <2>1, <2>4, <2>5, <2>6 DEF FreeState
    <2>8. QED
        BY <2>7 DEF z, f
<1>9. CASE ~ Frees(b, f)
    <2>1. z = b
        BY <1>9 DEF FreeFrame
    <2> HIDE DEF z
    <2>2. /\ Len(b.recycled) <= Len(a.recycled) + (i + 1)
          /\ Len(b.recycled) # Len(a.recycled) + (i + 1)
        <3>1. \A x, y, m \in Nat : x <= y + m => x <= y + (m + 1) /\ x # y + (m + 1)
            OBVIOUS
        <3>2. QED
            BY <1>1, <1>2, <1>6, <3>1
    <2>3. ~ Room(a, Len(s))
        <3>1. ~ (Len(b.recycled) < MaxRecycled)
            BY <1>7, <1>9
        <3>2. \A x, y, m, n \in Nat : m < n /\ x = y + m /\ y + n <= MaxRecycled => x < MaxRecycled
            BY <1>6
        <3>3. i < Len(s)
            BY <1>2
        <3>4. QED
            BY <1>1, <1>2, <1>6, <3>1, <3>2, <3>3 DEF Room
    <2>4. h \ Firsts(s, i + 1) \subseteq h2
        BY <1>1, <1>4
    <2>5. FreeState(R, a, h, s, i + 1, z)
        BY <1>1, <2>1, <2>2, <2>3, <2>4 DEF FreeState
    <2>6. QED
        BY <2>5 DEF z, f
<1>10. QED
    BY <1>8, <1>9

LEMMA FreeAllIs ==
    ASSUME NEW R, IsRegionArray(R), NEW a, NEW h, Good(R, a, h),
           NEW s, Len(s) \in Nat, Injective(s), \A j \in 1 .. Len(s) : s[j] \in h
    PROVE  FreeState(R, a, h, s, Len(s), FreeAll(a, s))
<1> DEFINE n == Len(s)
<1>1. Len(a.recycled) \in Nat
    BY GoodTypes
<1>2. PICK g : Turns("free", a, s, g) /\ Loop(FreeFrame, a, s) = g[Len(s)]
    BY FreeTurns, Zenon
<1>3. g[0] = a /\ \A i \in 1 .. n : g[i] = FreeFrame(g[i - 1], s[i])
    BY <1>2 DEF Turns, Body
<1>4. FreeAll(a, s) = g[n]
    BY <1>2 DEF FreeAll
<1> DEFINE S == {i \in 0 .. n : FreeState(R, a, h, s, i, g[i])}
<1>5. 0 \in S
    <2>1. Firsts(s, 0) = {} /\ h \ {} = h
        BY DEF Firsts
    <2>2. Len(a.recycled) <= Len(a.recycled) + 0 /\ Len(a.recycled) = Len(a.recycled) + 0
        BY <1>1
    <2>3. FreeState(R, a, h, s, 0, a)
        BY <2>1, <2>2 DEF FreeState
    <2>4. QED
        BY <1>3, <2>3
<1>6. ASSUME NEW i \in 0 .. n - 1, i \in S PROVE i + 1 \in S
    <2>1. i + 1 \in 1 .. n /\ (i + 1) - 1 = i /\ i + 1 \in 0 .. n
        OBVIOUS
    <2>2. g[i + 1] = FreeFrame(g[i], s[i + 1])
        BY <1>3, <2>1
    <2>3. FreeState(R, a, h, s, i, g[i])
        BY <1>6
    <2>4. FreeState(R, a, h, s, i + 1, FreeFrame(g[i], s[i + 1]))
        BY <1>1, <2>3, FreeTurn
    <2>5. QED
        BY <2>1, <2>2, <2>4
<1>7. 0 .. n \subseteq S
    <2> HIDE DEF S
    <2>1. QED
        BY <1>5, <1>6, InductionUpTo
<1>8. QED
    BY <1>4, <1>7

-----------------------------------------------------------------------------
(* Address spaces.                                                         *)

User(R) ==
    {u \in [frame : FramesOf(R), virt : ImageVirts, permissions : Permissions] :
        ~ (u.permissions.writable /\ u.permissions.executable)}

Space(R) ==
    [root : Nat, tables : Seq(FramesOf(R)), users : Seq(User(R)), active : BOOLEAN]

\* No frame of a space is used twice in it.
Distinct(sp) ==
    /\ Injective(sp.tables)
    /\ \A i, j \in 1 .. Len(sp.users) : sp.users[i].frame = sp.users[j].frame => i = j
    /\ \A i \in 1 .. Len(sp.tables), j \in 1 .. Len(sp.users) : sp.tables[i] # sp.users[j].frame

\* The entry of the p2 table of a space for its p1 table c.
Leaf(mem, sp, c) == mem[sp.tables[3]][c]

\* Page d of the p1 table c is the user page u.
UserAt(u, c, d, e) ==
    u.virt = Virt(0, c, d) /\ e = PageEntry(u.frame, Flags(u.permissions))

\* The tables of a space: a p4 table, whose high half is the kernel's, a p3
\* table with the identity map and the user range, a p2 table and p1 tables.
Upper(mem, hi, sp) ==
    /\ mem[sp.tables[1]][0] = TableEntry(sp.tables[2], TRUE, TRUE)
    /\ mem[sp.tables[1]][1] = hi
    /\ mem[sp.tables[2]][0] = TableEntry(BootP2, TRUE, FALSE)
    /\ mem[sp.tables[2]][1] = TableEntry(sp.tables[3], TRUE, TRUE)

Leaves(mem, sp) ==
    /\ \A c \in Half :
          \/ Leaf(mem, sp, c) = NoEntry
          \/ \E j \in 4 .. Len(sp.tables) : Leaf(mem, sp, c) = TableEntry(sp.tables[j], TRUE, TRUE)
    /\ \A c, e \in Half : /\ Leaf(mem, sp, c).present /\ Leaf(mem, sp, e).present
                          /\ Leaf(mem, sp, c).frame = Leaf(mem, sp, e).frame
                          => c = e

UsersMapped(mem, sp) ==
    /\ \A c \in Half, d \in Index : Leaf(mem, sp, c).present =>
          \/ mem[Leaf(mem, sp, c).frame][d] = NoEntry
          \/ \E j \in 1 .. Len(sp.users) :
                UserAt(sp.users[j], c, d, mem[Leaf(mem, sp, c).frame][d])
    /\ \A j \in 1 .. Len(sp.users) : \E c \in Half, d \in Index :
          /\ Leaf(mem, sp, c).present
          /\ UserAt(sp.users[j], c, d, mem[Leaf(mem, sp, c).frame][d])

Shape(R, mem, hi, sp) ==
    /\ sp \in Space(R) /\ sp.active /\ 3 <= Len(sp.tables) /\ sp.root = sp.tables[1]
    /\ Distinct(sp)
    /\ \A j \in 1 .. Len(sp.tables) : Reachable(sp.tables[j])
    /\ Upper(mem, hi, sp)
    /\ Leaves(mem, sp)
    /\ UsersMapped(mem, sp)

LEMMA SpaceFields ==
    ASSUME NEW R, NEW sp \in Space(R)
    PROVE  /\ sp.root \in Nat /\ sp.tables \in Seq(FramesOf(R)) /\ sp.users \in Seq(User(R))
           /\ sp.active \in BOOLEAN
           /\ Len(sp.tables) \in Nat /\ DOMAIN sp.tables = 1 .. Len(sp.tables)
           /\ Len(sp.users) \in Nat /\ DOMAIN sp.users = 1 .. Len(sp.users)
           /\ \A j \in 1 .. Len(sp.tables) : sp.tables[j] \in FramesOf(R)
           /\ \A j \in 1 .. Len(sp.users) : sp.users[j] \in User(R)
           /\ sp = [root |-> sp.root, tables |-> sp.tables, users |-> sp.users,
                    active |-> sp.active]
<1>1. /\ sp.root \in Nat /\ sp.tables \in Seq(FramesOf(R)) /\ sp.users \in Seq(User(R))
      /\ sp.active \in BOOLEAN
      /\ sp = [root |-> sp.root, tables |-> sp.tables, users |-> sp.users,
               active |-> sp.active]
    BY DEF Space
<1>2. QED
    BY <1>1, LenProperties, ElementOfSeq

LEMMA UserFields ==
    ASSUME NEW R, NEW u \in User(R)
    PROVE  /\ u.frame \in FramesOf(R) /\ u.virt \in ImageVirts /\ u.permissions \in Permissions
           /\ ~ (u.permissions.writable /\ u.permissions.executable)
           /\ u = [frame |-> u.frame, virt |-> u.virt, permissions |-> u.permissions]
BY DEF User

LEMMA OwnedIs ==
    ASSUME NEW R, NEW sp \in Space(R)
    PROVE  /\ Owned(sp) = {sp.tables[j] : j \in 1 .. Len(sp.tables)}
                          \cup {sp.users[j].frame : j \in 1 .. Len(sp.users)}
           /\ Owned(sp) \subseteq FramesOf(R)
<1>1. Owned(sp) = {sp.tables[j] : j \in 1 .. Len(sp.tables)}
                          \cup {sp.users[j].frame : j \in 1 .. Len(sp.users)}
    BY SpaceFields DEF Owned, Elements, UserFrames
<1>2. \A j \in 1 .. Len(sp.tables) : sp.tables[j] \in FramesOf(R)
    BY SpaceFields
<1>3. \A j \in 1 .. Len(sp.users) : sp.users[j].frame \in FramesOf(R)
    BY SpaceFields, UserFields
<1>4. QED
    BY <1>1, <1>2, <1>3

\* The shape of a space is about its tables only.
LEMMA ShapeKept ==
    ASSUME NEW R, NEW mem, NEW mem2, NEW hi, NEW sp, Shape(R, mem, hi, sp),
           \A j \in 1 .. Len(sp.tables) : mem2[sp.tables[j]] = mem[sp.tables[j]]
    PROVE  Shape(R, mem2, hi, sp)
<1>1. Len(sp.tables) \in Nat /\ 3 <= Len(sp.tables)
    BY SpaceFields DEF Shape
<1>2. 1 \in 1 .. Len(sp.tables) /\ 2 \in 1 .. Len(sp.tables) /\ 3 \in 1 .. Len(sp.tables)
    BY <1>1
<1>3. Upper(mem2, hi, sp)
    BY <1>2 DEF Shape, Upper
<1>4. \A c : Leaf(mem2, sp, c) = Leaf(mem, sp, c)
    BY <1>2 DEF Leaf
<1>5. Leaves(mem2, sp)
    BY <1>4 DEF Shape, Leaves
<1>6. ASSUME NEW c \in Half, Leaf(mem, sp, c).present
      PROVE  mem2[Leaf(mem, sp, c).frame] = mem[Leaf(mem, sp, c).frame]
    <2>1. Leaf(mem, sp, c) # NoEntry
        BY <1>6 DEF NoEntry
    <2>2. PICK j \in 4 .. Len(sp.tables) : Leaf(mem, sp, c) = TableEntry(sp.tables[j], TRUE, TRUE)
        BY <2>1 DEF Shape, Leaves
    <2>3. Leaf(mem, sp, c).frame = sp.tables[j] /\ j \in 1 .. Len(sp.tables)
        BY <1>1, <2>2 DEF TableEntry, PageEntry
    <2>4. QED
        BY <2>3
<1>7. UsersMapped(mem2, sp)
    BY <1>4, <1>6 DEF Shape, UsersMapped
<1>8. QED
    BY <1>3, <1>5, <1>7 DEF Shape

\* Tables that are not the kernel's are written.
LEMMA OthersWritten ==
    ASSUME NEW R, Machine(R), NEW kk, NEW en, NEW h, NEW H, KInv(R, kk, en, h, H),
           NEW mem2 \in Memory(R),
           \A f \in ImageFrames \cup FramesOf(R) : f \notin H => mem2[f] = kk.mem[f]
    PROVE  LET kk2 == [kk EXCEPT !.mem = mem2] IN
           KInv(R, kk2, en, h, H) /\ kk2.mem = mem2 /\ kk2.pm = kk.pm
           /\ kk2.cleanupFailed = kk.cleanupFailed
<1> DEFINE kk2 == [kk EXCEPT !.mem = mem2]
<1>1. /\ kk \in KernelMemory(R) /\ KTree(R, kk.mem, en) /\ Good(R, kk.pm, h)
      /\ Owners(R, kk, en, h, H) /\ Recorded(kk, en)
    BY DEF KInv
<1>2. /\ kk2 \in KernelMemory(R) /\ kk2.mem = mem2 /\ kk2.pm = kk.pm
      /\ kk2.records = kk.records /\ kk2.overflowed = kk.overflowed
      /\ kk2.cleanupFailed = kk.cleanupFailed
    BY <1>1 DEF KernelMemory
<1> HIDE DEF kk2
<1>3. H \subseteq FramesOf(R) /\ H \cap KernelFrames(R, en) = {}
    BY <1>1 DEF Owners, Good
<1>4. ASSUME NEW n \in Node, en[n].present PROVE mem2[en[n].frame] = kk.mem[en[n].frame]
    <2>1. en[n].frame \in ImageFrames \cup FramesOf(R)
        BY <1>1, <1>4, TreeFrames
    <2>2. en[n].frame \notin H
        BY <1>3, <1>4 DEF KernelFrames
    <2>3. QED
        BY <2>1, <2>2
<1>5. mem2[BootP2] = kk.mem[BootP2]
    <2>1. BootP2 \in ImageFrames
        BY DEF BootP2, ImageFrames
    <2>2. BootP2 \notin H
        BY <1>3, <2>1 DEF Machine
    <2>3. QED
        BY <2>1, <2>2
<1>6. KTree(R, mem2, en)
    BY <1>1, <1>4, <1>5, TreeKept
<1>7. Owners(R, kk2, en, h, H)
    BY <1>1, <1>2 DEF Owners
<1>8. Recorded(kk2, en)
    BY <1>1, <1>2, RecordedKept
<1>9. KInv(R, kk2, en, h, H)
    BY <1>1, <1>2, <1>6, <1>7, <1>8 DEF KInv
<1>10. QED
    BY <1>2, <1>9 DEF kk2

\* An entry of a table that is not the kernel's is set.
EntrySet(R, kk, en, h, H, t, i, e, kk2) ==
    /\ KInv(R, kk2, en, h, H) /\ kk2.pm = kk.pm
    /\ kk2.mem[t][i] = e
    /\ \A j \in Index : j # i => kk2.mem[t][j] = kk.mem[t][j]
    /\ \A f \in ImageFrames \cup FramesOf(R) : f # t => kk2.mem[f] = kk.mem[f]

LEMMA OtherEntrySet ==
    ASSUME NEW R, Machine(R), NEW kk, NEW en, NEW h, NEW H, KInv(R, kk, en, h, H),
           NEW t \in H, NEW i \in Index, NEW e \in Entry
    PROVE  EntrySet(R, kk, en, h, H, t, i, e, [kk EXCEPT !.mem[t][i] = e])
<1> DEFINE mem2 == [kk.mem EXCEPT ![t][i] = e]
           kk2 == [kk EXCEPT !.mem[t][i] = e]
<1>1. kk \in KernelMemory(R) /\ kk.mem \in [ImageFrames \cup FramesOf(R) -> [Index -> Entry]]
    BY DEF KInv, KernelMemory, Memory, Table
<1>2. t \in ImageFrames \cup FramesOf(R)
    BY DEF KInv, Owners, Good
<1>3. /\ mem2 \in Memory(R)
      /\ mem2[t][i] = e /\ \A j \in Index : j # i => mem2[t][j] = kk.mem[t][j]
      /\ \A f \in ImageFrames \cup FramesOf(R) : f # t => mem2[f] = kk.mem[f]
    BY <1>1, <1>2 DEF Memory, Table
<1>4. kk2 = [kk EXCEPT !.mem = mem2]
    BY <1>1 DEF KernelMemory
<1> HIDE DEF mem2, kk2
<1>5. KInv(R, kk2, en, h, H) /\ kk2.mem = mem2 /\ kk2.pm = kk.pm
    BY <1>3, <1>4, OthersWritten
<1>6. QED
    BY <1>3, <1>5 DEF kk2, EntrySet

-----------------------------------------------------------------------------
(* AddressSpace::create.                                                   *)

\* The state of a call that works on a space.
Call(R, c) ==
    /\ c = [k |-> c.k, space |-> c.space, frame |-> c.frame]
    /\ c.space \in Space(R)

\* What allocate_table_frame leaves.
TableOutcome(R, en, h, H, r, c, z) ==
    /\ Call(R, z)
    /\ \/ /\ z.frame = NoFrame /\ z.space = c.space /\ z.k.mem = c.k.mem
          /\ KInv(R, z.k, en, h, H) /\ Room(z.k.pm, r)
       \/ /\ z.frame \in FramesOf(R) /\ z.frame # NoFrame /\ Reachable(z.frame)
          /\ z.space = [c.space EXCEPT !.tables = Append(c.space.tables, z.frame)]
          /\ Taken(R, c.k, en, h, H, z.k, z.frame) /\ Room(z.k.pm, r + 1)

LEMMA AllocateTableIs ==
    ASSUME NEW R, Machine(R), NEW en, NEW h, NEW H, NEW c, Call(R, c), KInv(R, c.k, en, h, H),
           NEW r \in Nat, Room(c.k.pm, r), r < MaxRecycled
    PROVE  TableOutcome(R, en, h, H, r, c, AllocateTable(c))
<1> DEFINE z == AllocateTable(c)
           y == AllocateZeroed(c.k)
<1>1. c = [k |-> c.k, space |-> c.space, frame |-> c.frame] /\ c.space \in Space(R)
    BY DEF Call
<1>2. Obtained(R, c.k, h, r, y)
    BY AllocateZeroedIs DEF KInv, Machine
<1> HIDE DEF y
<1>3. CASE z = [c EXCEPT !.frame = NoFrame]
    <2>1. /\ z.k = c.k /\ z.space = c.space /\ z.frame = NoFrame
          /\ z = [k |-> c.k, space |-> c.space, frame |-> NoFrame]
        BY <1>1, <1>3
    <2> HIDE DEF z
    <2>2. TableOutcome(R, en, h, H, r, c, z)
        BY <1>1, <2>1 DEF TableOutcome, Call
    <2>3. QED
        BY <2>2 DEF z
<1>4. CASE y.frame = NoFrame /\ z = [c EXCEPT !.k = y.k, !.frame = NoFrame]
    <2>1. /\ z.k = y.k /\ z.space = c.space /\ z.frame = NoFrame
          /\ z = [k |-> y.k, space |-> c.space, frame |-> NoFrame]
        BY <1>1, <1>4
    <2>2. KInv(R, y.k, en, h, H) /\ Room(y.k.pm, r) /\ y.k.mem = c.k.mem
        BY <1>2, <1>4, UntakenKept
    <2> HIDE DEF z
    <2>3. TableOutcome(R, en, h, H, r, c, z)
        BY <1>1, <2>1, <2>2 DEF TableOutcome, Call
    <2>4. QED
        BY <2>3 DEF z
<1>5. CASE /\ y.frame # NoFrame
           /\ z = [k |-> y.k, frame |-> y.frame,
                   space |-> [c.space EXCEPT !.tables = Append(c.space.tables, y.frame)]]
    <2> DEFINE sp == [c.space EXCEPT !.tables = Append(c.space.tables, y.frame)]
    <2>1. Taken(R, c.k, en, h, H, y.k, y.frame)
        BY <1>2, <1>5, TakenKept
    <2>2. y.frame \in FramesOf(R) /\ Reachable(y.frame) /\ Room(y.k.pm, r + 1)
        BY <1>2, <1>5 DEF Obtained
    <2>3. Append(c.space.tables, y.frame) \in Seq(FramesOf(R))
        BY <1>1, <2>2, SpaceFields, AppendProperties
    <2>4. sp \in Space(R)
        BY <1>1, <2>3 DEF Space
    <2>5. /\ z.k = y.k /\ z.space = sp /\ z.frame = y.frame
          /\ z = [k |-> y.k, space |-> sp, frame |-> y.frame]
        BY <1>5
    <2> HIDE DEF z
    <2>6. TableOutcome(R, en, h, H, r, c, z)
        BY <1>5, <2>1, <2>2, <2>4, <2>5 DEF TableOutcome, Call
    <2>7. QED
        BY <2>6 DEF z
<1>6. QED
    <2>1. \/ z = [c EXCEPT !.frame = NoFrame]
          \/ y.frame = NoFrame /\ z = [c EXCEPT !.k = y.k, !.frame = NoFrame]
          \/ /\ y.frame # NoFrame
             /\ z = [k |-> y.k, frame |-> y.frame,
                     space |-> [c.space EXCEPT !.tables = Append(c.space.tables, y.frame)]]
        BY DEF AllocateTable, AddTable, y
    <2>2. QED
        BY <1>3, <1>4, <1>5, <2>1

\* A call that has allocated n tables, which are empty, for the space.
Tables(R, kk, en, H, n, c) ==
    /\ Call(R, c)
    /\ c.space.root = NoFrame /\ c.space.users = <<>> /\ c.space.active = FALSE
    /\ Len(c.space.tables) = n /\ Injective(c.space.tables)
    /\ \A j \in 1 .. n : /\ Reachable(c.space.tables[j]) /\ c.space.tables[j] \notin H
                         /\ c.k.mem[c.space.tables[j]] = ZeroTable
    /\ Room(c.k.pm, n)
    /\ \A f \in H : c.k.mem[f] = kk.mem[f]
    /\ \E h2 : KInv(R, c.k, en, h2, H \cup Owned(c.space))

\* One more table, or none.
TableAdded(R, kk, en, H, n, c, z) ==
    IF z.frame = NoFrame THEN Tables(R, kk, en, H, n, z)
    ELSE /\ Tables(R, kk, en, H, n + 1, z) /\ z.frame = z.space.tables[n + 1]
         /\ \A j \in 1 .. n : z.space.tables[j] = c.space.tables[j]

LEMMA OneMoreTable ==
    ASSUME NEW R, Machine(R), NEW kk, NEW en, NEW H, H \subseteq FramesOf(R),
           NEW n \in Nat, n < MaxRecycled, NEW c, Tables(R, kk, en, H, n, c)
    PROVE  TableAdded(R, kk, en, H, n, c, AllocateTable(c))
<1> DEFINE z == AllocateTable(c)
           T == c.space.tables
           G == H \cup Owned(c.space)
<1>1. PICK h2 : KInv(R, c.k, en, h2, G)
    BY DEF Tables
<1>2. Call(R, c) /\ Room(c.k.pm, n) /\ Len(T) = n /\ c.space \in Space(R)
    BY DEF Tables, Call
<1>3. TableOutcome(R, en, h2, G, n, c, z)
    BY <1>1, <1>2, AllocateTableIs
<1> HIDE DEF z
<1>4. Call(R, z) /\ z.space \in Space(R)
    BY <1>3 DEF TableOutcome, Call
<1>5. CASE z.frame = NoFrame
    <2>1. /\ z.space = c.space /\ z.k.mem = c.k.mem
          /\ KInv(R, z.k, en, h2, G) /\ Room(z.k.pm, n)
        BY <1>3, <1>5, FrameFacts DEF TableOutcome, Machine
    <2>2. Tables(R, kk, en, H, n, z)
        BY <1>4, <2>1 DEF Tables
    <2>3. QED
        BY <1>5, <2>2 DEF z, TableAdded
<1>6. CASE z.frame # NoFrame
    <2> DEFINE f == z.frame
    <2>1. /\ f \in FramesOf(R) /\ Reachable(f) /\ z.space = [c.space EXCEPT !.tables = Append(T, f)]
          /\ Taken(R, c.k, en, h2, G, z.k, f) /\ Room(z.k.pm, n + 1)
        BY <1>3, <1>6 DEF TableOutcome
    <2> HIDE DEF f
    <2>2. /\ KInv(R, z.k, en, h2 \cup {f}, G \cup {f}) /\ f \notin G
          /\ z.k.mem[f] = ZeroTable
          /\ \A g \in ImageFrames \cup FramesOf(R) : g # f => z.k.mem[g] = c.k.mem[g]
        BY <2>1, Zenon DEF Taken
    <2>3. T \in Seq(FramesOf(R)) /\ \A j \in 1 .. n : T[j] \in FramesOf(R)
        BY <1>2, SpaceFields
    <2>4. /\ z.space.tables = Append(T, f) /\ z.space.root = NoFrame /\ z.space.users = <<>>
          /\ z.space.active = FALSE
        BY <1>2, <2>1 DEF Space, Tables
    <2> DEFINE U == z.space.tables
    <2>5. Len(U) = n + 1 /\ U[n + 1] = f /\ \A j \in 1 .. n : U[j] = T[j]
        BY <1>2, <2>1, <2>3, <2>4, AppendProperties
    <2> HIDE DEF U
    <2>6. 1 .. n + 1 = (1 .. n) \cup {n + 1}
        OBVIOUS
    <2>7. Owned(c.space) = {T[j] : j \in 1 .. n}
        <3>1. Owned(c.space) = {T[j] : j \in 1 .. Len(T)}
                               \cup {c.space.users[j].frame : j \in 1 .. Len(c.space.users)}
            BY <1>2, OwnedIs
        <3>2. 1 .. Len(c.space.users) = {}
            BY DEF Tables
        <3>3. QED
            BY <1>2, <3>1, <3>2
    <2>8. Owned(z.space) = {U[j] : j \in 1 .. n + 1}
        <3>1. Owned(z.space) = {U[j] : j \in 1 .. Len(U)}
                               \cup {z.space.users[j].frame : j \in 1 .. Len(z.space.users)}
            BY <1>4, OwnedIs DEF U
        <3>2. 1 .. Len(z.space.users) = {}
            BY <2>4
        <3>3. QED
            BY <2>5, <3>1, <3>2
    <2>9. Owned(z.space) = Owned(c.space) \cup {f}
        <3>1. {U[j] : j \in 1 .. n + 1} = {U[j] : j \in 1 .. n} \cup {U[n + 1]}
            BY <2>6, Zenon
        <3>2. {U[j] : j \in 1 .. n} = {T[j] : j \in 1 .. n}
            BY <2>5
        <3>3. QED
            BY <2>5, <2>7, <2>8, <3>1, <3>2
    <2>10. KInv(R, z.k, en, h2 \cup {f}, H \cup Owned(z.space))
        <3>1. G \cup {f} = H \cup Owned(z.space)
            BY <2>9
        <3>2. QED
            BY <2>2, <3>1
    <2>11. \A j \in 1 .. n : T[j] # f
        BY <2>2, <2>7
    <2>12. Injective(U)
        <3>1. Injective(T)
            BY DEF Tables
        <3>2. \A i, j \in 1 .. n : U[i] = U[j] => i = j
            BY <1>2, <2>5, <3>1 DEF Injective
        <3>3. \A i \in 1 .. n : U[i] # U[n + 1]
            BY <2>5, <2>11
        <3>4. QED
            BY <2>5, <2>6, <3>2, <3>3 DEF Injective
    <2>13. ASSUME NEW j \in 1 .. n + 1
           PROVE  /\ Reachable(U[j]) /\ U[j] \notin H /\ z.k.mem[U[j]] = ZeroTable
        <3>1. CASE j = n + 1
            BY <2>1, <2>2, <2>5, <3>1
        <3>2. CASE j \in 1 .. n
            <4>1. /\ Reachable(T[j]) /\ T[j] \notin H /\ c.k.mem[T[j]] = ZeroTable
                BY <3>2 DEF Tables
            <4>2. z.k.mem[T[j]] = c.k.mem[T[j]]
                BY <2>2, <2>3, <2>11, <3>2
            <4>3. QED
                BY <2>5, <3>2, <4>1, <4>2
        <3>3. QED
            BY <2>6, <3>1, <3>2
    <2>14. \A g \in H : z.k.mem[g] = kk.mem[g]
        <3>1. \A g \in H : g # f /\ g \in FramesOf(R)
            BY <2>2
        <3>2. QED
            BY <2>2, <3>1 DEF Tables
    <2>15. Tables(R, kk, en, H, n + 1, z)
        BY <1>4, <2>1, <2>4, <2>5, <2>10, <2>12, <2>13, <2>14 DEF Tables, U
    <2>16. /\ z.frame = z.space.tables[n + 1]
           /\ \A j \in 1 .. n : z.space.tables[j] = c.space.tables[j]
        BY <2>5 DEF U, f
    <2>17. QED
        BY <1>6, <2>15, <2>16 DEF z, TableAdded
<1>7. QED
    BY <1>5, <1>6 DEF z

\* The frames O of a space are given back, as far as the stack takes them: kk2
\* is kk with them freed, and owns up to the ones that it refused.
GivenBack(R, kk, s, kk2) ==
    /\ kk2 \in KernelMemory(R)
    /\ kk2.pm = FreeAll(kk.pm, s)
    /\ kk2.mem = kk.mem /\ kk2.records = kk.records /\ kk2.overflowed = kk.overflowed
    /\ ~ kk2.cleanupFailed => /\ ~ kk.cleanupFailed
                              /\ Len(kk2.pm.recycled) = Len(kk.pm.recycled) + Len(s)

\* The frames G are those of H and those of O.
Splits(G, H, O) == G = H \cup O /\ H \cap O = {}

LEMMA GivenBackIs ==
    ASSUME NEW R, Machine(R), NEW kk, NEW en, NEW h, NEW H, NEW G, KInv(R, kk, en, h, G),
           NEW s, Len(s) \in Nat, Injective(s),
           Splits(G, H, Firsts(s, Len(s))),
           NEW kk2, GivenBack(R, kk, s, kk2), Room(kk.pm, 0)
    PROVE  (\E h2 : KInv(R, kk2, en, h2, H)) /\ Room(kk2.pm, 0) /\ kk2.mem = kk.mem
<1> DEFINE n == Len(s)
           O == Firsts(s, n)
<1>1. /\ kk \in KernelMemory(R) /\ KTree(R, kk.mem, en) /\ Good(R, kk.pm, h)
      /\ Owners(R, kk, en, h, G) /\ Recorded(kk, en) /\ IsRegionArray(R)
    BY DEF KInv, Machine
<1>0. G = H \cup O /\ H \cap O = {}
    BY Zenon DEF Splits
<1>2. O \subseteq h
    BY <1>0, <1>1 DEF Owners
<1>3. \A j \in 1 .. Len(s) : s[j] \in h
    BY <1>2 DEF Firsts
<1>4. FreeState(R, kk.pm, h, s, n, kk2.pm)
    BY <1>1, <1>3, FreeAllIs DEF GivenBack
<1>5. PICK h2 : /\ Good(R, kk2.pm, h2)
                /\ h \ O \subseteq h2 /\ h2 \subseteq h
                /\ Len(kk2.pm.recycled) = Len(kk.pm.recycled) + n => h2 = h \ O
                /\ Room(kk2.pm, 0)
    BY <1>4, Zenon DEF FreeState
<1>6. Owners(R, kk2, en, h2, H)
    <2>1. /\ G \cup KernelFrames(R, en) \subseteq h /\ G \cap KernelFrames(R, en) = {}
          /\ ~ kk.cleanupFailed => h \subseteq G \cup KernelFrames(R, en)
        BY <1>1 DEF Owners
    <2>2. H \cup KernelFrames(R, en) \subseteq h2 /\ H \cap KernelFrames(R, en) = {}
        BY <1>0, <1>5, <2>1
    <2>3. ASSUME ~ kk2.cleanupFailed PROVE h2 \subseteq H \cup KernelFrames(R, en)
        <3>1. h2 = h \ O /\ ~ kk.cleanupFailed
            BY <1>5, <2>3 DEF GivenBack
        <3>2. QED
            BY <1>0, <2>1, <3>1
    <2>4. QED
        BY <2>2, <2>3 DEF Owners
<1>7. KTree(R, kk2.mem, en) /\ Recorded(kk2, en) /\ kk2 \in KernelMemory(R)
    BY <1>1, RecordedKept DEF GivenBack
<1>8. KInv(R, kk2, en, h2, H)
    BY <1>5, <1>6, <1>7 DEF KInv
<1>9. QED
    BY <1>5, <1>8 DEF GivenBack

\* The same frames in the opposite order.
LEMMA ReverseFirsts ==
    ASSUME NEW T, NEW s \in Seq(T), Injective(s)
    PROVE  /\ Injective(Reverse(s))
           /\ Firsts(Reverse(s), Len(Reverse(s))) = Firsts(s, Len(s))
<1> DEFINE n == Len(s)
           t == Reverse(s)
<1>1. n \in Nat /\ Len(t) = n /\ \A i \in 1 .. n : t[i] = s[(n - i) + 1]
    BY ReverseIs, LenProperties
<1> HIDE DEF n, t
<1>0. n \in Nat
    BY <1>1
<1>2. \A i \in 1 .. n : (n - i) + 1 \in 1 .. n /\ (n - ((n - i) + 1)) + 1 = i
    BY <1>0
<1>3. \A i, j \in 1 .. n : (n - i) + 1 = (n - j) + 1 => i = j
    BY <1>0
<1>4. Injective(t)
    <2>1. \A i, j \in 1 .. n : s[i] = s[j] => i = j
        BY DEF Injective, n
    <2>2. ASSUME NEW i \in 1 .. n, NEW j \in 1 .. n, t[i] = t[j] PROVE i = j
        <3>1. s[(n - i) + 1] = s[(n - j) + 1]
            BY <1>1, <2>2
        <3>2. (n - i) + 1 = (n - j) + 1
            BY <1>2, <2>1, <3>1
        <3>3. QED
            BY <1>3, <3>2
    <2>3. QED
        BY <1>1, <2>2 DEF Injective
<1>5. ASSUME NEW i \in 1 .. n PROVE t[i] \in Firsts(s, n) /\ s[i] \in Firsts(t, n)
    <2>1. t[(n - i) + 1] = s[i]
        BY <1>1, <1>2
    <2>2. QED
        BY <1>1, <1>2, <2>1 DEF Firsts
<1>6. Firsts(t, n) = Firsts(s, n)
    <2>1. \A x \in Firsts(t, n) : x \in Firsts(s, n)
        BY <1>5 DEF Firsts
    <2>2. \A x \in Firsts(s, n) : x \in Firsts(t, n)
        BY <1>5 DEF Firsts
    <2>3. QED
        BY <2>1, <2>2
<1>7. QED
    BY <1>1, <1>4, <1>6 DEF n, t

LEMMA EmptySpaceIs ==
    ASSUME NEW R
    PROVE  /\ EmptySpace \in Space(R) /\ EmptySpace.tables = <<>> /\ EmptySpace.users = <<>>
           /\ EmptySpace.root = NoFrame /\ EmptySpace.active = FALSE
           /\ Owned(EmptySpace) = {}
<1>1. <<>> \in Seq(FramesOf(R)) /\ <<>> \in Seq(User(R))
    BY EmptySeq
<1>2. /\ EmptySpace \in Space(R) /\ EmptySpace.tables = <<>> /\ EmptySpace.users = <<>>
      /\ EmptySpace.root = NoFrame /\ EmptySpace.active = FALSE
    BY <1>1 DEF EmptySpace, Space, NoFrame
<1>3. 1 .. Len(EmptySpace.tables) = {} /\ 1 .. Len(EmptySpace.users) = {}
    BY <1>2
<1>4. QED
    BY <1>2, <1>3, OwnedIs

\* A call that has failed and left nothing behind.
NoSpace(R, kk, en, H, x) ==
    /\ x.frame = NoFrame /\ x.space = EmptySpace
    /\ Room(x.k.pm, 0)
    /\ \A f \in H : x.k.mem[f] = kk.mem[f]
    /\ \E h2 : KInv(R, x.k, en, h2, H)

LEMMA ReleasePartialIs ==
    ASSUME NEW R, Machine(R), NEW kk, NEW en, NEW H, NEW n \in Nat,
           NEW c, Tables(R, kk, en, H, n, c)
    PROVE  NoSpace(R, kk, en, H, ReleasePartial(c))
<1> DEFINE T == c.space.tables
           s == Reverse(T)
           G == H \cup Owned(c.space)
           b == FreeAll(c.k.pm, s)
           kk2 == [c.k EXCEPT !.pm = b]
           z == ReleasePartial(c)
<1>1. PICK h : KInv(R, c.k, en, h, G)
    BY DEF Tables
<1>2. /\ c = [k |-> c.k, space |-> c.space, frame |-> c.frame] /\ c.space \in Space(R)
      /\ Room(c.k.pm, n) /\ Len(T) = n /\ Injective(T) /\ T \in Seq(FramesOf(R))
    BY SpaceFields DEF Tables, Call
<1>3. c.k \in KernelMemory(R) /\ Good(R, c.k.pm, h) /\ G \subseteq h
      /\ IsRegionArray(R)
    BY <1>1 DEF KInv, Owners, Machine
<1>4. z.k = kk2 /\ z.space = EmptySpace /\ z.frame = NoFrame
    <2>1. z = [c EXCEPT !.k.pm = b, !.space = EmptySpace, !.frame = NoFrame]
        BY DEF ReleasePartial
    <2> HIDE DEF b, z
    <2>2. QED
        BY <1>2, <1>3, <2>1 DEF KernelMemory
<1>5. Injective(s) /\ Firsts(s, Len(s)) = Firsts(T, n) /\ Len(s) = n
    BY <1>2, ReverseFirsts, ReverseIs
<1>6. Owned(c.space) = Firsts(T, n)
    <2>1. 1 .. Len(c.space.users) = {}
        BY DEF Tables
    <2>2. QED
        BY <1>2, <2>1, OwnedIs DEF Firsts
<1>7. Splits(G, H, Firsts(s, Len(s)))
    <2>1. \A j \in 1 .. n : T[j] \notin H
        BY DEF Tables
    <2>2. QED
        BY <1>5, <1>6, <2>1 DEF Firsts, Splits
<1>8. FreeState(R, c.k.pm, h, s, Len(s), b)
    <2>1. \A j \in 1 .. Len(s) : s[j] \in h
        BY <1>3, <1>7 DEF Firsts, Splits
    <2>2. QED
        BY <1>3, <1>5, <2>1, FreeAllIs
<1>9. b \in AllocatorState(R) /\ Len(b.recycled) = Len(c.k.pm.recycled) + Len(s)
    BY <1>2, <1>5, <1>8 DEF FreeState, Good
<1> HIDE DEF s, G
<1>10. GivenBack(R, c.k, s, kk2)
    <2>1. kk2.pm = b
        BY <1>3 DEF KernelMemory
    <2>2. kk2 \in KernelMemory(R) /\ kk2.mem = c.k.mem /\ kk2.records = c.k.records
          /\ kk2.overflowed = c.k.overflowed /\ kk2.cleanupFailed = c.k.cleanupFailed
        <3> HIDE DEF b
        <3>1. QED
            BY <1>3, <1>9 DEF KernelMemory
    <2>3. b = FreeAll(c.k.pm, s)
        BY DEF b
    <2> HIDE DEF b, kk2
    <2>4. QED
        BY <1>9, <2>1, <2>2, <2>3 DEF GivenBack
<1> HIDE DEF kk2, z, b
<1>11. Room(c.k.pm, 0)
    BY <1>1, <1>2, RoomZero
<1>12. (\E h2 : KInv(R, kk2, en, h2, H)) /\ Room(kk2.pm, 0) /\ kk2.mem = c.k.mem
    <2>1. Len(s) \in Nat /\ Injective(s)
        BY <1>5
    <2> HIDE DEF T
    <2>2. QED
        BY <1>1, <1>7, <1>10, <1>11, <2>1, GivenBackIs
<1>13. \A f \in H : c.k.mem[f] = kk.mem[f]
    BY DEF Tables
<1>14. NoSpace(R, kk, en, H, z)
    BY <1>4, <1>12, <1>13 DEF NoSpace
<1>15. QED
    BY <1>14 DEF z

OwnTablesAre(R, mem, hi, t1, t2, t3, mem2) ==
    /\ mem2 \in Memory(R)
    /\ mem2[t1][0] = TableEntry(t2, TRUE, TRUE) /\ mem2[t1][1] = hi
    /\ mem2[t2][0] = TableEntry(BootP2, TRUE, FALSE)
    /\ mem2[t2][1] = TableEntry(t3, TRUE, TRUE)
    /\ \A f \in ImageFrames \cup FramesOf(R) : f \notin {t1, t2} => mem2[f] = mem[f]

LEMMA OwnTablesIs ==
    ASSUME NEW R, Machine(R), NEW mem \in Memory(R), NEW en, KTree(R, mem, en),
           NEW t1 \in FramesOf(R), NEW t2 \in FramesOf(R), NEW t3 \in FramesOf(R), t1 # t2
    PROVE  OwnTablesAre(R, mem, en[N3(1)], t1, t2, t3, OwnTables(mem, t1, t2, t3))
<1> DEFINE mem2 == OwnTables(mem, t1, t2, t3)
           a1 == [mem[BootP4] EXCEPT ![0] = TableEntry(t2, TRUE, TRUE)]
           a2 == [mem[BootP3] EXCEPT ![1] = TableEntry(t3, TRUE, TRUE)]
<1> HIDE DEF mem2, a1, a2
<1>1. BootP4 \in ImageFrames /\ BootP3 \in ImageFrames /\ 0 \in Index /\ 1 \in Index
      /\ 0 \in Half /\ 1 \in Half /\ 0 # 1
    BY SmallNumbers DEF BootP4, BootP3, ImageFrames
<1>2. /\ N3(0) \in Inner /\ N3(1) \in Inner /\ N3(0) \in Node /\ Parent(N3(0)) = Root
      /\ Parent(N3(1)) = Root /\ Slot(N3(0)) = 0 /\ Slot(N3(1)) = 1 /\ IsTable(N3(0))
      /\ N3(0) # Root /\ Spare(N3(0)) = Index \ {1 - 0}
    BY <1>1, NodeMembers, NodeTree, NodesDiffer, NodeSpare
<1>3. en[Root].present /\ en[Root].frame = BootP4
    BY DEF KTree, TableEntry, PageEntry
<1>4. mem[BootP4][0] = en[N3(0)] /\ mem[BootP4][1] = en[N3(1)]
    <2>1. \A n \in Inner : en[Parent(n)].present => mem[en[Parent(n)].frame][Slot(n)] = en[n]
        BY DEF KTree
    <2>2. mem[en[Parent(N3(0))].frame][Slot(N3(0))] = en[N3(0)]
        BY <1>2, <1>3, <2>1
    <2>3. mem[en[Parent(N3(1))].frame][Slot(N3(1))] = en[N3(1)]
        BY <1>2, <1>3, <2>1
    <2>4. QED
        BY <1>2, <1>3, <2>2, <2>3
<1>5. en[N3(0)].present /\ en[N3(0)].frame = BootP3
    <2>1. en[N3(0)].present
        BY DEF KTree
    <2>2. FrameOk(R, N3(0), en[N3(0)])
        BY <1>2, <2>1 DEF KTree, EntryOf, NoEntry
    <2>3. QED
        BY <1>2, <2>1, <2>2 DEF FrameOk
<1>6. mem[BootP3][0] = TableEntry(BootP2, TRUE, FALSE)
    <2>1. 0 \in Spare(N3(0))
        BY <1>1, <1>2
    <2>2. mem[en[N3(0)].frame][0] = Fixed(N3(0), 0)
        BY <1>2, <1>5, <2>1 DEF KTree
    <2>3. QED
        BY <1>5, <2>2 DEF Fixed
<1>7. mem \in [ImageFrames \cup FramesOf(R) -> [Index -> Entry]]
    BY DEF Memory, Table
<1>8. TableEntry(t2, TRUE, TRUE) \in Entry /\ TableEntry(t3, TRUE, TRUE) \in Entry
    <2>1. t2 \in Nat /\ t3 \in Nat
        BY FrameFacts DEF Machine
    <2>2. QED
        BY <2>1 DEF TableEntry, PageEntry, Entry
<1>9. /\ a1 \in [Index -> Entry] /\ a1[0] = TableEntry(t2, TRUE, TRUE) /\ a1[1] = mem[BootP4][1]
      /\ a2 \in [Index -> Entry] /\ a2[1] = TableEntry(t3, TRUE, TRUE) /\ a2[0] = mem[BootP3][0]
    BY <1>1, <1>7, <1>8 DEF a1, a2
<1>10. mem2 = [mem EXCEPT ![t1] = a1, ![t2] = a2]
    BY <1>4, <1>5 DEF OwnTables, mem2, a1, a2
<1>11. /\ mem2 \in [ImageFrames \cup FramesOf(R) -> [Index -> Entry]]
       /\ mem2[t1] = a1 /\ mem2[t2] = a2
       /\ \A f \in ImageFrames \cup FramesOf(R) : f \notin {t1, t2} => mem2[f] = mem[f]
    BY <1>7, <1>9, <1>10
<1>12. QED
    BY <1>4, <1>6, <1>9, <1>11 DEF mem2, Memory, Table, OwnTablesAre

\* A space that was made, apart from the frames H that others have.
SpaceState(R, kk, en, H, x) ==
    /\ Call(R, x)
    /\ Shape(R, x.k.mem, en[N3(1)], x.space)
    /\ Owned(x.space) \cap H = {}
    /\ Room(x.k.pm, 0)
    /\ \A f \in H : x.k.mem[f] = kk.mem[f]
    /\ \E h2 : KInv(R, x.k, en, h2, H \cup Owned(x.space))

\* With its three tables the space is given the boot tables.
Made(c, t1, t2, t3) ==
    [c EXCEPT !.k.mem = OwnTables(c.k.mem, t1, t2, t3),
              !.space.root = t1,
              !.space.active = TRUE]

LEMMA SpaceMade ==
    ASSUME NEW R, Machine(R), NEW kk, NEW en, NEW H, H \subseteq FramesOf(R),
           NEW c, Tables(R, kk, en, H, 3, c), NEW x,
           x = Made(c, c.space.tables[1], c.space.tables[2], c.space.tables[3])
    PROVE  SpaceState(R, kk, en, H, x) /\ x.frame = c.frame
<1> DEFINE T == c.space.tables
           G == H \cup Owned(c.space)
           mem2 == OwnTables(c.k.mem, T[1], T[2], T[3])
           kk2 == [c.k EXCEPT !.mem = mem2]
           sp == [c.space EXCEPT !.root = T[1], !.active = TRUE]
<1>1. PICK h : KInv(R, c.k, en, h, G)
    BY DEF Tables
<1>2. /\ c = [k |-> c.k, space |-> c.space, frame |-> c.frame] /\ c.space \in Space(R)
      /\ Room(c.k.pm, 3) /\ Len(T) = 3 /\ Injective(T) /\ T \in Seq(FramesOf(R))
      /\ \A j \in 1 .. 3 : T[j] \in FramesOf(R)
      /\ c.space.users = <<>>
    BY SpaceFields DEF Tables, Call
<1>3. c.k \in KernelMemory(R) /\ c.k.mem \in Memory(R) /\ KTree(R, c.k.mem, en)
    BY <1>1 DEF KInv, KernelMemory
<1>4. /\ 1 \in 1 .. 3 /\ 2 \in 1 .. 3 /\ 3 \in 1 .. 3
      /\ \A j \in 1 .. 3 : j = 1 \/ j = 2 \/ j = 3
    OBVIOUS
<1>5. /\ T[1] \in FramesOf(R) /\ T[2] \in FramesOf(R) /\ T[3] \in FramesOf(R)
      /\ T[1] # T[2] /\ T[1] # T[3] /\ T[2] # T[3]
    BY <1>2, <1>4 DEF Injective
<1> HIDE DEF T
<1>6. x.k = kk2 /\ x.space = sp /\ x.frame = c.frame /\ x = [k |-> kk2, space |-> sp, frame |-> c.frame]
    <2>1. x = [c EXCEPT !.k.mem = mem2, !.space.root = T[1], !.space.active = TRUE]
        BY DEF T, Made
    <2> HIDE DEF mem2
    <2>2. QED
        BY <1>2, <1>3, <2>1 DEF KernelMemory, Space
<1>7. /\ mem2 \in Memory(R)
      /\ mem2[T[1]][0] = TableEntry(T[2], TRUE, TRUE) /\ mem2[T[1]][1] = en[N3(1)]
      /\ mem2[T[2]][0] = TableEntry(BootP2, TRUE, FALSE)
      /\ mem2[T[2]][1] = TableEntry(T[3], TRUE, TRUE)
      /\ \A f \in ImageFrames \cup FramesOf(R) : f \notin {T[1], T[2]} => mem2[f] = c.k.mem[f]
    <2>1. OwnTablesAre(R, c.k.mem, en[N3(1)], T[1], T[2], T[3], mem2)
        BY <1>3, <1>5, OwnTablesIs
    <2>2. QED
        BY <2>1, Zenon DEF OwnTablesAre
<1>8. /\ sp \in Space(R) /\ sp.tables = T /\ sp.users = <<>> /\ sp.root = T[1] /\ sp.active = TRUE
    <2>1. T[1] \in Nat
        BY <1>5, FrameFacts DEF Machine
    <2>2. QED
        BY <1>2, <2>1 DEF Space, T
<1> HIDE DEF mem2, kk2, sp
<1>9. Owned(sp) = Owned(c.space) /\ Owned(sp) = {T[j] : j \in 1 .. 3}
    <2>1. 1 .. Len(sp.users) = {} /\ 1 .. Len(c.space.users) = {}
        BY <1>2, <1>8
    <2>2. Owned(sp) = {T[j] : j \in 1 .. Len(T)} \cup {}
        BY <1>8, <2>1, OwnedIs
    <2>3. Owned(c.space) = {T[j] : j \in 1 .. Len(T)} \cup {}
        BY <1>2, <2>1, OwnedIs DEF T
    <2>4. Len(T) = 3
        BY <1>2 DEF T
    <2>5. QED
        BY <2>2, <2>3, <2>4
<1>10. T[1] \in G /\ T[2] \in G
    BY <1>4, <1>9
<1>11. KInv(R, kk2, en, h, G) /\ kk2.mem = mem2 /\ kk2.pm = c.k.pm
    <2> HIDE DEF G
    <2>1. \A f \in ImageFrames \cup FramesOf(R) : f \notin G => mem2[f] = c.k.mem[f]
        BY <1>7, <1>10
    <2>2. QED
        BY <1>1, <1>7, <2>1, OthersWritten DEF kk2
<1>12. \A j \in 1 .. 3 : Reachable(T[j]) /\ T[j] \notin H /\ c.k.mem[T[j]] = ZeroTable
    BY DEF Tables, T
<1>13. mem2[T[3]] = ZeroTable
    BY <1>4, <1>5, <1>7, <1>12
<1>14. \A e \in Half : Leaf(mem2, sp, e) = NoEntry
    <2>1. Half \subseteq Index
        BY DEF Half, Index
    <2>2. QED
        BY <1>8, <1>13, <2>1 DEF Leaf, ZeroTable
<1>15. ~ NoEntry.present
    BY DEF NoEntry
<1>16. Leaves(mem2, sp) /\ UsersMapped(mem2, sp)
    <2>1. 1 .. Len(sp.users) = {}
        BY <1>8
    <2>2. QED
        BY <1>14, <1>15, <2>1 DEF Leaves, UsersMapped
<1>17. Upper(mem2, en[N3(1)], sp)
    BY <1>7, <1>8 DEF Upper
<1>18. Distinct(sp)
    <2>1. 1 .. Len(sp.users) = {}
        BY <1>8
    <2>2. QED
        BY <1>2, <1>8, <2>1 DEF Distinct, T
<1>19. Shape(R, mem2, en[N3(1)], sp)
    <2>1. Len(sp.tables) = 3 /\ 3 <= 3
        BY <1>2, <1>8 DEF T
    <2>2. \A j \in 1 .. Len(sp.tables) : Reachable(sp.tables[j])
        BY <1>8, <1>12, <2>1
    <2>3. QED
        BY <1>8, <1>16, <1>17, <1>18, <2>1, <2>2 DEF Shape
<1>20. Owned(sp) \cap H = {}
    BY <1>9, <1>12
<1>21. \A f \in H : mem2[f] = kk.mem[f]
    <2>1. \A f \in H : f \in FramesOf(R) /\ f \notin {T[1], T[2]}
        BY <1>4, <1>12
    <2>2. \A f \in H : c.k.mem[f] = kk.mem[f]
        BY DEF Tables
    <2>3. QED
        BY <1>7, <2>1, <2>2
<1>22. Room(kk2.pm, 0)
    BY <1>1, <1>2, <1>11, RoomZero
<1>23. KInv(R, kk2, en, h, H \cup Owned(sp))
    BY <1>9, <1>11
<1>24. Call(R, x)
    BY <1>6, <1>8 DEF Call
<1>25. QED
    BY <1>6, <1>11, <1>19, <1>20, <1>21, <1>22, <1>23, <1>24 DEF SpaceState

LEMMA CreateSpaceIs ==
    ASSUME NEW R, Machine(R), NEW kk, NEW en, NEW h, NEW H, KInv(R, kk, en, h, H),
           Room(kk.pm, 0)
    PROVE  LET x == CreateSpace(kk) IN
           IF x.frame = NoFrame THEN NoSpace(R, kk, en, H, x) ELSE SpaceState(R, kk, en, H, x)
<1> DEFINE c0 == [k |-> kk, space |-> EmptySpace, frame |-> NoFrame]
           c1 == AllocateTable(c0)
           c2 == AllocateTable(c1)
           c3 == AllocateTable(c2)
           x == CreateSpace(kk)
<1>0. /\ H \subseteq FramesOf(R) /\ 0 < MaxRecycled /\ 1 < MaxRecycled /\ 2 < MaxRecycled
      /\ 0 + 1 = 1 /\ 1 + 1 = 2 /\ 2 + 1 = 3
    <2>1. H \subseteq FramesOf(R)
        BY DEF KInv, Owners, Good
    <2>2. QED
        BY <2>1, RoomFacts
<1>1. \/ c1.frame = NoFrame /\ x = ReleasePartial(c1)
      \/ c1.frame # NoFrame /\ c2.frame = NoFrame /\ x = ReleasePartial(c2)
      \/ c1.frame # NoFrame /\ c2.frame # NoFrame /\ c3.frame = NoFrame /\ x = ReleasePartial(c3)
      \/ /\ c1.frame # NoFrame /\ c2.frame # NoFrame /\ c3.frame # NoFrame
         /\ x = Made(c3, c1.frame, c2.frame, c3.frame)
    BY DEF CreateSpace, Made
<1>2. Tables(R, kk, en, H, 0, c0)
    <2>1. Call(R, c0) /\ c0.space = EmptySpace /\ c0.k = kk
        BY EmptySpaceIs DEF Call
    <2> HIDE DEF c0
    <2>2. Len(EmptySpace.tables) = 0 /\ Injective(EmptySpace.tables)
        <3>1. EmptySpace.tables = <<>>
            BY EmptySpaceIs
        <3>2. Len(<<>>) = 0 /\ 1 .. 0 = {}
            OBVIOUS
        <3>3. QED
            BY <3>1, <3>2 DEF Injective
    <2>3. H \cup Owned(EmptySpace) = H
        BY EmptySpaceIs
    <2>4. \A j \in 1 .. 0 : FALSE
        OBVIOUS
    <2>5. QED
        BY <2>1, <2>2, <2>3, <2>4, EmptySpaceIs DEF Tables
<1> HIDE DEF x, c0
<1>3. IF c1.frame = NoFrame THEN Tables(R, kk, en, H, 0, c1)
      ELSE Tables(R, kk, en, H, 1, c1) /\ c1.frame = c1.space.tables[1]
    <2>1. TableAdded(R, kk, en, H, 0, c0, c1)
        BY <1>0, <1>2, OneMoreTable
    <2>2. QED
        BY <1>0, <2>1 DEF TableAdded
<1> HIDE DEF c1
<1>4. ASSUME c1.frame # NoFrame
      PROVE  IF c2.frame = NoFrame THEN Tables(R, kk, en, H, 1, c2)
             ELSE /\ Tables(R, kk, en, H, 2, c2) /\ c2.frame = c2.space.tables[2]
                  /\ \A j \in 1 .. 1 : c2.space.tables[j] = c1.space.tables[j]
    <2>1. Tables(R, kk, en, H, 1, c1)
        BY <1>3, <1>4
    <2>2. TableAdded(R, kk, en, H, 1, c1, c2)
        BY <1>0, <2>1, OneMoreTable
    <2>3. QED
        BY <1>0, <2>2 DEF TableAdded
<1> HIDE DEF c2
<1>5. ASSUME c1.frame # NoFrame, c2.frame # NoFrame
      PROVE  IF c3.frame = NoFrame THEN Tables(R, kk, en, H, 2, c3)
             ELSE /\ Tables(R, kk, en, H, 3, c3) /\ c3.frame = c3.space.tables[3]
                  /\ \A j \in 1 .. 2 : c3.space.tables[j] = c2.space.tables[j]
    <2>1. Tables(R, kk, en, H, 2, c2)
        BY <1>4, <1>5
    <2>2. TableAdded(R, kk, en, H, 2, c2, c3)
        BY <1>0, <2>1, OneMoreTable
    <2>3. QED
        BY <1>0, <2>2 DEF TableAdded
<1> HIDE DEF c3
<1>6. CASE \E n \in Nat : \E c : Tables(R, kk, en, H, n, c) /\ x = ReleasePartial(c)
    <2>1. NoSpace(R, kk, en, H, x)
        BY <1>6, ReleasePartialIs
    <2>2. x.frame = NoFrame
        BY <2>1 DEF NoSpace
    <2>3. QED
        BY <2>1, <2>2 DEF x
<1>7. CASE /\ c1.frame # NoFrame /\ c2.frame # NoFrame /\ c3.frame # NoFrame
           /\ x = Made(c3, c1.frame, c2.frame, c3.frame)
    <2>1. /\ c1.frame = c3.space.tables[1] /\ c2.frame = c3.space.tables[2]
          /\ c3.frame = c3.space.tables[3]
        BY <1>3, <1>4, <1>5, <1>7
    <2>2. x = Made(c3, c3.space.tables[1], c3.space.tables[2], c3.space.tables[3])
        BY <1>7, <2>1, Zenon
    <2>3. SpaceState(R, kk, en, H, x) /\ x.frame = c3.frame
        BY <1>0, <1>5, <1>7, <2>2, SpaceMade
    <2>4. QED
        BY <1>7, <2>3 DEF x
<1>8. QED
    <2>1. 0 \in Nat /\ 1 \in Nat /\ 2 \in Nat
        OBVIOUS
    <2>2. QED
        BY <1>1, <1>3, <1>4, <1>5, <1>6, <1>7, <2>1

-----------------------------------------------------------------------------
(* AddressSpace::destroy.                                                  *)

LEMMA FramesToFreeIs ==
    ASSUME NEW R, NEW sp \in Space(R), Distinct(sp)
    PROVE  LET s == FramesToFree(sp) IN
           /\ Len(s) \in Nat /\ Len(s) = Len(sp.users) + Len(sp.tables)
           /\ Injective(s) /\ Firsts(s, Len(s)) = Owned(sp)
<1> DEFINE F == [j \in DOMAIN sp.users |-> sp.users[j].frame]
           T == Reverse(sp.tables)
           m == Len(sp.users)
           n == Len(sp.tables)
           s == FramesToFree(sp)
<1>1. /\ m \in Nat /\ DOMAIN sp.users = 1 .. m /\ n \in Nat
      /\ sp.tables \in Seq(FramesOf(R))
      /\ \A j \in 1 .. m : sp.users[j].frame \in FramesOf(R)
    BY SpaceFields, UserFields
<1>2. F \in [1 .. m -> FramesOf(R)] /\ \A j \in 1 .. m : F[j] = sp.users[j].frame
    BY <1>1
<1>3. F \in Seq(FramesOf(R)) /\ Len(F) = m
    <2> HIDE DEF F, m
    <2>1. m \in Nat
        BY <1>1
    <2>2. QED
        BY <1>2, <2>1
<1>4. /\ T \in Seq(FramesOf(R)) /\ Len(T) = n /\ Injective(T)
      /\ Firsts(T, n) = Firsts(sp.tables, n)
    BY <1>1, ReverseIs, ReverseFirsts DEF Distinct
<1>5. s = F \o T
    BY DEF FramesToFree
<1> HIDE DEF F, T, s
<1>6. /\ Len(s) = m + n
      /\ \A i \in 1 .. m + n : s[i] = IF i <= m THEN F[i] ELSE T[i - m]
    <2>1. /\ Len(F \o T) = Len(F) + Len(T)
          /\ \A i \in 1 .. Len(F) + Len(T) :
                (F \o T)[i] = IF i <= Len(F) THEN F[i] ELSE T[i - Len(F)]
        BY <1>3, <1>4, ConcatProperties
    <2> HIDE DEF m, n
    <2>2. QED
        BY <1>3, <1>4, <1>5, <2>1
<1> HIDE DEF m, n
<1>7. m \in Nat /\ n \in Nat
    BY <1>1
<1>8. /\ m + n \in Nat
      /\ \A i \in 1 .. m : i \in 1 .. m + n /\ i <= m
      /\ \A i \in 1 .. n : m + i \in 1 .. m + n /\ ~ (m + i <= m) /\ (m + i) - m = i
      /\ \A i \in 1 .. m + n : i \notin 1 .. m => i - m \in 1 .. n /\ m + (i - m) = i /\ ~ (i <= m)
      /\ \A i, j \in 1 .. m + n : i - m = j - m => i = j
    BY <1>7
<1>9. /\ \A i \in 1 .. m : s[i] = sp.users[i].frame
      /\ \A i \in 1 .. n : s[m + i] = T[i]
      /\ \A i \in 1 .. m + n : i \notin 1 .. m => s[i] = T[i - m]
    BY <1>2, <1>6, <1>8
<1>10. \A i \in 1 .. n : T[i] \in Firsts(sp.tables, n)
    BY <1>4 DEF Firsts
<1>11. \A i \in 1 .. n, j \in 1 .. m : T[i] # sp.users[j].frame
    <2>1. \A i \in 1 .. n, j \in 1 .. m : sp.tables[i] # sp.users[j].frame
        BY DEF Distinct, m, n
    <2>2. QED
        BY <1>10, <2>1 DEF Firsts
<1>12. Injective(s)
    <2>1. \A i, j \in 1 .. n : T[i] = T[j] => i = j
        BY <1>4 DEF Injective
    <2>2. \A i, j \in 1 .. m : sp.users[i].frame = sp.users[j].frame => i = j
        BY DEF Distinct, m
    <2>3. ASSUME NEW i \in 1 .. m + n, NEW j \in 1 .. m + n, s[i] = s[j] PROVE i = j
        <3>1. CASE i \in 1 .. m /\ j \in 1 .. m
            BY <1>9, <2>2, <2>3, <3>1
        <3>2. CASE i \in 1 .. m /\ j \notin 1 .. m
            BY <1>8, <1>9, <1>11, <2>3, <3>2
        <3>3. CASE i \notin 1 .. m /\ j \in 1 .. m
            BY <1>8, <1>9, <1>11, <2>3, <3>3
        <3>4. CASE i \notin 1 .. m /\ j \notin 1 .. m
            <4>1. T[i - m] = T[j - m] /\ i - m \in 1 .. n /\ j - m \in 1 .. n
                BY <1>8, <1>9, <2>3, <3>4
            <4>2. i - m = j - m
                BY <2>1, <4>1
            <4>3. QED
                BY <1>8, <4>2
        <3>5. QED
            BY <3>1, <3>2, <3>3, <3>4
    <2>4. QED
        BY <1>6, <2>3 DEF Injective
<1>13. Firsts(s, m + n) = Firsts(T, n) \cup {sp.users[j].frame : j \in 1 .. m}
    <2>1. ASSUME NEW i \in 1 .. m + n
          PROVE  s[i] \in Firsts(T, n) \cup {sp.users[j].frame : j \in 1 .. m}
        <3>1. CASE i \in 1 .. m
            BY <1>9, <3>1
        <3>2. CASE i \notin 1 .. m
            BY <1>8, <1>9, <3>2 DEF Firsts
        <3>3. QED
            BY <3>1, <3>2
    <2>2. \A i \in 1 .. n : T[i] \in Firsts(s, m + n)
        BY <1>8, <1>9 DEF Firsts
    <2>3. \A i \in 1 .. m : sp.users[i].frame \in Firsts(s, m + n)
        BY <1>8, <1>9 DEF Firsts
    <2>4. \A x \in Firsts(s, m + n) : x \in Firsts(T, n) \cup {sp.users[j].frame : j \in 1 .. m}
        BY <2>1 DEF Firsts
    <2>5. \A x \in Firsts(T, n) \cup {sp.users[j].frame : j \in 1 .. m} : x \in Firsts(s, m + n)
        BY <2>2, <2>3 DEF Firsts
    <2>6. QED
        BY <2>4, <2>5
<1>14. Owned(sp) = Firsts(sp.tables, n) \cup {sp.users[j].frame : j \in 1 .. m}
    BY OwnedIs DEF Firsts, m, n
<1>15. Firsts(s, Len(s)) = Owned(sp)
    BY <1>4, <1>6, <1>13, <1>14
<1>16. QED
    BY <1>6, <1>8, <1>12, <1>15 DEF s, m, n

\* destroy gives back the frames of a space, or owns up to a failure.
LEMMA DestroyIs ==
    ASSUME NEW R, Machine(R), NEW kk, NEW en, NEW h, NEW H, NEW G, KInv(R, kk, en, h, G),
           Room(kk.pm, 0), NEW sp \in Space(R), Distinct(sp), sp.active,
           Splits(G, H, Owned(sp))
    PROVE  /\ \E h2 : KInv(R, DestroySpace(kk, sp), en, h2, H)
           /\ Room(DestroySpace(kk, sp).pm, 0) /\ DestroySpace(kk, sp).mem = kk.mem
<1> DEFINE s == FramesToFree(sp)
           b == FreeAll(kk.pm, s)
           complete == Len(b.recycled) = Len(kk.pm.recycled) + Len(s)
           z == DestroySpace(kk, sp)
<1>1. Len(s) \in Nat /\ Injective(s) /\ Firsts(s, Len(s)) = Owned(sp)
    BY FramesToFreeIs
<1>2. Splits(G, H, Firsts(s, Len(s)))
    BY <1>1
<1>3. kk \in KernelMemory(R) /\ Good(R, kk.pm, h) /\ G \subseteq h /\ IsRegionArray(R)
    BY DEF KInv, Owners, Machine
<1>4. z = [kk EXCEPT !.pm = b, !.cleanupFailed = kk.cleanupFailed \/ ~ complete]
    BY DEF DestroySpace
<1>5. b \in AllocatorState(R)
    <2>1. \A j \in 1 .. Len(s) : s[j] \in h
        BY <1>2, <1>3 DEF Firsts, Splits
    <2>2. FreeState(R, kk.pm, h, s, Len(s), b)
        BY <1>1, <1>3, <2>1, FreeAllIs
    <2>3. QED
        BY <2>2 DEF FreeState, Good
<1>6. b = FreeAll(kk.pm, s) /\ complete = (Len(b.recycled) = Len(kk.pm.recycled) + Len(s))
      /\ complete \in BOOLEAN
    OBVIOUS
<1> HIDE DEF s, b, complete, z
<1>7. /\ z \in KernelMemory(R) /\ z.pm = b /\ z.mem = kk.mem /\ z.records = kk.records
      /\ z.overflowed = kk.overflowed /\ z.cleanupFailed = (kk.cleanupFailed \/ ~ complete)
    BY <1>3, <1>4, <1>5, <1>6 DEF KernelMemory
<1>8. GivenBack(R, kk, s, z)
    BY <1>6, <1>7 DEF GivenBack
<1>9. (\E h2 : KInv(R, z, en, h2, H)) /\ Room(z.pm, 0) /\ z.mem = kk.mem
    BY <1>1, <1>2, <1>8, GivenBackIs
<1>10. QED
    BY <1>9 DEF z

-----------------------------------------------------------------------------
(* AddressSpace::map_user_page.                                            *)

LEMMA ShapeTables ==
    ASSUME NEW R, NEW mem, NEW hi, NEW sp, Shape(R, mem, hi, sp)
    PROVE  /\ sp \in Space(R) /\ Len(sp.tables) \in Nat /\ Len(sp.users) \in Nat
           /\ 1 \in 1 .. Len(sp.tables) /\ 2 \in 1 .. Len(sp.tables) /\ 3 \in 1 .. Len(sp.tables)
           /\ 4 .. Len(sp.tables) \subseteq 1 .. Len(sp.tables)
           /\ \A j \in 1 .. Len(sp.tables) : sp.tables[j] \in FramesOf(R)
           /\ \A j \in 4 .. Len(sp.tables) : /\ sp.tables[j] # sp.tables[1]
                                             /\ sp.tables[j] # sp.tables[2]
                                             /\ sp.tables[j] # sp.tables[3]
<1>1. /\ sp \in Space(R) /\ Len(sp.tables) \in Nat /\ Len(sp.users) \in Nat
      /\ 3 <= Len(sp.tables) /\ \A j \in 1 .. Len(sp.tables) : sp.tables[j] \in FramesOf(R)
    BY SpaceFields DEF Shape
<1> DEFINE n == Len(sp.tables)
<1> HIDE DEF n
<1>2. n \in Nat /\ 3 <= n
    BY <1>1 DEF n
<1>3. /\ 1 \in 1 .. n /\ 2 \in 1 .. n /\ 3 \in 1 .. n /\ 4 .. n \subseteq 1 .. n
      /\ \A j \in 4 .. n : j # 1 /\ j # 2 /\ j # 3
    BY <1>2
<1>4. \A i, j \in 1 .. n : sp.tables[i] = sp.tables[j] => i = j
    BY DEF Shape, Distinct, Injective, n
<1>5. \A j \in 4 .. n : /\ sp.tables[j] # sp.tables[1]
                        /\ sp.tables[j] # sp.tables[2]
                        /\ sp.tables[j] # sp.tables[3]
    BY <1>3, <1>4
<1>6. QED
    BY <1>1, <1>3, <1>5 DEF n

\* A present entry of the p2 table of a space leads to a table of the space.
LeafTable(sp, l, j) ==
    /\ j \in 4 .. Len(sp.tables) /\ j \in 1 .. Len(sp.tables)
    /\ l = TableEntry(sp.tables[j], TRUE, TRUE) /\ l.frame = sp.tables[j] /\ l.present
    /\ sp.tables[j] # sp.tables[3]

LEMMA LeafIs ==
    ASSUME NEW R, NEW mem, NEW hi, NEW sp, Shape(R, mem, hi, sp),
           NEW c \in Half, Leaf(mem, sp, c) # NoEntry
    PROVE  \E j : LeafTable(sp, Leaf(mem, sp, c), j)
<1>1. PICK j \in 4 .. Len(sp.tables) : Leaf(mem, sp, c) = TableEntry(sp.tables[j], TRUE, TRUE)
    BY DEF Shape, Leaves
<1>2. Leaf(mem, sp, c).frame = sp.tables[j] /\ Leaf(mem, sp, c).present
    BY <1>1 DEF TableEntry, PageEntry
<1>3. sp.tables[j] # sp.tables[3] /\ j \in 1 .. Len(sp.tables)
    BY ShapeTables
<1>4. QED
    BY <1>1, <1>2, <1>3 DEF LeafTable

\* The entry of a page of the user range.
UserPage(mem, sp, c, d) ==
    IF Leaf(mem, sp, c).present THEN mem[Leaf(mem, sp, c).frame][d] ELSE NoEntry

LEMMA UserPageIs ==
    ASSUME NEW R, Machine(R), NEW mem, NEW hi, NEW sp, Shape(R, mem, hi, sp),
           NEW c \in Half, NEW d \in Index
    PROVE  \/ UserPage(mem, sp, c, d) = NoEntry
           \/ /\ Leaf(mem, sp, c).present
              /\ \E j \in 1 .. Len(sp.users) : UserAt(sp.users[j], c, d, UserPage(mem, sp, c, d))
              /\ UserPage(mem, sp, c, d).present /\ UserPage(mem, sp, c, d) \in Entry
<1> DEFINE e == UserPage(mem, sp, c, d)
<1>1. CASE ~ Leaf(mem, sp, c).present
    BY <1>1 DEF UserPage
<1>2. CASE Leaf(mem, sp, c).present
    <2>1. e = mem[Leaf(mem, sp, c).frame][d]
        BY <1>2 DEF UserPage
    <2>2. e = NoEntry \/ \E j \in 1 .. Len(sp.users) : UserAt(sp.users[j], c, d, e)
        BY <1>2, <2>1 DEF Shape, UsersMapped
    <2>3. ASSUME NEW j \in 1 .. Len(sp.users), UserAt(sp.users[j], c, d, e)
          PROVE  e.present /\ e \in Entry
        <3>1. sp.users[j] \in User(R)
            BY SpaceFields DEF Shape
        <3>2. sp.users[j].frame \in Nat /\ sp.users[j].permissions \in Permissions
            BY <3>1, UserFields, FrameFacts DEF Machine
        <3>3. Flags(sp.users[j].permissions) \in PageFlags
            BY <3>2, PermissionFlags DEF Permissions
        <3>4. e = PageEntry(sp.users[j].frame, Flags(sp.users[j].permissions))
            BY <2>3 DEF UserAt
        <3>5. QED
            BY <3>2, <3>3, <3>4 DEF PageEntry, PageFlags, Entry
    <2>4. QED
        BY <1>2, <2>2, <2>3
<1>3. QED
    BY <1>1, <1>2

\* What a space's tables say of the user range.
LEMMA SpaceView ==
    ASSUME NEW R, Machine(R), NEW mem, NEW hi, NEW sp, Shape(R, mem, hi, sp),
           NEW c \in Half, NEW d \in Index
    PROVE  Translate(mem, sp.root, Virt(0, c, d)) = PageView(UserPage(mem, sp, c, d))
<1> DEFINE v == Virt(0, c, d)
           T == sp.tables
           e == UserPage(mem, sp, c, d)
           l == Leaf(mem, sp, c)
<1>1. v[1] = 0 /\ v[2] = 1 /\ v[3] = c /\ v[4] = d
    BY DEF Virt
<1>2. /\ sp.root = T[1] /\ Reachable(T[1]) /\ Reachable(T[2]) /\ Reachable(T[3])
      /\ T[2] \in Nat /\ T[3] \in Nat
    BY ShapeTables, FrameFacts DEF Shape, Machine
<1> DEFINE e4 == TableEntry(T[2], TRUE, TRUE)
           e3 == TableEntry(T[3], TRUE, TRUE)
<1>3. mem[sp.root][v[1]] = e4 /\ mem[e4.frame][v[2]] = e3 /\ mem[e3.frame][v[3]] = l
    <2>1. e4.frame = T[2] /\ e3.frame = T[3]
        BY DEF TableEntry, PageEntry
    <2>2. mem[T[1]][0] = e4 /\ mem[T[2]][1] = e3
        BY DEF Shape, Upper
    <2> HIDE DEF e4, e3
    <2>3. QED
        BY <1>1, <1>2, <2>1, <2>2 DEF Leaf
<1>4. /\ e4.present /\ e3.present /\ e4 \in Entry /\ e3 \in Entry
      /\ e4.user /\ e4.writable /\ ~ e4.nx /\ e3.user /\ e3.writable /\ ~ e3.nx
      /\ e4.frame = T[2] /\ e3.frame = T[3]
    BY <1>2 DEF TableEntry, PageEntry, Entry
<1> HIDE DEF e4, e3, v
<1>5. CASE ~ l.present
    <2>1. Translate(mem, sp.root, v) = Unmapped
        BY <1>3, <1>5 DEF Translate
    <2>2. e = NoEntry
        BY <1>5 DEF UserPage
    <2>3. QED
        BY <2>1, <2>2 DEF PageView, NoEntry, v
<1>6. CASE l.present
    <2>1. l # NoEntry
        BY <1>6 DEF NoEntry
    <2>0. PICK j : LeafTable(sp, l, j)
        BY <2>1, LeafIs
    <2>2. l = TableEntry(T[j], TRUE, TRUE) /\ l.frame = T[j] /\ j \in 1 .. Len(T)
        BY <2>0 DEF LeafTable
    <2>3. T[j] \in Nat /\ Reachable(T[j])
        BY <2>2, ShapeTables, FrameFacts DEF Shape, Machine
    <2>4. /\ l \in Entry /\ l.user /\ l.writable /\ ~ l.nx /\ ~ l.huge /\ Reachable(l.frame)
        BY <2>2, <2>3 DEF TableEntry, PageEntry, Entry
    <2>5. e = mem[l.frame][v[4]]
        BY <1>1, <1>6 DEF UserPage, v
    <2> HIDE DEF l, e
    <2>6. CASE e = NoEntry
        <3>1. ~ e.present
            BY <2>6 DEF NoEntry
        <3>2. Translate(mem, sp.root, v) = Unmapped
            BY <1>3, <2>4, <2>5, <3>1 DEF Translate
        <3>3. QED
            BY <3>1, <3>2 DEF PageView, v, e
    <2>7. CASE e.present /\ e \in Entry
        <3>1. Path(mem, sp.root, v, e4, e3, l, e)
            BY <1>2, <1>3, <1>4, <1>6, <2>4, <2>5, <2>7 DEF Path
        <3>2. QED
            BY <3>1, PathView DEF v, e
    <2>8. QED
        BY <2>6, <2>7, UserPageIs DEF e
<1>7. QED
    BY <1>5, <1>6

\* A new p1 table f is linked into the p2 table of a space.
LinksTable(R, mem, sp, f, c, mem2, sp2) ==
    /\ f \in FramesOf(R) /\ Reachable(f) /\ f \notin Owned(sp)
    /\ c \in Half /\ Leaf(mem, sp, c) = NoEntry
    /\ mem2[f] = ZeroTable
    /\ \A j \in 1 .. Len(sp.tables) : j # 3 => mem2[sp.tables[j]] = mem[sp.tables[j]]
    /\ mem2[sp.tables[3]][c] = TableEntry(f, TRUE, TRUE)
    /\ \A i \in Index : i # c => mem2[sp.tables[3]][i] = mem[sp.tables[3]][i]
    /\ sp2 \in Space(R) /\ sp2 = [sp EXCEPT !.tables = Append(sp.tables, f)]

LEMMA TableLinked ==
    ASSUME NEW R, NEW mem, NEW hi, NEW sp, Shape(R, mem, hi, sp),
           NEW f, NEW c, NEW mem2, NEW sp2, LinksTable(R, mem, sp, f, c, mem2, sp2)
    PROVE  Shape(R, mem2, hi, sp2)
<1> SUFFICES ASSUME f \in FramesOf(R), Reachable(f), f \notin Owned(sp),
           c \in Half, Leaf(mem, sp, c) = NoEntry, mem2[f] = ZeroTable,
           \A j \in 1 .. Len(sp.tables) : j # 3 => mem2[sp.tables[j]] = mem[sp.tables[j]],
           mem2[sp.tables[3]][c] = TableEntry(f, TRUE, TRUE),
           \A i \in Index : i # c => mem2[sp.tables[3]][i] = mem[sp.tables[3]][i],
           sp2 \in Space(R), sp2 = [sp EXCEPT !.tables = Append(sp.tables, f)]
    PROVE  Shape(R, mem2, hi, sp2)
    BY Zenon DEF LinksTable
<1> DEFINE T == sp.tables
           U == sp2.tables
           n == Len(T)
<1>1. /\ sp \in Space(R) /\ n \in Nat /\ T \in Seq(FramesOf(R)) /\ 3 <= n
      /\ 1 \in 1 .. n /\ 2 \in 1 .. n /\ 3 \in 1 .. n
      /\ sp.root = T[1] /\ sp.active
    BY ShapeTables, SpaceFields DEF Shape
<1>2. sp2.tables = Append(T, f) /\ sp2.users = sp.users /\ sp2.root = sp.root /\ sp2.active = sp.active
    BY <1>1 DEF Space
<1>3. Len(U) = n + 1 /\ U[n + 1] = f /\ \A j \in 1 .. n : U[j] = T[j]
    BY <1>1, <1>2, AppendProperties
<1>4. \A j \in 1 .. n : T[j] # f
    BY <1>1, OwnedIs
<1> HIDE DEF n, U, T
<1>5. /\ 1 .. n + 1 = (1 .. n) \cup {n + 1} /\ 4 .. n \subseteq 4 .. n + 1 /\ n + 1 \in 4 .. n + 1
      /\ 3 <= n + 1 /\ n + 1 \notin 1 .. n
    BY <1>1
<1>6. U[1] = T[1] /\ U[2] = T[2] /\ U[3] = T[3]
    BY <1>1, <1>3
<1>7. /\ Leaf(mem2, sp2, c) = TableEntry(f, TRUE, TRUE)
      /\ \A e \in Half : e # c => Leaf(mem2, sp2, e) = Leaf(mem, sp, e)
    <2>1. Half \subseteq Index
        BY DEF Half, Index
    <2>2. QED
        BY <1>6, <2>1 DEF Leaf, U, T
<1>8. Distinct(sp2)
    <2>1. \A i, j \in 1 .. n : T[i] = T[j] => i = j
        BY DEF Shape, Distinct, Injective, T, n
    <2>2. \A i, j \in 1 .. n + 1 : U[i] = U[j] => i = j
        BY <1>3, <1>4, <1>5, <2>1
    <2>3. \A i \in 1 .. n, j \in 1 .. Len(sp.users) : T[i] # sp.users[j].frame
        BY DEF Shape, Distinct, T, n
    <2>4. \A j \in 1 .. Len(sp.users) : f # sp.users[j].frame
        BY <1>1, OwnedIs
    <2>5. \A i \in 1 .. n + 1, j \in 1 .. Len(sp.users) : U[i] # sp.users[j].frame
        BY <1>3, <1>5, <2>3, <2>4
    <2>6. \A i, j \in 1 .. Len(sp.users) : sp.users[i].frame = sp.users[j].frame => i = j
        BY DEF Shape, Distinct
    <2>7. QED
        BY <1>2, <1>3, <2>2, <2>5, <2>6 DEF Distinct, Injective, U
<1>9. \A j \in 1 .. n + 1 : Reachable(U[j])
    <2>1. \A j \in 1 .. n : Reachable(T[j])
        BY DEF Shape, T, n
    <2>2. QED
        BY <1>3, <1>5, <2>1
<1>10. Upper(mem2, hi, sp2)
    <2>1. mem2[T[1]] = mem[T[1]] /\ mem2[T[2]] = mem[T[2]]
        BY <1>1 DEF T, n
    <2>2. Upper(mem, hi, sp)
        BY DEF Shape
    <2>3. QED
        BY <1>6, <2>1, <2>2 DEF Upper, U, T
<1>11. ASSUME NEW e \in Half, Leaf(mem, sp, e).present
       PROVE  /\ e # c /\ mem2[Leaf(mem, sp, e).frame] = mem[Leaf(mem, sp, e).frame]
              /\ Leaf(mem, sp, e).frame # f
              /\ \E j \in 4 .. n : Leaf(mem, sp, e) = TableEntry(U[j], TRUE, TRUE)
    <2>1. Leaf(mem, sp, e) # NoEntry /\ e # c
        BY <1>11 DEF NoEntry
    <2>0. PICK j : LeafTable(sp, Leaf(mem, sp, e), j)
        BY <2>1, LeafIs, Zenon
    <2>2. /\ j \in 4 .. Len(sp.tables) /\ Leaf(mem, sp, e) = TableEntry(sp.tables[j], TRUE, TRUE)
          /\ Leaf(mem, sp, e).frame = sp.tables[j]
          /\ j \in 1 .. Len(sp.tables)
        BY <2>0, Zenon DEF LeafTable
    <2>3. j # 3 /\ j \in 4 .. n /\ j \in 1 .. n
        BY <1>1, <2>2 DEF n, T
    <2>4. mem2[sp.tables[j]] = mem[sp.tables[j]] /\ sp.tables[j] # f /\ U[j] = sp.tables[j]
        BY <1>3, <1>4, <2>2, <2>3 DEF T
    <2>5. QED
        BY <2>1, <2>2, <2>3, <2>4
<1>12. Leaf(mem2, sp2, c).present /\ Leaf(mem2, sp2, c).frame = f
    BY <1>7 DEF TableEntry, PageEntry
<1>13. Leaves(mem2, sp2)
    <2>1. ASSUME NEW e \in Half
          PROVE  \/ Leaf(mem2, sp2, e) = NoEntry
                 \/ \E j \in 4 .. n + 1 : Leaf(mem2, sp2, e) = TableEntry(U[j], TRUE, TRUE)
        <3>1. CASE e = c
            BY <1>3, <1>5, <1>7, <3>1
        <3>2. CASE e # c /\ Leaf(mem, sp, e).present
            <4>1. PICK j \in 4 .. n : Leaf(mem, sp, e) = TableEntry(U[j], TRUE, TRUE)
                BY <1>11, <3>2, Zenon
            <4>2. Leaf(mem2, sp2, e) = TableEntry(U[j], TRUE, TRUE) /\ j \in 4 .. n + 1
                BY <1>5, <1>7, <3>2, <4>1
            <4>3. QED
                BY <4>2
        <3>3. CASE e # c /\ ~ Leaf(mem, sp, e).present
            <4>1. Leaf(mem, sp, e) = NoEntry
                BY <3>3, LeafIs DEF LeafTable
            <4>2. QED
                BY <1>7, <3>3, <4>1
        <3>4. QED
            BY <3>1, <3>2, <3>3
    <2>2. ASSUME NEW e \in Half, NEW g \in Half, Leaf(mem2, sp2, e).present,
                 Leaf(mem2, sp2, g).present, Leaf(mem2, sp2, e).frame = Leaf(mem2, sp2, g).frame
          PROVE  e = g
        <3>1. CASE e # c /\ g # c
            BY <1>7, <2>2, <3>1 DEF Shape, Leaves
        <3>2. CASE e = c \/ g = c
            BY <1>7, <1>11, <1>12, <2>2, <3>2
        <3>3. QED
            BY <3>1, <3>2
    <2>3. QED
        BY <1>3, <2>1, <2>2 DEF Leaves, U
<1>14. UsersMapped(mem2, sp2)
    <2>1. ASSUME NEW e \in Half, NEW d \in Index, Leaf(mem2, sp2, e).present
          PROVE  \/ mem2[Leaf(mem2, sp2, e).frame][d] = NoEntry
                 \/ \E j \in 1 .. Len(sp.users) :
                       UserAt(sp.users[j], e, d, mem2[Leaf(mem2, sp2, e).frame][d])
        <3>1. CASE e = c
            BY <1>12, <3>1 DEF ZeroTable
        <3>2. CASE e # c
            <4>1. Leaf(mem, sp, e).present /\ Leaf(mem2, sp2, e) = Leaf(mem, sp, e)
                BY <1>7, <2>1, <3>2
            <4>2. mem2[Leaf(mem2, sp2, e).frame] = mem[Leaf(mem, sp, e).frame]
                BY <1>11, <4>1
            <4>3. QED
                BY <4>1, <4>2 DEF Shape, UsersMapped
        <3>3. QED
            BY <3>1, <3>2
    <2>2. ASSUME NEW j \in 1 .. Len(sp.users)
          PROVE  \E e \in Half, d \in Index :
                     /\ Leaf(mem2, sp2, e).present
                     /\ UserAt(sp.users[j], e, d, mem2[Leaf(mem2, sp2, e).frame][d])
        <3>1. PICK e \in Half, d \in Index :
                  /\ Leaf(mem, sp, e).present
                  /\ UserAt(sp.users[j], e, d, mem[Leaf(mem, sp, e).frame][d])
            BY DEF Shape, UsersMapped
        <3>2. e # c /\ mem2[Leaf(mem, sp, e).frame] = mem[Leaf(mem, sp, e).frame]
            BY <1>11, <3>1
        <3>3. QED
            BY <1>7, <3>1, <3>2
    <2>3. QED
        BY <1>2, <2>1, <2>2 DEF UsersMapped
<1>15. QED
    BY <1>1, <1>2, <1>3, <1>5, <1>6, <1>8, <1>9, <1>10, <1>13, <1>14 DEF Shape, U

\* A new page f is linked into a p1 table of a space.
LinksPage(R, mem, sp, u, c, d, mem2, sp2) ==
    /\ c \in Half /\ d \in Index /\ Leaf(mem, sp, c).present
    /\ mem[Leaf(mem, sp, c).frame][d] = NoEntry
    /\ u \in User(R) /\ u.frame \notin Owned(sp) /\ u.virt = Virt(0, c, d)
    /\ \A j \in 1 .. Len(sp.tables) :
          sp.tables[j] # Leaf(mem, sp, c).frame => mem2[sp.tables[j]] = mem[sp.tables[j]]
    /\ mem2[Leaf(mem, sp, c).frame][d] = PageEntry(u.frame, Flags(u.permissions))
    /\ \A i \in Index : i # d =>
          mem2[Leaf(mem, sp, c).frame][i] = mem[Leaf(mem, sp, c).frame][i]
    /\ sp2 \in Space(R) /\ sp2 = [sp EXCEPT !.users = Append(sp.users, u)]

LEMMA PageLinked ==
    ASSUME NEW R, NEW mem, NEW hi, NEW sp, Shape(R, mem, hi, sp),
           NEW u, NEW c, NEW d, NEW mem2, NEW sp2, LinksPage(R, mem, sp, u, c, d, mem2, sp2)
    PROVE  Shape(R, mem2, hi, sp2)
<1> SUFFICES ASSUME c \in Half, d \in Index, Leaf(mem, sp, c).present,
           mem[Leaf(mem, sp, c).frame][d] = NoEntry,
           u \in User(R), u.frame \notin Owned(sp), u.virt = Virt(0, c, d),
           \A j \in 1 .. Len(sp.tables) :
               sp.tables[j] # Leaf(mem, sp, c).frame => mem2[sp.tables[j]] = mem[sp.tables[j]],
           mem2[Leaf(mem, sp, c).frame][d] = PageEntry(u.frame, Flags(u.permissions)),
           \A i \in Index : i # d =>
               mem2[Leaf(mem, sp, c).frame][i] = mem[Leaf(mem, sp, c).frame][i],
           sp2 \in Space(R), sp2 = [sp EXCEPT !.users = Append(sp.users, u)]
    PROVE  Shape(R, mem2, hi, sp2)
    BY Zenon DEF LinksPage
<1> DEFINE T == sp.tables
           W == sp.users
           V == sp2.users
           n == Len(W)
           p1 == Leaf(mem, sp, c).frame
           L(e) == Leaf(mem, sp, e)
<1>1. /\ sp \in Space(R) /\ n \in Nat /\ W \in Seq(User(R)) /\ 3 <= Len(T)
      /\ 1 \in 1 .. Len(T) /\ 2 \in 1 .. Len(T) /\ 3 \in 1 .. Len(T)
      /\ sp.root = T[1] /\ sp.active
    BY ShapeTables, SpaceFields DEF Shape
<1>2. sp2.users = Append(W, u) /\ sp2.tables = T /\ sp2.root = sp.root /\ sp2.active = sp.active
    BY <1>1 DEF Space
<1>3. Len(V) = n + 1 /\ V[n + 1] = u /\ \A j \in 1 .. n : V[j] = W[j]
    BY <1>1, <1>2, AppendProperties
<1> HIDE DEF V, n, W, T
<1>4. 1 .. n + 1 = (1 .. n) \cup {n + 1} /\ n + 1 \in 1 .. n + 1 /\ n + 1 \notin 1 .. n
    BY <1>1
<1>5. /\ \A i, j \in 1 .. n : W[i].frame = W[j].frame => i = j
      /\ \A i \in 1 .. Len(T), j \in 1 .. n : T[i] # W[j].frame
      /\ \A i \in 1 .. Len(T) : T[i] # u.frame
      /\ \A j \in 1 .. n : W[j].frame # u.frame
    <2>1. /\ \A i, j \in 1 .. n : W[i].frame = W[j].frame => i = j
          /\ \A i \in 1 .. Len(T), j \in 1 .. n : T[i] # W[j].frame
        BY DEF Shape, Distinct, T, W, n
    <2>2. Owned(sp) = {T[j] : j \in 1 .. Len(T)} \cup {W[j].frame : j \in 1 .. n}
        BY <1>1, OwnedIs DEF T, W, n
    <2>3. QED
        BY <2>1, <2>2
<1>6. Distinct(sp2)
    <2>1. \A i, j \in 1 .. n + 1 : V[i].frame = V[j].frame => i = j
        BY <1>3, <1>4, <1>5
    <2>2. \A i \in 1 .. Len(T), j \in 1 .. n + 1 : T[i] # V[j].frame
        BY <1>3, <1>4, <1>5
    <2>3. Injective(T)
        BY DEF Shape, Distinct, T
    <2>4. QED
        BY <1>2, <1>3, <2>1, <2>2, <2>3 DEF Distinct, V
<1>0. PICK l : LeafTable(sp, Leaf(mem, sp, c), l)
    <2>1. Leaf(mem, sp, c) # NoEntry
        BY DEF NoEntry
    <2>2. QED
        BY <2>1, LeafIs, Zenon
<1>7. l \in 4 .. Len(sp.tables) /\ p1 = sp.tables[l] /\ l \in 1 .. Len(sp.tables)
    BY <1>0, Zenon DEF LeafTable
<1>8. p1 # T[1] /\ p1 # T[2] /\ p1 # T[3]
    BY <1>7, ShapeTables DEF T
<1>9. mem2[T[1]] = mem[T[1]] /\ mem2[T[2]] = mem[T[2]] /\ mem2[T[3]] = mem[T[3]]
    BY <1>1, <1>8 DEF T
<1>10. Upper(mem2, hi, sp2)
    <2>1. Upper(mem, hi, sp)
        BY DEF Shape
    <2>2. QED
        BY <1>2, <1>9, <2>1 DEF Upper, T
<1>11. \A e : Leaf(mem2, sp2, e) = L(e)
    BY <1>2, <1>9 DEF Leaf, T
<1>12. Leaves(mem2, sp2)
    <2>1. Leaves(mem, sp)
        BY DEF Shape
    <2>2. sp2.tables = sp.tables
        BY <1>2 DEF T
    <2>3. ASSUME NEW e \in Half
          PROVE  \/ Leaf(mem2, sp2, e) = NoEntry
                 \/ \E j \in 4 .. Len(sp2.tables) :
                       Leaf(mem2, sp2, e) = TableEntry(sp2.tables[j], TRUE, TRUE)
        <3>1. \/ Leaf(mem, sp, e) = NoEntry
              \/ \E j \in 4 .. Len(sp.tables) :
                    Leaf(mem, sp, e) = TableEntry(sp.tables[j], TRUE, TRUE)
            BY <2>1, Zenon DEF Leaves
        <3>2. Leaf(mem2, sp2, e) = Leaf(mem, sp, e)
            BY <1>11, Zenon
        <3>3. QED
            BY <2>2, <3>1, <3>2, Zenon
    <2>4. ASSUME NEW e \in Half, NEW g \in Half, Leaf(mem2, sp2, e).present,
                 Leaf(mem2, sp2, g).present, Leaf(mem2, sp2, e).frame = Leaf(mem2, sp2, g).frame
          PROVE  e = g
        <3>1. L(e).present /\ L(g).present /\ L(e).frame = L(g).frame
            BY <1>11, <2>4, Zenon
        <3>2. QED
            BY <2>1, <3>1, Zenon DEF Leaves
    <2> HIDE DEF L
    <2>5. QED
        BY <2>3, <2>4, Zenon DEF Leaves
<1>13. ASSUME NEW e \in Half, L(e).present, e # c
       PROVE  mem2[L(e).frame] = mem[L(e).frame]
    <2>1. L(e).frame # p1
        BY <1>13 DEF Shape, Leaves
    <2>2. L(e) # NoEntry
        BY <1>13 DEF NoEntry
    <2>0. PICK j : LeafTable(sp, L(e), j)
        BY <2>2, LeafIs, Zenon
    <2>3. L(e).frame = sp.tables[j] /\ j \in 1 .. Len(sp.tables)
        BY <2>0, Zenon DEF LeafTable
    <2>4. QED
        BY <2>1, <2>3
<1>14. UsersMapped(mem, sp)
    BY DEF Shape
<1>15. ASSUME NEW e \in Half, NEW g \in Index, L(e).present
       PROVE  \/ e = c /\ g = d
              \/ mem2[L(e).frame][g] = mem[L(e).frame][g]
    BY <1>13, <1>15
<1>16. UserAt(u, c, d, mem2[p1][d])
    BY DEF UserAt
<1>17. ASSUME NEW e \in Half, NEW g \in Index, L(e).present
       PROVE  \/ mem2[L(e).frame][g] = NoEntry
              \/ \E j \in 1 .. n + 1 : UserAt(V[j], e, g, mem2[L(e).frame][g])
    <2>1. CASE e = c /\ g = d
        BY <1>3, <1>4, <1>16, <2>1
    <2>2. CASE mem2[L(e).frame][g] = mem[L(e).frame][g]
        <3>1. \/ mem[L(e).frame][g] = NoEntry
              \/ \E j \in 1 .. n : UserAt(W[j], e, g, mem[L(e).frame][g])
            BY <1>14, <1>17 DEF UsersMapped, W, n
        <3>2. QED
            BY <1>3, <1>4, <2>2, <3>1
    <2>3. QED
        BY <1>15, <1>17, <2>1, <2>2
<1>18. ASSUME NEW j \in 1 .. n + 1
       PROVE  \E e \in Half, g \in Index : L(e).present /\ UserAt(V[j], e, g, mem2[L(e).frame][g])
    <2>1. CASE j = n + 1
        BY <1>3, <1>16, <2>1
    <2>2. CASE j \in 1 .. n
        <3>1. PICK e \in Half, g \in Index :
                  L(e).present /\ UserAt(W[j], e, g, mem[L(e).frame][g])
            BY <1>14, <2>2 DEF UsersMapped, W, n
        <3>2. mem[L(e).frame][g] # NoEntry
            BY <3>1 DEF UserAt, PageEntry, NoEntry
        <3>3. mem2[L(e).frame][g] = mem[L(e).frame][g]
            BY <1>15, <3>1, <3>2
        <3>4. QED
            BY <1>3, <2>2, <3>1, <3>3
    <2>3. QED
        BY <1>4, <2>1, <2>2
<1>19. UsersMapped(mem2, sp2)
    <2>1. sp2.users = V /\ Len(V) = n + 1
        BY <1>3 DEF V
    <2>2. ASSUME NEW e \in Half, NEW g \in Index, Leaf(mem2, sp2, e).present
          PROVE  \/ mem2[Leaf(mem2, sp2, e).frame][g] = NoEntry
                 \/ \E j \in 1 .. Len(sp2.users) :
                       UserAt(sp2.users[j], e, g, mem2[Leaf(mem2, sp2, e).frame][g])
        <3>1. Leaf(mem2, sp2, e) = L(e) /\ L(e).present
            BY <1>11, <2>2, Zenon
        <3>2. QED
            BY <1>17, <2>1, <3>1, Zenon
    <2>3. ASSUME NEW j \in 1 .. Len(sp2.users)
          PROVE  \E e \in Half, g \in Index :
                    /\ Leaf(mem2, sp2, e).present
                    /\ UserAt(sp2.users[j], e, g, mem2[Leaf(mem2, sp2, e).frame][g])
        <3>1. PICK e \in Half, g \in Index :
                  L(e).present /\ UserAt(V[j], e, g, mem2[L(e).frame][g])
            BY <1>18, <2>1, <2>3, Zenon
        <3>2. Leaf(mem2, sp2, e) = L(e)
            BY <1>11, Zenon
        <3>3. QED
            BY <2>1, <3>1, <3>2, Zenon
    <2>4. QED
        BY <2>2, <2>3, Zenon DEF UsersMapped
<1>20. \A j \in 1 .. Len(T) : Reachable(T[j])
    BY DEF Shape, T
<1>21. QED
    BY <1>1, <1>2, <1>6, <1>10, <1>12, <1>19, <1>20 DEF Shape

\* The frame f is added to a space.
Grows(R, sp, sp2, f) ==
    \/ f \in FramesOf(R) /\ sp2 = [sp EXCEPT !.tables = Append(sp.tables, f)]
    \/ \E u \in User(R) : u.frame = f /\ sp2 = [sp EXCEPT !.users = Append(sp.users, u)]

LEMMA OwnedGrows ==
    ASSUME NEW R, NEW sp \in Space(R), NEW sp2 \in Space(R), NEW f, Grows(R, sp, sp2, f)
    PROVE  Owned(sp2) = Owned(sp) \cup {f}
<1> DEFINE T == sp.tables
           W == sp.users
<1>1. /\ Owned(sp) = {T[j] : j \in 1 .. Len(T)} \cup {W[j].frame : j \in 1 .. Len(W)}
      /\ Owned(sp2) = {sp2.tables[j] : j \in 1 .. Len(sp2.tables)}
                      \cup {sp2.users[j].frame : j \in 1 .. Len(sp2.users)}
    BY OwnedIs
<1>2. /\ T \in Seq(FramesOf(R)) /\ Len(T) \in Nat /\ W \in Seq(User(R)) /\ Len(W) \in Nat
    BY SpaceFields
<1>3. \A n \in Nat : 1 .. n + 1 = (1 .. n) \cup {n + 1}
    OBVIOUS
<1>4. CASE f \in FramesOf(R) /\ sp2 = [sp EXCEPT !.tables = Append(sp.tables, f)]
    <2> DEFINE U == sp2.tables
               n == Len(T)
    <2>1. U = Append(T, f) /\ sp2.users = W
        BY <1>4 DEF Space
    <2>2. Len(U) = n + 1 /\ U[n + 1] = f /\ \A j \in 1 .. n : U[j] = T[j]
        BY <1>2, <1>4, <2>1, AppendProperties
    <2>3. 1 .. n + 1 = (1 .. n) \cup {n + 1}
        BY <1>2, <1>3
    <2> HIDE DEF U, T, W, n
    <2>4. {U[j] : j \in 1 .. n + 1} = {T[j] : j \in 1 .. n} \cup {f}
        BY <2>2, <2>3
    <2>5. Owned(sp2) = {U[j] : j \in 1 .. n + 1} \cup {W[j].frame : j \in 1 .. Len(W)}
        BY <1>1, <2>1, <2>2 DEF U
    <2>6. Owned(sp) = {T[j] : j \in 1 .. n} \cup {W[j].frame : j \in 1 .. Len(W)}
        BY <1>1 DEF n
    <2>7. QED
        BY <2>4, <2>5, <2>6
<1>5. CASE \E u \in User(R) : u.frame = f /\ sp2 = [sp EXCEPT !.users = Append(sp.users, u)]
    <2>0. PICK u \in User(R) : u.frame = f /\ sp2 = [sp EXCEPT !.users = Append(sp.users, u)]
        BY <1>5
    <2> DEFINE V == sp2.users
               n == Len(W)
    <2>1. V = Append(W, u) /\ sp2.tables = T
        BY <2>0 DEF Space
    <2>2. Len(V) = n + 1 /\ V[n + 1] = u /\ \A j \in 1 .. n : V[j] = W[j]
        BY <1>2, <2>1, AppendProperties
    <2>3. 1 .. n + 1 = (1 .. n) \cup {n + 1}
        BY <1>2, <1>3
    <2> HIDE DEF V, T, W, n
    <2>4. {V[j].frame : j \in 1 .. n + 1} = {W[j].frame : j \in 1 .. n} \cup {f}
        BY <2>0, <2>2, <2>3
    <2>5. Owned(sp2) = {T[j] : j \in 1 .. Len(T)} \cup {V[j].frame : j \in 1 .. n + 1}
        BY <1>1, <2>1, <2>2 DEF V
    <2>6. Owned(sp) = {T[j] : j \in 1 .. Len(T)} \cup {W[j].frame : j \in 1 .. n}
        BY <1>1 DEF n
    <2>7. QED
        BY <2>4, <2>5, <2>6
<1>6. QED
    BY <1>4, <1>5 DEF Grows

\* The p1 table of page d of the p1 table c is there, and the page is free.
PageFree(y, c, d) ==
    /\ Leaf(y.k.mem, y.space, c).present
    /\ y.k.mem[Leaf(y.k.mem, y.space, c).frame][d] = NoEntry

EnsuredUser(R, kk, en, H, x, c, d, y) ==
    /\ SpaceState(R, kk, en, H, y)
    /\ y.frame # NoFrame => PageFree(y, c, d) /\ y.space.tables[3] = x.space.tables[3]

LEMMA EnsureUserIs ==
    ASSUME NEW R, Machine(R), NEW kk, NEW en, NEW H, NEW x, SpaceState(R, kk, en, H, x),
           H \subseteq FramesOf(R), NEW c \in Half, NEW d \in Index,
           UserPage(x.k.mem, x.space, c, d) = NoEntry
    PROVE  EnsuredUser(R, kk, en, H, x, c, d, EnsureUserTable(x, x.space.tables[3], c))
<1> DEFINE sp == x.space
           t == sp.tables[3]
           y == EnsureUserTable(x, t, c)
           a == AllocateTable(x)
           G == H \cup Owned(sp)
<1>1. PICK h : KInv(R, x.k, en, h, G)
    BY DEF SpaceState
<1>2. /\ Call(R, x) /\ Shape(R, x.k.mem, en[N3(1)], sp) /\ Owned(sp) \cap H = {}
      /\ Room(x.k.pm, 0) /\ \A f \in H : x.k.mem[f] = kk.mem[f]
    BY DEF SpaceState
<1>3. Leaf(x.k.mem, sp, c) = x.k.mem[t][c]
    BY DEF Leaf
<1>4. CASE x.k.mem[t][c].present
    <2>1. y = x
        BY <1>4 DEF EnsureUserTable
    <2>2. x.k.mem[Leaf(x.k.mem, sp, c).frame][d] = NoEntry
        BY <1>3, <1>4 DEF UserPage
    <2>3. PageFree(x, c, d)
        BY <1>3, <1>4, <2>2 DEF PageFree
    <2>4. QED
        BY <2>1, <2>3 DEF EnsuredUser
<1>5. CASE ~ x.k.mem[t][c].present
    <2>1. y = LinkTable(a, t, c, TRUE, TRUE)
        BY <1>5 DEF EnsureUserTable
    <2>2. Leaf(x.k.mem, sp, c) = NoEntry
        <3>1. SUFFICES ASSUME Leaf(x.k.mem, sp, c) # NoEntry PROVE FALSE
            OBVIOUS
        <3>2. PICK j : LeafTable(sp, Leaf(x.k.mem, sp, c), j)
            BY <1>2, <3>1, LeafIs, Zenon
        <3>3. Leaf(x.k.mem, sp, c).present
            BY <3>2, Zenon DEF LeafTable
        <3>4. QED
            BY <1>3, <1>5, <3>3
    <2>3. TableOutcome(R, en, h, G, 0, x, a)
        <3>1. 0 \in Nat /\ 0 < MaxRecycled
            BY RoomFacts
        <3> HIDE DEF G
        <3>2. QED
            BY <1>1, <1>2, <3>1, AllocateTableIs
    <2> HIDE DEF a, y
    <2>4. CASE a.frame = NoFrame
        <3>1. y = a
            BY <2>1, <2>4 DEF LinkTable
        <3>2. /\ a.space = sp /\ a.k.mem = x.k.mem /\ KInv(R, a.k, en, h, G) /\ Room(a.k.pm, 0)
              /\ Call(R, a)
            BY <2>3, <2>4 DEF TableOutcome
        <3>3. SpaceState(R, kk, en, H, a)
            BY <1>2, <3>2 DEF SpaceState
        <3>4. EnsuredUser(R, kk, en, H, x, c, d, y)
            BY <2>4, <3>1, <3>3 DEF EnsuredUser
        <3>5. QED
            BY <3>4 DEF y
    <2>5. CASE a.frame # NoFrame
        <3> DEFINE f == a.frame
                   e == TableEntry(f, TRUE, TRUE)
                   kk2 == [a.k EXCEPT !.mem[t][c] = e]
                   sp2 == a.space
                   G2 == G \cup {f}
        <3>1. /\ f \in FramesOf(R) /\ Reachable(f) /\ Call(R, a)
              /\ sp2 = [sp EXCEPT !.tables = Append(sp.tables, f)]
              /\ Taken(R, x.k, en, h, G, a.k, f) /\ Room(a.k.pm, 0 + 1)
            BY <2>3, <2>5 DEF TableOutcome
        <3>2. /\ KInv(R, a.k, en, h \cup {f}, G2) /\ f \notin G /\ a.k.mem[f] = ZeroTable
              /\ \A g \in ImageFrames \cup FramesOf(R) : g # f => a.k.mem[g] = x.k.mem[g]
            BY <3>1, Zenon DEF Taken
        <3>3. /\ a = [k |-> a.k, space |-> sp2, frame |-> f] /\ sp2 \in Space(R) /\ sp \in Space(R)
            BY <1>2, <3>1 DEF Call
        <3>4. y.k = kk2 /\ y.space = sp2 /\ y.frame = f /\ y = [k |-> kk2, space |-> sp2, frame |-> f]
            <4>1. y = [a EXCEPT !.k.mem[t][c] = e]
                BY <2>1, <2>5 DEF LinkTable
            <4>2. a.k \in KernelMemory(R)
                BY <3>2 DEF KInv
            <4> HIDE DEF e
            <4>3. QED
                BY <3>3, <4>1, <4>2 DEF KernelMemory
        <3> HIDE DEF f, sp2
        <3>5. t \in FramesOf(R) /\ t \in Owned(sp)
            BY <1>2, ShapeTables, OwnedIs
        <3>6. t \in G2 /\ t # f /\ f \notin Owned(sp) /\ f \notin H
            BY <3>2, <3>5
        <3>7. c \in Index /\ e \in Entry
            <4>1. f \in Nat
                BY <3>1, FrameFacts DEF Machine
            <4>2. QED
                BY <4>1 DEF TableEntry, PageEntry, Entry, Half, Index
        <3> HIDE DEF e, G2
        <3>8. /\ KInv(R, kk2, en, h \cup {f}, G2) /\ kk2.pm = a.k.pm
              /\ kk2.mem[t][c] = e
              /\ \A j \in Index : j # c => kk2.mem[t][j] = a.k.mem[t][j]
              /\ \A g \in ImageFrames \cup FramesOf(R) : g # t => kk2.mem[g] = a.k.mem[g]
            <4>1. EntrySet(R, a.k, en, h \cup {f}, G2, t, c, e, kk2)
                BY <3>2, <3>6, <3>7, OtherEntrySet
            <4>2. QED
                BY <4>1, Zenon DEF EntrySet
        <3> HIDE DEF kk2
        <3>9. Shape(R, kk2.mem, en[N3(1)], sp2)
            <4>1. kk2.mem[f] = ZeroTable
                BY <3>1, <3>2, <3>6, <3>8
            <4>2. /\ \A j \in 1 .. Len(sp.tables) : sp.tables[j] \in FramesOf(R)
                  /\ \A j \in 1 .. Len(sp.tables) : sp.tables[j] \in Owned(sp)
                  /\ 3 \in 1 .. Len(sp.tables)
                  /\ \A i, j \in 1 .. Len(sp.tables) : sp.tables[i] = sp.tables[j] => i = j
                BY <1>2, ShapeTables, OwnedIs DEF Shape, Distinct, Injective
            <4>3. \A j \in 1 .. Len(sp.tables) : j # 3 => kk2.mem[sp.tables[j]] = x.k.mem[sp.tables[j]]
                BY <3>2, <3>6, <3>8, <4>2
            <4>4. \A i \in Index : i # c => kk2.mem[t][i] = x.k.mem[t][i]
                BY <3>2, <3>5, <3>6, <3>8
            <4>5. kk2.mem[t][c] = TableEntry(f, TRUE, TRUE)
                BY <3>8 DEF e
            <4>6. QED
                <5>1. LinksTable(R, x.k.mem, sp, f, c, kk2.mem, sp2)
                    BY <2>2, <3>1, <3>3, <3>6, <4>1, <4>3, <4>4, <4>5, Zenon DEF LinksTable
                <5>2. QED
                    BY <1>2, <5>1, TableLinked
        <3>10. Owned(sp2) = Owned(sp) \cup {f}
            <4>1. Grows(R, sp, sp2, f)
                BY <3>1, Zenon DEF Grows
            <4>2. QED
                BY <3>3, <4>1, OwnedGrows
        <3>11. H \cup Owned(sp2) = G2 /\ Owned(sp2) \cap H = {}
            BY <1>2, <3>6, <3>10 DEF G2
        <3>12. Room(kk2.pm, 0)
            BY <3>1, <3>2, <3>8, KInvRoom
        <3>13. \A g \in H : kk2.mem[g] = kk.mem[g]
            <4>1. \A g \in H : g \in FramesOf(R) /\ g # t /\ g # f
                BY <1>2, <3>5, <3>6
            <4>2. QED
                BY <1>2, <3>2, <3>8, <4>1
        <3>14. SpaceState(R, kk, en, H, y)
            <4>1. Call(R, y)
                BY <3>3, <3>4 DEF Call
            <4>2. KInv(R, kk2, en, h \cup {f}, H \cup Owned(sp2))
                BY <3>8, <3>11
            <4>3. QED
                BY <3>4, <3>9, <3>11, <3>12, <3>13, <4>1, <4>2 DEF SpaceState
        <3>15. y.space.tables[3] = t
            <4>1. /\ sp.tables \in Seq(FramesOf(R)) /\ 3 \in 1 .. Len(sp.tables)
                  /\ sp2.tables = Append(sp.tables, f)
                BY <1>2, <3>1, <3>3, ShapeTables, SpaceFields DEF Space
            <4>2. Append(sp.tables, f)[3] = sp.tables[3]
                BY <3>1, <4>1, AppendProperties
            <4>3. QED
                BY <3>4, <4>1, <4>2
        <3>16. PageFree(y, c, d)
            <4>1. Leaf(kk2.mem, sp2, c) = e
                BY <3>4, <3>8, <3>15 DEF Leaf
            <4>2. e.present /\ e.frame = f
                BY DEF e, TableEntry, PageEntry
            <4>3. kk2.mem[f][d] = NoEntry
                BY <3>1, <3>2, <3>6, <3>8 DEF ZeroTable
            <4>4. QED
                BY <3>4, <4>1, <4>2, <4>3 DEF PageFree
        <3>17. QED
            BY <3>14, <3>15, <3>16 DEF EnsuredUser, y
    <2>6. QED
        BY <2>4, <2>5
<1>6. QED
    BY <1>4, <1>5

\* The second part: the page, or none.
LEMMA SetUserPageIs ==
    ASSUME NEW R, Machine(R), NEW kk, NEW en, NEW H, NEW y, SpaceState(R, kk, en, H, y),
           H \subseteq FramesOf(R), NEW c \in Half, NEW d \in Index, PageFree(y, c, d),
           NEW page \in ImagePage, page.virt = Virt(0, c, d)
    PROVE  SpaceState(R, kk, en, H,
               SetUserPage(y, AllocateZeroed(y.k), Leaf(y.k.mem, y.space, c).frame, page))
<1> DEFINE sp == y.space
           p1 == Leaf(y.k.mem, sp, c).frame
           a == AllocateZeroed(y.k)
           z == SetUserPage(y, a, p1, page)
           G == H \cup Owned(sp)
<1>1. PICK h : KInv(R, y.k, en, h, G)
    BY DEF SpaceState
<1>2. /\ Call(R, y) /\ Shape(R, y.k.mem, en[N3(1)], sp) /\ Owned(sp) \cap H = {}
      /\ Room(y.k.pm, 0) /\ \A f \in H : y.k.mem[f] = kk.mem[f]
    BY DEF SpaceState
<1>3. y = [k |-> y.k, space |-> sp, frame |-> y.frame] /\ sp \in Space(R)
    BY <1>2 DEF Call
<1>4. Obtained(R, y.k, h, 0, a)
    <2>1. 0 \in Nat /\ 0 < MaxRecycled
        BY RoomFacts
    <2>2. IsRegionArray(R) /\ y.k \in KernelMemory(R) /\ Good(R, y.k.pm, h)
        BY <1>1 DEF KInv, Machine
    <2>3. QED
        BY <1>2, <2>1, <2>2, AllocateZeroedIs
<1>5. 0 \in Nat /\ 0 + 1 \in Nat
    OBVIOUS
<1> HIDE DEF a, z, G, sp
<1>6. CASE a.frame = NoFrame
    <2>1. z = [y EXCEPT !.k = a.k, !.frame = NoFrame]
        BY <1>6 DEF SetUserPage, z
    <2>2. z.k = a.k /\ z.space = sp /\ z = [k |-> a.k, space |-> sp, frame |-> NoFrame]
        <3>1. z = [[k |-> y.k, space |-> sp, frame |-> y.frame]
                       EXCEPT !.k = a.k, !.frame = NoFrame]
            BY <1>3, <2>1, Zenon
        <3> HIDE DEF p1
        <3>2. QED
            BY <3>1
    <2>3. KInv(R, a.k, en, h, G) /\ Room(a.k.pm, 0) /\ a.k.mem = y.k.mem
        BY <1>1, <1>4, <1>5, <1>6, UntakenKept
    <2>4. Call(R, z)
        BY <1>3, <2>2 DEF Call
    <2>5. SpaceState(R, kk, en, H, z)
        BY <1>2, <2>2, <2>3, <2>4 DEF SpaceState, G
    <2>6. QED
        BY <2>5 DEF z, a, sp
<1>7. CASE a.frame # NoFrame
    <2> DEFINE f == a.frame
               e == PageEntry(f, Flags(page.permissions))
               u == [frame |-> f, virt |-> page.virt, permissions |-> page.permissions]
               kk2 == [a.k EXCEPT !.mem[p1][d] = e]
               sp2 == [sp EXCEPT !.users = Append(sp.users, u)]
               G2 == G \cup {f}
               h2 == h \cup {f}
    <2>1. Taken(R, y.k, en, h, G, a.k, f)
        BY <1>1, <1>4, <1>5, <1>7, TakenKept
    <2>2. f \in FramesOf(R) /\ Room(a.k.pm, 0 + 1)
        BY <1>4, <1>7 DEF Obtained
    <2>3. /\ KInv(R, a.k, en, h2, G2) /\ f \notin G /\ a.k.mem[f] = ZeroTable
          /\ \A g \in ImageFrames \cup FramesOf(R) : g # f => a.k.mem[g] = y.k.mem[g]
        BY <2>1, Zenon DEF Taken
    <2>4. page.virt[4] = d /\ page.virt \in ImageVirts /\ page.permissions \in Permissions
          /\ ~ (page.permissions.writable /\ page.permissions.executable)
        BY DEF ImagePage, Virt
    <2>5. u \in User(R) /\ u.frame = f /\ u.virt = Virt(0, c, d) /\ u.permissions = page.permissions
        BY <2>2, <2>4 DEF User
    <2>6. z.k = kk2 /\ z.space = sp2 /\ z = [k |-> kk2, space |-> sp2, frame |-> f]
        <3>1. z = [k |-> kk2, space |-> sp2, frame |-> f]
            BY <1>7, <2>4 DEF SetUserPage, z, sp
        <3> HIDE DEF kk2, sp2
        <3>2. QED
            BY <3>1
    <2>7. sp2 \in Space(R)
        <3>1. Append(sp.users, u) \in Seq(User(R))
            BY <1>3, <2>5, SpaceFields, AppendProperties
        <3> HIDE DEF u
        <3>2. QED
            BY <1>3, <3>1 DEF Space
    <2> HIDE DEF f, u, sp2, G2, h2
    <2>8. PICK l : LeafTable(sp, Leaf(y.k.mem, sp, c), l)
        <3>1. Leaf(y.k.mem, sp, c).present
            BY DEF PageFree, sp
        <3>2. Leaf(y.k.mem, sp, c) # NoEntry
            BY <3>1 DEF NoEntry
        <3>3. QED
            BY <1>2, <3>2, LeafIs, Zenon
    <2>9. p1 = sp.tables[l] /\ l \in 1 .. Len(sp.tables)
        BY <2>8, Zenon DEF LeafTable
    <2>10. p1 \in FramesOf(R) /\ p1 \in Owned(sp)
        BY <1>3, <2>9, SpaceFields, OwnedIs
    <2>11. p1 \in G2 /\ p1 # f /\ f \notin Owned(sp) /\ f \notin H
        BY <2>3, <2>10 DEF G, G2
    <2>12. e \in Entry
        <3>1. f \in Nat
            BY <2>2, FrameFacts DEF Machine
        <3>2. Flags(page.permissions) \in PageFlags
            BY <2>4, PermissionFlags DEF Permissions
        <3>3. QED
            BY <3>1, <3>2 DEF PageEntry, PageFlags, Entry
    <2> HIDE DEF e, p1
    <2>13. EntrySet(R, a.k, en, h2, G2, p1, d, e, kk2)
        BY <2>3, <2>11, <2>12, OtherEntrySet
    <2> HIDE DEF kk2
    <2>14. /\ KInv(R, kk2, en, h2, G2) /\ kk2.pm = a.k.pm
           /\ kk2.mem[p1][d] = e
           /\ \A j \in Index : j # d => kk2.mem[p1][j] = a.k.mem[p1][j]
           /\ \A g \in ImageFrames \cup FramesOf(R) : g # p1 => kk2.mem[g] = a.k.mem[g]
        BY <2>13, Zenon DEF EntrySet
    <2>15. LinksPage(R, y.k.mem, sp, u, c, d, kk2.mem, sp2)
        <3>1. Leaf(y.k.mem, sp, c).present /\ y.k.mem[Leaf(y.k.mem, sp, c).frame][d] = NoEntry
            BY DEF PageFree, sp
        <3>2. /\ \A j \in 1 .. Len(sp.tables) : sp.tables[j] \in FramesOf(R)
              /\ \A j \in 1 .. Len(sp.tables) : sp.tables[j] \in Owned(sp)
            BY <1>3, SpaceFields, OwnedIs
        <3>3. \A j \in 1 .. Len(sp.tables) :
                  sp.tables[j] # p1 => kk2.mem[sp.tables[j]] = y.k.mem[sp.tables[j]]
            BY <2>3, <2>11, <2>14, <3>2
        <3>4. kk2.mem[p1][d] = PageEntry(u.frame, Flags(u.permissions))
            BY <2>5, <2>14 DEF e
        <3>5. \A i \in Index : i # d => kk2.mem[p1][i] = y.k.mem[p1][i]
            BY <2>3, <2>10, <2>11, <2>14
        <3>6. sp2 = [sp EXCEPT !.users = Append(sp.users, u)]
            BY DEF sp2
        <3>7. QED
            BY <2>5, <2>7, <2>11, <3>1, <3>3, <3>4, <3>5, <3>6, Zenon DEF LinksPage, p1
    <2>16. Shape(R, kk2.mem, en[N3(1)], sp2)
        BY <1>2, <2>15, PageLinked
    <2>17. Owned(sp2) = Owned(sp) \cup {f}
        <3>1. Grows(R, sp, sp2, f)
            BY <2>5, Zenon DEF Grows, sp2
        <3>2. QED
            BY <1>3, <2>7, <3>1, OwnedGrows
    <2>18. H \cup Owned(sp2) = G2 /\ Owned(sp2) \cap H = {}
        BY <1>2, <2>11, <2>17 DEF G, G2
    <2>19. Room(kk2.pm, 0)
        BY <2>2, <2>3, <2>14, <1>5, KInvRoom
    <2>20. \A g \in H : kk2.mem[g] = kk.mem[g]
        <3>1. \A g \in H : g \in FramesOf(R) /\ g # p1 /\ g # f
            BY <1>2, <2>10, <2>11
        <3>2. QED
            BY <1>2, <2>3, <2>14, <3>1
    <2>21. SpaceState(R, kk, en, H, z)
        <3>1. Call(R, z)
            BY <2>6, <2>7 DEF Call
        <3>2. KInv(R, kk2, en, h2, H \cup Owned(sp2))
            BY <2>14, <2>18
        <3>3. QED
            BY <2>6, <2>16, <2>18, <2>19, <2>20, <3>1, <3>2 DEF SpaceState
    <2>22. QED
        BY <2>21 DEF z, a, sp, p1
<1>8. QED
    BY <1>6, <1>7

LEMMA MapUserPageIs ==
    ASSUME NEW R, Machine(R), NEW kk, NEW en, NEW H, NEW x, SpaceState(R, kk, en, H, x),
           H \subseteq FramesOf(R), NEW page \in ImagePage
    PROVE  SpaceState(R, kk, en, H, MapUserPage(x, page))
<1> DEFINE sp == x.space
           v == page.virt
           p2 == UserP2(x.k.mem, sp.root, v)
           y == EnsureUserTable(x, p2, v[3])
           z == MapUserPage(x, page)
<1>1. PICK c \in Half, d \in Index : v = Virt(0, c, d)
    BY ImageVirtIs DEF ImagePage
<1>2. v[1] = 0 /\ v[2] = 1 /\ v[3] = c /\ v[4] = d
    BY <1>1 DEF Virt
<1>3. Call(R, x) /\ Shape(R, x.k.mem, en[N3(1)], sp)
    BY DEF SpaceState
<1>4. p2 = sp.tables[3]
    <2>1. /\ sp.root = sp.tables[1]
          /\ x.k.mem[sp.tables[1]][0] = TableEntry(sp.tables[2], TRUE, TRUE)
          /\ x.k.mem[sp.tables[2]][1] = TableEntry(sp.tables[3], TRUE, TRUE)
        BY <1>3 DEF Shape, Upper
    <2>2. QED
        BY <1>2, <2>1 DEF UserP2, TableEntry, PageEntry
<1>5. CASE z = [x EXCEPT !.frame = NoFrame]
    <2>1. z.k = x.k /\ z.space = sp /\ z = [k |-> x.k, space |-> sp, frame |-> NoFrame]
        BY <1>3, <1>5 DEF Call
    <2>2. Call(R, z)
        BY <1>3, <2>1 DEF Call
    <2> HIDE DEF z
    <2>3. SpaceState(R, kk, en, H, z)
        BY <2>1, <2>2 DEF SpaceState
    <2>4. QED
        BY <2>3 DEF z
<1>6. CASE /\ ~ Translate(x.k.mem, sp.root, v).mapped
           /\ z = AddUserFrame(y, p2, page)
    <2>1. UserPage(x.k.mem, sp, c, d) = NoEntry
        <3> DEFINE e == UserPage(x.k.mem, sp, c, d)
        <3>1. Translate(x.k.mem, sp.root, v) = PageView(e)
            BY <1>1, <1>3, SpaceView
        <3>2. e = NoEntry \/ e.present
            BY <1>3, UserPageIs
        <3> HIDE DEF e
        <3>3. e.present => PageView(e).mapped
            BY DEF PageView
        <3>4. e = NoEntry
            BY <1>6, <3>1, <3>2, <3>3
        <3>5. QED
            BY <3>4 DEF e
    <2>2. y = EnsureUserTable(x, x.space.tables[3], c)
        BY <1>2, <1>4
    <2>3. EnsuredUser(R, kk, en, H, x, c, d, y)
        BY <2>1, <2>2, EnsureUserIs
    <2> HIDE DEF y
    <2>4. CASE y.frame = NoFrame
        BY <1>6, <2>3, <2>4 DEF AddUserFrame, EnsuredUser
    <2>5. CASE y.frame # NoFrame
        <3>1. SpaceState(R, kk, en, H, y) /\ PageFree(y, c, d) /\ y.space.tables[3] = p2
            BY <1>4, <2>3, <2>5 DEF EnsuredUser
        <3>2. y.k.mem[p2][v[3]].frame = Leaf(y.k.mem, y.space, c).frame
            BY <1>2, <3>1 DEF Leaf
        <3>3. z = SetUserPage(y, AllocateZeroed(y.k), Leaf(y.k.mem, y.space, c).frame, page)
            BY <1>6, <2>5, <3>2 DEF AddUserFrame
        <3>4. page.virt = Virt(0, c, d)
            BY <1>1
        <3> HIDE DEF z
        <3>5. SpaceState(R, kk, en, H, z)
            BY <3>1, <3>3, <3>4, SetUserPageIs
        <3>6. QED
            BY <3>5 DEF z
    <2>6. QED
        BY <2>4, <2>5
<1>7. QED
    <2>1. \/ z = [x EXCEPT !.frame = NoFrame]
          \/ /\ ~ Translate(x.k.mem, sp.root, v).mapped
             /\ z = AddUserFrame(y, p2, page)
        BY DEF MapUserPage
    <2>2. QED
        BY <1>5, <1>6, <2>1

-----------------------------------------------------------------------------
(* create_process_image.                                                   *)

\* No space is left of a call.
Vacant(R, kk, en, H, x) ==
    /\ x.space = EmptySpace
    /\ Room(x.k.pm, 0)
    /\ \A f \in H : x.k.mem[f] = kk.mem[f]
    /\ \E h2 : KInv(R, x.k, en, h2, H)

\* A space is destroyed.
LEMMA SpaceDestroyed ==
    ASSUME NEW R, Machine(R), NEW kk, NEW en, NEW H, NEW x, SpaceState(R, kk, en, H, x),
           NEW z, z.k = DestroySpace(x.k, x.space), z.space = EmptySpace
    PROVE  Vacant(R, kk, en, H, z)
<1> DEFINE G == H \cup Owned(x.space)
<1>1. PICK h : KInv(R, x.k, en, h, G)
    BY DEF SpaceState
<1>2. /\ Room(x.k.pm, 0) /\ x.space \in Space(R) /\ Distinct(x.space) /\ x.space.active
      /\ \A f \in H : x.k.mem[f] = kk.mem[f]
    BY DEF SpaceState, Shape
<1>3. Splits(G, H, Owned(x.space))
    BY DEF SpaceState, Splits
<1> HIDE DEF G
<1>4. /\ \E h2 : KInv(R, z.k, en, h2, H)
      /\ Room(z.k.pm, 0) /\ z.k.mem = x.k.mem
    BY <1>1, <1>2, <1>3, DestroyIs
<1>5. QED
    BY <1>2, <1>4 DEF Vacant

LEMMA CreateProcessImageIs ==
    ASSUME NEW R, Machine(R), NEW kk, NEW en, NEW h, NEW H, KInv(R, kk, en, h, H),
           Room(kk.pm, 0), NEW p \in Plans
    PROVE  LET x == CreateProcessImage(kk, p) IN
           Vacant(R, kk, en, H, x) \/ SpaceState(R, kk, en, H, x)
<1> DEFINE new == CreateSpace(kk)
           s == ImagePages(p)
           n == Len(s)
           c == Loop(AddUserPage, new, s)
           x == CreateProcessImage(kk, p)
<1>1. IF new.frame = NoFrame THEN NoSpace(R, kk, en, H, new) ELSE SpaceState(R, kk, en, H, new)
    BY CreateSpaceIs
<1>2. \/ new.frame = NoFrame /\ x = new
      \/ new.frame # NoFrame /\ x = c
      \/ new.frame # NoFrame
         /\ x = [c EXCEPT !.k = DestroySpace(c.k, c.space), !.space = EmptySpace]
    BY DEF CreateProcessImage
<1>3. s \in Seq(ImagePage) /\ n \in Nat /\ \A i \in 1 .. n : s[i] \in ImagePage
    BY ImagePagesIs, LenProperties, ElementOfSeq
<1>4. H \subseteq FramesOf(R)
    BY DEF KInv, Owners, Good
<1> HIDE DEF new, s, x, c
<1>5. CASE new.frame = NoFrame /\ x = new
    <2>1. Vacant(R, kk, en, H, x)
        BY <1>1, <1>5 DEF NoSpace, Vacant
    <2>2. QED
        BY <2>1 DEF x
<1>6. ASSUME new.frame # NoFrame PROVE SpaceState(R, kk, en, H, c)
    <2>1. PICK g : Turns("user", new, s, g) /\ Loop(AddUserPage, new, s) = g[Len(s)]
        BY <1>3, UserTurns, Zenon
    <2>2. g[0] = new /\ \A i \in 1 .. n : g[i] = AddUserPage(g[i - 1], s[i])
        BY <2>1 DEF Turns, Body
    <2>3. c = g[n]
        BY <2>1, Zenon DEF c
    <2> DEFINE S == {i \in 0 .. n : SpaceState(R, kk, en, H, g[i])}
    <2>4. 0 \in S
        BY <1>1, <1>3, <1>6, <2>2
    <2>5. ASSUME NEW i \in 0 .. n - 1, i \in S PROVE i + 1 \in S
        <3>1. i + 1 \in 1 .. n /\ (i + 1) - 1 = i /\ i + 1 \in 0 .. n
            BY <1>3
        <3>2. g[i + 1] = AddUserPage(g[i], s[i + 1]) /\ s[i + 1] \in ImagePage
            BY <1>3, <2>2, <3>1
        <3>3. SpaceState(R, kk, en, H, g[i])
            BY <2>5
        <3>4. g[i + 1] = g[i] \/ g[i + 1] = MapUserPage(g[i], s[i + 1])
            BY <3>2 DEF AddUserPage
        <3>5. SpaceState(R, kk, en, H, MapUserPage(g[i], s[i + 1]))
            BY <1>4, <3>2, <3>3, MapUserPageIs
        <3>6. QED
            BY <3>1, <3>3, <3>4, <3>5
    <2>6. 0 .. n \subseteq S
        <3> HIDE DEF S, n
        <3>1. n \in Nat
            BY <1>3 DEF n
        <3>2. QED
            BY <2>4, <2>5, <3>1, InductionUpTo
    <2>7. QED
        BY <1>3, <2>3, <2>6
<1>7. CASE new.frame # NoFrame /\ x = c
    BY <1>6, <1>7 DEF x
<1>8. CASE /\ new.frame # NoFrame
           /\ x = [c EXCEPT !.k = DestroySpace(c.k, c.space), !.space = EmptySpace]
    <2>1. SpaceState(R, kk, en, H, c)
        BY <1>6, <1>8
    <2>2. c = [k |-> c.k, space |-> c.space, frame |-> c.frame]
        BY <2>1 DEF SpaceState, Call
    <2>3. x.k = DestroySpace(c.k, c.space) /\ x.space = EmptySpace
        BY <1>8, <2>2
    <2>4. Vacant(R, kk, en, H, x)
        BY <2>1, <2>3, SpaceDestroyed
    <2>5. QED
        BY <2>4 DEF x
<1>9. QED
    BY <1>2, <1>5, <1>7, <1>8 DEF x

-----------------------------------------------------------------------------
(* The spaces of all the processes.                                        *)

\* The frames that are not the kernel's.
Others(sps) == UNION {Owned(sps[i]) : i \in Slots}

SpacesOk(R, mem, hi, sps) ==
    /\ sps \in [Slots -> Space(R)]
    /\ \A i \in Slots : sps[i] = EmptySpace \/ Shape(R, mem, hi, sps[i])
    /\ \A i, j \in Slots : i # j => Owned(sps[i]) \cap Owned(sps[j]) = {}

\* The state of the memory: kk with the entries en, the spaces sps and
\* the heap, which is ready when hr.
State(R, kk, en, sps, hr) ==
    /\ \E h : KInv(R, kk, en, h, Others(sps))
    /\ Room(kk.pm, 0)
    /\ SpacesOk(R, kk.mem, en[N3(1)], sps)
    /\ hr => en[N3(1)].present
    /\ (\E i \in Slots : sps[i].active) => hr

LEMMA SpaceOrNot ==
    ASSUME NEW R, NEW mem, NEW hi, NEW sps, SpacesOk(R, mem, hi, sps), NEW i \in Slots
    PROVE  /\ sps[i] \in Space(R)
           /\ sps[i].active => Shape(R, mem, hi, sps[i])
           /\ ~ sps[i].active => sps[i] = EmptySpace
           /\ Owned(sps[i]) \subseteq Others(sps)
<1>1. sps[i] = EmptySpace \/ Shape(R, mem, hi, sps[i])
    BY DEF SpacesOk
<1>2. ~ EmptySpace.active
    BY EmptySpaceIs
<1>3. QED
    BY <1>1, <1>2 DEF SpacesOk, Shape, Others

\* The spaces stay when only the kernel's own tables are written, and the
\* entry of their high half stays.
LEMMA SpacesKept ==
    ASSUME NEW R, NEW mem, NEW mem2, NEW hi, NEW hi2, NEW sps, SpacesOk(R, mem, hi, sps),
           \A f \in Others(sps) : mem2[f] = mem[f],
           (\E i \in Slots : sps[i].active) => hi2 = hi
    PROVE  SpacesOk(R, mem2, hi2, sps)
<1>1. ASSUME NEW i \in Slots PROVE sps[i] = EmptySpace \/ Shape(R, mem2, hi2, sps[i])
    <2>1. CASE ~ sps[i].active
        BY <2>1, SpaceOrNot
    <2>2. CASE sps[i].active
        <3>1. Shape(R, mem, hi, sps[i]) /\ sps[i] \in Space(R) /\ Owned(sps[i]) \subseteq Others(sps)
            BY <2>2, SpaceOrNot
        <3>2. \A j \in 1 .. Len(sps[i].tables) : sps[i].tables[j] \in Owned(sps[i])
            BY <3>1, OwnedIs
        <3>3. \A j \in 1 .. Len(sps[i].tables) : mem2[sps[i].tables[j]] = mem[sps[i].tables[j]]
            BY <3>1, <3>2
        <3>4. Shape(R, mem2, hi, sps[i])
            BY <3>1, <3>3, ShapeKept
        <3>5. hi2 = hi
            BY <2>2
        <3>6. QED
            BY <3>4, <3>5
    <2>3. QED
        BY <2>1, <2>2
<1>2. QED
    BY <1>1 DEF SpacesOk

\* A step that works on the kernel's own tables.
LEMMA KernelStep ==
    ASSUME NEW R, NEW kk, NEW en, NEW sps, NEW hr, State(R, kk, en, sps, hr),
           NEW kk2, NEW en2, NEW P, Kept(kk, en, kk2, en2, Others(sps), P), Room(kk2.pm, 0),
           NEW h2, KInv(R, kk2, en2, h2, Others(sps))
    PROVE  State(R, kk2, en2, sps, hr)
<1>1. N3(1) \in Inner /\ HalfOf(N3(1)) = 1 /\ IsTable(N3(1))
    BY SmallNumbers, NodeMembers, NodeTree
<1>2. en[N3(1)].present => en2[N3(1)] = en[N3(1)]
    BY <1>1 DEF Kept
<1>3. \A f \in Others(sps) : kk2.mem[f] = kk.mem[f]
    BY DEF Kept
<1>4. (\E i \in Slots : sps[i].active) => en2[N3(1)] = en[N3(1)]
    BY <1>2 DEF State
<1>5. SpacesOk(R, kk.mem, en[N3(1)], sps)
    BY DEF State
<1>6. SpacesOk(R, kk2.mem, en2[N3(1)], sps)
    BY <1>3, <1>4, <1>5, SpacesKept
<1>7. hr => en2[N3(1)].present
    BY <1>2 DEF State
<1>8. QED
    BY <1>6, <1>7 DEF State

\* A space is put into a slot that has none.
LEMMA SlotFilled ==
    ASSUME NEW R, NEW kk, NEW en, NEW sps, State(R, kk, en, sps, TRUE),
           NEW i \in Slots, ~ sps[i].active,
           NEW x, SpaceState(R, kk, en, Others(sps), x)
    PROVE  State(R, x.k, en, [sps EXCEPT ![i] = x.space], TRUE)
<1> DEFINE H == Others(sps)
           sp == x.space
           sps2 == [sps EXCEPT ![i] = sp]
<1>1. SpacesOk(R, kk.mem, en[N3(1)], sps) /\ en[N3(1)].present
    BY DEF State
<1>2. /\ Shape(R, x.k.mem, en[N3(1)], sp) /\ Owned(sp) \cap H = {} /\ Room(x.k.pm, 0)
      /\ \A f \in H : x.k.mem[f] = kk.mem[f]
    BY DEF SpaceState
<1>3. sp \in Space(R) /\ sps \in [Slots -> Space(R)] /\ sps[i] = EmptySpace
    BY <1>1, <1>2, SpaceOrNot DEF Shape, SpacesOk
<1> HIDE DEF sp
<1>4. sps2 \in [Slots -> Space(R)] /\ sps2[i] = sp /\ \A j \in Slots : j # i => sps2[j] = sps[j]
    BY <1>3
<1> HIDE DEF sps2
<1>5. Owned(sps[i]) = {} /\ \A j \in Slots : Owned(sps[j]) \subseteq H
    BY <1>3, EmptySpaceIs DEF Others
<1>6. Others(sps2) = H \cup Owned(sp)
    <2>1. \A f \in Others(sps2) : f \in H \cup Owned(sp)
        BY <1>4, <1>5 DEF Others
    <2>2. \A f \in H : f \in Others(sps2)
        <3>1. SUFFICES ASSUME NEW f \in H PROVE f \in Others(sps2)
            OBVIOUS
        <3>2. PICK j \in Slots : f \in Owned(sps[j])
            BY DEF Others
        <3>3. j # i
            BY <1>5, <3>2
        <3>4. QED
            BY <1>4, <3>2, <3>3 DEF Others
    <2>3. \A f \in Owned(sp) : f \in Others(sps2)
        BY <1>4 DEF Others
    <2>4. QED
        BY <2>1, <2>2, <2>3
<1>7. \E h2 : KInv(R, x.k, en, h2, Others(sps2))
    BY <1>6 DEF SpaceState, sp
<1>8. SpacesOk(R, x.k.mem, en[N3(1)], sps)
    BY <1>1, <1>2, SpacesKept
<1>9. SpacesOk(R, x.k.mem, en[N3(1)], sps2)
    <2>1. \A j \in Slots : sps2[j] = EmptySpace \/ Shape(R, x.k.mem, en[N3(1)], sps2[j])
        BY <1>2, <1>4, <1>8 DEF SpacesOk
    <2>2. ASSUME NEW j \in Slots, NEW l \in Slots, j # l
          PROVE  Owned(sps2[j]) \cap Owned(sps2[l]) = {}
        <3>1. CASE j # i /\ l # i
            BY <1>1, <1>4, <2>2, <3>1 DEF SpacesOk
        <3>2. CASE j = i
            BY <1>2, <1>4, <1>5, <2>2, <3>2
        <3>3. CASE l = i
            BY <1>2, <1>4, <1>5, <2>2, <3>3
        <3>4. QED
            BY <3>1, <3>2, <3>3
    <2>3. QED
        BY <1>4, <2>1, <2>2 DEF SpacesOk
<1>10. State(R, x.k, en, sps2, TRUE)
    BY <1>1, <1>2, <1>7, <1>9 DEF State
<1>11. QED
    BY <1>10 DEF sps2, sp

\* A slot loses its space.
LEMMA SlotEmptied ==
    ASSUME NEW R, Machine(R), NEW kk, NEW en, NEW sps, NEW hr, State(R, kk, en, sps, hr),
           NEW i \in Slots, sps[i].active
    PROVE  State(R, DestroySpace(kk, sps[i]), en, [sps EXCEPT ![i] = EmptySpace], hr)
<1> DEFINE G == Others(sps)
           sp == sps[i]
           sps2 == [sps EXCEPT ![i] = EmptySpace]
           H == Others(sps2)
           z == DestroySpace(kk, sp)
<1>1. PICK h : KInv(R, kk, en, h, G)
    BY DEF State
<1>2. SpacesOk(R, kk.mem, en[N3(1)], sps) /\ Room(kk.pm, 0)
    BY DEF State
<1>3. sp \in Space(R) /\ Shape(R, kk.mem, en[N3(1)], sp) /\ Distinct(sp)
    BY <1>2, SpaceOrNot DEF Shape
<1>4. /\ sps2 \in [Slots -> Space(R)] /\ sps2[i] = EmptySpace
      /\ \A j \in Slots : j # i => sps2[j] = sps[j]
    BY <1>2, EmptySpaceIs DEF SpacesOk
<1> HIDE DEF sps2
<1>5. \A j \in Slots : j # i => Owned(sps[j]) \cap Owned(sp) = {}
    BY <1>2 DEF SpacesOk
<1>6. Owned(EmptySpace) = {} /\ EmptySpace.active = FALSE
    BY EmptySpaceIs
<1>7. Splits(G, H, Owned(sp))
    <2>1. \A f \in G : f \in H \cup Owned(sp)
        <3>1. SUFFICES ASSUME NEW f \in G PROVE f \in H \cup Owned(sp)
            OBVIOUS
        <3>2. PICK j \in Slots : f \in Owned(sps[j])
            BY DEF Others
        <3>3. CASE j = i
            BY <3>2, <3>3
        <3>4. CASE j # i
            BY <1>4, <3>2, <3>4 DEF Others
        <3>5. QED
            BY <3>3, <3>4
    <2>2. \A f \in H : f \in G /\ f \notin Owned(sp)
        <3>1. SUFFICES ASSUME NEW f \in H PROVE f \in G /\ f \notin Owned(sp)
            OBVIOUS
        <3>2. PICK j \in Slots : f \in Owned(sps2[j])
            BY DEF Others
        <3>3. j # i
            BY <1>4, <1>6, <3>2
        <3>4. QED
            BY <1>4, <1>5, <3>2, <3>3 DEF Others
    <2>3. Owned(sp) \subseteq G
        BY DEF Others
    <2>4. QED
        BY <2>1, <2>2, <2>3 DEF Splits
<1> HIDE DEF G, H, sp
<1>8. /\ \E h2 : KInv(R, z, en, h2, H)
      /\ Room(z.pm, 0) /\ z.mem = kk.mem
    <2>1. sp.active
        BY DEF sp
    <2>2. QED
        BY <1>1, <1>2, <1>3, <1>7, <2>1, DestroyIs
<1> HIDE DEF z
<1>9. SpacesOk(R, kk.mem, en[N3(1)], sps2)
    <2>1. \A j \in Slots : sps2[j] = EmptySpace \/ Shape(R, kk.mem, en[N3(1)], sps2[j])
        BY <1>2, <1>4 DEF SpacesOk
    <2>2. ASSUME NEW j \in Slots, NEW l \in Slots, j # l
          PROVE  Owned(sps2[j]) \cap Owned(sps2[l]) = {}
        <3>1. CASE j # i /\ l # i
            BY <1>2, <1>4, <2>2, <3>1 DEF SpacesOk
        <3>2. CASE j = i \/ l = i
            BY <1>4, <1>6, <2>2, <3>2
        <3>3. QED
            BY <3>1, <3>2
    <2>3. QED
        BY <1>4, <2>1, <2>2 DEF SpacesOk
<1>10. (\E j \in Slots : sps2[j].active) => hr
    <2>1. \A j \in Slots : sps2[j].active => sps[j].active
        BY <1>4, <1>6
    <2>2. QED
        BY <2>1 DEF State
<1>11. State(R, z, en, sps2, hr)
    <2>1. hr => en[N3(1)].present
        BY DEF State
    <2>2. QED
        BY <1>8, <1>9, <1>10, <2>1 DEF State, H
<1>12. QED
    BY <1>11 DEF z, sps2, sp

\* An image is made and no space is left of it.
LEMMA VacantState ==
    ASSUME NEW R, NEW kk, NEW en, NEW sps, NEW hr, State(R, kk, en, sps, hr),
           NEW x, Vacant(R, kk, en, Others(sps), x)
    PROVE  State(R, x.k, en, sps, hr)
<1>1. SpacesOk(R, kk.mem, en[N3(1)], sps) /\ \A f \in Others(sps) : x.k.mem[f] = kk.mem[f]
    BY DEF State, Vacant
<1>2. SpacesOk(R, x.k.mem, en[N3(1)], sps)
    BY <1>1, SpacesKept
<1>3. QED
    BY <1>2 DEF State, Vacant

-----------------------------------------------------------------------------
(* The memory that paging::init finds.                                     *)

\* The entries of the tables that _start builds.
BootEntries ==
    [n \in Node |-> IF n = Root THEN TableEntry(BootP4, TRUE, TRUE)
                    ELSE IF n = N3(0) THEN TableEntry(BootP3, TRUE, FALSE)
                    ELSE NoEntry]

LEMMA BootTables ==
    /\ \A f \in Nat : BootTable(f) \in Table
    /\ BootTable(BootP4)[0] = TableEntry(BootP3, TRUE, FALSE)
    /\ \A i \in 1 .. 3 : BootTable(BootP4)[i] = NoEntry
    /\ BootTable(BootP3)[0] = TableEntry(BootP2, TRUE, FALSE)
    /\ \A i \in 1 .. 3 : BootTable(BootP3)[i] = NoEntry
    /\ \A i \in Index : /\ BootTable(BootP2)[i] \in Entry /\ BootTable(BootP2)[i].present
                        /\ BootTable(BootP2)[i].huge /\ ~ BootTable(BootP2)[i].user
                        /\ BootTable(BootP2)[i].writable /\ ~ BootTable(BootP2)[i].nx
<1>1. /\ TableEntry(BootP3, TRUE, FALSE) \in Entry /\ TableEntry(BootP2, TRUE, FALSE) \in Entry
    BY DEF TableEntry, PageEntry, Entry, BootP3, BootP2
<1>2. BootTable(BootP4) = [ZeroTable EXCEPT ![0] = TableEntry(BootP3, TRUE, FALSE)]
    <2>1. BootP4 # BootP2 /\ BootP4 # BootP3
        BY DEF BootP4, BootP3, BootP2
    <2>2. QED
        BY <2>1, Zenon DEF BootTable
<1>3. BootTable(BootP3) = [ZeroTable EXCEPT ![0] = TableEntry(BootP2, TRUE, FALSE)]
    <2>1. BootP3 # BootP4 /\ BootP3 # BootP2
        BY DEF BootP4, BootP3, BootP2
    <2>2. QED
        BY <2>1, Zenon DEF BootTable
<1>4. BootTable(BootP2) = [i \in Index |-> [PageEntry(i, KernelFlags) EXCEPT !.huge = TRUE]]
    <2>1. BootP2 # BootP4 /\ BootP2 # BootP3
        BY DEF BootP4, BootP3, BootP2
    <2>2. QED
        BY <2>1, Zenon DEF BootTable
<1>5. \A i \in Index : LET e == [PageEntry(i, KernelFlags) EXCEPT !.huge = TRUE] IN
          e \in Entry /\ e.present /\ e.huge /\ ~ e.user /\ e.writable /\ ~ e.nx
    <2>1. SUFFICES ASSUME NEW i \in Index
                   PROVE  LET e == [PageEntry(i, KernelFlags) EXCEPT !.huge = TRUE] IN
                          e \in Entry /\ e.present /\ e.huge /\ ~ e.user /\ e.writable /\ ~ e.nx
        BY Zenon
    <2>2. i \in Nat
        BY DEF Index
    <2> DEFINE r == PageEntry(i, KernelFlags)
    <2>3. r \in Entry /\ r.present /\ ~ r.user /\ r.writable /\ ~ r.nx
        BY <2>2 DEF PageEntry, KernelFlags, Entry
    <2> HIDE DEF r
    <2>4. [r EXCEPT !.huge = TRUE] \in Entry
        BY <2>3 DEF Entry
    <2>5. /\ [r EXCEPT !.huge = TRUE].present /\ [r EXCEPT !.huge = TRUE].huge
          /\ ~ [r EXCEPT !.huge = TRUE].user
          /\ [r EXCEPT !.huge = TRUE].writable /\ ~ [r EXCEPT !.huge = TRUE].nx
        BY <2>3 DEF Entry
    <2>6. QED
        BY <2>4, <2>5, Zenon DEF r
<1>6. BootTable(BootP2) \in Table /\ \A i \in Index :
          BootTable(BootP2)[i] = [PageEntry(i, KernelFlags) EXCEPT !.huge = TRUE]
    BY <1>4, <1>5 DEF Table
<1>7. 0 \in Index /\ \A i \in 1 .. 3 : i \in Index /\ i # 0
    BY DEF Index
<1>8. BootTable(BootP4) \in Table /\ BootTable(BootP3) \in Table
    BY <1>1, <1>2, <1>3, <1>7, ZeroTableType DEF Table
<1>9. \A f \in Nat : BootTable(f) \in Table
    BY <1>6, <1>8, ZeroTableType DEF BootTable
<1>10. \A i \in Index : ZeroTable[i] = NoEntry
    BY DEF ZeroTable
<1>11. /\ BootTable(BootP4)[0] = TableEntry(BootP3, TRUE, FALSE)
       /\ \A i \in 1 .. 3 : BootTable(BootP4)[i] = NoEntry
    BY <1>2, <1>7, <1>10, ZeroTableType DEF Table
<1>12. /\ BootTable(BootP3)[0] = TableEntry(BootP2, TRUE, FALSE)
       /\ \A i \in 1 .. 3 : BootTable(BootP3)[i] = NoEntry
    BY <1>3, <1>7, <1>10, ZeroTableType DEF Table
<1>13. QED
    BY <1>5, <1>6, <1>9, <1>11, <1>12

LEMMA BootEntriesAre ==
    /\ BootEntries \in [Node -> Entry]
    /\ BootEntries[Root] = TableEntry(BootP4, TRUE, TRUE)
    /\ BootEntries[N3(0)] = TableEntry(BootP3, TRUE, FALSE)
    /\ \A n \in Inner : n # N3(0) => BootEntries[n] = NoEntry
    /\ \A n \in Inner : BootEntries[n].present => n = N3(0)
<1>1. /\ TableEntry(BootP4, TRUE, TRUE) \in Entry /\ TableEntry(BootP3, TRUE, FALSE) \in Entry
      /\ NoEntry \in Entry /\ ~ NoEntry.present
    BY DEF TableEntry, PageEntry, Entry, BootP3, BootP4, NoEntry
<1>2. BootEntries \in [Node -> Entry]
    BY <1>1 DEF BootEntries
<1>3. Root \in Node /\ N3(0) \in Node /\ N3(0) # Root /\ \A n \in Inner : n \in Node /\ n # Root
    BY SmallNumbers, NodeMembers, NodesDiffer DEF Inner
<1>4. \A n \in Inner : n # N3(0) => BootEntries[n] = NoEntry
    BY <1>3 DEF BootEntries
<1>5. QED
    BY <1>1, <1>2, <1>3, <1>4 DEF BootEntries

LEMMA NewMemoryIs ==
    ASSUME NEW R, Machine(R)
    PROVE  /\ KInv(R, NewKernelMemory(R), BootEntries, {}, {})
           /\ Room(NewKernelMemory(R).pm, 0)
           /\ UserPagesIn(BootEntries, {})
<1> DEFINE kk == NewKernelMemory(R)
           mem == kk.mem
           en == BootEntries
           a == NewAllocator(R)
<1>1. Good(R, a, {}) /\ a \in AllocatorState(R) /\ a.recycled = <<>>
    BY NewGood DEF Machine, Good, NewAllocator
<1>2. \A f \in ImageFrames \cup FramesOf(R) : f \in Nat
    BY FrameFacts DEF ImageFrames, Machine
<1>3. /\ kk.pm = a /\ mem = [f \in ImageFrames \cup FramesOf(R) |-> BootTable(f)]
      /\ kk.records = {} /\ kk.overflowed = FALSE /\ kk.cleanupFailed = FALSE
      /\ kk = [pm |-> kk.pm, mem |-> kk.mem, records |-> kk.records,
               overflowed |-> kk.overflowed, cleanupFailed |-> kk.cleanupFailed]
    BY DEF NewKernelMemory
<1>4. /\ BootP4 \in ImageFrames /\ BootP3 \in ImageFrames /\ BootP2 \in ImageFrames
      /\ BootP4 # BootP3
    BY DEF BootP4, BootP3, BootP2, ImageFrames
<1>5. /\ mem[BootP4] = BootTable(BootP4) /\ mem[BootP3] = BootTable(BootP3)
      /\ mem[BootP2] = BootTable(BootP2)
    BY <1>3, <1>4
<1>6. mem \in Memory(R)
    BY <1>2, <1>3, BootTables DEF Memory
<1> HIDE DEF kk, mem
<1>7. kk \in KernelMemory(R)
    <2>1. kk.pm \in AllocatorState(R) /\ kk.mem \in Memory(R)
        BY <1>1, <1>3, <1>6 DEF mem
    <2>2. QED
        BY <1>3, <2>1 DEF KernelMemory
<1>8. KTree(R, mem, en)
    <2>1. /\ en[Root].present /\ en[Root].frame = BootP4 /\ en[Root].writable
          /\ en[N3(0)].present /\ en[N3(0)].frame = BootP3 /\ ~ NoEntry.present
          /\ en[N3(0)] \in Entry /\ ~ en[N3(0)].huge /\ en[N3(0)].writable /\ ~ en[N3(0)].nx
        BY BootEntriesAre DEF TableEntry, PageEntry, NoEntry, Entry, BootP3
    <2>2. /\ Parent(N3(0)) = Root /\ N3(0) \in Inner /\ HalfOf(N3(0)) = 0 /\ IsTable(N3(0))
          /\ N3(0) # Root
        BY SmallNumbers, NodeMembers, NodeTree, NodesDiffer
    <2>3. EntryOf(R, N3(0), en[N3(0)], en[Root])
        <3>1. FrameOk(R, N3(0), en[N3(0)])
            BY <2>1, <2>2 DEF FrameOk
        <3>2. FlagsOk(N3(0), en[N3(0)], en[Root])
            BY <2>1, <2>2 DEF FlagsOk
        <3>3. QED
            BY <2>1, <3>1, <3>2 DEF EntryOf
    <2>4. \A n \in Inner : EntryOf(R, n, en[n], en[Parent(n)])
        <3>1. ASSUME NEW n \in Inner, n # N3(0) PROVE EntryOf(R, n, en[n], en[Parent(n)])
            BY <3>1, BootEntriesAre DEF EntryOf
        <3>2. QED
            BY <2>2, <2>3, <3>1
    <2>5. ASSUME NEW n \in Inner
          PROVE  IF en[Parent(n)].present THEN mem[en[Parent(n)].frame][Slot(n)] = en[n]
                                          ELSE en[n] = NoEntry
        <3>1. CASE Parent(n) = Root
            <4>1. PICK s \in Half : n = N3(s)
                BY <3>1, NodeCases, NodeTree, NodesDiffer
            <4>2. Slot(n) = s
                BY <4>1, NodeTree
            <4>3. CASE s = 0
                BY <1>5, <2>1, <3>1, <4>1, <4>2, <4>3, BootEntriesAre, BootTables
            <4>4. CASE s = 1
                <5>1. n # N3(0) /\ 1 \in 1 .. 3
                    BY <4>1, <4>4, SmallNumbers, NodesDiffer
                <5>2. en[n] = NoEntry /\ mem[BootP4][1] = NoEntry
                    BY <1>5, <5>1, BootEntriesAre, BootTables
                <5>3. QED
                    BY <2>1, <3>1, <4>2, <4>4, <5>2
            <4>5. QED
                BY <4>3, <4>4 DEF Half
        <3>2. CASE Parent(n) = N3(0)
            <4>1. n = N2(0)
                BY <3>2, SmallNumbers, NodeCases, NodeTree, NodesDiffer
            <4>2. Slot(n) = 1 /\ n # N3(0) /\ 1 \in 1 .. 3
                BY <4>1, SmallNumbers, NodeTree, NodesDiffer
            <4>3. en[n] = NoEntry /\ mem[BootP3][1] = NoEntry
                BY <1>5, <4>2, BootEntriesAre, BootTables
            <4>4. QED
                BY <2>1, <3>2, <4>2, <4>3
        <3>3. CASE Parent(n) # Root /\ Parent(n) # N3(0)
            <4>1. Parent(n) \in Inner
                BY <3>3, NodeLaws
            <4>2. ~ en[Parent(n)].present /\ n # N3(0)
                BY <2>1, <2>2, <3>3, <4>1, BootEntriesAre
            <4>3. QED
                BY <4>2, BootEntriesAre
        <3>4. QED
            BY <3>1, <3>2, <3>3
    <2>6. ASSUME NEW n \in Node, IsTable(n), en[n].present, NEW i \in Spare(n)
          PROVE  mem[en[n].frame][i] = Fixed(n, i)
        <3>1. n = Root \/ n = N3(0)
            BY <2>6, NodeMembers, BootEntriesAre
        <3>2. CASE n = Root
            <4>1. i \in 2 .. 3
                BY <2>6, <3>2, NodeSpare
            <4>2. i \in 1 .. 3
                BY <4>1
            <4>3. QED
                BY <1>5, <2>1, <2>2, <3>2, <4>2, BootTables DEF Fixed
        <3>3. CASE n = N3(0)
            <4>1. i \in Index \ {1 - 0}
                BY <2>6, <3>3, SmallNumbers, NodeSpare
            <4>2. i = 0 \/ (i \in 1 .. 3 /\ i # 0)
                BY <4>1 DEF Index
            <4>3. QED
                BY <1>5, <2>1, <3>3, <4>2, BootTables DEF Fixed
        <3>4. QED
            BY <3>1, <3>2, <3>3
    <2>7. ASSUME NEW n \in Node, NEW m \in Node, en[n].present, en[m].present,
                 en[n].frame = en[m].frame
          PROVE  n = m
        <3>1. (n = Root \/ n = N3(0)) /\ (m = Root \/ m = N3(0))
            BY <2>7, NodeMembers, BootEntriesAre
        <3>2. QED
            BY <1>4, <2>1, <2>7, <3>1
    <2>8. QED
        BY <1>5, <2>1, <2>4, <2>5, <2>6, <2>7, BootEntriesAre DEF KTree
<1>9. KernelFrames(R, en) = {}
    <2>1. SUFFICES ASSUME NEW f \in FramesOf(R), NEW n \in Node, en[n].present, en[n].frame = f
                   PROVE  FALSE
        BY DEF KernelFrames
    <2>2. n = Root \/ n = N3(0)
        BY <2>1, NodeMembers, BootEntriesAre
    <2>3. f = BootP4 \/ f = BootP3
        BY <2>1, <2>2, BootEntriesAre DEF TableEntry, PageEntry
    <2>4. QED
        BY <1>4, <2>3 DEF Machine
<1>10. \A s, c \in Half, d \in Index : ~ en[N0(s, c, d)].present
    BY SmallNumbers, NodeMembers, NodesDiffer, BootEntriesAre
<1>11. Recorded(kk, en)
    BY <1>3, <1>10, SmallNumbers DEF Recorded
<1>12. KInv(R, kk, en, {}, {})
    BY <1>1, <1>3, <1>7, <1>8, <1>9, <1>11 DEF KInv, Owners, mem
<1>13. Room(kk.pm, 0)
    BY <1>1, <1>3, MaxRecycledAssumption DEF Room
<1>14. UserPagesIn(en, {})
    BY <1>10, SmallNumbers DEF UserPagesIn
<1>15. QED
    BY <1>12, <1>13, <1>14 DEF kk

-----------------------------------------------------------------------------
(* The inductive invariant of Paging: the memory is the kernel's and the   *)
(* spaces', the processes come after the boot, and the pages of the user   *)
(* range that a step of the boot finds mapped are those of the steps       *)
(* before it.                                                              *)

\* en are the entries of the kernel's tables on a machine with the regions R.
StateNow(R, en) ==
    /\ Machine(R)
    /\ State(R, k, en, spaces, heapReady)
    /\ phase \in {"heap::init", "user::init"} => UserPagesIn(en, {})
    /\ phase = "elf::init" => UserPagesIn(en, ProbeNodes)

RootInUse == cr3 = BootP4 \/ \E i \in Slots : spaces[i].active /\ cr3 = spaces[i].root

BootOrder ==
    /\ plan \in Plans \cup {NoPlan}
    /\ phase # "up" => \A i \in Slots : spaces[i] = EmptySpace

PagingInv == (\E R, en : StateNow(R, en)) /\ RootInUse /\ BootOrder

LEMMA EmptySpaces ==
    ASSUME NEW R, NEW mem, NEW hi, NEW sps, sps = [i \in Slots |-> EmptySpace]
    PROVE  Others(sps) = {} /\ SpacesOk(R, mem, hi, sps) /\ \A i \in Slots : ~ sps[i].active
<1>1. \A i \in Slots : sps[i] = EmptySpace
    OBVIOUS
<1>2. EmptySpace \in Space(R) /\ Owned(EmptySpace) = {} /\ ~ EmptySpace.active
    BY EmptySpaceIs
<1>3. sps \in [Slots -> Space(R)]
    BY <1>2
<1>4. QED
    BY <1>1, <1>2, <1>3 DEF Others, SpacesOk

LEMMA InitHolds == Init => PagingInv
<1>1. SUFFICES ASSUME Init PROVE PagingInv
    OBVIOUS
<1>2. PICK R \in Memories : k = NewKernelMemory(R)
    BY <1>1 DEF Init
<1>3. Machine(R)
    BY MemoriesAssumption DEF Machine
<1>4. /\ KInv(R, k, BootEntries, {}, {}) /\ Room(k.pm, 0) /\ UserPagesIn(BootEntries, {})
    BY <1>2, <1>3, NewMemoryIs
<1>5. /\ spaces = [i \in Slots |-> EmptySpace] /\ heapReady = FALSE /\ phase = "heap::init"
      /\ cr3 = BootP4 /\ plan \in Plans \cup {NoPlan}
    BY <1>1 DEF Init
<1>6. /\ Others(spaces) = {} /\ SpacesOk(R, k.mem, BootEntries[N3(1)], spaces)
      /\ \A i \in Slots : ~ spaces[i].active
    BY <1>5, EmptySpaces
<1>7. State(R, k, BootEntries, spaces, heapReady)
    BY <1>4, <1>5, <1>6 DEF State
<1>8. StateNow(R, BootEntries)
    BY <1>3, <1>4, <1>5, <1>7 DEF StateNow
<1>9. QED
    BY <1>5, <1>8 DEF PagingInv, RootInUse, BootOrder

\* Pages of the other half do not count.
LEMMA UserPagesOnly ==
    ASSUME NEW en, NEW P, NEW Q, UserPagesIn(en, P),
           \A c \in Half, d \in Index : N0(0, c, d) \in P => N0(0, c, d) \in Q
    PROVE  UserPagesIn(en, Q)
BY DEF UserPagesIn

LEMMA InitHeapKeeps == PagingInv /\ InitHeap => PagingInv'
<1>1. SUFFICES ASSUME PagingInv, InitHeap PROVE PagingInv'
    OBVIOUS
<1>2. PICK R, en : StateNow(R, en)
    BY <1>1 DEF PagingInv
<1> DEFINE r == Loop(MapHeapPage, [k |-> k, ok |-> TRUE], HeapPages)
<1>3. /\ phase = "heap::init" /\ k' = r.k /\ heapReady' = r.ok /\ phase' = "user::init"
      /\ spaces' = spaces /\ cr3' = cr3 /\ plan' = plan
    BY <1>1, Zenon DEF InitHeap
<1>4. /\ Machine(R) /\ State(R, k, en, spaces, heapReady) /\ UserPagesIn(en, {})
    BY <1>2, <1>3 DEF StateNow
<1>5. PICK h : KInv(R, k, en, h, Others(spaces))
    BY <1>4 DEF State
<1>6. HeapState(R, k, en, Others(spaces), TRUE, r)
    <2>1. Room(k.pm, 0)
        BY <1>4 DEF State
    <2>2. QED
        BY <1>4, <1>5, <2>1, HeapIs, Zenon
<1> HIDE DEF r
<1>7. PICK en2, h2 : /\ KInv(R, k', en2, h2, Others(spaces)) /\ Room(k'.pm, 0)
                     /\ Kept(k, en, k', en2, Others(spaces), HeapNodes)
                     /\ r.ok => en2[N3(1)].present
    BY <1>3, <1>6, Zenon DEF HeapState
<1>8. State(R, k', en2, spaces, heapReady)
    BY <1>4, <1>7, KernelStep
<1>9. \A i \in Slots : ~ spaces[i].active
    <2>1. \A i \in Slots : spaces[i] = EmptySpace
        BY <1>1, <1>3 DEF PagingInv, BootOrder
    <2>2. QED
        BY <2>1, EmptySpaceIs
<1>10. State(R, k', en2, spaces', heapReady')
    BY <1>3, <1>7, <1>8, <1>9 DEF State
<1>11. UserPagesIn(en2, {})
    <2>1. UserPagesIn(en2, {} \cup HeapNodes)
        BY <1>4, <1>7, UserPagesKept
    <2>2. \A c \in Half, d \in Index : N0(0, c, d) \notin HeapNodes
        BY SmallNumbers, NodesDiffer DEF HeapNodes
    <2>3. QED
        BY <2>1, <2>2, UserPagesOnly
<1>12. StateNow(R, en2)'
    BY <1>3, <1>4, <1>10, <1>11 DEF StateNow
<1>13. RootInUse' /\ BootOrder'
    BY <1>1, <1>3 DEF PagingInv, RootInUse, BootOrder
<1>14. QED
    BY <1>12, <1>13 DEF PagingInv

LEMMA InitUserKeeps == PagingInv /\ InitUser => PagingInv'
<1>1. SUFFICES ASSUME PagingInv, InitUser PROVE PagingInv'
    OBVIOUS
<1>2. PICK R, en : StateNow(R, en)
    BY <1>1 DEF PagingInv
<1> DEFINE code == MapProbePage(k, ProbeCodePage, ProbeCodeFrame, ReadExecute)
           stack == MapProbePage(code.k, ProbeStackPage, ProbeStackFrame, ReadWrite)
<1>3. /\ phase = "user::init" /\ k' = stack.k /\ phase' = "elf::init"
      /\ spaces' = spaces /\ cr3' = cr3 /\ plan' = plan /\ heapReady' = heapReady
    BY <1>1, Zenon DEF InitUser
<1>4. /\ Machine(R) /\ State(R, k, en, spaces, heapReady) /\ UserPagesIn(en, {})
    BY <1>2, <1>3 DEF StateNow
<1>5. PICK h : KInv(R, k, en, h, Others(spaces))
    BY <1>4 DEF State
<1>6. \E en2, h2 : /\ KInv(R, stack.k, en2, h2, Others(spaces)) /\ Room(stack.k.pm, 0)
                   /\ Kept(k, en, stack.k, en2, Others(spaces), ProbeNodes)
                   /\ UserPagesIn(en2, ProbeNodes)
    <2>1. Room(k.pm, 0)
        BY <1>4 DEF State
    <2>2. QED
        BY <1>4, <1>5, <2>1, UserInitIs, Zenon
<1> HIDE DEF code, stack
<1>7. PICK en2, h2 : /\ KInv(R, k', en2, h2, Others(spaces)) /\ Room(k'.pm, 0)
                     /\ Kept(k, en, k', en2, Others(spaces), ProbeNodes)
                     /\ UserPagesIn(en2, ProbeNodes)
    BY <1>3, <1>6, Zenon
<1>8. State(R, k', en2, spaces, heapReady)
    BY <1>4, <1>7, KernelStep
<1>9. StateNow(R, en2)'
    BY <1>3, <1>4, <1>7, <1>8 DEF StateNow
<1>10. RootInUse' /\ BootOrder'
    BY <1>1, <1>3 DEF PagingInv, RootInUse, BootOrder
<1>11. QED
    BY <1>9, <1>10 DEF PagingInv

LEMMA InitElfKeeps == PagingInv /\ InitElf => PagingInv'
<1>1. SUFFICES ASSUME PagingInv, InitElf PROVE PagingInv'
    OBVIOUS
<1>2. PICK R, en : StateNow(R, en)
    BY <1>1 DEF PagingInv
<1>3. /\ phase = "elf::init" /\ k' = (IF plan = NoPlan THEN k ELSE LoadImage(k, plan))
      /\ phase' = "up"
      /\ spaces' = spaces /\ cr3' = cr3 /\ plan' = plan /\ heapReady' = heapReady
    BY <1>1, Zenon DEF InitElf
<1>4. /\ Machine(R) /\ State(R, k, en, spaces, heapReady) /\ UserPagesIn(en, ProbeNodes)
      /\ Room(k.pm, 0)
    BY <1>2, <1>3 DEF StateNow, State
<1>5. PICK h : KInv(R, k, en, h, Others(spaces))
    BY <1>4 DEF State
<1>6. \E en2 : State(R, k', en2, spaces, heapReady)
    <2>1. CASE plan = NoPlan
        BY <1>3, <1>4, <2>1
    <2>2. CASE plan # NoPlan
        <3>1. plan \in Plans /\ k' = LoadImage(k, plan)
            BY <1>1, <1>3, <2>2 DEF PagingInv, BootOrder
        <3>2. Loaded(R, k, en, Others(spaces), k')
            BY <1>4, <1>5, <3>1, LoadImageIs
        <3>3. PICK en2, h2 : /\ KInv(R, k', en2, h2, Others(spaces)) /\ Room(k'.pm, 0)
                             /\ Kept(k, en, k', en2, Others(spaces), ImageNodes)
            BY <3>2, Zenon DEF Loaded
        <3>4. State(R, k', en2, spaces, heapReady)
            BY <1>4, <3>3, KernelStep
        <3>5. QED
            BY <3>4
    <2>3. QED
        BY <2>1, <2>2
<1>7. \E en2 : StateNow(R, en2)'
    BY <1>3, <1>4, <1>6 DEF StateNow
<1>8. RootInUse' /\ BootOrder'
    BY <1>1, <1>3 DEF PagingInv, RootInUse, BootOrder
<1>9. QED
    BY <1>7, <1>8 DEF PagingInv

\* A step of a process leaves the boot alone.
LEMMA StateAfter ==
    ASSUME phase = "up", NEW R, NEW en, Machine(R), State(R, k', en, spaces', heapReady'),
           phase' = phase, plan' = plan, BootOrder, RootInUse'
    PROVE  PagingInv'
<1>1. StateNow(R, en)'
    BY DEF StateNow
<1>2. BootOrder'
    BY DEF BootOrder
<1>3. QED
    BY <1>1, <1>2 DEF PagingInv

\* create_process_image at work.
LEMMA ImageMade ==
    ASSUME PagingInv, MaySpawn
    PROVE  \E R, en : LET c == CreateProcessImage(k, plan) IN
              /\ Machine(R) /\ State(R, k, en, spaces, heapReady)
              /\ Vacant(R, k, en, Others(spaces), c) \/ SpaceState(R, k, en, Others(spaces), c)
<1>1. PICK R, en : StateNow(R, en)
    BY DEF PagingInv
<1>2. Machine(R) /\ State(R, k, en, spaces, heapReady) /\ Room(k.pm, 0)
    BY <1>1 DEF StateNow, State
<1>3. PICK h : KInv(R, k, en, h, Others(spaces))
    BY <1>2 DEF State
<1>4. plan \in Plans
    BY DEF PagingInv, BootOrder, MaySpawn
<1>5. QED
    BY <1>2, <1>3, <1>4, CreateProcessImageIs

LEMMA SpawnKeeps ==
    ASSUME PagingInv, NEW i \in Slots, Spawn(i)
    PROVE  PagingInv'
<1> DEFINE c == CreateProcessImage(k, plan)
<1>1. /\ MaySpawn /\ heapReady /\ ~ spaces[i].active /\ k' = c.k
      /\ spaces' = [spaces EXCEPT ![i] = c.space]
      /\ phase' = phase /\ heapReady' = heapReady /\ plan' = plan /\ cr3' = cr3
    BY Zenon DEF Spawn
<1>2. phase = "up" /\ cr3 = BootP4 /\ BootOrder
    BY <1>1 DEF MaySpawn, InKernel, PagingInv
<1>3. RootInUse'
    BY <1>1, <1>2 DEF RootInUse
<1>4. PICK R, en : /\ Machine(R) /\ State(R, k, en, spaces, heapReady)
                   /\ Vacant(R, k, en, Others(spaces), c) \/ SpaceState(R, k, en, Others(spaces), c)
    BY <1>1, ImageMade
<1> HIDE DEF c
<1>5. State(R, k', en, spaces', heapReady')
    <2>1. CASE Vacant(R, k, en, Others(spaces), c)
        <3>1. c.space = EmptySpace
            BY <2>1 DEF Vacant
        <3>2. SpacesOk(R, k.mem, en[N3(1)], spaces)
            BY <1>4 DEF State
        <3>3. spaces[i] = EmptySpace /\ spaces \in [Slots -> Space(R)]
            BY <1>1, <3>2, SpaceOrNot DEF SpacesOk
        <3>4. spaces' = spaces
            BY <1>1, <3>1, <3>3
        <3>5. State(R, c.k, en, spaces, heapReady)
            BY <1>4, <2>1, VacantState
        <3>6. QED
            BY <1>1, <3>4, <3>5
    <2>2. CASE SpaceState(R, k, en, Others(spaces), c)
        <3>1. State(R, k, en, spaces, TRUE)
            BY <1>1, <1>4 DEF State
        <3>2. State(R, c.k, en, [spaces EXCEPT ![i] = c.space], TRUE)
            BY <1>1, <2>2, <3>1, SlotFilled
        <3>3. State(R, k', en, spaces', TRUE)
            BY <1>1, <3>2
        <3>4. QED
            BY <1>1, <3>3 DEF State
    <2>3. QED
        BY <1>4, <2>1, <2>2
<1>6. QED
    BY <1>1, <1>2, <1>3, <1>4, <1>5, StateAfter

LEMMA SpawnRefusedKeeps ==
    ASSUME PagingInv, SpawnRefused
    PROVE  PagingInv'
<1> DEFINE c == CreateProcessImage(k, plan)
<1>1. /\ MaySpawn /\ k' = DestroySpace(c.k, c.space) /\ spaces' = spaces
      /\ phase' = phase /\ heapReady' = heapReady /\ plan' = plan /\ cr3' = cr3
    BY Zenon DEF SpawnRefused
<1>2. phase = "up" /\ cr3 = BootP4 /\ BootOrder
    BY <1>1 DEF MaySpawn, InKernel, PagingInv
<1>3. RootInUse'
    BY <1>1, <1>2 DEF RootInUse
<1>4. PICK R, en : /\ Machine(R) /\ State(R, k, en, spaces, heapReady)
                   /\ Vacant(R, k, en, Others(spaces), c) \/ SpaceState(R, k, en, Others(spaces), c)
    BY <1>1, ImageMade
<1> HIDE DEF c
<1>5. State(R, k', en, spaces, heapReady)
    <2>1. CASE Vacant(R, k, en, Others(spaces), c)
        <3>1. c.space = EmptySpace
            BY <2>1 DEF Vacant
        <3>2. ~ c.space.active
            BY <3>1, EmptySpaceIs
        <3>3. k' = c.k
            BY <1>1, <3>2 DEF DestroySpace
        <3>4. QED
            BY <1>4, <2>1, <3>3, VacantState
    <2>2. CASE SpaceState(R, k, en, Others(spaces), c)
        <3> DEFINE z == [k |-> DestroySpace(c.k, c.space), space |-> EmptySpace]
        <3>1. z.k = DestroySpace(c.k, c.space) /\ z.space = EmptySpace
            OBVIOUS
        <3> HIDE DEF z
        <3>2. Vacant(R, k, en, Others(spaces), z)
            BY <1>4, <2>2, <3>1, SpaceDestroyed
        <3>3. State(R, z.k, en, spaces, heapReady)
            BY <1>4, <3>2, VacantState
        <3>4. QED
            BY <1>1, <3>1, <3>3
    <2>3. QED
        BY <1>4, <2>1, <2>2
<1>6. QED
    BY <1>1, <1>2, <1>3, <1>4, <1>5, StateAfter

LEMMA CleanupKeeps ==
    ASSUME PagingInv, NEW i \in Slots, Cleanup(i)
    PROVE  PagingInv'
<1>1. /\ phase = "up" /\ cr3 = BootP4 /\ spaces[i].active /\ k' = DestroySpace(k, spaces[i])
      /\ spaces' = [spaces EXCEPT ![i] = EmptySpace]
      /\ phase' = phase /\ heapReady' = heapReady /\ plan' = plan /\ cr3' = cr3
    BY DEF Cleanup, InKernel
<1>2. PICK R, en : StateNow(R, en)
    BY DEF PagingInv
<1>3. Machine(R) /\ State(R, k, en, spaces, heapReady) /\ BootOrder
    BY <1>2 DEF StateNow, PagingInv
<1>4. State(R, DestroySpace(k, spaces[i]), en, [spaces EXCEPT ![i] = EmptySpace], heapReady)
    BY <1>1, <1>3, SlotEmptied
<1>5. State(R, k', en, spaces', heapReady')
    BY <1>1, <1>4
<1>6. RootInUse'
    BY <1>1 DEF RootInUse
<1>7. QED
    BY <1>1, <1>3, <1>5, <1>6, StateAfter

LEMMA VmTestKeeps ==
    ASSUME PagingInv, VmTest
    PROVE  PagingInv'
<1>1. /\ phase = "up" /\ cr3 = BootP4 /\ k' = ProbeMapUnmap(k, VmTestPage) /\ spaces' = spaces
      /\ phase' = phase /\ heapReady' = heapReady /\ plan' = plan /\ cr3' = cr3
    BY DEF VmTest, InKernel
<1>2. PICK R, en : StateNow(R, en)
    BY DEF PagingInv
<1>3. Machine(R) /\ State(R, k, en, spaces, heapReady) /\ BootOrder /\ Room(k.pm, 0)
    BY <1>2 DEF StateNow, PagingInv, State
<1>4. PICK h : KInv(R, k, en, h, Others(spaces))
    BY <1>3 DEF State
<1>5. PICK en2, h2 : /\ KInv(R, k', en2, h2, Others(spaces)) /\ Room(k'.pm, 0)
                     /\ Kept(k, en, k', en2, Others(spaces), {N0(1, 1, 0)})
    BY <1>1, <1>3, <1>4, ProbeIs
<1>6. State(R, k', en2, spaces, heapReady)
    BY <1>3, <1>5, KernelStep
<1>7. RootInUse'
    BY <1>1 DEF RootInUse
<1>8. QED
    BY <1>1, <1>3, <1>6, <1>7, StateAfter

\* The steps that only load cr3.
LoadsRoot ==
    /\ cr3' = BootP4 \/ \E i \in Slots : spaces[i].active /\ cr3' = spaces[i].root
    /\ UNCHANGED <<phase, k, heapReady, plan, spaces>>

LEMMA LoadsRootKeeps ==
    ASSUME PagingInv, LoadsRoot
    PROVE  PagingInv'
<1>1. PICK R, en : StateNow(R, en)
    BY DEF PagingInv
<1>2. StateNow(R, en)'
    BY <1>1 DEF StateNow, LoadsRoot
<1>3. RootInUse' /\ BootOrder'
    BY DEF RootInUse, BootOrder, LoadsRoot, PagingInv
<1>4. QED
    BY <1>2, <1>3 DEF PagingInv

\* Every step of kernel_main, of the processes and of the shell keeps the
\* invariant of the memory, for every machine, image and number of processes:
\* the tables form the tree, the frames in use are the kernel's and the living
\* spaces', and the spaces have their shape.
THEOREM PagingInvariant == Spec => []PagingInv
<1>1. Init => PagingInv
    BY InitHolds
<1>2. PagingInv /\ [Next]_vars => PagingInv'
    <2>1. SUFFICES ASSUME PagingInv, [Next]_vars PROVE PagingInv'
        OBVIOUS
    <2>2. CASE InitHeap
        BY <2>1, <2>2, InitHeapKeeps
    <2>3. CASE InitUser
        BY <2>1, <2>3, InitUserKeeps
    <2>4. CASE InitElf
        BY <2>1, <2>4, InitElfKeeps
    <2>5. ASSUME NEW i \in Slots, Spawn(i) PROVE PagingInv'
        BY <2>1, <2>5, SpawnKeeps
    <2>6. ASSUME NEW i \in Slots, EnterUser(i) PROVE PagingInv'
        <3>1. LoadsRoot
            BY <2>6 DEF EnterUser, LoadsRoot
        <3>2. QED
            BY <2>1, <3>1, LoadsRootKeeps
    <2>7. ASSUME NEW i \in Slots, SwitchTo(i) PROVE PagingInv'
        <3>1. LoadsRoot
            BY <2>7 DEF SwitchTo, LoadsRoot
        <3>2. QED
            BY <2>1, <3>1, LoadsRootKeeps
    <2>8. ASSUME NEW i \in Slots, Cleanup(i) PROVE PagingInv'
        BY <2>1, <2>8, CleanupKeeps
    <2>9. CASE SpawnRefused
        BY <2>1, <2>9, SpawnRefusedKeeps
    <2>10. CASE ReturnToKernel \/ UserFault
        <3>1. LoadsRoot
            BY <2>10 DEF ReturnToKernel, UserFault, LoadsRoot
        <3>2. QED
            BY <2>1, <3>1, LoadsRootKeeps
    <2>11. CASE VmTest
        BY <2>1, <2>11, VmTestKeeps
    <2>12. CASE UNCHANGED vars
        <3>1. LoadsRoot
            BY <2>1, <2>12 DEF vars, LoadsRoot, PagingInv, RootInUse
        <3>2. QED
            BY <2>1, <3>1, LoadsRootKeeps
    <2>13. QED
        BY <2>1, <2>2, <2>3, <2>4, <2>5, <2>6, <2>7, <2>8, <2>9, <2>10, <2>11, <2>12 DEF Next
<1>3. QED
    BY <1>1, <1>2, PTL DEF Spec

-----------------------------------------------------------------------------
(* The frames that the kernel's tables lead to, level by level.            *)

\* The frames of the nodes of a level.
Level(en, l) == {en[n].frame : n \in {n \in Node : n[1] = l /\ en[n].present}}

LEMMA NodeLevels ==
    /\ \A n \in Node : n[1] \in 0 .. 4 /\ (n[1] = 4 <=> n = Root) /\ (IsTable(n) <=> n[1] # 0)
    /\ \A n \in Inner : Parent(n)[1] = n[1] + 1
    /\ \A n \in Node, i \in Index :
          IsTable(n) => i \in Spare(n) \/ \E m \in Inner : Parent(m) = n /\ Slot(m) = i
    /\ N3(0)[1] = 3 /\ 0 \in Spare(N3(0))
<1>1. /\ Root[1] = 4 /\ \A s \in Half : N3(s)[1] = 3 /\ N2(s)[1] = 2
      /\ \A s, c \in Half : N1(s, c)[1] = 1
      /\ \A s, c \in Half, d \in Index : N0(s, c, d)[1] = 0
    BY DEF Root, N3, N2, N1, N0
<1>2. \A n \in Inner : n[1] \in 0 .. 3 /\ Parent(n)[1] = n[1] + 1
    <2>1. SUFFICES ASSUME NEW n \in Inner PROVE n[1] \in 0 .. 3 /\ Parent(n)[1] = n[1] + 1
        OBVIOUS
    <2>2. CASE \E s \in Half : n = N3(s)
        BY <1>1, <2>2, NodeTree
    <2>3. CASE \E s \in Half : n = N2(s)
        BY <1>1, <2>3, NodeTree
    <2>4. CASE \E s, c \in Half : n = N1(s, c)
        BY <1>1, <2>4, NodeTree
    <2>5. CASE \E s, c \in Half, d \in Index : n = N0(s, c, d)
        BY <1>1, <2>5, NodeTree
    <2>6. QED
        BY <2>2, <2>3, <2>4, <2>5, NodeCases
<1>3. \A n \in Node : n[1] \in 0 .. 4 /\ (n[1] = 4 <=> n = Root) /\ (IsTable(n) <=> n[1] # 0)
    BY <1>1, <1>2, NodeMembers DEF IsTable
<1>4. ASSUME NEW n \in Node, NEW i \in Index, IsTable(n)
      PROVE  i \in Spare(n) \/ \E m \in Inner : Parent(m) = n /\ Slot(m) = i
    <2>0. i \in Half \/ i \in 2 .. 3
        BY DEF Index, Half
    <2>1. CASE n = Root
        BY <2>0, <2>1, NodeMembers, NodeTree, NodeSpare
    <2>2. ASSUME NEW s \in Half, n = N3(s)
          PROVE  i \in Spare(n) \/ \E m \in Inner : Parent(m) = n /\ Slot(m) = i
        <3>1. i \in Spare(n) \/ i = 1 - s
            BY <2>2, NodeSpare
        <3>2. N2(s) \in Inner /\ Parent(N2(s)) = n /\ Slot(N2(s)) = 1 - s
            BY <2>2, NodeMembers, NodeTree
        <3>3. QED
            BY <3>1, <3>2
    <2>3. ASSUME NEW s \in Half, n = N2(s)
          PROVE  i \in Spare(n) \/ \E m \in Inner : Parent(m) = n /\ Slot(m) = i
        BY <2>0, <2>3, NodeMembers, NodeTree, NodeSpare
    <2>4. ASSUME NEW s \in Half, NEW c \in Half, n = N1(s, c)
          PROVE  i \in Spare(n) \/ \E m \in Inner : Parent(m) = n /\ Slot(m) = i
        BY <2>4, NodeMembers, NodeTree
    <2>5. QED
        BY <1>4, <2>1, <2>2, <2>3, <2>4, NodeMembers, NodeCases, NodeTree
<1>5. N3(0)[1] = 3 /\ 0 \in Spare(N3(0))
    <2>1. 0 \in Index \ {1 - 0}
        BY DEF Index
    <2>2. QED
        BY <1>1, <2>1, SmallNumbers, NodeSpare
<1>6. QED
    BY <1>2, <1>3, <1>4, <1>5

LEMMA TargetsAre ==
    ASSUME NEW T, NEW f
    PROVE  f \in Targets(T) <=>
               \E t \in T, i \in Index : /\ k.mem[t][i].present /\ ~ k.mem[t][i].huge
                                         /\ f = k.mem[t][i].frame
BY DEF Targets

LEMMA LevelTargets ==
    ASSUME NEW R, Machine(R), NEW en, KTree(R, k.mem, en), NEW l \in 1 .. 4
    PROVE  Targets(Level(en, l)) = Level(en, l - 1) \cup (IF l = 3 THEN {BootP2} ELSE {})
<1>1. ASSUME NEW f \in Targets(Level(en, l))
      PROVE  f \in Level(en, l - 1) \/ (l = 3 /\ f = BootP2)
    <2>1. PICK t \in Level(en, l), i \in Index :
              /\ k.mem[t][i].present /\ ~ k.mem[t][i].huge /\ f = k.mem[t][i].frame
        BY <1>1, TargetsAre
    <2>2. PICK n \in Node : n[1] = l /\ en[n].present /\ t = en[n].frame
        BY DEF Level
    <2>3. IsTable(n)
        BY <2>2, NodeLevels
    <2>4. CASE i \in Spare(n)
        <3>1. k.mem[t][i] = Fixed(n, i)
            BY <2>2, <2>3, <2>4 DEF KTree
        <3>2. n = N3(0) /\ i = 0 /\ f = BootP2
            BY <2>1, <3>1 DEF Fixed, NoEntry, TableEntry, PageEntry
        <3>3. QED
            BY <2>2, <3>2, NodeLevels
    <2>5. ASSUME NEW m \in Inner, Parent(m) = n, Slot(m) = i PROVE f \in Level(en, l - 1)
        <3>1. k.mem[t][i] = en[m]
            BY <2>2, <2>5 DEF KTree
        <3>2. m[1] = l - 1 /\ m \in Node
            <4>1. m \in Node
                BY NodeMembers
            <4>2. m[1] \in 0 .. 4 /\ l = m[1] + 1
                BY <2>2, <2>5, <4>1, NodeLevels
            <4>3. QED
                BY <4>1, <4>2
        <3>3. QED
            BY <2>1, <3>1, <3>2 DEF Level
    <2>6. QED
        BY <2>3, <2>4, <2>5, NodeLevels
<1>2. ASSUME NEW f \in Level(en, l - 1) PROVE f \in Targets(Level(en, l))
    <2>1. PICK m \in Node : m[1] = l - 1 /\ en[m].present /\ f = en[m].frame
        BY <1>2 DEF Level
    <2>2. m \in Inner
        <3>1. m[1] # 4
            BY <2>1
        <3>2. QED
            BY <3>1, NodeLevels, NodeMembers
    <2>3. en[Parent(m)].present /\ k.mem[en[Parent(m)].frame][Slot(m)] = en[m]
        BY <2>1, <2>2, ParentPresent
    <2>4. Parent(m) \in Node /\ Slot(m) \in Index /\ Parent(m)[1] = l
        <3>1. Parent(m)[1] = (l - 1) + 1
            BY <2>1, <2>2, NodeLevels
        <3>2. QED
            BY <2>2, <3>1, NodeLaws
    <2>5. en[Parent(m)].frame \in Level(en, l)
        BY <2>3, <2>4 DEF Level
    <2>6. ~ en[m].huge
        BY <2>1, TreeFrames
    <2>7. QED
        BY <2>1, <2>3, <2>4, <2>5, <2>6, TargetsAre
<1>3. ASSUME l = 3 PROVE BootP2 \in Targets(Level(en, l))
    <2>1. N3(0) \in Node /\ IsTable(N3(0)) /\ en[N3(0)].present
        BY SmallNumbers, NodeMembers, NodeTree DEF KTree
    <2>2. k.mem[en[N3(0)].frame][0] = Fixed(N3(0), 0)
        BY <2>1, NodeLevels DEF KTree
    <2>3. Fixed(N3(0), 0) = TableEntry(BootP2, TRUE, FALSE)
        BY DEF Fixed
    <2>4. /\ TableEntry(BootP2, TRUE, FALSE).present /\ ~ TableEntry(BootP2, TRUE, FALSE).huge
          /\ TableEntry(BootP2, TRUE, FALSE).frame = BootP2
        BY DEF TableEntry, PageEntry
    <2>5. en[N3(0)].frame \in Level(en, l)
        BY <1>3, <2>1, NodeLevels DEF Level
    <2>6. /\ k.mem[en[N3(0)].frame][0].present /\ ~ k.mem[en[N3(0)].frame][0].huge
          /\ BootP2 = k.mem[en[N3(0)].frame][0].frame /\ 0 \in Index
        BY <2>2, <2>3, <2>4, SmallNumbers
    <2>7. QED
        BY <2>5, <2>6, TargetsAre
<1>4. QED
    BY <1>1, <1>2, <1>3

\* What the kernel owns is what its tree leads to, and the table of the
\* identity map.
LEMMA KernelOwnedIs ==
    ASSUME NEW R, Machine(R), NEW en, KTree(R, k.mem, en)
    PROVE  /\ KernelOwned \ ImageFrames \subseteq KernelFrames(R, en)
           /\ KernelFrames(R, en) \subseteq KernelOwned
           /\ KernelOwned \cap FramesOf(R) \subseteq KernelFrames(R, en)
<1>1. Level(en, 4) = {BootP4}
    <2>1. en[Root].present /\ en[Root].frame = BootP4
        BY DEF KTree, TableEntry, PageEntry
    <2>2. QED
        BY <2>1, NodeLevels, NodeMembers DEF Level
<1>2. KernelP3 = Level(en, 3)
    BY <1>1, LevelTargets DEF KernelP3
<1>3. KernelP2 = Level(en, 2) \cup {BootP2}
    BY <1>2, LevelTargets DEF KernelP2
<1>4. Targets({BootP2}) = {}
    <2>1. \A i \in Index : k.mem[BootP2][i].huge
        BY BootTables DEF KTree
    <2>2. \A f : f \notin Targets({BootP2})
        BY <2>1, TargetsAre
    <2>3. QED
        BY <2>2
<1>5. KernelP1 = Level(en, 1)
    <2>1. Targets(Level(en, 2)) = Level(en, 1)
        BY LevelTargets
    <2>2. \A f : f \in KernelP1 <=> f \in Targets(Level(en, 2)) \/ f \in Targets({BootP2})
        BY <1>3, TargetsAre DEF KernelP1
    <2>3. QED
        BY <1>4, <2>1, <2>2
<1>6. Targets(KernelP1) = Level(en, 0)
    BY <1>5, LevelTargets
<1>7. KernelOwned = Level(en, 4) \cup Level(en, 3) \cup Level(en, 2) \cup {BootP2}
                    \cup Level(en, 1) \cup Level(en, 0)
    BY <1>1, <1>2, <1>3, <1>5, <1>6 DEF KernelOwned
<1>8. BootP2 \in ImageFrames
    BY DEF BootP2, ImageFrames
<1>9. \A f \in KernelOwned : f \in ImageFrames \/ f \in KernelFrames(R, en)
    <2>1. \A f, l : f \in Level(en, l) => f \in ImageFrames \/ f \in KernelFrames(R, en)
        BY TreeFrames DEF Level, KernelFrames
    <2>2. QED
        BY <1>7, <1>8, <2>1
<1>10. \A f \in KernelFrames(R, en) : f \in KernelOwned
    <2>1. SUFFICES ASSUME NEW f, NEW n \in Node, en[n].present, en[n].frame = f
                   PROVE  f \in KernelOwned
        BY DEF KernelFrames
    <2>2. f \in Level(en, n[1]) /\ n[1] \in 0 .. 4
        BY <2>1, NodeLevels DEF Level
    <2>3. QED
        BY <1>7, <2>2
<1>11. QED
    BY <1>9, <1>10 DEF Machine

-----------------------------------------------------------------------------
(* Properties of the frames.                                               *)

LEMMA SequenceCardinality ==
    ASSUME NEW s, Len(s) \in Nat, Injective(s)
    PROVE  Cardinality(Firsts(s, Len(s))) = Len(s)
<1> DEFINE n == Len(s)
           S == 1 .. n
           T == Firsts(s, n)
           F == [j \in S |-> s[j]]
<1>1. n \in Nat /\ \A i, j \in S : s[i] = s[j] => i = j
    BY DEF Injective
<1>2. T = {s[j] : j \in S}
    BY DEF Firsts
<1> HIDE DEF n, T
<1>3. F \in Bijection(S, T)
    BY <1>1, <1>2 DEF Bijection, Injection, Surjection, IsInjective
<1>4. ExistsBijection(S, T)
    BY <1>3 DEF ExistsBijection
<1>5. IsFiniteSet(S) /\ Cardinality(S) = n
    BY <1>1, FS_Interval
<1>6. Cardinality(T) = n
    BY <1>4, <1>5, FS_Bijection
<1>7. QED
    BY <1>6 DEF n, T

\* The facts about a state that the properties follow from.
LEMMA StateFacts ==
    ASSUME NEW R, NEW en, StateNow(R, en)
    PROVE  /\ Machine(R) /\ KTree(R, k.mem, en) /\ Recorded(k, en)
           /\ \A i \in Active : Shape(R, k.mem, en[N3(1)], spaces[i])
BY SpaceOrNot DEF StateNow, State, KInv, Active

LEMMA FramesOwnedIs == PagingInv => FramesOwned
<1>1. SUFFICES ASSUME PagingInv PROVE FramesOwned
    OBVIOUS
<1>2. PICK R, en : StateNow(R, en)
    BY <1>1 DEF PagingInv
<1>3. State(R, k, en, spaces, heapReady) /\ Machine(R) /\ KTree(R, k.mem, en)
    BY <1>2, StateFacts DEF StateNow
<1>4. PICK h : KInv(R, k, en, h, Others(spaces))
    BY <1>3 DEF State
<1>5. SpacesOk(R, k.mem, en[N3(1)], spaces)
    BY <1>3 DEF State
<1> DEFINE H == Others(spaces)
           K == KernelFrames(R, en)
<1>6. /\ H \subseteq h /\ K \subseteq h /\ H \cap K = {} /\ h \subseteq FramesOf(R)
      /\ \A f \in h : IsIssued(k.pm, f) /\ ~ IsRecycled(k.pm, f)
    BY <1>4 DEF KInv, Owners, Good, Partition
<1>7. \A f \in KernelOwned \ ImageFrames : IsIssued(k.pm, f) /\ ~ IsRecycled(k.pm, f)
    <2>1. KernelOwned \ ImageFrames \subseteq K
        BY <1>3, KernelOwnedIs
    <2>2. QED
        BY <1>6, <2>1
<1>8. ASSUME NEW i \in Active
      PROVE  /\ \A f \in Owned(spaces[i]) : IsIssued(k.pm, f) /\ ~ IsRecycled(k.pm, f)
             /\ Cardinality(Owned(spaces[i])) = Len(spaces[i].tables) + Len(spaces[i].users)
             /\ Owned(spaces[i]) \cap KernelOwned = {}
             /\ \A j \in Active \ {i} : Owned(spaces[i]) \cap Owned(spaces[j]) = {}
    <2>1. i \in Slots /\ spaces[i].active
        BY DEF Active
    <2>2. /\ Owned(spaces[i]) \subseteq H /\ spaces[i] \in Space(R)
          /\ Shape(R, k.mem, en[N3(1)], spaces[i])
        BY <1>5, <2>1, SpaceOrNot
    <2>3. Owned(spaces[i]) \cap KernelOwned = {}
        <3>1. KernelOwned \cap FramesOf(R) \subseteq K
            BY <1>3, KernelOwnedIs
        <3>2. QED
            BY <1>6, <2>2, <3>1
    <2>4. Cardinality(Owned(spaces[i])) = Len(spaces[i].tables) + Len(spaces[i].users)
        <3> DEFINE s == FramesToFree(spaces[i])
                   a == Len(spaces[i].tables)
                   b == Len(spaces[i].users)
        <3>1. Len(s) \in Nat /\ Len(s) = b + a /\ Injective(s) /\ Firsts(s, Len(s)) = Owned(spaces[i])
            BY <2>2, FramesToFreeIs DEF Shape
        <3>2. a \in Nat /\ b \in Nat
            BY <2>2, SpaceFields
        <3> HIDE DEF s, a, b
        <3>3. Cardinality(Owned(spaces[i])) = b + a
            BY <3>1, SequenceCardinality
        <3>4. b + a = a + b
            BY <3>2
        <3>5. QED
            BY <3>3, <3>4 DEF a, b
    <2>5. \A j \in Active \ {i} : Owned(spaces[i]) \cap Owned(spaces[j]) = {}
        BY <1>5, <2>1 DEF SpacesOk, Active
    <2>6. QED
        BY <1>6, <2>2, <2>3, <2>4, <2>5
<1>9. cr3 \in {BootP4} \cup {spaces[i].root : i \in Active}
    BY <1>1 DEF PagingInv, RootInUse, Active
<1>10. QED
    BY <1>7, <1>8, <1>9 DEF FramesOwned

LEMMA NoLeakIs == PagingInv => NoSilentLeak
<1>1. SUFFICES ASSUME PagingInv, NEW f \in FramesOf(k.pm.regions), IsIssued(k.pm, f),
                      ~ IsRecycled(k.pm, f), f \notin KernelOwned, ~ k.cleanupFailed
               PROVE  \E i \in Active : f \in Owned(spaces[i])
    BY DEF NoSilentLeak
<1>2. PICK R, en : StateNow(R, en)
    BY <1>1 DEF PagingInv
<1>3. State(R, k, en, spaces, heapReady) /\ Machine(R) /\ KTree(R, k.mem, en)
    BY <1>2, StateFacts DEF StateNow
<1>4. PICK h : KInv(R, k, en, h, Others(spaces))
    BY <1>3 DEF State
<1>5. k.pm.regions = R
    BY <1>3, <1>4, GoodTypes DEF KInv, Machine
<1>6. f \in h
    BY <1>1, <1>4, <1>5 DEF KInv, Good, Partition
<1>7. f \in Others(spaces)
    <2>1. f \notin KernelFrames(R, en)
        BY <1>1, <1>3, KernelOwnedIs
    <2>2. h \subseteq Others(spaces) \cup KernelFrames(R, en)
        BY <1>1, <1>4 DEF KInv, Owners
    <2>3. QED
        BY <1>6, <2>1, <2>2
<1>8. PICK i \in Slots : f \in Owned(spaces[i])
    BY <1>7 DEF Others
<1>9. spaces[i].active
    <2>1. SpacesOk(R, k.mem, en[N3(1)], spaces)
        BY <1>3 DEF State
    <2>2. Owned(EmptySpace) = {}
        BY EmptySpaceIs
    <2>3. QED
        BY <1>8, <2>1, <2>2, SpaceOrNot
<1>10. QED
    BY <1>8, <1>9 DEF Active

\* No frame has two lives, whatever memory the machine has, however many
\* processes there are and wherever a spawn, a load or a cleanup runs out of
\* memory half way: the tables and pages of the kernel and of every living
\* space are issued, not free again, and shared by no two of them, and cr3 is
\* the root of one of them.
THEOREM FramesHaveOneOwner == Spec => []FramesOwned
BY PagingInvariant, FramesOwnedIs, PTL

\* No frame is lost silently: an issued frame is free, in the kernel's tables
\* or in a living space's, unless destroy has counted a cleanup failure.
THEOREM NoFrameIsLost == Spec => []NoSilentLeak
BY PagingInvariant, NoLeakIs, PTL

-----------------------------------------------------------------------------
(* What the tables of the kernel and of a space say of every page.         *)

\* A page of the identity map, one of the range that nobody uses, or one of
\* the ranges of the tree.
LEMMA VirtualCases ==
    ASSUME NEW v \in Virtuals
    PROVE  /\ v[1] \in Half /\ v[2] \in Half /\ v[3] \in Half /\ v[4] \in Index
           /\ \/ v[1] = 0 /\ v[2] = 0
              \/ v[1] = 1 /\ v[2] = 1
              \/ \E s, c \in Half, d \in Index : v = Virt(s, c, d)
<1>1. /\ v[1] \in Half /\ v[2] \in Half /\ v[3] \in Half /\ v[4] \in Index
      /\ v = <<v[1], v[2], v[3], v[4]>>
    BY DEF Virtuals, Half
<1>2. CASE v[2] = 1 - v[1]
    BY <1>1, <1>2 DEF Virt
<1>3. CASE v[2] # 1 - v[1]
    BY <1>1, <1>3 DEF Half
<1>4. QED
    BY <1>1, <1>2, <1>3

\* The identity map: every root leads to the same table of huge pages, and
\* none of them to user mode.
HugeView(c) ==
    [mapped |-> TRUE, phys |-> BootTable(BootP2)[c].frame, huge |-> TRUE,
     user |-> FALSE, writable |-> TRUE, executable |-> TRUE]

LEMMA IdentityView ==
    ASSUME NEW mem, NEW root, NEW v, v[1] = 0, v[2] = 0, v[3] \in Half,
           mem[BootP2] = BootTable(BootP2), Reachable(root),
           NEW e4 \in Entry, mem[root][0] = e4, e4.present, Reachable(e4.frame),
           e4.writable, ~ e4.nx,
           mem[e4.frame][0] = TableEntry(BootP2, TRUE, FALSE)
    PROVE  Translate(mem, root, v) = HugeView(v[3])
<1> DEFINE e3 == TableEntry(BootP2, TRUE, FALSE)
           e2 == BootTable(BootP2)[v[3]]
<1>1. e3.present /\ e3.frame = BootP2 /\ ~ e3.user /\ e3.writable /\ ~ e3.nx
    BY DEF TableEntry, PageEntry
<1>2. Reachable(BootP2)
    <2>1. BootP2 \in ImageFrames
        BY DEF BootP2, ImageFrames
    <2>2. QED
        BY <2>1, ImageAssumption DEF Reachable
<1>3. e2.present /\ e2.huge /\ e2.writable /\ ~ e2.nx
    <2>1. v[3] \in Index
        BY DEF Half, Index
    <2>2. QED
        BY <2>1, BootTables
<1> HIDE DEF e3, e2
<1>4. mem[root][v[1]] = e4 /\ mem[e4.frame][v[2]] = e3 /\ mem[e3.frame][v[3]] = e2
    BY <1>1 DEF e2, e3
<1>5. Translate(mem, root, v) = Translation(e2.frame, TRUE, {e4, e3, e2})
    BY <1>1, <1>2, <1>3, <1>4 DEF Translate
<1>6. /\ (\A e \in {e4, e3, e2} : e.user) = FALSE
      /\ (\A e \in {e4, e3, e2} : e.writable) = TRUE
      /\ (\A e \in {e4, e3, e2} : ~ e.nx) = TRUE
    BY <1>1, <1>3
<1>7. Translation(e2.frame, TRUE, {e4, e3, e2}) =
          [mapped |-> TRUE, phys |-> e2.frame, huge |-> TRUE,
           user |-> FALSE, writable |-> TRUE, executable |-> TRUE]
    BY <1>6, Zenon DEF Translation
<1>8. QED
    BY <1>5, <1>7 DEF HugeView, e2

LEMMA KernelIdentity ==
    ASSUME NEW R, Machine(R), NEW mem, NEW en, KTree(R, mem, en),
           NEW v, v[1] = 0, v[2] = 0, v[3] \in Half
    PROVE  Translate(mem, BootP4, v) = HugeView(v[3])
<1> DEFINE e4 == en[N3(0)]
<1>1. /\ N3(0) \in Inner /\ N3(0) \in Node /\ Parent(N3(0)) = Root /\ Slot(N3(0)) = 0
      /\ IsTable(N3(0))
    BY SmallNumbers, NodeMembers, NodeTree
<1>2. /\ e4.present /\ e4 \in Entry /\ Reachable(e4.frame) /\ mem[BootP2] = BootTable(BootP2)
      /\ en[Root].frame = BootP4
    <2>1. e4.present /\ mem[BootP2] = BootTable(BootP2) /\ en[Root] = TableEntry(BootP4, TRUE, TRUE)
        BY DEF KTree
    <2>2. e4 \in Entry /\ Reachable(e4.frame)
        BY <1>1, <2>1, TreeFrames
    <2>3. TableEntry(BootP4, TRUE, TRUE).frame = BootP4
        BY DEF TableEntry, PageEntry
    <2>4. QED
        BY <2>1, <2>2, <2>3
<1>3. mem[BootP4][0] = e4
    BY <1>1, <1>2, ParentPresent
<1>4. e4.writable /\ ~ e4.nx
    BY <1>1, <1>2 DEF KTree, EntryOf, FlagsOk, NoEntry
<1>5. mem[e4.frame][0] = TableEntry(BootP2, TRUE, FALSE)
    <2>1. mem[e4.frame][0] = Fixed(N3(0), 0)
        BY <1>1, <1>2, NodeLevels DEF KTree
    <2>2. QED
        BY <2>1 DEF Fixed
<1>6. Reachable(BootP4)
    <2>1. BootP4 \in ImageFrames
        BY DEF BootP4, ImageFrames
    <2>2. QED
        BY <2>1, ImageAssumption DEF Reachable
<1> HIDE DEF e4
<1>7. QED
    BY <1>2, <1>3, <1>4, <1>5, <1>6, IdentityView

\* Nothing is mapped at the end of the high half.
LEMMA KernelHole ==
    ASSUME NEW R, Machine(R), NEW mem, NEW en, KTree(R, mem, en),
           NEW v, v[1] = 1, v[2] = 1
    PROVE  Translate(mem, BootP4, v) = Unmapped
<1> DEFINE e4 == en[N3(1)]
<1>1. /\ N3(1) \in Inner /\ N3(1) \in Node /\ Parent(N3(1)) = Root /\ Slot(N3(1)) = 1
      /\ IsTable(N3(1)) /\ N3(1) # N3(0) /\ 1 \in Spare(N3(1))
    <2>1. 1 \in Index \ {1 - 1}
        BY DEF Index
    <2>2. QED
        BY <2>1, SmallNumbers, NodeMembers, NodeTree, NodesDiffer, NodeSpare
<1>2. mem[BootP4][1] = e4
    BY <1>1 DEF KTree, TableEntry, PageEntry
<1>3. CASE ~ e4.present
    BY <1>2, <1>3 DEF Translate
<1>4. CASE e4.present
    <2>1. mem[e4.frame][1] = NoEntry
        <3>1. mem[e4.frame][1] = Fixed(N3(1), 1)
            BY <1>1, <1>4 DEF KTree
        <3>2. QED
            BY <1>1, <3>1 DEF Fixed
    <2>2. QED
        BY <1>2, <2>1 DEF Translate, NoEntry
<1>5. QED
    BY <1>3, <1>4

\* Outside the user range a space sees what the kernel sees.
LEMMA SharedView ==
    ASSUME NEW R, Machine(R), NEW mem, NEW en, KTree(R, mem, en),
           NEW sp, Shape(R, mem, en[N3(1)], sp), NEW v \in Virtuals, ~ InUserRange(v)
    PROVE  /\ Translate(mem, sp.root, v) = Translate(mem, BootP4, v)
           /\ ~ (Translate(mem, BootP4, v).mapped /\ Translate(mem, BootP4, v).user)
<1>1. v[1] \in Half /\ v[2] \in Half /\ v[3] \in Half
    BY VirtualCases
<1>2. /\ sp.root = sp.tables[1] /\ Reachable(sp.root) /\ Reachable(sp.tables[2])
      /\ sp.tables[2] \in Nat
    BY ShapeTables, FrameFacts DEF Shape, Machine
<1>3. CASE v[1] = 0 /\ v[2] = 0
    <2> DEFINE e4 == TableEntry(sp.tables[2], TRUE, TRUE)
    <2>1. /\ e4 \in Entry /\ e4.present /\ e4.frame = sp.tables[2] /\ e4.writable /\ ~ e4.nx
        BY <1>2 DEF TableEntry, PageEntry, Entry
    <2>2. mem[sp.root][0] = e4 /\ mem[sp.tables[2]][0] = TableEntry(BootP2, TRUE, FALSE)
        BY <1>2 DEF Shape, Upper
    <2>3. mem[BootP2] = BootTable(BootP2)
        BY DEF KTree
    <2> HIDE DEF e4
    <2>4. Translate(mem, sp.root, v) = HugeView(v[3])
        <3>1. mem[e4.frame][0] = TableEntry(BootP2, TRUE, FALSE) /\ Reachable(e4.frame)
            BY <1>2, <2>1, <2>2
        <3>2. QED
            BY <1>1, <1>2, <1>3, <2>1, <2>2, <2>3, <3>1, IdentityView
    <2>5. Translate(mem, BootP4, v) = HugeView(v[3])
        BY <1>1, <1>3, KernelIdentity
    <2>6. ~ HugeView(v[3]).user
        BY DEF HugeView
    <2>7. QED
        BY <2>4, <2>5, <2>6
<1>4. CASE v[1] = 1
    <2>1. Translate(mem, sp.root, v) = Translate(mem, BootP4, v)
        <3>1. mem[sp.root][1] = en[N3(1)]
            BY <1>2 DEF Shape, Upper
        <3>2. mem[BootP4][1] = en[N3(1)] /\ Reachable(BootP4)
            <4>1. BootP4 \in ImageFrames
                BY DEF BootP4, ImageFrames
            <4>2. N3(1) \in Inner /\ Parent(N3(1)) = Root /\ Slot(N3(1)) = 1
                BY SmallNumbers, NodeMembers, NodeTree
            <4>3. QED
                BY <4>1, <4>2, ImageAssumption DEF Reachable, KTree, TableEntry, PageEntry
        <3>3. mem[sp.root][v[1]] = mem[BootP4][v[1]]
            BY <1>4, <3>1, <3>2
        <3>4. QED
            BY <1>2, <3>2, <3>3, Zenon DEF Translate
    <2>2. CASE v[2] = 1
        <3>1. Translate(mem, BootP4, v) = Unmapped
            BY <1>4, <2>2, KernelHole
        <3>2. QED
            BY <2>1, <3>1 DEF Unmapped
    <2>3. CASE v[2] = 0
        <3>1. PICK s \in Half, c \in Half, d \in Index : v = Virt(s, c, d)
            BY <1>4, <2>3, VirtualCases
        <3>2. s = 1
            BY <1>4, <3>1, VirtIs
        <3> DEFINE n == N0(1, c, d)
        <3>3. Translate(mem, BootP4, v) = PageView(en[n])
            BY <3>1, <3>2, KernelView
        <3>4. ~ (PageView(en[n]).mapped /\ PageView(en[n]).user)
            <4>1. CASE ~ en[n].present
                BY <4>1 DEF PageView, Unmapped
            <4>2. CASE en[n].present
                <5>1. n \in Inner /\ HalfOf(n) = 1
                    BY SmallNumbers, NodeMembers, NodeTree
                <5>2. FlagsOk(n, en[n], en[Parent(n)])
                    BY <4>2, <5>1 DEF KTree, EntryOf, NoEntry
                <5>3. ~ en[n].user
                    BY <5>1, <5>2 DEF FlagsOk
                <5>4. QED
                    BY <4>2, <5>3 DEF PageView
            <4>3. QED
                BY <4>1, <4>2
        <3>5. QED
            BY <2>1, <3>3, <3>4
    <2>4. QED
        BY <1>1, <2>2, <2>3 DEF Half
<1>5. QED
    BY <1>1, <1>3, <1>4 DEF Half, InUserRange

LEMMA KernelSharedIs == PagingInv => KernelShared
<1>1. SUFFICES ASSUME PagingInv, NEW i \in Active, NEW v \in Virtuals, ~ InUserRange(v)
               PROVE  LET t == Translate(k.mem, spaces[i].root, v)
                      IN t = Translate(k.mem, BootP4, v) /\ ~ (t.mapped /\ t.user)
    BY DEF KernelShared
<1>2. PICK R, en : StateNow(R, en)
    BY <1>1 DEF PagingInv
<1>3. Machine(R) /\ KTree(R, k.mem, en) /\ Shape(R, k.mem, en[N3(1)], spaces[i])
    BY <1>2, StateFacts
<1>4. /\ Translate(k.mem, spaces[i].root, v) = Translate(k.mem, BootP4, v)
      /\ ~ (Translate(k.mem, BootP4, v).mapped /\ Translate(k.mem, BootP4, v).user)
    BY <1>1, <1>3, SharedView
<1>5. QED
    BY <1>4

-----------------------------------------------------------------------------
(* permission_audit.                                                       *)

\* The flags of a page of the kernel's tables.
LEMMA PageFacts ==
    ASSUME NEW R, Machine(R), NEW mem, NEW en, KTree(R, mem, en),
           NEW s \in Half, NEW c \in Half, NEW d \in Index, en[N0(s, c, d)].present
    PROVE  en[N0(s, c, d)] \in Entry /\ (en[N0(s, c, d)].user <=> s = 0)
<1> DEFINE n == N0(s, c, d)
<1>1. n \in Inner /\ n \in Node /\ HalfOf(n) = s /\ n # N3(0)
    BY SmallNumbers, NodeMembers, NodeTree, NodesDiffer
<1>2. FlagsOk(n, en[n], en[Parent(n)]) /\ en[n] \in Entry
    <2>1. ~ NoEntry.present
        BY DEF NoEntry
    <2>2. QED
        BY <1>1, <2>1 DEF KTree, EntryOf
<1> HIDE DEF n
<1>3. en[n].user <=> s = 0
    <2>1. CASE s = 0
        BY <1>1, <1>2, <2>1 DEF FlagsOk
    <2>2. CASE s = 1
        BY <1>1, <1>2, <2>2 DEF FlagsOk
    <2>3. QED
        BY <2>1, <2>2 DEF Half
<1>4. QED
    BY <1>2, <1>3 DEF n

LEMMA RecordIsOk ==
    ASSUME NEW R, Machine(R), NEW kk, NEW en, KTree(R, kk.mem, en), NEW r,
           NEW s \in Half, NEW c \in Half, NEW d \in Index, RecordTrue(en, r, s, c, d)
    PROVE  RecordOk(kk, r)
<1> DEFINE e == en[N0(s, c, d)]
           t == Translate(kk.mem, BootP4, r.virt)
<1>1. /\ r.virt = Virt(s, c, d) /\ e.present /\ r.phys = e.frame /\ r.flags = PageFlagsOf(e)
      /\ r.owner = "User" <=> s = 0
    BY DEF RecordTrue
<1>2. t = PageView(e)
    BY <1>1, KernelView
<1>3. e \in Entry /\ (e.user <=> s = 0)
    BY <1>1, PageFacts
<1> HIDE DEF e, t
<1>4. /\ t.mapped = TRUE /\ t.huge = FALSE /\ t.phys = e.frame /\ t.user = e.user
      /\ t.writable = e.writable /\ t.executable = ~ e.nx
    BY <1>1, <1>2 DEF PageView
<1>5. e.nx \in BOOLEAN
    BY <1>3 DEF Entry
<1>6. (~ t.executable) = e.nx
    BY <1>4, <1>5
<1>7. [writable |-> t.writable, user |-> t.user, nx |-> ~ t.executable] = r.flags
    BY <1>1, <1>4, <1>6 DEF PageFlagsOf
<1>8. IF r.owner = "User" THEN InUserRange(r.virt) /\ t.user ELSE InManagedRange(r.virt) /\ ~ t.user
    <2>1. InUserRange(r.virt) <=> s = 0
        BY <1>1, VirtIs
    <2>2. InManagedRange(r.virt) <=> s = 1
        BY <1>1, VirtIs
    <2>3. s = 0 \/ s = 1
        BY DEF Half
    <2>4. QED
        BY <1>1, <1>3, <1>4, <2>1, <2>2, <2>3
<1>9. QED
    BY <1>1, <1>4, <1>7, <1>8 DEF RecordOk, t

LEMMA AuditIs == PagingInv => AuditClean
<1>1. SUFFICES ASSUME PagingInv PROVE AuditClean
    OBVIOUS
<1>2. PICK R, en : StateNow(R, en)
    BY <1>1 DEF PagingInv
<1>3. Machine(R) /\ KTree(R, k.mem, en) /\ Recorded(k, en)
    BY <1>2, StateFacts
<1>4. \A r \in k.records : RecordOk(k, r)
    <2>1. SUFFICES ASSUME NEW r \in k.records PROVE RecordOk(k, r)
        OBVIOUS
    <2>2. PICK s \in Half, c \in Half, d \in Index : RecordTrue(en, r, s, c, d)
        BY <1>3 DEF Recorded
    <2>3. QED
        BY <1>3, <2>2, RecordIsOk
<1>5. GuardsIntact(k)
    <2>1. HeapGuardLow = Virt(1, 0, 0) /\ HeapGuardHigh = Virt(1, 0, 3)
        BY DEF HeapGuardLow, HeapGuardHigh, Virt
    <2>2. ~ en[N0(1, 0, 0)].present /\ ~ en[N0(1, 0, 3)].present
        BY <1>3 DEF Recorded
    <2>3. /\ Translate(k.mem, BootP4, Virt(1, 0, 0)) = PageView(en[N0(1, 0, 0)])
          /\ Translate(k.mem, BootP4, Virt(1, 0, 3)) = PageView(en[N0(1, 0, 3)])
        BY <1>3, SmallNumbers, KernelView
    <2>4. /\ Translate(k.mem, BootP4, Virt(1, 0, 0)) = Unmapped
          /\ Translate(k.mem, BootP4, Virt(1, 0, 3)) = Unmapped
        BY <2>2, <2>3 DEF PageView
    <2>5. ~ Unmapped.mapped
        BY DEF Unmapped
    <2>6. QED
        BY <2>1, <2>4, <2>5 DEF GuardsIntact
<1>6. ASSUME ~ k.overflowed, NEW v \in Virtuals, Translate(k.mem, BootP4, v).mapped,
             ~ Translate(k.mem, BootP4, v).huge
      PROVE  \E r \in k.records : r.virt = v
    <2>1. CASE v[1] = 0 /\ v[2] = 0
        <3>1. Translate(k.mem, BootP4, v) = HugeView(v[3])
            BY <1>3, <2>1, KernelIdentity, VirtualCases
        <3>2. HugeView(v[3]).huge
            BY DEF HugeView
        <3>3. QED
            BY <1>6, <3>1, <3>2
    <2>2. CASE v[1] = 1 /\ v[2] = 1
        <3>1. Translate(k.mem, BootP4, v) = Unmapped
            BY <1>3, <2>2, KernelHole
        <3>2. QED
            BY <1>6, <3>1 DEF Unmapped
    <2>3. ASSUME NEW s \in Half, NEW c \in Half, NEW d \in Index, v = Virt(s, c, d)
          PROVE  \E r \in k.records : r.virt = v
        <3>1. Translate(k.mem, BootP4, v) = PageView(en[N0(s, c, d)])
            BY <1>3, <2>3, KernelView
        <3>2. en[N0(s, c, d)].present
            BY <1>6, <3>1 DEF PageView, Unmapped
        <3>3. QED
            BY <1>3, <1>6, <2>3, <3>2 DEF Recorded
    <2>4. QED
        BY <2>1, <2>2, <2>3, VirtualCases
<1>7. QED
    BY <1>4, <1>5, <1>6 DEF AuditClean

-----------------------------------------------------------------------------
(* User mode.                                                              *)

\* What a page of user mode is: the page j of the space.
IsUserPage(sp, t, v, j) ==
    /\ ~ (t.writable /\ t.executable)
    /\ sp.users[j] = [frame |-> t.phys, virt |-> v,
                      permissions |-> [writable |-> t.writable, executable |-> t.executable]]

LEMMA UserAtView ==
    ASSUME NEW R, NEW u \in User(R), NEW c \in Half, NEW d \in Index, NEW e, UserAt(u, c, d, e)
    PROVE  LET t == PageView(e) IN
           /\ t.mapped /\ t.user /\ ~ (t.writable /\ t.executable)
           /\ u = [frame |-> t.phys, virt |-> Virt(0, c, d),
                   permissions |-> [writable |-> t.writable, executable |-> t.executable]]
<1> DEFINE t == PageView(e)
           p == u.permissions
<1>1. /\ p \in Permissions /\ ~ (p.writable /\ p.executable)
      /\ u = [frame |-> u.frame, virt |-> u.virt, permissions |-> p]
    BY UserFields
<1>2. u.virt = Virt(0, c, d) /\ e = PageEntry(u.frame, Flags(p))
    BY DEF UserAt
<1>3. p.writable \in BOOLEAN /\ p.executable \in BOOLEAN
      /\ p = [writable |-> p.writable, executable |-> p.executable]
    BY <1>1 DEF Permissions
<1> HIDE DEF p
<1>4. /\ e.present = TRUE /\ e.frame = u.frame /\ e.user = TRUE /\ e.writable = p.writable
      /\ e.nx = ~ p.executable
    BY <1>2 DEF PageEntry, Flags
<1>5. /\ t.mapped = TRUE /\ t.phys = u.frame /\ t.user = TRUE /\ t.writable = p.writable
      /\ t.executable = ~ e.nx
    BY <1>4 DEF PageView
<1>6. t.executable = p.executable
    BY <1>3, <1>4, <1>5
<1> HIDE DEF t
<1>7. u = [frame |-> t.phys, virt |-> Virt(0, c, d),
           permissions |-> [writable |-> t.writable, executable |-> t.executable]]
    BY <1>1, <1>2, <1>3, <1>5, <1>6
<1>8. t.mapped /\ t.user /\ ~ (t.writable /\ t.executable)
    BY <1>1, <1>5, <1>6 DEF p
<1>9. QED
    BY <1>7, <1>8 DEF t

\* In user mode a space reaches its pages, all of them and nothing else.
LEMMA UserView ==
    ASSUME NEW R, Machine(R), NEW mem, NEW en, KTree(R, mem, en),
           NEW sp, Shape(R, mem, en[N3(1)], sp), NEW v \in Virtuals
    PROVE  LET t == Translate(mem, sp.root, v) IN
           /\ t.mapped /\ t.user => \E j \in 1 .. Len(sp.users) : IsUserPage(sp, t, v, j)
           /\ \A j \in 1 .. Len(sp.users) : sp.users[j].virt = v => t.mapped /\ t.user
<1> DEFINE t == Translate(mem, sp.root, v)
<1>1. \A j \in 1 .. Len(sp.users) : sp.users[j] \in User(R)
    BY SpaceFields DEF Shape
<1>2. CASE ~ InUserRange(v)
    <2>1. ~ (t.mapped /\ t.user)
        BY <1>2, SharedView
    <2>2. ASSUME NEW j \in 1 .. Len(sp.users) PROVE sp.users[j].virt # v
        <3>1. sp.users[j].virt \in ImageVirts
            BY <1>1, UserFields
        <3>2. PICK c \in Half, d \in Index : sp.users[j].virt = Virt(0, c, d)
            BY <3>1, ImageVirtIs
        <3>3. QED
            BY <1>2, <3>2, SmallNumbers, VirtIs
    <2>3. QED
        BY <2>1, <2>2
<1>3. CASE InUserRange(v)
    <2>1. PICK s \in Half, c \in Half, d \in Index : v = Virt(s, c, d)
        BY <1>3, VirtIs
    <2>2. v = Virt(0, c, d)
        BY <1>3, <2>1, VirtIs
    <2> DEFINE e == UserPage(mem, sp, c, d)
    <2>3. t = PageView(e)
        BY <2>2, SpaceView
    <2>4. ASSUME t.mapped, t.user
          PROVE  \E j \in 1 .. Len(sp.users) : IsUserPage(sp, t, v, j)
        <3>1. e # NoEntry
            BY <2>3, <2>4 DEF PageView, NoEntry, Unmapped
        <3>2. PICK j \in 1 .. Len(sp.users) : UserAt(sp.users[j], c, d, e)
            BY <3>1, UserPageIs
        <3> HIDE DEF e, t
        <3>3. LET w == PageView(e) IN
              /\ w.mapped /\ w.user /\ ~ (w.writable /\ w.executable)
              /\ sp.users[j] = [frame |-> w.phys, virt |-> Virt(0, c, d),
                     permissions |-> [writable |-> w.writable, executable |-> w.executable]]
            BY <1>1, <3>2, UserAtView
        <3>4. IsUserPage(sp, t, v, j)
            BY <2>2, <2>3, <3>3 DEF IsUserPage
        <3>5. QED
            BY <3>4
    <2>5. ASSUME NEW j \in 1 .. Len(sp.users), sp.users[j].virt = v
          PROVE  t.mapped /\ t.user
        <3>1. PICK b \in Half, g \in Index :
                  /\ Leaf(mem, sp, b).present
                  /\ UserAt(sp.users[j], b, g, mem[Leaf(mem, sp, b).frame][g])
            BY DEF Shape, UsersMapped
        <3>2. Virt(0, b, g) = Virt(0, c, d)
            BY <2>2, <2>5, <3>1 DEF UserAt
        <3>3. b = c /\ g = d
            BY <3>2 DEF Virt
        <3>4. UserAt(sp.users[j], c, d, e)
            BY <3>1, <3>3 DEF UserPage
        <3> HIDE DEF e, t
        <3>5. PageView(e).mapped /\ PageView(e).user
            BY <1>1, <3>4, UserAtView
        <3>6. QED
            BY <2>3, <3>5
    <2>6. QED
        BY <2>4, <2>5
<1>4. QED
    BY <1>2, <1>3

LEMMA UserViewIs == PagingInv => UserViewExact
<1>1. SUFFICES ASSUME PagingInv, NEW i \in Active, NEW v \in Virtuals
               PROVE  LET t == Translate(k.mem, spaces[i].root, v) IN
                      /\ t.mapped /\ t.user =>
                            /\ ~ (t.writable /\ t.executable)
                            /\ \E j \in DOMAIN spaces[i].users :
                                  spaces[i].users[j] =
                                      [frame |-> t.phys, virt |-> v,
                                       permissions |-> [writable |-> t.writable,
                                                        executable |-> t.executable]]
                      /\ \A j \in DOMAIN spaces[i].users :
                            spaces[i].users[j].virt = v => t.mapped /\ t.user
    BY DEF UserViewExact
<1>2. PICK R, en : StateNow(R, en)
    BY <1>1 DEF PagingInv
<1>3. Machine(R) /\ KTree(R, k.mem, en) /\ Shape(R, k.mem, en[N3(1)], spaces[i])
    BY <1>2, StateFacts
<1> DEFINE t == Translate(k.mem, spaces[i].root, v)
<1>4. /\ t.mapped /\ t.user =>
            \E j \in 1 .. Len(spaces[i].users) : IsUserPage(spaces[i], t, v, j)
      /\ \A j \in 1 .. Len(spaces[i].users) : spaces[i].users[j].virt = v => t.mapped /\ t.user
    BY <1>3, UserView
<1>5. DOMAIN spaces[i].users = 1 .. Len(spaces[i].users)
    BY <1>3, SpaceFields DEF Shape
<1> HIDE DEF t
<1>6. /\ t.mapped /\ t.user =>
            /\ ~ (t.writable /\ t.executable)
            /\ \E j \in DOMAIN spaces[i].users :
                  spaces[i].users[j] =
                      [frame |-> t.phys, virt |-> v,
                       permissions |-> [writable |-> t.writable, executable |-> t.executable]]
      /\ \A j \in DOMAIN spaces[i].users : spaces[i].users[j].virt = v => t.mapped /\ t.user
    BY <1>4, <1>5, Zenon DEF IsUserPage
<1>7. QED
    BY <1>6 DEF t

-----------------------------------------------------------------------------
(* The checked copies.                                                     *)

LEMMA NextPageIs ==
    ASSUME NEW v \in Virtuals
    PROVE  NextPage(v) # v /\ (NextPage(v) # <<>> => NextPage(v) \in Virtuals)
<1>1. /\ v[1] \in 0 .. 1 /\ v[2] \in 0 .. 1 /\ v[3] \in 0 .. 1 /\ v[4] \in 0 .. 3
      /\ v = <<v[1], v[2], v[3], v[4]>>
    BY DEF Virtuals, Index
<1>2. CASE v[4] < 3
    <2>1. NextPage(v) = <<v[1], v[2], v[3], v[4] + 1>>
        BY <1>2 DEF NextPage
    <2>2. v[4] + 1 \in 0 .. 3 /\ v[4] + 1 # v[4]
        BY <1>1, <1>2
    <2>3. QED
        BY <1>1, <2>1, <2>2 DEF Virtuals, Index
<1>3. CASE ~ (v[4] < 3) /\ v[3] < 1
    <2>1. NextPage(v) = <<v[1], v[2], v[3] + 1, 0>>
        BY <1>3 DEF NextPage
    <2>2. v[3] + 1 \in 0 .. 1 /\ v[3] + 1 # v[3] /\ 0 \in 0 .. 3
        BY <1>1, <1>3
    <2>3. QED
        BY <1>1, <2>1, <2>2 DEF Virtuals, Index
<1>4. CASE ~ (v[4] < 3) /\ ~ (v[3] < 1) /\ v[2] < 1
    <2>1. NextPage(v) = <<v[1], v[2] + 1, 0, 0>>
        BY <1>4 DEF NextPage
    <2>2. v[2] + 1 \in 0 .. 1 /\ v[2] + 1 # v[2] /\ 0 \in 0 .. 3 /\ 0 \in 0 .. 1
        BY <1>1, <1>4
    <2>3. QED
        BY <1>1, <2>1, <2>2 DEF Virtuals, Index
<1>5. CASE ~ (v[4] < 3) /\ ~ (v[3] < 1) /\ ~ (v[2] < 1) /\ v[1] < 1
    <2>1. NextPage(v) = <<v[1] + 1, 0, 0, 0>>
        BY <1>5 DEF NextPage
    <2>2. v[1] + 1 \in 0 .. 1 /\ v[1] + 1 # v[1] /\ 0 \in 0 .. 3 /\ 0 \in 0 .. 1
        BY <1>1, <1>5
    <2>3. QED
        BY <1>1, <2>1, <2>2 DEF Virtuals, Index
<1>6. CASE ~ (v[4] < 3) /\ ~ (v[3] < 1) /\ ~ (v[2] < 1) /\ ~ (v[1] < 1)
    <2>1. NextPage(v) = <<>>
        BY <1>6 DEF NextPage
    <2>2. v # <<>>
        BY <1>1
    <2>3. QED
        BY <2>1, <2>2
<1>7. QED
    BY <1>2, <1>3, <1>4, <1>5, <1>6

\* The frame of an accessible page is the frame of that page in the space.
LEMMA AccessibleIs ==
    ASSUME NEW R, Machine(R), NEW mem, NEW en, KTree(R, mem, en),
           NEW sp, Shape(R, mem, en[N3(1)], sp), NEW v \in Virtuals, NEW toUser,
           Accessible(mem, sp, v, toUser)
    PROVE  \E j \in 1 .. Len(sp.users) :
              sp.users[j].virt = v /\ sp.users[j].frame = Translate(mem, sp.root, v).phys
<1> DEFINE t == Translate(mem, sp.root, v)
<1>1. t.mapped /\ t.user
    BY DEF Accessible
<1>2. PICK j \in 1 .. Len(sp.users) : IsUserPage(sp, t, v, j)
    BY <1>1, UserView
<1> HIDE DEF t
<1>3. sp.users[j].virt = v /\ sp.users[j].frame = t.phys
    BY <1>2 DEF IsUserPage
<1>4. QED
    BY <1>3 DEF t

LEMMA CopyIs ==
    ASSUME NEW R, Machine(R), NEW mem, NEW en, KTree(R, mem, en),
           NEW sp, Shape(R, mem, en[N3(1)], sp), NEW buffer \in Buffers, NEW toUser,
           ValidateUserBuffer(mem, sp, buffer, toUser)
    PROVE  /\ CopyUserBytes(mem, sp, buffer, toUser) \subseteq UserFrames(sp)
           /\ Cardinality(CopyUserBytes(mem, sp, buffer, toUser)) = Len(buffer)
<1> DEFINE F(v) == Translate(mem, sp.root, v).phys
           C == CopyUserBytes(mem, sp, buffer, toUser)
<1>1. \A j \in DOMAIN buffer : buffer[j] # <<>> /\ Accessible(mem, sp, buffer[j], toUser)
    BY DEF ValidateUserBuffer
<1>2. DOMAIN sp.users = 1 .. Len(sp.users)
    BY SpaceFields DEF Shape
<1>3. ASSUME NEW v \in Virtuals, Accessible(mem, sp, v, toUser)
      PROVE  F(v) \in UserFrames(sp)
    BY <1>2, <1>3, AccessibleIs DEF UserFrames
<1>4. ASSUME NEW v \in Virtuals, Accessible(mem, sp, v, toUser),
             NEW w \in Virtuals, Accessible(mem, sp, w, toUser), F(v) = F(w)
      PROVE  v = w
    <2>1. PICK i \in 1 .. Len(sp.users) : sp.users[i].virt = v /\ sp.users[i].frame = F(v)
        BY <1>4, AccessibleIs
    <2>2. PICK j \in 1 .. Len(sp.users) : sp.users[j].virt = w /\ sp.users[j].frame = F(w)
        BY <1>4, AccessibleIs
    <2>3. \A a, b \in 1 .. Len(sp.users) : sp.users[a].frame = sp.users[b].frame => a = b
        BY DEF Shape, Distinct
    <2> HIDE DEF F
    <2>4. i = j
        BY <1>4, <2>1, <2>2, <2>3
    <2>5. QED
        BY <2>1, <2>2, <2>4
<1>5. C = {F(buffer[j]) : j \in {j \in DOMAIN buffer :
                \A l \in 1 .. j : /\ buffer[l] # <<>>
                                  /\ Accessible(mem, sp, buffer[l], toUser)}}
    BY Zenon DEF CopyUserBytes
<1> HIDE DEF F, C
<1>6. ASSUME NEW v \in Virtuals, buffer = <<v>>
      PROVE  C \subseteq UserFrames(sp) /\ Cardinality(C) = Len(buffer)
    <2>1. DOMAIN buffer = {1} /\ buffer[1] = v /\ Len(buffer) = 1 /\ 1 .. 1 = {1}
        BY <1>6
    <2>2. C = {F(v)}
        BY <1>1, <1>5, <2>1
    <2>3. QED
        BY <1>1, <1>3, <2>1, <2>2, FS_Singleton
<1>7. ASSUME NEW v \in Virtuals, buffer = <<v, NextPage(v)>>
      PROVE  C \subseteq UserFrames(sp) /\ Cardinality(C) = Len(buffer)
    <2> DEFINE w == NextPage(v)
    <2>1. /\ DOMAIN buffer = {1, 2} /\ buffer[1] = v /\ buffer[2] = w /\ Len(buffer) = 2
          /\ 1 .. 1 = {1} /\ 1 .. 2 = {1, 2}
        BY <1>7
    <2>2. w \in Virtuals /\ w # v
        BY <1>1, <2>1, NextPageIs
    <2> HIDE DEF w
    <2>3. C = {F(v), F(w)}
        BY <1>1, <1>5, <2>1
    <2>4. F(v) # F(w)
        BY <1>1, <1>4, <2>1, <2>2
    <2>5. Cardinality({F(v)} \cup {F(w)}) = 1 + 1
        <3>1. IsFiniteSet({F(v)}) /\ Cardinality({F(v)}) = 1 /\ F(w) \notin {F(v)}
            BY <2>4, FS_Singleton
        <3>2. QED
            BY <3>1, FS_AddElement
    <2>6. C = {F(v)} \cup {F(w)}
        BY <2>3
    <2>7. Cardinality(C) = 2
        BY <2>5, <2>6
    <2>8. QED
        BY <1>1, <1>3, <2>1, <2>2, <2>3, <2>7
<1>8. QED
    BY <1>6, <1>7 DEF Buffers, C

LEMMA CopiesAre == PagingInv => CopiesConfined
<1>1. SUFFICES ASSUME PagingInv, NEW i \in Active, NEW buffer \in Buffers, NEW toUser \in BOOLEAN
               PROVE  LET touched == Touched(k.mem, spaces[i], buffer, toUser) IN
                      /\ touched \subseteq UserFrames(spaces[i])
                      /\ touched # {} => Cardinality(touched) = Len(buffer)
    BY DEF CopiesConfined
<1>2. PICK R, en : StateNow(R, en)
    BY <1>1 DEF PagingInv
<1>3. Machine(R) /\ KTree(R, k.mem, en) /\ Shape(R, k.mem, en[N3(1)], spaces[i])
    BY <1>2, StateFacts
<1>4. CASE ValidateUserBuffer(k.mem, spaces[i], buffer, toUser)
    <2>1. Touched(k.mem, spaces[i], buffer, toUser) = CopyUserBytes(k.mem, spaces[i], buffer, toUser)
        BY <1>4 DEF Touched
    <2>2. QED
        BY <1>3, <1>4, <2>1, CopyIs
<1>5. CASE ~ ValidateUserBuffer(k.mem, spaces[i], buffer, toUser)
    <2>1. Touched(k.mem, spaces[i], buffer, toUser) = {}
        BY <1>5 DEF Touched
    <2>2. QED
        BY <2>1
<1>6. QED
    BY <1>4, <1>5

\* Whatever was spawned, cleaned up and mapped before: in user mode a process
\* reaches exactly the pages that map_user_page has given it, with their
\* permissions, none of them writable and executable.
THEOREM UserSeesItsPages == Spec => []UserViewExact
BY PagingInvariant, UserViewIs, PTL

\* Outside the user range every space translates as the kernel's tables do,
\* also after the kernel has mapped more, and nothing of it is for user mode.
THEOREM KernelIsShared == Spec => []KernelShared
BY PagingInvariant, KernelSharedIs, PTL

\* permission_audit finds no violation: the records are true of the tables,
\* the guard pages of the heap are free, and without an overflow every page
\* is recorded.
THEOREM AuditFindsNothing == Spec => []AuditClean
BY PagingInvariant, AuditIs, PTL

\* copy_from_user and copy_to_user touch the pages of the task and nothing
\* else, all that the buffer covers or none.
THEOREM CopiesAreConfined == Spec => []CopiesConfined
BY PagingInvariant, CopiesAre, PTL
=============================================================================
