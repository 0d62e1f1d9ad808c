----------------------------- MODULE BootProofs -----------------------------
(***************************************************************************)
(* Proofs about the boot, for every machine that a boot loader can hand    *)
(* over and every size of the arrays of the kernel.                        *)
(***************************************************************************)
EXTENDS Boot, NatRecursion, FiniteSetTheorems, SequenceTheorems

-----------------------------------------------------------------------------
(* The kernel log.                                                         *)

LogTags == {"none", "boot", "mem", "initramfs", "elf"}

Ring == [entries : [0 .. LogSize - 1 -> [sequence : Nat, tag : LogTags]],
         writeIndex : 0 .. LogSize - 1, count : 0 .. LogSize,
         dropped : Nat, nextSequence : Nat]

\* The entries before writeIndex are the newest, the others, once the ring is
\* full, the oldest.
RingOk(r) ==
    /\ r \in Ring
    /\ r.count + r.dropped = r.nextSequence
    /\ r.count < LogSize => r.dropped = 0 /\ r.writeIndex = r.count
    /\ \A j \in 0 .. LogSize - 1 : j < r.writeIndex =>
          r.entries[j].sequence = r.nextSequence - r.writeIndex + j
    /\ r.count = LogSize =>
          \A j \in 0 .. LogSize - 1 : j >= r.writeIndex =>
             r.entries[j].sequence = r.nextSequence - r.writeIndex - LogSize + j

\* What command_log shows.
Newest(r) ==
    /\ r.count <= LogSize /\ r.count + r.dropped = r.nextSequence
    /\ r.dropped > 0 => r.count = LogSize
    /\ \A i \in 0 .. r.count - 1 : LogEntry(r, i).sequence = r.dropped + i

LastTag(r, tag) == r.count > 0 /\ LogEntry(r, r.count - 1).tag = tag

LEMMA LogSizeFact == LogSize \in Nat /\ LogSize > 0
    BY KlogAssumption

LEMMA ModBelow ==
    ASSUME NEW n \in Nat, NEW m \in Nat, m > 0, n < m + m
    PROVE  n % m = IF n < m THEN n ELSE n - m
    OBVIOUS

LEMMA RingTypes ==
    ASSUME NEW r \in Ring
    PROVE  /\ r.entries \in [0 .. LogSize - 1 -> [sequence : Nat, tag : LogTags]]
           /\ r.writeIndex \in 0 .. LogSize - 1 /\ r.count \in 0 .. LogSize
           /\ r.dropped \in Nat /\ r.nextSequence \in Nat
    BY DEF Ring

\* The index at which an entry is found.
LEMMA EntryIndex ==
    ASSUME NEW r \in Ring, NEW i \in 0 .. LogSize - 1
    PROVE  LogEntry(r, i) =
              r.entries[IF r.count < LogSize THEN i
                        ELSE IF r.writeIndex + i < LogSize THEN r.writeIndex + i
                        ELSE r.writeIndex + i - LogSize]
<1> DEFINE o == IF r.count < LogSize THEN 0 ELSE r.writeIndex
<1>1. o \in 0 .. LogSize - 1
    BY RingTypes, LogSizeFact
<1>2. LogEntry(r, i) = r.entries[(o + i) % LogSize]
    BY DEF LogEntry
<1>3. (o + i) % LogSize = IF o + i < LogSize THEN o + i ELSE o + i - LogSize
    <2> HIDE DEF o
    <2> DEFINE n == o + i
    <2>1. n \in Nat /\ n < LogSize + LogSize
        BY <1>1, LogSizeFact
    <2> HIDE DEF n
    <2>2. n % LogSize = IF n < LogSize THEN n ELSE n - LogSize
        BY <2>1, LogSizeFact, ModBelow
    <2>3. CASE n < LogSize
        BY <2>2, <2>3 DEF n
    <2>4. CASE ~ (n < LogSize)
        BY <1>1, <2>2, <2>4, LogSizeFact DEF n
    <2>5. QED
        BY <2>3, <2>4
<1>4. QED
    BY <1>2, <1>3, LogSizeFact

LEMMA RingShowsNewest ==
    ASSUME NEW r, RingOk(r)
    PROVE  Newest(r)
<1>1. r \in Ring
    BY DEF RingOk
<1>2. /\ r.writeIndex \in 0 .. LogSize - 1 /\ r.count \in 0 .. LogSize
      /\ r.dropped \in Nat /\ r.nextSequence \in Nat
    BY <1>1, RingTypes
<1>3. ASSUME NEW i \in 0 .. r.count - 1
      PROVE  LogEntry(r, i).sequence = r.dropped + i
    <2>1. i \in 0 .. LogSize - 1
        BY <1>2, LogSizeFact
    <2>2. CASE r.count < LogSize
        <3>1. LogEntry(r, i) = r.entries[i]
            BY <1>1, <2>1, <2>2, EntryIndex
        <3>2. QED
            BY <1>2, <2>1, <2>2, <3>1, LogSizeFact DEF RingOk
    <2>3. CASE r.count = LogSize
        <3> DEFINE k == IF r.writeIndex + i < LogSize THEN r.writeIndex + i
                        ELSE r.writeIndex + i - LogSize
        <3>1. LogEntry(r, i) = r.entries[k]
            BY <1>1, <1>2, <2>1, <2>3, EntryIndex, LogSizeFact
        <3>2. k \in 0 .. LogSize - 1
            BY <1>2, <2>1, LogSizeFact
        <3>3. CASE r.writeIndex + i < LogSize
            <4>1. k = r.writeIndex + i /\ k >= r.writeIndex
                BY <1>2, <2>1, <3>3
            <4> HIDE DEF k
            <4>2. r.entries[k].sequence = r.nextSequence - r.writeIndex - LogSize + k
                BY <2>3, <3>2, <4>1 DEF RingOk
            <4>3. r.count + r.dropped = r.nextSequence
                BY DEF RingOk
            <4>4. QED
                BY <1>2, <2>1, <2>3, <3>1, <4>1, <4>2, <4>3, LogSizeFact
        <3>4. CASE ~ (r.writeIndex + i < LogSize)
            <4>1. k = r.writeIndex + i - LogSize /\ k < r.writeIndex
                BY <1>2, <2>1, <3>4, LogSizeFact
            <4> HIDE DEF k
            <4>2. r.entries[k].sequence = r.nextSequence - r.writeIndex + k
                BY <3>2, <4>1 DEF RingOk
            <4>3. r.count + r.dropped = r.nextSequence
                BY DEF RingOk
            <4>4. QED
                BY <1>2, <2>1, <2>3, <3>1, <4>1, <4>2, <4>3, LogSizeFact
        <3>5. QED
            BY <3>3, <3>4
    <2>4. QED
        BY <1>2, <2>2, <2>3, LogSizeFact
<1>4. QED
    BY <1>2, <1>3, LogSizeFact DEF RingOk, Newest

LEMMA NewRingOk == RingOk(NewRing)
<1>1. NewRing \in Ring
    <2>1. EmptyEntry \in [sequence : Nat, tag : LogTags]
        BY DEF EmptyEntry, LogTags
    <2>2. [i \in 0 .. LogSize - 1 |-> EmptyEntry] \in [0 .. LogSize - 1 -> [sequence : Nat, tag : LogTags]]
        BY <2>1
    <2>3. 0 \in 0 .. LogSize - 1 /\ 0 \in 0 .. LogSize
        BY LogSizeFact
    <2>4. QED
        BY <2>2, <2>3 DEF NewRing, Ring
<1>2. QED
    BY <1>1, LogSizeFact DEF RingOk, NewRing

\* An entry that is written replaces the oldest one.
LEMMA AppendOk ==
    ASSUME NEW r, RingOk(r), NEW tag \in LogTags
    PROVE  RingOk(LogAppend(r, tag)) /\ LastTag(LogAppend(r, tag), tag)
<1> DEFINE s == LogAppend(r, tag)
           w == r.writeIndex
<1>1. r \in Ring
    BY DEF RingOk
<1>e. r.entries \in [0 .. LogSize - 1 -> [sequence : Nat, tag : LogTags]]
    BY <1>1, RingTypes
<1>2. /\ w \in 0 .. LogSize - 1 /\ r.count \in 0 .. LogSize
      /\ r.dropped \in Nat /\ r.nextSequence \in Nat
    BY <1>1, RingTypes
<1>3. (w + 1) % LogSize = IF w + 1 < LogSize THEN w + 1 ELSE 0
    <2> DEFINE n == w + 1
    <2>1. n \in Nat /\ n <= LogSize /\ n < LogSize + LogSize /\ LogSize - LogSize = 0
        BY <1>2, LogSizeFact
    <2> HIDE DEF n
    <2>2. n % LogSize = IF n < LogSize THEN n ELSE n - LogSize
        BY <2>1, LogSizeFact, ModBelow
    <2>3. n % LogSize = IF n < LogSize THEN n ELSE 0
        BY <2>1, <2>2, LogSizeFact
    <2>4. QED
        BY <2>3 DEF n
<1> DEFINE new == [sequence |-> r.nextSequence, tag |-> tag]
<1>4. /\ s.writeIndex = (IF w + 1 < LogSize THEN w + 1 ELSE 0)
      /\ s.nextSequence = r.nextSequence + 1
      /\ s.count = (IF r.count < LogSize THEN r.count + 1 ELSE r.count)
      /\ s.dropped = (IF r.count < LogSize THEN r.dropped ELSE r.dropped + 1)
    BY <1>3 DEF LogAppend
<1>5. s.entries = [r.entries EXCEPT ![w] = new]
    BY DEF LogAppend
<1>n. /\ new \in [sequence : Nat, tag : LogTags]
      /\ new.sequence = r.nextSequence /\ new.tag = tag
    BY <1>2
<1>6. s \in Ring
    <2>1. s = [entries |-> s.entries, writeIndex |-> s.writeIndex, count |-> s.count,
               dropped |-> s.dropped, nextSequence |-> s.nextSequence]
        BY DEF LogAppend
    <2> HIDE DEF s
    <2>2. /\ s.writeIndex \in 0 .. LogSize - 1 /\ s.count \in 0 .. LogSize
          /\ s.dropped \in Nat /\ s.nextSequence \in Nat
        BY <1>2, <1>4, LogSizeFact
    <2> HIDE DEF new
    <2>3. s.entries \in [0 .. LogSize - 1 -> [sequence : Nat, tag : LogTags]]
        BY <1>2, <1>e, <1>5, <1>n
    <2>4. QED
        BY <2>1, <2>2, <2>3 DEF Ring
<1> HIDE DEF s, new
<1>7. /\ \A j \in 0 .. LogSize - 1 : j # w => s.entries[j] = r.entries[j]
      /\ s.entries[w].sequence = r.nextSequence /\ s.entries[w].tag = tag
    BY <1>2, <1>e, <1>5, <1>n
<1>8. /\ r.count + r.dropped = r.nextSequence
      /\ r.count < LogSize => r.dropped = 0 /\ w = r.count
    BY DEF RingOk
<1>9. /\ s.count + s.dropped = s.nextSequence
      /\ s.count < LogSize => s.dropped = 0 /\ s.writeIndex = s.count
    BY <1>2, <1>4, <1>8, LogSizeFact
<1>10. ASSUME NEW j \in 0 .. LogSize - 1, j < s.writeIndex
       PROVE  s.entries[j].sequence = s.nextSequence - s.writeIndex + j
    <2>1. s.writeIndex = w + 1 /\ j <= w
        BY <1>2, <1>4, <1>10
    <2>2. CASE j = w
        BY <1>2, <1>4, <1>7, <2>1, <2>2
    <2>3. CASE j < w
        <3>1. r.entries[j].sequence = r.nextSequence - w + j
            BY <2>3 DEF RingOk
        <3>2. QED
            BY <1>2, <1>4, <1>7, <2>1, <2>3, <3>1
    <2>4. QED
        BY <1>2, <2>1, <2>2, <2>3
<1>11. ASSUME s.count = LogSize, NEW j \in 0 .. LogSize - 1, j >= s.writeIndex
       PROVE  s.entries[j].sequence = s.nextSequence - s.writeIndex - LogSize + j
    <2>1. CASE w + 1 < LogSize
        <3>1. r.count = LogSize /\ j > w /\ s.writeIndex = w + 1
            BY <1>2, <1>4, <1>8, <1>11, <2>1, LogSizeFact
        <3>2. r.entries[j].sequence = r.nextSequence - w - LogSize + j
            BY <1>2, <3>1 DEF RingOk
        <3>3. QED
            BY <1>2, <1>4, <1>7, <3>1, <3>2, LogSizeFact
    <2>2. CASE ~ (w + 1 < LogSize)
        <3>1. w = LogSize - 1 /\ s.writeIndex = 0
            BY <1>2, <1>4, <2>2, LogSizeFact
        <3>2. CASE j = w
            BY <1>2, <1>4, <1>7, <3>1, <3>2, LogSizeFact
        <3>3. CASE j # w
            <4>1. j < w
                BY <1>2, <3>1, <3>3, LogSizeFact
            <4>2. r.entries[j].sequence = r.nextSequence - w + j
                BY <4>1 DEF RingOk
            <4>3. QED
                BY <1>2, <1>4, <1>7, <3>1, <3>3, <4>2, LogSizeFact
        <3>4. QED
            BY <3>2, <3>3
    <2>3. QED
        BY <2>1, <2>2
<1>12. RingOk(s)
    BY <1>6, <1>9, <1>10, <1>11 DEF RingOk
<1>13. LastTag(s, tag)
    <2>1. s.count \in 1 .. LogSize /\ s.count - 1 \in 0 .. LogSize - 1 /\ s.writeIndex \in 0 .. LogSize - 1
        BY <1>2, <1>4, LogSizeFact
    <2> DEFINE i == s.count - 1
    <2>2. LogEntry(s, i) = s.entries[IF s.count < LogSize THEN i
                                     ELSE IF s.writeIndex + i < LogSize THEN s.writeIndex + i
                                     ELSE s.writeIndex + i - LogSize]
        BY <1>6, <2>1, EntryIndex
    <2>3. (IF s.count < LogSize THEN i
           ELSE IF s.writeIndex + i < LogSize THEN s.writeIndex + i
           ELSE s.writeIndex + i - LogSize) = w
        BY <1>2, <1>4, <1>8, <2>1, LogSizeFact
    <2>4. QED
        BY <1>7, <2>1, <2>2, <2>3 DEF LastTag
<1>14. QED
    BY <1>12, <1>13 DEF s

LEMMA LinesOk ==
    ASSUME NEW r, RingOk(r), NEW tag \in LogTags, NEW n \in Nat, n > 0
    PROVE  RingOk(LogLines(r, tag, n)) /\ LastTag(LogLines(r, tag, n), tag)
<1> DEFINE D == {x \in Ring : RingOk(x)}
           Rec(f) == f = [i \in 0 .. n |-> IF i = 0 THEN r ELSE LogAppend(f[i - 1], tag)]
           step == [z \in D \X (1 .. n) |-> LogAppend(z[1], tag)]
<1>1. r \in D
    BY DEF RingOk
<1>2. ASSUME NEW x \in D PROVE LogAppend(x, tag) \in D /\ LastTag(LogAppend(x, tag), tag)
    BY AppendOk DEF RingOk
<1>3. \A x \in D : RingOk(x)
    OBVIOUS
<1> HIDE DEF D
<1>4. /\ step \in [D \X (1 .. n) -> D]
      /\ \A x \in D, i \in 1 .. n : step[<<x, i>>] = LogAppend(x, tag)
    BY <1>2
<1> HIDE DEF step
<1>5. IsStep(step, n, D)
    BY <1>4 DEF IsStep
<1>6. PICK f : IsRun(f, n, D, r, step)
    BY <1>1, <1>5, RunExists
<1>7. f \in [0 .. n -> D] /\ f[0] = r /\ \A i \in 1 .. n : f[i] = step[<<f[i - 1], i>>]
    BY <1>6 DEF IsRun
<1>8. ASSUME NEW i \in 1 .. n PROVE f[i] = LogAppend(f[i - 1], tag)
    <2>1. i - 1 \in 0 .. n
        OBVIOUS
    <2>2. QED
        BY <1>4, <1>7, <2>1
<1>9. Rec(f)
    <2>1. \A i \in 0 .. n : f[i] = IF i = 0 THEN r ELSE LogAppend(f[i - 1], tag)
        BY <1>7, <1>8
    <2>2. QED
        BY <1>7, <2>1
<1> DEFINE g == CHOOSE h : Rec(h)
<1>10. Rec(g)
    BY <1>9
<1>11. LogLines(r, tag, n) = g[n]
    BY DEF LogLines
<1> HIDE DEF g
<1>12. \A i \in 0 .. n : g[i] = IF i = 0 THEN r ELSE LogAppend(g[i - 1], tag)
    BY <1>10
<1>13. IsRun(g, n, D, r, step)
    <2>1. g = [i \in 0 .. n |-> g[i]]
        BY <1>10
    <2>2. g[0] = r /\ \A i \in 1 .. n : g[i] = LogAppend(g[i - 1], tag)
        BY <1>12
    <2>3. \A i \in 1 .. n : g[i - 1] \in D => g[i] = step[<<g[i - 1], i>>]
        BY <1>4, <2>2
    <2>4. QED
        BY <1>1, <1>5, <2>1, <2>2, <2>3, RunInside
<1>14. g[n - 1] \in D /\ g[n] = LogAppend(g[n - 1], tag)
    <2>1. n \in 1 .. n /\ n - 1 \in 0 .. n /\ n \in 0 .. n /\ n # 0
        OBVIOUS
    <2>2. QED
        BY <1>12, <1>13, <2>1 DEF IsRun
<1>15. QED
    BY <1>2, <1>3, <1>11, <1>14

LogInv == RingOk(log) /\ (phase = "booted" => LastTag(log, "elf"))

\* The log reads as the newest messages of the boot, in order and without a
\* gap, for every size of the ring (LogRing::append, LogRing::entry).
THEOREM LogReadsNewest == Spec => []LogKeepsNewest
<1>t. {"boot", "mem", "initramfs", "elf"} \subseteq LogTags
    BY DEF LogTags
<1>1. Init => LogInv
    <2> SUFFICES ASSUME Init PROVE LogInv
        OBVIOUS
    <2>1. RingOk(LogLines(NewRing, "boot", 11))
        BY <1>t, NewRingOk, LinesOk
    <2>2. QED
        BY <2>1 DEF Init, LogInv
<1>2. LogInv /\ [Next]_vars => LogInv'
    <2> SUFFICES ASSUME LogInv, [Next]_vars PROVE LogInv'
        OBVIOUS
    <2>0. RingOk(log)
        BY DEF LogInv
    <2>1. CASE MultibootInit
        <3>1. RingOk(LogLines(log, "mem", 7))
            BY <1>t, <2>0, LinesOk
        <3>2. QED
            BY <2>1, <3>1 DEF MultibootInit, LogInv
    <2>2. CASE InitramfsInit
        <3> DEFINE n == IF archive'.valid THEN 7 ELSE 2
        <3>1. n \in Nat /\ n > 0
            OBVIOUS
        <3>2. log' = LogLines(log, "initramfs", n) /\ phase' = "physmem"
            BY <2>2 DEF InitramfsInit
        <3> HIDE DEF n
        <3>3. RingOk(LogLines(log, "initramfs", n))
            BY <1>t, <2>0, <3>1, LinesOk
        <3>4. QED
            BY <3>2, <3>3 DEF LogInv
    <2>3. CASE PhysmemInit
        <3>1. RingOk(LogLines(log, "mem", 3))
            BY <1>t, <2>0, LinesOk
        <3>2. QED
            BY <2>3, <3>1 DEF PhysmemInit, LogInv
    <2>4. CASE ElfInit
        <3> DEFINE n == IF plan'.ok THEN 5 ELSE 1
        <3>1. n \in Nat /\ n > 0
            OBVIOUS
        <3>2. log' = LogLines(log, "elf", n)
            BY <2>4 DEF ElfInit
        <3> HIDE DEF n
        <3>3. RingOk(LogLines(log, "elf", n)) /\ LastTag(LogLines(log, "elf", n), "elf")
            BY <1>t, <2>0, <3>1, LinesOk
        <3>4. QED
            BY <3>2, <3>3 DEF LogInv
    <2>5. CASE UNCHANGED vars
        BY <2>5 DEF vars, LogInv
    <2>6. QED
        BY <2>1, <2>2, <2>3, <2>4, <2>5 DEF Next
<1>3. LogInv => LogKeepsNewest
    <2> SUFFICES ASSUME LogInv PROVE LogKeepsNewest
        OBVIOUS
    <2>1. Newest(log)
        BY RingShowsNewest DEF LogInv
    <2>2. QED
        BY <2>1 DEF LogInv, LastTag, Newest, LogKeepsNewest
<1>4. QED
    BY <1>1, <1>2, <1>3, PTL DEF Spec

-----------------------------------------------------------------------------
(* The boot information: types.                                            *)

Tags == MapTags \cup ModuleTags \cup OtherTags

BootModule == [start : Nat, end : Nat, name : STRING]

Summary == [address : Nat, totalSize : Nat, parsed : BOOLEAN, regions : Seq(MapEntry),
            modules : Seq(BootModule), highestModuleEnd : Nat]

LEMMA TagTypes ==
    ASSUME NEW t \in Tags
    PROVE  /\ t.size \in Nat
           /\ t.type = "module" => /\ t.start \in Nat /\ t.end \in Nat /\ t.name \in STRING
                                   /\ t.terminated \in BOOLEAN
           /\ t.type = "map" => /\ t.entrySize \in Nat /\ t.entries \in Seq(MapEntry)
                                /\ t.entrySize >= 24 => EntriesRead(t) <= Len(t.entries)
<1>1. CASE t \in MapTags
    BY <1>1 DEF MapTags
<1>2. CASE t \in ModuleTags
    BY <1>2 DEF ModuleTags
<1>3. CASE t \in OtherTags
    BY <1>3 DEF OtherTags
<1>4. QED
    BY <1>1, <1>2, <1>3 DEF Tags

LEMMA SummaryTypes ==
    ASSUME NEW s \in Summary
    PROVE  /\ s.address \in Nat /\ s.totalSize \in Nat /\ s.parsed \in BOOLEAN
           /\ s.regions \in Seq(MapEntry) /\ s.modules \in Seq(BootModule)
           /\ s.highestModuleEnd \in Nat
    BY DEF Summary

\* What a memory map leaves as it was.
SameModules(s, t) ==
    /\ t.modules = s.modules /\ t.highestModuleEnd = s.highestModuleEnd
    /\ t.address = s.address /\ t.totalSize = s.totalSize

LEMMA AddRegionType ==
    ASSUME NEW s \in Summary, NEW e \in MapEntry
    PROVE  AddRegion(s, e) \in Summary /\ SameModules(s, AddRegion(s, e))
<1>1. CASE AddRegion(s, e) = s
    BY <1>1 DEF SameModules
<1>2. CASE AddRegion(s, e) = [s EXCEPT !.regions = Append(@, e)]
    <2>1. Append(s.regions, e) \in Seq(MapEntry)
        BY SummaryTypes
    <2>2. QED
        BY <1>2, <2>1 DEF SameModules, Summary
<1>3. QED
    BY <1>1, <1>2 DEF AddRegion

LEMMA AddModuleType ==
    ASSUME NEW s \in Summary, NEW m \in BootModule
    PROVE  /\ AddModule(s, m) \in Summary
           /\ AddModule(s, m).address = s.address /\ AddModule(s, m).totalSize = s.totalSize
           /\ AddModule(s, m).highestModuleEnd >= s.highestModuleEnd
           /\ IsValid(m) => AddModule(s, m).highestModuleEnd >= m.end
           /\ \/ AddModule(s, m).modules = s.modules
              \/ IsValid(m) /\ AddModule(s, m).modules = Append(s.modules, m)
<1>0. m.end \in Nat /\ s.highestModuleEnd \in Nat
    BY SummaryTypes DEF BootModule
<1>1. CASE ~ IsValid(m)
    BY <1>0, <1>1 DEF AddModule
<1>2. CASE IsValid(m)
    <2> DEFINE ms == IF Len(s.modules) < MaxModules THEN Append(s.modules, m) ELSE s.modules
               he == IF m.end > s.highestModuleEnd THEN m.end ELSE s.highestModuleEnd
    <2>1. AddModule(s, m) = [s EXCEPT !.modules = ms, !.highestModuleEnd = he]
        BY <1>2 DEF AddModule
    <2>2. ms \in Seq(BootModule)
        BY SummaryTypes
    <2>3. he \in Nat /\ he >= m.end /\ he >= s.highestModuleEnd
        BY <1>0
    <2>4. ms = s.modules \/ ms = Append(s.modules, m)
        OBVIOUS
    <2> HIDE DEF ms, he
    <2>5. /\ AddModule(s, m) \in Summary
          /\ AddModule(s, m).address = s.address /\ AddModule(s, m).totalSize = s.totalSize
          /\ AddModule(s, m).highestModuleEnd = he /\ AddModule(s, m).modules = ms
        BY <2>1, <2>2, <2>3 DEF Summary
    <2>6. QED
        BY <1>2, <2>3, <2>4, <2>5
<1>3. QED
    BY <1>1, <1>2

LEMMA EntriesReadType ==
    ASSUME NEW size \in Nat, NEW d \in Nat, d >= 24, NEW t, t.size = size, t.entrySize = d
    PROVE  EntriesRead(t) \in Nat
<1>1. CASE size < 40
    BY <1>1 DEF EntriesRead
<1>2. CASE size >= 40
    <2> DEFINE n == size - 40
    <2>1. n \in Nat /\ n = size - 16 - 24
        BY <1>2
    <2> HIDE DEF n
    <2>2. n \div d \in Nat
        BY <2>1
    <2>3. EntriesRead(t) = (size - 16 - 24) \div d + 1
        BY <1>2 DEF EntriesRead
    <2>4. QED
        BY <2>1, <2>2, <2>3
<1>3. QED
    BY <1>1, <1>2

\* The loop of parse_memory_map.
LEMMA MapParsed ==
    ASSUME NEW s \in Summary, NEW t \in Tags, t.type = "map"
    PROVE  ParseMemoryMap(s, t) \in Summary /\ SameModules(s, ParseMemoryMap(s, t))
<1>1. CASE t.size < 16 \/ t.entrySize < 24
    BY <1>1 DEF ParseMemoryMap, SameModules
<1>2. CASE ~ (t.size < 16 \/ t.entrySize < 24)
    <2> DEFINE n == EntriesRead(t)
               es == t.entries
               D == {x \in Summary : SameModules(s, x)}
               Rec(f) == f = [i \in 0 .. n |-> IF i = 0 THEN s ELSE AddRegion(f[i - 1], es[i])]
               step == [z \in D \X (1 .. n) |-> AddRegion(z[1], es[z[2]])]
    <2>1. t.size \in Nat /\ t.entrySize \in Nat /\ es \in Seq(MapEntry)
        BY TagTypes
    <2>2. n \in Nat
        BY <1>2, <2>1, EntriesReadType
    <2>3. n <= Len(es)
        BY <1>2, <2>1, TagTypes
    <2>4. ParseMemoryMap(s, t) = (CHOOSE h : Rec(h))[n]
        BY <1>2 DEF ParseMemoryMap
    <2> HIDE DEF n, es
    <2>5. \A i \in 1 .. n : es[i] \in MapEntry
        BY <2>1, <2>2, <2>3
    <2>6. s \in D
        BY DEF SameModules
    <2>7. ASSUME NEW x \in D, NEW i \in 1 .. n PROVE AddRegion(x, es[i]) \in D
        BY <2>5, AddRegionType DEF SameModules
    <2>8. \A x \in D : x \in Summary /\ SameModules(s, x)
        OBVIOUS
    <2> HIDE DEF D
    <2>9. /\ step \in [D \X (1 .. n) -> D]
          /\ \A x \in D, i \in 1 .. n : step[<<x, i>>] = AddRegion(x, es[i])
        BY <2>7
    <2> HIDE DEF step
    <2>10. IsStep(step, n, D)
        BY <2>9 DEF IsStep
    <2>11. PICK f : IsRun(f, n, D, s, step)
        BY <2>2, <2>6, <2>10, RunExists
    <2>12. f \in [0 .. n -> D] /\ f[0] = s /\ \A i \in 1 .. n : f[i] = step[<<f[i - 1], i>>]
        BY <2>11 DEF IsRun
    <2>13. ASSUME NEW i \in 1 .. n PROVE f[i] = AddRegion(f[i - 1], es[i])
        <3>1. i - 1 \in 0 .. n
            BY <2>2
        <3>2. QED
            BY <2>9, <2>12, <3>1
    <2>14. Rec(f)
        <3>1. \A i \in 0 .. n : f[i] = IF i = 0 THEN s ELSE AddRegion(f[i - 1], es[i])
            BY <2>2, <2>12, <2>13
        <3>2. QED
            BY <2>12, <3>1
    <2> DEFINE g == CHOOSE h : Rec(h)
    <2>15. Rec(g)
        BY <2>14
    <2> HIDE DEF g
    <2>16. IsRun(g, n, D, s, step)
        <3>1. g = [i \in 0 .. n |-> g[i]]
            BY <2>15
        <3>2. g[0] = s /\ \A i \in 1 .. n : g[i] = AddRegion(g[i - 1], es[i])
            BY <2>2, <2>15
        <3>3. \A i \in 1 .. n : g[i - 1] \in D => g[i] = step[<<g[i - 1], i>>]
            BY <2>9, <3>2
        <3>4. QED
            BY <2>2, <2>6, <2>10, <3>1, <3>2, <3>3, RunInside
    <2>17. g[n] \in D
        BY <2>2, <2>16 DEF IsRun
    <2>18. QED
        BY <2>4, <2>8, <2>17 DEF g
<1>3. QED
    BY <1>1, <1>2

Walk == [offset : Nat, done : BOOLEAN, summary : Summary]

\* parse leaves its loop at this tag.
Stops(w, t, total) ==
    w.done \/ w.offset + 8 > total \/ t.size < 8 \/ w.offset + t.size > total

GoodModule(t) == t.type = "module" /\ t.size >= 17 /\ t.terminated /\ IsValid(t)

ModuleOf(t) == [start |-> t.start, end |-> t.end, name |-> t.name]

\* What a tag adds to the summary.
TagAdds(s, t, u) ==
    /\ u \in Summary
    /\ u.address = s.address /\ u.totalSize = s.totalSize
    /\ u.highestModuleEnd >= s.highestModuleEnd
    /\ GoodModule(t) => u.highestModuleEnd >= t.end
    /\ \/ u.modules = s.modules
       \/ GoodModule(t) /\ u.modules = Append(s.modules, ModuleOf(t))

LEMMA SameAdds ==
    ASSUME NEW s \in Summary, NEW t, ~ GoodModule(t), NEW u \in Summary, SameModules(s, u)
    PROVE  TagAdds(s, t, u)
    BY SummaryTypes DEF TagAdds, SameModules

LEMMA ModuleParsed ==
    ASSUME NEW s \in Summary, NEW t \in Tags, t.type = "module"
    PROVE  TagAdds(s, t, ParseModule(s, t))
<1>0. /\ t.size \in Nat /\ t.start \in Nat /\ t.end \in Nat /\ t.name \in STRING
      /\ t.terminated \in BOOLEAN
    BY TagTypes
<1>1. CASE t.size < 17 \/ ~ t.terminated
    <2>1. ParseModule(s, t) = s /\ ~ GoodModule(t)
        BY <1>0, <1>1 DEF ParseModule, GoodModule
    <2>2. SameModules(s, s)
        BY DEF SameModules
    <2>3. QED
        BY <2>1, <2>2, SameAdds
<1>2. CASE ~ (t.size < 17 \/ ~ t.terminated)
    <2> DEFINE m == ModuleOf(t)
    <2>1. ParseModule(s, t) = AddModule(s, m)
        BY <1>2 DEF ParseModule, ModuleOf
    <2>2. m \in BootModule /\ m.end = t.end /\ (IsValid(m) <=> IsValid(t))
        BY <1>0 DEF BootModule, IsValid, ModuleOf
    <2>3. GoodModule(t) <=> IsValid(t)
        BY <1>0, <1>2 DEF GoodModule
    <2> HIDE DEF m
    <2>4. /\ AddModule(s, m) \in Summary
          /\ AddModule(s, m).address = s.address /\ AddModule(s, m).totalSize = s.totalSize
          /\ AddModule(s, m).highestModuleEnd >= s.highestModuleEnd
          /\ IsValid(m) => AddModule(s, m).highestModuleEnd >= m.end
          /\ \/ AddModule(s, m).modules = s.modules
             \/ IsValid(m) /\ AddModule(s, m).modules = Append(s.modules, m)
        BY <2>2, AddModuleType
    <2>5. TagAdds(s, t, AddModule(s, m))
        BY <2>2, <2>3, <2>4 DEF TagAdds, m
    <2>6. QED
        BY <2>1, <2>5
<1>3. QED
    BY <1>1, <1>2

\* The part of the loop that looks at the type of the tag.
TagSummary(s, t) ==
    CASE t.type = "end" -> [s EXCEPT !.parsed = t.size = 8]
      [] t.type = "module" -> ParseModule(s, t)
      [] t.type = "map" -> ParseMemoryMap(s, t)
      [] OTHER -> s

LEMMA TagSummaryAdds ==
    ASSUME NEW s \in Summary, NEW t \in Tags
    PROVE  TagAdds(s, t, TagSummary(s, t))
<1>1. CASE t.type = "end"
    <2>1. TagSummary(s, t) = [s EXCEPT !.parsed = (t.size = 8)]
        BY <1>1 DEF TagSummary
    <2>2. TagSummary(s, t) \in Summary /\ SameModules(s, TagSummary(s, t))
        BY <2>1 DEF Summary, SameModules
    <2>3. QED
        BY <1>1, <2>2, SameAdds DEF GoodModule
<1>2. CASE t.type = "module"
    BY <1>2, ModuleParsed DEF TagSummary
<1>3. CASE t.type = "map"
    <2>1. TagSummary(s, t) = ParseMemoryMap(s, t)
        BY <1>3 DEF TagSummary
    <2>2. QED
        BY <1>3, <2>1, MapParsed, SameAdds DEF GoodModule
<1>4. CASE t.type \notin {"end", "module", "map"}
    <2>1. TagSummary(s, t) = s /\ SameModules(s, s)
        BY <1>4 DEF TagSummary, SameModules
    <2>2. QED
        BY <1>4, <2>1, SameAdds DEF GoodModule
<1>5. QED
    BY <1>1, <1>2, <1>3, <1>4

LEMMA WalkTypes ==
    ASSUME NEW w \in Walk
    PROVE  w.offset \in Nat /\ w.done \in BOOLEAN /\ w.summary \in Summary
    BY DEF Walk

\* What a turn of the loop makes of w.
TagParsed(w, t, total, p) ==
    /\ p \in Walk
    /\ Stops(w, t, total) => p.done /\ p.summary = w.summary
    /\ ~ Stops(w, t, total) => /\ p.offset = AlignUp8(w.offset + t.size)
                               /\ p.done <=> t.type = "end"
                               /\ TagAdds(w.summary, t, p.summary)

LEMMA ParseTagFacts ==
    ASSUME NEW w \in Walk, NEW t \in Tags, NEW total \in Nat
    PROVE  TagParsed(w, t, total, ParseTag(w, t, total))
<1> DEFINE p == ParseTag(w, t, total)
<1>0. t.size \in Nat /\ w.offset \in Nat /\ w.done \in BOOLEAN /\ w.summary \in Summary
    BY TagTypes, WalkTypes
<1>1. CASE Stops(w, t, total)
    <2>1. p = [w EXCEPT !.done = TRUE]
        BY <1>1 DEF ParseTag, Stops
    <2> HIDE DEF p
    <2>2. p \in Walk /\ p.done /\ p.summary = w.summary
        BY <1>0, <2>1 DEF Walk
    <2>3. QED
        BY <1>1, <2>2 DEF TagParsed, p
<1>2. CASE ~ Stops(w, t, total)
    <2>1. p = [offset |-> AlignUp8(w.offset + t.size), done |-> t.type = "end",
               summary |-> TagSummary(w.summary, t)]
        BY <1>2 DEF ParseTag, Stops, TagSummary
    <2>2. AlignUp8(w.offset + t.size) \in Nat
        BY <1>0 DEF AlignUp8
    <2>3. TagAdds(w.summary, t, TagSummary(w.summary, t))
        BY <1>0, TagSummaryAdds
    <2>4. TagSummary(w.summary, t) \in Summary
        BY <2>3 DEF TagAdds
    <2> DEFINE o == AlignUp8(w.offset + t.size)
               u == TagSummary(w.summary, t)
               b == t.type = "end"
    <2>5. p = [offset |-> o, done |-> b, summary |-> u] /\ b \in BOOLEAN
        BY <2>1
    <2> HIDE DEF o, u, b, p
    <2>6. p \in Walk /\ p.offset = o /\ p.done = b /\ p.summary = u
        BY <2>2, <2>4, <2>5 DEF Walk, o, u
    <2>7. p.done <=> t.type = "end"
        BY <2>6, Zenon DEF b
    <2>8. TagAdds(w.summary, t, p.summary)
        BY <2>3, <2>6 DEF u
    <2>9. QED
        BY <1>2, <2>6, <2>7, <2>8 DEF o, p, TagParsed
<1>3. QED
    BY <1>1, <1>2

-----------------------------------------------------------------------------
(* The boot information: the walk.                                         *)

\* f[i] is the offset of tag i + 1.
IsTagOffsets(f, tags) ==
    /\ f \in [0 .. Len(tags) -> Nat] /\ f[0] = 8
    /\ \A j \in 1 .. Len(tags) : f[j] = f[j - 1] + AlignUp8(tags[j].size)
    /\ \A i \in 0 .. Len(tags) : TagOffset(tags, i + 1) = f[i]

LEMMA AlignUp8Type ==
    ASSUME NEW n \in Nat
    PROVE  /\ AlignUp8(n) \in Nat /\ AlignUp8(n) >= n /\ AlignUp8(n) % 8 = 0
           /\ \A m \in Nat : m % 8 = 0 => AlignUp8(m + n) = m + AlignUp8(n)
    BY DEF AlignUp8

LEMMA TagOffsets ==
    ASSUME NEW tags \in Seq(Tags)
    PROVE  \E f : IsTagOffsets(f, tags)
<1> DEFINE n == Len(tags)
           a(j) == AlignUp8(tags[j].size)
           step == [z \in Nat \X (1 .. n) |-> z[1] + a(z[2])]
<1>1. n \in Nat
    OBVIOUS
<1>2. ASSUME NEW j \in 1 .. n PROVE a(j) \in Nat
    <2>1. tags[j] \in Tags
        OBVIOUS
    <2>2. tags[j].size \in Nat
        BY <2>1, TagTypes
    <2>3. QED
        BY <2>2, AlignUp8Type
<1> HIDE DEF a
<1>3. /\ step \in [Nat \X (1 .. n) -> Nat]
      /\ \A x \in Nat, j \in 1 .. n : step[<<x, j>>] = x + a(j)
    BY <1>2
<1> HIDE DEF step, n
<1>4. IsStep(step, n, Nat)
    BY <1>3 DEF IsStep
<1>5. PICK f : IsRun(f, n, Nat, 8, step)
    BY <1>1, <1>4, RunExists
<1>6. f \in [0 .. n -> Nat] /\ f[0] = 8 /\ \A j \in 1 .. n : f[j] = step[<<f[j - 1], j>>]
    BY <1>5 DEF IsRun
<1>7. ASSUME NEW j \in 1 .. n PROVE f[j] = f[j - 1] + a(j)
    <2>1. j - 1 \in 0 .. n
        BY <1>1
    <2>2. QED
        BY <1>3, <1>6, <2>1
<1>8. ASSUME NEW i \in 0 .. n PROVE TagOffset(tags, i + 1) = f[i]
    <2> DEFINE Rec(h) == h = [j \in 0 .. i |-> IF j = 0 THEN 8 ELSE h[j - 1] + a(j)]
               r == [j \in 0 .. i |-> f[j]]
               g == CHOOSE h : Rec(h)
    <2>0. i \in Nat /\ (i + 1) - 1 = i /\ 0 .. i \subseteq 0 .. n
        BY <1>1
    <2>1. \A j \in 0 .. i : r[j] = f[j]
        OBVIOUS
    <2>2. r = [j \in 0 .. i |-> r[j]]
        OBVIOUS
    <2> HIDE DEF r
    <2>3. \A j \in 0 .. i : r[j] = IF j = 0 THEN 8 ELSE r[j - 1] + a(j)
        <3> TAKE j \in 0 .. i
        <3>1. CASE j = 0
            BY <1>6, <2>1, <3>1
        <3>2. CASE j # 0
            <4>1. j \in 1 .. n /\ j - 1 \in 0 .. i
                BY <2>0, <3>2
            <4>2. QED
                BY <1>7, <2>1, <3>2, <4>1
        <3>3. QED
            BY <3>1, <3>2
    <2>4. Rec(r)
        BY <2>2, <2>3
    <2>5. Rec(g)
        BY <2>4
    <2>6. TagOffset(tags, i + 1) = g[i]
        BY <2>0 DEF TagOffset, a
    <2> HIDE DEF g
    <2>7. \A j \in 0 .. i : g[j] = IF j = 0 THEN 8 ELSE g[j - 1] + a(j)
        BY <2>5
    <2>8. g[0] = f[0]
        BY <1>6, <2>0, <2>7
    <2>9. ASSUME NEW j \in 0 .. i - 1, g[j] = f[j] PROVE g[j + 1] = f[j + 1]
        <3>1. j + 1 \in 0 .. i /\ j + 1 \in 1 .. n /\ j + 1 # 0 /\ (j + 1) - 1 = j
            BY <2>0
        <3>2. g[j + 1] = g[j] + a(j + 1)
            BY <2>7, <3>1
        <3>3. QED
            BY <1>7, <2>9, <3>1, <3>2
    <2>10. g[i] = f[i]
        BY <2>0, <2>8, <2>9, RunsAgree
    <2>11. QED
        BY <2>6, <2>10
<1>9. QED
    BY <1>6, <1>7, <1>8 DEF IsTagOffsets, n, a

LEMMA InfoTypes ==
    ASSUME NEW info \in BootInfo
    PROVE  /\ info.validMagic \in BOOLEAN /\ info.address \in Nat /\ info.totalSize \in Nat
           /\ info.tags \in Seq(Tags)
    BY DEF BootInfo, Tags

StartSummary(info) == [NoSummary(info) EXCEPT !.totalSize = info.totalSize]

LEMMA StartSummaryType ==
    ASSUME NEW info \in BootInfo
    PROVE  /\ NoSummary(info) \in Summary /\ NoSummary(info).address = info.address
           /\ NoSummary(info).totalSize = 0
           /\ NoSummary(info).modules = <<>> /\ NoSummary(info).regions = <<>>
           /\ StartSummary(info) \in Summary
           /\ StartSummary(info).address = info.address
           /\ StartSummary(info).totalSize = info.totalSize
           /\ StartSummary(info).modules = <<>> /\ StartSummary(info).regions = <<>>
           /\ StartSummary(info).highestModuleEnd = 0
<1>1. info.address \in Nat /\ info.totalSize \in Nat
    BY InfoTypes
<1>2. <<>> \in Seq(MapEntry) /\ <<>> \in Seq(BootModule)
    OBVIOUS
<1>3. QED
    BY <1>1, <1>2 DEF StartSummary, NoSummary, Summary

\* The turns of the loop of parse.
IsWalk(g, info) ==
    /\ g \in [0 .. Len(info.tags) -> Walk]
    /\ g[0] = [offset |-> 8, done |-> FALSE, summary |-> StartSummary(info)]
    /\ \A i \in 1 .. Len(info.tags) : g[i] = ParseTag(g[i - 1], info.tags[i], info.totalSize)

\* parse enters its loop.
InfoOk(info) ==
    /\ info.validMagic /\ info.address # 0 /\ info.address < BootInfoLimit
    /\ info.totalSize >= 16 /\ info.totalSize <= MaxBootInfoSize
    /\ info.address + info.totalSize < BootInfoLimit

LEMMA WalkExists ==
    ASSUME NEW info \in BootInfo, InfoOk(info)
    PROVE  \E g : IsWalk(g, info) /\ Parse(info) = g[Len(info.tags)].summary
<1> DEFINE tags == info.tags
           n == Len(tags)
           total == info.totalSize
           c == [offset |-> 8, done |-> FALSE, summary |-> StartSummary(info)]
           Rec(f) == f = [i \in 0 .. n |-> IF i = 0 THEN c ELSE ParseTag(f[i - 1], tags[i], total)]
           step == [z \in Walk \X (1 .. n) |-> ParseTag(z[1], tags[z[2]], total)]
           g == CHOOSE h : Rec(h)
<1>1. tags \in Seq(Tags) /\ total \in Nat
    BY InfoTypes
<1>2. c \in Walk
    BY StartSummaryType DEF Walk
<1>3. Parse(info) = g[n].summary
    <2>1. ~ (~ info.validMagic \/ info.address = 0 \/ info.address >= BootInfoLimit)
        BY InfoTypes, MultibootAssumption DEF InfoOk
    <2>2. ~ (\/ info.totalSize < 16 \/ info.totalSize > MaxBootInfoSize
             \/ info.address + info.totalSize >= BootInfoLimit)
        BY InfoTypes, MultibootAssumption DEF InfoOk
    <2>3. QED
        BY <2>1, <2>2 DEF Parse, StartSummary
<1> HIDE DEF tags, total, c
<1>4. n \in Nat /\ \A i \in 1 .. n : tags[i] \in Tags
    BY <1>1
<1> HIDE DEF n
<1>5. ASSUME NEW x \in Walk, NEW i \in 1 .. n PROVE ParseTag(x, tags[i], total) \in Walk
    BY <1>1, <1>4, ParseTagFacts DEF TagParsed
<1>6. /\ step \in [Walk \X (1 .. n) -> Walk]
      /\ \A x \in Walk, i \in 1 .. n : step[<<x, i>>] = ParseTag(x, tags[i], total)
    BY <1>5
<1> HIDE DEF step
<1>7. IsStep(step, n, Walk)
    BY <1>6 DEF IsStep
<1>8. PICK f : IsRun(f, n, Walk, c, step)
    BY <1>2, <1>4, <1>7, RunExists
<1>9. f \in [0 .. n -> Walk] /\ f[0] = c /\ \A i \in 1 .. n : f[i] = step[<<f[i - 1], i>>]
    BY <1>8 DEF IsRun
<1>10. ASSUME NEW i \in 1 .. n PROVE f[i] = ParseTag(f[i - 1], tags[i], total)
    <2>1. i - 1 \in 0 .. n
        BY <1>4
    <2>2. QED
        BY <1>6, <1>9, <2>1
<1>11. Rec(f)
    <2>1. \A i \in 0 .. n : f[i] = IF i = 0 THEN c ELSE ParseTag(f[i - 1], tags[i], total)
        BY <1>4, <1>9, <1>10
    <2>2. QED
        BY <1>9, <2>1
<1>12. Rec(g)
    BY <1>11
<1> HIDE DEF g
<1>13. g[0] = c /\ \A i \in 1 .. n : g[i] = ParseTag(g[i - 1], tags[i], total)
    BY <1>4, <1>12
<1>14. IsRun(g, n, Walk, c, step)
    <2>1. g = [i \in 0 .. n |-> g[i]]
        BY <1>12
    <2>2. \A i \in 1 .. n : g[i - 1] \in Walk => g[i] = step[<<g[i - 1], i>>]
        BY <1>6, <1>13
    <2>3. QED
        BY <1>2, <1>4, <1>7, <1>13, <2>1, <2>2, RunInside
<1>15. g \in [0 .. n -> Walk]
    BY <1>14 DEF IsRun
<1>16. IsWalk(g, info)
    BY <1>13, <1>15 DEF IsWalk, n, tags, total, c
<1>17. QED
    BY <1>3, <1>16 DEF n, tags

TagFits(info, f, j) ==
    info.tags[j].size >= 8 /\ f[j - 1] + info.tags[j].size <= info.totalSize

LEMMA ModuleIsGood ==
    ASSUME NEW info \in BootInfo, InfoOk(info), NEW f, IsTagOffsets(f, info.tags),
           NEW i \in 1 .. Len(info.tags)
    PROVE  IsModule(info, i) <=> /\ \A j \in 1 .. i : TagFits(info, f, j)
                                 /\ \A j \in 1 .. i - 1 : info.tags[j].type # "end"
                                 /\ GoodModule(info.tags[i])
<1>1. ASSUME NEW j \in 1 .. i
      PROVE  TagOffset(info.tags, j) = f[j - 1]
    <2>1. j - 1 \in 0 .. Len(info.tags) /\ (j - 1) + 1 = j
        BY InfoTypes
    <2>2. TagOffset(info.tags, (j - 1) + 1) = f[j - 1]
        BY <2>1 DEF IsTagOffsets
    <2>3. QED
        BY <2>1, <2>2
<1>2. (\A j \in 1 .. i : /\ info.tags[j].size >= 8
                         /\ TagOffset(info.tags, j) + info.tags[j].size <= info.totalSize)
        <=> \A j \in 1 .. i : TagFits(info, f, j)
    BY <1>1 DEF TagFits
<1>3. info.address > 0 /\ info.totalSize \in 16 .. MaxBootInfoSize
    BY InfoTypes, MultibootAssumption DEF InfoOk
<1>4. QED
    BY <1>2, <1>3 DEF IsModule, GoodModule, InfoOk

\* What is known after i tags.
WalkInv(w, info, f, i) ==
    /\ w \in Walk
    /\ w.summary.address = info.address /\ w.summary.totalSize = info.totalSize
    /\ ~ w.done => /\ w.offset = f[i] /\ f[i] % 8 = 0
                   /\ \A j \in 1 .. i : TagFits(info, f, j) /\ info.tags[j].type # "end"
    /\ w.done => \E k \in 1 .. i : ~ TagFits(info, f, k) \/ info.tags[k].type = "end"
    /\ \A j \in 1 .. i : IsModule(info, j) => w.summary.highestModuleEnd >= info.tags[j].end
    /\ \A m \in 1 .. Len(w.summary.modules) : \E j \in 1 .. i :
          IsModule(info, j) /\ w.summary.modules[m] = ModuleOf(info.tags[j])

LEMMA WalkStep ==
    ASSUME NEW info \in BootInfo, InfoOk(info), NEW f, IsTagOffsets(f, info.tags),
           NEW i \in 0 .. Len(info.tags) - 1, NEW w, WalkInv(w, info, f, i),
           NEW p, p = ParseTag(w, info.tags[i + 1], info.totalSize)
    PROVE  WalkInv(p, info, f, i + 1)
<1> DEFINE t == info.tags[i + 1]
           total == info.totalSize
<1>1. /\ i + 1 \in 1 .. Len(info.tags) /\ i \in Nat /\ (i + 1) - 1 = i
      /\ i \in 0 .. Len(info.tags) /\ total \in Nat
    BY InfoTypes
<1>2. t \in Tags /\ t.size \in Nat
    <2>1. t \in Tags
        BY <1>1, InfoTypes
    <2>2. QED
        BY <2>1, TagTypes
<1>3. /\ w \in Walk /\ w.offset \in Nat /\ w.done \in BOOLEAN
      /\ w.summary \in Summary /\ w.summary.highestModuleEnd \in Nat
      /\ w.summary.modules \in Seq(BootModule)
    BY WalkTypes, SummaryTypes DEF WalkInv
<1>4. /\ p \in Walk
      /\ Stops(w, t, total) => p.done /\ p.summary = w.summary
      /\ ~ Stops(w, t, total) => /\ p.offset = AlignUp8(w.offset + t.size)
                                 /\ p.done <=> t.type = "end"
                                 /\ TagAdds(w.summary, t, p.summary)
    <2>1. p = ParseTag(w, t, total)
        OBVIOUS
    <2> HIDE DEF t, total
    <2>2. TagParsed(w, t, total, p)
        BY <1>1, <1>2, <1>3, <2>1, ParseTagFacts
    <2>3. QED
        BY <2>2 DEF TagParsed
<1>5. /\ f \in [0 .. Len(info.tags) -> Nat]
      /\ f[i + 1] = f[i] + AlignUp8(t.size)
    BY <1>1 DEF IsTagOffsets
<1>6. f[i] \in Nat
    BY <1>1, <1>5
<1>7. IsModule(info, i + 1) <=> /\ \A j \in 1 .. i + 1 : TagFits(info, f, j)
                                /\ \A j \in 1 .. i : info.tags[j].type # "end"
                                /\ GoodModule(t)
    BY <1>1, ModuleIsGood
<1>8. TagFits(info, f, i + 1) <=> t.size >= 8 /\ f[i] + t.size <= total
    BY <1>1 DEF TagFits
<1>9. \A j \in 1 .. i + 1 : j \in 1 .. i \/ j = i + 1
    BY <1>1
<1>10. \A j \in 1 .. i : j \in 1 .. i + 1
    BY <1>1
<1> HIDE DEF t, total
<1>11. CASE Stops(w, t, total)
    <2>1. p.done /\ p.summary = w.summary
        BY <1>4, <1>11
    <2>2. PICK k \in 1 .. i + 1 : \/ ~ TagFits(info, f, k)
                                  \/ k \in 1 .. i /\ info.tags[k].type = "end"
        <3>1. CASE w.done
            BY <1>10, <3>1 DEF WalkInv
        <3>2. CASE ~ w.done
            <4>1. w.offset = f[i]
                BY <3>2 DEF WalkInv
            <4>2. ~ TagFits(info, f, i + 1)
                BY <1>1, <1>2, <1>6, <1>8, <1>11, <3>2, <4>1 DEF Stops
            <4>3. i + 1 \in 1 .. i + 1
                BY <1>1
            <4>4. QED
                BY <4>2, <4>3
        <3>3. QED
            BY <3>1, <3>2
    <2>3. ~ IsModule(info, i + 1)
        BY <1>7, <2>2
    <2>4. \A j \in 1 .. i + 1 :
             IsModule(info, j) => p.summary.highestModuleEnd >= info.tags[j].end
        BY <1>9, <2>1, <2>3 DEF WalkInv
    <2>5. \A m \in 1 .. Len(p.summary.modules) : \E j \in 1 .. i + 1 :
             IsModule(info, j) /\ p.summary.modules[m] = ModuleOf(info.tags[j])
        BY <1>10, <2>1 DEF WalkInv
    <2>6. p.summary.address = info.address /\ p.summary.totalSize = info.totalSize
        BY <2>1 DEF WalkInv
    <2>7. QED
        BY <1>4, <2>1, <2>2, <2>4, <2>5, <2>6 DEF WalkInv
<1>12. CASE ~ Stops(w, t, total)
    <2>1. ~ w.done /\ w.offset = f[i] /\ f[i] % 8 = 0
        BY <1>12 DEF WalkInv, Stops
    <2>2. TagFits(info, f, i + 1)
        BY <1>1, <1>2, <1>6, <1>8, <1>12, <2>1 DEF Stops
    <2>3. \A j \in 1 .. i : TagFits(info, f, j) /\ info.tags[j].type # "end"
        BY <2>1 DEF WalkInv
    <2>4. /\ p.offset = AlignUp8(f[i] + t.size) /\ (p.done <=> t.type = "end")
          /\ TagAdds(w.summary, t, p.summary)
        BY <1>4, <1>12, <2>1
    <2>5. p.offset = f[i + 1] /\ f[i + 1] % 8 = 0
        <3>1. AlignUp8(f[i] + t.size) = f[i] + AlignUp8(t.size)
            BY <1>2, <1>6, <2>1, AlignUp8Type
        <3> DEFINE x == f[i]
                   y == AlignUp8(t.size)
        <3>2. x \in Nat /\ y \in Nat /\ x % 8 = 0 /\ y % 8 = 0
            BY <1>2, <1>6, <2>1, AlignUp8Type
        <3> HIDE DEF x, y
        <3>3. (x + y) % 8 = 0
            BY <3>2
        <3>4. QED
            BY <1>5, <2>4, <3>1, <3>3 DEF x, y
    <2>6. IsModule(info, i + 1) <=> GoodModule(t)
        BY <1>7, <1>9, <2>2, <2>3
    <2>7. /\ p.summary \in Summary
          /\ p.summary.address = w.summary.address
          /\ p.summary.totalSize = w.summary.totalSize
          /\ p.summary.highestModuleEnd >= w.summary.highestModuleEnd
          /\ GoodModule(t) => p.summary.highestModuleEnd >= t.end
          /\ \/ p.summary.modules = w.summary.modules
             \/ GoodModule(t) /\ p.summary.modules = Append(w.summary.modules, ModuleOf(t))
        BY <2>4 DEF TagAdds
    <2>8. ASSUME NEW j \in 1 .. i + 1, IsModule(info, j)
          PROVE  p.summary.highestModuleEnd >= info.tags[j].end
        <3>1. CASE j = i + 1
            BY <2>6, <2>7, <2>8, <3>1 DEF t
        <3>2. CASE j \in 1 .. i
            <4>1. w.summary.highestModuleEnd >= info.tags[j].end
                BY <2>8, <3>2 DEF WalkInv
            <4>l. j \in 1 .. Len(info.tags)
                BY <1>1, <3>2, InfoTypes
            <4>2. GoodModule(info.tags[j])
                BY <2>8, <4>l, ModuleIsGood
            <4>3. info.tags[j] \in Tags
                BY <4>l, InfoTypes
            <4>4. info.tags[j].end \in Nat /\ p.summary.highestModuleEnd \in Nat
                BY <2>7, <4>2, <4>3, TagTypes, SummaryTypes DEF GoodModule
            <4>5. QED
                BY <1>3, <2>7, <4>1, <4>4
        <3>3. QED
            BY <1>9, <3>1, <3>2
    <2>9. ASSUME NEW m \in 1 .. Len(p.summary.modules)
          PROVE  \E j \in 1 .. i + 1 :
                    IsModule(info, j) /\ p.summary.modules[m] = ModuleOf(info.tags[j])
        <3>1. CASE p.summary.modules = w.summary.modules
            BY <1>10, <3>1 DEF WalkInv
        <3>2. CASE GoodModule(t) /\ p.summary.modules = Append(w.summary.modules, ModuleOf(t))
            <4> DEFINE ms == w.summary.modules
                       x == ModuleOf(t)
            <4>1. /\ Len(Append(ms, x)) = Len(ms) + 1 /\ Append(ms, x)[Len(ms) + 1] = x
                  /\ \A k \in 1 .. Len(ms) : Append(ms, x)[k] = ms[k]
                  /\ Len(ms) \in Nat
                BY <1>3
            <4>2. CASE m = Len(ms) + 1
                <5>1. i + 1 \in 1 .. i + 1
                    BY <1>1
                <5>2. IsModule(info, i + 1) /\ p.summary.modules[m] = ModuleOf(info.tags[i + 1])
                    BY <2>6, <3>2, <4>1, <4>2 DEF t
                <5>3. QED
                    BY <5>1, <5>2
            <4>3. CASE m \in 1 .. Len(ms)
                <5>1. p.summary.modules[m] = ms[m]
                    BY <3>2, <4>1, <4>3
                <5>2. \E j \in 1 .. i : IsModule(info, j) /\ ms[m] = ModuleOf(info.tags[j])
                    BY <4>3 DEF WalkInv
                <5>3. QED
                    BY <1>10, <5>1, <5>2
            <4>4. QED
                BY <3>2, <4>1, <4>2, <4>3
        <3>3. QED
            BY <2>7, <3>1, <3>2
    <2>10. ~ p.done => /\ p.offset = f[i + 1] /\ f[i + 1] % 8 = 0
                       /\ \A j \in 1 .. i + 1 : TagFits(info, f, j) /\ info.tags[j].type # "end"
        BY <1>9, <2>2, <2>3, <2>4, <2>5 DEF t
    <2>11. p.done => \E k \in 1 .. i + 1 : ~ TagFits(info, f, k) \/ info.tags[k].type = "end"
        <3>1. i + 1 \in 1 .. i + 1
            BY <1>1
        <3>2. QED
            BY <2>4, <3>1 DEF t
    <2>12. p.summary.address = info.address /\ p.summary.totalSize = info.totalSize
        BY <2>7 DEF WalkInv
    <2>13. QED
        BY <1>4, <2>8, <2>9, <2>10, <2>11, <2>12 DEF WalkInv
<1>13. QED
    BY <1>11, <1>12

\* What parse returns.
ParsedOk(info, s) ==
    /\ s \in Summary
    /\ s.address = info.address /\ (s.totalSize > 0 => s.address > 0)
    /\ \A j \in 1 .. Len(info.tags) : IsModule(info, j) => s.highestModuleEnd >= info.tags[j].end
    /\ \A m \in 1 .. Len(s.modules) : \E j \in 1 .. Len(info.tags) :
          IsModule(info, j) /\ s.modules[m] = ModuleOf(info.tags[j])

LEMMA ParseSound ==
    ASSUME NEW info \in BootInfo
    PROVE  ParsedOk(info, Parse(info))
<1>0. /\ info.address \in Nat /\ info.totalSize \in Nat /\ info.validMagic \in BOOLEAN
      /\ BootInfoLimit \in Nat /\ MaxBootInfoSize \in Nat
    BY InfoTypes, MultibootAssumption
<1>1. CASE ~ InfoOk(info)
    <2>1. \A j \in 1 .. Len(info.tags) : ~ IsModule(info, j)
        BY <1>0, <1>1 DEF IsModule, InfoOk
    <2> DEFINE s == Parse(info)
    <2>2. \/ s = NoSummary(info)
          \/ s = StartSummary(info) /\ info.address # 0
        BY <1>0, <1>1 DEF Parse, StartSummary, InfoOk
    <2> HIDE DEF s
    <2>3. /\ s \in Summary /\ s.address = info.address /\ s.modules = <<>>
          /\ s.totalSize > 0 => s.address > 0
        BY <1>0, <2>2, StartSummaryType
    <2>4. 1 .. Len(s.modules) = {}
        BY <2>3
    <2>5. QED
        BY <2>1, <2>3, <2>4 DEF ParsedOk, s
<1>2. CASE InfoOk(info)
    <2> DEFINE n == Len(info.tags)
    <2>1. PICK g : IsWalk(g, info) /\ Parse(info) = g[n].summary
        BY <1>2, WalkExists
    <2>2. PICK f : IsTagOffsets(f, info.tags)
        BY InfoTypes, TagOffsets
    <2>3. n \in Nat
        BY InfoTypes
    <2> DEFINE S == {i \in 0 .. n : WalkInv(g[i], info, f, i)}
    <2>4. 0 \in S
        <3>1. /\ g[0] = [offset |-> 8, done |-> FALSE, summary |-> StartSummary(info)]
              /\ g[0] \in Walk
            BY <2>1, <2>3 DEF IsWalk
        <3>2. /\ g[0].offset = 8 /\ g[0].done = FALSE /\ g[0].summary = StartSummary(info)
            BY <3>1
        <3>3. f[0] = 8 /\ 8 % 8 = 0
            BY <2>2 DEF IsTagOffsets
        <3>4. 1 .. 0 = {} /\ 1 .. Len(StartSummary(info).modules) = {}
            BY StartSummaryType
        <3>5. /\ StartSummary(info).address = info.address
              /\ StartSummary(info).totalSize = info.totalSize
            BY StartSummaryType
        <3>6. WalkInv(g[0], info, f, 0)
            BY <3>1, <3>2, <3>3, <3>4, <3>5 DEF WalkInv
        <3>7. QED
            BY <2>3, <3>6
    <2>5. ASSUME NEW i \in 0 .. n - 1, i \in S PROVE i + 1 \in S
        <3>1. i + 1 \in 1 .. n /\ (i + 1) - 1 = i /\ i + 1 \in 0 .. n
            BY <2>3
        <3>2. g[i + 1] = ParseTag(g[i], info.tags[i + 1], info.totalSize)
            BY <2>1, <3>1 DEF IsWalk
        <3>3. WalkInv(g[i], info, f, i)
            BY <2>5
        <3>4. WalkInv(g[i + 1], info, f, i + 1)
            BY <1>2, <2>2, <3>2, <3>3, WalkStep
        <3>5. QED
            BY <3>1, <3>4
    <2>6. 0 .. n \subseteq S
        <3> HIDE DEF S, n
        <3>1. QED
            BY <2>3, <2>4, <2>5, InductionUpTo
    <2>7. WalkInv(g[n], info, f, n)
        BY <2>3, <2>6
    <2>8. Parse(info) \in Summary
        BY <2>1, <2>7, WalkTypes DEF WalkInv
    <2>9. QED
        BY <1>0, <1>2, <2>1, <2>7, <2>8 DEF ParsedOk, WalkInv, InfoOk
<1>3. QED
    BY <1>1, <1>2

-----------------------------------------------------------------------------
(* Frames: multiples of FrameSize.                                         *)

Multiple(x) == x \in Nat /\ x % FrameSize = 0

LEMMA FrameSizes ==
    /\ FrameSize \in Nat /\ FrameSize > 0 /\ MaxAddr \in Nat /\ MaxAllocRegions \in Nat
    /\ Multiple(MaxAddr + 1)
    BY RegionMapAssumption DEF Multiple

LEMMA DivMod ==
    ASSUME NEW a \in Nat, NEW d \in Nat, d > 0
    PROVE  /\ a \div d \in Nat /\ a % d \in Nat /\ a % d < d
           /\ a = d * (a \div d) + (a % d)
    OBVIOUS

LEMMA TimesMod ==
    ASSUME NEW k \in Nat, NEW d \in Nat, d > 0
    PROVE  d * k \in Nat /\ (d * k) % d = 0 /\ (d * k) \div d = k
    OBVIOUS

\* Products are monotone.
LEMMA TimesMonotone ==
    ASSUME NEW i \in Nat, NEW j \in Nat, NEW d \in Nat, d > 0
    PROVE  /\ i < j <=> d * i < d * j
           /\ i < j => d * i + d <= d * j
           /\ d * i \in Nat /\ d * j \in Nat
    OBVIOUS

LEMMA MultipleIs ==
    ASSUME NEW x, Multiple(x)
    PROVE  x \div FrameSize \in Nat /\ x = FrameSize * (x \div FrameSize)
<1>1. x \in Nat /\ x % FrameSize = 0
    BY DEF Multiple
<1>2. QED
    BY <1>1, DivMod, FrameSizes

LEMMA IsMultiple ==
    ASSUME NEW k \in Nat
    PROVE  /\ Multiple(FrameSize * k) /\ (FrameSize * k) \div FrameSize = k
           /\ k * FrameSize = FrameSize * k
    BY TimesMod, FrameSizes DEF Multiple

LEMMA MultipleGap ==
    ASSUME NEW x, Multiple(x), NEW y, Multiple(y)
    PROVE  /\ x < y => x + FrameSize <= y
           /\ x < y <=> x \div FrameSize < y \div FrameSize
<1> DEFINE i == x \div FrameSize
           j == y \div FrameSize
<1>1. i \in Nat /\ j \in Nat /\ x = FrameSize * i /\ y = FrameSize * j
    BY MultipleIs
<1> HIDE DEF i, j
<1>2. /\ i < j <=> FrameSize * i < FrameSize * j
      /\ i < j => FrameSize * i + FrameSize <= FrameSize * j
    BY <1>1, TimesMonotone, FrameSizes
<1>3. QED
    BY <1>1, <1>2 DEF i, j

LEMMA AlignDownFacts ==
    ASSUME NEW a \in Nat
    PROVE  /\ Multiple(AlignDown(a)) /\ AlignDown(a) <= a
           /\ \A x : Multiple(x) /\ x <= a => x <= AlignDown(a)
<1> DEFINE q == a \div FrameSize
           r == a % FrameSize
           d == FrameSize * q
<1>1. q \in Nat /\ r \in Nat /\ r < FrameSize /\ a = d + r
    BY DivMod, FrameSizes
<1>2. Multiple(d) /\ d \in Nat
    BY <1>1, IsMultiple DEF Multiple
<1>3. AlignDown(a) = a - r
    BY DEF AlignDown
<1> HIDE DEF q, r, d
<1>4. AlignDown(a) = d /\ d <= a
    BY <1>1, <1>2, <1>3
<1>5. ASSUME NEW x, Multiple(x), x <= a, ~ (x <= d) PROVE FALSE
    <2>1. x \in Nat /\ d < x
        BY <1>2, <1>5 DEF Multiple
    <2>2. d + FrameSize <= x
        BY <1>2, <1>5, <2>1, MultipleGap
    <2>3. QED
        BY <1>1, <1>2, <1>5, <2>1, <2>2, FrameSizes
<1>6. QED
    BY <1>2, <1>4, <1>5

LEMMA SaturatingAddFacts ==
    ASSUME NEW a \in Nat, NEW b \in Nat
    PROVE  /\ SaturatingAdd(a, b) \in Nat /\ SaturatingAdd(a, b) <= MaxAddr
           /\ SaturatingAdd(a, b) <= a + b
           /\ SaturatingAdd(a, b) = MaxAddr \/ SaturatingAdd(a, b) = a + b
    BY FrameSizes DEF SaturatingAdd

\* No frame begins after the last whole frame.
LEMMA LastFrame ==
    ASSUME NEW x, Multiple(x), x <= MaxAddr
    PROVE  x + FrameSize <= MaxAddr + 1
<1>1. x \in Nat /\ x < MaxAddr + 1
    BY FrameSizes DEF Multiple
<1>2. QED
    BY <1>1, FrameSizes, MultipleGap

\* align_up: the next frame, or the last one of the address space.
LEMMA AlignUpIs ==
    ASSUME NEW a \in Nat
    PROVE  /\ Multiple(AlignUp(a)) /\ AlignUp(a) <= MaxAddr
           /\ AlignUp(a) >= a \/ AlignUp(a) + FrameSize = MaxAddr + 1
           /\ \A x : Multiple(x) /\ x >= a /\ x <= MaxAddr => AlignUp(a) <= x
<1> DEFINE s == SaturatingAdd(a, FrameSize - 1)
<1>0. FrameSize - 1 \in Nat
    BY FrameSizes
<1>1. s \in Nat /\ s <= MaxAddr /\ s <= a + (FrameSize - 1)
    BY <1>0, SaturatingAddFacts
<1>2. s = MaxAddr \/ s = a + (FrameSize - 1)
    BY <1>0, SaturatingAddFacts
<1>3. AlignUp(a) = AlignDown(s)
    BY DEF AlignUp
<1> HIDE DEF s
<1> DEFINE u == AlignDown(s)
<1>4. Multiple(u) /\ u <= s /\ u \in Nat /\ \A x : Multiple(x) /\ x <= s => x <= u
    BY <1>1, AlignDownFacts DEF Multiple
<1> HIDE DEF u
<1>5. u <= MaxAddr
    BY <1>1, <1>4, FrameSizes
<1>6. CASE s = MaxAddr
    <2> DEFINE top == MaxAddr + 1 - FrameSize
    <2>1. Multiple(top) /\ top <= MaxAddr
        <3> DEFINE k == (MaxAddr + 1) \div FrameSize
        <3>1. k \in Nat /\ MaxAddr + 1 = FrameSize * k
            BY FrameSizes, MultipleIs
        <3> HIDE DEF k
        <3>2. k > 0
            <4>1. CASE k = 0
                BY <3>1, <4>1, FrameSizes
            <4>2. QED
                BY <3>1, <4>1
        <3>3. k - 1 \in Nat /\ FrameSize * k = FrameSize * (k - 1) + FrameSize
            BY <3>1, <3>2, FrameSizes
        <3>4. Multiple(FrameSize * (k - 1)) /\ FrameSize * (k - 1) \in Nat
            BY <3>3, IsMultiple DEF Multiple
        <3> DEFINE y == FrameSize * (k - 1)
        <3>5. y \in Nat /\ MaxAddr + 1 = y + FrameSize /\ Multiple(y)
            BY <3>1, <3>3, <3>4
        <3> HIDE DEF y
        <3>6. top = y
            BY <3>5, FrameSizes
        <3>7. QED
            BY <3>5, <3>6, FrameSizes
    <2>2. top \in Nat
        BY <2>1 DEF Multiple
    <2> HIDE DEF top
    <2>3. top <= u
        BY <1>4, <1>6, <2>1
    <2>4. u + FrameSize <= MaxAddr + 1
        BY <1>4, <1>5, LastFrame
    <2>5. u + FrameSize = MaxAddr + 1
        BY <1>4, <2>2, <2>3, <2>4, FrameSizes DEF top
    <2>6. ASSUME NEW x, Multiple(x), x >= a, x <= MaxAddr PROVE u <= x
        <3>1. x \in Nat
            BY <2>6 DEF Multiple
        <3>2. CASE x < u
            <4>1. x + FrameSize <= u
                BY <1>4, <2>6, <3>2, MultipleGap
            <4>2. QED
                BY <1>1, <1>4, <1>6, <2>5, <2>6, <3>1, <4>1, FrameSizes
        <3>3. QED
            BY <1>4, <3>1, <3>2
    <2>7. QED
        BY <1>3, <1>4, <1>5, <2>5, <2>6 DEF u
<1>7. CASE s = a + (FrameSize - 1)
    <2>1. u >= a
        <3>1. CASE u < a
            <4> DEFINE v == u + FrameSize
            <4>1. Multiple(v)
                <5> DEFINE k == u \div FrameSize
                <5>1. k \in Nat /\ u = FrameSize * k
                    BY <1>4, MultipleIs
                <5> HIDE DEF k
                <5>2. FrameSize * (k + 1) = FrameSize * k + FrameSize /\ k + 1 \in Nat
                    BY <5>1, FrameSizes
                <5>3. Multiple(FrameSize * (k + 1))
                    BY <5>2, IsMultiple
                <5>4. QED
                    BY <5>1, <5>2, <5>3
            <4>2. v <= s /\ v > u
                BY <1>4, <1>7, <3>1, FrameSizes
            <4> HIDE DEF v
            <4>3. QED
                BY <1>4, <4>1, <4>2, FrameSizes DEF Multiple
        <3>2. QED
            BY <1>4, <3>1
    <2>2. ASSUME NEW x, Multiple(x), x >= a, x <= MaxAddr PROVE u <= x
        <3>1. x \in Nat
            BY <2>2 DEF Multiple
        <3>2. CASE x < u
            <4>1. x + FrameSize <= u
                BY <1>4, <2>2, <3>2, MultipleGap
            <4>2. QED
                BY <1>1, <1>4, <1>7, <2>2, <3>1, <4>1, FrameSizes
        <3>3. QED
            BY <1>4, <3>1, <3>2
    <2>3. QED
        BY <1>3, <1>4, <1>5, <2>1, <2>2 DEF u
<1>8. QED
    BY <1>2, <1>6, <1>7

-----------------------------------------------------------------------------
(* The regions of the frame allocator.                                     *)

LEMMA MapEntryTypes ==
    ASSUME NEW e \in MapEntry
    PROVE  /\ e.base \in Nat /\ e.length \in Nat /\ e.available \in BOOLEAN
           /\ End(e) \in Nat /\ End(e) <= MaxAddr /\ End(e) <= e.base + e.length
<1>1. e.base \in Nat /\ e.length \in Nat /\ e.available \in BOOLEAN
    BY DEF MapEntry
<1>2. QED
    BY <1>1, SaturatingAddFacts DEF End

LEMMA FrameBoundsFacts ==
    ASSUME NEW e \in MapEntry
    PROVE  /\ FrameBounds(e).start = AlignUp(e.base) /\ FrameBounds(e).end = AlignDown(End(e))
           /\ Multiple(FrameBounds(e).start) /\ Multiple(FrameBounds(e).end)
           /\ FrameBounds(e).start \in Nat /\ FrameBounds(e).end \in Nat
           /\ FrameBounds(e).end <= End(e) /\ FrameBounds(e).end + FrameSize <= MaxAddr + 1
           /\ FrameBounds(e).start < FrameBounds(e).end => e.base <= FrameBounds(e).start
<1> DEFINE x == AlignUp(e.base)
           y == AlignDown(End(e))
<1>0. FrameBounds(e).start = x /\ FrameBounds(e).end = y
    BY DEF FrameBounds
<1>1. e.base \in Nat /\ End(e) \in Nat /\ End(e) <= MaxAddr
    BY MapEntryTypes
<1>2. /\ Multiple(x) /\ x <= MaxAddr /\ x \in Nat
      /\ x >= e.base \/ x + FrameSize = MaxAddr + 1
    BY <1>1, AlignUpIs DEF Multiple
<1>3. Multiple(y) /\ y <= End(e) /\ y \in Nat
    BY <1>1, AlignDownFacts DEF Multiple
<1> HIDE DEF x, y
<1>4. y + FrameSize <= MaxAddr + 1
    BY <1>1, <1>3, LastFrame, FrameSizes
<1>5. x < y => e.base <= x
    BY <1>1, <1>2, <1>3, <1>4, FrameSizes
<1>6. QED
    BY <1>0, <1>2, <1>3, <1>4, <1>5 DEF x, y

LEMMA FramesInSum ==
    ASSUME NEW x, Multiple(x), NEW y, Multiple(y), NEW z, Multiple(z), x <= y, y <= z
    PROVE  /\ FramesIn(x, y) \in Nat /\ FramesIn(y, z) \in Nat
           /\ FramesIn(x, z) = FramesIn(x, y) + FramesIn(y, z)
<1>1. ASSUME NEW u, Multiple(u), NEW v, Multiple(v), u <= v
      PROVE  FramesIn(u, v) = v \div FrameSize - u \div FrameSize /\ FramesIn(u, v) \in Nat
    <2> DEFINE i == u \div FrameSize
               j == v \div FrameSize
    <2>1. i \in Nat /\ j \in Nat /\ u = FrameSize * i /\ v = FrameSize * j
        BY <1>1, MultipleIs
    <2>2. u \in Nat /\ v \in Nat
        BY <1>1 DEF Multiple
    <2>3. i <= j
        <3>1. v < u <=> j < i
            BY <1>1, MultipleGap
        <3> HIDE DEF i, j
        <3>2. QED
            BY <1>1, <2>1, <2>2, <3>1
    <2> HIDE DEF i, j
    <2> DEFINE k == j - i
    <2>4. k \in Nat /\ FrameSize * k = FrameSize * j - FrameSize * i
        BY <2>1, <2>3, FrameSizes
    <2> HIDE DEF k
    <2>5. v - u = FrameSize * k
        BY <2>1, <2>4
    <2>6. (FrameSize * k) \div FrameSize = k
        BY <2>4, IsMultiple
    <2>7. FramesIn(u, v) = k
        BY <2>5, <2>6 DEF FramesIn
    <2>8. QED
        BY <2>4, <2>7 DEF k, i, j
<1>2. x \in Nat /\ y \in Nat /\ z \in Nat
    BY DEF Multiple
<1>3. x <= z
    BY <1>2
<1> DEFINE a == x \div FrameSize
           b == y \div FrameSize
           c == z \div FrameSize
<1>4. a \in Nat /\ b \in Nat /\ c \in Nat
    BY MultipleIs
<1>5. /\ FramesIn(x, y) = b - a /\ FramesIn(y, z) = c - b /\ FramesIn(x, z) = c - a
      /\ FramesIn(x, y) \in Nat /\ FramesIn(y, z) \in Nat
    BY <1>1, <1>3
<1> HIDE DEF a, b, c
<1>6. QED
    BY <1>4, <1>5

Range2 == [start : Nat, end : Nat]

Allocator == [regions : Seq(Range2), usable : Nat, allocatable : Nat, skipped : Nat,
              protectedUntil : Nat]

\* Region r is what an entry e of the map leaves above the protected memory.
RegionOf(r, e, until) ==
    /\ Usable(e) /\ FrameBounds(e).end > until
    /\ r.end = FrameBounds(e).end
    /\ r.start = (IF FrameBounds(e).start > until THEN FrameBounds(e).start ELSE until)

\* What is known after i entries of the map.
RegionInv(a, map, until, i) ==
    /\ a \in Allocator /\ a.protectedUntil = until
    /\ Len(a.regions) <= MaxAllocRegions
    /\ a.usable = a.allocatable + a.skipped
    /\ \A k \in 1 .. Len(a.regions) : \E j \in 1 .. i : RegionOf(a.regions[k], map[j], until)
    /\ \A k, l \in 1 .. Len(a.regions) : k < l => \E j, m \in 1 .. i :
          j # m /\ RegionOf(a.regions[k], map[j], until) /\ RegionOf(a.regions[l], map[m], until)
    /\ Len(a.regions) < MaxAllocRegions =>
          \A j \in 1 .. i : Usable(map[j]) /\ FrameBounds(map[j]).end > until =>
             \E k \in 1 .. Len(a.regions) : RegionOf(a.regions[k], map[j], until)

LEMMA AllocatorTypes ==
    ASSUME NEW a \in Allocator
    PROVE  /\ a.regions \in Seq(Range2) /\ a.usable \in Nat /\ a.allocatable \in Nat
           /\ a.skipped \in Nat /\ a.protectedUntil \in Nat
    BY DEF Allocator

HasFields(b, u, rs, k, l, until) ==
    /\ b \in Allocator /\ b.usable = u /\ b.regions = rs /\ b.allocatable = k
    /\ b.skipped = l /\ b.protectedUntil = until

LEMMA AddedFields ==
    ASSUME NEW a \in Allocator, NEW u \in Nat, NEW k \in Nat, NEW l \in Nat,
           NEW rs \in Seq(Range2)
    PROVE  HasFields([a EXCEPT !.usable = u, !.regions = rs, !.allocatable = k, !.skipped = l],
                     u, rs, k, l, a.protectedUntil)
    BY DEF Allocator, HasFields

LEMMA SkippedFields ==
    ASSUME NEW a \in Allocator, NEW u \in Nat, NEW l \in Nat
    PROVE  HasFields([a EXCEPT !.usable = u, !.skipped = l],
                     u, a.regions, a.allocatable, l, a.protectedUntil)
    BY DEF Allocator, HasFields

\* The three outcomes of add_memory_region.
EntryAdded(a, e, b) ==
    \/ ~ Usable(e) /\ b = a
    \/ /\ Usable(e)
       /\ FrameBounds(e).end <= a.protectedUntil \/ Len(a.regions) >= MaxAllocRegions
       /\ b \in Allocator /\ b.protectedUntil = a.protectedUntil /\ b.regions = a.regions
       /\ b.usable = b.allocatable + b.skipped
    \/ /\ Usable(e) /\ Len(a.regions) < MaxAllocRegions
       /\ b \in Allocator /\ b.protectedUntil = a.protectedUntil
       /\ b.usable = b.allocatable + b.skipped
       /\ \E r \in Range2 : /\ RegionOf(r, e, a.protectedUntil)
                            /\ b.regions = Append(a.regions, r)

LEMMA AddMemoryRegionAdds ==
    ASSUME NEW a \in Allocator, NEW e \in MapEntry, Multiple(a.protectedUntil),
           a.usable = a.allocatable + a.skipped
    PROVE  EntryAdded(a, e, AddMemoryRegion(a, e))
<1> DEFINE until == a.protectedUntil
           x == FrameBounds(e).start
           y == FrameBounds(e).end
           s == IF x > until THEN x ELSE until
           b == AddMemoryRegion(a, e)
<1>1. /\ a.regions \in Seq(Range2) /\ a.usable \in Nat /\ a.allocatable \in Nat
      /\ a.skipped \in Nat /\ until \in Nat
    BY AllocatorTypes
<1>2. Multiple(x) /\ Multiple(y) /\ x \in Nat /\ y \in Nat
    BY FrameBoundsFacts
<1>3. CASE ~ Usable(e)
    BY <1>3 DEF AddMemoryRegion, EntryAdded
<1>4. CASE Usable(e) /\ (y <= until \/ Len(a.regions) >= MaxAllocRegions)
    <2>1. x < y
        BY <1>2, <1>4 DEF Usable
    <2> DEFINE n == FramesIn(x, y)
    <2>2. n \in Nat
        BY <1>2, <2>1, FramesInSum
    <2>3. b = [[a EXCEPT !.usable = @ + n] EXCEPT !.skipped = @ + n]
        BY <1>4 DEF AddMemoryRegion
    <2> DEFINE u == a.usable + n
               l == a.skipped + n
    <2>7. u \in Nat /\ l \in Nat
        BY <1>1, <2>2
    <2>8. b = [a EXCEPT !.usable = u, !.skipped = l]
        BY <2>3 DEF Allocator
    <2> HIDE DEF n, b, u, l
    <2>9. HasFields(b, u, a.regions, a.allocatable, l, a.protectedUntil)
        BY <2>7, <2>8, SkippedFields
    <2>4. /\ b \in Allocator /\ b.protectedUntil = a.protectedUntil /\ b.regions = a.regions
          /\ b.usable = a.usable + n /\ b.skipped = a.skipped + n
          /\ b.allocatable = a.allocatable
        BY <2>9 DEF HasFields, u, l
    <2>5. b.usable = b.allocatable + b.skipped
        BY <1>1, <2>2, <2>4
    <2>6. QED
        BY <1>4, <2>4, <2>5 DEF EntryAdded, b
<1>5. CASE Usable(e) /\ y > until /\ Len(a.regions) < MaxAllocRegions
    <2>1. x < y
        BY <1>2, <1>5 DEF Usable
    <2>2. Multiple(s) /\ s \in Nat /\ x <= s /\ s < y /\ until <= s
        BY <1>1, <1>2, <1>5, <2>1
    <2> DEFINE n == FramesIn(x, y)
               k == FramesIn(s, y)
               l == FramesIn(x, s)
               r == [start |-> s, end |-> y]
    <2>3. n \in Nat /\ k \in Nat /\ l \in Nat /\ n = l + k
        <3> HIDE DEF s
        <3>1. s <= y
            BY <1>2, <2>2
        <3>2. l \in Nat /\ k \in Nat /\ n = l + k
            BY <1>2, <2>2, <3>1, FramesInSum
        <3> HIDE DEF n, k, l
        <3>3. QED
            BY <3>2
    <2>4. b = [[a EXCEPT !.usable = @ + n] EXCEPT
                  !.regions = Append(@, r), !.allocatable = @ + k, !.skipped = @ + l]
        <3>1. Usable(e) /\ ~ (y <= until \/ Len(a.regions) >= MaxAllocRegions)
            BY <1>1, <1>2, <1>5, FrameSizes
        <3>2. QED
            BY <3>1 DEF AddMemoryRegion
    <2>5. r \in Range2 /\ r.start = s /\ r.end = y
        BY <1>2, <2>2 DEF Range2
    <2>6. RegionOf(r, e, until)
        BY <1>5, <2>5 DEF RegionOf
    <2>7. Append(a.regions, r) \in Seq(Range2)
        BY <1>1, <2>5
    <2> DEFINE rs == Append(a.regions, r)
    <2> HIDE DEF n, k, l, b, r, rs
    <2>8. b = [a EXCEPT !.usable = a.usable + n, !.regions = rs,
                        !.allocatable = a.allocatable + k, !.skipped = a.skipped + l]
        BY <1>1, <2>4 DEF rs, Allocator
    <2>9. a.usable + n \in Nat /\ a.allocatable + k \in Nat /\ a.skipped + l \in Nat
        BY <1>1, <2>3
    <2>10. rs \in Seq(Range2)
        BY <2>7 DEF rs
    <2> DEFINE u2 == a.usable + n
               k2 == a.allocatable + k
               l2 == a.skipped + l
    <2>15. u2 \in Nat /\ k2 \in Nat /\ l2 \in Nat
        BY <2>9
    <2>16. b = [a EXCEPT !.usable = u2, !.regions = rs, !.allocatable = k2, !.skipped = l2]
        BY <2>8
    <2> HIDE DEF u2, k2, l2
    <2>17. HasFields(b, u2, rs, k2, l2, a.protectedUntil)
        BY <2>10, <2>15, <2>16, AddedFields
    <2>11. /\ b \in Allocator /\ b.usable = a.usable + n /\ b.regions = rs
           /\ b.allocatable = a.allocatable + k
           /\ b.skipped = a.skipped + l /\ b.protectedUntil = a.protectedUntil
        BY <2>17 DEF HasFields, u2, k2, l2
    <2>12. b.usable = b.allocatable + b.skipped
        BY <1>1, <2>3, <2>11
    <2>13. \E q \in Range2 : RegionOf(q, e, a.protectedUntil) /\ b.regions = Append(a.regions, q)
        BY <2>5, <2>6, <2>11 DEF rs
    <2>14. QED
        BY <1>5, <2>11, <2>12, <2>13 DEF EntryAdded, b
<1>6. Len(a.regions) \in Nat
    BY <1>1
<1>7. QED
    BY <1>1, <1>2, <1>3, <1>4, <1>5, <1>6, FrameSizes

\* One turn of the loop keeps what is known of the regions.
LEMMA RegionStep ==
    ASSUME NEW map, NEW until \in Nat, NEW i \in Nat, NEW a, NEW b,
           RegionInv(a, map, until, i), map[i + 1] \in MapEntry, EntryAdded(a, map[i + 1], b)
    PROVE  RegionInv(b, map, until, i + 1)
<1> DEFINE e == map[i + 1]
<1>1. /\ a \in Allocator /\ a.protectedUntil = until /\ Len(a.regions) <= MaxAllocRegions
      /\ a.usable = a.allocatable + a.skipped
      /\ a.regions \in Seq(Range2) /\ Len(a.regions) \in Nat
    BY AllocatorTypes DEF RegionInv
<1>2. /\ \A k \in 1 .. Len(a.regions) : \E j \in 1 .. i : RegionOf(a.regions[k], map[j], until)
      /\ \A k, l \in 1 .. Len(a.regions) : k < l => \E j, m \in 1 .. i :
            j # m /\ RegionOf(a.regions[k], map[j], until) /\ RegionOf(a.regions[l], map[m], until)
      /\ Len(a.regions) < MaxAllocRegions =>
            \A j \in 1 .. i : Usable(map[j]) /\ FrameBounds(map[j]).end > until =>
               \E k \in 1 .. Len(a.regions) : RegionOf(a.regions[k], map[j], until)
    BY DEF RegionInv
<1>3. /\ i + 1 \in 1 .. i + 1 /\ 1 .. i \subseteq 1 .. i + 1
      /\ \A j \in 1 .. i + 1 : j \in 1 .. i \/ j = i + 1
      /\ \A j \in 1 .. i : j # i + 1
    OBVIOUS
<1>f. \A r : RegionOf(r, e, until) => Usable(e) /\ FrameBounds(e).end > until
    BY DEF RegionOf
<1>4. CASE /\ b \in Allocator /\ b.protectedUntil = until /\ b.regions = a.regions
           /\ b.usable = b.allocatable + b.skipped
           /\ \/ ~ Usable(e)
              \/ ~ (FrameBounds(e).end > until)
              \/ ~ (Len(a.regions) < MaxAllocRegions)
    <2>1. \A k \in 1 .. Len(b.regions) : \E j \in 1 .. i + 1 : RegionOf(b.regions[k], map[j], until)
        BY <1>2, <1>3, <1>4
    <2>2. \A k, l \in 1 .. Len(b.regions) : k < l => \E j, m \in 1 .. i + 1 :
            j # m /\ RegionOf(b.regions[k], map[j], until) /\ RegionOf(b.regions[l], map[m], until)
        BY <1>2, <1>3, <1>4
    <2>3. Len(b.regions) < MaxAllocRegions =>
            \A j \in 1 .. i + 1 : Usable(map[j]) /\ FrameBounds(map[j]).end > until =>
               \E k \in 1 .. Len(b.regions) : RegionOf(b.regions[k], map[j], until)
        BY <1>2, <1>3, <1>4
    <2>4. QED
        BY <1>1, <1>4, <2>1, <2>2, <2>3 DEF RegionInv
<1>5. CASE /\ Usable(e) /\ Len(a.regions) < MaxAllocRegions
           /\ b \in Allocator /\ b.protectedUntil = until
           /\ b.usable = b.allocatable + b.skipped
           /\ \E r \in Range2 : /\ RegionOf(r, e, until)
                                /\ b.regions = Append(a.regions, r)
    <2>1. PICK r \in Range2 : RegionOf(r, e, until) /\ b.regions = Append(a.regions, r)
        BY <1>5
    <2> DEFINE n == Len(a.regions)
    <2>2. /\ Len(b.regions) = n + 1 /\ b.regions[n + 1] = r
          /\ \A k \in 1 .. n : b.regions[k] = a.regions[k]
        BY <1>1, <2>1
    <2>3. /\ n \in Nat /\ n + 1 \in 1 .. n + 1 /\ 1 .. n \subseteq 1 .. n + 1
          /\ \A k \in 1 .. n + 1 : k \in 1 .. n \/ k = n + 1
          /\ \A k \in 1 .. n : k < n + 1 /\ ~ (n + 1 < k)
          /\ n + 1 <= MaxAllocRegions /\ ~ (n + 1 < n + 1)
        BY <1>1, <1>5, FrameSizes
    <2> HIDE DEF n
    <2>9. n + 1 <= MaxAllocRegions
        BY <2>3
    <2>10. Len(b.regions) = n + 1
        BY <2>2
    <2>4. Len(b.regions) <= MaxAllocRegions
        BY <2>9, <2>10
    <2>5. ASSUME NEW k \in 1 .. n + 1 
          PROVE \E j \in 1 .. i + 1 : RegionOf(b.regions[k], map[j], until)
        <3>1. CASE k \in 1 .. n
            BY <1>2, <1>3, <2>2, <3>1 DEF n
        <3>2. CASE k = n + 1
            BY <1>3, <2>1, <2>2, <3>2
        <3>3. QED
            BY <2>3, <3>1, <3>2
    <2>6. ASSUME NEW k \in 1 .. n + 1, NEW l \in 1 .. n + 1, k < l
          PROVE  \E j, m \in 1 .. i + 1 : /\ j # m /\ RegionOf(b.regions[k], map[j], until)
                                          /\ RegionOf(b.regions[l], map[m], until)
        <3>1. k \in 1 .. n
            BY <2>3, <2>6
        <3>2. CASE l \in 1 .. n
            BY <1>2, <1>3, <2>2, <2>6, <3>1, <3>2 DEF n
        <3>3. CASE l = n + 1
            <4>1. PICK j \in 1 .. i : RegionOf(a.regions[k], map[j], until)
                BY <1>2, <3>1 DEF n
            <4>2. j \in 1 .. i + 1 /\ j # i + 1 /\ RegionOf(b.regions[k], map[j], until)
                BY <1>3, <2>2, <3>1, <4>1
            <4>3. RegionOf(b.regions[l], map[i + 1], until)
                BY <2>1, <2>2, <3>3
            <4>4. QED
                BY <1>3, <4>2, <4>3
        <3>4. QED
            BY <2>3, <3>2, <3>3
    <2>7. ASSUME NEW j \in 1 .. i + 1, Usable(map[j]), FrameBounds(map[j]).end > until
          PROVE  \E k \in 1 .. n + 1 : RegionOf(b.regions[k], map[j], until)
        <3>1. CASE j \in 1 .. i
            <4>1. PICK k \in 1 .. n : RegionOf(a.regions[k], map[j], until)
                BY <1>2, <1>5, <2>7, <3>1 DEF n
            <4>2. k \in 1 .. n + 1 /\ RegionOf(b.regions[k], map[j], until)
                BY <2>2, <2>3, <4>1
            <4>3. QED
                BY <4>2
        <3>2. CASE j = i + 1
            <4>1. RegionOf(b.regions[n + 1], map[j], until)
                BY <2>1, <2>2, <3>2
            <4>2. QED
                BY <2>3, <4>1
        <3>3. QED
            BY <1>3, <3>1, <3>2
    <2>11. ~ (Len(b.regions) < MaxAllocRegions) \/
           \A j \in 1 .. i + 1 : Usable(map[j]) /\ FrameBounds(map[j]).end > until =>
             \E k \in 1 .. n + 1 : RegionOf(b.regions[k], map[j], until)
        BY <2>7
    <2>8. QED
        BY ONLY <1>5, <2>10, <2>4, <2>5, <2>6, <2>11 DEF RegionInv
<1>6. QED
    <2>1. Len(a.regions) >= MaxAllocRegions => ~ (Len(a.regions) < MaxAllocRegions)
        BY <1>1, FrameSizes
    <2>2. FrameBounds(e).end <= until => ~ (FrameBounds(e).end > until)
        BY FrameBoundsFacts
    <2>3. QED
        BY <1>1, <1>4, <1>5, <2>1, <2>2 DEF EntryAdded

\* FrameAllocator::init: the loop over the memory map.
LEMMA DeriveSound ==
    ASSUME NEW map \in Seq(MapEntry), NEW until, Multiple(until)
    PROVE  RegionInv(DeriveRegions(map, until), map, until, Len(map))
<1> DEFINE n == Len(map)
           c == [NoRegions EXCEPT !.protectedUntil = until]
           D == {a \in Allocator : a.protectedUntil = until /\ a.usable = a.allocatable + a.skipped}
           Rec(f) == f = [i \in 0 .. n |-> IF i = 0 THEN c ELSE AddMemoryRegion(f[i - 1], map[i])]
           step == [z \in D \X (1 .. n) |-> AddMemoryRegion(z[1], map[z[2]])]
<1>1. n \in Nat /\ until \in Nat
    BY DEF Multiple
<1>2. \A i \in 1 .. n : map[i] \in MapEntry
    OBVIOUS
<1>3. DeriveRegions(map, until) = (CHOOSE h : Rec(h))[n]
    BY DEF DeriveRegions
<1>4. /\ c \in Allocator /\ c.protectedUntil = until /\ c.usable = 0 /\ c.allocatable = 0
      /\ c.skipped = 0 /\ c.regions = << >>
    <2>1. << >> \in Seq(Range2)
        OBVIOUS
    <2>2. c = [regions |-> << >>, usable |-> 0, allocatable |-> 0, skipped |-> 0,
               protectedUntil |-> until]
        BY DEF NoRegions
    <2> DEFINE none == << >>
    <2>3. c = [regions |-> none, usable |-> 0, allocatable |-> 0, skipped |-> 0,
               protectedUntil |-> until] /\ none \in Seq(Range2)
        BY <2>1, <2>2
    <2> HIDE DEF none, c
    <2>4. c \in Allocator
        BY <1>1, <2>3 DEF Allocator
    <2>5. /\ c.protectedUntil = until /\ c.usable = 0 /\ c.allocatable = 0
          /\ c.skipped = 0 /\ c.regions = none
        BY <2>3
    <2>6. QED
        BY <2>4, <2>5 DEF none
<1> HIDE DEF c, n
<1>5. c \in D
    BY <1>4
<1>6. ASSUME NEW x \in D, NEW i \in 1 .. n
      PROVE  AddMemoryRegion(x, map[i]) \in D /\ EntryAdded(x, map[i], AddMemoryRegion(x, map[i]))
    <2> DEFINE b == AddMemoryRegion(x, map[i])
    <2>1. EntryAdded(x, map[i], b)
        BY <1>2, AddMemoryRegionAdds
    <2> HIDE DEF b
    <2>2. b \in D
        BY <2>1 DEF EntryAdded
    <2>3. QED
        BY <2>1, <2>2 DEF b
<1> HIDE DEF D
<1>9. /\ step \in [D \X (1 .. n) -> D]
      /\ \A x \in D, i \in 1 .. n : step[<<x, i>>] = AddMemoryRegion(x, map[i])
    BY <1>6
<1> HIDE DEF step
<1>10. IsStep(step, n, D)
    BY <1>9 DEF IsStep
<1>11. PICK f : IsRun(f, n, D, c, step)
    BY <1>1, <1>5, <1>10, RunExists
<1>12. f \in [0 .. n -> D] /\ f[0] = c /\ \A i \in 1 .. n : f[i] = step[<<f[i - 1], i>>]
    BY <1>11 DEF IsRun
<1>13. ASSUME NEW i \in 1 .. n PROVE f[i] = AddMemoryRegion(f[i - 1], map[i])
    <2>1. i - 1 \in 0 .. n
        BY <1>1
    <2>2. QED
        BY <1>9, <1>12, <2>1
<1>14. Rec(f)
    <2>1. \A i \in 0 .. n : f[i] = IF i = 0 THEN c ELSE AddMemoryRegion(f[i - 1], map[i])
        BY <1>1, <1>12, <1>13
    <2>2. QED
        BY <1>12, <2>1
<1> DEFINE g == CHOOSE h : Rec(h)
<1>15. Rec(g)
    BY <1>14
<1> HIDE DEF g
<1>20. g[0] = c /\ \A i \in 1 .. n : g[i] = AddMemoryRegion(g[i - 1], map[i])
    BY <1>1, <1>15
<1>16. IsRun(g, n, D, c, step)
    <2>1. g = [i \in 0 .. n |-> g[i]]
        BY <1>15
    <2>3. \A i \in 1 .. n : g[i - 1] \in D => g[i] = step[<<g[i - 1], i>>]
        BY <1>9, <1>20
    <2>4. QED
        BY <1>1, <1>5, <1>10, <1>20, <2>1, <2>3, RunInside
<1>17. \A i \in 0 .. n : g[i] \in D
    BY <1>1, <1>16 DEF IsRun
<1> DEFINE S == {i \in 0 .. n : RegionInv(g[i], map, until, i)}
<1>18. 0 \in S
    <2>1. Len(<< >>) = 0 /\ 1 .. 0 = {}
        OBVIOUS
    <2>2. RegionInv(c, map, until, 0)
        BY <1>4, <2>1, FrameSizes DEF RegionInv
    <2>3. QED
        BY <1>1, <1>20, <2>2
<1>19. ASSUME NEW i \in 0 .. n - 1, i \in S PROVE i + 1 \in S
    <2>1. i \in Nat /\ i \in 0 .. n /\ i + 1 \in 1 .. n /\ i + 1 \in 0 .. n /\ (i + 1) - 1 = i
        BY <1>1
    <2>2. g[i + 1] = AddMemoryRegion(g[i], map[i + 1])
        BY <1>20, <2>1
    <2>3. EntryAdded(g[i], map[i + 1], g[i + 1])
        BY <1>6, <1>17, <2>1, <2>2
    <2>4. RegionInv(g[i], map, until, i) /\ map[i + 1] \in MapEntry
        BY <1>2, <1>19, <2>1
    <2>5. RegionInv(g[i + 1], map, until, i + 1)
        BY <1>1, <2>1, <2>3, <2>4, RegionStep
    <2>6. QED
        BY <2>1, <2>5
<1>21. n \in S
    <2> HIDE DEF S
    <2>1. 0 .. n \subseteq S
        BY <1>1, <1>18, <1>19, InductionUpTo
    <2>2. QED
        BY <1>1, <2>1
<1>22. QED
    BY <1>3, <1>21 DEF g, n

\* Region r, derived from entry e: whole frames of e above the protected memory.
LEMMA RegionOfFacts ==
    ASSUME NEW e \in MapEntry, NEW until, Multiple(until), NEW r \in Range2, RegionOf(r, e, until)
    PROVE  /\ Multiple(r.start) /\ Multiple(r.end) /\ r.start < r.end /\ r.start >= until
           /\ e.available /\ e.base <= r.start /\ r.end <= End(e)
           /\ r.end + FrameSize <= MaxAddr + 1
<1> DEFINE x == FrameBounds(e).start
           y == FrameBounds(e).end
<1>1. /\ Multiple(x) /\ Multiple(y) /\ x \in Nat /\ y \in Nat
      /\ y <= End(e) /\ y + FrameSize <= MaxAddr + 1
      /\ x < y => e.base <= x
    BY FrameBoundsFacts
<1>2. /\ e.available /\ x < y /\ y > until /\ r.end = y
      /\ r.start = (IF x > until THEN x ELSE until)
    BY <1>1 DEF RegionOf, Usable
<1>3. until \in Nat /\ r.start \in Nat /\ r.end \in Nat /\ e.base \in Nat
    BY MapEntryTypes DEF Multiple, Range2
<1> HIDE DEF x, y
<1>4. Multiple(r.start) /\ Multiple(r.end)
    BY <1>1, <1>2
<1>5. QED
    BY <1>1, <1>2, <1>3, <1>4

\* The frames of a region that is made of whole frames.
LEMMA FrameStartsAre ==
    ASSUME NEW r \in Range2, Multiple(r.start), Multiple(r.end), NEW a
    PROVE  a \in FrameStarts(r) <=> Multiple(a) /\ r.start <= a /\ a + FrameSize <= r.end
<1> DEFINE i == r.start \div FrameSize
           j == r.end \div FrameSize
<1>1. i \in Nat /\ j \in Nat
    BY MultipleIs
<1>2. ASSUME a \in FrameStarts(r)
      PROVE  Multiple(a) /\ r.start <= a /\ a + FrameSize <= r.end
    <2>1. PICK f \in i .. j - 1 : a = f * FrameSize
        BY <1>2 DEF FrameStarts
    <2> HIDE DEF i, j
    <2>2. f \in Nat /\ i <= f /\ f < j
        BY <1>1, <2>1
    <2>3. Multiple(a) /\ a \div FrameSize = f
        BY <2>1, <2>2, IsMultiple
    <2>4. ~ (f < i)
        BY <1>1, <2>2
    <2>5. ~ (a < r.start)
        BY <2>3, <2>4, MultipleGap DEF i
    <2>6. a < r.end
        BY <2>2, <2>3, MultipleGap DEF j
    <2>7. a + FrameSize <= r.end
        BY <2>3, <2>6, MultipleGap
    <2>8. a \in Nat /\ r.start \in Nat
        BY <2>3 DEF Multiple
    <2>9. QED
        BY <2>3, <2>5, <2>7, <2>8
<1>3. ASSUME Multiple(a), r.start <= a, a + FrameSize <= r.end
      PROVE  a \in FrameStarts(r)
    <2> DEFINE f == a \div FrameSize
    <2>0. a \in Nat /\ r.start \in Nat /\ r.end \in Nat
        BY <1>3 DEF Multiple
    <2>1. f \in Nat /\ a = FrameSize * f
        BY <1>3, MultipleIs
    <2>2. a < r.end /\ ~ (a < r.start)
        BY <1>3, <2>0, FrameSizes
    <2>3. f < j
        BY <1>3, <2>2, MultipleGap
    <2>4. ~ (f < i)
        BY <1>3, <2>2, MultipleGap
    <2>5. a = f * FrameSize
        <3> HIDE DEF f
        <3>1. QED
            BY <2>1, FrameSizes
    <2> HIDE DEF f, i, j
    <2>6. f \in i .. j - 1
        BY <1>1, <2>1, <2>3, <2>4
    <2>7. QED
        BY <2>5, <2>6 DEF FrameStarts, i, j
<1>4. QED
    BY <1>2, <1>3

LEMMA TwoElements ==
    ASSUME NEW S, IsFiniteSet(S), NEW x \in S, NEW y \in S, x # y
    PROVE  Cardinality(S) > 1
<1>1. IsFiniteSet({x}) /\ Cardinality({x}) = 1
    BY FS_Singleton
<1>2. {x} \cup {y} = {x, y} /\ y \notin {x}
    OBVIOUS
<1>3. IsFiniteSet({x, y}) /\ Cardinality({x, y}) = 2
    BY <1>1, <1>2, FS_AddElement
<1>4. Cardinality({x, y}) <= Cardinality(S) /\ Cardinality(S) \in Nat
    BY FS_Subset, FS_CardinalityType
<1>5. QED
    BY <1>3, <1>4

\* The entries of the map that hold the frame at a.
Within(map, a) ==
    {i \in {k \in DOMAIN map : map[k].available} :
        map[i].base <= a /\ a + FrameSize <= End(map[i])}

LEMMA InEntry ==
    ASSUME NEW map \in Seq(MapEntry), NEW i \in 1 .. Len(map), NEW until, Multiple(until),
           NEW r \in Range2, RegionOf(r, map[i], until), NEW a \in FrameStarts(r)
    PROVE  i \in Within(map, a)
<1> DEFINE e == map[i]
<1>1. e \in MapEntry
    OBVIOUS
<1>2. e.base \in Nat /\ End(e) \in Nat
    BY <1>1, MapEntryTypes
<1>3. /\ Multiple(r.start) /\ Multiple(r.end) /\ e.available /\ e.base <= r.start
      /\ r.end <= End(e)
    BY <1>1, RegionOfFacts
<1>4. Multiple(a) /\ r.start <= a /\ a + FrameSize <= r.end
    BY <1>3, FrameStartsAre
<1> HIDE DEF e
<1>5. e.base <= a /\ a + FrameSize <= End(e)
    <2>1. a \in Nat /\ r.start \in Nat /\ r.end \in Nat /\ FrameSize \in Nat
        BY <1>3, <1>4, FrameSizes DEF Multiple
    <2>2. QED
        BY <1>2, <1>3, <1>4, <2>1
<1>6. i \in DOMAIN map
    OBVIOUS
<1>7. QED
    BY <1>3, <1>5, <1>6 DEF Within, e

\* A frame of an available entry above the protected memory is in what
\* add_memory_region makes of the entry.
LEMMA EntryHoldsFrame ==
    ASSUME NEW e \in MapEntry, NEW until, Multiple(until), NEW a, Multiple(a), a <= MaxAddr,
           e.available, e.base <= a, a + FrameSize <= End(e), a >= until
    PROVE  /\ Usable(e) /\ FrameBounds(e).end > until
           /\ \A r \in Range2 : RegionOf(r, e, until) => a \in FrameStarts(r)
<1> DEFINE x == FrameBounds(e).start
           y == FrameBounds(e).end
<1>1. /\ e.base \in Nat /\ e.length \in Nat /\ End(e) \in Nat /\ End(e) <= e.base + e.length
    BY MapEntryTypes
<1>2. a \in Nat /\ until \in Nat
    BY DEF Multiple
<1>3. x = AlignUp(e.base) /\ y = AlignDown(End(e)) /\ x \in Nat /\ y \in Nat
    BY FrameBoundsFacts
<1>4. x <= a
    BY <1>1, <1>2, <1>3, AlignUpIs
<1>5. Multiple(a + FrameSize)
    <2> DEFINE f == a \div FrameSize
    <2>1. f \in Nat /\ a = FrameSize * f
        BY MultipleIs
    <2> HIDE DEF f
    <2>2. a + FrameSize = FrameSize * (f + 1) /\ f + 1 \in Nat
        BY <2>1, FrameSizes
    <2>3. QED
        BY <2>2, IsMultiple
<1>6. a + FrameSize <= y
    BY <1>1, <1>3, <1>5, AlignDownFacts
<1>7. e.length >= FrameSize
    BY <1>1, <1>2, FrameSizes
<1>8. y > x /\ y > until
    BY <1>2, <1>3, <1>4, <1>6, FrameSizes
<1>9. Usable(e)
    BY <1>7, <1>8 DEF Usable
<1>10. ASSUME NEW r \in Range2, RegionOf(r, e, until) PROVE a \in FrameStarts(r)
    <2>1. r.end = y /\ r.start = (IF x > until THEN x ELSE until)
        BY <1>10 DEF RegionOf
    <2>2. Multiple(r.start) /\ Multiple(r.end)
        BY <1>10, RegionOfFacts
    <2>3. r.start <= a
        BY <1>2, <1>3, <1>4, <2>1
    <2>4. QED
        BY <1>6, <2>1, <2>2, <2>3, FrameStartsAre
<1>11. QED
    BY <1>8, <1>9, <1>10

\* FrameAllocator::init: what the memory below protectedUntil holds.
LEMMA ProtectedUntilFacts ==
    ASSUME NEW k \in Nat, NEW s \in Summary
    PROVE  /\ Multiple(ProtectedUntil(k, s))
           /\ ProtectedUntil(k, s) >= AlignUp(k)
           /\ ProtectedUntil(k, s) >= AlignUp(s.highestModuleEnd)
           /\ s.address # 0 /\ s.totalSize # 0 =>
                 ProtectedUntil(k, s) >= AlignUp(SaturatingAdd(s.address, s.totalSize))
<1> DEFINE z == SaturatingAdd(s.address, s.totalSize)
           u == AlignUp(k)
           v == AlignUp(s.highestModuleEnd)
           w == IF s.address # 0 /\ s.totalSize # 0 THEN AlignUp(z) ELSE 0
           p == ProtectedUntil(k, s)
<1>1. s.address \in Nat /\ s.totalSize \in Nat /\ s.highestModuleEnd \in Nat
    BY SummaryTypes
<1>2. z \in Nat
    BY <1>1, SaturatingAddFacts
<1>3. Multiple(u) /\ Multiple(v) /\ Multiple(AlignUp(z)) /\ Multiple(MinAllocAddr)
    BY <1>1, <1>2, AlignUpIs, BootAssumption DEF Multiple
<1>4. Multiple(0)
    BY FrameSizes DEF Multiple
<1>5. Multiple(w)
    BY <1>3, <1>4
<1>6. p = Later(Later(Later(u, MinAllocAddr), w), v)
    BY DEF ProtectedUntil
<1>7. s.address # 0 /\ s.totalSize # 0 => w = AlignUp(z)
    OBVIOUS
<1> HIDE DEF z, u, v, w, p
<1>8. u \in Nat /\ v \in Nat /\ w \in Nat /\ MinAllocAddr \in Nat
    BY <1>3, <1>5 DEF Multiple
<1>9. p >= u /\ p >= v /\ p >= w /\ p \in {u, v, w, MinAllocAddr}
    BY <1>6, <1>8 DEF Later
<1>10. Multiple(p)
    BY <1>3, <1>5, <1>9
<1>11. QED
    BY <1>7, <1>9, <1>10 DEF z, u, v, p

\* A frame that is not the last one and not below AlignUp(k) is not below k.
LEMMA AboveAligned ==
    ASSUME NEW x, Multiple(x), NEW k \in Nat, x >= AlignUp(k),
           x + FrameSize + FrameSize <= MaxAddr + 1
    PROVE  x >= k
<1> DEFINE u == AlignUp(k)
<1>1. u >= k \/ u + FrameSize = MaxAddr + 1
    BY AlignUpIs
<1>2. Multiple(u)
    BY AlignUpIs
<1>3. u \in Nat /\ x \in Nat
    BY <1>2 DEF Multiple
<1> HIDE DEF u
<1>4. QED
    BY <1>1, <1>3, FrameSizes DEF u

BootPhases == {"multiboot", "initramfs", "physmem", "elf", "booted"}

\* initramfs::init, as a function of what it reads.
ArchiveOf(s) ==
    LET module == FindModule(s, "initramfs")
        parsed == ParseArchive(ArchiveBytes(module[1]))
    IN IF module = <<>> THEN NoArchive
       ELSE IF ArchiveBytes(module[1]).len > MaxArchiveSize
       THEN [NoArchive EXCEPT !.module = module]
       ELSE [valid |-> parsed.valid, initSize |-> parsed.initSize, module |-> module]

\* What each part of the boot finds of the parts before it.
BootInv ==
    /\ machine \in Machines /\ phase \in BootPhases
    /\ phase # "multiboot" => summary = Parse(machine.info)
    /\ phase \in {"physmem", "elf", "booted"} => archive = ArchiveOf(summary)
    /\ Allocating => frames = DeriveRegions(summary.regions,
                                            ProtectedUntil(machine.kernelEnd, summary))
    /\ phase = "booted" => plan = IF InitFile = {} THEN NoPlan
                                  ELSE ValidateImage(ImageBytes(CHOOSE f \in InitFile : TRUE))

LEMMA BootInductive == Spec => []BootInv
<1>1. Init => BootInv
    BY DEF Init, BootInv, BootPhases, Allocating
<1>2. BootInv /\ [Next]_vars => BootInv'
    <2> SUFFICES ASSUME BootInv, [Next]_vars PROVE BootInv'
        OBVIOUS
    <2>1. CASE MultibootInit
        BY <2>1 DEF MultibootInit, BootInv, BootPhases, Allocating
    <2>2. CASE InitramfsInit
        <3>1. phase = "initramfs" /\ summary = Parse(machine.info)
            BY <2>2 DEF InitramfsInit, BootInv
        <3>2. archive' = ArchiveOf(summary) /\ phase' = "physmem"
            BY <2>2 DEF InitramfsInit, ArchiveOf
        <3>3. UNCHANGED <<machine, summary, frames, plan>>
            BY <2>2 DEF InitramfsInit
        <3>4. ArchiveOf(summary)' = ArchiveOf(summary)
            BY <3>3 DEF ArchiveOf, ArchiveBytes
        <3>5. QED
            BY <3>1, <3>2, <3>3, <3>4 DEF BootInv, BootPhases, Allocating
    <2>3. CASE PhysmemInit
        <3>1. ArchiveOf(summary)' = ArchiveOf(summary)
            BY <2>3 DEF PhysmemInit, ArchiveOf, ArchiveBytes
        <3>2. QED
            BY <2>3, <3>1 DEF PhysmemInit, BootInv, BootPhases, Allocating
    <2>4. CASE ElfInit
        <3>1. ArchiveOf(summary)' = ArchiveOf(summary)
            BY <2>4 DEF ElfInit, ArchiveOf, ArchiveBytes
        <3>2. InitFile' = InitFile
            BY <2>4 DEF ElfInit, InitFile, ArchiveBytes
        <3>3. \A f : ImageBytes(f)' = ImageBytes(f)
            BY <2>4 DEF ElfInit, ImageBytes
        <3>4. QED
            BY <2>4, <3>1, <3>2, <3>3 DEF ElfInit, BootInv, BootPhases, Allocating
    <2>5. CASE UNCHANGED vars
        <3>1. ArchiveOf(summary)' = ArchiveOf(summary)
            BY <2>5 DEF vars, ArchiveOf, ArchiveBytes
        <3>2. InitFile' = InitFile
            BY <2>5 DEF vars, InitFile, ArchiveBytes
        <3>3. \A f : ImageBytes(f)' = ImageBytes(f)
            BY <2>5 DEF vars, ImageBytes
        <3>4. QED
            BY <2>5, <3>1, <3>2, <3>3 DEF vars, BootInv, BootPhases, Allocating
    <2>6. QED
        BY <2>1, <2>2, <2>3, <2>4, <2>5 DEF Next
<1>3. QED
    BY <1>1, <1>2, PTL DEF Spec

\* What physmem::init has read when the allocator is ready.
LEMMA AllocatorReady ==
    ASSUME BootInv, Allocating
    PROVE  /\ machine \in MachineType /\ ParsedOk(machine.info, summary)
           /\ summary \in Summary /\ summary.regions \in Seq(MapEntry)
           /\ machine.kernelEnd \in Nat
           /\ Multiple(frames.protectedUntil)
           /\ frames.protectedUntil = ProtectedUntil(machine.kernelEnd, summary)
           /\ RegionInv(frames, summary.regions, frames.protectedUntil, Len(summary.regions))
<1> DEFINE until == ProtectedUntil(machine.kernelEnd, summary)
<1>1. machine \in MachineType
    BY MachinesAssumption DEF BootInv
<1>2. machine.info \in BootInfo /\ machine.kernelEnd \in Nat
    BY <1>1 DEF MachineType
<1>3. summary = Parse(machine.info)
    BY DEF BootInv, Allocating
<1>4. ParsedOk(machine.info, summary)
    BY <1>2, <1>3, ParseSound
<1>5. summary \in Summary
    BY <1>4 DEF ParsedOk
<1>6. summary.regions \in Seq(MapEntry)
    BY <1>5, SummaryTypes
<1>7. Multiple(until)
    BY <1>2, <1>5, ProtectedUntilFacts
<1>8. frames = DeriveRegions(summary.regions, until)
    BY DEF BootInv
<1> HIDE DEF until
<1>9. RegionInv(frames, summary.regions, until, Len(summary.regions))
    BY <1>6, <1>7, <1>8, DeriveSound
<1>10. frames.protectedUntil = until
    BY <1>9 DEF RegionInv
<1>11. QED
    BY <1>1, <1>2, <1>4, <1>5, <1>6, <1>7, <1>9, <1>10 DEF until

\* The regions of the frame allocator, each with the entry it comes from.
LEMMA RegionFacts ==
    ASSUME BootInv, Allocating
    PROVE  /\ frames.regions \in Seq(Range2) /\ Len(frames.regions) \in Nat
           /\ \A k \in 1 .. Len(frames.regions) :
                 /\ frames.regions[k] \in Range2
                 /\ Multiple(frames.regions[k].start) /\ Multiple(frames.regions[k].end)
                 /\ frames.regions[k].start < frames.regions[k].end
                 /\ frames.regions[k].start >= frames.protectedUntil
                 /\ frames.regions[k].end + FrameSize <= MaxAddr + 1
                 /\ \E i \in 1 .. Len(summary.regions) :
                       /\ summary.regions[i].available
                       /\ summary.regions[i].base <= frames.regions[k].start
                       /\ frames.regions[k].end <= End(summary.regions[i])
<1> DEFINE map == summary.regions
           until == frames.protectedUntil
<1>1. Multiple(until) /\ RegionInv(frames, map, until, Len(map)) /\ map \in Seq(MapEntry)
    BY AllocatorReady
<1>2. /\ frames \in Allocator
      /\ \A k \in 1 .. Len(frames.regions) : \E j \in 1 .. Len(map) :
            RegionOf(frames.regions[k], map[j], until)
    BY <1>1 DEF RegionInv
<1>3. frames.regions \in Seq(Range2)
    BY <1>2, AllocatorTypes
<1> HIDE DEF map, until
<1>4. ASSUME NEW k \in 1 .. Len(frames.regions)
      PROVE  /\ frames.regions[k] \in Range2
             /\ Multiple(frames.regions[k].start) /\ Multiple(frames.regions[k].end)
             /\ frames.regions[k].start < frames.regions[k].end
             /\ frames.regions[k].start >= until
             /\ frames.regions[k].end + FrameSize <= MaxAddr + 1
             /\ \E i \in 1 .. Len(map) :
                   /\ map[i].available /\ map[i].base <= frames.regions[k].start
                   /\ frames.regions[k].end <= End(map[i])
    <2> DEFINE r == frames.regions[k]
    <2>1. r \in Range2
        BY <1>3
    <2>2. PICK j \in 1 .. Len(map) : RegionOf(r, map[j], until)
        BY <1>2
    <2>3. map[j] \in MapEntry
        BY <1>1
    <2> HIDE DEF r
    <2>4. /\ Multiple(r.start) /\ Multiple(r.end) /\ r.start < r.end /\ r.start >= until
          /\ map[j].available /\ map[j].base <= r.start /\ r.end <= End(map[j])
          /\ r.end + FrameSize <= MaxAddr + 1
        BY <1>1, <2>1, <2>2, <2>3, RegionOfFacts
    <2>5. QED
        BY <2>1, <2>4 DEF r
<1>5. QED
    BY <1>3, <1>4 DEF map, until

\* The regions of the frame allocator are whole frames of available memory
\* above what is protected, none twice unless the map says so, and all of
\* them if there is room, for every memory map (FrameAllocator::init).
THEOREM RegionsAreSound == Spec => []RegionsSound
<1>1. BootInv => RegionsSound
    <2> SUFFICES ASSUME BootInv, Allocating PROVE RegionsSound
        BY DEF RegionsSound
    <2> DEFINE map == summary.regions
               rs == frames.regions
               until == frames.protectedUntil
    <2>1. Multiple(until) /\ RegionInv(frames, map, until, Len(map)) /\ map \in Seq(MapEntry)
        BY AllocatorReady
    <2>2. rs \in Seq(Range2) /\ Len(rs) \in Nat /\ DOMAIN rs = 1 .. Len(rs)
          /\ DOMAIN map = 1 .. Len(map)
        BY <2>1, RegionFacts
    <2>3. /\ Len(rs) <= MaxAllocRegions /\ frames.usable = frames.allocatable + frames.skipped
          /\ \A k, l \in 1 .. Len(rs) : k < l => \E j, m \in 1 .. Len(map) :
                j # m /\ RegionOf(rs[k], map[j], until) /\ RegionOf(rs[l], map[m], until)
          /\ Len(rs) < MaxAllocRegions =>
                \A j \in 1 .. Len(map) : Usable(map[j]) /\ FrameBounds(map[j]).end > until =>
                   \E k \in 1 .. Len(rs) : RegionOf(rs[k], map[j], until)
        BY <2>1 DEF RegionInv
    <2>4. ASSUME NEW r \in Regions
          PROVE  /\ r.start % FrameSize = 0 /\ r.end % FrameSize = 0 /\ r.start < r.end
                 /\ r.start >= until
                 /\ \E i \in {k \in DOMAIN map : map[k].available} :
                       map[i].base <= r.start /\ r.end <= End(map[i])
        <3>1. PICK k \in 1 .. Len(rs) : r = rs[k]
            BY <2>2 DEF Regions
        <3>2. /\ Multiple(r.start) /\ Multiple(r.end) /\ r.start < r.end /\ r.start >= until
              /\ \E i \in 1 .. Len(map) : /\ map[i].available /\ map[i].base <= r.start
                                          /\ r.end <= End(map[i])
            BY <3>1, RegionFacts
        <3>3. QED
            BY <2>2, <3>2 DEF Multiple
    <2>5. ASSUME NEW k \in DOMAIN rs, NEW l \in DOMAIN rs, k < l,
                 NEW a \in FrameStarts(rs[k]) \cap FrameStarts(rs[l])
          PROVE  Cardinality(Within(map, a)) > 1
        <3>1. PICK j \in 1 .. Len(map), m \in 1 .. Len(map) :
                 j # m /\ RegionOf(rs[k], map[j], until) /\ RegionOf(rs[l], map[m], until)
            BY <2>2, <2>3, <2>5
        <3>2. rs[k] \in Range2 /\ rs[l] \in Range2
            BY <2>2
        <3> HIDE DEF map, rs, until
        <3>3. j \in Within(map, a) /\ m \in Within(map, a)
            BY <2>1, <2>5, <3>1, <3>2, InEntry
        <3>4. Within(map, a) \subseteq 1 .. Len(map) /\ Len(map) \in Nat
            BY <2>1, <2>2 DEF Within
        <3>5. IsFiniteSet(Within(map, a))
            <4>1. IsFiniteSet(1 .. Len(map))
                BY <3>4, FS_Interval
            <4>2. QED
                BY <3>4, <4>1, FS_Subset
        <3>6. QED
            BY <3>1, <3>3, <3>5, TwoElements
    <2>6. ASSUME Len(rs) < MaxAllocRegions,
                 NEW a \in {f * FrameSize : f \in 0 .. MaxAddr \div FrameSize},
                 a >= until, Within(map, a) # {}
          PROVE  \E r \in Regions : a \in FrameStarts(r)
        <3> DEFINE q == MaxAddr \div FrameSize
        <3>1. PICK f \in 0 .. q : a = f * FrameSize
            BY <2>6
        <3>2. q \in Nat /\ FrameSize * q <= MaxAddr
            BY DivMod, FrameSizes
        <3> HIDE DEF q
        <3>3. f \in Nat /\ f <= q /\ a = FrameSize * f
            BY <3>1, <3>2, IsMultiple
        <3>4. Multiple(a)
            BY <3>3, IsMultiple
        <3>5. a <= MaxAddr
            <4>1. f = q \/ f < q
                BY <3>2, <3>3
            <4>2. f < q => FrameSize * f < FrameSize * q
                BY <3>2, <3>3, TimesMonotone, FrameSizes
            <4>3. FrameSize * f \in Nat /\ FrameSize * q \in Nat
                BY <3>2, <3>3, TimesMonotone, FrameSizes
            <4>4. QED
                BY <3>2, <3>3, <4>1, <4>2, <4>3, FrameSizes
        <3>6. PICK i \in Within(map, a) : TRUE
            BY <2>6
        <3>7. /\ i \in 1 .. Len(map) /\ map[i].available /\ map[i].base <= a
              /\ a + FrameSize <= End(map[i])
            BY <2>2, <3>6 DEF Within
        <3>8. map[i] \in MapEntry
            BY <2>1, <3>7
        <3>9. /\ Usable(map[i]) /\ FrameBounds(map[i]).end > until
              /\ \A r \in Range2 : RegionOf(r, map[i], until) => a \in FrameStarts(r)
            BY <2>1, <2>6, <3>4, <3>5, <3>7, <3>8, EntryHoldsFrame
        <3>10. PICK k \in 1 .. Len(rs) : RegionOf(rs[k], map[i], until)
            BY <2>3, <2>6, <3>7, <3>9
        <3>11. rs[k] \in Regions /\ rs[k] \in Range2
            BY <2>2 DEF Regions
        <3>12. QED
            BY <3>9, <3>10, <3>11
    <2>7. QED
        BY <2>3, <2>4, <2>5, <2>6 DEF RegionsSound, Within
<1>2. QED
    BY <1>1, BootInductive, PTL

-----------------------------------------------------------------------------
(* The archive: offsets of the entries.                                    *)

LEMMA AlignUp4Facts ==
    ASSUME NEW n \in Nat
    PROVE  AlignUp4(n) \in Nat /\ AlignUp4(n) >= n /\ AlignUp4(n) < n + 4 /\ AlignUp4(n) % 4 = 0
    BY DEF AlignUp4

LEMMA EntryTypes ==
    ASSUME NEW e \in ArchiveEntry
    PROVE  e.sound \in BOOLEAN /\ e.nameSize \in Nat /\ e.size \in Nat
    BY DEF ArchiveEntry

LEMMA EntryOffsetFacts ==
    ASSUME NEW e \in ArchiveEntry, NEW x \in Nat
    PROVE  /\ DataStart(e, x) \in Nat /\ DataStart(e, x) >= x + HeaderSize
           /\ NextOffset(e, x) \in Nat /\ NextOffset(e, x) >= DataStart(e, x) + e.size
<1>1. e.nameSize \in Nat /\ e.size \in Nat
    BY EntryTypes
<1>2. x + HeaderSize + e.nameSize \in Nat /\ x + HeaderSize + e.nameSize >= x + HeaderSize
    BY <1>1 DEF HeaderSize
<1> DEFINE d == DataStart(e, x)
<1>3. d \in Nat /\ d >= x + HeaderSize + e.nameSize
    BY <1>2, AlignUp4Facts DEF DataStart
<1>4. x + HeaderSize \in Nat
    BY DEF HeaderSize
<1> HIDE DEF d
<1>5. NextOffset(e, x) \in Nat /\ NextOffset(e, x) >= d + e.size
    BY <1>1, <1>3, AlignUp4Facts DEF NextOffset, d
<1>6. QED
    BY <1>1, <1>2, <1>3, <1>4, <1>5 DEF d

\* f[i] is the offset that the sizes of the first i entries lead to.
IsOffsets(f, es) ==
    /\ f \in [0 .. Len(es) -> Nat] /\ f[0] = 0
    /\ \A i \in 1 .. Len(es) : f[i] = NextOffset(es[i], f[i - 1])
    /\ \A i \in 0 .. Len(es) : EntryOffset(es, i + 1) = f[i]

LEMMA OffsetsExist ==
    ASSUME NEW es \in Seq(ArchiveEntry)
    PROVE  \E f : IsOffsets(f, es)
<1> DEFINE n == Len(es)
           step == [z \in Nat \X (1 .. n) |-> NextOffset(es[z[2]], z[1])]
<1>1. n \in Nat
    OBVIOUS
<1>2. ASSUME NEW j \in 1 .. n, NEW x \in Nat PROVE NextOffset(es[j], x) \in Nat
    <2>1. es[j] \in ArchiveEntry
        OBVIOUS
    <2>2. QED
        BY <2>1, EntryOffsetFacts
<1>3. /\ step \in [Nat \X (1 .. n) -> Nat]
      /\ \A x \in Nat, j \in 1 .. n : step[<<x, j>>] = NextOffset(es[j], x)
    BY <1>2
<1> HIDE DEF step, n
<1>4. IsStep(step, n, Nat)
    BY <1>3 DEF IsStep
<1>5. PICK f : IsRun(f, n, Nat, 0, step)
    BY <1>1, <1>4, RunExists
<1>6. f \in [0 .. n -> Nat] /\ f[0] = 0 /\ \A j \in 1 .. n : f[j] = step[<<f[j - 1], j>>]
    BY <1>5 DEF IsRun
<1>7. ASSUME NEW j \in 1 .. n PROVE f[j] = NextOffset(es[j], f[j - 1])
    <2>1. j - 1 \in 0 .. n
        BY <1>1
    <2>2. QED
        BY <1>3, <1>6, <2>1
<1>8. ASSUME NEW i \in 0 .. n PROVE EntryOffset(es, i + 1) = f[i]
    <2> DEFINE Rec(h) == h = [j \in 0 .. i |-> IF j = 0 THEN 0 ELSE NextOffset(es[j], h[j - 1])]
               r == [j \in 0 .. i |-> f[j]]
               g == CHOOSE h : Rec(h)
    <2>0. i \in Nat /\ (i + 1) - 1 = i /\ 0 .. i \subseteq 0 .. n
        BY <1>1
    <2>1. \A j \in 0 .. i : r[j] = f[j]
        OBVIOUS
    <2>2. r = [j \in 0 .. i |-> r[j]]
        OBVIOUS
    <2> HIDE DEF r
    <2>3. \A j \in 0 .. i : r[j] = IF j = 0 THEN 0 ELSE NextOffset(es[j], r[j - 1])
        <3> TAKE j \in 0 .. i
        <3>1. CASE j = 0
            BY <1>6, <2>1, <3>1
        <3>2. CASE j # 0
            <4>1. j \in 1 .. n /\ j - 1 \in 0 .. i
                BY <2>0, <3>2
            <4>2. QED
                BY <1>7, <2>1, <3>2, <4>1
        <3>3. QED
            BY <3>1, <3>2
    <2>4. Rec(r)
        BY <2>2, <2>3
    <2>5. Rec(g)
        BY <2>4
    <2>6. EntryOffset(es, i + 1) = g[i]
        BY <2>0 DEF EntryOffset
    <2> HIDE DEF g
    <2>7. \A j \in 0 .. i : g[j] = IF j = 0 THEN 0 ELSE NextOffset(es[j], g[j - 1])
        BY <2>5
    <2>8. g[0] = f[0]
        BY <1>6, <2>0, <2>7
    <2>9. ASSUME NEW j \in 0 .. i - 1, g[j] = f[j] PROVE g[j + 1] = f[j + 1]
        <3>1. j + 1 \in 0 .. i /\ j + 1 \in 1 .. n /\ j + 1 # 0 /\ (j + 1) - 1 = j
            BY <2>0
        <3>2. g[j + 1] = NextOffset(es[j + 1], g[j])
            BY <2>7, <3>1
        <3>3. QED
            BY <1>7, <2>9, <3>1, <3>2
    <2>10. g[i] = f[i]
        BY <2>0, <2>8, <2>9, RunsAgree
    <2>11. QED
        BY <2>6, <2>10
<1>9. QED
    BY <1>6, <1>7, <1>8 DEF IsOffsets, n

\* f[i] is where find's loop stands after i entries.
IsFindRun(f, a) ==
    /\ f \in [0 .. Len(a.entries) -> Nat \cup {-1}] /\ f[0] = 0
    /\ \A i \in 1 .. Len(a.entries) : f[i] = FindNext(a, a.entries[i], f[i - 1])
    /\ \A i \in 1 .. Len(a.entries) : FindOffset(a, i) = f[i - 1]

LEMMA FindRunExists ==
    ASSUME NEW a, a.entries \in Seq(ArchiveEntry)
    PROVE  \E f : IsFindRun(f, a)
<1> DEFINE es == a.entries
           n == Len(es)
           D == Nat \cup {-1}
           step == [z \in D \X (1 .. n) |-> FindNext(a, es[z[2]], z[1])]
<1>1. n \in Nat /\ 0 \in D
    OBVIOUS
<1>2. ASSUME NEW j \in 1 .. n, NEW x \in D PROVE FindNext(a, es[j], x) \in D
    <2>1. es[j] \in ArchiveEntry
        OBVIOUS
    <2>2. CASE x = -1
        BY <2>2 DEF FindNext
    <2>3. CASE x \in Nat
        BY <2>1, <2>3, EntryOffsetFacts DEF FindNext
    <2>4. QED
        BY <2>2, <2>3
<1> HIDE DEF D
<1>3. /\ step \in [D \X (1 .. n) -> D]
      /\ \A x \in D, j \in 1 .. n : step[<<x, j>>] = FindNext(a, es[j], x)
    BY <1>2
<1> HIDE DEF step, n
<1>4. IsStep(step, n, D)
    BY <1>3 DEF IsStep
<1>5. PICK f : IsRun(f, n, D, 0, step)
    BY <1>1, <1>4, RunExists
<1>6. f \in [0 .. n -> D] /\ f[0] = 0 /\ \A j \in 1 .. n : f[j] = step[<<f[j - 1], j>>]
    BY <1>5 DEF IsRun
<1>7. ASSUME NEW j \in 1 .. n PROVE f[j] = FindNext(a, es[j], f[j - 1])
    <2>1. j - 1 \in 0 .. n
        BY <1>1
    <2>2. QED
        BY <1>3, <1>6, <2>1
<1>8. ASSUME NEW k \in 1 .. n PROVE FindOffset(a, k) = f[k - 1]
    <2> DEFINE i == k - 1
               Rec(h) == h = [j \in 0 .. i |-> IF j = 0 THEN 0 ELSE FindNext(a, es[j], h[j - 1])]
               r == [j \in 0 .. i |-> f[j]]
               g == CHOOSE h : Rec(h)
    <2>0. i \in Nat /\ 0 .. i \subseteq 0 .. n
        BY <1>1
    <2>6. FindOffset(a, k) = g[i]
        BY <2>0 DEF FindOffset
    <2> HIDE DEF i
    <2>1. \A j \in 0 .. i : r[j] = f[j]
        OBVIOUS
    <2>2. r = [j \in 0 .. i |-> r[j]]
        OBVIOUS
    <2> HIDE DEF r
    <2>3. \A j \in 0 .. i : r[j] = IF j = 0 THEN 0 ELSE FindNext(a, es[j], r[j - 1])
        <3> TAKE j \in 0 .. i
        <3>1. CASE j = 0
            BY <1>6, <2>1, <3>1
        <3>2. CASE j # 0
            <4>1. j \in 1 .. n /\ j - 1 \in 0 .. i
                BY <2>0, <3>2
            <4>2. QED
                BY <1>7, <2>1, <3>2, <4>1
        <3>3. QED
            BY <3>1, <3>2
    <2>4. Rec(r)
        BY <2>2, <2>3
    <2>5. Rec(g)
        BY <2>4
    <2> HIDE DEF g
    <2>7. \A j \in 0 .. i : g[j] = IF j = 0 THEN 0 ELSE FindNext(a, es[j], g[j - 1])
        BY <2>5
    <2>8. g[0] = f[0]
        BY <1>6, <2>0, <2>7
    <2>9. ASSUME NEW j \in 0 .. i - 1, g[j] = f[j] PROVE g[j + 1] = f[j + 1]
        <3>1. j + 1 \in 0 .. i /\ j + 1 \in 1 .. n /\ j + 1 # 0 /\ (j + 1) - 1 = j
            BY <2>0
        <3>2. g[j + 1] = FindNext(a, es[j + 1], g[j])
            BY <2>7, <3>1
        <3>3. QED
            BY <1>7, <2>9, <3>1, <3>2
    <2>10. g[i] = f[i]
        BY <2>0, <2>8, <2>9, RunsAgree
    <2>11. QED
        BY <2>6, <2>10 DEF i
<1>9. QED
    BY <1>6, <1>7, <1>8 DEF IsFindRun, n, D

\* What find returns is the data of an entry of that name, in the archive.
LEMMA FindInside ==
    ASSUME NEW a, a.entries \in Seq(ArchiveEntry), a.len \in Nat, NEW state, NEW path,
           NEW file \in Find(a, state, path)
    PROVE  /\ state.valid /\ file = [start |-> file.start, end |-> file.end]
           /\ file.start \in Nat /\ file.end \in Nat /\ file.start <= file.end /\ file.end <= a.len
           /\ \E i \in Compared(a) : /\ a.entries[i].name = path
                                     /\ file.end - file.start = a.entries[i].size
                                     /\ file.start = DataStart(a.entries[i], FindOffset(a, i))
                                     /\ \A j \in Compared(a) : a.entries[j].name = path => i <= j
<1> DEFINE hits == {i \in Compared(a) : a.entries[i].name = path}
           k == CHOOSE i \in hits : \A j \in hits : i <= j
           e == a.entries[k]
           start == DataStart(e, FindOffset(a, k))
<1>1. state.valid /\ hits # {} /\ file = [start |-> start, end |-> start + e.size]
    BY DEF Find
<1>2. hits \in SUBSET Nat
    BY DEF Compared
<1>3. \E i \in hits : \A j \in hits : i <= j
    <2> HIDE DEF hits
    <2>1. QED
        BY <1>1, <1>2, LeastNatural
<1>4. k \in hits /\ \A j \in hits : k <= j
    BY <1>3
<1>5. k \in Compared(a) /\ e.name = path
    BY <1>4
<1>6. /\ k \in 1 .. Len(a.entries) /\ FindOffset(a, k) # -1 /\ EntryOk(e, FindOffset(a, k), a.len)
    BY <1>5 DEF Compared
<1> HIDE DEF k
<1>7. FindOffset(a, k) \in Nat
    <2>1. PICK f : IsFindRun(f, a)
        BY FindRunExists
    <2>2. FindOffset(a, k) = f[k - 1] /\ k - 1 \in 0 .. Len(a.entries)
        BY <1>6, <2>1 DEF IsFindRun
    <2>3. f[k - 1] \in Nat \cup {-1}
        BY <2>1, <2>2 DEF IsFindRun
    <2>4. QED
        BY <1>6, <2>2, <2>3
<1>8. e \in ArchiveEntry
    BY <1>6
<1>9. e.size \in Nat /\ start \in Nat /\ NextOffset(e, FindOffset(a, k)) >= start + e.size
      /\ NextOffset(e, FindOffset(a, k)) \in Nat
    BY <1>7, <1>8, EntryTypes, EntryOffsetFacts
<1>10. NextOffset(e, FindOffset(a, k)) <= a.len
    BY <1>6 DEF EntryOk
<1>11. \A j \in Compared(a) : a.entries[j].name = path => k <= j
    BY <1>4
<1> DEFINE x == NextOffset(e, FindOffset(a, k))
           z == e.size
<1>12. x >= start + z /\ x \in Nat /\ x <= a.len /\ z \in Nat
    BY <1>9, <1>10
<1> HIDE DEF start, x, z
<1>13. /\ file.start = start /\ file.end = start + z
       /\ file = [start |-> file.start, end |-> file.end]
    BY <1>1 DEF z
<1>14. file.start \in Nat /\ file.end \in Nat /\ file.start <= file.end /\ file.end <= a.len
    BY <1>9, <1>12, <1>13
<1>15. file.end - file.start = z
    BY <1>9, <1>12, <1>13
<1>16. QED
    BY <1>1, <1>5, <1>11, <1>13, <1>14, <1>15 DEF start, z

\* find_module returns a stored module.
LEMMA FoundModule ==
    ASSUME NEW s \in Summary, NEW name, FindModule(s, name) # <<>>
    PROVE  \E i \in 1 .. Len(s.modules) : FindModule(s, name) = <<s.modules[i]>>
<1> DEFINE hits == {i \in DOMAIN s.modules : s.modules[i].name = name}
           k == CHOOSE i \in hits : \A j \in hits : i <= j
<1>1. s.modules \in Seq(BootModule)
    BY SummaryTypes
<1>2. hits # {} /\ FindModule(s, name) = <<s.modules[k]>>
    BY DEF FindModule
<1>3. hits \in SUBSET Nat
    BY <1>1
<1>4. \E i \in hits : \A j \in hits : i <= j
    <2> HIDE DEF hits
    <2>1. QED
        BY <1>2, <1>3, LeastNatural
<1>5. k \in hits
    BY <1>4
<1> HIDE DEF k
<1>6. k \in 1 .. Len(s.modules)
    BY <1>1, <1>5
<1> HIDE DEF hits
<1>7. QED
    BY <1>2, <1>6

\* What initramfs::init keeps: nothing, or the module of the boot loader.
LEMMA ArchiveFacts ==
    ASSUME BootInv, phase \in {"physmem", "elf", "booted"}, archive.module # <<>>
    PROVE  /\ machine.archive \in ArchiveFile
           /\ ArchiveBytes(archive.module[1]).entries = machine.archive.entries
           /\ ArchiveBytes(archive.module[1]).garbage = machine.archive.garbage
           /\ ArchiveBytes(archive.module[1]).len = archive.module[1].end - archive.module[1].start
           /\ archive.module[1].start \in Nat /\ archive.module[1].end \in Nat
           /\ archive.module[1].start < archive.module[1].end
           /\ \E i \in DOMAIN machine.info.tags :
                 /\ IsModule(machine.info, i)
                 /\ machine.info.tags[i].start = archive.module[1].start
                 /\ machine.info.tags[i].end = archive.module[1].end
           /\ archive.module = FindModule(summary, "initramfs")
<1> DEFINE found == FindModule(summary, "initramfs")
           m == archive.module[1]
<1>1. machine \in MachineType
    BY MachinesAssumption DEF BootInv
<1>2. machine.info \in BootInfo /\ machine.archive \in ArchiveFile
    BY <1>1 DEF MachineType
<1>3. summary = Parse(machine.info)
    BY DEF BootInv
<1>4. ParsedOk(machine.info, summary)
    BY <1>2, <1>3, ParseSound
<1>5. summary \in Summary
    BY <1>4 DEF ParsedOk
<1>6. archive = ArchiveOf(summary)
    BY DEF BootInv
<1>7. NoArchive.module = <<>>
    BY DEF NoArchive
<1>8. found # <<>> /\ archive.module = found
    BY <1>6, <1>7 DEF ArchiveOf, NoArchive
<1> HIDE DEF found
<1>9. PICK k \in 1 .. Len(summary.modules) : found = <<summary.modules[k]>>
    BY <1>5, <1>8, FoundModule DEF found
<1>10. m = summary.modules[k]
    BY <1>8, <1>9
<1>11. PICK j \in 1 .. Len(machine.info.tags) :
          IsModule(machine.info, j) /\ m = ModuleOf(machine.info.tags[j])
    BY <1>4, <1>10 DEF ParsedOk
<1> DEFINE t == machine.info.tags[j]
<1>12. machine.info.tags \in Seq(Tags) /\ j \in DOMAIN machine.info.tags /\ t \in Tags
    BY <1>2, <1>11, InfoTypes
<1>13. t.type = "module" /\ IsValid(t)
    BY <1>11 DEF IsModule
<1>14. t.start \in Nat /\ t.end \in Nat /\ t.start < t.end
    <2>1. t.start \in Nat /\ t.end \in Nat
        BY <1>12, <1>13, TagTypes
    <2>2. QED
        BY <1>13, <2>1 DEF IsValid
<1>15. m.start = t.start /\ m.end = t.end
    BY <1>11 DEF ModuleOf
<1> HIDE DEF m
<1>16. /\ ArchiveBytes(m).entries = machine.archive.entries
       /\ ArchiveBytes(m).garbage = machine.archive.garbage
       /\ ArchiveBytes(m).len = m.end - m.start
    BY DEF ArchiveBytes
<1>17. \E i \in DOMAIN machine.info.tags :
          IsModule(machine.info, i) /\ machine.info.tags[i].start = m.start
             /\ machine.info.tags[i].end = m.end
    BY <1>11, <1>12, <1>15
<1>18. m.start \in Nat /\ m.end \in Nat /\ m.start < m.end
    BY <1>14, <1>15
<1>19. QED
    BY <1>2, <1>8, <1>16, <1>17, <1>18 DEF m, found

\* No frame that may be handed out holds a byte of the kernel, of the boot
\* information or of a module, and /bin/init is in a module (FrameAllocator::
\* init, add_module, initramfs::find).
THEOREM BootMemoryIsProtected == Spec => []BootMemoryProtected
<1>1. BootInv => BootMemoryProtected
    <2> SUFFICES ASSUME BootInv, Allocating PROVE BootMemoryProtected
        BY DEF BootMemoryProtected
    <2> DEFINE until == frames.protectedUntil
    <2>1. /\ ParsedOk(machine.info, summary) /\ summary \in Summary
          /\ machine.kernelEnd \in Nat /\ until = ProtectedUntil(machine.kernelEnd, summary)
          /\ machine \in MachineType
        BY AllocatorReady
    <2>2. /\ summary.address \in Nat /\ summary.totalSize \in Nat
          /\ summary.highestModuleEnd \in Nat
        BY <2>1, SummaryTypes
    <2>3. /\ Multiple(until) /\ until >= AlignUp(machine.kernelEnd)
          /\ until >= AlignUp(summary.highestModuleEnd)
          /\ summary.address # 0 /\ summary.totalSize # 0 =>
                until >= AlignUp(SaturatingAdd(summary.address, summary.totalSize))
        BY <2>1, ProtectedUntilFacts
    <2> HIDE DEF until
    <2>4. ASSUME NEW r \in Regions
          PROVE  /\ ~ Meets(r, 0, machine.kernelEnd)
                 /\ summary.totalSize > 0 =>
                       ~ Meets(r, summary.address, summary.address + summary.totalSize)
                 /\ \A i \in DOMAIN machine.info.tags : IsModule(machine.info, i) =>
                       ~ Meets(r, machine.info.tags[i].start, machine.info.tags[i].end)
        <3> DEFINE x == r.start
                   y == r.end
        <3>1. /\ Multiple(x) /\ Multiple(y) /\ x < y /\ x >= until /\ y + FrameSize <= MaxAddr + 1
            BY RegionFacts DEF Regions, until
        <3> HIDE DEF x, y
        <3>2. x + FrameSize <= y
            BY <3>1, MultipleGap
        <3>3. x \in Nat /\ y \in Nat /\ until \in Nat
            BY <2>3, <3>1 DEF Multiple
        <3>4. x + FrameSize + FrameSize <= MaxAddr + 1
            BY <3>1, <3>2, <3>3, FrameSizes
        <3>5. ASSUME NEW k \in Nat, until >= AlignUp(k) PROVE x >= k
            <4>1. AlignUp(k) \in Nat
                BY AlignUpIs DEF Multiple
            <4>2. x >= AlignUp(k)
                BY <3>1, <3>3, <3>5, <4>1
            <4>3. QED
                BY <3>1, <3>4, <4>2, AboveAligned
        <3>6. ~ Meets(r, 0, machine.kernelEnd)
            <4>1. x >= machine.kernelEnd
                BY <2>1, <2>3, <3>5
            <4>2. QED
                BY <2>1, <3>3, <4>1 DEF Meets, x
        <3>7. ASSUME summary.totalSize > 0
              PROVE  ~ Meets(r, summary.address, summary.address + summary.totalSize)
            <4> DEFINE z == SaturatingAdd(summary.address, summary.totalSize)
            <4>1. summary.address > 0
                BY <2>1, <3>7 DEF ParsedOk
            <4>2. until >= AlignUp(z)
                BY <2>2, <2>3, <3>7, <4>1
            <4>3. z \in Nat /\ (z = MaxAddr \/ z = summary.address + summary.totalSize)
                BY <2>2, SaturatingAddFacts
            <4> HIDE DEF z
            <4>4. x >= z
                BY <3>5, <4>2, <4>3
            <4>5. x >= summary.address + summary.totalSize
                BY <3>3, <3>4, <4>3, <4>4, FrameSizes
            <4>6. QED
                BY <2>2, <3>3, <4>5 DEF Meets, x
        <3>8. ASSUME NEW i \in DOMAIN machine.info.tags, IsModule(machine.info, i)
              PROVE  ~ Meets(r, machine.info.tags[i].start, machine.info.tags[i].end)
            <4> DEFINE t == machine.info.tags[i]
            <4>1. machine.info \in BootInfo
                BY <2>1 DEF MachineType
            <4>2. i \in 1 .. Len(machine.info.tags) /\ t \in Tags
                BY <4>1, InfoTypes
            <4>3. t.type = "module"
                BY <3>8 DEF IsModule
            <4>4. t.end \in Nat /\ t.start \in Nat
                BY <4>2, <4>3, TagTypes
            <4>5. summary.highestModuleEnd >= t.end
                BY <2>1, <3>8, <4>2 DEF ParsedOk
            <4>6. x >= summary.highestModuleEnd
                BY <2>2, <2>3, <3>5
            <4> HIDE DEF t
            <4>7. ~ (x < t.end)
                BY <2>2, <3>3, <4>4, <4>5, <4>6
            <4>8. QED
                BY <4>7 DEF Meets, x, t
        <3>9. QED
            BY <3>6, <3>7, <3>8
    <2>5. ASSUME NEW f \in InitFile
          PROVE  /\ 0 <= f.start /\ f.start <= f.end
                 /\ archive.module[1].start + f.end <= archive.module[1].end
                 /\ \E i \in DOMAIN machine.info.tags :
                       /\ IsModule(machine.info, i)
                       /\ machine.info.tags[i].start = archive.module[1].start
                       /\ machine.info.tags[i].end = archive.module[1].end
        <3> DEFINE m == archive.module[1]
                   a == ArchiveBytes(m)
        <3>1. archive.module # <<>> /\ f \in Find(a, archive, InitPath)
            BY DEF InitFile
        <3>2. phase \in {"physmem", "elf", "booted"}
            BY DEF Allocating
        <3>3. /\ machine.archive \in ArchiveFile /\ a.entries = machine.archive.entries
              /\ a.len = m.end - m.start
              /\ m.start \in Nat /\ m.end \in Nat /\ m.start < m.end
              /\ \E i \in DOMAIN machine.info.tags :
                    /\ IsModule(machine.info, i)
                    /\ machine.info.tags[i].start = m.start
                    /\ machine.info.tags[i].end = m.end
            BY <3>1, <3>2, ArchiveFacts
        <3> HIDE DEF m, a
        <3>4. a.entries \in Seq(ArchiveEntry) /\ a.len \in Nat
            BY <3>3 DEF ArchiveFile
        <3>5. f.start \in Nat /\ f.end \in Nat /\ f.start <= f.end /\ f.end <= a.len
            BY <3>1, <3>4, FindInside
        <3>6. m.start + f.end <= m.end
            BY <3>3, <3>5
        <3>7. QED
            BY <3>3, <3>5, <3>6 DEF m
    <2>6. QED
        BY <2>4, <2>5 DEF BootMemoryProtected
<1>2. QED
    BY <1>1, BootInductive, PTL

-----------------------------------------------------------------------------
(* The archive: the walk of parse_archive.                                 *)

WalkEnds == {"none", "error", "trailer"}

ArchiveWalk == [index : Nat, offset : Nat, entries : Seq(ArchiveEntry), initFound : BOOLEAN,
                initSize : Nat, end : WalkEnds]

LEMMA ArchiveWalkTypes ==
    ASSUME NEW w \in ArchiveWalk
    PROVE  /\ w.index \in Nat /\ w.offset \in Nat /\ w.entries \in Seq(ArchiveEntry)
           /\ w.initFound \in BOOLEAN /\ w.initSize \in Nat /\ w.end \in WalkEnds
           /\ Len(w.entries) \in Nat
<1>1. /\ w.index \in Nat /\ w.offset \in Nat /\ w.entries \in Seq(ArchiveEntry)
      /\ w.initFound \in BOOLEAN /\ w.initSize \in Nat /\ w.end \in WalkEnds
    BY DEF ArchiveWalk
<1>2. QED
    BY <1>1

\* The entry at index i and offset x ends the walk with an error, after n files.
Refused(a, i, x, n) ==
    \/ i \notin 1 .. Len(a.entries)
    \/ ~ EntryOk(a.entries[i], x, a.len)
    \/ /\ a.entries[i].name # Trailer
       /\ n >= MaxEntries \/ (a.entries[i].name = InitPath /\ a.entries[i].type # "regular")

Running(w, a) == w.end = "none" /\ ~ (w.offset >= a.len)

\* The entry is read without an error.
Parsed(w, a) == w.index \in 1 .. Len(a.entries) /\ EntryOk(a.entries[w.index], w.offset, a.len)

\* What one turn of the loop makes of w.
WalkTurn(w, a, p) ==
    \/ ~ Running(w, a) /\ p = w
    \/ /\ Running(w, a) /\ Refused(a, w.index, w.offset, Len(w.entries))
       /\ p \in ArchiveWalk /\ p.end = "error"
    \/ /\ Running(w, a) /\ Parsed(w, a) /\ a.entries[w.index].name = Trailer
       /\ p \in ArchiveWalk /\ p.end = "trailer"
       /\ p.index = w.index + 1 /\ p.offset = NextOffset(a.entries[w.index], w.offset)
       /\ p.initFound = w.initFound /\ p.initSize = w.initSize
    \/ /\ Running(w, a) /\ Parsed(w, a) /\ a.entries[w.index].name # Trailer
       /\ Len(w.entries) < MaxEntries
       /\ a.entries[w.index].name = InitPath => a.entries[w.index].type = "regular"
       /\ p \in ArchiveWalk /\ p.end = "none"
       /\ p.index = w.index + 1 /\ p.offset = NextOffset(a.entries[w.index], w.offset)
       /\ Len(p.entries) = Len(w.entries) + 1
       /\ p.initFound <=> w.initFound \/ a.entries[w.index].name = InitPath
       /\ p.initSize = (IF a.entries[w.index].name = InitPath
                        THEN a.entries[w.index].size ELSE w.initSize)

LEMMA ErrorType ==
    ASSUME NEW w \in ArchiveWalk
    PROVE  [w EXCEPT !.end = "error"] \in ArchiveWalk /\ [w EXCEPT !.end = "error"].end = "error"
    BY DEF ArchiveWalk, WalkEnds

TrailerRead(w, i, x, p) ==
    /\ p \in ArchiveWalk /\ p.end = "trailer" /\ p.index = i /\ p.offset = x
    /\ p.initFound = w.initFound /\ p.initSize = w.initSize

LEMMA TrailerType ==
    ASSUME NEW w \in ArchiveWalk, NEW x \in Nat, NEW i \in Nat
    PROVE  TrailerRead(w, i, x, [w EXCEPT !.index = i, !.offset = x, !.end = "trailer"])
    BY DEF TrailerRead, ArchiveWalk, WalkEnds

FileRead(w, i, x, es, found, size, p) ==
    /\ p \in ArchiveWalk /\ p.end = w.end /\ p.index = i /\ p.offset = x
    /\ p.entries = es /\ p.initFound = found /\ p.initSize = size

LEMMA ParseNextTurns ==
    ASSUME NEW a, a.entries \in Seq(ArchiveEntry), a.len \in Nat, NEW w \in ArchiveWalk
    PROVE  WalkTurn(w, a, ParseNext(w, a))
<1> DEFINE p == ParseNext(w, a)
           e == a.entries[w.index]
           x == NextOffset(e, w.offset)
<1>0. /\ w.index \in Nat /\ w.offset \in Nat /\ w.entries \in Seq(ArchiveEntry)
      /\ w.initFound \in BOOLEAN /\ w.initSize \in Nat /\ Len(w.entries) \in Nat
      /\ DOMAIN a.entries = 1 .. Len(a.entries) /\ MaxEntries \in Nat
    BY ArchiveWalkTypes, InitramfsAssumption
<1>1. CASE ~ Running(w, a)
    BY <1>1 DEF Running, ParseNext, WalkTurn
<1>2. CASE Running(w, a) /\ w.index \notin 1 .. Len(a.entries)
    <2>1. EntryAt(a, w.index) = NoHeader
        BY <1>0, <1>2 DEF EntryAt
    <2>2. ~ EntryOk(NoHeader, w.offset, a.len)
        BY DEF EntryOk, NoHeader
    <2>3. p = [w EXCEPT !.end = "error"]
        BY <1>2, <2>1, <2>2 DEF ParseNext, Running
    <2>4. Refused(a, w.index, w.offset, Len(w.entries))
        BY <1>2 DEF Refused
    <2>5. QED
        BY <1>2, <2>3, <2>4, ErrorType DEF WalkTurn
<1>3. CASE Running(w, a) /\ w.index \in 1 .. Len(a.entries)
    <2>1. EntryAt(a, w.index) = e /\ e \in ArchiveEntry
        BY <1>0, <1>3 DEF EntryAt
    <2>2. x \in Nat /\ e.size \in Nat
        BY <1>0, <2>1, EntryTypes, EntryOffsetFacts
    <2>3. CASE Refused(a, w.index, w.offset, Len(w.entries))
        <3>1. \/ ~ EntryOk(e, w.offset, a.len)
              \/ /\ e.name # Trailer
                 /\ Len(w.entries) >= MaxEntries \/ (e.name = InitPath /\ e.type # "regular")
            BY <1>3, <2>3 DEF Refused
        <3>2. p = [w EXCEPT !.end = "error"]
            BY <1>3, <2>1, <3>1 DEF ParseNext, Running
        <3>3. QED
            BY <1>3, <2>3, <3>2, ErrorType DEF WalkTurn
    <2>4. CASE EntryOk(e, w.offset, a.len) /\ e.name = Trailer
        <3> DEFINE i == w.index + 1
        <3>1. p = [[w EXCEPT !.index = @ + 1, !.offset = x] EXCEPT !.end = "trailer"]
            BY <1>3, <2>1, <2>4 DEF ParseNext, Running
        <3>2. p = [w EXCEPT !.index = i, !.offset = x, !.end = "trailer"]
            BY <3>1 DEF ArchiveWalk
        <3>3. i \in Nat
            BY <1>0
        <3> HIDE DEF x, p, i
        <3>7. TrailerRead(w, i, x, [w EXCEPT !.index = i, !.offset = x, !.end = "trailer"])
            BY <2>2, <3>3, TrailerType
        <3>4. /\ p \in ArchiveWalk /\ p.end = "trailer" /\ p.index = i /\ p.offset = x
              /\ p.initFound = w.initFound /\ p.initSize = w.initSize
            BY <3>2, <3>7, Zenon DEF TrailerRead
        <3>5. Parsed(w, a)
            BY <1>3, <2>4 DEF Parsed
        <3>6. QED
            BY <1>3, <2>4, <3>4, <3>5 DEF WalkTurn, x, p, i
    <2>5. CASE /\ EntryOk(e, w.offset, a.len) /\ e.name # Trailer
               /\ ~ (Len(w.entries) >= MaxEntries) /\ ~ (e.name = InitPath /\ e.type # "regular")
        <3> DEFINE i == w.index + 1
                   es == Append(w.entries, e)
                   found == w.initFound \/ e.name = InitPath
                   size == IF e.name = InitPath THEN e.size ELSE w.initSize
        <3>1. p = [[w EXCEPT !.index = @ + 1, !.offset = x] EXCEPT
                       !.entries = Append(@, e), !.initFound = @ \/ e.name = InitPath,
                       !.initSize = IF e.name = InitPath THEN e.size ELSE @]
            BY <1>3, <2>1, <2>5 DEF ParseNext, Running
        <3>2. p = [w EXCEPT !.index = i, !.offset = x, !.entries = es, !.initFound = found,
                            !.initSize = size]
            BY <3>1 DEF ArchiveWalk
        <3>3. i \in Nat /\ es \in Seq(ArchiveEntry) /\ Len(es) = Len(w.entries) + 1
            BY <1>0, <2>1
        <3>4. found \in BOOLEAN /\ size \in Nat
            BY <1>0, <2>2
        <3> HIDE DEF x, p, i, es, found, size
        <3>5. FileRead(w, i, x, es, found, size, p)
            <4>1. FileRead(w, i, x, es, found, size,
                           [w EXCEPT !.index = i, !.offset = x, !.entries = es,
                                     !.initFound = found, !.initSize = size])
                <5>1. x \in Nat
                    BY <2>2
                <5>2. i \in Nat
                    BY <3>3
                <5>3. es \in Seq(ArchiveEntry)
                    BY <3>3
                <5>4. found \in BOOLEAN
                    BY <3>4
                <5>5. size \in Nat
                    BY <3>4
                <5>6. QED
                    BY <5>1, <5>2, <5>3, <5>4, <5>5 DEF FileRead, ArchiveWalk
            <4>2. QED
                BY <3>2, <4>1, Zenon
        <3>6. Parsed(w, a)
            BY <1>3, <2>5 DEF Parsed
        <3>7. w.end = "none"
            BY <1>3 DEF Running
        <3>8. Len(w.entries) < MaxEntries
            BY <1>0, <2>5
        <3>9. /\ p \in ArchiveWalk /\ p.end = "none" /\ p.index = w.index + 1
              /\ p.offset = NextOffset(a.entries[w.index], w.offset)
              /\ Len(p.entries) = Len(w.entries) + 1
              /\ p.initSize = (IF a.entries[w.index].name = InitPath
                               THEN a.entries[w.index].size ELSE w.initSize)
            BY <3>3, <3>5, <3>7 DEF FileRead, i, x, size
        <3>10. p.initFound <=> w.initFound \/ a.entries[w.index].name = InitPath
            BY <3>5 DEF FileRead, found
        <3>11. QED
            BY <1>3, <2>5, <3>6, <3>8, <3>9, <3>10 DEF WalkTurn, p
    <2>6. QED
        BY <1>3, <2>3, <2>4, <2>5 DEF Refused
<1>4. QED
    BY <1>1, <1>2, <1>3

\* The turns of the loop of parse_archive.
IsArchiveWalk(g, a) ==
    /\ g \in [0 .. Len(a.entries) + 1 -> ArchiveWalk] /\ g[0] = StartWalk
    /\ \A i \in 1 .. Len(a.entries) + 1 : WalkTurn(g[i - 1], a, g[i])

LEMMA ArchiveWalkExists ==
    ASSUME NEW a, a.entries \in Seq(ArchiveEntry), a.len \in Nat
    PROVE  \E g : IsArchiveWalk(g, a) /\ WalkArchive(a) = g[Len(a.entries) + 1]
<1> DEFINE n == Len(a.entries) + 1
           D == ArchiveWalk
           Rec(f) == f = [i \in 0 .. n |-> IF i = 0 THEN StartWalk ELSE ParseNext(f[i - 1], a)]
           step == [z \in D \X (1 .. n) |-> ParseNext(z[1], a)]
<1>1. n \in Nat /\ n \in 0 .. n
    OBVIOUS
<1>3. WalkArchive(a) = (CHOOSE h : Rec(h))[n]
    BY DEF WalkArchive
<1> HIDE DEF n
<1>5. StartWalk \in D
    <2>1. << >> \in Seq(ArchiveEntry)
        OBVIOUS
    <2>2. QED
        BY <2>1 DEF StartWalk, ArchiveWalk, WalkEnds
<1>6. ASSUME NEW x \in D
      PROVE  ParseNext(x, a) \in D /\ WalkTurn(x, a, ParseNext(x, a))
    <2> DEFINE p == ParseNext(x, a)
    <2>1. WalkTurn(x, a, p)
        BY ParseNextTurns
    <2> HIDE DEF p
    <2>2. p \in D
        BY <2>1 DEF WalkTurn
    <2>3. QED
        BY <2>1, <2>2 DEF p
<1> HIDE DEF D
<1>9. /\ step \in [D \X (1 .. n) -> D]
      /\ \A x \in D, i \in 1 .. n : step[<<x, i>>] = ParseNext(x, a)
    BY <1>6
<1> HIDE DEF step
<1>10. IsStep(step, n, D)
    BY <1>9 DEF IsStep
<1>11. PICK f : IsRun(f, n, D, StartWalk, step)
    BY <1>1, <1>5, <1>10, RunExists
<1>12. f \in [0 .. n -> D] /\ f[0] = StartWalk /\ \A i \in 1 .. n : f[i] = step[<<f[i - 1], i>>]
    BY <1>11 DEF IsRun
<1>13. ASSUME NEW i \in 1 .. n PROVE f[i] = ParseNext(f[i - 1], a)
    <2>1. i - 1 \in 0 .. n
        BY <1>1
    <2>2. QED
        BY <1>9, <1>12, <2>1
<1>14. Rec(f)
    <2>1. \A i \in 0 .. n : f[i] = IF i = 0 THEN StartWalk ELSE ParseNext(f[i - 1], a)
        BY <1>1, <1>12, <1>13
    <2>2. QED
        BY <1>12, <2>1
<1> DEFINE g == CHOOSE h : Rec(h)
<1>15. Rec(g)
    BY <1>14
<1> HIDE DEF g
<1>20. g[0] = StartWalk /\ \A i \in 1 .. n : g[i] = ParseNext(g[i - 1], a)
    BY <1>1, <1>15
<1>16. IsRun(g, n, D, StartWalk, step)
    <2>1. g = [i \in 0 .. n |-> g[i]]
        BY <1>15
    <2>3. \A i \in 1 .. n : g[i - 1] \in D => g[i] = step[<<g[i - 1], i>>]
        BY <1>9, <1>20
    <2>4. QED
        BY <1>1, <1>5, <1>10, <1>20, <2>1, <2>3, RunInside
<1>17. g \in [0 .. n -> D]
    BY <1>16 DEF IsRun
<1>18. ASSUME NEW i \in 1 .. n PROVE WalkTurn(g[i - 1], a, g[i])
    <2>1. i - 1 \in 0 .. n
        BY <1>1
    <2>2. QED
        BY <1>6, <1>17, <1>20, <2>1
<1>19. QED
    BY <1>3, <1>17, <1>18, <1>20 DEF IsArchiveWalk, g, n, D

\* The first k entries are files that parse_archive takes.
GoodFiles(a, f, k) ==
    \A j \in 1 .. k : /\ EntryOk(a.entries[j], f[j - 1], a.len)
                      /\ a.entries[j].name # Trailer
                      /\ a.entries[j].name = InitPath => a.entries[j].type = "regular"

\* init_found and init_size are about the first k entries.
InitAmong(w, a, k) ==
    /\ w.initFound => \E j \in 1 .. k : /\ a.entries[j].name = InitPath
                                        /\ w.initSize = a.entries[j].size
    /\ \A j \in 1 .. k : a.entries[j].name = InitPath => w.initFound

\* Where the walk stands after i turns; it has read k entries.
StandsAt(w, a, f, i, k) ==
    \/ /\ w.end = "none" /\ w.index = k + 1 /\ w.offset = f[k]
       /\ GoodFiles(a, f, k) /\ InitAmong(w, a, k)
       /\ Len(w.entries) = k /\ k <= MaxEntries
       /\ k = i \/ f[k] >= a.len
    \/ /\ w.end = "error" /\ GoodFiles(a, f, k) /\ Refused(a, k + 1, f[k], k)
    \/ /\ w.end = "trailer" /\ k >= 1 /\ w.index = k + 1 /\ w.offset = f[k]
       /\ GoodFiles(a, f, k - 1) /\ InitAmong(w, a, k - 1) /\ k - 1 <= MaxEntries
       /\ a.entries[k].name = Trailer /\ EntryOk(a.entries[k], f[k - 1], a.len)

ArchiveInv(w, a, f, i) ==
    w \in ArchiveWalk /\ \E k \in 0 .. Len(a.entries) : StandsAt(w, a, f, i, k)

LEMMA ArchiveStep ==
    ASSUME NEW a, a.entries \in Seq(ArchiveEntry), a.len \in Nat,
           NEW f, IsOffsets(f, a.entries), NEW i \in Nat, NEW w, NEW p,
           ArchiveInv(w, a, f, i), WalkTurn(w, a, p)
    PROVE  ArchiveInv(p, a, f, i + 1)
<1> DEFINE n == Len(a.entries)
<1>0. n \in Nat /\ MaxEntries \in Nat
    BY InitramfsAssumption
<1>1. w \in ArchiveWalk
    BY DEF ArchiveInv
<1>2. PICK k \in 0 .. n : StandsAt(w, a, f, i, k)
    BY DEF ArchiveInv
<1>3. f[k] \in Nat
    BY <1>2 DEF IsOffsets
<1>4. CASE ~ Running(w, a) /\ p = w
    <2>1. w.end # "none" \/ w.offset >= a.len
        BY <1>4 DEF Running
    <2>2. StandsAt(w, a, f, i + 1, k)
        BY <1>2, <2>1 DEF StandsAt
    <2>3. QED
        BY <1>1, <1>4, <2>2 DEF ArchiveInv
<1>5. CASE Running(w, a) /\ ~ (p = w)
    <2>1. /\ w.end = "none" /\ w.index = k + 1 /\ w.offset = f[k]
          /\ GoodFiles(a, f, k) /\ InitAmong(w, a, k)
          /\ Len(w.entries) = k /\ k <= MaxEntries
        BY <1>2, <1>5 DEF StandsAt, Running
    <2>2. k = i
        BY <1>2, <1>3, <1>5, <2>1 DEF StandsAt, Running
    <2> DEFINE e == a.entries[k + 1]
    <2>3. CASE Refused(a, w.index, w.offset, Len(w.entries)) /\ p \in ArchiveWalk /\ p.end = "error"
        <3>1. StandsAt(p, a, f, i + 1, k)
            BY <2>1, <2>3 DEF StandsAt
        <3>2. QED
            BY <2>3, <3>1 DEF ArchiveInv
    <2>4. CASE /\ Parsed(w, a) /\ e.name = Trailer
               /\ p \in ArchiveWalk /\ p.end = "trailer"
               /\ p.index = k + 2 /\ p.offset = NextOffset(e, f[k])
               /\ p.initFound = w.initFound /\ p.initSize = w.initSize
        <3>1. k + 1 \in 1 .. n /\ EntryOk(e, f[k], a.len)
            BY <2>1, <2>4 DEF Parsed
        <3>2. f[k + 1] = NextOffset(e, f[k]) /\ (k + 1) - 1 = k
            BY <1>0, <3>1 DEF IsOffsets
        <3>3. InitAmong(p, a, k)
            BY <2>1, <2>4 DEF InitAmong
        <3>4. /\ k + 1 >= 1 /\ p.index = (k + 1) + 1 /\ p.offset = f[k + 1]
            BY <1>0, <2>4, <3>2
        <3>5. StandsAt(p, a, f, i + 1, k + 1)
            BY <2>1, <2>4, <3>1, <3>2, <3>3, <3>4 DEF StandsAt
        <3>6. k + 1 \in 0 .. n
            BY <3>1
        <3>7. QED
            BY <2>4, <3>5, <3>6 DEF ArchiveInv
    <2>5. CASE /\ Parsed(w, a) /\ e.name # Trailer /\ Len(w.entries) < MaxEntries
               /\ e.name = InitPath => e.type = "regular"
               /\ p \in ArchiveWalk /\ p.end = "none"
               /\ p.index = k + 2 /\ p.offset = NextOffset(e, f[k])
               /\ Len(p.entries) = Len(w.entries) + 1
               /\ p.initFound <=> w.initFound \/ e.name = InitPath
               /\ p.initSize = (IF e.name = InitPath THEN e.size ELSE w.initSize)
        <3>1. k + 1 \in 1 .. n /\ EntryOk(e, f[k], a.len)
            BY <2>1, <2>5 DEF Parsed
        <3>2. f[k + 1] = NextOffset(e, f[k]) /\ (k + 1) - 1 = k
            BY <1>0, <3>1 DEF IsOffsets
        <3>3. \A j \in 1 .. k + 1 : j \in 1 .. k \/ j = k + 1
            BY <1>0
        <3>8. k + 1 \in 1 .. k + 1 /\ 1 .. k \subseteq 1 .. k + 1
            BY <1>0
        <3>4. GoodFiles(a, f, k + 1)
            BY <2>1, <2>5, <3>1, <3>2, <3>3 DEF GoodFiles
        <3>5. InitAmong(p, a, k + 1)
            <4>1. CASE e.name = InitPath
                <5>1. p.initFound /\ p.initSize = e.size
                    BY <2>5, <4>1
                <5>2. QED
                    BY <3>8, <4>1, <5>1 DEF InitAmong
            <4>2. CASE e.name # InitPath
                <5>1. (p.initFound <=> w.initFound) /\ p.initSize = w.initSize
                    BY <2>5, <4>2
                <5>2. QED
                    BY <2>1, <3>3, <3>8, <4>2, <5>1 DEF InitAmong
            <4>3. QED
                BY <4>1, <4>2
        <3>6. /\ Len(p.entries) = k + 1 /\ k + 1 <= MaxEntries /\ k + 1 = i + 1
              /\ p.index = (k + 1) + 1 /\ p.offset = f[k + 1] /\ k + 1 \in 0 .. n
            BY <1>0, <2>1, <2>2, <2>5, <3>1, <3>2
        <3>7. StandsAt(p, a, f, i + 1, k + 1)
            BY <2>5, <3>4, <3>5, <3>6 DEF StandsAt
        <3>9. QED
            BY <2>5, <3>6, <3>7 DEF ArchiveInv
    <2>6. w.index + 1 = k + 2
        BY <1>0, <2>1
    <2>7. QED
        BY <1>5, <2>1, <2>3, <2>4, <2>5, <2>6 DEF WalkTurn
<1>6. CASE Running(w, a) /\ p = w
    <2>1. FALSE
        <3>1. w.index \in Nat /\ w.end \in WalkEnds /\ w.end = "none"
            BY <1>1, <1>6, ArchiveWalkTypes DEF Running
        <3>2. p.index = w.index /\ p.end = w.end
            BY <1>6
        <3>3. w.index + 1 # w.index
            BY <3>1
        <3>4. QED
            BY <1>6, <3>1, <3>2, <3>3 DEF WalkTurn
    <2>2. QED
        BY <2>1
<1>7. QED
    BY <1>4, <1>5, <1>6 DEF WalkTurn

LEMMA ArchiveWalked ==
    ASSUME NEW a, a.entries \in Seq(ArchiveEntry), a.len \in Nat,
           NEW f, IsOffsets(f, a.entries)
    PROVE  ArchiveInv(WalkArchive(a), a, f, Len(a.entries) + 1)
<1> DEFINE n == Len(a.entries) + 1
<1>1. n \in Nat /\ n \in 0 .. n
    OBVIOUS
<1>2. PICK g : IsArchiveWalk(g, a) /\ WalkArchive(a) = g[n]
    BY ArchiveWalkExists
<1> DEFINE S == {i \in 0 .. n : ArchiveInv(g[i], a, f, i)}
<1>3. 0 \in S
    <2>1. g[0] = StartWalk /\ g[0] \in ArchiveWalk
        BY <1>1, <1>2 DEF IsArchiveWalk
    <2>2. f[0] = 0 /\ 1 .. 0 = {} /\ Len(<< >>) = 0 /\ 0 <= MaxEntries
        BY InitramfsAssumption DEF IsOffsets
    <2>3. /\ g[0].end = "none" /\ g[0].index = 0 + 1 /\ g[0].offset = 0
          /\ Len(g[0].entries) = 0 /\ g[0].initFound = FALSE
        BY <2>1, <2>2 DEF StartWalk
    <2>4. GoodFiles(a, f, 0) /\ InitAmong(g[0], a, 0)
        BY <2>2, <2>3 DEF GoodFiles, InitAmong
    <2>5. StandsAt(g[0], a, f, 0, 0)
        BY <2>2, <2>3, <2>4 DEF StandsAt
    <2>6. 0 \in 0 .. Len(a.entries)
        OBVIOUS
    <2>7. ArchiveInv(g[0], a, f, 0)
        BY <2>1, <2>5, <2>6 DEF ArchiveInv
    <2>8. QED
        BY <1>1, <2>7
<1>4. ASSUME NEW i \in 0 .. n - 1, i \in S PROVE i + 1 \in S
    <2>1. i \in Nat /\ i + 1 \in 1 .. n /\ (i + 1) - 1 = i /\ i + 1 \in 0 .. n
        BY <1>1
    <2>2. WalkTurn(g[i], a, g[i + 1])
        BY <1>2, <2>1 DEF IsArchiveWalk
    <2>3. ArchiveInv(g[i], a, f, i)
        BY <1>4
    <2>4. ArchiveInv(g[i + 1], a, f, i + 1)
        BY <2>1, <2>2, <2>3, ArchiveStep
    <2>5. QED
        BY <2>1, <2>4
<1>5. n \in S
    <2> HIDE DEF S, n
    <2>1. 0 .. n \subseteq S
        BY <1>1, <1>3, <1>4, InductionUpTo
    <2>2. QED
        BY <1>1, <2>1
<1>6. QED
    BY <1>2, <1>5

\* Entry t is the trailer of an archive that parse_archive takes.
EndsAt(a, f, t) ==
    /\ t \in 1 .. Len(a.entries) /\ a.entries[t].name = Trailer /\ t - 1 <= MaxEntries
    /\ GoodFiles(a, f, t - 1) /\ EntryOk(a.entries[t], f[t - 1], a.len)
    /\ \E i \in 1 .. t - 1 : a.entries[i].name = InitPath
    /\ f[t] = a.len \/ (t = Len(a.entries) /\ ~ a.garbage)

LEMMA IsArchiveEnds ==
    ASSUME NEW a, a.entries \in Seq(ArchiveEntry), NEW f, IsOffsets(f, a.entries)
    PROVE  IsArchive(a) <=> \E t \in 1 .. Len(a.entries) : EndsAt(a, f, t)
<1> DEFINE es == a.entries
           n == Len(es)
<1>1. n \in Nat /\ DOMAIN es = 1 .. n
    OBVIOUS
<1>2. ASSUME NEW i \in 1 .. n + 1 PROVE EntryOffset(es, i) = f[i - 1]
    <2>1. i - 1 \in 0 .. n /\ (i - 1) + 1 = i
        BY <1>1
    <2>2. QED
        BY <2>1 DEF IsOffsets
<1>3. ASSUME NEW t \in 1 .. n
      PROVE  /\ EntryOffset(es, t + 1) = f[t]
             /\ \A j \in 1 .. t : EntryOffset(es, j) = f[j - 1]
             /\ \A j \in 1 .. t : j \in 1 .. t - 1 \/ j = t
             /\ t \in 1 .. t /\ 1 .. t - 1 \subseteq 1 .. t
    <2>1. t + 1 \in 1 .. n + 1 /\ (t + 1) - 1 = t /\ 1 .. t \subseteq 1 .. n + 1
        BY <1>1
    <2>2. QED
        BY <1>1, <1>2, <2>1
<1>4. ASSUME NEW t \in 1 .. n
      PROVE  EndsAt(a, f, t) <=>
               /\ es[t].name = Trailer /\ t - 1 <= MaxEntries
               /\ \A i \in 1 .. t : EntryOk(es[i], EntryOffset(es, i), a.len)
               /\ \A i \in 1 .. t - 1 : /\ es[i].name # Trailer
                                        /\ es[i].name = InitPath => es[i].type = "regular"
               /\ \E i \in 1 .. t - 1 : es[i].name = InitPath
               /\ \/ EntryOffset(es, t + 1) = a.len
                  \/ t = Len(es) /\ ~ a.garbage
    <2> HIDE DEF es, n
    <2>1. (\A i \in 1 .. t : EntryOk(es[i], EntryOffset(es, i), a.len)) <=>
            /\ \A j \in 1 .. t - 1 : EntryOk(es[j], f[j - 1], a.len)
            /\ EntryOk(es[t], f[t - 1], a.len)
        BY <1>3
    <2>2. GoodFiles(a, f, t - 1) <=>
            /\ \A j \in 1 .. t - 1 : EntryOk(es[j], f[j - 1], a.len)
            /\ \A i \in 1 .. t - 1 : /\ es[i].name # Trailer
                                     /\ es[i].name = InitPath => es[i].type = "regular"
        BY Zenon DEF GoodFiles, es
    <2>3. EntryOffset(es, t + 1) = f[t]
        BY <1>3
    <2>4. EndsAt(a, f, t) <=>
            /\ es[t].name = Trailer /\ t - 1 <= MaxEntries
            /\ GoodFiles(a, f, t - 1) /\ EntryOk(es[t], f[t - 1], a.len)
            /\ \E i \in 1 .. t - 1 : es[i].name = InitPath
            /\ \/ f[t] = a.len
               \/ t = Len(es) /\ ~ a.garbage
        BY Zenon DEF EndsAt, es, n
    <2>5. QED
        BY <2>1, <2>2, <2>3, <2>4, Zenon
<1>5. QED
    BY <1>1, <1>4 DEF IsArchive

\* parse_archive takes exactly the archives with a trailer and /bin/init.
LEMMA ParseArchiveIs ==
    ASSUME NEW a, a.entries \in Seq(ArchiveEntry), a.len \in Nat, a.garbage \in BOOLEAN,
           NEW f, IsOffsets(f, a.entries)
    PROVE  /\ ParseArchive(a).valid <=> \E t \in 1 .. Len(a.entries) : EndsAt(a, f, t)
           /\ ParseArchive(a).valid =>
                 \E t \in 1 .. Len(a.entries), j \in 1 .. Len(a.entries) :
                    /\ EndsAt(a, f, t) /\ j < t /\ a.entries[j].name = InitPath
                    /\ ParseArchive(a).initSize = a.entries[j].size
<1> DEFINE n == Len(a.entries)
           w == WalkArchive(a)
           valid == w.end = "trailer" /\ ~ TrailingGarbage(w, a) /\ w.initFound
<1>0. n \in Nat /\ MaxEntries \in Nat
    BY InitramfsAssumption
<1>1. ParseArchive(a).initSize = w.initSize /\ (ParseArchive(a).valid <=> valid)
    BY DEF ParseArchive
<1>2. w \in ArchiveWalk /\ \E k \in 0 .. n : StandsAt(w, a, f, n + 1, k)
    BY ArchiveWalked DEF ArchiveInv
<1>3. PICK k \in 0 .. n : StandsAt(w, a, f, n + 1, k)
    BY <1>2
<1> HIDE DEF w
<1>4. \A i \in 0 .. n : f[i] \in Nat
    BY DEF IsOffsets
<1>5. ASSUME valid
      PROVE  \E t \in 1 .. n, j \in 1 .. n :
                EndsAt(a, f, t) /\ j < t /\ a.entries[j].name = InitPath
                   /\ w.initSize = a.entries[j].size
    <2>1. /\ k >= 1 /\ w.index = k + 1 /\ w.offset = f[k]
          /\ GoodFiles(a, f, k - 1) /\ InitAmong(w, a, k - 1) /\ k - 1 <= MaxEntries
          /\ a.entries[k].name = Trailer /\ EntryOk(a.entries[k], f[k - 1], a.len)
        BY <1>3, <1>5 DEF StandsAt
    <2>2. k \in 1 .. n /\ f[k] \in Nat /\ k - 1 \in 0 .. n
        BY <1>0, <1>4, <2>1
    <2>3. PICK j \in 1 .. k - 1 : a.entries[j].name = InitPath /\ w.initSize = a.entries[j].size
        BY <1>5, <2>1 DEF InitAmong
    <2>4. j \in 1 .. n /\ j < k
        BY <1>0, <2>2, <2>3
    <2>5. f[k] <= a.len
        <3>1. f[k] = NextOffset(a.entries[k], f[k - 1])
            BY <2>2 DEF IsOffsets
        <3>2. QED
            BY <2>1, <3>1 DEF EntryOk
    <2>6. f[k] = a.len \/ (k = n /\ ~ a.garbage)
        <3>1. w.offset >= a.len \/ (~ a.garbage /\ ~ (w.index <= n))
            BY <1>5, <2>1, <2>2 DEF TrailingGarbage
        <3>2. QED
            BY <1>0, <2>1, <2>2, <2>5, <3>1
    <2>7. EndsAt(a, f, k)
        BY <2>1, <2>2, <2>3, <2>6 DEF EndsAt
    <2>8. QED
        BY <2>2, <2>3, <2>4, <2>7
<1>6. ASSUME NEW t \in 1 .. n, EndsAt(a, f, t) PROVE valid
    <2>1. /\ a.entries[t].name = Trailer /\ t - 1 <= MaxEntries
          /\ GoodFiles(a, f, t - 1) /\ EntryOk(a.entries[t], f[t - 1], a.len)
          /\ \E i \in 1 .. t - 1 : a.entries[i].name = InitPath
          /\ f[t] = a.len \/ (t = Len(a.entries) /\ ~ a.garbage)
        BY <1>6 DEF EndsAt
    <2>2. ASSUME NEW l \in 0 .. n, GoodFiles(a, f, l) PROVE l < t
        <3>1. t \in 1 .. l => a.entries[t].name # Trailer
            BY <2>2 DEF GoodFiles
        <3>2. QED
            BY <1>0, <2>1, <2>2, <3>1
    <2>3. ASSUME NEW l \in 0 .. n, l < t
          PROVE  EntryOk(a.entries[l + 1], f[l], a.len) /\ l + 1 \in 1 .. n
        <3>1. l + 1 \in 1 .. n /\ (l + 1) - 1 = l /\ (l + 1 = t \/ l + 1 \in 1 .. t - 1)
            BY <1>0, <2>3
        <3>2. QED
            BY <2>1, <3>1 DEF GoodFiles
    <2>4. w.end # "none"
        <3> SUFFICES ASSUME w.end = "none" PROVE FALSE
            OBVIOUS
        <3>1. GoodFiles(a, f, k) /\ (k = n + 1 \/ f[k] >= a.len)
            BY <1>3 DEF StandsAt
        <3>2. k < t /\ f[k] >= a.len
            BY <1>0, <2>2, <3>1
        <3>3. EntryOk(a.entries[k + 1], f[k], a.len)
            BY <2>3, <3>2
        <3>4. f[k] + HeaderSize <= a.len /\ f[k] \in Nat
            BY <1>4, <3>3 DEF EntryOk
        <3>5. QED
            BY <3>2, <3>4 DEF HeaderSize
    <2>5. w.end # "error"
        <3> SUFFICES ASSUME w.end = "error" PROVE FALSE
            OBVIOUS
        <3>1. GoodFiles(a, f, k) /\ Refused(a, k + 1, f[k], k)
            BY <1>3 DEF StandsAt
        <3>2. k < t
            BY <2>2, <3>1
        <3>3. EntryOk(a.entries[k + 1], f[k], a.len) /\ k + 1 \in 1 .. n
            BY <2>3, <3>2
        <3>4. /\ a.entries[k + 1].name # Trailer
              /\ \/ k >= MaxEntries
                 \/ a.entries[k + 1].name = InitPath /\ a.entries[k + 1].type # "regular"
            BY <3>1, <3>3 DEF Refused
        <3>5. k + 1 # t
            BY <2>1, <3>4
        <3>6. k + 1 \in 1 .. t - 1
            BY <1>0, <3>2, <3>5
        <3>7. ~ (a.entries[k + 1].name = InitPath /\ a.entries[k + 1].type # "regular")
            BY <2>1, <3>6 DEF GoodFiles
        <3>8. QED
            BY <1>0, <2>1, <3>4, <3>6, <3>7
    <2>6. w.end = "trailer"
        BY <1>2, <2>4, <2>5, ArchiveWalkTypes DEF WalkEnds
    <2>7. /\ k >= 1 /\ w.index = k + 1 /\ w.offset = f[k]
          /\ GoodFiles(a, f, k - 1) /\ InitAmong(w, a, k - 1) /\ a.entries[k].name = Trailer
        BY <1>3, <2>6 DEF StandsAt
    <2>8. k = t
        <3>1. k - 1 \in 0 .. n
            BY <1>0, <2>7
        <3>2. k - 1 < t
            BY <2>2, <2>7, <3>1
        <3>3. ~ (k \in 1 .. t - 1)
            BY <2>1, <2>7 DEF GoodFiles
        <3>4. QED
            BY <1>0, <2>7, <3>2, <3>3
    <2>9. w.initFound
        BY <2>1, <2>7, <2>8 DEF InitAmong
    <2>10. ~ TrailingGarbage(w, a)
        BY <1>0, <1>4, <2>1, <2>7, <2>8 DEF TrailingGarbage
    <2>11. QED
        BY <2>6, <2>9, <2>10
<1>7. QED
    BY <1>1, <1>5, <1>6

\* find goes over the entries that parse_archive has gone over.
LEMMA FilesCompared ==
    ASSUME NEW a, a.entries \in Seq(ArchiveEntry), a.len \in Nat, NEW f, IsOffsets(f, a.entries),
           NEW k \in 0 .. Len(a.entries), GoodFiles(a, f, k)
    PROVE  \A i \in 1 .. k : i \in Compared(a) /\ FindOffset(a, i) = f[i - 1]
<1> DEFINE n == Len(a.entries)
<1>0. n \in Nat /\ k \in Nat /\ DOMAIN a.entries = 1 .. n
    OBVIOUS
<1>1. PICK h : IsFindRun(h, a)
    BY FindRunExists
<1> DEFINE S == {i \in 0 .. k : h[i] = f[i]}
<1>2. ASSUME NEW i \in 1 .. k
      PROVE  /\ i \in 1 .. n /\ i - 1 \in 0 .. n /\ f[i - 1] \in Nat /\ f[i - 1] < a.len
             /\ EntryOk(a.entries[i], f[i - 1], a.len) /\ a.entries[i].name # Trailer
    <2>1. i \in 1 .. n /\ i - 1 \in 0 .. n
        BY <1>0
    <2>2. f[i - 1] \in Nat
        BY <2>1 DEF IsOffsets
    <2>3. EntryOk(a.entries[i], f[i - 1], a.len) /\ a.entries[i].name # Trailer
        BY DEF GoodFiles
    <2>4. f[i - 1] < a.len
        BY <2>2, <2>3 DEF EntryOk, HeaderSize
    <2>5. QED
        BY <2>1, <2>2, <2>3, <2>4
<1>3. 0 \in S
    BY <1>0, <1>1 DEF IsFindRun, IsOffsets
<1>4. ASSUME NEW i \in 0 .. k - 1, i \in S PROVE i + 1 \in S
    <2>1. i + 1 \in 1 .. k /\ (i + 1) - 1 = i /\ i + 1 \in 0 .. k /\ i + 1 \in 1 .. n
        BY <1>0
    <2>2. /\ f[i] \in Nat /\ f[i] < a.len /\ EntryOk(a.entries[i + 1], f[i], a.len)
        BY <1>2, <2>1
    <2>3. h[i + 1] = FindNext(a, a.entries[i + 1], f[i])
        BY <1>1, <1>4, <2>1 DEF IsFindRun
    <2>4. ~ (f[i] = -1 \/ f[i] >= a.len)
        BY <2>2
    <2>5. h[i + 1] = NextOffset(a.entries[i + 1], f[i])
        BY <2>2, <2>3, <2>4 DEF FindNext
    <2>6. f[i + 1] = NextOffset(a.entries[i + 1], f[i])
        BY <2>1 DEF IsOffsets
    <2>7. QED
        BY <2>1, <2>5, <2>6
<1>5. 0 .. k \subseteq S
    <2> HIDE DEF S
    <2>1. QED
        BY <1>0, <1>3, <1>4, InductionUpTo
<1>6. ASSUME NEW i \in 1 .. k PROVE i \in Compared(a) /\ FindOffset(a, i) = f[i - 1]
    <2>1. i - 1 \in 0 .. k /\ 1 .. i \subseteq 1 .. k
        BY <1>0
    <2>2. FindOffset(a, i) = f[i - 1]
        BY <1>1, <1>2, <1>5, <2>1 DEF IsFindRun
    <2>5. f[i - 1] \in Nat
        BY <1>2
    <2>3. f[i - 1] # -1
        BY <2>5
    <2>4. QED
        BY <1>0, <1>2, <2>1, <2>2, <2>3 DEF Compared
<1>7. QED
    BY <1>6

\* find finds /bin/init in a valid archive.
LEMMA FindFinds ==
    ASSUME NEW a, a.entries \in Seq(ArchiveEntry), a.len \in Nat, NEW f, IsOffsets(f, a.entries),
           NEW t \in 1 .. Len(a.entries), EndsAt(a, f, t), NEW state, state.valid
    PROVE  Find(a, state, InitPath) # {}
<1>1. t - 1 \in 0 .. Len(a.entries)
    OBVIOUS
<1>2. PICK i \in 1 .. t - 1 : a.entries[i].name = InitPath
    BY DEF EndsAt
<1>3. i \in Compared(a)
    BY <1>1, <1>2, FilesCompared DEF EndsAt
<1>4. {j \in Compared(a) : a.entries[j].name = InitPath} # {}
    BY <1>2, <1>3
<1>5. QED
    BY <1>4 DEF Find

LEMMA PadIs ==
    ASSUME NEW n \in Nat
    PROVE  PadToFour(n) = AlignUp4(n)
<1> DEFINE x == AlignUp4(n)
<1>1. x \in n .. n + 3 /\ x % 4 = 0
    BY AlignUp4Facts
<1>2. ASSUME NEW y \in n .. n + 3, y % 4 = 0 PROVE y = x
    BY <1>1, <1>2
<1> HIDE DEF x
<1>3. (CHOOSE y \in n .. n + 3 : y % 4 = 0) = x
    BY <1>1, <1>2
<1>4. QED
    BY <1>3 DEF PadToFour, x

LEMMA AppendOne ==
    ASSUME NEW T, NEW s \in Seq(T), NEW e \in T, NEW n \in Nat, Len(s) = n
    PROVE  /\ Append(s, e) \in Seq(T) /\ Len(Append(s, e)) = n + 1
           /\ Append(s, e)[n + 1] = e /\ \A i \in 1 .. n : Append(s, e)[i] = s[i]
    OBVIOUS

LEMMA ThreeAppended ==
    ASSUME NEW T, NEW a \in T, NEW b \in T, NEW c \in T
    PROVE  /\ Len(Append(Append(Append(<<>>, a), b), c)) = 3
           /\ Append(Append(Append(<<>>, a), b), c)[1] = a
           /\ Append(Append(Append(<<>>, a), b), c)[2] = b
           /\ Append(Append(Append(<<>>, a), b), c)[3] = c
<1>0. PICK k \in Nat, l \in Nat, m \in Nat : k = 0 /\ l = k + 1 /\ m = l + 1
    OBVIOUS
<1>1. <<>> \in Seq(T) /\ Len(<<>>) = k
    BY <1>0
<1>2. PICK p : p = Append(<<>>, a)
    OBVIOUS
<1>3. p \in Seq(T) /\ Len(p) = l /\ p[l] = a
    BY <1>0, <1>1, <1>2, AppendOne
<1>4. PICK q : q = Append(p, b)
    OBVIOUS
<1>5. q \in Seq(T) /\ Len(q) = m /\ q[m] = b /\ \A i \in 1 .. l : q[i] = p[i]
    BY <1>0, <1>3, <1>4, AppendOne
<1>6. PICK r : r = Append(q, c)
    OBVIOUS
<1>7. Len(r) = m + 1 /\ r[m + 1] = c /\ \A i \in 1 .. m : r[i] = q[i]
    BY <1>0, <1>5, <1>6, AppendOne
<1>8. Append(Append(Append(<<>>, a), b), c) = r
    BY <1>2, <1>4, <1>6
<1>9. l = 1 /\ m = 2 /\ m + 1 = 3
    BY <1>0
<1>10. l \in 1 .. l /\ l \in 1 .. m /\ m \in 1 .. m
    BY <1>0
<1>11. Len(r) = m + 1 /\ r[m + 1] = c /\ r[m] = b /\ r[l] = a
    BY <1>3, <1>5, <1>7, <1>10, Zenon
<1>12. QED
    BY <1>8, <1>9, <1>11, Zenon

BinEntry == [sound |-> TRUE, name |-> "bin", nameSize |-> 4, type |-> "directory", size |-> 0]
InitEntryOf == [sound |-> TRUE, name |-> InitPath, nameSize |-> 9, type |-> "regular",
                size |-> InitElfSize]
TrailerEntryOf == [sound |-> TRUE, name |-> Trailer, nameSize |-> 11, type |-> "none", size |-> 0]

BuiltEntries == {BinEntry, InitEntryOf, TrailerEntryOf}
BuiltFiles == [entries : Seq(BuiltEntries), garbage : BOOLEAN]

\* What append_entry makes of an archive of len bytes with these entries.
Appended(r, len, start, es) ==
    /\ r.len = len /\ r.initStart = start
    /\ r.archive \in BuiltFiles /\ r.archive.entries = es /\ r.archive.garbage = FALSE

LEMMA AppendEntryIs ==
    ASSUME NEW b, NEW es \in Seq(BuiltEntries), NEW o \in Nat, NEW st, Appended(b, o, st, es),
           NEW name, NEW nameSize, NEW type, NEW size, NEW e \in BuiltEntries,
           e = [sound |-> TRUE, name |-> name, nameSize |-> nameSize, type |-> type, size |-> size]
    PROVE  Appended(AppendEntry(b, name, nameSize, type, size),
                    PadToFour(PadToFour(o + HeaderSize + nameSize) + size),
                    IF name = InitPath THEN PadToFour(o + HeaderSize + nameSize) ELSE st,
                    Append(es, e))
<1> DEFINE r == AppendEntry(b, name, nameSize, type, size)
           d == PadToFour(b.len + HeaderSize + nameSize)
           ar == b.archive
           fs == Append(es, e)
<1>1. /\ b.len = o /\ b.initStart = st /\ ar \in BuiltFiles /\ ar.entries = es
      /\ ar.garbage = FALSE
    BY DEF Appended
<1>2. r = [len |-> PadToFour(d + size),
           initStart |-> IF name = InitPath THEN d ELSE b.initStart,
           archive |-> [ar EXCEPT !.entries = Append(@, e)]]
    BY DEF AppendEntry
<1>3. /\ r.len = PadToFour(d + size) /\ r.initStart = (IF name = InitPath THEN d ELSE st)
      /\ r.archive = [ar EXCEPT !.entries = Append(@, e)]
    BY <1>1, <1>2
<1>4. fs \in Seq(BuiltEntries)
    OBVIOUS
<1>5. r.archive = [ar EXCEPT !.entries = fs]
    BY <1>1, <1>3
<1> HIDE DEF fs, ar, r
<1>6. [ar EXCEPT !.entries = fs] \in BuiltFiles /\ [ar EXCEPT !.entries = fs].entries = fs
      /\ [ar EXCEPT !.entries = fs].garbage = FALSE
    BY <1>1, <1>4 DEF BuiltFiles
<1>7. d = PadToFour(o + HeaderSize + nameSize)
    BY <1>1
<1>8. QED
    BY <1>3, <1>5, <1>6, <1>7 DEF Appended, fs, r

\* What tools/mkinitramfs.rs builds: the kernel's offsets are the tool's.
BuiltOk(es, len, start, x, y) ==
    /\ es \in Seq(BuiltEntries) /\ Len(es) = 3
    /\ es[1] = BinEntry /\ es[2] = InitEntryOf /\ es[3] = TrailerEntryOf
    /\ x = NextOffset(BinEntry, 0) /\ y = NextOffset(InitEntryOf, x)
    /\ x \in Nat /\ y \in Nat /\ len \in Nat /\ HeaderSize <= x /\ x + HeaderSize <= y
    /\ y + HeaderSize <= len /\ len = NextOffset(TrailerEntryOf, y)
    /\ start = DataStart(InitEntryOf, x)

LEMMA BuiltIs ==
    /\ BuiltArchive.archive.garbage = FALSE
    /\ \E x, y : BuiltOk(BuiltArchive.archive.entries, BuiltArchive.len, BuiltArchive.initStart, x, y)
<1> DEFINE empty == [len |-> 0, initStart |-> 0, archive |-> [entries |-> <<>>, garbage |-> FALSE]]
           bin == AppendEntry(empty, "bin", 4, "directory", 0)
           init == AppendEntry(bin, InitPath, 9, "regular", InitElfSize)
           x == NextOffset(BinEntry, 0)
           y == NextOffset(InitEntryOf, x)
           z == NextOffset(TrailerEntryOf, y)
           e0 == << >>
           e1 == Append(e0, BinEntry)
           e2 == Append(e1, InitEntryOf)
           e3 == Append(e2, TrailerEntryOf)
<1>1. InitElfSize \in Nat
    BY MkInitramfsAssumption DEF InitElfSize, InitDataSize
<1>2. ASSUME NEW o \in Nat, NEW e, e.nameSize \in Nat, e.size \in Nat
      PROVE  /\ NextOffset(e, o) = PadToFour(PadToFour(o + HeaderSize + e.nameSize) + e.size)
             /\ DataStart(e, o) = PadToFour(o + HeaderSize + e.nameSize)
             /\ NextOffset(e, o) \in Nat /\ NextOffset(e, o) >= o + HeaderSize
    <2> DEFINE d == o + HeaderSize + e.nameSize
    <2>1. d \in Nat /\ d >= o + HeaderSize
        BY <1>2 DEF HeaderSize
    <2>2. AlignUp4(d) \in Nat /\ AlignUp4(d) >= d /\ PadToFour(d) = AlignUp4(d)
        BY <2>1, AlignUp4Facts, PadIs
    <2> HIDE DEF d
    <2> DEFINE q == AlignUp4(d) + e.size
    <2>3. q \in Nat /\ q >= d
        BY <1>2, <2>1, <2>2
    <2>4. AlignUp4(q) \in Nat /\ AlignUp4(q) >= q /\ PadToFour(q) = AlignUp4(q)
        BY <2>3, AlignUp4Facts, PadIs
    <2>5. DataStart(e, o) = AlignUp4(d) /\ NextOffset(e, o) = AlignUp4(q)
        BY DEF DataStart, NextOffset, d
    <2>6. o + HeaderSize \in Nat
        BY DEF HeaderSize
    <2> HIDE DEF q
    <2>7. AlignUp4(q) >= o + HeaderSize
        BY <2>1, <2>3, <2>4, <2>6
    <2>8. QED
        BY <2>2, <2>4, <2>5, <2>7 DEF d, q
<1>3. /\ BinEntry.nameSize = 4 /\ BinEntry.size = 0
      /\ InitEntryOf.nameSize = 9 /\ InitEntryOf.size = InitElfSize
      /\ TrailerEntryOf.nameSize = 11 /\ TrailerEntryOf.size = 0
    BY DEF BinEntry, InitEntryOf, TrailerEntryOf
<1>4. /\ x = PadToFour(PadToFour(0 + HeaderSize + 4) + 0) /\ x \in Nat /\ x >= 0 + HeaderSize
    BY <1>2, <1>3
<1> HIDE DEF x
<1>5. /\ y = PadToFour(PadToFour(x + HeaderSize + 9) + InitElfSize) /\ y \in Nat
      /\ y >= x + HeaderSize /\ DataStart(InitEntryOf, x) = PadToFour(x + HeaderSize + 9)
    BY <1>1, <1>2, <1>3, <1>4
<1> HIDE DEF y
<1>6. /\ z = PadToFour(PadToFour(y + HeaderSize + 11) + 0) /\ z \in Nat /\ z >= y + HeaderSize
    BY <1>2, <1>3, <1>5
<1> HIDE DEF z
<1>14. BinEntry \in BuiltEntries /\ InitEntryOf \in BuiltEntries /\ TrailerEntryOf \in BuiltEntries
    BY DEF BuiltEntries
<1>15. /\ e0 \in Seq(BuiltEntries) /\ e1 \in Seq(BuiltEntries) /\ e2 \in Seq(BuiltEntries)
       /\ e3 \in Seq(BuiltEntries)
    BY <1>14
<1>16. /\ Len(e3) = 3 /\ e3[1] = BinEntry /\ e3[2] = InitEntryOf /\ e3[3] = TrailerEntryOf
    BY <1>14, ThreeAppended
<1>17. "bin" # InitPath /\ InitPath # Trailer
    BY DEF InitPath, Trailer
<1> HIDE DEF e0
<1>18. Appended(empty, 0, 0, e0)
    BY <1>15 DEF Appended, BuiltFiles, e0
<1> HIDE DEF empty, e1
<1>7. Appended(bin, x, 0, e1)
    <2>1. Appended(bin, PadToFour(PadToFour(0 + HeaderSize + 4) + 0),
                   IF "bin" = InitPath THEN PadToFour(0 + HeaderSize + 4) ELSE 0, e1)
        BY <1>14, <1>15, <1>18, AppendEntryIs DEF BinEntry, e1
    <2> HIDE DEF bin
    <2>2. QED
        BY <1>4, <1>17, <2>1
<1> HIDE DEF bin, e2
<1>8. Appended(init, y, DataStart(InitEntryOf, x), e2)
    <2>1. Appended(init, PadToFour(PadToFour(x + HeaderSize + 9) + InitElfSize),
                   IF InitPath = InitPath THEN PadToFour(x + HeaderSize + 9) ELSE 0, e2)
        BY <1>4, <1>7, <1>14, <1>15, AppendEntryIs DEF InitEntryOf, e2
    <2> HIDE DEF init
    <2>2. QED
        BY <1>5, <2>1
<1> HIDE DEF init, e3
<1>9. BuiltArchive = AppendEntry(init, Trailer, 11, "none", 0)
    BY DEF BuiltArchive, init, bin, empty
<1>11. Appended(BuiltArchive, z, DataStart(InitEntryOf, x), e3)
    <2>1. Appended(BuiltArchive, PadToFour(PadToFour(y + HeaderSize + 11) + 0),
                   IF Trailer = InitPath THEN PadToFour(y + HeaderSize + 11)
                   ELSE DataStart(InitEntryOf, x), e3)
        BY <1>5, <1>8, <1>9, <1>14, <1>15, AppendEntryIs DEF TrailerEntryOf, e3
    <2>2. QED
        BY <1>6, <1>17, <2>1
<1>12. HeaderSize <= x /\ x + HeaderSize <= y /\ y + HeaderSize <= z
    BY <1>4, <1>5, <1>6 DEF HeaderSize
<1>19. BuiltOk(e3, z, DataStart(InitEntryOf, x), x, y)
    BY <1>4, <1>5, <1>6, <1>12, <1>15, <1>16 DEF BuiltOk, x, y, z
<1>13. QED
    BY <1>11, <1>19 DEF Appended

\* The archive of the build ends at its third entry.
LEMMA BuiltEnds ==
    ASSUME NEW a, a.entries \in Seq(ArchiveEntry), a.entries = BuiltArchive.archive.entries,
           a.garbage = FALSE, a.len = BuiltArchive.len, NEW f, IsOffsets(f, a.entries)
    PROVE  /\ Len(a.entries) = 3 /\ EndsAt(a, f, 3) /\ a.len \in Nat
           /\ a.entries[1].name # InitPath /\ a.entries[3].name # InitPath
           /\ a.entries[2] = InitEntryOf
           /\ DataStart(a.entries[2], f[1]) = BuiltArchive.initStart
<1> DEFINE es == a.entries
<1>1. PICK x, y : BuiltOk(es, a.len, BuiltArchive.initStart, x, y)
    BY BuiltIs
<1>2. /\ Len(es) = 3 /\ es[1] = BinEntry /\ es[2] = InitEntryOf /\ es[3] = TrailerEntryOf
      /\ x = NextOffset(BinEntry, 0) /\ y = NextOffset(InitEntryOf, x)
      /\ x \in Nat /\ y \in Nat /\ a.len \in Nat /\ HeaderSize <= x /\ x + HeaderSize <= y
      /\ y + HeaderSize <= a.len /\ a.len = NextOffset(TrailerEntryOf, y)
      /\ BuiltArchive.initStart = DataStart(InitEntryOf, x)
    BY <1>1 DEF BuiltOk
<1>3. /\ BinEntry.sound /\ BinEntry.name = "bin" /\ BinEntry.nameSize = 4
      /\ InitEntryOf.sound /\ InitEntryOf.name = InitPath /\ InitEntryOf.nameSize = 9
      /\ InitEntryOf.type = "regular" /\ TrailerEntryOf.sound /\ TrailerEntryOf.name = Trailer
      /\ TrailerEntryOf.nameSize = 11 /\ TrailerEntryOf.size = 0
    BY DEF BinEntry, InitEntryOf, TrailerEntryOf
<1>4. "bin" # InitPath /\ InitPath # Trailer /\ "bin" # Trailer
    BY DEF InitPath, Trailer
<1>5. f[0] = 0 /\ f[1] = x /\ f[2] = y /\ f[3] = a.len
    <2>1. f[0] = 0 /\ \A i \in 1 .. 3 : f[i] = NextOffset(es[i], f[i - 1])
        BY <1>2 DEF IsOffsets
    <2>2. /\ 1 \in 1 .. 3 /\ 2 \in 1 .. 3 /\ 3 \in 1 .. 3
          /\ 1 - 1 = 0 /\ 2 - 1 = 1 /\ 3 - 1 = 2
        OBVIOUS
    <2> HIDE DEF es
    <2>3. f[1] = NextOffset(es[1], f[0])
        BY <2>1, <2>2
    <2>4. f[2] = NextOffset(es[2], f[1])
        BY <2>1, <2>2
    <2>5. f[3] = NextOffset(es[3], f[2])
        BY <2>1, <2>2
    <2>6. QED
        BY <1>2, <2>1, <2>3, <2>4, <2>5
<1>6. /\ 0 + HeaderSize <= a.len /\ x + HeaderSize <= a.len /\ y + HeaderSize <= a.len
      /\ x <= a.len /\ y <= a.len /\ a.len <= a.len
    BY <1>2 DEF HeaderSize
<1>7. 4 <= MaxPathLen + 1 /\ 9 <= MaxPathLen + 1 /\ 11 <= MaxPathLen + 1 /\ 2 <= MaxEntries
    BY MkInitramfsAssumption, InitramfsAssumption
<1>8. /\ EntryOk(BinEntry, 0, a.len) /\ EntryOk(InitEntryOf, x, a.len)
      /\ EntryOk(TrailerEntryOf, y, a.len)
    <2>1. EntryOk(BinEntry, 0, a.len)
        BY <1>2, <1>3, <1>4, <1>6, <1>7 DEF EntryOk
    <2>2. EntryOk(InitEntryOf, x, a.len)
        BY <1>2, <1>3, <1>4, <1>6, <1>7 DEF EntryOk
    <2>3. EntryOk(TrailerEntryOf, y, a.len)
        BY <1>2, <1>3, <1>6, <1>7 DEF EntryOk
    <2>4. QED
        BY <2>1, <2>2, <2>3
<1>9. /\ 3 - 1 = 2 /\ 1 - 1 = 0 /\ 2 - 1 = 1 /\ 2 \in 1 .. 2
      /\ \A j \in 1 .. 2 : j = 1 \/ j = 2
    OBVIOUS
<1>10. GoodFiles(a, f, 2)
    <2> SUFFICES ASSUME NEW j \in 1 .. 2
                 PROVE  /\ EntryOk(a.entries[j], f[j - 1], a.len)
                        /\ a.entries[j].name # Trailer
                        /\ a.entries[j].name = InitPath => a.entries[j].type = "regular"
        BY DEF GoodFiles
    <2>1. CASE j = 1
        BY <1>2, <1>3, <1>4, <1>5, <1>8, <1>9, <2>1
    <2>2. CASE j = 2
        BY <1>2, <1>3, <1>4, <1>5, <1>8, <1>9, <2>2
    <2>3. QED
        BY <1>9, <2>1, <2>2
<1>11. 3 \in 1 .. Len(a.entries)
    BY <1>2
<1>12. EndsAt(a, f, 3)
    BY <1>2, <1>3, <1>5, <1>7, <1>8, <1>9, <1>10, <1>11 DEF EndsAt
<1>13. QED
    BY <1>2, <1>3, <1>4, <1>5, <1>12

\* initramfs::init accepts the archives that it should, and find finds
\* /bin/init in them, the archive of the build included (parse_archive, find,
\* tools/mkinitramfs.rs build_initramfs).
THEOREM ArchiveIsAccepted == Spec => []ArchiveAccepted
<1>1. BootInv => ArchiveAccepted
    <2> SUFFICES ASSUME BootInv, phase \in {"physmem", "elf", "booted"} PROVE ArchiveAccepted
        BY DEF ArchiveAccepted
    <2> DEFINE m == archive.module[1]
               a == ArchiveBytes(m)
               es == machine.archive.entries
    <2>1. archive = ArchiveOf(summary)
        BY DEF BootInv
    <2>2. CASE archive.module = <<>>
        <3>1. ~ archive.valid
            <4> DEFINE found == FindModule(summary, "initramfs")
            <4>1. found # <<>> => archive.module = found
                BY <2>1 DEF ArchiveOf, NoArchive
            <4>2. archive = NoArchive
                BY <2>1, <2>2, <4>1 DEF ArchiveOf
            <4>3. QED
                BY <4>2 DEF NoArchive
        <3>2. InitFile = {}
            BY <2>2 DEF InitFile
        <3>3. QED
            BY <2>2, <3>1, <3>2 DEF ArchiveAccepted
    <2>3. CASE archive.module # <<>>
        <3>1. /\ machine.archive \in ArchiveFile /\ a.entries = es
              /\ a.garbage = machine.archive.garbage
              /\ a.len = m.end - m.start /\ m.start \in Nat /\ m.end \in Nat /\ m.start < m.end
              /\ archive.module = FindModule(summary, "initramfs")
            BY <2>3, ArchiveFacts
        <3>2. es \in Seq(ArchiveEntry) /\ a.entries \in Seq(ArchiveEntry)
            BY <3>1 DEF ArchiveFile
        <3>3. a.len \in Nat /\ MaxArchiveSize \in Nat
            BY <3>1, BootAssumption
        <3>4. a.garbage \in BOOLEAN
            BY <3>1 DEF ArchiveFile
        <3>5. PICK f : IsOffsets(f, a.entries)
            BY <3>2, OffsetsExist
        <3>6. InitFile = Find(a, archive, InitPath)
            BY <2>3 DEF InitFile
        <3>7. CASE a.len > MaxArchiveSize
            <4>1. archive = [NoArchive EXCEPT !.module = archive.module]
                BY <2>1, <2>3, <3>1, <3>7 DEF ArchiveOf
            <4>2. ~ archive.valid
                BY <4>1 DEF NoArchive
            <4>3. InitFile = {}
                BY <3>6, <4>2 DEF Find
            <4>4. ~ (a.len <= MaxArchiveSize) /\ ~ (a.len = BuiltArchive.len)
                BY <3>3, <3>7, BootAssumption
            <4>5. QED
                BY <4>2, <4>3, <4>4 DEF ArchiveAccepted
        <3>8. CASE ~ (a.len > MaxArchiveSize)
            <4> DEFINE parsed == ParseArchive(a)
            <4>1. archive = [valid |-> parsed.valid, initSize |-> parsed.initSize,
                             module |-> archive.module]
                BY <2>1, <2>3, <3>1, <3>8 DEF ArchiveOf
            <4>2. (archive.valid <=> parsed.valid) /\ archive.initSize = parsed.initSize
                BY <4>1
            <4>3. parsed.valid <=> \E t \in 1 .. Len(a.entries) : EndsAt(a, f, t)
                BY <3>2, <3>3, <3>4, <3>5, ParseArchiveIs
            <4>4. parsed.valid => \E t \in 1 .. Len(a.entries), j \in 1 .. Len(a.entries) :
                    /\ EndsAt(a, f, t) /\ j < t /\ a.entries[j].name = InitPath
                    /\ parsed.initSize = a.entries[j].size
                BY <3>2, <3>3, <3>4, <3>5, ParseArchiveIs
            <4> HIDE DEF parsed, a, m
            <4>5. a.len <= MaxArchiveSize
                BY <3>3, <3>8
            <4>6. archive.valid <=> IsArchive(a)
                BY <3>2, <3>5, <4>2, <4>3, IsArchiveEnds
            <4>7. archive.valid <=> InitFile # {}
                <5>1. archive.valid => InitFile # {}
                    BY <3>2, <3>3, <3>5, <3>6, <4>2, <4>3, FindFinds
                <5>2. InitFile # {} => archive.valid
                    BY <3>6 DEF Find
                <5>3. QED
                    BY <5>1, <5>2
            <4>8. ASSUME NEW file \in InitFile
                  PROVE  /\ file.start \in Nat /\ file.end \in Nat
                         /\ file = [start |-> file.start, end |-> file.end]
                         /\ \E i \in 1 .. Len(es) :
                               /\ i \in Compared(a) /\ es[i].name = InitPath
                               /\ file.end - file.start = es[i].size
                               /\ file.start = DataStart(es[i], FindOffset(a, i))
                <5>1. /\ file.start \in Nat /\ file.end \in Nat
                      /\ file = [start |-> file.start, end |-> file.end]
                      /\ \E i \in Compared(a) : /\ a.entries[i].name = InitPath
                                     /\ file.end - file.start = a.entries[i].size
                                     /\ file.start = DataStart(a.entries[i], FindOffset(a, i))
                    BY <3>2, <3>3, <3>6, FindInside
                <5>2. Compared(a) \subseteq 1 .. Len(es)
                    BY <3>1, <3>2 DEF Compared
                <5>3. QED
                    BY <3>1, <5>1, <5>2
            <4>9. ASSUME Cardinality({i \in DOMAIN es : es[i].name = InitPath}) = 1,
                         NEW file \in InitFile
                  PROVE  file.end - file.start = archive.initSize
                <5> DEFINE I == {i \in DOMAIN es : es[i].name = InitPath}
                <5>1. PICK i \in 1 .. Len(es) :
                         es[i].name = InitPath /\ file.end - file.start = es[i].size
                    BY <4>8, <4>9
                <5>2. PICK j \in 1 .. Len(es) :
                         es[j].name = InitPath /\ archive.initSize = es[j].size
                    BY <3>1, <4>2, <4>4, <4>7, <4>9
                <5>3. i \in I /\ j \in I
                    BY <3>2, <5>1, <5>2
                <5>4. IsFiniteSet(I)
                    <6>1. IsFiniteSet(1 .. Len(es)) /\ I \subseteq 1 .. Len(es)
                        BY <3>2, FS_Interval
                    <6>2. QED
                        BY <6>1, FS_Subset
                <5>5. Cardinality(I) = 1
                    BY <4>9
                <5> HIDE DEF I
                <5>6. i = j
                    <6>1. i # j => Cardinality(I) > 1
                        BY <5>3, <5>4, TwoElements
                    <6>2. QED
                        BY <5>5, <6>1
                <5>7. QED
                    BY <5>1, <5>2, <5>6
            <4>10. ASSUME machine.archive = BuiltArchive.archive, a.len = BuiltArchive.len
                   PROVE  InitFile = {[start |-> BuiltArchive.initStart,
                                       end |-> BuiltArchive.initStart + InitElfSize]}
                <5>1. /\ Len(es) = 3 /\ EndsAt(a, f, 3)
                      /\ es[1].name # InitPath /\ es[3].name # InitPath
                      /\ es[2] = InitEntryOf
                      /\ DataStart(es[2], f[1]) = BuiltArchive.initStart
                    <6>1. a.garbage = FALSE /\ a.entries = BuiltArchive.archive.entries
                        BY <3>1, <4>10, BuiltIs
                    <6>2. QED
                        BY <3>1, <3>2, <3>5, <4>10, <6>1, BuiltEnds
                <5>2. InitFile # {}
                    BY <3>1, <4>2, <4>3, <4>7, <5>1
                <5>3. ASSUME NEW file \in InitFile
                      PROVE  file = [start |-> BuiltArchive.initStart,
                                     end |-> BuiltArchive.initStart + InitElfSize]
                    <6>1. PICK i \in 1 .. 3 :
                             /\ i \in Compared(a) /\ es[i].name = InitPath
                             /\ file.end - file.start = es[i].size
                             /\ file.start = DataStart(es[i], FindOffset(a, i))
                        BY <4>8, <5>1
                    <6>2. i = 2
                        BY <5>1, <6>1
                    <6>3. FindOffset(a, 2) = f[1]
                        <7>1. GoodFiles(a, f, 3 - 1)
                            BY <5>1 DEF EndsAt
                        <7>2. 3 - 1 = 2 /\ 2 \in 0 .. Len(a.entries) /\ 2 \in 1 .. 2 /\ 2 - 1 = 1
                            BY <3>1, <5>1
                        <7>3. QED
                            BY <3>2, <3>3, <3>5, <7>1, <7>2, FilesCompared
                    <6>4. file.start = BuiltArchive.initStart
                        BY <5>1, <6>1, <6>2, <6>3
                    <6>5. es[2].size = InitElfSize
                        BY <5>1 DEF InitEntryOf
                    <6>6. file.end = file.start + InitElfSize
                        <7>1. file.end - file.start = InitElfSize
                            BY <6>1, <6>2, <6>5
                        <7>2. file.start \in Nat /\ file.end \in Nat
                            BY <4>8
                        <7>3. QED
                            BY <7>1, <7>2
                    <6>7. file = [start |-> file.start, end |-> file.end]
                        BY <4>8
                    <6>8. QED
                        BY <6>4, <6>6, <6>7
                <5>4. QED
                    BY <5>2, <5>3
            <4>11. QED
                BY <2>3, <4>5, <4>6, <4>7, <4>9, <4>10 DEF ArchiveAccepted, a, m
        <3>9. QED
            BY <3>7, <3>8
    <2>4. QED
        BY <2>2, <2>3
<1>2. QED
    BY <1>1, BootInductive, PTL

-----------------------------------------------------------------------------
(* The image of /bin/init: pages of a segment.                             *)

LEMMA PageSizes ==
    /\ PageSize \in Nat /\ PageSize > 0 /\ MaxWord \in Nat /\ ElfBase \in Nat /\ ElfEnd \in Nat
    /\ MaxProgramHeaders \in Nat /\ MaxLoadSegments \in Nat /\ MaxLoadPages \in Nat
    /\ ElfBase % PageSize = 0 /\ ElfEnd % PageSize = 0 /\ ElfEnd + PageSize <= MaxWord
    BY ElfImageAssumption

LEMMA HeaderTypes ==
    ASSUME NEW s \in ProgramHeader
    PROVE  /\ s.load \in BOOLEAN /\ s.r \in BOOLEAN /\ s.w \in BOOLEAN /\ s.x \in BOOLEAN
           /\ s.offset \in Nat /\ s.vaddr \in Nat /\ s.filesz \in Nat /\ s.memsz \in Nat
           /\ s.align \in Nat
    BY DEF ProgramHeader

\* The first page of a segment and the one after its last.
FirstPage(s) == s.vaddr \div PageSize
PageAfter(s) == (s.vaddr + s.memsz + PageSize - 1) \div PageSize

LEMMA DivMonotone ==
    ASSUME NEW a \in Nat, NEW q \in Nat, NEW d \in Nat, d > 0
    PROVE  /\ a <= d * q => a \div d <= q
           /\ d * q <= a => q <= a \div d
           /\ a <= d * q => (a + d - 1) \div d <= q
<1> DEFINE b == a \div d
           r == a % d
           e == a + d - 1
           c == e \div d
           t == e % d
<1>0. e \in Nat
    OBVIOUS
<1>1. b \in Nat /\ r \in Nat /\ r < d /\ a = d * b + r
    BY DivMod
<1>2. c \in Nat /\ t \in Nat /\ t < d /\ e = d * c + t
    <2> HIDE DEF e
    <2>1. QED
        BY <1>0, DivMod
<1> HIDE DEF b, r, c, t
<1>3. /\ q < b => d * q + d <= d * b
      /\ b < q => d * b + d <= d * q
      /\ q < c => d * q + d <= d * c
      /\ d * q \in Nat /\ d * b \in Nat /\ d * c \in Nat
    BY <1>1, <1>2, TimesMonotone
<1> DEFINE x == d * q
           y == d * b
           z == d * c
<1>4. /\ q < b => x + d <= y
      /\ b < q => y + d <= x
      /\ q < c => x + d <= z
      /\ x \in Nat /\ y \in Nat /\ z \in Nat /\ a = y + r /\ e = z + t
    BY <1>1, <1>2, <1>3
<1> HIDE DEF x, y, z
<1>5. a <= x => ~ (q < b)
    BY <1>1, <1>4
<1>6. x <= a => ~ (b < q)
    BY <1>1, <1>4
<1>7. a <= x => ~ (q < c)
    BY <1>2, <1>4
<1>8. QED
    BY <1>1, <1>2, <1>5, <1>6, <1>7 DEF b, c, x

LEMMA PageFacts ==
    ASSUME NEW s \in ProgramHeader
    PROVE  /\ FirstPage(s) \in Nat /\ PageAfter(s) \in Nat
           /\ PageStart(s) = PageSize * FirstPage(s) /\ PageEnd(s) = PageSize * PageAfter(s)
           /\ PageStart(s) \in Nat /\ PageEnd(s) \in Nat
           /\ SegmentPages(s) = FirstPage(s) .. PageAfter(s) - 1
           /\ s.memsz > 0 => FirstPage(s) < PageAfter(s)
           /\ MemoryEnd(s) <= ElfEnd => PageAfter(s) <= ElfEnd \div PageSize
<1> DEFINE v == s.vaddr
           m == s.memsz
           d == PageSize
           a == v \div d
           r == v % d
           e == v + m
           f == e + d - 1
           b == f \div d
           t == f % d
<1>0. v \in Nat /\ m \in Nat /\ d \in Nat /\ d > 0 /\ e \in Nat /\ f \in Nat
    BY HeaderTypes, PageSizes
<1>1. a \in Nat /\ r \in Nat /\ r < d /\ v = d * a + r
    <2> HIDE DEF v, d
    <2>1. QED
        BY <1>0, DivMod
<1>2. b \in Nat /\ t \in Nat /\ t < d /\ f = d * b + t
    <2> HIDE DEF f, d
    <2>1. QED
        BY <1>0, DivMod
<1>3. FirstPage(s) = a /\ PageAfter(s) = b
    BY DEF FirstPage, PageAfter
<1>4. PageStart(s) = v - r /\ PageEnd(s) = b * d /\ MemoryEnd(s) = e
    BY DEF PageStart, PageEnd, MemoryEnd
<1>5. /\ a < b <=> d * a < d * b
      /\ d * a \in Nat /\ d * b \in Nat
    <2> HIDE DEF a, b, d
    <2>1. QED
        BY <1>0, <1>1, <1>2, TimesMonotone
<1>6. /\ (d * a) \div d = a /\ (d * b) \div d = b /\ b * d = d * b
    <2> HIDE DEF a, b, d
    <2>1. QED
        BY <1>0, <1>1, <1>2, TimesMod
<1>7. e <= ElfEnd => b <= ElfEnd \div d
    <2> DEFINE q == ElfEnd \div d
    <2>1. q \in Nat /\ ElfEnd = d * q + (ElfEnd % d) /\ ElfEnd % d = 0
        BY <1>0, DivMod, PageSizes
    <2> HIDE DEF q, e, d
    <2>2. d * q \in Nat
        BY <1>0, <2>1
    <2>3. ElfEnd = d * q
        BY <2>1, <2>2
    <2>4. e <= d * q => b <= q
        BY <1>0, <2>1, DivMonotone
    <2>5. QED
        BY <2>3, <2>4 DEF q
<1> DEFINE x == d * a
           y == d * b
<1>8. /\ a < b <=> x < y
      /\ x \in Nat /\ y \in Nat /\ v = x + r /\ f = y + t /\ f = v + m + d - 1
    BY <1>0, <1>1, <1>2, <1>5
<1> HIDE DEF x, y, a, b, r, t, v, m, d, f
<1>9. v - r = x
    BY <1>0, <1>1, <1>8
<1>10. m > 0 => a < b
    BY <1>0, <1>1, <1>2, <1>8
<1>11. PageStart(s) = x /\ PageEnd(s) = y
    BY <1>4, <1>6, <1>9 DEF y
<1>12. SegmentPages(s) = a .. b - 1
    BY <1>6, <1>11 DEF SegmentPages, x, y, d
<1>13. QED
    BY <1>1, <1>2, <1>3, <1>4, <1>7, <1>8, <1>10, <1>11, <1>12 DEF x, y, d, m

\* Segments overlap if they have a page in common; a segment counts its pages.
LEMMA PagesMeet ==
    ASSUME NEW s \in ProgramHeader, NEW t \in ProgramHeader, s.memsz > 0, t.memsz > 0
    PROVE  /\ PagesOverlap(s, t) <=> SegmentPages(s) \cap SegmentPages(t) # {}
           /\ IsFiniteSet(SegmentPages(s)) /\ Cardinality(SegmentPages(s)) = PageCount(s)
           /\ PageCount(s) \in Nat
<1> DEFINE a == FirstPage(s)
           b == PageAfter(s)
           u == FirstPage(t)
           v == PageAfter(t)
<1>1. /\ a \in Nat /\ b \in Nat /\ a < b /\ SegmentPages(s) = a .. b - 1
      /\ PageStart(s) = PageSize * a /\ PageEnd(s) = PageSize * b
    BY PageFacts
<1>2. /\ u \in Nat /\ v \in Nat /\ u < v /\ SegmentPages(t) = u .. v - 1
      /\ PageStart(t) = PageSize * u /\ PageEnd(t) = PageSize * v
    BY PageFacts
<1> HIDE DEF a, b, u, v
<1>3. /\ a < v <=> PageSize * a < PageSize * v
      /\ u < b <=> PageSize * u < PageSize * b
    BY <1>1, <1>2, TimesMonotone, PageSizes
<1>4. PagesOverlap(s, t) <=> a < v /\ u < b
    BY <1>1, <1>2, <1>3 DEF PagesOverlap
<1>5. (a .. b - 1) \cap (u .. v - 1) # {} <=> a < v /\ u < b
    <2>1. ASSUME a < v, u < b PROVE (a .. b - 1) \cap (u .. v - 1) # {}
        <3>1. CASE a <= u
            <4>1. u \in (a .. b - 1) \cap (u .. v - 1)
                BY <1>1, <1>2, <2>1, <3>1
            <4>2. QED
                BY <4>1
        <3>2. CASE u <= a
            <4>1. a \in (a .. b - 1) \cap (u .. v - 1)
                BY <1>1, <1>2, <2>1, <3>2
            <4>2. QED
                BY <4>1
        <3>3. QED
            BY <1>1, <1>2, <3>1, <3>2
    <2>2. QED
        BY <1>1, <1>2, <2>1
<1>6. IsFiniteSet(a .. b - 1) /\ Cardinality(a .. b - 1) = b - a
    <2>1. b - 1 \in Int /\ a \in Int /\ a <= b - 1 /\ (b - 1) - a + 1 = b - a
        BY <1>1
    <2>2. IsFiniteSet(a .. b - 1) /\ Cardinality(a .. b - 1) =
             IF a > b - 1 THEN 0 ELSE (b - 1) - a + 1
        BY <2>1, FS_Interval
    <2>3. QED
        BY <1>1, <2>1, <2>2
<1>7. PageCount(s) = b - a
    <2> DEFINE k == b - a
    <2>1. k \in Nat /\ PageSize * k = PageSize * b - PageSize * a
        BY <1>1, PageSizes
    <2> HIDE DEF k
    <2>2. (PageSize * k) \div PageSize = k
        BY <2>1, TimesMod, PageSizes
    <2>3. PageCount(s) = (PageSize * b - PageSize * a) \div PageSize
        BY <1>1 DEF PageCount
    <2>4. QED
        BY <2>1, <2>2, <2>3 DEF k
<1>8. QED
    BY <1>1, <1>2, <1>4, <1>5, <1>6, <1>7

-----------------------------------------------------------------------------
(* The loop over the program headers.                                      *)

ImagePlan == [ok : BOOLEAN, segments : Seq(ProgramHeader), pages : Nat, entryOk : BOOLEAN,
              start : Nat, end : Nat]

Loads(s) == s.load /\ s.filesz + s.memsz > 0
EntersAt(image, s) == s.x /\ image.entry \in s.vaddr .. MemoryEnd(s) - 1

\* The segment is refused, by itself or after the ones of the plan.
SegmentRefused(image, p, s) ==
    \/ s.filesz > s.memsz
    \/ ~ SegmentOk(image, s)
    \/ Len(p.segments) >= MaxLoadSegments
    \/ \E i \in DOMAIN p.segments : PagesOverlap(s, p.segments[i])
    \/ p.pages + PageCount(s) > MaxLoadPages

AddsSegment(image, p, s, q) ==
    /\ q.ok /\ q.segments = Append(p.segments, s)
    /\ q.pages = p.pages + PageCount(s)
    /\ q.entryOk <=> (p.entryOk \/ EntersAt(image, s))
    /\ q.start <= p.start /\ q.start <= PageStart(s)
    /\ p.end <= q.end /\ PageEnd(s) <= q.end

\* What a turn makes of the plan p.
PlanTurn(image, p, s, q) ==
    /\ q \in ImagePlan
    /\ ~ (p.ok /\ Loads(s)) => q = p
    /\ p.ok /\ Loads(s) /\ SegmentRefused(image, p, s) => ~ q.ok
    /\ p.ok /\ Loads(s) /\ ~ SegmentRefused(image, p, s) => AddsSegment(image, p, s, q)

LEMMA PlanTypes ==
    ASSUME NEW p \in ImagePlan
    PROVE  /\ p.ok \in BOOLEAN /\ p.segments \in Seq(ProgramHeader) /\ p.pages \in Nat
           /\ p.entryOk \in BOOLEAN /\ p.start \in Nat /\ p.end \in Nat
    BY DEF ImagePlan

LEMMA LoadsMeans ==
    ASSUME NEW s \in ProgramHeader
    PROVE  /\ Loads(s) <=> ~ (~ s.load \/ (s.filesz = 0 /\ s.memsz = 0))
           /\ Loads(s) /\ ~ (s.filesz > s.memsz) => s.memsz > 0
    BY HeaderTypes DEF Loads

LEMMA PlanSegmentTurns ==
    ASSUME NEW image, NEW p \in ImagePlan, NEW s \in ProgramHeader
    PROVE  PlanTurn(image, p, s, PlanSegment(image, p, s))
<1> DEFINE q == PlanSegment(image, p, s)
<1>1. CASE ~ (p.ok /\ Loads(s))
    <2>1. q = p
        BY <1>1, LoadsMeans DEF PlanSegment
    <2> HIDE DEF q
    <2>2. PlanTurn(image, p, s, q)
        BY <1>1, <2>1 DEF PlanTurn
    <2>3. QED
        BY <2>2 DEF q
<1>2. CASE p.ok /\ Loads(s) /\ SegmentRefused(image, p, s)
    <2>1. q = [p EXCEPT !.ok = FALSE]
        BY <1>2, LoadsMeans DEF PlanSegment, SegmentRefused
    <2> HIDE DEF q
    <2>2. q \in ImagePlan /\ ~ q.ok
        BY <2>1 DEF ImagePlan
    <2>3. PlanTurn(image, p, s, q)
        BY <1>2, <2>2 DEF PlanTurn
    <2>4. QED
        BY <2>3 DEF q
<1>3. CASE p.ok /\ Loads(s) /\ ~ SegmentRefused(image, p, s)
    <2> DEFINE b == p.entryOk \/ EntersAt(image, s)
               u == Append(p.segments, s)
               n == p.pages + PageCount(s)
               f == IF PageStart(s) < p.start THEN PageStart(s) ELSE p.start
               l == IF PageEnd(s) > p.end THEN PageEnd(s) ELSE p.end
    <2>1. q = [ok |-> TRUE, segments |-> u, pages |-> n, entryOk |-> b, start |-> f, end |-> l]
        BY <1>3, LoadsMeans DEF PlanSegment, SegmentRefused, EntersAt
    <2>2. b \in BOOLEAN
        OBVIOUS
    <2>3. u \in Seq(ProgramHeader)
        BY PlanTypes
    <2>4. s.memsz > 0
        BY <1>3, LoadsMeans DEF SegmentRefused
    <2>5. n \in Nat
        BY <2>4, PagesMeet, PlanTypes
    <2>6. PageStart(s) \in Nat /\ PageEnd(s) \in Nat /\ p.start \in Nat /\ p.end \in Nat
        BY PageFacts, PlanTypes
    <2>7. f \in Nat /\ l \in Nat /\ f <= p.start /\ f <= PageStart(s) /\ p.end <= l /\ PageEnd(s) <= l
        BY <2>6
    <2> HIDE DEF q, b, u, n, f, l
    <2>8. q \in ImagePlan
        BY <2>1, <2>2, <2>3, <2>5, <2>7 DEF ImagePlan
    <2>9. q.ok /\ q.segments = u /\ q.pages = n /\ q.entryOk = b /\ q.start = f /\ q.end = l
        BY <2>1
    <2>10. AddsSegment(image, p, s, q)
        BY <2>7, <2>9 DEF AddsSegment, u, n, b
    <2>11. PlanTurn(image, p, s, q)
        BY <1>3, <2>8, <2>10 DEF PlanTurn
    <2>12. QED
        BY <2>11 DEF q
<1>4. QED
    BY <1>1, <1>2, <1>3

FreshPlan == [NoPlan EXCEPT !.ok = TRUE]

LEMMA FreshPlanFields ==
    /\ FreshPlan \in ImagePlan /\ FreshPlan.ok /\ FreshPlan.segments = << >>
    /\ FreshPlan.pages = 0 /\ FreshPlan.entryOk = FALSE
<1>1. << >> \in Seq(ProgramHeader) /\ MaxWord \in Nat
    BY PageSizes
<1>2. /\ NoPlan \in ImagePlan /\ NoPlan.segments = << >> /\ NoPlan.pages = 0
      /\ NoPlan.entryOk = FALSE
    BY <1>1 DEF ImagePlan, NoPlan
<1>3. /\ FreshPlan \in ImagePlan /\ FreshPlan.ok /\ FreshPlan.segments = NoPlan.segments
      /\ FreshPlan.pages = NoPlan.pages /\ FreshPlan.entryOk = NoPlan.entryOk
    BY <1>2 DEF ImagePlan, FreshPlan
<1>4. QED
    BY <1>2, <1>3

IsPlanning(g, image) ==
    /\ g \in [0 .. Len(image.headers) -> ImagePlan]
    /\ g[0] = FreshPlan
    /\ \A i \in 1 .. Len(image.headers) : PlanTurn(image, g[i - 1], image.headers[i], g[i])

LEMMA PlanningExists ==
    ASSUME NEW image, image.headers \in Seq(ProgramHeader)
    PROVE  \E g : /\ IsPlanning(g, image)
                  /\ ValidateImage(image) =
                        LET plan_1 == g[Len(image.headers)]
                        IN  IF /\ HeaderOk(image) /\ plan_1.ok /\ plan_1.segments # <<>>
                               /\ plan_1.entryOk
                            THEN plan_1 ELSE NoPlan
<1> DEFINE n == Len(image.headers)
           h(i) == image.headers[i]
           D == ImagePlan
           Rec(f) == f = [i \in 0 .. n |-> IF i = 0 THEN FreshPlan
                                           ELSE PlanSegment(image, f[i - 1], image.headers[i])]
           step == [z \in D \X (1 .. n) |-> PlanSegment(image, z[1], h(z[2]))]
<1>1. n \in Nat /\ n \in 0 .. n /\ \A i \in 1 .. n : h(i) \in ProgramHeader
    OBVIOUS
<1>3. ValidateImage(image) =
         LET plan_1 == (CHOOSE f : Rec(f))[n]
         IN  IF HeaderOk(image) /\ plan_1.ok /\ plan_1.segments # <<>> /\ plan_1.entryOk
             THEN plan_1 ELSE NoPlan
    BY DEF ValidateImage, FreshPlan
<1> HIDE DEF n
<1>5. FreshPlan \in D
    BY FreshPlanFields
<1>6. ASSUME NEW x \in D, NEW i \in 1 .. n
      PROVE  PlanSegment(image, x, h(i)) \in D /\ PlanTurn(image, x, h(i), PlanSegment(image, x, h(i)))
    <2> DEFINE p == PlanSegment(image, x, h(i))
    <2>1. PlanTurn(image, x, h(i), p)
        <3>1. h(i) \in ProgramHeader
            BY <1>1
        <3> HIDE DEF h
        <3>2. QED
            BY <3>1, PlanSegmentTurns
    <2> HIDE DEF p
    <2>2. p \in D
        BY <2>1 DEF PlanTurn
    <2>3. QED
        BY <2>1, <2>2 DEF p
<1> HIDE DEF D, h
<1>9. /\ step \in [D \X (1 .. n) -> D]
      /\ \A x \in D, i \in 1 .. n : step[<<x, i>>] = PlanSegment(image, x, h(i))
    BY <1>6
<1> HIDE DEF step
<1>10. IsStep(step, n, D)
    BY <1>9 DEF IsStep
<1>11. PICK f : IsRun(f, n, D, FreshPlan, step)
    BY <1>1, <1>5, <1>10, RunExists
<1>12. f \in [0 .. n -> D] /\ f[0] = FreshPlan /\ \A i \in 1 .. n : f[i] = step[<<f[i - 1], i>>]
    BY <1>11 DEF IsRun
<1>13. ASSUME NEW i \in 1 .. n PROVE f[i] = PlanSegment(image, f[i - 1], image.headers[i])
    <2>1. i - 1 \in 0 .. n
        BY <1>1
    <2>2. QED
        BY <1>9, <1>12, <2>1 DEF h
<1>14. Rec(f)
    <2>1. \A i \in 0 .. n : f[i] = IF i = 0 THEN FreshPlan
                                   ELSE PlanSegment(image, f[i - 1], image.headers[i])
        BY <1>1, <1>12, <1>13
    <2>2. QED
        BY <1>12, <2>1
<1> DEFINE g == CHOOSE f_1 : Rec(f_1)
<1>15. Rec(g)
    BY <1>14
<1>21. g[n] = (CHOOSE f_1 : Rec(f_1))[n]
    OBVIOUS
<1> HIDE DEF g
<1>20. /\ g[0] = FreshPlan
       /\ \A i \in 1 .. n : g[i] = PlanSegment(image, g[i - 1], image.headers[i])
    BY <1>1, <1>15
<1>16. IsRun(g, n, D, FreshPlan, step)
    <2>1. g = [i \in 0 .. n |-> g[i]]
        BY <1>15
    <2>3. \A i \in 1 .. n : g[i - 1] \in D => g[i] = step[<<g[i - 1], i>>]
        BY <1>9, <1>20 DEF h
    <2>4. QED
        BY <1>1, <1>5, <1>10, <1>20, <2>1, <2>3, RunInside
<1>17. g \in [0 .. n -> D]
    BY <1>16 DEF IsRun
<1>18. ASSUME NEW i \in 1 .. n PROVE PlanTurn(image, g[i - 1], image.headers[i], g[i])
    <2>1. i - 1 \in 0 .. n
        BY <1>1
    <2>2. QED
        BY <1>6, <1>17, <1>20, <2>1 DEF h
<1>19. QED
    <2>1. IsPlanning(g, image)
        BY <1>17, <1>18, <1>20 DEF IsPlanning, n, D
    <2>2. QED
        BY <1>3, <2>1 DEF g, n

-----------------------------------------------------------------------------
(* The segments and the pages that the first i turns have to place.        *)

LoadedUpTo(image, i) == {j \in 1 .. i : Loads(image.headers[j])}
PagesUpTo(image, i) == UNION {SegmentPages(image.headers[j]) : j \in LoadedUpTo(image, i)}

LEMMA FiniteUpTo ==
    ASSUME NEW image, image.headers \in Seq(ProgramHeader), NEW i \in 0 .. Len(image.headers)
    PROVE  /\ IsFiniteSet(LoadedUpTo(image, i)) /\ Cardinality(LoadedUpTo(image, i)) \in Nat
           /\ IsFiniteSet(PagesUpTo(image, i)) /\ Cardinality(PagesUpTo(image, i)) \in Nat
<1> DEFINE L == LoadedUpTo(image, i)
           P(j) == SegmentPages(image.headers[j])
<1>1. IsFiniteSet(1 .. i)
    BY FS_Interval
<1>2. IsFiniteSet(L)
    <2>1. L \subseteq 1 .. i
        BY DEF LoadedUpTo
    <2>2. QED
        BY <1>1, <2>1, FS_Subset
<1>3. ASSUME NEW j \in L PROVE IsFiniteSet(P(j))
    <2>1. j \in 1 .. Len(image.headers)
        BY DEF LoadedUpTo
    <2> DEFINE s == image.headers[j]
    <2>2. s \in ProgramHeader
        BY <2>1
    <2> HIDE DEF s
    <2>3. FirstPage(s) \in Int /\ PageAfter(s) - 1 \in Int /\ SegmentPages(s) = FirstPage(s) .. PageAfter(s) - 1
        BY <2>2, PageFacts
    <2>4. IsFiniteSet(SegmentPages(s))
        BY <2>3, FS_Interval
    <2>5. QED
        BY <2>4 DEF s
<1> HIDE DEF L, P
<1>4. IsFiniteSet({P(j) : j \in L})
    <2> DEFINE f == [j \in L |-> P(j)]
    <2>1. f \in Surjection(L, {P(j) : j \in L})
        BY DEF Surjection
    <2> HIDE DEF f
    <2>2. QED
        BY <1>2, <2>1, FS_Surjection
<1>5. IsFiniteSet(UNION {P(j) : j \in L})
    <2> DEFINE Q == {P(j) : j \in L}
    <2>1. \A T \in Q : IsFiniteSet(T)
        BY <1>3
    <2> HIDE DEF Q
    <2>2. IsFiniteSet(Q)
        BY <1>4 DEF Q
    <2>3. IsFiniteSet(UNION Q)
        BY <2>1, <2>2, FS_UNION
    <2>4. QED
        BY <2>3 DEF Q
<1>6. QED
    <2>1. PagesUpTo(image, i) = UNION {P(j) : j \in L}
        BY DEF PagesUpTo, P, L
    <2>2. IsFiniteSet(L) /\ IsFiniteSet(PagesUpTo(image, i))
        BY <1>2, <1>5, <2>1
    <2>3. QED
        BY <2>2, FS_CardinalityType DEF L

\* What a turn adds to them.
LEMMA NextUpTo ==
    ASSUME NEW image, image.headers \in Seq(ProgramHeader), NEW i \in 0 .. Len(image.headers) - 1
    PROVE  LET s == image.headers[i + 1]
           IN  /\ ~ Loads(s) => LoadedUpTo(image, i + 1) = LoadedUpTo(image, i)
               /\ Loads(s) => /\ LoadedUpTo(image, i + 1) = LoadedUpTo(image, i) \cup {i + 1}
                              /\ i + 1 \notin LoadedUpTo(image, i)
                              /\ PagesUpTo(image, i + 1) = PagesUpTo(image, i) \cup SegmentPages(s)
                              /\ Cardinality(LoadedUpTo(image, i + 1)) = Cardinality(LoadedUpTo(image, i)) + 1
<1> DEFINE s == image.headers[i + 1]
           L == LoadedUpTo(image, i)
<1>1. /\ ~ Loads(s) => LoadedUpTo(image, i + 1) = L
      /\ Loads(s) => LoadedUpTo(image, i + 1) = L \cup {i + 1}
    <2>1. 1 .. i + 1 = (1 .. i) \cup {i + 1}
        OBVIOUS
    <2>2. QED
        BY <2>1 DEF LoadedUpTo
<1>2. i + 1 \notin L
    BY DEF LoadedUpTo
<1>3. ASSUME Loads(s) PROVE PagesUpTo(image, i + 1) = PagesUpTo(image, i) \cup SegmentPages(s)
    <2> DEFINE P(j) == SegmentPages(image.headers[j])
               k == i + 1
    <2>1. LoadedUpTo(image, k) = L \cup {k}
        BY <1>1, <1>3
    <2>2. PagesUpTo(image, k) = UNION {P(j) : j \in LoadedUpTo(image, k)}
        BY DEF PagesUpTo
    <2>3. PagesUpTo(image, i) = UNION {P(j) : j \in L} /\ P(k) = SegmentPages(s)
        BY DEF PagesUpTo
    <2> HIDE DEF P, L, s, k
    <2>4. UNION {P(j) : j \in L \cup {k}} = (UNION {P(j) : j \in L}) \cup P(k)
        OBVIOUS
    <2>5. PagesUpTo(image, k) = PagesUpTo(image, i) \cup SegmentPages(s)
        BY <2>1, <2>2, <2>3, <2>4
    <2>6. QED
        BY <2>5 DEF k
<1>4. IsFiniteSet(L)
    BY FiniteUpTo
<1>5. Cardinality(L \cup {i + 1}) = Cardinality(L) + 1
    <2> HIDE DEF L
    <2>1. QED
        BY <1>2, <1>4, FS_AddElement
<1>6. QED
    BY <1>1, <1>2, <1>3, <1>5

LEMMA AddsPages ==
    ASSUME NEW image, image.headers \in Seq(ProgramHeader), NEW i \in 0 .. Len(image.headers) - 1,
           Loads(image.headers[i + 1]), image.headers[i + 1].memsz > 0,
           PagesUpTo(image, i) \cap SegmentPages(image.headers[i + 1]) = {}
    PROVE  Cardinality(PagesUpTo(image, i + 1)) =
              Cardinality(PagesUpTo(image, i)) + PageCount(image.headers[i + 1])
<1> DEFINE s == image.headers[i + 1]
           P == PagesUpTo(image, i)
           Q == SegmentPages(s)
<1>1. s \in ProgramHeader /\ s.memsz > 0 /\ P \cap Q = {} /\ PagesUpTo(image, i + 1) = P \cup Q
    <2>1. PagesUpTo(image, i + 1) = P \cup Q
        BY NextUpTo
    <2>2. QED
        BY <2>1
<1>2. IsFiniteSet(P) /\ Cardinality(P) \in Nat
    BY FiniteUpTo
<1> HIDE DEF P, s
<1>3. IsFiniteSet(Q) /\ Cardinality(Q) = PageCount(s) /\ PageCount(s) \in Nat
    BY <1>1, PagesMeet
<1> HIDE DEF Q
<1>4. Cardinality(P \cup Q) = Cardinality(P) + Cardinality(Q) - Cardinality(P \cap Q)
    BY <1>2, <1>3, FS_Union
<1>5. Cardinality(P \cap Q) = 0
    BY <1>1, FS_EmptySet
<1>6. Cardinality(P \cup Q) = Cardinality(P) + PageCount(s)
    BY <1>2, <1>3, <1>4, <1>5
<1>7. QED
    BY <1>1, <1>6 DEF P, s

LEMMA UpToAll ==
    ASSUME NEW image, image.headers \in Seq(ProgramHeader), NEW i \in 0 .. Len(image.headers)
    PROVE  LET n == Len(image.headers)
           IN  /\ LoadedUpTo(image, n) = LoadSegments(image)
               /\ LoadedUpTo(image, i) \subseteq LoadedUpTo(image, n)
               /\ Cardinality(LoadedUpTo(image, i)) <= Cardinality(LoadedUpTo(image, n))
               /\ Cardinality(PagesUpTo(image, i)) <= Cardinality(PagesUpTo(image, n))
<1> DEFINE n == Len(image.headers)
<1>0. n \in Nat /\ n \in 0 .. n /\ DOMAIN image.headers = 1 .. n
    OBVIOUS
<1>1. LoadedUpTo(image, n) = LoadSegments(image)
    BY <1>0 DEF LoadedUpTo, LoadSegments, Loads
<1>2. LoadedUpTo(image, i) \subseteq LoadedUpTo(image, n)
    BY <1>0 DEF LoadedUpTo
<1>3. PagesUpTo(image, i) \subseteq PagesUpTo(image, n)
    BY <1>2 DEF PagesUpTo
<1>4. IsFiniteSet(LoadedUpTo(image, n)) /\ IsFiniteSet(PagesUpTo(image, n))
    BY <1>0, FiniteUpTo
<1>5. QED
    BY <1>1, <1>2, <1>3, <1>4, FS_Subset

-----------------------------------------------------------------------------
(* The plan after i turns.                                                 *)

DisjointPages(s, t) == SegmentPages(s) \cap SegmentPages(t) = {}
GoodSegment(image, s) == s.filesz <= s.memsz /\ SegmentOk(image, s)

EntryUpTo(image, i) == \E j \in LoadedUpTo(image, i) : EntersAt(image, image.headers[j])
EntryFound(image, p, i) == p.entryOk <=> EntryUpTo(image, i)

\* What the plan holds are the segments of the first i headers, and they fit.
Planned(image, p, i) ==
    /\ \A k \in 1 .. Len(p.segments) :
          \E j \in LoadedUpTo(image, i) : p.segments[k] = image.headers[j]
    /\ \A j \in LoadedUpTo(image, i) :
          \E k \in 1 .. Len(p.segments) : p.segments[k] = image.headers[j]
    /\ \A j \in LoadedUpTo(image, i) : GoodSegment(image, image.headers[j])
    /\ \A j, k \in LoadedUpTo(image, i) :
          j # k => DisjointPages(image.headers[j], image.headers[k])
    /\ \A j, k \in 1 .. Len(p.segments) : j # k => DisjointPages(p.segments[j], p.segments[k])
    /\ Cardinality(LoadedUpTo(image, i)) = Len(p.segments) /\ Len(p.segments) <= MaxLoadSegments
    /\ Cardinality(PagesUpTo(image, i)) = p.pages /\ p.pages <= MaxLoadPages
    /\ EntryFound(image, p, i)
    /\ \A k \in 1 .. Len(p.segments) :
          p.start <= PageStart(p.segments[k]) /\ PageEnd(p.segments[k]) <= p.end

\* The image fits the limits and no two of its segments share a page.
Placeable(image) ==
    LET n == Len(image.headers)
    IN  /\ \A j \in LoadedUpTo(image, n) : GoodSegment(image, image.headers[j])
        /\ \A j, k \in LoadedUpTo(image, n) :
              j # k => DisjointPages(image.headers[j], image.headers[k])
        /\ Cardinality(LoadedUpTo(image, n)) <= MaxLoadSegments
        /\ Cardinality(PagesUpTo(image, n)) <= MaxLoadPages

LEMMA PlannedAtFirst ==
    ASSUME NEW image, image.headers \in Seq(ProgramHeader)
    PROVE  Planned(image, FreshPlan, 0)
<1>1. LoadedUpTo(image, 0) = {}
    BY DEF LoadedUpTo
<1>2. PagesUpTo(image, 0) = {}
    BY <1>1 DEF PagesUpTo
<1>3. Cardinality({}) = 0
    BY FS_EmptySet
<1>4. FreshPlan.segments = << >> /\ FreshPlan.pages = 0 /\ FreshPlan.entryOk = FALSE
    BY FreshPlanFields
<1>5. Len(FreshPlan.segments) = 0
    BY <1>4
<1>6. 1 .. Len(FreshPlan.segments) = {}
    BY <1>5
<1>7. EntryFound(image, FreshPlan, 0)
    BY <1>1, <1>4, Zenon DEF EntryFound, EntryUpTo
<1>8. /\ Cardinality(LoadedUpTo(image, 0)) = Len(FreshPlan.segments)
      /\ Len(FreshPlan.segments) <= MaxLoadSegments
      /\ Cardinality(PagesUpTo(image, 0)) = FreshPlan.pages /\ FreshPlan.pages <= MaxLoadPages
    <2>1. FreshPlan.pages = 0 /\ 0 <= MaxLoadPages /\ 0 <= MaxLoadSegments
        BY <1>4, PageSizes
    <2>2. QED
        BY <1>1, <1>2, <1>3, <1>5, <2>1
<1>9. QED
    BY <1>1, <1>6, <1>7, <1>8, Zenon DEF Planned

\* A turn that refuses a segment does so for an image that cannot be placed.
LEMMA RefusedIsUnplaceable ==
    ASSUME NEW image, image.headers \in Seq(ProgramHeader), NEW i \in 0 .. Len(image.headers) - 1,
           NEW p \in ImagePlan, Planned(image, p, i),
           Loads(image.headers[i + 1]), SegmentRefused(image, p, image.headers[i + 1])
    PROVE  ~ Placeable(image)
<1> DEFINE n == Len(image.headers)
           s == image.headers[i + 1]
           L == LoadedUpTo(image, i)
           M == LoadedUpTo(image, n)
           K == LoadedUpTo(image, i + 1)
<1> SUFFICES ASSUME Placeable(image) PROVE FALSE
    OBVIOUS
<1>0. n \in Nat /\ i + 1 \in 0 .. n /\ i \in 0 .. n /\ s \in ProgramHeader
    OBVIOUS
<1>1. K = L \cup {i + 1} /\ i + 1 \notin L /\ Cardinality(K) = Cardinality(L) + 1
    BY NextUpTo
<1>2. K \subseteq M /\ Cardinality(K) <= Cardinality(M)
    BY <1>0, UpToAll
<1>3. i + 1 \in M /\ L \subseteq M
    BY <1>1, <1>2
<1>4. GoodSegment(image, s) /\ \A j \in L : DisjointPages(s, image.headers[j])
    BY <1>1, <1>3 DEF Placeable
<1>5. s.memsz > 0
    BY <1>0, <1>4, LoadsMeans, HeaderTypes DEF GoodSegment
<1>6. ~ (s.filesz > s.memsz) /\ SegmentOk(image, s)
    BY <1>0, <1>4, HeaderTypes DEF GoodSegment
<1>7. ~ (Len(p.segments) >= MaxLoadSegments)
    <2>1. Cardinality(L) = Len(p.segments) /\ Len(p.segments) \in Nat
        BY PlanTypes DEF Planned
    <2>2. Cardinality(M) <= MaxLoadSegments /\ Cardinality(M) \in Nat
        BY <1>0, FiniteUpTo DEF Placeable
    <2> HIDE DEF L, M, K
    <2>3. QED
        BY <1>1, <1>2, <2>1, <2>2, PageSizes
<1>8. ASSUME NEW k \in DOMAIN p.segments PROVE ~ PagesOverlap(s, p.segments[k])
    <2>1. k \in 1 .. Len(p.segments)
        BY PlanTypes
    <2>2. PICK j \in L : p.segments[k] = image.headers[j]
        BY <2>1 DEF Planned
    <2>3. DisjointPages(s, image.headers[j]) /\ GoodSegment(image, image.headers[j])
        BY <1>4, <2>2 DEF Planned
    <2>4. j \in 1 .. n /\ Loads(image.headers[j])
        BY DEF LoadedUpTo
    <2> DEFINE t == image.headers[j]
    <2>5. t \in ProgramHeader
        BY <2>4
    <2> HIDE DEF t, s
    <2>6. t.memsz > 0
        BY <2>3, <2>4, <2>5, LoadsMeans, HeaderTypes DEF GoodSegment, t
    <2>7. ~ PagesOverlap(s, t)
        BY <1>0, <1>5, <2>3, <2>5, <2>6, PagesMeet DEF DisjointPages, t
    <2>8. QED
        BY <2>2, <2>7 DEF t
<1>9. ~ (p.pages + PageCount(s) > MaxLoadPages)
    <2>1. PagesUpTo(image, i) \cap SegmentPages(s) = {}
        BY <1>4 DEF DisjointPages, PagesUpTo
    <2>2. Cardinality(PagesUpTo(image, i + 1)) = Cardinality(PagesUpTo(image, i)) + PageCount(s)
        BY <1>5, <2>1, AddsPages
    <2>3. Cardinality(PagesUpTo(image, i)) = p.pages
        BY DEF Planned
    <2>4. /\ Cardinality(PagesUpTo(image, i + 1)) <= Cardinality(PagesUpTo(image, n))
          /\ Cardinality(PagesUpTo(image, n)) <= MaxLoadPages
        BY <1>0, UpToAll DEF Placeable
    <2>5. Cardinality(PagesUpTo(image, i + 1)) \in Nat /\ Cardinality(PagesUpTo(image, n)) \in Nat
        BY <1>0, FiniteUpTo
    <2> HIDE DEF s, n
    <2>6. QED
        BY <2>2, <2>3, <2>4, <2>5, PageSizes
<1>10. QED
    BY <1>6, <1>7, <1>8, <1>9 DEF SegmentRefused

\* A turn that adds a segment keeps what the plan says.
LEMMA AddedIsPlanned ==
    ASSUME NEW image, image.headers \in Seq(ProgramHeader), NEW i \in 0 .. Len(image.headers) - 1,
           NEW p \in ImagePlan, Planned(image, p, i), NEW q \in ImagePlan,
           Loads(image.headers[i + 1]), ~ SegmentRefused(image, p, image.headers[i + 1]),
           AddsSegment(image, p, image.headers[i + 1], q)
    PROVE  Planned(image, q, i + 1)
<1> DEFINE s == image.headers[i + 1]
           L == LoadedUpTo(image, i)
           K == LoadedUpTo(image, i + 1)
           m == Len(p.segments)
           S == p.segments
           T == q.segments
<1>0. s \in ProgramHeader /\ m \in Nat /\ S \in Seq(ProgramHeader) /\ T = Append(S, s)
    BY PlanTypes DEF AddsSegment
<1>1. /\ Len(T) = m + 1 /\ \A k \in 1 .. m : T[k] = S[k]
      /\ T[m + 1] = s
    <2> HIDE DEF S, T, s
    <2>1. QED
        BY <1>0 DEF S
<1>2. K = L \cup {i + 1} /\ i + 1 \notin L /\ Cardinality(K) = Cardinality(L) + 1
    BY NextUpTo
<1>3. /\ ~ (s.filesz > s.memsz) /\ SegmentOk(image, s) /\ ~ (m >= MaxLoadSegments)
      /\ \A k \in 1 .. m : ~ PagesOverlap(s, S[k])
      /\ ~ (p.pages + PageCount(s) > MaxLoadPages)
    <2>1. DOMAIN S = 1 .. m
        BY <1>0
    <2>2. QED
        BY <2>1 DEF SegmentRefused
<1>4. s.memsz > 0
    BY <1>0, <1>3, LoadsMeans
<1>5. GoodSegment(image, s)
    BY <1>0, <1>3, HeaderTypes DEF GoodSegment
<1>6. ASSUME NEW j \in L PROVE DisjointPages(s, image.headers[j]) /\ DisjointPages(image.headers[j], s)
    <2>1. PICK k \in 1 .. m : S[k] = image.headers[j]
        BY DEF Planned
    <2>2. GoodSegment(image, image.headers[j])
        BY DEF Planned
    <2>3. j \in 1 .. Len(image.headers) /\ Loads(image.headers[j])
        BY DEF LoadedUpTo
    <2> DEFINE t == image.headers[j]
    <2>4. t \in ProgramHeader
        BY <2>3
    <2>5. ~ PagesOverlap(s, t)
        BY <1>3, <2>1
    <2> HIDE DEF t, s
    <2>6. t.memsz > 0
        BY <2>2, <2>3, <2>4, LoadsMeans, HeaderTypes DEF GoodSegment, t
    <2>7. DisjointPages(s, t) /\ DisjointPages(t, s)
        BY <1>0, <1>4, <2>4, <2>5, <2>6, PagesMeet DEF DisjointPages
    <2>8. QED
        BY <2>7 DEF t
<1>7. ASSUME NEW k \in 1 .. m PROVE DisjointPages(s, S[k]) /\ DisjointPages(S[k], s)
    <2>1. PICK j \in L : S[k] = image.headers[j]
        BY DEF Planned
    <2>2. QED
        BY <1>6, <2>1
<1>8. \A k \in 1 .. Len(T) : k \in 1 .. m \/ k = m + 1
    BY <1>0, <1>1
<1>9. 1 .. m \subseteq 1 .. Len(T) /\ m + 1 \in 1 .. Len(T) /\ m + 1 \notin 1 .. m
    BY <1>0, <1>1
<1>10. /\ \A k \in 1 .. Len(T) : \E j \in K : T[k] = image.headers[j]
    <2>1. ASSUME NEW k \in 1 .. m PROVE \E j \in K : T[k] = image.headers[j]
        BY <1>1, <1>2 DEF Planned
    <2>2. \E j \in K : T[m + 1] = image.headers[j]
        BY <1>1, <1>2
    <2>3. QED
        BY <1>8, <2>1, <2>2
<1>11. \A j \in K : \E k \in 1 .. Len(T) : T[k] = image.headers[j]
    <2>1. ASSUME NEW j \in L PROVE \E k \in 1 .. Len(T) : T[k] = image.headers[j]
        <3>1. PICK k \in 1 .. m : S[k] = image.headers[j]
            BY DEF Planned
        <3>2. QED
            BY <1>1, <1>9, <3>1
    <2>2. \E k \in 1 .. Len(T) : T[k] = image.headers[i + 1]
        BY <1>1, <1>9
    <2>3. QED
        BY <1>2, <2>1, <2>2
<1>12. \A j \in K : GoodSegment(image, image.headers[j])
    BY <1>2, <1>5 DEF Planned
<1>13. \A j, k \in K : j # k => DisjointPages(image.headers[j], image.headers[k])
    BY <1>2, <1>6 DEF Planned
<1>14. \A j, k \in 1 .. Len(T) : j # k => DisjointPages(T[j], T[k])
    <2>1. \A j, k \in 1 .. m : j # k => DisjointPages(S[j], S[k])
        BY DEF Planned
    <2> HIDE DEF S, T, m, s
    <2>2. QED
        BY <1>1, <1>7, <1>8, <2>1
<1>15. Cardinality(K) = Len(T) /\ Len(T) <= MaxLoadSegments
    <2>1. Cardinality(L) = m
        BY DEF Planned
    <2> HIDE DEF L, K, T, m
    <2>2. QED
        BY <1>0, <1>1, <1>2, <1>3, <2>1, PageSizes
<1>16. Cardinality(PagesUpTo(image, i + 1)) = q.pages /\ q.pages <= MaxLoadPages
    <2>1. PagesUpTo(image, i) \cap SegmentPages(s) = {}
        BY <1>6 DEF DisjointPages, PagesUpTo
    <2>2. Cardinality(PagesUpTo(image, i + 1)) = Cardinality(PagesUpTo(image, i)) + PageCount(s)
        BY <1>4, <2>1, AddsPages
    <2>3. Cardinality(PagesUpTo(image, i)) = p.pages /\ q.pages = p.pages + PageCount(s)
        BY DEF Planned, AddsSegment
    <2>4. p.pages \in Nat /\ q.pages \in Nat
        BY PlanTypes
    <2> HIDE DEF s
    <2>5. QED
        BY <1>3, <2>2, <2>3, <2>4, PageSizes
<1>17. EntryFound(image, q, i + 1)
    <2>1. EntryUpTo(image, i + 1) <=> (EntryUpTo(image, i) \/ EntersAt(image, s))
        BY <1>2, Zenon DEF EntryUpTo
    <2>2. q.entryOk <=> (p.entryOk \/ EntersAt(image, s))
        BY Zenon DEF AddsSegment
    <2>3. EntryFound(image, p, i)
        BY DEF Planned
    <2>4. QED
        BY <2>1, <2>2, <2>3, Zenon DEF EntryFound
<1>18. \A k \in 1 .. Len(T) : q.start <= PageStart(T[k]) /\ PageEnd(T[k]) <= q.end
    <2>1. q.start <= p.start /\ q.start <= PageStart(s) /\ p.end <= q.end /\ PageEnd(s) <= q.end
        BY DEF AddsSegment
    <2>2. p.start \in Nat /\ p.end \in Nat /\ q.start \in Nat /\ q.end \in Nat
        BY PlanTypes
    <2>3. ASSUME NEW k \in 1 .. m PROVE q.start <= PageStart(T[k]) /\ PageEnd(T[k]) <= q.end
        <3>1. p.start <= PageStart(S[k]) /\ PageEnd(S[k]) <= p.end
            BY DEF Planned
        <3>2. PageStart(S[k]) \in Nat /\ PageEnd(S[k]) \in Nat
            <4>1. S[k] \in ProgramHeader
                BY <1>0
            <4> HIDE DEF S
            <4>2. QED
                BY <4>1, PageFacts
        <3>3. T[k] = S[k]
            BY <1>1
        <3> HIDE DEF S, T
        <3>4. QED
            BY <2>1, <2>2, <3>1, <3>2, <3>3
    <2>4. QED
        BY <1>1, <1>8, <2>1, <2>3
<1>19. QED
    BY <1>10, <1>11, <1>12, <1>13, <1>14, <1>15, <1>16, <1>17, <1>18, Zenon DEF Planned

PlanInv(image, p, i) ==
    /\ p.ok => Planned(image, p, i)
    /\ ~ p.ok => ~ Placeable(image)

LEMMA PlanInvAtEnd ==
    ASSUME NEW image, image.headers \in Seq(ProgramHeader), NEW g, IsPlanning(g, image)
    PROVE  PlanInv(image, g[Len(image.headers)], Len(image.headers))
<1> DEFINE n == Len(image.headers)
           h(i) == image.headers[i]
           Inv == {i \in 0 .. n : PlanInv(image, g[i], i)}
<1>0. n \in Nat
    OBVIOUS
<1>1. 0 \in Inv
    <2>1. g[0] = FreshPlan /\ FreshPlan.ok
        BY FreshPlanFields DEF IsPlanning
    <2>2. PlanInv(image, g[0], 0)
        BY <2>1, PlannedAtFirst DEF PlanInv
    <2>3. QED
        BY <1>0, <2>2
<1>2. ASSUME NEW i \in 0 .. n - 1, i \in Inv
      PROVE  i + 1 \in Inv
    <2> DEFINE p == g[i]
               q == g[i + 1]
               s == image.headers[i + 1]
    <2>1. i + 1 \in 1 .. n /\ (i + 1) - 1 = i /\ i \in 0 .. n /\ i + 1 \in 0 .. n
        BY <1>0
    <2>2. p \in ImagePlan /\ q \in ImagePlan /\ PlanTurn(image, p, s, q)
        BY <2>1 DEF IsPlanning
    <2>3. PlanInv(image, p, i)
        BY <1>2
    <2> HIDE DEF p, q
    <2>4. CASE ~ p.ok
        <3>1. q = p
            BY <2>2, <2>4 DEF PlanTurn
        <3>2. PlanInv(image, q, i + 1)
            BY <2>3, <2>4, <3>1 DEF PlanInv
        <3>3. QED
            BY <2>1, <3>2 DEF q
    <2>5. CASE p.ok /\ ~ Loads(s)
        <3>1. q = p /\ Planned(image, p, i)
            BY <2>2, <2>3, <2>5 DEF PlanTurn, PlanInv
        <3>2. LoadedUpTo(image, i + 1) = LoadedUpTo(image, i)
            BY <2>5, NextUpTo
        <3>3. PagesUpTo(image, i + 1) = PagesUpTo(image, i)
            BY <3>2 DEF PagesUpTo
        <3>4. EntryFound(image, p, i + 1) <=> EntryFound(image, p, i)
            BY <3>2, Zenon DEF EntryFound, EntryUpTo
        <3>5. Planned(image, p, i + 1)
            BY <3>1, <3>2, <3>3, <3>4, Zenon DEF Planned
        <3>6. PlanInv(image, q, i + 1)
            BY <2>5, <3>1, <3>5 DEF PlanInv
        <3>7. QED
            BY <2>1, <3>6 DEF q
    <2>6. CASE p.ok /\ Loads(s) /\ SegmentRefused(image, p, s)
        <3>1. ~ q.ok /\ Planned(image, p, i)
            BY <2>2, <2>3, <2>6 DEF PlanTurn, PlanInv
        <3>2. ~ Placeable(image)
            BY <2>2, <2>6, <3>1, RefusedIsUnplaceable
        <3>3. PlanInv(image, q, i + 1)
            BY <3>1, <3>2 DEF PlanInv
        <3>4. QED
            BY <2>1, <3>3 DEF q
    <2>7. CASE p.ok /\ Loads(s) /\ ~ SegmentRefused(image, p, s)
        <3>1. AddsSegment(image, p, s, q) /\ Planned(image, p, i)
            BY <2>2, <2>3, <2>7 DEF PlanTurn, PlanInv
        <3>2. Planned(image, q, i + 1)
            BY <2>2, <2>7, <3>1, AddedIsPlanned
        <3>3. q.ok
            BY <3>1 DEF AddsSegment
        <3>4. PlanInv(image, q, i + 1)
            BY <3>2, <3>3 DEF PlanInv
        <3>5. QED
            BY <2>1, <3>4 DEF q
    <2>8. QED
        BY <2>4, <2>5, <2>6, <2>7
<1>3. 0 .. n \subseteq Inv
    <2> HIDE DEF Inv, n
    <2>1. QED
        BY <1>0, <1>1, <1>2, InductionUpTo
<1>4. QED
    BY <1>0, <1>3

LEMMA LoadableMeans ==
    ASSUME NEW image, image.headers \in Seq(ProgramHeader)
    PROVE  IsLoadable(image) <=> /\ HeaderOk(image) /\ Placeable(image)
                                 /\ EntryUpTo(image, Len(image.headers))
<1> DEFINE n == Len(image.headers)
           S == LoadSegments(image)
<1>1. LoadedUpTo(image, n) = S
    <2>1. n \in 0 .. n
        OBVIOUS
    <2>2. QED
        BY <2>1, UpToAll
<1>2. PagesUpTo(image, n) = UNION {SegmentPages(image.headers[i]) : i \in S}
    BY <1>1 DEF PagesUpTo
<1>3. EntryUpTo(image, n) => S # {}
    BY <1>1 DEF EntryUpTo
<1>4. Placeable(image) <=>
         /\ \A i \in S : /\ image.headers[i].filesz <= image.headers[i].memsz
                         /\ SegmentOk(image, image.headers[i])
         /\ \A i, j \in S :
               i # j => SegmentPages(image.headers[i]) \cap SegmentPages(image.headers[j]) = {}
         /\ Cardinality(S) <= MaxLoadSegments
         /\ Cardinality(UNION {SegmentPages(image.headers[i]) : i \in S}) <= MaxLoadPages
    BY <1>1, <1>2, Zenon DEF Placeable, GoodSegment, DisjointPages
<1>5. EntryUpTo(image, n) <=> \E i \in S : /\ image.headers[i].x
                                           /\ image.entry \in image.headers[i].vaddr .. MemoryEnd(image.headers[i]) - 1
    BY <1>1, Zenon DEF EntryUpTo, EntersAt
<1>6. QED
    BY <1>3, <1>4, <1>5, Zenon DEF IsLoadable

LEMMA ValidatedPlan ==
    ASSUME NEW image, image.headers \in Seq(ProgramHeader)
    PROVE  LET p == ValidateImage(image)
           IN  /\ p.ok <=> IsLoadable(image)
               /\ p.ok => p \in ImagePlan /\ Planned(image, p, Len(image.headers))
               /\ ~ p.ok => p = NoPlan
<1> DEFINE n == Len(image.headers)
<1>1. PICK g : /\ IsPlanning(g, image)
               /\ ValidateImage(image) =
                     LET plan_1 == g[Len(image.headers)]
                     IN  IF /\ HeaderOk(image) /\ plan_1.ok /\ plan_1.segments # <<>>
                            /\ plan_1.entryOk
                         THEN plan_1 ELSE NoPlan
    BY PlanningExists
<1> DEFINE r == g[n]
           p == ValidateImage(image)
           good == HeaderOk(image) /\ r.ok /\ r.segments # << >> /\ r.entryOk
<1>2. p = IF good THEN r ELSE NoPlan
    BY <1>1
<1>3. r \in ImagePlan /\ PlanInv(image, r, n)
    <2>1. n \in 0 .. n
        OBVIOUS
    <2>2. QED
        BY <1>1, <2>1, PlanInvAtEnd DEF IsPlanning
<1> HIDE DEF p, r
<1>4. good <=> IsLoadable(image)
    <2>1. Placeable(image) => r.ok
        BY <1>3, Zenon DEF PlanInv
    <2>2. ASSUME r.ok PROVE /\ Placeable(image)
                            /\ r.entryOk <=> EntryUpTo(image, n)
                            /\ EntryUpTo(image, n) => r.segments # << >>
        <3>1. Planned(image, r, n)
            BY <1>3, <2>2 DEF PlanInv
        <3>2. Placeable(image)
            <4>1. /\ Cardinality(LoadedUpTo(image, n)) <= MaxLoadSegments
                  /\ Cardinality(PagesUpTo(image, n)) <= MaxLoadPages
                BY <3>1 DEF Planned
            <4>2. QED
                BY <3>1, <4>1, Zenon DEF Planned, Placeable
        <3>3. r.entryOk <=> EntryUpTo(image, n)
            BY <3>1, Zenon DEF Planned, EntryFound
        <3>4. ASSUME EntryUpTo(image, n) PROVE r.segments # << >>
            <4>1. PICK j \in LoadedUpTo(image, n) : TRUE
                BY <3>4 DEF EntryUpTo
            <4>2. 1 .. Len(r.segments) # {}
                BY <3>1, <4>1 DEF Planned
            <4>3. QED
                BY <4>2
        <3>5. QED
            BY <3>2, <3>3, <3>4
    <2>3. QED
        BY <2>1, <2>2, LoadableMeans, Zenon
<1>5. CASE good
    <2>1. p = r /\ r.ok
        BY <1>2, <1>5
    <2>2. Planned(image, r, n)
        BY <1>3, <2>1 DEF PlanInv
    <2>3. p.ok /\ IsLoadable(image) /\ p \in ImagePlan /\ Planned(image, p, n)
        BY <1>3, <1>4, <1>5, <2>1, <2>2
    <2>4. QED
        BY <2>3, Zenon DEF p
<1>6. CASE ~ good
    <2>1. p = NoPlan
        BY <1>2, <1>6
    <2>2. ~ NoPlan.ok
        BY DEF NoPlan
    <2>3. ~ p.ok /\ ~ IsLoadable(image) /\ p = NoPlan
        BY <1>4, <1>6, <2>1, <2>2
    <2>4. QED
        BY <2>3, Zenon DEF p
<1>7. QED
    BY <1>5, <1>6

-----------------------------------------------------------------------------
(* The image that mkinitramfs builds: one page of code and one of data.    *)

LEMMA PairSize ==
    ASSUME NEW a, NEW b
    PROVE  Cardinality({a} \cup {b}) \in Nat /\ Cardinality({a} \cup {b}) <= 2
<1>1. IsFiniteSet({a}) /\ Cardinality({a}) = 1
    BY FS_Singleton
<1>2. Cardinality({a} \cup {b}) = IF b \in {a} THEN Cardinality({a}) ELSE Cardinality({a}) + 1
    BY <1>1, FS_AddElement
<1>3. QED
    BY <1>1, <1>2

\* A segment of at most a page that starts at page k is that page.
LEMMA OnePage ==
    ASSUME NEW s \in ProgramHeader, NEW k \in Nat, s.vaddr = PageSize * k,
           s.memsz > 0, s.memsz <= PageSize
    PROVE  SegmentPages(s) = {k}
<1> DEFINE a == FirstPage(s)
           b == PageAfter(s)
           d == PageSize
           e == s.vaddr + s.memsz
<1>1. d \in Nat /\ d > 0 /\ s.vaddr \in Nat /\ s.memsz \in Nat /\ e \in Nat
    BY PageSizes, HeaderTypes
<1>2. a \in Nat /\ b \in Nat /\ a < b /\ SegmentPages(s) = a .. b - 1
    BY PageFacts
<1>3. a = k
    <2>1. a = (d * k) \div d
        BY DEF FirstPage
    <2> HIDE DEF a, d
    <2>2. QED
        BY <1>1, <2>1, TimesMod
<1>4. b <= k + 1
    <2>1. b = (e + d - 1) \div d
        BY DEF PageAfter
    <2>2. e <= d * (k + 1)
        <3> DEFINE x == d * k
        <3>1. d * (k + 1) = x + d /\ x \in Nat /\ s.vaddr = x
            BY <1>1
        <3> HIDE DEF x
        <3>2. s.memsz <= d
            OBVIOUS
        <3> HIDE DEF d
        <3>3. QED
            BY <1>1, <3>1, <3>2
    <2> DEFINE q == k + 1
    <2>3. q \in Nat /\ e <= d * q
        BY <2>2
    <2> HIDE DEF b, e, d, q
    <2>4. (e + d - 1) \div d <= q
        BY <1>1, <2>3, DivMonotone
    <2>5. QED
        BY <2>1, <2>4 DEF q
<1> HIDE DEF a, b
<1>5. a .. b - 1 = {k}
    BY <1>2, <1>3, <1>4
<1>6. QED
    BY <1>2, <1>5

LEMMA MultipleNext ==
    ASSUME NEW x \in Nat, x % PageSize = 0
    PROVE  /\ (x + PageSize) % PageSize = 0
           /\ x \div PageSize \in Nat
           /\ x = PageSize * (x \div PageSize)
           /\ x + PageSize = PageSize * ((x \div PageSize) + 1)
<1> DEFINE d == PageSize
           k == x \div d
           q == k + 1
<1>1. d \in Nat /\ d > 0
    BY PageSizes
<1>2. x % d = 0
    OBVIOUS
<1> HIDE DEF d
<1>3. k \in Nat /\ x = d * k + (x % d)
    BY <1>1, DivMod
<1> HIDE DEF k
<1>4. d * k \in Nat /\ d * (k + 1) = d * k + d
    BY <1>1, <1>3
<1>5. x = d * k /\ x + d = d * q
    BY <1>1, <1>2, <1>3, <1>4
<1>6. q \in Nat
    BY <1>3
<1> HIDE DEF q
<1>7. (d * q) % d = 0
    BY <1>1, <1>6, TimesMod
<1>8. QED
    BY <1>3, <1>5, <1>7 DEF d, k, q

LEMMA InitElfSegments ==
    LET t == InitElf.headers[1]
        u == InitElf.headers[2]
    IN  /\ Len(InitElf.headers) = 2 /\ t \in ProgramHeader /\ u \in ProgramHeader
        /\ Loads(t) /\ Loads(u)
        /\ t.filesz <= t.memsz /\ u.filesz <= u.memsz
        /\ t.offset + t.filesz <= InitElfSize /\ u.offset + u.filesz <= InitElfSize
        /\ t.vaddr = ElfBase /\ t.memsz = CodeSize /\ u.vaddr = ElfBase + PageSize /\ u.memsz = PageSize
        /\ t.align = PageSize /\ u.align = PageSize /\ t.offset = TextOffset
        /\ u.offset = TextOffset + PageSize
        /\ t.r /\ u.r /\ ~ t.w /\ ~ u.x /\ t.x
<1> DEFINE t == InitElf.headers[1]
           u == InitElf.headers[2]
<1>1. /\ TextOffset \in Nat /\ DataOffset \in Nat /\ CodeSize \in Nat /\ CodeSize > 0
      /\ DataOffset = TextOffset + PageSize /\ CodeSize <= PageSize /\ InitDataSize <= PageSize
      /\ InitDataSize = 16
    BY MkInitramfsAssumption DEF InitDataSize
<1>2. ElfBase \in Nat /\ PageSize \in Nat /\ PageSize > 0
    BY PageSizes
<1>3. Len(InitElf.headers) = 2
    BY DEF InitElf
<1>4. t = [load |-> TRUE, r |-> TRUE, w |-> FALSE, x |-> TRUE, offset |-> TextOffset,
           vaddr |-> ElfBase, filesz |-> CodeSize, memsz |-> CodeSize, align |-> PageSize]
    BY DEF InitElf
<1>5. u = [load |-> TRUE, r |-> TRUE, w |-> TRUE, x |-> FALSE, offset |-> DataOffset,
           vaddr |-> ElfBase + PageSize, filesz |-> InitDataSize, memsz |-> PageSize,
           align |-> PageSize]
    BY DEF InitElf
<1> HIDE DEF t, u
<1>6. t \in ProgramHeader /\ u \in ProgramHeader
    BY <1>1, <1>2, <1>4, <1>5 DEF ProgramHeader
<1>7. /\ t.offset = TextOffset /\ t.filesz = CodeSize /\ t.memsz = CodeSize /\ t.vaddr = ElfBase
      /\ t.align = PageSize /\ t.load /\ t.r /\ ~ t.w /\ t.x
    BY <1>4
<1>8. /\ u.offset = DataOffset /\ u.filesz = InitDataSize /\ u.memsz = PageSize
      /\ u.vaddr = ElfBase + PageSize /\ u.align = PageSize /\ u.load /\ u.r /\ ~ u.x
    BY <1>5
<1>9. Loads(t) /\ Loads(u)
    BY <1>1, <1>2, <1>7, <1>8 DEF Loads
<1>10. /\ t.filesz <= t.memsz /\ u.filesz <= u.memsz
       /\ t.offset + t.filesz <= InitElfSize /\ u.offset + u.filesz <= InitElfSize
    BY <1>1, <1>2, <1>7, <1>8 DEF InitElfSize
<1>11. QED
    BY <1>1, <1>3, <1>6, <1>7, <1>8, <1>9, <1>10 DEF t, u

LEMMA InitElfLoadable ==
    ASSUME NEW image, image.headers = InitElf.headers, image.sound, image.entry = InitElf.entry,
           image.tableOffset = InitElf.tableOffset, image.len = InitElfSize
    PROVE  IsLoadable(image)
<1> DEFINE t == image.headers[1]
           u == image.headers[2]
           b == ElfBase \div PageSize
<1>1. /\ TextOffset \in Nat /\ DataOffset \in Nat /\ CodeSize \in Nat /\ CodeSize > 0
      /\ DataOffset = TextOffset + PageSize /\ CodeSize <= PageSize /\ InitDataSize = 16
      /\ TextOffset % PageSize = 0 /\ TextOffset >= ElfHeaderSize + 2 * ProgramHeaderSize
      /\ IsPowerOfTwo(PageSize) /\ ElfBase + 2 * PageSize <= ElfEnd
      /\ MaxProgramHeaders >= 2 /\ MaxLoadSegments >= 2 /\ MaxLoadPages >= 2
    BY MkInitramfsAssumption DEF InitDataSize
<1>2. /\ ElfBase \in Nat /\ PageSize \in Nat /\ PageSize > 0 /\ ElfBase % PageSize = 0
      /\ ElfEnd \in Nat /\ MaxWord \in Nat /\ ElfEnd + PageSize <= MaxWord
    BY PageSizes
<1>3. /\ Len(image.headers) = 2 /\ t \in ProgramHeader /\ u \in ProgramHeader
      /\ Loads(t) /\ Loads(u)
      /\ t.filesz <= t.memsz /\ u.filesz <= u.memsz
      /\ t.offset + t.filesz <= image.len /\ u.offset + u.filesz <= image.len
      /\ t.vaddr = ElfBase /\ t.memsz = CodeSize /\ u.vaddr = ElfBase + PageSize /\ u.memsz = PageSize
      /\ t.align = PageSize /\ u.align = PageSize /\ t.offset = TextOffset
      /\ u.offset = TextOffset + PageSize
      /\ t.r /\ u.r /\ ~ t.w /\ ~ u.x /\ t.x
    BY InitElfSegments
<1>4. image.headers \in Seq(ProgramHeader)
    <2>1. \E x, y : InitElf.headers = << x, y >>
        BY Zenon DEF InitElf
    <2>2. PICK x, y : image.headers = << x, y >>
        BY <2>1
    <2>3. x = t /\ y = u
        BY <2>2
    <2> HIDE DEF t, u
    <2>4. QED
        BY <1>3, <2>2, <2>3
<1> HIDE DEF t, u
<1>5. HeaderOk(image)
    <2>1. image.tableOffset = 64 /\ image.len = TextOffset + PageSize + 16 /\ image.headers # << >>
        BY <1>1, <1>3 DEF InitElf, InitElfSize, ElfHeaderSize
    <2>2. QED
        BY <1>1, <1>2, <1>3, <2>1, PageSizes DEF HeaderOk, ElfHeaderSize, ProgramHeaderSize
<1>6. /\ b \in Nat /\ ElfBase = PageSize * b /\ ElfBase + PageSize = PageSize * (b + 1)
      /\ (ElfBase + PageSize) % PageSize = 0
    BY <1>2, MultipleNext
<1>7. (TextOffset + PageSize) % PageSize = 0
    BY <1>1, MultipleNext
<1> HIDE DEF b
<1>8. SegmentPages(t) = {b} /\ SegmentPages(u) = {b + 1}
    <2>1. SegmentPages(t) = {b}
        BY <1>1, <1>2, <1>3, <1>6, OnePage
    <2> DEFINE c == b + 1
    <2>2. c \in Nat /\ u.vaddr = PageSize * c
        BY <1>3, <1>6
    <2>3. u.memsz > 0 /\ u.memsz <= PageSize
        BY <1>2, <1>3
    <2> HIDE DEF c
    <2>4. SegmentPages(u) = {c}
        BY <1>3, <2>2, <2>3, OnePage
    <2>5. QED
        BY <2>1, <2>4 DEF c
<1>9. SegmentOk(image, t)
    <2>1. /\ t.vaddr + t.memsz <= MaxWord /\ t.vaddr >= ElfBase /\ t.vaddr + t.memsz <= ElfEnd
        BY <1>1, <1>2, <1>3
    <2>2. IsPowerOfTwo(t.align) /\ t.vaddr % t.align = t.offset % t.align
        BY <1>1, <1>2, <1>3
    <2>3. QED
        BY <1>3, <2>1, <2>2, Zenon DEF SegmentOk, MemoryEnd
<1>10. SegmentOk(image, u)
    <2>1. /\ u.vaddr + u.memsz <= MaxWord /\ u.vaddr >= ElfBase /\ u.vaddr + u.memsz <= ElfEnd
        BY <1>1, <1>2, <1>3
    <2>2. IsPowerOfTwo(u.align) /\ u.vaddr % u.align = u.offset % u.align
        BY <1>1, <1>3, <1>6, <1>7
    <2>3. QED
        BY <1>3, <2>1, <2>2, Zenon DEF SegmentOk, MemoryEnd
<1>11. GoodSegment(image, t) /\ GoodSegment(image, u)
    BY <1>3, <1>9, <1>10 DEF GoodSegment
<1>12. DisjointPages(t, u) /\ DisjointPages(u, t)
    BY <1>6, <1>8 DEF DisjointPages
<1>13. LoadedUpTo(image, 2) = {1} \cup {2}
    <2>1. 1 .. 2 = {1} \cup {2}
        OBVIOUS
    <2>2. QED
        BY <1>3, <2>1 DEF LoadedUpTo, t, u
<1>14. PagesUpTo(image, 2) = {b} \cup {b + 1}
    <2>1. PagesUpTo(image, 2) = SegmentPages(image.headers[1]) \cup SegmentPages(image.headers[2])
        BY <1>13 DEF PagesUpTo
    <2>2. QED
        BY <1>8, <2>1 DEF t, u
<1>15. Placeable(image)
    <2>1. /\ \A j \in {1} \cup {2} : GoodSegment(image, image.headers[j])
          /\ \A j, k \in {1} \cup {2} : j # k => DisjointPages(image.headers[j], image.headers[k])
        BY <1>11, <1>12 DEF t, u
    <2>2. Cardinality({1} \cup {2}) <= MaxLoadSegments
        <3>1. Cardinality({1} \cup {2}) \in Nat /\ Cardinality({1} \cup {2}) <= 2
            BY PairSize
        <3>2. QED
            BY <1>1, <3>1, PageSizes
    <2> DEFINE c == b + 1
    <2>3. Cardinality({b} \cup {c}) <= MaxLoadPages
        <3> HIDE DEF c
        <3>1. Cardinality({b} \cup {c}) \in Nat /\ Cardinality({b} \cup {c}) <= 2
            BY PairSize
        <3>2. QED
            BY <1>1, <3>1, PageSizes
    <2>4. QED
        BY <1>3, <1>13, <1>14, <2>1, <2>2, <2>3 DEF Placeable
<1>16. EntryUpTo(image, 2)
    <2>1. image.entry = ElfBase
        BY DEF InitElf
    <2>2. image.entry \in t.vaddr .. MemoryEnd(t) - 1
        BY <1>1, <1>2, <1>3, <2>1 DEF MemoryEnd
    <2>3. EntersAt(image, image.headers[1])
        BY <1>3, <2>2 DEF EntersAt, t
    <2>4. QED
        BY <1>13, <2>3 DEF EntryUpTo
<1>17. QED
    BY <1>3, <1>4, <1>5, <1>15, <1>16, LoadableMeans

\* The plan of the pages of /bin/init (validate_image): the image is refused
\* exactly if it cannot be loaded, the one that mkinitramfs builds is not, and
\* of an accepted plan no page is in two segments, outside the range that is
\* recorded or writable and executable, and the page count is right.  The
\* proof follows the loop: what is planned after each turn are the segments of
\* the headers so far, and a turn refuses only what no plan can place.
THEOREM PlanIsSound == Spec => []PlanSound
<1>1. BootInv => PlanSound
    <2> SUFFICES ASSUME BootInv, phase = "booted" PROVE PlanSound
        BY DEF PlanSound
    <2> DEFINE file == CHOOSE f \in InitFile : TRUE
               image == ImageBytes(file)
               S == plan.segments
               pages(i) == SegmentPages(S[i])
    <2>1. plan = IF InitFile = {} THEN NoPlan ELSE ValidateImage(image)
        BY DEF BootInv
    <2>2. machine \in MachineType
        BY MachinesAssumption DEF BootInv
    <2>3. /\ image.headers = machine.image.headers /\ image.sound = machine.image.sound
          /\ image.entry = machine.image.entry /\ image.tableOffset = machine.image.tableOffset
          /\ image.headers \in Seq(ProgramHeader)
        <3>1. machine.image.headers \in Seq(ProgramHeader)
            BY <2>2 DEF MachineType, ElfFile
        <3> HIDE DEF file
        <3>2. QED
            BY <3>1 DEF ImageBytes
    <2> HIDE DEF image
    <2>4. ASSUME ~ plan.ok, plan = NoPlan
          PROVE  /\ \A i, j \in DOMAIN S : i # j => pages(i) \cap pages(j) = {}
                 /\ \A i \in DOMAIN S :
                       /\ pages(i) \subseteq plan.start \div PageSize .. plan.end \div PageSize - 1
                       /\ ElfEnd \div PageSize \notin pages(i)
                       /\ ~ (S[i].w /\ S[i].x)
                       /\ S[i].offset + S[i].filesz <= image.len /\ S[i].filesz <= S[i].memsz
                 /\ plan.pages = Cardinality(UNION {pages(i) : i \in DOMAIN S})
        <3>1. S = << >> /\ plan.pages = 0
            BY <2>4 DEF NoPlan
        <3>2. DOMAIN S = {}
            BY <3>1
        <3> HIDE DEF S, pages
        <3>3. UNION {pages(i) : i \in DOMAIN S} = {}
            BY <3>2
        <3>4. Cardinality({}) = 0
            BY FS_EmptySet
        <3>5. plan.pages = Cardinality(UNION {pages(i) : i \in DOMAIN S})
            BY <3>1, <3>3, <3>4
        <3>6. QED
            BY <3>2, <3>5, Zenon
    <2>5. ASSUME plan.ok, InitFile # {}, plan = ValidateImage(image)
          PROVE  /\ \A i, j \in DOMAIN S : i # j => pages(i) \cap pages(j) = {}
                 /\ \A i \in DOMAIN S :
                       /\ pages(i) \subseteq plan.start \div PageSize .. plan.end \div PageSize - 1
                       /\ ElfEnd \div PageSize \notin pages(i)
                       /\ ~ (S[i].w /\ S[i].x)
                       /\ S[i].offset + S[i].filesz <= image.len /\ S[i].filesz <= S[i].memsz
                 /\ plan.pages = Cardinality(UNION {pages(i) : i \in DOMAIN S})
        <3> DEFINE n == Len(image.headers)
        <3>1. plan \in ImagePlan /\ Planned(image, plan, n)
            BY <2>3, <2>5, ValidatedPlan
        <3>2. /\ S \in Seq(ProgramHeader) /\ DOMAIN S = 1 .. Len(S) /\ plan.start \in Nat
              /\ plan.end \in Nat
            BY <3>1, PlanTypes
        <3>3. \A i, j \in DOMAIN S : i # j => pages(i) \cap pages(j) = {}
            BY <3>1, <3>2 DEF Planned, DisjointPages
        <3>4. ASSUME NEW i \in DOMAIN S
              PROVE  /\ pages(i) \subseteq plan.start \div PageSize .. plan.end \div PageSize - 1
                     /\ ElfEnd \div PageSize \notin pages(i)
                     /\ ~ (S[i].w /\ S[i].x)
                     /\ S[i].offset + S[i].filesz <= image.len /\ S[i].filesz <= S[i].memsz
            <4> DEFINE s == S[i]
            <4>1. s \in ProgramHeader
                BY <3>2
            <4>2. GoodSegment(image, s)
                <5>1. PICK j \in LoadedUpTo(image, n) : s = image.headers[j]
                    BY <3>1, <3>2 DEF Planned
                <5>2. QED
                    BY <3>1, <5>1 DEF Planned
            <4>3. plan.start <= PageStart(s) /\ PageEnd(s) <= plan.end
                BY <3>1, <3>2 DEF Planned
            <4>4. ~ (s.w /\ s.x) /\ s.offset + s.filesz <= image.len /\ s.filesz <= s.memsz
                BY <4>2 DEF GoodSegment, SegmentOk
            <4>5. MemoryEnd(s) <= ElfEnd
                BY <4>2 DEF GoodSegment, SegmentOk
            <4> DEFINE a == FirstPage(s)
                       b == PageAfter(s)
                       f == plan.start \div PageSize
                       l == plan.end \div PageSize
                       z == ElfEnd \div PageSize
            <4> HIDE DEF s
            <4>6. /\ a \in Nat /\ b \in Nat /\ SegmentPages(s) = a .. b - 1 /\ b <= z
                  /\ PageStart(s) = PageSize * a /\ PageEnd(s) = PageSize * b
                BY <4>1, <4>5, PageFacts
            <4> HIDE DEF a, b
            <4>7. PageSize \in Nat /\ PageSize > 0 /\ plan.start \in Nat /\ plan.end \in Nat
                BY <3>2, PageSizes
            <4>8. f <= a /\ b <= l
                BY <4>3, <4>6, <4>7, DivMonotone
            <4>9. f \in Nat /\ l \in Nat /\ z \in Nat
                BY <4>7, PageSizes, DivMod
            <4> HIDE DEF f, l, z
            <4>10. SegmentPages(s) \subseteq f .. l - 1 /\ z \notin SegmentPages(s)
                BY <4>6, <4>8, <4>9
            <4>11. QED
                BY <4>4, <4>10 DEF s, f, l, z
        <3>5. UNION {pages(i) : i \in DOMAIN S} = PagesUpTo(image, n)
            <4>1. ASSUME NEW i \in DOMAIN S PROVE pages(i) \subseteq PagesUpTo(image, n)
                <5>1. PICK j \in LoadedUpTo(image, n) : S[i] = image.headers[j]
                    BY <3>1, <3>2 DEF Planned
                <5>2. QED
                    BY <5>1 DEF PagesUpTo
            <4>2. ASSUME NEW j \in LoadedUpTo(image, n)
                  PROVE  SegmentPages(image.headers[j]) \subseteq UNION {pages(i) : i \in DOMAIN S}
                <5>1. PICK i \in DOMAIN S : S[i] = image.headers[j]
                    BY <3>1, <3>2 DEF Planned
                <5>2. QED
                    BY <5>1
            <4> HIDE DEF pages, n
            <4>3. QED
                BY <4>1, <4>2 DEF PagesUpTo
        <3>6. plan.pages = Cardinality(UNION {pages(i) : i \in DOMAIN S})
            BY <3>1, <3>5 DEF Planned
        <3>7. QED
            BY <3>3, <3>4, <3>6, Zenon
    <2>6. plan.ok <=> (InitFile # {} /\ IsLoadable(image))
        <3>1. ~ NoPlan.ok
            BY DEF NoPlan
        <3>2. ValidateImage(image).ok <=> IsLoadable(image)
            BY <2>3, ValidatedPlan
        <3>3. QED
            BY <2>1, <3>1, <3>2, Zenon
    <2>7. (InitFile # {} /\ machine.image = InitElf /\ image.len = InitElfSize) => plan.ok
        <3> SUFFICES ASSUME InitFile # {}, machine.image = InitElf, image.len = InitElfSize
                     PROVE  plan.ok
            OBVIOUS
        <3>1. image.sound
            BY <2>3 DEF InitElf
        <3>2. IsLoadable(image)
            BY <2>3, <3>1, InitElfLoadable
        <3>3. QED
            BY <2>6, <3>2, Zenon
    <2>8. plan.ok => plan = ValidateImage(image) /\ InitFile # {}
        <3>1. ~ NoPlan.ok
            BY DEF NoPlan
        <3>2. QED
            BY <2>1, <3>1, Zenon
    <2>9. ~ plan.ok => plan = NoPlan
        BY <2>1, <2>3, ValidatedPlan
    <2>10. /\ \A i, j \in DOMAIN S : i # j => pages(i) \cap pages(j) = {}
           /\ \A i \in DOMAIN S :
                 /\ pages(i) \subseteq plan.start \div PageSize .. plan.end \div PageSize - 1
                 /\ ElfEnd \div PageSize \notin pages(i)
                 /\ ~ (S[i].w /\ S[i].x)
                 /\ S[i].offset + S[i].filesz <= image.len /\ S[i].filesz <= S[i].memsz
           /\ plan.pages = Cardinality(UNION {pages(i) : i \in DOMAIN S})
        BY <2>4, <2>5, <2>8, <2>9, Zenon
    <2>11. QED
        BY <2>6, <2>7, <2>10, Zenon DEF PlanSound, image
<1>2. QED
    BY <1>1, BootInductive, PTL
=============================================================================
