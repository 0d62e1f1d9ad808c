------------------------------ MODULE ElfImage ------------------------------
(***************************************************************************)
(* validate_image of src/elf.rs, the check of an ELF image and the plan of *)
(* its segments, as operators.                                             *)
(*                                                                         *)
(* An image is its length in bytes, `sound' (the identification and the    *)
(* fixed fields of the file header are as they have to be), the entry      *)
(* point, the offset of the program header table and its headers.  An      *)
(* address or a size is a word of MaxWord + 1 values.  The error that is   *)
(* reported is left out: a refused image is NoPlan.                        *)
(***************************************************************************)
EXTENDS Integers, Sequences

CONSTANTS PageSize,          \* PAGE_SIZE_4K
          MaxWord,           \* u64::MAX
          ElfBase,           \* USER_ELF_BASE
          ElfEnd,            \* USER_ELF_END
          MaxProgramHeaders, \* MAX_PROGRAM_HEADERS
          MaxLoadSegments,   \* MAX_LOAD_SEGMENTS
          MaxLoadPages       \* MAX_LOAD_PAGES

ASSUME ElfImageAssumption ==
    /\ {PageSize, MaxWord, ElfBase, ElfEnd} \subseteq Nat /\ PageSize > 0
    /\ {MaxProgramHeaders, MaxLoadSegments, MaxLoadPages} \subseteq Nat
    /\ ElfBase % PageSize = 0 /\ ElfEnd % PageSize = 0 /\ ElfEnd + PageSize <= MaxWord

ProgramHeader == [load : BOOLEAN, r : BOOLEAN, w : BOOLEAN, x : BOOLEAN, offset : Nat,
                  vaddr : Nat, filesz : Nat, memsz : Nat, align : Nat]
ElfFile == [sound : BOOLEAN, entry : Nat, tableOffset : Nat, headers : Seq(ProgramHeader)]

ElfHeaderSize == 64
ProgramHeaderSize == 56

\* SegmentPlan: page_start, memory_end and page_end.
PageStart(s) == s.vaddr - (s.vaddr % PageSize)
MemoryEnd(s) == s.vaddr + s.memsz
PageEnd(s) == ((MemoryEnd(s) + PageSize - 1) \div PageSize) * PageSize

PageCount(s) == (PageEnd(s) - PageStart(s)) \div PageSize

\* The pages of a segment, by number.
SegmentPages(s) == PageStart(s) \div PageSize .. PageEnd(s) \div PageSize - 1

\* is_power_of_two: no odd number but 1 divides n.
IsPowerOfTwo(n) == n > 0 /\ \A d \in 2 .. n : n % d = 0 => d % 2 = 0

\* The checks of the loop that look at one program header alone.
SegmentOk(image, s) ==
    /\ s.offset + s.filesz <= image.len
    /\ s.vaddr + s.memsz <= MaxWord
    /\ s.vaddr >= ElfBase /\ MemoryEnd(s) <= ElfEnd
    /\ s.align > 1 => IsPowerOfTwo(s.align) /\ s.vaddr % s.align = s.offset % s.align
    /\ s.r
    /\ ~ (s.w /\ s.x)

\* Mutant of PagesOverlap: the segments are compared byte by byte.
BytesOverlap(s, t) == s.vaddr < MemoryEnd(t) /\ t.vaddr < MemoryEnd(s)

PagesOverlap(s, t) == PageStart(s) < PageEnd(t) /\ PageStart(t) < PageEnd(s)

\* ImagePlan before the loop; entryOk is entry_is_executable.
NoPlan == [ok |-> FALSE, segments |-> <<>>, pages |-> 0, entryOk |-> FALSE,
           start |-> MaxWord, end |-> 0]

\* One turn of the loop over the program headers.
PlanSegment(image, plan, s) ==
    IF ~ plan.ok \/ ~ s.load \/ (s.filesz = 0 /\ s.memsz = 0) THEN plan
    ELSE IF \/ s.filesz > s.memsz
            \/ ~ SegmentOk(image, s)
            \/ Len(plan.segments) >= MaxLoadSegments
            \/ \E i \in DOMAIN plan.segments : PagesOverlap(s, plan.segments[i])
            \/ plan.pages + PageCount(s) > MaxLoadPages
    THEN [plan EXCEPT !.ok = FALSE]
    ELSE [ok |-> TRUE,
          segments |-> Append(plan.segments, s),
          pages |-> plan.pages + PageCount(s),
          entryOk |-> plan.entryOk \/ (s.x /\ image.entry \in s.vaddr .. MemoryEnd(s) - 1),
          start |-> IF PageStart(s) < plan.start THEN PageStart(s) ELSE plan.start,
          end |-> IF PageEnd(s) > plan.end THEN PageEnd(s) ELSE plan.end]

\* The checks before the loop: the header and the place of the table.
HeaderOk(image) ==
    /\ image.len >= ElfHeaderSize
    /\ image.sound
    /\ image.headers # <<>> /\ Len(image.headers) <= MaxProgramHeaders
    /\ image.tableOffset + Len(image.headers) * ProgramHeaderSize <= image.len

\* validate_image
ValidateImage(image) ==
    LET planned[i \in 0 .. Len(image.headers)] ==
            IF i = 0 THEN [NoPlan EXCEPT !.ok = TRUE]
            ELSE PlanSegment(image, planned[i - 1], image.headers[i])
        plan == planned[Len(image.headers)]
    IN IF HeaderOk(image) /\ plan.ok /\ plan.segments # <<>> /\ plan.entryOk
       THEN plan ELSE NoPlan
=============================================================================
