-------------------------------- MODULE Boot --------------------------------
(***************************************************************************)
(* The part of kernel_main, src/main.rs, that takes over the machine from  *)
(* the boot loader: multiboot::init reads what the loader has left in      *)
(* memory, initramfs::init reads the archive that came as a module,        *)
(* physmem::init decides which frames may be handed out, and elf::init     *)
(* checks the image of /bin/init.  Each step uses what the ones before it  *)
(* have stored; all of them run once, with interrupts off.                 *)
(*                                                                         *)
(* `machine' is what the boot loader has put into memory.  It is never     *)
(* written: what the kernel hands out as free frames is zeroed and         *)
(* overwritten later, so the boot information, the modules and the kernel  *)
(* have to be outside the regions of the frame allocator.                  *)
(***************************************************************************)
EXTENDS RegionMap, Multiboot, MkInitramfs, Klog, FiniteSets

CONSTANTS Machines,          \* what a boot loader may hand over
          MinAllocAddr,      \* MIN_ALLOC_ADDR
          MaxArchiveSize     \* MAX_ARCHIVE_SIZE

ASSUME BootAssumption ==
    /\ MinAllocAddr \in Nat /\ MinAllocAddr % FrameSize = 0
    /\ MaxArchiveSize \in Nat /\ BuiltArchive.len <= MaxArchiveSize

\* What a boot loader can leave in memory.
MachineType ==
    [kernelEnd : Nat, info : BootInfo, archive : ArchiveFile, image : ElfFile]

ASSUME MachinesAssumption == \A m \in Machines : m \in MachineType

VARIABLES machine,   \* kernelEnd, info (Multiboot), archive (Initramfs)
          phase,     \* the next call of kernel_main
          summary,   \* BOOT_INFO
          archive,   \* ARCHIVE: whether it is valid, init_size and the module
          frames,    \* FrameAllocator after init: protectedUntil and the regions
          plan,      \* what validate_image has made of /bin/init
          log        \* KERNEL_LOG

vars == <<machine, phase, summary, archive, frames, plan, log>>

NoArchive == [valid |-> FALSE, initSize |-> 0, module |-> <<>>]

Init ==
    /\ machine \in Machines
    /\ phase = "multiboot"
    /\ summary = [NoSummary(machine.info) EXCEPT !.address = 0]
    /\ archive = NoArchive
    /\ frames = NoRegions
    /\ plan = NoPlan
    /\ log = LogLines(NewRing, "boot", 11)

\* multiboot::init
MultibootInit ==
    /\ phase = "multiboot"
    /\ summary' = Parse(machine.info)
    /\ phase' = "initramfs"
    /\ log' = LogLines(log, "mem", 7)
    /\ UNCHANGED <<machine, archive, frames, plan>>

\* archive_bytes: the archive is as long as its module.
ArchiveBytes(module) ==
    [entries |-> machine.archive.entries, garbage |-> machine.archive.garbage,
     len |-> module.end - module.start]

\* initramfs::init: the module named initramfs, if it is not too large.
InitramfsInit ==
    /\ phase = "initramfs"
    /\ LET module == FindModule(summary, "initramfs")
           parsed == ParseArchive(ArchiveBytes(module[1]))
       IN archive' = IF module = <<>> THEN NoArchive
                     ELSE IF ArchiveBytes(module[1]).len > MaxArchiveSize
                     THEN [NoArchive EXCEPT !.module = module]
                     ELSE [valid |-> parsed.valid, initSize |-> parsed.initSize,
                           module |-> module]
    /\ phase' = "physmem"
    /\ log' = LogLines(log, "initramfs", IF archive'.valid THEN 7 ELSE 2)
    /\ UNCHANGED <<machine, summary, frames, plan>>

Later(a, b) == IF a > b THEN a ELSE b

\* The first part of FrameAllocator::init: all below is never handed out.
ProtectedUntil(kernelEnd, s) ==
    LET kernel == Later(AlignUp(kernelEnd), MinAllocAddr)
        info   == IF s.address # 0 /\ s.totalSize # 0
                  THEN AlignUp(SaturatingAdd(s.address, s.totalSize)) ELSE 0
    IN  Later(Later(kernel, info), AlignUp(s.highestModuleEnd))

\* physmem::init
PhysmemInit ==
    /\ phase = "physmem"
    /\ frames' = DeriveRegions(summary.regions, ProtectedUntil(machine.kernelEnd, summary))
    /\ phase' = "elf"
    /\ log' = LogLines(log, "mem", 3)
    /\ UNCHANGED <<machine, summary, archive, plan>>

\* find("/bin/init"): the range of its bytes in the archive.
InitFile ==
    IF archive.module = <<>> THEN {}
    ELSE Find(ArchiveBytes(archive.module[1]), archive, InitPath)

\* The image in the bytes of that range.
ImageBytes(file) ==
    [sound |-> machine.image.sound, entry |-> machine.image.entry,
     tableOffset |-> machine.image.tableOffset, headers |-> machine.image.headers,
     len |-> file.end - file.start]

\* elf::init up to the plan of the image; what it maps is in Paging.
ElfInit ==
    /\ phase = "elf"
    /\ plan' = IF InitFile = {} THEN NoPlan
               ELSE ValidateImage(ImageBytes(CHOOSE f \in InitFile : TRUE))
    /\ phase' = "booted"
    /\ log' = LogLines(log, "elf", IF plan'.ok THEN 5 ELSE 1)
    /\ UNCHANGED <<machine, summary, archive, frames>>

Next == MultibootInit \/ InitramfsInit \/ PhysmemInit \/ ElfInit

Spec == Init /\ [][Next]_vars

-----------------------------------------------------------------------------
\* Reference definitions, independent of the loops of the parsers.

Allocating == phase \in {"elf", "booted"}

Regions == {frames.regions[i] : i \in DOMAIN frames.regions}
FrameStarts(r) == {f * FrameSize : f \in r.start \div FrameSize .. r.end \div FrameSize - 1}
Meets(r, from, to) == r.start < to /\ from < r.end

TagOffset(tags, i) ==
    LET at[j \in 0 .. i - 1] == IF j = 0 THEN 8 ELSE at[j - 1] + AlignUp8(tags[j].size)
    IN  at[i - 1]

\* A boot loader's module: a well-formed tag of the list, which ends at the
\* first end tag or at a tag that does not fit.
IsModule(info, i) ==
    LET tag == info.tags[i]
    IN /\ info.validMagic /\ info.address > 0
       /\ info.totalSize \in 16 .. MaxBootInfoSize
       /\ info.address + info.totalSize < BootInfoLimit
       /\ \A j \in 1 .. i : /\ info.tags[j].size >= 8
                            /\ TagOffset(info.tags, j) + info.tags[j].size <= info.totalSize
       /\ \A j \in 1 .. i - 1 : info.tags[j].type # "end"
       /\ tag.type = "module" /\ tag.size >= 17 /\ tag.terminated /\ IsValid(tag)

EntryOffset(entries, i) ==
    LET at[j \in 0 .. i - 1] == IF j = 0 THEN 0 ELSE NextOffset(entries[j], at[j - 1])
    IN  at[i - 1]

\* An archive of files up to a trailer in its bytes, /bin/init among them.
IsArchive(a) ==
    \E t \in DOMAIN a.entries :
        /\ a.entries[t].name = Trailer /\ t - 1 <= MaxEntries
        /\ \A i \in 1 .. t : EntryOk(a.entries[i], EntryOffset(a.entries, i), a.len)
        /\ \A i \in 1 .. t - 1 : /\ a.entries[i].name # Trailer
                                 /\ a.entries[i].name = InitPath => a.entries[i].type = "regular"
        /\ \E i \in 1 .. t - 1 : a.entries[i].name = InitPath
        /\ \/ EntryOffset(a.entries, t + 1) = a.len
           \/ t = Len(a.entries) /\ ~ a.garbage

\* The segments of an image that take memory.
LoadSegments(image) ==
    {i \in DOMAIN image.headers :
        image.headers[i].load /\ image.headers[i].filesz + image.headers[i].memsz > 0}

\* An image that can be loaded: every segment by itself, no page of two
\* segments, all of them within the limits, an entry point to jump to.
IsLoadable(image) ==
    LET segment(i) == image.headers[i]
        S == LoadSegments(image)
        pages == UNION {SegmentPages(segment(i)) : i \in S}
    IN /\ HeaderOk(image) /\ S # {}
       /\ \A i \in S : segment(i).filesz <= segment(i).memsz /\ SegmentOk(image, segment(i))
       /\ \A i, j \in S : i # j => SegmentPages(segment(i)) \cap SegmentPages(segment(j)) = {}
       /\ Cardinality(S) <= MaxLoadSegments /\ Cardinality(pages) <= MaxLoadPages
       /\ \E i \in S : /\ segment(i).x
                       /\ image.entry \in segment(i).vaddr .. MemoryEnd(segment(i)) - 1

-----------------------------------------------------------------------------
\* The regions that the frame allocator starts with (add_memory_region):
\* whole frames above the protected memory, each within one available entry
\* of the map, in no frame twice unless the map says so twice; every such
\* frame is in a region as long as the array has room; and the statistics
\* balance.
RegionsSound ==
    Allocating =>
        LET map == summary.regions
            usable == {i \in DOMAIN map : map[i].available}
            within(a) == {i \in usable : map[i].base <= a /\ a + FrameSize <= End(map[i])}
        IN /\ Len(frames.regions) <= MaxAllocRegions
           /\ \A r \in Regions :
                 /\ r.start % FrameSize = 0 /\ r.end % FrameSize = 0 /\ r.start < r.end
                 /\ r.start >= frames.protectedUntil
                 /\ \E i \in usable : map[i].base <= r.start /\ r.end <= End(map[i])
           /\ \A i, j \in DOMAIN frames.regions : i < j =>
                 \A a \in FrameStarts(frames.regions[i]) \cap FrameStarts(frames.regions[j]) :
                    Cardinality(within(a)) > 1
           /\ Len(frames.regions) < MaxAllocRegions =>
                 \A a \in {f * FrameSize : f \in 0 .. MaxAddr \div FrameSize} :
                    a >= frames.protectedUntil /\ within(a) # {} =>
                       \E r \in Regions : a \in FrameStarts(r)
           /\ frames.usable = frames.allocatable + frames.skipped

\* No frame that the allocator may hand out holds a byte of the kernel, of the
\* boot information or of any module of the boot loader, the ones that
\* add_module had no room for included; and the bytes of /bin/init, which
\* elf::create_process_image reads again at every spawn, are in such a module.
BootMemoryProtected ==
    Allocating =>
        /\ \A r \in Regions :
              /\ ~ Meets(r, 0, machine.kernelEnd)
              /\ summary.totalSize > 0 =>
                    ~ Meets(r, summary.address, summary.address + summary.totalSize)
              /\ \A i \in DOMAIN machine.info.tags : IsModule(machine.info, i) =>
                    ~ Meets(r, machine.info.tags[i].start, machine.info.tags[i].end)
        /\ \A f \in InitFile :
              /\ 0 <= f.start /\ f.start <= f.end
              /\ archive.module[1].start + f.end <= archive.module[1].end
              /\ \E i \in DOMAIN machine.info.tags :
                    /\ IsModule(machine.info, i)
                    /\ machine.info.tags[i].start = archive.module[1].start
                    /\ machine.info.tags[i].end = archive.module[1].end

\* initramfs::init accepts exactly the archives that end in a trailer within
\* the module and hold /bin/init as a regular file; find then finds it, and
\* init_size is the size of what it finds when there is one such file.  The
\* archive that tools/mkinitramfs.rs builds is accepted, and find returns its
\* /bin/init from where the tool has put it.
ArchiveAccepted ==
    phase \in {"physmem", "elf", "booted"} =>
        /\ archive.valid <=> /\ archive.module # <<>>
                             /\ ArchiveBytes(archive.module[1]).len <= MaxArchiveSize
                             /\ IsArchive(ArchiveBytes(archive.module[1]))
        /\ archive.valid <=> InitFile # {}
        /\ Cardinality({i \in DOMAIN machine.archive.entries :
                           machine.archive.entries[i].name = InitPath}) = 1 =>
              \A f \in InitFile : f.end - f.start = archive.initSize
        /\ ( /\ machine.archive = BuiltArchive.archive
             /\ archive.module # <<>>
             /\ ArchiveBytes(archive.module[1]).len = BuiltArchive.len ) =>
              InitFile = {[start |-> BuiltArchive.initStart,
                           end |-> BuiltArchive.initStart + InitElfSize]}

\* validate_image accepts exactly the images that can be loaded, and its plan
\* is one that load_image can carry out: image_start and image_end enclose
\* the pages of all segments, no page is planned twice, none is writable and
\* executable, none is the stack's guard page, and all bytes to copy are in
\* the file.  The image that tools/mkinitramfs.rs builds is one of them.
PlanSound ==
    phase = "booted" =>
        LET S == plan.segments
            pages(i) == SegmentPages(S[i])
            file == CHOOSE f \in InitFile : TRUE
            image == ImageBytes(file)
        IN /\ plan.ok <=> InitFile # {} /\ IsLoadable(image)
           /\ InitFile # {} /\ machine.image = InitElf /\ image.len = InitElfSize => plan.ok
           /\ \A i, j \in DOMAIN S : i # j => pages(i) \cap pages(j) = {}
           /\ \A i \in DOMAIN S :
                 /\ pages(i) \subseteq plan.start \div PageSize .. plan.end \div PageSize - 1
                 /\ ElfEnd \div PageSize \notin pages(i)
                 /\ ~ (S[i].w /\ S[i].x)
                 /\ S[i].offset + S[i].filesz <= image.len /\ S[i].filesz <= S[i].memsz
           /\ plan.pages = Cardinality(UNION {pages(i) : i \in DOMAIN S})

\* The log reads as the newest messages in the order they were written, with
\* no gap and none twice, wherever the ring has been wrapped, and what it says
\* it has dropped is what is missing (command_log, klog::entry): with room for
\* LogSize entries, the last messages of the boot are all there.
LogKeepsNewest ==
    /\ log.count <= LogSize /\ log.count + log.dropped = log.nextSequence
    /\ log.dropped > 0 => log.count = LogSize
    /\ \A i \in 0 .. log.count - 1 : LogEntry(log, i).sequence = log.dropped + i
    /\ phase = "booted" => LogEntry(log, log.count - 1).tag = "elf"
=============================================================================
