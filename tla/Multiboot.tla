----------------------------- MODULE Multiboot -----------------------------
(***************************************************************************)
(* The parser of the Multiboot2 information, src/multiboot.rs, as          *)
(* operators on what the boot loader hands over: `info' is the address and *)
(* total_size of the structure and the tags in it, in order.               *)
(*                                                                         *)
(* A tag has its type and size in bytes.  A module tag has the module's    *)
(* range, its name and whether the name is terminated; a memory map tag    *)
(* has entry_size and its entries.  The parser walks by the sizes that the *)
(* tags state; beyond the tags it reads zeros, a tag of size 0.  The texts *)
(* and the statistics of the summary are left out.                         *)
(***************************************************************************)
EXTENDS Integers, Sequences

CONSTANTS BootInfoLimit,     \* MAX_BOOT_INFO_ADDRESS
          MaxBootInfoSize,   \* MAX_BOOT_INFO_SIZE
          MaxMapRegions,     \* MAX_REGIONS
          MaxModules         \* MAX_MODULES

ASSUME MultibootAssumption ==
    {BootInfoLimit, MaxBootInfoSize, MaxMapRegions, MaxModules} \subseteq Nat

\* BootInfoSummary::empty, with the fields that a later part of the boot
\* reads: the stored memory regions and modules, and highest_module_end.
NoSummary(info) ==
    [address |-> info.address, totalSize |-> 0, parsed |-> FALSE,
     regions |-> <<>>, modules |-> <<>>, highestModuleEnd |-> 0]

\* add_region
AddRegion(summary, e) ==
    IF e.length = 0 \/ Len(summary.regions) >= MaxMapRegions THEN summary
    ELSE [summary EXCEPT !.regions = Append(@, e)]

\* BootModule::is_valid
IsValid(module) ==
    module.start # 0 /\ module.end > module.start /\ module.end <= BootInfoLimit

\* Mutant of AddModule: a module that is not stored is not protected.
AddModuleStored(summary, module) ==
    IF ~ IsValid(module) \/ Len(summary.modules) >= MaxModules THEN summary
    ELSE [summary EXCEPT
             !.modules = Append(@, module),
             !.highestModuleEnd = IF module.end > @ THEN module.end ELSE @]

\* add_module: the end is kept also when there is no room for the module.
AddModule(summary, module) ==
    IF ~ IsValid(module) THEN summary
    ELSE [summary EXCEPT
             !.modules = IF Len(@) < MaxModules THEN Append(@, module) ELSE @,
             !.highestModuleEnd = IF module.end > @ THEN module.end ELSE @]

\* parse_module
ParseModule(summary, tag) ==
    IF tag.size < 17 \/ ~ tag.terminated THEN summary
    ELSE AddModule(summary, [start |-> tag.start, end |-> tag.end, name |-> tag.name])

\* The entries that the loop of parse_memory_map reads: as many as begin 24
\* bytes before the end of the tag.
EntriesRead(tag) ==
    IF tag.size < 16 + 24 THEN 0 ELSE (tag.size - 16 - 24) \div tag.entrySize + 1

\* An entry of the memory map, and the three kinds of tags: a memory map with
\* all entries that are read of it, a module, and any other.
MapEntry == [base : Nat, length : Nat, available : BOOLEAN]

MapTags == {t \in [type : {"map"}, size : Nat, entrySize : Nat, entries : Seq(MapEntry)] :
               t.entrySize >= 24 => EntriesRead(t) <= Len(t.entries)}

ModuleTags == [type : {"module"}, size : Nat, start : Nat, end : Nat, name : STRING,
               terminated : BOOLEAN]

OtherTags == [type : STRING \ {"map", "module"}, size : Nat]

BootInfo == [validMagic : BOOLEAN, address : Nat, totalSize : Nat,
             tags : Seq(MapTags \cup ModuleTags \cup OtherTags)]

\* parse_memory_map
ParseMemoryMap(summary, tag) ==
    IF tag.size < 16 \/ tag.entrySize < 24 THEN summary
    ELSE LET read[i \in 0 .. EntriesRead(tag)] ==
                 IF i = 0 THEN summary ELSE AddRegion(read[i - 1], tag.entries[i])
         IN  read[EntriesRead(tag)]

AlignUp8(n) == ((n + 7) \div 8) * 8

\* The state of the walk: what was found and the offset of the next tag.
\* One turn of the loop of parse.
ParseTag(w, tag, totalSize) ==
    IF \/ w.done
       \/ w.offset + 8 > totalSize
       \/ tag.size < 8
       \/ w.offset + tag.size > totalSize
    THEN [w EXCEPT !.done = TRUE]
    ELSE [offset |-> AlignUp8(w.offset + tag.size),
          done |-> tag.type = "end",
          summary |->
              CASE tag.type = "end" -> [w.summary EXCEPT !.parsed = tag.size = 8]
                [] tag.type = "module" -> ParseModule(w.summary, tag)
                [] tag.type = "map" -> ParseMemoryMap(w.summary, tag)
                [] OTHER -> w.summary]

\* parse: the boot information is read if it lies below the limit.
Parse(info) ==
    LET start == [offset |-> 8, done |-> FALSE,
                  summary |-> [NoSummary(info) EXCEPT !.totalSize = info.totalSize]]
        walk[i \in 0 .. Len(info.tags)] ==
            IF i = 0 THEN start ELSE ParseTag(walk[i - 1], info.tags[i], info.totalSize)
    IN IF ~ info.validMagic \/ info.address = 0 \/ info.address >= BootInfoLimit
       THEN NoSummary(info)
       ELSE IF \/ info.totalSize < 16 \/ info.totalSize > MaxBootInfoSize
               \/ info.address + info.totalSize >= BootInfoLimit
       THEN start.summary
       ELSE walk[Len(info.tags)].summary

\* find_module: the first stored module of that name, <<>> if there is none.
FindModule(summary, name) ==
    LET hits == {i \in DOMAIN summary.modules : summary.modules[i].name = name}
    IN IF hits = {} THEN <<>>
       ELSE <<summary.modules[CHOOSE i \in hits : \A j \in hits : i <= j]>>
=============================================================================
