------------------------------- MODULE MCBoot -------------------------------
(***************************************************************************)
(* Machines for Boot: one good machine, and every machine that differs     *)
(* from it in the memory map, in the list of tags, in the archive or in    *)
(* the image of /bin/init.  Memory is 32 frames of 256 bytes; the kernel   *)
(* ends in frame 2, the boot information is in frame 3, the initramfs is   *)
(* in frames 4 to 6 and a second module, for which the array of modules    *)
(* has no room, is in frames 7 and 8.                                      *)
(***************************************************************************)
EXTENDS Boot

Entry(base, length, available) == [base |-> base, length |-> length, available |-> available]

MapTag(entries) ==
    [type |-> "map", size |-> 16 + 24 * Len(entries), entrySize |-> 24, entries |-> entries]

ModuleTag(from, to, name) ==
    [type |-> "module", size |-> 26, start |-> from, end |-> to, name |-> name,
     terminated |-> TRUE]

TextTag == [type |-> "text", size |-> 13]
EndTag == [type |-> "end", size |-> 8]

InitTag == ModuleTag(1024, 1724, "initramfs")
OtherTag == ModuleTag(1900, 2100, "other")
WholeMap == MapTag(<<Entry(0, 640, TRUE), Entry(1000, 6900, TRUE)>>)

Info(tags) == [validMagic |-> TRUE, address |-> 800, totalSize |-> 248, tags |-> tags]
GoodInfo == Info(<<TextTag, InitTag, OtherTag, WholeMap, EndTag>>)

\* Maps of up to three entries that cut frames, overlap, reach into the
\* protected memory or past the last address, or are not available.
Entries ==
    {Entry(b, n, TRUE) : b \in {0, 2050, 2304, 2600}, n \in {0, 255, 512, 8100}}
        \cup {Entry(b, 512, FALSE) : b \in {0, 2304}}

Infos ==
    {Info(<<InitTag, OtherTag, MapTag(m), EndTag>>) :
        m \in UNION {[1 .. n -> Entries] : n \in 0 .. 2}
                \cup {<<d, e, f>> : d, f \in {Entry(2560, 256, TRUE), Entry(2304, 512, FALSE)},
                                    e \in Entries}}
    \cup {Info(tags) :
        tags \in UNION {[1 .. n -> {TextTag, InitTag, OtherTag, WholeMap, EndTag,
                                    [EndTag EXCEPT !.size = 7],
                                    [TextTag EXCEPT !.size = 300],
                                    [InitTag EXCEPT !.terminated = FALSE],
                                    [InitTag EXCEPT !.end = 4096],
                                    [InitTag EXCEPT !.end = 1024],
                                    [WholeMap EXCEPT !.size = 40],
                                    [WholeMap EXCEPT !.entrySize = 16]}] : n \in 1 .. 3}}
    \cup {[GoodInfo EXCEPT !.validMagic = FALSE], [GoodInfo EXCEPT !.address = 0],
          [GoodInfo EXCEPT !.address = 3000], [GoodInfo EXCEPT !.totalSize = 12],
          [GoodInfo EXCEPT !.totalSize = 400], [GoodInfo EXCEPT !.address = 2900]}

File(name, nameSize, type, size) ==
    [sound |-> TRUE, name |-> name, nameSize |-> nameSize, type |-> type, size |-> size]

Dir == File("bin", 4, "directory", 0)
InitEntry == File(InitPath, 9, "regular", 300)
TrailerEntry == File(Trailer, 11, "none", 0)

Archive(entries) == [entries |-> entries, garbage |-> FALSE]
GoodArchive == Archive(<<Dir, InitEntry, TrailerEntry>>)

Files == {Dir, InitEntry, TrailerEntry,
          [InitEntry EXCEPT !.size = 21], [InitEntry EXCEPT !.type = "directory"],
          [InitEntry EXCEPT !.sound = FALSE],
          [InitEntry EXCEPT !.size = 340], [InitEntry EXCEPT !.size = 464],
          [Dir EXCEPT !.nameSize = 14], [TrailerEntry EXCEPT !.size = 4]}

\* Lists of up to three entries, and of four with two good ones in front.
Archives ==
    {[Archive(e) EXCEPT !.garbage = g] :
        e \in UNION {[1 .. n -> Files] : n \in 0 .. 3}
                \cup {<<Dir, [InitEntry EXCEPT !.size = 21], f, e>> : f, e \in Files},
        g \in BOOLEAN}

Header(offset, vaddr, filesz, memsz, perms) ==
    [load |-> TRUE, r |-> "r" \in perms, w |-> "w" \in perms, x |-> "x" \in perms,
     offset |-> offset, vaddr |-> vaddr, filesz |-> filesz, memsz |-> memsz, align |-> 1]

Text == Header(0, ElfBase, 100, 100, {"r", "x"})
Data == Header(128, ElfBase + 128, 60, 65, {"r", "w"})

Headers ==
    {Text, Data, [Text EXCEPT !.load = FALSE], [Text EXCEPT !.r = FALSE],
     [Data EXCEPT !.x = TRUE], [Text EXCEPT !.vaddr = ElfBase - 1],
     [Text EXCEPT !.memsz = 99], [Data EXCEPT !.vaddr = ElfBase + 127, !.align = 64],
     [Data EXCEPT !.align = 64], [Data EXCEPT !.align = 24],
     [Data EXCEPT !.filesz = 0, !.memsz = 0], [Data EXCEPT !.offset = 241],
     [Data EXCEPT !.vaddr = ElfBase + 100], [Data EXCEPT !.memsz = 128],
     [Data EXCEPT !.memsz = 129], [Data EXCEPT !.memsz = 257], [Data EXCEPT !.memsz = MaxWord],
     [Data EXCEPT !.vaddr = ElfEnd - 64], [Data EXCEPT !.vaddr = ElfEnd - 65, !.memsz = 64]}

Image(headers) ==
    [sound |-> TRUE, entry |-> ElfBase + 99, tableOffset |-> 64, headers |-> headers]
GoodImage == Image(<<Text, Data>>)

Images ==
    {Image(h) : h \in UNION {[1 .. n -> Headers] : n \in 0 .. 2}
                        \cup {<<g, h, i>> : g, i \in {Text, Data}, h \in Headers}
                        \cup {<<Text, Text, Text, Text>>}}
    \cup {[GoodImage EXCEPT !.sound = FALSE], [GoodImage EXCEPT !.tableOffset = 200],
          [GoodImage EXCEPT !.entry = ElfBase + 100],
          [GoodImage EXCEPT !.entry = ElfBase + 128]}

Machine(info, files, image) ==
    [kernelEnd |-> 700, info |-> info, archive |-> files, image |-> image]

\* The machine that starts from the initramfs of the build, one whose boot
\* loader has cut the end of it, and one with a page of zeros behind it.
BuiltInfo(len) ==
    Info(<<ModuleTag(1024, 1024 + len, "initramfs"), WholeMap, EndTag>>)

BuiltMachines ==
    {Machine(BuiltInfo(BuiltArchive.len + more), BuiltArchive.archive, InitElf) :
        more \in {-4, 0, 64}}

MCMachines ==
    {Machine(i, GoodArchive, GoodImage) : i \in Infos}
        \cup {Machine(GoodInfo, a, GoodImage) : a \in Archives}
        \cup {Machine(GoodInfo, GoodArchive, i) : i \in Images}
        \cup BuiltMachines
=============================================================================
