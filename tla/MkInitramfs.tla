---------------------------- MODULE MkInitramfs ----------------------------
(***************************************************************************)
(* tools/mkinitramfs.rs, which builds the initramfs on the host: the ELF   *)
(* image of /bin/init and the archive around it, as operators.  An archive *)
(* is built byte after byte; of its bytes the model keeps their number,    *)
(* what the headers say and where the data of /bin/init was put.           *)
(*                                                                         *)
(* The offsets of the sections, the page and the program are scaled down   *)
(* with the page of ElfImage; the assumption keeps what the constants of   *)
(* the tool have in common with them, and the room that the kernel's       *)
(* limits leave for the two files and the two segments.                    *)
(***************************************************************************)
EXTENDS Initramfs, ElfImage

CONSTANTS TextOffset,        \* TEXT_OFFSET
          DataOffset,        \* DATA_OFFSET
          CodeSize           \* build_init_code().len()

InitDataSize == 16           \* INIT_DATA.len()

ASSUME MkInitramfsAssumption ==
    /\ {TextOffset, DataOffset, CodeSize} \subseteq Nat /\ CodeSize > 0
    /\ TextOffset % PageSize = 0 /\ DataOffset = TextOffset + PageSize
    /\ TextOffset >= ElfHeaderSize + 2 * ProgramHeaderSize
    /\ CodeSize <= PageSize                       \* assert! in build_init_elf
    /\ InitDataSize <= PageSize /\ IsPowerOfTwo(PageSize)
    /\ ElfBase + 2 * PageSize <= ElfEnd
    /\ MaxEntries >= 2 /\ MaxPathLen >= 10
    /\ MaxProgramHeaders >= 2 /\ MaxLoadSegments >= 2 /\ MaxLoadPages >= 2

\* build_init_elf
InitElfSize == DataOffset + InitDataSize

InitElf ==
    [sound |-> TRUE, entry |-> ElfBase, tableOffset |-> ElfHeaderSize,
     headers |-> <<
        [load |-> TRUE, r |-> TRUE, w |-> FALSE, x |-> TRUE, offset |-> TextOffset,
         vaddr |-> ElfBase, filesz |-> CodeSize, memsz |-> CodeSize, align |-> PageSize],
        [load |-> TRUE, r |-> TRUE, w |-> TRUE, x |-> FALSE, offset |-> DataOffset,
         vaddr |-> ElfBase + PageSize, filesz |-> InitDataSize, memsz |-> PageSize,
         align |-> PageSize] >>]

\* pad_to_four: the loop appends zeros until the length is a multiple of 4.
PadToFour(len) == CHOOSE n \in len .. len + 3 : n % 4 = 0

\* append_entry: header, name with its terminator, padding, data, padding.
AppendEntry(built, name, nameSize, type, size) ==
    LET dataStart == PadToFour(built.len + HeaderSize + nameSize)
    IN [len |-> PadToFour(dataStart + size),
        initStart |-> IF name = InitPath THEN dataStart ELSE built.initStart,
        archive |-> [built.archive EXCEPT !.entries =
                        Append(@, [sound |-> TRUE, name |-> name, nameSize |-> nameSize,
                                   type |-> type, size |-> size])]]

\* build_initramfs
BuiltArchive ==
    LET empty == [len |-> 0, initStart |-> 0,
                  archive |-> [entries |-> <<>>, garbage |-> FALSE]]
        bin == AppendEntry(empty, "bin", 4, "directory", 0)
        init == AppendEntry(bin, InitPath, 9, "regular", InitElfSize)
    IN AppendEntry(init, Trailer, 11, "none", 0)
=============================================================================
