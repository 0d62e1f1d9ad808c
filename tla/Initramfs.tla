----------------------------- MODULE Initramfs -----------------------------
(***************************************************************************)
(* The CPIO archive of src/initramfs.rs, as operators.  An archive is its  *)
(* length in bytes, the entries from its start on and whether a byte after *)
(* them is not zero (`garbage').  An entry has its name, the name's size   *)
(* with the terminator, its type and size, and `sound': magic, hexadecimal *)
(* fields, checksum, terminator and path are right.  Past the last         *)
(* entry there is no header: an entry that is not sound.                   *)
(***************************************************************************)
EXTENDS Integers, Sequences

CONSTANTS MaxEntries,        \* MAX_ENTRIES
          MaxPathLen         \* MAX_PATH_LEN

ASSUME InitramfsAssumption == MaxEntries \in Nat /\ MaxPathLen \in Nat

ArchiveEntry == [sound : BOOLEAN, name : STRING, nameSize : Nat, type : STRING, size : Nat]
ArchiveFile == [entries : Seq(ArchiveEntry), garbage : BOOLEAN]

HeaderSize == 110
InitPath == "bin/init"
Trailer == "TRAILER!!!"

AlignUp4(n) == ((n + 3) \div 4) * 4

NoHeader == [sound |-> FALSE, name |-> Trailer, nameSize |-> 1, type |-> "none", size |-> 0]

EntryAt(archive, i) ==
    IF i \in DOMAIN archive.entries THEN archive.entries[i] ELSE NoHeader

DataStart(e, offset) == AlignUp4(offset + HeaderSize + e.nameSize)
NextOffset(e, offset) == AlignUp4(DataStart(e, offset) + e.size)

\* parse_entry returns no error for the entry at this offset.
EntryOk(e, offset, len) ==
    /\ offset + HeaderSize <= len
    /\ e.sound
    /\ e.nameSize > 0 /\ e.nameSize <= MaxPathLen + 1
    /\ NextOffset(e, offset) <= len
    /\ e.name = Trailer => e.size = 0

\* ArchiveState::empty at the start of the walk: index and offset of the next
\* entry, what was found, and how the walk has ended, if it has.
StartWalk == [index |-> 1, offset |-> 0, entries |-> <<>>, initFound |-> FALSE,
              initSize |-> 0, end |-> "none"]

\* One turn of the loop of parse_archive.
ParseNext(w, archive) ==
    LET e == EntryAt(archive, w.index)
        next == [w EXCEPT !.index = @ + 1, !.offset = NextOffset(e, w.offset)]
    IN IF w.end # "none" \/ w.offset >= archive.len THEN w
       ELSE IF ~ EntryOk(e, w.offset, archive.len) THEN [w EXCEPT !.end = "error"]
       ELSE IF e.name = Trailer THEN [next EXCEPT !.end = "trailer"]
       ELSE IF \/ Len(w.entries) >= MaxEntries
               \/ e.name = InitPath /\ e.type # "regular"
       THEN [w EXCEPT !.end = "error"]
       ELSE [next EXCEPT !.entries = Append(@, e),
                         !.initFound = @ \/ e.name = InitPath,
                         !.initSize = IF e.name = InitPath THEN e.size ELSE @]

\* bytes[offset..] has a byte that is not zero, one of a further entry say.
TrailingGarbage(w, archive) ==
    w.offset < archive.len /\ (archive.garbage \/ w.index <= Len(archive.entries))

\* The loop: a turn for every entry and one that finds no header.
WalkArchive(archive) ==
    LET walk[i \in 0 .. Len(archive.entries) + 1] ==
            IF i = 0 THEN StartWalk ELSE ParseNext(walk[i - 1], archive)
    IN  walk[Len(archive.entries) + 1]

\* Mutant of ParseArchive: the trailer is not asked for.
ParseArchiveOpen(archive) ==
    LET w == WalkArchive(archive)
    IN [valid |-> w.end # "error" /\ ~ TrailingGarbage(w, archive) /\ w.initFound,
        initSize |-> w.initSize]

\* parse_archive and the result that initramfs::init keeps of it.
ParseArchive(archive) ==
    LET w == WalkArchive(archive)
    IN [valid |-> w.end = "trailer" /\ ~ TrailingGarbage(w, archive) /\ w.initFound,
        initSize |-> w.initSize]

\* The turns of find's loop: the offset of entry i, -1 once the loop has ended.
FindNext(archive, e, offset) ==
    IF offset = -1 \/ offset >= archive.len \/ ~ EntryOk(e, offset, archive.len)
    THEN -1 ELSE NextOffset(e, offset)

FindOffset(archive, i) ==
    LET at[j \in 0 .. i - 1] ==
            IF j = 0 THEN 0 ELSE FindNext(archive, archive.entries[j], at[j - 1])
    IN  at[i - 1]

\* The entries before the trailer that find compares with the path.
Compared(archive) ==
    {i \in DOMAIN archive.entries :
        /\ FindOffset(archive, i) # -1
        /\ FindOffset(archive, i) < archive.len
        /\ EntryOk(archive.entries[i], FindOffset(archive, i), archive.len)
        /\ \A j \in 1 .. i : archive.entries[j].name # Trailer}

\* find: the first entry of that name, as the range of its data in the
\* archive; the empty set of ranges if there is none or no valid archive.
Find(archive, state, path) ==
    LET hits == {i \in Compared(archive) : archive.entries[i].name = path}
        i == CHOOSE i \in hits : \A j \in hits : i <= j
        start == DataStart(archive.entries[i], FindOffset(archive, i))
    IN IF ~ state.valid \/ hits = {} THEN {}
       ELSE {[start |-> start, end |-> start + archive.entries[i].size]}
=============================================================================
