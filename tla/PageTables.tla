----------------------------- MODULE PageTables -----------------------------
(***************************************************************************)
(* The page tables of src/paging.rs as operators on the kernel's memory:   *)
(* the tables in their frames, the frame allocator they are taken from,    *)
(* the mapper's records and the address spaces of the processes.           *)
(*                                                                         *)
(* A virtual page is its path <<p4, p3, p2, p1>> of table indices; of the  *)
(* 512 entries of a table the ones that the layout tells apart are kept,   *)
(* p4 index 256 of the kernel's range being 1 here.  The offset into a     *)
(* page, what a program writes into its pages, the TLB (every change of an *)
(* entry in use is followed by invlpg or a load of cr3) and the counters   *)
(* that are only reported are left out.  A call of these functions is not  *)
(* interrupted by another one: interrupt handlers only translate.          *)
(***************************************************************************)
EXTENDS FrameAlloc, SequencesExt

CONSTANTS IdentityEnd,    \* BOOT_IDENTITY_MAP_BYTES, in frames
          MaxTracked,     \* MAX_TRACKED_MAPPINGS
          MaxUserPages,   \* MAX_PROCESS_USER_PAGES
          MaxTableFrames  \* MAX_PROCESS_TABLE_FRAMES

ASSUME PagingAssumption ==
    {IdentityEnd, MaxTracked, MaxUserPages, MaxTableFrames} \subseteq Nat

\* boot_p4_table, boot_p3_table and boot_p2_table, USER_CODE_PAGE and
\* USER_STACK_PAGE lie in the kernel's image, which is never allocated.
BootP4 == 1
BootP3 == 2
BootP2 == 3
ProbeCodeFrame == 4
ProbeStackFrame == 5
ImageFrames == 1 .. 5

\* The image lies in the memory that _start maps.
ASSUME ImageAssumption == \A f \in ImageFrames : f < IdentityEnd

Index == 0 .. 3
Virtuals == (0 .. 1) \X (0 .. 1) \X (0 .. 1) \X Index

InUserRange(v) == v[1] = 0 /\ v[2] = 1
InManagedRange(v) == v[1] = 1 /\ v[2] = 0

HeapGuardLow == <<1, 0, 0, 0>>
HeapPages == << <<1, 0, 0, 1>>, <<1, 0, 0, 2>> >>
HeapGuardHigh == <<1, 0, 0, 3>>
VmTestPage == <<1, 0, 1, 0>>
ProbeCodePage == <<0, 1, 0, 0>>
ProbeStackPage == <<0, 1, 0, 1>>
ElfPages == {<<0, 1, 0, 2>>, <<0, 1, 0, 3>>}
ElfStackGuard == <<0, 1, 1, 0>>
ElfStackPage == <<0, 1, 1, 1>>

Reachable(f) == f < IdentityEnd

-----------------------------------------------------------------------------
(***************************************************************************)
(* Entries and translation.                                                *)
(***************************************************************************)

\* The flags a mapping is made with.
KernelFlags == [writable |-> TRUE, user |-> FALSE, nx |-> FALSE]
Flags(permissions) ==
    [writable |-> permissions.writable, user |-> TRUE, nx |-> ~ permissions.executable]
ReadExecute == [writable |-> FALSE, executable |-> TRUE]
ReadWrite == [writable |-> TRUE, executable |-> FALSE]

NoEntry == [present |-> FALSE, frame |-> 0, huge |-> FALSE,
            writable |-> FALSE, user |-> FALSE, nx |-> FALSE]

PageEntry(f, flags) == [present |-> TRUE, frame |-> f, huge |-> FALSE,
                        writable |-> flags.writable, user |-> flags.user, nx |-> flags.nx]

\* An entry that points to a table is never NO_EXECUTE.
TableEntry(f, writable, user) ==
    PageEntry(f, [writable |-> writable, user |-> user, nx |-> FALSE])

ZeroTable == [i \in Index |-> NoEntry]

\* The tables that _start builds: the first GiB, mapped to itself.
BootTable(f) ==
    CASE f = BootP4 -> [ZeroTable EXCEPT ![0] = TableEntry(BootP3, TRUE, FALSE)]
      [] f = BootP3 -> [ZeroTable EXCEPT ![0] = TableEntry(BootP2, TRUE, FALSE)]
      [] f = BootP2 -> [i \in Index |-> [PageEntry(i, KernelFlags) EXCEPT !.huge = TRUE]]
      [] OTHER -> ZeroTable

\* paging::init: no record, no address space.
NewKernelMemory(regions) ==
    [pm |-> NewAllocator(regions),
     mem |-> [f \in ImageFrames \cup FramesOf(regions) |-> BootTable(f)],
     records |-> {},
     overflowed |-> FALSE,       \* tracking_overflows # 0
     cleanupFailed |-> FALSE]    \* ADDRESS_SPACE_CLEANUP_FAILURES # 0

Unmapped == [mapped |-> FALSE, phys |-> NoFrame, huge |-> FALSE,
             user |-> FALSE, writable |-> FALSE, executable |-> FALSE]

\* What the walk through the entries of `path' finds: every level must grant
\* the access.
Translation(f, huge, path) ==
    [mapped |-> TRUE, phys |-> f, huge |-> huge,
     user |-> \A e \in path : e.user,
     writable |-> \A e \in path : e.writable,
     executable |-> \A e \in path : ~ e.nx]

\* translate with the root boot_p4_table, translate_from_root with another.
Translate(mem, root, v) ==
    LET e4 == mem[root][v[1]]
        e3 == mem[e4.frame][v[2]]
        e2 == mem[e3.frame][v[3]]
        e1 == mem[e2.frame][v[4]]
        Leads(e) == e.present /\ Reachable(e.frame)
    IN IF ~ Reachable(root) \/ ~ Leads(e4) \/ ~ Leads(e3) \/ ~ e2.present THEN Unmapped
       ELSE IF e2.huge THEN Translation(e2.frame, TRUE, {e4, e3, e2})
       ELSE IF ~ Leads(e2) \/ ~ e1.present THEN Unmapped
       ELSE Translation(e1.frame, FALSE, {e4, e3, e2, e1})

-----------------------------------------------------------------------------
(***************************************************************************)
(* Frames for tables and pages.                                            *)
(***************************************************************************)

\* Mutant of Cleared: the frame keeps what was in it.
ClearedNot(k, f, pm) ==
    IF f = NoFrame THEN [k |-> [k EXCEPT !.pm = pm], frame |-> NoFrame]
    ELSE IF ~ Reachable(f) THEN [k |-> [k EXCEPT !.pm = FreeFrame(pm, f)], frame |-> NoFrame]
    ELSE [k |-> [k EXCEPT !.pm = pm], frame |-> f]

\* allocate_zeroed_frame, and the same lines in ensure_next_table and
\* map_new_page_with_flags: a frame beyond the identity map is given back.
\* Without a frame the result has NoFrame.
Cleared(k, f, pm) ==
    IF f = NoFrame THEN [k |-> [k EXCEPT !.pm = pm], frame |-> NoFrame]
    ELSE IF ~ Reachable(f) THEN [k |-> [k EXCEPT !.pm = FreeFrame(pm, f)], frame |-> NoFrame]
    ELSE [k |-> [k EXCEPT !.pm = pm, !.mem[f] = ZeroTable], frame |-> f]

AllocateZeroed(k) == Cleared(k, NextFrame(k.pm), AllocateFrame(k.pm))

Release(k, f) == [k EXCEPT !.pm = FreeFrame(@, f)]

-----------------------------------------------------------------------------
(***************************************************************************)
(* The mapper: pages of the kernel's own tables, with their records.       *)
(***************************************************************************)

\* Mutant of Widened: an entry that is there keeps its flags.
WidenedNot(e, flags) == e

\* The flags of a page are added to the entries above it.
Widened(e, flags) ==
    [e EXCEPT !.writable = @ \/ flags.writable, !.user = @ \/ flags.user]

\* The entry for a table that was allocated, if it was.
LinkTable(z, t, i, writable, user) ==
    IF z.frame = NoFrame THEN z
    ELSE [z EXCEPT !.k.mem[t][i] = TableEntry(z.frame, writable, user)]

\* ensure_next_table for entry i of table t; the result has the next table,
\* or NoFrame on an error.
EnsureNextTable(k, t, i, flags) ==
    LET e == k.mem[t][i]
    IN IF e.present /\ e.huge THEN [k |-> k, frame |-> NoFrame]
       ELSE IF e.present
       THEN [k |-> [k EXCEPT !.mem[t][i] = Widened(e, flags)],
             frame |-> IF Reachable(e.frame) THEN e.frame ELSE NoFrame]
       ELSE LinkTable(AllocateZeroed(k), t, i, flags.writable, flags.user)

\* One level of map_page_inner_with_flags, unless a level above has failed.
Descend(r, i, flags) ==
    IF r.frame = NoFrame THEN r ELSE EnsureNextTable(r.k, r.frame, i, flags)

\* record_mapping
RecordMapping(k, v, phys, flags, owner) ==
    LET record == [virt |-> v, phys |-> phys, flags |-> flags, owner |-> owner]
        others == {r \in k.records : r.virt # v}
    IN IF others = k.records /\ Cardinality(others) >= MaxTracked
       THEN [k EXCEPT !.overflowed = TRUE]
       ELSE [k EXCEPT !.records = others \cup {record}]

\* forget_mapping
ForgetMapping(k, v) == [k EXCEPT !.records = {r \in @ : r.virt # v}]

InMappableRange(v, flags) ==
    IF flags.user THEN InUserRange(v)
    ELSE InManagedRange(v) /\ v \notin {HeapGuardLow, HeapGuardHigh}

\* The end of map_page_inner_with_flags, with the p1 table found.
SetPage(p1, v, phys, flags, owner) ==
    IF p1.frame = NoFrame \/ p1.k.mem[p1.frame][v[4]].present
    THEN [k |-> p1.k, ok |-> FALSE]
    ELSE [k |-> RecordMapping([p1.k EXCEPT !.mem[p1.frame][v[4]] = PageEntry(phys, flags)],
                              v, phys, flags, owner),
          ok |-> TRUE]

\* map_page_inner_with_flags.  After an error the tables made on the way stay.
MapPage(k, v, phys, flags, owner) ==
    LET start == [k |-> k, frame |-> BootP4]
    IN IF ~ InMappableRange(v, flags) \/ ~ Reachable(phys) THEN [k |-> k, ok |-> FALSE]
       ELSE SetPage(Descend(Descend(Descend(start, v[1], flags), v[2], flags), v[3], flags),
                    v, phys, flags, owner)

\* A frame whose page could not be mapped is given back.
KeepFrame(r, f) == IF r.ok THEN r ELSE [r EXCEPT !.k = Release(@, f)]

MapFrame(z, v, flags, owner) ==
    IF z.frame = NoFrame THEN [k |-> z.k, ok |-> FALSE]
    ELSE KeepFrame(MapPage(z.k, v, z.frame, flags, owner), z.frame)

\* map_new_page_with_flags
MapNewPage(k, v, flags, owner) ==
    IF ~ InMappableRange(v, flags) \/ Translate(k.mem, BootP4, v).mapped
    THEN [k |-> k, ok |-> FALSE]
    ELSE MapFrame(AllocateZeroed(k), v, flags, owner)

\* unmap_page_inner returns the frame, or NoFrame where it returns an error:
\* the page is mapped by its p1 entry or not at all.  The tables stay.
UnmapPage(k, v) ==
    LET p3 == k.mem[BootP4][v[1]].frame
        p2 == k.mem[p3][v[2]].frame
        p1 == k.mem[p2][v[3]].frame
        t == Translate(k.mem, BootP4, v)
    IN IF ~ t.mapped \/ t.huge \/ ~ (InManagedRange(v) \/ InUserRange(v))
       THEN [k |-> k, frame |-> NoFrame]
       ELSE [k |-> ForgetMapping([k EXCEPT !.mem[p1][v[4]] = NoEntry], v),
             frame |-> t.phys]

\* Unmap a page and free its frame.
DropPage(k, v) ==
    LET u == UnmapPage(k, v)
    IN IF u.frame = NoFrame THEN u.k ELSE Release(u.k, u.frame)

\* probe_map_unmap: both ways out of the test drop the page.
ProbeMapUnmap(k, v) ==
    LET m == MapNewPage(k, v, KernelFlags, "Test")
    IN IF m.ok THEN DropPage(m.k, v) ELSE m.k

\* permission_audit_inner counts no violation for this record.
RecordOk(k, r) ==
    LET t == Translate(k.mem, BootP4, r.virt)
    IN /\ t.mapped /\ ~ t.huge
       /\ t.phys = r.phys
       /\ [writable |-> t.writable, user |-> t.user, nx |-> ~ t.executable] = r.flags
       /\ IF r.owner = "User" THEN InUserRange(r.virt) /\ t.user
          ELSE InManagedRange(r.virt) /\ ~ t.user

GuardsIntact(k) ==
    \A g \in {HeapGuardLow, HeapGuardHigh} : ~ Translate(k.mem, BootP4, g).mapped

-----------------------------------------------------------------------------
(***************************************************************************)
(* Address spaces.                                                         *)
(***************************************************************************)

\* AddressSpace::empty.  tables is table_frames[..table_frame_count], users
\* the first user_frame_count entries of the three user arrays.
EmptySpace == [root |-> NoFrame, tables |-> <<>>, users |-> <<>>, active |-> FALSE]

\* The new table frame is recorded in the space.
AddTable(c, z) ==
    IF z.frame = NoFrame THEN [c EXCEPT !.k = z.k, !.frame = NoFrame]
    ELSE [k |-> z.k, frame |-> z.frame,
          space |-> [c.space EXCEPT !.tables = Append(@, z.frame)]]

\* allocate_table_frame.  The state of a call: the memory k, the space and
\* the frame obtained, NoFrame after an error.
AllocateTable(c) ==
    IF Len(c.space.tables) >= MaxTableFrames THEN [c EXCEPT !.frame = NoFrame]
    ELSE AddTable(c, AllocateZeroed(c.k))

\* A loop over a sequence: op is its body.
Loop(op(_, _), start, s) ==
    LET after[n \in 0 .. Len(s)] == IF n = 0 THEN start ELSE op(after[n - 1], s[n])
    IN after[Len(s)]

FreeAll(pm, frames) == Loop(FreeFrame, pm, frames)

\* release_partial_tables
ReleasePartial(c) ==
    [c EXCEPT !.k.pm = FreeAll(@, Reverse(c.space.tables)),
              !.space = EmptySpace,
              !.frame = NoFrame]

\* Mutant of OwnTables: the new p4 gets the low half only.
OwnTablesLowOnly(mem, root, lowP3, userP2) ==
    LET p3 == mem[BootP4][0].frame
    IN [mem EXCEPT
           ![root] = [ZeroTable EXCEPT ![0] = TableEntry(lowP3, TRUE, TRUE)],
           ![lowP3] = [mem[p3] EXCEPT ![1] = TableEntry(userP2, TRUE, TRUE)]]

\* The tables of a new space: the boot tables are copied, so that the kernel's
\* tables are shared, and the space has its own p3 for the low half and its
\* own p2 for the user range.
OwnTables(mem, root, lowP3, userP2) ==
    LET p3 == mem[BootP4][0].frame
    IN [mem EXCEPT
           ![root] = [mem[BootP4] EXCEPT ![0] = TableEntry(lowP3, TRUE, TRUE)],
           ![lowP3] = [mem[p3] EXCEPT ![1] = TableEntry(userP2, TRUE, TRUE)]]

\* AddressSpace::create; on an error the space is empty.
CreateSpace(k) ==
    LET root == AllocateTable([k |-> k, space |-> EmptySpace, frame |-> NoFrame])
        lowP3 == AllocateTable(root)
        userP2 == AllocateTable(lowP3)
    IN IF root.frame = NoFrame THEN ReleasePartial(root)
       ELSE IF lowP3.frame = NoFrame THEN ReleasePartial(lowP3)
       ELSE IF userP2.frame = NoFrame THEN ReleasePartial(userP2)
       ELSE [userP2 EXCEPT
                !.k.mem = OwnTables(@, root.frame, lowP3.frame, userP2.frame),
                !.space.root = root.frame,
                !.space.active = TRUE]

\* The p2 table of a space for page v.
UserP2(mem, root, v) == mem[mem[root][v[1]].frame][v[2]].frame

\* The first part of map_user_page: the p1 table, made if it is missing.
EnsureUserTable(c, p2, i) ==
    IF c.k.mem[p2][i].present THEN c
    ELSE LinkTable(AllocateTable(c), p2, i, TRUE, TRUE)

\* The second part: the frame z of the page, its entry and its record.
SetUserPage(d, z, p1, page) ==
    IF z.frame = NoFrame THEN [d EXCEPT !.k = z.k, !.frame = NoFrame]
    ELSE [k |-> [z.k EXCEPT !.mem[p1][page.virt[4]] =
                    PageEntry(z.frame, Flags(page.permissions))],
          frame |-> z.frame,
          space |-> [d.space EXCEPT !.users =
              Append(@, [frame |-> z.frame, virt |-> page.virt,
                         permissions |-> page.permissions])]]

AddUserFrame(d, p2, page) ==
    IF d.frame = NoFrame THEN d
    ELSE SetUserPage(d, AllocateZeroed(d.k), d.k.mem[p2][page.virt[3]].frame, page)

\* AddressSpace::map_user_page for [virt, permissions]; the frame is the
\* page's, NoFrame on an error.  A p1 table made before the error stays with
\* the space.
MapUserPage(c, page) ==
    LET v == page.virt
        p2 == UserP2(c.k.mem, c.space.root, v)
    IN IF \/ ~ c.space.active
          \/ ~ InUserRange(v)
          \/ Len(c.space.users) >= MaxUserPages
          \/ Translate(c.k.mem, c.space.root, v).mapped
       THEN [c EXCEPT !.frame = NoFrame]
       ELSE AddUserFrame(EnsureUserTable(c, p2, v[3]), p2, page)

\* AddressSpace::audit counts this page among the user pages.
UserPageOk(mem, space, u) ==
    LET t == Translate(mem, space.root, u.virt)
    IN /\ t.mapped /\ t.user /\ t.phys = u.frame
       /\ [writable |-> t.writable, executable |-> t.executable] = u.permissions

\* The audit that create_process_image makes of a new space.
SpaceOk(mem, space) ==
    /\ space.active
    /\ \A j \in DOMAIN space.users :
          /\ UserPageOk(mem, space, space.users[j])
          /\ space.users[j].permissions # [writable |-> TRUE, executable |-> TRUE]
    /\ ~ Translate(mem, space.root, ElfStackGuard).mapped

\* The frames in the order in which destroy frees them.
FramesToFree(space) ==
    [j \in DOMAIN space.users |-> space.users[j].frame] \o Reverse(space.tables)

\* AddressSpace::destroy of a space that is not in cr3.  A frame that the
\* allocator refuses is lost, and the failure counted.
DestroySpace(k, space) ==
    LET pm == FreeAll(k.pm, FramesToFree(space))
        complete == Len(pm.recycled) = Len(k.pm.recycled) + Len(FramesToFree(space))
    IN IF space.active
       THEN [k EXCEPT !.pm = pm, !.cleanupFailed = @ \/ ~ complete]
       ELSE k
=============================================================================
