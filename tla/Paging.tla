------------------------------- MODULE Paging -------------------------------
(***************************************************************************)
(* The page tables, the frame allocator and the program loader at work:    *)
(* the boot sequence of kernel_main that maps the heap, the probe program  *)
(* and /bin/init into the kernel's tables, and after it the spawning,      *)
(* running and cleaning up of processes with address spaces of their own,  *)
(* until memory runs out, in every order.                                  *)
(*                                                                         *)
(* The states of the tasks are left to module Kernel: here a process is    *)
(* its address space.  No system call maps a page, so all of this happens  *)
(* under the kernel's tables, and cr3 only changes between user_enter and  *)
(* the return to the kernel.                                               *)
(***************************************************************************)
EXTENDS PageTables

CONSTANTS Slots,          \* the slots of the process table
          Memories,       \* the region arrays a machine may boot with
          Plans,          \* the ImagePlans that validate_image makes of /bin/init
          MaxSpawns       \* bound on the attempts to spawn a process

ASSUME MaxSpawnsAssumption == MaxSpawns \in Nat

\* The image plan of an initramfs without /bin/init, or with one that
\* validate_image refuses.
NoPlan == <<>>

\* A segment is its pages and permissions: validate_image admits no segment
\* outside the ELF region, none without a page, no two that share a page and
\* none that is writable and executable.
ASSUME PlansAssumption ==
    \A p \in Plans :
        /\ p \in Seq([pages : Seq(ElfPages),
                     permissions : [writable : BOOLEAN, executable : BOOLEAN]])
        /\ \A s \in DOMAIN p :
              /\ p[s].pages # <<>>
              /\ ~ (p[s].permissions.writable /\ p[s].permissions.executable)
        /\ \A s, t \in DOMAIN p :
              s # t => {p[s].pages[j] : j \in DOMAIN p[s].pages}
                           \cap {p[t].pages[j] : j \in DOMAIN p[t].pages} = {}

\* The memory lies above the kernel's image.
ASSUME MemoriesAssumption ==
    \A m \in Memories : IsRegionArray(m) /\ FramesOf(m) \cap ImageFrames = {}

VARIABLES phase,          \* what kernel_main does next
          k,              \* the kernel's memory, a record of PageTables
          heapReady,      \* heap.initialized
          userReady,      \* USER_READY
          plan,           \* the plan of the image in the initramfs
          spawns,         \* attempts to spawn a process
          spaces,         \* the address_space of every process slot
          cr3

vars == <<phase, k, heapReady, userReady, plan, spawns, spaces, cr3>>

Init ==
    /\ phase = "heap::init"
    /\ \E m \in Memories : k = NewKernelMemory(m)
    /\ heapReady = FALSE
    /\ userReady = FALSE
    /\ plan \in Plans \cup {NoPlan}
    /\ spawns = 0
    /\ spaces = [i \in Slots |-> EmptySpace]
    /\ cr3 = BootP4

-----------------------------------------------------------------------------
(***************************************************************************)
(* Boot.                                                                   *)
(***************************************************************************)

\* One turn of the loop of heap::init, which ends at the first error.
MapHeapPage(r, v) == IF r.ok THEN MapNewPage(r.k, v, KernelFlags, "Heap") ELSE r

InitHeap ==
    /\ phase = "heap::init"
    /\ LET r == Loop(MapHeapPage, [k |-> k, ok |-> TRUE], HeapPages)
       IN k' = r.k /\ heapReady' = r.ok
    /\ phase' = "user::init"
    /\ UNCHANGED <<userReady, plan, spawns, spaces, cr3>>

\* map_probe_page; nothing else has mapped the page before.
MapProbePage(kk, v, phys, permissions) ==
    LET r == MapPage(kk, v, phys, Flags(permissions), "User")
    IN [r EXCEPT !.ok = @ /\ Translate(r.k.mem, BootP4, v).user]

InitUser ==
    /\ phase = "user::init"
    /\ LET code == MapProbePage(k, ProbeCodePage, ProbeCodeFrame, ReadExecute)
           stack == MapProbePage(code.k, ProbeStackPage, ProbeStackFrame, ReadWrite)
       IN k' = stack.k /\ userReady' = (code.ok /\ stack.ok)
    /\ phase' = "elf::init"
    /\ UNCHANGED <<heapReady, plan, spawns, spaces, cr3>>

\* The pages of an image in the order in which the loader maps them, the
\* stack at the end.
PagesOf(segment) ==
    [j \in DOMAIN segment.pages |->
        [virt |-> segment.pages[j], permissions |-> segment.permissions]]

ImagePages(p) ==
    LET AddSegment(pages, segment) == pages \o PagesOf(segment)
    IN Append(Loop(AddSegment, <<>>, p),
              [virt |-> ElfStackPage, permissions |-> ReadWrite])

\* The stack of recycled frames, 128 of them, holds what a load that fails
\* gives back: less than MAX_MAPPED_PAGES, 65, or the tables of a new space.
ASSUME RecycledAssumption ==
    3 <= MaxRecycled /\ \A p \in Plans : Len(ImagePages(p)) < MaxRecycled

\* One page of load_image, unless one before it has failed.
LoadPage(r, page) ==
    LET m == MapNewPage(r.k, page.virt, Flags(page.permissions), "User")
    IN IF ~ r.ok THEN r
       ELSE [k |-> m.k, ok |-> m.ok,
             mapped |-> IF m.ok THEN Append(r.mapped, page.virt) ELSE r.mapped]

\* copy_segment and copy_segment_to_address_space find every page that they
\* copy to; what they copy is left out.
Copies(mem, root, p) ==
    \A s \in DOMAIN p : \A j \in DOMAIN p[s].pages :
        LET t == Translate(mem, root, p[s].pages[j]) IN t.mapped /\ t.user

\* rollback_mappings
Rollback(kk, mapped) == Loop(DropPage, kk, Reverse(mapped))

\* load_image
LoadImage(kk, p) ==
    LET r == Loop(LoadPage, [k |-> kk, ok |-> TRUE, mapped |-> <<>>], ImagePages(p))
    IN IF r.ok /\ Copies(r.k.mem, BootP4, p) THEN r.k ELSE Rollback(r.k, r.mapped)

InitElf ==
    /\ phase = "elf::init"
    /\ k' = IF plan = NoPlan THEN k ELSE LoadImage(k, plan)
    /\ phase' = "up"
    /\ UNCHANGED <<heapReady, userReady, plan, spawns, spaces, cr3>>

-----------------------------------------------------------------------------
(***************************************************************************)
(* Processes.                                                              *)
(***************************************************************************)

\* One page of create_process_image, unless one before it has failed.
AddUserPage(c, page) == IF c.frame = NoFrame THEN c ELSE MapUserPage(c, page)

\* Mutant of CreateProcessImage: a failed image is dropped, not destroyed.
CreateProcessImageDropped(kk, p) ==
    LET new == CreateSpace(kk)
        c == Loop(AddUserPage, new, ImagePages(p))
    IN IF new.frame = NoFrame \/ c.frame # NoFrame THEN c
       ELSE [c EXCEPT !.space = EmptySpace]

\* create_process_image: the memory and the space, which is empty on an error.
CreateProcessImage(kk, p) ==
    LET new == CreateSpace(kk)
        c == Loop(AddUserPage, new, ImagePages(p))
    IN IF new.frame = NoFrame THEN new
       ELSE IF /\ c.frame # NoFrame
               /\ Copies(c.k.mem, c.space.root, p)
               /\ SpaceOk(c.k.mem, c.space)
       THEN c
       ELSE [c EXCEPT !.k = DestroySpace(c.k, c.space), !.space = EmptySpace]

InKernel == phase = "up" /\ cr3 = BootP4

MaySpawn == InKernel /\ plan # NoPlan /\ spawns < MaxSpawns

\* spawn_elf_child and spawn_preempt_task.
Spawn(i) ==
    /\ MaySpawn
    /\ heapReady
    /\ ~ spaces[i].active
    /\ spawns' = spawns + 1
    /\ LET c == CreateProcessImage(k, plan)
       IN k' = c.k /\ spaces' = [spaces EXCEPT ![i] = c.space]
    /\ UNCHANGED <<phase, heapReady, userReady, plan, cr3>>

\* No room for the task in the kernel heap, the process table or the
\* endpoints: the image is destroyed.
SpawnRefused ==
    /\ MaySpawn
    /\ spawns' = spawns + 1
    /\ LET c == CreateProcessImage(k, plan)
       IN k' = DestroySpace(c.k, c.space)
    /\ UNCHANGED <<phase, heapReady, userReady, plan, spaces, cr3>>

\* user_enter for a task with an address space.
EnterUser(i) ==
    /\ InKernel
    /\ userReady
    /\ spaces[i].active
    /\ cr3' = spaces[i].root
    /\ UNCHANGED <<phase, k, heapReady, userReady, plan, spawns, spaces>>

\* The timer or a blocking system call switches to another task.
SwitchTo(i) ==
    /\ cr3 # BootP4
    /\ spaces[i].active /\ spaces[i].root # cr3
    /\ cr3' = spaces[i].root
    /\ UNCHANGED <<phase, k, heapReady, userReady, plan, spawns, spaces>>

\* user_return_to_kernel: user_kernel_cr3 holds the kernel's tables, the only
\* ones that user_enter is called under.
ReturnToKernel ==
    /\ cr3 # BootP4
    /\ cr3' = BootP4
    /\ UNCHANGED <<phase, k, heapReady, userReady, plan, spawns, spaces>>

\* exception_dispatch_handler for a fault in user mode: the running task
\* touches a page that its tables do not let it touch, and is ended by
\* handle_user_exception, which leaves user mode as exit does.
UserFault ==
    /\ cr3 # BootP4
    /\ \E v \in Virtuals :
          LET t == Translate(k.mem, cr3, v)
          IN ~ (t.mapped /\ t.user /\ t.writable /\ t.executable)
    /\ cr3' = BootP4
    /\ UNCHANGED <<phase, k, heapReady, userReady, plan, spawns, spaces>>

\* Mutant of Cleanup: destroy does not reset the space.
CleanupKeepsSpace(i) ==
    /\ InKernel
    /\ spaces[i].active
    /\ k' = DestroySpace(k, spaces[i])
    /\ UNCHANGED <<phase, heapReady, userReady, plan, spawns, spaces, cr3>>

\* The part of cleanup_task that is about memory; destroy refuses the space
\* that is in cr3.
Cleanup(i) ==
    /\ InKernel
    /\ spaces[i].active
    /\ k' = DestroySpace(k, spaces[i])
    /\ spaces' = [spaces EXCEPT ![i] = EmptySpace]
    /\ UNCHANGED <<phase, heapReady, userReady, plan, spawns, cr3>>

\* The shell's `vmtest' and the self-tests.
VmTest ==
    /\ InKernel
    /\ k' = ProbeMapUnmap(k, VmTestPage)
    /\ UNCHANGED <<phase, heapReady, userReady, plan, spawns, spaces, cr3>>

Next ==
    \/ InitHeap
    \/ InitUser
    \/ InitElf
    \/ \E i \in Slots : Spawn(i) \/ EnterUser(i) \/ SwitchTo(i) \/ Cleanup(i)
    \/ SpawnRefused
    \/ ReturnToKernel
    \/ UserFault
    \/ VmTest

Spec == Init /\ [][Next]_vars

-----------------------------------------------------------------------------
(***************************************************************************)
(* User memory: the checked copies of the system calls.                    *)
(***************************************************************************)

\* The page after v, <<>> at the end of the address space.
NextPage(v) ==
    IF v[4] < 3 THEN <<v[1], v[2], v[3], v[4] + 1>>
    ELSE IF v[3] < 1 THEN <<v[1], v[2], v[3] + 1, 0>>
    ELSE IF v[2] < 1 THEN <<v[1], v[2] + 1, 0, 0>>
    ELSE IF v[1] < 1 THEN <<v[1] + 1, 0, 0, 0>>
    ELSE <<>>

\* The pages that a buffer touches, up to two here; MAX_USER_BUFFER_BYTES is
\* 1 MiB, half a table's worth of pages, so that no buffer skips a table.
Buffers == {<<v>> : v \in Virtuals} \cup {<<v, NextPage(v)>> : v \in Virtuals}

\* A page that the task may access.
Accessible(mem, space, v, toUser) ==
    LET t == Translate(mem, space.root, v)
    IN t.mapped /\ t.user /\ (toUser => t.writable)

\* Mutant of ValidateUserBuffer: only the first page is checked.
ValidateFirstPage(mem, space, buffer, toUser) ==
    space.active /\ Accessible(mem, space, buffer[1], toUser)

\* validate_user_buffer: a buffer past the end of the address space is refused.
ValidateUserBuffer(mem, space, buffer, toUser) ==
    /\ space.active
    /\ \A j \in DOMAIN buffer :
          buffer[j] # <<>> /\ Accessible(mem, space, buffer[j], toUser)

\* copy_user_bytes: the frames it reads or writes, up to the first page that
\* is not accessible.
CopyUserBytes(mem, space, buffer, toUser) ==
    {Translate(mem, space.root, buffer[j]).phys :
        j \in {j \in DOMAIN buffer :
                  \A l \in 1 .. j : /\ buffer[l] # <<>>
                                    /\ Accessible(mem, space, buffer[l], toUser)}}

\* copy_from_user and copy_to_user
Touched(mem, space, buffer, toUser) ==
    IF ValidateUserBuffer(mem, space, buffer, toUser)
    THEN CopyUserBytes(mem, space, buffer, toUser)
    ELSE {}

-----------------------------------------------------------------------------
(***************************************************************************)
(* Properties.                                                             *)
(***************************************************************************)

Elements(s) == {s[j] : j \in DOMAIN s}

\* The present entries of a set of tables, and where they lead.
Targets(tables) ==
    {e.frame : e \in {e \in {k.mem[t][i] : t \in tables, i \in Index} : e.present /\ ~ e.huge}}

\* The kernel's own tables and the pages they map.
KernelP3 == Targets({BootP4})
KernelP2 == Targets(KernelP3)
KernelP1 == Targets(KernelP2)
KernelOwned == {BootP4} \cup KernelP3 \cup KernelP2 \cup KernelP1 \cup Targets(KernelP1)

UserFrames(s) == {s.users[j].frame : j \in DOMAIN s.users}

Owned(s) == Elements(s.tables) \cup UserFrames(s)

Active == {i \in Slots : spaces[i].active}

\* No frame has two lives: every table and page of the kernel and of every
\* address space is issued and not free again, no two spaces, and no space and
\* the kernel, have a frame in common, and cr3 is the kernel's root or that of
\* a living space.  A violation takes a destroyed or half-built space.
FramesOwned ==
    /\ \A f \in KernelOwned \ ImageFrames : IsIssued(k.pm, f) /\ ~ IsRecycled(k.pm, f)
    /\ \A i \in Active :
          /\ \A f \in Owned(spaces[i]) : IsIssued(k.pm, f) /\ ~ IsRecycled(k.pm, f)
          /\ Cardinality(Owned(spaces[i])) = Len(spaces[i].tables) + Len(spaces[i].users)
          /\ Owned(spaces[i]) \cap KernelOwned = {}
          /\ \A j \in Active \ {i} : Owned(spaces[i]) \cap Owned(spaces[j]) = {}
    /\ cr3 \in {BootP4} \cup {spaces[i].root : i \in Active}

\* No frame is lost silently: an issued frame is free, in the kernel's tables
\* or in a space's, whatever failed half way, unless destroy has reported the
\* frames that the allocator's full stack refused.
NoSilentLeak ==
    \A f \in FramesOf(k.pm.regions) :
        IsIssued(k.pm, f) =>
            \/ IsRecycled(k.pm, f)
            \/ f \in KernelOwned
            \/ \E i \in Active : f \in Owned(spaces[i])
            \/ k.cleanupFailed

\* What a process can reach in user mode is exactly what was mapped for it:
\* its own pages with their permissions, none of them writable and executable,
\* nothing of the kernel, of the probe program or of another process.
UserViewExact ==
    \A i \in Active : \A v \in Virtuals :
        LET t == Translate(k.mem, spaces[i].root, v)
        IN /\ t.mapped /\ t.user =>
                 /\ ~ (t.writable /\ t.executable)
                 /\ \E j \in DOMAIN spaces[i].users :
                       spaces[i].users[j] =
                           [frame |-> t.phys, virt |-> v,
                            permissions |-> [writable |-> t.writable,
                                             executable |-> t.executable]]
           /\ \A j \in DOMAIN spaces[i].users :
                 spaces[i].users[j].virt = v => t.mapped /\ t.user

\* The kernel sees its memory under every root: outside the user range every
\* space translates as the kernel's tables do, although its p4 is a copy that
\* was made when the space was created.
KernelShared ==
    \A i \in Active : \A v \in Virtuals :
        ~ InUserRange(v) =>
            LET t == Translate(k.mem, spaces[i].root, v)
            IN t = Translate(k.mem, BootP4, v) /\ ~ (t.mapped /\ t.user)

\* permission_audit finds no violation but the overflow of the records: every
\* record is true of the tables, whatever was mapped beside it before or after
\* it, the guard pages stay free, and without an overflow every 4 KiB page of
\* the kernel's tables has its record.
AuditClean ==
    /\ \A r \in k.records : RecordOk(k, r)
    /\ GuardsIntact(k)
    /\ ~ k.overflowed =>
          \A v \in Virtuals :
              LET t == Translate(k.mem, BootP4, v)
              IN t.mapped /\ ~ t.huge => \E r \in k.records : r.virt = v

\* A checked copy between the kernel and a task touches the task's own pages
\* only, and happens as a whole or not at all, also across a page boundary
\* and next to the guard page.
CopiesConfined ==
    \A i \in Active : \A buffer \in Buffers : \A toUser \in BOOLEAN :
        LET touched == Touched(k.mem, spaces[i], buffer, toUser)
        IN /\ touched \subseteq UserFrames(spaces[i])
           /\ touched # {} => Cardinality(touched) = Len(buffer)
=============================================================================
