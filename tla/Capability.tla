----------------------------- MODULE Capability -----------------------------
(***************************************************************************)
(* The capability tables and mailboxes of src/ipc.rs (struct IpcState and  *)
(* its methods).  A task owns at most one endpoint: a bounded mailbox and  *)
(* a table of capabilities.  A capability names a target endpoint and some *)
(* rights on it, carries a generation that no other active capability has, *)
(* and may be derived from another one, its parent, by a transfer.         *)
(*                                                                         *)
(* Every method runs with interrupts disabled, so it is one step.  A       *)
(* method that returns an error changes nothing but denial counters, which *)
(* are left out: it is no step.  Message bytes are left out too.  The flag *)
(* `waiting' of an endpoint and the wake-ups are in module Kernel.         *)
(***************************************************************************)
EXTENDS Naturals, Sequences, FiniteSets

CONSTANTS Tasks,            \* task identifiers
          NoTask,           \* the identifier 0
          MaxEndpoints,     \* MAX_ENDPOINTS
          MaxCaps,          \* MAX_CAPABILITIES_PER_ENDPOINT
          QueueDepth,       \* QUEUE_DEPTH
          MaxLineage,       \* MAX_CAPABILITY_LINEAGE_DEPTH
          MaxGeneration,    \* max_generation of allocate_generation, 2^56 - 1
          Requests          \* the rights that callers ask for

AllRights == {"SEND", "RECEIVE", "CANCEL", "DELEGATE"}

Slots == 0 .. MaxCaps - 1

\* Slot 0 of a table holds the endpoint's capability on itself.
SelfSlot == 0

Generations == 1 .. MaxGeneration

ASSUME CapabilityAssumption ==
    /\ NoTask \notin Tasks
    /\ MaxCaps \in 1 .. 255
    /\ MaxEndpoints \in Nat /\ QueueDepth \in Nat /\ MaxLineage \in Nat
    /\ MaxGeneration \in Nat \ {0}
    /\ Requests \subseteq (SUBSET AllRights) \ {{}}

VARIABLES owners,     \* the tasks that own an endpoint
          caps,       \* caps[o][k]: slot k of the table of o's endpoint
          mail,       \* mail[o]: the messages queued at o's endpoint
          nextGen     \* next_capability_generation

vars == <<owners, caps, mail, nextGen>>

CapabilityRecord ==
    [active : BOOLEAN, target : Tasks \cup {NoTask}, gen : Nat, parent : Nat,
     depth : Nat, rights : SUBSET AllRights]

NoCap == [active |-> FALSE, target |-> NoTask, gen |-> 0, parent |-> 0,
          depth |-> 0, rights |-> {}]

\* A message carries the handle (slot and generation) of the capability it
\* transfers and its rights; generation 0 when it transfers none.
Message == [sender : Tasks, slot : Slots, gen : Nat, rights : SUBSET AllRights]

TypeOK ==
    /\ owners \in SUBSET Tasks
    /\ caps \in [Tasks -> [Slots -> CapabilityRecord]]
    /\ mail \in [Tasks -> Seq(Message)]
    /\ nextGen \in Generations

Init ==
    /\ owners = {}
    /\ caps = [o \in Tasks |-> [k \in Slots |-> NoCap]]
    /\ mail = [o \in Tasks |-> <<>>]
    /\ nextGen = 1

-----------------------------------------------------------------------------
(* Generations and slots.                                                  *)

Active(o, k) == caps[o][k].active

Held == {h \in Tasks \X Slots : Active(h[1], h[2])}

CapAt(h) == caps[h[1]][h[2]]

ActiveGens == {CapAt(h).gen : h \in Held}

\* How many steps allocate_generation's counter takes to reach g.
Distance(g) == IF g >= nextGen THEN g - nextGen
               ELSE g + MaxGeneration - nextGen

\* Mutants of AllocatesGeneration: it takes the lowest free generation; it
\* does not skip active ones.
AllocatesLowest(g) ==
    /\ g \notin ActiveGens
    /\ \A h \in Generations \ ActiveGens : g <= h
    /\ nextGen' = IF g < nextGen THEN nextGen ELSE g + 1

AllocatesBlindly(g) ==
    /\ g = nextGen
    /\ nextGen' = IF g = MaxGeneration THEN 1 ELSE g + 1

\* The generation the counter reaches first that no active capability has.
AllocatesGeneration(g) ==
    /\ LET free == Generations \ ActiveGens IN
          g \in free /\ \A h \in free : Distance(g) <= Distance(h)
    /\ nextGen' = IF g = MaxGeneration THEN 1 ELSE g + 1

FirstFree(o, k) ==
    /\ ~ Active(o, k)
    /\ \A j \in Slots : j < k => Active(o, j)

Install(o, k, target, g, parent, depth, rights) ==
    [caps EXCEPT ![o][k] = [active |-> TRUE, target |-> target, gen |-> g,
                            parent |-> parent, depth |-> depth,
                            rights |-> rights]]

-----------------------------------------------------------------------------
(* Revocation.                                                             *)

\* <<parent, generation>> of the active capabilities.
Derivations == {<<CapAt(h).parent, CapAt(h).gen>> : h \in Held}

\* Mutant of Branch: the cascade stops after the children.
BranchOneLevel(roots) ==
    roots \cup {d[2] : d \in {e \in Derivations : e[1] \in roots}}

\* Roots and all that is derived from them: what revoke_branch visits, the
\* least set that holds roots and everything derived from one of its members.
Branch(roots) ==
    LET live    == ActiveGens
        derived == Derivations
        closed  == {S \in SUBSET live :
                      /\ roots \subseteq S
                      /\ \A d \in derived : d[1] \in S => d[2] \in S}
    IN  {g \in live : \A S \in closed : g \in S}

Children(g) == {CapAt(h).gen : h \in {c \in Held : CapAt(c).parent = g}}

\* The tables without the capabilities of generations R ...
Pruned(R) ==
    [o \in Tasks |-> [k \in Slots |->
        IF caps[o][k].gen \in R THEN NoCap ELSE caps[o][k]]]

\* Mutant of Stripped: queued messages keep the handles that were revoked.
StrippedNot(o, R) == mail[o]

\* ... and the queue of o with their handles taken out of the messages.
Stripped(o, R) ==
    [i \in 1 .. Len(mail[o]) |->
        IF mail[o][i].gen \in R
        THEN [mail[o][i] EXCEPT !.slot = 0, !.gen = 0, !.rights = {}]
        ELSE mail[o][i]]

-----------------------------------------------------------------------------
(* Endpoints.                                                              *)

Register(t, g) ==
    /\ t \notin owners
    /\ Cardinality(owners) < MaxEndpoints
    /\ owners' = owners \cup {t}
    /\ caps' = Install(t, SelfSlot, t, g, 0, 0, AllRights)
    /\ UNCHANGED mail

\* What dies with the endpoint of t: the capabilities in its table, the ones
\* that name it, and all that is derived from them.
DiesWith(t) ==
    Branch({CapAt(h).gen : h \in {c \in Held : c[1] = t \/ CapAt(c).target = t}})

Unregister(t) ==
    /\ t \in owners
    /\ owners' = owners \ {t}
    /\ LET dead == DiesWith(t) IN
          /\ caps' = Pruned(dead)
          /\ mail' = [o \in Tasks |-> IF o = t THEN <<>> ELSE Stripped(o, dead)]
    /\ UNCHANGED nextGen

\* The kernel gives o a root capability on target.
Grant(o, target, rights, g) ==
    /\ "RECEIVE" \in rights => o = target
    /\ {o, target} \subseteq owners
    /\ \E k \in Slots :
          /\ FirstFree(o, k)
          /\ caps' = Install(o, k, target, g, 0, 0, rights)
    /\ UNCHANGED <<owners, mail>>

\* The handle (k, g) is good in the table of o.
Valid(o, k, g) == o \in owners /\ Active(o, k) /\ caps[o][k].gen = g

\* Revoking one's own root capability only revokes what is derived from it.
Revoke(o, k, g) ==
    /\ Valid(o, k, g)
    /\ LET dead == Branch(IF k = SelfSlot THEN Children(g) ELSE {g}) IN
          /\ caps' = Pruned(dead)
          /\ mail' = [p \in Tasks |-> Stripped(p, dead)]
    /\ UNCHANGED <<owners, nextGen>>

-----------------------------------------------------------------------------
(* Messages.                                                               *)

\* The handle (k, g) gives o the rights `required' on an endpoint that exists.
\* The code revokes a capability whose target is gone when it meets one here;
\* AuthorityIntact says that it never does.
Resolves(o, k, g, required) ==
    /\ Valid(o, k, g)
    /\ required \subseteq caps[o][k].rights
    /\ caps[o][k].target \in owners

Push(r, sender, slot, g, rights) ==
    /\ Len(mail[r]) < QueueDepth
    /\ mail' = [mail EXCEPT ![r] = Append(@, [sender |-> sender, slot |-> slot,
                                              gen |-> g, rights |-> rights])]

\* The kernel's own send, which needs no capability.
SendDirect(sender, receiver) ==
    /\ {sender, receiver} \subseteq owners
    /\ Push(receiver, sender, 0, 0, {})
    /\ UNCHANGED <<owners, caps, nextGen>>

Send(sender, k, g) ==
    /\ Resolves(sender, k, g, {"SEND"})
    /\ SendDirect(sender, caps[sender][k].target)

\* Mutant of MayDerive: the right to receive can be passed on to anybody.
MayDeriveReceive(source, receiver, requested) ==
    /\ requested \subseteq source.rights
    /\ source.depth + 1 <= MaxLineage

\* Rights can only shrink, the right to receive stays with the target, and
\* lineages are bounded.
MayDerive(source, receiver, requested) ==
    /\ requested \subseteq source.rights
    /\ "RECEIVE" \in requested => receiver = source.target
    /\ source.depth + 1 <= MaxLineage

\* The capability (k, g) of the sender is passed on, with the requested
\* rights, to the endpoint that (dk, dg) names: the receiver gets a
\* capability of generation h derived from it and a message that carries its
\* handle.
SendWithCapability(sender, dk, dg, k, g, requested, h) ==
    LET source   == caps[sender][k]
        receiver == caps[sender][dk].target
    IN  /\ Resolves(sender, dk, dg, {"SEND"})
        /\ Resolves(sender, k, g, {"DELEGATE"})
        /\ MayDerive(source, receiver, requested)
        /\ \E slot \in Slots :
              /\ FirstFree(receiver, slot)
              /\ caps' = Install(receiver, slot, source.target, h, source.gen,
                                 source.depth + 1, requested)
              /\ Push(receiver, sender, slot, h, requested)
        /\ UNCHANGED owners

\* can_receive: the own capability still allows it.
CanReceive(t) ==
    /\ t \in owners
    /\ Active(t, SelfSlot)
    /\ caps[t][SelfSlot].target = t
    /\ {"SEND", "RECEIVE"} \subseteq caps[t][SelfSlot].rights

Receive(t) ==
    /\ CanReceive(t)
    /\ mail[t] # <<>>
    /\ mail' = [mail EXCEPT ![t] = Tail(@)]
    /\ UNCHANGED <<owners, caps, nextGen>>

-----------------------------------------------------------------------------
(* A handle is one word.  A handle that is stale is refused by every       *)
(* method, so the next-state relation passes the handles of what is in the *)
(* slots.                                                                  *)

SlotBase == 2 ^ 8          \* CAPABILITY_SLOT_BITS

EncodeHandle(k, g) == g * SlotBase + (k + 1)

\* decode_handle: the slots and generations that a word stands for, none when
\* the word is not a handle.
DecodeHandle(h) ==
    LET slot == h % SlotBase
        g == h \div SlotBase
    IN IF slot = 0 \/ g = 0 \/ slot > MaxCaps THEN {} ELSE {[slot |-> slot - 1, gen |-> g]}

\* The words that a task may have: self_capability, what grants and messages
\* have given it, and words that are no handles.
Handles(o) == {EncodeHandle(k, caps[o][k].gen) : k \in Slots}

\* syscall_ipc_send_capability
Transfers(g) ==
    \E o \in Tasks, r \in Requests : \E h, i \in Handles(o) :
        \E d \in DecodeHandle(h), c \in DecodeHandle(i) :
            SendWithCapability(o, d.slot, d.gen, c.slot, c.gen, r, g)

\* A step that creates a capability takes the generation that
\* allocate_generation gives it.
Creates(g) ==
    /\ AllocatesGeneration(g)
    /\ \/ \E t \in Tasks : Register(t, g)
       \/ \E o, t \in Tasks, r \in Requests : Grant(o, t, r, g)
       \/ Transfers(g)

\* syscall_ipc_revoke and syscall_ipc_send
Uses(o, h) ==
    \E d \in DecodeHandle(h) : Revoke(o, d.slot, d.gen) \/ Send(o, d.slot, d.gen)

Next ==
    \/ \E g \in Generations : Creates(g)
    \/ \E t \in Tasks : Unregister(t) \/ Receive(t)
    \/ \E o, t \in Tasks : SendDirect(o, t)
    \/ \E o \in Tasks : \E h \in Handles(o) : Uses(o, h)

Spec == Init /\ [][Next]_vars

-----------------------------------------------------------------------------
(* The properties that invariants() asks for, and more.                    *)

\* capability_generations_unique: a generation names one capability.
GenerationsUnique ==
    \A o, p \in Tasks, k, j \in Slots :
        (Active(o, k) /\ Active(p, j) /\ caps[o][k].gen = caps[p][j].gen)
            => o = p /\ k = j

\* A task that has an endpoint can always name it and receive from it: no
\* cascade takes its own root capability away.
SelfIntact ==
    \A t \in owners :
        /\ Active(t, SelfSlot)
        /\ caps[t][SelfSlot].target = t
        /\ caps[t][SelfSlot].parent = 0
        /\ caps[t][SelfSlot].rights = AllRights

\* The capability in slot k of o is derived from the one in slot j of p.
DerivedFrom(o, k, p, j) ==
    /\ Active(p, j)
    /\ caps[p][j].gen = caps[o][k].parent
    /\ caps[p][j].target = caps[o][k].target
    /\ "DELEGATE" \in caps[p][j].rights
    /\ caps[o][k].rights \subseteq caps[p][j].rights
    /\ caps[o][k].depth = caps[p][j].depth + 1

\* capability_tables_valid: an active capability is held by and names an
\* endpoint that exists; unless it is a root, the capability it was derived
\* from is still active, could be delegated, names the same target and has
\* at least its rights.  So no revocation or cleanup, in whatever order they
\* come, leaves authority behind that it should have taken.
AuthorityIntact ==
    \A o \in Tasks, k \in Slots : Active(o, k) =>
        /\ o \in owners
        /\ caps[o][k].target \in owners
        /\ caps[o][k].depth <= MaxLineage
        /\ caps[o][k].parent = 0 => caps[o][k].depth = 0
        /\ caps[o][k].parent # 0 =>
              \E p \in Tasks, j \in Slots : DerivedFrom(o, k, p, j)

\* The tables are sound: no cascade takes an endpoint's own root capability,
\* and none leaves authority behind whose origin is gone.
TablesSound == TypeOK /\ SelfIntact /\ AuthorityIntact

\* Only the owner of an endpoint ever holds the right to receive from it.
ReceiveConfined ==
    \A o \in Tasks, k \in Slots :
        (Active(o, k) /\ "RECEIVE" \in caps[o][k].rights)
            => caps[o][k].target = o

\* queued_capabilities_valid: the handle that a queued message carries is
\* good in the receiver's table, with the rights the message says; queues
\* stay within their depth.
QueuedHandlesLive ==
    \A o \in Tasks :
        /\ Len(mail[o]) <= QueueDepth
        /\ \A i \in DOMAIN mail[o] :
              LET m == mail[o][i] IN
              m.gen # 0 =>
                 /\ Active(o, m.slot)
                 /\ caps[o][m.slot].gen = m.gen
                 /\ caps[o][m.slot].rights = m.rights

\* A generation that was revoked is never live again while the counter has
\* not wrapped around: a stale handle stays stale, whoever reuses its slot.
RevokedForGood ==
    [][((1 .. nextGen - 1) \ ActiveGens) \cap ActiveGens' = {}]_vars
=============================================================================
