-------------------------- MODULE CapabilityProofs --------------------------
(***************************************************************************)
(* Proofs about the capability tables and mailboxes, for any number of     *)
(* tasks and endpoints, any sizes of tables and mailboxes, any bound on    *)
(* lineages and any number of generations.                                 *)
(***************************************************************************)
EXTENDS Capability, Integers, SequenceTheorems, TLAPS

-----------------------------------------------------------------------------
(* Generations of active capabilities, and what a cascade reaches.         *)

\* The generations of active capabilities, by slot.
LEMMA ActiveGensBySlot ==
    /\ \A o \in Tasks, k \in Slots : Active(o, k) => caps[o][k].gen \in ActiveGens
    /\ \A g \in ActiveGens : \E o \in Tasks, k \in Slots :
          Active(o, k) /\ caps[o][k].gen = g
<1>1. ASSUME NEW o \in Tasks, NEW k \in Slots, Active(o, k)
      PROVE  caps[o][k].gen \in ActiveGens
    <2>1. <<o, k>> \in Held /\ CapAt(<<o, k>>).gen = caps[o][k].gen
        BY <1>1 DEF Held, CapAt
    <2>2. QED
        BY <2>1 DEF ActiveGens
<1>2. ASSUME NEW g \in ActiveGens
      PROVE  \E o \in Tasks, k \in Slots : Active(o, k) /\ caps[o][k].gen = g
    <2>1. PICK h \in Held : CapAt(h).gen = g
        BY DEF ActiveGens
    <2>2. h[1] \in Tasks /\ h[2] \in Slots /\ Active(h[1], h[2])
        BY DEF Held
    <2>3. QED
        BY <2>1, <2>2 DEF CapAt
<1>3. QED
    BY <1>1, <1>2

\* The derivations of active capabilities, by slot.
LEMMA DerivationsBySlot ==
    /\ \A o \in Tasks, k \in Slots : Active(o, k) =>
          <<caps[o][k].parent, caps[o][k].gen>> \in Derivations
    /\ \A d \in Derivations : \E o \in Tasks, k \in Slots :
          Active(o, k) /\ d = <<caps[o][k].parent, caps[o][k].gen>>
<1>1. ASSUME NEW o \in Tasks, NEW k \in Slots, Active(o, k)
      PROVE  <<caps[o][k].parent, caps[o][k].gen>> \in Derivations
    <2>1. <<o, k>> \in Held /\ CapAt(<<o, k>>) = caps[o][k]
        BY <1>1 DEF Held, CapAt
    <2>2. QED
        BY <2>1 DEF Derivations
<1>2. ASSUME NEW d \in Derivations
      PROVE  \E o \in Tasks, k \in Slots :
                Active(o, k) /\ d = <<caps[o][k].parent, caps[o][k].gen>>
    <2>1. PICK h \in Held : d = <<CapAt(h).parent, CapAt(h).gen>>
        BY DEF Derivations
    <2>2. h[1] \in Tasks /\ h[2] \in Slots /\ Active(h[1], h[2])
        BY DEF Held
    <2>3. QED
        BY <2>1, <2>2 DEF CapAt
<1>3. QED
    BY <1>1, <1>2

\* What revoke_branch visits: active generations, the roots among them, and
\* with a capability everything derived from it.
LEMMA BranchProperties ==
    ASSUME NEW roots \in SUBSET ActiveGens
    PROVE  /\ roots \subseteq Branch(roots)
           /\ Branch(roots) \subseteq ActiveGens
           /\ \A o \in Tasks, k \in Slots :
                 (Active(o, k) /\ caps[o][k].parent \in Branch(roots))
                    => caps[o][k].gen \in Branch(roots)
<1>1. roots \subseteq Branch(roots) /\ Branch(roots) \subseteq ActiveGens
    BY DEF Branch
<1>2. ASSUME NEW o \in Tasks, NEW k \in Slots, Active(o, k),
             caps[o][k].parent \in Branch(roots)
      PROVE  caps[o][k].gen \in Branch(roots)
    <2> DEFINE d == <<caps[o][k].parent, caps[o][k].gen>>
    <2>1. d \in Derivations /\ caps[o][k].gen \in ActiveGens
        BY <1>2, DerivationsBySlot, ActiveGensBySlot
    <2>2. ASSUME NEW S \in SUBSET ActiveGens, roots \subseteq S,
                 \A e \in Derivations : e[1] \in S => e[2] \in S
          PROVE  caps[o][k].gen \in S
        <3>1. caps[o][k].parent \in S
            BY <1>2, <2>2 DEF Branch
        <3>2. d[1] \in S => d[2] \in S
            BY <2>1, <2>2
        <3>3. QED
            BY <3>1, <3>2
    <2>3. QED
        BY <2>1, <2>2 DEF Branch
<1>3. QED
    BY <1>1, <1>2

-----------------------------------------------------------------------------
(* The inductive invariant.  A slot that is not active is blank, so that a *)
(* cascade, which clears slots by generation, touches active ones only; no *)
(* active capability has generation 0, the mark of a root's parent and of  *)
(* a message without a capability.                                         *)

SlotsClean ==
    \A o \in Tasks, k \in Slots :
        /\ ~ Active(o, k) => caps[o][k] = NoCap
        /\ Active(o, k) => caps[o][k].gen \in Generations

\* SelfIntact needs GenerationsUnique (a cascade clears by generation) and
\* SlotsClean; QueuedHandlesLive needs both too; AuthorityIntact needs that a
\* cascade is closed under derivation.
IInv ==
    /\ TypeOK
    /\ SlotsClean
    /\ GenerationsUnique
    /\ SelfIntact
    /\ AuthorityIntact
    /\ ReceiveConfined
    /\ QueuedHandlesLive

LEMMA Types ==
    ASSUME TypeOK
    PROVE  /\ \A o \in Tasks, k \in Slots :
                 /\ caps[o][k] \in CapabilityRecord
                 /\ caps[o][k].active \in BOOLEAN /\ caps[o][k].gen \in Nat
                 /\ caps[o][k].parent \in Nat /\ caps[o][k].depth \in Nat
                 /\ caps[o][k].rights \subseteq AllRights
                 /\ caps[o][k].target \in Tasks \cup {NoTask}
           /\ \A o \in Tasks :
                 /\ mail[o] \in Seq(Message)
                 /\ Len(mail[o]) \in Nat /\ DOMAIN mail[o] = 1 .. Len(mail[o])
                 /\ \A i \in 1 .. Len(mail[o]) :
                       /\ mail[o][i] \in Message
                       /\ mail[o][i].sender \in Tasks
                       /\ mail[o][i].slot \in Slots /\ mail[o][i].gen \in Nat
                       /\ mail[o][i].rights \subseteq AllRights
<1>1. \A o \in Tasks, k \in Slots : caps[o][k] \in CapabilityRecord
    BY DEF TypeOK
<1>2. \A o \in Tasks : mail[o] \in Seq(Message)
    BY DEF TypeOK
<1>3. \A o \in Tasks : \A i \in 1 .. Len(mail[o]) : mail[o][i] \in Message
    BY <1>2
<1>4. \A c \in CapabilityRecord :
         /\ c.active \in BOOLEAN /\ c.gen \in Nat /\ c.parent \in Nat
         /\ c.depth \in Nat /\ c.rights \subseteq AllRights
         /\ c.target \in Tasks \cup {NoTask}
    BY DEF CapabilityRecord
<1>5. \A m \in Message : /\ m.sender \in Tasks /\ m.slot \in Slots /\ m.gen \in Nat
                         /\ m.rights \subseteq AllRights
    BY DEF Message
<1>6. \A o \in Tasks : Len(mail[o]) \in Nat /\ DOMAIN mail[o] = 1 .. Len(mail[o])
    BY <1>2
<1>7. QED
    BY <1>1, <1>2, <1>3, <1>4, <1>5, <1>6

\* A cascade spares the root capabilities that it does not start from.
LEMMA RootsSurvive ==
    ASSUME SlotsClean, GenerationsUnique,
           NEW roots \in SUBSET ActiveGens,
           NEW o \in Tasks, NEW k \in Slots, Active(o, k),
           caps[o][k].parent = 0, caps[o][k].gen \notin roots
    PROVE  caps[o][k].gen \notin Branch(roots)
<1> DEFINE g == caps[o][k].gen
           S == ActiveGens \ {g}
<1>1. 0 \notin ActiveGens
    BY ActiveGensBySlot DEF SlotsClean, Generations
<1>2. ASSUME NEW d \in Derivations, d[1] \in S
      PROVE  d[2] \in S
    <2>1. PICK p \in Tasks, j \in Slots :
             Active(p, j) /\ d = <<caps[p][j].parent, caps[p][j].gen>>
        BY DerivationsBySlot
    <2>2. d[1] = caps[p][j].parent /\ d[2] = caps[p][j].gen /\ d[2] \in ActiveGens
        BY <2>1, ActiveGensBySlot
    <2>3. d[2] # g
        BY <1>1, <1>2, <2>1, <2>2 DEF GenerationsUnique
    <2>4. QED
        BY <2>2, <2>3
<1>3. S \in SUBSET ActiveGens /\ roots \subseteq S /\ g \notin S
    OBVIOUS
<1> HIDE DEF S
<1>4. QED
    BY <1>2, <1>3 DEF Branch

-----------------------------------------------------------------------------
(* A new capability: what grant, register and a transfer do to the tables. *)

\* The tables after a capability is installed: the slot holds it, and every
\* other slot is as before.
LEMMA InstalledTables ==
    ASSUME TypeOK, NEW o \in Tasks, NEW k \in Slots, NEW target \in Tasks,
           NEW g \in Generations, NEW parent \in Nat, NEW depth \in Nat,
           NEW rights \in SUBSET AllRights,
           caps' = Install(o, k, target, g, parent, depth, rights)
    PROVE  /\ caps' \in [Tasks -> [Slots -> CapabilityRecord]]
           /\ caps'[o][k] = [active |-> TRUE, target |-> target, gen |-> g,
                             parent |-> parent, depth |-> depth, rights |-> rights]
           /\ \A p \in Tasks, j \in Slots :
                 p # o \/ j # k => caps'[p][j] = caps[p][j]
<1> DEFINE c == [active |-> TRUE, target |-> target, gen |-> g,
                 parent |-> parent, depth |-> depth, rights |-> rights]
<1>1. c \in CapabilityRecord
    BY DEF CapabilityRecord, Generations
<1>2. caps' = [caps EXCEPT ![o][k] = c]
    BY DEF Install
<1> HIDE DEF c
<1>3. caps' \in [Tasks -> [Slots -> CapabilityRecord]]
    BY <1>1, <1>2 DEF TypeOK
<1>4. caps'[o][k] = c
    BY <1>2 DEF TypeOK
<1>5. \A p \in Tasks, j \in Slots : p # o \/ j # k => caps'[p][j] = caps[p][j]
    BY <1>2 DEF TypeOK
<1>6. QED
    BY <1>3, <1>4, <1>5 DEF c

\* The capability with these attributes may be in slot k of o.
MayHold(o, target, parent, depth, rights) ==
    /\ depth <= MaxLineage
    /\ "RECEIVE" \in rights => target = o
    /\ parent = 0 => depth = 0
    /\ parent # 0 => \E p \in Tasks, j \in Slots :
          /\ Active(p, j)
          /\ caps[p][j].gen = parent
          /\ caps[p][j].target = target
          /\ "DELEGATE" \in caps[p][j].rights
          /\ rights \subseteq caps[p][j].rights
          /\ depth = caps[p][j].depth + 1

\* Installing such a capability into a free slot, with a generation that no
\* active capability has, keeps the tables sound.
LEMMA InstallSound ==
    ASSUME IInv, NEW o \in Tasks, NEW k \in Slots, NEW target \in Tasks,
           NEW g \in Generations \ ActiveGens, NEW parent \in Nat, NEW depth \in Nat,
           NEW rights \in SUBSET AllRights,
           ~ Active(o, k), MayHold(o, target, parent, depth, rights),
           owners \subseteq owners', {o, target} \subseteq owners',
           caps' = Install(o, k, target, g, parent, depth, rights)
    PROVE  /\ SlotsClean' /\ GenerationsUnique' /\ AuthorityIntact' /\ ReceiveConfined'
           /\ \A p \in Tasks, j \in Slots : Active(p, j) => caps'[p][j] = caps[p][j]
<1> DEFINE c == [active |-> TRUE, target |-> target, gen |-> g,
                 parent |-> parent, depth |-> depth, rights |-> rights]
<1>1. /\ caps'[o][k] = c
      /\ \A p \in Tasks, j \in Slots : p # o \/ j # k => caps'[p][j] = caps[p][j]
    BY InstalledTables DEF IInv
<1>2. /\ c.active /\ c.target = target /\ c.gen = g /\ c.parent = parent
      /\ c.depth = depth /\ c.rights = rights
    OBVIOUS
<1> HIDE DEF c
<1>3. \A p \in Tasks, j \in Slots : Active(p, j) => caps'[p][j] = caps[p][j]
    BY <1>1 DEF Active
<1>4. \A p \in Tasks, j \in Slots : Active(p, j) => caps[p][j].gen # g
    BY ActiveGensBySlot
<1>5. SlotsClean'
    <2> SUFFICES ASSUME NEW p \in Tasks, NEW j \in Slots
                 PROVE  /\ ~ caps'[p][j].active => caps'[p][j] = NoCap
                        /\ caps'[p][j].active => caps'[p][j].gen \in Generations
        BY DEF SlotsClean, Active
    <2>1. CASE p = o /\ j = k
        BY <1>1, <1>2, <2>1
    <2>2. CASE p # o \/ j # k
        BY <1>1, <2>2 DEF IInv, SlotsClean, Active
    <2>3. QED
        BY <2>1, <2>2
<1>6. GenerationsUnique'
    <2> SUFFICES ASSUME NEW p \in Tasks, NEW j \in Slots, NEW q \in Tasks, NEW i \in Slots,
                        caps'[p][j].active, caps'[q][i].active,
                        caps'[p][j].gen = caps'[q][i].gen
                 PROVE  p = q /\ j = i
        BY DEF GenerationsUnique, Active
    <2>1. CASE p = o /\ j = k
        BY <1>1, <1>2, <1>4, <2>1 DEF Active
    <2>2. CASE q = o /\ i = k
        BY <1>1, <1>2, <1>4, <2>2 DEF Active
    <2>3. CASE (p # o \/ j # k) /\ (q # o \/ i # k)
        BY <1>1, <2>3 DEF IInv, GenerationsUnique, Active
    <2>4. QED
        BY <2>1, <2>2, <2>3
<1>7. ReceiveConfined'
    <2> SUFFICES ASSUME NEW p \in Tasks, NEW j \in Slots,
                        caps'[p][j].active, "RECEIVE" \in caps'[p][j].rights
                 PROVE  caps'[p][j].target = p
        BY DEF ReceiveConfined, Active
    <2>1. CASE p = o /\ j = k
        BY <1>1, <1>2, <2>1 DEF MayHold
    <2>2. CASE p # o \/ j # k
        BY <1>1, <2>2 DEF IInv, ReceiveConfined, Active
    <2>3. QED
        BY <2>1, <2>2
<1>8. AuthorityIntact'
    <2> SUFFICES ASSUME NEW p \in Tasks, NEW j \in Slots, caps'[p][j].active
                 PROVE  /\ p \in owners'
                        /\ caps'[p][j].target \in owners'
                        /\ caps'[p][j].depth <= MaxLineage
                        /\ caps'[p][j].parent = 0 => caps'[p][j].depth = 0
                        /\ caps'[p][j].parent # 0 =>
                              \E q \in Tasks, i \in Slots : DerivedFrom(p, j, q, i)'
        BY DEF AuthorityIntact, Active
    <2>1. CASE p = o /\ j = k
        <3>1. /\ p \in owners' /\ caps'[p][j].target \in owners'
              /\ caps'[p][j].depth <= MaxLineage
              /\ caps'[p][j].parent = 0 => caps'[p][j].depth = 0
            BY <1>1, <1>2, <2>1 DEF MayHold
        <3>2. ASSUME caps'[p][j].parent # 0
              PROVE  \E q \in Tasks, i \in Slots : DerivedFrom(p, j, q, i)'
            <4>1. PICK q \in Tasks, i \in Slots :
                     /\ Active(q, i)
                     /\ caps[q][i].gen = parent
                     /\ caps[q][i].target = target
                     /\ "DELEGATE" \in caps[q][i].rights
                     /\ rights \subseteq caps[q][i].rights
                     /\ depth = caps[q][i].depth + 1
                BY <1>1, <1>2, <2>1, <3>2 DEF MayHold
            <4>2. caps'[q][i] = caps[q][i] /\ caps'[p][j] = c
                BY <1>1, <1>3, <2>1, <4>1
            <4>3. DerivedFrom(p, j, q, i)'
                BY <1>2, <4>1, <4>2 DEF DerivedFrom, Active
            <4>4. QED
                BY <4>3
        <3>3. QED
            BY <3>1, <3>2
    <2>2. CASE p # o \/ j # k
        <3>1. caps'[p][j] = caps[p][j] /\ Active(p, j)
            BY <1>1, <2>2 DEF Active
        <3>2. /\ p \in owners /\ caps[p][j].target \in owners
              /\ caps[p][j].depth <= MaxLineage
              /\ caps[p][j].parent = 0 => caps[p][j].depth = 0
              /\ caps[p][j].parent # 0 =>
                    \E q \in Tasks, i \in Slots : DerivedFrom(p, j, q, i)
            BY <3>1 DEF IInv, AuthorityIntact
        <3>3. ASSUME NEW q \in Tasks, NEW i \in Slots, DerivedFrom(p, j, q, i)
              PROVE  DerivedFrom(p, j, q, i)'
            BY <1>3, <3>1, <3>3 DEF DerivedFrom, Active
        <3>4. QED
            BY <3>1, <3>2, <3>3
    <2>3. QED
        BY <2>1, <2>2
<1>9. QED
    BY <1>3, <1>5, <1>6, <1>7, <1>8

\* The endpoints keep their own capabilities, and queued handles stay good,
\* as long as active slots keep what they hold.
LEMMA OthersKeepSelf ==
    ASSUME IInv, NEW t \in owners,
           \A p \in Tasks, j \in Slots : Active(p, j) => caps'[p][j] = caps[p][j]
    PROVE  /\ caps'[t][SelfSlot].active
           /\ caps'[t][SelfSlot].target = t
           /\ caps'[t][SelfSlot].parent = 0
           /\ caps'[t][SelfSlot].rights = AllRights
<1>1. SelfSlot \in Slots /\ t \in Tasks
    BY CapabilityAssumption DEF SelfSlot, Slots, IInv, TypeOK
<1>2. Active(t, SelfSlot) /\ caps'[t][SelfSlot] = caps[t][SelfSlot]
    BY <1>1 DEF IInv, SelfIntact
<1>3. QED
    BY <1>2 DEF IInv, SelfIntact, Active

\* The handles queued at o are good in the tables after the step.
StaysLive(o) ==
    \A i \in 1 .. Len(mail[o]) :
        mail[o][i].gen # 0 =>
            /\ caps'[o][mail[o][i].slot].active
            /\ caps'[o][mail[o][i].slot].gen = mail[o][i].gen
            /\ caps'[o][mail[o][i].slot].rights = mail[o][i].rights

LEMMA QueuedStayLive ==
    ASSUME IInv, NEW o \in Tasks,
           \A p \in Tasks, j \in Slots : Active(p, j) => caps'[p][j] = caps[p][j]
    PROVE  Len(mail[o]) <= QueueDepth /\ StaysLive(o)
<1>1. DOMAIN mail[o] = 1 .. Len(mail[o]) /\ Len(mail[o]) <= QueueDepth
    BY Types DEF IInv, QueuedHandlesLive
<1>2. ASSUME NEW i \in 1 .. Len(mail[o]), mail[o][i].gen # 0
      PROVE  /\ caps'[o][mail[o][i].slot].active
             /\ caps'[o][mail[o][i].slot].gen = mail[o][i].gen
             /\ caps'[o][mail[o][i].slot].rights = mail[o][i].rights
    <2>1. mail[o][i].slot \in Slots
        BY Types DEF IInv
    <2>2. /\ Active(o, mail[o][i].slot)
          /\ caps[o][mail[o][i].slot].gen = mail[o][i].gen
          /\ caps[o][mail[o][i].slot].rights = mail[o][i].rights
        BY <1>1, <1>2 DEF IInv, QueuedHandlesLive
    <2>3. QED
        BY <2>1, <2>2 DEF Active
<1>3. QED
    BY <1>1, <1>2 DEF StaysLive

\* A message that a mailbox with room takes, whose handle, if it has one, is
\* good in the tables after the step.
LEMMA PushSound ==
    ASSUME IInv, NEW r \in Tasks, NEW sender \in Tasks, NEW slot \in Slots,
           NEW g \in Nat, NEW rights \in SUBSET AllRights,
           Push(r, sender, slot, g, rights),
           \A p \in Tasks, j \in Slots : Active(p, j) => caps'[p][j] = caps[p][j],
           g # 0 => /\ caps'[r][slot].active
                    /\ caps'[r][slot].gen = g
                    /\ caps'[r][slot].rights = rights
    PROVE  mail' \in [Tasks -> Seq(Message)] /\ QueuedHandlesLive'
<1> DEFINE m == [sender |-> sender, slot |-> slot, gen |-> g, rights |-> rights]
<1>1. /\ m \in Message
      /\ m.slot = slot /\ m.gen = g /\ m.rights = rights
    BY DEF Message
<1>2. Len(mail[r]) < QueueDepth /\ mail' = [mail EXCEPT ![r] = Append(mail[r], m)]
    BY DEF Push
<1> HIDE DEF m
<1>3. mail[r] \in Seq(Message) /\ Len(mail[r]) \in Nat
    BY Types DEF IInv
<1>4. Append(mail[r], m) \in Seq(Message)
    BY <1>1, <1>3
<1>5. mail' \in [Tasks -> Seq(Message)]
    BY <1>2, <1>4 DEF IInv, TypeOK
<1>6. \A o \in Tasks : mail'[o] = IF o = r THEN Append(mail[r], m) ELSE mail[o]
    BY <1>2 DEF IInv, TypeOK
<1>7. ASSUME NEW o \in Tasks
      PROVE  /\ Len(mail'[o]) <= QueueDepth
             /\ \A i \in DOMAIN mail'[o] :
                   mail'[o][i].gen # 0 =>
                      /\ caps'[o][mail'[o][i].slot].active
                      /\ caps'[o][mail'[o][i].slot].gen = mail'[o][i].gen
                      /\ caps'[o][mail'[o][i].slot].rights = mail'[o][i].rights
    <2>1. CASE o # r
        <3>1. mail'[o] = mail[o] /\ DOMAIN mail[o] = 1 .. Len(mail[o])
            BY <1>6, <2>1, Types DEF IInv
        <3>2. Len(mail[o]) <= QueueDepth /\ StaysLive(o)
            BY QueuedStayLive DEF StaysLive
        <3>3. ASSUME NEW i \in DOMAIN mail'[o], mail'[o][i].gen # 0
              PROVE  /\ caps'[o][mail'[o][i].slot].active
                     /\ caps'[o][mail'[o][i].slot].gen = mail'[o][i].gen
                     /\ caps'[o][mail'[o][i].slot].rights = mail'[o][i].rights
            BY <3>1, <3>2, <3>3 DEF StaysLive
        <3>4. QED
            BY <3>1, <3>2, <3>3
    <2>2. CASE o = r
        <3>1. /\ Len(mail'[r]) = Len(mail[r]) + 1
              /\ DOMAIN mail'[r] = 1 .. Len(mail[r]) + 1
              /\ \A i \in 1 .. Len(mail[r]) : mail'[r][i] = mail[r][i]
              /\ mail'[r][Len(mail[r]) + 1] = m
            <4>1. mail'[r] = Append(mail[r], m)
                BY <1>6
            <4>2. QED
                BY <1>1, <1>3, <4>1, AppendProperties
        <3>2. Len(mail'[r]) <= QueueDepth
            BY <1>2, <1>3, <3>1, CapabilityAssumption
        <3>3. ASSUME NEW i \in 1 .. Len(mail[r]) + 1, mail'[r][i].gen # 0
              PROVE  /\ caps'[r][mail'[r][i].slot].active
                     /\ caps'[r][mail'[r][i].slot].gen = mail'[r][i].gen
                     /\ caps'[r][mail'[r][i].slot].rights = mail'[r][i].rights
            <4>1. CASE i = Len(mail[r]) + 1
                BY <1>1, <3>1, <3>3, <4>1
            <4>2. CASE i \in 1 .. Len(mail[r])
                <5>1. StaysLive(r)
                    BY QueuedStayLive
                <5>2. QED
                    BY <3>1, <3>3, <4>2, <5>1 DEF StaysLive
            <4>3. QED
                BY <1>3, <4>1, <4>2
        <3>4. QED
            BY <2>2, <3>1, <3>2, <3>3
    <2>3. QED
        BY <2>1, <2>2
<1>8. QED
    BY <1>5, <1>7 DEF QueuedHandlesLive, Active

\* A mailbox that does not change stays sound.
LEMMA MailKept ==
    ASSUME IInv, UNCHANGED mail,
           \A p \in Tasks, j \in Slots : Active(p, j) => caps'[p][j] = caps[p][j]
    PROVE  QueuedHandlesLive'
<1>1. \A o \in Tasks : DOMAIN mail[o] = 1 .. Len(mail[o])
    BY Types DEF IInv
<1>2. QED
    BY <1>1, QueuedStayLive DEF QueuedHandlesLive, StaysLive, Active

\* allocate_generation returns a generation that is not in use.
LEMMA GenerationIsNew ==
    ASSUME NEW g \in Generations, AllocatesGeneration(g)
    PROVE  g \in Generations \ ActiveGens /\ g \in Nat /\ g # 0 /\ nextGen' \in Generations
    BY CapabilityAssumption DEF AllocatesGeneration, Generations

-----------------------------------------------------------------------------
(* The steps that create a capability.                                     *)

LEMMA RegisterKeepsIInv ==
    ASSUME IInv, NEW g \in Generations, AllocatesGeneration(g),
           NEW t \in Tasks, Register(t, g)
    PROVE  IInv'
<1>1. SelfSlot \in Slots /\ AllRights \in SUBSET AllRights /\ 0 \in Nat
    BY CapabilityAssumption DEF SelfSlot, Slots
<1>2. /\ owners' = owners \cup {t} /\ UNCHANGED mail
      /\ caps' = Install(t, SelfSlot, t, g, 0, 0, AllRights)
      /\ t \notin owners
    BY DEF Register
<1>3. ~ Active(t, SelfSlot)
    BY <1>1, <1>2 DEF IInv, AuthorityIntact
<1>4. MayHold(t, t, 0, 0, AllRights)
    BY CapabilityAssumption DEF MayHold
<1>5. /\ SlotsClean' /\ GenerationsUnique' /\ AuthorityIntact' /\ ReceiveConfined'
      /\ \A p \in Tasks, j \in Slots : Active(p, j) => caps'[p][j] = caps[p][j]
    BY <1>1, <1>2, <1>3, <1>4, GenerationIsNew, InstallSound
<1>6. /\ caps' \in [Tasks -> [Slots -> CapabilityRecord]]
      /\ caps'[t][SelfSlot].active /\ caps'[t][SelfSlot].target = t
      /\ caps'[t][SelfSlot].parent = 0 /\ caps'[t][SelfSlot].rights = AllRights
    <2>1. /\ caps' \in [Tasks -> [Slots -> CapabilityRecord]]
          /\ caps'[t][SelfSlot] =
                [active |-> TRUE, target |-> t, gen |-> g,
                 parent |-> 0, depth |-> 0, rights |-> AllRights]
        BY <1>1, <1>2, InstalledTables DEF IInv
    <2>2. QED
        BY <2>1
<1>7. SelfIntact'
    BY <1>2, <1>5, <1>6, OthersKeepSelf DEF SelfIntact, Active
<1>8. QueuedHandlesLive'
    BY <1>2, <1>5, MailKept
<1>9. TypeOK'
    BY <1>2, <1>6, GenerationIsNew DEF IInv, TypeOK
<1>10. QED
    BY <1>5, <1>7, <1>8, <1>9 DEF IInv

LEMMA GrantKeepsIInv ==
    ASSUME IInv, NEW g \in Generations, AllocatesGeneration(g),
           NEW o \in Tasks, NEW t \in Tasks, NEW r \in Requests, Grant(o, t, r, g)
    PROVE  IInv'
<1>1. r \in SUBSET AllRights /\ 0 \in Nat
    BY CapabilityAssumption
<1>2. PICK k \in Slots : FirstFree(o, k) /\ caps' = Install(o, k, t, g, 0, 0, r)
    BY DEF Grant
<1>3. /\ "RECEIVE" \in r => o = t
      /\ o \in owners /\ t \in owners /\ UNCHANGED <<owners, mail>>
    BY DEF Grant
<1>4. ~ Active(o, k) /\ MayHold(o, t, 0, 0, r)
    BY <1>2, <1>3, CapabilityAssumption DEF FirstFree, MayHold
<1>5. /\ SlotsClean' /\ GenerationsUnique' /\ AuthorityIntact' /\ ReceiveConfined'
      /\ \A p \in Tasks, j \in Slots : Active(p, j) => caps'[p][j] = caps[p][j]
    BY <1>1, <1>2, <1>3, <1>4, GenerationIsNew, InstallSound
<1>6. caps' \in [Tasks -> [Slots -> CapabilityRecord]]
    BY <1>1, <1>2, InstalledTables DEF IInv
<1>7. SelfIntact'
    BY <1>3, <1>5, OthersKeepSelf DEF SelfIntact, Active
<1>8. QueuedHandlesLive'
    BY <1>3, <1>5, MailKept
<1>9. TypeOK'
    BY <1>3, <1>6, GenerationIsNew DEF IInv, TypeOK
<1>10. QED
    BY <1>5, <1>7, <1>8, <1>9 DEF IInv

LEMMA TransferKeepsIInv ==
    ASSUME IInv, NEW h \in Generations, AllocatesGeneration(h),
           NEW sender \in Tasks, NEW dk \in Slots, NEW dg, NEW k \in Slots, NEW g,
           NEW r \in Requests, SendWithCapability(sender, dk, dg, k, g, r, h)
    PROVE  IInv'
<1> DEFINE source == caps[sender][k]
           receiver == caps[sender][dk].target
           target == source.target
           parent == source.gen
           depth == source.depth + 1
<1>1. r \in SUBSET AllRights
    BY CapabilityAssumption
<1>2. /\ Resolves(sender, dk, dg, {"SEND"}) /\ Resolves(sender, k, g, {"DELEGATE"})
      /\ MayDerive(source, receiver, r) /\ UNCHANGED owners
    BY DEF SendWithCapability
<1>3. PICK slot \in Slots :
         /\ FirstFree(receiver, slot)
         /\ caps' = Install(receiver, slot, target, h, parent, depth, r)
         /\ Push(receiver, sender, slot, h, r)
    BY DEF SendWithCapability
<1>4. /\ Active(sender, k) /\ "DELEGATE" \in source.rights
      /\ receiver \in owners /\ target \in owners
    BY <1>2 DEF Resolves, Valid
<1>5. receiver \in Tasks /\ target \in Tasks /\ parent \in Nat /\ depth \in Nat
    BY <1>4, Types DEF IInv, TypeOK
<1>6. ~ Active(receiver, slot)
    BY <1>3 DEF FirstFree
<1>7. MayHold(receiver, target, parent, depth, r)
    <2>1. depth <= MaxLineage /\ ("RECEIVE" \in r => target = receiver) /\ r \subseteq source.rights
        BY <1>2 DEF MayDerive
    <2>2. parent # 0
        BY <1>4 DEF IInv, SlotsClean, Generations
    <2>3. QED
        BY <1>4, <2>1, <2>2 DEF MayHold
<1> HIDE DEF receiver, target, parent, depth
<1>8. /\ SlotsClean' /\ GenerationsUnique' /\ AuthorityIntact' /\ ReceiveConfined'
      /\ \A p \in Tasks, j \in Slots : Active(p, j) => caps'[p][j] = caps[p][j]
    BY <1>1, <1>2, <1>3, <1>4, <1>5, <1>6, <1>7, GenerationIsNew, InstallSound
<1>9. /\ caps' \in [Tasks -> [Slots -> CapabilityRecord]]
      /\ caps'[receiver][slot].active /\ caps'[receiver][slot].gen = h
      /\ caps'[receiver][slot].rights = r
    <2>1. /\ caps' \in [Tasks -> [Slots -> CapabilityRecord]]
          /\ caps'[receiver][slot] =
                [active |-> TRUE, target |-> target, gen |-> h,
                 parent |-> parent, depth |-> depth, rights |-> r]
        BY <1>1, <1>3, <1>5, InstalledTables DEF IInv
    <2>2. QED
        BY <2>1
<1>10. SelfIntact'
    BY <1>2, <1>8, OthersKeepSelf DEF SelfIntact, Active
<1>11. mail' \in [Tasks -> Seq(Message)] /\ QueuedHandlesLive'
    BY <1>1, <1>3, <1>5, <1>8, <1>9, GenerationIsNew, PushSound
<1>12. TypeOK'
    BY <1>2, <1>9, <1>11, GenerationIsNew DEF IInv, TypeOK
<1>13. QED
    BY <1>8, <1>10, <1>11, <1>12 DEF IInv

-----------------------------------------------------------------------------
(* Cascades: what revoke and unregister do to the tables and mailboxes.    *)

\* A capability that is active after the cascade was so before, is the same
\* and is none of the revoked ones; every capability that is none of them
\* stays.
Spared(R) ==
    /\ \A p \in Tasks, j \in Slots :
          caps'[p][j].active =>
             Active(p, j) /\ caps'[p][j] = caps[p][j] /\ caps[p][j].gen \notin R
    /\ \A p \in Tasks, j \in Slots :
          caps[p][j].gen \notin R => caps'[p][j] = caps[p][j]

LEMMA PrunedTables ==
    ASSUME TypeOK, NEW R, caps' = Pruned(R)
    PROVE  caps' \in [Tasks -> [Slots -> CapabilityRecord]] /\ Spared(R)
<1>1. NoCap \in CapabilityRecord /\ ~ NoCap.active
    BY DEF NoCap, CapabilityRecord
<1>2. ASSUME NEW p \in Tasks, NEW j \in Slots
      PROVE  caps'[p][j] = IF caps[p][j].gen \in R THEN NoCap ELSE caps[p][j]
    BY DEF Pruned
<1>3. \A p \in Tasks, j \in Slots : caps[p][j] \in CapabilityRecord
    BY Types
<1>4. caps' \in [Tasks -> [Slots -> CapabilityRecord]]
    BY <1>1, <1>3 DEF Pruned
<1>5. QED
    BY <1>1, <1>2, <1>4 DEF Spared, Active

\* A cascade from any roots keeps the tables sound, if those who lose their
\* endpoint lose their capabilities and everybody's capabilities on them.
LEMMA CascadeSound ==
    ASSUME IInv, NEW roots \in SUBSET ActiveGens, caps' = Pruned(Branch(roots)),
           \A p \in Tasks, j \in Slots :
              (Active(p, j) /\ caps[p][j].gen \notin roots)
                 => p \in owners' /\ caps[p][j].target \in owners'
    PROVE  SlotsClean' /\ GenerationsUnique' /\ AuthorityIntact' /\ ReceiveConfined'
<1> DEFINE R == Branch(roots)
<1>1. /\ roots \subseteq R
      /\ \A p \in Tasks, j \in Slots :
            (Active(p, j) /\ caps[p][j].parent \in R) => caps[p][j].gen \in R
    BY BranchProperties
<1>2. Spared(R)
    BY PrunedTables DEF IInv
<1> HIDE DEF R
<1>3. SlotsClean'
    <2>1. \A p \in Tasks, j \in Slots :
             caps'[p][j] = IF caps[p][j].gen \in R THEN NoCap ELSE caps[p][j]
        BY DEF Pruned, R
    <2>2. \A p \in Tasks, j \in Slots : ~ caps'[p][j].active => caps'[p][j] = NoCap
        BY <2>1 DEF IInv, SlotsClean, Active
    <2>3. \A p \in Tasks, j \in Slots : caps'[p][j].active => caps'[p][j].gen \in Generations
        BY <1>2 DEF Spared, IInv, SlotsClean
    <2>4. QED
        BY <2>2, <2>3 DEF SlotsClean, Active
<1>4. GenerationsUnique'
    <2> SUFFICES ASSUME NEW p \in Tasks, NEW j \in Slots, NEW q \in Tasks, NEW i \in Slots,
                        caps'[p][j].active, caps'[q][i].active,
                        caps'[p][j].gen = caps'[q][i].gen
                 PROVE  p = q /\ j = i
        BY DEF GenerationsUnique, Active
    <2>1. QED
        BY <1>2 DEF Spared, IInv, GenerationsUnique
<1>5. ReceiveConfined'
    <2> SUFFICES ASSUME NEW p \in Tasks, NEW j \in Slots,
                        caps'[p][j].active, "RECEIVE" \in caps'[p][j].rights
                 PROVE  caps'[p][j].target = p
        BY DEF ReceiveConfined, Active
    <2>1. QED
        BY <1>2 DEF Spared, IInv, ReceiveConfined
<1>6. AuthorityIntact'
    <2> SUFFICES ASSUME NEW p \in Tasks, NEW j \in Slots, caps'[p][j].active
                 PROVE  /\ p \in owners'
                        /\ caps'[p][j].target \in owners'
                        /\ caps'[p][j].depth <= MaxLineage
                        /\ caps'[p][j].parent = 0 => caps'[p][j].depth = 0
                        /\ caps'[p][j].parent # 0 =>
                              \E q \in Tasks, i \in Slots : DerivedFrom(p, j, q, i)'
        BY DEF AuthorityIntact, Active
    <2>1. Active(p, j) /\ caps'[p][j] = caps[p][j] /\ caps[p][j].gen \notin R
        BY <1>2 DEF Spared
    <2>2. p \in owners' /\ caps'[p][j].target \in owners'
        BY <1>1, <2>1
    <2>3. /\ caps[p][j].depth <= MaxLineage
          /\ caps[p][j].parent = 0 => caps[p][j].depth = 0
          /\ caps[p][j].parent # 0 =>
                \E q \in Tasks, i \in Slots : DerivedFrom(p, j, q, i)
        BY <2>1 DEF IInv, AuthorityIntact
    <2>4. ASSUME NEW q \in Tasks, NEW i \in Slots, DerivedFrom(p, j, q, i)
          PROVE  DerivedFrom(p, j, q, i)'
        <3>1. caps[q][i].gen = caps[p][j].parent /\ caps[q][i].gen \notin R
            BY <1>1, <2>1, <2>4 DEF DerivedFrom
        <3>2. caps'[q][i] = caps[q][i]
            BY <1>2, <3>1 DEF Spared
        <3>3. QED
            BY <2>1, <2>4, <3>2 DEF DerivedFrom, Active
    <2>5. QED
        BY <2>1, <2>2, <2>3, <2>4
<1>7. QED
    BY <1>3, <1>4, <1>5, <1>6

\* An endpoint whose own capability is not a root of the cascade keeps it.
LEMMA CascadeSparesSelf ==
    ASSUME IInv, NEW roots \in SUBSET ActiveGens, caps' = Pruned(Branch(roots)),
           NEW t \in owners, caps[t][SelfSlot].gen \notin roots
    PROVE  /\ caps'[t][SelfSlot].active
           /\ caps'[t][SelfSlot].target = t
           /\ caps'[t][SelfSlot].parent = 0
           /\ caps'[t][SelfSlot].rights = AllRights
<1>1. SelfSlot \in Slots /\ t \in Tasks
    BY CapabilityAssumption DEF SelfSlot, Slots, IInv, TypeOK
<1>2. /\ Active(t, SelfSlot) /\ caps[t][SelfSlot].target = t
      /\ caps[t][SelfSlot].parent = 0 /\ caps[t][SelfSlot].rights = AllRights
    BY DEF IInv, SelfIntact
<1>3. caps[t][SelfSlot].gen \notin Branch(roots)
    BY <1>1, <1>2, RootsSurvive DEF IInv
<1>4. Spared(Branch(roots))
    BY PrunedTables DEF IInv
<1>5. caps'[t][SelfSlot] = caps[t][SelfSlot]
    BY <1>1, <1>3, <1>4 DEF Spared
<1>6. QED
    BY <1>2, <1>5 DEF Active

\* A message that lost its handle.
LEMMA EmptiedMessage ==
    ASSUME NEW m \in Message
    PROVE  /\ [m EXCEPT !.slot = 0, !.gen = 0, !.rights = {}] \in Message
           /\ [m EXCEPT !.slot = 0, !.gen = 0, !.rights = {}].gen = 0
<1>1. 0 \in Slots
    BY CapabilityAssumption DEF Slots
<1>2. QED
    BY <1>1 DEF Message

\* A mailbox without the revoked handles: what it still carries is good.
LEMMA StrippedSound ==
    ASSUME IInv, NEW R, Spared(R), NEW o \in Tasks
    PROVE  /\ Stripped(o, R) \in Seq(Message)
           /\ Len(Stripped(o, R)) <= QueueDepth
           /\ \A i \in DOMAIN Stripped(o, R) :
                 Stripped(o, R)[i].gen # 0 =>
                    /\ caps'[o][Stripped(o, R)[i].slot].active
                    /\ caps'[o][Stripped(o, R)[i].slot].gen = Stripped(o, R)[i].gen
                    /\ caps'[o][Stripped(o, R)[i].slot].rights = Stripped(o, R)[i].rights
<1> DEFINE q == Stripped(o, R)
           n == Len(mail[o])
<1>1. /\ mail[o] \in Seq(Message) /\ n \in Nat /\ DOMAIN mail[o] = 1 .. n
      /\ n <= QueueDepth
    BY Types DEF IInv, QueuedHandlesLive
<1>2. ASSUME NEW i \in 1 .. n
      PROVE  /\ q[i] \in Message
             /\ q[i].gen # 0 => q[i] = mail[o][i] /\ mail[o][i].gen \notin R
    <2>1. mail[o][i] \in Message
        BY <1>1
    <2>2. q[i] = IF mail[o][i].gen \in R
                 THEN [mail[o][i] EXCEPT !.slot = 0, !.gen = 0, !.rights = {}]
                 ELSE mail[o][i]
        BY DEF Stripped
    <2> HIDE DEF q
    <2>4. CASE mail[o][i].gen \in R
        <3>1. q[i] = [mail[o][i] EXCEPT !.slot = 0, !.gen = 0, !.rights = {}]
            BY <2>2, <2>4
        <3>2. QED
            BY <2>1, <3>1, EmptiedMessage
    <2>5. CASE mail[o][i].gen \notin R
        BY <2>1, <2>2, <2>5
    <2>6. QED
        BY <2>4, <2>5
<1>3. q \in Seq(Message) /\ Len(q) = n /\ DOMAIN q = 1 .. n
    <2>1. DOMAIN q = 1 .. n /\ q = [i \in 1 .. n |-> q[i]]
        BY DEF Stripped
    <2> HIDE DEF q
    <2>2. q \in [1 .. n -> Message]
        BY <1>2, <2>1
    <2>3. q \in Seq(Message)
        BY <1>1, <2>2, SeqDef
    <2>4. QED
        BY <1>1, <2>1, <2>3
<1>4. ASSUME NEW i \in 1 .. n, q[i].gen # 0
      PROVE  /\ caps'[o][q[i].slot].active
             /\ caps'[o][q[i].slot].gen = q[i].gen
             /\ caps'[o][q[i].slot].rights = q[i].rights
    <2>1. q[i] = mail[o][i] /\ mail[o][i].gen # 0 /\ mail[o][i].gen \notin R
        BY <1>2, <1>4
    <2> HIDE DEF q
    <2>2. /\ mail[o][i].slot \in Slots
          /\ Active(o, mail[o][i].slot)
          /\ caps[o][mail[o][i].slot].gen = mail[o][i].gen
          /\ caps[o][mail[o][i].slot].rights = mail[o][i].rights
        BY <1>1, <2>1, Types DEF IInv, QueuedHandlesLive
    <2>3. caps'[o][mail[o][i].slot] = caps[o][mail[o][i].slot]
        BY <2>1, <2>2 DEF Spared
    <2>4. QED
        BY <2>1, <2>2, <2>3 DEF Active
<1> HIDE DEF q
<1>5. QED
    BY <1>1, <1>3, <1>4 DEF q

LEMMA RevokeKeepsIInv ==
    ASSUME IInv, NEW o \in Tasks, NEW k \in Slots, NEW g, Revoke(o, k, g)
    PROVE  IInv'
<1> DEFINE roots == IF k = SelfSlot THEN Children(g) ELSE {g}
           R == Branch(roots)
<1>1. Active(o, k) /\ caps[o][k].gen = g /\ UNCHANGED <<owners, nextGen>>
    BY DEF Revoke, Valid
<1>2. caps' = Pruned(R) /\ mail' = [p \in Tasks |-> Stripped(p, R)]
    BY DEF Revoke
<1>3. /\ Children(g) \subseteq ActiveGens
      /\ \A c \in Children(g) : \E p \in Tasks, j \in Slots :
            Active(p, j) /\ caps[p][j].gen = c /\ caps[p][j].parent = g
    BY DEF Children, ActiveGens, Held, CapAt
<1>4. g \in ActiveGens /\ g # 0
    BY <1>1, ActiveGensBySlot DEF IInv, SlotsClean, Generations
<1>5. roots \in SUBSET ActiveGens
    BY <1>3, <1>4
<1>6. ASSUME NEW t \in owners
      PROVE  caps[t][SelfSlot].gen \notin roots
    <2>1. /\ SelfSlot \in Slots /\ t \in Tasks
          /\ Active(t, SelfSlot) /\ caps[t][SelfSlot].parent = 0
        BY CapabilityAssumption DEF SelfSlot, Slots, IInv, TypeOK, SelfIntact
    <2>2. CASE k = SelfSlot
        BY <1>3, <1>4, <2>1, <2>2 DEF IInv, GenerationsUnique
    <2>3. CASE k # SelfSlot
        BY <1>1, <2>1, <2>3 DEF IInv, GenerationsUnique
    <2>4. QED
        BY <2>2, <2>3
<1>7. Spared(R) /\ caps' \in [Tasks -> [Slots -> CapabilityRecord]]
    BY <1>2, PrunedTables DEF IInv
<1> HIDE DEF roots
<1>8. SlotsClean' /\ GenerationsUnique' /\ AuthorityIntact' /\ ReceiveConfined'
    <2>1. \A p \in Tasks, j \in Slots :
             Active(p, j) => p \in owners' /\ caps[p][j].target \in owners'
        BY <1>1 DEF IInv, AuthorityIntact
    <2>2. QED
        BY <1>2, <1>5, <2>1, CascadeSound
<1>9. SelfIntact'
    BY <1>1, <1>2, <1>5, <1>6, CascadeSparesSelf DEF SelfIntact, Active
<1> HIDE DEF R
<1>10. mail' \in [Tasks -> Seq(Message)] /\ QueuedHandlesLive'
    BY <1>2, <1>7, StrippedSound DEF QueuedHandlesLive, Active
<1>11. TypeOK'
    BY <1>1, <1>7, <1>10 DEF IInv, TypeOK
<1>12. QED
    BY <1>8, <1>9, <1>10, <1>11 DEF IInv

LEMMA UnregisterKeepsIInv ==
    ASSUME IInv, NEW t \in Tasks, Unregister(t)
    PROVE  IInv'
<1> DEFINE roots == {CapAt(h).gen : h \in {c \in Held : c[1] = t \/ CapAt(c).target = t}}
           R == Branch(roots)
<1>1. owners' = owners \ {t} /\ UNCHANGED nextGen
    BY DEF Unregister
<1>2. /\ caps' = Pruned(R)
      /\ mail' = [o \in Tasks |-> IF o = t THEN <<>> ELSE Stripped(o, R)]
    BY DEF Unregister, DiesWith
<1>3. roots \in SUBSET ActiveGens
    BY DEF ActiveGens
<1>4. \A p \in Tasks, j \in Slots :
         (Active(p, j) /\ (p = t \/ caps[p][j].target = t)) => caps[p][j].gen \in roots
    <2> SUFFICES ASSUME NEW p \in Tasks, NEW j \in Slots,
                        Active(p, j), p = t \/ caps[p][j].target = t
                 PROVE  caps[p][j].gen \in roots
        OBVIOUS
    <2>1. <<p, j>> \in Held /\ <<p, j>>[1] = p /\ CapAt(<<p, j>>) = caps[p][j]
        BY DEF Held, CapAt
    <2>2. QED
        BY <2>1
<1>5. \A c \in roots : \E p \in Tasks, j \in Slots :
         /\ Active(p, j) /\ caps[p][j].gen = c
         /\ p = t \/ caps[p][j].target = t
    <2> SUFFICES ASSUME NEW c \in roots
                 PROVE  \E p \in Tasks, j \in Slots :
                           /\ Active(p, j) /\ caps[p][j].gen = c
                           /\ p = t \/ caps[p][j].target = t
        OBVIOUS
    <2>1. PICK h \in Held : CapAt(h).gen = c /\ (h[1] = t \/ CapAt(h).target = t)
        OBVIOUS
    <2>2. h[1] \in Tasks /\ h[2] \in Slots /\ Active(h[1], h[2])
        BY DEF Held
    <2>3. QED
        BY <2>1, <2>2 DEF CapAt
<1>6. ASSUME NEW u \in owners'
      PROVE  u \in owners /\ caps[u][SelfSlot].gen \notin roots
    <2> HIDE DEF roots
    <2>1. u \in owners /\ u # t /\ u \in Tasks /\ SelfSlot \in Slots
        BY <1>1, CapabilityAssumption DEF SelfSlot, Slots, IInv, TypeOK
    <2>2. Active(u, SelfSlot) /\ caps[u][SelfSlot].target = u
        BY <2>1 DEF IInv, SelfIntact
    <2>3. QED
        BY <1>5, <2>1, <2>2 DEF IInv, GenerationsUnique
<1> HIDE DEF roots
<1>7. Spared(R) /\ caps' \in [Tasks -> [Slots -> CapabilityRecord]]
    BY <1>2, PrunedTables DEF IInv
<1>8. SlotsClean' /\ GenerationsUnique' /\ AuthorityIntact' /\ ReceiveConfined'
    <2>1. \A p \in Tasks, j \in Slots :
             (Active(p, j) /\ caps[p][j].gen \notin roots)
                => p \in owners' /\ caps[p][j].target \in owners'
        BY <1>1, <1>4 DEF IInv, AuthorityIntact
    <2>2. QED
        BY <1>2, <1>3, <2>1, CascadeSound
<1>9. SelfIntact'
    BY <1>2, <1>3, <1>6, CascadeSparesSelf DEF SelfIntact, Active
<1> HIDE DEF R
<1>10. mail' \in [Tasks -> Seq(Message)] /\ QueuedHandlesLive'
    <2>1. \A o \in Tasks : mail'[o] = IF o = t THEN <<>> ELSE Stripped(o, R)
        BY <1>2
    <2>2. <<>> \in Seq(Message) /\ Len(<<>>) <= QueueDepth /\ DOMAIN <<>> = {}
        BY CapabilityAssumption
    <2>3. mail' \in [Tasks -> Seq(Message)]
        BY <1>2, <1>7, <2>2, StrippedSound
    <2>4. QED
        BY <1>7, <2>1, <2>2, <2>3, StrippedSound DEF QueuedHandlesLive, Active
<1>11. TypeOK'
    BY <1>1, <1>7, <1>10 DEF IInv, TypeOK
<1>12. QED
    BY <1>8, <1>9, <1>10, <1>11 DEF IInv

-----------------------------------------------------------------------------
(* Messages without a capability.                                          *)

\* The tables do not change: only the mailboxes are to be looked at.
LEMMA TablesUnchanged ==
    ASSUME IInv, UNCHANGED <<owners, caps, nextGen>>,
           mail' \in [Tasks -> Seq(Message)], QueuedHandlesLive'
    PROVE  IInv'
<1>1. TypeOK'
    BY DEF IInv, TypeOK
<1>2. /\ SlotsClean' /\ GenerationsUnique' /\ SelfIntact' /\ AuthorityIntact'
      /\ ReceiveConfined'
    BY DEF IInv, SlotsClean, GenerationsUnique, SelfIntact, AuthorityIntact,
           ReceiveConfined, Active, DerivedFrom
<1>3. QED
    BY <1>1, <1>2 DEF IInv

LEMMA SendDirectKeepsIInv ==
    ASSUME IInv, NEW sender, NEW receiver, SendDirect(sender, receiver)
    PROVE  IInv'
<1>1. /\ sender \in Tasks /\ receiver \in Tasks
      /\ Push(receiver, sender, 0, 0, {}) /\ UNCHANGED <<owners, caps, nextGen>>
    BY DEF SendDirect, IInv, TypeOK
<1>2. 0 \in Slots /\ 0 \in Nat /\ {} \in SUBSET AllRights
    BY CapabilityAssumption DEF Slots
<1>3. \A p \in Tasks, j \in Slots : Active(p, j) => caps'[p][j] = caps[p][j]
    BY <1>1
<1>4. mail' \in [Tasks -> Seq(Message)] /\ QueuedHandlesLive'
    BY <1>1, <1>2, <1>3, PushSound
<1>5. QED
    BY <1>1, <1>4, TablesUnchanged

LEMMA ReceiveKeepsIInv ==
    ASSUME IInv, NEW t \in Tasks, Receive(t)
    PROVE  IInv'
<1>1. /\ UNCHANGED <<owners, caps, nextGen>> /\ mail[t] # <<>>
      /\ mail' = [mail EXCEPT ![t] = Tail(mail[t])]
    BY DEF Receive
<1>2. mail[t] \in Seq(Message) /\ Len(mail[t]) \in Nat
    BY Types DEF IInv
<1>3. /\ Tail(mail[t]) \in Seq(Message) /\ Len(Tail(mail[t])) = Len(mail[t]) - 1
      /\ \A i \in 1 .. Len(Tail(mail[t])) : Tail(mail[t])[i] = mail[t][i + 1]
    BY <1>1, <1>2, HeadTailProperties
<1>4. /\ mail' \in [Tasks -> Seq(Message)]
      /\ \A o \in Tasks : mail'[o] = IF o = t THEN Tail(mail[t]) ELSE mail[o]
    BY <1>1, <1>3 DEF IInv, TypeOK
<1>5. \A o \in Tasks : Len(mail[o]) <= QueueDepth /\ StaysLive(o)
    BY <1>1, QueuedStayLive
<1>6. ASSUME NEW o \in Tasks
      PROVE  /\ Len(mail'[o]) <= QueueDepth
             /\ \A i \in DOMAIN mail'[o] :
                   mail'[o][i].gen # 0 =>
                      /\ caps'[o][mail'[o][i].slot].active
                      /\ caps'[o][mail'[o][i].slot].gen = mail'[o][i].gen
                      /\ caps'[o][mail'[o][i].slot].rights = mail'[o][i].rights
    <2>1. CASE o # t
        <3>1. mail'[o] = mail[o] /\ DOMAIN mail[o] = 1 .. Len(mail[o])
            BY <1>4, <2>1, Types DEF IInv
        <3>2. Len(mail[o]) <= QueueDepth /\ StaysLive(o)
            BY <1>5
        <3>3. ASSUME NEW i \in DOMAIN mail'[o], mail'[o][i].gen # 0
              PROVE  /\ caps'[o][mail'[o][i].slot].active
                     /\ caps'[o][mail'[o][i].slot].gen = mail'[o][i].gen
                     /\ caps'[o][mail'[o][i].slot].rights = mail'[o][i].rights
            BY <3>1, <3>2, <3>3 DEF StaysLive
        <3>4. QED
            BY <3>1, <3>2, <3>3
    <2>2. CASE o = t
        <3>1. mail'[o] = Tail(mail[t])
            BY <1>4, <2>2
        <3>2. /\ Len(mail'[o]) = Len(mail[t]) - 1
              /\ DOMAIN mail'[o] = 1 .. Len(mail[t]) - 1
              /\ \A i \in 1 .. Len(mail[t]) - 1 : mail'[o][i] = mail[t][i + 1]
            BY <1>3, <3>1
        <3>3. \A i \in 1 .. Len(mail[t]) - 1 : i + 1 \in 1 .. Len(mail[t])
            BY <1>2
        <3>4. Len(mail'[o]) <= QueueDepth
            BY <1>2, <1>5, <3>2, CapabilityAssumption
        <3>5. ASSUME NEW i \in 1 .. Len(mail[t]) - 1, mail'[o][i].gen # 0
              PROVE  /\ caps'[o][mail'[o][i].slot].active
                     /\ caps'[o][mail'[o][i].slot].gen = mail'[o][i].gen
                     /\ caps'[o][mail'[o][i].slot].rights = mail'[o][i].rights
            <4>1. mail'[o][i] = mail[t][i + 1] /\ i + 1 \in 1 .. Len(mail[t])
                BY <3>2, <3>3
            <4>2. StaysLive(t)
                BY <1>5
            <4>3. QED
                BY <2>2, <3>5, <4>1, <4>2 DEF StaysLive
        <3>6. QED
            BY <3>2, <3>4, <3>5
    <2>3. QED
        BY <2>1, <2>2
<1>7. QueuedHandlesLive'
    BY <1>6 DEF QueuedHandlesLive, Active
<1>8. QED
    BY <1>1, <1>4, <1>7, TablesUnchanged

-----------------------------------------------------------------------------
(* Handles.                                                                *)

\* A word that decode_handle accepts names a slot of the table.
LEMMA DecodedSlots ==
    ASSUME NEW h \in Nat, NEW d \in DecodeHandle(h)
    PROVE  d.slot \in Slots
    BY CapabilityAssumption DEF DecodeHandle, Slots, SlotBase

LEMMA HandlesAreWords ==
    ASSUME TypeOK, NEW o \in Tasks
    PROVE  Handles(o) \subseteq Nat
    BY Types DEF Handles, EncodeHandle, SlotBase, Slots

-----------------------------------------------------------------------------
(* The theorems.                                                           *)

LEMMA InitIInv == Init => IInv
<1> SUFFICES ASSUME Init PROVE IInv
    OBVIOUS
<1>1. /\ owners = {} /\ nextGen = 1
      /\ \A o \in Tasks, k \in Slots : caps[o][k] = NoCap
      /\ \A o \in Tasks : mail[o] = <<>>
    BY DEF Init
<1>2. NoCap \in CapabilityRecord /\ ~ NoCap.active
    BY DEF NoCap, CapabilityRecord
<1>3. TypeOK
    BY <1>2, CapabilityAssumption DEF Init, TypeOK, Generations
<1>4. SlotsClean /\ GenerationsUnique /\ SelfIntact /\ AuthorityIntact /\ ReceiveConfined
    BY <1>1, <1>2 DEF SlotsClean, GenerationsUnique, SelfIntact, AuthorityIntact,
                      ReceiveConfined, Active
<1>5. QueuedHandlesLive
    <2>1. \A o \in Tasks : Len(mail[o]) = 0 /\ DOMAIN mail[o] = {}
        BY <1>1
    <2>2. QED
        BY <2>1, CapabilityAssumption DEF QueuedHandlesLive
<1>6. QED
    BY <1>3, <1>4, <1>5 DEF IInv

LEMMA NextIInv ==
    ASSUME IInv, [Next]_vars
    PROVE  IInv'
<1>1. ASSUME NEW g \in Generations, Creates(g)
      PROVE  IInv'
    <2>1. AllocatesGeneration(g)
        BY <1>1 DEF Creates
    <2>2. ASSUME NEW t \in Tasks, Register(t, g)
          PROVE  IInv'
        BY <2>1, <2>2, RegisterKeepsIInv
    <2>3. ASSUME NEW o \in Tasks, NEW t \in Tasks, NEW r \in Requests, Grant(o, t, r, g)
          PROVE  IInv'
        BY <2>1, <2>3, GrantKeepsIInv
    <2>4. ASSUME Transfers(g)
          PROVE  IInv'
        <3>1. PICK o \in Tasks, r \in Requests :
                 \E h, i \in Handles(o) :
                    \E d \in DecodeHandle(h), c \in DecodeHandle(i) :
                       SendWithCapability(o, d.slot, d.gen, c.slot, c.gen, r, g)
            BY <2>4 DEF Transfers
        <3>2. PICK h \in Handles(o), i \in Handles(o) :
                 \E d \in DecodeHandle(h), c \in DecodeHandle(i) :
                    SendWithCapability(o, d.slot, d.gen, c.slot, c.gen, r, g)
            BY <3>1
        <3>3. PICK d \in DecodeHandle(h), c \in DecodeHandle(i) :
                 SendWithCapability(o, d.slot, d.gen, c.slot, c.gen, r, g)
            BY <3>2
        <3>4. d.slot \in Slots /\ c.slot \in Slots
            BY HandlesAreWords, DecodedSlots DEF IInv
        <3>5. QED
            BY <2>1, <3>3, <3>4, TransferKeepsIInv
    <2>5. QED
        BY <1>1, <2>2, <2>3, <2>4 DEF Creates
<1>2. ASSUME NEW t \in Tasks, Unregister(t)
      PROVE  IInv'
    BY <1>2, UnregisterKeepsIInv
<1>3. ASSUME NEW t \in Tasks, Receive(t)
      PROVE  IInv'
    BY <1>3, ReceiveKeepsIInv
<1>4. ASSUME NEW o \in Tasks, NEW t \in Tasks, SendDirect(o, t)
      PROVE  IInv'
    BY <1>4, SendDirectKeepsIInv
<1>5. ASSUME NEW o \in Tasks, NEW h \in Handles(o), Uses(o, h)
      PROVE  IInv'
    <2>1. PICK d \in DecodeHandle(h) : Revoke(o, d.slot, d.gen) \/ Send(o, d.slot, d.gen)
        BY <1>5 DEF Uses
    <2>2. d.slot \in Slots
        BY HandlesAreWords, DecodedSlots DEF IInv
    <2>3. CASE Revoke(o, d.slot, d.gen)
        BY <2>2, <2>3, RevokeKeepsIInv
    <2>4. CASE Send(o, d.slot, d.gen)
        <3>1. SendDirect(o, caps[o][d.slot].target)
            BY <2>4 DEF Send
        <3>2. QED
            BY <3>1, SendDirectKeepsIInv
    <2>5. QED
        BY <2>1, <2>3, <2>4
<1>6. ASSUME UNCHANGED vars
      PROVE  IInv'
    <2>1. UNCHANGED <<owners, caps, nextGen>> /\ UNCHANGED mail
        BY <1>6 DEF vars
    <2>2. mail' \in [Tasks -> Seq(Message)]
        BY <2>1 DEF IInv, TypeOK
    <2>3. QueuedHandlesLive'
        BY <2>1, MailKept
    <2>4. QED
        BY <2>1, <2>2, <2>3, TablesUnchanged
<1>7. QED
    BY <1>1, <1>2, <1>3, <1>4, <1>5, <1>6 DEF Next

\* The inductive invariant holds in every state that calls of the methods of
\* IpcState reach.
THEOREM CapabilityInvariant == Spec => []IInv
<1>1. Init => IInv
    BY InitIInv
<1>2. IInv /\ [Next]_vars => IInv'
    BY NextIInv
<1>3. QED
    BY <1>1, <1>2, PTL DEF Spec

\* capability_tables_valid of invariants(): whatever is granted, transferred
\* and revoked, and whoever goes, no cascade of revoke_branch takes an
\* endpoint's own root capability, and none leaves a capability behind whose
\* target or whose origin is gone.
THEOREM TablesAreSound == Spec => []TablesSound
<1>1. IInv => TablesSound
    BY DEF IInv, TablesSound
<1>2. QED
    BY <1>1, CapabilityInvariant, PTL

\* capability_generations_unique: allocate_generation never gives out a
\* generation that an active capability has, wrap-around included.
THEOREM GenerationsAreUnique == Spec => []GenerationsUnique
<1>1. IInv => GenerationsUnique
    BY DEF IInv
<1>2. QED
    BY <1>1, CapabilityInvariant, PTL

\* No sequence of grants and transfers gives the right to receive from an
\* endpoint to anybody but its owner.
THEOREM ReceiveIsConfined == Spec => []ReceiveConfined
<1>1. IInv => ReceiveConfined
    BY DEF IInv
<1>2. QED
    BY <1>1, CapabilityInvariant, PTL

\* queued_capabilities_valid: the handle in a queued message is good when the
\* message is received, however many revocations and cleanups came between.
THEOREM QueuedHandlesAreLive == Spec => []QueuedHandlesLive
<1>1. IInv => QueuedHandlesLive
    BY DEF IInv
<1>2. QED
    BY <1>1, CapabilityInvariant, PTL

-----------------------------------------------------------------------------
(* Stale handles.                                                          *)

\* Before the counter wraps around, every active generation lies behind it.
\* (With a single generation, which a step without a wrap can hand out again,
\* there is nothing behind the counter.)
BehindCounter == MaxGeneration = 1 \/ ActiveGens \subseteq 1 .. nextGen - 1

\* The counter itself is free then, so it is what allocate_generation gives.
LEMMA AllocatesCounter ==
    ASSUME TypeOK, ActiveGens \subseteq 1 .. nextGen - 1,
           NEW g \in Generations, AllocatesGeneration(g)
    PROVE  g = nextGen
<1>1. nextGen \in Generations \ ActiveGens
    BY DEF TypeOK, Generations
<1>2. Distance(g) <= Distance(nextGen)
    BY <1>1 DEF AllocatesGeneration
<1>3. QED
    BY <1>1, <1>2, CapabilityAssumption DEF Distance, Generations

\* The generations that are active after a step, by slot.
LEMMA ActiveGensNext ==
    \A g \in ActiveGens' : \E o \in Tasks, k \in Slots :
        caps'[o][k].active /\ caps'[o][k].gen = g
<1>1. (\A g \in ActiveGens : \E o \in Tasks, k \in Slots :
          caps[o][k].active /\ caps[o][k].gen = g)'
    <2>1. \A g \in ActiveGens : \E o \in Tasks, k \in Slots :
             caps[o][k].active /\ caps[o][k].gen = g
        BY ActiveGensBySlot DEF Active
    <2>2. QED
        BY <2>1, PTL
<1>2. QED
    BY <1>1

\* A new capability adds its own generation to the active ones, no other.
LEMMA InstallAddsOne ==
    ASSUME TypeOK, NEW o \in Tasks, NEW k \in Slots, NEW target \in Tasks,
           NEW g \in Generations, NEW parent \in Nat, NEW depth \in Nat,
           NEW rights \in SUBSET AllRights,
           caps' = Install(o, k, target, g, parent, depth, rights)
    PROVE  ActiveGens' \subseteq ActiveGens \cup {g}
<1>1. caps'[o][k] = [active |-> TRUE, target |-> target, gen |-> g,
                     parent |-> parent, depth |-> depth, rights |-> rights]
    BY InstalledTables
<1>2. \A p \in Tasks, j \in Slots : p # o \/ j # k => caps'[p][j] = caps[p][j]
    BY InstalledTables
<1>3. caps'[o][k].gen = g
    BY <1>1
<1>4. ASSUME NEW x \in ActiveGens'
      PROVE  x \in ActiveGens \cup {g}
    <2>1. PICK p \in Tasks, j \in Slots : caps'[p][j].active /\ caps'[p][j].gen = x
        BY ActiveGensNext
    <2>2. CASE p = o /\ j = k
        BY <1>3, <2>1, <2>2
    <2>3. CASE p # o \/ j # k
        BY <1>2, <2>1, <2>3, ActiveGensBySlot DEF Active
    <2>4. QED
        BY <2>2, <2>3
<1>5. QED
    BY <1>4

\* A cascade adds none.
LEMMA CascadeAddsNone ==
    ASSUME TypeOK, NEW R, caps' = Pruned(R)
    PROVE  ActiveGens' \subseteq ActiveGens
<1>1. Spared(R)
    BY PrunedTables
<1>2. ASSUME NEW x \in ActiveGens'
      PROVE  x \in ActiveGens
    <2>1. PICK p \in Tasks, j \in Slots : caps'[p][j].active /\ caps'[p][j].gen = x
        BY ActiveGensNext
    <2>2. QED
        BY <1>1, <2>1, ActiveGensBySlot DEF Spared
<1>3. QED
    BY <1>2

\* A step that creates a capability of generation g makes no other
\* generation active; every other step makes none active.
LEMMA CreatesAddsOne ==
    ASSUME IInv, NEW g \in Generations, Creates(g)
    PROVE  ActiveGens' \subseteq ActiveGens \cup {g}
<1>1. TypeOK /\ SelfSlot \in Slots /\ 0 \in Nat /\ AllRights \in SUBSET AllRights
    BY CapabilityAssumption DEF IInv, SelfSlot, Slots
<1>2. ASSUME NEW t \in Tasks, Register(t, g)
      PROVE  ActiveGens' \subseteq ActiveGens \cup {g}
    BY <1>1, <1>2, InstallAddsOne DEF Register
<1>3. ASSUME NEW o \in Tasks, NEW t \in Tasks, NEW r \in Requests, Grant(o, t, r, g)
      PROVE  ActiveGens' \subseteq ActiveGens \cup {g}
    <2>1. PICK k \in Slots : caps' = Install(o, k, t, g, 0, 0, r)
        BY <1>3 DEF Grant
    <2>2. r \in SUBSET AllRights
        BY CapabilityAssumption
    <2>3. QED
        BY <1>1, <2>1, <2>2, InstallAddsOne
<1>4. ASSUME Transfers(g)
      PROVE  ActiveGens' \subseteq ActiveGens \cup {g}
    <2>1. PICK o \in Tasks, r \in Requests :
             \E h, i \in Handles(o) :
                \E d \in DecodeHandle(h), c \in DecodeHandle(i) :
                   SendWithCapability(o, d.slot, d.gen, c.slot, c.gen, r, g)
        BY <1>4 DEF Transfers
    <2>2. PICK h \in Handles(o), i \in Handles(o) :
             \E d \in DecodeHandle(h), c \in DecodeHandle(i) :
                SendWithCapability(o, d.slot, d.gen, c.slot, c.gen, r, g)
        BY <2>1
    <2>3. PICK d \in DecodeHandle(h), c \in DecodeHandle(i) :
             SendWithCapability(o, d.slot, d.gen, c.slot, c.gen, r, g)
        BY <2>2
    <2>4. c.slot \in Slots /\ r \in SUBSET AllRights
        BY HandlesAreWords, DecodedSlots, CapabilityAssumption DEF IInv
    <2> DEFINE source == caps[o][c.slot]
               receiver == caps[o][d.slot].target
    <2>5. receiver \in Tasks /\ source.target \in Tasks
        BY <1>1, <2>3 DEF SendWithCapability, Resolves, TypeOK
    <2>6. source.gen \in Nat /\ source.depth + 1 \in Nat
        BY <1>1, <2>4, Types
    <2>7. PICK slot \in Slots :
             caps' = Install(receiver, slot, source.target, g, source.gen,
                             source.depth + 1, r)
        BY <2>3 DEF SendWithCapability
    <2> HIDE DEF source, receiver
    <2>8. QED
        BY <1>1, <2>4, <2>5, <2>6, <2>7, InstallAddsOne
<1>5. QED
    BY <1>2, <1>3, <1>4 DEF Creates

LEMMA OthersAddNone ==
    ASSUME IInv, [Next]_vars, ~ \E g \in Generations : Creates(g)
    PROVE  nextGen' = nextGen /\ ActiveGens' \subseteq ActiveGens
<1>1. ASSUME UNCHANGED <<caps, nextGen>>
      PROVE  nextGen' = nextGen /\ ActiveGens' \subseteq ActiveGens
    BY <1>1 DEF ActiveGens, Held, CapAt, Active
<1>2. ASSUME NEW t \in Tasks, Unregister(t)
      PROVE  nextGen' = nextGen /\ ActiveGens' \subseteq ActiveGens
    BY <1>2, CascadeAddsNone DEF Unregister, IInv
<1>3. ASSUME NEW o \in Tasks, NEW k, NEW g, Revoke(o, k, g)
      PROVE  nextGen' = nextGen /\ ActiveGens' \subseteq ActiveGens
    BY <1>3, CascadeAddsNone DEF Revoke, IInv
<1>4. ASSUME NEW o \in Tasks, NEW h \in Handles(o), Uses(o, h)
      PROVE  nextGen' = nextGen /\ ActiveGens' \subseteq ActiveGens
    BY <1>1, <1>3, <1>4 DEF Uses, Send, SendDirect
<1>5. ASSUME NEW t \in Tasks, Receive(t)
      PROVE  UNCHANGED <<caps, nextGen>>
    BY <1>5 DEF Receive
<1>6. ASSUME NEW o \in Tasks, NEW t \in Tasks, SendDirect(o, t)
      PROVE  UNCHANGED <<caps, nextGen>>
    BY <1>6 DEF SendDirect
<1>7. ASSUME UNCHANGED vars
      PROVE  UNCHANGED <<caps, nextGen>>
    BY <1>7 DEF vars
<1>8. QED
    BY <1>1, <1>2, <1>4, <1>5, <1>6, <1>7 DEF Next

LEMMA BehindCounterStep ==
    ASSUME IInv, BehindCounter, [Next]_vars, [nextGen' >= nextGen]_vars
    PROVE  /\ BehindCounter'
           /\ ((1 .. nextGen - 1) \ ActiveGens) \cap ActiveGens' = {}
<1>1. TypeOK /\ nextGen \in Generations /\ nextGen \in Nat /\ nextGen' >= nextGen
    BY DEF IInv, TypeOK, Generations, vars
<1>2. CASE \E g \in Generations : Creates(g)
    <2>1. PICK g \in Generations : Creates(g)
        BY <1>2
    <2>2. AllocatesGeneration(g) /\ ActiveGens' \subseteq ActiveGens \cup {g}
        BY <2>1, CreatesAddsOne DEF Creates
    <2>3. CASE MaxGeneration = 1
        BY <1>1, <2>3 DEF BehindCounter, Generations
    <2>4. CASE MaxGeneration # 1
        <3>1. ActiveGens \subseteq 1 .. nextGen - 1
            BY <2>4 DEF BehindCounter
        <3>2. g = nextGen
            BY <1>1, <2>2, <3>1, AllocatesCounter
        <3>3. nextGen' = nextGen + 1
            BY <1>1, <2>2, <2>4, <3>2, CapabilityAssumption
               DEF AllocatesGeneration, Generations
        <3>4. ActiveGens' \subseteq 1 .. nextGen' - 1
            BY <1>1, <2>2, <3>1, <3>2, <3>3 DEF Generations
        <3>5. ((1 .. nextGen - 1) \ ActiveGens) \cap ActiveGens' = {}
            BY <1>1, <2>2, <3>2
        <3>6. QED
            BY <3>4, <3>5 DEF BehindCounter
    <2>5. QED
        BY <2>3, <2>4
<1>3. CASE ~ \E g \in Generations : Creates(g)
    <2>1. nextGen' = nextGen /\ ActiveGens' \subseteq ActiveGens
        BY <1>3, OthersAddNone
    <2>2. QED
        BY <2>1 DEF BehindCounter
<1>4. QED
    BY <1>2, <1>3

\* allocate_generation: as long as the counter does not wrap around, a handle
\* whose capability was revoked is never good again, whoever reuses its slot
\* and however the cascades went.
THEOREM StaleStaysStale ==
    Spec /\ [][nextGen' >= nextGen]_vars => RevokedForGood
<1>1. Init => BehindCounter
    <2> SUFFICES ASSUME Init PROVE ActiveGens = {}
        BY DEF BehindCounter
    <2>1. \A o \in Tasks, k \in Slots : ~ Active(o, k)
        BY DEF Init, Active, NoCap
    <2>2. QED
        BY <2>1, ActiveGensBySlot
<1>2. IInv /\ BehindCounter /\ [Next]_vars /\ [nextGen' >= nextGen]_vars => BehindCounter'
    BY BehindCounterStep
<1>3. IInv /\ BehindCounter /\ [Next]_vars /\ [nextGen' >= nextGen]_vars
         => [((1 .. nextGen - 1) \ ActiveGens) \cap ActiveGens' = {}]_vars
    BY BehindCounterStep
<1>4. QED
    BY <1>1, <1>2, <1>3, CapabilityInvariant, PTL DEF Spec, RevokedForGood
=============================================================================
