--------------------------- MODULE KeyboardProofs ---------------------------
(***************************************************************************)
(* Proofs about the way from the keyboard to the shell, for any size of    *)
(* the ring, any limit of the poll and any number of bytes that the        *)
(* keyboard holds back.                                                    *)
(***************************************************************************)
EXTENDS Keyboard, NatRecursion, SequenceTheorems

Codes == Downs \union Ups \union {"Caps", "Letter", "Release", "Prefix", "Arrow"}

Kinds == {"Escape", "Arrow", "Char", "ShiftPressed", "ShiftReleased", "CapsLockToggled"}

Events == [kind : Kinds, upper : BOOLEAN]

DecoderState ==
    [extended : BOOLEAN, shift : BOOLEAN, caps : BOOLEAN,
     buffer : [Slots -> Events], read : Slots, write : Slots]

ModeState == [extended : BOOLEAN, shift : BOOLEAN, caps : BOOLEAN]

-----------------------------------------------------------------------------
(* The decoder.                                                            *)

\* The part of the decoder that is not the ring, and what a code makes of it.
Modes(d) == [extended |-> d.extended, shift |-> d.shift, caps |-> d.caps]

ModeStep(m, code) ==
    IF code = "Prefix" THEN [m EXCEPT !.extended = TRUE]
    ELSE IF m.extended THEN [m EXCEPT !.extended = FALSE]
    ELSE IF code \in Downs THEN [m EXCEPT !.shift = TRUE]
    ELSE IF code \in Ups THEN [m EXCEPT !.shift = FALSE]
    ELSE IF code = "Caps" THEN [m EXCEPT !.caps = ~ m.caps]
    ELSE m

SameRing(d, e) == d.buffer = e.buffer /\ d.read = e.read /\ d.write = e.write

LEMMA DecoderTypes ==
    ASSUME NEW d \in DecoderState
    PROVE  /\ d.extended \in BOOLEAN /\ d.shift \in BOOLEAN /\ d.caps \in BOOLEAN
           /\ d.buffer \in [Slots -> Events] /\ d.read \in Slots /\ d.write \in Slots
           /\ Modes(d) \in ModeState
           /\ Modes(d).extended = d.extended /\ Modes(d).shift = d.shift
           /\ Modes(d).caps = d.caps
    BY DEF DecoderState, Modes, ModeState

\* A scan code changes the modes, and then it may append one event.
LEMMA HandleIsStep ==
    ASSUME NEW d \in DecoderState, NEW code \in Codes
    PROVE  \E m \in DecoderState :
              /\ SameRing(d, m)
              /\ Modes(m) = ModeStep(Modes(d), code)
              /\ \/ HandleScancode(d, code) = m
                 \/ \E e \in Events : HandleScancode(d, code) = Push(m, e)
<1>1. CASE code = "Prefix"
    <2> DEFINE m == [d EXCEPT !.extended = TRUE]
    <2>1. m \in DecoderState /\ SameRing(d, m)
        BY DEF DecoderState, SameRing
    <2>2. Modes(m) = ModeStep(Modes(d), code)
        BY <1>1 DEF DecoderState, Modes, ModeStep
    <2>3. HandleScancode(d, code) = m
        BY <1>1 DEF HandleScancode, Downs, Ups
    <2>4. QED
        BY <2>1, <2>2, <2>3
<1>2. CASE code # "Prefix" /\ d.extended
    <2> DEFINE m == [d EXCEPT !.extended = FALSE]
    <2>1. m \in DecoderState /\ SameRing(d, m)
        BY DEF DecoderState, SameRing
    <2>2. Modes(m) = ModeStep(Modes(d), code)
        BY <1>2 DEF DecoderState, Modes, ModeStep
    <2>3. HandleScancode(d, code) = HandleExtended(m, code)
        BY <1>2 DEF HandleScancode
    <2> HIDE DEF m
    <2>4. HandleScancode(d, code) = m \/ HandleScancode(d, code) = Push(m, Event("Arrow", FALSE))
        BY <2>3 DEF HandleExtended
    <2>5. Event("Arrow", FALSE) \in Events
        BY DEF Event, Events, Kinds
    <2>6. QED
        BY <2>1, <2>2, <2>4, <2>5
<1>3. CASE code \in Downs /\ ~ d.extended
    <2> DEFINE m == [d EXCEPT !.shift = TRUE]
    <2>1. m \in DecoderState /\ SameRing(d, m)
        BY DEF DecoderState, SameRing
    <2>2. Modes(m) = ModeStep(Modes(d), code)
        BY <1>3 DEF DecoderState, Modes, ModeStep, Downs, Ups
    <2>3. HandleScancode(d, code) = Push(m, Event("ShiftPressed", FALSE))
        BY <1>3 DEF HandleScancode, Downs, Ups
    <2>4. Event("ShiftPressed", FALSE) \in Events
        BY DEF Event, Events, Kinds
    <2>5. QED
        BY <2>1, <2>2, <2>3, <2>4
<1>4. CASE code \in Ups /\ ~ d.extended
    <2> DEFINE m == [d EXCEPT !.shift = FALSE]
    <2>1. m \in DecoderState /\ SameRing(d, m)
        BY DEF DecoderState, SameRing
    <2>2. Modes(m) = ModeStep(Modes(d), code)
        BY <1>4 DEF DecoderState, Modes, ModeStep, Downs, Ups
    <2>3. HandleScancode(d, code) = Push(m, Event("ShiftReleased", FALSE))
        BY <1>4 DEF HandleScancode, Downs, Ups
    <2>4. Event("ShiftReleased", FALSE) \in Events
        BY DEF Event, Events, Kinds
    <2>5. QED
        BY <2>1, <2>2, <2>3, <2>4
<1>5. CASE code = "Caps" /\ ~ d.extended
    <2> DEFINE m == [d EXCEPT !.caps = ~ d.caps]
    <2>1. m \in DecoderState /\ SameRing(d, m)
        BY DEF DecoderState, SameRing
    <2>2. Modes(m) = ModeStep(Modes(d), code)
        BY <1>5 DEF DecoderState, Modes, ModeStep, Downs, Ups
    <2>3. HandleScancode(d, code) = Push(m, Event("CapsLockToggled", ~ d.caps))
        BY <1>5 DEF HandleScancode, Downs, Ups
    <2>4. Event("CapsLockToggled", ~ d.caps) \in Events
        BY DEF Event, Events, Kinds
    <2>5. QED
        BY <2>1, <2>2, <2>3, <2>4
<1>6. CASE code = "Letter" /\ ~ d.extended
    <2>1. d \in DecoderState /\ SameRing(d, d)
        BY DEF SameRing
    <2>2. Modes(d) = ModeStep(Modes(d), code)
        BY <1>6 DEF DecoderState, Modes, ModeStep, Downs, Ups
    <2>3. HandleScancode(d, code) = Push(d, Event("Char", d.shift # d.caps))
        BY <1>6 DEF HandleScancode, Downs, Ups
    <2>4. Event("Char", d.shift # d.caps) \in Events
        BY DEF Event, Events, Kinds
    <2>5. QED
        BY <2>1, <2>2, <2>3, <2>4
<1>7. CASE code \in {"Release", "Arrow"} /\ ~ d.extended
    <2>1. d \in DecoderState /\ SameRing(d, d)
        BY DEF SameRing
    <2>2. Modes(d) = ModeStep(Modes(d), code)
        BY <1>7 DEF DecoderState, Modes, ModeStep, Downs, Ups
    <2>3. HandleScancode(d, code) = d
        BY <1>7 DEF HandleScancode, Downs, Ups
    <2>4. QED
        BY <2>1, <2>2, <2>3
<1>8. QED
    BY <1>1, <1>2, <1>3, <1>4, <1>5, <1>6, <1>7 DEF Codes

-----------------------------------------------------------------------------
(* The ring.                                                               *)

\* The number of events in the ring, and the i-th of them.
Size(d) == IF d.write >= d.read THEN d.write - d.read
           ELSE BufferSize - d.read + d.write

Item(d, i) == d.buffer[(d.read + i - 1) % BufferSize]

\* The ring of e is that of d with events added behind the others.
Grows(d, e) ==
    /\ e.read = d.read
    /\ Size(d) <= Size(e)
    /\ \A i \in 1 .. Size(d) : Item(e, i) = Item(d, i)

LEMMA Wraps ==
    ASSUME NEW x \in Nat, x < 2 * BufferSize
    PROVE  /\ x % BufferSize \in Slots
           /\ x % BufferSize = IF x < BufferSize THEN x ELSE x - BufferSize
    BY KeyboardAssumption DEF Slots

\* The slots of the i-th events, for all i up to the size of the ring, are
\* different, and none of them is the slot of the next event.
LEMMA RingFacts ==
    ASSUME NEW d \in DecoderState
    PROVE  /\ Size(d) \in 0 .. BufferSize - 1
           /\ \A i \in 1 .. Size(d) : (d.read + i - 1) % BufferSize \in Slots
           /\ \A i \in 1 .. Size(d) : (d.read + i - 1) % BufferSize # d.write
           /\ Follow(d.write) \in Slots
<1>1. /\ d.read \in Nat /\ d.write \in Nat /\ BufferSize \in Nat
      /\ d.read < BufferSize /\ d.write < BufferSize
    BY DecoderTypes, KeyboardAssumption DEF Slots
<1>2. Size(d) \in 0 .. BufferSize - 1
    BY <1>1 DEF Size
<1>3. ASSUME NEW i \in 1 .. Size(d)
      PROVE  /\ (d.read + i - 1) % BufferSize \in Slots
             /\ (d.read + i - 1) % BufferSize # d.write
    <2> DEFINE x == d.read + i - 1
    <2>1. x \in Nat /\ x < 2 * BufferSize
        BY <1>1, <1>2
    <2>2. /\ x % BufferSize \in Slots
          /\ x % BufferSize = IF x < BufferSize THEN x ELSE x - BufferSize
        BY <2>1, Wraps
    <2>3. QED
        BY <1>1, <1>3, <2>2 DEF Size
<1>4. Follow(d.write) \in Slots
    BY <1>1, Wraps DEF Follow
<1>5. QED
    BY <1>2, <1>3, <1>4

LEMMA SameRingGrows ==
    ASSUME NEW d \in DecoderState, NEW e \in DecoderState, SameRing(d, e)
    PROVE  Grows(d, e)
<1>1. Size(d) = Size(e) /\ Size(d) \in Nat
    BY RingFacts DEF SameRing, Size
<1>2. QED
    BY <1>1 DEF SameRing, Grows, Item

LEMMA GrowsTransitive ==
    ASSUME NEW c \in DecoderState, NEW d \in DecoderState, NEW e \in DecoderState,
           Grows(c, d), Grows(d, e)
    PROVE  Grows(c, e)
<1>1. Size(c) \in Nat /\ Size(d) \in Nat /\ Size(e) \in Nat
    BY RingFacts
<1>2. \A i \in 1 .. Size(c) : i \in 1 .. Size(d)
    BY <1>1 DEF Grows
<1>3. QED
    BY <1>1, <1>2 DEF Grows

\* An event is added behind the others, or dropped.
LEMMA PushGrows ==
    ASSUME NEW d \in DecoderState, NEW e \in Events
    PROVE  Push(d, e) \in DecoderState /\ Modes(Push(d, e)) = Modes(d) /\ Grows(d, Push(d, e))
<1>1. CASE Follow(d.write) = d.read
    <2>1. Push(d, e) = d /\ SameRing(d, d)
        BY <1>1 DEF Push, SameRing
    <2>2. QED
        BY <2>1, SameRingGrows
<1>2. CASE Follow(d.write) # d.read
    <2> DEFINE r == [d EXCEPT !.buffer[d.write] = e, !.write = Follow(d.write)]
    <2>1. Push(d, e) = r
        BY <1>2 DEF Push
    <2>2. /\ d.read \in Slots /\ d.write \in Slots /\ d.buffer \in [Slots -> Events]
          /\ Follow(d.write) \in Slots
        BY DecoderTypes, RingFacts
    <2>3. /\ r \in DecoderState /\ Modes(r) = Modes(d)
          /\ r.read = d.read /\ r.write = Follow(d.write)
          /\ r.buffer = [d.buffer EXCEPT ![d.write] = e]
        BY <2>2 DEF DecoderState, Modes
    <2> HIDE DEF r
    <2>4. Size(d) <= Size(r)
        <3>1. /\ d.read \in Nat /\ d.write \in Nat /\ BufferSize \in Nat
              /\ d.read < BufferSize /\ d.write < BufferSize
            BY <2>2, KeyboardAssumption DEF Slots
        <3>2. Follow(d.write) = IF d.write + 1 < BufferSize THEN d.write + 1 ELSE 0
            BY <3>1, Wraps DEF Follow
        <3>3. QED
            BY <1>2, <2>3, <3>1, <3>2 DEF Size
    <2>5. ASSUME NEW i \in 1 .. Size(d)
          PROVE  Item(r, i) = Item(d, i)
        <3> DEFINE x == (d.read + i - 1) % BufferSize
        <3>1. x \in Slots /\ x # d.write
            BY RingFacts
        <3>2. Item(r, i) = r.buffer[x] /\ Item(d, i) = d.buffer[x]
            BY <2>3 DEF Item
        <3> HIDE DEF x
        <3>3. QED
            BY <2>2, <2>3, <3>1, <3>2
    <2>6. QED
        BY <2>1, <2>3, <2>4, <2>5 DEF Grows
<1>3. QED
    BY <1>1, <1>2

\* A scan code only adds to the ring, and its effect on the modes does not
\* depend on the ring.
LEMMA HandleFacts ==
    ASSUME NEW d \in DecoderState, NEW code \in Codes
    PROVE  LET e == HandleScancode(d, code) IN
           e \in DecoderState /\ Modes(e) = ModeStep(Modes(d), code) /\ Grows(d, e)
<1>1. PICK m \in DecoderState :
         /\ SameRing(d, m)
         /\ Modes(m) = ModeStep(Modes(d), code)
         /\ \/ HandleScancode(d, code) = m
            \/ \E e \in Events : HandleScancode(d, code) = Push(m, e)
    BY HandleIsStep
<1>2. Grows(d, m)
    BY <1>1, SameRingGrows
<1>3. CASE HandleScancode(d, code) = m
    BY <1>1, <1>2, <1>3
<1>4. ASSUME NEW e \in Events, HandleScancode(d, code) = Push(m, e)
      PROVE  LET h == HandleScancode(d, code) IN
             h \in DecoderState /\ Modes(h) = ModeStep(Modes(d), code) /\ Grows(d, h)
    <2>1. Push(m, e) \in DecoderState /\ Modes(Push(m, e)) = Modes(m) /\ Grows(m, Push(m, e))
        BY PushGrows
    <2>2. Grows(d, Push(m, e))
        BY <1>2, <2>1, GrowsTransitive
    <2>3. QED
        BY <1>1, <1>4, <2>1, <2>2
<1>5. QED
    BY <1>1, <1>3, <1>4

\* A round of poll, as the sequence of the decoder's states.
LEMMA PolledStates ==
    ASSUME Decoder \in DecoderState, out \in Seq(Codes)
    PROVE  /\ PollLength \in 0 .. Len(out)
           /\ \E after \in [0 .. PollLength -> DecoderState] :
                 /\ after[0] = Decoder
                 /\ \A i \in 1 .. PollLength : after[i] = HandleScancode(after[i - 1], out[i])
                 /\ Polled = after[PollLength]
<1> DEFINE n == PollLength
           Rec(f) == f = [i \in 0 .. n |-> IF i = 0 THEN Decoder
                                           ELSE HandleScancode(f[i - 1], out[i])]
           step == [x \in DecoderState \X (1 .. n) |-> HandleScancode(x[1], out[x[2]])]
<1>1. n \in 0 .. Len(out) /\ n \in Nat /\ Len(out) \in Nat
    BY KeyboardAssumption DEF PollLength, Min2
<1>2. \A i \in 1 .. n : out[i] \in Codes
    BY <1>1
<1>3. step \in [DecoderState \X (1 .. n) -> DecoderState]
    <2>1. ASSUME NEW x \in DecoderState \X (1 .. n)
          PROVE  HandleScancode(x[1], out[x[2]]) \in DecoderState
        <3>1. x[1] \in DecoderState /\ out[x[2]] \in Codes
            BY <1>2
        <3>2. QED
            BY <3>1, HandleFacts
    <2>2. QED
        BY <2>1
<1>4. PICK f \in [0 .. n -> DecoderState] :
         f[0] = Decoder /\ \A i \in 1 .. n : f[i] = step[<<f[i - 1], i>>]
    <2> HIDE DEF step, n
    <2>1. IsStep(step, n, DecoderState)
        BY <1>3 DEF IsStep
    <2>2. PICK f : IsRun(f, n, DecoderState, Decoder, step)
        BY <1>1, <2>1, RunExists
    <2>3. QED
        BY <2>2 DEF IsRun
<1>5. \A i \in 1 .. n : f[i] = HandleScancode(f[i - 1], out[i])
    <2> SUFFICES ASSUME NEW i \in 1 .. n PROVE f[i] = HandleScancode(f[i - 1], out[i])
        OBVIOUS
    <2>1. <<f[i - 1], i>> \in DecoderState \X (1 .. n)
        BY <1>1
    <2>2. \A x \in DecoderState \X (1 .. n) : step[x] = HandleScancode(x[1], out[x[2]])
        OBVIOUS
    <2>3. <<f[i - 1], i>>[1] = f[i - 1] /\ <<f[i - 1], i>>[2] = i
        OBVIOUS
    <2> HIDE DEF step, n
    <2>4. step[<<f[i - 1], i>>] = HandleScancode(f[i - 1], out[i])
        BY <2>1, <2>2, <2>3
    <2>5. QED
        BY <1>4, <2>4
<1>6. Rec(f)
    <2> HIDE DEF n
    <2>1. \A i \in 0 .. n : f[i] = IF i = 0 THEN Decoder ELSE HandleScancode(f[i - 1], out[i])
        BY <1>1, <1>4, <1>5
    <2>2. QED
        BY <2>1
<1> DEFINE after == CHOOSE g : Rec(g)
<1>7. Rec(after)
    BY <1>6
<1>8. Polled = after[n]
    BY DEF Polled
<1> HIDE DEF after, n
<1>9. ASSUME NEW i \in 0 .. n
      PROVE  after[i] = IF i = 0 THEN Decoder ELSE HandleScancode(after[i - 1], out[i])
    BY <1>7
<1>10. \A i \in 0 .. n : after[i] = f[i]
    <2> DEFINE S == {i \in 0 .. n : after[i] = f[i]}
    <2>1. 0 \in S
        BY <1>1, <1>4, <1>9
    <2>2. ASSUME NEW i \in 0 .. n - 1, i \in S
          PROVE  i + 1 \in S
        <3>1. i + 1 \in 1 .. n /\ i + 1 \in 0 .. n /\ i + 1 # 0 /\ (i + 1) - 1 = i
            BY <1>1
        <3>2. after[i + 1] = HandleScancode(after[i], out[i + 1])
            BY <1>9, <3>1
        <3>3. f[i + 1] = HandleScancode(f[i], out[i + 1])
            BY <1>5, <3>1
        <3>4. QED
            BY <2>2, <3>1, <3>2, <3>3
    <2> HIDE DEF S
    <2>3. 0 .. n \subseteq S
        BY <1>1, <2>1, <2>2, InductionUpTo
    <2>4. QED
        BY <2>3 DEF S
<1>11. Polled = f[n]
    BY <1>1, <1>8, <1>10
<1>12. QED
    BY <1>1, <1>4, <1>5, <1>11 DEF n

\* What a round of poll does to the ring.
LEMMA PolledGrows ==
    ASSUME Decoder \in DecoderState, out \in Seq(Codes)
    PROVE  Polled \in DecoderState /\ Grows(Decoder, Polled)
<1> DEFINE n == PollLength
<1>1. n \in 0 .. Len(out) /\ Len(out) \in Nat
    BY PolledStates
<1>2. PICK after \in [0 .. n -> DecoderState] :
         /\ after[0] = Decoder
         /\ \A i \in 1 .. n : after[i] = HandleScancode(after[i - 1], out[i])
         /\ Polled = after[n]
    BY PolledStates
<1> HIDE DEF n
<1> DEFINE S == {i \in 0 .. n : Grows(Decoder, after[i])}
<1>3. 0 \in S
    <2>1. SameRing(Decoder, Decoder)
        BY DEF SameRing
    <2>2. QED
        BY <1>1, <1>2, <2>1, SameRingGrows
<1>4. ASSUME NEW i \in 0 .. n - 1, i \in S
      PROVE  i + 1 \in S
    <2>1. /\ i + 1 \in 1 .. n /\ i + 1 \in 0 .. n /\ i \in 0 .. n /\ (i + 1) - 1 = i
          /\ out[i + 1] \in Codes
        BY <1>1
    <2>2. after[i] \in DecoderState /\ after[i + 1] = HandleScancode(after[i], out[i + 1])
        BY <1>2, <2>1
    <2>3. after[i + 1] \in DecoderState /\ Grows(after[i], after[i + 1])
        BY <2>1, <2>2, HandleFacts
    <2>4. Grows(Decoder, after[i + 1])
        BY <1>4, <2>2, <2>3, GrowsTransitive
    <2>5. QED
        BY <2>1, <2>4
<1> HIDE DEF S
<1>5. 0 .. n \subseteq S
    BY <1>1, <1>3, <1>4, InductionUpTo
<1>6. QED
    BY <1>1, <1>2, <1>5 DEF S

-----------------------------------------------------------------------------
(* Modes: what the codes that are still under way will make of them.       *)

\* The codes q lead from the modes m to z, by way of t.
Leads(t, m, q, z) ==
    /\ t \in [0 .. Len(q) -> ModeState]
    /\ t[0] = m
    /\ \A i \in 1 .. Len(q) : t[i] = ModeStep(t[i - 1], q[i])
    /\ t[Len(q)] = z

CanLead(m, q, z) == \E t : Leads(t, m, q, z)

LEMMA ModeStepType ==
    ASSUME NEW m \in ModeState, NEW code
    PROVE  ModeStep(m, code) \in ModeState
    BY DEF ModeStep, ModeState

LEMMA LeadsNowhere ==
    /\ \A m \in ModeState : CanLead(m, <<>>, m)
    /\ \A m, z : CanLead(m, <<>>, z) => m = z
<1>1. ASSUME NEW m \in ModeState
      PROVE  CanLead(m, <<>>, m)
    <2> DEFINE t == [i \in 0 .. 0 |-> m]
    <2>1. t \in [0 .. 0 -> ModeState] /\ t[0] = m /\ Len(<<>>) = 0 /\ 1 .. 0 = {}
        OBVIOUS
    <2> HIDE DEF t
    <2>2. Leads(t, m, <<>>, m)
        BY <2>1 DEF Leads
    <2>3. QED
        BY <2>2 DEF CanLead
<1>2. ASSUME NEW m, NEW z, CanLead(m, <<>>, z)
      PROVE  m = z
    BY <1>2 DEF CanLead, Leads
<1>3. QED
    BY <1>1, <1>2

\* One code more at the end: p is q with code behind it.
LEMMA LeadsFurther ==
    ASSUME NEW m, NEW q \in Seq(Codes), NEW z, CanLead(m, q, z), NEW code \in Codes,
           NEW p \in Seq(Codes), Len(p) = Len(q) + 1, p[Len(q) + 1] = code,
           \A i \in 1 .. Len(q) : p[i] = q[i]
    PROVE  CanLead(m, p, ModeStep(z, code))
<1> DEFINE n == Len(q)
<1>1. /\ n \in Nat /\ Len(p) = n + 1
      /\ \A i \in 1 .. n : p[i] = q[i]
      /\ p[n + 1] = code
    OBVIOUS
<1>2. PICK t : Leads(t, m, q, z)
    BY DEF CanLead
<1>3. /\ t \in [0 .. n -> ModeState] /\ t[0] = m /\ t[n] = z /\ z \in ModeState
      /\ \A i \in 1 .. n : t[i] = ModeStep(t[i - 1], q[i])
    BY <1>1, <1>2 DEF Leads
<1> HIDE DEF n
<1> DEFINE u == [i \in 0 .. n + 1 |-> IF i <= n THEN t[i] ELSE ModeStep(z, code)]
<1>4. ModeStep(z, code) \in ModeState
    BY <1>3, ModeStepType
<1>5. u \in [0 .. n + 1 -> ModeState]
    BY <1>1, <1>3, <1>4
<1>6. (\A i \in 0 .. n : u[i] = t[i]) /\ u[n + 1] = ModeStep(z, code)
    BY <1>1
<1> HIDE DEF u
<1>7. ASSUME NEW i \in 1 .. n + 1
      PROVE  u[i] = ModeStep(u[i - 1], p[i])
    <2>1. CASE i = n + 1
        <3>1. u[i - 1] = z /\ p[i] = code
            BY <1>1, <1>3, <1>6, <2>1
        <3>2. QED
            BY <1>6, <2>1, <3>1
    <2>2. CASE i \in 1 .. n
        <3>1. u[i - 1] = t[i - 1] /\ u[i] = t[i] /\ p[i] = q[i]
            BY <1>1, <1>6, <2>2
        <3>2. QED
            BY <1>3, <2>2, <3>1
    <2>3. QED
        BY <1>1, <2>1, <2>2
<1>8. Leads(u, m, p, ModeStep(z, code))
    BY <1>1, <1>3, <1>5, <1>6, <1>7 DEF Leads
<1>9. QED
    BY <1>8 DEF CanLead

LEMMA LeadsOn ==
    ASSUME NEW m, NEW q \in Seq(Codes), NEW z, CanLead(m, q, z), NEW code \in Codes
    PROVE  CanLead(m, Append(q, code), ModeStep(z, code))
<1> DEFINE p == Append(q, code)
<1>1. /\ p \in Seq(Codes) /\ Len(p) = Len(q) + 1 /\ p[Len(q) + 1] = code
      /\ \A i \in 1 .. Len(q) : p[i] = q[i]
    BY AppendProperties
<1> HIDE DEF p
<1>2. CanLead(m, p, ModeStep(z, code))
    BY <1>1, LeadsFurther
<1>3. QED
    BY <1>2 DEF p

\* The keys that send more than one code.
LEMMA LeadsTwo ==
    ASSUME NEW m \in ModeState, NEW a \in Codes, NEW b \in Codes
    PROVE  /\ <<a>> \in Seq(Codes) /\ CanLead(m, <<a>>, ModeStep(m, a))
           /\ <<a, b>> \in Seq(Codes) /\ CanLead(m, <<a, b>>, ModeStep(ModeStep(m, a), b))
<1>1. <<>> \in Seq(Codes) /\ CanLead(m, <<>>, m)
    BY LeadsNowhere
<1>2. /\ <<a>> \in Seq(Codes) /\ Len(<<a>>) = Len(<<>>) + 1 /\ <<a>>[Len(<<>>) + 1] = a
      /\ \A i \in 1 .. Len(<<>>) : <<a>>[i] = <<>>[i]
    OBVIOUS
<1>3. CanLead(m, <<a>>, ModeStep(m, a))
    BY <1>1, <1>2, LeadsFurther
<1>4. /\ <<a, b>> \in Seq(Codes) /\ Len(<<a, b>>) = Len(<<a>>) + 1
      /\ <<a, b>>[Len(<<a>>) + 1] = b
      /\ \A i \in 1 .. Len(<<a>>) : <<a, b>>[i] = <<a>>[i]
    OBVIOUS
<1>5. CanLead(m, <<a, b>>, ModeStep(ModeStep(m, a), b))
    BY <1>2, <1>3, <1>4, LeadsFurther
<1>6. QED
    BY <1>2, <1>3, <1>4, <1>5

LEMMA LeadsFour ==
    ASSUME NEW m \in ModeState, NEW a \in Codes, NEW b \in Codes, NEW c \in Codes, NEW d \in Codes
    PROVE  /\ <<a, b, c, d>> \in Seq(Codes)
           /\ CanLead(m, <<a, b, c, d>>,
                      ModeStep(ModeStep(ModeStep(ModeStep(m, a), b), c), d))
<1>1. <<a, b>> \in Seq(Codes) /\ CanLead(m, <<a, b>>, ModeStep(ModeStep(m, a), b))
    BY LeadsTwo
<1>2. /\ <<a, b, c>> \in Seq(Codes) /\ Len(<<a, b, c>>) = Len(<<a, b>>) + 1
      /\ <<a, b, c>>[Len(<<a, b>>) + 1] = c
      /\ \A i \in 1 .. Len(<<a, b>>) : <<a, b, c>>[i] = <<a, b>>[i]
    OBVIOUS
<1>3. CanLead(m, <<a, b, c>>, ModeStep(ModeStep(ModeStep(m, a), b), c))
    BY <1>1, <1>2, LeadsFurther
<1>4. /\ <<a, b, c, d>> \in Seq(Codes) /\ Len(<<a, b, c, d>>) = Len(<<a, b, c>>) + 1
      /\ <<a, b, c, d>>[Len(<<a, b, c>>) + 1] = d
      /\ \A i \in 1 .. Len(<<a, b, c>>) : <<a, b, c, d>>[i] = <<a, b, c>>[i]
    OBVIOUS
<1>5. CanLead(m, <<a, b, c, d>>, ModeStep(ModeStep(ModeStep(ModeStep(m, a), b), c), d))
    BY <1>2, <1>3, <1>4, LeadsFurther
<1>6. QED
    BY <1>4, <1>5

\* The first k codes are gone: the modes are then those of t[k].
LEMMA LeadsRest ==
    ASSUME NEW m, NEW q \in Seq(Codes), NEW z, NEW t, Leads(t, m, q, z),
           NEW k \in 0 .. Len(q)
    PROVE  CanLead(t[k], SubSeq(q, k + 1, Len(q)), z)
<1> DEFINE n == Len(q)
           p == SubSeq(q, k + 1, n)
<1>1. /\ n \in Nat /\ Len(p) = n - k
      /\ \A i \in 1 .. n - k : p[i] = q[k + i]
    <2>1. n \in Nat /\ k + 1 \in Int /\ \A i \in k + 1 .. n : q[i] \in Codes
        OBVIOUS
    <2>2. /\ Len(p) = IF k + 1 <= n THEN n - (k + 1) + 1 ELSE 0
          /\ \A i \in 1 .. n - (k + 1) + 1 : p[i] = q[(k + 1) + i - 1]
        BY <2>1, SubSeqProperties
    <2> HIDE DEF p
    <2>3. QED
        BY <2>1, <2>2
<1>2. /\ t \in [0 .. n -> ModeState] /\ t[n] = z
      /\ \A i \in 1 .. n : t[i] = ModeStep(t[i - 1], q[i])
    BY DEF Leads
<1> HIDE DEF n, p
<1>3. k \in 0 .. n
    BY DEF n
<1> DEFINE u == [i \in 0 .. n - k |-> t[k + i]]
<1>4. \A i \in 0 .. n - k : u[i] = t[k + i] /\ k + i \in 0 .. n
    BY <1>1, <1>3
<1>5. u \in [0 .. n - k -> ModeState]
    BY <1>2, <1>4
<1> HIDE DEF u
<1>6. ASSUME NEW i \in 1 .. n - k
      PROVE  u[i] = ModeStep(u[i - 1], p[i])
    <2>1. i \in 0 .. n - k /\ i - 1 \in 0 .. n - k /\ k + i \in 1 .. n /\ k + (i - 1) = (k + i) - 1
        BY <1>1, <1>3
    <2>2. u[i] = t[k + i] /\ u[i - 1] = t[(k + i) - 1] /\ p[i] = q[k + i]
        BY <1>1, <1>4, <2>1
    <2>3. QED
        BY <1>2, <2>1, <2>2
<1>7. u[0] = t[k] /\ u[n - k] = z
    <2>1. /\ 0 \in 0 .. n - k /\ n - k \in 0 .. n - k
          /\ k + 0 = k /\ k + (n - k) = n
        BY <1>1, <1>3
    <2>2. u[0] = t[k + 0] /\ u[n - k] = t[k + (n - k)]
        BY <1>4, <2>1
    <2>3. QED
        BY <1>2, <2>1, <2>2
<1>8. Leads(u, t[k], p, z)
    BY <1>1, <1>5, <1>6, <1>7 DEF Leads
<1>9. QED
    BY <1>8 DEF CanLead, p, n

\* Modes that agree on the prefix, and on the modifiers that are not in a.
Alike(m, n, a) ==
    /\ m.extended = n.extended
    /\ "Caps" \notin a => m.caps = n.caps
    /\ "Shift" \notin a => m.shift = n.shift

\* After a code the next one is taken for an extended one exactly if the code
\* was a prefix.
LEMMA PrefixStep ==
    ASSUME NEW m \in ModeState, NEW code
    PROVE  ModeStep(m, code).extended = (code = "Prefix")
    BY DEF ModeStep, ModeState

LEMMA AlikeStep ==
    ASSUME NEW m \in ModeState, NEW n \in ModeState, NEW a, Alike(m, n, a), NEW code
    PROVE  Alike(ModeStep(m, code), ModeStep(n, code), a)
<1>1. m.extended = n.extended
    BY DEF Alike
<1>2. CASE code = "Prefix" \/ m.extended
    BY <1>1, <1>2 DEF Alike, ModeStep, ModeState
<1>3. CASE ~ (code = "Prefix" \/ m.extended)
    BY <1>1, <1>3 DEF Alike, ModeStep, ModeState
<1>4. QED
    BY <1>2, <1>3

\* From modes that agree the same codes lead to modes that agree.
LEMMA LeadsAlike ==
    ASSUME NEW m \in ModeState, NEW n \in ModeState, NEW a, Alike(n, m, a),
           NEW q \in Seq(Codes), NEW z, CanLead(m, q, z)
    PROVE  \E y : CanLead(n, q, y) /\ Alike(y, z, a)
<1> DEFINE k == Len(q)
           step == [x \in ModeState \X (1 .. k) |-> ModeStep(x[1], q[x[2]])]
<1>1. k \in Nat
    OBVIOUS
<1>2. PICK t : Leads(t, m, q, z)
    BY DEF CanLead
<1>3. /\ t \in [0 .. k -> ModeState] /\ t[0] = m /\ t[k] = z
      /\ \A i \in 1 .. k : t[i] = ModeStep(t[i - 1], q[i])
    BY <1>2 DEF Leads
<1>4. step \in [ModeState \X (1 .. k) -> ModeState]
    <2>1. \A x \in ModeState \X (1 .. k) : ModeStep(x[1], q[x[2]]) \in ModeState
        BY ModeStepType
    <2>2. QED
        BY <2>1
<1>5. \A y \in ModeState : \A i \in 1 .. k : step[<<y, i>>] = ModeStep(y, q[i])
    OBVIOUS
<1> HIDE DEF step, k
<1>6. PICK u : IsRun(u, k, ModeState, n, step)
    <2>1. IsStep(step, k, ModeState)
        BY <1>4 DEF IsStep
    <2>2. QED
        BY <1>1, <2>1, RunExists
<1>7. /\ u \in [0 .. k -> ModeState] /\ u[0] = n
      /\ \A i \in 1 .. k : u[i] = ModeStep(u[i - 1], q[i])
    <2>1. u \in [0 .. k -> ModeState] /\ u[0] = n
        BY <1>6 DEF IsRun
    <2>2. ASSUME NEW i \in 1 .. k
          PROVE  u[i] = ModeStep(u[i - 1], q[i])
        <3>1. i - 1 \in 0 .. k
            BY <1>1
        <3>2. u[i - 1] \in ModeState /\ u[i] = step[<<u[i - 1], i>>]
            BY <1>6, <2>1, <3>1 DEF IsRun
        <3>3. QED
            BY <1>5, <3>2
    <2>3. QED
        BY <2>1, <2>2
<1> DEFINE S == {i \in 0 .. k : Alike(u[i], t[i], a)}
<1>8. 0 \in S
    BY <1>1, <1>3, <1>7
<1>9. ASSUME NEW i \in 0 .. k - 1, i \in S
      PROVE  i + 1 \in S
    <2>1. i + 1 \in 1 .. k /\ i + 1 \in 0 .. k /\ i \in 0 .. k /\ (i + 1) - 1 = i
        BY <1>1
    <2>2. /\ u[i] \in ModeState /\ t[i] \in ModeState
          /\ u[i + 1] = ModeStep(u[i], q[i + 1]) /\ t[i + 1] = ModeStep(t[i], q[i + 1])
        BY <1>3, <1>7, <2>1
    <2>3. Alike(u[i + 1], t[i + 1], a)
        BY <1>9, <2>2, AlikeStep
    <2>4. QED
        BY <2>1, <2>3
<1> HIDE DEF S
<1>10. 0 .. k \subseteq S
    BY <1>1, <1>8, <1>9, InductionUpTo
<1>11. Alike(u[k], z, a)
    BY <1>1, <1>3, <1>10 DEF S
<1>12. Leads(u, n, q, u[k])
    BY <1>7 DEF Leads, k
<1>13. QED
    BY <1>11, <1>12 DEF CanLead

\* After a round of poll the modes are those that the codes it read lead to.
LEMMA PolledModes ==
    ASSUME Decoder \in DecoderState, out \in Seq(Codes),
           NEW t, NEW z, Leads(t, Modes(Decoder), out, z)
    PROVE  Modes(Polled) = t[PollLength]
<1> DEFINE n == PollLength
<1>1. n \in 0 .. Len(out) /\ Len(out) \in Nat
    BY PolledStates
<1>2. PICK after \in [0 .. n -> DecoderState] :
         /\ after[0] = Decoder
         /\ \A i \in 1 .. n : after[i] = HandleScancode(after[i - 1], out[i])
         /\ Polled = after[n]
    BY PolledStates
<1>3. t[0] = Modes(Decoder) /\ \A i \in 1 .. Len(out) : t[i] = ModeStep(t[i - 1], out[i])
    BY DEF Leads
<1> HIDE DEF n
<1> DEFINE S == {i \in 0 .. n : Modes(after[i]) = t[i]}
<1>4. 0 \in S
    <2>1. 0 \in 0 .. n /\ after[0] = Decoder /\ t[0] = Modes(Decoder)
        BY <1>1, <1>2, <1>3
    <2>2. Modes(after[0]) = t[0]
        BY <2>1
    <2>3. QED
        BY <2>1, <2>2
<1>5. ASSUME NEW i \in 0 .. n - 1, i \in S
      PROVE  i + 1 \in S
    <2>1. /\ i + 1 \in 1 .. n /\ i + 1 \in 0 .. n /\ i \in 0 .. n /\ (i + 1) - 1 = i
          /\ i + 1 \in 1 .. Len(out) /\ out[i + 1] \in Codes
        BY <1>1
    <2>2. after[i] \in DecoderState /\ after[i + 1] = HandleScancode(after[i], out[i + 1])
        BY <1>2, <2>1
    <2>3. Modes(after[i + 1]) = ModeStep(Modes(after[i]), out[i + 1])
        BY <2>1, <2>2, HandleFacts
    <2>4. t[i + 1] = ModeStep(t[i], out[i + 1])
        BY <1>3, <2>1
    <2>5. QED
        BY <1>5, <2>1, <2>3, <2>4
<1> HIDE DEF S
<1>6. 0 .. n \subseteq S
    BY <1>1, <1>4, <1>5, InductionUpTo
<1>7. QED
    BY <1>1, <1>2, <1>6 DEF S, n

-----------------------------------------------------------------------------
(* The inductive invariant.                                                *)

Typed ==
    /\ wire \in Seq(Codes) /\ out \in Seq(Codes) /\ last \in Codes
    /\ Decoder \in DecoderState
    /\ uneven \in BOOLEAN /\ toggled \in BOOLEAN

\* Where requests are not latched, an interrupt finds a byte that nobody has
\* read.
NoneTwice == ~ latched => (request => out # <<>>) /\ again = {}

\* The decoder expects an extended code exactly if it decoded a prefix last:
\* a second reading of that byte then changes a modifier at most.
AfterPrefix == extended = (last = "Prefix")

\* What the keyboard would have the modes be.
Wanted == [extended |-> FALSE, shift |-> held # {} /\ ~ uneven, caps |-> toggled]

\* The bytes at the port and those still to come lead from the modes of the
\* decoder to the ones wanted, up to the modifiers that a second reading may
\* have changed.  ModifiersFollowKeyboard is the case without such bytes.
InStep ==
    \E m, z : /\ CanLead(Modes(Decoder), out, m) /\ CanLead(m, wire, z)
              /\ Alike(z, Wanted, again)

KInv == Typed /\ NoneTwice /\ AfterPrefix /\ InStep

LEMMA WantedType ==
    ASSUME Typed
    PROVE  Wanted \in ModeState
    BY DEF Typed, Wanted, ModeState

LEMMA BecomesDecoder ==
    ASSUME NEW d \in DecoderState, Becomes(d)
    PROVE  Decoder' = d
<1>1. Decoder' = [extended |-> d.extended, shift |-> d.shift, caps |-> d.caps,
                  buffer |-> d.buffer, read |-> d.read, write |-> d.write]
    BY DEF Decoder, Becomes
<1>2. QED
    BY <1>1 DEF DecoderState

LEMMA DecoderUnchanged ==
    ASSUME UNCHANGED keyVars
    PROVE  Decoder' = Decoder
    BY DEF keyVars, Decoder

LEMMA InitKInv == Init => KInv
<1> SUFFICES ASSUME Init PROVE KInv
    OBVIOUS
<1>1. /\ wire = <<>> /\ out = <<>> /\ last = "Release" /\ request = FALSE
      /\ held = {} /\ uneven = FALSE /\ toggled = FALSE /\ again = {}
      /\ extended = FALSE /\ shift = FALSE /\ caps = FALSE
      /\ buffer = [i \in Slots |-> Event("Escape", FALSE)] /\ read = 0 /\ write = 0
    BY DEF Init
<1>2. 0 \in Slots /\ Event("Escape", FALSE) \in Events
    BY KeyboardAssumption DEF Slots, Event, Events, Kinds
<1>3. Decoder \in DecoderState
    BY <1>1, <1>2 DEF Decoder, DecoderState
<1>4. Typed
    <2>1. <<>> \in Seq(Codes) /\ "Release" \in Codes
        BY DEF Codes
    <2>2. QED
        BY <1>1, <1>3, <2>1 DEF Typed
<1>5. NoneTwice /\ AfterPrefix
    BY <1>1 DEF NoneTwice, AfterPrefix
<1>6. Modes(Decoder) = Wanted /\ Wanted \in ModeState /\ Alike(Wanted, Wanted, again)
    BY <1>1 DEF Modes, Decoder, Wanted, ModeState, Alike
<1>7. InStep
    BY <1>1, <1>6, LeadsNowhere DEF InStep
<1>8. QED
    BY <1>4, <1>5, <1>7 DEF KInv

\* The codes of a key lead from the modes wanted before to those wanted after.
LEMMA SendKInv ==
    ASSUME KInv, NEW codes \in Seq(Codes), Send(codes),
           uneven' \in BOOLEAN, toggled' \in BOOLEAN, CanLead(Wanted, codes, Wanted')
    PROVE  KInv'
<1>1. /\ wire = <<>> /\ wire' = codes
      /\ UNCHANGED <<out, request, latched, last, keyVars, again>>
    BY DEF Send, portVars
<1>2. Decoder' = Decoder /\ extended' = extended
    BY <1>1, DecoderUnchanged DEF keyVars
<1>3. Typed'
    BY <1>1, <1>2 DEF KInv, Typed
<1>4. NoneTwice' /\ AfterPrefix'
    BY <1>1, <1>2 DEF KInv, NoneTwice, AfterPrefix
<1>5. InStep'
    <2>1. PICK m, z : /\ CanLead(Modes(Decoder), out, m) /\ CanLead(m, <<>>, z)
                      /\ Alike(z, Wanted, again)
        BY <1>1 DEF KInv, InStep
    <2>2. m = z /\ m \in ModeState
        <3>1. m = z
            BY <2>1, LeadsNowhere
        <3>2. PICK t : Leads(t, m, <<>>, z)
            BY <2>1 DEF CanLead
        <3>3. QED
            BY <3>1, <3>2 DEF Leads
    <2>3. Wanted \in ModeState
        BY WantedType DEF KInv
    <2>4. PICK y : CanLead(m, codes, y) /\ Alike(y, Wanted', again)
        BY <2>1, <2>2, <2>3, LeadsAlike
    <2>5. QED
        BY <1>1, <1>2, <2>1, <2>4 DEF InStep
<1>6. QED
    BY <1>3, <1>4, <1>5 DEF KInv

LEMMA PressShiftKInv ==
    ASSUME KInv, NEW s \in Shifts, PressShift(s)
    PROVE  KInv'
<1>1. /\ Send(<<Down(s)>>) /\ held' = held \union {s}
      /\ uneven' = FALSE /\ toggled' = toggled
    BY DEF PressShift
<1>2. toggled \in BOOLEAN /\ Wanted \in ModeState
    BY WantedType DEF KInv, Typed
<1>3. Down(s) \in Downs /\ Down(s) \in Codes /\ Down(s) # "Prefix"
    BY DEF Down, Downs, Codes
<1>4. ModeStep(Wanted, Down(s)) = Wanted'
    <2>1. held' # {} /\ ~ uneven'
        BY <1>1
    <2>2. Wanted' = [extended |-> FALSE, shift |-> TRUE, caps |-> toggled]
        BY <1>1, <2>1 DEF Wanted
    <2>3. QED
        BY <1>3, <2>2 DEF ModeStep, Wanted
<1>5. <<Down(s)>> \in Seq(Codes) /\ CanLead(Wanted, <<Down(s)>>, Wanted')
    BY <1>2, <1>3, <1>4, LeadsTwo
<1>6. QED
    BY <1>1, <1>2, <1>5, SendKInv

\* Whether or not the other key stays down, the flag goes.
LEMMA ReleaseShiftKInv ==
    ASSUME KInv, NEW s \in Shifts, ReleaseShift(s)
    PROVE  KInv'
<1>1. /\ s \in held /\ Send(<<Up(s)>>) /\ held' = held \ {s}
      /\ uneven' = (held # {s}) /\ toggled' = toggled
    BY DEF ReleaseShift
<1>2. toggled \in BOOLEAN /\ Wanted \in ModeState /\ uneven' \in BOOLEAN
    BY <1>1, WantedType DEF KInv, Typed
<1>3. Up(s) \in Ups /\ Up(s) \notin Downs /\ Up(s) \in Codes /\ Up(s) # "Prefix"
    BY DEF Up, Ups, Downs, Codes
<1>4. ModeStep(Wanted, Up(s)) = Wanted'
    <2>1. ~ (held' # {} /\ ~ uneven')
        BY <1>1
    <2>2. Wanted' = [extended |-> FALSE, shift |-> FALSE, caps |-> toggled]
        BY <1>1, <2>1 DEF Wanted
    <2>3. QED
        BY <1>3, <2>2 DEF ModeStep, Wanted
<1>5. <<Up(s)>> \in Seq(Codes) /\ CanLead(Wanted, <<Up(s)>>, Wanted')
    BY <1>2, <1>3, <1>4, LeadsTwo
<1>6. QED
    BY <1>1, <1>2, <1>5, SendKInv

LEMMA PressCapsKInv ==
    ASSUME KInv, PressCaps
    PROVE  KInv'
<1>1. /\ Send(<<"Caps">>) /\ toggled' = ~ toggled
      /\ held' = held /\ uneven' = uneven
    BY DEF PressCaps
<1>2. toggled \in BOOLEAN /\ uneven \in BOOLEAN /\ Wanted \in ModeState /\ "Caps" \in Codes
    BY WantedType DEF KInv, Typed, Codes
<1>3. ModeStep(Wanted, "Caps") = Wanted'
    BY <1>1, <1>2 DEF ModeStep, Wanted, Downs, Ups
<1>4. <<"Caps">> \in Seq(Codes) /\ CanLead(Wanted, <<"Caps">>, Wanted')
    BY <1>2, <1>3, LeadsTwo
<1>5. QED
    BY <1>1, <1>2, <1>4, SendKInv

LEMMA PressOtherKInv ==
    ASSUME KInv, NEW key \in OtherKeys, PressOther(key)
    PROVE  KInv'
<1> DEFINE w == Wanted
<1>1. Send(key) /\ held' = held /\ uneven' = uneven /\ toggled' = toggled
    BY DEF PressOther
<1>2. toggled \in BOOLEAN /\ uneven \in BOOLEAN /\ w \in ModeState /\ Wanted' = w
    BY <1>1, WantedType DEF KInv, Typed, Wanted
<1>3. \A a \in {"Arrow", "LeftDown", "LeftUp", "Release"} :
         ModeStep(ModeStep(w, "Prefix"), a) = w
    BY DEF ModeStep, Wanted
<1>4. \A a \in {"Letter", "Release"} : ModeStep(w, a) = w
    BY DEF ModeStep, Wanted, Downs, Ups
<1>5. {"Prefix", "Arrow", "LeftDown", "LeftUp", "Release", "Letter"} \subseteq Codes
    BY DEF Codes, Downs, Ups
<1> HIDE DEF w
<1>6. key \in Seq(Codes) /\ CanLead(w, key, w)
    <2>1. CASE key \in {<<"Letter">>, <<"Release">>}
        <3>1. PICK a \in {"Letter", "Release"} : key = <<a>>
            BY <2>1
        <3>2. key \in Seq(Codes) /\ CanLead(w, key, ModeStep(w, a))
            BY <1>2, <1>5, <3>1, LeadsTwo
        <3>3. QED
            BY <1>4, <3>2
    <2>2. CASE key = <<"Prefix", "Arrow">>
        <3>1. key \in Seq(Codes) /\ CanLead(w, key, ModeStep(ModeStep(w, "Prefix"), "Arrow"))
            BY <1>2, <1>5, <2>2, LeadsTwo
        <3>2. QED
            BY <1>3, <3>1
    <2>3. CASE key = <<"Prefix", "LeftDown", "Prefix", "Arrow">>
        <3>1. /\ key \in Seq(Codes)
              /\ CanLead(w, key, ModeStep(ModeStep(ModeStep(ModeStep(w, "Prefix"), "LeftDown"),
                                                   "Prefix"), "Arrow"))
            BY <1>2, <1>5, <2>3, LeadsFour
        <3>2. QED
            BY <1>3, <3>1
    <2>4. CASE key = <<"Prefix", "Release", "Prefix", "LeftUp">>
        <3>1. /\ key \in Seq(Codes)
              /\ CanLead(w, key, ModeStep(ModeStep(ModeStep(ModeStep(w, "Prefix"), "Release"),
                                                   "Prefix"), "LeftUp"))
            BY <1>2, <1>5, <2>4, LeadsFour
        <3>2. QED
            BY <1>3, <3>1
    <2>5. QED
        BY <2>1, <2>2, <2>3, <2>4 DEF OtherKeys
<1>7. QED
    BY <1>1, <1>2, <1>6, SendKInv DEF w

LEMMA ArriveKInv ==
    ASSUME KInv, Arrive
    PROVE  KInv'
<1>1. /\ wire # <<>> /\ out' = Append(out, Head(wire)) /\ wire' = Tail(wire)
      /\ UNCHANGED <<latched, last, keyVars, held, uneven, toggled, again>>
    BY DEF Arrive, keyboardVars
<1>2. wire \in Seq(Codes) /\ out \in Seq(Codes)
    BY DEF KInv, Typed
<1>3. Head(wire) \in Codes /\ Tail(wire) \in Seq(Codes) /\ out' \in Seq(Codes) /\ out' # <<>>
    BY <1>1, <1>2, HeadTailProperties, AppendProperties
<1>4. Decoder' = Decoder /\ Wanted' = Wanted /\ extended' = extended
    BY <1>1, DecoderUnchanged DEF Wanted, keyVars
<1>5. Typed'
    BY <1>1, <1>3, <1>4 DEF KInv, Typed
<1>6. NoneTwice' /\ AfterPrefix'
    BY <1>1, <1>3, <1>4 DEF KInv, NoneTwice, AfterPrefix
<1>7. InStep'
    <2>1. PICK m, z : /\ CanLead(Modes(Decoder), out, m) /\ CanLead(m, wire, z)
                      /\ Alike(z, Wanted, again)
        BY DEF KInv, InStep
    <2>2. CanLead(Modes(Decoder), Append(out, Head(wire)), ModeStep(m, Head(wire)))
        BY <1>2, <1>3, <2>1, LeadsOn
    <2>3. PICK t : Leads(t, m, wire, z)
        BY <2>1 DEF CanLead
    <2>4. 1 \in 0 .. Len(wire) /\ Tail(wire) = SubSeq(wire, 1 + 1, Len(wire))
        BY <1>1, <1>2
    <2>5. CanLead(t[1], Tail(wire), z)
        BY <1>2, <2>3, <2>4, LeadsRest
    <2>6. t[1] = ModeStep(m, Head(wire))
        BY <1>1, <1>2, <2>3 DEF Leads
    <2>7. QED
        BY <1>1, <1>4, <2>1, <2>2, <2>5, <2>6 DEF InStep
<1>8. QED
    BY <1>5, <1>6, <1>7 DEF KInv

\* What a read of the first n bytes leaves.
LEMMA ReadLeaves ==
    ASSUME out \in Seq(Codes), last \in Codes, NEW n \in 0 .. Len(out), ReadBytes(n)
    PROVE  /\ out' \in Seq(Codes) /\ out' = SubSeq(out, n + 1, Len(out))
           /\ last' \in Codes /\ Len(out') = Len(out) - n
<1>1. Len(out) \in Nat /\ n + 1 \in Int /\ n \in Nat /\ \A i \in 1 .. Len(out) : out[i] \in Codes
    OBVIOUS
<1>2. /\ out' = SubSeq(out, n + 1, Len(out))
      /\ last' = IF n <= Len(out) /\ n > 0 THEN out[n] ELSE last
    BY DEF ReadBytes
<1>3. last' \in Codes
    BY <1>1, <1>2
<1>4. \A i \in n + 1 .. Len(out) : out[i] \in Codes
    BY <1>1
<1>5. /\ out' \in Seq(Codes)
      /\ Len(out') = IF n + 1 <= Len(out) THEN Len(out) - (n + 1) + 1 ELSE 0
    BY <1>1, <1>2, <1>4, SubSeqProperties
<1>6. QED
    BY <1>1, <1>2, <1>3, <1>5

\* The last byte a second time: its modifier apart, the modes stay as they are.
LEMMA SecondReading ==
    ASSUME Typed, AfterPrefix
    PROVE  /\ Alike(ModeStep(Modes(Decoder), last), Modes(Decoder), again \union ModifierOf(last))
           /\ ModeStep(Modes(Decoder), last).extended = extended
<1> DEFINE m == Modes(Decoder)
<1>1. m \in ModeState /\ m.extended = extended /\ last \in Codes
    BY DecoderTypes DEF Typed, Decoder
<1>2. m.extended = (last = "Prefix")
    BY <1>1 DEF AfterPrefix
<1> HIDE DEF m
<1>3. ModeStep(m, last).extended = m.extended
    BY <1>1, <1>2, PrefixStep
<1>4. CASE last = "Prefix"
    <2>1. ModeStep(m, last) = m
        BY <1>1, <1>2, <1>4 DEF ModeStep, ModeState
    <2>2. QED
        BY <1>1, <2>1 DEF Alike, m
<1>5. CASE last \in Downs \union Ups
    <2>1. ModeStep(m, last).caps = m.caps /\ "Shift" \in ModifierOf(last)
        BY <1>1, <1>2, <1>5 DEF ModeStep, ModeState, ModifierOf, Downs, Ups
    <2>2. QED
        BY <1>1, <1>3, <2>1 DEF Alike, m
<1>6. CASE last = "Caps"
    <2>1. ModeStep(m, last).shift = m.shift /\ "Caps" \in ModifierOf(last)
        BY <1>1, <1>2, <1>6 DEF ModeStep, ModeState, ModifierOf, Downs, Ups
    <2>2. QED
        BY <1>1, <1>3, <2>1 DEF Alike, m
<1>7. CASE last \in {"Letter", "Release", "Arrow"}
    <2>1. ModeStep(m, last) = m
        BY <1>1, <1>2, <1>7 DEF ModeStep, ModeState, Downs, Ups
    <2>2. QED
        BY <1>1, <2>1 DEF Alike, m
<1>8. QED
    BY <1>1, <1>4, <1>5, <1>6, <1>7 DEF Codes, m

\* The handler takes one byte, or the last one once more.
LEMMA InterruptKInv ==
    ASSUME KInv, Interrupt
    PROVE  KInv'
<1> DEFINE d == HandleScancode(Decoder, AtPort)
<1>1. /\ request /\ Becomes(d) /\ ReadBytes(1) /\ request' = (Len(out) > 1)
      /\ again' = (IF out = <<>> THEN again \union ModifierOf(last) ELSE again)
      /\ UNCHANGED <<wire, latched, held, uneven, toggled>>
    BY DEF Interrupt, deviceVars, keyboardVars
<1>2. /\ wire \in Seq(Codes) /\ out \in Seq(Codes) /\ last \in Codes /\ Typed /\ AfterPrefix
      /\ Decoder \in DecoderState /\ uneven \in BOOLEAN /\ toggled \in BOOLEAN
    BY DEF KInv, Typed
<1>3. AtPort \in Codes
    BY <1>2, HeadTailProperties DEF AtPort
<1>4. d \in DecoderState /\ Modes(d) = ModeStep(Modes(Decoder), AtPort)
    BY <1>2, <1>3, HandleFacts
<1> HIDE DEF d
<1>5. Decoder' = d /\ Wanted' = Wanted
    BY <1>1, <1>4, BecomesDecoder DEF Wanted
<1>6. /\ Modes(Decoder) \in ModeState /\ Modes(d) \in ModeState
      /\ Modes(d).extended = extended'
    BY <1>1, <1>2, <1>4, DecoderTypes DEF Becomes
<1>7. PICK m, z : /\ CanLead(Modes(Decoder), out, m) /\ CanLead(m, wire, z)
                  /\ Alike(z, Wanted, again)
    BY DEF KInv, InStep
<1>8. CASE out = <<>>
    <2>1. latched
        BY <1>1, <1>8 DEF KInv, NoneTwice
    <2>2. Len(out) = 0 /\ AtPort = last
        BY <1>8 DEF AtPort
    <2>3. last' = last /\ out' = <<>>
        <3>1. out' = SubSeq(out, 2, 0) /\ last' = last
            BY <1>1, <2>2 DEF ReadBytes
        <3>2. \A i \in 2 .. 0 : out[i] \in Codes
            OBVIOUS
        <3>3. out' \in Seq(Codes) /\ Len(out') = 0
            BY <1>2, <3>1, <3>2, SubSeqProperties
        <3>4. QED
            BY <3>1, <3>3, EmptySeq
    <2>4. /\ Alike(Modes(d), Modes(Decoder), again') /\ extended' = extended
        BY <1>1, <1>2, <1>4, <1>6, <1>8, <2>2, SecondReading
    <2>5. Typed'
        BY <1>1, <1>2, <1>4, <1>5, <2>3 DEF Typed
    <2>6. NoneTwice' /\ AfterPrefix'
        BY <1>1, <1>2, <2>1, <2>3, <2>4 DEF NoneTwice, AfterPrefix
    <2>7. InStep'
        <3>1. CanLead(Modes(Decoder), wire, z)
            BY <1>7, <1>8, LeadsNowhere
        <3>2. PICK y : CanLead(Modes(d), wire, y) /\ Alike(y, z, again')
            BY <1>2, <1>6, <2>4, <3>1, LeadsAlike
        <3>3. Alike(y, Wanted, again')
            BY <1>1, <1>7, <3>2 DEF Alike
        <3>4. CanLead(Modes(d), <<>>, Modes(d))
            BY <1>6, LeadsNowhere
        <3>5. QED
            BY <1>1, <1>5, <2>3, <3>2, <3>3, <3>4 DEF InStep
    <2>8. QED
        BY <2>5, <2>6, <2>7 DEF KInv
<1>9. CASE out # <<>>
    <2>1. Len(out) \in Nat /\ 1 \in 0 .. Len(out)
        BY <1>2, <1>9
    <2>2. /\ out' \in Seq(Codes) /\ out' = SubSeq(out, 1 + 1, Len(out))
          /\ last' \in Codes /\ Len(out') = Len(out) - 1
        BY <1>1, <1>2, <2>1, ReadLeaves
    <2>3. Typed'
        BY <1>1, <1>2, <1>4, <1>5, <2>2 DEF Typed
    <2>4. NoneTwice'
        <3>1. Len(out) > 1 => Len(out') # 0
            BY <2>1, <2>2
        <3>2. out' = <<>> => Len(out') = 0
            OBVIOUS
        <3>3. QED
            BY <1>1, <1>9, <3>1, <3>2 DEF KInv, NoneTwice
    <2>5. AtPort = out[1] /\ last' = out[1]
        BY <1>1, <1>2, <1>9, <2>1, HeadTailProperties DEF AtPort, ReadBytes
    <2>6. AfterPrefix'
        BY <1>4, <1>6, <2>5, PrefixStep DEF AfterPrefix
    <2>7. InStep'
        <3>1. PICK t : Leads(t, Modes(Decoder), out, m)
            BY <1>7 DEF CanLead
        <3>2. CanLead(t[1], out', m)
            BY <1>2, <2>1, <2>2, <3>1, LeadsRest
        <3>3. t[1] = ModeStep(t[0], out[1]) /\ t[0] = Modes(Decoder)
            BY <2>1, <3>1 DEF Leads
        <3>4. CanLead(Modes(d), out', m)
            BY <1>4, <2>5, <3>2, <3>3
        <3>5. QED
            BY <1>1, <1>5, <1>7, <1>9, <3>4 DEF InStep
    <2>8. QED
        BY <2>3, <2>4, <2>6, <2>7 DEF KInv
<1>10. QED
    BY <1>8, <1>9

\* pop_event: the oldest event goes.
Pop(d) == [d EXCEPT !.read = Follow(@)]

LEMMA PopFacts ==
    ASSUME NEW d \in DecoderState, d.read # d.write
    PROVE  /\ Pop(d) \in DecoderState /\ Modes(Pop(d)) = Modes(d)
           /\ Size(d) > 0 /\ Size(Pop(d)) = Size(d) - 1
           /\ \A i \in 1 .. Size(d) - 1 : Item(Pop(d), i) = Item(d, i + 1)
<1> DEFINE e == Pop(d)
<1>1. /\ d.read \in Nat /\ d.write \in Nat /\ BufferSize \in Nat
      /\ d.read < BufferSize /\ d.write < BufferSize
    BY DecoderTypes, KeyboardAssumption DEF Slots
<1>2. Follow(d.read) \in Slots /\ Follow(d.read) = IF d.read + 1 < BufferSize THEN d.read + 1 ELSE 0
    BY <1>1, Wraps DEF Follow
<1>3. /\ e \in DecoderState /\ Modes(e) = Modes(d)
      /\ e.read = Follow(d.read) /\ e.write = d.write /\ e.buffer = d.buffer
    BY <1>2 DEF Pop, DecoderState, Modes
<1> HIDE DEF e
<1>4. Size(d) > 0 /\ Size(e) = Size(d) - 1 /\ Size(d) < BufferSize /\ Size(d) \in Nat
    BY <1>1, <1>2, <1>3 DEF Size
<1>5. ASSUME NEW i \in 1 .. Size(d) - 1
      PROVE  Item(e, i) = Item(d, i + 1)
    <2>1. i \in Nat /\ i < BufferSize /\ i >= 1
        BY <1>1, <1>4
    <2> DEFINE x == d.read + (i + 1) - 1
               y == Follow(d.read) + i - 1
    <2>2. x \in Nat /\ x < 2 * BufferSize /\ y \in Nat /\ y < 2 * BufferSize
        BY <1>1, <1>2, <2>1
    <2>3. /\ x % BufferSize = IF x < BufferSize THEN x ELSE x - BufferSize
          /\ y % BufferSize = IF y < BufferSize THEN y ELSE y - BufferSize
        BY <2>2, Wraps
    <2>4. x % BufferSize = y % BufferSize
        BY <1>1, <1>2, <2>1, <2>3
    <2>5. QED
        BY <1>3, <2>4 DEF Item
<1>6. QED
    BY <1>3, <1>4, <1>5 DEF e

\* What a round of the shell's loop makes of the decoder.
LEMMA LoopDecoder ==
    ASSUME Typed, Loop
    PROVE  /\ Polled \in DecoderState /\ Grows(Decoder, Polled)
           /\ \/ Decoder' = Polled /\ Polled.read = Polled.write
              \/ Decoder' = Pop(Polled) /\ Polled.read # Polled.write
           /\ Modes(Decoder') = Modes(Polled) /\ Decoder' \in DecoderState
<1>1. Decoder \in DecoderState /\ out \in Seq(Codes)
    BY DEF Typed
<1>2. Polled \in DecoderState /\ Grows(Decoder, Polled)
    BY <1>1, PolledGrows
<1>3. CASE Polled.read = Polled.write
    <2>1. Becomes(Polled)
        BY <1>3 DEF Loop
    <2>2. QED
        BY <1>2, <1>3, <2>1, BecomesDecoder
<1>4. CASE Polled.read # Polled.write
    <2>1. Becomes(Pop(Polled))
        BY <1>4 DEF Loop, Pop
    <2>2. Pop(Polled) \in DecoderState /\ Modes(Pop(Polled)) = Modes(Polled)
        BY <1>2, <1>4, PopFacts
    <2>3. QED
        BY <1>2, <1>4, <2>1, <2>2, BecomesDecoder
<1>5. QED
    BY <1>3, <1>4

LEMMA LoopKInv ==
    ASSUME KInv, Loop
    PROVE  KInv'
<1> DEFINE n == PollLength
<1>1. /\ ReadBytes(n) /\ request' = (request /\ (latched \/ n < Len(out)))
      /\ UNCHANGED <<wire, latched, held, uneven, toggled, again>>
    BY DEF Loop, ReadPolled, deviceVars, keyboardVars
<1>2. /\ wire \in Seq(Codes) /\ out \in Seq(Codes) /\ last \in Codes
      /\ Decoder \in DecoderState /\ uneven \in BOOLEAN /\ toggled \in BOOLEAN /\ Typed
    BY DEF KInv, Typed
<1>3. Modes(Decoder') = Modes(Polled) /\ Decoder' \in DecoderState
    BY <1>2, LoopDecoder
<1>4. n \in 0 .. Len(out) /\ Len(out) \in Nat
    BY <1>2, PolledStates
<1> HIDE DEF n
<1>6. /\ out' \in Seq(Codes) /\ out' = SubSeq(out, n + 1, Len(out))
      /\ last' \in Codes /\ Len(out') = Len(out) - n
    BY <1>1, <1>2, <1>4, ReadLeaves
<1>7. Typed'
    BY <1>1, <1>2, <1>3, <1>6 DEF Typed
<1>8. NoneTwice'
    <2>1. n < Len(out) => Len(out') # 0
        BY <1>4, <1>6
    <2>2. out' = <<>> => Len(out') = 0
        OBVIOUS
    <2>3. QED
        BY <1>1, <2>1, <2>2 DEF KInv, NoneTwice
<1>9. Wanted' = Wanted
    BY <1>1 DEF Wanted
<1>10. PICK m, z : /\ CanLead(Modes(Decoder), out, m) /\ CanLead(m, wire, z)
                   /\ Alike(z, Wanted, again)
    BY DEF KInv, InStep
<1>11. PICK t : Leads(t, Modes(Decoder), out, m)
    BY <1>10 DEF CanLead
<1>12. Modes(Decoder') = t[n]
    BY <1>2, <1>3, <1>11, PolledModes DEF n
<1>13. InStep'
    <2>1. CanLead(t[n], out', m)
        BY <1>2, <1>4, <1>6, <1>11, LeadsRest
    <2>2. QED
        BY <1>1, <1>9, <1>10, <1>12, <2>1 DEF InStep
<1>14. AfterPrefix'
    <2>1. extended' = t[n].extended /\ extended = Modes(Decoder).extended
        <3>1. Modes(Decoder').extended = extended' /\ Modes(Decoder).extended = extended
            BY DEF Modes, Decoder
        <3>2. QED
            BY <1>12, <3>1
    <2>2. CASE n = 0
        <3>1. last' = last /\ t[n] = Modes(Decoder)
            BY <1>1, <1>11, <2>2 DEF ReadBytes, Leads
        <3>2. QED
            BY <2>1, <3>1 DEF KInv, AfterPrefix
    <2>3. CASE n # 0
        <3>1. last' = out[n] /\ n \in 1 .. Len(out) /\ n - 1 \in 0 .. Len(out)
            BY <1>1, <1>4, <2>3 DEF ReadBytes
        <3>2. t[n] = ModeStep(t[n - 1], out[n]) /\ t[n - 1] \in ModeState
            BY <1>11, <3>1 DEF Leads
        <3>3. QED
            BY <2>1, <3>1, <3>2, PrefixStep DEF AfterPrefix
    <2>4. QED
        BY <2>2, <2>3
<1>15. QED
    BY <1>7, <1>8, <1>13, <1>14 DEF KInv

LEMMA NextKInv == KInv /\ [Next]_vars => KInv'
<1> SUFFICES ASSUME KInv, [Next]_vars PROVE KInv'
    OBVIOUS
<1>1. CASE \E s \in Shifts : PressShift(s) \/ ReleaseShift(s)
    BY <1>1, PressShiftKInv, ReleaseShiftKInv
<1>7. CASE PressCaps \/ \E key \in OtherKeys : PressOther(key)
    BY <1>7, PressCapsKInv, PressOtherKInv
<1>2. CASE Arrive
    BY <1>2, ArriveKInv
<1>3. CASE Interrupt
    BY <1>3, InterruptKInv
<1>4. CASE Loop
    BY <1>4, LoopKInv
<1>5. CASE OtherInterrupt \/ Handled \/ UNCHANGED vars
    <2>1. UNCHANGED <<wire, out, request, latched, last, keyVars, held, uneven, toggled, again>>
        BY <1>5 DEF OtherInterrupt, Handled, vars, portVars, keyboardVars
    <2>2. Decoder' = Decoder /\ Wanted' = Wanted /\ extended' = extended
        BY <2>1, DecoderUnchanged DEF Wanted, keyVars
    <2>3. QED
        BY <2>1, <2>2 DEF KInv, Typed, NoneTwice, AfterPrefix, InStep
<1>6. QED
    BY <1>1, <1>2, <1>3, <1>4, <1>5, <1>7 DEF Next

\* The keyboard's own steps leave the kernel alone.
Keystroke ==
    \/ \E s \in Shifts : PressShift(s) \/ ReleaseShift(s)
    \/ PressCaps
    \/ \E key \in OtherKeys : PressOther(key)

LEMMA KeystrokeOnly ==
    ASSUME Keystroke
    PROVE  UNCHANGED <<shell, keyVars>>
    BY DEF Keystroke, PressShift, ReleaseShift, PressCaps, PressOther, Send

-----------------------------------------------------------------------------
(* The theorems.                                                           *)

THEOREM KeyboardInvariant == Spec => []KInv
<1>1. QED
    BY InitKInv, NextKInv, PTL DEF Spec

\* ModifiersFollowKeyboard: however interrupts, polls and the bytes of
\* wrapped keys interleave, however many events a full ring drops and
\* whichever bytes the handler reads twice, the decoder agrees with the
\* keyboard when every byte has been decoded, except for a modifier with a
\* code read twice, and for shift when one of two held keys was released.
THEOREM ModifiersAreRight == Spec => []ModifiersFollowKeyboard
<1>1. KInv => ModifiersFollowKeyboard
    <2> SUFFICES ASSUME KInv, wire = <<>>, out = <<>>
                 PROVE  /\ ~ extended
                        /\ "Caps" \notin again => caps = toggled
                        /\ "Shift" \notin again => shift = (held # {} /\ ~ uneven)
        BY DEF ModifiersFollowKeyboard, KInv, NoneTwice
    <2>1. PICK m, z : /\ CanLead(Modes(Decoder), out, m) /\ CanLead(m, wire, z)
                      /\ Alike(z, Wanted, again)
        BY DEF KInv, InStep
    <2>2. Alike(Modes(Decoder), Wanted, again)
        BY <2>1, LeadsNowhere
    <2>3. QED
        BY <2>2 DEF Modes, Decoder, Wanted, Alike
<1>2. QED
    BY <1>1, KeyboardInvariant, PTL

\* NoEventAsleep: the shell halts in the same step in which it finds the ring
\* empty, and every event that an interrupt adds later ends the halt.
THEOREM NobodySleepsOnEvents == Spec => []NoEventAsleep
<1>1. Init => NoEventAsleep
    BY DEF Init, NoEventAsleep
<1>2. KInv /\ NoEventAsleep /\ [Next]_vars => NoEventAsleep'
    <2> SUFFICES ASSUME KInv, NoEventAsleep, [Next]_vars PROVE NoEventAsleep'
        OBVIOUS
    <2>1. CASE Keystroke \/ Arrive \/ UNCHANGED vars
        <3>1. UNCHANGED <<shell, read, write>>
            BY <2>1, KeystrokeOnly DEF Arrive, vars, keyVars
        <3>2. QED
            BY <3>1 DEF NoEventAsleep
    <2>2. CASE Interrupt \/ OtherInterrupt \/ Handled
        BY <2>2 DEF Interrupt, OtherInterrupt, Handled, NoEventAsleep
    <2>3. CASE Loop
        <3>1. CASE Polled.read = Polled.write
            BY <2>3, <3>1 DEF Loop, Becomes, NoEventAsleep
        <3>2. CASE Polled.read # Polled.write
            BY <2>3, <3>2 DEF Loop, NoEventAsleep
        <3>3. QED
            BY <3>1, <3>2
    <2>4. QED
        BY <2>1, <2>2, <2>3 DEF Next, Keystroke
<1>3. QED
    BY <1>1, <1>2, KeyboardInvariant, PTL DEF Spec

\* The ring of e is that of d after it lost at most its oldest event and
\* took others in behind.
Moves(d, e) ==
    \E taken \in 0 .. 1 :
       /\ taken <= Size(d)
       /\ \E more \in 0 .. BufferSize :
             /\ Size(e) = Size(d) + more - taken
             /\ \A i \in 1 .. Size(d) - taken : Item(e, i) = Item(d, i + taken)

LEMMA GrowsMoves ==
    ASSUME NEW d \in DecoderState, NEW e \in DecoderState, Grows(d, e)
    PROVE  Moves(d, e)
<1>1. Size(d) \in 0 .. BufferSize - 1 /\ Size(e) \in 0 .. BufferSize - 1 /\ BufferSize \in Nat
    BY RingFacts, KeyboardAssumption
<1> DEFINE more == Size(e) - Size(d)
<1>2. /\ 0 \in 0 .. 1 /\ 0 <= Size(d)
      /\ more \in 0 .. BufferSize /\ Size(e) = Size(d) + more - 0
    BY <1>1 DEF Grows
<1>3. \A i \in 1 .. Size(d) - 0 : Item(e, i) = Item(d, i + 0)
    BY <1>1 DEF Grows
<1> HIDE DEF more
<1>4. QED
    BY <1>2, <1>3 DEF Moves

LEMMA PopMoves ==
    ASSUME NEW d \in DecoderState, NEW p \in DecoderState, Grows(d, p), p.read # p.write
    PROVE  Moves(d, Pop(p))
<1> DEFINE e == Pop(p)
<1>1. /\ e \in DecoderState /\ Size(p) > 0 /\ Size(e) = Size(p) - 1
      /\ \A i \in 1 .. Size(p) - 1 : Item(e, i) = Item(p, i + 1)
    BY PopFacts
<1>2. /\ Size(d) \in 0 .. BufferSize - 1 /\ Size(p) \in 0 .. BufferSize - 1
      /\ BufferSize \in Nat
    BY RingFacts, KeyboardAssumption
<1> HIDE DEF e
<1>3. CASE Size(d) = 0
    <2>1. /\ 0 \in 0 .. 1 /\ 0 <= Size(d) /\ Size(e) \in 0 .. BufferSize
          /\ Size(e) = Size(d) + Size(e) - 0
          /\ \A i \in 1 .. Size(d) - 0 : Item(e, i) = Item(d, i + 0)
        BY <1>1, <1>2, <1>3
    <2>2. Moves(d, e)
        BY <2>1 DEF Moves
    <2>3. QED
        BY <2>2 DEF e
<1>4. CASE Size(d) # 0
    <2> DEFINE more == Size(p) - Size(d)
    <2>1. /\ 1 \in 0 .. 1 /\ 1 <= Size(d) /\ more \in 0 .. BufferSize
          /\ Size(e) = Size(d) + more - 1
        BY <1>1, <1>2, <1>4 DEF Grows
    <2>2. ASSUME NEW i \in 1 .. Size(d) - 1
          PROVE  Item(e, i) = Item(d, i + 1)
        <3>1. i \in 1 .. Size(p) - 1 /\ i + 1 \in 1 .. Size(d)
            BY <1>2, <1>4 DEF Grows
        <3>2. QED
            BY <1>1, <3>1 DEF Grows
    <2> HIDE DEF more
    <2>3. Moves(d, e)
        BY <2>1, <2>2 DEF Moves
    <2>4. QED
        BY <2>3 DEF e
<1>5. QED
    BY <1>3, <1>4

LEMMA ContentsItems ==
    Typed => /\ Len(Contents) = Size(Decoder)
             /\ \A i \in 1 .. Size(Decoder) : Contents[i] = Item(Decoder, i)
<1> SUFFICES ASSUME Typed
             PROVE  /\ Len(Contents) = Size(Decoder)
                    /\ \A i \in 1 .. Size(Decoder) : Contents[i] = Item(Decoder, i)
    OBVIOUS
<1>1. Size(Decoder) \in Nat
    BY RingFacts DEF Typed
<1>2. Decoder.read = read /\ Decoder.write = write /\ Decoder.buffer = buffer
    BY DEF Decoder
<1>3. Contents = [i \in 1 .. Size(Decoder) |-> Item(Decoder, i)]
    BY <1>2 DEF Contents, Size, Item
<1>4. QED
    BY <1>1, <1>3

\* Fifo: interrupts and rounds of the loop only append to the ring, and the
\* loop takes the oldest event, wherever the indices wrap around.
THEOREM RingIsAQueue == Spec => Fifo
<1> DEFINE Queue ==
        \E taken \in 0 .. 1 :
          /\ taken <= Len(Contents)
          /\ \E more \in 0 .. BufferSize :
                /\ Len(Contents') = Len(Contents) + more - taken
                /\ \A i \in 1 .. Len(Contents) - taken :
                      Contents'[i] = Contents[i + taken]
<1>1. KInv /\ [Next]_vars => Moves(Decoder, Decoder')
    <2> SUFFICES ASSUME KInv, [Next]_vars PROVE Moves(Decoder, Decoder')
        OBVIOUS
    <2>1. /\ Typed /\ out \in Seq(Codes) /\ last \in Codes /\ Decoder \in DecoderState
        BY DEF KInv, Typed
    <2>2. CASE UNCHANGED keyVars
        <3>1. Decoder' = Decoder /\ Grows(Decoder, Decoder)
            BY <2>1, <2>2, DecoderUnchanged, SameRingGrows DEF SameRing
        <3>2. QED
            BY <2>1, <3>1, GrowsMoves
    <2>3. CASE Interrupt
        <3>1. AtPort \in Codes
            BY <2>1, HeadTailProperties DEF AtPort
        <3> DEFINE d == HandleScancode(Decoder, AtPort)
        <3>2. d \in DecoderState /\ Grows(Decoder, d)
            BY <2>1, <3>1, HandleFacts
        <3>3. Becomes(d)
            BY <2>3 DEF Interrupt
        <3> HIDE DEF d
        <3>4. Decoder' = d
            BY <3>2, <3>3, BecomesDecoder
        <3>5. QED
            BY <2>1, <3>2, <3>4, GrowsMoves
    <2>4. CASE Loop
        <3>1. /\ Polled \in DecoderState /\ Grows(Decoder, Polled)
              /\ \/ Decoder' = Polled /\ Polled.read = Polled.write
                 \/ Decoder' = Pop(Polled) /\ Polled.read # Polled.write
            BY <2>1, <2>4, LoopDecoder
        <3>2. QED
            BY <2>1, <3>1, GrowsMoves, PopMoves
    <2>5. CASE Keystroke \/ Arrive \/ OtherInterrupt \/ Handled \/ UNCHANGED vars
        BY <2>2, <2>5, KeystrokeOnly DEF Arrive, OtherInterrupt, Handled, vars
    <2>6. QED
        BY <2>3, <2>4, <2>5 DEF Next, Keystroke
<1>2. KInv /\ KInv' /\ [Next]_vars => [Queue]_vars
    <2> SUFFICES ASSUME KInv, KInv', [Next]_vars PROVE Queue
        OBVIOUS
    <2>1. Typed /\ Typed'
        BY DEF KInv
    <2>2. /\ Len(Contents) = Size(Decoder)
          /\ \A i \in 1 .. Size(Decoder) : Contents[i] = Item(Decoder, i)
        BY <2>1, ContentsItems
    <2>3. (Typed => /\ Len(Contents) = Size(Decoder)
                    /\ \A i \in 1 .. Size(Decoder) : Contents[i] = Item(Decoder, i))'
        BY ContentsItems, PTL
    <2>4. /\ Len(Contents') = Size(Decoder')
          /\ \A i \in 1 .. Size(Decoder') : Contents'[i] = Item(Decoder', i)
        BY <2>1, <2>3
    <2>5. PICK taken \in 0 .. 1 :
             /\ taken <= Size(Decoder)
             /\ \E more \in 0 .. BufferSize :
                   /\ Size(Decoder') = Size(Decoder) + more - taken
                   /\ \A i \in 1 .. Size(Decoder) - taken :
                         Item(Decoder', i) = Item(Decoder, i + taken)
        BY <1>1 DEF Moves
    <2>6. PICK more \in 0 .. BufferSize :
             /\ Size(Decoder') = Size(Decoder) + more - taken
             /\ \A i \in 1 .. Size(Decoder) - taken :
                   Item(Decoder', i) = Item(Decoder, i + taken)
        BY <2>5
    <2>7. Size(Decoder) \in Nat /\ BufferSize \in Nat
        BY <2>1, RingFacts, KeyboardAssumption DEF Typed
    <2>8. ASSUME NEW i \in 1 .. Size(Decoder) - taken
          PROVE  Contents'[i] = Contents[i + taken]
        <3>1. i \in 1 .. Size(Decoder') /\ i + taken \in 1 .. Size(Decoder)
            BY <2>5, <2>6, <2>7
        <3>2. QED
            BY <2>2, <2>4, <2>6, <3>1
    <2>9. QED
        BY <2>2, <2>4, <2>5, <2>6, <2>8
<1>3. QED
    BY <1>2, KeyboardInvariant, PTL DEF Spec, Fifo
=============================================================================
