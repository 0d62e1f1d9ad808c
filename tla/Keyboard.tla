------------------------------ MODULE Keyboard ------------------------------
(***************************************************************************)
(* From the keyboard to the shell: src/keyboard.rs (decoding of scan codes *)
(* and the ring of key events), the keyboard interrupt, and the loop of    *)
(* shell::run that polls, takes an event or halts.                         *)
(*                                                                         *)
(* Interrupt handlers and the part of the loop between disable and enable  *)
(* run with interrupts off and are one step each; the keyboard sends its   *)
(* bytes at any time.  A scan code is its meaning: all keys with a         *)
(* printable event are one letter.  There are two shift keys, as on a      *)
(* keyboard, and the code keeps one flag for both.                         *)
(*                                                                         *)
(* The handler reads the data port without a look at the status port, and  *)
(* poll takes bytes whose interrupt is still requested.  Whether that      *)
(* request survives depends on the interrupt controller (external): if it  *)
(* is latched, the interrupt comes all the same, and the handler finds the *)
(* last byte a second time.                                                *)
(***************************************************************************)
EXTENDS Integers, Sequences

CONSTANTS BufferSize,     \* KEY_BUFFER_SIZE
          PollLimit,      \* the scan codes that poll reads at most, 16
          OutputSize,     \* the bytes that the keyboard holds back (external)
          MaxKeys         \* bound on the keys typed

ASSUME KeyboardAssumption ==
    /\ {BufferSize, PollLimit, OutputSize} \subseteq Nat \ {0}
    /\ BufferSize > 1 /\ MaxKeys \in Nat

\* The two shift keys, and the codes of their presses and releases.
Shifts == {"Left", "Right"}
Down(s) == IF s = "Left" THEN "LeftDown" ELSE "RightDown"
Up(s)   == IF s = "Left" THEN "LeftUp" ELSE "RightUp"
Downs   == {"LeftDown", "RightDown"}
Ups     == {"LeftUp", "RightUp"}

\* What the keyboard sends for the keys that are no modifiers.  Keys of the
\* extended block announce themselves with Prefix; some are wrapped in shift
\* codes of their own, which must not count as a shift key.
OtherKeys == { <<"Letter">>, <<"Release">>, <<"Prefix", "Arrow">>,
               <<"Prefix", "LeftDown", "Prefix", "Arrow">>,
               <<"Prefix", "Release", "Prefix", "LeftUp">> }

\* KeyEvent.  A letter has its case.
Event(kind, upper) == [kind |-> kind, upper |-> upper]

Slots == 0 .. BufferSize - 1

VARIABLES wire,       \* the bytes that the keyboard has still to send
          out,        \* the bytes at the data port, oldest first
          request,    \* is the keyboard's interrupt requested?
          latched,    \* does a request survive the poll of its byte?
          last,       \* the byte that a read of the empty data port finds
          extended,   \* EXTENDED_SCANCODE
          shift,      \* SHIFT_PRESSED
          caps,       \* CAPS_LOCK
          buffer,     \* KeyBuffer.buffer
          read,       \* KeyBuffer.read_index
          write,      \* KeyBuffer.write_index
          shell,      \* where the shell's loop is: "loop", "busy", "halted"
          keys,       \* the number of keys typed
          held,       \* history: the shift keys that are down
          uneven,     \* history: one of two held shift keys was released, and
                      \* none was pressed since
          toggled,    \* history: is caps lock on, after all codes sent?
          again       \* history: the modifiers with a code decoded twice

keyVars == <<extended, shift, caps, buffer, read, write>>
keyboardVars == <<keys, held, uneven, toggled>>
deviceVars == <<wire, latched, keyboardVars>>
portVars == <<out, request, latched, last>>
vars == <<wire, portVars, keyVars, shell, keyboardVars, again>>

Init ==
    /\ wire = <<>> /\ out = <<>> /\ keys = 0
    /\ request = FALSE /\ latched \in BOOLEAN /\ last = "Release"
    /\ extended = FALSE /\ shift = FALSE /\ caps = FALSE
    /\ buffer = [i \in Slots |-> Event("Escape", FALSE)]
    /\ read = 0 /\ write = 0
    /\ shell = "loop"
    /\ held = {} /\ uneven = FALSE /\ toggled = FALSE /\ again = {}

-----------------------------------------------------------------------------

\* The decoder and the ring, as a record, so that poll is a composition.
Decoder == [extended |-> extended, shift |-> shift, caps |-> caps,
            buffer |-> buffer, read |-> read, write |-> write]

Becomes(d) ==
    /\ extended' = d.extended /\ shift' = d.shift /\ caps' = d.caps
    /\ buffer' = d.buffer /\ read' = d.read /\ write' = d.write

Follow(i) == (i + 1) % BufferSize

\* Mutant of Push: a full ring is not noticed.
PushUnchecked(d, e) == [d EXCEPT !.buffer[d.write] = e, !.write = Follow(d.write)]

\* An event that finds the ring full is dropped.
Push(d, e) ==
    IF Follow(d.write) = d.read THEN d
    ELSE [d EXCEPT !.buffer[d.write] = e, !.write = Follow(d.write)]

\* Mutant of HandleExtended: the code after a prefix is an ordinary code.
HandleExtendedShift(d, code) ==
    CASE code = "Arrow"   -> Push(d, Event("Arrow", FALSE))
      [] code \in Downs   -> [d EXCEPT !.shift = TRUE]
      [] code \in Ups     -> [d EXCEPT !.shift = FALSE]
      [] OTHER            -> d

\* handle_extended_scancode
HandleExtended(d, code) ==
    IF code = "Arrow" THEN Push(d, Event("Arrow", FALSE)) ELSE d

\* handle_scancode.  The codes of the two shift keys set and reset the same
\* flag: the release of one ends the shift of both.  Shift and caps lock change
\* even if their event is dropped.  The code of a released key that is not
\* shift means nothing.
HandleScancode(d, code) ==
    CASE code = "Prefix"    -> [d EXCEPT !.extended = TRUE]
      [] code # "Prefix" /\ d.extended ->
            HandleExtended([d EXCEPT !.extended = FALSE], code)
      [] code \in Downs /\ ~ d.extended ->
            Push([d EXCEPT !.shift = TRUE], Event("ShiftPressed", FALSE))
      [] code \in Ups /\ ~ d.extended ->
            Push([d EXCEPT !.shift = FALSE], Event("ShiftReleased", FALSE))
      [] code = "Caps" /\ ~ d.extended ->
            Push([d EXCEPT !.caps = ~ d.caps], Event("CapsLockToggled", ~ d.caps))
      [] code = "Letter" /\ ~ d.extended ->
            Push(d, Event("Char", d.shift # d.caps))
      [] OTHER -> d

\* The keyboard has codes to send (external).
Send(codes) ==
    /\ wire = <<>> /\ keys < MaxKeys
    /\ wire' = codes /\ keys' = keys + 1
    /\ UNCHANGED <<portVars, keyVars, shell, again>>

\* A shift key is pressed, or a held one repeats its code (external).
PressShift(s) ==
    /\ Send(<<Down(s)>>)
    /\ held' = held \union {s} /\ uneven' = FALSE
    /\ UNCHANGED toggled

\* A shift key is released; the other one may stay down (external).
ReleaseShift(s) ==
    /\ s \in held
    /\ Send(<<Up(s)>>)
    /\ held' = held \ {s} /\ uneven' = (held # {s})
    /\ UNCHANGED toggled

\* Caps lock is pressed (external).
PressCaps ==
    /\ Send(<<"Caps">>)
    /\ toggled' = ~ toggled
    /\ UNCHANGED <<held, uneven>>

\* Another key is pressed or released (external).
PressOther(key) ==
    /\ Send(key)
    /\ UNCHANGED <<held, uneven, toggled>>

\* The next byte reaches the data port (external).
Arrive ==
    /\ wire # <<>> /\ Len(out) < OutputSize
    /\ out' = Append(out, Head(wire)) /\ wire' = Tail(wire)
    /\ request' = TRUE
    /\ UNCHANGED <<latched, last, keyVars, shell, keyboardVars, again>>

Min2(m, n) == IF m < n THEN m ELSE n

\* What a read of the data port returns.
AtPort == IF out = <<>> THEN last ELSE Head(out)

\* The first n bytes are read.  For what remains the interrupt is requested
\* anew.
ReadBytes(n) ==
    /\ out' = SubSeq(out, n + 1, Len(out))
    /\ last' = IF n <= Len(out) /\ n > 0 THEN out[n] ELSE last

\* The modifier that a code belongs to, if any.
ModifierOf(code) ==
    IF code \in Downs \union Ups THEN {"Shift"}
    ELSE IF code = "Caps" THEN {"Caps"} ELSE {}

\* keyboard_interrupt_handler.  Interrupts are on while the shell works or
\* halts, and the interrupt ends the halt.
Interrupt ==
    /\ request
    /\ Becomes(HandleScancode(Decoder, AtPort))
    /\ ReadBytes(1) /\ request' = (Len(out) > 1)
    /\ shell' = IF shell = "halted" THEN "loop" ELSE shell
    /\ again' = IF out = <<>> THEN again \union ModifierOf(last) ELSE again
    /\ UNCHANGED deviceVars

\* Any other interrupt also ends the halt.
OtherInterrupt ==
    /\ shell = "halted" /\ shell' = "loop"
    /\ UNCHANGED <<wire, portVars, keyVars, keyboardVars, again>>

\* poll reads while the status port says that there is a byte.
PollLength == Min2(Len(out), PollLimit)

ReadPolled ==
    /\ ReadBytes(PollLength)
    /\ request' = (request /\ (latched \/ PollLength < Len(out)))

\* What poll makes of the scan codes at the data port.
Polled ==
    LET n == PollLength
        after[i \in 0 .. n] == IF i = 0 THEN Decoder
                               ELSE HandleScancode(after[i - 1], out[i])
    IN  after[n]

\* Mutant of Loop: the event is looked for before the keyboard is polled.
LoopPopsFirst ==
    /\ shell = "loop"
    /\ Becomes(IF read = write THEN Polled ELSE [Polled EXCEPT !.read = Follow(@)])
    /\ shell' = IF read = write THEN "halted" ELSE "busy"
    /\ ReadPolled
    /\ UNCHANGED <<deviceVars, again>>

\* Mutant of Loop: the event is read but not removed.
LoopPeeks ==
    /\ shell = "loop"
    /\ Becomes(Polled)
    /\ shell' = IF Polled.read = Polled.write THEN "halted" ELSE "busy"
    /\ ReadPolled
    /\ UNCHANGED <<deviceVars, again>>

\* One round of the loop of shell::run, up to enable or enable_and_hlt.
Loop ==
    /\ shell = "loop"
    /\ ReadPolled
    /\ IF Polled.read = Polled.write
       THEN Becomes(Polled) /\ shell' = "halted"
       ELSE Becomes([Polled EXCEPT !.read = Follow(@)]) /\ shell' = "busy"
    /\ UNCHANGED <<deviceVars, again>>

\* The shell is done with the event.
Handled ==
    /\ shell = "busy" /\ shell' = "loop"
    /\ UNCHANGED <<wire, portVars, keyVars, keyboardVars, again>>

Next ==
    \/ \E s \in Shifts : PressShift(s) \/ ReleaseShift(s)
    \/ PressCaps
    \/ \E key \in OtherKeys : PressOther(key)
    \/ Arrive \/ Interrupt \/ OtherInterrupt \/ Loop \/ Handled

Spec == Init /\ [][Next]_vars

\* The keyboard delivers what was typed; interrupts are taken when they are
\* on; commands end, so that the shell returns to its loop.
FairSpec == Spec /\ WF_vars(Arrive) /\ WF_vars(Interrupt) /\ WF_vars(Loop) /\ WF_vars(Handled)

-----------------------------------------------------------------------------

\* The events in the ring, oldest first, as pop_event will return them.
Contents ==
    [i \in 1 .. (IF write >= read THEN write - read ELSE BufferSize - read + write) |->
        buffer[(read + i - 1) % BufferSize]]

\* The shell halts only when no event waits in the ring: no key sits there
\* until the next interrupt comes along, whatever arrives while the loop
\* decides to halt.
NoEventAsleep == shell = "halted" => read = write

\* Once every byte is decoded, the decoder agrees with the keyboard, whatever
\* keys of the extended block came between, whatever events were dropped and
\* whatever bytes the handler read a second time:
\*   - it never takes the next code for an extended one;
\*   - caps lock is what the keyboard's codes make it, unless one of its codes
\*     was read twice;
\*   - unless a code of a shift key was read twice, shift is on exactly if a
\*     shift key is down, except that handle_scancode has one flag for two
\*     keys: when one of two held keys is released, shift goes off, until a
\*     shift key is pressed again or repeats its code.
\* Nothing is read twice if the poll of a byte withdraws its interrupt.
ModifiersFollowKeyboard ==
    /\ ~ latched => again = {}
    /\ (wire = <<>> /\ out = <<>>) =>
          /\ ~ extended
          /\ "Caps" \notin again => caps = toggled
          /\ "Shift" \notin again => shift = (held # {} /\ ~ uneven)

\* The ring is a queue: a step removes at most the oldest event, adds behind
\* the others, and never changes or loses what is between.
Fifo ==
    [][ \E taken \in 0 .. 1 :
          /\ taken <= Len(Contents)
          /\ \E more \in 0 .. BufferSize :
                /\ Len(Contents') = Len(Contents) + more - taken
                /\ \A i \in 1 .. Len(Contents) - taken :
                      Contents'[i] = Contents[i + taken] ]_vars

\* Everything typed is decoded and taken by the shell in the end: neither
\* the poll limit nor a full ring makes the loop stop short.
EverythingTaken ==
    (wire # <<>> \/ out # <<>> \/ read # write)
        ~> (wire = <<>> /\ out = <<>> /\ read = write)
=============================================================================
