------------------------------ MODULE Terminal ------------------------------
(***************************************************************************)
(* shell::run with the screen: the line editor of Shell and the writer of  *)
(* Console, with the timer interrupt that blinks the cursor between any    *)
(* two calls of the writer (each call runs with interrupts off).           *)
(*                                                                         *)
(* The loop takes a key event from the ring, enables interrupts and then   *)
(* handles it: two steps.  Tab is the key of the blank; keys that do       *)
(* nothing here (shift, caps lock, bytes that are not printable) are left  *)
(* out.  A key that changes the line renders it again at once; Enter       *)
(* writes a newline, runs the command, which writes bytes one call at a    *)
(* time or shows the splash screen (`clear'), and starts a new prompt.     *)
(***************************************************************************)
EXTENDS Shell, Console

CONSTANT Output        \* bytes that commands write

\* The longest line fits on the console (512 bytes, 72 to a row, 16 rows), and
\* no byte looks like the cursor, whose color is its own.
ASSUME TerminalAssumption ==
    /\ InputSize \div InputColumns <= Bottom - Top
    /\ Cursor \notin Bytes \cup Output \cup {Space}

VARIABLES con,         \* WRITER
          mode,        \* "edit", "run" while a command runs, "halted"
          key          \* the key event that the loop has taken, or NoKey

allVars == <<vars, con, mode, key>>

Key(kind) == [kind |-> kind, byte |-> Blank]
NoKey == Key("None")

\* KeyEvent
Keys == [kind : {"Char"}, byte : Bytes] \union
        {Key(kind) : kind \in {"Enter", "Escape", "Backspace", "Left", "Right", "Up", "Down"}}

TerminalInit ==
    /\ Init
    /\ con = StartPrompt(Booted)
    /\ mode = "edit" /\ key = NoKey

\* pop_key_event returns an event, and interrupts are enabled.
TakeKey ==
    /\ mode = "edit" /\ key = NoKey
    /\ key' \in Keys
    /\ UNCHANGED <<vars, con, mode>>

\* The branch of the key in which the line changes.
Changes(k) ==
    \/ k.kind = "Char" /\ Insert(k.byte)
    \/ k.kind = "Backspace" /\ Backspace
    \/ k.kind = "Escape" /\ Escape
    \/ k.kind = "Left" /\ ArrowLeft
    \/ k.kind = "Right" /\ ArrowRight
    \/ k.kind = "Up" /\ ArrowUp
    \/ k.kind = "Down" /\ ArrowDown

\* The key has nothing to do: no room, nothing on that side of the cursor, no
\* entry.
Idle(k) ==
    \/ k.kind = "Char" /\ len >= InputSize
    \/ k.kind = "Backspace" /\ (cursor = 0 \/ len = 0)
    \/ k.kind = "Left" /\ cursor = 0
    \/ k.kind = "Right" /\ cursor >= len
    \/ k.kind = "Up" /\ selected = None /\ history = <<>>
    \/ k.kind = "Down" /\ selected = None

\* A key after which the loop calls render_input_with_cursor.
Edit ==
    /\ mode = "edit"
    /\ Changes(key) /\ con' = RenderInput(con, Line', cursor')
    /\ key' = NoKey /\ mode' = mode

\* A key that the loop has no use for.
Ignore ==
    /\ mode = "edit"
    /\ Idle(key) /\ key' = NoKey
    /\ UNCHANGED <<vars, con, mode>>

\* KeyEvent::Enter up to the command: the newline and history.push.
PressEnter ==
    /\ mode = "edit" /\ key.kind = "Enter" /\ key' = NoKey
    /\ con' = WriteByte(con, Newline)
    /\ history' = Remembered(Line)
    /\ mode' = "run"
    /\ UNCHANGED <<input, len, cursor, selected>>

\* A byte that the command writes.
CommandWrites ==
    /\ mode = "run"
    /\ \E byte \in Output \cup {Newline} : con' = WriteByte(con, byte)
    /\ UNCHANGED <<vars, mode, key>>

\* command_clear
CommandClears ==
    /\ mode = "run"
    /\ con' = ShowSplash(con)
    /\ UNCHANGED <<vars, mode, key>>

\* The command returns: the rest of the Enter branch.
CommandEnds ==
    /\ mode = "run"
    /\ Clear
    /\ con' = StartPrompt(con)
    /\ mode' = "edit"
    /\ UNCHANGED <<input, history, key>>

\* timer_interrupt_handler, as far as it touches the screen.
Timer ==
    /\ mode # "halted"
    /\ con' = ToggleCursor(con)
    /\ UNCHANGED <<vars, mode, key>>

\* Interrupts are off, the screen is drawn over, and the processor halts.
Halt ==
    /\ mode # "halted"
    /\ con' = ShowPanicScreen(con)
    /\ mode' = "halted"
    /\ UNCHANGED <<vars, key>>

\* The panic handler.
Panic == Halt

\* exception_dispatch_handler for an exception in kernel mode.
KernelException == Halt

TerminalNext ==
    \/ TakeKey \/ Edit \/ Ignore \/ PressEnter \/ CommandWrites \/ CommandClears \/ CommandEnds
    \/ Timer \/ Panic \/ KernelException

TerminalSpec == TerminalInit /\ [][TerminalNext]_allVars

-----------------------------------------------------------------------------
\* The screen without the blinking cursor.
Shown == HideCursor(con).cell

\* What the user edits is what the screen shows: while a line is edited, the
\* rows from input_row on hold the line behind prompts and nothing else, the
\* writer stands at the place of the editor's cursor, and all of it is inside
\* the console, also after the input has grown past the last row.
InputShown ==
    mode = "edit" =>
        LET place(i) == <<con.inputRow + (i - 1) \div InputColumns,
                          Left + 2 + ((i - 1) % InputColumns)>>
            rows == con.inputRow .. con.inputRow + len \div InputColumns
        IN /\ rows \subseteq Top .. Bottom
           /\ \A i \in 1 .. len : Shown[place(i)] = input[i]
           /\ <<con.row, con.column>> = place(cursor + 1)
           /\ \A p \in Area : p[1] >= con.inputRow =>
                 IF p[2] < Left + 2 THEN Shown[p] = (IF p[1] \in rows THEN Prompt ELSE Space)
                 ELSE (\A i \in 1 .. len : p # place(i)) => Shown[p] = Space

\* The cursor is in one cell, the writer's own, while it is visible and
\* nowhere else, whatever the writer did since the timer has shown it; and the
\* frame around the console is never drawn over but by the panic screen.
ScreenIntact ==
    /\ \A p \in Cells :
          con.cell[p] = Cursor <=> con.visible /\ p = <<con.row, con.column>>
    /\ con.saved # Cursor
    /\ mode # "halted" =>
          /\ <<con.row, con.column>> \in Area
          /\ \A p \in Cells \ Area : con.cell[p] = Frame

\* The editor of Shell under the terminal: the history and the selection.
EditorSound ==
    /\ HistoryClean
    /\ mode = "edit" => SelectionIsShown

\* The input array with its shifting loops, and the history with its index, are
\* a text with a cursor and a history: every key that was taken has its effect
\* on the text once, with the byte that was typed; no byte is lost, doubled or
\* brought back from behind the end; an arrow recalls the entry next to the one
\* shown; Enter remembers the line that was edited, and nothing else changes
\* the text.
Editor == INSTANCE TextLine WITH
            MaxLength <- InputSize, MaxEntries <- HistorySize,
            left  <- SubSeq(Line, 1, cursor),
            right <- SubSeq(Line, cursor + 1, len),
            entries <- history,
            back <- IF mode = "edit" /\ selected # None THEN Len(history) + 1 - selected ELSE 0
EditsAText == Editor!Spec
=============================================================================
