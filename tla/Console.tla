------------------------------ MODULE Console ------------------------------
(***************************************************************************)
(* The writer of the text screen, src/vga.rs, as operators on a record     *)
(* `con' with its fields: the cells of the screen, row, column, input_row, *)
(* cursor_visible and cursor_saved.                                        *)
(*                                                                         *)
(* A cell holds the byte it shows; the blinking cursor has a color that no *)
(* other cell has, so it is a value of its own, Cursor.  The frame around  *)
(* the console area is drawn by show_splash.  Only printable bytes and the *)
(* newline are written: the shell writes no other.                         *)
(***************************************************************************)
EXTENDS Integers, Sequences

CONSTANTS Top, Bottom,     \* CONSOLE_TOP, CONSOLE_BOTTOM
          Left, Right,     \* CONSOLE_LEFT, CONSOLE_RIGHT
          Space            \* the blank cell

ASSUME ConsoleAssumption ==
    /\ {Top, Bottom, Left, Right} \subseteq Nat \ {0}
    /\ Top <= Bottom /\ Left + 2 <= Right

Newline == "newline"
Cursor == "cursor"
Prompt == "prompt"
Frame == "frame"

InputColumns == (Right - Left + 1) - 2      \* INPUT_COLUMNS_PER_ROW

Area == (Top .. Bottom) \X (Left .. Right)
Cells == (0 .. Bottom + 1) \X (0 .. Right + 1)

\* hide_cursor
HideCursor(con) ==
    IF ~ con.visible THEN con
    ELSE [con EXCEPT !.cell[<<con.row, con.column>>] = con.saved, !.visible = FALSE]

\* show_cursor
ShowCursor(con) ==
    [con EXCEPT !.saved = con.cell[<<con.row, con.column>>],
                !.cell[<<con.row, con.column>>] = Cursor,
                !.visible = TRUE]

\* toggle_cursor, called by every timer interrupt
ToggleCursor(con) == IF con.visible THEN HideCursor(con) ELSE ShowCursor(con)

\* clear_console_row for the rows from `row' to the bottom.
ClearRows(con, row) ==
    [con EXCEPT !.cell = [p \in Cells |-> IF p \in Area /\ p[1] >= row THEN Space ELSE @[p]]]

\* scroll_console_up
ScrollConsoleUp(con) ==
    LET h == HideCursor(con)
    IN [ClearRows([h EXCEPT !.cell = [p \in Cells |->
                                         IF p \in Area /\ p[1] < Bottom
                                         THEN @[<<p[1] + 1, p[2]>>] ELSE @[p]]],
                  Bottom)
        EXCEPT !.row = Bottom, !.column = Left]

\* new_line; the callers have hidden the cursor.
NewLine(con) ==
    LET c == [con EXCEPT !.column = Left]
    IN IF c.row >= Bottom THEN ScrollConsoleUp(c)
       ELSE [c EXCEPT !.row = IF @ + 1 < Top THEN Top ELSE @ + 1]

\* Writer::write_byte: a full line is ended at once.
PutByte(con, byte) ==
    LET c == [con EXCEPT !.column = IF @ < Left THEN Left ELSE @]
        d == IF c.column > Right THEN NewLine(c) ELSE c
        e == [d EXCEPT !.cell[<<d.row, d.column>>] = byte, !.column = @ + 1]
    IN IF byte = Newline THEN NewLine(con)
       ELSE IF e.column > Right THEN NewLine(e) ELSE e

\* Mutant of WriteByte: the cursor is left where it is.
WriteByteOver(con, byte) == PutByte(con, byte)

\* write_byte and, byte after byte, write_string
WriteByte(con, byte) == PutByte(HideCursor(con), byte)

\* The first loop of render_input_with_cursor: the rows that the input needs
\* are made free by scrolling.
MakeRoom(con, rows) ==
    LET over == con.inputRow + rows - 1 - Bottom
        scrolled[i \in 0 .. over] == IF i = 0 THEN con ELSE ScrollConsoleUp(scrolled[i - 1])
    IN IF over <= 0 THEN con
       ELSE [scrolled[over] EXCEPT !.inputRow = IF @ - over < Top THEN Top ELSE @ - over]

\* What the input rows show: the prompt in each, and the input behind it.
InputCells(con, text) ==
    [p \in Cells |->
        LET i == (p[1] - con.inputRow) * InputColumns + (p[2] - Left - 2) + 1
        IN IF ~ (p \in Area /\ p[1] \in con.inputRow .. con.inputRow + Len(text) \div InputColumns)
           THEN con.cell[p]
           ELSE IF p[2] < Left + 2 THEN Prompt
           ELSE IF i <= Len(text) THEN text[i] ELSE con.cell[p]]

\* Mutant of RenderInput: the input is drawn from where it was, without room.
RenderInputInPlace(con, text, index) ==
    LET c == ClearRows(HideCursor(con), con.inputRow)
    IN [c EXCEPT !.cell = InputCells(c, text),
                 !.row = c.inputRow + index \div InputColumns,
                 !.column = Left + 2 + (index % InputColumns)]

\* render_input_with_cursor
RenderInput(con, text, index) ==
    LET room == MakeRoom(HideCursor(con), Len(text) \div InputColumns + 1)
        c == ClearRows(room, room.inputRow)
    IN [c EXCEPT !.cell = InputCells(c, text),
                 !.row = c.inputRow + index \div InputColumns,
                 !.column = Left + 2 + (index % InputColumns)]

\* start_prompt
StartPrompt(con) ==
    LET h == HideCursor(con)
        c == IF h.column # Left THEN NewLine(h) ELSE h
    IN RenderInput([c EXCEPT !.inputRow = c.row], <<>>, 0)

\* show_splash: the frame, an empty console area, the writer at its start.
ShowSplash(con) ==
    [con EXCEPT !.cell = [p \in Cells |-> IF p \in Area THEN Space ELSE Frame],
                !.row = Top, !.column = Left, !.inputRow = 0, !.visible = FALSE]

\* show_panic_screen and show_exception_screen: the whole screen is drawn over.
ShowPanicScreen(con) ==
    [con EXCEPT !.cell = [p \in Cells |-> "panic"],
                !.row = Bottom, !.column = Left, !.inputRow = 0, !.visible = FALSE]

\* The writer after show_splash in kernel_main.
Booted ==
    ShowSplash([cell |-> [p \in Cells |-> Space], row |-> 0, column |-> 0, inputRow |-> 0,
                visible |-> FALSE, saved |-> Space])
=============================================================================
