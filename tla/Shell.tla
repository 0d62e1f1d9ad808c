-------------------------------- MODULE Shell -------------------------------
(***************************************************************************)
(* The line editor and the command history of shell::run: one action for   *)
(* each key event that changes the line.  Enter, which also writes to the  *)
(* screen and runs a command, is in Terminal.                              *)
(*                                                                         *)
(* The input array is modelled with the bytes behind input_len, which the  *)
(* editor leaves where they are; an entry of the history is its text.      *)
(***************************************************************************)
EXTENDS Integers, Sequences

CONSTANTS InputSize,      \* INPUT_BUFFER_SIZE
          HistorySize,    \* HISTORY_SIZE
          Blank,          \* the space
          Letters         \* other printable bytes

ASSUME ShellAssumption ==
    /\ {InputSize, HistorySize} \subseteq Nat \ {0}
    /\ Blank \notin Letters

Bytes == Letters \cup {Blank}

None == 0

VARIABLES input,      \* the input array
          len,        \* input_len
          cursor,
          history,    \* the entries, oldest first
          selected    \* history_selected: None or the number of an entry

vars == <<input, len, cursor, history, selected>>

Init ==
    /\ input = [i \in 1 .. InputSize |-> Blank]     \* zeroed, never read
    /\ len = 0 /\ cursor = 0
    /\ history = <<>> /\ selected = None

Line == SubSeq(input, 1, len)

-----------------------------------------------------------------------------

\* trim_ascii
Trim(text) ==
    LET solid == {i \in 1 .. Len(text) : text[i] # Blank}
        first == CHOOSE i \in solid : \A j \in solid : i <= j
        final == CHOOSE i \in solid : \A j \in solid : i >= j
    IN  IF solid = {} THEN <<>> ELSE SubSeq(text, first, final)

\* Mutant of Remembered: the text is compared before it is trimmed.
RememberedUntrimmed(text) ==
    LET t == Trim(text)
        n == Len(history)
    IN  IF t = <<>> \/ (n > 0 /\ history[n] = text) THEN history
        ELSE IF n = HistorySize THEN Append(Tail(history), t)
        ELSE Append(history, t)

\* CommandHistory::push
Remembered(text) ==
    LET t == Trim(text)
        n == Len(history)
    IN  IF t = <<>> \/ (n > 0 /\ history[n] = t) THEN history
        ELSE IF n = HistorySize THEN Append(Tail(history), t)
        ELSE Append(history, t)

\* CommandHistory::load
Load(index) ==
    LET text == history[index]
    IN  /\ input' = [i \in 1 .. InputSize |-> IF i <= Len(text) THEN text[i] ELSE input[i]]
        /\ len' = Len(text) /\ cursor' = Len(text)

Clear == len' = 0 /\ cursor' = 0 /\ selected' = None

Escape == Clear /\ UNCHANGED <<input, history>>

\* Mutant of Insert: the bytes right of the cursor are copied from the left
\* end, so that the first of them fills the rest of the line.
InsertSmeared(byte) ==
    /\ len < InputSize
    /\ input' = [i \in 1 .. InputSize |->
                    IF i <= cursor \/ i > len + 1 THEN input[i]
                    ELSE IF i = cursor + 1 THEN byte
                    ELSE input[cursor + 1]]
    /\ len' = len + 1 /\ cursor' = cursor + 1
    /\ selected' = None
    /\ UNCHANGED history

\* insert_input_byte, for a printable byte and for Tab.
Insert(byte) ==
    /\ len < InputSize
    /\ input' = [i \in 1 .. InputSize |->
                    IF i <= cursor \/ i > len + 1 THEN input[i]
                    ELSE IF i = cursor + 1 THEN byte
                    ELSE input[i - 1]]
    /\ len' = len + 1 /\ cursor' = cursor + 1
    /\ selected' = None
    /\ UNCHANGED history

\* delete_previous_input_byte
Backspace ==
    /\ cursor > 0 /\ len > 0
    /\ input' = [i \in 1 .. InputSize |->
                    IF i >= cursor /\ i < len THEN input[i + 1] ELSE input[i]]
    /\ len' = len - 1 /\ cursor' = cursor - 1
    /\ selected' = None
    /\ UNCHANGED history

ArrowLeft ==
    /\ cursor > 0 /\ cursor' = cursor - 1
    /\ UNCHANGED <<input, len, history, selected>>

ArrowRight ==
    /\ cursor < len /\ cursor' = cursor + 1
    /\ UNCHANGED <<input, len, history, selected>>

\* previous_index: the newest entry at first, then older ones to the oldest.
ArrowUp ==
    /\ history # <<>>
    /\ selected' = IF selected = None THEN Len(history)
                   ELSE IF selected > 1 THEN selected - 1 ELSE selected
    /\ Load(selected')
    /\ UNCHANGED history

\* next_index: a newer entry, and from the newest to an empty line.
ArrowDown ==
    /\ selected # None
    /\ IF selected < Len(history)
       THEN selected' = selected + 1 /\ Load(selected')
       ELSE Clear /\ UNCHANGED input
    /\ UNCHANGED history

-----------------------------------------------------------------------------

\* While an entry is selected, the line is that entry: the next arrow moves
\* from what the user sees.
SelectionIsShown == selected # None => (selected <= Len(history) /\ Line = history[selected])

\* The history keeps its bound and holds no empty or padded entry and no
\* entry twice in a row.
HistoryClean ==
    /\ Len(history) <= HistorySize
    /\ \A i \in 1 .. Len(history) : history[i] # <<>> /\ Trim(history[i]) = history[i]
    /\ \A i \in 1 .. Len(history) - 1 : history[i] # history[i + 1]
=============================================================================
