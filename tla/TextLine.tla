------------------------------ MODULE TextLine ------------------------------
(***************************************************************************)
(* What a line editor with a history promises.  A text of bounded length   *)
(* has a cursor between what is left of it and what is right of it.  A key *)
(* is taken while a line is edited, and then it has its effect, once: a    *)
(* byte goes in at the cursor if there is room, the keys that erase, move, *)
(* clear and recall do just that, and Enter ends the line.  Its text goes  *)
(* into the history without the blanks around it, if it is not empty and   *)
(* not the newest entry already.                                           *)
(***************************************************************************)
EXTENDS Integers, Sequences

CONSTANTS Bytes, Blank, MaxLength, MaxEntries

VARIABLES key,         \* the key that was taken, NoKey if its effect is done
          left, right,
          entries,     \* the history, oldest first
          back,        \* the number of entries that the user has gone back
          mode         \* "edit", "run" after Enter, "halted"

vars == <<key, left, right, entries, back, mode>>

Key(kind) == [kind |-> kind, byte |-> Blank]
NoKey == Key("None")

Keys == [kind : {"Char"}, byte : Bytes] \union
        {Key(kind) : kind \in {"Enter", "Escape", "Backspace", "Left", "Right", "Up", "Down"}}

Init ==
    /\ key = NoKey
    /\ left = <<>> /\ right = <<>> /\ entries = <<>>
    /\ back = 0 /\ mode = "edit"

Take(k) ==
    /\ mode = "edit" /\ key = NoKey /\ key' = k
    /\ UNCHANGED <<left, right, entries, back, mode>>

-----------------------------------------------------------------------------

\* The text becomes l followed by r, after the user went n entries back.
Becomes(l, r, n) == left' = l /\ right' = r /\ back' = n

Same == Becomes(left, right, back)

\* The n-th newest entry, or an empty line.
Recall(n) == Becomes(IF n = 0 THEN <<>> ELSE entries[Len(entries) + 1 - n], <<>>, n)

Most == SubSeq(left, 1, Len(left) - 1)

Effect ==
    \/ /\ key.kind = "Char"
       /\ IF Len(left) + Len(right) < MaxLength
          THEN Becomes(Append(left, key.byte), right, 0) ELSE Same
    \/ /\ key.kind = "Backspace"
       /\ IF left # <<>> THEN Becomes(Most, right, 0) ELSE Same
    \/ /\ key.kind = "Left"
       /\ IF left # <<>> THEN Becomes(Most, <<left[Len(left)]>> \o right, back) ELSE Same
    \/ /\ key.kind = "Right"
       /\ IF right # <<>> THEN Becomes(Append(left, Head(right)), Tail(right), back) ELSE Same
    \/ /\ key.kind = "Escape"
       /\ Becomes(<<>>, <<>>, 0)
    \/ /\ key.kind = "Up"
       /\ IF entries = <<>> THEN Same
          ELSE Recall(IF back < Len(entries) THEN back + 1 ELSE back)
    \/ /\ key.kind = "Down"
       /\ IF back = 0 THEN Same ELSE Recall(back - 1)

Handle ==
    /\ mode = "edit" /\ Effect /\ key' = NoKey
    /\ UNCHANGED <<entries, mode>>

\* The bytes from a + 1 to b are the text without the blanks around it.
Stripped(text, a, b) ==
    /\ a <= b
    /\ \A i \in 1 .. Len(text) : i <= a \/ i > b => text[i] = Blank
    /\ a < b => text[a + 1] # Blank /\ text[b] # Blank

\* The history after a line t.
With(t) ==
    IF t = <<>> \/ (entries # <<>> /\ entries[Len(entries)] = t) THEN entries
    ELSE IF Len(entries) < MaxEntries THEN Append(entries, t) ELSE Append(Tail(entries), t)

Enter ==
    /\ mode = "edit" /\ key.kind = "Enter" /\ key' = NoKey
    /\ LET text == left \o right
       IN  \E a, b \in 0 .. Len(text) :
              Stripped(text, a, b) /\ entries' = With(SubSeq(text, a + 1, b))
    /\ mode' = "run" /\ back' = 0
    /\ UNCHANGED <<left, right>>

\* A new line.
Begin ==
    /\ mode = "run" /\ mode' = "edit"
    /\ left' = <<>> /\ right' = <<>>
    /\ UNCHANGED <<key, entries, back>>

Stop ==
    /\ mode # "halted" /\ mode' = "halted"
    /\ back' = 0
    /\ UNCHANGED <<key, left, right, entries>>

Next == (\E k \in Keys : Take(k)) \/ Handle \/ Enter \/ Begin \/ Stop

Spec == Init /\ [][Next]_vars
=============================================================================
