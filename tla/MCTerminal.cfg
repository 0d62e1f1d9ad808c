\* Lines of up to three bytes, two to a row, on a console of two rows: a line
\* takes one row or two, and the second one may be made by scrolling.  A
\* history of two entries, so that the oldest is pushed out.
CONSTANTS
    InputSize = 3
    HistorySize = 2
    Blank = blank
    Letters = {a}
    Space = blank
    Output = {o}
    Top = 1
    Bottom = 2
    Left = 1
    Right = 4
SPECIFICATION TerminalSpec
CHECK_DEADLOCK FALSE
INVARIANTS
    InputShown
    ScreenIntact
    EditorSound
PROPERTIES
    EditsAText
