------------------------------- MODULE Screen -------------------------------
(***************************************************************************)
(* What a console promises to those who write to it: a screen of rows and  *)
(* columns, a place for the next character, line feeds that push the text  *)
(* up, and the escape sequences that out_char and parse_escape know.  Where *)
(* the text lies in the video memory is no concern here; Console           *)
(* implements this module.                                                 *)
(***************************************************************************)
EXTENDS Integers, Sequences, SequencesExt

CONSTANTS
    WIDTH, LINES,  \* screen_width, screen_lines
    TAB,           \* TAB_SIZE
    Letter,        \* the characters that are shown
    Blank,         \* what an empty place shows
    Text           \* what is written at once

VARIABLES
    text,          \* what every place shows
    row, column,   \* where the next character goes
    escape         \* "no", or how far an escape sequence has come

Row == 0 .. LINES - 1
Column == 0 .. WIDTH - 1
BlankRow == [x \in Column |-> Blank]

Fed(s) ==
    IF s.row = LINES - 1
    THEN [s EXCEPT !.text = [y \in Row |-> IF y = LINES - 1 THEN BlankRow ELSE @[y + 1]]]
    ELSE [s EXCEPT !.row = @ + 1]

Lettered(s, ch) ==
    LET at == IF s.column = WIDTH THEN [Fed(s) EXCEPT !.column = 0] ELSE s IN
    [at EXCEPT !.text[at.row][at.column] = ch, !.column = @ + 1]

BackedUp(s) ==
    CASE s.column > 0                -> [s EXCEPT !.column = @ - 1]
      [] s.column = 0 /\ s.row > 0   -> [s EXCEPT !.row = @ - 1, !.column = WIDTH - 1]
      [] OTHER                       -> s

Tabbed(s) ==
    LET to == (s.column \div TAB + 1) * TAB IN
    IF to > WIDTH THEN [Fed(s) EXCEPT !.column = to - WIDTH] ELSE [s EXCEPT !.column = to]

Shown(s, ch) ==
    CASE s.escape = "ESC"  -> [s EXCEPT !.escape = IF ch = "[" THEN "ESC [" ELSE "no",
                                        !.row = IF ch = "M" /\ @ > 0 THEN @ - 1 ELSE @]
      [] s.escape = "ESC [" -> s
      [] s.escape = "no" /\ ch = "NL"  -> [Fed(s) EXCEPT !.column = 0]
      [] s.escape = "no" /\ ch = "CR"  -> [s EXCEPT !.column = 0]
      [] s.escape = "no" /\ ch = "BS"  -> BackedUp(s)
      [] s.escape = "no" /\ ch = "TAB"  -> Tabbed(s)
      [] s.escape = "no" /\ ch = "ESC" -> [s EXCEPT !.escape = "ESC"]
      [] OTHER                         -> Lettered(s, ch)

------------------------------------------------------------------------------

Here == [text |-> text, row |-> row, column |-> column, escape |-> escape]

Becomes(s) ==
    text' = s.text /\ row' = s.row /\ column' = s.column /\ escape' = s.escape

Init ==
    /\ text = [y \in Row |-> BlankRow]
    /\ row = 0 /\ column = 0 /\ escape = "no"

(* ESC M in the first row, at the end of a text, asks for what is shown to *)
(* be pushed down.                                                         *)
Before(t) == FoldLeft(Shown, Here, Front(t))
PushesDown(t) == Last(t) = "M" /\ Before(t).escape = "ESC" /\ Before(t).row = 0

Write(t) ==
    /\ ~PushesDown(t)
    /\ Becomes(FoldLeft(Shown, Here, t))

(* All that is promised then is an empty first row.                        *)
ReverseFeed(t) ==
    /\ PushesDown(t)
    /\ text'[0] = BlankRow
    /\ row' = 0 /\ column' = Before(t).column /\ escape' = "no"

(* By the key F5 or by a blue screen.                                      *)
Clear ==
    /\ text' = [y \in Row |-> BlankRow]
    /\ row' = 0 /\ column' = 0
    /\ UNCHANGED escape

Next ==
    \/ \E t \in Text : Write(t) \/ ReverseFeed(t)
    \/ Clear

Spec == Init /\ [][Next]_<<text, row, column, escape>>
=============================================================================
