------------------------------ MODULE Console ------------------------------
(***************************************************************************)
(* The console driver (kernel/console.c): consoles that share the video    *)
(* memory, each with a part of its own, a queue of characters that flush   *)
(* brings there, and an origin that scrolling moves; and the two registers *)
(* of the controller, which say what is seen.                              *)
(*                                                                         *)
(* The adapter is an EGA or VGA: wrap is FALSE.  Colours are left out, and *)
(* so are the characters NUL (nothing), BEL (a flush and a beep) and VT    *)
(* and FF (a line feed that leaves the column alone).                      *)
(* The terminal task writes, echoes and scrolls, and printk ends with a    *)
(* flush, so that a call is one action.  What the terminal task does       *)
(* around it is in Terminal.                                               *)
(***************************************************************************)
EXTENDS Integers, Sequences, SequencesExt

CONSTANTS
    NR_CONSOLES,   \* consoles configured
    VIDEO,         \* video_size, words of video memory
    WIDTH, LINES,  \* screen_width, screen_lines
    TAB,           \* TAB_SIZE
    RAM_WORDS,     \* CONS_RAM_WORDS, words of a queue
    Letter, Blank, \* the characters that are shown, and none
    Notice,        \* what printk says when the way of scrolling changes
    Text           \* bound: for every console, what is written at once

Char == Letter \cup {"NL", "CR", "BS", "TAB", "ESC"}

ASSUME ScreenAssumption ==
    /\ {NR_CONSOLES, VIDEO, WIDTH, LINES, TAB, RAM_WORDS} \subseteq Nat \ {0}
    /\ WIDTH * LINES <= VIDEO
    /\ WIDTH <= RAM_WORDS /\ TAB <= WIDTH
    /\ Blank \notin Letter /\ {"M", "["} \subseteq Letter
    /\ \A c \in 0 .. NR_CONSOLES - 1 : Text[c] \subseteq Seq(Char) \ {<< >>}
    /\ Notice \in Seq(Char) /\ Notice # << >> /\ Notice[1] \in Letter \ {"M", "["}
    /\ \A t \in Text[0] \cup {Notice} : \A i \in DOMAIN t :  \* an ESC M is the end of a write
          t[i] = "M" /\ (i = 1 \/ t[i - 1] = "ESC") => i = Len(t)

VARIABLES
    video,            \* the video memory
    console,          \* console_table
    current,          \* curr_console
    video_org, video_cursor,   \* the controller's registers
    software_scroll,  \* how F3 has it
    overrun           \* whether a queue was written past its end

consoleVars == <<video, console, current, video_org, video_cursor, software_scroll, overrun>>

screen_size == WIDTH * LINES
chars == screen_size - WIDTH

(* screen_init: as many consoles as there is memory for.                   *)
nr_console == IF VIDEO \div screen_size > NR_CONSOLES THEN NR_CONSOLES ELSE VIDEO \div screen_size

Line == 0 .. nr_console - 1
page_size == VIDEO \div nr_console
start(c) == c * page_size
limit(c) == start(c) + page_size

ConsoleInit ==
    /\ video = [w \in 0 .. VIDEO - 1 |-> Blank]
    /\ console = [c \in Line |-> [row |-> 0, column |-> 0, queue |-> << >>, origin |-> start(c),
                                  cursor |-> start(c), escape |-> "no"]]
    /\ current = 0
    /\ video_org = 0 /\ video_cursor = 0
    /\ software_scroll = FALSE
    /\ overrun = FALSE

------------------------------------------------------------------------------
(* The routines work on s, the driver's data with the controller.          *)

Here == [video |-> video, console |-> console, org |-> video_org, at |-> video_cursor,
         current |-> current, software |-> software_scroll, overrun |-> overrun]

Becomes(s) ==
    /\ video' = s.video /\ console' = s.console /\ current' = s.current
    /\ video_org' = s.org /\ video_cursor' = s.at
    /\ software_scroll' = s.software /\ overrun' = s.overrun

(* memory2video_copy: what lies past the video memory is not there.        *)
Stored(v, words, dest) ==
    [w \in DOMAIN v |-> IF w - dest \in 0 .. Len(words) - 1 THEN words[w - dest + 1] ELSE v[w]]

(* memory2video_copy of BLANK_MEM: a whole screen, whatever the count.     *)
Blanked(v, dest) ==
    [w \in DOMAIN v |-> IF w - dest \in 0 .. screen_size - 1 THEN Blank ELSE v[w]]

(* video2video_copy goes from the first word to the last also when it      *)
(* moves them up into themselves.                                          *)
Copied(v, src, dest, count) ==
    [w \in DOMAIN v |->
        IF w - dest \notin 0 .. count - 1 THEN v[w]
        ELSE IF src < dest THEN v[src + ((w - dest) % (dest - src))] ELSE v[src + (w - dest)]]

Within(x, top) == IF x < 0 THEN 0 ELSE IF x > top THEN top ELSE x

flush(s, c) ==
    LET k == s.console[c]
        column == Within(k.column, WIDTH)
        row == Within(k.row, LINES - 1)
        cursor == k.origin + row * WIDTH + column
    IN [s EXCEPT !.video = Stored(@, k.queue, k.cursor),
                 !.console[c] = [k EXCEPT !.queue = << >>, !.row = row, !.column = column,
                                          !.cursor = cursor],
                 !.at = IF c = s.current /\ cursor # k.cursor THEN cursor ELSE @]

(* scroll_screen starts with a flush of what waits.                        *)
PendingMutant(s, c) == s
Pending(s, c) == flush(s, c)

(* Without wrap the controller cannot show what lies around the end.       *)
AtEndMutant(k, c) == k.origin + screen_size > limit(c)
AtEnd(k, c) == k.origin + screen_size + WIDTH >= limit(c)
AtStart(k, c) == k.origin < start(c) + WIDTH

(* The end of both directions: the new line is cleared and shown.          *)
Scrolled(s, c, v, origin, new_line) ==
    flush([s EXCEPT !.video = Blanked(v, new_line),
                    !.console[c].origin = origin,
                    !.org = IF c = s.current THEN origin ELSE @], c)

scroll_up(s, c) ==
    LET k == s.console[c]
        origin == CASE s.software                   -> k.origin
                    [] ~s.software /\ AtEnd(k, c)   -> start(c)
                    [] OTHER                        -> (k.origin + WIDTH) % VIDEO
        v == CASE s.software                   -> Copied(s.video, start(c) + WIDTH, start(c), chars)
               [] ~s.software /\ AtEnd(k, c)   -> Copied(s.video, k.origin + WIDTH, start(c), chars)
               [] OTHER                        -> s.video
    IN Scrolled(s, c, v, origin, (origin + chars) % VIDEO)

scroll_down(s, c) ==
    LET k == s.console[c]
        far == limit(c) - screen_size
        origin == CASE s.software                    -> k.origin
                    [] ~s.software /\ AtStart(k, c)  -> far
                    [] OTHER                         -> (k.origin - WIDTH) % VIDEO
        v == CASE s.software                    -> Copied(s.video, start(c), start(c) + WIDTH, chars)
               [] ~s.software /\ AtStart(k, c)  -> Copied(s.video, k.origin, far + WIDTH, chars)
               [] OTHER                         -> s.video
    IN Scrolled(s, c, v, origin, origin)

(* The line feed of '\n', of a tab and of a letter behind the last column. *)
LineFeed(s, c) ==
    IF s.console[c].row = LINES - 1 THEN scroll_up(Pending(s, c), c)
    ELSE [s EXCEPT !.console[c].row = @ + 1]

Queued(s, c, ch) ==
    [s EXCEPT !.console[c].queue = Append(@, ch), !.console[c].column = @ + 1,
              !.overrun = @ \/ Len(s.console[c].queue) >= RAM_WORDS]

letter(s, c, ch) ==
    LET k == s.console[c]
        wrapped == flush([LineFeed(s, c) EXCEPT !.console[c].column = 0], c)
        at == IF k.column >= WIDTH THEN wrapped ELSE s
    IN Queued(IF at.console[c].row = RAM_WORDS THEN flush(at, c) ELSE at, c, ch)

newline(s, c) == flush(LineFeed([s EXCEPT !.console[c].column = 0], c), c)

backspace(s, c) ==
    LET k == s.console[c] IN
    flush(IF k.column > 0 THEN [s EXCEPT !.console[c].column = @ - 1]
          ELSE [s EXCEPT !.console[c].row = @ - 1,
                         !.console[c].column = IF k.row > 0 THEN WIDTH - 1 ELSE -1], c)

tab(s, c) ==
    LET to == ((s.console[c].column + TAB) \div TAB) * TAB IN
    flush(IF to > WIDTH THEN LineFeed([s EXCEPT !.console[c].column = to - WIDTH], c)
          ELSE [s EXCEPT !.console[c].column = to], c)

(* do_escape knows ESC M only.                                             *)
do_escape(s, c) ==
    LET f == flush(s, c) IN
    [flush(IF f.console[c].row = 0 THEN scroll_down(Pending(f, c), c)
           ELSE [f EXCEPT !.console[c].row = @ - 1], c)
     EXCEPT !.console[c].escape = "no"]

(* After ESC [ only a digit is looked at: the tests of ; and of the last   *)
(* character are inside the test of a digit, and the sequence never ends.  *)
parse_escape(s, c, ch) ==
    LET state == s.console[c].escape IN
    CASE state = "ESC" /\ ch = "["  -> [s EXCEPT !.console[c].escape = "ESC ["]
      [] state = "ESC" /\ ch = "M"  -> do_escape(s, c)
      [] state = "ESC" /\ ch \notin {"[", "M"} -> [s EXCEPT !.console[c].escape = "no"]
      [] OTHER                      -> s

out_char(s, c, ch) ==
    CASE s.console[c].escape # "no" -> parse_escape(s, c, ch)
      [] s.console[c].escape = "no" /\ ch = "NL" -> newline(s, c)
      [] s.console[c].escape = "no" /\ ch = "BS" -> backspace(s, c)
      [] s.console[c].escape = "no" /\ ch = "CR" -> flush([s EXCEPT !.console[c].column = 0], c)
      [] s.console[c].escape = "no" /\ ch = "TAB" -> tab(s, c)
      [] s.console[c].escape = "no" /\ ch = "ESC" -> [flush(s, c) EXCEPT !.console[c].escape = "ESC"]
      [] OTHER -> letter(s, c, ch)

------------------------------------------------------------------------------
(* The entry points                                                        *)

(* write, and with one character echo; printk on the first console.        *)
Printed(s, c, t) == flush(FoldLeft(LAMBDA u, ch : out_char(u, c, ch), s, t), c)

write(c, t) == Becomes(Printed(Here, c, t))

Seen(s, c) == [s EXCEPT !.current = c, !.at = s.console[c].cursor, !.org = s.console[c].origin]

switch_to(c) == Becomes(Seen(Here, c))

(* Every screen moves to the start of its memory.  All of it but a screen  *)
(* is unused, so that one move does it.                                    *)
origin0(s, c) ==
    LET k == s.console[c] IN
    flush(IF k.origin > start(c)
          THEN [s EXCEPT !.video = Copied(@, k.origin, start(c), screen_size),
                         !.console[c].origin = start(c)]
          ELSE s, c)

console_origin0(s) ==
    FoldLeft(LAMBDA t, c : origin0(t, c - 1), s, [c \in 1 .. nr_console |-> c])

(* F3, with a notice on the first console.                                 *)
toggle_scroll ==
    Becomes(Printed([Seen(console_origin0(Here), current) EXCEPT !.software = ~@], 0, Notice))

(* Before the machine is stopped or started again.                         *)
console_stop == Becomes([Seen(console_origin0(Here), 0) EXCEPT !.software = TRUE])

Cleared(s, c) ==
    flush([s EXCEPT !.video = Blanked(@, s.console[c].origin),
                    !.console[c].row = 0, !.console[c].column = 0], c)

(* F5 clears the current console, a blue screen the first one.             *)
clear_screen == Becomes(Cleared(Here, current))

blue_screen == Becomes(Cleared(Seen(Here, 0), 0))

ConsoleNext ==
    \/ \E c \in Line : \E t \in Text[c] : write(c, t)
    \/ \E c \in Line : switch_to(c)
    \/ toggle_scroll \/ console_stop
    \/ clear_screen \/ blue_screen

ConsoleSpec == ConsoleInit /\ [][ConsoleNext]_consoleVars

------------------------------------------------------------------------------

(* Every field holds a value of its kind.                                *)
ConsoleTyped ==
    /\ video \in [0 .. VIDEO - 1 -> Letter \cup {Blank}]
    /\ current \in Line /\ software_scroll \in BOOLEAN
    /\ \A c \in Line : LET k == console[c] IN
          /\ k.row \in 0 .. LINES - 1 /\ k.column \in 0 .. WIDTH
          /\ k.escape \in {"no", "ESC", "ESC ["}
          /\ k.queue = << >>

(* No queue is ever written past its end, although out_char looks at the   *)
(* row where it means the queue (console.c:407); every screen stays within *)
(* its console's memory, however it is scrolled and whenever the way of    *)
(* scrolling changes; its cursor is where its row and column say, and the  *)
(* controller shows the current console (scroll_screen, flush, switch_to). *)
ScreensInPlace ==
    /\ ConsoleTyped
    /\ ~overrun
    /\ \A c \in Line : LET k == console[c] IN
          /\ start(c) <= k.origin /\ k.origin + screen_size <= limit(c)
          /\ software_scroll => k.origin = start(c)
          /\ k.cursor = k.origin + k.row * WIDTH + k.column
    /\ video_org = console[current].origin
    /\ video_cursor = console[current].cursor

Shows(c) == [y \in 0 .. LINES - 1 |-> [x \in 0 .. WIDTH - 1 |-> video[console[c].origin + y * WIDTH + x]]]

FirstScreen == INSTANCE Screen WITH
    Text <- Text[0] \cup {Notice}, text <- Shows(0),
    row <- console[0].row, column <- console[0].column, escape <- console[0].escape

(* The first console, which has the kernel's messages too, is a Screen:    *)
(* through queue, origin and copies every character ends up where a screen *)
(* has it, whatever the other consoles do (out_char, scroll_screen).       *)
FirstIsScreen == FirstScreen!Spec

(* Not so the others: a line that is cleared for scrolling is cleared with *)
(* a whole screen of words behind it (memory2video_copy, console.c:947),   *)
(* and those reach into the memory of the next console.                    *)
ScreensApart ==
    [][\A c \in Line \ {0} :
          (\E t \in Text[c - 1] : write(c - 1, t)) => Shows(c)' = Shows(c)]_consoleVars
=============================================================================
