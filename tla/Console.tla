------------------------------ MODULE Console ------------------------------
(***************************************************************************)
(* One console of kernel/console.c: the share of the video memory that     *)
(* out_char writes to, the part of it that the screen shows, and the loop  *)
(* in which out_char scrolls the screen back to the cursor.                *)
(*                                                                         *)
(* Addresses are rows and columns relative to con->orig.  Of the text, a   *)
(* row holds the serial number of its line of output, modulo Serials, or   *)
(* Blank when the console no longer has the line whole.                    *)
(*                                                                         *)
(* Left out: the registers that flush() writes; sys_printx, which may      *)
(* print between two instructions of the terminal task; what clear_screen  *)
(* writes beyond the last row of the console.                              *)
(***************************************************************************)
EXTENDS Integers

CONSTANTS Width, Height,    \* SCR_WIDTH and the rows of SCR_SIZE
          Lines,            \* con_size / SCR_WIDTH
          TabWidth,
          EraseLimit,       \* the longest line a process reads: what BACKSPACE can take back
          Serials           \* line numbers are counted modulo this

ASSUME ConsoleAssumption ==
    /\ Width \in Nat \ {0} /\ Height \in Nat \ {0} /\ Lines \in Nat
    /\ Height < Lines
    /\ TabWidth \in 1 .. Width
    /\ EraseLimit \in Nat /\ EraseLimit <= (Height - 1) * Width
    /\ Serials \in Nat /\ Serials > 2 * Lines

VARIABLES cursor_y, cursor_x,   \* con->cursor
          scr_top,              \* the row of con->crtc_start
          is_full,
          scrolling,            \* is out_char in its scrolling loop?
          trans_cnt,            \* what the terminal has echoed of the line that is read
          newest,               \* the serial number of the line the cursor is in
          text                  \* text[r]: the line that row r holds

\* Init, Next and Spec bear the module's name, for TerminalProofs extends Tty as well.
consoleVars == <<cursor_y, cursor_x, scr_top, is_full, scrolling, trans_cnt, newest, text>>

Row == 0 .. Lines - 1
Blank == -1

OnScreen(r, top) == r \in top .. top + Height - 1

\* init_screen: behind what the boot printed on the first console, below
\* "[TTY #n]" on the others.
ConsoleInit ==
    /\ cursor_y \in 0 .. Height - 1
    /\ cursor_x = 0
    /\ scr_top = 0
    /\ is_full = FALSE
    /\ scrolling = FALSE
    /\ trans_cnt = 0
    /\ newest = cursor_y
    /\ text = [r \in Row |-> IF r <= cursor_y THEN r ELSE Blank]
-----------------------------------------------------------------------------
\* A faulty variant: a full console is taken to end where its screen does.
ScreenUpPastTheEnd ==
    IF IF is_full THEN scr_top + Height - 1 # cursor_y ELSE cursor_y >= scr_top + Height
    THEN IF is_full /\ scr_top + Height > Lines THEN 0 ELSE scr_top + 1
    ELSE scr_top

\* A faulty variant: the row below the screen counts as shown.
ScreenUpTooLate ==
    IF IF is_full THEN scr_top + Height - 1 # cursor_y ELSE cursor_y > scr_top + Height
    THEN IF is_full /\ scr_top + Height = Lines THEN 0 ELSE scr_top + 1
    ELSE scr_top

\* scroll_screen(con, SCR_UP): where the screen starts afterwards.
ScreenUp ==
    IF IF is_full THEN scr_top + Height - 1 # cursor_y ELSE cursor_y >= scr_top + Height
    THEN IF is_full /\ scr_top + Height = Lines THEN 0 ELSE scr_top + 1
    ELSE scr_top

Oldest == IF is_full THEN (cursor_y + 1) % Lines ELSE 0

\* A faulty variant: the wrap to the end shows the last row of the console too late.
ScreenDownToLastRow ==
    IF scr_top = Oldest THEN scr_top
    ELSE IF scr_top > 0 THEN scr_top - 1
    ELSE IF is_full /\ cursor_y < Lines - Height THEN Lines - Height - 1
    ELSE scr_top

\* scroll_screen(con, SCR_DN).  The rows below the cursor of a full console hold
\* older lines than the rows above it, and follow on row 0 unless the screen at
\* the end of the console would show the cursor.
ScreenDown ==
    IF scr_top = Oldest THEN scr_top
    ELSE IF scr_top > 0 THEN scr_top - 1
    ELSE IF is_full /\ cursor_y < Lines - Height THEN Lines - Height
    ELSE scr_top

\* clear_screen(con->cursor, SCR_WIDTH) runs on into the row below.
Cleared(t, y, x) ==
    [r \in Row |-> IF r = y + 1 /\ x > 0 THEN Blank ELSE t[r]]

\* A faulty variant: the rows are taken from one line too high.
WrappedOneTooHigh(line) ==
    [r \in Row |-> IF r < Height - 1 THEN text[r + Lines - Height]
                   ELSE IF r = Height - 1 THEN line ELSE text[r]]

\* w_copy: the last rows of a console that has run out become its first.
Wrapped(line) ==
    [r \in Row |-> IF r < Height - 1 THEN text[r + Lines + 1 - Height]
                   ELSE IF r = Height - 1 THEN line ELSE text[r]]

NextLine == (newest + 1) % Serials

\* The part of out_char behind its switch, for a cursor that enters the next row.
EnterRow(x) ==
    /\ newest' = NextLine
    /\ cursor_x' = x
    /\ IF cursor_y + 1 < Lines
       THEN /\ cursor_y' = cursor_y + 1
            /\ text' = [text EXCEPT ![cursor_y + 1] = NextLine]
            /\ UNCHANGED <<scr_top, is_full>>
       ELSE /\ cursor_y' = Height - 1
            /\ text' = Cleared(Wrapped(NextLine), Height - 1, x)
            /\ scr_top' = 0
            /\ is_full' = TRUE
    /\ scrolling' = ~OnScreen(cursor_y', scr_top')

\* ... and for one that stays in its row.
StayInRow(x) ==
    /\ cursor_x' = x
    /\ scrolling' = ~OnScreen(cursor_y, scr_top)
    /\ UNCHANGED <<cursor_y, scr_top, is_full, newest, text>>

Advance(k) ==
    IF cursor_x + k < Width THEN StayInRow(cursor_x + k) ELSE EnterRow(cursor_x + k - Width)

\* A process prints a character, a newline or a tab.
PutChar == ~scrolling /\ Advance(1) /\ UNCHANGED trans_cnt
NewLine == ~scrolling /\ EnterRow(0) /\ UNCHANGED trans_cnt
Tab     == ~scrolling /\ Advance(TabWidth) /\ UNCHANGED trans_cnt

\* tty_dev_write echoes a key of the line that is read ...
Echo ==
    /\ ~scrolling /\ trans_cnt < EraseLimit
    /\ trans_cnt' = trans_cnt + 1
    /\ Advance(1)

\* ... or takes one back.
Erase ==
    /\ ~scrolling /\ trans_cnt > 0
    /\ trans_cnt' = trans_cnt - 1
    /\ IF cursor_x > 0
       THEN StayInRow(cursor_x - 1)
       ELSE IF cursor_y > 0
       THEN /\ cursor_y' = cursor_y - 1
            /\ cursor_x' = Width - 1
            /\ newest' = (newest + Serials - 1) % Serials
            /\ scrolling' = ~OnScreen(cursor_y - 1, scr_top)
            /\ text' = [text EXCEPT ![cursor_y] = Blank]
            /\ UNCHANGED <<scr_top, is_full>>
       ELSE StayInRow(cursor_x)

\* The line is complete, or a process asks for the next one.
NewRead ==
    /\ ~scrolling /\ trans_cnt > 0
    /\ trans_cnt' = 0
    /\ UNCHANGED <<cursor_y, cursor_x, scr_top, is_full, scrolling, newest, text>>

\* One turn of the while loop of out_char.
ScrollToCursor ==
    /\ scrolling
    /\ scr_top' = ScreenUp
    /\ scrolling' = ~OnScreen(cursor_y, ScreenUp)
    /\ text' = Cleared(text, cursor_y, cursor_x)
    /\ UNCHANGED <<cursor_y, cursor_x, is_full, trans_cnt, newest>>

\* The user scrolls with Shift and an arrow key.
Scroll(top) ==
    /\ ~scrolling
    /\ scr_top' = top
    /\ UNCHANGED <<cursor_y, cursor_x, is_full, scrolling, trans_cnt, newest, text>>

ScrollUp   == Scroll(ScreenUp)
ScrollDown == Scroll(ScreenDown)

ConsoleNext ==
    \/ PutChar \/ NewLine \/ Tab \/ Echo \/ Erase \/ NewRead
    \/ ScrollToCursor \/ ScrollUp \/ ScrollDown

ConsoleSpec == ConsoleInit /\ [][ConsoleNext]_consoleVars

\* The loop is plain code of whoever prints.
FairConsoleSpec == ConsoleSpec /\ WF_consoleVars(ScrollToCursor)
-----------------------------------------------------------------------------
\* The cursor and the whole screen are inside the console: the two assertions of
\* out_char, and no screen that shows the text of the next console.
InsideConsole ==
    /\ cursor_y \in Row /\ cursor_x \in 0 .. Width - 1
    /\ scr_top \in 0 .. Lines - Height
    /\ is_full \in BOOLEAN /\ scrolling \in BOOLEAN
    /\ trans_cnt \in 0 .. EraseLimit
    /\ newest \in 0 .. Serials - 1
    /\ text \in [Row -> -1 .. Serials - 1]

\* No line is lost or out of place between the first row and the cursor, whatever
\* was printed, erased or scrolled and however often the console ran out of rows.
LinesKept == \A k \in 0 .. cursor_y : text[cursor_y - k] = (newest + Serials - k) % Serials

Follows(l, m) == l # Blank /\ m # Blank => m = (l + 1) % Serials

\* Does the screen show older lines of a full console below the cursor?  It does
\* when output reaches a screen that was scrolled back to the oldest lines: the
\* loop of out_char takes any row of the screen to be a good one.
ShowsTheSeam == is_full /\ cursor_y \in scr_top .. scr_top + Height - 2

\* Unless it shows the seam, Shift and an arrow move the screen on to the next or
\* back to the previous line of the output, also where the lines run on from row 0
\* to the end of the console.
OneLineAtATime ==
    [][~ShowsTheSeam /\ scr_top' # scr_top =>
         /\ ScrollUp => Follows(text[scr_top], text[scr_top'])
         /\ ScrollDown => Follows(text[scr_top'], text[scr_top])]_consoleVars

\* out_char's loop brings the cursor back to the screen and ends.
ScrollEnds == scrolling ~> ~scrolling
=============================================================================
