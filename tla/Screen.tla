------------------------------- MODULE Screen -------------------------------
(***************************************************************************)
(* The text console of lib.c: what putc, the newline and backspace of the  *)
(* keyboard, and clearing do to the screen.  A screen is a record of the   *)
(* cursor (screen_x, screen_y), newlinecheck and the characters of video   *)
(* memory; attributes are always 7 and are left out, and so is the         *)
(* hardware cursor movingcursor sets.                                      *)
(*                                                                         *)
(* Between two calls screen_x may stand at NumCols and screen_y at         *)
(* NumRows: the character, line feed or wrap that is due there is made up  *)
(* for by the next call.                                                   *)
(***************************************************************************)
EXTENDS Integers, Characters

CONSTANTS
  NumCols,   \* NUM_COLS, 80
  NumRows    \* NUM_ROWS, 25

ASSUME ScreenAssumption ==
  /\ NumCols \in Nat \ {0, 1}
  /\ NumRows \in Nat \ {0, 1}

Cells == 0..NumCols * NumRows - 1

\* The index into video_mem putc computes; it may be out of Cells.
CellOf(x, y) == NumCols * y + x

\* A screen whose cursor is at the top left.
Fresh(char) == [x |-> 0, y |-> 0, newlinecheck |-> 0,
                video |-> [c \in Cells |-> char]]

Clearscreen(s) == Fresh(Space)

Scrollscreen(s) ==
  [s EXCEPT !.video = [c \in Cells |-> IF c + NumCols \in Cells
                                         THEN s.video[c + NumCols]
                                         ELSE Space]]

\* What putc first makes up for: the wrap at the right margin ...
Wrap(s) == IF s.x = NumCols THEN [s EXCEPT !.x = 0, !.newlinecheck = 1] ELSE s

\* Mutant: the last row is taken for one below the screen.
ScrollLate(s) ==
  IF s.y > NumRows THEN [Scrollscreen(s) EXCEPT !.y = NumRows - 1, !.x = 0]
                   ELSE s

\* ... and the line feed below the last row.
Scroll(s) ==
  IF s.y > NumRows - 1 THEN [Scrollscreen(s) EXCEPT !.y = NumRows - 1, !.x = 0]
                       ELSE s

Put(s, char) ==
  [s EXCEPT !.video[CellOf(s.x, s.y)] = char,
            !.x = @ + 1,
            !.y = @ + (s.x + 1) \div NumCols]

Putc(s, char) ==
  LET ready == Scroll(Wrap(s))
  IN  CASE char = Nul     -> ready
        [] char = Newline -> [ready EXCEPT !.y = @ + 1, !.x = 0]
        [] OTHER          -> Put(ready, char)

NewlineKeyboard(s) ==
  LET down == [s EXCEPT !.y = @ + 1, !.x = 0]
  IN  [Scroll(down) EXCEPT !.newlinecheck = 0]

\* screen_x--; putc(' ')
Blank(s) == Putc([s EXCEPT !.x = @ - 1], Space)

\* Mutant: the cursor is left behind the blank.
EraseStays(s) ==
  IF s.y # 0 \/ s.x # 0 THEN Blank(s) ELSE s

\* The second part of backspace: blank the cell before the cursor.
Erase(s) ==
  IF s.y # 0 \/ s.x # 0
    THEN LET blanked == Blank(s) IN [blanked EXCEPT !.x = @ - 1]
    ELSE s

\* At the start of a row a line was wrapped to, backspace first blanks the
\* last cell of the row before and goes there, then erases as elsewhere.
BackspaceKeyboard(s) ==
  IF s.x # 0 THEN Erase(s)
  ELSE IF s.newlinecheck = 0 THEN s
  ELSE Erase([Blank(s) EXCEPT !.x = NumCols - 1, !.y = @ - 1,
                              !.newlinecheck = 0])
=============================================================================
