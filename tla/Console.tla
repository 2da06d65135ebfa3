------------------------------ MODULE Console ------------------------------
(***************************************************************************)
(* The keyboard and the screen together: what the user sees of the keys    *)
(* typed and of the program's output, on the terminals switched between.   *)
(***************************************************************************)
EXTENDS Keyboard, Screen

\* The operations Keyboard takes as parameters are Screen's: an instance gives
\* putc, newline_keyboard, backspace_keyboard and clearscreen the values Putc,
\* NewlineKeyboard, BackspaceKeyboard and Clearscreen, and Cleared and
\* Unwritten the two screens below.
ClearedScreen == Fresh(Space)

\* What the page of a terminal holds that has never been displayed.
UnknownScreen == Fresh(Char("unknown", 0))

-----------------------------------------------------------------------------
\* What a screen is between two calls.  The cursor may be one past the margin
\* or the last row, but the row above a wrapped one exists: putc and backspace
\* write inside video memory.
ScreenOK(s) ==
  /\ s.x \in 0..NumCols
  /\ s.y \in 0..NumRows
  /\ s.newlinecheck \in {0, 1}
  /\ s.x = NumCols => s.y > 0
  /\ s.newlinecheck = 1 => s.y > 0
  /\ DOMAIN s.video = Cells

\* Every screen, displayed or saved, is one at all times.
ScreensOK == ScreenOK(screen) /\ \A t \in Terminals : ScreenOK(saved[t])

\* Some character the user may type next.
Typeable == {Char(key, 0) : key \in Letters}

\* Left of the last column, backspace takes back the character typed before it:
\* its cell is blank and the cursor on it, whatever wrapping, scrolling and
\* output led there.
EraseUndoesType ==
  screen.x < NumCols - 1 /\ screen.y < NumRows =>
    \A char \in Typeable :
      BackspaceKeyboard(Putc(screen, char)) =
        [screen EXCEPT !.video[CellOf(screen.x, screen.y)] = Space]

\* backspace_keyboard "clears previous input on screen" (lib.c:55), in every
\* column: the cell a character has been typed into no longer shows it.
BackspaceClears ==
  screen.x < NumCols /\ screen.y < NumRows =>
    \A char \in Typeable :
      BackspaceKeyboard(Putc(screen, char)).video[CellOf(screen.x, screen.y)]
        # char
=============================================================================
