----------------------------- MODULE LineEditor -----------------------------
(***************************************************************************)
(* What the keyboard promises of the lines being typed: every terminal has *)
(* one, the user edits only the displayed one and only at its end, and it  *)
(* never grows past what leaves room for the newline.  A reader may blank  *)
(* characters of a line (read_terminal zeroes the buffer it has read), but *)
(* adds none and takes none away.                                          *)
(***************************************************************************)
EXTENDS Integers, Sequences

CONSTANTS
  Chars,      \* the characters that can be typed
  Blank,      \* the one that is left of a character blanked out
  MaxLength   \* the characters a line has room for

VARIABLES
  shown,      \* the displayed terminal
  line        \* per terminal, the line typed and not yet entered

editor == <<shown, line>>

Init == shown = 1 /\ line = [t \in 1..3 |-> <<>>]

Type(c) ==
  /\ Len(line[shown]) < MaxLength
  /\ line' = [line EXCEPT ![shown] = Append(@, c)]
  /\ UNCHANGED shown

Erase ==
  /\ line[shown] # <<>>
  /\ line' = [line EXCEPT ![shown] = SubSeq(@, 1, Len(@) - 1)]
  /\ UNCHANGED shown

Enter == line' = [line EXCEPT ![shown] = <<>>] /\ UNCHANGED shown

Show(t) == shown' = t /\ UNCHANGED line

BlankOut(t, i) ==
  /\ i \in 1..Len(line[t])
  /\ line' = [line EXCEPT ![t][i] = Blank]
  /\ UNCHANGED shown

Next ==
  \/ \E c \in Chars : Type(c)
  \/ Erase
  \/ Enter
  \/ \E t \in 1..3 : Show(t)
  \/ \E t \in 1..3, i \in 1..MaxLength : BlankOut(t, i)

Spec == Init /\ [][Next]_editor
=============================================================================
