----------------------------- MODULE MCKeyboard -----------------------------
(***************************************************************************)
(* Instances of Keyboard for TLC.  The handler never looks at the screen:  *)
(* a blank and a written one are enough to tell those of the terminals     *)
(* apart.                                                                  *)
(***************************************************************************)
EXTENDS Keyboard

Written(s, char) == 1
Blanked(s) == 0

OneLetter == {"a"}
NoOutput == {}

\* A size that is refused and one that is not.
SomeSizes == {-1, 1}

\* Typing spaces on two terminals.  Which character a key stores, the matter of
\* the other keys, makes no difference here.
SwitchKeys == {"space", "enter", "backspace", "alt", "F1", "F2"}
=============================================================================
