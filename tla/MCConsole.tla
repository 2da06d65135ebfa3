----------------------------- MODULE MCConsole ------------------------------
(***************************************************************************)
(* Instances of Console for TLC: a screen of two rows of two characters,   *)
(* where every third character wraps and every fifth scrolls, under an     *)
(* input line of up to three.                                              *)
(***************************************************************************)
EXTENDS Console

\* Every key but tab and those that switch terminals.
EditKeys == {"l", "enter", "backspace", "caps", "shift", "crtl"}

OneLetter == {"l"}
OneSize == {1}
SomeOutput == {Space, Newline, Nul}
=============================================================================
