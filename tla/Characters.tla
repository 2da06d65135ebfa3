----------------------------- MODULE Characters -----------------------------
(***************************************************************************)
(* The characters the keyboard produces and the screen shows.              *)
(***************************************************************************)
EXTENDS Integers

\* A character is a key and whether it stands in the second half of the table
\* normal_chars, UPPERCASEOFFSET further.
Char(key, shifted) == <<key, shifted>>

Space   == Char("space", 0)
Newline == Char("newline", 0)
Nul     == Char("nul", 0)
=============================================================================
