---------------------------- MODULE MCProcesses ----------------------------
(***************************************************************************)
(* Instances of Processes for TLC.                                         *)
(***************************************************************************)
EXTENDS Processes

\* One terminal, or all three function keys pressed at any moment of a read.
OneTerminal  == {1}
AllTerminals == {1, 2, 3}

\* The least status, one above and one below the sign bit of a byte.
SomeStatuses == {0, 200}
=============================================================================
