------------------------------ MODULE MCMemory ------------------------------
(***************************************************************************)
(* The instance of Memory for TLC.                                         *)
(***************************************************************************)
EXTENDS Memory

OneTerminal  == {1}
TwoTerminals == {1, 2}
SomeStatuses == {0, 200}

\* The first and last page of every 4MB up to 140MB, and those the tables of
\* small pages give a meaning.
SomePages ==
  {1024 * d + n : d \in 0..35, n \in {0, 183, 184, 185, 186, 187, 188, 1023}}

\* The bounds vidmap tests, and beside them.
SomePointers ==
  {0, USER_TOP - 1, USER_TOP, USER_ESP, USER_ESP + 1,
   USER_ESP + EXEC_SIZE, USER_ESP + EXEC_SIZE + 1}
=============================================================================
