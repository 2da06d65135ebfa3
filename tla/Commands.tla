------------------------------ MODULE Commands ------------------------------
(***************************************************************************)
(* Command lines: what the shell makes of a line it has read, what execute *)
(* makes of the command, and what getargs hands to the program.            *)
(*                                                                         *)
(* A command is a sequence of characters that goes on behind its end, with *)
(* whatever lies in the caller's memory.                                   *)
(***************************************************************************)
EXTENDS Integers, Sequences, FiniteSetsExt

CONSTANTS
  MAX_FILENAME,   \* 32 in the code
  ARGLENGTH,      \* 128
  Exit            \* the characters of "exit"

ASSUME CommandsAssumption ==
  /\ {MAX_FILENAME, ARGLENGTH} \subseteq Nat \ {0}
  /\ Exit \in Seq(STRING)

Space   == " "
Newline == "\n"
Nul     == "nul"

\* The least index of a set, or where a loop that finds none ends.
First(indexes, otherwise) == IF indexes = {} THEN otherwise ELSE Min(indexes)

\* The string at the beginning of some memory.
CString(s) == SubSeq(s, 1, First({k \in DOMAIN s : s[k] = Nul}, Len(s) + 1) - 1)

-----------------------------------------------------------------------------
\* execute.  A zero does not end the loop that looks for the end of the name.
NameEnd(command) ==
  First({k \in 1..MAX_FILENAME : command[k] \in {Space, Newline}}, MAX_FILENAME + 1)

FileName(command) == CString(SubSeq(command, 1, NameEnd(command) - 1))

\* strncmp(exit_check, file_name, EXIT_SIZE) compares a prefix.
IsExit(command) ==
  /\ Len(FileName(command)) >= Len(Exit)
  /\ SubSeq(FileName(command), 1, Len(Exit)) = Exit

\* Mutant: the blanks between the name and the argument are not skipped.
ArgsAtOnce(command) == NameEnd(command) + 1

ArgsBegin(command) ==
  Min({k \in NameEnd(command)..Len(command) : command[k] # Space})

\* Only the first word is taken.
Args(command) ==
  LET begin == ArgsBegin(command)
      end   == Min({k \in begin..Len(command) :
                      \/ k = begin + ARGLENGTH
                      \/ command[k] \in {Space, Nul, Newline}})
  IN  SubSeq(command, begin, end - 1)

-----------------------------------------------------------------------------
\* The shell's buffer after a read of line: a newline is taken off only in the
\* last place, and a zero put behind; then comes what the stack holds.
Typed(line) ==
  IF line # <<>> /\ line[Len(line)] = Newline
    THEN SubSeq(line, 1, Len(line) - 1) ELSE line

Command(line, behind) == Typed(line) \o <<Nul>> \o behind
=============================================================================
