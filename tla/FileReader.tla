----------------------------- MODULE FileReader -----------------------------
(***************************************************************************)
(* What open, read and close promise a program about files: every read     *)
(* answers with the bytes of the file that follow those of the descriptor's *)
(* last read, as many as asked for or as are left, and writes nothing      *)
(* after them.                                                             *)
(***************************************************************************)
EXTENDS Integers

CONSTANTS
  Fds,          \* the descriptors
  Files,        \* the files
  Length(_),    \* the bytes of a file ...
  Byte(_, _),   \* ... and which they are, counted from 0
  Size,         \* the size of the program's buffer
  Untouched     \* a place of the buffer not written

None == -1      \* in place of a file or a descriptor

VARIABLES
  opened,       \* the file a descriptor reads
  pos,          \* how much of it has been read
  request,      \* the read in progress
  answer        \* the buffer of the last read, once it has returned

reading == <<opened, pos, request, answer>>

Blank == [k \in 0..Size - 1 |-> Untouched]
Idle  == [fd |-> None, nbytes |-> 0]

Init ==
  /\ opened = [fd \in Fds |-> None] /\ pos = [fd \in Fds |-> 0]
  /\ request = Idle /\ answer = Blank

Open(fd, file) ==
  /\ request = Idle /\ opened[fd] = None
  /\ opened' = [opened EXCEPT ![fd] = file]
  /\ UNCHANGED <<pos, request, answer>>

\* close, or the end of the program that opened them.
Close(fds) ==
  /\ request = Idle
  /\ opened' = [fd \in Fds |-> IF fd \in fds THEN None ELSE opened[fd]]
  /\ pos' = [fd \in Fds |-> IF fd \in fds THEN 0 ELSE pos[fd]]
  /\ UNCHANGED <<request, answer>>

Ask(fd, nbytes) ==
  /\ request = Idle /\ opened[fd] # None
  /\ request' = [fd |-> fd, nbytes |-> nbytes]
  /\ answer' = Blank
  /\ UNCHANGED <<opened, pos>>

Answer ==
  LET fd   == request.fd
      left == Length(opened[fd]) - pos[fd]
      n    == IF request.nbytes < left THEN request.nbytes ELSE left
  IN  /\ request # Idle
      /\ answer' = [k \in 0..Size - 1 |->
                      IF k < n THEN Byte(opened[fd], pos[fd] + k) ELSE Untouched]
      /\ pos' = [pos EXCEPT ![fd] = @ + n]
      /\ request' = Idle
      /\ UNCHANGED opened

\* The program has its buffer for itself between reads.
Use == request = Idle /\ UNCHANGED <<opened, pos, request>>

Next ==
  \/ Use
  \/ \E fd \in Fds, file \in Files : Open(fd, file)
  \/ \E fds \in SUBSET Fds : Close(fds)
  \/ \E fd \in Fds, nbytes \in 0..Size : Ask(fd, nbytes)
  \/ Answer

Spec == Init /\ [][Next]_reading
=============================================================================
