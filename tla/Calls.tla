------------------------------- MODULE Calls --------------------------------
(***************************************************************************)
(* The system calls on descriptors as a program meets them: their tests of *)
(* the arguments, the table a descriptor dispatches through, and what the  *)
(* terminal, the clock, the directory and files answer.  A call is an      *)
(* action that leaves its answer in ret and the bytes it stored in got.    *)
(***************************************************************************)
EXTENDS Commands, SequencesExt

CONSTANTS
  Images,    \* file systems: sequences of entries [name, kind, run, data]
  Lines,     \* what a read of the keyboard may give, the zeros included
  LastFd     \* MAX_VALID_FD, 7

VARIABLES
  disk,        \* the file system
  fd_arr,      \* the descriptors of the running program
  dir_count,   \* the entries the directory has given
  out,         \* what the program has shown
  ret, got

kernel == <<disk, fd_arr, dir_count, out, ret, got>>

Fds    == 0..LastFd
Closed == [kind |-> "closed", entry |-> 0, pos |-> 0]
Std    == [kind |-> "std", entry |-> 0, pos |-> 0]

\* The descriptors execute gives a program.
Started == [d \in Fds |-> IF d < 2 THEN Std ELSE Closed]

\* read_dentry_by_name: an entry of that name.
Entries(name) == {e \in DOMAIN disk : disk[e].name = name}

Answer(value) == ret' = value
Quiet == UNCHANGED <<disk, dir_count, out>>
Fails == Answer(-1) /\ Quiet /\ UNCHANGED <<fd_arr, got>>

\* A descriptor read and write go on with.
Usable(d) == d \in Fds /\ fd_arr[d].kind # "closed"

\* Mutant: the last descriptor is not given away.
FreeButLast == {d \in 2..LastFd - 1 : fd_arr[d].kind = "closed"}

Free == {d \in 2..LastFd : fd_arr[d].kind = "closed"}

Open(name) ==
  IF name = <<>> \/ Entries(name) = {} \/ Free = {} THEN Fails
  ELSE LET e == Min(Entries(name))
       IN  /\ fd_arr' = [fd_arr EXCEPT ![Min(Free)] =
                           [kind |-> disk[e].kind, entry |-> e, pos |-> 0]]
           /\ Answer(Min(Free))
           /\ Quiet /\ UNCHANGED got

Close(d) ==
  IF d \in 2..LastFd /\ Usable(d)
    THEN fd_arr' = [fd_arr EXCEPT ![d] = Closed] /\ Answer(0) /\ Quiet /\ UNCHANGED got
    ELSE Fails

-----------------------------------------------------------------------------
Least(a, b) == IF a < b THEN a ELSE b

Give(bytes) == got' = bytes /\ Answer(Len(bytes))

ReadTerminal(n) ==
  /\ \E line \in Lines : Give(SubSeq(line, 1, Least(n, Len(line))))
  /\ Quiet /\ UNCHANGED fd_arr

\* rtc_read stores nothing.
ReadClock == Answer(0) /\ Quiet /\ UNCHANGED <<fd_arr, got>>

\* Mutant: the counter is not set back at the end.
RewoundNot == UNCHANGED dir_count

\* The counter after the last entry.
Rewound == dir_count' = 0

ReadDirectory ==
  /\ IF dir_count >= Len(disk)
       THEN Rewound /\ Answer(0) /\ UNCHANGED got
       ELSE dir_count' = dir_count + 1 /\ Give(disk[dir_count + 1].name)
  /\ UNCHANGED <<disk, fd_arr, out>>

\* Mutant: the position stays where it is.
MovedNot(pos, n) == pos

\* The position after n bytes.
Moved(pos, n) == pos + n

\* file_read: the bytes that follow, as many as asked for or are left.
ReadFile(d, n) ==
  LET data == disk[fd_arr[d].entry].data
      pos  == fd_arr[d].pos
  IN  /\ Give(SubSeq(data, pos + 1, Least(pos + n, Len(data))))
      /\ fd_arr' = [fd_arr EXCEPT ![d].pos = Moved(pos, Len(got'))]
      /\ Quiet

Read(d, n) ==
  IF ~Usable(d) \/ d = 1 THEN Fails
  ELSE CASE fd_arr[d].kind = "std"  -> ReadTerminal(n)
         [] fd_arr[d].kind = "rtc"  -> ReadClock
         [] fd_arr[d].kind = "dir"  -> ReadDirectory
         [] fd_arr[d].kind = "file" -> ReadFile(d, n)
         [] OTHER -> Fails

\* What write_terminal shows of some bytes: putc shows nothing for a zero.
Visible(bytes) ==
  FlattenSeq([k \in DOMAIN bytes |-> IF bytes[k] = Nul THEN <<>> ELSE <<bytes[k]>>])

WriteTerminal(bytes) ==
  /\ out' = out \o Visible(bytes)
  /\ Answer(Len(bytes))
  /\ UNCHANGED <<disk, fd_arr, dir_count, got>>

\* rtc_write takes four bytes, if they are a frequency it has.
WriteClock(bytes) ==
  \/ Fails
  \/ Len(bytes) = 4 /\ Answer(0) /\ Quiet /\ UNCHANGED <<fd_arr, got>>

\* Files and the directory are never written.
Write(d, bytes) ==
  IF ~Usable(d) \/ d = 0 THEN Fails
  ELSE CASE fd_arr[d].kind = "std" -> WriteTerminal(bytes)
         [] fd_arr[d].kind = "rtc" -> WriteClock(bytes)
         [] OTHER -> Fails

USER_TOP == 134217728
USER_ESP == 138412028

\* The test vidmap makes, and the one of system_linkage.
Vidmap(pointer) ==
  IF pointer = 0 \/ pointer < USER_TOP \/ pointer > USER_ESP + 4 THEN Fails
  ELSE Answer(0) /\ Quiet /\ UNCHANGED <<fd_arr, got>>

\* A number that names no call.
NoCall(number) == number \notin 1..8 /\ Fails
=============================================================================
