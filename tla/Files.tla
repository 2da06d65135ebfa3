------------------------------- MODULE Files -------------------------------
(***************************************************************************)
(* Descriptors and the file system: open and close of system_call.c, the   *)
(* read of files and directories of file_system.c, over the boot block,    *)
(* inodes and data blocks of a file system image nothing writes to.        *)
(*                                                                         *)
(* A byte is known by its address in the image, a data block and a place   *)
(* in it.  The descriptors are those of one process, 0 and 1 apart, which  *)
(* are always the terminal's; reading the clock is the matter of Rtc.      *)
(* A call that is refused (an unknown or empty name, no free descriptor, a *)
(* closed or missing one, any write) changes nothing and is not an action. *)
(***************************************************************************)
EXTENDS Integers

CONSTANTS
  LastFd,         \* MAX_VALID_FD, 7
  BlockSize,      \* BLOCK_SIZE, 4096
  BlockNums,      \* the block numbers a uint8_t tells apart, 256
  NumDataBlocks,  \* NUM_DATA_BLOCKS, 1023
  num_dentries,
  dentries,       \* dir_ent of the boot block: name, type and inode number
  inodes,         \* per inode number: length and block_num
  Size            \* the largest nbytes a program reads

\* The types of a directory entry.
RtcType  == 0
DirType  == 1
FileType == 2

ASSUME FilesAssumption ==
  /\ {LastFd, NumDataBlocks, num_dentries, Size} \subseteq Nat
  /\ {BlockSize, BlockNums} \subseteq Nat \ {0}
  /\ DOMAIN inodes \subseteq Nat
  /\ \A f \in DOMAIN inodes :
       /\ inodes[f].length \in 0..NumDataBlocks * BlockSize
       /\ inodes[f].block_num \in [0..NumDataBlocks - 1 -> Nat]
  /\ \A e \in 0..num_dentries - 1 :
       /\ dentries[e].type \in {RtcType, DirType, FileType}
       /\ dentries[e].type = FileType => dentries[e].inode \in DOMAIN inodes

Fds       == 2..LastFd
Entries   == 0..num_dentries - 1
NoFd      == -1
Untouched == <<>>

\* fjt_ptr is told by the type; it is NULL in a closed descriptor.
Closed == [flags |-> 0, type |-> NoFd, inode |-> 0, file_pos |-> 0]

VARIABLES
  fd_arr,          \* the descriptors of curr_PCB
  dir_count,       \* the kernel's one counter of directory reads
  fd, nbytes,      \* the file read in progress: its arguments,
  bytes_read,      \* the locals of read_data
  curr_block_num, curr_block_pos,
  buf,             \* and the program's buffer
  listed,          \* history: entries read through a descriptor since its open
  given            \* history: entries read since dir_read last returned 0

vars == <<fd_arr, dir_count, fd, nbytes, bytes_read, curr_block_num,
          curr_block_pos, buf, listed, given>>

locals    == <<fd, nbytes, bytes_read, curr_block_num, curr_block_pos, buf>>
directory == <<dir_count, listed, given>>

Blank == [k \in 0..Size - 1 |-> Untouched]

Init ==
  /\ fd_arr = [d \in Fds |-> Closed]
  /\ dir_count = 0
  /\ fd = NoFd /\ nbytes = 0 /\ bytes_read = 0
  /\ curr_block_num = 0 /\ curr_block_pos = 0
  /\ buf = Blank
  /\ listed = [d \in Fds |-> {}] /\ given = {}

-----------------------------------------------------------------------------
\* The program on the CPU may make a call.
Idle == fd = NoFd

\* read_dentry_by_name returns the first entry of the name.
Found(e) ==
  \A other \in Entries : dentries[other].name = dentries[e].name => e <= other

Opened(e) ==
  [flags |-> 1, type |-> dentries[e].type, file_pos |-> 0,
   inode |-> IF dentries[e].type = FileType THEN dentries[e].inode ELSE 0]

Free(d) == fd_arr[d].flags = 0

open(e) ==
  /\ Idle
  /\ Found(e)
  /\ \E d \in Fds :
       /\ Free(d)
       /\ \A other \in Fds : Free(other) => d <= other
       /\ fd_arr' = [fd_arr EXCEPT ![d] = Opened(e)]
       /\ listed' = [listed EXCEPT ![d] = {}]
  /\ UNCHANGED <<dir_count, locals, given>>

close(d) ==
  /\ Idle
  /\ ~Free(d)
  /\ fd_arr' = [fd_arr EXCEPT ![d] = Closed]
  /\ UNCHANGED <<directory, locals>>

\* halt closes what the program left open; execute starts the next program
\* with every descriptor closed.
NextProgram ==
  /\ Idle
  /\ fd_arr' = [d \in Fds |-> Closed]
  /\ UNCHANGED <<directory, locals>>

-----------------------------------------------------------------------------
\* file_read calls read_data at the position of the descriptor.  At the end of
\* the file it returns 0 by itself, as the loop would.
file_read(d, n) ==
  LET pos == fd_arr[d].file_pos
  IN  /\ Idle
      /\ ~Free(d) /\ fd_arr[d].type = FileType
      /\ fd' = d /\ nbytes' = n /\ bytes_read' = 0
      /\ curr_block_num' = pos \div BlockSize
      /\ curr_block_pos' = pos % BlockSize
      /\ buf' = Blank
      /\ UNCHANGED <<fd_arr, directory>>

Inode == inodes[fd_arr[fd].inode]

Continues ==
  /\ bytes_read < nbytes
  /\ fd_arr[fd].file_pos + bytes_read < Inode.length

Least(a, b) == IF a < b THEN a ELSE b

\* Mutant: the place the block is read from is not counted in its number of
\* bytes up to the end of the file.
CopiedFromStart ==
  Least(Least(BlockSize - curr_block_pos, nbytes - bytes_read),
        Least(BlockSize, Inode.length - curr_block_num * BlockSize))

\* What read_data_block copies: up to the end of the block, of the request or
\* of the file, which it finds from the block's number in a uint8_t.
Copied ==
  LET first == (curr_block_num % BlockNums) * BlockSize + curr_block_pos
  IN  Least(Least(BlockSize - curr_block_pos, nbytes - bytes_read),
            IF first < Inode.length THEN Inode.length - first ELSE 0)

read_data_block ==
  /\ ~Idle /\ Continues
  /\ buf' = [k \in DOMAIN buf |->
               IF k \in bytes_read..bytes_read + Copied - 1
                 THEN <<Inode.block_num[curr_block_num],
                        curr_block_pos + k - bytes_read>>
                 ELSE buf[k]]
  /\ bytes_read' = bytes_read + Copied
  /\ curr_block_num' = curr_block_num + 1
  /\ curr_block_pos' = 0
  /\ UNCHANGED <<fd_arr, directory, fd, nbytes>>

\* Mutant: the position advances by what was asked for.
AdvancedAsAsked == [fd_arr EXCEPT ![fd].file_pos = @ + nbytes]

Advanced == [fd_arr EXCEPT ![fd].file_pos = @ + bytes_read]

file_read_returns ==
  /\ ~Idle /\ ~Continues
  /\ fd_arr' = Advanced
  /\ fd' = NoFd /\ nbytes' = 0
  /\ UNCHANGED <<directory, bytes_read, curr_block_num, curr_block_pos, buf>>

-----------------------------------------------------------------------------
\* Mutant: the last entry is taken for the end.
ExhaustedEarly == dir_count >= num_dentries - 1

Exhausted == dir_count >= num_dentries

Listing(d) == Idle /\ ~Free(d) /\ fd_arr[d].type = DirType

\* dir_read answers with the next name ...
dir_read(d) ==
  /\ Listing(d)
  /\ ~Exhausted
  /\ dir_count' = dir_count + 1
  /\ listed' = [listed EXCEPT ![d] = @ \cup {dir_count}]
  /\ given' = given \cup {dir_count}
  /\ UNCHANGED <<fd_arr, locals>>

\* ... or with 0.
dir_read_end(d) ==
  /\ Listing(d)
  /\ Exhausted
  /\ dir_count' = 0
  /\ given' = {}
  /\ UNCHANGED <<fd_arr, locals, listed>>

Next ==
  \/ \E e \in Entries : open(e)
  \/ \E d \in Fds :
       \/ close(d)
       \/ \E n \in 0..Size : file_read(d, n)
       \/ dir_read(d)
       \/ dir_read_end(d)
  \/ NextProgram
  \/ read_data_block
  \/ file_read_returns

Spec == Init /\ [][Next]_vars

-----------------------------------------------------------------------------
\* The files whose block numbers a uint8_t holds.
Numbered == {f \in DOMAIN inodes : inodes[f].length <= BlockNums * BlockSize}

Descriptor ==
  [flags : {0, 1}, type : {NoFd, RtcType, DirType, FileType},
   inode : DOMAIN inodes \cup {0}, file_pos : Nat]

\* Type invariant.  A position never passes the end of its file, and a read
\* copies no more than it was asked for, whatever blocks it spans.
TypeOK ==
  /\ fd_arr \in [Fds -> Descriptor]
  /\ \A d \in Fds : fd_arr[d].type = FileType =>
       /\ fd_arr[d].inode \in DOMAIN inodes
       /\ fd_arr[d].inode \in Numbered =>
            fd_arr[d].file_pos <= inodes[fd_arr[d].inode].length
  /\ dir_count \in 0..num_dentries
  /\ fd \in Fds \cup {NoFd}
  /\ nbytes \in 0..Size
  /\ ~Idle => bytes_read <= nbytes
  /\ curr_block_num \in 0..NumDataBlocks
  /\ curr_block_pos \in 0..BlockSize - 1
  /\ DOMAIN buf = 0..Size - 1

\* FileReader's view of the descriptors: the numbered files they are open for.
Reads(d) == fd_arr[d].type = FileType /\ fd_arr[d].inode \in Numbered

Length(f)  == inodes[f].length
Byte(f, k) == <<inodes[f].block_num[k \div BlockSize], k % BlockSize>>
Served     == ~Idle /\ Reads(fd)

Reader == INSTANCE FileReader WITH
  Files <- Numbered,
  opened <- [d \in Fds |-> IF Reads(d) THEN fd_arr[d].inode ELSE NoFd],
  pos <- [d \in Fds |-> IF Reads(d) THEN fd_arr[d].file_pos ELSE 0],
  request <- [fd |-> IF Served THEN fd ELSE NoFd,
              nbytes |-> IF Served THEN nbytes ELSE 0],
  answer <- IF Served THEN Blank ELSE buf

\* Successive reads of a descriptor give the successive bytes of its file,
\* through blocks scattered over the image and sizes that end in the middle of
\* one, and write nothing past what they return.
ReadsFile == Reader!Spec

\* Between two answers of 0, whichever programs and descriptors ask, dir_read
\* gives every entry.
EndAfterAll == [][\A d \in Fds : dir_read_end(d) => given = Entries]_vars

\* "to allow ls to work multiple times" (file_system.c:278): a listing read
\* until dir_read answers 0 has shown every entry.
ListsAll == [][\A d \in Fds : dir_read_end(d) => listed[d] = Entries]_vars
=============================================================================
