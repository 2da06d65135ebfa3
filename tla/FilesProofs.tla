---------------------------- MODULE FilesProofs ----------------------------
(***************************************************************************)
(* Theorems about Files, for every image, every size of blocks and block   *)
(* numbers, of the buffer and of the table of descriptors.                 *)
(***************************************************************************)
EXTENDS Files, TLAPS

\* What EndAfterAll rests on: the entries given since the last end are those
\* below dir_count.
GivenInv ==
  /\ dir_count \in 0..num_dentries
  /\ given = 0..dir_count - 1

LEMMA GivenInit == Init => GivenInv
  BY FilesAssumption DEF Init, GivenInv

LEMMA GivenNext == GivenInv /\ [Next]_vars => GivenInv'
<1> SUFFICES ASSUME GivenInv, [Next]_vars PROVE GivenInv'
  OBVIOUS
<1> USE FilesAssumption DEF GivenInv
<1>1. CASE UNCHANGED directory
  BY <1>1 DEF directory
<1>2. ASSUME NEW d \in Fds, dir_read(d) PROVE GivenInv'
  BY <1>2 DEF dir_read, Exhausted
<1>3. ASSUME NEW d \in Fds, dir_read_end(d) PROVE GivenInv'
  BY <1>3 DEF dir_read_end
<1>4. ASSUME NEW e \in Entries, open(e) PROVE GivenInv'
  BY <1>4 DEF open
<1>5. ASSUME NEW d \in Fds, close(d) PROVE UNCHANGED directory
  BY <1>5 DEF close
<1>6. ASSUME NEW d \in Fds, NEW n \in 0..Size, file_read(d, n)
      PROVE  UNCHANGED directory
  BY <1>6 DEF file_read
<1>7. NextProgram => UNCHANGED directory
  BY DEF NextProgram
<1>8. read_data_block => UNCHANGED directory
  BY DEF read_data_block
<1>9. file_read_returns => UNCHANGED directory
  BY DEF file_read_returns
<1>10. UNCHANGED vars => UNCHANGED directory
  BY DEF vars, directory
<1> QED
  BY <1>1, <1>2, <1>3, <1>4, <1>5, <1>6, <1>7, <1>8, <1>9, <1>10 DEF Next

\* Over every image, whichever programs and descriptors read directories and
\* in whatever order, dir_read answers 0 only after it has given every entry.
THEOREM AllBeforeEnd == Spec => EndAfterAll
<1>1. GivenInv /\ [Next]_vars
        => [\A d \in Fds : dir_read_end(d) => given = Entries]_vars
  <2> SUFFICES ASSUME GivenInv, NEW d \in Fds, dir_read_end(d)
               PROVE  given = Entries
    OBVIOUS
  <2>1. dir_count = num_dentries
    BY FilesAssumption DEF GivenInv, dir_read_end, Exhausted
  <2> QED
    BY <2>1 DEF GivenInv, Entries
<1> QED
  BY <1>1, GivenInit, GivenNext, PTL DEF Spec, EndAfterAll

-----------------------------------------------------------------------------
\* Places in a file: the quotient is the block, the rest the place in it.
LEMMA Monotone ==
  ASSUME NEW a \in Int, NEW b \in Int, NEW m \in Nat, a <= b
  PROVE  a * m <= b * m
<1>1. PICK c \in Nat : b = a + c
  BY b - a \in Nat
<1>2. b * m = a * m + c * m /\ c * m \in Nat
  BY <1>1
<1> QED
  BY <1>2

LEMMA BlockAndPlace ==
  ASSUME NEW n \in Nat, NEW m \in Nat \ {0}
  PROVE  /\ n \div m \in Nat /\ n % m \in 0..m - 1
         /\ n = (n \div m) * m + (n % m)
  OBVIOUS

\* Below q whole blocks lie only the blocks before the q-th.
LEMMA BlocksBelow ==
  ASSUME NEW m \in Nat \ {0}, NEW p \in Nat, NEW q \in Nat, p * m < q * m
  PROVE  p < q
<1> SUFFICES ASSUME q <= p PROVE FALSE
  OBVIOUS
<1>1. q * m <= p * m
  BY Monotone
<1> QED
  BY <1>1, p * m \in Nat, q * m \in Nat

LEMMA OneBlockAndPlace ==
  ASSUME NEW m \in Nat \ {0}, NEW q \in Nat, NEW r \in 0..m - 1
  PROVE  (q * m + r) \div m = q /\ (q * m + r) % m = r
<1> DEFINE n == q * m + r
           p == n \div m
<1>1. n \in Nat
  BY q * m \in Nat
<1>2. p \in Nat /\ n % m \in 0..m - 1 /\ n = p * m + (n % m)
  BY <1>1, BlockAndPlace
<1>3. n = q * m + r /\ p = n \div m
  OBVIOUS
<1> HIDE DEF n, p
<1>4. (p + 1) * m = p * m + m /\ (q + 1) * m = q * m + m
  BY <1>2
<1>5. p * m \in Nat /\ q * m \in Nat
  BY <1>2
<1>6. p * m < (q + 1) * m /\ q * m < (p + 1) * m
  BY <1>2, <1>3, <1>4, <1>5
<1>7. p < q + 1 /\ q < p + 1
  BY <1>2, <1>6, BlocksBelow
<1>8. p = q
  BY <1>2, <1>7
<1> QED
  BY <1>1, <1>2, <1>3, <1>5, <1>8 DEF n, p

-----------------------------------------------------------------------------
\* A descriptor that is not open is closed, and a position is within the blocks
\* an inode can have, and within the file if its blocks can be numbered.
DescriptorsInv ==
  /\ fd_arr \in [Fds -> Descriptor]
  /\ \A d \in Fds : Free(d) => fd_arr[d] = Closed
  /\ \A d \in Fds : fd_arr[d].type = FileType =>
       /\ fd_arr[d].inode \in DOMAIN inodes
       /\ fd_arr[d].file_pos <= NumDataBlocks * BlockSize
       /\ fd_arr[d].inode \in Numbered =>
            fd_arr[d].file_pos <= inodes[fd_arr[d].inode].length

\* The buffer of a read that has copied n bytes.
Filled(n) ==
  [k \in 0..Size - 1 |->
     IF k < n THEN Byte(fd_arr[fd].inode, fd_arr[fd].file_pos + k) ELSE Untouched]

\* A read in progress: while it goes on, the block and the place in it are those
\* of the next byte, also where the block's number has wrapped.
ReadingInv ==
  /\ fd_arr[fd].type = FileType
  /\ bytes_read \in 0..nbytes
  /\ fd_arr[fd].file_pos + bytes_read <= NumDataBlocks * BlockSize
  /\ Continues =>
       curr_block_num * BlockSize + curr_block_pos = fd_arr[fd].file_pos + bytes_read
  /\ fd_arr[fd].inode \in Numbered =>
       /\ fd_arr[fd].file_pos + bytes_read <= Inode.length
       /\ buf = Filled(bytes_read)

LocalsInv ==
  /\ fd \in Fds \cup {NoFd}
  /\ nbytes \in 0..Size
  /\ curr_block_num \in 0..NumDataBlocks
  /\ curr_block_pos \in 0..BlockSize - 1
  /\ DOMAIN buf = 0..Size - 1
  /\ fd # NoFd => ReadingInv

FilesInv == GivenInv /\ DescriptorsInv /\ LocalsInv

LEMMA FilesSizes ==
  /\ Size \in Nat /\ NumDataBlocks \in Nat /\ num_dentries \in Nat /\ LastFd \in Nat
  /\ BlockSize \in Nat \ {0} /\ BlockNums \in Nat \ {0}
  /\ NumDataBlocks * BlockSize \in Nat /\ BlockNums * BlockSize \in Nat
  /\ NoFd \notin Fds
BY FilesAssumption DEF Fds, NoFd

LEMMA FilesInvTypes == FilesInv => TypeOK
BY DEF FilesInv, GivenInv, DescriptorsInv, LocalsInv, ReadingInv, TypeOK, Idle

LEMMA FilesInvInit == Init => FilesInv
<1> SUFFICES ASSUME Init PROVE FilesInv
  OBVIOUS
<1>1. GivenInv
  BY GivenInit
<1>2. DescriptorsInv
  BY DEF Init, DescriptorsInv, Descriptor, Closed, Free, NoFd, FileType
<1>3. LocalsInv
  BY FilesSizes DEF Init, LocalsInv, Blank
<1> QED
  BY <1>1, <1>2, <1>3 DEF FilesInv

-----------------------------------------------------------------------------
\* What one block adds to a read: at least a byte, no more than is asked for or
\* is in the block, all of the block if the read goes on, and of a numbered file
\* no more than there is.
LEMMA OneBlock ==
  ASSUME FilesInv, ~Idle, Continues
  PROVE  LET at == fd_arr[fd].file_pos + bytes_read IN
         /\ curr_block_num < NumDataBlocks
         /\ Copied \in 1..BlockSize - curr_block_pos
         /\ bytes_read + Copied <= nbytes
         /\ at + Copied <= NumDataBlocks * BlockSize
         /\ at = curr_block_num * BlockSize + curr_block_pos
         /\ bytes_read + Copied < nbytes /\ at + Copied < Inode.length =>
              at + Copied = (curr_block_num + 1) * BlockSize
         /\ fd_arr[fd].inode \in Numbered => at + Copied <= Inode.length
<1> DEFINE c == curr_block_num
           s == curr_block_pos
           at == fd_arr[fd].file_pos + bytes_read
           L == Inode.length
           first == (c % BlockNums) * BlockSize + s
<1> USE FilesSizes
<1>1. /\ fd \in Fds /\ nbytes \in 0..Size /\ ReadingInv
      /\ c \in 0..NumDataBlocks /\ s \in 0..BlockSize - 1
  BY DEF FilesInv, LocalsInv, Idle
<1>2. /\ fd_arr[fd].file_pos \in Nat /\ fd_arr[fd].inode \in DOMAIN inodes
  BY <1>1 DEF FilesInv, DescriptorsInv, Descriptor, ReadingInv
<1>3. L \in 0..NumDataBlocks * BlockSize
  BY <1>2, FilesAssumption DEF Inode
<1>4. /\ bytes_read \in 0..nbytes /\ bytes_read < nbytes /\ at \in Nat /\ at < L
      /\ at = c * BlockSize + s
  BY <1>1, <1>2 DEF ReadingInv, Continues
<1>5. /\ c * BlockSize \in Nat
      /\ (c + 1) * BlockSize = c * BlockSize + BlockSize
  BY <1>1
<1>6. c < NumDataBlocks
  <2>1. c * BlockSize < NumDataBlocks * BlockSize
    BY <1>1, <1>3, <1>4, <1>5
  <2> QED
    BY <1>1, <2>1, BlocksBelow
<1>7. (c + 1) * BlockSize <= NumDataBlocks * BlockSize
  BY <1>1, <1>6, Monotone
<1>8. c % BlockNums \in 0..c
  <2>1. /\ c \div BlockNums \in Nat /\ c % BlockNums \in Nat
        /\ c = (c \div BlockNums) * BlockNums + (c % BlockNums)
    BY <1>1, BlockAndPlace
  <2>2. (c \div BlockNums) * BlockNums \in Nat
    BY <2>1
  <2> QED
    BY <1>1, <2>1, <2>2
<1>9. (c % BlockNums) * BlockSize \in Nat /\ (c % BlockNums) * BlockSize <= c * BlockSize
  BY <1>1, <1>8, Monotone
<1>10. first \in Nat /\ first <= at
  BY <1>1, <1>4, <1>5, <1>9
<1>11. fd_arr[fd].inode \in Numbered => first = at
  <2> SUFFICES ASSUME fd_arr[fd].inode \in Numbered PROVE first = at
    OBVIOUS
  <2>1. c * BlockSize < BlockNums * BlockSize
    BY <1>1, <1>3, <1>4, <1>5 DEF Numbered, Inode
  <2>2. c < BlockNums
    BY <1>1, <2>1, BlocksBelow
  <2>3. c % BlockNums = c
    BY <1>1, <2>2
  <2> QED
    BY <1>4, <2>3
<1>12. Copied = Least(Least(BlockSize - s, nbytes - bytes_read),
                      IF first < L THEN L - first ELSE 0)
  BY DEF Copied
<1> HIDE DEF first, at, c, s, L
<1>13. /\ Copied \in 1..BlockSize - s /\ bytes_read + Copied <= nbytes
       /\ \/ Copied = BlockSize - s
          \/ Copied = nbytes - bytes_read
          \/ at + Copied >= L
       /\ Copied <= L - first
  BY <1>1, <1>3, <1>4, <1>10, <1>12 DEF Least
<1> QED
  BY <1>1, <1>3, <1>4, <1>5, <1>6, <1>7, <1>10, <1>11, <1>13 DEF c, s, at, L

LEMMA ReadStarts ==
  ASSUME FilesInv, NEW d \in Fds, NEW n \in 0..Size, file_read(d, n)
  PROVE  LocalsInv'
<1> DEFINE pos == fd_arr[d].file_pos
<1> USE FilesSizes
<1>1. /\ pos \in Nat /\ pos <= NumDataBlocks * BlockSize
      /\ fd_arr[d].inode \in DOMAIN inodes /\ fd_arr[d].type = FileType
      /\ fd_arr[d].inode \in Numbered => pos <= inodes[fd_arr[d].inode].length
  BY DEF FilesInv, DescriptorsInv, Descriptor, file_read
<1>2. /\ pos \div BlockSize \in Nat /\ pos % BlockSize \in 0..BlockSize - 1
      /\ pos = (pos \div BlockSize) * BlockSize + (pos % BlockSize)
  BY <1>1, BlockAndPlace
<1>3. pos \div BlockSize <= NumDataBlocks
  <2> DEFINE q == pos \div BlockSize
  <2>1. q \in Nat /\ q * BlockSize \in Nat /\ q * BlockSize <= pos
    BY <1>2
  <2>2. (NumDataBlocks + 1) * BlockSize = NumDataBlocks * BlockSize + BlockSize
    OBVIOUS
  <2> HIDE DEF q
  <2>3. q * BlockSize < (NumDataBlocks + 1) * BlockSize
    BY <1>1, <2>1, <2>2
  <2>4. q < NumDataBlocks + 1
    BY <2>1, <2>3, BlocksBelow
  <2> QED
    BY <2>1, <2>4 DEF q
<1>4. /\ fd' = d /\ nbytes' = n /\ bytes_read' = 0 /\ buf' = Blank
      /\ curr_block_num' = pos \div BlockSize /\ curr_block_pos' = pos % BlockSize
      /\ fd_arr' = fd_arr
  BY DEF file_read
<1> HIDE DEF pos
<1>5. Blank = Filled(0)'
  BY <1>1, <1>4 DEF Blank, Filled
<1>6. ReadingInv'
  <2>1. /\ fd_arr'[fd'].type = FileType /\ fd_arr'[fd'].file_pos = pos
        /\ Inode' = inodes[fd_arr[d].inode] /\ fd_arr'[fd'].inode = fd_arr[d].inode
    BY <1>1, <1>4 DEF pos, Inode
  <2>2. bytes_read' \in 0..nbytes' /\ pos + bytes_read' = pos
    BY <1>1, <1>4
  <2>3. curr_block_num' * BlockSize + curr_block_pos' = pos
    BY <1>2, <1>4
  <2>4. buf' = Filled(bytes_read)'
    BY <1>4, <1>5 DEF Filled
  <2> QED
    BY <1>1, <2>1, <2>2, <2>3, <2>4 DEF ReadingInv
<1>7. DOMAIN buf' = 0..Size - 1
  BY <1>4 DEF Blank
<1>8. curr_block_num' \in 0..NumDataBlocks /\ curr_block_pos' \in 0..BlockSize - 1
  BY <1>2, <1>3, <1>4
<1>9. fd' \in Fds \cup {NoFd} /\ nbytes' \in 0..Size
  BY <1>4
<1> QED
  BY <1>6, <1>7, <1>8, <1>9 DEF LocalsInv

LEMMA ReadGoesOn ==
  ASSUME FilesInv, read_data_block
  PROVE  LocalsInv'
<1> USE FilesSizes
<1>1. ~Idle /\ Continues
  BY DEF read_data_block
<1>2. /\ fd \in Fds /\ nbytes \in 0..Size /\ ReadingInv
      /\ curr_block_num \in 0..NumDataBlocks /\ curr_block_pos \in 0..BlockSize - 1
      /\ DOMAIN buf = 0..Size - 1
  BY <1>1 DEF FilesInv, LocalsInv, Idle
<1>3. /\ fd_arr[fd].file_pos \in Nat /\ bytes_read \in 0..nbytes
      /\ fd_arr[fd].inode \in DOMAIN inodes
  BY <1>2 DEF FilesInv, DescriptorsInv, Descriptor, ReadingInv
<1> DEFINE at == fd_arr[fd].file_pos + bytes_read
<1>4. /\ curr_block_num < NumDataBlocks
      /\ Copied \in 1..BlockSize - curr_block_pos
      /\ bytes_read + Copied <= nbytes
      /\ at + Copied <= NumDataBlocks * BlockSize
      /\ at = curr_block_num * BlockSize + curr_block_pos
      /\ bytes_read + Copied < nbytes /\ at + Copied < Inode.length =>
           at + Copied = (curr_block_num + 1) * BlockSize
      /\ fd_arr[fd].inode \in Numbered => at + Copied <= Inode.length
  BY <1>1, OneBlock
<1>5. /\ bytes_read' = bytes_read + Copied
      /\ curr_block_num' = curr_block_num + 1 /\ curr_block_pos' = 0
      /\ fd_arr' = fd_arr /\ fd' = fd /\ nbytes' = nbytes
      /\ buf' = [k \in DOMAIN buf |->
                   IF k \in bytes_read..bytes_read + Copied - 1
                     THEN <<Inode.block_num[curr_block_num],
                            curr_block_pos + k - bytes_read>>
                     ELSE buf[k]]
  BY DEF read_data_block
<1>6. Inode' = Inode
  BY <1>5 DEF Inode
<1>7. fd_arr[fd].inode \in Numbered => buf' = Filled(bytes_read + Copied)
  <2> SUFFICES ASSUME fd_arr[fd].inode \in Numbered,
                      NEW k \in 0..Size - 1
               PROVE  buf'[k] = Filled(bytes_read + Copied)[k]
    BY <1>2, <1>5 DEF Filled
  <2>1. buf = Filled(bytes_read)
    BY <1>2 DEF ReadingInv
  <2> Copied \in Nat \ {0} /\ bytes_read \in Nat
    BY <1>2, <1>3, <1>4
  <2>2. CASE k < bytes_read
    BY <1>2, <1>5, <2>1, <2>2 DEF Filled
  <2>3. CASE k >= bytes_read + Copied
    BY <1>2, <1>5, <2>1, <2>3 DEF Filled
  <2>4. CASE k \in bytes_read..bytes_read + Copied - 1
    <3> DEFINE r == curr_block_pos + k - bytes_read
    <3>1. r \in 0..BlockSize - 1
      <4>1. /\ curr_block_pos \in 0..BlockSize - 1 /\ bytes_read \in Nat
            /\ Copied \in 1..BlockSize - curr_block_pos
        BY <1>2, <1>3, <1>4
      <4> QED
        BY <2>4, <4>1
    <3>2. fd_arr[fd].file_pos + k = curr_block_num * BlockSize + r
      <4> DEFINE before == curr_block_num * BlockSize
      <4>1. /\ before \in Nat /\ curr_block_pos \in Nat /\ k \in Nat
            /\ fd_arr[fd].file_pos \in Nat /\ bytes_read \in Nat
            /\ fd_arr[fd].file_pos + bytes_read = before + curr_block_pos
        BY <1>2, <1>3, <1>4
      <4> HIDE DEF before
      <4>2. fd_arr[fd].file_pos + k = before + r
        BY <4>1
      <4> QED
        BY <4>2 DEF before
    <3> HIDE DEF r
    <3>3. curr_block_num \in Nat
      BY <1>2
    <3>4. /\ (fd_arr[fd].file_pos + k) \div BlockSize = curr_block_num
          /\ (fd_arr[fd].file_pos + k) % BlockSize = r
      BY <3>1, <3>2, <3>3, OneBlockAndPlace
    <3>5. buf'[k] = <<Inode.block_num[curr_block_num], r>>
      BY <1>2, <1>5, <2>4 DEF r
    <3>6. Byte(fd_arr[fd].inode, fd_arr[fd].file_pos + k)
            = <<Inode.block_num[curr_block_num], r>>
      BY <3>4 DEF Byte, Inode
    <3> QED
      BY <2>4, <3>5, <3>6 DEF Filled
  <2> QED
    BY <2>2, <2>3, <2>4
<1>8. ReadingInv'
  <2> DEFINE next == (curr_block_num + 1) * BlockSize
  <2>1. next \in Nat /\ curr_block_num' * BlockSize + curr_block_pos' = next
    BY <1>2, <1>5
  <2>2. fd_arr[fd].file_pos + bytes_read' = at + Copied
    BY <1>2, <1>3, <1>4, <1>5
  <2>3. bytes_read' \in 0..nbytes
    BY <1>2, <1>3, <1>4, <1>5
  <2>4. Continues' => next = at + Copied
    <3>1. Continues' => bytes_read + Copied < nbytes /\ at + Copied < Inode.length
      BY <1>5, <1>6, <2>2 DEF Continues
    <3> QED
      BY <1>4, <3>1
  <2> HIDE DEF next, at
  <2>5. /\ fd_arr[fd].inode \in Numbered => fd_arr[fd].file_pos + bytes_read' <= Inode.length
        /\ fd_arr[fd].file_pos + bytes_read' <= NumDataBlocks * BlockSize
    BY <1>4, <2>2
  <2>6. (fd_arr[fd].inode \in Numbered)' => (buf = Filled(bytes_read))'
    BY <1>5, <1>7 DEF Filled
  <2> QED
    BY <1>2, <1>5, <1>6, <2>1, <2>2, <2>3, <2>4, <2>5, <2>6 DEF ReadingInv
<1> QED
  BY <1>2, <1>4, <1>5, <1>8 DEF LocalsInv

LEMMA ReadReturnsWithin ==
  ASSUME FilesInv, file_read_returns
  PROVE  DescriptorsInv'
<1>1. /\ fd \in Fds /\ ReadingInv
  BY DEF file_read_returns, FilesInv, LocalsInv, Idle
<1>2. /\ fd_arr[fd] \in Descriptor /\ ~Free(fd)
      /\ bytes_read \in Nat
  BY <1>1, FilesSizes
    DEF FilesInv, DescriptorsInv, LocalsInv, ReadingInv, Free, Closed, NoFd, FileType
<1>3. fd_arr' = [fd_arr EXCEPT ![fd].file_pos = @ + bytes_read]
  BY DEF file_read_returns, Advanced
<1>4. /\ fd_arr' \in [Fds -> Descriptor]
      /\ fd_arr'[fd] = [fd_arr[fd] EXCEPT !.file_pos = @ + bytes_read]
      /\ \A d \in Fds \ {fd} : fd_arr'[d] = fd_arr[d]
  BY <1>1, <1>2, <1>3 DEF FilesInv, DescriptorsInv, Descriptor
<1>5. /\ fd_arr'[fd].flags = fd_arr[fd].flags
      /\ fd_arr'[fd].inode = fd_arr[fd].inode
      /\ fd_arr'[fd].file_pos = fd_arr[fd].file_pos + bytes_read
      /\ fd_arr'[fd].type = fd_arr[fd].type
  BY <1>2, <1>4 DEF Descriptor
<1>6. ASSUME NEW d \in Fds, Free(d)' PROVE fd_arr'[d] = Closed
  BY <1>2, <1>4, <1>5, <1>6 DEF FilesInv, DescriptorsInv, Free
<1>7. ASSUME NEW d \in Fds, fd_arr'[d].type = FileType
      PROVE  /\ fd_arr'[d].inode \in DOMAIN inodes
             /\ fd_arr'[d].file_pos <= NumDataBlocks * BlockSize
             /\ fd_arr'[d].inode \in Numbered =>
                  fd_arr'[d].file_pos <= inodes[fd_arr'[d].inode].length
  BY <1>1, <1>4, <1>5, <1>7 DEF FilesInv, DescriptorsInv, ReadingInv, Inode
<1> QED
  BY <1>4, <1>6, <1>7 DEF DescriptorsInv, Closed

\* Closing some descriptors leaves the others as they are.
LEMMA ClosedWithin ==
  ASSUME DescriptorsInv,
         fd_arr' \in [Fds -> Descriptor],
         \A d \in Fds : fd_arr'[d] \in {fd_arr[d], Closed}
  PROVE  DescriptorsInv'
BY DEF DescriptorsInv, Free, Closed, FileType, NoFd

LEMMA OpenedWithin ==
  ASSUME DescriptorsInv, NEW e \in Entries, NEW d \in Fds,
         fd_arr' = [fd_arr EXCEPT ![d] = Opened(e)]
  PROVE  DescriptorsInv'
<1>1. /\ Opened(e) \in Descriptor /\ Opened(e).flags = 1 /\ Opened(e).file_pos = 0
      /\ Opened(e).type = FileType => Opened(e).inode \in DOMAIN inodes
  BY FilesAssumption DEF Opened, Descriptor, Entries
<1>2. 0 <= NumDataBlocks * BlockSize /\ \A f \in DOMAIN inodes : 0 <= inodes[f].length
  BY FilesSizes, FilesAssumption
<1>3. /\ fd_arr' \in [Fds -> Descriptor]
      /\ \A other \in Fds : fd_arr'[other] = IF other = d THEN Opened(e) ELSE fd_arr[other]
  BY <1>1 DEF DescriptorsInv
<1> QED
  BY <1>1, <1>2, <1>3 DEF DescriptorsInv, Free

LEMMA IdleLocals == LocalsInv /\ Idle /\ UNCHANGED locals => LocalsInv'
BY DEF LocalsInv, Idle, locals

LEMMA FilesInvNext == FilesInv /\ [Next]_vars => FilesInv'
<1> SUFFICES ASSUME FilesInv, [Next]_vars PROVE FilesInv'
  OBVIOUS
<1>0. /\ GivenInv' /\ DescriptorsInv /\ LocalsInv
      /\ (UNCHANGED fd_arr => DescriptorsInv')
  BY GivenNext DEF FilesInv, DescriptorsInv, Free
<1>1. ASSUME NEW e \in Entries, open(e) PROVE FilesInv'
  <2>1. LocalsInv'
    BY <1>0, <1>1, IdleLocals DEF open
  <2>2. DescriptorsInv'
    BY <1>0, <1>1, OpenedWithin DEF open
  <2> QED
    BY <1>0, <2>1, <2>2 DEF FilesInv
<1>2. ASSUME NEW d \in Fds, close(d) PROVE FilesInv'
  <2>1. LocalsInv'
    BY <1>0, <1>2, IdleLocals DEF close
  <2>2. Closed \in Descriptor
    BY DEF Closed, Descriptor
  <2>3. DescriptorsInv'
    BY <1>0, <1>2, <2>2, ClosedWithin DEF close, DescriptorsInv
  <2> QED
    BY <1>0, <2>1, <2>3 DEF FilesInv
<1>3. ASSUME NextProgram PROVE FilesInv'
  <2>1. LocalsInv'
    BY <1>0, <1>3, IdleLocals DEF NextProgram
  <2>2. Closed \in Descriptor
    BY DEF Closed, Descriptor
  <2>3. DescriptorsInv'
    BY <1>0, <1>3, <2>2, ClosedWithin DEF NextProgram
  <2> QED
    BY <1>0, <2>1, <2>3 DEF FilesInv
<1>4. ASSUME NEW d \in Fds, NEW n \in 0..Size, file_read(d, n) PROVE FilesInv'
  BY <1>0, <1>4, ReadStarts DEF FilesInv, file_read
<1>5. ASSUME NEW d \in Fds, dir_read(d) PROVE FilesInv'
  BY <1>0, <1>5, IdleLocals DEF FilesInv, dir_read, Listing
<1>6. ASSUME NEW d \in Fds, dir_read_end(d) PROVE FilesInv'
  BY <1>0, <1>6, IdleLocals DEF FilesInv, dir_read_end, Listing
<1>7. ASSUME read_data_block PROVE FilesInv'
  BY <1>0, <1>7, ReadGoesOn DEF FilesInv, read_data_block
<1>8. ASSUME file_read_returns PROVE FilesInv'
  <2>1. LocalsInv'
    BY <1>0, <1>8, FilesSizes DEF file_read_returns, LocalsInv
  <2> QED
    BY <1>0, <1>8, <2>1, ReadReturnsWithin DEF FilesInv
<1>9. CASE UNCHANGED vars
  <2>1. LocalsInv'
    BY <1>0, <1>9 DEF vars, LocalsInv, ReadingInv, Continues, Inode, Filled
  <2> QED
    BY <1>0, <1>9, <2>1 DEF FilesInv, vars
<1> QED
  BY <1>1, <1>2, <1>3, <1>4, <1>5, <1>6, <1>7, <1>8, <1>9 DEF Next

LEMMA FilesInvAlways == Spec => []FilesInv
BY FilesInvInit, FilesInvNext, PTL DEF Spec

\* For every image and every size of a block, a position never passes the end of
\* a file whose blocks a uint8_t numbers, a read copies no more than was asked for,
\* and the block read next is one the inode has room for.
THEOREM FilesTyped == Spec => []TypeOK
BY FilesInvAlways, FilesInvTypes, PTL

-----------------------------------------------------------------------------
\* FileReader's variables, as Reader gives them.
AbstractOpened == [d \in Fds |-> IF Reads(d) THEN fd_arr[d].inode ELSE NoFd]
AbstractPos    == [d \in Fds |-> IF Reads(d) THEN fd_arr[d].file_pos ELSE 0]
Request        == [fd |-> IF Served THEN fd ELSE NoFd,
                   nbytes |-> IF Served THEN nbytes ELSE 0]
Buffer         == IF Served THEN Blank ELSE buf

LEMMA ReaderInit == Init => Reader!Init
<1> SUFFICES ASSUME Init PROVE Reader!Init
  OBVIOUS
<1>1. \A d \in Fds : ~Reads(d)
  BY DEF Init, Closed, Reads, NoFd, FileType
<1>2. ~Served
  BY DEF Init, Served, Idle
<1> QED
  BY <1>1, <1>2 DEF Init, Reader!Init, Reader!None, Reader!Idle, Reader!Blank, Blank, NoFd

\* Between reads there is no request.
LEMMA NoRequest == Idle => ~Served /\ Request = Reader!Idle /\ Buffer = buf
BY DEF Idle, Served, Request, Reader!Idle, Reader!None, Buffer, NoFd

\* Steps that FileReader does not see, but for the program's buffer.
LEMMA Unseen ==
  ASSUME UNCHANGED <<AbstractOpened, AbstractPos, Request>>,
         UNCHANGED Buffer \/ Request = Reader!Idle
  PROVE  [Reader!Next]_(Reader!reading)
BY DEF Reader!Next, Reader!Use, Reader!reading, AbstractOpened, AbstractPos, Request,
       Buffer

LEMMA SameRequest ==
  Idle /\ UNCHANGED locals => UNCHANGED <<Request, Buffer>> /\ Request = Reader!Idle
BY NoRequest DEF locals, Idle, Served, Request, Buffer

LEMMA OpenSeen ==
  ASSUME FilesInv, NEW e \in Entries, open(e)
  PROVE  [Reader!Next]_(Reader!reading)
<1>1. /\ UNCHANGED <<Request, Buffer>> /\ Request = Reader!Idle
  BY SameRequest DEF open
<1>2. PICK d \in Fds : Free(d) /\ fd_arr' = [fd_arr EXCEPT ![d] = Opened(e)]
  BY DEF open
<1>3. /\ fd_arr \in [Fds -> Descriptor] /\ fd_arr[d] = Closed
  BY <1>2 DEF FilesInv, DescriptorsInv
<1>4. ~Reads(d)
  BY <1>3 DEF Reads, Closed, FileType, NoFd
<1> DEFINE f == Opened(e).inode
<1>5. \A other \in Fds \ {d} : fd_arr'[other] = fd_arr[other]
  BY <1>2, <1>3
<1>6. fd_arr'[d] = Opened(e)
  BY <1>2, <1>3
<1>7. UNCHANGED AbstractPos
  <2>1. ASSUME NEW other \in Fds PROVE AbstractPos'[other] = AbstractPos[other]
    BY <1>4, <1>5, <1>6 DEF AbstractPos, Reads, Opened
  <2> QED
    BY <2>1 DEF AbstractPos
<1>8. CASE Opened(e).type = FileType /\ f \in Numbered
  <2>1. Reads(d)'
    BY <1>6, <1>8 DEF Reads
  <2>2. AbstractOpened' = [AbstractOpened EXCEPT ![d] = f]
    BY <1>5, <1>6, <2>1 DEF AbstractOpened, Reads
  <2>3. AbstractOpened[d] = Reader!None
    BY <1>4 DEF AbstractOpened, Reader!None, NoFd
  <2>4. Reader!Open(d, f)
    BY <1>1, <1>7, <2>2, <2>3
      DEF Reader!Open, AbstractOpened, AbstractPos, Request, Buffer
  <2> QED
    BY <1>8, <2>4 DEF Reader!Next
<1>9. CASE ~(Opened(e).type = FileType /\ f \in Numbered)
  <2>1. ~Reads(d)'
    BY <1>6, <1>9 DEF Reads
  <2>2. UNCHANGED AbstractOpened
    BY <1>4, <1>5, <2>1 DEF AbstractOpened, Reads
  <2> QED
    BY <1>1, <1>7, <2>2, Unseen
<1> QED
  BY <1>8, <1>9

LEMMA CloseSeen ==
  ASSUME NEW fds \in SUBSET Fds, Idle, UNCHANGED locals,
         fd_arr' \in [Fds -> Descriptor],
         \A d \in fds : fd_arr'[d] = Closed,
         \A d \in Fds \ fds : fd_arr'[d] = fd_arr[d]
  PROVE  [Reader!Next]_(Reader!reading)
<1>1. UNCHANGED <<Request, Buffer>> /\ Request = Reader!Idle
  BY SameRequest
<1>2. \A d \in fds : ~Reads(d)'
  BY DEF Reads, Closed, FileType, NoFd
<1>3. \A d \in Fds \ fds : Reads(d)' <=> Reads(d)
  BY DEF Reads
<1>4. AbstractOpened' = [d \in Fds |-> IF d \in fds THEN Reader!None ELSE AbstractOpened[d]]
  BY <1>2, <1>3 DEF AbstractOpened, Reader!None, NoFd
<1>5. AbstractPos' = [d \in Fds |-> IF d \in fds THEN 0 ELSE AbstractPos[d]]
  BY <1>2, <1>3 DEF AbstractPos
<1>6. Reader!Close(fds)
  BY <1>1, <1>4, <1>5
    DEF Reader!Close, AbstractOpened, AbstractPos, Request, Buffer
<1> QED
  BY <1>6 DEF Reader!Next

LEMMA AskSeen ==
  ASSUME NEW d \in Fds, NEW n \in 0..Size, file_read(d, n)
  PROVE  [Reader!Next]_(Reader!reading)
<1>1. /\ Request = Reader!Idle
      /\ fd' = d /\ nbytes' = n /\ buf' = Blank /\ fd_arr' = fd_arr
  BY NoRequest DEF file_read
<1>2. UNCHANGED <<AbstractOpened, AbstractPos>> /\ Reads(d)' = Reads(d)
  BY <1>1 DEF AbstractOpened, AbstractPos, Reads
<1>3. d # NoFd
  BY FilesSizes
<1>4. CASE Reads(d)
  <2>1. Served'
    BY <1>1, <1>2, <1>3, <1>4 DEF Served, Idle
  <2>2. Request' = [fd |-> d, nbytes |-> n] /\ Buffer' = Reader!Blank
    BY <1>1, <2>1 DEF Request, Buffer, Blank, Reader!Blank
  <2>3. AbstractOpened[d] # Reader!None
    BY <1>4, FilesAssumption DEF AbstractOpened, Reads, Numbered, Reader!None
  <2>4. Reader!Ask(d, n)
    BY <1>1, <1>2, <2>2, <2>3
      DEF Reader!Ask, AbstractOpened, AbstractPos, Request, Buffer
  <2> QED
    BY <2>4 DEF Reader!Next
<1>5. CASE ~Reads(d)
  <2>1. ~Served'
    BY <1>1, <1>2, <1>5 DEF Served, Reads
  <2>2. UNCHANGED Request
    BY <1>1, <2>1 DEF Request, Reader!Idle, Reader!None, NoFd
  <2> QED
    BY <1>1, <1>2, <2>2, Unseen
<1> QED
  BY <1>4, <1>5

LEMMA BlockSeen == read_data_block => [Reader!Next]_(Reader!reading)
<1> SUFFICES ASSUME read_data_block PROVE [Reader!Next]_(Reader!reading)
  OBVIOUS
<1>1. fd_arr' = fd_arr /\ fd' = fd /\ nbytes' = nbytes
  BY DEF read_data_block
<1>2. UNCHANGED <<AbstractOpened, AbstractPos, Request>> /\ Served' = Served
  BY <1>1 DEF AbstractOpened, AbstractPos, Request, Served, Idle, Reads
<1>3. UNCHANGED Buffer \/ Request = Reader!Idle
  BY <1>2 DEF Buffer, Request, Reader!Idle, Reader!None, NoFd, Blank
<1> QED
  BY <1>2, <1>3, Unseen

LEMMA AnswerSeen ==
  ASSUME FilesInv, file_read_returns
  PROVE  [Reader!Next]_(Reader!reading)
<1>1. /\ fd \in Fds /\ fd # NoFd /\ nbytes \in 0..Size /\ ReadingInv /\ ~Continues
      /\ fd_arr' = [fd_arr EXCEPT ![fd].file_pos = @ + bytes_read]
      /\ fd' = NoFd /\ nbytes' = 0 /\ buf' = buf
  BY FilesSizes DEF file_read_returns, Advanced, FilesInv, LocalsInv, Idle
<1>2. /\ fd_arr \in [Fds -> Descriptor] /\ fd_arr[fd].file_pos \in Nat
      /\ bytes_read \in 0..nbytes
      /\ fd_arr[fd].inode \in DOMAIN inodes
  BY <1>1 DEF FilesInv, DescriptorsInv, Descriptor, ReadingInv
<1>3. /\ \A d \in Fds : /\ fd_arr'[d].type = fd_arr[d].type
                        /\ fd_arr'[d].inode = fd_arr[d].inode
      /\ \A d \in Fds \ {fd} : fd_arr'[d] = fd_arr[d]
      /\ fd_arr'[fd].file_pos = fd_arr[fd].file_pos + bytes_read
  BY <1>1, <1>2 DEF Descriptor
<1>4. /\ \A d \in Fds : Reads(d)' <=> Reads(d)
      /\ UNCHANGED AbstractOpened
  BY <1>3 DEF AbstractOpened, Reads
<1>5. ~Served' /\ Request' = Reader!Idle /\ Buffer' = buf
  BY <1>1 DEF Served, Idle, Request, Reader!Idle, Reader!None, NoFd, Buffer
<1>6. CASE Reads(fd)
  <2>1. Served /\ Request = [fd |-> fd, nbytes |-> nbytes]
    BY <1>1, <1>6 DEF Served, Idle, Request
  <2>2. /\ AbstractOpened[fd] = fd_arr[fd].inode
        /\ AbstractPos[fd] = fd_arr[fd].file_pos
    BY <1>1, <1>6 DEF AbstractOpened, AbstractPos
  <2> DEFINE left == Inode.length - fd_arr[fd].file_pos
             n == IF nbytes < left THEN nbytes ELSE left
  <2>3. /\ fd_arr[fd].file_pos + bytes_read <= Inode.length
        /\ buf = Filled(bytes_read) /\ Inode.length \in Nat
        /\ Inode = inodes[fd_arr[fd].inode]
    BY <1>1, <1>2, <1>6, FilesAssumption, FilesSizes DEF ReadingInv, Reads, Inode
  <2>4. bytes_read = n
    BY <1>1, <1>2, <2>3 DEF Continues
  <2>5. AbstractPos' = [AbstractPos EXCEPT ![fd] = @ + n]
    <3>1. ASSUME NEW d \in Fds
          PROVE  AbstractPos'[d] = [AbstractPos EXCEPT ![fd] = @ + n][d]
      BY <1>1, <1>3, <1>4, <1>6, <2>4 DEF AbstractPos
    <3> QED
      BY <1>1, <3>1 DEF AbstractPos
  <2>6. Request # Reader!Idle
    BY <1>1, <2>1 DEF Reader!Idle, Reader!None, NoFd
  <2>7. Buffer' = [k \in 0..Size - 1 |->
                     IF k < n THEN Byte(AbstractOpened[fd], AbstractPos[fd] + k)
                              ELSE Untouched]
    BY <1>5, <2>2, <2>3, <2>4 DEF Filled
  <2>8. /\ Request.fd = fd /\ Request.nbytes = nbytes
        /\ left = Length(AbstractOpened[fd]) - AbstractPos[fd]
    BY <2>1, <2>2, <2>3 DEF Length
  <2> HIDE DEF left
  <2> HIDE DEF n
  <2>9. n = IF Request.nbytes < left THEN Request.nbytes ELSE left
    BY <2>8 DEF n
  <2>10. LET who  == Request.fd
             rest == Length(AbstractOpened[who]) - AbstractPos[who]
             size == IF Request.nbytes < rest THEN Request.nbytes ELSE rest
         IN  /\ Request # Reader!Idle
             /\ Buffer' = [k \in 0..Size - 1 |->
                             IF k < size THEN Byte(AbstractOpened[who], AbstractPos[who] + k)
                                         ELSE Untouched]
             /\ AbstractPos' = [AbstractPos EXCEPT ![who] = @ + size]
             /\ Request' = Reader!Idle
             /\ UNCHANGED AbstractOpened
    BY <1>4, <1>5, <2>5, <2>6, <2>7, <2>8, <2>9
  <2>11. Reader!Answer
    BY <2>10 DEF Reader!Answer, AbstractOpened, AbstractPos, Request, Buffer
  <2> QED
    BY <2>11 DEF Reader!Next
<1>7. CASE ~Reads(fd)
  <2>1. ~Served /\ Request = Reader!Idle /\ Buffer = buf
    BY <1>7 DEF Served, Request, Reader!Idle, Reader!None, NoFd, Buffer
  <2>2. UNCHANGED AbstractPos
    BY <1>3, <1>4, <1>7 DEF AbstractPos
  <2> QED
    BY <1>4, <1>5, <2>1, <2>2, Unseen
<1> QED
  BY <1>6, <1>7

\* For every image, wherever the blocks of a file lie and whatever the sizes
\* programs read, the reads of a descriptor give the successive bytes of its file.
THEOREM FilesReadFiles == Spec => ReadsFile
<1>1. FilesInv /\ [Next]_vars => [Reader!Next]_(Reader!reading)
  <2> SUFFICES ASSUME FilesInv, [Next]_vars PROVE [Reader!Next]_(Reader!reading)
    OBVIOUS
  <2>0. fd_arr \in [Fds -> Descriptor] /\ Closed \in Descriptor
    BY DEF FilesInv, DescriptorsInv, Closed, Descriptor
  <2>1. ASSUME NEW e \in Entries, open(e) PROVE [Reader!Next]_(Reader!reading)
    BY <2>1, OpenSeen
  <2>2. ASSUME NEW d \in Fds, close(d) PROVE [Reader!Next]_(Reader!reading)
    <3>1. /\ Idle /\ UNCHANGED locals
          /\ fd_arr' \in [Fds -> Descriptor]
          /\ \A other \in {d} : fd_arr'[other] = Closed
          /\ \A other \in Fds \ {d} : fd_arr'[other] = fd_arr[other]
      BY <2>0, <2>2 DEF close
    <3>2. {d} \in SUBSET Fds
      OBVIOUS
    <3> QED
      BY <3>1, <3>2, CloseSeen
  <2>3. ASSUME NextProgram PROVE [Reader!Next]_(Reader!reading)
    <3>1. /\ Idle /\ UNCHANGED locals
          /\ fd_arr' \in [Fds -> Descriptor]
          /\ \A d \in Fds : fd_arr'[d] = Closed
      BY <2>0, <2>3 DEF NextProgram
    <3> QED
      BY <3>1, CloseSeen
  <2>4. ASSUME NEW d \in Fds, NEW n \in 0..Size, file_read(d, n)
        PROVE  [Reader!Next]_(Reader!reading)
    BY <2>4, AskSeen
  <2>5. CASE UNCHANGED <<fd_arr, locals>>
    <3>1. UNCHANGED <<AbstractOpened, AbstractPos, Request, Buffer>>
      BY <2>5 DEF locals, AbstractOpened, AbstractPos, Request, Buffer, Served, Idle, Reads,
                  Blank
    <3> QED
      BY <3>1, Unseen
  <2>6. ASSUME NEW d \in Fds, dir_read(d) \/ dir_read_end(d)
        PROVE  [Reader!Next]_(Reader!reading)
    BY <2>5, <2>6 DEF dir_read, dir_read_end
  <2>7. ASSUME file_read_returns PROVE [Reader!Next]_(Reader!reading)
    BY <2>7, AnswerSeen
  <2>8. CASE UNCHANGED vars
    BY <2>5, <2>8 DEF vars, locals
  <2> QED
    BY <2>1, <2>2, <2>3, <2>4, <2>6, <2>7, <2>8, BlockSeen DEF Next
<1> QED
  BY <1>1, ReaderInit, FilesInvAlways, PTL DEF Spec, ReadsFile, Reader!Spec
=============================================================================
