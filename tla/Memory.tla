------------------------------- MODULE Memory -------------------------------
(***************************************************************************)
(* Virtual memory: the page directory and the two page tables of the       *)
(* kernel, what paging_init, process_page and vidmap write to them, the    *)
(* translations the processor may still hold, and exception_flag, by which *)
(* a fault is told from a halt.  Every step of Processes is taken here     *)
(* together with what it does to these.                                    *)
(*                                                                         *)
(* Pages and frames are numbered: 4KB each, so 4MB is frame 1024.          *)
(***************************************************************************)
EXTENDS Processes

CONSTANTS
  FirstPageTable,  \* the frame of first_page_table
  VidmapPage,      \* the frame of vidmap_page
  LinearPages,     \* the linear pages the properties look at
  Pointers         \* the pointers programs pass to vidmap

TOTAL_ENTRIES      == 1024
VIDEO_MEM_IDX      == 184
MULTILIMIT         == 4
PROGRAM_PAGE_IDX   == 32
USERIDXVIDMEM      == 34
KERNEL_BASE_ADDR   == 1024
VIDEO_MEM_BASE_ADDR == 184
USER_TOP           == 134217728     \* 128MB
USER_ESP           == 138412028     \* 132MB - 4
EXEC_SIZE          == 4
LAST_PAGE          == 1048575       \* of 4GB

Entries == 0..TOTAL_ENTRIES - 1
Frames  == 0..LAST_PAGE

\* The tables are in the kernel's page, and so are the PCBs and kernel stacks of
\* all processes.
ASSUME MemoryAssumption ==
  /\ FirstPageTable \in 1024..2047 /\ VidmapPage \in 1024..2047
  /\ FirstPageTable # VidmapPage
  /\ MaxProcesses <= 512
  /\ LinearPages \subseteq Frames
  /\ Pointers \subseteq Nat

VARIABLES
  page_directory,
  vidmap_page,
  tlb,             \* the translations the processor may hold
  exception_flag,
  storing          \* vidmap is about to store the address of the page

memory  == <<page_directory, vidmap_page, tlb, exception_flag, storing>>
all     == <<vars, memory>>

Blank == [base_address |-> 0, page_size |-> 0, user_supervisor |-> 0,
          read_write |-> 0, present |-> 0]

\* Mutant: the loop ends before the last of the pages of the terminals.
ScreensShort == VIDEO_MEM_IDX..VIDEO_MEM_IDX + MULTILIMIT - 2

\* Video memory and the page behind it for each terminal.
Screens == VIDEO_MEM_IDX..VIDEO_MEM_IDX + MULTILIMIT - 1

\* The page table of the first 4MB, which never changes after paging_init.
first_page_table ==
  [i \in Entries |->
     [base_address |-> i, page_size |-> 0, user_supervisor |-> 0,
      read_write |-> 0, present |-> IF i \in Screens THEN 1 ELSE 0]]

-----------------------------------------------------------------------------
\* What the processor does with a linear page.
NotMapped == [frame |-> -1, user |-> 0, write |-> 0]

\* The two page tables; no entry of the directory designates another.
Table(frame) == IF frame = VidmapPage THEN vidmap_page ELSE first_page_table

Large(d, n) ==
  [frame |-> d.base_address + n,
   user  |-> d.user_supervisor, write |-> d.read_write]

Small(d, t) ==
  [frame |-> t.base_address,
   user  |-> d.user_supervisor * t.user_supervisor,
   write |-> d.read_write * t.read_write]

Walk(linear) ==
  LET d == page_directory[linear \div TOTAL_ENTRIES]
      n == linear % TOTAL_ENTRIES
      t == Table(d.base_address)[n]
  IN  IF d.present = 0 THEN NotMapped
      ELSE IF d.page_size = 1 THEN Large(d, n)
      ELSE IF t.present = 1 THEN Small(d, t)
      ELSE NotMapped

Mapped(linear) == Walk(linear) # NotMapped

\* The translations of the pages looked at.
Walks == {[linear |-> l, to |-> Walk(l)] : l \in {m \in LinearPages : Mapped(m)}}

\* Without a flush the processor may use old translations and new ones.
MayHold == tlb' = tlb \cup Walks'

\* Mutant: flush_tlb does nothing.
KeepTlb == MayHold

\* Writing cr3.
flush_tlb == tlb' = Walks'

-----------------------------------------------------------------------------
NoPointer == 0

MemoryInit ==
  /\ Init
  /\ page_directory = [i \in Entries |-> Blank]
  /\ vidmap_page = [i \in Entries |-> Blank]
  /\ tlb = {} /\ exception_flag = 0 /\ storing = NoPointer

Cleared ==
  [base_address |-> 0, page_size |-> 0, user_supervisor |-> 0,
   read_write |-> 1, present |-> 0]

paging_init ==
  /\ mode = "boot" /\ page_directory[1].present = 0
  /\ page_directory' = [i \in Entries |->
       CASE i = 0 -> [base_address |-> FirstPageTable, page_size |-> 0,
                      user_supervisor |-> 0, read_write |-> 0, present |-> 1]
         [] i = 1 -> [base_address |-> KERNEL_BASE_ADDR, page_size |-> 1,
                      user_supervisor |-> 0, read_write |-> 1, present |-> 1]
         [] OTHER -> Cleared]
  /\ UNCHANGED <<vars, vidmap_page, exception_flag, storing>>
  /\ flush_tlb

\* Mutant: the address is not shifted to a frame number.
ProgramFrameUnshifted(idx) == 8388608 + idx * 4194304

\* Mutant: pids taken to begin at 1.
ProgramFrameOfPrevious(idx) == 2048 + (idx - 1) * 1024

ProgramFrame(idx) == 2048 + idx * 1024

process_page(idx) ==
  page_directory' = [page_directory EXCEPT ![PROGRAM_PAGE_IDX] =
    [base_address |-> ProgramFrame(idx), page_size |-> 1,
     user_supervisor |-> 1, read_write |-> @.read_write, present |-> 1]]

-----------------------------------------------------------------------------
\* execute, which begins with exception_flag = 0, as far as the program runs.
Starts ==
  /\ process_page(process_num' - 1)
  /\ UNCHANGED vidmap_page
  /\ flush_tlb
  /\ exception_flag' = 0

\* What execute answers after the jump to get_ret_val.
Answer(status, flag) == IF flag = 1 THEN 256 ELSE Int8(status)

\* Mutant: get_ret_val leaves the flag.
AnsweredFlagLeft(flag) == exception_flag' = flag

\* The flag once get_ret_val has looked at it.
Answered(flag) == exception_flag' = 0

\* What every idt_XX leaves in exception_flag before it calls halt.
Raised == 1

\* halt(status), entered with exception_flag = flag.
Ends(status, flag) ==
  \/ HaltBase /\ Starts
  \/ /\ HaltToParent(Answer(status, flag))
     /\ process_page(active'[terminalCheck])
     /\ UNCHANGED vidmap_page
     /\ flush_tlb
     /\ Answered(flag)
  \/ /\ HaltFaults
     /\ exception_flag' = Raised
     /\ UNCHANGED <<page_directory, vidmap_page, tlb>>

\* No vidmap has begun to change the tables.
Idle == storing = NoPointer /\ UNCHANGED storing

ExecuteStarts ==
  /\ Idle /\ page_directory[1].present = 1
  /\ Boot \/ Execute
  /\ Starts

ExecuteReturns ==
  /\ Idle
  /\ ExecuteFull \/ ExitRefused \/ ExecuteExit \/ SyscallFails
  /\ exception_flag' = 0
  /\ UNCHANGED <<page_directory, vidmap_page, tlb>>

ExecuteFaults ==
  /\ Idle
  /\ ExitFaults
  /\ exception_flag' = Raised
  /\ UNCHANGED <<page_directory, vidmap_page, tlb>>

Halts(status) == Idle /\ Ends(status, exception_flag)

\* The handlers idt_XX: exception_flag = 1, halt((uint8_t)256).
ProgramFaults == Idle /\ Ends(0, Raised)

\* The calls that touch none of this.
OtherCalls ==
  /\ Idle
  /\ \/ SyscallFails
     \/ Open \/ \E fd \in Fds : Close(fd)
     \/ ReadBegin \/ ReadEnd \/ \E t \in SwitchTargets : Switch(t)
  /\ UNCHANGED <<page_directory, vidmap_page, tlb, exception_flag>>

-----------------------------------------------------------------------------
\* "oob pointer checking".
Refused(pointer) ==
  pointer = 0 \/ USER_TOP > pointer \/ pointer > USER_ESP + EXEC_SIZE

\* vidmap up to its assignment of *screen_start.
VidmapMaps(pointer) ==
  /\ storing = NoPointer /\ ~Refused(pointer)
  /\ Vidmap
  /\ page_directory' = [page_directory EXCEPT ![USERIDXVIDMEM] =
       [base_address |-> VidmapPage, page_size |-> @.page_size,
        user_supervisor |-> 1, read_write |-> @.read_write, present |-> 1]]
  /\ vidmap_page' = [i \in Entries |->
       IF i = 0 THEN [base_address |-> VIDEO_MEM_BASE_ADDR, page_size |-> 0,
                      user_supervisor |-> 1, read_write |-> 1, present |-> 1]
                ELSE Blank]
  /\ storing' = pointer
  /\ MayHold
  /\ UNCHANGED exception_flag

\* All four bytes behind the pointer can be written.
Stored(pointer) ==
  \A byte \in {pointer, pointer + EXEC_SIZE - 1} : Mapped(byte \div 4096)

VidmapStores ==
  /\ storing # NoPointer /\ Stored(storing)
  /\ storing' = NoPointer
  /\ UNCHANGED <<vars, page_directory, vidmap_page, exception_flag>>
  /\ flush_tlb

\* A page fault in the kernel, which idt_0E takes for one of the program.
VidmapFaults ==
  /\ storing # NoPointer /\ ~Stored(storing)
  /\ Ends(0, Raised)
  /\ storing' = NoPointer

MemoryNext ==
  \/ paging_init
  \/ ExecuteStarts \/ ExecuteReturns \/ ExecuteFaults
  \/ \E status \in Statuses : Halts(status)
  \/ ProgramFaults
  \/ OtherCalls
  \/ \E pointer \in Pointers : VidmapMaps(pointer)
  \/ VidmapStores \/ VidmapFaults

MemorySpec == MemoryInit /\ [][MemoryNext]_all

-----------------------------------------------------------------------------
Entry == [base_address : Frames, page_size : {0, 1},
          user_supervisor : {0, 1}, read_write : {0, 1}, present : {0, 1}]

\* Type invariant.
MemoryOK ==
  /\ {page_directory, vidmap_page} \subseteq [Entries -> Entry]
  /\ exception_flag \in {0, 1}
  /\ storing \in Pointers \cup {NoPointer}

Runs == Live /\ storing = NoPointer

\* A program that runs reaches the 4MB at 8MB + 4MB * page, the page Processes
\* gives it, and video memory once a program has asked for it: nothing of the
\* kernel, of another program, or of the pages behind a hidden terminal.
ProgramsReach ==
  Runs => \A l \in LinearPages : Walk(l).user = 1 =>
    \/ Walk(l).frame \in 2048 + 1024 * page..3071 + 1024 * page
    \/ vidmapped /\ Walk(l).frame = 184

\* The kernel finds its own 4MB and the video pages of the screen and of the
\* three terminals at their addresses, whichever program's page is mapped; and
\* of the PCB slots, exactly those execute fills are there: behind the slots 0
\* and -1, which halt and exit may compute, is the fault of ParentSlot.
KernelMapped ==
  mode # "boot" =>
    /\ \A l \in LinearPages \cap (184..187 \cup 1024..2047) :
         Walk(l).frame = l
    /\ \A slot \in Slots \cup {-1, 0} :
         Mapped((8388608 - 8192 * slot) \div 4096) <=> slot \in Slots

\* A program that runs meets no translation of before the last change of the
\* tables: what the processor may still hold is what the tables say.
TlbFresh == Runs => tlb = Walks

\* The flag is never left over for the halt of another program, by whichever
\* of halt's three ways an exception ended the program that raised it.
FlagConsumed == Runs => exception_flag = 0

\* "oob pointer checking" (system_call.c:538): vidmap stores through no pointer
\* behind which there is no memory of the program.
VidmapChecksPointer == storing # NoPointer => Stored(storing)
=============================================================================
