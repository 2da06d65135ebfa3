---------------------------- MODULE MemoryProofs ----------------------------
(***************************************************************************)
(* Theorems about Memory, for every size of the process table up to the    *)
(* 512 whose PCBs the kernel's page has room for, every set of pages that  *)
(* is looked at and every set of pointers.                                 *)
(*                                                                         *)
(* Every step is one of the boot, one that gives the processor to a        *)
(* program, one that leaves the tables alone, or one of the two of vidmap  *)
(* (MemoryKinds). FlagInv and TlbFresh follow from these kinds alone.      *)
(* TablesInv, which says what every entry of the directory holds - the two *)
(* of the kernel, the one of the running program, the one of vidmap, and   *)
(* nothing in any other - gives the rest.                                  *)
(***************************************************************************)
EXTENDS Memory, ProcessesProofs

USE DEF Pids, NoPid, Live, NoPointer

\* Every step is one of Processes, or one the processes do not see.
LEMMA StepsOfProcesses == MemoryNext => Next \/ UNCHANGED vars
<1>1. ASSUME NEW status \in Statuses, NEW flag, Ends(status, flag) PROVE Next
  BY <1>1 DEF Ends, Answer, Next, Halt, Exception
<1>2. ASSUME Ends(0, Raised) PROVE Next
  BY <1>2 DEF Ends, Answer, Raised, Next, Exception
<1>3. ASSUME NEW status \in Statuses, Halts(status) PROVE Next
  BY <1>1, <1>3 DEF Halts
<1>4. CASE ProgramFaults \/ VidmapFaults
  BY <1>2, <1>4 DEF ProgramFaults, VidmapFaults
<1>5. CASE paging_init \/ VidmapStores
  BY <1>5 DEF paging_init, VidmapStores
<1>6. CASE ExecuteStarts \/ ExecuteReturns \/ ExecuteFaults
  BY <1>6 DEF ExecuteStarts, ExecuteReturns, ExecuteFaults, Next
<1>7. CASE OtherCalls \/ \E pointer \in Pointers : VidmapMaps(pointer)
  BY <1>7 DEF OtherCalls, VidmapMaps, Next
<1> QED
  BY <1>3, <1>4, <1>5, <1>6, <1>7 DEF MemoryNext

LEMMA TypesKept == TypeInv /\ [MemoryNext]_all => TypeInv'
BY StepsOfProcesses, TypeInvNext DEF all

\* The processes never notice the pages: every behaviour is one of Processes,
\* whose theorems hold here too.
THEOREM MemoryRunsProcesses == MemorySpec => Spec
<1>1. MemoryInit => Init
  BY DEF MemoryInit
<1>2. [MemoryNext]_all => [Next]_vars
  BY StepsOfProcesses DEF all
<1> QED
  BY <1>1, <1>2, PTL DEF MemorySpec, Spec

-----------------------------------------------------------------------------
\* Every step is one of five kinds, as far as the memory is concerned: the
\* boot's; one that gives the processor to a program; a call that leaves the
\* tables alone, or the end of everything; and the two steps of vidmap.
Gives ==
  /\ process_page(page') /\ UNCHANGED <<vidmap_page, vidmapped>>
  /\ flush_tlb /\ exception_flag' = 0 /\ mode' # "boot"
  /\ mode = "boot" => page_directory[1].present = 1
  /\ storing' = NoPointer

Leaves ==
  /\ UNCHANGED <<page_directory, vidmap_page, tlb, vidmapped>>
  /\ mode # "boot" /\ mode' # "boot"
  /\ exception_flag' \in {0, Raised, exception_flag}
  /\ storing' = NoPointer
  /\ Live' => /\ Live /\ page' = page /\ storing = NoPointer
              /\ exception_flag' \in {0, exception_flag}

LEMMA EndKinds ==
  ASSUME TypeInv, NEW status, NEW flag, Ends(status, flag), storing' = NoPointer
  PROVE  Gives \/ Leaves
<1>1. CASE HaltBase /\ Starts
  <2>1. /\ page' = process_num - 1 /\ process_num' = process_num - 1 + 1
        /\ mode' = "user" /\ mode = "user" /\ UNCHANGED vidmapped
    BY <1>1 DEF HaltBase, Load, Syscall, Returns
  <2>2. page' = process_num' - 1
    BY <2>1, Facts
  <2> QED
    BY <1>1, <2>1, <2>2 DEF Starts, Gives
<1>2. ASSUME NEW value, HaltToParent(value),
             process_page(active'[terminalCheck]), UNCHANGED vidmap_page,
             flush_tlb, Answered(flag)
      PROVE  Gives
  <2>1. /\ page' = Previous /\ mode' # "boot" /\ mode = "user"
        /\ active' = [active EXCEPT ![terminalCheck] = Previous]
        /\ UNCHANGED vidmapped
    BY <1>2 DEF HaltToParent, Syscall
  <2>2. active'[terminalCheck] = page'
    BY <2>1, Facts
  <2> QED
    BY <1>2, <2>1, <2>2 DEF Answered, Gives
<1>3. CASE HaltFaults /\ exception_flag' = Raised
           /\ UNCHANGED <<page_directory, vidmap_page, tlb>>
  BY <1>3 DEF HaltFaults, Syscall, Leaves
<1> QED
  BY <1>1, <1>2, <1>3 DEF Ends

LEMMA MemoryKinds ==
  ASSUME TypeInv, MemoryNext
  PROVE  \/ paging_init
         \/ Gives
         \/ Leaves
         \/ \E pointer \in Pointers : VidmapMaps(pointer)
         \/ VidmapStores
<1>1. ASSUME NEW status, NEW flag, Ends(status, flag), storing' = NoPointer
      PROVE  Gives \/ Leaves
  BY <1>1, EndKinds
<1>2. CASE (\E status \in Statuses : Halts(status)) \/ ProgramFaults \/ VidmapFaults
  BY <1>1, <1>2 DEF Halts, ProgramFaults, VidmapFaults, Idle
<1>3. CASE ExecuteStarts
  <2>1. PICK progs, frame : Load(process_num, progs, frame)
    BY <1>3 DEF ExecuteStarts, Boot, Execute
  <2>2. /\ page' = process_num /\ process_num' = process_num + 1
        /\ mode' = "user" /\ UNCHANGED vidmapped
    BY <2>1 DEF Load, Returns
  <2>3. page' = process_num' - 1
    BY <2>2, Facts
  <2> QED
    BY <1>3, <2>2, <2>3 DEF ExecuteStarts, Idle, Starts, Gives
<1>4. CASE ExecuteReturns
  BY <1>4 DEF ExecuteReturns, Idle, ExecuteFull, ExitRefused, ExecuteExit,
              SyscallFails, Syscall, Returns, cpu, Leaves
<1>5. CASE ExecuteFaults
  BY <1>5 DEF ExecuteFaults, Idle, ExitFaults, Syscall, cpu, Leaves
<1>6. CASE OtherCalls
  BY <1>6 DEF OtherCalls, Idle, SyscallFails, Open, Close, ReadBegin, ReadEnd,
              Switch, Syscall, Returns, cpu, Leaves
<1> QED
  BY <1>2, <1>3, <1>4, <1>5, <1>6 DEF MemoryNext

-----------------------------------------------------------------------------
\* The flag.
FlagInv == Live => exception_flag = 0

LEMMA FlagNext == TypeInv /\ FlagInv /\ [MemoryNext]_all => FlagInv'
<1> SUFFICES ASSUME TypeInv, FlagInv, [MemoryNext]_all PROVE FlagInv'
  OBVIOUS
<1>1. CASE UNCHANGED all
  BY <1>1 DEF all, vars, memory, FlagInv
<1>2. CASE paging_init
  BY <1>2 DEF paging_init, vars, FlagInv
<1>3. CASE Gives \/ Leaves
  BY <1>3 DEF Gives, Leaves, FlagInv
<1>4. ASSUME NEW pointer, VidmapMaps(pointer) PROVE FlagInv'
  BY <1>4 DEF VidmapMaps, Vidmap, Syscall, FlagInv
<1>5. CASE VidmapStores
  BY <1>5 DEF VidmapStores, vars, FlagInv
<1> QED
  BY <1>1, <1>2, <1>3, <1>4, <1>5, MemoryKinds

\* No program begins or goes on with the flag of an exception set, by whichever
\* of halt's three ways the last one ended: the next halt is reported as what
\* it is.
THEOREM FlagNeverLeft == MemorySpec => []FlagConsumed
<1>1. MemoryInit => TypeInv /\ FlagInv
  BY TypeInvInit DEF MemoryInit, FlagInv
<1>2. FlagInv => FlagConsumed
  BY DEF FlagInv, FlagConsumed, Runs
<1> QED
  BY <1>1, <1>2, TypesKept, FlagNext, PTL DEF MemorySpec

-----------------------------------------------------------------------------
\* The translations the processor holds depend on the tables alone.
LEMMA SameWalks ==
  ASSUME UNCHANGED <<page_directory, vidmap_page>>
  PROVE  Walks' = Walks
BY SMT DEF Walks, Walk, Mapped, Table, Large, Small

LEMMA TlbNext == TypeInv /\ TlbFresh /\ [MemoryNext]_all => TlbFresh'
<1> SUFFICES ASSUME TypeInv, TlbFresh, [MemoryNext]_all PROVE TlbFresh'
  OBVIOUS
<1>1. CASE UNCHANGED all
  BY <1>1, SameWalks DEF all, vars, memory, TlbFresh, Runs
<1>2. CASE paging_init
  BY <1>2 DEF paging_init, vars, TlbFresh, Runs
<1>3. CASE Gives \/ VidmapStores
  BY <1>3 DEF Gives, VidmapStores, flush_tlb, TlbFresh
<1>4. CASE Leaves
  BY <1>4, SameWalks DEF Leaves, TlbFresh, Runs
<1>5. ASSUME NEW pointer, VidmapMaps(pointer) PROVE TlbFresh'
  BY <1>5 DEF VidmapMaps, Refused, TlbFresh, Runs
<1> QED
  BY <1>1, <1>2, <1>3, <1>4, <1>5, MemoryKinds

\* No program runs on a translation of before the last change of the tables:
\* each of the ways by which they change is followed by a flush in time.
THEOREM NoStaleTranslation == MemorySpec => []TlbFresh
<1>1. MemoryInit => TypeInv /\ TlbFresh
  BY TypeInvInit DEF MemoryInit, Init, TlbFresh, Runs
<1> QED
  BY <1>1, TypesKept, TlbNext, PTL DEF MemorySpec

-----------------------------------------------------------------------------
\* What every entry of the tables holds once paging is on.
Tables ==
  /\ page_directory[0] =
       [base_address |-> FirstPageTable, page_size |-> 0, user_supervisor |-> 0,
        read_write |-> 0, present |-> 1]
  /\ page_directory[1] =
       [base_address |-> 1024, page_size |-> 1, user_supervisor |-> 0,
        read_write |-> 1, present |-> 1]
  /\ \A i \in Entries \ {0, 1, 32, 34} : page_directory[i].present = 0
  /\ page_directory[34].page_size = 0
  /\ page_directory[34].present = 1 =>
       /\ vidmapped
       /\ page_directory[34].base_address = VidmapPage
       /\ vidmap_page[0].base_address = 184

\* The entry of the running program.
Program ==
  /\ page_directory[32].present = 1
  /\ page_directory[32].page_size = 1
  /\ page_directory[32].base_address = 2048 + 1024 * page

TablesInv ==
  /\ page_directory \in [Entries -> Entry] /\ vidmap_page \in [Entries -> Entry]
  /\ exception_flag \in {0, 1} /\ storing \in Pointers \cup {NoPointer}
  /\ \A i \in Entries \ {0} : vidmap_page[i].present = 0
  /\ mode # "boot" => page_directory[1].present = 1
  /\ page_directory[1].present = 1 => Tables
  /\ mode = "boot" => page_directory[32].present = 0
  /\ mode # "boot" => page_directory[32].present = 1 /\ page_directory[32].page_size = 1
  /\ Live => Program

\* The indexes the code uses are entries.
LEMMA Indexes ==
  /\ {0, 1, 32, 34} \subseteq Entries
  /\ \A i \in Entries : i \in Nat /\ i < 1024
BY SMT DEF Entries, TOTAL_ENTRIES

\* What is in the frames there are.
LEMMA FrameNumbers ==
  /\ {0, 184, 1024, FirstPageTable, VidmapPage} \subseteq Frames
  /\ \A idx \in Pids : /\ 2048 + idx * 1024 \in Frames
                        /\ 2048 + idx * 1024 = 2048 + 1024 * idx
<1>0. LAST_PAGE \in Int /\ LAST_PAGE >= 600000
  BY SMT DEF LAST_PAGE
<1>1. {0, 184, 1024, FirstPageTable, VidmapPage} \subseteq Frames
  BY SMT, <1>0, MemoryAssumption DEF Frames
<1>2. ASSUME NEW idx \in Pids
      PROVE  /\ 2048 + idx * 1024 \in Frames
             /\ 2048 + idx * 1024 = 2048 + 1024 * idx
  <2>1. MaxProcesses \in Int /\ MaxProcesses <= 512
    BY SMT, MemoryAssumption, ProcessesAssumption
  <2>2. idx \in Int /\ 0 <= idx /\ idx <= 511
    BY SMT, <2>1, <1>2
  <2> QED
    BY SMT, <1>0, <2>2 DEF Frames
<1> QED
  BY <1>1, <1>2

LEMMA BlankEntries ==
  /\ Blank \in Entry /\ Blank.present = 0
  /\ Cleared \in Entry /\ Cleared.present = 0 /\ Cleared.page_size = 0
BY FrameNumbers DEF Blank, Cleared, Entry

LEMMA EntryOf ==
  /\ \A base \in Frames, size, user, write, present \in {0, 1} :
       [base_address |-> base, page_size |-> size, user_supervisor |-> user,
        read_write |-> write, present |-> present] \in Entry
  /\ \A e \in Entry : {e.page_size, e.read_write} \subseteq {0, 1}
BY DEF Entry

LEMMA TablesInit == MemoryInit => TablesInv
<1> SUFFICES ASSUME MemoryInit PROVE TablesInv
  OBVIOUS
<1>1. /\ page_directory = [i \in Entries |-> Blank]
      /\ vidmap_page = [i \in Entries |-> Blank]
      /\ exception_flag = 0 /\ storing = NoPointer /\ mode = "boot"
  BY DEF MemoryInit, Init
<1>2. \A i \in Entries : page_directory[i].present = 0 /\ vidmap_page[i].present = 0
  BY <1>1, BlankEntries
<1>3. page_directory[1].present = 0 /\ page_directory[32].present = 0
  BY <1>2, Indexes
<1>4. page_directory \in [Entries -> Entry] /\ vidmap_page \in [Entries -> Entry]
  BY <1>1, BlankEntries
<1> QED
  BY SMT, <1>1, <1>2, <1>3, <1>4 DEF TablesInv

LEMMA BootTables == TablesInv /\ paging_init => TablesInv'
<1> SUFFICES ASSUME TablesInv, paging_init PROVE TablesInv'
  OBVIOUS
<1>1. /\ mode = "boot" /\ mode' = mode /\ vidmap_page' = vidmap_page
      /\ exception_flag' = exception_flag /\ storing' = storing
  BY DEF paging_init, vars
<1>2. /\ page_directory'[0] =
           [base_address |-> FirstPageTable, page_size |-> 0,
            user_supervisor |-> 0, read_write |-> 0, present |-> 1]
      /\ page_directory'[1] =
           [base_address |-> 1024, page_size |-> 1, user_supervisor |-> 0,
            read_write |-> 1, present |-> 1]
      /\ \A i \in Entries \ {0, 1} : page_directory'[i] = Cleared
      /\ page_directory' = [i \in Entries |-> page_directory'[i]]
  BY SMT, Indexes DEF paging_init, KERNEL_BASE_ADDR
<1>3. \A i \in Entries : page_directory'[i] \in Entry
  <2>1. page_directory'[0] \in Entry
    <3>1. FirstPageTable \in Frames
      BY FrameNumbers
    <3>2. [base_address |-> FirstPageTable, page_size |-> 0, user_supervisor |-> 0,
           read_write |-> 0, present |-> 1] \in Entry
      BY <3>1, EntryOf
    <3> QED
      BY <1>2, <3>2
  <2>2. page_directory'[1] \in Entry
    <3>1. PICK base \in Frames : base = 1024
      BY SMT, FrameNumbers
    <3>2. [base_address |-> base, page_size |-> 1, user_supervisor |-> 0,
           read_write |-> 1, present |-> 1] \in Entry
      BY EntryOf
    <3> QED
      BY SMT, <1>2, <3>1, <3>2
  <2> QED
    BY <1>2, <2>1, <2>2, BlankEntries
<1>4. page_directory' \in [Entries -> Entry]
  BY <1>2, <1>3
<1>5. /\ \A i \in Entries \ {0, 1} : page_directory'[i].present = 0
      /\ page_directory'[34].page_size = 0 /\ page_directory'[34].present = 0
      /\ page_directory'[32].present = 0
  BY SMT, <1>2, Indexes, BlankEntries
<1>6. Tables'
  BY SMT, <1>2, <1>5 DEF Tables
<1> QED
  BY SMT, <1>1, <1>4, <1>5, <1>6 DEF TablesInv

\* process_page rewrites one entry and gives it the frame of its program.
LEMMA ProcessPage ==
  ASSUME page_directory \in [Entries -> Entry], NEW idx \in Pids, process_page(idx)
  PROVE  /\ page_directory' \in [Entries -> Entry]
         /\ \A i \in Entries : i # 32 => page_directory'[i] = page_directory[i]
         /\ page_directory'[32].present = 1
         /\ page_directory'[32].page_size = 1
         /\ page_directory'[32].base_address = 2048 + 1024 * idx
<1> DEFINE new == [base_address |-> 2048 + idx * 1024, page_size |-> 1,
                   user_supervisor |-> 1,
                   read_write |-> page_directory[32].read_write, present |-> 1]
<1>1. page_directory' = [page_directory EXCEPT ![32] = new]
  BY SMT DEF process_page, PROGRAM_PAGE_IDX, ProgramFrame
<1>2. page_directory[32].read_write \in {0, 1}
  BY SMT, Indexes, EntryOf
<1>3. 2048 + idx * 1024 \in Frames /\ 2048 + idx * 1024 = 2048 + 1024 * idx
  BY FrameNumbers
<1>4. new \in Entry
  <2> DEFINE base == 2048 + idx * 1024
  <2>1. base \in Frames
    BY <1>3
  <2> HIDE DEF base
  <2>2. [base_address |-> base, page_size |-> 1, user_supervisor |-> 1,
         read_write |-> page_directory[32].read_write, present |-> 1] \in Entry
    BY <1>2, <2>1, EntryOf
  <2> QED
    BY <2>2 DEF base
<1>5. page_directory'[32] = new
  BY SMT, <1>1, Indexes
<1>6. /\ page_directory' \in [Entries -> Entry]
      /\ \A i \in Entries : i # 32 => page_directory'[i] = page_directory[i]
  <2> HIDE DEF new
  <2> QED
    BY <1>1, <1>4
<1> QED
  BY SMT, <1>3, <1>5, <1>6

LEMMA GivesTables == TypeInv' /\ TablesInv /\ Gives => TablesInv'
<1> SUFFICES ASSUME TypeInv', TablesInv, Gives PROVE TablesInv'
  OBVIOUS
<1>1. page' \in Pids
  BY DEF TypeInv, TypeOK
<1>2. /\ page_directory' \in [Entries -> Entry]
      /\ \A i \in Entries : i # 32 => page_directory'[i] = page_directory[i]
      /\ page_directory'[32].present = 1
      /\ page_directory'[32].page_size = 1
      /\ page_directory'[32].base_address = 2048 + 1024 * page'
  BY <1>1, ProcessPage DEF TablesInv, Gives
<1>3. /\ vidmap_page' = vidmap_page /\ vidmapped' = vidmapped
      /\ exception_flag' = 0 /\ storing' = NoPointer /\ mode' # "boot"
      /\ page_directory[1].present = 1
  BY DEF Gives, TablesInv
<1>4. Tables'
  <2>1. /\ page_directory'[0] = page_directory[0]
        /\ page_directory'[1] = page_directory[1]
        /\ page_directory'[34] = page_directory[34]
        /\ \A i \in Entries \ {0, 1, 32, 34} : page_directory'[i] = page_directory[i]
    BY SMT, <1>2, Indexes
  <2>2. Tables
    BY <1>3 DEF TablesInv
  <2> QED
    BY SMT, <2>1, <2>2, <1>3 DEF Tables
<1>5. page_directory'[1].present = 1
  BY SMT, <1>2, <1>3, Indexes
<1> QED
  BY SMT, <1>2, <1>3, <1>4, <1>5 DEF TablesInv, Program

LEMMA VidmapTables ==
  ASSUME TablesInv, NEW pointer \in Pointers, VidmapMaps(pointer)
  PROVE  TablesInv'
<1>1. /\ mode = "user" /\ mode' = "user" /\ page' = page /\ vidmapped'
      /\ exception_flag' = exception_flag /\ storing' = pointer
  BY DEF VidmapMaps, Vidmap, Syscall, Returns, cpu
<1> DEFINE new == [base_address |-> VidmapPage,
                   page_size |-> page_directory[34].page_size,
                   user_supervisor |-> 1,
                   read_write |-> page_directory[34].read_write, present |-> 1]
           screen == [base_address |-> 184, page_size |-> 0,
                      user_supervisor |-> 1, read_write |-> 1, present |-> 1]
<1>2. page_directory' = [page_directory EXCEPT ![34] = new]
  BY SMT DEF VidmapMaps, USERIDXVIDMEM
<1>3. vidmap_page' = [i \in Entries |-> IF i = 0 THEN screen ELSE Blank]
  BY SMT DEF VidmapMaps, VIDEO_MEM_BASE_ADDR
<1>4. page_directory[34].page_size \in {0, 1} /\ page_directory[34].read_write \in {0, 1}
  BY SMT, Indexes, EntryOf DEF TablesInv
<1>5. new \in Entry /\ screen \in Entry
  <2>1. VidmapPage \in Frames /\ 184 \in Frames
    BY FrameNumbers
  <2> QED
    BY <1>4, <2>1, EntryOf
<1>6. page_directory'[34] = new /\ vidmap_page'[0] = screen
  BY SMT, <1>2, <1>3, Indexes DEF TablesInv
<1>7. /\ page_directory' \in [Entries -> Entry]
      /\ \A i \in Entries : i # 34 => page_directory'[i] = page_directory[i]
      /\ vidmap_page' \in [Entries -> Entry]
      /\ \A i \in Entries \ {0} : vidmap_page'[i] = Blank
  <2> HIDE DEF new, screen
  <2> QED
    BY <1>2, <1>3, <1>5, BlankEntries DEF TablesInv
<1>8. /\ page_directory'[0] = page_directory[0]
      /\ page_directory'[1] = page_directory[1]
      /\ page_directory'[32] = page_directory[32]
      /\ \A i \in Entries \ {0, 1, 32, 34} : page_directory'[i] = page_directory[i]
  BY SMT, <1>7, Indexes
<1>9. Tables'
  <2>1. Tables
    BY <1>1 DEF TablesInv
  <2> QED
    BY SMT, <1>1, <1>6, <1>8, <2>1 DEF Tables
<1>10. Program'
  BY SMT, <1>1, <1>8 DEF TablesInv, Program
<1>11. \A i \in Entries \ {0} : vidmap_page'[i].present = 0
  BY <1>7, BlankEntries
<1> QED
  BY SMT, <1>1, <1>7, <1>8, <1>9, <1>10, <1>11 DEF TablesInv

\* The tables stay as they are.
LEMMA SameTables ==
  ASSUME TablesInv, UNCHANGED <<page_directory, vidmap_page, vidmapped>>,
         exception_flag' \in {0, 1, exception_flag},
         storing' \in {NoPointer, storing},
         mode = "boot" <=> mode' = "boot",
         Live' => Live /\ page' = page
  PROVE  TablesInv'
BY SMT DEF TablesInv, Tables, Program

LEMMA TablesNext == TypeInv /\ TablesInv /\ [MemoryNext]_all => TablesInv'
<1> SUFFICES ASSUME TypeInv, TablesInv, [MemoryNext]_all PROVE TablesInv'
  OBVIOUS
<1>0. TypeInv'
  BY TypesKept
<1>1. CASE UNCHANGED all
  BY <1>1, SameTables DEF all, vars, memory
<1>2. CASE Leaves
  BY <1>2, SameTables DEF Leaves, Raised
<1>3. CASE VidmapStores
  BY <1>3, SameTables DEF VidmapStores, vars
<1>4. ASSUME NEW pointer \in Pointers, VidmapMaps(pointer) PROVE TablesInv'
  BY <1>4, VidmapTables
<1> QED
  BY <1>0, <1>1, <1>2, <1>3, <1>4, BootTables, GivesTables, MemoryKinds

\* Type correctness: in particular every entry the code writes is one, with a
\* frame of the processor's, for every pid.
THEOREM MemoryTyped == MemorySpec => []MemoryOK
<1>1. MemoryInit => TypeInv
  BY TypeInvInit DEF MemoryInit
<1>2. TablesInv => MemoryOK
  BY DEF TablesInv, MemoryOK
<1> QED
  BY <1>1, <1>2, TypesKept, TablesInit, TablesNext, PTL DEF MemorySpec

-----------------------------------------------------------------------------
\* Where a linear page lies in the tables.
LEMMA Halves ==
  ASSUME NEW l \in Frames
  PROVE  l \div 1024 \in Entries /\ l % 1024 \in Entries
<1>1. LAST_PAGE \in Int /\ LAST_PAGE < 1048576
  BY SMT DEF LAST_PAGE
<1>2. l \in Int /\ 0 <= l /\ l < 1048576
  BY SMT, <1>1 DEF Frames
<1>3. 0 <= l \div 1024 /\ l \div 1024 <= 1023 /\ 0 <= l % 1024 /\ l % 1024 <= 1023
  BY SMT, <1>2
<1> QED
  BY SMT, <1>2, <1>3 DEF Entries, TOTAL_ENTRIES

\* What the processor finds for each half, once paging is on.
LEMMA Found ==
  ASSUME TablesInv, mode # "boot", NEW l \in Frames,
         NEW d, d = l \div 1024, NEW n, n = l % 1024
  PROVE  /\ d = 0 => Walk(l).user = 0 /\ (n \in Screens => Walk(l).frame = n)
         /\ d = 1 => Walk(l).user = 0 /\ Walk(l).frame = 1024 + n
         /\ d = 32 => Walk(l).frame = page_directory[32].base_address + n
         /\ d = 34 /\ Walk(l).user = 1 => vidmapped /\ Walk(l).frame = 184
         /\ d \notin {0, 1, 32, 34} => Walk(l) = NotMapped
<1>1. Tables
  BY DEF TablesInv
<1>2. d \in Entries /\ n \in Entries
  BY Halves
<1>3. /\ l \div TOTAL_ENTRIES = d /\ l % TOTAL_ENTRIES = n
  BY SMT DEF TOTAL_ENTRIES
<1>4. CASE d = 0
  <2>1. /\ page_directory[d].present = 1 /\ page_directory[d].page_size = 0
        /\ page_directory[d].base_address = FirstPageTable
        /\ page_directory[d].user_supervisor = 0 /\ page_directory[d].read_write = 0
    BY SMT, <1>1, <1>4 DEF Tables
  <2>2. Table(FirstPageTable) = first_page_table
    BY MemoryAssumption DEF Table
  <2>3. /\ first_page_table[n].base_address = n
        /\ first_page_table[n].user_supervisor = 0
        /\ first_page_table[n].present = IF n \in Screens THEN 1 ELSE 0
    BY SMT, <1>2 DEF first_page_table
  <2> QED
    BY SMT, <1>3, <1>4, <2>1, <2>2, <2>3 DEF Walk, Small, NotMapped
<1>5. CASE d = 1
  <2>1. /\ page_directory[d].present = 1 /\ page_directory[d].page_size = 1
        /\ page_directory[d].base_address = 1024
        /\ page_directory[d].user_supervisor = 0 /\ page_directory[d].read_write = 1
    BY SMT, <1>1, <1>5 DEF Tables
  <2> QED
    BY SMT, <1>3, <1>5, <2>1 DEF Walk, Large
<1>6. CASE d = 32
  <2>1. page_directory[d].present = 1 /\ page_directory[d].page_size = 1
    BY <1>6 DEF TablesInv
  <2> QED
    BY SMT, <1>3, <1>6, <2>1 DEF Walk, Large
<1>7. CASE d = 34
  <2> SUFFICES ASSUME Walk(l).user = 1 PROVE vidmapped /\ Walk(l).frame = 184
    BY SMT, <1>7
  <2>1. NotMapped.user = 0
    BY SMT DEF NotMapped
  <2>2. page_directory[d].page_size = 0 /\ page_directory[d].present \in {0, 1}
    BY SMT, <1>1, <1>2, <1>7 DEF Tables, TablesInv, Entry
  <2>3. page_directory[d].present = 1
    BY SMT, <1>3, <2>1, <2>2 DEF Walk
  <2>4. /\ vidmapped /\ page_directory[d].base_address = VidmapPage
        /\ vidmap_page[0].base_address = 184
    BY SMT, <1>1, <1>7, <2>3 DEF Tables
  <2>5. Table(VidmapPage) = vidmap_page
    BY DEF Table
  <2>6. vidmap_page[n].present = 1
    BY SMT, <1>3, <2>1, <2>2, <2>3, <2>4, <2>5 DEF Walk
  <2>7. n = 0
    BY SMT, <1>2, <2>6 DEF TablesInv
  <2> QED
    BY SMT, <1>3, <2>2, <2>3, <2>4, <2>5, <2>6, <2>7 DEF Walk, Small
<1>8. CASE d \notin {0, 1, 32, 34}
  <2>1. page_directory[d].present = 0
    BY <1>1, <1>2, <1>8 DEF Tables
  <2> QED
    BY SMT, <1>3, <1>8, <2>1 DEF Walk
<1> QED
  BY SMT, <1>4, <1>5, <1>6, <1>7, <1>8

\* Whatever programs have run and been ended, one that runs reaches its own
\* 4MB and, once some program has asked for it, video memory.
THEOREM ProgramsConfined == MemorySpec => []ProgramsReach
<1>1. MemoryInit => TypeInv
  BY TypeInvInit DEF MemoryInit
<1>2. TypeInv /\ TablesInv => ProgramsReach
  <2> SUFFICES ASSUME TypeInv, TablesInv, Runs, NEW l \in LinearPages,
                      Walk(l).user = 1
               PROVE  \/ Walk(l).frame \in 2048 + 1024 * page..3071 + 1024 * page
                      \/ vidmapped /\ Walk(l).frame = 184
    BY DEF ProgramsReach
  <2>1. l \in Frames /\ mode # "boot" /\ Program
    BY MemoryAssumption DEF Runs, TablesInv
  <2>2. PICK d, n : d = l \div 1024 /\ n = l % 1024
    OBVIOUS
  <2>3. /\ d = 0 => Walk(l).user = 0
        /\ d = 1 => Walk(l).user = 0
        /\ d = 32 => Walk(l).frame = page_directory[32].base_address + n
        /\ d = 34 => vidmapped /\ Walk(l).frame = 184
        /\ d \notin {0, 1, 32, 34} => Walk(l) = NotMapped
    BY <2>1, <2>2, Found
  <2>4. d \in {32, 34}
    BY SMT, <2>3 DEF NotMapped
  <2>5. n \in Int /\ 0 <= n /\ n <= 1023 /\ page \in Int
    BY SMT, <2>1, <2>2, Halves, Indexes, ProcessesAssumption, Facts
  <2> QED
    BY SMT, <2>1, <2>3, <2>4, <2>5 DEF Program
<1> QED
  BY <1>1, <1>2, TypesKept, TablesInit, TablesNext, PTL DEF MemorySpec

\* The kernel's own pages are at their addresses whichever program is mapped,
\* and of the PCB slots exactly those of the table are there.
THEOREM KernelStays == MemorySpec => []KernelMapped
<1>1. MemoryInit => TypeInv
  BY TypeInvInit DEF MemoryInit
<1>2. TablesInv => KernelMapped
  <2> SUFFICES ASSUME TablesInv, mode # "boot" PROVE KernelMapped
    BY DEF KernelMapped
  <2>1. ASSUME NEW l \in LinearPages \cap (184..187 \cup 1024..2047)
        PROVE  Walk(l).frame = l
    <3>1. l \in Frames
      BY MemoryAssumption
    <3>2. CASE l \in 184..187
      <4>1. l \div 1024 = 0 /\ l % 1024 = l
        BY SMT, <3>2
      <4>2. l \in Screens
        BY SMT, <3>2 DEF Screens, VIDEO_MEM_IDX, MULTILIMIT
      <4> QED
        BY <3>1, <4>1, <4>2, Found
    <3>3. CASE l \in 1024..2047
      <4>1. l \div 1024 = 1 /\ l % 1024 = l - 1024
        BY SMT, <3>3
      <4>2. Walk(l).frame = 1024 + (l - 1024)
        BY <3>1, <4>1, Found
      <4> QED
        BY SMT, <3>3, <4>2
    <3> QED
      BY <2>1, <3>2, <3>3
  <2>2. ASSUME NEW slot \in Slots \cup {-1, 0},
               NEW l, l = (8388608 - 8192 * slot) \div 4096
        PROVE  Mapped(l) <=> slot \in Slots
    <3>1. slot \in Int /\ -1 <= slot /\ slot <= 512 /\ (slot \in Slots <=> 1 <= slot)
      BY SMT, <2>2, MemoryAssumption, ProcessesAssumption DEF Slots
    <3>2. l = 2048 - 2 * slot
      BY SMT, <2>2, <3>1
    <3>3. l \in Frames
      <4>1. LAST_PAGE \in Int /\ LAST_PAGE >= 600000
        BY SMT DEF LAST_PAGE
      <4> QED
        BY SMT, <3>1, <3>2, <4>1 DEF Frames
    <3>4. CASE slot \in Slots
      <4>1. l \div 1024 = 1 /\ l % 1024 = l - 1024
        BY SMT, <3>1, <3>2, <3>4
      <4>2. Walk(l).frame = 1024 + (l - 1024)
        BY <3>3, <4>1, Found
      <4>3. Walk(l).frame # NotMapped.frame
        BY SMT, <3>1, <3>2, <4>2 DEF NotMapped
      <4> QED
        BY <3>4, <4>3 DEF Mapped
    <3>5. CASE slot \notin Slots
      <4>1. l \div 1024 = 2
        BY SMT, <3>1, <3>2, <3>5
      <4>2. l \div 1024 \notin {0, 1, 32, 34}
        BY SMT, <4>1
      <4> QED
        BY <3>3, <3>5, <4>2, Found DEF Mapped
    <3> QED
      BY <3>4, <3>5
  <2> QED
    BY <2>1, <2>2 DEF KernelMapped
<1> QED
  BY <1>1, <1>2, TypesKept, TablesInit, TablesNext, PTL DEF MemorySpec
=============================================================================
