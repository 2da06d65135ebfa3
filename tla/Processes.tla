----------------------------- MODULE Processes -----------------------------
(***************************************************************************)
(* Process management of the kernel: execute, halt, the exception path,    *)
(* the descriptor and video mappings they touch, and the terminal switch   *)
(* that decides to which terminal all of them are charged.                 *)
(*                                                                         *)
(* One CPU, no scheduler: a program runs until it executes another one or  *)
(* halts.  A pid p owns the user page p (8MB + p*4MB), the kernel stack p  *)
(* (top 8MB - p*8KB - 4) and the PCB slot p+1 (address 8MB - (p+1)*8KB);   *)
(* slots 0 and -1 are addresses from 8MB up, which paging_init leaves      *)
(* unmapped.  The kernel runs with interrupts off except inside read, so   *)
(* every system call but read is one step.                                 *)
(***************************************************************************)
EXTENDS Integers

CONSTANTS
  MaxProcesses,   \* the limit of execute (6 in the code)
  LastFd,         \* the highest descriptor (MAX_VALID_FD, 7 in the code)
  Statuses,       \* the exit statuses programs pass to halt
  SwitchTargets   \* the terminals whose function key the user may press

ASSUME ProcessesAssumption ==
  /\ MaxProcesses \in Nat \ {0}
  /\ LastFd \in Nat
  /\ Statuses \subseteq 0..255
  /\ SwitchTargets \subseteq 1..3

Terminals == 1..3
Pids      == 0..MaxProcesses - 1
Slots     == 1..MaxProcesses
NoPid     == -1
Fds       == 2..LastFd
Lost      == -2      \* control left the saved frames: nothing is known to run

\* ksp_parent/kbp_parent: the stack the saved frame of execute is on, and
\* whether it is the frame a system call puts at the top of that stack (the
\* frames of the boot code and of halt's relaunch are at other places of it).
Frame == [stack : Pids, direct : BOOLEAN]

\* terminal is 0 in a slot no execute has filled.
PCB == [parent : Pids, terminal : Terminals \cup {0}, frame : Frame,
        fds : SUBSET Fds]

VARIABLES
  terminalCheck,  \* the displayed terminal
  process_num,    \* number of processes
  programs,       \* programs_1, programs_2, programs_3
  active,         \* term1_active_pid, term2_active_pid, term3_active_pid
  curr_PCB,       \* the slot the pointer designates
  pcb,            \* the process control blocks
  page,           \* the program page mapped at 128MB
  esp0,           \* the kernel stack the TSS designates
  entry,          \* per kernel stack: whose user registers its top holds, and
                  \* whether the call that put them there waits in execute
  vidmapped,      \* vidmap_page[0].present
  running,        \* the pid the user code on the CPU was started with
  eax,            \* what the last completed system call returned
  mode            \* "boot", "user", "read", "lost" or "fault"

vars == <<terminalCheck, process_num, programs, active, curr_PCB, pcb, page,
          esp0, entry, vidmapped, running, eax, mode>>

counters == <<process_num, programs>>
tables   == <<process_num, programs, active, curr_PCB, pcb>>
cpu      == <<page, esp0, running>>

\* The machine as entry() reaches its call of execute.
Init ==
  /\ terminalCheck = 1
  /\ process_num = 0
  /\ programs = [t \in Terminals |-> 0]
  /\ active = [t \in Terminals |-> NoPid]
  /\ curr_PCB = 0
  /\ pcb = [k \in Slots |-> [parent |-> 0, terminal |-> 0, fds |-> {},
                             frame |-> [stack |-> 0, direct |-> FALSE]]]
  /\ page = 0
  /\ esp0 = 0
  /\ entry = [s \in Pids |-> [pid |-> NoPid, waits |-> FALSE]]
  /\ vidmapped = FALSE
  /\ running = 0
  /\ eax = 0
  /\ mode = "boot"

-----------------------------------------------------------------------------
\* A trap from the program: the CPU pushes the user registers on stack esp0.
Entered(waits) == [entry EXCEPT ![esp0] = [pid |-> running, waits |-> waits]]

Syscall(waits) == mode = "user" /\ entry' = Entered(waits)

Returns(value) == eax' = value /\ mode' = "user"

\* A system call that changes nothing: a bad number or pointer, an execute of
\* a name that is empty, unknown or not an executable.
SyscallFails ==
  /\ Syscall(FALSE)
  /\ Returns(-1)
  /\ UNCHANGED <<terminalCheck, tables, cpu, vidmapped>>

\* Mutant: the slot of a pid is computed without the off-set of one.
SlotOfUnshifted(pid) == pid

SlotOf(pid) == pid + 1

\* The second half of execute: a program is given the pid process_num - 1.
\* n and progs are process_num and programs as they are when it is called.
Load(n, progs, frame) ==
  LET t     == terminalCheck
      first == progs[t] = 0
  IN  /\ process_num' = n + 1
      /\ programs' = [progs EXCEPT ![t] = @ + 1]
      /\ page' = n
      /\ curr_PCB' = SlotOf(n)
      /\ pcb' = [pcb EXCEPT ![SlotOf(n)] =
                   [parent |-> IF first THEN 0 ELSE active[t],
                    terminal |-> t, frame |-> frame, fds |-> {}]]
      /\ active' = [active EXCEPT ![t] = n]
      /\ esp0' = n
      /\ running' = n
      /\ Returns(43)        \* prep_iret leaves USER_DS in eax
      /\ UNCHANGED <<terminalCheck, vidmapped>>

Boot ==
  /\ mode = "boot"
  /\ Load(process_num, programs, [stack |-> 0, direct |-> FALSE])
  /\ UNCHANGED entry

\* Mutant: the table is found full one process too late.
FullTooLate == process_num > MaxProcesses

Full == process_num >= MaxProcesses

Execute ==
  /\ ~Full
  /\ Syscall(TRUE)
  /\ Load(process_num, programs, [stack |-> esp0, direct |-> TRUE])

\* "Max processes reached"
ExecuteFull ==
  /\ Full
  /\ Syscall(FALSE)
  /\ Returns(0)
  /\ UNCHANGED <<terminalCheck, tables, cpu, vidmapped>>

\* Mutant: the last program is looked for one too low.
OnlyProgramTooLow == programs[terminalCheck] = 0

\* What execute and halt test before they take a program off the terminal.
OnlyProgram == programs[terminalCheck] = 1

\* Mutant: process_num is not decremented.
LeaveUncounted ==
  /\ process_num' = process_num
  /\ programs' = [programs EXCEPT ![terminalCheck] = @ - 1]

\* Mutant: the program leaves the terminal it was started on.
LeaveOwnTerminal ==
  /\ process_num' = process_num - 1
  /\ programs' = [programs EXCEPT ![pcb[curr_PCB].terminal] = @ - 1]

\* The bookkeeping both do when a program leaves the displayed terminal.
Leave ==
  /\ process_num' = process_num - 1
  /\ programs' = [programs EXCEPT ![terminalCheck] = @ - 1]

\* Both take slot active[t] for the parent's PCB: that of pid active[t] - 1.
ParentSlot == active[terminalCheck]

\* Mutant: the slot's own number stays the active pid.
PreviousKept == ParentSlot

\* The pid that becomes active on the displayed terminal in its place.
Previous == pcb[ParentSlot].parent

\* The command "exit", which execute handles itself.
ExitRefused ==
  /\ OnlyProgram
  /\ Syscall(FALSE)
  /\ Returns(-1)
  /\ UNCHANGED <<terminalCheck, tables, cpu, vidmapped>>

ExecuteExit ==
  /\ ~OnlyProgram
  /\ ParentSlot \in Slots
  /\ Syscall(FALSE)
  /\ curr_PCB' = ParentSlot
  /\ active' = [active EXCEPT ![terminalCheck] = Previous]
  /\ Leave
  /\ Returns(0)
  /\ UNCHANGED <<terminalCheck, pcb, cpu, vidmapped>>

\* The same when that slot is not mapped: reading its parent_pid faults, and
\* the halt the page fault handler calls faults again, without end.
ExitFaults ==
  /\ ~OnlyProgram
  /\ ParentSlot \notin Slots
  /\ Syscall(FALSE)
  /\ curr_PCB' = ParentSlot
  /\ mode' = "fault"
  /\ UNCHANGED <<terminalCheck, counters, active, pcb, cpu, vidmapped, eax>>

-----------------------------------------------------------------------------
\* Where the CPU may continue from a saved frame, given what the tops of the
\* stacks hold.  A frame still in place returns to the program that waits
\* there; one that was built over returns to whatever is there now, or away.
Continuations(frame, tops) ==
  LET top == tops[frame.stack]
  IN  IF frame.direct /\ top.waits THEN {top.pid} ELSE {top.pid, Lost}

\* return_value is an int8_t that execute widens to int32_t.
Int8(status) == IF status < 128 THEN status ELSE status - 256

\* Mutant: the stack of the active pid's number is kept.
HaltStackKept == active[terminalCheck]

\* The kernel stack the TSS is given when halt goes back: always the first.
HaltStack == 0

\* halt on a terminal's only program starts a new shell in its place.
HaltBase ==
  /\ OnlyProgram
  /\ Syscall(FALSE)
  /\ Load(process_num - 1, [programs EXCEPT ![terminalCheck] = 0],
          [stack |-> esp0, direct |-> FALSE])

\* Otherwise halt closes the descriptors of curr_PCB and goes back; value is
\* what the execute it returns to answers.
HaltToParent(value) ==
  /\ ~OnlyProgram
  /\ ParentSlot \in Slots
  /\ Syscall(FALSE)
  /\ pcb' = [pcb EXCEPT ![curr_PCB].fds = {}]
  /\ Leave
  /\ curr_PCB' = ParentSlot
  /\ active' = [active EXCEPT ![terminalCheck] = Previous]
  /\ page' = Previous
  /\ esp0' = HaltStack
  /\ \E p \in Continuations(pcb[ParentSlot].frame, entry') :
       /\ running' = p
       /\ mode' = IF p = Lost THEN "lost" ELSE "user"
  /\ eax' = value
  /\ UNCHANGED <<terminalCheck, vidmapped>>

HaltFaults ==
  /\ ~OnlyProgram
  /\ ParentSlot \notin Slots
  /\ Syscall(FALSE)
  /\ pcb' = [pcb EXCEPT ![curr_PCB].fds = {}]
  /\ Leave
  /\ curr_PCB' = ParentSlot
  /\ mode' = "fault"
  /\ UNCHANGED <<terminalCheck, active, cpu, vidmapped, eax>>

Halt(status) == HaltBase \/ HaltToParent(Int8(status)) \/ HaltFaults

\* An exception in the program: the handler calls halt with exception_flag
\* set, and execute answers EXCEPTION_CODE.
Exception == HaltBase \/ HaltToParent(256) \/ HaltFaults

-----------------------------------------------------------------------------
Free == Fds \ pcb[curr_PCB].fds

Open ==
  /\ Syscall(FALSE)
  /\ \E fd \in Free :
       /\ \A other \in Free : fd <= other
       /\ pcb' = [pcb EXCEPT ![curr_PCB].fds = @ \cup {fd}]
       /\ Returns(fd)
  /\ UNCHANGED <<terminalCheck, counters, active, curr_PCB, cpu, vidmapped>>

Close(fd) ==
  /\ Syscall(FALSE)
  /\ fd \in pcb[curr_PCB].fds
  /\ pcb' = [pcb EXCEPT ![curr_PCB].fds = @ \ {fd}]
  /\ Returns(0)
  /\ UNCHANGED <<terminalCheck, counters, active, curr_PCB, cpu, vidmapped>>

Vidmap ==
  /\ Syscall(FALSE)
  /\ vidmapped' = TRUE
  /\ Returns(0)
  /\ UNCHANGED <<terminalCheck, tables, cpu>>

\* read waits for the keyboard or the clock with interrupts enabled.  How many
\* bytes it returns makes no difference here; 0 stands for all of them.
ReadBegin ==
  /\ mode = "user"
  /\ entry' = Entered(FALSE)
  /\ mode' = "read"
  /\ UNCHANGED <<terminalCheck, tables, cpu, vidmapped, eax>>

ReadEnd ==
  /\ mode = "read"
  /\ Returns(0)
  /\ UNCHANGED <<terminalCheck, tables, cpu, vidmapped, entry>>

\* The keyboard interrupt for Alt+F1..F3, as far as processes see it.
Switch(t) ==
  /\ mode = "read"
  /\ t # terminalCheck
  /\ terminalCheck' = t
  /\ UNCHANGED <<tables, cpu, vidmapped, entry, eax, mode>>

Next ==
  \/ Boot
  \/ Execute \/ ExecuteFull \/ ExitRefused \/ ExecuteExit \/ ExitFaults
  \/ SyscallFails
  \/ \E status \in Statuses : Halt(status)
  \/ Exception
  \/ Open \/ \E fd \in Fds : Close(fd)
  \/ Vidmap
  \/ ReadBegin \/ ReadEnd \/ \E t \in SwitchTargets : Switch(t)

Spec == Init /\ [][Next]_vars

-----------------------------------------------------------------------------
\* Type invariant.  process_num stays within the table and every slot, pid
\* and stack number execute and halt compute designates an existing one.
TypeOK ==
  /\ terminalCheck \in Terminals
  /\ process_num \in 0..MaxProcesses
  /\ programs \in [Terminals -> Int]
  /\ active \in [Terminals -> Pids \cup {NoPid}]
  /\ curr_PCB \in Slots \cup {-1, 0}
  /\ pcb \in [Slots -> PCB]
  /\ page \in Pids
  /\ esp0 \in Pids
  /\ entry \in [Pids -> [pid : Pids \cup {NoPid}, waits : BOOLEAN]]
  /\ vidmapped \in BOOLEAN
  /\ running \in Pids \cup {Lost}
  /\ eax \in Int
  /\ mode \in {"boot", "user", "read", "lost", "fault"}

\* Code runs on whose behalf the kernel can still act.
Live == mode \in {"user", "read"}

Filled(k) == pcb[k].terminal # 0

\* The four counters execute, halt and "exit" maintain in separate branches
\* never drift apart: process_num is the sum of the programs of the terminals.
CountsAgree == process_num = programs[1] + programs[2] + programs[3]

\* Whatever the order of execute, "exit", halt and terminal switches, the
\* kernel never works from a PCB no execute has filled: curr_PCB, the PCBs of
\* the active pids and those of all their ancestors are filled ones.
FilledPCB ==
  /\ Live => curr_PCB \in Slots /\ Filled(curr_PCB)
  /\ \A t \in Terminals :
       active[t] \in Pids => Filled(SlotOf(active[t]))
  /\ \A k \in Slots : Filled(k) => Filled(SlotOf(pcb[k].parent))

\* System calls of the running program are taken on the kernel stack of its
\* own pid or on that of pid 0, never on another program's.
OwnOrFirstStack == Live => esp0 \in {0, running}

\* As long as only the first terminal has run programs, the pid the next execute
\* gives away, process_num, is neither the active one nor any of its ancestors': a
\* parent's pid is lower than its child's, but for pid 0, its own parent, and the
\* active one is below process_num.  The active program need not be the one that
\* runs: after "exit" the next program may get the very pid of the one that asked.
PidsOrdered ==
  programs[2] = 0 /\ programs[3] = 0 =>
    /\ \A k \in Slots : Filled(k) =>
         pcb[k].parent < k - 1 \/ (k = 1 /\ pcb[k].parent = 0)
    /\ active[1] < process_num

\* A terminal that has run a program is never left without one: the last one
\* is refused "exit", and its halt is answered with a new shell.
TerminalKeepsProgram ==
  [][\A t \in Terminals : programs[t] >= 1 => programs'[t] >= 1]_vars

\* What a program does is charged to the displayed terminal alone: no call
\* disturbs the count or the active pid of a terminal that is not shown.
HiddenTerminalUntouched ==
  [][\A t \in Terminals \ {terminalCheck} :
       programs'[t] = programs[t] /\ active'[t] = active[t]]_vars

-----------------------------------------------------------------------------
\* Statements of the source's comments that the code does not satisfy.

\* A halt after which a program is known to continue.
HaltResumes ==
  \E status \in Statuses : HaltToParent(Int8(status)) /\ running' # Lost

\* halt "Restores parent data and parent paging" (system_call.c:294): the
\* program that continues is the parent of the one that halted.
HaltReturnsToParent ==
  [][HaltResumes => running' = pcb[SlotOf(running)].parent]_vars

\* execute's "Outputs: -1 or 256 or a value between 0-255"
\* (system_call.c:69): a program that continues after a halt finds one of
\* these in eax.
ExecuteReturnsStatus == [][HaltResumes => eax' \in -1..256]_vars

\* "if exit is called, exit to previous program" (system_call.c:100): the
\* program that continues is the parent of the one that asked.
ExitReturnsToPrevious ==
  [][ExecuteExit => running' = pcb[SlotOf(running)].parent]_vars

\* "If parent exists, undo paging" (system_call.c:300): the video page is no
\* longer mapped for the program that continues, as the statement
\* vidmap_page[0].present = DISABLE of halt (line 388) has it.
HaltUndoesVidmap == [][HaltResumes => ~vidmapped']_vars
=============================================================================
