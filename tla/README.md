# CheeriOS in TLA+

CheeriOS (`src/student-distrib/`) is a small 32-bit x86 kernel in C: one
processor, no scheduler, three text terminals on one screen, a read-only file
system in a RAM disk, a keyboard, a periodic clock and eight system calls, with
a shell and a few programs above it (`src/syscalls/`). These modules model its
own logic as state machines, TLC checks them on small instances, and TLAPS
proves most of the safety properties for every size of tables, buffers and
screens.

## The system

| Component | State it keeps | Operations | Hard behaviour |
|---|---|---|---|
| Process management (`system_call.c`, `pcb.h`) | `process_num`, `programs_1..3`, `term1..3_active_pid`, `curr_PCB`, the PCBs, `tss.esp0`, the kernel stacks, `exception_flag` | `execute` (with the command `exit`), `halt`, an exception, `getargs` | saved frames, a limit, four counters kept in separate branches, work charged to whichever terminal is displayed |
| Descriptors (`system_call.c`) | `fd_arr` of `curr_PCB` | `open`, `close`, `read`, `write` | positions over calls; closed at halt |
| File system (`file_system.c`) | the image, never written; `dir_count` | lookup, `read_data`, `file_read`, `dir_read` | block and file boundaries, an 8-bit block number, one counter for all directory reads |
| Keyboard and terminals (`keyboard.c`) | three line buffers and counters, the pointer `count`, `readflag`, modifier keys, saved screens and cursors, `terminalCheck` | `keyboard_handler`, `read_terminal`, `write_terminal` | the handler interrupts the reader between any two of its accesses |
| Console (`lib.c`) | video memory, cursor, `newlinecheck` | `putc`, newline, backspace, clear, scroll | a cursor left outside the screen between calls |
| Clock (`rtc.c`) | `interrupt_flag`, the rate in register A | `rtc_init`, `rtc_handler`, `rtc_read`, `rtc_write` | a flag that outlives calls; an interrupt that must be acknowledged to come again |
| Memory (`paging.c`) | page directory, two page tables, the processor's translations | `paging_init`, `process_page`, `vidmap`, `flush_tlb` | which page is mapped for the program that continues; stale translations |
| Interrupts (`idt_init.c`, `assembly_linkage.S`) and their controller (`i8259.c`) | gates, flags, masks, requests, lines in service | gates, stubs, `enable_irq`, `send_eoi` | handlers inside handlers; requests lost on their way |
| Boot (`kernel.c`, `boot.S`) | | `entry` | the state the first shell finds |
| Text library (`lib.c`, `ece391support.c`) | the direction flag | memory, strings, `itoa`, number formats of `printf` | alignment, overlap, boundaries of numbers |
| User programs (`src/syscalls`) | their buffers and descriptors | shell, cat, ls, grep, syserr | lines across two fills of a buffer; loops that end when a read gives 0 |

How they interact. A program enters the kernel by `int 0x80`, whose linkage
turns interrupts off. `execute` disables interrupts and `prep_iret` passes the
kernel's flags on to the program, so **programs run with interrupts off**;
they are on only from the `sti` at the start of `read` (or at the end of
`rtc_write`) to the return of that call. The keyboard and clock gates are
interrupt gates. Hence every system call but these is one atomic step against
the handlers, and all the concurrency of the system is a `read` against the
interrupts: the keyboard (which changes `terminalCheck`, the buffers, the
screen) and the clock (which sets `interrupt_flag`). That this is so is itself
checked: `Interrupts` has the flag, the stubs and the gates, and implements
`Rtc`, where the handler is one step. `terminalCheck` is the one variable
everything shares: `execute`, `halt` and `exit` take the *displayed* terminal
for that of the program that calls.

What makes each component correct: the process counters agree and a halted
program gives way to its parent, on its parent's page and stack; a program
reaches its own memory and nothing else; reads of a file give its successive
bytes; keys edit the displayed line only and a line entered reaches a reader; a
terminal comes back as it was left; what is typed and erased shows on the
screen; no interrupt is lost, none reaches a handler that is not its own, and
the clock's readers are woken at the rate asked for; the programs show what the
disk holds. `PROJECT.json` lists, under "hazards", where each can go wrong.

## The modules

| Module | Models | State and actions |
|---|---|---|
| `Processes` | process management, the descriptor and video mappings it touches, terminal switches | the globals by their names; `pcb` per slot (slot k is the address 8MB - k*8KB, so pid p owns slot p + 1); `entry` per kernel stack: whose registers its top holds. `Execute`, `ExecuteFull`, `ExecuteExit`, `ExitRefused`, `HaltBase`, `HaltToParent`, `Exception`, `Open`, `Close`, `Vidmap`, `ReadBegin`, `ReadEnd`, `Switch`; `HaltFaults` and `ExitFaults` are the steps that read a PCB at an unmapped address |
| `Memory` | `Processes` composed with the page tables, what the processor may still hold of them, and `exception_flag` | every step of `Processes` with what it does to these; `paging_init`; `vidmap` in two steps, before and at its store |
| `Keyboard` | `keyboard_handler` and `read_terminal` | one action per key (the handler is atomic), one per shared access of the reader, `pc` for its place |
| `LineEditor` | what the keyboard promises of the lines being typed | abstract; `Keyboard` implements it (`EditsLines`) |
| `Characters`, `Screen` | the console functions of `lib.c` | operators on a screen record |
| `Console` | `Keyboard` composed with `Screen` | the same behaviours with a real screen: `Console.cfg` gives the parameters of `Keyboard` (`putc`, `newline_keyboard`, ...) the operators of `Screen` |
| `Files` | `open`, `close`, `file_read`, `read_data`, `dir_read` | `fd_arr`, `dir_count` and the locals of a read in progress, one block a step |
| `FileReader` | what reading a file promises a program | abstract; `Files` implements it (`ReadsFile`) |
| `Rtc` | the clock, its handler, `rtc_read`, `rtc_write` | abstract over the processor: a request is handled in one step while a call has interrupts on |
| `Interrupts` | boot, gates, stubs, controllers, with the timer, keyboard and clock raising their lines | `boot`, the flag, the stack of handlers with the place each has reached, `requested`, `masked`, `inservice`; extends `Rtc`, whose variables it shares, and implements it (`ImplementsRtc`) |
| `Text` | the functions of `lib.c` on bytes, strings and numbers, and those of `ece391support.c` that differ | a memory of a few bytes; one step per byte, or per word where the code moves words |
| `Commands` | the shell's line, `execute`'s parsing, `getargs` | operators on sequences of characters |
| `Calls` | `open`, `close`, `read`, `write` (to the terminal and the clock) and `vidmap`'s test as a program meets them | `disk`, `fd_arr`, `dir_count`, what is shown; an answer in `ret` and `got` |
| `Programs` | shell, cat, ls, grep, syserr on `Calls` and `Commands` | one action per call of a program with what it does with the answer |
| `MC*` | | instances for TLC |
| `*Proofs` | | theorems and their proofs, one module for each of `Processes`, `Memory`, `Keyboard`, `Console`, `Files`, `Interrupts` (with `Rtc`, which it extends), `Text`, `Programs` |

`Processes` is the core: it keeps the control of `execute` and `halt` line by
line, and abstracts the machine to what decides who continues. When `halt` jumps
back to a saved frame, `Continuations` says where the processor may go: a frame
still at the top of its stack returns to the program that waits there; one that
another call has been built over returns to whatever is there now, or is lost
(`Lost`), and the model stops. It also stops at a fault on a PCB address.
Which of the two a real machine does depends on stack contents the model does
not have, so the choice is free.

The models meet at these seams. `Memory` adds to each step of `Processes` and
never changes what it may do. `Console` is `Keyboard` with its parameters given.
`Interrupts` says why the handlers of `Keyboard` and `Rtc` may be single steps.
`Programs` takes reads of a file as `FileReader` promises them, a line as
`read_terminal` delivers it, and `execute` and `halt` of one program above the
shell; more than one above it is the matter of `Processes`.

History variables, marked as such, exist only for properties: `listed`, `given`
(`Files`), `frequency`, `handled` (`Rtc`), `was` (`Text`), `line`, `shown` (what
grep has shown for each entry) and `junk` (`Programs`).

## What TLC checks

| Run | Question | Bounds |
|---|---|---|
| `Processes` | type, agreement of counters, PCBs filled, order of pids, stacks, a terminal never left without program, hidden terminals untouched | three processes, one descriptor, all three function keys; about 4.6 million states |
| `Memory` | entries well formed, what a program reaches, that the kernel stays mapped, no stale translation, no exception charged to another program | two processes, terminals 1 and 2; the first and last page and pages 183 to 188 of every 4MB up to 140MB; seven pointers for `vidmap`, at its bounds and beside them |
| `Keyboard` | type and room for the newline, a line read leaves nothing behind, implements `LineEditor`, hidden screens kept, a read is answered | buffers of three characters, terminals 1 and 2 |
| `Console` | writes inside video memory, backspace undoes a character | two rows of two characters, lines of up to three, one letter |
| `Files` | positions and sizes, implements `FileReader`, the directory counter | two descriptors, blocks of three bytes, files of two and three blocks, block numbers that wrap at two |
| `Interrupts` | how handlers nest, service ends, requests kept, nothing unhandled, no interrupt ends two reads, reads return, implements `Rtc` (with its rate and frequency) | a handler inside another; every frequency and three words that are refused |
| `Text` | every function of bytes, strings and numbers against what it should compute, on calls that keep to their contract (`Proper`) | 20 bytes; every alignment, overlap and length around a word; numbers of 16 bits (`Modulus`) |
| `Programs` | cat and ls show what the disk holds, grep finds exactly the lines, the tests of syserr pass, arguments arrive as typed, commands end | every text of up to four characters over two letters and the newline, two longer ones and two with a zero; an empty file, and programs with zeros and newlines in them; a grep buffer of three; 29 lines to type, four of them without a newline |

Why these bounds are enough. With three processes a program executes a second,
halts below a third and finds the table full, and three terminals can each
have one; pids, slots and stacks are compared only with each other. `Memory` is
about one step of these at a time, for which two processes are enough: one is
the parent of the other, or of another terminal. The pages it looks at are one
of every kind the tables can tell apart. A buffer of three is empty, partly full
and full, and is zeroed in three steps a key can fall between; its keys are those
of one character, Enter, Backspace and the switches, the keys of letters and of
Ctrl being left to `Console`, which in turn leaves the switches to `Keyboard`:
neither looks at what the other changes, except that both type. On two
columns and two rows the third character wraps and the fifth scrolls. A
block of three bytes has a first, a middle and a last place, and reads begin and
end at each of them. Two lines are in use, so no more than two handlers could
nest; a third would need an interrupt inside the second, which `HandlersNest`
excludes, and the proof is for every depth. Words have four bytes: `memset` and
`memcpy` are called on every alignment, with no whole word, with one and, `memset`,
with two. In a
buffer of three a line of `grep` ends in the first fill, lies across two, and is
as long as the buffer.

Four runs expect a violation: each checks a sentence of the source's comments
that the code does not keep, and TLC shows how (`PROJECT.json`, "findings"):

- `HaltReturnsToParent`: halt goes back on the frame in slot `active`, not
  `active + 1`; nested programs return to the wrong one.
- `ReadReportsBytes`: a switch between the three tests of `read_terminal` makes
  it return an uninitialised size.
- `VidmapChecksPointer`: the bounds `vidmap` tests do not bound the four bytes it
  stores, so that the store may fault in the kernel.
- `ExecutesOnlyPrograms`: `execute` compares with the magic numbers a buffer that
  nothing was read into, for an entry without data.

Six more findings have a configuration of their own, which is no run of
`PROJECT.json` but can be checked like one (`tlc -config X.cfg M`):

- `ExecuteReturnsStatus` (`MCProcesses`): a status from 128 on comes back negative.
- `ExitReturnsToPrevious` (`MCProcesses`): `exit` changes the bookkeeping and not
  the control.
- `HaltUndoesVidmap` (`MCProcesses`): the statement that unmaps the video page is
  never reached.
- `BackspaceClears` (`MCConsole`): a character typed in the last column cannot be
  erased.
- `ListsAll` (`MCFiles`): a listing starts where the last, unfinished one stopped.
- `ReadChangesFrequency` (`MCInterrupts`): a read of the clock leaves its frequency as
  it was. `MachineOK`, which holds the rate at the last word `rtc_write` accepted over
  reads too, is what the code does; `rtc.h` says a read sets 2 Hz.

Every property of a passing run is shown to be sensitive to the code: each has a
mutant, an operator defined beside the one it replaces (its comment begins with
"Mutant:"), under which TLC finds it violated.

Fairness. `Keyboard` assumes that the reader goes on between two keys
(`WF_vars(ReadTerminal)`): a person types more slowly than the processor runs.
`Interrupts` assumes that handlers go on (`WF_all(Handles)`: they loop nowhere),
that the boot and a call go on between interrupts (`SF_all(Boots)`,
`SF_all(Calls)`: handlers take them the processor again and again, and give it
back), that periods of the clock end (`WF_all(PeriodEnds)`), that the clock's
request is served although the keyboard's is more urgent (`SF_all(Accept(Clock))`),
and `Pace`: again and again there is no handler and no key waiting, since keys
come seconds or tens of milliseconds apart and a handler takes microseconds. That
is what lets a period end between two handlers of `rtc_read`, and `ImplementsRtc`
derives the fairness of `Rtc` from it. `Programs` assumes that a program above the shell goes on
(`WF_vars(ListerStep \/ GrepStep \/ SyserrStep)`): nothing holds one up but a read of
the keyboard. The one that makes such a read is syserr, which asks for the number of a
test, and the user is assumed to answer it: without that `CommandsEnd` does not hold of
syserr. The user need not type another command, nor any other key, and no program is
assumed to make a call. `Processes`, `Memory`, `Console`, `Files` and `Text`
state safety only. The runs of `Processes`, `Memory` and `Text` turn deadlock
checking off because the system does stop: after a fault or a lost return nothing
more is known of it, and a behaviour of `Text` is one call.

## What is proved

Each proof module states what its theorems are for: every value of the constants
that the named assumptions of the module allow.

`ProcessesProofs`, for every `MaxProcesses`, `LastFd`, `Statuses` and
`SwitchTargets` that satisfy `ProcessesAssumption` (the table has a place, fds
are numbers, statuses are bytes), each invariant and action property of the run:

- `TypeCorrect`, `CountersAgree`: `TypeOK` and `CountsAgree`. The two are inductive
  together: that `process_num` does not go below 0 when a program leaves follows
  from the counters agreeing and the terminal having a program.
- `TerminalKept`, `HiddenUntouched`: by cases on the actions.
- `StackOwned`: `OwnOrFirstStack` is inductive on `TypeOK`.
- `PCBsFilled`: `FilledPCB` alone is not inductive, since a slot designated
  through a parent must have been filled; the strengthening is that filled slots
  are the first ones of the table, at least `process_num` of them.
- `PidsStayOrdered`: while terminals 2 and 3 have run no program, their counters
  are 0 and stay so (`OnlyFirstUsed`), so a program that leaves is the active one,
  whose parents have lower pids, and the active pid stays below `process_num`, the
  pid the next execute hands out. So neither the active program nor an ancestor of
  it loses its pid. It says nothing of the program that typed `exit`, which goes on
  running while the kernel takes its parent for the active one: the next execute may
  give it a child with its own pid.

`MemoryProofs`, for up to 512 processes (`MemoryAssumption`: as many as have their
PCBs in the kernel's page), any pages and any pointers. `MemoryRunsProcesses`
shows that `Memory` adds to `Processes` and changes nothing in it, so that the
invariants above hold in it. Every step is one of a few kinds (`MemoryKinds`), from which
`FlagNeverLeft` and `NoStaleTranslation` follow directly. The others need
`TablesInv`, which gives every entry of the directory: the two of the kernel, the
one of the running program, the one of `vidmap`, and nothing in any other.
From it come `MemoryTyped`, `ProgramsConfined` and `KernelStays`.

`KeyboardProofs`, for every buffer size, set of keys and operations on the screen:

- `KeyboardTyped`, `CountFollows`: `TypeOK` is inductive only with
  `CountOfDisplayed` (`count` designates the counter of the displayed terminal),
  since each key stores through the one and at the other.
- `NothingLeft`: `NothingLeftBehind` needs to know how far the zeroing of a buffer
  has come and what keys typed meanwhile can have stored there (`Swept`).
- `HiddenKept`, and `KeyboardEdits`: every step of the keyboard and the reader is a
  step of `LineEditor` or leaves its lines alone.

`ConsoleProofs`, for every number of rows and columns from two on. That the
parameters of `Keyboard` are the operators of `Screen` is a hypothesis of the
theorems (`OnScreen`), as it is a substitution in the run. Between two calls a
cursor may be a column right of the screen (`Sound`), within one also left of it
(`Accepted`), and once made up for it is inside (`Ready`); each operation leads
from one to the next. Results: `ScreensKept` and `ErasesTyped`.

`InterruptsProofs` first takes `Rtc` by itself, for every set of words: `ClockTyped`
rests on the two tables of `rtc_write` and that of the chip fitting each other
(`Tables`); `TickEndsOneRead` on a flag that is set, or was found set by a read about
to clear it, standing for an interrupt since the last read. Then the machine, for
every depth of nesting too: `LinesInv` and `NestInv` (only the last instructions of
the clock's stub can be interrupted, what is in service is what the topmost handler
has yet to acknowledge, the lines without a handler are masked) gives
`HandlersOnlyNest`, `EveryServiceEnds` and `NoneUnhandled`; with the chip's handshake
it gives `NoRequestLost`, and that every step is one of `Rtc` or one `Rtc` does not
see, so that `TickEndsOneReadHere` follows from `TickEndsOneRead`. `MachineTyped` adds
the sizes of stack and registers and, from `ClockTyped`, the rate.

`FilesProofs`, for every image and every size of blocks, block numbers, buffers and
tables that satisfy `FilesAssumption`:

- `AllBeforeEnd`: the entries given are always those below `dir_count`.
- `FilesTyped`: while a read goes on, its block and its place in the block are those
  of the next byte, also for a file with more blocks than a `uint8_t` numbers
  (`ReadingInv`); `OneBlock` says what one block adds to a read.
- `FilesReadFiles`: `Files` implements `FileReader`, since the buffer holds the bytes
  from the position on (`Filled`). It rests on lemmas about quotients and
  remainders by the block size.

`TextProofs`, for every size of the memory, all its contents and every width of
numbers (`Modulus`: 2^32 is one value, the 2^16 of the run another), and every call
that keeps to `Proper`, what the callers of these functions owe them: regions in
memory, strings that end there, regions that do not overlap for `memcpy`, room in
the buffer for the digits. `CallsProper`, the assumption that says so, is evaluated
by the run, and each clause is one the functions need: without it they write past
their regions. `TextInv` has a part for each function, which says how much of its
work is done at each place and that memory is otherwise as it was.

- `TextTyped`: no register or index leaves the memory.
- `BytesWritten`: `memset` and `memcpy` have done the bytes below `edi` and have the
  rest in `ecx` words and `edx` bytes; `memmove` backwards has done those above; what
  is still to be read has not been written over (`BlockData`, `ForwardData`).
- `StringsComputed`: a copy has not reached what it still reads; the comparisons
  stop at the first difference; `strrev` has mirrored the ends of the string
  (`Mirror`).
- `NumbersPrinted`: the digits are the remainders of the successive quotients
  (`Raw`), reversed by `strrev` (`Formed`), and denote the number (`DenotedIs`).

The last needs induction over data. An induction rule with a predicate as
parameter cannot be used with these provers, so `LeastOfSet`, `Induction` and
`Recursion` state it for sets of numbers: a set that holds 0 and is closed under
the successor holds all, which follows from the library's fact that the order of the
naturals is well-founded. The recursive functions of `Text` (`Quotient`, `Denoted`)
are shown to be what their recursion says by these.

`ProgramsProofs`, for every disk whose entries have names, one each, and whose one
directory is ".", every set of lines, whatever lies behind the shell's line, and every size of
grep's buffer (`ProgramsAssumption`). `ProgramsInv` is inductive; it has a part for
each program:

- The shell hands over a fresh table of descriptors and the directory at its first
  entry (`ShellInv`, `RunningInv`); that the next program finds them so is what each
  program leaves: ls and grep read the directory to its end, which sets the counter
  back, and cat of a directory does too. `FilesShown` fails without it.
- `ListerInv`: between two calls of cat or ls, what is shown is what the disk has up
  to the position of the descriptor, for a file (`FileListed`), the directory
  (`DirectoryListed`) or the clock. `FlattenAppend` and `VisibleJoin` say that
  showing two parts shows the whole.
- `GrepInv` has the directory on descriptor 2 and the file on 3, so that a read of
  one does not move the other, and the fill within the buffer.
- `SyserrInv`: a test has a place in its script, and the test that reads descriptors
  has closed them all before, so that it waits for nothing.

From it `ProgramsTyped` (with that what runs, and what the user page holds, is a program
of the disk, and the bounds of a test's step by its script), `FilesShown`, and with
hypotheses of their own:

- `EveryTestPasses`: `SyserrPasses`, if there are eight descriptors, as in the code
  (the calls of `err_open_lots` and `err_unopened` are for six that can be opened),
  and no file has a name `err_open` looks for in vain (`NoneToFind`). `PassInv` adds
  what a test has counted and, in `err_open_lots`, the table before each call
  (`LotsAt`): six given away, the seventh refused, then taken back one by one, so
  that the next test finds a fresh table.
- `ArgumentGiven`: `ArgsAsTyped`, if a line is at most `ARGLENGTH` long, as the
  keyboard's buffer is, and its first word ends within `MAX_FILENAME` characters
  (`LinesEntered`), at a blank or a newline: `execute` takes 32 characters of a longer one
  for the name and the rest for the argument, and does not see the zero that ends a
  word. Lines that end so, without a newline, are left to the run. The parse of `execute`, which looks for the end of a name
  without minding zeros, and `SecondWord`, which is about the line alone, find the
  same places (`NameEnds`, `SecondWords`).
- `LinesFound`: `GrepFinds`, with `LinesEntered`, for which `ArgsKnown` gives the word.
  It asks nothing more of the disk: what `shown` has for an entry is right for each file that
  is text, without zeros and with lines shorter than the buffer (`TextLines`), whatever
  the others hold; the programs, full of zeros, where `strcpy` and `ece391_fdputs` stop
  early, are gone through like the texts and disturb none of them. `SearchInv` adds to
  `ProgramsInv`, for each step of grep, that what is right has been shown for each entry
  it has finished (`Right`), nothing yet for the one it is about to open, and of a text
  it is in what ends before the line the buffer is at (`Search`); `Shape` says that all
  that is shown is the parts in order. What lies in the buffer from that line on is the
  file up to the descriptor's position (`Buffered`), all newlines in the buffer belong to
  it, and a fill that was short of the room has reached the end of the file. The last is
  why nothing is lost when an unfinished line is shown; `LongLine` is where a line shorter
  than the buffer is needed, and a newline left behind the fill is what makes the cut
  (line 33) go wrong. `LineShown`: a line that is searched adds what there is to show of
  the places up to its end; `SearchEnds`: at the end of the file that is all.

`Char` of this module names the literal characters beside `STRING`, because the
provers do not know that they belong to it. The instance of the run satisfies
`NoneToFind`, and `LinesEntered` but for two of its lines, whose first word a zero ends:
of these the run shows more than the theorems.

Only model-checked: liveness under fairness (`ReadAnswered`, `ReadReturns`,
`CommandsEnd`, the fairness part of `ImplementsRtc`), which is beyond the prover.
Every invariant, every action property and the safety part of every refinement that a
run checks is stated by a theorem. The runs that expect a violation have no theorem.

## Abstractions and what is not modelled

- A call that is refused is one step that returns -1 (`SyscallFails`) or, where
  the return value is not state, no step; `Calls` has the refusals of the calls on
  descriptors.
- `Processes` lets a program make any call; which programs exist is left to
  `Programs`.
- `Boot` of `Processes` and `Keyboard` starts where the first shell runs. From
  `rtc_init` on the boot has interrupts on: `Interrupts` has the keys and periods
  that fall there, `Keyboard` does not.
- The end of `rtc_write`, where interrupts are on too, is to the modules other
  than `Rtc` and `Interrupts` the same as a `read`.
- The chips (the two 8259A, the clock, the keyboard controller and the timer) and
  the processor's walk of the page tables are modelled from how the kernel uses
  them, and marked external in the map. Bits for caching are left out.
- The table of scan codes: a key whose code is not in it does nothing. The loop
  in `keyboard_handler` compares with bytes behind the table as well; in the
  image the compiler lays out these are no codes a key sends.
- `memcpy` of a line to the program is one step in `Keyboard`, since nothing there
  depends on the characters delivered.
- The contents of a page no terminal has displayed yet are some unknown character.
- `read_data` refuses an inode number the image does not have; `FilesAssumption`
  says images have no such entry, nor an unknown type. The parse of the image
  (`file_sys_init`) and the comparison of names byte by byte are not modelled: an
  entry is found by its name.
- `printf`'s loop over the format, `%c` and `%s`, and `puts`: they only pass
  characters on to `putc`. The port functions and the hardware cursor.
- In `Programs`: a message counts as one character; a few messages of grep and
  syserr that follow a failure the kernel cannot produce are left out; the shell
  runs one program at a time and no shell in a shell. The line `exit` ends the shell, and
  since the kernel starts another in its place this is a step back to the prompt; a
  longer command that begins with exit is the kernel's, refused here and a matter of
  `Processes`. Of an entry without bytes, an empty file, the clock or the unused entries,
  `execute` may do what its frame makes it: refuse, run the program loaded last, or fault
  (`Unchecked`). Files that begin as a program does are programs (`run`). `ArgsAsTyped`
  excludes lines that begin with a blank, which `execute` and `getargs` do not strip
  alike. `GrepFinds` says nothing of what is shown of files with zeros or lines as long as
  the buffer, or for which the buffer held a newline before it was ever written, where
  grep is wrong. A write to the clock answers 0 or -1 and its four bytes are those of
  `Rtc`; no modelled program makes one.
- `hello`, `testprint`, `counter` and `pingpong` make calls in a fixed order and
  keep no state that later calls depend on; `sigtest` is about signals, which the
  kernel refuses; `ece391emulate.c` replaces the kernel by Linux; `fish` is an
  animation, given with the course; `tests.c` is compiled only for tests.
- `rtc_open` and `rtc_close` are called by nothing or change nothing. The layout of
  descriptors (`x86_desc.h`), the multiboot information and the registers each
  stub saves are left out.
- Rows of `PROJECT.json` with status `not_modelled` say why.

## Plan

1. The lines `read_terminal` delivers, with content, against an abstract queue of
   lines, in place of the `Lines` of `Calls`; one kernel composed of `Processes`,
   `Keyboard` and `Calls`.
2. `file_sys_init` and the comparison of names as steps on bytes, with `Text`.
3. Shells in shells: `Programs` above `Processes`, so that what `halt` returns to
   decides which shell goes on.
