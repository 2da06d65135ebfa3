------------------------------ MODULE Programs ------------------------------
(***************************************************************************)
(* The programs of src/syscalls at work on the system calls: the shell, and*)
(* cat, ls, grep and syserr, one at a time above it.  A step of a program  *)
(* is a call and what it does with the answer.  A message counts as one    *)
(* character of what is shown.                                             *)
(***************************************************************************)
EXTENDS Calls

CONSTANTS
  BUFSIZE,    \* the buffer of grep; of cat
  Garbage,    \* what the stack may hold where grep has its buffer
  Behind      \* what lies behind the shell's line

Dot == <<".">>

\* What ece391syserr.c takes for no descriptors and no calls.
NEG_NUM == -1073741823
BIG_NUM == 1073741823

\* Entries have names, one each, and the one directory is ".", where ls and grep look
\* for it; only files have bytes.  The image says which programs its files are: no text
\* begins as a program does.
ASSUME ProgramsAssumption ==
  /\ BUFSIZE \in Nat \ {0} /\ LastFd \in 3..BIG_NUM - 1
  /\ Lines \subseteq Seq(STRING) /\ Behind \in Seq(STRING) /\ Garbage \subseteq STRING
  /\ \A image \in Images :
       /\ image \in Seq([name : Seq(STRING), kind : {"file", "dir", "rtc"},
                         run  : {"none", "cat", "ls", "grep", "syserr"}, data : Seq(STRING)])
       /\ \A e \in DOMAIN image : image[e].name # <<>> /\ Nul \notin ToSet(image[e].name)
       /\ \A e, f \in DOMAIN image : image[e].name = image[f].name => e = f
       /\ \A e \in DOMAIN image : image[e].kind # "file" => image[e].data = <<>>
       /\ \A e \in DOMAIN image : (image[e].kind = "dir") = (image[e].name = Dot)
       /\ \E e \in DOMAIN image : image[e].kind = "dir"

VARIABLES
  program, pc,
  args,          \* process_args
  resident,      \* the program the user page and execute's frame were last filled for
  status,        \* what the shell's execute has answered
  fd, file, fname,
  data, last, line_start, cnt,    \* do_one_file
  test, upto, step,               \* syserr: the test under way, the last, the call
  fail, total,                    \* the calls it has seen fail, its result so far
  line,          \* history: the line the shell has read
  shown,         \* history: what grep has shown for each entry it was given
  junk           \* history: the files for which its buffer held a newline at first

shell_vars  == <<args, resident, status, line>>
grep_vars   == <<file, fname, data, last, line_start, cnt, shown, junk>>
syserr_vars == <<test, upto, step, fail, total>>
vars == <<kernel, program, pc, shell_vars, fd, grep_vars, syserr_vars>>

NoData == [i \in 0..BUFSIZE |-> Nul]

NoLocals ==
  /\ fd = 0 /\ file = 0 /\ fname = <<>>
  /\ data = NoData /\ last = 0 /\ line_start = 0 /\ cnt = 0 /\ shown = <<>> /\ junk = {}
  /\ test = 0 /\ upto = 0 /\ step = 0 /\ fail = 0 /\ total = 0

Init ==
  /\ disk \in Images
  /\ fd_arr = Started /\ dir_count = 0 /\ out = <<>> /\ ret = 0 /\ got = <<>>
  /\ program = "shell" /\ pc = "prompt"
  /\ args = <<>> /\ resident = "shell" /\ status = 0 /\ line = <<>>
  /\ NoLocals

At(p, c) == program = p /\ pc = c
Goto(c)  == pc' = c /\ UNCHANGED program

\* ece391_fdputs writes what strlen counts.
Say(bytes) == Write(1, CString(bytes))

\* main returns, _start halts, and the shell's execute goes on with value.
Back(value) ==
  /\ program' = "shell" /\ pc' = "answer" /\ status' = value
  /\ UNCHANGED <<args, resident, line>>

Returns(value)       == Back(value) /\ UNCHANGED kernel
SayAndReturn(m, value) == Say(<<m>>) /\ Back(value)

-----------------------------------------------------------------------------
(* The shell. *)

\* read (0, buf, BUFSIZE-1).
ShellReads ==
  /\ At("shell", "prompt")
  /\ \E l \in Lines :
       /\ got' = Command(l, Behind) /\ ret' = Len(l) /\ line' = l
  /\ fd_arr' = Started /\ out' = <<>>
  /\ Goto("execute")
  /\ UNCHANGED <<disk, dir_count, args, resident, status, fd, grep_vars, syserr_vars>>

Refused == status' = -1 /\ Goto("answer") /\ UNCHANGED <<args, resident>>

Runs(p) ==
  /\ program' = p /\ pc' = "begin"
  /\ args' = Args(got) /\ resident' = p
  /\ UNCHANGED status

\* Nothing is read of an entry without bytes, and read_data's -1 is not looked at: the
\* check sees what the frame of an earlier execute has left, and the page runs.
Unchecked ==
  \/ Refused
  \/ resident # "shell" /\ Runs(resident)
  \/ status' = 256 /\ Goto("answer") /\ UNCHANGED <<args, resident>>

\* read_dentry_by_name looks through the unused entries too, whose name is empty.
\* The line "exit" ends the shell, and halt starts another in its place.
ShellExecutes ==
  /\ At("shell", "execute")
  /\ LET name  == FileName(got)
         found == Entries(name)
         entry == disk[Min(found)]
     IN  IF CString(got) \in {<<>>, Exit} THEN Goto("prompt") /\ UNCHANGED <<args, resident, status>>
         ELSE IF IsExit(got) THEN Refused
         ELSE IF name = <<>> THEN Unchecked
         ELSE IF found = {} THEN Refused
         ELSE IF entry.data = <<>> THEN Unchecked
         ELSE IF entry.run = "none" THEN Refused
         ELSE Runs(entry.run)
  /\ UNCHANGED <<kernel, line, fd, grep_vars, syserr_vars>>

\* The program and its variables are gone.
ShellAnswers ==
  /\ At("shell", "answer")
  /\ Goto("prompt")
  /\ CASE status = -1  -> Say(<<"no such command">>)
       [] status = 256 -> Say(<<"program terminated by exception">>)
       [] status = 0   -> UNCHANGED kernel
       [] OTHER        -> Say(<<"program terminated abnormally">>)
  /\ fd' = 0 /\ file' = 0 /\ fname' = <<>>
  /\ data' = NoData /\ last' = 0 /\ line_start' = 0 /\ cnt' = 0 /\ shown' = <<>> /\ junk' = {}
  /\ test' = 0 /\ upto' = 0 /\ step' = 0 /\ fail' = 0 /\ total' = 0
  /\ args' = <<>> /\ status' = 0
  /\ UNCHANGED <<resident, line>>

-----------------------------------------------------------------------------
(* cat and ls: open, then read and write until a read answers 0. *)

Listers == {"cat", "ls"}

\* getargs refuses an empty argument.
ListerOpens ==
  /\ program \in Listers /\ pc = "begin"
  /\ IF program = "cat" /\ args = <<>>
       THEN SayAndReturn("could not read arguments", 3)
       ELSE /\ Open(IF program = "cat" THEN args ELSE Dot)
            /\ Goto("opened") /\ UNCHANGED shell_vars
  /\ UNCHANGED <<fd, grep_vars, syserr_vars>>

ListerOpened ==
  /\ program \in Listers /\ pc = "opened"
  /\ IF ret = -1
       THEN SayAndReturn("open failed", 2) /\ UNCHANGED fd
       ELSE fd' = ret /\ Goto("read") /\ UNCHANGED <<kernel, shell_vars>>
  /\ UNCHANGED <<grep_vars, syserr_vars>>

ListerReads ==
  /\ program \in Listers /\ pc = "read"
  /\ Read(fd, BUFSIZE)
  /\ Goto("write")
  /\ UNCHANGED <<shell_vars, fd, grep_vars, syserr_vars>>

ListerWrites ==
  /\ program \in Listers /\ pc = "write"
  /\ CASE ret = 0  -> Returns(0)
       [] ret = -1 -> SayAndReturn("read failed", 3)
       [] OTHER    -> /\ Write(1, IF program = "ls" THEN Append(got, Newline) ELSE got)
                      /\ IF ret' = -1 THEN Back(3) ELSE Goto("read") /\ UNCHANGED shell_vars
  /\ UNCHANGED <<fd, grep_vars, syserr_vars>>

-----------------------------------------------------------------------------
(* grep. *)

GrepOpens ==
  /\ At("grep", "begin")
  /\ IF args = <<>>
       THEN SayAndReturn("could not read argument", 3)
       ELSE Open(Dot) /\ Goto("opened") /\ UNCHANGED shell_vars
  /\ UNCHANGED <<fd, grep_vars, syserr_vars>>

GrepOpened ==
  /\ At("grep", "opened")
  /\ IF ret = -1
       THEN SayAndReturn("directory open failed", 2) /\ UNCHANGED fd
       ELSE fd' = ret /\ Goto("list") /\ UNCHANGED <<kernel, shell_vars>>
  /\ UNCHANGED <<grep_vars, syserr_vars>>

GrepLists ==
  /\ At("grep", "list")
  /\ Read(fd, MAX_FILENAME)
  /\ Goto("entry")
  /\ UNCHANGED <<shell_vars, fd, grep_vars, syserr_vars>>

\* Names that begin with a dot are passed over.
GrepEntry ==
  /\ At("grep", "entry")
  /\ shown' = IF ret > 0 THEN Append(shown, <<>>) ELSE shown
  /\ CASE ret = 0  -> Returns(0) /\ UNCHANGED fname
       [] ret = -1 -> SayAndReturn("directory entry read failed", 3) /\ UNCHANGED fname
       [] ret > 0 /\ got[1] = "." ->
            Goto("list") /\ UNCHANGED <<kernel, shell_vars, fname>>
       [] OTHER -> fname' = got /\ Open(got) /\ Goto("file") /\ UNCHANGED shell_vars
  /\ UNCHANGED <<fd, file, data, last, line_start, cnt, junk, syserr_vars>>

FileOpened ==
  /\ At("grep", "file")
  /\ IF ret = -1
       THEN SayAndReturn("file open failed", 3) /\ UNCHANGED grep_vars
       ELSE /\ file' = ret /\ last' = 0
            /\ \E g \in Garbage :
                 /\ data' = [i \in 0..BUFSIZE |-> g]
                 /\ junk' = IF g = Newline THEN junk \cup {dir_count} ELSE junk
            /\ Goto("fill")
            /\ UNCHANGED <<kernel, shell_vars, fname, line_start, cnt, shown>>
  /\ UNCHANGED <<fd, syserr_vars>>

\* Mutant: what the unfinished line fills is not taken off.
RoomAlways == BUFSIZE

\* The room behind it.
Room == BUFSIZE - last

\* The message of a read or close that fails is left out.
FileFilled ==
  /\ At("grep", "fill")
  /\ Read(file, Room)
  /\ IF ret' = -1
       THEN Back(3) /\ UNCHANGED <<data, last, line_start, cnt>>
       ELSE /\ cnt' = ret' /\ last' = last + cnt' /\ line_start' = 0
            /\ data' = [i \in 0..BUFSIZE |->
                          IF i \in last..last' - 1 THEN got'[i - last + 1] ELSE data[i]]
            /\ Goto("line") /\ UNCHANGED shell_vars
  /\ UNCHANGED <<fd, file, fname, shown, junk, syserr_vars>>

line_end == First({i \in line_start..last - 1 : data[i] = Newline}, last)

\* The line in the buffer may go on in the file, and can be moved down.
Unfinished == data[line_end] # Newline /\ cnt # 0 /\ line_start # 0

\* Mutant: one character too few is kept.
CutShort == last - line_start - 1

\* How much of the buffer the unfinished line fills.
Cut == last - line_start

\* The strcpy stops at the first zero: at the latest the one put at the end.
LineCut ==
  /\ At("grep", "line") /\ Unfinished
  /\ LET ended  == [data EXCEPT ![line_end] = Nul]
         copied == Min({i \in 0..line_end - line_start : ended[line_start + i] = Nul})
     IN  data' = [i \in 0..BUFSIZE |->
                    IF i <= copied THEN ended[i + line_start] ELSE ended[i]]
  /\ last' = Cut
  /\ Goto("fill")
  /\ UNCHANGED <<kernel, shell_vars, fd, file, fname, line_start, cnt, shown, junk,
                 syserr_vars>>

\* The comparisons begin at every place of the line, also behind a zero in it.
Matches(text, s) ==
  \E check \in 0..Len(text) - Len(s) : SubSeq(text, check + 1, check + Len(s)) = s

\* What four calls of fdputs show of a line that matches.
Shows(text) ==
  IF Matches(text, args) THEN CString(fname) \o <<":">> \o CString(text) \o <<Newline>>
                         ELSE <<>>

LineSearched ==
  /\ At("grep", "line") /\ ~Unfinished
  /\ LET text == [i \in 1..line_end - line_start |-> data[line_start + i - 1]]
     IN  /\ IF Matches(text, args) THEN Write(1, Shows(text)) ELSE UNCHANGED kernel
         /\ shown' = [shown EXCEPT ![Len(shown)] = @ \o Shows(text)]
  /\ data' = [data EXCEPT ![line_end] = Nul]
  /\ line_start' = line_end + 1
  /\ IF line_start' >= last
       THEN last' = 0 /\ Goto(IF cnt = 0 THEN "close" ELSE "fill")
       ELSE UNCHANGED <<last, program, pc>>
  /\ UNCHANGED <<shell_vars, fd, file, fname, cnt, junk, syserr_vars>>

FileClosed ==
  /\ At("grep", "close")
  /\ Close(file)
  /\ IF ret' = -1 THEN Back(3) ELSE Goto("list") /\ UNCHANGED shell_vars
  /\ UNCHANGED <<fd, grep_vars, syserr_vars>>

-----------------------------------------------------------------------------
(* syserr: tests that count the calls that are refused. *)

OnFd(d) == << <<"read", d>>, <<"write", d>>, <<"close", d>> >>

Scripts == <<
  OnFd(NEG_NUM),                                                    \* err_neg_fd
  OnFd(BIG_NUM),                                                    \* err_big_fd
  [i \in 1..7 |-> <<"open", Dot>>] \o [i \in 1..6 |-> <<"close", i + 1>>],
  << <<"open", <<"h", "e", "l", "l", "o", "o">> >>,
     <<"open", <<"s", "h", "e", "l">> >>, <<"open", <<>> >> >>,      \* err_open
  [i \in 1..8 |-> <<"close", i - 1>>]
    \o [i \in 1..6 |-> <<"read", i + 1>>] \o [i \in 1..6 |-> <<"write", i + 1>>],
  << <<"vidmap", 0>>, <<"vidmap", 4194304>> >>,                     \* err_vidmap
  << <<"write", 0>>, <<"read", 1>> >>,                              \* err_stdin_out
  << <<"number", BIG_NUM>>, <<"number", NEG_NUM>>, <<"number", 0>> >> >>

Lots == 3   \* err_open_lots: one open of seven is refused, the closes are not looked at

Counted(t, s) == t # Lots \/ s <= 7

\* The calls a test wants refused.
Wanted(t) == IF t = Lots THEN 1 ELSE Len(Scripts[t])

Calls(c) ==
  CASE c[1] = "read"   -> Read(c[2], 31)
    [] c[1] = "write"  -> Write(c[2], <<"x">>)
    [] c[1] = "close"  -> Close(c[2])
    [] c[1] = "open"   -> Open(c[2])
    [] c[1] = "vidmap" -> Vidmap(c[2])
    [] c[1] = "number" -> NoCall(c[2])

SyserrAsks ==
  /\ At("syserr", "begin")
  /\ Say(<<"Choose from tests">>)
  /\ Goto("ask")
  /\ UNCHANGED <<shell_vars, fd, grep_vars, syserr_vars>>

SyserrReads ==
  /\ At("syserr", "ask")
  /\ Read(0, 127)
  /\ Goto("choose")
  /\ UNCHANGED <<shell_vars, fd, grep_vars, syserr_vars>>

Digits == <<"0", "1", "2", "3", "4", "5", "6", "7", "8">>

\* switch(select): 0 runs all.
SyserrChooses ==
  /\ At("syserr", "choose")
  /\ IF ret = -1 THEN SayAndReturn("Can't read test #", 2) /\ UNCHANGED syserr_vars
     ELSE IF \A i \in DOMAIN Digits : got[1] # Digits[i]
       THEN SayAndReturn("Invalid test number", 0) /\ UNCHANGED syserr_vars
       ELSE /\ \E select \in 0..8 :
                 /\ got[1] = Digits[select + 1]
                 /\ test' = IF select = 0 THEN 1 ELSE select
                 /\ upto' = IF select = 0 THEN 8 ELSE select
            /\ step' = 1 /\ fail' = 0 /\ total' = 0
            /\ Goto("test") /\ UNCHANGED <<kernel, shell_vars>>
  /\ UNCHANGED <<fd, grep_vars>>

SyserrCalls ==
  /\ At("syserr", "test") /\ step <= Len(Scripts[test])
  /\ Calls(Scripts[test][step])
  /\ fail' = IF Counted(test, step) /\ ret' = -1 THEN fail + 1 ELSE fail
  /\ step' = step + 1
  /\ UNCHANGED <<program, pc, shell_vars, fd, grep_vars, test, upto, total>>

TestEnds ==
  /\ At("syserr", "test") /\ step > Len(Scripts[test])
  /\ IF fail = Wanted(test) THEN Say(<<"PASS">>) /\ UNCHANGED total
                            ELSE Say(<<"FAIL">>) /\ total' = total + 2
  /\ IF test = upto THEN Goto("result") /\ UNCHANGED <<test, step, fail>>
                    ELSE test' = test + 1 /\ step' = 1 /\ fail' = 0 /\ UNCHANGED <<program, pc>>
  /\ UNCHANGED <<shell_vars, fd, grep_vars, upto>>

\* The result of all the tests is shown once more.
SyserrEnds ==
  /\ At("syserr", "result")
  /\ Back(total)
  /\ IF got[1] = "0" THEN Say(<<IF total = 0 THEN "PASS" ELSE "FAIL">>)
                     ELSE UNCHANGED kernel
  /\ UNCHANGED <<fd, grep_vars, syserr_vars>>

-----------------------------------------------------------------------------
ShellStep  == ShellReads \/ ShellExecutes \/ ShellAnswers
ListerStep == ListerOpens \/ ListerOpened \/ ListerReads \/ ListerWrites
GrepStep   == \/ GrepOpens \/ GrepOpened \/ GrepLists \/ GrepEntry
              \/ FileOpened \/ FileFilled \/ LineCut \/ LineSearched \/ FileClosed
SyserrStep == \/ SyserrAsks \/ SyserrReads \/ SyserrChooses
              \/ SyserrCalls \/ TestEnds \/ SyserrEnds

Next == ShellStep \/ ListerStep \/ GrepStep \/ SyserrStep

\* Nothing holds a program up but a read of the keyboard, and the user answers it.
Spec == Init /\ [][Next]_vars /\ WF_vars(ListerStep \/ GrepStep \/ SyserrStep)

-----------------------------------------------------------------------------
Ended(p) == At("shell", "answer") /\ resident = p /\ status \notin {-1, 256}

Names == [e \in DOMAIN disk |-> disk[e].name]

\* The places of a text where a line ends: newlines, and behind a last line without.
LineEnds(text) ==
  {k \in 1..Len(text) + 1 : IF k <= Len(text) THEN text[k] = Newline
                            ELSE text # <<>> /\ text[Len(text)] # Newline}

\* The line that ends at k.
LineTo(text, k) ==
  SubSeq(text, Max({0} \cup {j \in 1..k - 1 : text[j] = Newline}) + 1, k - 1)

Holds(text, s) ==
  \E i \in 1..Len(text) : i + Len(s) - 1 <= Len(text) /\ SubSeq(text, i, i + Len(s) - 1) = s

\* What there is to show of the line of entry e that ends at k, and of all its lines.
FoundAt(e, s, k) ==
  LET l == LineTo(disk[e].data, k)
  IN  IF k \in LineEnds(disk[e].data) /\ Holds(l, s)
        THEN disk[e].name \o <<":">> \o l \o <<Newline>> ELSE <<>>

Found(e, s) == FlattenSeq([k \in 1..Len(disk[e].data) + 1 |-> FoundAt(e, s, k)])

\* A file without zeros whose lines, with their ends, have room in the buffer.
TextLines(e) ==
  /\ Nul \notin ToSet(disk[e].data)
  /\ \A k \in LineEnds(disk[e].data) : Len(LineTo(disk[e].data, k)) < BUFSIZE

\* Where words of the line end, and the characters behind the first one.
Blanks  == {k \in DOMAIN line : line[k] \in {Space, Newline, Nul}} \cup {Len(line) + 1}
Letters == {k \in Min(Blanks)..Len(line) : k \notin Blanks}

\* The second word of what was typed.
SecondWord ==
  IF Letters = {} \/ \E k \in Min(Blanks)..Min(Letters) : line[k] \in {Newline, Nul} THEN <<>>
  ELSE SubSeq(line, Min(Letters), Min({k \in Blanks : k > Min(Letters)}) - 1)

\* The variables stay in their types: what runs above the shell, and what the user
\* page holds, is a program of the disk; a buffer's fill stays within it; and a test
\* stays within its script and counts no more calls than it has made.
TypeOK ==
  /\ disk \in Images
  /\ fd_arr \in [Fds -> [kind : {"closed", "std", "file", "dir", "rtc"},
                         entry : 0..Len(disk), pos : Nat]]
  /\ dir_count \in 0..Len(disk)
  /\ ret \in Int /\ ret >= -1
  /\ last \in 0..BUFSIZE /\ line_start \in 0..BUFSIZE + 1 /\ cnt \in 0..BUFSIZE
  /\ DOMAIN data = 0..BUFSIZE
  /\ resident # "shell" => \E e \in DOMAIN disk : disk[e].run = resident
  /\ program # "shell" => program = resident
  /\ test \in 0..8 /\ upto \in test..8 /\ fail \in 0..step /\ total \in 0..16
  /\ step \in IF test = 0 THEN {0} ELSE 1..Len(Scripts[test]) + 1
  /\ status \in {-1, 256} \cup 0..255

\* What cat and ls show is what the disk has: all the bytes of the file, or all
\* the names, each once and in order, also after an earlier listing; and cat says
\* no file when there is none (ece391cat.c and ece391ls.c on read, write and the
\* directory's counter).
ShowsFiles ==
  /\ Ended("cat") /\ status = 0 =>
       LET e == Min(Entries(args))
       IN  out = CASE disk[e].kind = "file" -> Visible(disk[e].data)
                   [] disk[e].kind = "dir"  -> Visible(FlattenSeq(Names))
                   [] disk[e].kind = "rtc"  -> <<>>
  /\ Ended("cat") => (status = 2) = (args # <<>> /\ Entries(args) = {})
  /\ Ended("ls") =>
       out = Visible(FlattenSeq([e \in DOMAIN disk |-> Append(disk[e].name, Newline)]))

\* grep ends with 0 having searched every entry in order, and of each file shows
\* exactly the lines that hold the word, once each and in order, also when a line lies
\* across two fills of its buffer: as long as the file is text without zeros, its lines
\* are shorter than the buffer, and the buffer did not hold a newline before it was
\* ever written (do_one_file of ece391grep.c).  Other files, such as the programs, do
\* not keep it from this.
GrepFinds ==
  Ended("grep") /\ args # <<>> =>
    /\ status = 0 /\ Len(shown) = Len(disk) /\ out = FlattenSeq(shown)
    /\ \A e \in DOMAIN disk :
         IF disk[e].name[1] = "." THEN shown[e] = <<>>
         ELSE TextLines(e) /\ e \notin junk => shown[e] = Found(e, args)

\* The tests of ece391syserr.c pass, alone and one after the other: what one leaves
\* open does not make another fail.
SyserrPasses ==
  Ended("syserr") => status = 0 /\ "FAIL" \notin ToSet(out)

\* A program gets the word typed behind its name, however many blanks are between
\* (execute and getargs of system_call.c on the line the shell has read).
ArgsAsTyped ==
  program # "shell" /\ line[1] # Space => args = SecondWord

\* "checking if the top 4 bytes match the magic numbers in exec_check": what runs
\* is a file that begins with them.
ExecutesOnlyPrograms ==
  program # "shell" => \E e \in DOMAIN disk :
                         disk[e].run = program /\ disk[e].name = FileName(Command(line, Behind))

\* Every command ends and the shell asks again: no read of a file or a directory
\* goes on giving bytes for ever (the loops of the programs until a read gives 0).
CommandsEnd == program # "shell" ~> program = "shell"
=============================================================================
