------------------------------ MODULE Keyboard ------------------------------
(***************************************************************************)
(* The keyboard of keyboard.c: the interrupt handler, and read_terminal    *)
(* which it interleaves with.  The handler runs to its end (its gate turns *)
(* interrupts off); a program and every other system call run with         *)
(* interrupts off; read lets them in from its sti to its return, so        *)
(* read_terminal is modelled one access of shared memory a step.           *)
(*                                                                         *)
(* The screen is a parameter: the module uses nothing but the operations   *)
(* of lib.c on it, which Console takes from Screen.  Pressing a key that   *)
(* no branch of the handler tests changes nothing.                         *)
(***************************************************************************)
EXTENDS Integers, Characters

CONSTANTS
  BufferLimit,            \* BUFFERLIMIT, 128
  Letters,                \* the keys of scan_pressed_normal, but the space
  Keys,                   \* the keys the user presses
  ReadSizes,              \* the nbytes programs read
  Outputs,                \* the characters programs write
  Cleared, Unwritten,     \* an empty screen, and one nobody has written
  putc(_, _), newline_keyboard(_), backspace_keyboard(_), clearscreen(_)

\* No key of the table gives the characters that have another meaning.
ASSUME KeyboardAssumption ==
  /\ BufferLimit \in Nat \ {0, 1}
  /\ Letters \cap {"space", "newline", "nul"} = {}
  /\ ReadSizes \subseteq Int

Terminals == 1..3
FunctionKey == <<"F1", "F2", "F3">>
CrtlCheck == "l"          \* the key that clears the screen

Chars == {Char(key, shifted) : key \in Letters, shifted \in {0, 1}} \cup {Space}

VARIABLES
  terminalCheck,    \* the displayed terminal
  globalbuffer,     \* globalbuffer1, globalbuffer2, globalbuffer3
  count,            \* count1, count2, count3
  counted,          \* the terminal whose count the pointer count designates
  readflag,
  capslockactive, shiftpressed, crtlpressed, altpressed,
  screen,           \* video memory and cursor
  saved,            \* the terminal's page and its saved cursor
  pc,               \* where the reader is; "user" is outside every read
  block,            \* the terminal whose if-statement it has reached
  i,                \* the index of the loop that zeroes the buffer
  nbytes,           \* the size it was asked for
  copied,           \* the buffers it has copied, each setting copysize
  unread            \* history: the terminals with a line no read has copied

vars == <<terminalCheck, globalbuffer, count, counted, readflag,
          capslockactive, shiftpressed, crtlpressed, altpressed,
          screen, saved, pc, block, i, nbytes, copied, unread>>

modifiers == <<capslockactive, shiftpressed, crtlpressed, altpressed>>
display   == <<terminalCheck, counted, saved>>
reader    == <<pc, block, i, nbytes, copied>>
lines     == <<globalbuffer, count, readflag, unread>>

\* The state in which entry() starts the first shell.
Init ==
  /\ terminalCheck = 1
  /\ globalbuffer = [t \in Terminals |-> [j \in 0..BufferLimit - 1 |-> Nul]]
  /\ count = [t \in Terminals |-> 0]
  /\ counted = 1
  /\ readflag = 0
  /\ capslockactive = 0 /\ shiftpressed = 0
  /\ crtlpressed = 0 /\ altpressed = 0
  /\ screen = Cleared
  /\ saved = [t \in Terminals |-> Unwritten]
  /\ pc = "user"
  /\ block = 1 /\ i = 0 /\ nbytes = 0 /\ copied = {} /\ unread = {}

-----------------------------------------------------------------------------
\* A keyboard interrupt: interrupts are on and the user acts on this key.
Pressed(key) == pc # "user" /\ key \in Keys

\* crtlpressed == 1 && input_scan_code == CRTLCHECK, the handler's first test.
Clears(key) == key = CrtlCheck /\ crtlpressed = 1

ClearKey ==
  /\ Pressed(CrtlCheck) /\ Clears(CrtlCheck)
  /\ screen' = clearscreen(screen)
  /\ UNCHANGED <<lines, modifiers, display, reader>>

\* Mutant: the page of the terminal left is not where it is saved.
StoredForNext(t) == [saved EXCEPT ![t] = screen]

\* What the pages hold after terminalCheck is saved and t is displayed.
Stored(t) == [saved EXCEPT ![terminalCheck] = screen]

\* Mutant: count stays with the terminal that was left.
CountOfLeft(t) == counted

\* The terminal whose counter count is set to.
CountOf(t) == t

\* Alt and a function key.
Switch(t) ==
  /\ Pressed(FunctionKey[t]) /\ altpressed = 1
  /\ terminalCheck # t
  /\ saved' = Stored(t)
  /\ terminalCheck' = t
  /\ counted' = CountOf(t)
  /\ screen' = saved[t]
  /\ UNCHANGED <<lines, modifiers, reader>>

\* The buffer of the displayed terminal receives a character at *count.
Store(char) ==
  globalbuffer' = [globalbuffer EXCEPT ![terminalCheck][count[counted]] = char]

Enter ==
  /\ Pressed("enter")
  /\ Store(Newline)
  /\ readflag' = 1
  /\ screen' = newline_keyboard(screen)
  /\ count' = [count EXCEPT ![counted] = 0]
  /\ unread' = unread \cup {terminalCheck}
  /\ UNCHANGED <<modifiers, display, reader>>

Backspace ==
  /\ Pressed("backspace")
  /\ count[counted] # 0
  /\ count' = [count EXCEPT ![counted] = @ - 1]
  /\ globalbuffer' =
       [globalbuffer EXCEPT ![terminalCheck][count[counted] - 1] = Nul]
  /\ screen' = backspace_keyboard(screen)
  /\ UNCHANGED <<unread, readflag, modifiers, display, reader>>

\* Mutant: the last place of the buffer, kept for the newline, is given away.
FullLate == count[counted] >= BufferLimit

\* maxflag, as the handler computes it on every interrupt.
Full == count[counted] >= BufferLimit - 1

Typed(char) ==
  /\ ~Full
  /\ Store(char)
  /\ count' = [count EXCEPT ![counted] = @ + 1]
  /\ screen' = putc(screen, char)
  /\ UNCHANGED <<unread, readflag, modifiers, display, reader>>

\* Space, and tab which puts a single space too.
SpaceKey == Pressed("space") /\ Typed(Space)

\* Caps lock and shift select the shifted half, unless both are on.
LetterKey(key) ==
  /\ Pressed(key) /\ ~Clears(key)
  /\ Typed(Char(key, IF capslockactive = shiftpressed THEN 0 ELSE 1))

Quiet == UNCHANGED <<lines, screen, display, reader>>

CapsKey ==
  /\ Pressed("caps") /\ capslockactive' = 1 - capslockactive
  /\ Quiet /\ UNCHANGED <<shiftpressed, crtlpressed, altpressed>>

ShiftKey(down) ==
  /\ Pressed("shift") /\ shiftpressed' = down
  /\ Quiet /\ UNCHANGED <<capslockactive, crtlpressed, altpressed>>

CrtlKey(down) ==
  /\ Pressed("crtl") /\ crtlpressed' = down
  /\ Quiet /\ UNCHANGED <<capslockactive, shiftpressed, altpressed>>

AltKey(down) ==
  /\ Pressed("alt") /\ altpressed' = down
  /\ Quiet /\ UNCHANGED <<capslockactive, shiftpressed, crtlpressed>>

KeyboardHandler ==
  \/ ClearKey
  \/ \E t \in Terminals : Switch(t)
  \/ Enter
  \/ Backspace
  \/ SpaceKey
  \/ \E key \in Letters : LetterKey(key)
  \/ CapsKey
  \/ \E down \in {0, 1} : ShiftKey(down) \/ CrtlKey(down) \/ AltKey(down)

-----------------------------------------------------------------------------
\* read of the terminal: sti, and the loop that waits for Enter.
ReadBegin(n) ==
  /\ pc = "user"
  /\ pc' = "wait"
  /\ nbytes' = n /\ copied' = {}
  /\ UNCHANGED <<lines, modifiers, display, screen, block, i>>

\* Mutant: a line is awaited on the first terminal only.
FirstHasLine == readflag = 1 /\ terminalCheck = 1

\* What the loop waits for.
HasLine == readflag = 1

\* A step of the reader that changes nothing the handler uses.
Reads == UNCHANGED <<lines, modifiers, display, screen, nbytes>>

ReadWait ==
  /\ pc = "wait" /\ HasLine
  /\ pc' = IF nbytes < 0 THEN "return" ELSE "test"
  /\ block' = 1
  /\ Reads /\ UNCHANGED <<i, copied>>

NextBlock ==
  /\ block' = IF block = 3 THEN 1 ELSE block + 1
  /\ pc' = IF block = 3 THEN "reset" ELSE "test"

\* Each of the three if-statements reads terminalCheck again.
ReadSkip ==
  /\ pc = "test" /\ terminalCheck # block
  /\ NextBlock
  /\ Reads /\ UNCHANGED <<i, copied>>

ReadCopy ==
  /\ pc = "test" /\ terminalCheck = block
  /\ copied' = copied \cup {block} /\ unread' = unread \ {block}
  /\ pc' = "clear" /\ i' = 0
  /\ UNCHANGED <<globalbuffer, count, readflag, modifiers, display, screen, nbytes, block>>

\* Mutant: the place kept for the newline is not zeroed.
LastClearedShort == BufferLimit - 2

\* The last index of the loop.
LastCleared == BufferLimit - 1

ReadClear ==
  /\ pc = "clear"
  /\ globalbuffer' = [globalbuffer EXCEPT ![block][i] = Nul]
  /\ IF i = LastCleared
       THEN i' = 0 /\ NextBlock
       ELSE i' = i + 1 /\ UNCHANGED <<pc, block>>
  /\ UNCHANGED <<count, readflag, unread, modifiers, display, screen, nbytes, copied>>

ReadReset ==
  /\ pc = "reset"
  /\ readflag' = 0
  /\ pc' = "return"
  /\ UNCHANGED <<globalbuffer, count, unread, modifiers, display, screen, block, i,
                 nbytes, copied>>

\* return to the program, where interrupts are off again.
ReadReturn ==
  /\ pc = "return"
  /\ pc' = "user" /\ nbytes' = 0 /\ copied' = {}
  /\ UNCHANGED <<lines, modifiers, display, screen, block, i>>

\* Another call with interrupts on: read of a file, a directory or the clock,
\* and the end of rtc_write.
OtherBegin == pc = "user" /\ pc' = "other" /\ Reads /\ UNCHANGED <<block, i, copied>>
OtherEnd   == pc = "other" /\ pc' = "user" /\ Reads /\ UNCHANGED <<block, i, copied>>

\* A program writes a character, wherever the user has switched to.
Write(char) ==
  /\ pc = "user"
  /\ screen' = putc(screen, char)
  /\ UNCHANGED <<lines, modifiers, display, reader>>

ReadTerminal ==
  ReadWait \/ ReadSkip \/ ReadCopy \/ ReadClear \/ ReadReset \/ ReadReturn

Next ==
  \/ KeyboardHandler
  \/ \E n \in ReadSizes : ReadBegin(n)
  \/ ReadTerminal
  \/ OtherBegin \/ OtherEnd
  \/ \E char \in Outputs : Write(char)

\* The processor goes on with the read between two interrupts: keys come at
\* the user's pace.  Nothing is assumed of the user or of the programs.
Spec == Init /\ [][Next]_vars /\ WF_vars(ReadTerminal)

-----------------------------------------------------------------------------
\* Type invariant.  A count always leaves room for the newline, so that no
\* key is stored past the end of a buffer.
TypeOK ==
  /\ terminalCheck \in Terminals
  /\ globalbuffer \in
       [Terminals -> [0..BufferLimit - 1 -> Chars \cup {Newline, Nul}]]
  /\ count \in [Terminals -> 0..BufferLimit - 1]
  /\ counted \in Terminals
  /\ {readflag, capslockactive, shiftpressed, crtlpressed, altpressed}
       \subseteq {0, 1}
  /\ pc \in {"user", "other", "wait", "test", "clear", "reset", "return"}
  /\ block \in Terminals
  /\ i \in 0..BufferLimit - 1
  /\ nbytes \in ReadSizes \cup {0}
  /\ copied \subseteq Terminals
  /\ unread \subseteq Terminals

\* The pointer count and terminalCheck, set in different statements of each of
\* the three switches, always designate the same terminal: a key is never
\* stored in one terminal's buffer at another one's position.
CountOfDisplayed == counted = terminalCheck

\* A line that has been read leaves nothing behind: unless a line was entered that
\* no read has copied (one entered while interrupts are on in another call, or
\* while a read zeroes the buffer), there is nothing in a buffer but the line
\* being typed, so that what the next read copies is what the user sees.
NothingLeftBehind ==
  \A t \in Terminals :
    \/ t \in unread
    \/ pc = "clear" /\ block = t
    \/ \A j \in count[t]..BufferLimit - 1 : globalbuffer[t][j] = Nul

\* The lines being typed, as the handler sees them: the first count characters
\* of each buffer.
Line(t) == [j \in 1..count[t] |-> globalbuffer[t][j - 1]]

Lines == INSTANCE LineEditor WITH
  Blank <- Nul, MaxLength <- BufferLimit - 1,
  shown <- terminalCheck, line <- [t \in Terminals |-> Line(t)]

\* Keys edit the line of the displayed terminal at its end and nothing else,
\* and the reader, in whichever of its steps a key or a switch overtakes it,
\* at most blanks characters of the lines being typed.
EditsLines == Lines!Spec

\* What terminal t shows, or will show when the user goes back to it.
Shown(t) == IF t = terminalCheck THEN screen ELSE saved[t]

\* A terminal comes back as it was left: no key and no program changes the
\* characters or the cursor of a terminal that is not displayed, and a switch
\* changes those of none.
HiddenScreenKept ==
  [][\A t \in Terminals :
       t # terminalCheck \/ t # terminalCheck' => Shown(t)' = Shown(t)]_vars

\* A read that waits when Enter has been pressed returns to its program,
\* whatever terminals are switched and keys are pressed meanwhile.
ReadAnswered == (pc = "wait" /\ readflag = 1) ~> pc = "user"

\* "Outputs: the amount of bytes we wrote to the buffer" (keyboard.c:405): a
\* read that returns a size has copied a buffer, the only place where copysize
\* is set.
ReadReportsBytes == pc = "return" /\ nbytes >= 0 => copied # {}
=============================================================================
