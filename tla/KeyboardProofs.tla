--------------------------- MODULE KeyboardProofs ---------------------------
(***************************************************************************)
(* Theorems about Keyboard, for every size of the line buffers, every set  *)
(* of keys and read sizes, and whatever the operations of the screen do.   *)
(*                                                                         *)
(* TypeOK is inductive with CountOfDisplayed: the room a key is given is   *)
(* that of the counter count designates, and the place it is stored in is  *)
(* one of the displayed terminal's buffer.  On these rest the others.      *)
(***************************************************************************)
EXTENDS Keyboard, SequenceTheorems, TLAPS

USE DEF Terminals

\* The keys that edit the displayed line.
Edits == Enter \/ Backspace \/ \E char \in Chars : Typed(char)

\* The steps that touch neither buffers nor counters, and neither begin nor end
\* to zero a buffer.
Still ==
  /\ UNCHANGED <<globalbuffer, count, unread, terminalCheck, counted>>
  /\ pc' = "clear" <=> pc = "clear"
  /\ pc = "clear" => UNCHANGED <<block, i>>

Shows(t) ==
  /\ terminalCheck' = t /\ counted' = t
  /\ UNCHANGED <<lines, reader>>

LEMMA Kinds ==
  ASSUME [Next]_vars
  PROVE  \/ Still
         \/ \E t \in Terminals : Shows(t)
         \/ Edits
         \/ ReadCopy \/ ReadClear
<1>1. CASE UNCHANGED vars
  BY <1>1 DEF vars, Still
<1>2. CASE KeyboardHandler
  <2>1. CASE ClearKey
    BY <2>1 DEF ClearKey, lines, display, reader, Still
  <2>2. ASSUME NEW t \in Terminals, Switch(t) PROVE Shows(t)
    BY <2>2 DEF Switch, CountOf, Shows
  <2>3. CASE SpaceKey \/ \E key \in Letters : LetterKey(key)
    <3>1. Space \in Chars /\ \A key \in Letters, s \in {0, 1} : Char(key, s) \in Chars
      BY DEF Chars
    <3> QED
      BY <2>3, <3>1 DEF SpaceKey, LetterKey, Edits
  <2>4. CASE CapsKey \/ \E down \in {0, 1} : ShiftKey(down) \/ CrtlKey(down) \/ AltKey(down)
    BY <2>4 DEF CapsKey, ShiftKey, CrtlKey, AltKey, Quiet, lines, display, reader, Still
  <2> QED
    BY <1>2, <2>1, <2>2, <2>3, <2>4 DEF KeyboardHandler, Edits
<1>3. CASE \/ \E n \in ReadSizes : ReadBegin(n)
           \/ ReadWait \/ ReadSkip \/ ReadReset \/ ReadReturn
           \/ OtherBegin \/ OtherEnd
           \/ \E char \in Outputs : Write(char)
  BY <1>3 DEF ReadBegin, ReadWait, ReadSkip, ReadReset, ReadReturn, NextBlock, Reads,
              OtherBegin, OtherEnd, Write, lines, display, reader, Still
<1> QED
  BY <1>1, <1>2, <1>3 DEF Next, ReadTerminal

-----------------------------------------------------------------------------
\* Types.
TypeInv == TypeOK /\ CountOfDisplayed

LEMMA TypeInit == Init => TypeInv
BY KeyboardAssumption DEF Init, TypeInv, TypeOK, CountOfDisplayed, Chars

\* The part of TypeOK about the lines.
LinesOK ==
  /\ terminalCheck \in Terminals
  /\ globalbuffer \in
       [Terminals -> [0..BufferLimit - 1 -> Chars \cup {Newline, Nul}]]
  /\ count \in [Terminals -> 0..BufferLimit - 1]
  /\ counted = terminalCheck
  /\ unread \subseteq Terminals

LEMMA StoreOK ==
  ASSUME LinesOK, NEW t \in Terminals, NEW j \in 0..BufferLimit - 1,
         NEW char \in Chars \cup {Newline, Nul}
  PROVE  [globalbuffer EXCEPT ![t][j] = char] \in
           [Terminals -> [0..BufferLimit - 1 -> Chars \cup {Newline, Nul}]]
BY DEF LinesOK

LEMMA EditsTyped == TypeInv /\ Edits => LinesOK'
<1> SUFFICES ASSUME TypeInv, Edits PROVE LinesOK'
  OBVIOUS
<1>1. LinesOK
  BY DEF TypeInv, TypeOK, CountOfDisplayed, LinesOK
<1> DEFINE here == count[terminalCheck]
<1>2. here \in 0..BufferLimit - 1 /\ count[counted] = here
  BY <1>1 DEF LinesOK
<1>3. BufferLimit \in Nat /\ BufferLimit >= 2
  BY KeyboardAssumption
<1>4. CASE Enter
  <2>1. globalbuffer' \in [Terminals -> [0..BufferLimit - 1 -> Chars \cup {Newline, Nul}]]
    BY <1>1, <1>2, <1>4, StoreOK DEF Enter, Store, LinesOK
  <2>2. count' \in [Terminals -> 0..BufferLimit - 1]
    BY <1>1, <1>3, <1>4 DEF Enter, LinesOK
  <2> QED
    BY <1>1, <1>4, <2>1, <2>2 DEF Enter, display, LinesOK
<1>5. CASE Backspace
  <2>1. here - 1 \in 0..BufferLimit - 1
    BY <1>2, <1>3, <1>5 DEF Backspace
  <2>2. globalbuffer' \in [Terminals -> [0..BufferLimit - 1 -> Chars \cup {Newline, Nul}]]
    BY <1>1, <1>2, <1>5, <2>1, StoreOK DEF Backspace, LinesOK
  <2>3. count' \in [Terminals -> 0..BufferLimit - 1]
    BY <1>1, <1>2, <1>5, <2>1 DEF Backspace, LinesOK
  <2> QED
    BY <1>1, <1>5, <2>2, <2>3 DEF Backspace, display, LinesOK
<1>6. ASSUME NEW char \in Chars, Typed(char) PROVE LinesOK'
  <2>1. here + 1 \in 0..BufferLimit - 1
    BY <1>2, <1>3, <1>6 DEF Typed, Full
  <2>2. globalbuffer' \in [Terminals -> [0..BufferLimit - 1 -> Chars \cup {Newline, Nul}]]
    BY <1>1, <1>2, <1>6, StoreOK DEF Typed, Store, LinesOK
  <2>3. count' \in [Terminals -> 0..BufferLimit - 1]
    BY <1>1, <1>2, <1>6, <2>1 DEF Typed, LinesOK
  <2> QED
    BY <1>1, <1>6, <2>2, <2>3 DEF Typed, display, LinesOK
<1> QED
  BY <1>4, <1>5, <1>6 DEF Edits

LEMMA LinesTyped == TypeInv /\ [Next]_vars => LinesOK'
<1> SUFFICES ASSUME TypeInv, [Next]_vars PROVE LinesOK'
  OBVIOUS
<1>1. LinesOK
  BY DEF TypeInv, TypeOK, CountOfDisplayed, LinesOK
<1>2. CASE Still
  BY <1>1, <1>2 DEF Still, LinesOK
<1>3. ASSUME NEW t \in Terminals, Shows(t) PROVE LinesOK'
  BY <1>1, <1>3 DEF Shows, lines, LinesOK
<1>4. CASE Edits
  BY <1>4, EditsTyped
<1>5. CASE ReadCopy
  BY <1>1, <1>5 DEF ReadCopy, display, LinesOK
<1>6. CASE ReadClear
  <2>1. block \in Terminals /\ i \in 0..BufferLimit - 1
    BY DEF TypeInv, TypeOK
  <2> QED
    BY <1>1, <1>6, <2>1, StoreOK DEF ReadClear, display, LinesOK
<1> QED
  BY <1>2, <1>3, <1>4, <1>5, <1>6, Kinds

\* The rest of TypeOK.
ReaderOK ==
  /\ {readflag, capslockactive, shiftpressed, crtlpressed, altpressed}
       \subseteq {0, 1}
  /\ pc \in {"user", "other", "wait", "test", "clear", "reset", "return"}
  /\ block \in Terminals
  /\ i \in 0..BufferLimit - 1
  /\ nbytes \in ReadSizes \cup {0}
  /\ copied \subseteq Terminals

LEMMA ReaderTyped == ReaderOK /\ [Next]_vars => ReaderOK'
<1> SUFFICES ASSUME ReaderOK, [Next]_vars PROVE ReaderOK'
  OBVIOUS
<1>1. CASE UNCHANGED vars
  BY <1>1 DEF vars, ReaderOK
<1>2. CASE \/ ClearKey \/ \E t \in Terminals : Switch(t)
           \/ \E char \in Outputs : Write(char)
  BY <1>2 DEF ClearKey, Switch, Write, lines, modifiers, reader, ReaderOK
<1>3. CASE Edits
  BY <1>3 DEF Edits, Enter, Backspace, Typed, modifiers, reader, ReaderOK
<1>4. CASE CapsKey \/ \E down \in {0, 1} : ShiftKey(down) \/ CrtlKey(down) \/ AltKey(down)
  <2>1. UNCHANGED <<readflag, reader>>
    BY <1>4 DEF CapsKey, ShiftKey, CrtlKey, AltKey, Quiet, lines
  <2>2. {capslockactive', shiftpressed', crtlpressed', altpressed'} \subseteq {0, 1}
    BY <1>4 DEF CapsKey, ShiftKey, CrtlKey, AltKey, ReaderOK
  <2> QED
    BY <2>1, <2>2 DEF reader, ReaderOK
<1>5. CASE \/ \E n \in ReadSizes : ReadBegin(n)
           \/ ReadWait \/ ReadReset \/ ReadReturn
           \/ OtherBegin \/ OtherEnd
  <2>1. readflag' \in {0, 1} /\ UNCHANGED modifiers
    BY <1>5 DEF ReadBegin, ReadWait, ReadReset, ReadReturn, Reads, OtherBegin, OtherEnd,
                lines, ReaderOK
  <2>2. /\ pc' \in {"user", "other", "wait", "test", "clear", "reset", "return"}
        /\ block' \in Terminals /\ i' = i
    BY <1>5 DEF ReadBegin, ReadWait, ReadReset, ReadReturn, Reads, OtherBegin, OtherEnd,
                ReaderOK
  <2>3. nbytes' \in ReadSizes \cup {0} /\ copied' \subseteq Terminals
    BY <1>5 DEF ReadBegin, ReadWait, ReadReset, ReadReturn, Reads, OtherBegin, OtherEnd,
                ReaderOK
  <2> QED
    BY <2>1, <2>2, <2>3 DEF modifiers, ReaderOK
<1>6. CASE ReadSkip
  BY <1>6 DEF ReadSkip, NextBlock, Reads, lines, modifiers, ReaderOK
<1>7. CASE ReadCopy
  BY <1>7, KeyboardAssumption DEF ReadCopy, modifiers, ReaderOK
<1>8. CASE ReadClear
  BY <1>8, KeyboardAssumption
     DEF ReadClear, NextBlock, LastCleared, modifiers, ReaderOK
<1>9. CASE SpaceKey \/ \E key \in Letters : LetterKey(key)
  <2>1. Edits
    BY <1>9 DEF SpaceKey, LetterKey, Edits, Chars
  <2> QED
    BY <1>3, <2>1
<1> QED
  BY <1>1, <1>2, <1>3, <1>4, <1>5, <1>6, <1>7, <1>8, <1>9
     DEF Next, KeyboardHandler, ReadTerminal, Edits

LEMMA TypeNext == TypeInv /\ [Next]_vars => TypeInv'
BY LinesTyped, ReaderTyped DEF TypeInv, TypeOK, CountOfDisplayed, LinesOK, ReaderOK

\* No key is ever stored past the end of a buffer, whatever its size.
THEOREM KeyboardTyped == Spec => []TypeOK
BY TypeInit, TypeNext, PTL DEF Spec, TypeInv

\* count designates the counter of the displayed terminal after any keys.
THEOREM CountFollows == Spec => []CountOfDisplayed
BY TypeInit, TypeNext, PTL DEF Spec, TypeInv

-----------------------------------------------------------------------------
\* What is known of a buffer while it is zeroed: what the loop has passed is
\* blank, but for the line typed meanwhile.
Swept ==
  pc = "clear" =>
    \/ block \in unread
    \/ \A j \in count[block]..BufferLimit - 1 : j < i => globalbuffer[block][j] = Nul

Behind == NothingLeftBehind /\ Swept

LEMMA BehindNext == TypeInv /\ Behind /\ [Next]_vars => Behind'
<1> SUFFICES ASSUME TypeInv, Behind, [Next]_vars PROVE Behind'
  OBVIOUS
<1>1. /\ LinesOK /\ LinesOK'
      /\ i \in 0..BufferLimit - 1 /\ block \in Terminals
  BY LinesTyped DEF TypeInv, TypeOK, CountOfDisplayed, LinesOK
<1>2. CASE Still
  <2>1. NothingLeftBehind'
    BY <1>2 DEF Still, Behind, NothingLeftBehind, Swept
  <2>2. Swept'
    BY <1>2 DEF Still, Behind, Swept
  <2> QED
    BY <2>1, <2>2 DEF Behind
<1>3. ASSUME NEW t \in Terminals, Shows(t) PROVE Behind'
  BY <1>3 DEF Shows, lines, reader, Behind, NothingLeftBehind, Swept
<1>4. CASE Edits
  <2>1. CASE Enter
    BY <1>1, <2>1 DEF Enter, Store, reader, LinesOK, Behind, NothingLeftBehind, Swept
  <2>2. CASE Backspace
    <3> DEFINE here == terminalCheck
    <3>1. /\ count[here] \in 1..BufferLimit - 1
          /\ count' = [count EXCEPT ![here] = count[here] - 1]
          /\ globalbuffer' = [globalbuffer EXCEPT ![here][count[here] - 1] = Nul]
          /\ UNCHANGED unread /\ UNCHANGED <<pc, block, i>>
      BY <1>1, <2>2, KeyboardAssumption DEF Backspace, reader, LinesOK
    <3>2. ASSUME NEW t \in Terminals, NEW j \in count'[t]..BufferLimit - 1,
                 j \in count[t]..BufferLimit - 1 => globalbuffer[t][j] = Nul
          PROVE  globalbuffer'[t][j] = Nul
      BY <1>1, <3>1, <3>2, KeyboardAssumption DEF LinesOK
    <3>3. NothingLeftBehind'
      BY <3>1, <3>2 DEF Behind, NothingLeftBehind
    <3>4. Swept'
      <4> SUFFICES ASSUME pc = "clear", block \notin unread,
                          NEW j \in count'[block]..BufferLimit - 1, j < i
                   PROVE  globalbuffer'[block][j] = Nul
        BY <3>1 DEF Swept
      <4> QED
        BY <1>1, <3>2 DEF Behind, Swept
    <3> QED
      BY <3>3, <3>4 DEF Behind
  <2>3. ASSUME NEW char \in Chars, Typed(char) PROVE Behind'
    BY <1>1, <2>3 DEF Typed, Store, reader, LinesOK, Behind, NothingLeftBehind, Swept
  <2> QED
    BY <1>4, <2>1, <2>2, <2>3 DEF Edits
<1>5. CASE ReadCopy
  BY <1>1, <1>5 DEF ReadCopy, LinesOK, Behind, NothingLeftBehind, Swept
<1>6. CASE ReadClear
  <2>1. /\ pc = "clear" /\ UNCHANGED <<count, unread>>
        /\ globalbuffer' = [globalbuffer EXCEPT ![block][i] = Nul]
    BY <1>6 DEF ReadClear
  <2>2. ASSUME NEW t \in Terminals, NEW j \in count[t]..BufferLimit - 1,
               globalbuffer[t][j] = Nul \/ (t = block /\ j = i)
        PROVE  globalbuffer'[t][j] = Nul
    BY <1>1, <2>1, <2>2, KeyboardAssumption DEF LinesOK
  <2>3. ASSUME block \notin unread, NEW j \in count[block]..BufferLimit - 1, j <= i
        PROVE  globalbuffer'[block][j] = Nul
    <3>1. j < i \/ j = i
      BY <1>1, <2>3 DEF LinesOK
    <3> QED
      BY <1>1, <2>1, <2>2, <2>3, <3>1 DEF Behind, Swept
  <2>4. CASE i = LastCleared
    <3>1. pc' # "clear"
      BY <1>6, <2>4 DEF ReadClear, NextBlock
    <3>2. NothingLeftBehind'
      BY <1>1, <2>1, <2>2, <2>3, <2>4, KeyboardAssumption
         DEF LinesOK, LastCleared, Behind, NothingLeftBehind
    <3> QED
      BY <3>1, <3>2 DEF Behind, Swept
  <2>5. CASE i # LastCleared
    <3>1. i' = i + 1 /\ UNCHANGED <<pc, block>>
      BY <1>6, <2>5 DEF ReadClear
    <3>2. NothingLeftBehind'
      BY <1>1, <2>1, <2>2, <3>1 DEF Behind, NothingLeftBehind
    <3>3. Swept'
      <4> SUFFICES ASSUME block \notin unread,
                          NEW j \in count[block]..BufferLimit - 1, j < i + 1
                   PROVE  globalbuffer'[block][j] = Nul
        BY <2>1, <3>1 DEF Swept
      <4>1. j <= i
        BY <1>1 DEF LinesOK
      <4> QED
        BY <2>3, <4>1
    <3> QED
      BY <3>2, <3>3 DEF Behind
  <2> QED
    BY <2>4, <2>5
<1> QED
  BY <1>2, <1>3, <1>4, <1>5, <1>6, Kinds

\* A line that has been read leaves nothing behind in its buffer, however keys
\* fall between the copy of the line and the last zero.
THEOREM NothingLeft == Spec => []NothingLeftBehind
<1>1. Init => Behind
  BY KeyboardAssumption DEF Init, Behind, NothingLeftBehind, Swept
<1> QED
  BY <1>1, TypeInit, TypeNext, BehindNext, PTL DEF Spec, Behind

-----------------------------------------------------------------------------
\* The saved pages are those of the three terminals.
SavedOK == saved = [t \in Terminals |-> saved[t]]

LEMMA ScreensNext ==
  ASSUME SavedOK, terminalCheck \in Terminals, [Next]_vars
  PROVE  /\ SavedOK'
         /\ \A t \in Terminals :
              t # terminalCheck \/ t # terminalCheck' => Shown(t)' = Shown(t)
<1>1. CASE UNCHANGED saved /\ UNCHANGED terminalCheck
  BY <1>1 DEF SavedOK, Shown
<1>2. ASSUME NEW s \in Terminals, Switch(s)
      PROVE  /\ SavedOK'
             /\ \A t \in Terminals :
                  t # terminalCheck \/ t # terminalCheck' => Shown(t)' = Shown(t)
  BY <1>2 DEF Switch, Stored, SavedOK, Shown
<1>3. [Next]_vars /\ (\A t \in Terminals : ~Switch(t)) =>
        UNCHANGED saved /\ UNCHANGED terminalCheck
  BY DEF Next, vars, KeyboardHandler, ReadTerminal, ClearKey, Enter, Backspace, SpaceKey,
         LetterKey, Typed, CapsKey, ShiftKey, CrtlKey, AltKey, Quiet, ReadBegin, ReadWait,
         ReadSkip, ReadCopy, ReadClear, ReadReset, ReadReturn, Reads, OtherBegin,
         OtherEnd, Write, display
<1> QED
  BY <1>1, <1>2, <1>3

\* A terminal comes back as it was left, whatever the operations of the screen do.
THEOREM HiddenKept == Spec => HiddenScreenKept
<1>1. Init => SavedOK
  BY DEF Init, SavedOK
<1>2. TypeInv /\ SavedOK /\ [Next]_vars => SavedOK'
  BY ScreensNext DEF TypeInv, TypeOK
<1>3. TypeInv /\ SavedOK /\ [Next]_vars =>
        [\A t \in Terminals :
           t # terminalCheck \/ t # terminalCheck' => Shown(t)' = Shown(t)]_vars
  BY ScreensNext DEF TypeInv, TypeOK
<1> QED
  BY <1>1, <1>2, <1>3, TypeInit, TypeNext, PTL DEF Spec, HiddenScreenKept

-----------------------------------------------------------------------------
\* The lines being typed.
Character == Chars \cup {Newline, Nul}

LineOf == [t \in Terminals |-> Line(t)]

LEMMA SeqOf ==
  ASSUME NEW n \in Nat, NEW chars, \A j \in 1..n : chars[j - 1] \in Character
  PROVE  LET s == [j \in 1..n |-> chars[j - 1]]
         IN  /\ s \in Seq(Character) /\ Len(s) = n
             /\ \A j \in 1..n : s[j] = chars[j - 1]
OBVIOUS

LEMMA LineSeq ==
  ASSUME LinesOK, NEW t \in Terminals
  PROVE  /\ Line(t) \in Seq(Character) /\ Len(Line(t)) = count[t]
         /\ \A j \in 1..count[t] : Line(t)[j] = globalbuffer[t][j - 1]
<1>1. count[t] \in Nat /\ count[t] <= BufferLimit - 1
  BY KeyboardAssumption DEF LinesOK
<1>2. \A j \in 1..count[t] : globalbuffer[t][j - 1] \in Character
  BY <1>1, KeyboardAssumption DEF LinesOK, Character
<1> QED
  BY <1>1, <1>2, SeqOf DEF Line

\* The same of the next state.
LEMMA LineSeqNext ==
  ASSUME LinesOK', NEW t \in Terminals
  PROVE  /\ Line(t)' \in Seq(Character) /\ Len(Line(t)') = count'[t]
         /\ \A j \in 1..count'[t] : Line(t)'[j] = globalbuffer'[t][j - 1]
<1>1. count'[t] \in Nat /\ count'[t] <= BufferLimit - 1
  BY KeyboardAssumption DEF LinesOK
<1>2. \A j \in 1..count'[t] : globalbuffer'[t][j - 1] \in Character
  BY <1>1, KeyboardAssumption DEF LinesOK, Character
<1> QED
  BY <1>1, <1>2, SeqOf DEF Line

\* A step that changes one line.
LEMMA OneLine ==
  ASSUME NEW here \in Terminals, NEW s, Line(here)' = s,
         \A t \in Terminals \ {here} : Line(t)' = Line(t)
  PROVE  LineOf' = [LineOf EXCEPT ![here] = s]
BY DEF LineOf

LEMMA SameLine ==
  ASSUME NEW t, count'[t] = count[t], globalbuffer'[t] = globalbuffer[t]
  PROVE  Line(t)' = Line(t)
BY DEF Line

LEMMA EnterLine == TypeInv /\ Enter => Lines!Enter
<1> SUFFICES ASSUME TypeInv, Enter PROVE Lines!Enter
  OBVIOUS
<1>0. PICK here \in Terminals : here = terminalCheck
  BY DEF TypeInv, TypeOK
<1>1. LinesOK /\ LinesOK' /\ here \in Terminals
  BY <1>0, EditsTyped DEF TypeInv, TypeOK, CountOfDisplayed, LinesOK, Edits
<1>2. /\ count' = [count EXCEPT ![here] = 0] /\ terminalCheck' = here
      /\ globalbuffer' = [globalbuffer EXCEPT ![here][count[here]] = Newline]
  BY <1>0, <1>1 DEF Enter, Store, display, LinesOK
<1>3. Line(here)' = <<>>
  <2>1. count'[here] = 0
    BY <1>1, <1>2 DEF LinesOK
  <2>2. Line(here)' \in Seq(Character) /\ Len(Line(here)') = 0
    BY <1>1, <2>1, LineSeqNext
  <2> QED
    BY <2>2, EmptySeq
<1>4. \A t \in Terminals \ {here} : Line(t)' = Line(t)
  BY <1>1, <1>2, SameLine DEF LinesOK
<1> QED
  BY <1>0, <1>1, <1>2, <1>3, <1>4, OneLine DEF Lines!Enter, LineOf

LEMMA TypedLine ==
  ASSUME TypeInv, NEW char \in Chars, Typed(char)
  PROVE  Lines!Type(char)
<1>0. PICK here \in Terminals : here = terminalCheck
  BY DEF TypeInv, TypeOK
<1>1. LinesOK /\ LinesOK' /\ here \in Terminals
  BY <1>0, EditsTyped DEF TypeInv, TypeOK, CountOfDisplayed, LinesOK, Edits
<1>2. /\ count' = [count EXCEPT ![here] = count[here] + 1] /\ terminalCheck' = here
      /\ globalbuffer' = [globalbuffer EXCEPT ![here][count[here]] = char]
      /\ count[here] < BufferLimit - 1 /\ count[here] \in Nat
  BY <1>0, <1>1, KeyboardAssumption DEF Typed, Full, Store, display, LinesOK
<1>3. Line(here)' = Append(Line(here), char)
  <2>0. count[here] \in Nat
    BY <1>2
  <2>1. Line(here) \in Seq(Character) /\ Line(here)' \in Seq(Character) /\ char \in Character
    BY <1>1, LineSeq, LineSeqNext DEF Character
  <2>2. count'[here] = count[here] + 1
    BY <1>1, <1>2 DEF LinesOK
  <2>3. Len(Line(here)) = count[here] /\ Len(Line(here)') = count[here] + 1
    BY <1>1, <2>2, LineSeq, LineSeqNext
  <2>4. ASSUME NEW j \in 1..count[here] + 1
        PROVE  Line(here)'[j] = Append(Line(here), char)[j]
    <3>1. Line(here)'[j] = globalbuffer'[here][j - 1]
      BY <1>1, <2>2, LineSeq, LineSeqNext
    <3>2. CASE j = count[here] + 1
      <4>1. globalbuffer'[here][j - 1] = char
        <5>1. globalbuffer'[here][count[here]] = char
          BY <1>1, <1>2 DEF LinesOK
        <5>2. j - 1 = count[here]
          BY <2>0, <3>2
        <5> QED
          BY <5>1, <5>2
      <4> QED
        BY <2>1, <2>3, <3>1, <3>2, <4>1
    <3>3. CASE j \in 1..count[here]
      <4>1. globalbuffer'[here][j - 1] = globalbuffer[here][j - 1]
        BY <1>1, <1>2, <3>3 DEF LinesOK
      <4>2. Line(here)[j] = globalbuffer[here][j - 1]
        BY <1>1, <3>3, LineSeq
      <4> QED
        BY <2>1, <2>3, <3>1, <3>3, <4>1, <4>2
    <3>4. j = count[here] + 1 \/ j \in 1..count[here]
      BY <2>0
    <3> QED
      BY <3>2, <3>3, <3>4
  <2>5. /\ Append(Line(here), char) \in Seq(Character)
        /\ Len(Append(Line(here), char)) = count[here] + 1
    BY <2>1, <2>3
  <2> QED
    BY <2>1, <2>3, <2>4, <2>5, SeqEqual
<1>4. \A t \in Terminals \ {here} : Line(t)' = Line(t)
  BY <1>1, <1>2, SameLine DEF LinesOK
<1>5. Len(LineOf[here]) < BufferLimit - 1
  BY <1>1, <1>2, LineSeq DEF LineOf
<1>6. LineOf' = [LineOf EXCEPT ![here] = Append(@, char)]
  <2>1. LineOf[here] = Line(here)
    BY <1>1 DEF LineOf
  <2> QED
    BY <1>1, <1>3, <1>4, <2>1, OneLine
<1> QED
  BY <1>0, <1>2, <1>5, <1>6 DEF Lines!Type, LineOf

LEMMA ErasedLine == TypeInv /\ Backspace => Lines!Erase
<1> SUFFICES ASSUME TypeInv, Backspace PROVE Lines!Erase
  OBVIOUS
<1>0. PICK here \in Terminals : here = terminalCheck
  BY DEF TypeInv, TypeOK
<1> DEFINE rest == SubSeq(Line(here), 1, count[here] - 1)
<1>1. LinesOK /\ LinesOK' /\ here \in Terminals
  BY <1>0, EditsTyped DEF TypeInv, TypeOK, CountOfDisplayed, LinesOK, Edits
<1>2. /\ count' = [count EXCEPT ![here] = count[here] - 1] /\ terminalCheck' = here
      /\ globalbuffer' = [globalbuffer EXCEPT ![here][count[here] - 1] = Nul]
      /\ count[here] \in Nat /\ count[here] > 0
  BY <1>0, <1>1, KeyboardAssumption DEF Backspace, display, LinesOK
<1>3. Line(here)' = rest
  <2>1. Line(here) \in Seq(Character) /\ Line(here)' \in Seq(Character)
    BY <1>1, LineSeq, LineSeqNext
  <2>2. count'[here] = count[here] - 1
    BY <1>1, <1>2 DEF LinesOK
  <2>3. Len(Line(here)) = count[here] /\ Len(Line(here)') = count[here] - 1
    BY <1>1, <2>2, LineSeq, LineSeqNext
  <2>4. rest \in Seq(Character) /\ Len(rest) = count[here] - 1
    BY <1>2, <2>1, <2>3
  <2>5. ASSUME NEW j \in 1..count[here] - 1
        PROVE  Line(here)'[j] = rest[j]
    <3>1. Line(here)'[j] = globalbuffer'[here][j - 1]
      BY <1>1, <2>2, LineSeq, LineSeqNext
    <3>2. globalbuffer'[here][j - 1] = globalbuffer[here][j - 1]
      BY <1>1, <1>2 DEF LinesOK
    <3>3. Line(here)[j] = globalbuffer[here][j - 1]
      <4>1. j \in 1..count[here]
        BY <1>2
      <4> QED
        BY <1>1, <4>1, LineSeq
    <3>4. rest[j] = Line(here)[j]
      BY <1>2, <2>1, <2>3
    <3> QED
      BY <3>1, <3>2, <3>3, <3>4
  <2> QED
    BY <2>1, <2>3, <2>4, <2>5, SeqEqual
<1>4. \A t \in Terminals \ {here} : Line(t)' = Line(t)
  BY <1>1, <1>2, SameLine DEF LinesOK
<1>5. LineOf[here] # <<>> /\ Len(LineOf[here]) = count[here]
  BY <1>1, <1>2, LineSeq DEF LineOf
<1>6. LineOf' = [LineOf EXCEPT ![here] = SubSeq(@, 1, Len(@) - 1)]
  <2>1. LineOf[here] = Line(here)
    BY <1>1 DEF LineOf
  <2> QED
    BY <1>1, <1>3, <1>4, <1>5, <2>1, OneLine
<1> QED
  BY <1>0, <1>2, <1>5, <1>6 DEF Lines!Erase, LineOf

LEMMA BlankedLine ==
  ASSUME TypeInv, ReadClear, NEW here \in Terminals, here = block,
         NEW n \in 0..BufferLimit - 1, n = i
  PROVE  \/ UNCHANGED <<terminalCheck, LineOf>>
         \/ n + 1 \in 1..BufferLimit - 1 /\ Lines!BlankOut(here, n + 1)
<1>1. LinesOK /\ LinesOK'
  BY LinesTyped DEF TypeInv, TypeOK, CountOfDisplayed, LinesOK, Next, ReadTerminal
<1>2. /\ UNCHANGED <<count, terminalCheck>>
      /\ globalbuffer' = [globalbuffer EXCEPT ![here][n] = Nul]
  BY DEF ReadClear, display
<1>3. count[here] \in Nat /\ count[here] <= BufferLimit - 1
  BY <1>1, KeyboardAssumption DEF LinesOK
<1>4. \A t \in Terminals \ {here} : Line(t)' = Line(t)
  BY <1>1, <1>2, SameLine DEF LinesOK
<1>5. /\ Line(here) \in Seq(Character) /\ Len(Line(here)) = count[here]
      /\ Line(here)' \in Seq(Character) /\ Len(Line(here)') = count[here]
      /\ \A j \in 1..count[here] :
           /\ Line(here)[j] = globalbuffer[here][j - 1]
           /\ Line(here)'[j] = globalbuffer'[here][j - 1]
  BY <1>1, <1>2, LineSeq, LineSeqNext
<1>6. ASSUME NEW j \in 1..count[here]
      PROVE  globalbuffer'[here][j - 1] =
               IF j = n + 1 THEN Nul ELSE globalbuffer[here][j - 1]
  <2>1. j - 1 \in 0..BufferLimit - 1 /\ (j - 1 = n <=> j = n + 1)
    BY <1>3, KeyboardAssumption
  <2> QED
    BY <1>1, <1>2, <2>1 DEF LinesOK
<1>7. CASE n + 1 \in 1..count[here]
  <2> DEFINE blanked == [Line(here) EXCEPT ![n + 1] = Nul]
  <2>1. /\ blanked \in Seq(Character) /\ Len(blanked) = count[here]
        /\ \A j \in 1..count[here] :
             blanked[j] = IF j = n + 1 THEN Nul ELSE Line(here)[j]
    BY <1>5, <1>7, ExceptSeq DEF Character
  <2> HIDE DEF blanked
  <2>2. ASSUME NEW j \in 1..count[here] PROVE Line(here)'[j] = blanked[j]
    <3>1. Line(here)'[j] = globalbuffer'[here][j - 1] /\ Line(here)[j] = globalbuffer[here][j - 1]
      BY <1>5
    <3>2. blanked[j] = IF j = n + 1 THEN Nul ELSE Line(here)[j]
      BY <2>1
    <3> QED
      BY <1>6, <3>1, <3>2
  <2>3. Line(here)' = blanked
    BY <1>5, <2>1, <2>2, SeqEqual
  <2>4. LineOf[here] = Line(here)
    BY DEF LineOf
  <2>5. LineOf' = [LineOf EXCEPT ![here] = blanked]
    BY <1>4, <2>3, OneLine
  <2>6. LineOf' = [LineOf EXCEPT ![here][n + 1] = Nul]
    BY <2>4, <2>5 DEF blanked
  <2>7. n + 1 \in 1..Len(LineOf[here])
    BY <1>5, <1>7, <2>4
  <2> QED
    BY <1>2, <1>3, <1>7, <2>6, <2>7, KeyboardAssumption DEF Lines!BlankOut, LineOf
<1>8. CASE n + 1 \notin 1..count[here]
  <2>1. \A j \in 1..count[here] : Line(here)'[j] = Line(here)[j]
    BY <1>5, <1>6, <1>8
  <2>2. Line(here)' = Line(here)
    BY <1>5, <2>1, SeqEqual
  <2>3. \A t \in Terminals : Line(t)' = Line(t)
    BY <1>4, <2>2
  <2> QED
    BY <1>2, <2>3 DEF LineOf
<1> QED
  BY <1>7, <1>8

\* Whatever keys overtake a reader in whichever of its steps, the lines typed
\* are those of a LineEditor.
THEOREM KeyboardEdits == Spec => EditsLines
<1>1. Init => Lines!Init
  <2> SUFFICES ASSUME Init, NEW t \in Terminals PROVE Line(t) = <<>>
    BY DEF Init, Lines!Init
  <2>1. LinesOK /\ count[t] = 0
    BY TypeInit DEF Init, TypeInv, TypeOK, CountOfDisplayed, LinesOK
  <2> QED
    BY <2>1, LineSeq, EmptySeq
<1>2. TypeInv /\ [Next]_vars => [Lines!Next]_(Lines!editor)
  <2> SUFFICES ASSUME TypeInv, [Next]_vars
               PROVE  Lines!Next \/ UNCHANGED <<terminalCheck, LineOf>>
    BY DEF Lines!editor, LineOf
  <2>1. CASE Still \/ ReadCopy
    BY <2>1 DEF Still, ReadCopy, display, LineOf, Line
  <2>2. ASSUME NEW t \in Terminals, Shows(t) PROVE Lines!Show(t)
    BY <2>2 DEF Shows, lines, Lines!Show, Line
  <2>3. CASE Edits
    BY <2>3, EnterLine, ErasedLine, TypedLine DEF Edits, Lines!Next
  <2>4. CASE ReadClear
    <3>1. block \in Terminals /\ i \in 0..BufferLimit - 1
      BY DEF TypeInv, TypeOK
    <3>2. PICK here \in Terminals, n \in 0..BufferLimit - 1 : here = block /\ n = i
      BY <3>1
    <3> QED
      BY <2>4, <3>2, BlankedLine DEF Lines!Next
  <2> QED
    BY <2>1, <2>2, <2>3, <2>4, Kinds DEF Lines!Next
<1> QED
  BY <1>1, <1>2, TypeInit, TypeNext, PTL DEF Spec, EditsLines, Lines!Spec
=============================================================================
