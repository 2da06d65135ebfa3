--------------------------- MODULE ConsoleProofs ---------------------------
(***************************************************************************)
(* Theorems about the console, for every number of rows and columns from   *)
(* two on, every set of keys and whatever programs write.                  *)
(*                                                                         *)
(* Keyboard takes the operations on the screen as parameters; that they    *)
(* are those of Screen is an assumption of the theorem, as it is a         *)
(* substitution of the run.                                                *)
(***************************************************************************)
EXTENDS Console, KeyboardProofs

\* The characters a cell can hold.
Glyphs == Chars \cup Outputs \cup {Char("unknown", 0)}

\* A screen with its cursor anywhere up to one column outside.
Drawn == [x : -1..NumCols, y : 0..NumRows, newlinecheck : {0, 1},
          video : [Cells -> Glyphs]]

\* ScreenOK, and that the cells hold characters.
Sound(s) ==
  /\ s \in Drawn
  /\ s.x # -1
  /\ s.x = NumCols => s.y > 0
  /\ s.newlinecheck = 1 => s.y > 0

\* What putc accepts: backspace lets it begin left of a row, but not of the first.
Accepted(s) ==
  /\ s \in Drawn
  /\ s.x \in {-1, NumCols} => s.y > 0
  /\ s.newlinecheck = 1 => s.y > 0

\* What putc has made up for.
Ready(s) ==
  /\ Accepted(s)
  /\ s.x < NumCols /\ s.y < NumRows

LEMMA Sizes == /\ NumCols \in Nat /\ NumCols >= 2
               /\ NumRows \in Nat /\ NumRows >= 2
BY ScreenAssumption

-----------------------------------------------------------------------------
\* The updates of a screen, field by field.
Record(V) == [x : Int, y : Int, newlinecheck : {0, 1}, video : V]

LEMMA Records == Drawn \subseteq Record([Cells -> Glyphs])
BY Sizes DEF Drawn, Record

LEMMA MovedTo ==
  ASSUME NEW V, NEW s \in Record(V), NEW a, NEW b
  PROVE  [s EXCEPT !.y = b, !.x = a] =
           [x |-> a, y |-> b, newlinecheck |-> s.newlinecheck, video |-> s.video]
<1>1. PICK r : r = [s EXCEPT !.y = b, !.x = a]
  OBVIOUS
<1>2. r.x = a /\ r.y = b /\ r.newlinecheck = s.newlinecheck /\ r.video = s.video
  BY <1>1 DEF Record
<1>3. r = [x |-> r.x, y |-> r.y, newlinecheck |-> r.newlinecheck, video |-> r.video]
  BY <1>1 DEF Record
<1> QED
  BY <1>1, <1>2, <1>3

LEMMA BackTo ==
  ASSUME NEW V, NEW s \in Record(V)
  PROVE  [s EXCEPT !.x = NumCols - 1, !.y = @ - 1, !.newlinecheck = 0] =
           [x |-> NumCols - 1, y |-> s.y - 1, newlinecheck |-> 0, video |-> s.video]
<1>1. PICK r : r = [s EXCEPT !.x = NumCols - 1, !.y = @ - 1, !.newlinecheck = 0]
  OBVIOUS
<1>2. r.x = NumCols - 1 /\ r.y = s.y - 1 /\ r.newlinecheck = 0 /\ r.video = s.video
  BY <1>1 DEF Record
<1>3. r = [x |-> r.x, y |-> r.y, newlinecheck |-> r.newlinecheck, video |-> r.video]
  BY <1>1 DEF Record
<1> QED
  BY <1>1, <1>2, <1>3

LEMMA PutAt ==
  ASSUME NEW V, NEW s \in Record(V), NEW char
  PROVE  Put(s, char) =
           [x |-> s.x + 1, y |-> s.y + (s.x + 1) \div NumCols,
            newlinecheck |-> s.newlinecheck,
            video |-> [s.video EXCEPT ![CellOf(s.x, s.y)] = char]]
<1>1. PICK r : r = Put(s, char)
  OBVIOUS
<1>2. /\ r.x = s.x + 1 /\ r.y = s.y + (s.x + 1) \div NumCols
      /\ r.newlinecheck = s.newlinecheck
      /\ r.video = [s.video EXCEPT ![CellOf(s.x, s.y)] = char]
  BY <1>1 DEF Record, Put
<1>3. r = [x |-> r.x, y |-> r.y, newlinecheck |-> r.newlinecheck, video |-> r.video]
  BY <1>1 DEF Record, Put
<1> QED
  BY <1>1, <1>2, <1>3

\* The screen scrolled up by a row.
Rolled(s) == [c \in Cells |-> IF c + NumCols \in Cells
                                THEN s.video[c + NumCols] ELSE Space]

LEMMA ScrolledTo ==
  ASSUME NEW s \in Record([Cells -> Glyphs])
  PROVE  /\ Rolled(s) \in [Cells -> Glyphs]
         /\ s.y > NumRows - 1 =>
              Scroll(s) = [x |-> 0, y |-> NumRows - 1,
                           newlinecheck |-> s.newlinecheck, video |-> Rolled(s)]
<1>1. Space \in Glyphs
  BY DEF Glyphs, Chars
<1>2. Rolled(s) \in [Cells -> Glyphs]
  BY <1>1 DEF Record, Rolled
<1> DEFINE kept == [x |-> s.x, y |-> s.y, newlinecheck |-> s.newlinecheck,
                    video |-> Rolled(s)]
<1>3. Scrollscreen(s) = kept
  BY DEF Scrollscreen, Record, Rolled
<1>4. PICK k \in Record([Cells -> Glyphs]) : k = kept
  BY <1>2 DEF Record
<1>5. [k EXCEPT !.y = NumRows - 1, !.x = 0] =
        [x |-> 0, y |-> NumRows - 1, newlinecheck |-> k.newlinecheck, video |-> k.video]
  BY MovedTo
<1>6. k.newlinecheck = s.newlinecheck /\ k.video = Rolled(s)
  BY <1>4
<1>7. Scrollscreen(s) = k
  BY <1>3, <1>4
<1> QED
  BY <1>2, <1>5, <1>6, <1>7 DEF Scroll

-----------------------------------------------------------------------------
\* A place left of the margin above the bottom is in video memory, and so is the
\* one before the start of any row but the first.
LEMMA InMemory ==
  ASSUME NEW x \in -1..NumCols - 1, NEW y \in 0..NumRows - 1, x = -1 => y > 0
  PROVE  CellOf(x, y) \in Cells
<1>1. NumCols * y <= NumCols * (NumRows - 1)
  BY Sizes
<1>2. NumCols * (NumRows - 1) = NumCols * NumRows - NumCols
  BY Sizes
<1>3. NumCols * y \in Int /\ NumCols * NumRows \in Int
  BY Sizes
<1>4. CASE x # -1
  <2>1. 0 <= NumCols * y
    BY Sizes
  <2> QED
    BY <1>1, <1>2, <1>3, <1>4, <2>1, Sizes DEF CellOf, Cells
<1>5. CASE x = -1
  <2>1. y >= 1
    BY <1>5
  <2>2. NumCols * y >= NumCols * 1
    BY <2>1, Sizes
  <2> QED
    BY <1>1, <1>2, <1>3, <1>5, <2>2, Sizes DEF CellOf, Cells
<1> QED
  BY <1>4, <1>5

\* The row is left at its last column only.
LEMMA LeavesRow ==
  ASSUME NEW x \in -1..NumCols - 1
  PROVE  (x + 1) \div NumCols = IF x = NumCols - 1 THEN 1 ELSE 0
BY Sizes

LEMMA Scrolled ==
  ASSUME NEW s, Accepted(s), s.x < NumCols
  PROVE  /\ Ready(Scroll(s))
         /\ s.y < NumRows => Scroll(s) = s
         /\ s.y = NumRows => Scroll(s).x = 0 /\ Scroll(s).y = NumRows - 1
<1>1. CASE s.y < NumRows
  BY <1>1, Sizes DEF Scroll, Accepted, Drawn, Ready
<1>2. CASE s.y = NumRows
  <2> DEFINE r == [x |-> 0, y |-> NumRows - 1, newlinecheck |-> s.newlinecheck,
                   video |-> Rolled(s)]
  <2>1. s \in Record([Cells -> Glyphs])
    BY Records DEF Accepted
  <2>2. Scroll(s) = r /\ Rolled(s) \in [Cells -> Glyphs]
    BY <1>2, <2>1, ScrolledTo, Sizes
  <2>3. r \in Drawn
    BY <2>2, Sizes DEF Accepted, Drawn
  <2> QED
    BY <1>2, <2>2, <2>3, Sizes DEF Ready, Accepted
<1> QED
  BY <1>1, <1>2, Sizes DEF Accepted, Drawn

LEMMA Wrapped ==
  ASSUME NEW s, Accepted(s)
  PROVE  /\ Accepted(Wrap(s)) /\ Wrap(s).x < NumCols
         /\ s.x < NumCols => Wrap(s) = s
         /\ s.x # -1 => Wrap(s).x # -1
<1>1. CASE s.x = NumCols
  <2> DEFINE wrapped == [x |-> 0, y |-> s.y, newlinecheck |-> 1, video |-> s.video]
  <2>1. Wrap(s) = wrapped
    BY <1>1 DEF Wrap, Accepted, Drawn
  <2>2. wrapped \in Drawn
    BY Sizes DEF Accepted, Drawn
  <2> QED
    BY <1>1, <2>1, <2>2, Sizes DEF Accepted
<1>2. CASE s.x # NumCols
  BY <1>2, Sizes DEF Accepted, Drawn, Wrap
<1> QED
  BY <1>1, <1>2

LEMMA Prepared ==
  ASSUME NEW s, Accepted(s)
  PROVE  Ready(Scroll(Wrap(s)))
BY Wrapped, Scrolled

LEMMA Drawing ==
  ASSUME NEW s, Ready(s), NEW char \in Glyphs
  PROVE  /\ CellOf(s.x, s.y) \in Cells
         /\ Put(s, char) =
              [x |-> s.x + 1, y |-> IF s.x = NumCols - 1 THEN s.y + 1 ELSE s.y,
               newlinecheck |-> s.newlinecheck,
               video |-> [s.video EXCEPT ![CellOf(s.x, s.y)] = char]]
         /\ Sound(Put(s, char))
<1>1. /\ s.x \in -1..NumCols - 1 /\ s.y \in 0..NumRows - 1 /\ (s.x = -1 => s.y > 0)
      /\ s.video \in [Cells -> Glyphs] /\ s.newlinecheck \in {0, 1}
  BY Sizes DEF Ready, Accepted, Drawn
<1>2. CellOf(s.x, s.y) \in Cells
  BY <1>1, InMemory
<1>3. (s.x + 1) \div NumCols = IF s.x = NumCols - 1 THEN 1 ELSE 0
  BY <1>1, LeavesRow
<1> DEFINE r == [x |-> s.x + 1, y |-> IF s.x = NumCols - 1 THEN s.y + 1 ELSE s.y,
                 newlinecheck |-> s.newlinecheck,
                 video |-> [s.video EXCEPT ![CellOf(s.x, s.y)] = char]]
<1>4. Put(s, char) = r
  <2>1. s \in Record([Cells -> Glyphs])
    BY Records DEF Ready, Accepted
  <2>2. s.y + (s.x + 1) \div NumCols = IF s.x = NumCols - 1 THEN s.y + 1 ELSE s.y
    BY <1>1, <1>3
  <2> QED
    BY <2>1, <2>2, PutAt
<1>5. r \in Drawn
  <2>1. [s.video EXCEPT ![CellOf(s.x, s.y)] = char] \in [Cells -> Glyphs]
    BY <1>1
  <2> QED
    BY <1>1, <2>1, Sizes DEF Drawn
<1> QED
  BY <1>1, <1>2, <1>4, <1>5, Sizes DEF Sound, Ready, Accepted

\* putc, wherever a character, a wrap or a line feed left the cursor.
LEMMA PutcSound ==
  ASSUME NEW s, Accepted(s), NEW char \in Glyphs \cup {Newline, Nul},
         char = Nul => s.x # -1
  PROVE  Sound(Putc(s, char))
<1> DEFINE ready == Scroll(Wrap(s))
<1>1. Ready(ready) /\ (s.x # -1 => ready.x # -1)
  <2>1. Ready(ready)
    BY Prepared
  <2>2. CASE s.x # -1
    <3>1. Wrap(s).x # -1 /\ Accepted(Wrap(s)) /\ Wrap(s).x < NumCols
      BY <2>2, Wrapped
    <3> QED
      BY <2>1, <3>1, Scrolled, Sizes DEF Accepted, Drawn
  <2> QED
    BY <2>1, <2>2
<1> HIDE DEF ready
<1>2. CASE char = Nul
  <2>1. Sound(ready)
    BY <1>1, <1>2, Sizes DEF Ready, Accepted, Drawn, Sound
  <2> QED
    BY <1>2, <2>1 DEF Putc, ready, Newline, Nul, Char
<1>3. CASE char = Newline
  <2> DEFINE down == [x |-> 0, y |-> ready.y + 1, newlinecheck |-> ready.newlinecheck,
                      video |-> ready.video]
  <2>1. [ready EXCEPT !.y = @ + 1, !.x = 0] = down
    BY <1>1, Records, MovedTo DEF Ready, Accepted, Record
  <2>2. Newline # Nul
    BY DEF Newline, Nul, Char
  <2>3. Putc(s, char) = down
    BY <1>3, <2>1, <2>2 DEF Putc, ready
  <2>4. Sound(down)
    BY <1>1, Sizes DEF Ready, Accepted, Drawn, Sound
  <2> QED
    BY <2>3, <2>4
<1>4. CASE char \notin {Newline, Nul}
  <2>1. Putc(s, char) = Put(ready, char)
    BY <1>4 DEF Putc, ready
  <2> QED
    BY <1>1, <1>4, <2>1, Drawing
<1> QED
  BY <1>2, <1>3, <1>4

LEMMA NewlineSound == ASSUME NEW s, Sound(s) PROVE Sound(NewlineKeyboard(s))
<1> DEFINE down == [x |-> 0, y |-> s.y + 1, newlinecheck |-> s.newlinecheck, video |-> s.video]
<1>1. [s EXCEPT !.y = @ + 1, !.x = 0] = down
  BY Records, MovedTo DEF Sound, Record
<1>2. CASE s.y < NumRows
  <2>1. Accepted(down) /\ down.x < NumCols
    BY <1>2, Sizes DEF Sound, Drawn, Accepted
  <2>2. Ready(Scroll(down)) /\ Scroll(down).x # -1
    BY <2>1, Scrolled, Sizes DEF Accepted, Drawn
  <2> HIDE DEF down
  <2>3. Sound([Scroll(down) EXCEPT !.newlinecheck = 0])
    BY <2>2, Sizes DEF Ready, Accepted, Drawn, Sound
  <2> QED
    BY <1>1, <2>3 DEF NewlineKeyboard
<1>3. CASE s.y = NumRows
  <2> DEFINE low == [x |-> 0, y |-> NumRows - 1, newlinecheck |-> s.newlinecheck,
                     video |-> Rolled(down)]
             r == [x |-> 0, y |-> NumRows - 1, newlinecheck |-> 0, video |-> Rolled(down)]
  <2>1. down \in Record([Cells -> Glyphs])
    BY Records DEF Sound, Record
  <2>2. Rolled(down) \in [Cells -> Glyphs]
    BY <2>1, ScrolledTo
  <2>3. Scroll(down) = low
    BY <1>3, <2>1, ScrolledTo, Sizes
  <2>4. [low EXCEPT !.newlinecheck = 0] = r
    OBVIOUS
  <2>5. NewlineKeyboard(s) = r
    BY <1>1, <2>3, <2>4 DEF NewlineKeyboard
  <2>6. Sound(r)
    BY <2>2, Sizes DEF Sound, Drawn
  <2> QED
    BY <2>5, <2>6
<1> QED
  BY <1>2, <1>3, Sizes DEF Sound, Drawn

\* One blank before the cursor, with the cursor moved onto it.
LEMMA EraseSound ==
  ASSUME NEW s, Sound(s), s.x # 0
  PROVE  Sound(Erase(s))
<1> DEFINE back == [x |-> s.x - 1, y |-> s.y, newlinecheck |-> s.newlinecheck, video |-> s.video]
<1>1. [s EXCEPT !.x = @ - 1] = back
  BY DEF Sound, Drawn
<1>2. Accepted(back) /\ back.x \in 0..NumCols - 1
  BY Sizes DEF Sound, Drawn, Accepted
<1> HIDE DEF back
<1>3. Space \in Glyphs /\ Space \notin {Newline, Nul}
  BY DEF Glyphs, Chars, Space, Newline, Nul, Char
<1> DEFINE ready == Scroll(Wrap(back))
           blanked == Put(ready, Space)
<1>4. Ready(ready) /\ ready.x # -1
  <2>1. Wrap(back) = back
    BY <1>2, Sizes DEF Wrap
  <2> QED
    BY <1>2, <2>1, Prepared, Scrolled, Sizes DEF Accepted, Drawn
<1>5. Blank(s) = blanked
  BY <1>1, <1>3 DEF Blank, Putc
<1> HIDE DEF ready
<1>6. Sound(blanked) /\ blanked.x >= 1
  BY <1>3, <1>4, Drawing, Sizes DEF Ready, Accepted, Drawn
<1> HIDE DEF blanked
<1>7. Sound([blanked EXCEPT !.x = @ - 1])
  <2> DEFINE r == [x |-> blanked.x - 1, y |-> blanked.y, newlinecheck |-> blanked.newlinecheck,
                   video |-> blanked.video]
  <2>1. [blanked EXCEPT !.x = @ - 1] = r
    BY <1>6 DEF Sound, Drawn
  <2>2. Sound(r)
    BY <1>6, Sizes DEF Sound, Drawn
  <2> QED
    BY <2>1, <2>2
<1> QED
  BY <1>5, <1>7 DEF Erase

LEMMA BackspaceSound == ASSUME NEW s, Sound(s) PROVE Sound(BackspaceKeyboard(s))
<1>1. CASE s.x # 0
  BY <1>1, EraseSound DEF BackspaceKeyboard
<1>2. CASE s.x = 0 /\ s.newlinecheck = 0
  BY <1>2 DEF BackspaceKeyboard
<1>3. CASE s.x = 0 /\ s.newlinecheck = 1
  <2> DEFINE back == [x |-> -1, y |-> s.y, newlinecheck |-> 1, video |-> s.video]
  <2>1. [s EXCEPT !.x = @ - 1] = back
    BY <1>3 DEF Sound, Drawn
  <2>2. Accepted(back) /\ back.x < NumCols /\ s.y > 0
    BY <1>3, Sizes DEF Sound, Drawn, Accepted
  <2>3. Space \in Glyphs /\ Space \notin {Newline, Nul}
    BY DEF Glyphs, Chars, Space, Newline, Nul, Char
  <2> DEFINE ready == Scroll(Wrap(back))
             blanked == Put(ready, Space)
  <2>4. Ready(ready) /\ ready.y > 0
    <3>1. Wrap(back) = back
      BY Sizes DEF Wrap
    <3> HIDE DEF back
    <3>2. ready.y = IF back.y < NumRows THEN back.y ELSE NumRows - 1
      BY <2>2, <3>1, Scrolled, Sizes DEF Accepted, Drawn
    <3>3. ready.y > 0
      BY <2>2, <3>2, Sizes DEF back
    <3> QED
      BY <2>2, <3>3, Prepared
  <2>5. Blank(s) = blanked
    BY <2>1, <2>3 DEF Blank, Putc
  <2> HIDE DEF ready
  <2>6. Sound(blanked) /\ blanked.y >= 1
    BY <2>3, <2>4, Drawing, Sizes DEF Ready, Accepted, Drawn
  <2> HIDE DEF blanked
  <2> DEFINE r == [x |-> NumCols - 1, y |-> blanked.y - 1, newlinecheck |-> 0,
                   video |-> blanked.video]
  <2>7. [blanked EXCEPT !.x = NumCols - 1, !.y = @ - 1, !.newlinecheck = 0] = r
    BY <2>6, Records, BackTo DEF Sound
  <2>8. Sound(r) /\ r.x # 0
    BY <2>6, Sizes DEF Sound, Drawn
  <2>9. BackspaceKeyboard(s) = Erase(r)
    BY <1>3, <2>5, <2>7 DEF BackspaceKeyboard
  <2> HIDE DEF r
  <2> QED
    BY <2>8, <2>9, EraseSound
<1> QED
  BY <1>1, <1>2, <1>3 DEF Sound, Drawn

LEMMA FreshSound ==
  ASSUME NEW char \in Glyphs
  PROVE  Sound(Fresh(char))
BY Sizes DEF Fresh, Sound, Drawn

-----------------------------------------------------------------------------
\* What a run substitutes for the parameters of Keyboard.
OnScreen ==
  /\ \A s, char : putc(s, char) = Putc(s, char)
  /\ \A s : newline_keyboard(s) = NewlineKeyboard(s)
  /\ \A s : backspace_keyboard(s) = BackspaceKeyboard(s)
  /\ \A s : clearscreen(s) = Clearscreen(s)
  /\ Cleared = ClearedScreen /\ Unwritten = UnknownScreen

AllSound == Sound(screen) /\ saved \in [Terminals -> {s \in Drawn : Sound(s)}]

LEMMA SoundInit == OnScreen /\ Init => AllSound
<1>1. Space \in Glyphs /\ Char("unknown", 0) \in Glyphs
  BY DEF Glyphs, Chars
<1>2. Sound(ClearedScreen) /\ Sound(UnknownScreen)
  BY <1>1, FreshSound DEF ClearedScreen, UnknownScreen
<1> QED
  BY <1>2 DEF OnScreen, Init, AllSound, Sound

LEMMA SoundNext == OnScreen /\ TypeInv /\ AllSound /\ [Next]_vars => AllSound'
<1> SUFFICES ASSUME OnScreen, TypeInv, AllSound, [Next]_vars PROVE AllSound'
  OBVIOUS
<1>1. CASE UNCHANGED screen /\ UNCHANGED saved
  BY <1>1 DEF AllSound, Sound
<1>2. CASE screen' = clearscreen(screen) /\ UNCHANGED saved
  <2>1. Sound(Clearscreen(screen))
    BY FreshSound DEF Clearscreen, Glyphs, Chars
  <2> QED
    BY <1>2, <2>1 DEF OnScreen, AllSound
<1>3. ASSUME NEW char \in Chars \cup Outputs, screen' = putc(screen, char), UNCHANGED saved
      PROVE  AllSound'
  <2>1. Accepted(screen) /\ screen.x # -1
    BY Sizes DEF AllSound, Sound, Accepted, Drawn
  <2>2. Sound(Putc(screen, char))
    BY <2>1, PutcSound DEF Glyphs
  <2> QED
    BY <1>3, <2>2 DEF OnScreen, AllSound
<1>4. CASE screen' = newline_keyboard(screen) /\ UNCHANGED saved
  BY <1>4, NewlineSound DEF OnScreen, AllSound
<1>5. CASE screen' = backspace_keyboard(screen) /\ UNCHANGED saved
  BY <1>5, BackspaceSound DEF OnScreen, AllSound
<1>6. ASSUME NEW t \in Terminals, Switch(t) PROVE AllSound'
  BY <1>6 DEF Switch, Stored, TypeInv, TypeOK, AllSound, Sound
<1>7. CASE KeyboardHandler
  <2>1. CASE ClearKey
    BY <1>2, <2>1 DEF ClearKey, display
  <2>2. CASE Enter
    BY <1>4, <2>2 DEF Enter, display
  <2>3. CASE Backspace
    BY <1>5, <2>3 DEF Backspace, display
  <2>4. ASSUME NEW char \in Chars, Typed(char) PROVE AllSound'
    BY <1>3, <2>4 DEF Typed, display
  <2>5. CASE SpaceKey \/ \E key \in Letters : LetterKey(key)
    <3>1. Space \in Chars /\ \A key \in Letters, half \in {0, 1} : Char(key, half) \in Chars
      BY DEF Chars
    <3> QED
      BY <2>4, <2>5, <3>1 DEF SpaceKey, LetterKey
  <2>6. CASE CapsKey \/ \E down \in {0, 1} : ShiftKey(down) \/ CrtlKey(down) \/ AltKey(down)
    BY <1>1, <2>6 DEF CapsKey, ShiftKey, CrtlKey, AltKey, Quiet, display
  <2> QED
    BY <1>6, <1>7, <2>1, <2>2, <2>3, <2>5, <2>6 DEF KeyboardHandler
<1>8. CASE \E char \in Outputs : Write(char)
  BY <1>3, <1>8 DEF Write, display
<1>9. CASE \/ UNCHANGED vars
           \/ \E n \in ReadSizes : ReadBegin(n)
           \/ ReadTerminal \/ OtherBegin \/ OtherEnd
  BY <1>1, <1>9 DEF vars, ReadBegin, ReadTerminal, ReadWait, ReadSkip, ReadCopy, ReadClear,
                    ReadReset, ReadReturn, Reads, OtherBegin, OtherEnd, display
<1> QED
  BY <1>7, <1>8, <1>9 DEF Next

\* Whatever is typed, erased, written and scrolled, on a screen of any size,
\* every screen has its cursor where putc and backspace write inside it.
THEOREM ScreensKept ==
  ASSUME OnScreen
  PROVE  Spec => []ScreensOK
<1>1. Init => TypeInv /\ AllSound
  BY TypeInit, SoundInit
<1>2. TypeInv /\ AllSound /\ [Next]_vars => (TypeInv /\ AllSound)'
  BY TypeNext, SoundNext
<1>3. ASSUME AllSound PROVE ScreensOK
  <2>1. ASSUME NEW s, Sound(s) PROVE ScreenOK(s)
    BY <2>1, Sizes DEF Sound, Drawn, ScreenOK
  <2> QED
    BY <1>3, <2>1 DEF AllSound, ScreensOK
<1> QED
  BY <1>1, <1>2, <1>3, PTL DEF Spec

-----------------------------------------------------------------------------
\* putc with the cursor on the screen, off the last column.
LEMMA PutInRow ==
  ASSUME NEW s, Sound(s), s.x < NumCols - 1, s.y < NumRows, NEW char \in Glyphs,
         char \notin {Newline, Nul}
  PROVE  Putc(s, char) =
           [x |-> s.x + 1, y |-> s.y, newlinecheck |-> s.newlinecheck,
            video |-> [s.video EXCEPT ![CellOf(s.x, s.y)] = char]]
<1>1. s.x \in 0..NumCols - 2 /\ s.y \in 0..NumRows - 1
  BY Sizes DEF Sound, Drawn
<1>2. Wrap(s) = s /\ Scroll(s) = s
  BY <1>1, Sizes DEF Wrap, Scroll
<1>3. Ready(s)
  BY <1>1, Sizes DEF Sound, Ready, Accepted
<1>4. s.x # NumCols - 1
  BY <1>1, Sizes
<1>5. Putc(s, char) = Put(s, char)
  BY <1>2 DEF Putc
<1> QED
  BY <1>3, <1>4, <1>5, Drawing

\* Off the last column a character typed and erased leaves its cell blank, the
\* cursor where it was and everything else alone.
THEOREM ErasesTyped ==
  ASSUME OnScreen
  PROVE  Spec => []EraseUndoesType
<1>1. ASSUME NEW s, Sound(s), s.x < NumCols - 1, s.y < NumRows, NEW char \in Typeable
      PROVE  BackspaceKeyboard(Putc(s, char)) =
               [s EXCEPT !.video[CellOf(s.x, s.y)] = Space]
  <2> DEFINE here == CellOf(s.x, s.y)
  <2>1. char \in Glyphs /\ char \notin {Newline, Nul}
    BY KeyboardAssumption DEF Typeable, Glyphs, Chars, Newline, Nul, Char
  <2>2. Space \in Glyphs /\ Space \notin {Newline, Nul}
    BY DEF Glyphs, Chars, Space, Newline, Nul, Char
  <2>3. PICK typed : typed = Putc(s, char)
    OBVIOUS
  <2>4. typed = [x |-> s.x + 1, y |-> s.y, newlinecheck |-> s.newlinecheck,
                 video |-> [s.video EXCEPT ![here] = char]]
    BY <1>1, <2>1, <2>3, PutInRow
  <2>5. PICK back : back = [typed EXCEPT !.x = @ - 1]
    OBVIOUS
  <2>6. back = [x |-> s.x, y |-> s.y, newlinecheck |-> s.newlinecheck,
                video |-> [s.video EXCEPT ![here] = char]]
    BY <1>1, <2>4, <2>5, Sizes DEF Sound, Drawn
  <2>7. Sound(back) /\ back.x < NumCols - 1 /\ back.y < NumRows
    BY <1>1, <2>1, <2>6 DEF Sound, Drawn
  <2>8. PICK blanked : blanked = Putc(back, Space)
    OBVIOUS
  <2>9. blanked = [x |-> s.x + 1, y |-> s.y, newlinecheck |-> s.newlinecheck,
                   video |-> [s.video EXCEPT ![here] = Space]]
    <3>1. blanked = [x |-> back.x + 1, y |-> back.y, newlinecheck |-> back.newlinecheck,
                     video |-> [back.video EXCEPT ![here] = Space]]
      BY <2>2, <2>6, <2>7, <2>8, PutInRow
    <3>2. [back.video EXCEPT ![here] = Space] = [s.video EXCEPT ![here] = Space]
      BY <1>1, <2>6 DEF Sound, Drawn
    <3> QED
      BY <2>6, <3>1, <3>2
  <2>10. BackspaceKeyboard(typed) = [blanked EXCEPT !.x = @ - 1]
    <3>1. typed.x # 0
      BY <1>1, <2>4, Sizes DEF Sound, Drawn
    <3> QED
      BY <2>5, <2>8, <3>1 DEF BackspaceKeyboard, Erase, Blank
  <2>11. [blanked EXCEPT !.x = @ - 1] =
           [x |-> s.x, y |-> s.y, newlinecheck |-> s.newlinecheck,
            video |-> [s.video EXCEPT ![here] = Space]]
    BY <1>1, <2>9, Sizes DEF Sound, Drawn
  <2>12. [s EXCEPT !.video[here] = Space] =
           [x |-> s.x, y |-> s.y, newlinecheck |-> s.newlinecheck,
            video |-> [s.video EXCEPT ![here] = Space]]
    BY <1>1 DEF Sound, Drawn
  <2> QED
    BY <2>3, <2>10, <2>11, <2>12
<1>2. AllSound => EraseUndoesType
  BY <1>1 DEF AllSound, EraseUndoesType
<1>3. Init => TypeInv /\ AllSound
  BY TypeInit, SoundInit
<1>4. TypeInv /\ AllSound /\ [Next]_vars => (TypeInv /\ AllSound)'
  BY TypeNext, SoundNext
<1> QED
  BY <1>2, <1>3, <1>4, PTL DEF Spec
=============================================================================
