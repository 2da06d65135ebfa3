--------------------------- MODULE ProgramsProofs ---------------------------
(***************************************************************************)
(* Theorems about Programs, for every disk, every line typed and every     *)
(* size of grep's buffer.                                                  *)
(*                                                                         *)
(* ProgramsInv has a part for each program: what its descriptors are, how  *)
(* far it has read and what it has shown.  PassInv adds what the tests of  *)
(* syserr have seen, for a table of eight descriptors (NoneToFind), and    *)
(* SearchInv what grep has shown: of every text it has searched all there  *)
(* is (Right), and of the one it is at up to the line its buffer is at     *)
(* (Search).                                                               *)
(***************************************************************************)
EXTENDS Programs, SequenceTheorems, WellFoundedInduction, TLAPS

\* A set of numbers has a least one.  It takes the place of an induction rule
\* whose predicate would be a parameter.
LEMMA LeastOfSet ==
  ASSUME NEW S, S \subseteq Nat, S # {}
  PROVE  \E x \in S : \A y \in S : x <= y
<1> DEFINE R == OpToRel(<, Nat)
<1>1. IsWellFoundedOn(R, Nat)
  BY NatLessThanWellFounded
<1>2. \A x, y \in Nat : x < y => <<x, y>> \in R
  BY DEF OpToRel
<1> HIDE DEF R
<1>3. PICK x \in S : \A y \in S : <<y, x>> \notin R
  BY <1>1, WFMin
<1>4. \A y \in S : ~(y < x)
  BY <1>2, <1>3
<1> QED
  BY <1>4

\* Induction, over a set.
LEMMA Induction ==
  ASSUME NEW S, 0 \in S, \A n \in Nat : n \in S => n + 1 \in S
  PROVE  Nat \subseteq S
<1> DEFINE T == Nat \ S
<1> SUFFICES ASSUME T # {} PROVE FALSE
  OBVIOUS
<1>1. PICK x \in T : \A y \in T : x <= y
  BY LeastOfSet
<1>2. x # 0 /\ x - 1 \in Nat
  OBVIOUS
<1>3. x - 1 \in S
  BY <1>1, <1>2
<1> QED
  BY <1>2, <1>3

-----------------------------------------------------------------------------
\* A character or a message: the provers do not know that "." is in STRING.
Char == STRING \cup {Nul, Space, Newline, ".", ":", "x",
          "no such command", "program terminated by exception",
          "program terminated abnormally", "could not read arguments", "open failed",
          "read failed", "could not read argument", "directory open failed",
          "directory entry read failed", "file open failed", "Choose from tests",
          "Can't read test #", "Invalid test number", "PASS", "FAIL"}

Text == Seq(Char)

\* Strings are such texts.
LEMMA Wider == Seq(STRING) \subseteq Text
<1>1. STRING \subseteq Char
  BY DEF Char
<1> SUFFICES ASSUME NEW s \in Seq(STRING) PROVE s \in Seq(Char)
  BY DEF Text
<1> QED
  BY <1>1, SeqMonotonic

\* The beginnings of the sequences ss put together, as FlattenSeq defines them.
Joins(v, ss) ==
  v = [i \in 1..Len(ss) |-> IF i = 1 THEN ss[i] ELSE v[i - 1] \o ss[i]]

\* The pieces joined, up to each of them.
LEMMA JoinsAt ==
  ASSUME NEW ss, NEW v, Joins(v, ss), NEW i \in 1..Len(ss)
  PROVE  v[i] = IF i = 1 THEN ss[i] ELSE v[i - 1] \o ss[i]
BY DEF Joins

\* They can be joined.
LEMMA JoinsExists ==
  ASSUME NEW ss \in Seq(Text)
  PROVE  \E v \in [1..Len(ss) -> Text] : Joins(v, ss)
<1> DEFINE Upto(v, n) == /\ v \in [1..n -> Text]
                         /\ \A i \in 1..n : v[i] = IF i = 1 THEN ss[i] ELSE v[i - 1] \o ss[i]
           S == {n \in Nat : n <= Len(ss) => \E v : Upto(v, n)}
<1>0. \A i \in 1..Len(ss) : ss[i] \in Text
  OBVIOUS
<1>1. 0 \in S
  <2>1. Upto([i \in 1..0 |-> <<>>], 0)
    OBVIOUS
  <2> QED
    BY <2>1
<1>2. ASSUME NEW n \in Nat, n \in S PROVE n + 1 \in S
  <2> SUFFICES ASSUME n + 1 <= Len(ss) PROVE \E v : Upto(v, n + 1)
    OBVIOUS
  <2>1. PICK v : Upto(v, n)
    BY <1>2
  <2>2. n + 1 \in 1..Len(ss) /\ ss[n + 1] \in Text
    BY <1>0
  <2> DEFINE x == IF n = 0 THEN ss[1] ELSE v[n] \o ss[n + 1]
             w == [i \in 1..n + 1 |-> IF i <= n THEN v[i] ELSE x]
  <2>3. x \in Text
    <3>1. CASE n = 0
      BY <2>2, <3>1
    <3>2. CASE n # 0
      <4>1. v[n] \in Text
        BY <2>1, <3>2
      <4> QED
        BY <2>2, <3>2, <4>1 DEF Text
    <3> QED
      BY <3>1, <3>2
  <2> HIDE DEF x
  <2>4. w \in [1..n + 1 -> Text]
    BY <2>1, <2>3
  <2>5. ASSUME NEW i \in 1..n + 1 PROVE w[i] = IF i = 1 THEN ss[i] ELSE w[i - 1] \o ss[i]
    <3>1. CASE i <= n
      <4>1. i \in 1..n /\ w[i] = v[i] /\ (i # 1 => w[i - 1] = v[i - 1])
        BY <3>1
      <4> QED
        BY <2>1, <4>1
    <3>2. CASE i = n + 1
      <4>1. w[i] = x /\ (i # 1 => w[i - 1] = v[n])
        BY <3>2
      <4> QED
        BY <3>2, <4>1 DEF x
    <3> QED
      BY <3>1, <3>2
  <2> HIDE DEF w
  <2>6. Upto(w, n + 1)
    BY <2>4, <2>5
  <2> QED
    BY <2>6
<1> HIDE DEF S
<1>3. Nat \subseteq S
  BY <1>1, <1>2, Induction
<1>4. Len(ss) \in Nat
  OBVIOUS
<1>5. PICK v : Upto(v, Len(ss))
  <2>1. Len(ss) \in S
    BY <1>3, <1>4
  <2> HIDE DEF Upto
  <2> QED
    BY <2>1 DEF S
<1>6. v = [i \in 1..Len(ss) |-> IF i = 1 THEN ss[i] ELSE v[i - 1] \o ss[i]]
  BY <1>5
<1> QED
  BY <1>5, <1>6 DEF Joins

\* One sequence more leaves the beginnings as they are.
LEMMA JoinsAgree ==
  ASSUME NEW ss \in Seq(Text), NEW s \in Text, NEW v, NEW w,
         Joins(v, ss), Joins(w, Append(ss, s))
  PROVE  \A i \in 1..Len(ss) : w[i] = v[i]
<1> DEFINE S == {i \in Nat : i \in 1..Len(ss) => w[i] = v[i]}
<1>0. Len(ss) \in Nat /\ Len(Append(ss, s)) = Len(ss) + 1
  OBVIOUS
<1>1. 0 \in S
  OBVIOUS
<1>2. ASSUME NEW n \in Nat, n \in S PROVE n + 1 \in S
  <2> SUFFICES ASSUME n + 1 \in 1..Len(ss) PROVE w[n + 1] = v[n + 1]
    OBVIOUS
  <2>1. Append(ss, s)[n + 1] = ss[n + 1]
    OBVIOUS
  <2>2. v[n + 1] = IF n + 1 = 1 THEN ss[n + 1] ELSE v[n] \o ss[n + 1]
    <3>1. (n + 1) - 1 = n
      OBVIOUS
    <3>2. v[n + 1] = IF n + 1 = 1 THEN ss[n + 1] ELSE v[(n + 1) - 1] \o ss[n + 1]
      BY JoinsAt
    <3> QED
      BY <3>1, <3>2
  <2>3. w[n + 1] = IF n + 1 = 1 THEN ss[n + 1] ELSE w[n] \o ss[n + 1]
    <3>1. n + 1 \in 1..Len(Append(ss, s)) /\ (n + 1) - 1 = n
      BY <1>0
    <3>2. w[n + 1] = IF n + 1 = 1 THEN Append(ss, s)[n + 1] ELSE w[(n + 1) - 1] \o Append(ss, s)[n + 1]
      BY <3>1, JoinsAt
    <3> QED
      BY <2>1, <3>1, <3>2
  <2>4. n # 0 => w[n] = v[n]
    BY <1>0, <1>2
  <2> QED
    BY <2>2, <2>3, <2>4
<1> HIDE DEF S
<1>3. Nat \subseteq S
  BY <1>1, <1>2, Induction
<1> QED
  BY <1>0, <1>3 DEF S

\* FlattenSeq joins the pieces one behind the other.
LEMMA FlattenIs ==
  ASSUME NEW ss \in Seq(Text), ss # <<>>
  PROVE  \E v \in [1..Len(ss) -> Text] : Joins(v, ss) /\ FlattenSeq(ss) = v[Len(ss)]
<1>1. PICK v \in [1..Len(ss) -> Text] : Joins(v, ss)
  BY JoinsExists
<1> DEFINE w == CHOOSE w : w = [i \in 1..Len(ss) |-> IF i = 1 THEN ss[i] ELSE w[i - 1] \o ss[i]]
<1>2. Joins(w, ss)
  BY <1>1 DEF Joins
<1>3. FlattenSeq(ss) = w[Len(ss)]
  BY DEF FlattenSeq
<1> HIDE DEF w
<1>4. w \in [1..Len(ss) -> Text]
  <2> DEFINE S == {i \in Nat : i \in 1..Len(ss) => w[i] = v[i]}
  <2>1. 0 \in S
    OBVIOUS
  <2>2. ASSUME NEW n \in Nat, n \in S PROVE n + 1 \in S
    <3> SUFFICES ASSUME n + 1 \in 1..Len(ss) PROVE w[n + 1] = v[n + 1]
      OBVIOUS
    <3>1. n # 0 => w[n] = v[n]
      BY <2>2
    <3>2. (n + 1) - 1 = n
      OBVIOUS
    <3>3. v[n + 1] = IF n + 1 = 1 THEN ss[n + 1] ELSE v[(n + 1) - 1] \o ss[n + 1]
      BY <1>1, JoinsAt
    <3>4. w[n + 1] = IF n + 1 = 1 THEN ss[n + 1] ELSE w[(n + 1) - 1] \o ss[n + 1]
      BY <1>2, JoinsAt
    <3> QED
      BY <3>1, <3>2, <3>3, <3>4
  <2> HIDE DEF S
  <2>3. Nat \subseteq S
    BY <2>1, <2>2, Induction
  <2>4. \A i \in 1..Len(ss) : w[i] = v[i]
    BY <2>3 DEF S
  <2>5. \A i \in 1..Len(ss) : w[i] \in Text
    BY <2>4
  <2>6. w = [i \in 1..Len(ss) |-> IF i = 1 THEN ss[i] ELSE w[i - 1] \o ss[i]]
    BY <1>2 DEF Joins
  <2>7. w = [i \in 1..Len(ss) |-> w[i]]
    BY <2>6
  <2> QED
    BY <2>5, <2>7
<1> QED
  BY <1>2, <1>3, <1>4

\* No pieces make an empty text.
LEMMA FlattenNone == FlattenSeq(<<>>) = <<>>
BY DEF FlattenSeq

\* Texts make a text.
LEMMA FlattenText ==
  ASSUME NEW ss \in Seq(Text) PROVE FlattenSeq(ss) \in Text
<1>1. CASE ss = <<>>
  <2>1. <<>> \in Seq(Char)
    OBVIOUS
  <2> QED
    BY <1>1, <2>1, FlattenNone DEF Text
<1>2. CASE ss # <<>>
  <2>1. Len(ss) \in 1..Len(ss)
    BY <1>2
  <2> QED
    BY <1>2, <2>1, FlattenIs
<1> QED
  BY <1>1, <1>2

\* One piece more comes behind the others.
LEMMA FlattenAppend ==
  ASSUME NEW ss \in Seq(Text), NEW s \in Text
  PROVE  FlattenSeq(Append(ss, s)) = FlattenSeq(ss) \o s
<1> DEFINE tt == Append(ss, s)
<1>1. tt \in Seq(Text)
  OBVIOUS
<1>2. tt # <<>> /\ Len(tt) = Len(ss) + 1 /\ tt[Len(tt)] = s /\ Len(ss) \in Nat
  OBVIOUS
<1> HIDE DEF tt
<1>3. PICK w \in [1..Len(tt) -> Text] : Joins(w, tt) /\ FlattenSeq(tt) = w[Len(tt)]
  BY <1>1, <1>2, FlattenIs
<1>4. w[Len(tt)] = IF Len(tt) = 1 THEN s ELSE w[Len(ss)] \o s
  <2>1. Len(tt) \in 1..Len(tt) /\ Len(tt) - 1 = Len(ss)
    BY <1>2
  <2>2. w[Len(tt)] = IF Len(tt) = 1 THEN tt[Len(tt)] ELSE w[Len(tt) - 1] \o tt[Len(tt)]
    BY <1>3, <2>1, JoinsAt
  <2> QED
    BY <1>2, <2>1, <2>2
<1>5. CASE ss = <<>>
  <2>1. Len(tt) = 1 /\ FlattenSeq(ss) = <<>>
    BY <1>2, <1>5, FlattenNone
  <2>2. <<>> \o s = s
    BY DEF Text
  <2> QED
    BY <1>3, <1>4, <2>1, <2>2 DEF tt
<1>6. CASE ss # <<>>
  <2>1. PICK v \in [1..Len(ss) -> Text] : Joins(v, ss) /\ FlattenSeq(ss) = v[Len(ss)]
    BY <1>6, FlattenIs
  <2>2. Len(ss) \in 1..Len(ss)
    BY <1>6
  <2>3. w[Len(ss)] = v[Len(ss)]
    BY <1>3, <2>1, <2>2, JoinsAgree DEF tt
  <2> QED
    BY <1>2, <1>3, <1>4, <2>1, <2>2, <2>3 DEF tt
<1> QED
  BY <1>5, <1>6
-----------------------------------------------------------------------------
\* What one character shows.
Shown(c) == IF c = Nul THEN <<>> ELSE <<c>>

Pieces(bytes) == [k \in DOMAIN bytes |-> Shown(bytes[k])]

\* Sequences of one character.
LEMMA ShownText ==
  ASSUME NEW c \in Char PROVE Shown(c) \in Text /\ <<c>> \in Text /\ <<>> \in Text
<1>1. <<>> \in Seq(Char)
  BY EmptySeq
<1>2. Append(<<>>, c) = <<c>>
  OBVIOUS
<1>3. Append(<<>>, c) \in Seq(Char)
  BY <1>1, AppendProperties
<1> QED
  BY <1>1, <1>2, <1>3 DEF Shown, Text

\* What is shown, piece by piece.
LEMMA VisibleIs ==
  ASSUME NEW bytes \in Text
  PROVE  Pieces(bytes) \in Seq(Text) /\ Visible(bytes) = FlattenSeq(Pieces(bytes))
<1>1. \A k \in 1..Len(bytes) : Shown(bytes[k]) \in Text
  <2> SUFFICES ASSUME NEW k \in 1..Len(bytes) PROVE Shown(bytes[k]) \in Text
    OBVIOUS
  <2>1. bytes[k] \in Char
    BY DEF Text
  <2> QED
    BY <2>1, ShownText
<1>2. DOMAIN bytes = 1..Len(bytes) /\ Len(bytes) \in Nat
  BY DEF Text
<1>3. Pieces(bytes) \in [1..Len(bytes) -> Text]
  BY <1>1, <1>2 DEF Pieces
<1>4. Pieces(bytes) \in Seq(Text)
  BY <1>2, <1>3
<1> QED
  BY <1>4 DEF Visible, Pieces, Shown

\* It is a text, empty for an empty one, and one piece longer for one more character.
LEMMA VisibleText ==
  ASSUME NEW bytes \in Text PROVE Visible(bytes) \in Text
BY VisibleIs, FlattenText

\* Of nothing nothing is shown.
LEMMA VisibleNone == Visible(<<>>) = <<>>
<1>1. Pieces(<<>>) = <<>> /\ <<>> \in Text
  BY DEF Pieces, Text
<1> QED
  BY <1>1, VisibleIs, FlattenNone

\* One character more is shown unless it is a zero.
LEMMA VisibleAppend ==
  ASSUME NEW bytes \in Text, NEW c \in Char
  PROVE  /\ Append(bytes, c) \in Text /\ Shown(c) \in Text
         /\ Visible(Append(bytes, c)) = Visible(bytes) \o Shown(c)
<1>1. Append(bytes, c) \in Text /\ Shown(c) \in Text
  <2>1. Append(bytes, c) \in Seq(Char)
    BY AppendProperties DEF Text
  <2> QED
    BY <2>1, ShownText DEF Text
<1>2. Pieces(Append(bytes, c)) = Append(Pieces(bytes), Shown(c))
  <2>1. PICK ss \in Seq(Text), tt \in Seq(Text), t \in Text :
          ss = Pieces(bytes) /\ tt = Pieces(Append(bytes, c)) /\ t = Shown(c)
    BY <1>1, VisibleIs
  <2>2. Len(ss) = Len(bytes) /\ Len(tt) = Len(bytes) + 1 /\ Len(bytes) \in Nat
    <3>1. DOMAIN bytes = 1..Len(bytes) /\ Len(bytes) \in Nat
      BY LenProperties DEF Text
    <3>2. DOMAIN Append(bytes, c) = 1..Len(bytes) + 1
      <4>1. Len(Append(bytes, c)) = Len(bytes) + 1
        BY AppendProperties DEF Text
      <4>2. DOMAIN Append(bytes, c) = 1..Len(Append(bytes, c))
        BY <1>1, LenProperties DEF Text
      <4> QED
        BY <4>1, <4>2
    <3>3. DOMAIN ss = 1..Len(bytes) /\ DOMAIN tt = 1..Len(bytes) + 1
      BY <2>1, <3>1, <3>2 DEF Pieces
    <3>4. /\ DOMAIN ss = 1..Len(ss) /\ Len(ss) \in Nat
          /\ DOMAIN tt = 1..Len(tt) /\ Len(tt) \in Nat
      BY LenProperties
    <3> QED
      BY <3>1, <3>3, <3>4
  <2>3. /\ Append(ss, t) \in Seq(Text) /\ Len(Append(ss, t)) = Len(ss) + 1
        /\ \A k \in 1..Len(ss) : Append(ss, t)[k] = ss[k]
        /\ Append(ss, t)[Len(ss) + 1] = t
    BY AppendProperties
  <2>4. ASSUME NEW k \in 1..Len(tt) PROVE tt[k] = Append(ss, t)[k]
    <3>1. tt[k] = Shown(Append(bytes, c)[k])
      <4>1. k \in DOMAIN tt
        BY LenProperties
      <4> QED
        BY <2>1, <4>1 DEF Pieces
    <3>2. CASE k \in 1..Len(bytes)
      <4>1. Append(bytes, c)[k] = bytes[k]
        BY <3>2, AppendProperties DEF Text
      <4>2. ss[k] = Shown(bytes[k])
        <5>1. k \in DOMAIN ss
          BY <2>2, <3>2, LenProperties
        <5> QED
          BY <2>1, <5>1 DEF Pieces
      <4> QED
        BY <2>2, <2>3, <3>1, <3>2, <4>1, <4>2
    <3>3. CASE k = Len(bytes) + 1
      <4>1. Append(bytes, c)[Len(bytes) + 1] = c
        BY AppendProperties DEF Text
      <4> QED
        BY <2>1, <2>2, <2>3, <3>1, <3>3, <4>1
    <3> QED
      BY <2>2, <3>2, <3>3
  <2> QED
    BY <2>1, <2>2, <2>3, <2>4, SeqEqual
<1>3. Visible(Append(bytes, c)) = FlattenSeq(Append(Pieces(bytes), Shown(c)))
  BY <1>1, <1>2, VisibleIs
<1> QED
  BY <1>1, <1>3, VisibleIs, FlattenAppend

\* A text of n + 1 characters is one of n and one more.
LEMMA TextSplits ==
  ASSUME NEW b \in Text, NEW n \in Nat, Len(b) = n + 1
  PROVE  \E a \in Text, c \in Char : b = Append(a, c) /\ Len(a) = n
<1> DEFINE a == [k \in 1..n |-> b[k]]
<1>1. a \in Text /\ b[n + 1] \in Char /\ Len(a) = n
  BY DEF Text
<1>2. b = Append(a, b[n + 1])
  BY DEF Text
<1> HIDE DEF a
<1> QED
  BY <1>1, <1>2

\* What is shown of two texts is shown of one and then of the other.
LEMMA VisibleJoin ==
  ASSUME NEW a \in Text, NEW b \in Text
  PROVE  Visible(a \o b) = Visible(a) \o Visible(b)
<1> DEFINE S == {n \in Nat : \A x \in Text : Len(x) = n =>
                              Visible(a \o x) = Visible(a) \o Visible(x)}
<1>1. 0 \in S
  <2> SUFFICES ASSUME NEW x \in Text, Len(x) = 0 PROVE Visible(a \o x) = Visible(a) \o Visible(x)
    OBVIOUS
  <2>1. x = <<>> /\ a \o x = a
    BY DEF Text
  <2>2. Visible(a) \o <<>> = Visible(a)
    BY VisibleText DEF Text
  <2> QED
    BY <2>1, <2>2, VisibleNone
<1>2. ASSUME NEW n \in Nat, n \in S PROVE n + 1 \in S
  <2> SUFFICES ASSUME NEW x \in Text, Len(x) = n + 1 PROVE Visible(a \o x) = Visible(a) \o Visible(x)
    OBVIOUS
  <2>1. PICK y \in Text, c \in Char : x = Append(y, c) /\ Len(y) = n
    BY TextSplits
  <2>2. a \o x = Append(a \o y, c) /\ a \o y \in Text
    <3>1. a \o y \in Seq(Char) /\ a \in Seq(Char) /\ y \in Seq(Char) /\ x \in Seq(Char)
      BY ConcatProperties DEF Text
    <3>2. a \o x = a \o (y \o <<c>>) /\ Append(a \o y, c) = (a \o y) \o <<c>>
      BY <2>1, <3>1, AppendIsConcat
    <3>3. <<c>> \in Seq(Char)
      BY ShownText DEF Text
    <3> QED
      BY <3>1, <3>2, <3>3, ConcatAssociative DEF Text
  <2>3. Visible(a \o x) = Visible(a \o y) \o Shown(c)
    BY <2>2, VisibleAppend
  <2>4. Visible(a \o y) = Visible(a) \o Visible(y)
    BY <1>2, <2>1
  <2>5. Visible(x) = Visible(y) \o Shown(c)
    BY <2>1, VisibleAppend
  <2>6. Visible(a) \in Seq(Char) /\ Visible(y) \in Seq(Char) /\ Shown(c) \in Seq(Char)
    BY VisibleText, VisibleAppend DEF Text
  <2>7. (Visible(a) \o Visible(y)) \o Shown(c) = Visible(a) \o (Visible(y) \o Shown(c))
    <3>1. PICK p \in Seq(Char), q \in Seq(Char), r \in Seq(Char) :
            p = Visible(a) /\ q = Visible(y) /\ r = Shown(c)
      BY <2>6
    <3>2. (p \o q) \o r = p \o (q \o r)
      BY ConcatAssociative
    <3> QED
      BY <3>1, <3>2
  <2> QED
    BY <2>3, <2>4, <2>5, <2>7
<1> HIDE DEF S
<1>3. Nat \subseteq S
  BY <1>1, <1>2, Induction
<1>4. Len(b) \in Nat
  BY DEF Text
<1> QED
  BY <1>3, <1>4 DEF S

\* Characters that are not zeros.
LEMMA VisibleOne ==
  ASSUME NEW c \in Char, c # Nul PROVE Visible(<<c>>) = <<c>>
<1>1. <<>> \in Text /\ Append(<<>>, c) = <<c>>
  BY DEF Text
<1>2. Visible(<<c>>) = <<>> \o <<c>>
  BY <1>1, VisibleAppend, VisibleNone DEF Shown
<1>3. <<c>> \in Seq(Char)
  BY ShownText DEF Text
<1> QED
  BY <1>2, <1>3, ConcatEmptySeq
\* The table of a program that has opened x, and then y.
One(x)    == [Started EXCEPT ![2] = x]
Two(x, y) == [One(x) EXCEPT ![3] = y]

\* A descriptor of entry e, n bytes of which have been read.
Opened(e, n) == [kind |-> disk[e].kind, entry |-> e, pos |-> n]

\* The entry a name designates.
Named(name) == Min(Entries(name))

Table == [Fds -> [kind : {"closed", "std", "file", "dir", "rtc"},
                  entry : 0..Len(disk), pos : Nat]]

\* The types of what a call can change, and of the rest.
KernelOK ==
  /\ disk \in Images /\ fd_arr \in Table /\ dir_count \in 0..Len(disk)
  /\ \A d \in Fds : fd_arr[d].kind = "file" => fd_arr[d].entry # 0
  /\ ret \in Int /\ ret >= -1 /\ got \in Text /\ out \in Text

Tasks == {"shell", "cat", "ls", "grep", "syserr"}

ShellOK ==
  /\ program \in Tasks /\ resident \in Tasks
  /\ status \in {-1, 256} \cup 0..255

BufferOK ==
  /\ last \in 0..BUFSIZE /\ line_start \in 0..BUFSIZE + 1 /\ cnt \in 0..BUFSIZE
  /\ data \in [0..BUFSIZE -> Char] /\ fname \in Text

TestsOK ==
  /\ test \in 0..8 /\ upto \in test..8 /\ fail \in 0..step /\ total \in 0..16
  /\ step \in IF test = 0 THEN {0} ELSE 1..Len(Scripts[test]) + 1

TypesInv == KernelOK /\ ShellOK /\ BufferOK /\ TestsOK

\* The directory is read from its start by every program; the shell has a fresh
\* table, and in got what it makes of the line.
ShellInv ==
  program = "shell" =>
    /\ pc \in {"prompt", "execute", "answer"} /\ dir_count = 0
    /\ pc = "execute" => /\ fd_arr = Started /\ out = <<>>
                         /\ line \in Lines /\ got = Command(line, Behind)

\* What a program finds when it begins, and its arguments as long as it runs.
RunningInv ==
  program # "shell" =>
    /\ resident = program
    /\ line \in Lines /\ CString(Command(line, Behind)) # <<>>
    /\ args = Args(Command(line, Behind))
    /\ pc = "begin" => fd_arr = Started /\ out = <<>> /\ dir_count = 0

\* What cat and ls open, and what they show of an entry of the directory.
Asked  == IF program = "cat" THEN args ELSE Dot
Row(e) == IF program = "ls" THEN Append(disk[e].name, Newline) ELSE disk[e].name
Rows(n) == Visible(FlattenSeq([e \in 1..n |-> Row(e)]))

\* Between a read and its write, and between a write and the next read.
FileListed(e, n) ==
  LET bytes == disk[e].data
  IN  /\ n \in 0..Len(bytes) /\ dir_count = 0
      /\ pc = "read" => out = Visible(SubSeq(bytes, 1, n))
      /\ pc = "write" => \E m \in 0..n : /\ out = Visible(SubSeq(bytes, 1, m))
                                         /\ got = SubSeq(bytes, m + 1, n) /\ ret = n - m
                                         /\ m = n => n = Len(bytes)

DirectoryListed ==
  /\ pc = "read" => out = Rows(dir_count)
  /\ pc = "write" => IF ret = 0 THEN dir_count = 0 /\ out = Rows(Len(disk))
                     ELSE /\ dir_count > 0 /\ got = disk[dir_count].name /\ ret = Len(got)
                          /\ out = Rows(dir_count - 1)

ClockListed == dir_count = 0 /\ out = <<>> /\ (pc = "write" => ret = 0)

ListerInv ==
  program \in Listers =>
    /\ pc \in {"begin", "opened", "read", "write"}
    /\ pc # "begin" => Asked # <<>>
    /\ pc = "opened" =>
         /\ out = <<>> /\ dir_count = 0
         /\ IF Entries(Asked) = {} THEN ret = -1 /\ fd_arr = Started
            ELSE ret = 2 /\ fd_arr = One(Opened(Named(Asked), 0))
    /\ pc \in {"read", "write"} =>
         /\ fd = 2 /\ Entries(Asked) # {}
         /\ fd_arr = One(Opened(Named(Asked), fd_arr[2].pos))
         /\ CASE disk[Named(Asked)].kind = "file" -> FileListed(Named(Asked), fd_arr[2].pos)
              [] disk[Named(Asked)].kind = "dir"  -> DirectoryListed
              [] disk[Named(Asked)].kind = "rtc"  -> ClockListed

\* grep has the directory open, and above it a file or the clock.
GrepInv ==
  program = "grep" =>
    /\ pc \in {"begin", "opened", "list", "entry", "file", "fill", "line", "close"}
    /\ pc # "begin" => args # <<>>
    /\ pc = "opened" => ret = 2 /\ dir_count = 0 /\ fd_arr = One(Opened(Named(Dot), 0))
    /\ pc \in {"list", "entry", "file", "fill", "line", "close"} => fd = 2
    /\ pc \in {"list", "entry"} => fd_arr = One(Opened(Named(Dot), 0))
    /\ pc = "entry" =>
         IF ret = 0 THEN dir_count = 0
         ELSE dir_count > 0 /\ got = disk[dir_count].name /\ ret = Len(got)
    /\ pc \in {"file", "fill", "line", "close"} =>
         /\ Entries(fname) # {} /\ fname # Dot
         /\ fd_arr = Two(Opened(Named(Dot), 0), Opened(Named(fname), fd_arr[3].pos))
    /\ pc = "file" => ret = 3
    /\ pc \in {"fill", "line", "close"} => file = 3
    /\ pc = "line" => line_start = 0 \/ line_start < last

\* The line grep is at, and its buffer with the line's end marked; what of it is moved.
LineText == [i \in 1..line_end - line_start |-> data[line_start + i - 1]]
Terminated == [data EXCEPT ![line_end] = Nul]
Copied == Min({i \in 0..line_end - line_start : Terminated[line_start + i] = Nul})

\* Every test of syserr has its turn, and a result of 2 at most for each.  The one
\* that reads descriptors (err_unopened) has closed them all before.
SyserrInv ==
  program = "syserr" =>
    /\ pc \in {"begin", "ask", "choose", "test", "result"} /\ dir_count = 0
    /\ pc \in {"ask", "choose"} => fd_arr = Started
    /\ pc = "test" => /\ test \in 1..8 /\ upto \in test..8
                      /\ step \in 1..Len(Scripts[test]) + 1 /\ fail \in 0..step - 1
                      /\ total \in 0..2 * (test - 1)
                      /\ test = 5 => \A d \in 2..7 : d + 1 < step => ~Usable(d)

\* The table of err_open_lots before its call s: six descriptors are given away,
\* then taken back one by one.
LotsAt(s) == [d \in Fds |-> IF d \in 2..7 /\ d < s + 1 /\ d > s - 7
                            THEN Opened(Named(Dot), 0) ELSE Started[d]]

\* The table between two calls of a test, and the calls that have failed.
ScriptAt ==
  IF test = Lots THEN fd_arr = LotsAt(step) /\ fail = IF step > 7 THEN 1 ELSE 0
  ELSE fd_arr = Started /\ fail = step - 1

Unfailed == Seq(Char \ {"FAIL"})

\* As long as syserr runs every call a test wants refused has been.
PassInv ==
  program = "syserr" =>
    /\ pc # "begin" => out \in Unfailed
    /\ pc = "choose" => ret # -1
    /\ pc = "test" => ScriptAt
    /\ pc \in {"test", "result"} => total = 0

ProgramsInv ==
  TypesInv /\ ShellInv /\ RunningInv /\ ListerInv /\ GrepInv /\ SyserrInv /\ ShowsFiles
-----------------------------------------------------------------------------
\* The least of a set of numbers.
LEMMA MinIs ==
  ASSUME NEW S, S \subseteq Int, NEW x \in S, \A y \in S : x <= y
  PROVE  Min(S) = x
<1>1. \A z \in S : (\A y \in S : z <= y) => z = x
  OBVIOUS
<1> QED
  BY <1>1 DEF Min

\* A set of numbers has a least one.
LEMMA MinIn ==
  ASSUME NEW S, S \subseteq Nat, S # {}
  PROVE  Min(S) \in S /\ \A y \in S : Min(S) <= y
<1>1. PICK x \in S : \A y \in S : x <= y
  BY LeastOfSet
<1>2. S \subseteq Int
  OBVIOUS
<1>3. Min(S) = x
  BY <1>1, <1>2, MinIs
<1> QED
  BY <1>1, <1>3

\* What the disk holds.
LEMMA DiskIs ==
  ASSUME disk \in Images
  PROVE  /\ Len(disk) \in Nat /\ DOMAIN disk = 1..Len(disk)
         /\ \A e \in 1..Len(disk) :
              /\ disk[e].name \in Text /\ disk[e].name # <<>> /\ disk[e].data \in Text
              /\ disk[e].kind \in {"file", "dir", "rtc"}
              /\ disk[e].run \in {"none", "cat", "ls", "grep", "syserr"}
              /\ (disk[e].kind = "dir") = (disk[e].name = Dot)
<1>1. /\ disk \in Seq([name : Seq(STRING), kind : {"file", "dir", "rtc"},
                       run  : {"none", "cat", "ls", "grep", "syserr"}, data : Seq(STRING)])
      /\ \A e \in DOMAIN disk : /\ disk[e].name # <<>>
                                /\ (disk[e].kind = "dir") = (disk[e].name = Dot)
  BY ProgramsAssumption
<1>2. Len(disk) \in Nat /\ DOMAIN disk = 1..Len(disk)
  BY <1>1, LenProperties
<1>3. \A e \in 1..Len(disk) :
        disk[e] \in [name : Seq(STRING), kind : {"file", "dir", "rtc"},
                     run  : {"none", "cat", "ls", "grep", "syserr"}, data : Seq(STRING)]
  BY <1>1, ElementOfSeq
<1> QED
  BY <1>1, <1>2, <1>3, Wider

\* The entry of a name, and the directory, are there.
LEMMA NamedIs ==
  ASSUME disk \in Images, NEW name, Entries(name) # {}
  PROVE  Named(name) \in 1..Len(disk) /\ disk[Named(name)].name = name
<1>1. Entries(name) \subseteq 1..Len(disk) /\ 1..Len(disk) \subseteq Nat
  BY DiskIs DEF Entries
<1>2. Named(name) \in Entries(name)
  BY <1>1, MinIn DEF Named
<1> QED
  BY <1>1, <1>2 DEF Entries

\* The directory has an entry.
LEMMA DotIs ==
  ASSUME disk \in Images
  PROVE  Entries(Dot) # {} /\ Dot # <<>> /\ disk[Named(Dot)].kind = "dir"
<1>1. PICK e \in DOMAIN disk : disk[e].kind = "dir"
  BY ProgramsAssumption
<1>2. e \in Entries(Dot)
  BY <1>1, DiskIs DEF Entries
<1>3. Dot # <<>>
  BY DEF Dot
<1> QED
  BY <1>2, <1>3, NamedIs, DiskIs

\* The tables, descriptor by descriptor.
LEMMA Descriptors ==
  /\ LastFd \in Nat /\ LastFd >= 3 /\ Fds = 0..LastFd
  /\ \A d \in Fds : Started[d] = IF d < 2 THEN Std ELSE Closed
  /\ \A x : \A d \in Fds : One(x)[d] = IF d = 2 THEN x ELSE Started[d]
  /\ \A x, y : \A d \in Fds : Two(x, y)[d] = IF d = 3 THEN y ELSE One(x)[d]
  /\ DOMAIN Started = Fds
BY ProgramsAssumption DEF Fds, Started, One, Two

\* The first free descriptor.
LEMMA FreeStarted ==
  ASSUME fd_arr = Started PROVE Free # {} /\ Min(Free) = 2
<1>1. 2 \in Free /\ Free \subseteq Int /\ \A y \in Free : 2 <= y
  BY Descriptors DEF Free, Std, Closed
<1> QED
  BY <1>1, MinIs

\* The second free one is 3.
LEMMA FreeOne ==
  ASSUME NEW x, x.kind # "closed", fd_arr = One(x) PROVE Free # {} /\ Min(Free) = 3
<1>1. 3 \in Free /\ Free \subseteq Int /\ \A y \in Free : 3 <= y
  BY Descriptors DEF Free, Std, Closed
<1> QED
  BY <1>1, MinIs

\* What open does to the tables of the programs: it fails, or gives 2 first and then 3.
LEMMA OpenFirst ==
  ASSUME fd_arr = Started, NEW name, Open(name)
  PROVE  /\ UNCHANGED <<disk, dir_count, out, got>>
         /\ IF name = <<>> \/ Entries(name) = {} THEN ret' = -1 /\ fd_arr' = Started
            ELSE ret' = 2 /\ fd_arr' = One(Opened(Named(name), 0))
BY FreeStarted DEF Open, Fails, Answer, Quiet, Opened, Named, One

\* The second open of a program gives 3, or fails.
LEMMA OpenSecond ==
  ASSUME NEW x, x.kind # "closed", fd_arr = One(x), NEW name, Open(name)
  PROVE  /\ UNCHANGED <<disk, dir_count, out, got>>
         /\ IF name = <<>> \/ Entries(name) = {} THEN ret' = -1 /\ fd_arr' = fd_arr
            ELSE ret' = 3 /\ fd_arr' = Two(x, Opened(Named(name), 0))
BY FreeOne DEF Open, Fails, Answer, Quiet, Opened, Named, Two

\* A write to the terminal.
LEMMA WriteIs ==
  ASSUME NEW bytes, Write(1, bytes)
  PROVE  /\ UNCHANGED <<disk, fd_arr, dir_count, got>>
         /\ \/ ret' \in {-1, 0} /\ out' = out
            \/ ret' = Len(bytes) /\ out' = out \o Visible(bytes)
BY DEF Write, WriteTerminal, WriteClock, Fails, Answer, Quiet

\* On descriptor 1 of a program it shows all the bytes.
LEMMA WriteShows ==
  ASSUME NEW bytes, Write(1, bytes), fd_arr[1] = Std
  PROVE  ret' = Len(bytes) /\ out' = out \o Visible(bytes)
BY Descriptors DEF Write, WriteTerminal, Usable, Std, Answer

-----------------------------------------------------------------------------
\* The types after a call.
LEMMA Parts ==
  ASSUME NEW s \in Text, NEW i \in Nat, NEW j \in Int, j <= Len(s)
  PROVE  /\ SubSeq(s, i + 1, j) \in Text
         /\ Len(SubSeq(s, i + 1, j)) = IF i < j THEN j - i ELSE 0
<1>1. \A k \in i + 1..j : s[k] \in Char
  <2>1. \A k \in 1..Len(s) : s[k] \in Char
    BY ElementOfSeq DEF Text
  <2> QED
    BY <2>1
<1> QED
  BY <1>1, SubSeqProperties DEF Text

\* The length of a text, and the lines and bytes a read gives.
LEMMA TextLen == ASSUME NEW s \in Text PROVE Len(s) \in Nat
BY LenProperties DEF Text

\* The types of a line the shell reads.
LEMMA LineTyped ==
  ASSUME NEW l \in Lines, NEW n \in Nat
  PROVE  /\ l \in Text
         /\ SubSeq(l, 1, Least(n, Len(l))) \in Text
         /\ Len(SubSeq(l, 1, Least(n, Len(l)))) \in 0..n
<1>1. l \in Text
  BY ProgramsAssumption, Wider
<1>2. Least(n, Len(l)) \in 0..n /\ Least(n, Len(l)) <= Len(l)
  BY <1>1, TextLen DEF Least
<1>3. PICK i \in Nat, j \in Int : i = 0 /\ j = Least(n, Len(l)) /\ j \in 0..n /\ j <= Len(l)
  BY <1>2
<1>4. SubSeq(l, i + 1, j) \in Text /\ Len(SubSeq(l, i + 1, j)) = IF i < j THEN j - i ELSE 0
  BY <1>1, <1>3, Parts
<1>5. i + 1 = 1
  BY <1>3
<1> QED
  BY <1>1, <1>3, <1>4, <1>5

\* The bytes a read of a file gives.
LEMMA FileBytes ==
  ASSUME NEW bytes \in Text, NEW pos \in Nat, NEW n \in Nat
  PROVE  /\ SubSeq(bytes, pos + 1, Least(pos + n, Len(bytes))) \in Text
         /\ Len(SubSeq(bytes, pos + 1, Least(pos + n, Len(bytes)))) \in 0..n
<1>1. Len(bytes) \in Nat
  BY TextLen
<1>2. Least(pos + n, Len(bytes)) \in Int /\ Least(pos + n, Len(bytes)) <= Len(bytes)
      /\ Least(pos + n, Len(bytes)) <= pos + n
  BY <1>1 DEF Least
<1>3. PICK m \in Int : m = Least(pos + n, Len(bytes)) /\ m <= Len(bytes) /\ m <= pos + n
  BY <1>2
<1>4. /\ SubSeq(bytes, pos + 1, m) \in Text
      /\ Len(SubSeq(bytes, pos + 1, m)) = IF pos < m THEN m - pos ELSE 0
  BY <1>3, Parts
<1> QED
  BY <1>3, <1>4

\* The types after a read, an open, a close and a write, and what each leaves alone.
LEMMA ReadTyped ==
  ASSUME KernelOK, NEW d, NEW n \in Nat, Read(d, n)
  PROVE  /\ KernelOK' /\ UNCHANGED <<disk, out>>
         /\ d \in Fds /\ fd_arr[d].kind \in {"std", "file", "rtc"} => ret' <= n
         /\ ret' > 0 => ret' = Len(got')
         /\ fd_arr[d].kind # "dir" => UNCHANGED dir_count
         /\ fd_arr[d].kind # "file" => UNCHANGED fd_arr
         /\ d \in Fds /\ d # 1 /\ fd_arr[d].kind # "closed" => ret' >= 0
<1>1. CASE Fails /\ (~Usable(d) \/ d = 1)
  BY <1>1 DEF KernelOK, Fails, Answer, Quiet, Table, Fds, Usable
<1>2. CASE ReadTerminal(n) /\ Usable(d) /\ fd_arr[d].kind = "std"
  <2>1. PICK l \in Lines : Give(SubSeq(l, 1, Least(n, Len(l))))
    BY <1>2 DEF ReadTerminal
  <2>2. got' \in Text /\ ret' \in 0..n /\ ret' = Len(got')
    BY <2>1, LineTyped DEF Give, Answer
  <2> QED
    BY <1>2, <2>2 DEF KernelOK, ReadTerminal, Quiet, Table, Fds
<1>3. CASE ReadClock
  BY <1>3 DEF KernelOK, ReadClock, Answer, Quiet, Table, Fds
<1>4. CASE ReadDirectory /\ Usable(d) /\ fd_arr[d].kind = "dir"
  <2>1. dir_count < Len(disk) => /\ dir_count + 1 \in 1..Len(disk)
                                 /\ disk[dir_count + 1].name \in Text
                                 /\ Len(disk[dir_count + 1].name) \in Nat
    BY DiskIs, TextLen DEF KernelOK
  <2> QED
    BY <1>4, <2>1, DiskIs DEF KernelOK, ReadDirectory, Rewound, Give, Answer, Table, Fds
<1>5. CASE ReadFile(d, n) /\ Usable(d) /\ fd_arr[d].kind = "file"
  <2>1. d \in Fds /\ fd_arr[d].pos \in Nat /\ fd_arr[d].entry \in 1..Len(disk)
    BY <1>5, DiskIs DEF KernelOK, Table, Usable
  <2>2. PICK bytes \in Text, pos \in Nat :
          /\ bytes = disk[fd_arr[d].entry].data /\ pos = fd_arr[d].pos
    BY <2>1, DiskIs DEF KernelOK
  <2>3. got' = SubSeq(bytes, pos + 1, Least(pos + n, Len(bytes))) /\ ret' = Len(got')
    BY <1>5, <2>2 DEF ReadFile, Give, Answer
  <2>4. got' \in Text /\ ret' \in 0..n /\ Len(got') \in Nat
    <3>1. /\ SubSeq(bytes, pos + 1, Least(pos + n, Len(bytes))) \in Text
          /\ Len(SubSeq(bytes, pos + 1, Least(pos + n, Len(bytes)))) \in 0..n
      BY FileBytes
    <3>2. got' \in Text /\ Len(got') \in 0..n
      BY <2>3, <3>1
    <3> QED
      BY <2>3, <3>2, TextLen
  <2>5. /\ fd_arr' = [fd_arr EXCEPT ![d].pos = pos + Len(got')]
        /\ UNCHANGED <<disk, dir_count, out>>
    BY <1>5, <2>2 DEF ReadFile, Moved, Quiet
  <2>6. pos + Len(got') \in Nat
    BY <2>4
  <2>7. fd_arr' \in Table /\ \A x \in Fds : fd_arr'[x].kind = fd_arr[x].kind /\ fd_arr'[x].entry = fd_arr[x].entry
    BY <2>1, <2>5, <2>6 DEF KernelOK, Table
  <2>8. Table' = Table /\ Fds' = Fds
    BY <2>5 DEF Table, Fds
  <2>9. KernelOK'
    BY <2>4, <2>5, <2>7, <2>8 DEF KernelOK
  <2>10. ret' = Len(got') /\ ret' \in 0..n /\ UNCHANGED <<disk, dir_count, out>>
    BY <2>3, <2>4, <2>5
  <2>11. d \in Fds /\ fd_arr[d].kind = "file"
    BY <1>5, <2>1
  <2> QED
    BY <2>9, <2>10, <2>11
<1> QED
  BY <1>1, <1>2, <1>3, <1>4, <1>5 DEF Read, Usable, KernelOK, Table

\* The types after an open.
LEMMA OpenTyped ==
  ASSUME KernelOK, NEW name, Open(name)
  PROVE  KernelOK' /\ UNCHANGED <<disk, out, dir_count, got>>
<1>1. CASE Fails
  BY <1>1 DEF KernelOK, Fails, Answer, Quiet, Table, Fds
<1>2. CASE ~(name = <<>> \/ Entries(name) = {} \/ Free = {})
  <2>1. Min(Free) \in Free /\ Free \subseteq Fds
    <3>1. Free \subseteq Nat
      BY Descriptors DEF Free
    <3> QED
      BY <1>2, <3>1, MinIn, Descriptors DEF Free
  <2>2. /\ Named(name) \in 1..Len(disk) /\ Len(disk) \in Nat
        /\ disk[Named(name)].kind \in {"file", "dir", "rtc"}
    BY <1>2, NamedIs, DiskIs DEF KernelOK
  <2>3. /\ fd_arr' = [fd_arr EXCEPT ![Min(Free)] = Opened(Named(name), 0)]
        /\ ret' = Min(Free) /\ UNCHANGED <<disk, dir_count, out, got>>
    BY <1>2 DEF Open, Answer, Quiet, Named, Opened
  <2>4. Min(Free) \in Nat
    <3>1. Free \subseteq Nat
      BY Descriptors DEF Free
    <3> QED
      BY <2>1, <3>1
  <2> QED
    BY <2>1, <2>2, <2>3, <2>4 DEF KernelOK, Table, Opened, Fds
<1> QED
  BY <1>1, <1>2 DEF Open

\* The types after a close.
LEMMA CloseTyped ==
  ASSUME KernelOK, NEW d, Close(d)
  PROVE  KernelOK' /\ UNCHANGED <<disk, out, dir_count, got>> /\ ret' \in {-1, 0}
<1>1. CASE Fails
  BY <1>1 DEF KernelOK, Fails, Answer, Quiet, Table, Fds
<1>2. CASE d \in 2..LastFd /\ Usable(d)
  <2>1. Closed \in [kind : {"closed", "std", "file", "dir", "rtc"}, entry : 0..Len(disk), pos : Nat]
    BY DiskIs DEF KernelOK, Closed
  <2>2. fd_arr' = [fd_arr EXCEPT ![d] = Closed] /\ ret' = 0 /\ UNCHANGED <<disk, dir_count, out, got>>
    BY <1>2 DEF Close, Answer, Quiet
  <2>3. fd_arr' \in Table
    BY <2>1, <2>2 DEF KernelOK, Table
  <2>4. Table' = Table /\ Fds' = Fds
    BY <2>2 DEF Table, Fds
  <2>5. \A x \in Fds : fd_arr'[x].kind = "file" => fd_arr'[x].entry # 0
    BY <2>2 DEF KernelOK, Table, Closed
  <2> QED
    BY <2>2, <2>3, <2>4, <2>5 DEF KernelOK
<1> QED
  BY <1>1, <1>2 DEF Close

\* The types after a write.
LEMMA WriteTyped ==
  ASSUME KernelOK, NEW d, NEW bytes \in Text, Write(d, bytes)
  PROVE  KernelOK' /\ UNCHANGED <<disk, fd_arr, dir_count, got>>
<1>1. CASE Fails
  BY <1>1 DEF KernelOK, Fails, Answer, Quiet, Table, Fds
<1>2. CASE WriteTerminal(bytes)
  <2>1. out \o Visible(bytes) \in Text /\ Len(bytes) \in Nat
    <3>1. PICK s \in Text : s = Visible(bytes)
      BY VisibleText
    <3> QED
      BY <3>1, TextLen, ConcatProperties DEF Text, KernelOK
  <2> QED
    BY <1>2, <2>1 DEF KernelOK, WriteTerminal, Answer, Table, Fds
<1>3. CASE WriteClock(bytes)
  <2>1. CASE Answer(0) /\ Quiet /\ UNCHANGED <<fd_arr, got>>
    BY <2>1 DEF KernelOK, Answer, Quiet, Table, Fds
  <2> QED
    BY <1>1, <1>3, <2>1 DEF WriteClock
<1> QED
  BY <1>1, <1>2, <1>3 DEF Write

\* What strlen counts of a text: all of it, if it has no zero.
LEMMA StringText ==
  ASSUME NEW s \in Text
  PROVE  /\ CString(s) \in Text
         /\ (\A k \in DOMAIN s : s[k] # Nul) => CString(s) = s
<1> DEFINE K == {k \in DOMAIN s : s[k] = Nul}
<1>1. Len(s) \in Nat /\ DOMAIN s = 1..Len(s)
  BY TextLen, LenProperties DEF Text
<1>2. CASE K = {}
  <2>1. CString(s) = s
    <3>1. CString(s) = SubSeq(s, 1, (Len(s) + 1) - 1) /\ (Len(s) + 1) - 1 = Len(s)
      BY <1>1, <1>2 DEF CString, First
    <3>2. SubSeq(s, 1, Len(s)) = s
      BY SubSeqFull DEF Text
    <3> QED
      BY <3>1, <3>2
  <2> QED
    BY <2>1
<1>3. CASE K # {}
  <2>1. Min(K) \in K /\ Min(K) \in 1..Len(s)
    BY <1>1, <1>3, MinIn
  <2>2. PICK m \in 1..Len(s) : m = Min(K)
    BY <2>1
  <2>3. PICK i \in Nat, j \in Int : i = 0 /\ j = m - 1 /\ j <= Len(s) /\ i + 1 = 1
    BY <1>1
  <2>4. SubSeq(s, i + 1, j) \in Text
    BY <2>3, Parts
  <2>5. CString(s) = SubSeq(s, i + 1, j)
    BY <1>3, <2>2, <2>3 DEF CString, First
  <2> QED
    BY <2>1, <2>4, <2>5
<1> QED
  BY <1>2, <1>3

\* A message is all shown.
LEMMA OneString ==
  ASSUME NEW c \in Char, c # Nul
  PROVE  <<c>> \in Text /\ CString(<<c>>) = <<c>>
<1>1. <<c>> \in Text
  BY ShownText
<1>2. \A k \in DOMAIN <<c>> : <<c>>[k] # Nul
  OBVIOUS
<1> QED
  BY <1>1, <1>2, StringText

\* The types after a message.
LEMMA SayTyped ==
  ASSUME KernelOK, NEW c \in Char, Say(<<c>>)
  PROVE  KernelOK' /\ UNCHANGED <<disk, fd_arr, dir_count, got>>
<1>1. <<c>> \in Text
  BY ShownText
<1>2. CString(<<c>>) \in Text
  BY <1>1, StringText
<1> QED
  BY <1>2, WriteTyped DEF Say

\* A step that leaves the kernel alone keeps its part.
LEMMA KernelStays == ASSUME KernelOK, UNCHANGED kernel PROVE KernelOK'
BY DEF KernelOK, kernel, Table, Fds

\* The shell gives a program a table of its own.
LEMMA StartedTyped == ASSUME disk \in Images PROVE Started \in Table
BY DiskIs DEF Started, Table, Std, Closed
-----------------------------------------------------------------------------
\* Nothing is a text.
LEMMA NoText == <<>> \in Text
BY ShownText, EmptySeq DEF Text

\* What is shown at the end concerns the steps that end a program only.
LEMMA NotEnded ==
  ASSUME ~(pc' = "answer" /\ resident' \in Listers /\ status' \notin {-1, 256})
  PROVE  ShowsFiles'
BY DEF ShowsFiles, Ended, At, Listers

\* What the shell makes of a line is a text.
LEMMA CommandTyped ==
  ASSUME NEW l \in Lines PROVE Command(l, Behind) \in Text
<1>1. l \in Text /\ Len(l) \in Nat
  BY ProgramsAssumption, TextLen, Wider
<1>2. Typed(l) \in Text
  <2>1. CASE l # <<>> /\ l[Len(l)] = Newline
    <3>1. PICK i \in Nat, j \in Int : i = 0 /\ j = Len(l) - 1 /\ j <= Len(l) /\ i + 1 = 1
      BY <1>1
    <3> QED
      BY <1>1, <2>1, <3>1, Parts DEF Typed
  <2>2. CASE ~(l # <<>> /\ l[Len(l)] = Newline)
    BY <1>1, <2>2 DEF Typed
  <2> QED
    BY <2>1, <2>2
<1>3. <<Nul>> \in Text
  <2>1. Nul \in Char
    BY DEF Char
  <2> QED
    BY <2>1, ShownText
<1>4. PICK p \in Seq(Char), q \in Seq(Char), r \in Seq(Char) :
        p = Typed(l) /\ q = <<Nul>> /\ r = Behind
  BY <1>2, <1>3, ProgramsAssumption, Wider DEF Text
<1>5. (p \o q) \o r \in Seq(Char)
  BY ConcatProperties
<1> QED
  BY <1>4, <1>5 DEF Command, Text

\* A message is one character.
LEMMA MessageText ==
  ASSUME NEW c \in Char PROVE <<c>> \in Text
BY ShownText

\* The steps of the shell keep the invariant.
LEMMA ShellReadsSteps == ProgramsInv /\ ShellReads => ProgramsInv'
<1> SUFFICES ASSUME ProgramsInv, ShellReads PROVE ProgramsInv'
  OBVIOUS
<1> USE DEF ProgramsInv
<1>1. PICK l \in Lines : got' = Command(l, Behind) /\ ret' = Len(l) /\ line' = l
  BY DEF ShellReads
<1>2. KernelOK'
  <2>1. got' \in Text /\ ret' \in Nat
    BY <1>1, CommandTyped, LineTyped, TextLen
  <2>2. out' \in Text
    BY NoText DEF ShellReads
  <2>3. fd_arr' = Started /\ UNCHANGED <<disk, dir_count>> /\ disk \in Images
    BY DEF ShellReads, TypesInv, KernelOK
  <2>4. Table' = Table /\ Fds' = Fds /\ Started' = Started
    BY <2>3 DEF Table, Fds, Started
  <2>5. \A d \in Fds : Started[d].kind # "file"
    BY Descriptors DEF Std, Closed
  <2> QED
    BY <2>1, <2>2, <2>3, <2>4, <2>5, StartedTyped DEF KernelOK, TypesInv
<1>3. TypesInv'
  BY <1>2 DEF ShellReads, TypesInv, ShellOK, BufferOK, TestsOK, Goto, grep_vars, syserr_vars
<1>4. ShellInv'
  BY <1>1 DEF ShellReads, ShellInv, At, Goto, Started, Fds
<1>5. RunningInv' /\ ListerInv' /\ GrepInv' /\ SyserrInv'
  BY DEF ShellReads, At, Goto, RunningInv, ListerInv, Listers, GrepInv, SyserrInv
<1>6. ShowsFiles'
  BY NotEnded DEF ShellReads, Goto
<1> QED
  BY <1>3, <1>4, <1>5, <1>6

\* What execute makes of a line: it is refused, or a program begins.
LEMMA ExecuteGives ==
  ASSUME ProgramsInv, ShellExecutes
  PROVE  \/ /\ program' = "shell" /\ resident' = resident
            /\ \/ pc' = "prompt" /\ status' = status
               \/ pc' = "answer" /\ status' \in {-1, 256}
         \/ /\ CString(got) # <<>> /\ pc' = "begin" /\ status' = status
            /\ args' = Args(got) /\ resident' = program' /\ program' \in Tasks \ {"shell"}
<1> DEFINE Goal == \/ /\ program' = "shell" /\ resident' = resident
                     /\ \/ pc' = "prompt" /\ status' = status
                        \/ pc' = "answer" /\ status' \in {-1, 256}
                  \/ /\ CString(got) # <<>> /\ pc' = "begin" /\ status' = status
                     /\ args' = Args(got) /\ resident' = program' /\ program' \in Tasks \ {"shell"}
<1> USE DEF ProgramsInv
<1>1. program = "shell"
  BY DEF ShellExecutes, At
<1> DEFINE name  == FileName(got)
           found == Entries(name)
           entry == disk[Min(found)]
<1>2. ASSUME Unchecked, CString(got) # <<>> PROVE Goal
  BY <1>1, <1>2 DEF Unchecked, Refused, Goto, Runs, TypesInv, ShellOK
<1>3. ASSUME Refused PROVE Goal
  BY <1>1, <1>3 DEF Refused, Goto
<1>4. ASSUME found # {}, entry.run # "none", Runs(entry.run), CString(got) # <<>> PROVE Goal
  <2>1. entry.run \in Tasks \ {"shell"}
    <3>1. Min(found) \in 1..Len(disk)
      BY <1>4, NamedIs DEF Named, TypesInv, KernelOK
    <3> QED
      BY <1>4, <3>1, DiskIs DEF Tasks, TypesInv, KernelOK
  <2> QED
    BY <1>4, <2>1 DEF Runs
<1>5. CASE CString(got) \in {<<>>, Exit}
  BY <1>1, <1>5 DEF ShellExecutes, Goto
<1> HIDE DEF name, found, entry
<1>6. CASE CString(got) \notin {<<>>, Exit}
  <2>1. \/ Refused \/ Unchecked
        \/ found # {} /\ entry.run # "none" /\ Runs(entry.run)
    BY <1>6 DEF ShellExecutes, name, found, entry
  <2> HIDE DEF Goal
  <2>2. Goal
    BY <1>2, <1>3, <1>4, <1>6, <2>1
  <2> QED
    BY <2>2 DEF Goal
<1> QED
  BY <1>5, <1>6

\* execute keeps it: a program begins with a fresh table and the arguments of the line.
LEMMA ShellExecutesSteps == ProgramsInv /\ ShellExecutes => ProgramsInv'
<1> SUFFICES ASSUME ProgramsInv, ShellExecutes PROVE ProgramsInv'
  OBVIOUS
<1> USE DEF ProgramsInv
<1>1. /\ program = "shell" /\ pc = "execute" /\ UNCHANGED <<kernel, line, fd, grep_vars, syserr_vars>>
      /\ line \in Lines /\ got = Command(line, Behind)
      /\ fd_arr = Started /\ out = <<>> /\ dir_count = 0
  BY DEF ShellExecutes, At, ShellInv
<1>2. KernelOK'
  BY <1>1, KernelStays DEF TypesInv
<1>3. BufferOK' /\ TestsOK'
  BY <1>1 DEF TypesInv, BufferOK, TestsOK, grep_vars, syserr_vars
<1>4. \/ /\ program' = "shell" /\ resident' = resident
         /\ \/ pc' = "prompt" /\ status' = status
            \/ pc' = "answer" /\ status' \in {-1, 256}
      \/ /\ CString(got) # <<>> /\ pc' = "begin" /\ status' = status
         /\ args' = Args(got) /\ resident' = program' /\ program' \in Tasks \ {"shell"}
  BY ExecuteGives
<1>5. ShellOK'
  <2>1. "shell" \in Tasks /\ resident \in Tasks /\ status \in {-1, 256} \cup 0..255
    BY DEF TypesInv, ShellOK, Tasks
  <2>2. program' \in Tasks /\ resident' \in Tasks
    BY <1>4, <2>1, Zenon
  <2>3. status' \in {-1, 256} \cup 0..255
    BY <1>4, <2>1, Zenon
  <2> QED
    BY <2>2, <2>3 DEF ShellOK
<1>6. UNCHANGED <<dir_count, fd_arr, out, line, got>>
  BY <1>1 DEF kernel
<1>7. Started' = Started
  BY DEF Started, Fds
<1>8. ShellInv' /\ RunningInv'
  BY <1>1, <1>4, <1>6, <1>7 DEF ShellInv, RunningInv
<1>9. ListerInv' /\ GrepInv' /\ SyserrInv'
  BY <1>1, <1>4, <1>6 DEF ListerInv, Listers, GrepInv, SyserrInv
<1>10. ShowsFiles'
  BY <1>4, NotEnded
<1> QED
  BY <1>2, <1>3, <1>5, <1>8, <1>9, <1>10 DEF TypesInv

\* The program that has ended is forgotten.
LEMMA ShellAnswersSteps == ProgramsInv /\ ShellAnswers => ProgramsInv'
<1> SUFFICES ASSUME ProgramsInv, ShellAnswers PROVE ProgramsInv'
  OBVIOUS
<1> USE DEF ProgramsInv
<1>1. PICK m \in Char : Say(<<m>>) \/ UNCHANGED kernel
  <2>1. \/ Say(<<"no such command">>) \/ Say(<<"program terminated by exception">>)
        \/ Say(<<"program terminated abnormally">>) \/ UNCHANGED kernel
    BY DEF ShellAnswers
  <2> QED
    BY <2>1 DEF Char
<1>2. KernelOK' /\ dir_count' = dir_count
  BY <1>1, KernelStays, SayTyped DEF TypesInv, kernel
<1>3. ShellOK'
  <2>1. program' = program /\ resident' = resident /\ status' = 0
    BY DEF ShellAnswers, Goto
  <2> QED
    BY <2>1 DEF TypesInv, ShellOK
<1>4. BufferOK'
  <2>1. NoData \in [0..BUFSIZE -> Char]
    <3>1. Nul \in Char
      BY DEF Char
    <3> QED
      BY <3>1 DEF NoData
  <2>2. data' = NoData /\ fname' = <<>> /\ last' = 0 /\ line_start' = 0 /\ cnt' = 0
    BY DEF ShellAnswers
  <2>3. BUFSIZE \in Nat
    BY ProgramsAssumption
  <2> QED
    BY <2>1, <2>2, <2>3, NoText DEF BufferOK
<1>8. TestsOK'
  <2>1. test' = 0 /\ upto' = 0 /\ step' = 0 /\ fail' = 0 /\ total' = 0
    BY DEF ShellAnswers
  <2> QED
    BY <2>1 DEF TestsOK
<1>5. program' = "shell" /\ pc' = "prompt" /\ dir_count = 0
  BY DEF ShellAnswers, At, Goto, ShellInv
<1>6. ShellInv' /\ RunningInv' /\ ListerInv' /\ GrepInv' /\ SyserrInv'
  BY <1>2, <1>5 DEF ShellInv, RunningInv, ListerInv, Listers, GrepInv, SyserrInv
<1>7. ShowsFiles'
  BY <1>5, NotEnded
<1> QED
  BY <1>2, <1>3, <1>4, <1>6, <1>7, <1>8 DEF TypesInv
-----------------------------------------------------------------------------
\* One entry more of a listing.
LEMMA RowsNext ==
  ASSUME disk \in Images, NEW n \in Nat, n + 1 <= Len(disk)
  PROVE  /\ Row(n + 1) \in Text /\ Row(n + 1) # <<>>
         /\ Rows(n + 1) = Rows(n) \o Visible(Row(n + 1))
<1> DEFINE R(m) == [e \in 1..m |-> Row(e)]
<1>1. \A e \in 1..Len(disk) : Row(e) \in Text /\ Row(e) # <<>>
  <2> SUFFICES ASSUME NEW e \in 1..Len(disk) PROVE Row(e) \in Text /\ Row(e) # <<>>
    OBVIOUS
  <2>1. disk[e].name \in Text /\ disk[e].name # <<>>
    BY DiskIs
  <2>2. Newline \in Char
    BY DEF Char
  <2>3. PICK s \in Text, c \in Char : s = disk[e].name /\ c = Newline
    BY <2>1, <2>2
  <2>4. Append(s, c) \in Text /\ Append(s, c) # <<>>
    <3>1. Append(s, c) \in Text /\ Len(Append(s, c)) = Len(s) + 1 /\ Len(s) \in Nat
      BY VisibleAppend, AppendProperties, TextLen DEF Text
    <3>2. Len(<<>>) = 0
      BY EmptySeq
    <3>3. Len(Append(s, c)) # 0
      <4>1. \A k \in Nat : k + 1 # 0
        OBVIOUS
      <4> QED
        BY <3>1, <4>1, Zenon
    <3> QED
      BY <3>1, <3>2, <3>3, Zenon
  <2> QED
    BY <2>1, <2>3, <2>4 DEF Row
<1>2. Len(disk) \in Nat
  BY DiskIs
<1>3. ASSUME NEW m \in 0..Len(disk) PROVE R(m) \in Seq(Text) /\ Len(R(m)) = m
  BY <1>1, <1>2
<1>4. n + 1 \in 1..Len(disk) /\ n \in 0..Len(disk) /\ n + 1 \in 0..Len(disk)
  BY <1>2
<1>5. PICK ss \in Seq(Text), tt \in Seq(Text), t \in Text :
        ss = R(n) /\ tt = R(n + 1) /\ t = Row(n + 1) /\ Len(ss) = n /\ Len(tt) = n + 1
  BY <1>1, <1>3, <1>4
<1>6. tt = Append(ss, t)
  <2>1. /\ Append(ss, t) \in Seq(Text) /\ Len(Append(ss, t)) = n + 1
        /\ \A k \in 1..n : Append(ss, t)[k] = ss[k]
        /\ Append(ss, t)[n + 1] = t
    BY <1>5, AppendProperties
  <2>2. \A k \in 1..n + 1 : tt[k] = Append(ss, t)[k]
    <3>1. \A k \in 1..n : tt[k] = ss[k]
      BY <1>5
    <3>2. tt[n + 1] = t
      BY <1>5
    <3>3. \A k \in 1..n + 1 : k \in 1..n \/ k = n + 1
      OBVIOUS
    <3> QED
      BY <2>1, <3>1, <3>2, <3>3
  <2> QED
    BY <1>5, <2>1, <2>2, SeqEqual
<1>7. FlattenSeq(tt) = FlattenSeq(ss) \o t
  BY <1>6, FlattenAppend
<1>8. Visible(FlattenSeq(ss) \o t) = Visible(FlattenSeq(ss)) \o Visible(t)
  <2>1. PICK a \in Text : a = FlattenSeq(ss)
    BY FlattenText
  <2> QED
    BY <2>1, VisibleJoin
<1> QED
  BY <1>1, <1>4, <1>5, <1>7, <1>8 DEF Rows

\* Before the first entry nothing has been listed.
LEMMA RowsNone == Rows(0) = <<>>
<1>1. [e \in 1..0 |-> Row(e)] = <<>>
  OBVIOUS
<1> QED
  BY <1>1, FlattenNone, VisibleNone DEF Rows

\* The beginning of a text, and what follows it up to some place.
LEMMA PartsJoin ==
  ASSUME NEW s \in Text, NEW m \in Nat, NEW n \in Nat, m <= n, n <= Len(s)
  PROVE  /\ SubSeq(s, 1, m) \in Text /\ SubSeq(s, m + 1, n) \in Text
         /\ Len(SubSeq(s, m + 1, n)) = n - m
         /\ Visible(SubSeq(s, 1, n)) = Visible(SubSeq(s, 1, m)) \o Visible(SubSeq(s, m + 1, n))
<1>1. /\ SubSeq(s, m + 1, n) \in Text /\ Len(SubSeq(s, m + 1, n)) = n - m
  <2>1. /\ SubSeq(s, m + 1, n) \in Text
        /\ Len(SubSeq(s, m + 1, n)) = IF m < n THEN n - m ELSE 0
    BY Parts
  <2> QED
    BY <2>1
<1>2. SubSeq(s, 1, m) \in Text
  <2>1. PICK i \in Nat, j \in Int : i = 0 /\ j = m /\ j <= Len(s) /\ i + 1 = 1
    BY TextLen
  <2> QED
    BY <2>1, Parts
<1>3. PICK p \in Text, q \in Text : p = SubSeq(s, 1, m) /\ q = SubSeq(s, m + 1, n)
  BY <1>1, <1>2
<1>4. SubSeq(s, 1, n) = p \o q
  <2>1. SubSeq(s, 1, m) \o SubSeq(s, m + 1, n) = SubSeq(s, 1, n)
    <3>1. 1 \in 1..m + 1 /\ m \in 0..n /\ n \in 0..Len(s)
      BY TextLen
    <3> QED
      BY <3>1, ConcatAdjacentSubSeq DEF Text
  <2> QED
    BY <1>3, <2>1
<1> QED
  BY <1>1, <1>2, <1>3, <1>4, VisibleJoin

\* All the bytes of a text are the text.
LEMMA WholeText ==
  ASSUME NEW s \in Text PROVE SubSeq(s, 1, Len(s)) = s /\ SubSeq(s, 1, 0) = <<>>
BY SubSeqFull, SubSeqEmpty DEF Text

\* A step of cat or ls that says something and ends, or just ends.
LEMMA ListerEnds ==
  ASSUME ProgramsInv, program \in Listers, NEW m \in Char, NEW value \in {0, 2, 3},
         Back(value), Say(<<m>>) \/ UNCHANGED kernel,
         UNCHANGED <<fd, grep_vars, syserr_vars>>,
         dir_count = 0, ShowsFiles'
  PROVE  ProgramsInv'
<1> USE DEF ProgramsInv
<1>1. KernelOK' /\ dir_count' = dir_count
  BY KernelStays, SayTyped DEF TypesInv, kernel
<1>2. program' = "shell" /\ pc' = "answer" /\ status' = value /\ resident' = resident
  BY DEF Back
<1>3. ShellOK' /\ BufferOK' /\ TestsOK'
  BY <1>2 DEF TypesInv, ShellOK, Tasks, BufferOK, TestsOK, grep_vars, syserr_vars
<1>4. ShellInv' /\ RunningInv' /\ ListerInv' /\ GrepInv' /\ SyserrInv'
  BY <1>1, <1>2 DEF ShellInv, RunningInv, ListerInv, Listers, GrepInv, SyserrInv
<1> QED
  BY <1>1, <1>3, <1>4 DEF TypesInv

\* A step of cat or ls after which it goes on.
LEMMA ListerGoes ==
  ASSUME ProgramsInv, program \in Listers, KernelOK', disk' = disk, NEW c, Goto(c),
         c \in {"opened", "read", "write"},
         UNCHANGED <<shell_vars, grep_vars, syserr_vars>>, ListerInv'
  PROVE  ProgramsInv'
<1> USE DEF ProgramsInv
<1>1. program' = program /\ pc' = c
  BY DEF Goto
<1>2. ShellOK' /\ BufferOK' /\ TestsOK'
  BY <1>1 DEF TypesInv, ShellOK, Tasks, BufferOK, TestsOK, shell_vars, grep_vars, syserr_vars
<1>3. ShellInv' /\ RunningInv' /\ GrepInv' /\ SyserrInv'
  BY <1>1 DEF ShellInv, RunningInv, Listers, GrepInv, SyserrInv, shell_vars
<1>4. ShowsFiles'
  BY <1>1, NotEnded
<1> QED
  BY <1>2, <1>3, <1>4 DEF TypesInv

\* The steps of cat and ls keep the invariant.
LEMMA ListerOpensSteps == ProgramsInv /\ ListerOpens => ProgramsInv'
<1> SUFFICES ASSUME ProgramsInv, ListerOpens PROVE ProgramsInv'
  OBVIOUS
<1>1. /\ program \in Listers /\ pc = "begin" /\ UNCHANGED <<fd, grep_vars, syserr_vars>>
      /\ program # "shell" /\ resident = program
      /\ fd_arr = Started /\ out = <<>> /\ dir_count = 0 /\ KernelOK
  BY DEF ListerOpens, ProgramsInv, RunningInv, Listers, TypesInv
<1>2. CASE program = "cat" /\ args = <<>>
  <2>1. Say(<<"could not read arguments">>) /\ Back(3)
    BY <1>2 DEF ListerOpens, SayAndReturn
  <2>2. ShowsFiles'
    <3>1. args' = <<>> /\ resident' = "cat" /\ status' = 3
      BY <1>1, <1>2, <2>1 DEF Back
    <3>2. ~Ended("ls")' /\ (status' = 0) = FALSE /\ (status' = 2) = FALSE
      BY <3>1 DEF Ended
    <3> QED
      BY <3>1, <3>2 DEF ShowsFiles
  <2>3. "could not read arguments" \in Char
    BY DEF Char
  <2> QED
    BY <1>1, <2>1, <2>2, <2>3, ListerEnds
<1>3. CASE ~(program = "cat" /\ args = <<>>)
  <2>1. Open(Asked) /\ Goto("opened") /\ UNCHANGED shell_vars
    BY <1>3 DEF ListerOpens, Asked
  <2>2. KernelOK' /\ disk' = disk
    BY <1>1, <2>1, OpenTyped
  <2>3. Asked # <<>> /\ Asked' = Asked
    BY <1>1, <1>3, <2>1 DEF Asked, Goto, shell_vars, Dot, Listers
  <2>4. /\ UNCHANGED <<disk, dir_count, out, got>>
        /\ IF Entries(Asked) = {} THEN ret' = -1 /\ fd_arr' = Started
           ELSE ret' = 2 /\ fd_arr' = One(Opened(Named(Asked), 0))
    BY <1>1, <2>1, <2>3, OpenFirst
  <2>5. ListerInv'
    <3>1. Entries(Asked)' = Entries(Asked) /\ Named(Asked)' = Named(Asked)
      BY <2>3, <2>4 DEF Entries, Named
    <3>2. \A e : Opened(e, 0)' = Opened(e, 0)
      BY <2>4 DEF Opened
    <3>3. \A x : One(x)' = One(x) /\ Started' = Started
      BY DEF One, Started, Fds
    <3>4. (One(Opened(Named(Asked), 0)))' = One(Opened(Named(Asked), 0))
      BY <2>3, <2>4 DEF One, Opened, Named, Entries, Started, Fds
    <3>5. pc' = "opened"
      BY <2>1 DEF Goto
    <3> QED
      BY <1>1, <2>3, <2>4, <3>1, <3>3, <3>4, <3>5 DEF ListerInv
  <2> QED
    BY <1>1, <2>1, <2>2, <2>5, ListerGoes
<1> QED
  BY <1>2, <1>3

\* How a listing ends, by what it shows and answers.
LEMMA Listed ==
  ASSUME disk \in Images, disk' = disk, program \in Listers, resident = program,
         NEW value \in {0, 2, 3}, Back(value),
         value = 0 => /\ Entries(Asked) # {} /\ Asked # <<>>
                      /\ out' = CASE disk[Named(Asked)].kind = "file" -> Visible(disk[Named(Asked)].data)
                                  [] disk[Named(Asked)].kind = "dir"  -> Rows(Len(disk))
                                  [] disk[Named(Asked)].kind = "rtc"  -> <<>>,
         value = 2 <=> Asked # <<>> /\ Entries(Asked) = {},
         program = "ls" => value = 0
  PROVE  ShowsFiles'
<1>1. /\ resident' = program /\ status' = value /\ args' = args
      /\ Entries(args)' = Entries(args)
  BY DEF Back, Entries
<1>2. CASE program = "cat"
  <2>1. Asked = args
    BY <1>2 DEF Asked
  <2>2. ~Ended("ls")'
    BY <1>1, <1>2 DEF Ended
  <2>3. (status' = 2) = (args' # <<>> /\ Entries(args)' = {})
    BY <1>1, <2>1
  <2>4. ASSUME value = 0
        PROVE  out' = CASE disk'[Min(Entries(args)')].kind = "file" -> Visible(disk'[Min(Entries(args)')].data)
                        [] disk'[Min(Entries(args)')].kind = "dir"  -> Visible(FlattenSeq([e \in DOMAIN disk' |-> disk'[e].name]))
                        [] disk'[Min(Entries(args)')].kind = "rtc"  -> <<>>
    <3>1. Rows(Len(disk)) = Visible(FlattenSeq([e \in DOMAIN disk |-> disk[e].name]))
      <4>1. DOMAIN disk = 1..Len(disk)
        BY DiskIs
      <4>2. [e \in 1..Len(disk) |-> Row(e)] = [e \in DOMAIN disk |-> disk[e].name]
        BY <1>2, <4>1 DEF Row
      <4> QED
        BY <4>2 DEF Rows
    <3>2. Min(Entries(args)') = Named(Asked)
      BY <1>1, <2>1 DEF Named
    <3> QED
      BY <2>4, <3>1, <3>2
  <2> QED
    BY <1>1, <2>2, <2>3, <2>4 DEF ShowsFiles, Names
<1>3. CASE program = "ls"
  <2>1. ~Ended("cat")'
    BY <1>1, <1>3 DEF Ended
  <2>2. Asked = Dot /\ value = 0
    BY <1>3 DEF Asked
  <2>3. out' = Rows(Len(disk))
    BY <2>2, DotIs
  <2>4. Rows(Len(disk)) = Visible(FlattenSeq([e \in DOMAIN disk |-> Append(disk[e].name, Newline)]))
    <3>1. DOMAIN disk = 1..Len(disk)
      BY DiskIs
    <3>2. [e \in 1..Len(disk) |-> Row(e)] = [e \in DOMAIN disk |-> Append(disk[e].name, Newline)]
      BY <1>3, <3>1 DEF Row
    <3> QED
      BY <3>2 DEF Rows
  <2> QED
    BY <2>1, <2>3, <2>4 DEF ShowsFiles
<1> QED
  BY <1>2, <1>3 DEF Listers

\* The descriptor open has given is the one that is read.
LEMMA ListerOpenedSteps == ProgramsInv /\ ListerOpened => ProgramsInv'
<1> SUFFICES ASSUME ProgramsInv, ListerOpened PROVE ProgramsInv'
  OBVIOUS
<1>1. /\ program \in Listers /\ pc = "opened" /\ UNCHANGED <<grep_vars, syserr_vars>>
      /\ program # "shell" /\ resident = program /\ Asked # <<>>
      /\ out = <<>> /\ dir_count = 0 /\ KernelOK /\ disk \in Images
      /\ IF Entries(Asked) = {} THEN ret = -1 /\ fd_arr = Started
         ELSE ret = 2 /\ fd_arr = One(Opened(Named(Asked), 0))
  BY DEF ListerOpened, ProgramsInv, RunningInv, Listers, TypesInv, KernelOK, ListerInv
<1>2. CASE ret = -1
  <2>1. Say(<<"open failed">>) /\ Back(2) /\ UNCHANGED fd
    BY <1>2 DEF ListerOpened, SayAndReturn
  <2>2. "open failed" \in Char
    BY DEF Char
  <2>3. Entries(Asked) = {}
    BY <1>1, <1>2
  <2>4. program # "ls"
    BY <1>1, <2>3, DotIs DEF Asked
  <2>5. disk' = disk
    BY <2>1, WriteIs DEF Say
  <2>6. ShowsFiles'
    <3>1. PICK v \in {0, 2, 3} : v = 2
      OBVIOUS
    <3>2. Back(v)
      BY <2>1, <3>1
    <3>3. v = 2 /\ v # 0 /\ Asked # <<>> /\ Entries(Asked) = {}
      BY <1>1, <2>3, <3>1
    <3> QED
      BY <1>1, <2>4, <2>5, <3>2, <3>3, Listed
  <2> QED
    BY <1>1, <2>1, <2>2, <2>6, ListerEnds
<1>3. CASE ret # -1
  <2>1. fd' = ret /\ Goto("read") /\ UNCHANGED <<kernel, shell_vars>>
    BY <1>3 DEF ListerOpened
  <2>2. Entries(Asked) # {} /\ ret = 2 /\ fd_arr = One(Opened(Named(Asked), 0))
    BY <1>1, <1>3
  <2>3. pc' = "read" /\ program' = program /\ args' = args /\ UNCHANGED <<disk, fd_arr, dir_count, out, ret, got>>
    BY <2>1 DEF Goto, kernel, shell_vars
  <2>4. PICK e \in 1..Len(disk) : /\ e = Named(Asked) /\ disk[e].data \in Text
                                 /\ disk[e].kind \in {"file", "dir", "rtc"}
    BY <1>1, <2>2, NamedIs, DiskIs
  <2>5. fd_arr[2] = Opened(e, 0) /\ fd_arr[2].pos = 0
    BY <2>2, <2>4, Descriptors DEF Opened
  <2>6. Asked' = Asked /\ Entries(Asked)' = Entries(Asked) /\ Named(Asked)' = e
        /\ (One(Opened(Named(Asked), fd_arr[2].pos)))' = One(Opened(e, fd_arr[2].pos))
    BY <2>3, <2>4 DEF Asked, Entries, Named, One, Opened, Started, Fds
  <2>7. FileListed(e, 0)'
    <3>1. SubSeq(disk[e].data, 1, 0) = <<>> /\ Len(disk[e].data) \in Nat
      BY <2>4, WholeText, TextLen
    <3> QED
      <4>1. pc' = "read" /\ dir_count' = 0 /\ out' = <<>> /\ disk' = disk
        BY <1>1, <2>3
      <4>2. 0 \in 0..Len(disk[e].data) /\ Visible(SubSeq(disk[e].data, 1, 0)) = <<>>
        <5>1. PICK b \in Text : b = SubSeq(disk[e].data, 1, 0) /\ b = <<>>
          BY <3>1, NoText
        <5>2. Visible(b) = <<>>
          BY <5>1, VisibleNone
        <5> QED
          BY <3>1, <5>1, <5>2
      <4> QED
        BY <4>1, <4>2 DEF FileListed
  <2>8. DirectoryListed'
    <3>1. Rows(0)' = Rows(0)
      BY <2>3 DEF Rows, Row
    <3> QED
      BY <1>1, <2>3, <3>1, RowsNone DEF DirectoryListed
  <2>9. ClockListed'
    BY <1>1, <2>3 DEF ClockListed
  <2>10. ListerInv'
    BY <1>1, <2>1, <2>2, <2>3, <2>4, <2>5, <2>6, <2>7, <2>8, <2>9 DEF ListerInv
  <2> QED
    BY <1>1, <2>1, <2>10, KernelStays, ListerGoes DEF kernel
<1> QED
  BY <1>2, <1>3

\* A read goes on where the one before has ended.
LEMMA ListerReadsSteps == ProgramsInv /\ ListerReads => ProgramsInv'
<1> SUFFICES ASSUME ProgramsInv, ListerReads PROVE ProgramsInv'
  OBVIOUS
<1>1. /\ program \in Listers /\ pc = "read" /\ Read(fd, BUFSIZE) /\ Goto("write")
      /\ UNCHANGED <<shell_vars, fd, grep_vars, syserr_vars>>
      /\ program # "shell" /\ resident = program /\ Asked # <<>>
      /\ fd = 2 /\ Entries(Asked) # {} /\ fd_arr = One(Opened(Named(Asked), fd_arr[2].pos))
      /\ CASE disk[Named(Asked)].kind = "file" -> FileListed(Named(Asked), fd_arr[2].pos)
           [] disk[Named(Asked)].kind = "dir"  -> DirectoryListed
           [] disk[Named(Asked)].kind = "rtc"  -> ClockListed
  BY DEF ListerReads, ProgramsInv, RunningInv, Listers, ListerInv
<1>2. KernelOK /\ disk \in Images /\ BUFSIZE \in Nat /\ BUFSIZE > 0
  BY ProgramsAssumption DEF ProgramsInv, TypesInv, KernelOK
<1>3. PICK e \in 1..Len(disk) : /\ e = Named(Asked) /\ disk[e].data \in Text
                                /\ disk[e].kind \in {"file", "dir", "rtc"}
                                /\ disk[e].name \in Text /\ disk[e].name # <<>>
  BY <1>1, <1>2, NamedIs, DiskIs
<1>4. KernelOK' /\ UNCHANGED <<disk, out>>
  BY <1>1, <1>2, ReadTyped
<1>5. /\ program' = program /\ pc' = "write" /\ fd' = 2 /\ args' = args
      /\ Asked' = Asked /\ Entries(Asked)' = Entries(Asked) /\ Named(Asked)' = e
      /\ \A n : One(Opened(e, n))' = One(Opened(e, n))
      /\ \A n : Rows(n)' = Rows(n)
  BY <1>1, <1>3, <1>4
  DEF Goto, shell_vars, Asked, Entries, Named, One, Opened, Started, Fds, Rows, Row
<1>6. PICK n : n = fd_arr[2].pos /\ fd_arr[2] = Opened(e, n) /\ n \in Nat
  <2>1. fd_arr[2].pos \in Nat /\ 2 \in Fds
    BY <1>2, Descriptors DEF KernelOK, Table
  <2> QED
    BY <1>1, <1>3, <2>1, Descriptors
<1>7. 2 \in Fds /\ Usable(2)
  BY <1>3, <1>6, Descriptors DEF Usable, Opened
<1>8. CASE disk[e].kind = "file"
  <2>1. ReadFile(2, BUFSIZE)
    BY <1>1, <1>6, <1>7, <1>8 DEF Read, Opened
  <2>2. PICK b \in Text : b = disk[e].data
    BY <1>3
  <2>3. n \in 0..Len(b) /\ dir_count = 0 /\ out = Visible(SubSeq(b, 1, n))
    BY <1>1, <1>3, <1>6, <1>8, <2>2 DEF FileListed
  <2>4. PICK m : m = Least(n + BUFSIZE, Len(b)) /\ m \in n..Len(b) /\ (m = n => m = Len(b)) /\ m \in Nat
    <3>1. Len(b) \in Nat
      BY TextLen
    <3> QED
      BY <1>2, <2>3, <3>1 DEF Least
  <2>5. Len(SubSeq(b, n + 1, m)) = m - n
    <3>1. Len(b) \in Nat
      BY TextLen
    <3> QED
      BY <1>6, <2>4, <3>1, PartsJoin
  <2>6. /\ got' = SubSeq(b, n + 1, m) /\ ret' = m - n
        /\ fd_arr' = [fd_arr EXCEPT ![2].pos = n + (m - n)] /\ dir_count' = dir_count
    <3>1. disk[fd_arr[2].entry].data = b /\ fd_arr[2].pos = n
      BY <1>6, <2>2 DEF Opened
    <3>2. got' = SubSeq(b, n + 1, m) /\ ret' = Len(got')
      BY <2>1, <2>4, <3>1 DEF ReadFile, Give, Answer
    <3>3. fd_arr' = [fd_arr EXCEPT ![2].pos = n + Len(got')] /\ dir_count' = dir_count
      BY <2>1, <3>1 DEF ReadFile, Moved, Quiet
    <3> QED
      BY <2>5, <3>2, <3>3
  <2>7. fd_arr' = One(Opened(e, m)) /\ fd_arr'[2].pos = m
    <3>1. n + (m - n) = m
      BY <1>6, <2>4
    <3>2. fd_arr = One(Opened(e, n))
      BY <1>1, <1>3, <1>6
    <3>3. fd_arr' = [fd_arr EXCEPT ![2].pos = m]
      BY <2>6, <3>1
    <3>4. 2 \in Fds /\ DOMAIN Started = Fds
      BY <1>7, Descriptors
    <3>5. fd_arr' = One(Opened(e, m))
      <4>1. [Opened(e, n) EXCEPT !.pos = m] = Opened(e, m)
        BY DEF Opened
      <4>2. fd_arr' = [fd_arr EXCEPT ![2] = Opened(e, m)]
        BY <1>6, <3>3, <4>1
      <4>3. \A x, y : [One(x) EXCEPT ![2] = y] = One(y)
        BY <3>4 DEF One
      <4> QED
        BY <3>2, <4>2, <4>3
    <3> QED
      BY <3>5, <1>7, Descriptors DEF Opened
  <2>8. FileListed(e, m)'
    <3>1. pc' = "write" /\ disk' = disk /\ out' = Visible(SubSeq(b, 1, n)) /\ dir_count' = 0
      BY <1>4, <1>5, <2>3, <2>6
    <3>2. n \in 0..m /\ m \in 0..Len(b)
      BY <1>6, <2>4
    <3> QED
      BY <2>2, <2>4, <2>6, <3>1, <3>2 DEF FileListed
  <2>9. disk'[e].kind = "file"
    BY <1>4, <1>8
  <2>10. ListerInv'
    BY <1>1, <1>5, <2>7, <2>8, <2>9 DEF ListerInv
  <2> QED
    BY <1>1, <1>4, <2>10, ListerGoes
<1>9. CASE disk[e].kind = "dir"
  <2>1. ReadDirectory
    BY <1>1, <1>6, <1>7, <1>9 DEF Read, Opened
  <2>2. out = Rows(dir_count) /\ dir_count \in 0..Len(disk) /\ Len(disk) \in Nat
    BY <1>1, <1>2, <1>3, <1>9, DiskIs DEF DirectoryListed, KernelOK
  <2>3. DirectoryListed'
    <3>1. CASE dir_count >= Len(disk)
      <4>1. ret' = 0 /\ dir_count' = 0 /\ dir_count = Len(disk)
        BY <2>1, <2>2, <3>1 DEF ReadDirectory, Rewound, Answer
      <4> QED
        BY <1>4, <1>5, <2>2, <4>1 DEF DirectoryListed
    <3>2. CASE dir_count < Len(disk)
      <4>1. PICK c : c = dir_count + 1 /\ c \in 1..Len(disk) /\ c - 1 = dir_count
        BY <2>2, <3>2
      <4>2. got' = disk[c].name /\ ret' = Len(got') /\ dir_count' = c
        BY <2>1, <2>2, <3>2, <4>1 DEF ReadDirectory, Give, Answer
      <4>3. Len(disk[c].name) \in Nat /\ Len(disk[c].name) # 0
        <5>1. PICK s \in Text : s = disk[c].name /\ s # <<>>
          BY <1>2, <4>1, DiskIs
        <5>2. Len(s) \in Nat /\ Len(s) # 0
          BY <5>1, EmptySeq, TextLen DEF Text
        <5> QED
          BY <5>1, <5>2
      <4>4. PICK k : k = dir_count /\ k = c - 1
        BY <4>1
      <4>5. ret' # 0 /\ dir_count' > 0 /\ dir_count' - 1 = k
        BY <4>1, <4>2, <4>3, <4>4
      <4>6. out' = Rows(k)'
        BY <1>4, <1>5, <2>2, <4>4
      <4>7. got' = disk'[dir_count'].name /\ ret' = Len(got')
        BY <1>4, <4>2
      <4> QED
        BY <1>5, <4>5, <4>6, <4>7 DEF DirectoryListed
    <3> QED
      BY <2>2, <3>1, <3>2
  <2>4. fd_arr' = fd_arr
    BY <2>1 DEF ReadDirectory
  <2>5. disk'[e].kind = "dir"
    BY <1>4, <1>9
  <2>6. fd_arr' = One(Opened(e, n)) /\ fd_arr'[2].pos = n
    BY <1>1, <1>3, <1>6, <2>4
  <2>7. ListerInv'
    BY <1>1, <1>5, <2>3, <2>5, <2>6 DEF ListerInv
  <2> QED
    BY <1>1, <1>4, <2>7, ListerGoes
<1>10. CASE disk[e].kind = "rtc"
  <2>1. ReadClock
    BY <1>1, <1>6, <1>7, <1>10 DEF Read, Opened
  <2>2. ClockListed'
    BY <1>1, <1>3, <1>4, <1>10, <2>1 DEF ClockListed, ReadClock, Quiet, Answer
  <2>3. fd_arr' = fd_arr
    BY <2>1 DEF ReadClock
  <2>4. disk'[e].kind = "rtc"
    BY <1>4, <1>10
  <2>5. fd_arr' = One(Opened(e, n)) /\ fd_arr'[2].pos = n
    BY <1>1, <1>3, <1>6, <2>3
  <2>6. ListerInv'
    BY <1>1, <1>5, <2>2, <2>4, <2>5 DEF ListerInv
  <2> QED
    BY <1>1, <1>4, <2>6, ListerGoes
<1> QED
  BY <1>3, <1>8, <1>9, <1>10

\* What a program writes to the terminal: it has descriptor 1.
LEMMA TerminalWritten ==
  ASSUME KernelOK, NEW x, fd_arr = One(x), NEW bytes \in Text, Write(1, bytes)
  PROVE  /\ KernelOK' /\ UNCHANGED <<disk, fd_arr, dir_count, got>>
         /\ ret' = Len(bytes) /\ out' = out \o Visible(bytes)
<1>1. fd_arr[1] = Std
  BY Descriptors
<1> QED
  BY <1>1, WriteTyped, WriteShows

\* What was read is shown; when a read gives nothing all of it has been.
LEMMA ListerWritesSteps == ProgramsInv /\ ListerWrites => ProgramsInv'
<1> SUFFICES ASSUME ProgramsInv, ListerWrites PROVE ProgramsInv'
  OBVIOUS
<1>1. /\ program \in Listers /\ pc = "write"
      /\ UNCHANGED <<fd, grep_vars, syserr_vars>>
      /\ program # "shell" /\ resident = program /\ Asked # <<>>
      /\ fd = 2 /\ Entries(Asked) # {} /\ fd_arr = One(Opened(Named(Asked), fd_arr[2].pos))
      /\ CASE disk[Named(Asked)].kind = "file" -> FileListed(Named(Asked), fd_arr[2].pos)
           [] disk[Named(Asked)].kind = "dir"  -> DirectoryListed
           [] disk[Named(Asked)].kind = "rtc"  -> ClockListed
  BY DEF ListerWrites, ProgramsInv, RunningInv, Listers, ListerInv
<1>2. KernelOK /\ disk \in Images
  BY DEF ProgramsInv, TypesInv, KernelOK
<1>3. PICK e \in 1..Len(disk) : /\ e = Named(Asked) /\ disk[e].data \in Text
                                /\ disk[e].kind \in {"file", "dir", "rtc"}
                                /\ disk[e].name \in Text /\ disk[e].name # <<>>
                                /\ (disk[e].kind = "dir") = (disk[e].name = Dot)
                                /\ disk[e].name = Asked
  BY <1>1, <1>2, NamedIs, DiskIs
<1>4. PICK n : n = fd_arr[2].pos /\ n \in Nat /\ fd_arr = One(Opened(e, n))
  <2>1. fd_arr[2].pos \in Nat
    BY <1>2, Descriptors DEF KernelOK, Table
  <2> QED
    BY <1>1, <1>3, <2>1
<1>5. program = "ls" => disk[e].kind = "dir"
  BY <1>3 DEF Asked
<1>6. ASSUME ret = 0, dir_count = 0,
             out = CASE disk[Named(Asked)].kind = "file" -> Visible(disk[Named(Asked)].data)
                     [] disk[Named(Asked)].kind = "dir"  -> Rows(Len(disk))
                     [] disk[Named(Asked)].kind = "rtc"  -> <<>>
      PROVE  ProgramsInv'
  <2>1. Returns(0)
    BY <1>6 DEF ListerWrites
  <2>2. Back(0) /\ UNCHANGED kernel /\ disk' = disk /\ out' = out
    BY <2>1 DEF Returns, kernel
  <2>3. ShowsFiles'
    <3>1. PICK v \in {0, 2, 3} : v = 0
      OBVIOUS
    <3>2. Back(v) /\ v # 2
      BY <2>2, <3>1
    <3> QED
      BY <1>1, <1>2, <1>6, <2>2, <3>1, <3>2, Listed
  <2> QED
    BY <1>1, <1>6, <2>2, <2>3, ListerEnds DEF Char
<1>7. ASSUME ret # 0, ret # -1,
             NEW bytes \in Text, bytes = IF program = "ls" THEN Append(got, Newline) ELSE got,
             CASE disk[e].kind = "file" -> FileListed(e, n) /\ program = "cat"
               [] disk[e].kind = "dir"  -> /\ DirectoryListed /\ bytes = Row(dir_count)
               [] disk[e].kind = "rtc"  -> FALSE
      PROVE  ProgramsInv'
  <2>1. Write(1, bytes) /\ (IF ret' = -1 THEN Back(3) ELSE Goto("read") /\ UNCHANGED shell_vars)
    BY <1>7 DEF ListerWrites
  <2>2. /\ KernelOK' /\ UNCHANGED <<disk, fd_arr, dir_count, got>>
        /\ ret' = Len(bytes) /\ out' = out \o Visible(bytes)
    BY <1>2, <1>4, <2>1, TerminalWritten
  <2>3. Goto("read") /\ UNCHANGED shell_vars
    <3>1. ret' # -1
      BY <2>2, TextLen
    <3> QED
      BY <2>1, <3>1
  <2>4. /\ program' = program /\ pc' = "read" /\ fd' = 2 /\ args' = args
        /\ Asked' = Asked /\ Entries(Asked)' = Entries(Asked) /\ Named(Asked)' = e
        /\ \A k : One(Opened(e, k))' = One(Opened(e, k))
        /\ \A k : Rows(k)' = Rows(k)
    BY <1>1, <1>3, <2>2, <2>3
    DEF Goto, shell_vars, Asked, Entries, Named, One, Opened, Started, Fds, Rows, Row
  <2>5. fd_arr' = One(Opened(e, n)) /\ fd_arr'[2].pos = n
    BY <1>4, <2>2
  <2>6. CASE disk[e].kind = "file"
    <3>1. PICK b \in Text : b = disk[e].data
      BY <1>3
    <3>2. FileListed(e, n) /\ program = "cat"
      BY <1>7, <2>6
    <3>3. PICK m \in 0..n : out = Visible(SubSeq(b, 1, m)) /\ got = SubSeq(b, m + 1, n)
      BY <1>1, <3>1, <3>2 DEF FileListed
    <3>4. n \in 0..Len(b) /\ dir_count = 0 /\ bytes = got
      BY <1>7, <3>1, <3>2 DEF FileListed
    <3>5. out' = Visible(SubSeq(b, 1, n))
      <4>1. m \in Nat /\ m <= n /\ n <= Len(b)
        BY <1>4, <3>3, <3>4, TextLen
      <4>2. Visible(SubSeq(b, 1, n)) = Visible(SubSeq(b, 1, m)) \o Visible(SubSeq(b, m + 1, n))
        BY <1>4, <4>1, PartsJoin
      <4> QED
        BY <2>2, <3>3, <3>4, <4>2
    <3>6. FileListed(e, n)'
      BY <2>2, <2>4, <3>1, <3>4, <3>5 DEF FileListed
    <3>7. disk'[e].kind = "file"
      BY <2>2, <2>6
    <3>8. ListerInv'
      BY <1>1, <2>4, <2>5, <3>6, <3>7 DEF ListerInv
    <3> QED
      BY <1>1, <2>2, <2>3, <3>8, ListerGoes
  <2>7. CASE disk[e].kind = "dir"
    <3>1. DirectoryListed /\ bytes = Row(dir_count)
      BY <1>7, <2>7
    <3>2. dir_count > 0 /\ out = Rows(dir_count - 1) /\ dir_count \in 0..Len(disk)
      BY <1>1, <1>2, <1>7, <3>1 DEF DirectoryListed, KernelOK
    <3>3. PICK k \in Nat : k + 1 = dir_count /\ k = dir_count - 1 /\ k + 1 <= Len(disk)
      <4>1. Len(disk) \in Nat
        BY <1>2, DiskIs
      <4>2. dir_count - 1 \in Nat /\ (dir_count - 1) + 1 = dir_count /\ dir_count <= Len(disk)
        BY <3>2, <4>1
      <4> QED
        BY <4>2
    <3>4. Rows(k + 1) = Rows(k) \o Visible(Row(k + 1))
      BY <1>2, <3>3, RowsNext
    <3>5. out' = Rows(dir_count)
      BY <2>2, <3>1, <3>2, <3>3, <3>4
    <3>6. PICK c : c = dir_count /\ dir_count' = c
      BY <2>2
    <3>7. out' = Rows(c)'
      BY <2>4, <3>5, <3>6
    <3>8. DirectoryListed'
      BY <2>4, <3>6, <3>7 DEF DirectoryListed
    <3>9. disk'[e].kind = "dir"
      BY <2>2, <2>7
    <3>10. ListerInv'
      BY <1>1, <2>4, <2>5, <3>8, <3>9 DEF ListerInv
    <3> QED
      BY <1>1, <2>2, <2>3, <3>10, ListerGoes
  <2> QED
    BY <1>3, <1>7, <2>6, <2>7
<1>8. CASE disk[e].kind = "file"
  <2>1. PICK b \in Text : b = disk[e].data
    BY <1>3
  <2>2. FileListed(e, n)
    BY <1>1, <1>3, <1>4, <1>8
  <2>3. PICK m \in 0..n : /\ out = Visible(SubSeq(b, 1, m)) /\ got = SubSeq(b, m + 1, n)
                          /\ ret = n - m /\ (m = n => n = Len(b))
    BY <1>1, <2>1, <2>2 DEF FileListed
  <2>4. ret # -1 /\ (ret = 0 => m = n) /\ dir_count = 0
    <3>1. n - m # -1 /\ (n - m = 0 => m = n)
      BY <1>4
    <3>2. dir_count = 0
      BY <2>2 DEF FileListed
    <3> QED
      BY <2>3, <3>1, <3>2
  <2>5. program = "cat" /\ got \in Text
    BY <1>1, <1>2, <1>5, <1>8 DEF Listers, KernelOK
  <2>6. CASE ret = 0
    <3>1. out = Visible(b)
      BY <2>3, <2>4, <2>6, WholeText
    <3> QED
      BY <1>3, <1>6, <1>8, <2>1, <2>4, <2>6, <3>1
  <2>7. CASE ret # 0
    <3>1. PICK bytes \in Text : bytes = got
      BY <2>5
    <3> QED
      BY <1>7, <1>8, <2>2, <2>4, <2>5, <2>7, <3>1
  <2> QED
    BY <2>6, <2>7
<1>9. CASE disk[e].kind = "dir"
  <2>1. DirectoryListed
    BY <1>1, <1>3, <1>9
  <2>2. CASE ret = 0
    <3>1. dir_count = 0 /\ out = Rows(Len(disk))
      BY <1>1, <2>1, <2>2 DEF DirectoryListed
    <3> QED
      BY <1>3, <1>6, <1>9, <2>2, <3>1
  <2>3. CASE ret # 0
    <3>1. dir_count > 0 /\ got = disk[dir_count].name /\ ret = Len(got) /\ got \in Text
      BY <1>1, <1>2, <2>1, <2>3 DEF DirectoryListed, KernelOK
    <3>2. ret # -1
      BY <3>1, TextLen
    <3>3. Row(dir_count) = IF program = "ls" THEN Append(got, Newline) ELSE got
      BY <3>1 DEF Row
    <3>4. Row(dir_count) \in Text
      <4>1. PICK c \in Char : c = Newline
        BY DEF Char
      <4>2. Append(got, c) \in Text
        BY <3>1, VisibleAppend
      <4> QED
        BY <3>1, <3>3, <4>1, <4>2
    <3>5. PICK bytes \in Text : bytes = Row(dir_count)
      BY <3>4
    <3> QED
      BY <1>7, <1>9, <2>1, <2>3, <3>2, <3>3, <3>5
  <2> QED
    BY <2>2, <2>3
<1>10. CASE disk[e].kind = "rtc"
  <2>1. ret = 0 /\ dir_count = 0 /\ out = <<>>
    BY <1>1, <1>3, <1>10 DEF ClockListed
  <2> QED
    BY <1>3, <1>6, <1>10, <2>1
<1> QED
  BY <1>3, <1>8, <1>9, <1>10
-----------------------------------------------------------------------------
\* A step of grep that says something and ends, or just ends.
LEMMA GrepEnds ==
  ASSUME ProgramsInv, program = "grep", NEW m \in Char, NEW value \in {0, 2, 3},
         Back(value), Say(<<m>>) \/ UNCHANGED kernel,
         UNCHANGED <<fd, grep_vars, syserr_vars>>, dir_count = 0
  PROVE  ProgramsInv'
<1> USE DEF ProgramsInv
<1>1. KernelOK' /\ dir_count' = dir_count
  BY KernelStays, SayTyped DEF TypesInv, kernel
<1>2. program' = "shell" /\ pc' = "answer" /\ status' = value /\ resident' = resident
  BY DEF Back
<1>3. ShellOK' /\ BufferOK' /\ TestsOK'
  BY <1>2 DEF TypesInv, ShellOK, Tasks, BufferOK, TestsOK, grep_vars, syserr_vars
<1>4. ShellInv' /\ RunningInv' /\ ListerInv' /\ GrepInv' /\ SyserrInv'
  BY <1>1, <1>2 DEF ShellInv, RunningInv, ListerInv, Listers, GrepInv, SyserrInv
<1>5. ShowsFiles'
  <2>1. resident' = "grep"
    BY <1>2 DEF RunningInv
  <2> QED
    BY <2>1, NotEnded DEF Listers
<1> QED
  BY <1>1, <1>3, <1>4, <1>5 DEF TypesInv

\* A step of grep after which it goes on.
LEMMA GrepGoes ==
  ASSUME ProgramsInv, program = "grep", KernelOK', BufferOK', program' = program,
         pc' # "begin", UNCHANGED <<shell_vars, syserr_vars>>, GrepInv'
  PROVE  ProgramsInv'
<1> USE DEF ProgramsInv
<1>1. ShellOK' /\ TestsOK'
  BY DEF TypesInv, ShellOK, TestsOK, shell_vars, syserr_vars
<1>2. ShellInv' /\ RunningInv' /\ ListerInv' /\ SyserrInv'
  BY DEF ShellInv, RunningInv, Listers, ListerInv, SyserrInv, shell_vars
<1>3. ShowsFiles'
  <2>1. resident' = "grep"
    BY DEF RunningInv, shell_vars
  <2> QED
    BY <2>1, NotEnded DEF Listers
<1> QED
  BY <1>1, <1>2, <1>3 DEF TypesInv

\* What grep has open does not depend on what it does next.
LEMMA DiskStays ==
  ASSUME disk' = disk
  PROVE  /\ \A name : Entries(name)' = Entries(name) /\ Named(name)' = Named(name)
         /\ \A e, n : Opened(e, n)' = Opened(e, n)
         /\ \A e, n : One(Opened(e, n))' = One(Opened(e, n))
         /\ \A e, m, f, n : Two(Opened(e, m), Opened(f, n))' = Two(Opened(e, m), Opened(f, n))
BY DEF Entries, Named, Opened, One, Two, Started, Fds

\* The steps of grep keep the invariant.
LEMMA GrepOpensSteps == ProgramsInv /\ GrepOpens => ProgramsInv'
<1> SUFFICES ASSUME ProgramsInv, GrepOpens PROVE ProgramsInv'
  OBVIOUS
<1>1. /\ program = "grep" /\ pc = "begin" /\ UNCHANGED <<fd, grep_vars, syserr_vars>>
      /\ fd_arr = Started /\ out = <<>> /\ dir_count = 0 /\ KernelOK /\ BufferOK /\ disk \in Images
  BY DEF GrepOpens, At, ProgramsInv, RunningInv, TypesInv, KernelOK
<1>2. CASE args = <<>>
  <2>1. Say(<<"could not read argument">>) /\ Back(3)
    BY <1>2 DEF GrepOpens, SayAndReturn
  <2>2. "could not read argument" \in Char
    BY DEF Char
  <2> QED
    BY <1>1, <2>1, <2>2, GrepEnds
<1>3. CASE args # <<>>
  <2>1. Open(Dot) /\ Goto("opened") /\ UNCHANGED shell_vars
    BY <1>3 DEF GrepOpens
  <2>2. KernelOK' /\ disk' = disk
    BY <1>1, <2>1, OpenTyped
  <2>3. ret' = 2 /\ fd_arr' = One(Opened(Named(Dot), 0)) /\ dir_count' = 0
    BY <1>1, <2>1, OpenFirst, DotIs
  <2>4. GrepInv'
    BY <1>1, <1>3, <2>1, <2>2, <2>3, DiskStays DEF GrepInv, Goto, shell_vars
  <2>5. BufferOK'
    BY <1>1 DEF BufferOK, grep_vars
  <2> QED
    BY <1>1, <2>1, <2>2, <2>4, <2>5, GrepGoes DEF Goto
<1> QED
  BY <1>2, <1>3

\* The directory is on descriptor 2.
LEMMA GrepOpenedSteps == ProgramsInv /\ GrepOpened => ProgramsInv'
<1> SUFFICES ASSUME ProgramsInv, GrepOpened PROVE ProgramsInv'
  OBVIOUS
<1>1. /\ program = "grep" /\ UNCHANGED <<grep_vars, syserr_vars>> /\ args # <<>>
      /\ ret = 2 /\ fd_arr = One(Opened(Named(Dot), 0)) /\ KernelOK /\ BufferOK
  BY DEF GrepOpened, At, ProgramsInv, GrepInv, TypesInv
<1>2. fd' = 2 /\ Goto("list") /\ UNCHANGED <<kernel, shell_vars>>
  BY <1>1 DEF GrepOpened
<1>3. disk' = disk /\ fd_arr' = fd_arr
  BY <1>2 DEF kernel
<1>4. GrepInv'
  BY <1>1, <1>2, <1>3, DiskStays DEF GrepInv, Goto, shell_vars
<1>5. BufferOK'
  BY <1>1 DEF BufferOK, grep_vars
<1> QED
  BY <1>1, <1>2, <1>4, <1>5, KernelStays, GrepGoes DEF Goto

\* The directory gives its entries in order.
LEMMA GrepListsSteps == ProgramsInv /\ GrepLists => ProgramsInv'
<1> SUFFICES ASSUME ProgramsInv, GrepLists PROVE ProgramsInv'
  OBVIOUS
<1>1. /\ program = "grep" /\ UNCHANGED <<shell_vars, fd, grep_vars, syserr_vars>> /\ args # <<>>
      /\ fd = 2 /\ fd_arr = One(Opened(Named(Dot), 0)) /\ KernelOK /\ BufferOK /\ disk \in Images
      /\ Read(2, MAX_FILENAME) /\ Goto("entry") /\ MAX_FILENAME \in Nat
  BY CommandsAssumption DEF GrepLists, At, ProgramsInv, GrepInv, TypesInv, KernelOK
<1>2. KernelOK' /\ disk' = disk
  BY <1>1, ReadTyped
<1>3. ReadDirectory
  <2>1. fd_arr[2] = Opened(Named(Dot), 0) /\ 2 \in Fds
    BY <1>1, Descriptors
  <2>2. fd_arr[2].kind = "dir"
    BY <1>1, <2>1, DotIs DEF Opened
  <2> QED
    BY <1>1, <2>1, <2>2 DEF Read, Usable
<1>4. fd_arr' = fd_arr
  BY <1>3 DEF ReadDirectory
<1>5. IF ret' = 0 THEN dir_count' = 0
      ELSE dir_count' > 0 /\ got' = disk'[dir_count'].name /\ ret' = Len(got')
  <2>1. dir_count \in Nat
    BY <1>1, DiskIs DEF KernelOK
  <2>2. CASE dir_count >= Len(disk)
    BY <1>3, <2>2 DEF ReadDirectory, Rewound, Answer
  <2>3. CASE ~(dir_count >= Len(disk))
    <3>1. PICK c : c = dir_count + 1 /\ c > 0
      BY <2>1
    <3>2. dir_count' = c /\ got' = disk[c].name /\ ret' = Len(got')
      BY <1>3, <2>3, <3>1 DEF ReadDirectory, Answer, Give
    <3>3. got' = disk'[dir_count'].name /\ dir_count' > 0
      BY <1>2, <3>1, <3>2
    <3>4. ret' # 0
      <4>1. PICK s \in Text : s = disk[c].name /\ s # <<>>
        <5>1. c \in 1..Len(disk)
          BY <1>1, <2>1, <2>3, <3>1, DiskIs
        <5> QED
          BY <1>1, <5>1, DiskIs
      <4>2. Len(s) # 0
        BY <4>1, EmptySeq DEF Text
      <4> QED
        BY <3>2, <4>1, <4>2
    <3> QED
      BY <3>2, <3>3, <3>4
  <2> QED
    BY <2>2, <2>3
<1>6. GrepInv'
  BY <1>1, <1>2, <1>4, <1>5, DiskStays DEF GrepInv, Goto, shell_vars
<1>7. BufferOK'
  BY <1>1 DEF BufferOK, grep_vars
<1> QED
  BY <1>1, <1>2, <1>6, <1>7, GrepGoes DEF Goto

\* An entry that is not passed over is opened on descriptor 3.
LEMMA GrepEntrySteps == ProgramsInv /\ GrepEntry => ProgramsInv'
<1> SUFFICES ASSUME ProgramsInv, GrepEntry PROVE ProgramsInv'
  OBVIOUS
<1>1. /\ program = "grep" /\ args # <<>>
      /\ UNCHANGED <<fd, file, data, last, line_start, cnt, junk, syserr_vars>>
      /\ fd = 2 /\ fd_arr = One(Opened(Named(Dot), 0)) /\ KernelOK /\ BufferOK /\ disk \in Images
      /\ IF ret = 0 THEN dir_count = 0
         ELSE dir_count > 0 /\ got = disk[dir_count].name /\ ret = Len(got)
  BY DEF GrepEntry, At, ProgramsInv, GrepInv, TypesInv, KernelOK
<1>2. CASE ret = 0
  <2>1. Back(0) /\ UNCHANGED kernel /\ UNCHANGED fname
    BY <1>2 DEF GrepEntry, Returns
  <2>2. shown' = shown
    BY <1>2 DEF GrepEntry
  <2>3. UNCHANGED grep_vars /\ dir_count = 0
    BY <1>1, <1>2, <2>1, <2>2 DEF grep_vars
  <2> QED
    BY <1>1, <2>1, <2>3, GrepEnds DEF Char
<1>3. CASE ret # 0
  <2>1. /\ dir_count \in 1..Len(disk) /\ got = disk[dir_count].name /\ got \in Text
        /\ got # <<>> /\ ret = Len(got) /\ ret > 0 /\ ret # -1
    <3>1. dir_count > 0 /\ got = disk[dir_count].name /\ ret = Len(got) /\ got \in Text
      BY <1>1, <1>3 DEF KernelOK
    <3>2. dir_count \in 1..Len(disk)
      BY <1>1, <3>1, DiskIs DEF KernelOK
    <3>3. ret \in Nat
      BY <3>1, TextLen
    <3> QED
      BY <1>1, <1>3, <3>1, <3>2, <3>3, DiskIs
  <2>2. CASE got[1] = "."
    <3>1. Goto("list") /\ UNCHANGED <<kernel, shell_vars, fname>>
      BY <2>1, <2>2 DEF GrepEntry
    <3>2. disk' = disk /\ fd_arr' = fd_arr
      BY <3>1 DEF kernel
    <3>3. GrepInv'
      BY <1>1, <3>1, <3>2, DiskStays DEF GrepInv, Goto, shell_vars
    <3>4. BufferOK'
      BY <1>1, <3>1 DEF BufferOK
    <3> QED
      BY <1>1, <3>1, <3>3, <3>4, KernelStays, GrepGoes DEF Goto
  <2>3. CASE got[1] # "."
    <3>1. fname' = got /\ Open(got) /\ Goto("file") /\ UNCHANGED shell_vars
      BY <1>3, <2>1, <2>3 DEF GrepEntry
    <3>2. KernelOK' /\ disk' = disk
      BY <1>1, <3>1, OpenTyped
    <3>3. Entries(got) # {} /\ got # Dot
      BY <1>1, <2>1, <2>3, DiskIs DEF Entries, Dot
    <3>4. ret' = 3 /\ fd_arr' = Two(Opened(Named(Dot), 0), Opened(Named(got), 0))
      <4>1. PICK x : x = Opened(Named(Dot), 0) /\ x.kind # "closed" /\ fd_arr = One(x)
        BY <1>1, DotIs DEF Opened
      <4> QED
        BY <2>1, <3>1, <3>3, <4>1, OpenSecond
    <3>5. fd_arr'[3].pos = 0
      BY <3>4, Descriptors DEF Opened
    <3>6. GrepInv'
      BY <1>1, <3>1, <3>2, <3>3, <3>4, <3>5, DiskStays DEF GrepInv, Goto, shell_vars
    <3>7. BufferOK'
      BY <1>1, <2>1, <3>1 DEF BufferOK
    <3> QED
      BY <1>1, <3>1, <3>2, <3>6, <3>7, GrepGoes DEF Goto
  <2> QED
    BY <2>2, <2>3
<1> QED
  BY <1>2, <1>3

\* What grep has open while it reads a file.
LEMMA GrepFile ==
  ASSUME ProgramsInv, program = "grep", pc \in {"file", "fill", "line", "close"}
  PROVE  /\ KernelOK /\ BufferOK /\ disk \in Images /\ BUFSIZE \in Nat /\ args # <<>>
         /\ Entries(fname) # {} /\ fname # Dot /\ fname \in Text /\ fd = 2
         /\ fd_arr[1] = Std /\ 3 \in Fds
         /\ \E n \in Nat :
              /\ fd_arr = Two(Opened(Named(Dot), 0), Opened(Named(fname), n))
              /\ fd_arr[3] = Opened(Named(fname), n)
         /\ disk[Named(fname)].kind \in {"file", "rtc"}
         /\ pc = "file" => ret = 3
         /\ pc \in {"fill", "line", "close"} => file = 3
         /\ pc = "line" => line_start = 0 \/ line_start < last
<1>1. /\ KernelOK /\ BufferOK /\ disk \in Images /\ BUFSIZE \in Nat /\ args # <<>>
      /\ Entries(fname) # {} /\ fname # Dot /\ fname \in Text /\ fd = 2
      /\ fd_arr = Two(Opened(Named(Dot), 0), Opened(Named(fname), fd_arr[3].pos))
      /\ pc = "file" => ret = 3
      /\ pc \in {"fill", "line", "close"} => file = 3
      /\ pc = "line" => line_start = 0 \/ line_start < last
  BY ProgramsAssumption DEF ProgramsInv, GrepInv, TypesInv, KernelOK, BufferOK
<1>2. fd_arr[3].pos \in Nat /\ 3 \in Fds /\ 1 \in Fds
  BY <1>1, Descriptors DEF KernelOK, Table
<1>3. PICK n \in Nat : n = fd_arr[3].pos /\ fd_arr = Two(Opened(Named(Dot), 0), Opened(Named(fname), n))
  BY <1>1, <1>2
<1>4. fd_arr[3] = Opened(Named(fname), n) /\ fd_arr[1] = Std
  BY <1>2, <1>3, Descriptors
<1>5. disk[Named(fname)].kind \in {"file", "rtc"}
  <2>1. Named(fname) \in 1..Len(disk) /\ disk[Named(fname)].name = fname
    BY <1>1, NamedIs
  <2> QED
    BY <1>1, <2>1, DiskIs
<1> QED
  BY <1>1, <1>2, <1>3, <1>4, <1>5

\* The buffer begins empty.
LEMMA FileOpenedSteps == ProgramsInv /\ FileOpened => ProgramsInv'
<1> SUFFICES ASSUME ProgramsInv, FileOpened PROVE ProgramsInv'
  OBVIOUS
<1>1. program = "grep" /\ pc = "file" /\ ret = 3 /\ UNCHANGED <<fd, syserr_vars>>
  BY GrepFile DEF FileOpened, At
<1>2. /\ file' = 3 /\ last' = 0 /\ Goto("fill")
      /\ \E g \in Garbage : data' = [i \in 0..BUFSIZE |-> g]
      /\ UNCHANGED <<kernel, shell_vars, fname, line_start, cnt>>
  BY <1>1 DEF FileOpened
<1>3. BufferOK'
  <2>1. PICK g \in Char : data' = [i \in 0..BUFSIZE |-> g]
    BY <1>2, ProgramsAssumption DEF Char
  <2>2. data' \in [0..BUFSIZE -> Char]
    BY <2>1
  <2>3. BufferOK /\ BUFSIZE \in Nat
    BY <1>1, GrepFile
  <2> QED
    BY <1>2, <2>2, <2>3 DEF BufferOK
<1>4. GrepInv'
  <2>1. disk' = disk /\ fd_arr' = fd_arr
    BY <1>2 DEF kernel
  <2>2. /\ args # <<>> /\ Entries(fname) # {} /\ fname # Dot /\ fd = 2
        /\ \E n \in Nat :
              /\ fd_arr = Two(Opened(Named(Dot), 0), Opened(Named(fname), n))
              /\ fd_arr[3] = Opened(Named(fname), n)
    BY <1>1, GrepFile
  <2>3. PICK n \in Nat : /\ fd_arr' = Two(Opened(Named(Dot), 0), Opened(Named(fname), n))
                         /\ fd_arr'[3].pos = n
    BY <2>1, <2>2 DEF Opened
  <2> QED
    BY <1>1, <1>2, <2>1, <2>2, <2>3, DiskStays DEF GrepInv, Goto, shell_vars
<1>5. KernelOK'
  BY <1>1, <1>2, GrepFile, KernelStays
<1> QED
  BY <1>1, <1>2, <1>3, <1>4, <1>5, GrepGoes DEF Goto

\* A read of the file grep has open: its position is all that changes.
LEMMA FileRead ==
  ASSUME ProgramsInv, program = "grep", pc = "fill", Read(3, Room)
  PROVE  /\ KernelOK' /\ disk' = disk /\ ret' \in 0..Room /\ (ret' > 0 => ret' = Len(got'))
         /\ \E n \in Nat : /\ fd_arr' = Two(Opened(Named(Dot), 0), Opened(Named(fname), n))
                           /\ fd_arr'[3].pos = n
<1>1. /\ KernelOK /\ BUFSIZE \in Nat /\ 3 \in Fds /\ last \in 0..BUFSIZE
      /\ disk[Named(fname)].kind \in {"file", "rtc"}
  BY GrepFile DEF BufferOK
<1>2. PICK n \in Nat : /\ fd_arr = Two(Opened(Named(Dot), 0), Opened(Named(fname), n))
                       /\ fd_arr[3] = Opened(Named(fname), n)
  BY GrepFile
<1>3. Room \in Nat
  BY <1>1 DEF Room
<1>4. fd_arr[3].kind \in {"file", "rtc"} /\ 3 # 1 /\ Usable(3)
  BY <1>1, <1>2 DEF Opened, Usable
<1>5. /\ KernelOK' /\ disk' = disk /\ ret' <= Room /\ ret' >= 0
      /\ (ret' > 0 => ret' = Len(got'))
  BY <1>1, <1>3, <1>4, ReadTyped DEF Usable
<1>6. ret' \in 0..Room
  BY <1>3, <1>5 DEF KernelOK
<1>7. CASE fd_arr[3].kind = "rtc"
  <2>1. fd_arr' = fd_arr
    BY <1>1, <1>3, <1>7, ReadTyped
  <2> QED
    BY <1>2, <1>5, <1>6, <2>1 DEF Opened
<1>8. CASE fd_arr[3].kind = "file"
  <2>1. ReadFile(3, Room)
    BY <1>4, <1>8 DEF Read
  <2>2. ret' = Len(got')
    BY <2>1 DEF ReadFile, Give, Answer
  <2>3. PICK m \in Nat : m = n + Len(got')
    BY <1>6, <2>2
  <2>4. fd_arr' = [fd_arr EXCEPT ![3].pos = m]
    BY <1>2, <2>1, <2>3 DEF ReadFile, Moved, Opened
  <2>5. fd_arr' = Two(Opened(Named(Dot), 0), Opened(Named(fname), m))
    <3>1. [Opened(Named(fname), n) EXCEPT !.pos = m] = Opened(Named(fname), m)
      BY DEF Opened
    <3>2. fd_arr' = [fd_arr EXCEPT ![3] = Opened(Named(fname), m)]
      BY <1>2, <2>4, <3>1
    <3>3. \A x, y, z : [Two(x, y) EXCEPT ![3] = z] = Two(x, z)
      BY <1>1, Descriptors DEF Two, One
    <3> QED
      BY <1>2, <3>2, <3>3
  <2>6. fd_arr'[3].pos = m
    BY <1>1, <2>5, Descriptors DEF Opened
  <2> QED
    BY <1>5, <1>6, <2>5, <2>6
<1> QED
  BY <1>4, <1>7, <1>8

\* A fill stays within the buffer.
LEMMA FileFilledSteps == ProgramsInv /\ FileFilled => ProgramsInv'
<1> SUFFICES ASSUME ProgramsInv, FileFilled PROVE ProgramsInv'
  OBVIOUS
<1>1. /\ program = "grep" /\ pc = "fill" /\ file = 3 /\ Read(3, Room)
      /\ UNCHANGED <<fd, file, fname, junk, syserr_vars>>
  BY GrepFile DEF FileFilled, At
<1>2. /\ KernelOK' /\ disk' = disk /\ ret' \in 0..Room /\ (ret' > 0 => ret' = Len(got'))
      /\ \E n \in Nat : /\ fd_arr' = Two(Opened(Named(Dot), 0), Opened(Named(fname), n))
                        /\ fd_arr'[3].pos = n
  BY <1>1, FileRead
<1>3. /\ KernelOK /\ BufferOK /\ BUFSIZE \in Nat /\ last \in 0..BUFSIZE
      /\ args # <<>> /\ Entries(fname) # {} /\ fname # Dot /\ fd = 2
  BY <1>1, GrepFile DEF BufferOK
<1>4. PICK r \in Nat : ret' = r /\ r # -1 /\ r \in 0..BUFSIZE /\ last + r \in 0..BUFSIZE
  <2>1. BUFSIZE - last \in Nat
    BY <1>3
  <2>2. PICK r \in 0..BUFSIZE - last : ret' = r
    BY <1>2 DEF Room
  <2>3. r \in Nat /\ r # -1 /\ r \in 0..BUFSIZE /\ last + r \in 0..BUFSIZE
    BY <1>3, <2>1, <2>2
  <2> QED
    BY <2>2, <2>3
<1>5. /\ cnt' = ret' /\ last' = last + cnt' /\ line_start' = 0
      /\ data' = [i \in 0..BUFSIZE |->
                    IF i \in last..last' - 1 THEN got'[i - last + 1] ELSE data[i]]
      /\ Goto("line") /\ UNCHANGED shell_vars
  BY <1>4 DEF FileFilled
<1>6. data' \in [0..BUFSIZE -> Char]
  <2>1. ASSUME NEW i \in 0..BUFSIZE, i \in last..last' - 1 PROVE got'[i - last + 1] \in Char
    <3>1. PICK k : k = i - last + 1 /\ k \in 1..ret'
      <4>1. last' = last + r /\ i \in last..(last + r) - 1
        BY <1>4, <1>5, <2>1
      <4>2. i - last + 1 \in 1..r
        BY <1>3, <1>4, <4>1
      <4> QED
        BY <1>4, <4>2
    <3>2. k \in 1..Len(got')
      BY <1>2, <1>4, <3>1
    <3>3. got' \in Seq(Char)
      BY <1>2 DEF KernelOK, Text
    <3> QED
      BY <3>1, <3>2, <3>3, ElementOfSeq
  <2>2. \A i \in 0..BUFSIZE : data[i] \in Char
    BY <1>3 DEF BufferOK
  <2> QED
    BY <1>5, <2>1, <2>2
<1>7. BufferOK'
  <2>1. last' \in 0..BUFSIZE /\ cnt' \in 0..BUFSIZE /\ line_start' \in 0..BUFSIZE + 1
    BY <1>3, <1>4, <1>5
  <2> QED
    BY <1>1, <1>3, <1>6, <2>1 DEF BufferOK
<1>8. GrepInv'
  BY <1>1, <1>2, <1>3, <1>5, DiskStays DEF GrepInv, Goto, shell_vars
<1> QED
  BY <1>1, <1>2, <1>5, <1>7, <1>8, GrepGoes DEF Goto

\* Where the line that begins at line_start ends.
LEMMA LineEnd ==
  ASSUME BUFSIZE \in Nat, last \in 0..BUFSIZE, line_start \in Nat,
         line_start = 0 \/ line_start < last
  PROVE  line_end \in line_start..last
<1> DEFINE S == {i \in line_start..last - 1 : data[i] = Newline}
<1>1. S \subseteq Nat /\ S \subseteq line_start..last
  OBVIOUS
<1>2. S # {} => Min(S) \in S
  <2> HIDE DEF S
  <2> QED
    BY <1>1, MinIn
<1>3. line_end = IF S = {} THEN last ELSE Min(S)
  BY DEF line_end, First
<1>4. last \in line_start..last
  OBVIOUS
<1> HIDE DEF S
<1> QED
  BY <1>1, <1>2, <1>3, <1>4

\* How much of an unfinished line is moved down.
LEMMA LineCopied ==
  ASSUME BUFSIZE \in Nat, last \in 0..BUFSIZE, line_start \in Nat, line_start < last,
         data \in [0..BUFSIZE -> Char]
  PROVE  /\ Terminated \in [0..BUFSIZE -> Char] /\ Copied \in 0..line_end - line_start
         /\ (\A i \in 0..line_end - line_start - 1 : data[line_start + i] # Nul)
              => Copied = line_end - line_start
<1>1. PICK e \in Nat : e = line_end /\ line_start <= e /\ e <= last
  <2>1. line_end \in line_start..last
    BY LineEnd
  <2> QED
    BY <2>1
<1>2. Nul \in Char
  BY DEF Char
<1>3. Terminated = [data EXCEPT ![e] = Nul]
  BY <1>1 DEF Terminated
<1>4. Terminated \in [0..BUFSIZE -> Char]
  BY <1>2, <1>3
<1>5. \A i \in 0..BUFSIZE : Terminated[i] = IF i = e THEN Nul ELSE data[i]
  BY <1>3
<1> DEFINE S == {i \in 0..e - line_start : Terminated[line_start + i] = Nul}
<1>6. e - line_start \in S
  <2>1. e - line_start \in 0..e - line_start /\ line_start + (e - line_start) = e /\ e \in 0..BUFSIZE
    BY <1>1
  <2> QED
    BY <1>5, <2>1
<1>7. S \subseteq Nat /\ S \subseteq 0..e - line_start
  OBVIOUS
<1>8. Copied = Min(S)
  BY <1>1 DEF Copied
<1>9. ASSUME \A i \in 0..e - line_start - 1 : data[line_start + i] # Nul
      PROVE  S = {e - line_start}
  <2> SUFFICES ASSUME NEW i \in 0..e - line_start, i # e - line_start
               PROVE  Terminated[line_start + i] # Nul
    BY <1>6
  <2>1. i \in 0..e - line_start - 1 /\ line_start + i \in 0..BUFSIZE /\ line_start + i # e
    BY <1>1
  <2> QED
    BY <1>5, <1>9, <2>1
<1> HIDE DEF S
<1>10. Copied \in S
  BY <1>6, <1>7, <1>8, MinIn
<1> QED
  BY <1>1, <1>4, <1>7, <1>9, <1>10

\* The unfinished line moves down.
LEMMA LineCutSteps == ProgramsInv /\ LineCut => ProgramsInv'
<1> SUFFICES ASSUME ProgramsInv, LineCut PROVE ProgramsInv'
  OBVIOUS
<1>1. /\ program = "grep" /\ pc = "line" /\ file = 3 /\ line_start # 0
      /\ UNCHANGED <<kernel, shell_vars, fd, file, fname, line_start, cnt, junk, syserr_vars>>
      /\ last' = last - line_start /\ Goto("fill")
  BY GrepFile DEF LineCut, At, Unfinished, Cut
<1>2. /\ KernelOK /\ BufferOK /\ BUFSIZE \in Nat /\ last \in 0..BUFSIZE
      /\ line_start \in Nat /\ line_start < last
      /\ args # <<>> /\ Entries(fname) # {} /\ fname # Dot /\ fd = 2
      /\ \E n \in Nat :
              /\ fd_arr = Two(Opened(Named(Dot), 0), Opened(Named(fname), n))
              /\ fd_arr[3] = Opened(Named(fname), n)
  BY <1>1, GrepFile DEF BufferOK
<1>3. data' = [i \in 0..BUFSIZE |->
                IF i <= Copied THEN Terminated[i + line_start] ELSE Terminated[i]]
  BY DEF LineCut, Copied, Terminated
<1>4. Terminated \in [0..BUFSIZE -> Char] /\ Copied \in 0..line_end - line_start
      /\ line_end \in line_start..last
  BY <1>2, LineCopied, LineEnd DEF BufferOK
<1>5. data' \in [0..BUFSIZE -> Char]
  <2>1. PICK c \in Nat : c = Copied /\ c + line_start <= BUFSIZE
    BY <1>2, <1>4
  <2>2. \A i \in 0..BUFSIZE : i <= c => i + line_start \in 0..BUFSIZE
    BY <1>2, <2>1
  <2> QED
    BY <1>3, <1>4, <2>1, <2>2
<1>6. last - line_start \in 0..BUFSIZE
  BY <1>2
<1>7. BufferOK'
  BY <1>1, <1>2, <1>5, <1>6 DEF BufferOK
<1>8. GrepInv'
  <2>1. disk' = disk /\ fd_arr' = fd_arr
    BY <1>1 DEF kernel
  <2>2. PICK n \in Nat : /\ fd_arr' = Two(Opened(Named(Dot), 0), Opened(Named(fname), n))
                         /\ fd_arr'[3].pos = n
    BY <1>2, <2>1 DEF Opened
  <2> QED
    BY <1>1, <1>2, <2>1, <2>2, DiskStays DEF GrepInv, Goto, shell_vars
<1> QED
  BY <1>1, <1>2, <1>7, <1>8, KernelStays, GrepGoes DEF Goto

\* What grep shows of a line.
LEMMA ShowsText ==
  ASSUME fname \in Text, NEW text \in Text
  PROVE  Shows(text) \in Text
<1>1. <<":">> \in Text /\ <<Newline>> \in Text
  <2>1. PICK c \in Char, k \in Char : c = ":" /\ k = Newline
    BY DEF Char
  <2>2. <<c>> \in Text /\ <<k>> \in Text
    BY MessageText
  <2> QED
    BY <2>1, <2>2
<1>2. CString(fname) \in Text /\ CString(text) \in Text
  BY StringText
<1>3. PICK p \in Seq(Char), q \in Seq(Char), r \in Seq(Char), s \in Seq(Char) :
        p = CString(fname) /\ q = <<":">> /\ r = CString(text) /\ s = <<Newline>>
  BY <1>1, <1>2 DEF Text
<1>4. p \o q \in Seq(Char)
  BY ConcatProperties
<1>5. (p \o q) \o r \in Seq(Char)
  BY <1>4, ConcatProperties
<1>6. ((p \o q) \o r) \o s \in Seq(Char)
  BY <1>5, ConcatProperties
<1>7. CString(fname) \o <<":">> \o CString(text) \o <<Newline>> \in Text
  BY <1>3, <1>6 DEF Text
<1> QED
  BY <1>7, NoText DEF Shows

\* The line grep is at is a text.
LEMMA LineTextTyped ==
  ASSUME BufferOK, BUFSIZE \in Nat, line_start = 0 \/ line_start < last PROVE LineText \in Text
<1>1. last \in 0..BUFSIZE /\ line_start \in Nat /\ data \in [0..BUFSIZE -> Char]
  BY DEF BufferOK
<1>2. PICK e \in Nat : e = line_end /\ line_start <= e /\ e <= last
  <2>1. line_end \in line_start..last
    BY <1>1, LineEnd
  <2> QED
    BY <1>1, <2>1
<1>3. \A i \in 1..e - line_start : line_start + i - 1 \in 0..BUFSIZE
  BY <1>1, <1>2
<1>4. \A i \in 1..e - line_start : data[line_start + i - 1] \in Char
  BY <1>1, <1>3
<1>5. e - line_start \in Nat
  BY <1>1, <1>2
<1>6. LineText = [i \in 1..e - line_start |-> data[line_start + i - 1]]
  BY <1>2 DEF LineText
<1> QED
  BY <1>4, <1>5, <1>6 DEF Text

\* The next line begins within the buffer or just behind it.
LEMMA LineSearchedSteps == ProgramsInv /\ LineSearched => ProgramsInv'
<1> SUFFICES ASSUME ProgramsInv, LineSearched PROVE ProgramsInv'
  OBVIOUS
<1>1. /\ program = "grep" /\ pc = "line" /\ file = 3
      /\ UNCHANGED <<shell_vars, fd, file, fname, cnt, junk, syserr_vars>>
  BY GrepFile DEF LineSearched, At
<1>2. /\ KernelOK /\ BufferOK /\ BUFSIZE \in Nat /\ last \in 0..BUFSIZE
      /\ line_start \in Nat /\ (line_start = 0 \/ line_start < last)
      /\ args # <<>> /\ Entries(fname) # {} /\ fname # Dot /\ fname \in Text /\ fd = 2
      /\ data \in [0..BUFSIZE -> Char] /\ fd_arr[1] = Std
      /\ \E n \in Nat :
              /\ fd_arr = Two(Opened(Named(Dot), 0), Opened(Named(fname), n))
              /\ fd_arr[3] = Opened(Named(fname), n)
  BY <1>1, GrepFile DEF BufferOK
<1>3. PICK e \in Nat : e = line_end /\ line_start <= e /\ e <= last
  <2>1. line_end \in line_start..last
    BY <1>2, LineEnd
  <2> QED
    BY <1>2, <2>1
<1>4. LineText \in Text
  BY <1>2, LineTextTyped
<1>5. Write(1, Shows(LineText)) \/ UNCHANGED kernel
  BY DEF LineSearched, LineText
<1>6. Shows(LineText) \in Text
  BY <1>2, <1>4, ShowsText
<1>7. KernelOK' /\ disk' = disk /\ fd_arr' = fd_arr
  BY <1>2, <1>5, <1>6, KernelStays, WriteTyped DEF kernel
<1>8. /\ data' = [data EXCEPT ![e] = Nul] /\ line_start' = e + 1
      /\ \/ e + 1 >= last /\ last' = 0 /\ program' = program /\ pc' \in {"close", "fill"}
         \/ e + 1 < last /\ last' = last /\ program' = program /\ pc' = "line"
  <2>1. data' = [data EXCEPT ![e] = Nul] /\ line_start' = e + 1
    BY <1>3 DEF LineSearched
  <2>2. CASE e + 1 >= last
    BY <2>1, <2>2 DEF LineSearched, Goto
  <2>3. CASE ~(e + 1 >= last)
    <3>1. UNCHANGED <<last, program, pc>>
      BY <2>1, <2>3 DEF LineSearched
    <3> QED
      BY <1>1, <1>2, <1>3, <2>1, <2>3, <3>1
  <2> QED
    BY <2>2, <2>3
<1>9. BufferOK'
  <2>1. data' \in [0..BUFSIZE -> Char]
    <3>1. Nul \in Char
      BY DEF Char
    <3> QED
      BY <1>2, <1>8, <3>1
  <2>2. last' \in 0..BUFSIZE /\ line_start' \in 0..BUFSIZE + 1
    <3>1. e + 1 \in 0..BUFSIZE + 1
      BY <1>2, <1>3
    <3> QED
      BY <1>2, <1>8, <3>1
  <2> QED
    BY <1>1, <1>2, <2>1, <2>2 DEF BufferOK
<1>10. GrepInv'
  <2>1. PICK n \in Nat : /\ fd_arr' = Two(Opened(Named(Dot), 0), Opened(Named(fname), n))
                         /\ fd_arr'[3].pos = n
    BY <1>2, <1>7 DEF Opened
  <2>2. pc' = "line" => line_start' < last'
    BY <1>8
  <2>3. UNCHANGED <<fd, file, fname, args>> /\ program' = "grep" /\ pc' \in {"close", "fill", "line"}
    BY <1>1, <1>8 DEF shell_vars
  <2> QED
    BY <1>1, <1>2, <1>7, <2>1, <2>2, <2>3, DiskStays DEF GrepInv
<1> QED
  BY <1>1, <1>7, <1>8, <1>9, <1>10, GrepGoes

\* Descriptor 3 is free again for the next file.
LEMMA FileClosedSteps == ProgramsInv /\ FileClosed => ProgramsInv'
<1> SUFFICES ASSUME ProgramsInv, FileClosed PROVE ProgramsInv'
  OBVIOUS
<1>1. /\ program = "grep" /\ pc = "close" /\ file = 3 /\ Close(3)
      /\ UNCHANGED <<fd, grep_vars, syserr_vars>>
  BY GrepFile DEF FileClosed, At
<1>2. KernelOK /\ BufferOK /\ args # <<>> /\ fd = 2 /\ 3 \in Fds /\ disk \in Images
  BY <1>1, GrepFile
<1>3. PICK n \in Nat : /\ fd_arr = Two(Opened(Named(Dot), 0), Opened(Named(fname), n))
                       /\ fd_arr[3] = Opened(Named(fname), n)
  BY <1>1, GrepFile
<1>4. KernelOK' /\ disk' = disk
  BY <1>1, <1>2, CloseTyped
<1>5. fd_arr' = [fd_arr EXCEPT ![3] = Closed] /\ ret' = 0
  <2>1. fd_arr[3].kind # "closed"
    <3>1. disk[Named(fname)].kind \in {"file", "rtc"}
      BY <1>1, GrepFile
    <3> QED
      BY <1>3, <3>1 DEF Opened
  <2>2. 3 \in 2..LastFd /\ Usable(3)
    BY <1>2, <2>1, Descriptors DEF Usable
  <2> QED
    BY <1>1, <2>2 DEF Close, Answer
<1>6. fd_arr' = One(Opened(Named(Dot), 0))
  <2>1. \A x, y : [Two(x, y) EXCEPT ![3] = Closed] = One(x)
    <3> SUFFICES ASSUME NEW x, NEW y PROVE [Two(x, y) EXCEPT ![3] = Closed] = One(x)
      OBVIOUS
    <3>1. One(x)[3] = Closed
      BY <1>2, Descriptors
    <3>2. Two(x, y) = [One(x) EXCEPT ![3] = y] /\ DOMAIN One(x) = Fds
      BY Descriptors DEF Two, One
    <3>3. One(x) = [d \in Fds |-> One(x)[d]]
      BY Descriptors DEF One
    <3> HIDE DEF One
    <3> QED
      BY <1>2, <3>1, <3>2, <3>3
  <2> QED
    BY <1>3, <1>5, <2>1
<1>7. Goto("list") /\ UNCHANGED shell_vars
  BY <1>1, <1>5 DEF FileClosed
<1>8. GrepInv'
  BY <1>1, <1>2, <1>4, <1>6, <1>7, DiskStays DEF GrepInv, Goto, shell_vars
<1>9. BufferOK'
  BY <1>1, <1>2 DEF BufferOK, grep_vars
<1> QED
  BY <1>1, <1>4, <1>7, <1>8, <1>9, GrepGoes DEF Goto
-----------------------------------------------------------------------------
\* Two lists of calls, one behind the other.
LEMMA Joined ==
  ASSUME NEW m \in Nat, NEW n \in Nat, NEW a, NEW b, NEW c, c = a \o b,
         a = [i \in 1..m |-> a[i]], b = [i \in 1..n |-> b[i]]
  PROVE  /\ c = [i \in 1..m + n |-> c[i]]
         /\ Len(c) = m + n
         /\ \A i \in 1..m : c[i] = a[i]
         /\ \A i \in 1..n : c[i + m] = b[i]
<1> DEFINE S == {a[i] : i \in 1..m} \cup {b[i] : i \in 1..n}
<1>1. a \in Seq(S) /\ Len(a) = m
  <2>1. \A i \in 1..m : a[i] \in S
    OBVIOUS
  <2> HIDE DEF S
  <2>2. a \in [1..m -> S]
    BY <2>1
  <2>3. a \in Seq(S)
    <3>1. Seq(S) = UNION {[1..i -> S] : i \in Nat}
      BY SeqDef
    <3>2. [1..m -> S] \in {[1..i -> S] : i \in Nat}
      OBVIOUS
    <3> QED
      BY <2>2, <3>1, <3>2, Zenon
  <2>4. DOMAIN a = 1..m /\ DOMAIN a = 1..Len(a) /\ Len(a) \in Nat
    BY <2>2, <2>3, LenProperties
  <2>5. Len(a) = m
    BY <2>4
  <2> QED
    BY <2>3, <2>5
<1>2. b \in Seq(S) /\ Len(b) = n
  <2>1. \A i \in 1..n : b[i] \in S
    OBVIOUS
  <2> HIDE DEF S
  <2>2. b \in [1..n -> S]
    BY <2>1
  <2>3. b \in Seq(S)
    <3>1. Seq(S) = UNION {[1..i -> S] : i \in Nat}
      BY SeqDef
    <3>2. [1..n -> S] \in {[1..i -> S] : i \in Nat}
      OBVIOUS
    <3> QED
      BY <2>2, <3>1, <3>2, Zenon
  <2>4. DOMAIN b = 1..n /\ DOMAIN b = 1..Len(b) /\ Len(b) \in Nat
    BY <2>2, <2>3, LenProperties
  <2>5. Len(a) = m
    BY <2>4
  <2> QED
    BY <2>3, <2>5
<1> HIDE DEF S
<1>3. /\ a \o b \in Seq(S) /\ Len(a \o b) = m + n
      /\ \A i \in 1..m + n : (a \o b)[i] = IF i <= m THEN a[i] ELSE b[i - m]
  BY <1>1, <1>2, ConcatProperties
<1>4. /\ c \in Seq(S) /\ Len(c) = m + n
      /\ \A i \in 1..m + n : c[i] = IF i <= m THEN a[i] ELSE b[i - m]
  BY <1>3
<1>5. c \in [1..m + n -> S]
  BY <1>4, LenProperties
<1>6. ASSUME NEW i \in 1..n PROVE c[i + m] = b[i]
  <2>1. i + m \in 1..m + n /\ ~(i + m <= m) /\ (i + m) - m = i
    OBVIOUS
  <2> QED
    BY <1>4, <2>1
<1>7. ASSUME NEW i \in 1..m PROVE c[i] = a[i]
  <2>1. i \in 1..m + n /\ i <= m
    OBVIOUS
  <2> QED
    BY <1>4, <2>1
<1> QED
  BY <1>4, <1>5, <1>6, <1>7

\* The tests of ece391syserr.c, call by call.
LEMMA ScriptsAre ==
  /\ Scripts[1] = OnFd(NEG_NUM) /\ Scripts[2] = OnFd(BIG_NUM)
  /\ Len(Scripts[3]) = 13
  /\ \A s \in 1..7  : Scripts[3][s] = <<"open", Dot>>
  /\ \A s \in 8..13 : Scripts[3][s] = <<"close", s - 6>>
  /\ Scripts[4] = << <<"open", <<"h", "e", "l", "l", "o", "o">> >>,
                     <<"open", <<"s", "h", "e", "l">> >>, <<"open", <<>> >> >>
  /\ Len(Scripts[5]) = 20
  /\ \A s \in 1..8   : Scripts[5][s] = <<"close", s - 1>>
  /\ \A s \in 9..14  : Scripts[5][s] = <<"read", s - 7>>
  /\ \A s \in 15..20 : Scripts[5][s] = <<"write", s - 13>>
  /\ \E v \in Nat : v < USER_TOP /\ Scripts[6] = << <<"vidmap", 0>>, <<"vidmap", v>> >>
  /\ Scripts[7] = << <<"write", 0>>, <<"read", 1>> >>
  /\ Scripts[8] = << <<"number", BIG_NUM>>, <<"number", NEG_NUM>>, <<"number", 0>> >>
<1> DEFINE A == [i \in 1..7 |-> <<"open", Dot>>]
           B == [i \in 1..6 |-> <<"close", i + 1>>]
           C == [i \in 1..8 |-> <<"close", i - 1>>]
           D == [i \in 1..6 |-> <<"read", i + 1>>]
           E == [i \in 1..6 |-> <<"write", i + 1>>]
<1>1. Scripts[3] = A \o B /\ Scripts[5] = (C \o D) \o E
  BY SMT DEF Scripts
<1>2. /\ A = [i \in 1..7 |-> A[i]] /\ B = [i \in 1..6 |-> B[i]] /\ C = [i \in 1..8 |-> C[i]]
      /\ D = [i \in 1..6 |-> D[i]] /\ E = [i \in 1..6 |-> E[i]]
  OBVIOUS
<1>3. /\ \A i \in 1..7 : A[i] = <<"open", Dot>>
      /\ \A i \in 1..6 : B[i] = <<"close", i + 1>>
      /\ \A i \in 1..8 : C[i] = <<"close", i - 1>>
      /\ \A i \in 1..6 : D[i] = <<"read", i + 1>> /\ E[i] = <<"write", i + 1>>
  OBVIOUS
<1> HIDE DEF A, B, C, D, E
<1>4. PICK X, Y, Z : X = A \o B /\ Y = C \o D /\ Z = Y \o E
  OBVIOUS
<1>5. PICK m, n, k, p \in Nat : m = 7 /\ n = 6 /\ k = 8 /\ p = 14
  OBVIOUS
<1>6. Len(X) = 13 /\ \A s \in 1..13 : X[s] = IF s <= 7 THEN <<"open", Dot>> ELSE <<"close", s - 6>>
  <2>1. Len(X) = m + n /\ (\A i \in 1..m : X[i] = A[i]) /\ (\A i \in 1..n : X[i + m] = B[i])
    BY <1>2, <1>4, <1>5, Joined
  <2>2. ASSUME NEW s \in 1..13, s > 7 PROVE X[s] = <<"close", s - 6>>
    <3>1. PICK i \in 1..6 : s = i + 7
      <4>1. s - 7 \in 1..6 /\ s = (s - 7) + 7
        BY <2>2
      <4> QED
        BY <4>1
    <3>2. X[s] = B[i] /\ i + 1 = s - 6
      BY <1>5, <2>1, <3>1
    <3> QED
      BY <1>3, <3>2
  <2> QED
    BY <1>3, <1>5, <2>1, <2>2
<1>7. /\ Y = [i \in 1..p |-> Y[i]]
      /\ \A s \in 1..14 : Y[s] = IF s <= 8 THEN <<"close", s - 1>> ELSE <<"read", s - 7>>
  <2>1. /\ Y = [i \in 1..k + n |-> Y[i]]
        /\ (\A i \in 1..k : Y[i] = C[i]) /\ (\A i \in 1..n : Y[i + k] = D[i])
    BY <1>2, <1>4, <1>5, Joined
  <2>2. k + n = p
    BY <1>5
  <2>3. ASSUME NEW s \in 1..14, s > 8 PROVE Y[s] = <<"read", s - 7>>
    <3>1. PICK i \in 1..6 : s = i + 8
      <4>1. s - 8 \in 1..6 /\ s = (s - 8) + 8
        BY <2>3
      <4> QED
        BY <4>1
    <3>2. Y[s] = D[i] /\ i + 1 = s - 7
      BY <1>5, <2>1, <3>1
    <3> QED
      BY <1>3, <3>2
  <2>4. ASSUME NEW s \in 1..14, s <= 8 PROVE Y[s] = <<"close", s - 1>>
    BY <1>3, <1>5, <2>1, <2>4
  <2>5. \A s \in 1..14 : s > 8 \/ s <= 8
    OBVIOUS
  <2>6. ASSUME NEW s \in 1..14 PROVE Y[s] = IF s <= 8 THEN <<"close", s - 1>> ELSE <<"read", s - 7>>
    <3>1. CASE s <= 8
      BY <2>4, <3>1
    <3>2. CASE ~(s <= 8)
      BY <2>3, <2>5, <3>2
    <3> QED
      BY <3>1, <3>2
  <2> QED
    BY <2>1, <2>2, <2>6
<1>8. /\ Len(Z) = 20
      /\ \A s \in 1..20 : Z[s] = IF s <= 8 THEN <<"close", s - 1>>
                                 ELSE IF s <= 14 THEN <<"read", s - 7>>
                                 ELSE <<"write", s - 13>>
  <2>1. Len(Z) = p + n /\ (\A i \in 1..p : Z[i] = Y[i]) /\ (\A i \in 1..n : Z[i + p] = E[i])
    BY <1>2, <1>4, <1>5, <1>7, Joined
  <2>2. ASSUME NEW s \in 1..20, s > 14 PROVE Z[s] = <<"write", s - 13>>
    <3>1. PICK i \in 1..6 : s = i + 14
      <4>1. s - 14 \in 1..6 /\ s = (s - 14) + 14
        BY <2>2
      <4> QED
        BY <4>1
    <3>2. Z[s] = E[i] /\ i + 1 = s - 13
      BY <1>5, <2>1, <3>1
    <3> QED
      BY <1>3, <3>2
  <2>3. ASSUME NEW s \in 1..20, s <= 14 PROVE Z[s] = Y[s] /\ s \in 1..14
    BY <1>5, <2>1, <2>3
  <2>4. Len(Z) = 20
    BY <1>5, <2>1
  <2>5. ASSUME NEW s \in 1..20
        PROVE  Z[s] = IF s <= 8 THEN <<"close", s - 1>>
                      ELSE IF s <= 14 THEN <<"read", s - 7>> ELSE <<"write", s - 13>>
    <3>1. CASE s <= 8
      <4>1. Z[s] = Y[s] /\ s \in 1..14
        BY <2>3, <3>1
      <4> QED
        BY <1>7, <3>1, <4>1
    <3>2. CASE ~(s <= 8) /\ s <= 14
      <4>1. Z[s] = Y[s] /\ s \in 1..14
        BY <2>3, <3>2
      <4> QED
        BY <1>7, <3>2, <4>1
    <3>3. CASE ~(s <= 8) /\ ~(s <= 14)
      <4>1. s > 14
        BY <3>3
      <4> QED
        BY <2>2, <3>3, <4>1
    <3> QED
      BY <3>1, <3>2, <3>3
  <2> QED
    BY <2>4, <2>5
<1>9. Scripts[3] = X /\ Scripts[5] = Z
  BY SMT, <1>1, <1>4
<1>11. /\ 4194304 \in Nat /\ 4194304 < USER_TOP
       /\ Scripts[6] = << <<"vidmap", 0>>, <<"vidmap", 4194304>> >>
  BY SMT DEF Scripts, USER_TOP
<1>10. /\ Scripts[1] = OnFd(NEG_NUM) /\ Scripts[2] = OnFd(BIG_NUM)
       /\ Scripts[4] = << <<"open", <<"h", "e", "l", "l", "o", "o">> >>,
                     <<"open", <<"s", "h", "e", "l">> >>, <<"open", <<>> >> >>
       /\ \E v \in Nat : v < USER_TOP /\ Scripts[6] = << <<"vidmap", 0>>, <<"vidmap", v>> >>
       /\ Scripts[7] = << <<"write", 0>>, <<"read", 1>> >>
       /\ Scripts[8] = << <<"number", BIG_NUM>>, <<"number", NEG_NUM>>, <<"number", 0>> >>
  BY SMT, <1>11 DEF Scripts
<1>12. /\ \A s \in 1..7  : X[s] = <<"open", Dot>>
       /\ \A s \in 8..13 : X[s] = <<"close", s - 6>>
  BY <1>6
<1>13. /\ \A s \in 1..8   : Z[s] = <<"close", s - 1>>
       /\ \A s \in 9..14  : Z[s] = <<"read", s - 7>>
       /\ \A s \in 15..20 : Z[s] = <<"write", s - 13>>
  BY <1>8
<1> QED
  BY SMT, <1>6, <1>8, <1>9, <1>10, <1>12, <1>13

\* Every test has an end.
LEMMA ScriptLengths == \A t \in 1..8 : Len(Scripts[t]) \in Nat
<1>1. Len(Scripts[1]) = 3 /\ Len(Scripts[2]) = 3
  BY ScriptsAre DEF OnFd
<1>2. Len(Scripts[4]) = 3 /\ Len(Scripts[6]) = 2 /\ Len(Scripts[7]) = 2 /\ Len(Scripts[8]) = 3
  BY ScriptsAre
<1>3. \A t \in 1..8 : t \in {1, 2, 3, 4, 5, 6, 7, 8}
  OBVIOUS
<1> QED
  BY <1>1, <1>2, <1>3, ScriptsAre

\* A step of syserr that says something and ends, or just ends.
LEMMA SyserrReturns ==
  ASSUME ProgramsInv, program = "syserr", NEW m \in Char, NEW value \in 0..16,
         Back(value), Say(<<m>>) \/ UNCHANGED kernel,
         UNCHANGED <<fd, grep_vars, syserr_vars>>
  PROVE  ProgramsInv'
<1> USE DEF ProgramsInv
<1>1. KernelOK' /\ dir_count' = 0
  BY KernelStays, SayTyped DEF TypesInv, kernel, SyserrInv
<1>2. program' = "shell" /\ pc' = "answer" /\ status' = value /\ resident' = resident
  BY DEF Back
<1>3. ShellOK' /\ BufferOK' /\ TestsOK'
  BY <1>2 DEF TypesInv, ShellOK, Tasks, BufferOK, TestsOK, grep_vars, syserr_vars
<1>4. ShellInv' /\ RunningInv' /\ ListerInv' /\ GrepInv' /\ SyserrInv'
  BY <1>1, <1>2 DEF ShellInv, RunningInv, ListerInv, Listers, GrepInv, SyserrInv
<1>5. ShowsFiles'
  <2>1. resident' = "syserr"
    BY <1>2 DEF RunningInv
  <2> QED
    BY <2>1, NotEnded DEF Listers
<1> QED
  BY <1>1, <1>3, <1>4, <1>5 DEF TypesInv

\* A step of syserr after which it goes on.
LEMMA SyserrGoes ==
  ASSUME ProgramsInv, program = "syserr", KernelOK', TestsOK', program' = program,
         pc' # "begin", UNCHANGED <<shell_vars, grep_vars>>, SyserrInv'
  PROVE  ProgramsInv'
<1> USE DEF ProgramsInv
<1>1. ShellOK' /\ BufferOK'
  BY DEF TypesInv, ShellOK, BufferOK, shell_vars, grep_vars
<1>2. ShellInv' /\ RunningInv' /\ ListerInv' /\ GrepInv'
  BY DEF ShellInv, RunningInv, Listers, ListerInv, GrepInv, shell_vars
<1>3. ShowsFiles'
  <2>1. resident' = "syserr"
    BY DEF RunningInv, shell_vars
  <2> QED
    BY <2>1, NotEnded DEF Listers
<1> QED
  BY <1>1, <1>2, <1>3 DEF TypesInv

\* The steps of syserr keep the invariant.
LEMMA SyserrAsksSteps == ProgramsInv /\ SyserrAsks => ProgramsInv'
<1> SUFFICES ASSUME ProgramsInv, SyserrAsks PROVE ProgramsInv'
  OBVIOUS
<1>1. /\ program = "syserr" /\ Say(<<"Choose from tests">>) /\ Goto("ask")
      /\ UNCHANGED <<shell_vars, fd, grep_vars, syserr_vars>>
      /\ fd_arr = Started /\ dir_count = 0 /\ KernelOK /\ TestsOK
  BY DEF SyserrAsks, At, ProgramsInv, RunningInv, TypesInv
<1>2. PICK m \in Char : m = "Choose from tests"
  BY DEF Char
<1>3. KernelOK' /\ UNCHANGED <<fd_arr, dir_count>>
  BY <1>1, <1>2, SayTyped
<1>4. SyserrInv'
  BY <1>1, <1>3 DEF SyserrInv, Goto, Started, Fds
<1>5. TestsOK'
  BY <1>1 DEF TestsOK, syserr_vars
<1> QED
  BY <1>1, <1>3, <1>4, <1>5, SyserrGoes DEF Goto

\* The answer to its question changes no descriptor.
LEMMA SyserrReadsSteps == ProgramsInv /\ SyserrReads => ProgramsInv'
<1> SUFFICES ASSUME ProgramsInv, SyserrReads PROVE ProgramsInv'
  OBVIOUS
<1>1. /\ program = "syserr" /\ Read(0, 127) /\ Goto("choose")
      /\ UNCHANGED <<shell_vars, fd, grep_vars, syserr_vars>>
      /\ fd_arr = Started /\ dir_count = 0 /\ KernelOK /\ TestsOK
  BY DEF SyserrReads, At, ProgramsInv, SyserrInv, TypesInv
<1>2. fd_arr[0] = Std
  BY <1>1, Descriptors
<1>3. KernelOK' /\ UNCHANGED <<fd_arr, dir_count>>
  <2>1. PICK n \in Nat : n = 127
    OBVIOUS
  <2> QED
    BY <1>1, <1>2, <2>1, ReadTyped DEF Std
<1>4. SyserrInv'
  BY <1>1, <1>3 DEF SyserrInv, Goto, Started, Fds
<1>5. TestsOK'
  BY <1>1 DEF TestsOK, syserr_vars
<1> QED
  BY <1>1, <1>3, <1>4, <1>5, SyserrGoes DEF Goto

\* Where a test begins.
LEMMA TestBegins ==
  ASSUME dir_count' = 0, program' = "syserr", pc' = "test", step' = 1, fail' = 0,
         test' \in 1..8, upto' \in test'..8, total' \in 0..2 * (test' - 1)
  PROVE  SyserrInv' /\ TestsOK'
<1>1. 1 \in 1..Len(Scripts[test']) + 1
  <2>1. Len(Scripts[test']) \in Nat
    BY ScriptLengths
  <2> QED
    BY <2>1
<1>2. fail' \in 0..step' - 1 /\ fail' \in 0..step' /\ total' \in 0..16
  <2>1. PICK t \in 1..8 : t = test'
    OBVIOUS
  <2>2. 0..2 * (t - 1) \subseteq 0..16
    <3>1. 2 * (t - 1) <= 16
      OBVIOUS
    <3> QED
      BY <3>1
  <2>3. total' \in 0..2 * (t - 1)
    BY <2>1
  <2>4. fail' \in 0..step' - 1 /\ fail' \in 0..step'
    OBVIOUS
  <2> QED
    BY <2>2, <2>3, <2>4
<1>3. \A d \in 2..7 : ~(d + 1 < step')
  OBVIOUS
<1> QED
  <2>1. TestsOK'
    <3>1. test' \in 0..8 /\ upto' \in test'..8 /\ test' # 0
      OBVIOUS
    <3> QED
      BY <1>1, <1>2, <3>1 DEF TestsOK
  <2>2. SyserrInv'
    BY <1>1, <1>2, <1>3 DEF SyserrInv
  <2> QED
    BY <2>1, <2>2

\* One test or all of them begin.
LEMMA SyserrChoosesSteps == ProgramsInv /\ SyserrChooses => ProgramsInv'
<1> SUFFICES ASSUME ProgramsInv, SyserrChooses PROVE ProgramsInv'
  OBVIOUS
<1>1. program = "syserr" /\ dir_count = 0 /\ KernelOK /\ UNCHANGED <<fd, grep_vars>>
  BY DEF SyserrChooses, At, ProgramsInv, SyserrInv, TypesInv
<1>2. "Can't read test #" \in Char /\ "Invalid test number" \in Char
  BY DEF Char
<1>3. CASE ret = -1
  <2>1. PICK m \in Char, v \in 0..16 : Say(<<m>>) /\ Back(v) /\ UNCHANGED syserr_vars
    <3>1. Say(<<"Can't read test #">>) /\ Back(2) /\ UNCHANGED syserr_vars
      BY <1>3 DEF SyserrChooses, SayAndReturn
    <3>2. PICK m \in Char : m = "Can't read test #"
      BY <1>2
    <3>5. PICK v \in 0..16 : v = 2
      OBVIOUS
    <3>3. Say(<<m>>)
      BY <3>1, <3>2
    <3>4. Back(v) /\ UNCHANGED syserr_vars
      BY <3>1, <3>5
    <3> QED
      BY <3>3, <3>4
  <2> QED
    BY <1>1, <2>1, SyserrReturns
<1>4. CASE ret # -1 /\ \A i \in DOMAIN Digits : got[1] # Digits[i]
  <2>1. PICK m \in Char, v \in 0..16 : Say(<<m>>) /\ Back(v) /\ UNCHANGED syserr_vars
    <3>1. Say(<<"Invalid test number">>) /\ Back(0) /\ UNCHANGED syserr_vars
      BY <1>4 DEF SyserrChooses, SayAndReturn
    <3>2. PICK m \in Char : m = "Invalid test number"
      BY <1>2
    <3>5. PICK v \in 0..16 : v = 0
      OBVIOUS
    <3>3. Say(<<m>>)
      BY <3>1, <3>2
    <3>4. Back(v) /\ UNCHANGED syserr_vars
      BY <3>1, <3>5
    <3> QED
      BY <3>3, <3>4
  <2> QED
    BY <1>1, <2>1, SyserrReturns
<1>5. CASE ret # -1 /\ ~(\A i \in DOMAIN Digits : got[1] # Digits[i])
  <2>1. /\ \E select \in 0..8 : /\ test' = IF select = 0 THEN 1 ELSE select
                                /\ upto' = IF select = 0 THEN 8 ELSE select
        /\ step' = 1 /\ fail' = 0 /\ total' = 0
        /\ Goto("test") /\ UNCHANGED <<kernel, shell_vars>>
    BY <1>5 DEF SyserrChooses
  <2>2. test' \in 1..8 /\ upto' \in test'..8 /\ total' \in 0..2 * (test' - 1)
    BY <2>1
  <2>3. dir_count' = 0
    BY <1>1, <2>1 DEF kernel
  <2>4. program' = "syserr" /\ pc' = "test"
    BY <1>1, <2>1 DEF Goto
  <2> QED
    BY <1>1, <2>1, <2>2, <2>3, <2>4, TestBegins, KernelStays, SyserrGoes
<1> QED
  BY <1>3, <1>4, <1>5

\* The calls of the tests: a read is of no open descriptor, and err_unopened closes
\* before it reads.
LEMMA CallsMade ==
  ASSUME NEW t \in 1..8, NEW s \in 1..Len(Scripts[t])
  PROVE  /\ Len(Scripts[t]) \in 2..20
         /\ Scripts[t][s][1] \in {"read", "write", "close", "open", "vidmap", "number"}
         /\ Scripts[t][s][1] = "read" =>
              Scripts[t][s][2] \in {NEG_NUM, BIG_NUM, 1} \/ (t = 5 /\ s > 8 /\ Scripts[t][s][2] \in 2..7)
         /\ t = 5 /\ s <= 8 => Scripts[t][s] = <<"close", s - 1>>
         /\ t = 5 /\ s > 8  => Scripts[t][s][1] \in {"read", "write"} /\ Scripts[t][s][2] \in 2..7
<1>1. CASE t = 1 \/ t = 2
  <2>1. PICK n : n \in {NEG_NUM, BIG_NUM} /\ Scripts[t] = << <<"read", n>>, <<"write", n>>, <<"close", n>> >>
    BY <1>1, ScriptsAre DEF OnFd
  <2>2. Len(Scripts[t]) = 3 /\ s \in {1, 2, 3}
    BY <2>1
  <2> QED
    BY <1>1, <2>1, <2>2
<1>2. CASE t = 3
  <2>1. Len(Scripts[3]) = 13 /\ s \in 1..13
    BY <1>2, ScriptsAre
  <2>2. Scripts[3][s][1] = "open" \/ Scripts[3][s][1] = "close"
    <3>1. CASE s \in 1..7
      <4>1. Scripts[3][s] = <<"open", Dot>>
        BY <3>1, ScriptsAre
      <4> QED
        BY <4>1
    <3>2. CASE s \in 8..13
      <4>1. Scripts[3][s] = <<"close", s - 6>>
        BY <3>2, ScriptsAre
      <4> QED
        BY <4>1
    <3> QED
      BY <2>1, <3>1, <3>2
  <2> QED
    BY <1>2, <2>1, <2>2
<1>3. CASE t = 4
  <2>1. Len(Scripts[4]) = 3 /\ \A k \in {1, 2, 3} : Scripts[4][k][1] = "open"
    BY ScriptsAre
  <2>2. s \in {1, 2, 3}
    BY <1>3, <2>1
  <2> QED
    BY <1>3, <2>1, <2>2
<1>4. CASE t = 5
  <2>1. s \in 1..20 /\ Len(Scripts[5]) = 20
    BY <1>4, ScriptsAre
  <2>2. CASE s <= 8
    <3>1. s \in 1..8
      BY <2>1, <2>2
    <3>2. Scripts[5][s] = <<"close", s - 1>>
      BY <3>1, ScriptsAre
    <3> QED
      BY <1>4, <2>1, <2>2, <3>2
  <2>3. CASE s > 8 /\ s <= 14
    <3>1. Scripts[5][s] = <<"read", s - 7>>
      <4>1. s \in 9..14
        BY <2>1, <2>3
      <4> QED
        BY <4>1, ScriptsAre
    <3>2. s - 7 \in 2..7
      BY <2>1, <2>3
    <3> QED
      BY <1>4, <2>1, <2>3, <3>1, <3>2
  <2>4. CASE s > 14
    <3>1. Scripts[5][s] = <<"write", s - 13>>
      <4>1. s \in 15..20
        BY <2>1, <2>4
      <4> QED
        BY <4>1, ScriptsAre
    <3>2. s - 13 \in 2..7
      BY <2>1, <2>4
    <3> QED
      BY <1>4, <2>1, <2>4, <3>1, <3>2
  <2> QED
    BY <2>1, <2>2, <2>3, <2>4
<1>5. CASE t = 6
  <2>1. Len(Scripts[6]) = 2 /\ \A k \in {1, 2} : Scripts[6][k][1] = "vidmap"
    BY ScriptsAre
  <2>2. s \in {1, 2}
    BY <1>5, <2>1
  <2> QED
    BY <1>5, <2>1, <2>2
<1>6. CASE t = 7
  <2>1. Len(Scripts[7]) = 2 /\ Scripts[7][1] = <<"write", 0>> /\ Scripts[7][2] = <<"read", 1>>
    BY ScriptsAre
  <2>2. s \in {1, 2}
    BY <1>6, <2>1
  <2> QED
    BY <1>6, <2>1, <2>2
<1>7. CASE t = 8
  <2>1. Len(Scripts[8]) = 3 /\ \A k \in {1, 2, 3} : Scripts[8][k][1] = "number"
    BY ScriptsAre
  <2>2. s \in {1, 2, 3}
    BY <1>7, <2>1
  <2> QED
    BY <1>7, <2>1, <2>2
<1>8. t \in {1, 2, 3, 4, 5, 6, 7, 8}
  OBVIOUS
<1> QED
  BY <1>1, <1>2, <1>3, <1>4, <1>5, <1>6, <1>7, <1>8

\* What a call of a test does to the table and to the directory's counter.
LEMMA CallTyped ==
  ASSUME KernelOK, dir_count = 0, NEW t \in 1..8, NEW s \in 1..Len(Scripts[t]),
         Calls(Scripts[t][s]),
         t = 5 => \A d \in 2..7 : d + 1 < s => ~Usable(d)
  PROVE  /\ KernelOK' /\ disk' = disk /\ dir_count' = 0
         /\ t = 5 => \A d \in 2..7 : d + 1 < s + 1 => ~Usable(d)'
<1> DEFINE c == Scripts[t][s]
<1>1. /\ c[1] \in {"read", "write", "close", "open", "vidmap", "number"}
      /\ c[1] = "read" => c[2] \in {NEG_NUM, BIG_NUM, 1} \/ (t = 5 /\ s > 8 /\ c[2] \in 2..7)
      /\ t = 5 /\ s <= 8 => c = <<"close", s - 1>>
      /\ t = 5 /\ s > 8  => c[1] \in {"read", "write"} /\ c[2] \in 2..7
      /\ Len(Scripts[t]) \in 2..20
  BY CallsMade
<1>2. s \in Nat
  BY <1>1
<1>3. Calls(c)
  OBVIOUS
<1> HIDE DEF c
<1>4. \A d : Usable(d)' = (d \in Fds /\ fd_arr'[d].kind # "closed")
  BY DEF Usable, Fds
<1>5. ASSUME NEW d \in 2..7, t = 5, s > 8 PROVE ~Usable(d)
  <2>1. d + 1 < s
    BY <1>2, <1>5
  <2> QED
    BY <1>5, <2>1
<1>6. ASSUME Fails PROVE KernelOK' /\ disk' = disk /\ dir_count' = 0 /\ fd_arr' = fd_arr
  BY <1>6 DEF Fails, Quiet, KernelOK, Answer, Table, Fds
<1>7. CASE c[1] = "read"
  <2>1. Read(c[2], 31)
    BY <1>3, <1>7 DEF Calls
  <2>2. ~Usable(c[2]) \/ c[2] = 1
    <3>1. NEG_NUM \notin Fds /\ BIG_NUM \notin Fds
      <4>1. NEG_NUM \in Int /\ BIG_NUM \in Int /\ NEG_NUM < 0
        BY SMT DEF NEG_NUM, BIG_NUM
      <4>2. LastFd \in 3..BIG_NUM - 1
        BY ProgramsAssumption
      <4> QED
        BY <4>1, <4>2 DEF Fds
    <3> QED
      BY <1>1, <1>5, <1>7, <3>1 DEF Usable
  <2>3. Fails
    BY <2>1, <2>2 DEF Read
  <2>4. t = 5 => s > 8
    BY <1>1, <1>2, <1>7
  <2> QED
    BY <1>4, <1>5, <1>6, <2>3, <2>4 DEF Usable
<1>8. CASE c[1] = "write"
  <2>1. Write(c[2], <<"x">>)
    BY <1>3, <1>8 DEF Calls
  <2>2. PICK b \in Text : b = <<"x">>
    BY MessageText DEF Char
  <2>3. KernelOK' /\ UNCHANGED <<disk, fd_arr, dir_count>>
    BY <2>1, <2>2, WriteTyped
  <2>4. t = 5 => s > 8
    BY <1>1, <1>2, <1>8
  <2> QED
    BY <1>4, <1>5, <2>3, <2>4 DEF Usable
<1>9. CASE c[1] = "close"
  <2>1. Close(c[2])
    BY <1>3, <1>9 DEF Calls
  <2>2. KernelOK' /\ disk' = disk /\ dir_count' = 0
    BY <2>1, CloseTyped
  <2>3. ASSUME t = 5, NEW d \in 2..7, d + 1 < s + 1 PROVE ~Usable(d)'
    <3>1. s <= 8
      BY <1>1, <1>2, <1>9, <2>3
    <3>2. c[2] = s - 1
      BY <1>1, <2>3, <3>1
    <3>3. d + 1 < s \/ d = c[2]
      BY <1>2, <2>3, <3>2
    <3>4. CASE ~Usable(d)
      <4>1. \/ Fails
            \/ c[2] \in Fds /\ fd_arr' = [fd_arr EXCEPT ![c[2]] = Closed]
        BY <2>1 DEF Close, Usable
      <4>2. fd_arr \in [Fds -> [kind : {"closed", "std", "file", "dir", "rtc"},
                                entry : 0..Len(disk), pos : Nat]]
        BY DEF KernelOK, Table
      <4>3. d \in Fds => fd_arr'[d] = fd_arr[d] \/ fd_arr'[d] = Closed
        BY <1>6, <4>1, <4>2
      <4> QED
        BY <1>4, <3>4, <4>3 DEF Usable, Closed
    <3>5. CASE Usable(d)
      <4>1. d = c[2]
        BY <2>3, <3>3, <3>5
      <4>2. d \in 2..LastFd
        BY <3>5, Descriptors DEF Usable
      <4>3. fd_arr' = [fd_arr EXCEPT ![d] = Closed]
        BY <2>1, <3>5, <4>1, <4>2 DEF Close
      <4>4. d \in Fds => fd_arr'[d] = Closed
        BY <4>3 DEF KernelOK, Table
      <4> QED
        BY <4>4 DEF Usable, Closed, Fds
    <3> QED
      BY <3>4, <3>5
  <2> QED
    BY <2>2, <2>3
<1>10. CASE c[1] = "open"
  <2>1. Open(c[2])
    BY <1>3, <1>10 DEF Calls
  <2>2. t # 5
    BY <1>1, <1>2, <1>10
  <2> QED
    BY <2>1, <2>2, OpenTyped
<1>11. CASE c[1] = "vidmap" \/ c[1] = "number"
  <2>1. Fails \/ (Answer(0) /\ Quiet /\ UNCHANGED <<fd_arr, got>>)
    BY <1>3, <1>11 DEF Calls, Vidmap, NoCall
  <2>2. KernelOK' /\ disk' = disk /\ dir_count' = 0
    <3>1. CASE Answer(0) /\ Quiet /\ UNCHANGED <<fd_arr, got>>
      <4>1. ret' = 0 /\ UNCHANGED <<disk, dir_count, out, fd_arr, got>>
        BY <3>1 DEF Answer, Quiet
      <4> QED
        BY <4>1 DEF KernelOK, Table, Fds
    <3> QED
      BY <1>6, <2>1, <3>1
  <2>3. t # 5
    BY <1>1, <1>2, <1>11
  <2> QED
    BY <2>2, <2>3
<1> QED
  BY <1>1, <1>7, <1>8, <1>9, <1>10, <1>11

\* A call of a test keeps the types and leaves the directory at its start.
LEMMA SyserrCallsSteps == ProgramsInv /\ SyserrCalls => ProgramsInv'
<1> SUFFICES ASSUME ProgramsInv, SyserrCalls PROVE ProgramsInv'
  OBVIOUS
<1>1. /\ program = "syserr" /\ pc = "test" /\ step <= Len(Scripts[test])
      /\ Calls(Scripts[test][step])
      /\ fail' \in {fail, fail + 1} /\ step' = step + 1
      /\ UNCHANGED <<program, pc, shell_vars, fd, grep_vars, test, upto, total>>
  BY DEF SyserrCalls, At
<1>2. /\ KernelOK /\ TestsOK /\ dir_count = 0
      /\ test \in 1..8 /\ upto \in test..8
      /\ step \in 1..Len(Scripts[test]) + 1 /\ fail \in 0..step - 1
      /\ total \in 0..2 * (test - 1)
      /\ test = 5 => \A d \in 2..7 : d + 1 < step => ~Usable(d)
  BY <1>1 DEF ProgramsInv, TypesInv, SyserrInv
<1>3. PICK t \in 1..8 : t = test /\ step \in 1..Len(Scripts[t]) /\ step \in Nat
  <2>1. PICK t \in 1..8 : t = test
    BY <1>2
  <2>3. step \in 1..Len(Scripts[t]) + 1 /\ step <= Len(Scripts[t])
    BY <1>1, <1>2, <2>1
  <2>4. Len(Scripts[t]) \in Nat
    BY ScriptLengths
  <2>5. step \in 1..Len(Scripts[t]) /\ step \in Nat
    BY <2>3, <2>4
  <2> QED
    BY <2>1, <2>5
<1>9. PICK s \in 1..Len(Scripts[t]) : s = step /\ s \in Nat
  BY <1>3
<1>4. /\ KernelOK' /\ disk' = disk /\ dir_count' = 0
      /\ t = 5 => \A d \in 2..7 : d + 1 < s + 1 => ~Usable(d)'
  <2>1. Calls(Scripts[t][s]) /\ (t = 5 => \A d \in 2..7 : d + 1 < s => ~Usable(d))
    BY <1>1, <1>2, <1>3, <1>9
  <2> QED
    BY <1>2, <2>1, CallTyped
<1>5. Len(Scripts[t]) \in 2..20
  BY CallsMade
<1>6. /\ test' = t /\ step' = s + 1 /\ s + 1 \in 1..Len(Scripts[t]) + 1
      /\ fail' \in 0..(s + 1) - 1 /\ fail' \in 0..s + 1
  <2>1. fail \in 0..s - 1 /\ fail' \in {fail, fail + 1}
    BY <1>1, <1>2, <1>3, <1>9
  <2>2. fail' \in 0..s
    BY <1>9, <2>1
  <2>3. s + 1 \in 1..Len(Scripts[t]) + 1
    BY <1>9, <1>5
  <2>4. 0..s \subseteq 0..s + 1 /\ (s + 1) - 1 = s
    BY <1>9
  <2> QED
    BY <1>1, <1>3, <1>9, <2>2, <2>3, <2>4
<1>7. TestsOK'
  <2>1. test' \in 0..8 /\ test' # 0 /\ upto' \in test'..8 /\ total' \in 0..16
    BY <1>1, <1>2, <1>3, <1>6 DEF TestsOK
  <2> QED
    BY <1>6, <2>1 DEF TestsOK
<1>8. SyserrInv'
  <2>1. pc' = "test" /\ upto' = upto /\ total' = total
    BY <1>1
  <2>2. test' \in 1..8 /\ upto' \in test'..8 /\ total' \in 0..2 * (test' - 1)
    BY <1>2, <1>3, <1>6, <2>1
  <2>3. step' \in 1..Len(Scripts[test']) + 1 /\ fail' \in 0..step' - 1
    BY <1>6
  <2>4. test' = 5 => \A d \in 2..7 : d + 1 < step' => ~Usable(d)'
    BY <1>4, <1>6
  <2> QED
    BY <1>4, <2>1, <2>2, <2>3, <2>4 DEF SyserrInv
<1> QED
  BY <1>1, <1>4, <1>7, <1>8, SyserrGoes

\* The next test begins, or the result is shown.
LEMMA TestEndsSteps == ProgramsInv /\ TestEnds => ProgramsInv'
<1> SUFFICES ASSUME ProgramsInv, TestEnds PROVE ProgramsInv'
  OBVIOUS
<1>1. /\ program = "syserr" /\ pc = "test" /\ UNCHANGED <<shell_vars, fd, grep_vars, upto>>
      /\ total' \in {total, total + 2} /\ (Say(<<"PASS">>) \/ Say(<<"FAIL">>))
      /\ IF test = upto THEN Goto("result") /\ UNCHANGED <<test, step, fail>>
                        ELSE test' = test + 1 /\ step' = 1 /\ fail' = 0 /\ UNCHANGED <<program, pc>>
  BY DEF TestEnds, At
<1>2. /\ KernelOK /\ TestsOK /\ dir_count = 0
      /\ test \in 1..8 /\ upto \in test..8 /\ total \in 0..2 * (test - 1)
      /\ step \in 1..Len(Scripts[test]) + 1
  BY <1>1 DEF ProgramsInv, TypesInv, SyserrInv
<1>3. KernelOK' /\ dir_count' = 0
  <2>1. PICK m \in Char : Say(<<m>>)
    BY <1>1 DEF Char
  <2> QED
    BY <1>2, <2>1, SayTyped
<1>4. total' \in 0..2 * test /\ total' \in 0..16
  BY <1>1, <1>2
<1>5. CASE test = upto
  <2>1. TestsOK'
    BY <1>1, <1>2, <1>4, <1>5 DEF TestsOK
  <2>2. SyserrInv'
    BY <1>1, <1>3, <1>5 DEF SyserrInv, Goto
  <2> QED
    BY <1>1, <1>3, <1>5, <2>1, <2>2, SyserrGoes DEF Goto
<1>6. CASE test # upto
  <2>1. test' \in 1..8 /\ upto' \in test'..8 /\ total' \in 0..2 * (test' - 1)
    <3>1. test' = test + 1 /\ upto' = upto
      BY <1>1, <1>6
    <3>2. test + 1 \in 1..8 /\ upto \in test + 1..8 /\ (test + 1) - 1 = test
      BY <1>2, <1>6
    <3> QED
      BY <1>4, <3>1, <3>2
  <2>2. program' = "syserr" /\ pc' = "test" /\ step' = 1 /\ fail' = 0
    BY <1>1, <1>6
  <2> QED
    BY <1>1, <1>3, <2>1, <2>2, TestBegins, SyserrGoes
<1> QED
  BY <1>5, <1>6

\* The result is what the tests have added.
LEMMA SyserrEndsSteps == ProgramsInv /\ SyserrEnds => ProgramsInv'
<1> SUFFICES ASSUME ProgramsInv, SyserrEnds PROVE ProgramsInv'
  OBVIOUS
<1>1. program = "syserr" /\ Back(total) /\ UNCHANGED <<fd, grep_vars, syserr_vars>>
  BY DEF SyserrEnds, At
<1>2. PICK m \in Char : Say(<<m>>) \/ UNCHANGED kernel
  <2>1. Say(<<"PASS">>) \/ Say(<<"FAIL">>) \/ UNCHANGED kernel
    BY DEF SyserrEnds
  <2> QED
    BY <2>1 DEF Char
<1>3. PICK v \in 0..16 : v = total
  BY DEF ProgramsInv, TypesInv, TestsOK
<1> QED
  BY <1>1, <1>2, <1>3, SyserrReturns

-----------------------------------------------------------------------------
\* The invariant holds at first, and when nothing happens.
LEMMA ProgramsInit == Init => ProgramsInv
<1> SUFFICES ASSUME Init PROVE ProgramsInv
  OBVIOUS
<1> USE DEF Init
<1>1. KernelOK
  <2>1. \A d \in Fds : Started[d].kind # "file"
    BY Descriptors DEF Std, Closed
  <2> QED
    BY <2>1, StartedTyped, NoText, DiskIs DEF KernelOK
<1>2. ShellOK /\ TestsOK
  BY DEF ShellOK, Tasks, TestsOK, NoLocals
<1>3. BufferOK
  <2>1. NoData \in [0..BUFSIZE -> Char]
    <3>1. Nul \in Char
      BY DEF Char
    <3> QED
      BY <3>1 DEF NoData
  <2> QED
    BY <2>1, NoText, ProgramsAssumption DEF BufferOK, NoLocals
<1>4. ShellInv /\ RunningInv /\ ListerInv /\ GrepInv /\ SyserrInv /\ ShowsFiles
  BY DEF ShellInv, RunningInv, ListerInv, Listers, GrepInv, SyserrInv, ShowsFiles, Ended, At
<1> QED
  BY <1>1, <1>2, <1>3, <1>4 DEF ProgramsInv, TypesInv

\* So does one that leaves everything alone.
LEMMA ProgramsStays == ProgramsInv /\ UNCHANGED vars => ProgramsInv'
<1> SUFFICES ASSUME ProgramsInv, UNCHANGED vars PROVE ProgramsInv'
  OBVIOUS
<1>1. UNCHANGED <<kernel, disk, fd_arr, dir_count, out, ret, got, program, pc, shell_vars, args, resident,
                  status, line, fd, grep_vars, file, fname, data, last, line_start, cnt,
                  syserr_vars, test, upto, step, fail, total>>
  BY DEF vars, kernel, shell_vars, grep_vars, syserr_vars
<1>2. TypesInv'
  BY <1>1, KernelStays DEF ProgramsInv, TypesInv, ShellOK, BufferOK, TestsOK
<1>3. ShellInv' /\ RunningInv'
  BY <1>1 DEF ProgramsInv, ShellInv, RunningInv, Started, Fds
<1>4. ListerInv'
  BY <1>1 DEF ProgramsInv, ListerInv, Asked, Entries, Named, Opened, One, Started, Fds,
              FileListed, DirectoryListed, ClockListed, Rows, Row
<1>5. GrepInv'
  BY <1>1 DEF ProgramsInv, GrepInv, Entries, Named, Opened, One, Two, Started, Fds
<1>6. SyserrInv'
  BY <1>1 DEF ProgramsInv, SyserrInv, Started, Fds, Usable
<1>7. ShowsFiles'
  BY <1>1 DEF ProgramsInv, ShowsFiles, Ended, At, Entries, Names
<1> QED
  BY <1>2, <1>3, <1>4, <1>5, <1>6, <1>7 DEF ProgramsInv

\* The shell and the programs keep the inductive invariant.
THEOREM ProgramsInvariant == Spec => []ProgramsInv
<1>1. ProgramsInv /\ Next => ProgramsInv'
  BY ShellReadsSteps, ShellExecutesSteps, ShellAnswersSteps, ListerOpensSteps,
     ListerOpenedSteps, ListerReadsSteps, ListerWritesSteps, GrepOpensSteps,
     GrepOpenedSteps, GrepListsSteps, GrepEntrySteps, FileOpenedSteps, FileFilledSteps,
     LineCutSteps, LineSearchedSteps, FileClosedSteps, SyserrAsksSteps, SyserrReadsSteps,
     SyserrChoosesSteps, SyserrCallsSteps, TestEndsSteps, SyserrEndsSteps
  DEF Next, ShellStep, ListerStep, GrepStep, SyserrStep
<1> QED
  BY <1>1, ProgramsInit, ProgramsStays, PTL DEF Spec

\* No step changes the file system.
LEMMA DiskKept == ProgramsInv /\ [Next]_vars => disk' = disk
<1> SUFFICES ASSUME ProgramsInv, [Next]_vars PROVE disk' = disk
  OBVIOUS
<1>1. UNCHANGED kernel => disk' = disk
  BY DEF kernel
<1>2. \A name : Open(name) => disk' = disk
  BY DEF Open, Fails, Quiet
<1>3. \A d, n : Read(d, n) => disk' = disk
  BY DEF Read, Fails, ReadTerminal, ReadClock, ReadDirectory, ReadFile, Quiet
<1>4. \A d, bytes : Write(d, bytes) => disk' = disk
  BY DEF Write, WriteTerminal, WriteClock, Fails, Quiet
<1>5. \A d : Close(d) => disk' = disk
  BY DEF Close, Fails, Quiet
<1>6. \A m : Say(m) => disk' = disk
  BY <1>4 DEF Say
<1>7. \A c : c[1] \in {"read", "write", "close", "open", "vidmap", "number"} /\ Calls(c)
              => disk' = disk
  <2>1. \A p : Vidmap(p) \/ NoCall(p) => disk' = disk
    BY DEF Vidmap, NoCall, Fails, Quiet
  <2> QED
    BY <1>2, <1>3, <1>4, <1>5, <2>1 DEF Calls
<1>8. \A m, value : SayAndReturn(m, value) \/ Returns(value) => disk' = disk
  BY <1>1, <1>6 DEF SayAndReturn, Returns
<1>9. CASE ShellStep
  <2>1. CASE ShellReads
    BY <2>1 DEF ShellReads
  <2>2. CASE ShellExecutes
    BY <1>1, <2>2 DEF ShellExecutes
  <2>3. CASE ShellAnswers
    BY <1>1, <1>6, <2>3 DEF ShellAnswers
  <2> QED
    BY <1>9, <2>1, <2>2, <2>3 DEF ShellStep
<1>10. CASE ListerStep
  <2>1. CASE ListerOpens
    BY <1>2, <1>8, <2>1 DEF ListerOpens
  <2>2. CASE ListerOpened
    BY <1>1, <1>8, <2>2 DEF ListerOpened
  <2>3. CASE ListerReads
    BY <1>3, <2>3 DEF ListerReads
  <2>4. CASE ListerWrites
    BY <1>4, <1>8, <2>4 DEF ListerWrites
  <2> QED
    BY <1>10, <2>1, <2>2, <2>3, <2>4 DEF ListerStep
<1>11. CASE GrepStep
  <2>1. CASE GrepOpens
    BY <1>2, <1>8, <2>1 DEF GrepOpens
  <2>2. CASE GrepOpened
    BY <1>1, <1>8, <2>2 DEF GrepOpened
  <2>3. CASE GrepLists
    BY <1>3, <2>3 DEF GrepLists
  <2>4. CASE GrepEntry
    BY <1>1, <1>2, <1>8, <2>4 DEF GrepEntry
  <2>5. CASE FileOpened
    BY <1>1, <1>8, <2>5 DEF FileOpened
  <2>6. CASE FileFilled
    BY <1>3, <2>6 DEF FileFilled
  <2>7. CASE LineCut
    BY <1>1, <2>7 DEF LineCut
  <2>8. CASE LineSearched
    BY <1>1, <1>4, <2>8 DEF LineSearched
  <2>9. CASE FileClosed
    BY <1>5, <2>9 DEF FileClosed
  <2> QED
    BY <1>11, <2>1, <2>2, <2>3, <2>4, <2>5, <2>6, <2>7, <2>8, <2>9 DEF GrepStep
<1>12. CASE SyserrStep
  <2>1. CASE SyserrAsks
    BY <1>6, <2>1 DEF SyserrAsks
  <2>2. CASE SyserrReads
    BY <1>3, <2>2 DEF SyserrReads
  <2>3. CASE SyserrChooses
    BY <1>1, <1>8, <2>3 DEF SyserrChooses
  <2>4. CASE SyserrCalls
    <3>1. /\ test \in 1..8 /\ step \in 1..Len(Scripts[test]) + 1 /\ step <= Len(Scripts[test])
          /\ Calls(Scripts[test][step])
      BY <2>4 DEF SyserrCalls, At, ProgramsInv, SyserrInv
    <3>2. Len(Scripts[test]) \in Nat
      BY <3>1, ScriptLengths
    <3>3. step \in 1..Len(Scripts[test])
      BY <3>1, <3>2
    <3> QED
      BY <1>7, <3>1, <3>3, CallsMade
  <2>5. CASE TestEnds
    BY <1>6, <2>5 DEF TestEnds
  <2>6. CASE SyserrEnds
    BY <1>1, <1>6, <2>6 DEF SyserrEnds
  <2> QED
    BY <1>12, <2>1, <2>2, <2>3, <2>4, <2>5, <2>6 DEF SyserrStep
<1>13. CASE UNCHANGED vars
  BY <1>1, <1>13 DEF vars, kernel
<1> QED
  BY <1>9, <1>10, <1>11, <1>12, <1>13 DEF Next

\* Only execute changes what the user page holds.
LEMMA ResidentKept ==
  ProgramsInv /\ [Next]_vars /\ ~ShellExecutes => resident' = resident
<1> SUFFICES ASSUME ProgramsInv, [Next]_vars, ~ShellExecutes PROVE resident' = resident
  OBVIOUS
<1>1. (UNCHANGED shell_vars => resident' = resident) /\ (UNCHANGED vars => resident' = resident)
  BY DEF vars, shell_vars
<1>2. /\ \A value : Back(value) \/ Returns(value) => resident' = resident
      /\ \A m, value : SayAndReturn(m, value) => resident' = resident
  BY DEF Back, Returns, SayAndReturn
<1>3. ShellReads \/ ShellAnswers => resident' = resident
  BY DEF ShellReads, ShellAnswers
<1>4. ListerStep => resident' = resident
  BY <1>1, <1>2 DEF ListerStep, ListerOpens, ListerOpened, ListerReads, ListerWrites
<1>5. GrepStep => resident' = resident
  <2>1. GrepOpens \/ GrepOpened \/ GrepLists \/ GrepEntry => resident' = resident
    BY <1>1, <1>2 DEF GrepOpens, GrepOpened, GrepLists, GrepEntry
  <2>2. FileOpened \/ FileFilled \/ LineCut \/ LineSearched \/ FileClosed => resident' = resident
    BY <1>1, <1>2 DEF FileOpened, FileFilled, LineCut, LineSearched, FileClosed
  <2> QED
    BY <2>1, <2>2 DEF GrepStep
<1>6. SyserrStep => resident' = resident
  <2>1. SyserrAsks \/ SyserrReads \/ SyserrChooses => resident' = resident
    BY <1>1, <1>2 DEF SyserrAsks, SyserrReads, SyserrChooses
  <2>2. SyserrCalls \/ TestEnds \/ SyserrEnds => resident' = resident
    BY <1>1, <1>2 DEF SyserrCalls, TestEnds, SyserrEnds
  <2> QED
    BY <2>1, <2>2 DEF SyserrStep
<1> QED
  BY <1>1, <1>3, <1>4, <1>5, <1>6 DEF Next, ShellStep

\* The user page holds a program of the file system, or none yet.
ResidentOK == resident # "shell" => \E e \in DOMAIN disk : disk[e].run = resident

\* What the user page holds stays a program of the disk.
LEMMA ResidentStays == ProgramsInv /\ ResidentOK /\ [Next]_vars => ResidentOK'
<1> SUFFICES ASSUME ProgramsInv, ResidentOK, [Next]_vars PROVE ResidentOK'
  OBVIOUS
<1>1. disk' = disk
  BY DiskKept
<1>2. CASE ShellExecutes
  <2> DEFINE found == Entries(FileName(got))
             entry == disk[Min(found)]
  <2>1. \/ resident' = resident
        \/ found # {} /\ resident' = entry.run
    BY <1>2 DEF ShellExecutes, Refused, Unchecked, Runs
  <2>2. found # {} => Min(found) \in DOMAIN disk
    BY NamedIs, DiskIs DEF Named, ProgramsInv, TypesInv, KernelOK
  <2> QED
    BY <1>1, <2>1, <2>2 DEF ResidentOK
<1>3. CASE ~ShellExecutes
  BY <1>1, <1>3, ResidentKept DEF ResidentOK
<1> QED
  BY <1>2, <1>3

\* Every variable stays in its type: what runs, and what the user page holds, is a
\* program of the disk, the fill of grep's buffer stays within it, and a test stays within
\* its script.
THEOREM ProgramsTyped == Spec => []TypeOK
<1>1. Init => ResidentOK
  BY DEF Init, ResidentOK
<1>2. ProgramsInv /\ ResidentOK => TypeOK
  <2> SUFFICES ASSUME ProgramsInv, ResidentOK PROVE TypeOK
    OBVIOUS
  <2>1. program # "shell" => program = resident
    BY DEF ProgramsInv, RunningInv
  <2>2. status \in {-1, 256} \cup 0..255
    BY DEF ProgramsInv, TypesInv, ShellOK
  <2> QED
    BY <2>1, <2>2 DEF ProgramsInv, TypesInv, KernelOK, Table, BufferOK, TestsOK, ResidentOK, TypeOK
<1> QED
  BY <1>1, <1>2, ResidentStays, ProgramsInvariant, PTL DEF Spec

\* cat and ls show what the disk has, whatever the disk, the buffer and the order of
\* the commands: all the bytes of a file, or all the names, once each.
THEOREM FilesShown == Spec => []ShowsFiles
<1>1. ProgramsInv => ShowsFiles
  BY DEF ProgramsInv
<1> QED
  BY <1>1, ProgramsInvariant, PTL
-----------------------------------------------------------------------------
\* A refused call.
LEMMA Refusals ==
  ASSUME Fails PROVE ret' = -1 /\ UNCHANGED <<disk, dir_count, out, fd_arr, got>>
BY DEF Fails, Answer, Quiet

\* Outside err_open_lots every call of every test is refused, when no file has the
\* name of one the test looks for in vain.
LEMMA AllRefused ==
  ASSUME LastFd = 7, disk \in Images, fd_arr = Started,
         Entries(<<"h", "e", "l", "l", "o", "o">>) = {}, Entries(<<"s", "h", "e", "l">>) = {},
         NEW t \in 1..8, t # 3, NEW s \in 1..Len(Scripts[t]), Calls(Scripts[t][s])
  PROVE  ret' = -1 /\ UNCHANGED <<disk, dir_count, out, fd_arr, got>>
<1>1. \A d \in 2..7 : fd_arr[d] = Closed /\ ~Usable(d)
  BY Descriptors DEF Usable, Closed
<1>2. fd_arr[0] = Std /\ fd_arr[1] = Std
  BY Descriptors
<1>3. ASSUME NEW d, ~Usable(d) \/ d = 1, Read(d, 31) PROVE Fails
  BY <1>3 DEF Read
<1>4. ASSUME NEW d, NEW b, ~Usable(d) \/ d = 0, Write(d, b) PROVE Fails
  BY <1>4 DEF Write
<1>5. ASSUME NEW d, ~Usable(d) \/ d \notin 2..LastFd, Close(d) PROVE Fails
  BY <1>5 DEF Close
<1>6. NEG_NUM \notin Fds /\ BIG_NUM \notin Fds /\ NEG_NUM # 0 /\ BIG_NUM # 0 /\ NEG_NUM # 1 /\ BIG_NUM # 1
  <2>1. NEG_NUM \in Int /\ BIG_NUM \in Int /\ NEG_NUM < 0 /\ BIG_NUM > 7
    BY SMT DEF NEG_NUM, BIG_NUM
  <2> QED
    BY <2>1, Descriptors
<1>7. \A c : Calls(c) =>
        /\ c[1] = "read"   => Read(c[2], 31)
        /\ c[1] = "write"  => Write(c[2], <<"x">>)
        /\ c[1] = "close"  => Close(c[2])
        /\ c[1] = "open"   => Open(c[2])
        /\ c[1] = "vidmap" => Vidmap(c[2])
        /\ c[1] = "number" => NoCall(c[2])
  BY DEF Calls
<1>8. PICK c : c = Scripts[t][s] /\ Calls(c)
  OBVIOUS
<1>9. ASSUME Fails PROVE ret' = -1 /\ UNCHANGED <<disk, dir_count, out, fd_arr, got>>
  BY <1>9, Refusals
<1>10. CASE t = 1 \/ t = 2
  <2>1. PICK n : n \in {NEG_NUM, BIG_NUM} /\ Scripts[t] = << <<"read", n>>, <<"write", n>>, <<"close", n>> >>
    BY <1>10, ScriptsAre DEF OnFd
  <2>2. ~Usable(n)
    BY <1>6, <2>1 DEF Usable
  <2>3. c[1] \in {"read", "write", "close"} /\ c[2] = n
    <3>1. Len(Scripts[t]) = 3 /\ s \in {1, 2, 3}
      BY <2>1
    <3> QED
      BY <1>8, <2>1, <3>1
  <2>4. Read(n, 31) \/ Write(n, <<"x">>) \/ Close(n)
    BY <1>7, <1>8, <2>3
  <2> QED
    BY <1>3, <1>4, <1>5, <1>9, <2>2, <2>4
<1>11. CASE t = 4
  <2>1. Len(Scripts[4]) = 3 /\ \A k \in {1, 2, 3} : Scripts[4][k][1] = "open"
    BY ScriptsAre
  <2>2. \A k \in {1, 2, 3} : Scripts[4][k][2] \in {<<"h", "e", "l", "l", "o", "o">>, <<"s", "h", "e", "l">>, <<>>}
    BY ScriptsAre
  <2>3. c[1] = "open" /\ (c[2] = <<>> \/ Entries(c[2]) = {})
    <3>1. s \in {1, 2, 3}
      BY <1>11, <2>1
    <3>2. c[2] \in {<<"h", "e", "l", "l", "o", "o">>, <<"s", "h", "e", "l">>, <<>>}
      BY <1>8, <1>11, <2>2, <3>1
    <3> QED
      BY <1>8, <1>11, <2>1, <3>1, <3>2
  <2>4. Open(c[2])
    BY <1>7, <1>8, <2>3
  <2>5. Fails
    BY <2>3, <2>4 DEF Open
  <2> QED
    BY <1>9, <2>5
<1>12. CASE t = 5
  <2>1. Len(Scripts[5]) = 20 /\ s \in 1..20
    BY <1>12, ScriptsAre
  <2>2. CASE s \in 1..8
    <3>0. Scripts[5][s] = <<"close", s - 1>>
      BY <2>2, ScriptsAre
    <3>1. c = <<"close", s - 1>> /\ s - 1 \in 0..7
      <4>1. s - 1 \in 0..7
        BY <2>2
      <4> QED
        BY <1>8, <1>12, <3>0, <4>1
    <3>2. Close(s - 1)
      BY <1>7, <1>8, <3>1
    <3>3. ~Usable(s - 1) \/ s - 1 \notin 2..LastFd
      BY <1>1, <3>1
    <3> QED
      BY <1>5, <1>9, <3>2, <3>3
  <2>3. CASE s \in 9..14
    <3>0. Scripts[5][s] = <<"read", s - 7>>
      BY <2>3, ScriptsAre
    <3>1. c = <<"read", s - 7>> /\ s - 7 \in 2..7
      <4>1. s - 7 \in 2..7
        BY <2>3
      <4> QED
        BY <1>8, <1>12, <3>0, <4>1
    <3>2. Read(s - 7, 31) /\ ~Usable(s - 7)
      BY <1>1, <1>7, <1>8, <3>1
    <3> QED
      BY <1>3, <1>9, <3>2
  <2>4. CASE s \in 15..20
    <3>0. Scripts[5][s] = <<"write", s - 13>>
      BY <2>4, ScriptsAre
    <3>1. c = <<"write", s - 13>> /\ s - 13 \in 2..7
      <4>1. s - 13 \in 2..7
        BY <2>4
      <4> QED
        BY <1>8, <1>12, <3>0, <4>1
    <3>2. Write(s - 13, <<"x">>) /\ ~Usable(s - 13)
      BY <1>1, <1>7, <1>8, <3>1
    <3> QED
      BY <1>4, <1>9, <3>2
  <2> QED
    BY <2>1, <2>2, <2>3, <2>4
<1>13. CASE t = 6
  <2>1. PICK p \in Nat : p < USER_TOP /\ Scripts[6] = << <<"vidmap", 0>>, <<"vidmap", p>> >>
    BY ScriptsAre
  <2>2. Len(Scripts[6]) = 2 /\ s \in {1, 2}
    BY <1>13, <2>1
  <2>3. c[1] = "vidmap" /\ (c[2] = 0 \/ c[2] < USER_TOP)
    BY <1>8, <1>13, <2>1, <2>2
  <2>4. Vidmap(c[2])
    BY <1>7, <1>8, <2>3
  <2>5. Fails
    BY <2>3, <2>4 DEF Vidmap
  <2> QED
    BY <1>9, <2>5
<1>14. CASE t = 7
  <2>1. Len(Scripts[7]) = 2 /\ Scripts[7][1] = <<"write", 0>> /\ Scripts[7][2] = <<"read", 1>>
    BY ScriptsAre
  <2>2. s \in {1, 2}
    BY <1>14, <2>1
  <2>3. Write(0, <<"x">>) \/ Read(1, 31)
    <3>1. c = <<"write", 0>> \/ c = <<"read", 1>>
      BY <1>8, <1>14, <2>1, <2>2
    <3> QED
      BY <1>7, <1>8, <3>1
  <2> QED
    BY <1>3, <1>4, <1>9, <2>3
<1>15. CASE t = 8
  <2>1. Len(Scripts[8]) = 3 /\ \A k \in {1, 2, 3} : Scripts[8][k][1] = "number"
    BY ScriptsAre
  <2>2. s \in {1, 2, 3}
    BY <1>15, <2>1
  <2>3. NoCall(c[2])
    BY <1>7, <1>8, <1>15, <2>1, <2>2
  <2> QED
    BY <1>9, <2>3 DEF NoCall
<1>16. t \in {1, 2, 4, 5, 6, 7, 8}
  OBVIOUS
<1> QED
  BY <1>10, <1>11, <1>12, <1>13, <1>14, <1>15, <1>16

\* err_open_lots: six opens, a seventh that is refused, and six closes.
LEMMA LotsStarts ==
  ASSUME LastFd = 7, disk \in Images
  PROVE  LotsAt(1) = Started /\ LotsAt(14) = Started /\ LotsAt(8) = LotsAt(7)
<1>1. Fds = 0..7 /\ Started = [d \in Fds |-> Started[d]]
  BY Descriptors DEF Started
<1> QED
  BY <1>1 DEF LotsAt

\* Before call s the first s - 1 calls have given away or taken back what LotsAt says;
\* only the seventh is refused.
LEMMA LotsGoes ==
  ASSUME LastFd = 7, disk \in Images, NEW s \in 1..13, fd_arr = LotsAt(s),
         Calls(Scripts[3][s])
  PROVE  /\ UNCHANGED <<disk, dir_count, out>> /\ fd_arr' = LotsAt(s + 1)
         /\ (s = 7) => ret' = -1
         /\ (s < 7) => ret' # -1
<1>1. Fds = 0..7 /\ \A d \in 2..7 : Started[d] = Closed
  BY Descriptors
<1>2. Entries(Dot) # {} /\ Dot # <<>> /\ Opened(Named(Dot), 0).kind = "dir"
  BY DotIs DEF Opened
<1>3. \A d \in 0..7 : fd_arr[d] = IF d \in 2..7 /\ d < s + 1 /\ d > s - 7
                                  THEN Opened(Named(Dot), 0) ELSE Started[d]
  BY <1>1 DEF LotsAt
<1>4. Closed.kind = "closed"
  BY DEF Closed
<1>5. CASE s <= 7
  <2>1. Open(Dot)
    <3>1. s \in 1..7
      BY <1>5
    <3>2. Scripts[3][s] = <<"open", Dot>>
      BY <3>1, ScriptsAre
    <3> QED
      BY <3>2 DEF Calls
  <2>2. Free = {d \in 2..7 : d >= s + 1}
    <3>1. \A d \in 2..7 : (fd_arr[d].kind = "closed") <=> d >= s + 1
      <4>1. \A d \in 2..7 : d > s - 7
        BY <1>5
      <4> QED
        BY <1>1, <1>2, <1>3, <1>4, <1>5, <4>1
    <3> QED
      BY <3>1 DEF Free
  <2>3. CASE s = 7
    <3>1. Free = {}
      BY <2>2, <2>3
    <3>2. Fails
      BY <2>1, <3>1 DEF Open
    <3>3. LotsAt(s + 1) = LotsAt(s)
      BY <2>3, LotsStarts
    <3>4. ret' = -1 /\ UNCHANGED <<disk, dir_count, out, fd_arr>>
      BY <3>2, Refusals
    <3>5. fd_arr' = LotsAt(s + 1)
      BY <3>3, <3>4
    <3>6. ~(s < 7)
      BY <2>3
    <3> QED
      BY <3>4, <3>5, <3>6
  <2>4. CASE s # 7
    <3>1. s + 1 \in Free /\ Min(Free) = s + 1
      <4>1. s + 1 \in Free /\ Free \subseteq Int /\ \A y \in Free : s + 1 <= y
        BY <1>5, <2>2, <2>4
      <4> QED
        BY <4>1, MinIs
    <3>2. /\ fd_arr' = [fd_arr EXCEPT ![s + 1] = Opened(Named(Dot), 0)]
          /\ ret' = s + 1 /\ UNCHANGED <<disk, dir_count, out>>
      BY <1>2, <2>1, <3>1 DEF Open, Answer, Quiet, Opened, Named
    <3>3. LotsAt(s + 1) = [LotsAt(s) EXCEPT ![s + 1] = Opened(Named(Dot), 0)]
      <4>1. ASSUME NEW d \in 0..7
            PROVE (d \in 2..7 /\ d < (s + 1) + 1 /\ d > (s + 1) - 7)
                    <=> (d = s + 1 \/ (d \in 2..7 /\ d < s + 1 /\ d > s - 7))
        BY <1>5, <2>4
      <4> QED
        BY <1>1, <1>5, <2>4, <4>1 DEF LotsAt
    <3>4. fd_arr' = LotsAt(s + 1)
      BY <3>2, <3>3
    <3>5. ret' # -1
      <4>1. s + 1 # -1
        OBVIOUS
      <4> QED
        BY <3>2, <4>1
    <3> QED
      BY <2>4, <3>2, <3>4, <3>5
  <2> QED
    BY <2>3, <2>4
<1>6. CASE s > 7
  <2>1. PICK k \in 2..7 : k = s - 6
    BY <1>6
  <2>2. Close(k)
    <3>1. s \in 8..13
      BY <1>6
    <3>2. Scripts[3][s] = <<"close", k>>
      BY <2>1, <3>1, ScriptsAre
    <3> QED
      BY <3>2 DEF Calls
  <2>3. fd_arr[k] = Opened(Named(Dot), 0)
    <3>1. k \in 0..7 /\ k < s + 1 /\ k > s - 7
      BY <1>6, <2>1
    <3> QED
      BY <1>3, <3>1
  <2>4. /\ fd_arr' = [fd_arr EXCEPT ![k] = Closed] /\ UNCHANGED <<disk, dir_count, out>>
    <3>1. Usable(k) /\ k \in 2..LastFd
      BY <1>1, <1>2, <2>3 DEF Usable
    <3> QED
      BY <2>2, <3>1 DEF Close, Quiet
  <2>5. LotsAt(s + 1) = [LotsAt(s) EXCEPT ![k] = Closed]
    <3>1. ASSUME NEW d \in 0..7
          PROVE (d \in 2..7 /\ d < (s + 1) + 1 /\ d > (s + 1) - 7)
                  <=> (d # k /\ d \in 2..7 /\ d < s + 1 /\ d > s - 7)
      BY <1>6, <2>1
    <3>2. k \in 0..7 /\ Started[k] = Closed
      BY <1>1
    <3> QED
      BY <1>1, <3>1, <3>2 DEF LotsAt
  <2>6. fd_arr' = LotsAt(s + 1)
    BY <2>4, <2>5
  <2>7. ~(s = 7) /\ ~(s < 7)
    BY <1>6
  <2> QED
    BY <2>4, <2>6, <2>7
<1>7. s <= 7 \/ s > 7
  OBVIOUS
<1> QED
  BY <1>5, <1>6, <1>7

\* What is assumed of the disk and the table, besides ProgramsAssumption.
NoneToFind ==
  /\ LastFd = 7
  /\ \A image \in Images : \A e \in DOMAIN image :
       image[e].name \notin {<<"h", "e", "l", "l", "o", "o">>, <<"s", "h", "e", "l">>}

\* The table stays the same as long as the disk does.
LEMMA LotsKept == ASSUME NEW s, UNCHANGED disk PROVE LotsAt(s)' = LotsAt(s)
<1>1. Opened(Named(Dot), 0)' = Opened(Named(Dot), 0)
  BY DEF Opened, Named, Entries
<1>2. Fds' = Fds /\ Started' = Started
  BY DEF Fds, Started
<1> QED
  BY <1>1, <1>2 DEF LotsAt

\* A message other than FAIL.
LEMMA SaysOther ==
  ASSUME NEW c \in Char, c # "FAIL", c # Nul, Say(<<c>>), out \in Unfailed
  PROVE  out' \in Unfailed
<1>1. out' = out \/ out' = out \o <<c>>
  BY OneString, WriteIs, VisibleOne DEF Say
<1>2. out \o <<c>> = Append(out, c)
  BY AppendIsConcat DEF Unfailed
<1>3. Append(out, c) \in Unfailed
  BY AppendProperties DEF Unfailed
<1> QED
  BY <1>1, <1>2, <1>3

\* A program that is not syserr leaves nothing to show.
LEMMA OthersPass ==
  ASSUME program' # "syserr" \/ pc' = "begin",
         pc' # "answer" \/ resident' # "syserr" \/ status' \in {-1, 256}
  PROVE  PassInv' /\ SyserrPasses'
BY DEF PassInv, SyserrPasses, Ended, At

\* When syserr ends.
LEMMA EndsWell ==
  ASSUME program' = "shell", status' = 0, out' \in Unfailed
  PROVE  PassInv' /\ SyserrPasses'
<1>1. "FAIL" \notin ToSet(out')
  BY ElementOfSeq DEF ToSet, Unfailed
<1> QED
  BY <1>1 DEF PassInv, SyserrPasses

\* The shell leaves what syserr has shown alone.
LEMMA ShellPasses == ProgramsInv /\ ShellStep => PassInv' /\ SyserrPasses'
<1> SUFFICES ASSUME ProgramsInv, ShellStep PROVE PassInv' /\ SyserrPasses'
  OBVIOUS
<1>1. CASE ShellReads
  BY <1>1, OthersPass DEF ShellReads, At, Goto
<1>2. CASE ShellExecutes
  BY <1>2, ExecuteGives, OthersPass
<1>3. CASE ShellAnswers
  BY <1>3, OthersPass DEF ShellAnswers, At, Goto
<1> QED
  BY <1>1, <1>2, <1>3 DEF ShellStep

\* So do the other programs.
LEMMA ListerPasses == ProgramsInv /\ (ListerStep \/ GrepStep) => PassInv' /\ SyserrPasses'
<1> SUFFICES ASSUME ProgramsInv, ListerStep \/ GrepStep PROVE PassInv' /\ SyserrPasses'
  OBVIOUS
<1>1. program \in Listers \cup {"grep"} /\ program' \in {program, "shell"} /\ resident' = resident
  <2>1. CASE ListerOpens
    BY <2>1 DEF ListerOpens, SayAndReturn, Back, Goto, shell_vars
  <2>2. CASE ListerOpened
    BY <2>2 DEF ListerOpened, SayAndReturn, Back, Goto, shell_vars
  <2>3. CASE ListerReads
    BY <2>3 DEF ListerReads, Goto, shell_vars
  <2>4. CASE ListerWrites
    BY <2>4 DEF ListerWrites, SayAndReturn, Returns, Back, Goto, shell_vars
  <2>5. CASE GrepOpens
    BY <2>5 DEF GrepOpens, At, SayAndReturn, Back, Goto, shell_vars
  <2>6. CASE GrepOpened
    BY <2>6 DEF GrepOpened, At, SayAndReturn, Back, Goto, shell_vars
  <2>7. CASE GrepLists
    BY <2>7 DEF GrepLists, At, Goto, shell_vars
  <2>8. CASE GrepEntry
    BY <2>8 DEF GrepEntry, At, SayAndReturn, Returns, Back, Goto, shell_vars
  <2>9. CASE FileOpened
    BY <2>9 DEF FileOpened, At, SayAndReturn, Back, Goto, shell_vars
  <2>10. CASE FileFilled
    BY <2>10 DEF FileFilled, At, Back, Goto, shell_vars
  <2>11. CASE LineCut
    BY <2>11 DEF LineCut, At, Goto, shell_vars
  <2>12. CASE LineSearched
    BY <2>12 DEF LineSearched, At, Goto, shell_vars
  <2>13. CASE FileClosed
    BY <2>13 DEF FileClosed, At, Back, Goto, shell_vars
  <2> QED
    BY <2>1, <2>2, <2>3, <2>4, <2>5, <2>6, <2>7, <2>8, <2>9, <2>10, <2>11, <2>12, <2>13
    DEF ListerStep, GrepStep
<1>2. resident = program
  BY <1>1 DEF ProgramsInv, RunningInv, Listers
<1> QED
  BY <1>1, <1>2, OthersPass DEF Listers

\* The steps of syserr.
LEMMA AsksPasses == ProgramsInv /\ SyserrAsks => PassInv' /\ SyserrPasses'
<1> SUFFICES ASSUME ProgramsInv, SyserrAsks PROVE PassInv' /\ SyserrPasses'
  OBVIOUS
<1>1. program' = "syserr" /\ pc' = "ask" /\ Say(<<"Choose from tests">>) /\ out = <<>>
  BY DEF SyserrAsks, At, Goto, ProgramsInv, RunningInv
<1>2. out \in Unfailed
  BY <1>1, EmptySeq DEF Unfailed
<1>3. PICK c \in Char : c = "Choose from tests" /\ c # "FAIL" /\ c # Nul
  BY DEF Char, Nul
<1>4. out' \in Unfailed
  BY <1>1, <1>2, <1>3, SaysOther
<1> QED
  BY <1>1, <1>4 DEF PassInv, SyserrPasses, Ended, At

\* A terminal can always be read.
LEMMA ReadsPasses == ProgramsInv /\ PassInv /\ SyserrReads => PassInv' /\ SyserrPasses'
<1> SUFFICES ASSUME ProgramsInv, PassInv, SyserrReads PROVE PassInv' /\ SyserrPasses'
  OBVIOUS
<1>1. /\ program = "syserr" /\ pc = "ask" /\ Read(0, 127)
      /\ program' = "syserr" /\ pc' = "choose" /\ fd_arr = Started /\ KernelOK
  BY DEF SyserrReads, At, Goto, ProgramsInv, SyserrInv, TypesInv
<1>2. fd_arr[0] = Std /\ 0 \in Fds
  BY <1>1, Descriptors
<1>3. ret' >= 0 /\ out' = out /\ ret' \in Int
  <2>1. PICK n \in Nat : n = 127
    OBVIOUS
  <2> QED
    BY <1>1, <1>2, <2>1, ReadTyped DEF Std, KernelOK
<1>4. ret' # -1
  BY <1>3
<1> QED
  BY <1>1, <1>3, <1>4 DEF PassInv, SyserrPasses, Ended, At

\* Where a test begins.
LEMMA BeginsAtScript ==
  ASSUME ProgramsInv, NoneToFind, fd_arr' = Started, disk' = disk, step' = 1, fail' = 0
  PROVE  ScriptAt'
<1>1. LotsAt(1)' = Started
  BY LotsStarts, LotsKept DEF NoneToFind, ProgramsInv, TypesInv, KernelOK
<1>2. Started' = Started /\ step' - 1 = 0 /\ ~(step' > 7)
  BY DEF Started, Fds
<1> QED
  BY <1>1, <1>2 DEF ScriptAt

\* The first test begins with the descriptors of a fresh program.
LEMMA ChoosesPasses == NoneToFind /\ ProgramsInv /\ PassInv /\ SyserrChooses => PassInv' /\ SyserrPasses'
<1> SUFFICES ASSUME NoneToFind, ProgramsInv, PassInv, SyserrChooses PROVE PassInv' /\ SyserrPasses'
  OBVIOUS
<1>1. program = "syserr" /\ ret # -1 /\ out \in Unfailed /\ fd_arr = Started
  BY DEF SyserrChooses, At, PassInv, ProgramsInv, SyserrInv
<1>2. CASE \A i \in DOMAIN Digits : got[1] # Digits[i]
  <2>1. Say(<<"Invalid test number">>) /\ program' = "shell" /\ status' = 0
    BY <1>1, <1>2 DEF SyserrChooses, SayAndReturn, Back
  <2>2. PICK c \in Char : c = "Invalid test number" /\ c # "FAIL" /\ c # Nul
    BY DEF Char, Nul
  <2>3. out' \in Unfailed
    BY <1>1, <2>1, <2>2, SaysOther
  <2> QED
    BY <2>1, <2>3, EndsWell
<1>3. CASE ~(\A i \in DOMAIN Digits : got[1] # Digits[i])
  <2>1. /\ step' = 1 /\ fail' = 0 /\ total' = 0
        /\ program' = "syserr" /\ pc' = "test" /\ UNCHANGED <<disk, fd_arr, out>>
    BY <1>1, <1>3 DEF SyserrChooses, Goto, kernel
  <2>2. ScriptAt'
    BY <1>1, <2>1, BeginsAtScript
  <2> QED
    BY <1>1, <2>1, <2>2 DEF PassInv, SyserrPasses, Ended, At
<1> QED
  BY <1>2, <1>3

\* A call is refused when the test wants it to be.
LEMMA CallsPasses == NoneToFind /\ ProgramsInv /\ PassInv /\ SyserrCalls => PassInv' /\ SyserrPasses'
<1> SUFFICES ASSUME NoneToFind, ProgramsInv, PassInv, SyserrCalls PROVE PassInv' /\ SyserrPasses'
  OBVIOUS
<1>1. /\ program = "syserr" /\ pc = "test" /\ program' = "syserr" /\ pc' = "test"
      /\ Calls(Scripts[test][step]) /\ step <= Len(Scripts[test])
      /\ fail' = (IF Counted(test, step) /\ ret' = -1 THEN fail + 1 ELSE fail)
      /\ step' = step + 1 /\ test' = test /\ total' = total
  BY DEF SyserrCalls, At
<1>2. /\ LastFd = 7 /\ disk \in Images /\ out \in Unfailed /\ ScriptAt /\ total = 0
      /\ test \in 1..8 /\ step \in 1..Len(Scripts[test]) + 1
  BY <1>1 DEF NoneToFind, ProgramsInv, TypesInv, KernelOK, PassInv, SyserrInv
<1>3. PICK t \in 1..8 : t = test
  BY <1>2
<1>4. Len(Scripts[t]) \in Nat
  BY CallsMade, ScriptLengths
<1>5. PICK s \in Nat : s = step /\ s >= 1 /\ s <= Len(Scripts[t])
  BY <1>1, <1>2, <1>3, <1>4
<1>6. CASE t = 3
  <2>1. s \in 1..13
    BY <1>5, <1>6, ScriptsAre
  <2>2. fd_arr = LotsAt(s) /\ fail = IF s > 7 THEN 1 ELSE 0
    BY <1>2, <1>3, <1>5, <1>6 DEF ScriptAt, Lots
  <2>3. /\ UNCHANGED <<disk, dir_count, out>> /\ fd_arr' = LotsAt(s + 1)
        /\ (s = 7) => ret' = -1
        /\ (s < 7) => ret' # -1
    BY <1>1, <1>2, <1>3, <1>5, <1>6, <2>1, <2>2, LotsGoes
  <2>4. fail' = IF s + 1 > 7 THEN 1 ELSE 0
    <3>1. fail' = IF s <= 7 /\ ret' = -1 THEN fail + 1 ELSE fail
      BY <1>1, <1>3, <1>5, <1>6 DEF Counted, Lots
    <3>2. CASE s < 7
      <4>1. ~(s > 7) /\ ~(s + 1 > 7)
        BY <3>2
      <4> QED
        BY <2>2, <2>3, <3>1, <3>2, <4>1
    <3>3. CASE s = 7
      <4>1. s <= 7 /\ ~(s > 7) /\ s + 1 > 7
        BY <3>3
      <4>2. fail = 0 /\ fail' = fail + 1
        BY <2>2, <2>3, <3>1, <3>3, <4>1
      <4> QED
        BY <4>1, <4>2
    <3>4. CASE s > 7
      <4>1. ~(s <= 7) /\ s + 1 > 7
        BY <3>4
      <4> QED
        BY <2>2, <3>1, <3>4, <4>1
    <3> QED
      BY <3>2, <3>3, <3>4
  <2>5. ScriptAt'
    <3>1. LotsAt(s + 1)' = LotsAt(s + 1)
      BY <2>3, LotsKept
    <3>2. step' = s + 1 /\ test' = Lots
      BY <1>1, <1>3, <1>5, <1>6 DEF Lots
    <3> QED
      BY <2>3, <2>4, <3>1, <3>2 DEF ScriptAt
  <2> QED
    BY <1>1, <1>2, <2>3, <2>5 DEF PassInv, SyserrPasses, Ended, At
<1>7. CASE t # 3
  <2>1. fd_arr = Started /\ fail = s - 1
    BY <1>2, <1>3, <1>5, <1>7 DEF ScriptAt, Lots
  <2>2. ret' = -1 /\ UNCHANGED <<disk, dir_count, out, fd_arr, got>>
    <3>1. /\ Entries(<<"h", "e", "l", "l", "o", "o">>) = {}
          /\ Entries(<<"s", "h", "e", "l">>) = {}
      BY <1>2 DEF NoneToFind, Entries
    <3>2. s \in 1..Len(Scripts[t]) /\ Calls(Scripts[t][s])
      BY <1>1, <1>3, <1>4, <1>5
    <3> QED
      BY <1>2, <1>7, <2>1, <3>1, <3>2, AllRefused
  <2>3. fail' = (s + 1) - 1
    <3>1. fail' = fail + 1
      BY <1>1, <1>3, <1>7, <2>2 DEF Counted, Lots
    <3> QED
      BY <1>5, <2>1, <3>1
  <2>4. ScriptAt'
    <3>1. Started' = Started /\ step' = s + 1 /\ test' # Lots
      BY <1>1, <1>3, <1>5, <1>7 DEF Lots, Started, Fds
    <3> QED
      BY <2>1, <2>2, <2>3, <3>1 DEF ScriptAt
  <2> QED
    BY <1>1, <1>2, <2>2, <2>4 DEF PassInv, SyserrPasses, Ended, At
<1> QED
  BY <1>6, <1>7

\* A test that has ended has counted what it wants, and the next finds a fresh table.
LEMMA EndPasses == NoneToFind /\ ProgramsInv /\ PassInv /\ TestEnds => PassInv' /\ SyserrPasses'
<1> SUFFICES ASSUME NoneToFind, ProgramsInv, PassInv, TestEnds PROVE PassInv' /\ SyserrPasses'
  OBVIOUS
<1>1. /\ program = "syserr" /\ pc = "test" /\ step > Len(Scripts[test])
      /\ KernelOK /\ disk \in Images /\ LastFd = 7
      /\ out \in Unfailed /\ ScriptAt /\ total = 0
      /\ test \in 1..8 /\ step \in 1..Len(Scripts[test]) + 1
  BY DEF TestEnds, At, NoneToFind, ProgramsInv, TypesInv, KernelOK, PassInv, SyserrInv
<1>2. PICK t \in 1..8 : t = test /\ Len(Scripts[t]) \in Nat
  BY <1>1, ScriptLengths
<1>3. step = Len(Scripts[t]) + 1 /\ step \in Nat
  BY <1>1, <1>2
<1>4. fail = Wanted(t) /\ fd_arr = Started
  <2>1. CASE t = 3
    <3>1. step = 14 /\ step > 7
      BY <1>3, <2>1, ScriptsAre
    <3>2. fail = 1 /\ fd_arr = LotsAt(14)
      BY <1>1, <1>2, <2>1, <3>1 DEF ScriptAt, Lots
    <3> QED
      BY <1>1, <2>1, <3>2, LotsStarts DEF Wanted, Lots
  <2>2. CASE t # 3
    <3>1. fail = step - 1 /\ fd_arr = Started
      BY <1>1, <1>2, <2>2 DEF ScriptAt, Lots
    <3>2. step - 1 = Len(Scripts[t])
      BY <1>2, <1>3
    <3> QED
      BY <2>2, <3>1, <3>2 DEF Wanted, Lots
  <2> QED
    BY <2>1, <2>2
<1>5. Say(<<"PASS">>) /\ total' = 0
  BY <1>1, <1>2, <1>4 DEF TestEnds
<1>6. out' \in Unfailed /\ UNCHANGED <<disk, fd_arr>>
  <2>1. PICK c \in Char : c = "PASS" /\ c # "FAIL" /\ c # Nul
    BY DEF Char, Nul
  <2> QED
    BY <1>1, <1>5, <2>1, SaysOther, WriteIs DEF Say
<1>7. CASE test = upto
  BY <1>1, <1>5, <1>6, <1>7 DEF TestEnds, Goto, PassInv, SyserrPasses, Ended, At
<1>8. CASE test # upto
  <2>1. program' = "syserr" /\ pc' = "test" /\ step' = 1 /\ fail' = 0
    BY <1>1, <1>8 DEF TestEnds
  <2>2. ScriptAt'
    BY <1>4, <1>6, <2>1, BeginsAtScript
  <2> QED
    BY <1>5, <1>6, <2>1, <2>2 DEF PassInv, SyserrPasses, Ended, At
<1> QED
  BY <1>7, <1>8

\* Nothing has been added to the result.
LEMMA EndsPasses == PassInv /\ SyserrEnds => PassInv' /\ SyserrPasses'
<1> SUFFICES ASSUME PassInv, SyserrEnds PROVE PassInv' /\ SyserrPasses'
  OBVIOUS
<1>1. out \in Unfailed /\ total = 0
  BY DEF SyserrEnds, At, PassInv
<1>2. program' = "shell" /\ status' = 0 /\ (Say(<<"PASS">>) \/ UNCHANGED kernel)
  BY <1>1 DEF SyserrEnds, Back
<1>3. out' \in Unfailed
  <2>1. PICK c \in Char : c = "PASS" /\ c # "FAIL" /\ c # Nul
    BY DEF Char, Nul
  <2> QED
    BY <1>1, <1>2, <2>1, SaysOther DEF kernel
<1> QED
  BY <1>2, <1>3, EndsWell

\* The tests of ece391syserr.c pass, whichever are run.
THEOREM EveryTestPasses == ASSUME NoneToFind PROVE Spec => []SyserrPasses
<1>1. ProgramsInv /\ PassInv /\ SyserrPasses /\ Next => PassInv' /\ SyserrPasses'
  BY ShellPasses, ListerPasses, AsksPasses, ReadsPasses, ChoosesPasses, CallsPasses, EndPasses, EndsPasses
  DEF Next, SyserrStep
<1>2. Init => PassInv /\ SyserrPasses
  BY DEF Init, PassInv, SyserrPasses, Ended, At
<1>3. PassInv /\ SyserrPasses /\ UNCHANGED vars => PassInv' /\ SyserrPasses'
  <2> SUFFICES ASSUME PassInv, SyserrPasses, UNCHANGED vars PROVE PassInv' /\ SyserrPasses'
    OBVIOUS
  <2>1. UNCHANGED <<disk, fd_arr, out, ret, program, pc, resident, status, test, step, fail, total>>
    BY DEF vars, kernel, shell_vars, syserr_vars
  <2>2. ScriptAt => ScriptAt'
    BY <2>1 DEF ScriptAt, LotsAt, Started, Fds, Opened, Named, Entries
  <2> QED
    BY <2>1, <2>2 DEF PassInv, SyserrPasses, Ended, At
<1> QED
  BY <1>1, <1>2, <1>3, ProgramsInvariant, PTL DEF Spec
-----------------------------------------------------------------------------
\* What a read of the keyboard gives: at most ARGLENGTH characters, of which a blank or
\* a newline ends the first word, shorter than a name may be, before any zero; or zeros
\* alone.  Lines whose first word a zero ends are left to the run.
LinesEntered ==
  \A l \in Lines :
    /\ l # <<>> /\ Len(l) <= ARGLENGTH
    /\ \/ l[1] = Nul
       \/ \E k \in 1..MAX_FILENAME : /\ k < Len(l) /\ l[k] \in {Space, Newline}
                                     /\ \A j \in 1..k - 1 : l[j] # Nul

Blank == {Space, Newline, Nul}

\* The command the shell makes of a line.
LEMMA CommandIs ==
  ASSUME NEW l \in Lines, l # <<>>, NEW c, c = Command(l, Behind)
  PROVE  /\ c \in Text /\ l \in Text /\ Len(l) \in Nat /\ Len(c) \in Nat
         /\ \E n \in Nat :
              /\ n + 1 <= Len(c) /\ c[n + 1] = Nul
              /\ \A i \in 1..n : c[i] = l[i]
              /\ n = Len(l) \/ (n + 1 = Len(l) /\ l[n + 1] = Newline)
<1>1. l \in Seq(Char) /\ Len(l) \in Nat
  BY ProgramsAssumption, TextLen, Wider DEF Text
<1>2. PICK t : t = Typed(l)
  OBVIOUS
<1>3. /\ t \in Seq(Char) /\ Len(t) \in Nat
      /\ \A i \in 1..Len(t) : t[i] = l[i]
      /\ Len(t) = Len(l) \/ (Len(t) + 1 = Len(l) /\ l[Len(t) + 1] = Newline)
  <2>1. CASE l[Len(l)] = Newline
    <3>1. PICK m \in Int, n \in Int : m = 1 /\ n = Len(l) - 1
      BY <1>1
    <3>2. t = SubSeq(l, m, n)
      BY <1>2, <2>1, <3>1 DEF Typed
    <3>3. Len(l) >= 1
      BY <1>1, EmptySeq
    <3>4. \A i \in m..n : l[i] \in Char
      <4>1. \A i \in 1..Len(l) : l[i] \in Char
        BY <1>1, ElementOfSeq
      <4> QED
        BY <1>1, <3>1, <4>1
    <3>5. /\ t \in Seq(Char) /\ Len(t) = IF m <= n THEN n - m + 1 ELSE 0
          /\ \A i \in 1..n - m + 1 : t[i] = l[m + i - 1]
      BY <3>2, <3>4, SubSeqProperties
    <3>6. Len(t) = n /\ n \in Nat /\ n + 1 = Len(l)
      BY <1>1, <3>1, <3>3, <3>5
    <3>7. \A i \in 1..n : t[i] = l[i]
      <4>1. \A i \in 1..n : m + i - 1 = i /\ i \in 1..n - m + 1
        BY <3>1
      <4> QED
        BY <3>5, <4>1
    <3> QED
      BY <2>1, <3>5, <3>6, <3>7
  <2>2. CASE l[Len(l)] # Newline
    BY <1>1, <1>2, <2>2 DEF Typed
  <2> QED
    BY <2>1, <2>2
<1>4. PICK z : z = <<Nul>>
  OBVIOUS
<1>5. z \in Seq(Char) /\ Len(z) = 1 /\ z[1] = Nul
  <2>1. Nul \in Char
    BY DEF Char
  <2> QED
    BY <1>4, <2>1
<1>6. PICK b : b = Behind
  OBVIOUS
<1>7. b \in Seq(Char) /\ Len(b) \in Nat
  BY <1>6, ProgramsAssumption, Wider, TextLen DEF Text
<1>8. c = (t \o z) \o b
  BY <1>2, <1>4, <1>6 DEF Command
<1>9. PICK u : u = t \o z
  OBVIOUS
<1>10. /\ u \in Seq(Char) /\ Len(u) = Len(t) + 1
       /\ \A i \in 1..Len(t) + 1 : u[i] = IF i <= Len(t) THEN t[i] ELSE z[i - Len(t)]
  <2>1. t \in Seq(Char) /\ z \in Seq(Char)
    BY <1>3, <1>5
  <2>2. /\ u \in Seq(Char) /\ Len(u) = Len(t) + Len(z)
        /\ \A i \in 1..Len(t) + Len(z) : u[i] = IF i <= Len(t) THEN t[i] ELSE z[i - Len(t)]
    BY <1>9, <2>1, ConcatProperties
  <2> QED
    BY <1>5, <2>2
<1>11. /\ c \in Seq(Char) /\ Len(c) = Len(u) + Len(b)
       /\ \A i \in 1..Len(u) + Len(b) : c[i] = IF i <= Len(u) THEN u[i] ELSE b[i - Len(u)]
  <2>1. c = u \o b
    BY <1>8, <1>9
  <2>2. u \in Seq(Char) /\ b \in Seq(Char)
    BY <1>7, <1>10
  <2> QED
    BY <2>1, <2>2, ConcatProperties
<1>12. PICK n \in Nat : n = Len(t)
  BY <1>3
<1>13. n + 1 <= Len(c) /\ Len(c) \in Nat
  BY <1>7, <1>10, <1>11, <1>12
<1>14. \A i \in 1..n : c[i] = l[i]
  <2>1. \A i \in 1..n : i \in 1..Len(u) + Len(b) /\ i <= Len(u) /\ i \in 1..n + 1 /\ i <= n
    BY <1>7, <1>10, <1>12
  <2> QED
    BY <1>3, <1>10, <1>11, <1>12, <2>1
<1>15. c[n + 1] = Nul
  <2>1. n + 1 \in 1..Len(u) + Len(b) /\ n + 1 <= Len(u) /\ ~(n + 1 <= n) /\ (n + 1) - n = 1
    BY <1>7, <1>10, <1>12
  <2> QED
    BY <1>5, <1>10, <1>11, <1>12, <2>1
<1> QED
  BY <1>1, <1>3, <1>11, <1>12, <1>13, <1>14, <1>15 DEF Text

\* The same characters at the same places.
LEMMA SamePart ==
  ASSUME NEW c \in Text, NEW l \in Text, NEW n \in Nat, n <= Len(c), n <= Len(l),
         \A i \in 1..n : c[i] = l[i], NEW p \in 1..n, NEW q \in 1..n
  PROVE  SubSeq(c, p, q) = SubSeq(l, p, q)
<1>1. /\ \A i \in 1..Len(c) : c[i] \in Char
      /\ \A i \in 1..Len(l) : l[i] \in Char
      /\ Len(c) \in Nat /\ Len(l) \in Nat
  BY ElementOfSeq, TextLen DEF Text
<1>2. \A i \in p..q : c[i] \in Char /\ l[i] \in Char /\ c[i] = l[i]
  BY <1>1
<1>3. PICK x, y : x = SubSeq(c, p, q) /\ y = SubSeq(l, p, q)
  OBVIOUS
<1>4. /\ x \in Seq(Char) /\ y \in Seq(Char)
      /\ Len(x) = IF p <= q THEN q - p + 1 ELSE 0
      /\ Len(y) = IF p <= q THEN q - p + 1 ELSE 0
      /\ \A i \in 1..q - p + 1 : x[i] = c[p + i - 1] /\ y[i] = l[p + i - 1]
  BY <1>2, <1>3, SubSeqProperties
<1>5. \A i \in 1..Len(x) : x[i] = y[i]
  <2>1. \A i \in 1..Len(x) : i \in 1..q - p + 1 /\ p + i - 1 \in p..q
    BY <1>4
  <2> QED
    BY <1>2, <1>4, <2>1
<1>6. x = y
  BY <1>4, <1>5, SeqEqual
<1> QED
  BY <1>3, <1>6

\* Where a program runs, the line has a first word that ends at a blank.
LEMMA FirstWord ==
  ASSUME LinesEntered, NEW l \in Lines, NEW c, c = Command(l, Behind),
         CString(c) # <<>>
  PROVE  \E k \in 1..MAX_FILENAME : /\ k < Len(l) /\ l[k] \in {Space, Newline}
                                    /\ \A j \in 1..k - 1 : l[j] # Nul
<1> SUFFICES ASSUME l[1] = Nul PROVE FALSE
  BY DEF LinesEntered
<1>1. l # <<>>
  BY DEF LinesEntered
<1>2. PICK n \in Nat : /\ n + 1 <= Len(c) /\ c[n + 1] = Nul
                       /\ \A i \in 1..n : c[i] = l[i]
                       /\ c \in Text /\ Len(c) \in Nat
  BY <1>1, CommandIs
<1>3. c[1] = Nul
  <2>1. CASE n = 0
    BY <1>2, <2>1
  <2>2. CASE n # 0
    <3>1. 1 \in 1..n
      BY <2>2
    <3> QED
      BY <1>2, <3>1
  <2> QED
    BY <2>1, <2>2
<1>4. DOMAIN c = 1..Len(c)
  BY <1>2, LenProperties DEF Text
<1>5. PICK S : S = {k \in DOMAIN c : c[k] = Nul}
  OBVIOUS
<1>6. 1 \in S /\ S \subseteq Int /\ \A y \in S : 1 <= y
  BY <1>2, <1>3, <1>4, <1>5
<1>7. Min(S) = 1 /\ S # {}
  BY <1>6, MinIs
<1>8. First(S, Len(c) + 1) = 1
  BY <1>7 DEF First
<1>9. CString(c) = SubSeq(c, 1, 1 - 1)
  BY <1>5, <1>8 DEF CString
<1>10. SubSeq(c, 1, 1 - 1) = <<>>
  <2>1. PICK p \in Int, q \in Int : p = 1 /\ q = 1 - 1 /\ q < p
    OBVIOUS
  <2> QED
    BY <2>1, SubSeqEmpty
<1> QED
  BY <1>9, <1>10

\* The first word ends at the same place for execute and for who typed it.
LEMMA NameEnds ==
  ASSUME NEW l \in Text, NEW c \in Text, NEW n \in Nat, NEW k \in 1..MAX_FILENAME,
         k < Len(l), n + 1 <= Len(c), n <= Len(l), Len(l) <= n + 1,
         \A i \in 1..n : c[i] = l[i],
         l[k] \in {Space, Newline}, \A j \in 1..k - 1 : l[j] # Nul, line = l
  PROVE  \E e \in 1..n : /\ NameEnd(c) = e
                         /\ Min(Blanks) = e
<1>1. MAX_FILENAME \in Nat /\ Len(l) \in Nat /\ Len(c) \in Nat /\ DOMAIN l = 1..Len(l)
  BY CommandsAssumption, TextLen, LenProperties DEF Text
<1>2. PICK S : S = {j \in 1..MAX_FILENAME : j <= k /\ l[j] \in {Space, Newline}}
  OBVIOUS
<1>3. k \in S /\ S \subseteq Nat
  BY <1>1, <1>2
<1>4. PICK e \in S : \A y \in S : e <= y
  BY <1>3, LeastOfSet
<1>5. /\ e \in 1..MAX_FILENAME /\ e <= k /\ l[e] \in {Space, Newline} /\ e \in 1..n
  BY <1>1, <1>2, <1>4
<1>6. \A j \in 1..e - 1 : l[j] \notin {Space, Newline, Nul} /\ j \in 1..n /\ j \in 1..MAX_FILENAME
  <2> SUFFICES ASSUME NEW j \in 1..e - 1
               PROVE  l[j] \notin {Space, Newline, Nul} /\ j \in 1..n /\ j \in 1..MAX_FILENAME
    OBVIOUS
  <2>1. j \in 1..k - 1 /\ j \in 1..n /\ j \in 1..MAX_FILENAME /\ j <= k /\ ~(e <= j)
    BY <1>1, <1>5
  <2>2. j \notin S
    BY <1>4, <2>1
  <2> QED
    BY <1>2, <2>1, <2>2
<1>7. NameEnd(c) = e
  <2>1. PICK T : T = {j \in 1..MAX_FILENAME : c[j] \in {Space, Newline}}
    OBVIOUS
  <2>2. e \in T /\ T \subseteq Int
    BY <1>1, <1>5, <2>1
  <2>3. ASSUME NEW y \in T PROVE e <= y
    <3>1. y \in Int /\ y >= 1 /\ c[y] \in {Space, Newline}
      BY <1>1, <2>1, <2>3
    <3>2. CASE y < e
      <4>1. y \in 1..e - 1
        BY <1>5, <3>1, <3>2
      <4> QED
        BY <1>6, <3>1, <4>1
    <3> QED
      BY <1>5, <3>1, <3>2
  <2>4. Min(T) = e
    BY <2>2, <2>3, MinIs
  <2> QED
    BY <2>1, <2>2, <2>4 DEF NameEnd, First
<1>8. Min(Blanks) = e
  <2>1. PICK T : T = {j \in DOMAIN l : l[j] \in Blank} \cup {Len(l) + 1}
    OBVIOUS
  <2>2. e \in T /\ T \subseteq Int
    BY <1>1, <1>5, <2>1 DEF Blank
  <2>3. ASSUME NEW y \in T PROVE e <= y
    <3>1. y \in Int /\ y >= 1 /\ (l[y] \in Blank \/ y = Len(l) + 1)
      BY <1>1, <2>1, <2>3
    <3>2. CASE y < e
      <4>1. y \in 1..e - 1 /\ y # Len(l) + 1
        BY <1>1, <1>5, <3>1, <3>2
      <4> QED
        BY <1>6, <3>1, <4>1 DEF Blank
    <3> QED
      BY <1>5, <3>1, <3>2
  <2> QED
    BY <2>1, <2>2, <2>3, MinIs DEF Blanks, Blank
<1> QED
  BY <1>5, <1>7, <1>8

\* The second word of a line whose first word ends at e.
LEMMA SecondWords ==
  ASSUME NEW l \in Text, NEW c \in Text, NEW n \in Nat, NEW e \in 1..n,
         NEW L \in Nat, L = Len(l), NEW M \in Nat, M = Len(c),
         n + 1 <= M, n <= ARGLENGTH, n = L \/ (n + 1 = L /\ l[n + 1] = Newline),
         c[n + 1] = Nul, \A i \in 1..n : c[i] = l[i],
         NameEnd(c) = e, line = l, Min(Blanks) = e
  PROVE  Args(c) = SecondWord
<1> DEFINE B == Blanks
           G == Letters
           S == {j \in e..Len(c) : c[j] # Space}
           R(b) == {j \in b..Len(c) : \/ j = b + ARGLENGTH
                                      \/ c[j] \in {Space, Nul, Newline}}
<1>1. ARGLENGTH \in Nat \ {0}
  BY CommandsAssumption
<1>2. SecondWord = IF G = {} \/ \E k \in e..Min(G) : l[k] \in {Newline, Nul} THEN <<>>
                   ELSE SubSeq(l, Min(G), Min({k \in B : k > Min(G)}) - 1)
  BY DEF SecondWord
<1>3. ArgsBegin(c) = Min(S)
  BY DEF ArgsBegin
<1>4. Args(c) = SubSeq(c, Min(S), Min(R(Min(S))) - 1)
  BY <1>3 DEF Args
<1>6. \A j \in Int : (j \in B) <=> ((j >= 1 /\ j <= L /\ l[j] \in Blank) \/ j = L + 1)
  <2>1. DOMAIN l = 1..L
    BY LenProperties DEF Text
  <2> QED
    BY <2>1 DEF Blanks, Blank
<1>5. \A j \in Int : (j \in G) <=> (j >= e /\ j <= L /\ l[j] \notin Blank)
  <2>1. \A j \in Int : (j \in G) <=> (j >= e /\ j <= L /\ j \notin B)
    BY DEF Letters
  <2>2. \A j \in Int : j >= e /\ j <= L => j >= 1 /\ j # L + 1
    OBVIOUS
  <2> HIDE DEF B, G
  <2> QED
    BY <1>6, <2>1, <2>2
<1>7. G \subseteq Nat /\ B \subseteq Nat
  <2>1. DOMAIN l = 1..L
    BY LenProperties DEF Text
  <2>2. B \subseteq Nat
    BY <2>1 DEF Blanks
  <2>3. G \subseteq e..L
    BY DEF Letters
  <2> QED
    BY <2>2, <2>3
<1>16. S \subseteq Nat /\ \A b \in Nat : R(b) \subseteq Nat
  OBVIOUS
<1>9. \A j \in Int : (j \in S) <=> (j >= e /\ j <= M /\ c[j] # Space)
  OBVIOUS
<1>10. \A b \in Nat : \A j \in Int :
         (j \in R(b)) <=> (j >= b /\ j <= M /\ (j = b + ARGLENGTH \/ c[j] \in Blank))
  BY <1>1 DEF Blank
<1>8. n + 1 \in Int /\ n + 1 >= e /\ c[n + 1] # Space /\ c[n + 1] \in Blank
  BY DEF Nul, Space, Blank
<1> HIDE DEF B, G, S, R
<1>11. PICK b \in S : \A y \in S : b <= y
  <2>1. n + 1 \in S
    BY <1>8, <1>9
  <2> QED
    BY <1>7, <1>16, <2>1, LeastOfSet
<1>12. /\ Min(S) = b /\ b \in Nat /\ b >= e /\ b <= n + 1 /\ c[b] # Space /\ b <= M
       /\ \A j \in Int : j >= e /\ j < b => c[j] = Space
  <2>1. n + 1 \in S
    BY <1>8, <1>9
  <2>2. b \in Nat /\ b >= e /\ b <= M /\ c[b] # Space /\ b <= n + 1
    BY <1>7, <1>16, <1>9, <1>11, <2>1
  <2>3. ASSUME NEW j \in Int, j >= e, j < b PROVE c[j] = Space
    <3>1. j \notin S
      <4>1. ~(b <= j)
        BY <2>2, <2>3
      <4> QED
        BY <1>11, <4>1
    <3>2. j <= M
      BY <1>1, <2>2, <2>3
    <3> QED
      BY <1>9, <2>3, <3>1, <3>2
  <2>4. Min(S) = b
    <3>1. S \subseteq Int
      BY <1>7, <1>16
    <3> QED
      BY <1>11, <3>1, MinIs
  <2> QED
    BY <2>2, <2>3, <2>4
<1>13. \A j \in Int : j >= e /\ j < b => l[j] = Space /\ j \in 1..n
  <2>1. \A j \in Int : j >= e /\ j < b => j \in 1..n
    BY <1>12
  <2> QED
    BY <1>12, <2>1
<1>14. CASE c[b] \in {Nul, Newline}
  <2>1. Min(R(b)) = b
    <3>1. b \in R(b)
      BY <1>10, <1>12, <1>14 DEF Blank
    <3>2. R(b) \subseteq Int /\ \A y \in R(b) : b <= y
      BY <1>7, <1>16, <1>10, <1>12
    <3> QED
      BY <3>1, <3>2, MinIs
  <2>2. Args(c) = <<>>
    <3>1. PICK q \in Int : q = b - 1 /\ q < b
      BY <1>12
    <3>2. SubSeq(c, b, q) = <<>>
      BY <1>12, <3>1, SubSeqEmpty
    <3> QED
      BY <1>4, <1>12, <2>1, <3>1, <3>2
  <2>3. CASE G = {}
    BY <1>2, <2>2, <2>3
  <2>4. CASE G # {}
    <3>1. Min(G) \in G
      BY <1>7, <1>16, <2>4, MinIn
    <3>8. PICK x : x = Min(G)
      OBVIOUS
    <3>2. x \in Nat /\ x = Min(G) /\ x >= e /\ x <= L /\ l[x] \notin Blank
      <4>1. x \in G /\ x \in Nat
        BY <1>7, <3>1, <3>8
      <4> QED
        BY <1>5, <3>8, <4>1
    <3>3. x <= n
      <4>1. CASE n = L
        BY <3>2, <4>1
      <4>2. CASE n + 1 = L /\ l[n + 1] = Newline
        <5>1. x # n + 1
          BY <3>2, <4>2 DEF Blank
        <5> QED
          BY <3>2, <4>2, <5>1
      <4> QED
        BY <4>1, <4>2
    <3>4. x \in 1..n /\ c[x] = l[x]
      BY <3>2, <3>3
    <3>5. c[x] \notin {Space, Newline, Nul}
      BY <3>2, <3>4 DEF Blank
    <3>6. b < x
      <4>1. ~(x < b)
        BY <1>12, <3>2, <3>5
      <4>2. x # b
        BY <1>14, <3>5
      <4> QED
        BY <1>12, <3>2, <4>1, <4>2
    <3>7. b \in e..Min(G) /\ l[b] \in {Newline, Nul}
      <4>1. b \in 1..n
        BY <1>12, <3>2, <3>3, <3>6
      <4>2. l[b] = c[b]
        BY <4>1
      <4> QED
        BY <1>12, <1>14, <3>2, <3>6, <4>2
    <3> QED
      BY <1>2, <2>2, <3>7
  <2> QED
    BY <2>3, <2>4
<1>15. CASE c[b] \notin {Nul, Newline}
  <2>1. b \in 1..n /\ c[b] = l[b] /\ l[b] \notin Blank
    <3>1. b # n + 1
      BY <1>15
    <3>2. b \in 1..n
      BY <1>12, <3>1
    <3> QED
      BY <1>12, <1>15, <3>2 DEF Blank
  <2>2. n <= L
    BY <1>1
  <2>3. b \in G /\ \A y \in G : b <= y
    <3>1. b \in G
      BY <1>5, <1>12, <2>1, <2>2
    <3>2. ASSUME NEW y \in G PROVE b <= y
      <4>1. y \in Int /\ y >= e /\ l[y] \notin Blank
        BY <1>5, <1>7, <3>2
      <4>2. ~(y < b)
        BY <1>13, <4>1 DEF Blank
      <4> QED
        BY <1>12, <3>2, <4>1, <4>2
    <3> QED
      BY <3>1, <3>2
  <2>4. Min(G) = b /\ G # {}
    <3>1. G \subseteq Int
      BY <1>7, <1>16
    <3> QED
      BY <2>3, <3>1, MinIs
  <2>5. ~ \E k \in e..b : l[k] \in {Newline, Nul}
    <3> SUFFICES ASSUME NEW k \in e..b PROVE l[k] \notin {Newline, Nul}
      OBVIOUS
    <3>1. CASE k = b
      BY <2>1, <3>1 DEF Blank
    <3>2. CASE k # b
      <4>1. k \in Int /\ k >= e /\ k < b
        BY <1>12, <3>2
      <4> QED
        BY <1>13, <4>1 DEF Newline, Nul, Space
    <3> QED
      BY <3>1, <3>2
  <2>6. PICK m \in {k \in B : k > b} : \A y \in {k \in B : k > b} : m <= y
    <3>1. L + 1 \in {k \in B : k > b}
      BY <1>1, <1>6, <2>1, <2>2
    <3>2. {k \in B : k > b} \subseteq Nat
      BY <1>7, <1>16
    <3> QED
      BY <3>1, <3>2, LeastOfSet
  <2>7. Min({k \in B : k > b}) = m /\ m \in Nat /\ m > b /\ m \in B
    <3>1. {k \in B : k > b} \subseteq Int
      <4>1. \A k \in B : k \in Int
        BY <1>7
      <4> QED
        BY <4>1, Zenon
    <3> QED
      BY <1>7, <1>16, <2>6, <3>1, MinIs
  <2>8. m <= n + 1 /\ c[m] \in Blank
    <3>1. n + 1 \in B
      BY <1>6 DEF Blank
    <3>2. m <= n + 1
      <4>1. n + 1 \in {k \in B : k > b}
        BY <2>1, <3>1
      <4> QED
        BY <2>6, <4>1
    <3>3. CASE m <= n
      <4>1. m \in 1..n /\ m # L + 1
        BY <2>1, <2>2, <2>7, <3>3
      <4>2. l[m] \in Blank /\ c[m] = l[m]
        BY <1>6, <2>7, <4>1
      <4> QED
        BY <3>2, <4>2 DEF Blank
    <3>4. CASE m = n + 1
      BY <1>8, <3>2, <3>4
    <3> QED
      BY <2>7, <3>2, <3>3, <3>4
  <2>9. Min(R(b)) = m
    <3>1. m \in R(b)
      BY <1>10, <1>12, <2>7, <2>8
    <3>2. ASSUME NEW y \in R(b) PROVE m <= y
      <4>1. y \in Int /\ y >= b /\ (y = b + ARGLENGTH \/ c[y] \in Blank)
        BY <1>7, <1>16, <1>10, <1>12, <3>2
      <4>2. CASE y < m
        <5>1. y \in 1..n /\ y # b + ARGLENGTH
          <6>1. b \in Nat /\ b >= 1 /\ y \in Nat /\ y >= 1 /\ y <= n
            BY <2>1, <2>7, <2>8, <4>1, <4>2
          <6>2. b + ARGLENGTH > n
            BY <1>1, <6>1
          <6> QED
            BY <1>1, <6>1, <6>2
        <5>2. l[y] \in Blank
          BY <4>1, <5>1 DEF Blank
        <5>3. y # b
          BY <2>1, <5>2
        <5>4. y \in B /\ y > b
          BY <1>6, <2>1, <2>2, <4>1, <5>1, <5>2, <5>3
        <5> QED
          BY <2>6, <5>4
      <4> QED
        BY <2>7, <4>1, <4>2
    <3>3. R(b) \subseteq Int
      BY <1>7, <1>16, <1>12
    <3> QED
      BY <3>1, <3>2, <3>3, MinIs
  <2>10. SubSeq(c, b, m - 1) = SubSeq(l, b, m - 1)
    <3>1. PICK q \in 1..n : q = m - 1
      BY <2>1, <2>7, <2>8
    <3>2. n <= M /\ n <= L
      BY <1>1, <2>2
    <3> QED
      BY <2>1, <3>1, <3>2, SamePart
  <2>11. SecondWord = SubSeq(l, b, m - 1)
    BY <1>2, <2>4, <2>5, <2>7
  <2> QED
    BY <1>4, <1>12, <2>9, <2>10, <2>11
<1> QED
  BY <1>14, <1>15

\* A program runs with the second word of the line.
LEMMA ArgsKnown ==
  ASSUME LinesEntered, ProgramsInv, program # "shell"
  PROVE  args = SecondWord /\ line \in Text
<1>1. PICK l \in Lines : l = line
  BY DEF ProgramsInv, RunningInv
<1>2. PICK c : c = Command(l, Behind)
  OBVIOUS
<1>3. CString(c) # <<>> /\ args = Args(c)
  BY <1>1, <1>2 DEF ProgramsInv, RunningInv
<1>4. l # <<>> /\ Len(l) <= ARGLENGTH
  BY DEF LinesEntered
<1>5. PICK n \in Nat :
        /\ n + 1 <= Len(c) /\ c[n + 1] = Nul
        /\ \A i \in 1..n : c[i] = l[i]
        /\ n = Len(l) \/ (n + 1 = Len(l) /\ l[n + 1] = Newline)
        /\ c \in Text /\ l \in Text /\ Len(l) \in Nat
  BY <1>2, <1>4, CommandIs
<1>6. PICK k \in 1..MAX_FILENAME : /\ k < Len(l) /\ l[k] \in {Space, Newline}
                                   /\ \A j \in 1..k - 1 : l[j] # Nul
  BY <1>2, <1>3, FirstWord
<1>7. n <= Len(l) /\ Len(l) <= n + 1 /\ n <= ARGLENGTH
  BY <1>4, <1>5, CommandsAssumption
<1>8. Len(c) \in Nat
  BY <1>5, TextLen
<1>9. PICK e \in 1..n : /\ NameEnd(c) = e
                        /\ Min(Blanks) = e
  BY <1>1, <1>5, <1>6, <1>7, <1>8, NameEnds
<1>10. Args(c) = SecondWord
  BY <1>1, <1>5, <1>7, <1>8, <1>9, SecondWords
<1> QED
  BY <1>1, <1>3, <1>5, <1>10

\* A program gets the word behind its name, whatever the number of blanks.
THEOREM ArgumentGiven == ASSUME LinesEntered PROVE Spec => []ArgsAsTyped
<1>1. ProgramsInv => ArgsAsTyped
  BY ArgsKnown DEF ArgsAsTyped
<1> QED
  BY <1>1, ProgramsInvariant, PTL
-----------------------------------------------------------------------------
(* What grep finds. *)

\* Texts without zeros: they are shown as they are.
Plain == Seq(Char \ {Nul})

\* They are texts.
LEMMA PlainText == Plain \subseteq Text
<1> SUFFICES ASSUME NEW s \in Plain PROVE s \in Seq(Char)
  BY DEF Text
<1>1. Char \ {Nul} \subseteq Char
  OBVIOUS
<1> QED
  BY <1>1, SeqMonotonic DEF Plain

\* A text in which no zero occurs.
LEMMA PlainIs ==
  ASSUME NEW s \in Text, Nul \notin ToSet(s) PROVE s \in Plain
<1>1. s \in Seq(Char) /\ DOMAIN s = 1..Len(s) /\ Len(s) \in Nat
  BY LenProperties DEF Text
<1>2. \A i \in 1..Len(s) : s[i] \in Char \ {Nul}
  BY <1>1, ElementOfSeq DEF ToSet
<1>3. s = [i \in 1..Len(s) |-> s[i]]
  BY <1>1
<1> QED
  BY <1>1, <1>2, <1>3 DEF Plain

\* All of it is shown.
LEMMA PlainShown ==
  ASSUME NEW s \in Plain PROVE Visible(s) = s
<1> DEFINE S == {n \in Nat : \A x \in Plain : Len(x) = n => Visible(x) = x}
<1>1. 0 \in S
  <2> SUFFICES ASSUME NEW x \in Plain, Len(x) = 0 PROVE Visible(x) = x
    OBVIOUS
  <2>1. x = <<>>
    BY EmptySeq DEF Plain
  <2> QED
    BY <2>1, VisibleNone
<1>2. ASSUME NEW n \in Nat, n \in S PROVE n + 1 \in S
  <2> SUFFICES ASSUME NEW x \in Plain, Len(x) = n + 1 PROVE Visible(x) = x
    OBVIOUS
  <2> DEFINE a == [k \in 1..n |-> x[k]]
  <2>1. a \in Plain /\ x[n + 1] \in Char \ {Nul} /\ Len(a) = n
    BY DEF Plain
  <2>2. x = Append(a, x[n + 1])
    BY DEF Plain
  <2> HIDE DEF a
  <2>3. PICK y \in Plain, c \in Char : y = a /\ c = x[n + 1] /\ c # Nul /\ y \in Text
    BY <2>1, PlainText
  <2>4. Visible(y) = y
    BY <1>2, <2>1, <2>3
  <2>5. Visible(Append(y, c)) = y \o <<c>>
    BY <2>3, <2>4, VisibleAppend DEF Shown
  <2>6. Append(y, c) = y \o <<c>>
    BY <2>3, AppendIsConcat DEF Text
  <2> QED
    BY <2>2, <2>3, <2>5, <2>6
<1> HIDE DEF S
<1>3. Nat \subseteq S
  BY <1>1, <1>2, Induction
<1>4. Len(s) \in Nat
  BY LenProperties DEF Plain
<1> QED
  BY <1>3, <1>4 DEF S

\* Three texts can be joined in either order.
LEMMA JoinTexts ==
  ASSUME NEW p \in Text, NEW q \in Text, NEW r \in Text
  PROVE  (p \o q) \o r = p \o (q \o r)
BY ConcatAssociative DEF Text

\* One text more behind the others.
LEMMA FlattenNext ==
  ASSUME NEW n \in Nat, NEW ss \in Seq(Text), NEW tt \in Seq(Text),
         Len(ss) = n, Len(tt) = n + 1, \A k \in 1..n : tt[k] = ss[k]
  PROVE  FlattenSeq(tt) = FlattenSeq(ss) \o tt[n + 1]
<1>1. PICK t \in Text : t = tt[n + 1]
  OBVIOUS
<1>2. /\ Append(ss, t) \in Seq(Text) /\ Len(Append(ss, t)) = n + 1
      /\ \A k \in 1..n : Append(ss, t)[k] = ss[k]
      /\ Append(ss, t)[n + 1] = t
  BY AppendProperties
<1>3. \A k \in 1..n + 1 : tt[k] = Append(ss, t)[k]
  <2>1. \A k \in 1..n + 1 : k \in 1..n \/ k = n + 1
    OBVIOUS
  <2> QED
    BY <1>1, <1>2, <2>1
<1>4. tt = Append(ss, t)
  BY <1>2, <1>3, SeqEqual
<1> QED
  BY <1>1, <1>4, FlattenAppend

\* The greatest of a set.
LEMMA MaxIs ==
  ASSUME NEW S, S \subseteq Int, NEW x \in S, \A y \in S : x >= y
  PROVE  Max(S) = x
<1>1. \A z \in S : (\A y \in S : z >= y) => z = x
  OBVIOUS
<1> QED
  BY <1>1 DEF Max

\* The line that ends at k begins behind place d.
LEMMA LineIs ==
  ASSUME NEW T, NEW k \in Nat, NEW d \in Nat, d < k, d = 0 \/ T[d] = Newline,
         \A j \in d + 1..k - 1 : T[j] # Newline
  PROVE  LineTo(T, k) = SubSeq(T, d + 1, k - 1)
<1> DEFINE S == {0} \cup {j \in 1..k - 1 : T[j] = Newline}
<1>1. d \in S /\ S \subseteq Int /\ \A y \in S : d >= y
  <2>1. \A j \in 1..k - 1 : j <= d \/ j \in d + 1..k - 1
    OBVIOUS
  <2>2. d # 0 => d \in 1..k - 1
    OBVIOUS
  <2> QED
    BY <2>1, <2>2
<1> HIDE DEF S
<1>2. Max(S) = d
  BY <1>1, MaxIs
<1> QED
  BY <1>2 DEF LineTo, S

\* Such a place there is.
LEMMA LineBegins ==
  ASSUME NEW T, NEW k \in Nat, k > 0
  PROVE  \E d \in Nat : d < k /\ (d = 0 \/ T[d] = Newline) /\ \A j \in d + 1..k - 1 : T[j] # Newline
<1> DEFINE B == {d \in 0..k - 1 : d = 0 \/ T[d] = Newline}
           C == {k - 1 - d : d \in B}
<1>1. C \subseteq Nat /\ k - 1 \in C
  <2>1. 0 \in B /\ k - 1 - 0 = k - 1
    OBVIOUS
  <2> QED
    BY <2>1
<1>2. PICK c \in C : \A y \in C : c <= y
  BY <1>1, LeastOfSet
<1>3. PICK d \in B : c = k - 1 - d
  BY <1>2
<1>4. \A y \in B : y <= d
  <2> SUFFICES ASSUME NEW y \in B PROVE y <= d
    OBVIOUS
  <2>1. k - 1 - y \in C
    OBVIOUS
  <2>2. k - 1 - d <= k - 1 - y
    BY <1>2, <1>3, <2>1
  <2> QED
    BY <2>2
<1>5. ASSUME NEW j \in d + 1..k - 1 PROVE T[j] # Newline
  <2>1. j \in 0..k - 1 /\ ~(j <= d)
    OBVIOUS
  <2> QED
    BY <1>4, <2>1
<1> QED
  BY <1>5

\* strncmp at every place, and the word somewhere in the text.
LEMMA MatchesHolds ==
  ASSUME NEW text \in Text, NEW s \in Text, s # <<>>
  PROVE  Matches(text, s) <=> Holds(text, s)
<1>1. PICK n \in Nat, m \in Nat : n = Len(text) /\ m = Len(s) /\ m >= 1
  <2>1. Len(text) \in Nat /\ Len(s) \in Nat
    BY TextLen
  <2>2. Len(s) # 0
    BY EmptySeq DEF Text
  <2> QED
    BY <2>1, <2>2
<1>2. ASSUME NEW c \in 0..n - m, SubSeq(text, c + 1, c + m) = s PROVE Holds(text, s)
  <2>1. PICK i \in 1..n : i = c + 1 /\ i + m - 1 <= n /\ i + m - 1 = c + m
    BY <1>1
  <2> QED
    BY <1>1, <1>2, <2>1 DEF Holds
<1>3. ASSUME NEW i \in 1..n, i + m - 1 <= n, SubSeq(text, i, i + m - 1) = s PROVE Matches(text, s)
  <2>1. PICK c \in 0..n - m : c + 1 = i /\ c + m = i + m - 1
    <3>1. i - 1 \in 0..n - m /\ (i - 1) + 1 = i /\ (i - 1) + m = i + m - 1
      BY <1>1, <1>3
    <3> QED
      BY <3>1
  <2> QED
    BY <1>1, <1>3, <2>1 DEF Matches
<1> QED
  BY <1>1, <1>2, <1>3 DEF Matches, Holds
\* What there is to show of the first n places of entry e.
Search(e, n) == FlattenSeq([k \in 1..n |-> FoundAt(e, args, k)])

\* An entry of the disk: its name leads back to it.
LEMMA PlainEntry ==
  ASSUME disk \in Images, NEW e \in 1..Len(disk)
  PROVE  /\ disk[e].name \in Plain /\ disk[e].data \in Text
         /\ TextLines(e) => disk[e].data \in Plain
         /\ disk[e].kind # "file" => disk[e].data = <<>>
         /\ Named(disk[e].name) = e
<1>1. /\ e \in DOMAIN disk /\ disk[e].name \in Text /\ disk[e].data \in Text
      /\ DOMAIN disk = 1..Len(disk)
  BY DiskIs
<1>2. /\ \A f \in DOMAIN disk : disk[e].name = disk[f].name => e = f
      /\ disk[e].kind # "file" => disk[e].data = <<>>
      /\ Nul \notin ToSet(disk[e].name)
  BY <1>1, ProgramsAssumption
<1>3. Entries(disk[e].name) = {e}
  BY <1>1, <1>2 DEF Entries
<1>4. Named(disk[e].name) = e
  BY <1>3, MinIs DEF Named
<1> QED
  BY <1>1, <1>2, <1>4, PlainIs DEF TextLines

\* What strlen counts of a text has no zero.
LEMMA StringPlain ==
  ASSUME NEW s \in Text
  PROVE  CString(s) \in Plain
<1> DEFINE K == {k \in DOMAIN s : s[k] = Nul}
<1>1. Len(s) \in Nat /\ DOMAIN s = 1..Len(s) /\ s \in Seq(Char)
  BY TextLen, LenProperties DEF Text
<1>2. CASE K = {}
  <2>1. CString(s) = s
    BY <1>2, StringText
  <2>2. Nul \notin ToSet(s)
    BY <1>2 DEF ToSet
  <2> QED
    BY <2>1, <2>2, PlainIs
<1>3. CASE K # {}
  <2>0. K \subseteq Nat /\ K \subseteq 1..Len(s)
    BY <1>1
  <2>1. Min(K) \in K /\ Min(K) \in 1..Len(s) /\ \A y \in K : Min(K) <= y
    <3> HIDE DEF K
    <3>1. Min(K) \in K /\ \A y \in K : Min(K) <= y
      BY <1>3, <2>0, MinIn
    <3> QED
      BY <2>0, <3>1
  <2>2. PICK m \in 1..Len(s) : m = Min(K) /\ \A y \in K : m <= y
    BY <2>1
  <2>3. PICK i \in Int, j \in Int : i = 1 /\ j = m - 1 /\ j < m /\ j <= Len(s)
    BY <1>1
  <2>4. CString(s) = SubSeq(s, i, j)
    BY <1>3, <2>2, <2>3 DEF CString, First
  <2>5. \A k \in i..j : s[k] \in Char \ {Nul}
    <3> SUFFICES ASSUME NEW k \in i..j PROVE s[k] \in Char \ {Nul}
      OBVIOUS
    <3>1. k \in 1..Len(s) /\ ~(m <= k)
      BY <2>3
    <3>2. k \notin K
      BY <2>2, <3>1
    <3> QED
      BY <1>1, <3>1, <3>2, ElementOfSeq
  <2>6. SubSeq(s, i, j) \in Seq(Char \ {Nul})
    BY <2>5, SubSeqProperties
  <2> QED
    BY <2>4, <2>6 DEF Plain
<1> QED
  BY <1>2, <1>3

\* What is shown of a line: its file, and the line.
Line(name, l) == name \o <<":">> \o l \o <<Newline>>

\* What is shown of a line has no zeros.
LEMMA LinePlain ==
  ASSUME NEW name \in Plain, NEW l \in Plain PROVE Line(name, l) \in Plain
<1>1. PICK c \in Char \ {Nul}, k \in Char \ {Nul} : c = ":" /\ k = Newline
  BY DEF Char, Nul, Newline
<1>2. PICK q \in Plain, s \in Plain : q = <<c>> /\ s = <<k>>
  <2>1. ASSUME NEW x \in Char \ {Nul} PROVE <<x>> \in Plain
    <3>1. <<x>> = Append(<<>>, x) /\ <<>> \in Seq(Char \ {Nul})
      BY EmptySeq
    <3>2. Append(<<>>, x) \in Seq(Char \ {Nul})
      BY <3>1, AppendProperties
    <3> QED
      BY <3>1, <3>2 DEF Plain
  <2> QED
    BY <2>1
<1>3. name \o q \in Plain
  BY ConcatProperties DEF Plain
<1>4. (name \o q) \o l \in Plain
  BY <1>3, ConcatProperties DEF Plain
<1>5. ((name \o q) \o l) \o s \in Plain
  BY <1>4, ConcatProperties DEF Plain
<1> QED
  BY <1>1, <1>2, <1>5 DEF Line

\* What grep shows of a line: all of it, if it has no zero.
LEMMA ShowsPlain ==
  ASSUME fname \in Plain, NEW text \in Text
  PROVE  /\ Shows(text) \in Plain
         /\ text \in Plain /\ Matches(text, args) => Shows(text) = Line(fname, text)
         /\ ~Matches(text, args) => Shows(text) = <<>>
<1>1. fname \in Text /\ CString(fname) = fname
  <2>1. \A x \in Plain : x \in Text /\ \A k \in DOMAIN x : x[k] # Nul
    BY PlainText, LenProperties, ElementOfSeq DEF Plain
  <2> QED
    BY <2>1, StringText
<1>2. CString(text) \in Plain
  BY StringPlain
<1>3. text \in Plain => CString(text) = text
  <2>1. text \in Plain => \A k \in DOMAIN text : text[k] # Nul
    BY LenProperties, ElementOfSeq DEF Plain
  <2> QED
    BY <2>1, StringText
<1>4. Line(fname, CString(text)) \in Plain /\ <<>> \in Plain
  BY <1>2, LinePlain, EmptySeq DEF Plain
<1>5. Shows(text) = IF Matches(text, args) THEN Line(fname, CString(text)) ELSE <<>>
  BY <1>1 DEF Shows, Line
<1> QED
  BY <1>3, <1>4, <1>5

\* Neither has a part of a text without them.
LEMMA PartPlain ==
  ASSUME NEW T \in Plain, NEW i \in Nat, NEW j \in Int, j <= Len(T)
  PROVE  /\ SubSeq(T, i + 1, j) \in Plain
         /\ Len(SubSeq(T, i + 1, j)) = IF i < j THEN j - i ELSE 0
<1>1. \A k \in i + 1..j : T[k] \in Char \ {Nul}
  <2>1. \A k \in 1..Len(T) : T[k] \in Char \ {Nul}
    BY ElementOfSeq DEF Plain
  <2> QED
    BY <2>1
<1> QED
  BY <1>1, SubSeqProperties DEF Plain

\* Nor what there is to show of a line.
LEMMA FoundPlain ==
  ASSUME disk \in Images, NEW e \in 1..Len(disk), TextLines(e), NEW s,
         NEW k \in 1..Len(disk[e].data) + 1
  PROVE  FoundAt(e, s, k) \in Plain
<1>1. PICK T \in Plain, name \in Plain : T = disk[e].data /\ name = disk[e].name
  BY PlainEntry
<1>2. Len(T) \in Nat /\ k \in Nat /\ k > 0 /\ k - 1 <= Len(T) /\ k - 1 \in Int
  BY <1>1, LenProperties DEF Plain
<1>3. PICK d \in Nat : d < k /\ (d = 0 \/ T[d] = Newline) /\ \A j \in d + 1..k - 1 : T[j] # Newline
  BY <1>2, LineBegins
<1>4. LineTo(T, k) = SubSeq(T, d + 1, k - 1)
  BY <1>2, <1>3, LineIs
<1>5. PICK l \in Plain : l = LineTo(T, k)
  BY <1>2, <1>4, PartPlain
<1>6. Line(name, l) \in Plain /\ <<>> \in Plain
  BY LinePlain, EmptySeq DEF Plain
<1> QED
  BY <1>1, <1>5, <1>6 DEF FoundAt, Line

\* One place more.
LEMMA SearchNext ==
  ASSUME disk \in Images, NEW e \in 1..Len(disk), TextLines(e),
         NEW n \in Nat, n <= Len(disk[e].data)
  PROVE  /\ Search(e, n) \in Text /\ Search(e, n + 1) \in Text
         /\ Search(e, n + 1) = Search(e, n) \o FoundAt(e, args, n + 1)
<1>1. PICK L \in Nat : L = Len(disk[e].data)
  BY PlainEntry, LenProperties DEF Plain
<1>2. \A k \in 1..L + 1 : FoundAt(e, args, k) \in Text
  BY <1>1, FoundPlain, PlainText
<1>3. PICK ss : ss = [k \in 1..n |-> FoundAt(e, args, k)]
  OBVIOUS
<1>4. PICK tt : tt = [k \in 1..n + 1 |-> FoundAt(e, args, k)]
  OBVIOUS
<1>5. \A k \in 1..n + 1 : k \in 1..L + 1
  BY <1>1
<1>6. ss \in Seq(Text) /\ Len(ss) = n
  <2>1. ss \in [1..n -> Text]
    BY <1>2, <1>3, <1>5
  <2> QED
    BY <2>1
<1>7. tt \in Seq(Text) /\ Len(tt) = n + 1
  <2>1. tt \in [1..n + 1 -> Text]
    BY <1>2, <1>4, <1>5
  <2> QED
    BY <2>1
<1>8. (\A k \in 1..n : tt[k] = ss[k]) /\ tt[n + 1] = FoundAt(e, args, n + 1)
  BY <1>3, <1>4
<1>9. FlattenSeq(tt) = FlattenSeq(ss) \o FoundAt(e, args, n + 1)
  BY <1>6, <1>7, <1>8, FlattenNext
<1>10. FlattenSeq(ss) \in Text /\ FlattenSeq(tt) \in Text
  BY <1>6, <1>7, FlattenText
<1> QED
  BY <1>3, <1>4, <1>9, <1>10 DEF Search

\* Before the first place nothing is to be shown.
LEMMA SearchNone == \A e : Search(e, 0) = <<>>
<1> SUFFICES ASSUME NEW e PROVE Search(e, 0) = <<>>
  OBVIOUS
<1>1. [k \in 1..0 |-> FoundAt(e, args, k)] = <<>>
  OBVIOUS
<1> QED
  BY <1>1, FlattenNone DEF Search

\* Places where no line ends have nothing to show.
LEMMA SearchSkips ==
  ASSUME disk \in Images, NEW e \in 1..Len(disk), TextLines(e),
         NEW m \in Nat, NEW n \in Nat, m <= n, n <= Len(disk[e].data) + 1,
         \A k \in m + 1..n : k \notin LineEnds(disk[e].data)
  PROVE  Search(e, n) = Search(e, m)
<1>1. PICK L \in Nat : L = Len(disk[e].data)
  BY PlainEntry, LenProperties DEF Plain
<1> DEFINE S == {i \in Nat : m + i <= n => Search(e, m + i) = Search(e, m)}
<1>2. 0 \in S
  OBVIOUS
<1>3. ASSUME NEW i \in Nat, i \in S PROVE i + 1 \in S
  <2> SUFFICES ASSUME m + (i + 1) <= n PROVE Search(e, m + (i + 1)) = Search(e, m)
    OBVIOUS
  <2>1. PICK j \in Nat : j = m + i /\ j <= n /\ m + (i + 1) = j + 1 /\ j + 1 \in m + 1..n /\ j <= L
    BY <1>1
  <2>2. Search(e, j) = Search(e, m)
    BY <1>3, <2>1
  <2>3. Search(e, j) \in Text /\ Search(e, j + 1) = Search(e, j) \o FoundAt(e, args, j + 1)
    BY <1>1, <2>1, SearchNext
  <2>4. FoundAt(e, args, j + 1) = <<>>
    BY <2>1 DEF FoundAt
  <2>5. PICK x \in Seq(Char) : x = Search(e, j)
    BY <2>3 DEF Text
  <2>6. x \o <<>> = x
    BY ConcatEmptySeq
  <2> QED
    BY <2>1, <2>2, <2>3, <2>4, <2>5, <2>6
<1> HIDE DEF S
<1>4. Nat \subseteq S
  BY <1>2, <1>3, Induction
<1>5. PICK i \in Nat : m + i = n
  <2>1. n - m \in Nat /\ m + (n - m) = n
    OBVIOUS
  <2> QED
    BY <2>1
<1>6. i \in S /\ m + i <= n
  BY <1>4, <1>5
<1> QED
  BY <1>5, <1>6 DEF S
\* The word grep looks for.
LEMMA SecondWordText ==
  ASSUME line \in Text PROVE SecondWord \in Text
<1>1. PICK L \in Nat : L = Len(line) /\ DOMAIN line = 1..L
  BY LenProperties DEF Text
<1>2. Blanks \subseteq 1..L + 1 /\ L + 1 \in Blanks
  BY <1>1 DEF Blanks
<1>3. Min(Blanks) \in 1..L + 1
  <2>1. Blanks \subseteq Nat /\ Blanks # {}
    BY <1>2
  <2> QED
    BY <1>2, <2>1, MinIn
<1>4. CASE Letters = {} \/ \E k \in Min(Blanks)..Min(Letters) : line[k] \in {Newline, Nul}
  BY <1>4, NoText DEF SecondWord
<1>5. CASE ~(Letters = {} \/ \E k \in Min(Blanks)..Min(Letters) : line[k] \in {Newline, Nul})
  <2>1. Letters \subseteq 1..L
    BY <1>1, <1>3 DEF Letters
  <2>2. PICK b \in 1..L : b = Min(Letters)
    <3>1. Letters \subseteq Nat /\ Letters # {}
      BY <1>5, <2>1
    <3>2. Min(Letters) \in Letters
      BY <3>1, MinIn
    <3> QED
      BY <2>1, <3>2
  <2>3. PICK S : S = {k \in Blanks : k > b}
    OBVIOUS
  <2>4. L + 1 \in S /\ S \subseteq 1..L + 1
    <3>1. L + 1 > b
      OBVIOUS
    <3>2. L + 1 \in S /\ S \subseteq Blanks
      BY <1>2, <2>3, <3>1, Zenon
    <3> QED
      BY <1>2, <3>2
  <2>5. PICK m \in 1..L + 1 : m = Min(S)
    <3>1. S \subseteq Nat /\ S # {}
      BY <2>4
    <3> QED
      BY <2>4, <3>1, MinIn
  <2>6. SecondWord = SubSeq(line, b, m - 1)
    BY <1>5, <2>2, <2>3, <2>5 DEF SecondWord
  <2>7. PICK i \in Nat, j \in Int : i + 1 = b /\ j = m - 1 /\ j <= Len(line)
    <3>1. b - 1 \in Nat /\ (b - 1) + 1 = b /\ m - 1 \in Int /\ m - 1 <= L
      OBVIOUS
    <3> QED
      BY <1>1, <3>1
  <2>8. SubSeq(line, i + 1, j) \in Text
    BY <2>7, Parts
  <2> QED
    BY <2>6, <2>7, <2>8
<1> QED
  BY <1>4, <1>5

\* A line of a text lies between places d and k.
LineAt(T, d, k) ==
  /\ d < k /\ k <= Len(T) + 1 /\ k \in LineEnds(T)
  /\ (d = 0 \/ T[d] = Newline) /\ \A j \in d + 1..k - 1 : T[j] # Newline

\* At the end of a file without an unfinished line all of it has been searched.
LEMMA SearchEnds ==
  ASSUME disk \in Images, NEW e \in 1..Len(disk), TextLines(e),
         NEW T, T = disk[e].data, NEW n \in Nat,
         n = Len(T) + 1 \/ (n = Len(T) /\ (n = 0 \/ T[n] = Newline))
  PROVE  Found(e, args) = Search(e, n)
<1>1. Len(T) \in Nat /\ T \in Plain
  BY PlainEntry, LenProperties DEF Plain
<1>3. Found(e, args) = Search(e, Len(T) + 1)
  BY DEF Found, Search
<1>4. CASE n = Len(T) + 1
  BY <1>3, <1>4
<1>5. CASE n = Len(T) /\ (n = 0 \/ T[n] = Newline)
  <2>1. PICK m \in Nat : m = n + 1 /\ n <= m /\ m <= Len(T) + 1 /\ m = Len(T) + 1
    BY <1>5
  <2>2. \A j \in n + 1..m : j \notin LineEnds(T)
    <3> SUFFICES ASSUME NEW j \in n + 1..m PROVE j \notin LineEnds(T)
      OBVIOUS
    <3>1. j = Len(T) + 1 /\ ~(j <= Len(T))
      BY <1>1, <1>5, <2>1
    <3>2. CASE n = 0
      <4>1. T = <<>>
        BY <1>1, <1>5, <3>2, EmptySeq DEF Plain
      <4> QED
        BY <3>1, <4>1 DEF LineEnds
    <3>3. CASE T[n] = Newline
      BY <1>5, <3>1, <3>3 DEF LineEnds
    <3> QED
      BY <1>5, <3>2, <3>3
  <2>3. Search(e, m) = Search(e, n)
    BY <2>1, <2>2, SearchSkips
  <2> QED
    BY <1>3, <2>1, <2>3
<1> QED
  BY <1>4, <1>5

\* The texts x and y make z.
Pasted(x, y, z) == x \o y = z

\* What is shown of a line is what there is to show of it.
LEMMA LineShown ==
  ASSUME disk \in Images, NEW e \in 1..Len(disk), TextLines(e), NEW T, T = disk[e].data,
         NEW d \in Nat, NEW k \in Nat, LineAt(T, d, k),
         NEW l, l = SubSeq(T, d + 1, k - 1), args \in Text, args # <<>>,
         fname = disk[e].name
  PROVE  Pasted(Search(e, d), Shows(l), Search(e, k))
<1>1. /\ l \in Plain /\ Search(e, d) \in Text /\ FoundAt(e, args, k) \in Plain
      /\ Search(e, k) = Search(e, d) \o FoundAt(e, args, k)
      /\ FoundAt(e, args, k) = IF Holds(l, args) THEN Line(disk[e].name, l) ELSE <<>>
  <2>0. /\ d < k /\ k <= Len(T) + 1 /\ k \in LineEnds(T)
        /\ d = 0 \/ T[d] = Newline
        /\ \A j \in d + 1..k - 1 : T[j] # Newline
    BY DEF LineAt
  <2>1. T \in Plain /\ Len(T) \in Nat /\ disk[e].name \in Plain
    BY PlainEntry, LenProperties DEF Plain
  <2>2. LineTo(T, k) = l
    BY <2>0, LineIs
  <2>3. l \in Plain
    <3>1. k - 1 \in Int /\ k - 1 <= Len(T)
      BY <2>0, <2>1
    <3> QED
      BY <2>1, <3>1, PartPlain
  <2>4. FoundAt(e, args, k) = IF Holds(l, args) THEN Line(disk[e].name, l) ELSE <<>>
    BY <2>0, <2>2 DEF FoundAt, Line
  <2>5. FoundAt(e, args, k) \in Plain
    <3>1. k \in 1..Len(T) + 1
      BY <2>0, <2>1
    <3> QED
      BY <3>1, FoundPlain
  <2>6. PICK n \in Nat : n = k - 1 /\ n + 1 = k /\ d <= n /\ n <= Len(T) /\ n <= Len(T) + 1
    <3>1. k - 1 \in Nat /\ (k - 1) + 1 = k /\ d <= k - 1 /\ k - 1 <= Len(T) /\ k - 1 <= Len(T) + 1
      BY <2>0, <2>1
    <3> QED
      BY <3>1
  <2>7. Search(e, k) = Search(e, n) \o FoundAt(e, args, k)
    BY <2>6, SearchNext
  <2>8. Search(e, n) = Search(e, d)
    <3>1. ASSUME NEW j \in d + 1..n PROVE j \notin LineEnds(T)
      <4>1. j \in d + 1..k - 1 /\ j <= Len(T)
        BY <2>0, <2>1, <2>6
      <4>2. T[j] # Newline
        BY <2>0, <4>1
      <4> QED
        BY <4>1, <4>2 DEF LineEnds
    <3> QED
      BY <2>6, <3>1, SearchSkips
  <2>9. Search(e, d) \in Text
    <3>1. d <= Len(T)
      BY <2>0, <2>1
    <3> QED
      BY <3>1, SearchNext
  <2> QED
    BY <2>3, <2>4, <2>5, <2>7, <2>8, <2>9
<1>2. Matches(l, args) <=> Holds(l, args)
  BY <1>1, PlainText, MatchesHolds
<1>3. Shows(l) = FoundAt(e, args, k)
  <2>1. fname \in Plain /\ l \in Text
    BY <1>1, PlainEntry, PlainText
  <2> QED
    BY <1>1, <1>2, <2>1, ShowsPlain
<1> QED
  BY <1>1, <1>3 DEF Pasted
-----------------------------------------------------------------------------
(* grep finds the lines that hold the word. *)

\* The text do_one_file is at, what it has shown of it, how much of it has been read, and where in it the
\* buffer begins.
Bytes  == disk[dir_count].data
Here   == shown[dir_count]
Pos    == fd_arr[3].pos
Offset == Pos - last

\* A line begins behind place d.
LineAfter(d) == d = 0 \/ Bytes[d] = Newline

\* What the buffer holds from start on.
Buffered(start) == \A i \in start..last - 1 : data[i] = Bytes[Offset + i + 1]

\* All lines that end before place d have been shown, or all there are.
ShownBefore(d) ==
  d \in 0..Len(Bytes) /\ LineAfter(d) /\ Here = Search(dir_count, d)

ShownAll == last = 0 /\ Pos = Len(Bytes) /\ Here = Found(dir_count, args)

FillInv ==
  /\ last < BUFSIZE /\ last <= Pos /\ \A i \in 0..BUFSIZE : data[i] # Newline
  /\ Buffered(0) /\ (ShownBefore(Offset) \/ ShownAll)

LineInv ==
  /\ last <= Pos /\ line_start <= last
  /\ cnt = 0 \/ last < BUFSIZE => Pos = Len(Bytes)
  /\ \A i \in 0..BUFSIZE : data[i] = Newline => i \in line_start..last - 1
  /\ Buffered(line_start)
  /\ ShownBefore(Offset + line_start) \/ (ShownAll /\ cnt = 0 /\ line_start = 0)

\* How far the search of a text is.
TextAt ==
  /\ Pos \in 0..Len(Bytes)
  /\ pc = "file" => Pos = 0 /\ Here = <<>>
  /\ pc = "fill" => FillInv
  /\ pc = "line" => LineInv

\* What GrepFinds promises of an entry that has been searched.
Clean(e) == TextLines(e) /\ e \notin junk
Right(e) == IF disk[e].name[1] = "." THEN shown[e] = <<>>
                                     ELSE Clean(e) => shown[e] = Found(e, args)

\* n entries have been begun, and m of them searched.
Shape(n, m) ==
  /\ shown \in Seq(Text) /\ Len(shown) = n /\ out = FlattenSeq(shown)
  /\ \A e \in 1..m : Right(e)

InFile ==
  /\ dir_count \in 1..Len(disk) /\ fname = disk[dir_count].name /\ fname[1] # "."
  /\ Shape(dir_count, dir_count - 1)
  /\ Clean(dir_count) => IF pc = "close" THEN Here = Found(dir_count, args) ELSE TextAt

\* What grep has shown at each of its steps.
SearchAt ==
  /\ pc \in {"begin", "opened"} => Shape(0, 0)
  /\ pc = "list" => Shape(dir_count, dir_count)
  /\ pc = "entry" => IF ret = 0 THEN Shape(Len(disk), Len(disk))
                                ELSE Shape(dir_count - 1, dir_count - 1)
  /\ pc \in {"file", "fill", "line", "close"} => InFile

SearchInv ==
  /\ program = "shell" /\ pc # "answer" => shown = <<>>
  /\ program = "grep" => SearchAt

\* A step after which grep goes on, or one that concerns another program.
LEMMA SearchGoes ==
  ASSUME program' = "grep", SearchAt' PROVE SearchInv' /\ GrepFinds'
BY DEF SearchInv, GrepFinds, Ended, At

\* A step of another program.
LEMMA OthersFind ==
  ASSUME program' # "grep",
         program' = "shell" => pc' = "answer" \/ shown' = <<>>,
         program' # "shell" \/ pc' # "answer" \/ resident' # "grep" \/ status' \in {-1, 256}
  PROVE  SearchInv' /\ GrepFinds'
BY DEF SearchInv, GrepFinds, Ended, At

\* The shell starts grep with nothing shown.
LEMMA ShellFinds ==
  ProgramsInv /\ SearchInv /\ ShellStep /\ ProgramsInv' => SearchInv' /\ GrepFinds'
<1> SUFFICES ASSUME ProgramsInv, SearchInv, ShellStep, ProgramsInv'
             PROVE  SearchInv' /\ GrepFinds'
  OBVIOUS
<1>1. CASE ShellReads
  <2>1. program' = "shell" /\ pc' = "execute" /\ shown' = <<>>
    BY <1>1 DEF ShellReads, At, Goto, SearchInv, grep_vars
  <2> QED
    BY <2>1, OthersFind
<1>2. CASE ShellExecutes
  <2>1. shown' = <<>>
    BY <1>2 DEF ShellExecutes, At, SearchInv, grep_vars
  <2>2. CASE program' = "grep"
    <3>1. pc' = "begin"
      BY <1>2, <2>2, ExecuteGives
    <3>2. out' = <<>>
      BY <2>2, <3>1 DEF ProgramsInv, RunningInv
    <3>3. Shape(0, 0)'
      <4>1. <<>> \in Seq(Text) /\ Len(<<>>) = 0
        BY EmptySeq
      <4> QED
        BY <2>1, <3>2, <4>1, FlattenNone DEF Shape
    <3> QED
      BY <2>2, <3>1, <3>3, SearchGoes DEF SearchAt
  <2>3. CASE program' # "grep"
    <3>1. program' # "shell" \/ pc' # "answer" \/ status' \in {-1, 256}
      BY <1>2, ExecuteGives
    <3> QED
      BY <2>1, <2>3, <3>1, OthersFind
  <2> QED
    BY <2>2, <2>3
<1>3. CASE ShellAnswers
  <2>1. program' = "shell" /\ pc' = "prompt" /\ shown' = <<>>
    BY <1>3 DEF ShellAnswers, At, Goto
  <2> QED
    BY <2>1, OthersFind
<1> QED
  BY <1>1, <1>2, <1>3 DEF ShellStep

\* cat, ls and syserr do not become grep.
LEMMA OthersSearch ==
  ProgramsInv /\ (ListerStep \/ SyserrStep) => SearchInv' /\ GrepFinds'
<1> SUFFICES ASSUME ProgramsInv, ListerStep \/ SyserrStep PROVE SearchInv' /\ GrepFinds'
  OBVIOUS
<1>1. /\ program \in Listers \cup {"syserr"} /\ resident' = resident
      /\ program' = program \/ (program' = "shell" /\ pc' = "answer")
  <2>1. CASE ListerOpens
    BY <2>1 DEF ListerOpens, SayAndReturn, Back, Goto, shell_vars
  <2>2. CASE ListerOpened
    BY <2>2 DEF ListerOpened, SayAndReturn, Back, Goto, shell_vars
  <2>3. CASE ListerReads
    BY <2>3 DEF ListerReads, Goto, shell_vars
  <2>4. CASE ListerWrites
    BY <2>4 DEF ListerWrites, SayAndReturn, Returns, Back, Goto, shell_vars
  <2>5. CASE SyserrAsks
    BY <2>5 DEF SyserrAsks, At, Goto, shell_vars
  <2>6. CASE SyserrReads
    BY <2>6 DEF SyserrReads, At, Goto, shell_vars
  <2>7. CASE SyserrChooses
    BY <2>7 DEF SyserrChooses, At, SayAndReturn, Back, Goto, shell_vars
  <2>8. CASE SyserrCalls
    BY <2>8 DEF SyserrCalls, At, shell_vars
  <2>9. CASE TestEnds
    BY <2>9 DEF TestEnds, At, Goto, shell_vars
  <2>10. CASE SyserrEnds
    BY <2>10 DEF SyserrEnds, At, Back
  <2> QED
    BY <2>1, <2>2, <2>3, <2>4, <2>5, <2>6, <2>7, <2>8, <2>9, <2>10 DEF ListerStep, SyserrStep
<1>2. resident = program
  BY <1>1 DEF ProgramsInv, RunningInv, Listers
<1> QED
  BY <1>1, <1>2, OthersFind DEF Listers

\* The lines to find are those of the disk and the word.
LEMMA SearchStays ==
  ASSUME UNCHANGED <<disk, args>>
  PROVE  /\ \A e : Found(e, args)' = Found(e, args) /\ TextLines(e)' = TextLines(e)
         /\ \A e, n : Search(e, n)' = Search(e, n)
<1>1. \A e, s, k : FoundAt(e, s, k)' = FoundAt(e, s, k)
  BY DEF FoundAt
<1>2. \A e : Found(e, args)' = Found(e, args)
  BY <1>1 DEF Found
<1>3. \A e, n : Search(e, n)' = Search(e, n)
  BY <1>1 DEF Search
<1> QED
  BY <1>2, <1>3 DEF TextLines

\* An entry that has been searched stays so.
LEMMA RightStays ==
  ASSUME UNCHANGED <<disk, args>>, junk \subseteq junk', NEW e, Right(e), shown'[e] = shown[e]
  PROVE  Right(e)'
<1>1. Found(e, args)' = Found(e, args) /\ (Clean(e)' => Clean(e))
  BY SearchStays DEF Clean
<1> QED
  BY <1>1 DEF Right

\* So do all that have been searched.
LEMMA ShapeStays ==
  ASSUME UNCHANGED <<disk, args, shown, out>>, junk \subseteq junk',
         NEW n, NEW m, Shape(n, m)
  PROVE  Shape(n, m)'
<1>1. \A e \in 1..m : Right(e)'
  BY RightStays DEF Shape
<1> QED
  BY <1>1 DEF Shape

\* An entry that grep begins has nothing shown yet.
LEMMA ShapeBegins ==
  ASSUME UNCHANGED <<disk, args, junk, out>>, shown' = Append(shown, <<>>),
         NEW n \in Nat, Shape(n, n), NEW e, e = n + 1
  PROVE  Shape(e, n)' /\ shown'[e] = <<>>
<1>1. shown \in Seq(Text) /\ Len(shown) = n /\ out = FlattenSeq(shown) /\ <<>> \in Text
  BY NoText DEF Shape
<1>2. /\ shown' \in Seq(Text) /\ Len(shown') = e /\ shown'[e] = <<>>
      /\ \A k \in 1..n : shown'[k] = shown[k]
  BY <1>1, AppendProperties
<1>3. out' = FlattenSeq(shown')
  <2>1. FlattenSeq(shown') = FlattenSeq(shown) \o <<>>
    BY <1>1, <1>2, FlattenNext
  <2>2. PICK x \in Text : x = FlattenSeq(shown)
    BY <1>1, FlattenText
  <2>3. x \o <<>> = x
    BY ConcatEmptySeq DEF Text
  <2> QED
    BY <1>1, <2>1, <2>2, <2>3
<1>4. \A k \in 1..n : Right(k)'
  BY <1>2, RightStays DEF Shape
<1> QED
  BY <1>2, <1>3, <1>4 DEF Shape

\* More is shown of the entry grep is at.
LEMMA ShapeGrows ==
  ASSUME UNCHANGED <<disk, args, junk>>, NEW e \in Nat, e > 0, NEW n, n = e - 1, Shape(e, n),
         NEW x \in Text, shown' = [shown EXCEPT ![e] = shown[e] \o x], out' = out \o x
  PROVE  Shape(e, n)' /\ shown'[e] = shown[e] \o x
<1>1. /\ shown \in Seq(Text) /\ Len(shown) = e /\ out = FlattenSeq(shown)
      /\ n \in Nat /\ n + 1 = e /\ e \in 1..e
  BY DEF Shape
<1>2. PICK h \in Text : h = shown[e]
  BY <1>1, ElementOfSeq
<1>3. PICK y \in Text : y = h \o x
  BY ConcatProperties DEF Text
<1>4. /\ shown' \in Seq(Text) /\ Len(shown') = e /\ shown'[e] = y
      /\ \A k \in 1..n : shown'[k] = shown[k]
  <2>1. shown' = [shown EXCEPT ![e] = y] /\ DOMAIN shown = 1..e
    BY <1>1, <1>2, <1>3
  <2>2. ASSUME NEW k \in 1..n PROVE k \in 1..e /\ k # e
    BY <1>1
  <2>3. shown' \in Seq(Text) /\ Len(shown') = e
    <3>1. PICK i \in 1..Len(shown) : i = e
      BY <1>1
    <3>2. /\ [shown EXCEPT ![i] = y] \in Seq(Text)
          /\ Len([shown EXCEPT ![i] = y]) = Len(shown)
      BY <1>1, ExceptSeq
    <3> QED
      BY <1>1, <2>1, <3>1, <3>2
  <2>4. shown'[e] = y /\ \A k \in 1..n : shown'[k] = shown[k]
    BY <1>1, <2>1, <2>2
  <2> QED
    BY <2>3, <2>4
<1>5. PICK a \in Seq(Text) : Len(a) = n /\ \A k \in 1..n : a[k] = shown[k]
  <2> DEFINE b == [k \in 1..n |-> shown[k]]
  <2>1. \A k \in 1..n : shown[k] \in Text
    BY <1>1, ElementOfSeq
  <2>2. b \in Seq(Text) /\ Len(b) = n
    BY <1>1, <2>1
  <2> QED
    BY <2>2
<1>6. FlattenSeq(shown) = FlattenSeq(a) \o h
  BY <1>1, <1>2, <1>5, FlattenNext
<1>7. FlattenSeq(shown') = FlattenSeq(a) \o y
  <2>1. PICK v \in Seq(Text) : v = shown'
    BY <1>4
  <2>2. Len(v) = n + 1 /\ v[n + 1] = y /\ \A k \in 1..n : v[k] = a[k]
    BY <1>1, <1>4, <1>5, <2>1
  <2>3. FlattenSeq(v) = FlattenSeq(a) \o v[n + 1]
    BY <1>1, <1>5, <2>2, FlattenNext
  <2> QED
    BY <2>1, <2>2, <2>3
<1>8. PICK p \in Text : p = FlattenSeq(a)
  BY <1>5, FlattenText
<1>9. (p \o h) \o x = p \o (h \o x)
  BY JoinTexts
<1>10. out' = FlattenSeq(shown')
  BY <1>1, <1>3, <1>6, <1>7, <1>8, <1>9
<1>11. \A k \in 1..n : Right(k)'
  BY <1>4, RightStays DEF Shape
<1> QED
  BY <1>2, <1>3, <1>4, <1>10, <1>11 DEF Shape

\* grep opens the directory: nothing has been shown.
LEMMA GrepOpensFinds == ProgramsInv /\ SearchInv /\ GrepOpens => SearchInv' /\ GrepFinds'
<1> SUFFICES ASSUME ProgramsInv, SearchInv, GrepOpens PROVE SearchInv' /\ GrepFinds'
  OBVIOUS
<1>1. program = "grep" /\ pc = "begin" /\ KernelOK /\ Shape(0, 0)
      /\ UNCHANGED <<fd, grep_vars, syserr_vars>>
  BY DEF GrepOpens, At, ProgramsInv, TypesInv, SearchInv, SearchAt
<1>2. CASE args = <<>>
  <2>1. program' = "shell" /\ pc' = "answer" /\ args' = <<>>
    BY <1>2 DEF GrepOpens, SayAndReturn, Back
  <2> QED
    BY <2>1 DEF SearchInv, GrepFinds
<1>3. CASE args # <<>>
  <2>1. Open(Dot) /\ Goto("opened") /\ UNCHANGED shell_vars
    BY <1>3 DEF GrepOpens
  <2>2. /\ UNCHANGED <<disk, args, shown, out>> /\ junk \subseteq junk'
        /\ program' = "grep" /\ pc' = "opened"
    BY <1>1, <2>1, OpenTyped DEF Goto, shell_vars, grep_vars
  <2>3. Shape(0, 0)'
    BY <1>1, <2>2, ShapeStays
  <2> QED
    BY <2>2, <2>3, SearchGoes DEF SearchAt
<1> QED
  BY <1>2, <1>3

\* grep goes on.
LEMMA SearchFrom ==
  ASSUME program = "grep", SearchInv, program' = "grep", SearchAt => SearchAt'
  PROVE  SearchInv' /\ GrepFinds'
BY SearchGoes DEF SearchInv

\* It begins with the first entry.
LEMMA GrepOpenedFinds == ProgramsInv /\ SearchInv /\ GrepOpened => SearchInv' /\ GrepFinds'
<1> SUFFICES ASSUME ProgramsInv, SearchInv, GrepOpened PROVE SearchInv' /\ GrepFinds'
  OBVIOUS
<1>1. /\ program = "grep" /\ pc = "opened" /\ ret = 2 /\ dir_count = 0
      /\ UNCHANGED <<grep_vars, syserr_vars>>
  BY DEF GrepOpened, At, ProgramsInv, GrepInv
<1>2. Goto("list") /\ UNCHANGED <<kernel, shell_vars>>
  BY <1>1 DEF GrepOpened
<1>3. /\ UNCHANGED <<disk, args, shown, out>> /\ junk \subseteq junk' /\ dir_count' = 0
      /\ program' = "grep" /\ pc' = "list"
  BY <1>1, <1>2 DEF kernel, shell_vars, grep_vars, Goto
<1>4. ASSUME SearchAt PROVE SearchAt'
  <2>1. Shape(0, 0)'
    BY <1>1, <1>3, <1>4, ShapeStays DEF SearchAt
  <2>2. Shape(dir_count, dir_count)'
    BY <1>3, <2>1 DEF Shape
  <2> QED
    BY <1>3, <2>2 DEF SearchAt
<1> QED
  BY <1>1, <1>3, <1>4, SearchFrom

\* The directory gives the entry behind the one that has been searched.
LEMMA GrepListsFinds == ProgramsInv /\ SearchInv /\ GrepLists => SearchInv' /\ GrepFinds'
<1> SUFFICES ASSUME ProgramsInv, SearchInv, GrepLists PROVE SearchInv' /\ GrepFinds'
  OBVIOUS
<1>1. /\ program = "grep" /\ pc = "list" /\ UNCHANGED <<shell_vars, fd, grep_vars, syserr_vars>>
      /\ fd = 2 /\ fd_arr = One(Opened(Named(Dot), 0)) /\ KernelOK /\ disk \in Images
      /\ Read(2, MAX_FILENAME) /\ Goto("entry")
  BY DEF GrepLists, At, ProgramsInv, GrepInv, TypesInv, KernelOK
<1>2. ReadDirectory
  <2>1. fd_arr[2] = Opened(Named(Dot), 0) /\ 2 \in Fds
    BY <1>1, Descriptors
  <2>2. fd_arr[2].kind = "dir"
    BY <1>1, <2>1, DotIs DEF Opened
  <2> QED
    BY <1>1, <2>1, <2>2 DEF Read, Usable
<1>3. /\ UNCHANGED <<disk, args, shown, out>> /\ junk \subseteq junk'
      /\ program' = "grep" /\ pc' = "entry"
  BY <1>1, <1>2 DEF ReadDirectory, Goto, shell_vars, grep_vars
<1>4. PICK c \in Nat : c = dir_count /\ c <= Len(disk) /\ Len(disk) \in Nat
  BY <1>1, DiskIs DEF KernelOK
<1>5. ASSUME SearchAt PROVE SearchAt'
  <2>1. Shape(c, c)'
    BY <1>1, <1>3, <1>4, <1>5, ShapeStays DEF SearchAt
  <2>2. CASE c >= Len(disk)
    <3>1. ret' = 0 /\ Len(disk') = c
      BY <1>2, <1>3, <1>4, <2>2 DEF ReadDirectory, Answer
    <3>2. Shape(Len(disk), Len(disk))'
      BY <2>1, <3>1 DEF Shape
    <3> QED
      BY <1>3, <3>1, <3>2 DEF SearchAt
  <2>3. CASE c < Len(disk)
    <3>1. dir_count' = c + 1 /\ ret' = Len(disk[c + 1].name)
      BY <1>2, <1>4, <2>3 DEF ReadDirectory, Give, Answer
    <3>2. ret' # 0
      <4>1. c + 1 \in 1..Len(disk)
        BY <1>4, <2>3
      <4>2. PICK s \in Text : s = disk[c + 1].name /\ s # <<>>
        BY <1>1, <4>1, DiskIs
      <4>3. Len(s) # 0
        BY <4>2, EmptySeq DEF Text
      <4> QED
        BY <3>1, <4>2, <4>3
    <3>3. dir_count' - 1 = c
      BY <1>4, <3>1
    <3>4. Shape(dir_count - 1, dir_count - 1)'
      BY <2>1, <3>3 DEF Shape
    <3> QED
      BY <1>3, <3>2, <3>4 DEF SearchAt
  <2> QED
    BY <1>4, <2>2, <2>3
<1> QED
  BY <1>1, <1>3, <1>5, SearchFrom

\* A name that begins with a dot has nothing to show; when there is no entry left
\* all have been searched.
LEMMA GrepEntryFinds == ProgramsInv /\ SearchInv /\ GrepEntry => SearchInv' /\ GrepFinds'
<1> SUFFICES ASSUME ProgramsInv, SearchInv, GrepEntry PROVE SearchInv' /\ GrepFinds'
  OBVIOUS
<1>1. /\ program = "grep" /\ pc = "entry" /\ args # <<>>
      /\ UNCHANGED <<fd, file, data, last, line_start, cnt, junk, syserr_vars>>
      /\ fd = 2 /\ fd_arr = One(Opened(Named(Dot), 0)) /\ KernelOK /\ disk \in Images
      /\ IF ret = 0 THEN dir_count = 0
         ELSE dir_count > 0 /\ got = disk[dir_count].name /\ ret = Len(got)
  BY DEF GrepEntry, At, ProgramsInv, GrepInv, TypesInv, KernelOK
<1>2. CASE ret = 0
  <2>1. /\ program' = "shell" /\ pc' = "answer" /\ status' = 0 /\ args' = args
        /\ UNCHANGED kernel
    BY <1>2 DEF GrepEntry, Returns, Back
  <2>2. UNCHANGED <<disk, args, shown, out>> /\ junk \subseteq junk'
    BY <1>1, <1>2, <2>1 DEF GrepEntry, kernel
  <2>3. PICK n : n = Len(disk)
    OBVIOUS
  <2>4. Shape(n, n)
    BY <1>1, <1>2, <2>3 DEF SearchInv, SearchAt
  <2>5. Shape(n, n)'
    BY <2>2, <2>4, ShapeStays
  <2>6. DOMAIN disk' = 1..n /\ Len(disk') = n
    BY <1>1, <2>2, <2>3, DiskIs
  <2>7. GrepFinds'
    BY <2>1, <2>5, <2>6 DEF GrepFinds, Shape, Right, Clean
  <2>8. SearchInv'
    BY <2>1 DEF SearchInv
  <2> QED
    BY <2>7, <2>8
<1>3. CASE ret # 0
  <2>1. PICK e \in 1..Len(disk) : /\ e = dir_count /\ got = disk[e].name /\ got \in Text
                                  /\ got # <<>> /\ ret = Len(got) /\ ret > 0 /\ ret # -1
    <3>1. dir_count > 0 /\ got = disk[dir_count].name /\ ret = Len(got) /\ got \in Text
      BY <1>1, <1>3 DEF KernelOK
    <3>2. dir_count \in 1..Len(disk)
      BY <1>1, <3>1, DiskIs DEF KernelOK
    <3>3. ret \in Nat
      BY <3>1, TextLen
    <3> QED
      BY <1>1, <1>3, <3>1, <3>2, <3>3, DiskIs
  <2>2. PICK n \in Nat : n = e - 1 /\ n + 1 = e /\ n < Len(disk)
    <3>1. e - 1 \in Nat /\ (e - 1) + 1 = e /\ e - 1 < Len(disk)
      BY <1>1, DiskIs
    <3> QED
      BY <3>1
  <2>3. shown' = Append(shown, <<>>) /\ Shape(n, n)
    <3>1. SearchAt
      BY <1>1 DEF SearchInv
    <3> QED
      BY <1>1, <1>3, <2>1, <2>2, <3>1 DEF GrepEntry, SearchAt
  <2>4. CASE got[1] = "."
    <3>1. Goto("list") /\ UNCHANGED <<kernel, shell_vars, fname>>
      BY <2>1, <2>4 DEF GrepEntry
    <3>2. /\ UNCHANGED <<disk, args, out, dir_count, junk>>
          /\ program' = "grep" /\ pc' = "list"
      BY <1>1, <3>1 DEF kernel, shell_vars, Goto
    <3>3. Shape(e, n)' /\ shown'[e] = <<>>
      BY <2>2, <2>3, <3>2, ShapeBegins
    <3>4. Right(e)'
      BY <2>1, <2>4, <3>2, <3>3 DEF Right
    <3>5. \A k \in 1..e : k \in 1..n \/ k = e
      BY <2>2
    <3>6. Shape(e, e)'
      BY <3>3, <3>4, <3>5 DEF Shape
    <3>7. Shape(dir_count, dir_count)'
      BY <2>1, <3>2, <3>6 DEF Shape
    <3> QED
      BY <3>2, <3>7, SearchGoes DEF SearchAt
  <2>5. CASE got[1] # "."
    <3>1. fname' = got /\ Open(got) /\ Goto("file") /\ UNCHANGED shell_vars
      BY <1>3, <2>1, <2>5 DEF GrepEntry
    <3>2. PICK x : x = Opened(Named(Dot), 0) /\ x.kind # "closed" /\ fd_arr = One(x)
      BY <1>1, DotIs DEF Opened
    <3>3. Entries(got) # {}
      BY <1>1, <2>1, DiskIs DEF Entries
    <3>4. UNCHANGED <<disk, dir_count, out>> /\ fd_arr' = Two(x, Opened(Named(got), 0))
      BY <2>1, <3>1, <3>2, <3>3, OpenSecond
    <3>5. fd_arr'[3].pos = 0
      BY <3>4, Descriptors DEF Opened
    <3>6. UNCHANGED <<disk, args, junk>> /\ program' = "grep" /\ pc' = "file"
      BY <1>1, <3>1, <3>4 DEF shell_vars, Goto
    <3>7. Shape(e, n)' /\ shown'[e] = <<>>
      BY <2>2, <2>3, <3>4, <3>6, ShapeBegins
    <3>8. Shape(dir_count, dir_count - 1)'
      <4>1. dir_count' = e /\ dir_count' - 1 = n
        BY <2>1, <2>2, <3>4
      <4> QED
        BY <3>7, <4>1 DEF Shape
    <3>9. TextAt'
      <4>1. Len(disk[e].data) \in Nat
        BY <1>1, DiskIs, TextLen
      <4> QED
        BY <2>1, <3>4, <3>5, <3>6, <3>7, <4>1 DEF TextAt, Here, Pos, Bytes
    <3>10. InFile'
      BY <2>1, <2>5, <3>1, <3>4, <3>6, <3>8, <3>9 DEF InFile
    <3> QED
      BY <3>6, <3>10, SearchGoes DEF SearchAt
  <2> QED
    BY <2>4, <2>5
<1> QED
  BY <1>2, <1>3

\* Where grep is in a file, as far as the invariants tell.
LEMMA FileIs ==
  ASSUME ProgramsInv, InFile, program = "grep", pc \in {"file", "fill", "line", "close"}
  PROVE  /\ dir_count \in 1..Len(disk) /\ dir_count \in Nat /\ dir_count > 0
         /\ disk \in Images /\ fname = disk[dir_count].name /\ fname \in Plain
         /\ Bytes \in Text /\ Len(Bytes) \in Nat
         /\ fd_arr[3] = Opened(dir_count, Pos) /\ 3 \in Fds
         /\ fd_arr[1] = Std /\ out \in Text /\ BufferOK
         /\ BUFSIZE \in Nat /\ BUFSIZE > 0 /\ args # <<>>
<1>1. /\ KernelOK /\ BufferOK /\ disk \in Images /\ args # <<>> /\ fd_arr[1] = Std /\ 3 \in Fds
      /\ out \in Text
  BY GrepFile DEF KernelOK
<1>2. PICK e \in 1..Len(disk) : e = dir_count /\ fname = disk[e].name
  BY DEF InFile
<1>3. Bytes \in Text /\ Len(Bytes) \in Nat /\ Named(fname) = e /\ fname \in Plain
  BY <1>1, <1>2, PlainEntry, TextLen DEF Bytes
<1>4. PICK n \in Nat : fd_arr[3] = Opened(Named(fname), n)
  BY GrepFile
<1>5. fd_arr[3] = Opened(dir_count, Pos)
  BY <1>2, <1>3, <1>4 DEF Opened, Pos
<1>6. e \in Nat /\ e > 0
  BY <1>1, DiskIs
<1> QED
  BY <1>1, <1>2, <1>3, <1>5, <1>6, ProgramsAssumption

\* And if the file is a text.
LEMMA TextIs ==
  ASSUME ProgramsInv, InFile, Clean(dir_count), program = "grep",
         pc \in {"file", "fill", "line"}
  PROVE  /\ TextLines(dir_count) /\ Bytes \in Plain /\ Pos \in 0..Len(Bytes)
         /\ pc = "file" => Pos = 0 /\ Here = <<>>
         /\ pc = "fill" => FillInv
         /\ pc = "line" => LineInv
<1>1. TextLines(dir_count) /\ TextAt
  BY DEF InFile, Clean
<1>2. Bytes \in Plain
  BY <1>1, FileIs, PlainEntry DEF Bytes
<1> QED
  BY <1>1, <1>2 DEF TextAt

\* A step within a file that shows nothing.
LEMMA FileGoes ==
  ASSUME ProgramsInv, program = "grep", pc \in {"file", "fill"} \/ pc = "line", InFile,
         UNCHANGED <<disk, args, shown, out, dir_count, fname>>, junk \subseteq junk',
         program' = "grep", pc' \in {"fill", "line"},
         Clean(dir_count) /\ Clean(dir_count)' => TextAt'
  PROVE  SearchInv' /\ GrepFinds'
<1>1. PICK c, n : c = dir_count /\ n = dir_count - 1
  OBVIOUS
<1>2. Shape(c, n)'
  BY <1>1, ShapeStays DEF InFile
<1>3. dir_count' = c /\ dir_count' - 1 = n
  BY <1>1
<1>4. Shape(dir_count, dir_count - 1)'
  BY <1>2, <1>3 DEF Shape
<1>5. Clean(dir_count)' => Clean(dir_count)
  BY SearchStays DEF Clean
<1>6. InFile'
  BY <1>4, <1>5 DEF InFile
<1> QED
  BY <1>6, SearchGoes DEF SearchAt

\* The next entry follows.
LEMMA FileClosedFinds == ProgramsInv /\ SearchInv /\ FileClosed => SearchInv' /\ GrepFinds'
<1> SUFFICES ASSUME ProgramsInv, SearchInv, FileClosed PROVE SearchInv' /\ GrepFinds'
  OBVIOUS
<1>1. /\ program = "grep" /\ pc = "close" /\ file = 3 /\ Close(3)
      /\ UNCHANGED <<fd, grep_vars, syserr_vars>> /\ KernelOK
  BY GrepFile DEF FileClosed, At
<1>2. UNCHANGED <<disk, out, dir_count>>
  BY <1>1, CloseTyped
<1>3. ret' = 0
  <2>1. disk[Named(fname)].kind \in {"file", "rtc"} /\ 3 \in Fds
    BY <1>1, GrepFile
  <2>2. PICK n \in Nat : fd_arr[3] = Opened(Named(fname), n)
    BY <1>1, GrepFile
  <2>3. 3 \in 2..LastFd /\ Usable(3)
    BY <2>1, <2>2, Descriptors DEF Usable, Opened
  <2> QED
    BY <1>1, <2>3 DEF Close, Answer
<1>4. /\ UNCHANGED <<disk, args, shown, out>> /\ junk \subseteq junk'
      /\ program' = "grep" /\ pc' = "list"
  BY <1>1, <1>2, <1>3 DEF FileClosed, Goto, shell_vars, grep_vars
<1>5. ASSUME SearchAt PROVE SearchAt'
  <2>1. InFile
    BY <1>1, <1>5 DEF SearchAt
  <2>2. PICK c \in Nat, n \in Nat : c = dir_count /\ n = dir_count - 1 /\ n + 1 = c
    <3>1. dir_count - 1 \in Nat /\ (dir_count - 1) + 1 = dir_count
      BY <1>1, <2>1, FileIs
    <3> QED
      BY <1>1, <2>1, <3>1, FileIs
  <2>3. Right(c)
    BY <1>1, <2>1, <2>2 DEF InFile, Right, Here
  <2>4. \A k \in 1..c : k \in 1..n \/ k = c
    BY <2>2
  <2>5. Shape(c, c)
    BY <2>1, <2>2, <2>3, <2>4 DEF InFile, Shape
  <2>6. Shape(c, c)'
    BY <1>4, <2>5, ShapeStays
  <2>7. Shape(dir_count, dir_count)'
    BY <1>2, <2>2, <2>6 DEF Shape
  <2> QED
    BY <1>4, <2>7 DEF SearchAt
<1> QED
  BY <1>1, <1>4, <1>5, SearchFrom

\* What is shown of the file, in the state after a step.
LEMMA ShownThen ==
  ASSUME UNCHANGED <<disk, args, dir_count>>, NEW d, d \in 0..Len(Bytes), LineAfter(d),
         Here' = Search(dir_count, d)
  PROVE  ShownBefore(d)'
<1>1. PICK c : c = dir_count
  OBVIOUS
<1>2. Search(c, d)' = Search(c, d)
  BY SearchStays
<1>3. Bytes' = Bytes /\ dir_count' = c
  BY <1>1 DEF Bytes
<1> QED
  BY <1>1, <1>2, <1>3 DEF ShownBefore, LineAfter

\* The buffer is empty, and the file is at its first line.
LEMMA FileOpenedFinds == ProgramsInv /\ SearchInv /\ FileOpened => SearchInv' /\ GrepFinds'
<1> SUFFICES ASSUME ProgramsInv, SearchInv, FileOpened PROVE SearchInv' /\ GrepFinds'
  OBVIOUS
<1>1. program = "grep" /\ pc = "file" /\ ret = 3
  BY GrepFile DEF FileOpened, At
<1>2. PICK g \in Garbage :
        /\ last' = 0 /\ Goto("fill") /\ UNCHANGED <<kernel, shell_vars, fname, shown>>
        /\ data' = [i \in 0..BUFSIZE |-> g]
        /\ junk' = IF g = Newline THEN junk \cup {dir_count} ELSE junk
  BY <1>1 DEF FileOpened
<1>3. /\ UNCHANGED <<disk, args, shown, out, dir_count, fname, fd_arr>> /\ junk \subseteq junk'
      /\ program' = "grep" /\ pc' = "fill"
  BY <1>1, <1>2 DEF kernel, shell_vars, Goto
<1>4. InFile
  BY <1>1 DEF SearchInv, SearchAt
<1>5. ASSUME Clean(dir_count), Clean(dir_count)' PROVE TextAt'
  <2>1. /\ Pos = 0 /\ Pos \in 0..Len(Bytes) /\ Here = <<>> /\ Len(Bytes) \in Nat
        /\ BUFSIZE \in Nat /\ BUFSIZE > 0
    BY <1>1, <1>4, <1>5, FileIs, TextIs
  <2>2. Pos' = 0 /\ Bytes' = Bytes /\ Here' = <<>>
    BY <1>3, <2>1 DEF Pos, Bytes, Here
  <2>3. ShownBefore(0)'
    <3>1. Here' = Search(dir_count, 0)
      BY <2>2, SearchNone
    <3>2. PICK d : d = 0
      OBVIOUS
    <3>3. d \in 0..Len(Bytes) /\ LineAfter(d)
      BY <2>1, <3>2 DEF LineAfter
    <3> QED
      BY <1>3, <3>1, <3>2, <3>3, ShownThen
  <2>4. Offset' = 0
    BY <1>2, <2>2 DEF Offset
  <2>5. ShownBefore(Offset)'
    BY <2>3, <2>4 DEF ShownBefore, LineAfter
  <2>6. Buffered(0)'
    BY <1>2 DEF Buffered
  <2>7. \A i \in 0..BUFSIZE : data'[i] # Newline
    BY <1>2, <1>3, <1>5 DEF Clean
  <2>8. FillInv'
    BY <1>2, <2>1, <2>2, <2>5, <2>6, <2>7 DEF FillInv
  <2> QED
    BY <1>3, <2>1, <2>2, <2>8 DEF TextAt
<1> QED
  BY <1>1, <1>3, <1>4, <1>5, FileGoes

\* The place of the first newline from line_start on, or behind the last character.
LEMMA LineEndIs ==
  ASSUME BUFSIZE \in Nat, last \in 0..BUFSIZE, line_start \in Nat, line_start <= last
  PROVE  \E e \in Nat : /\ e = line_end /\ line_start <= e /\ e <= last
                        /\ e < last => data[e] = Newline
                        /\ \A i \in line_start..e - 1 : data[i] # Newline
<1>1. PICK S : S = {i \in line_start..last - 1 : data[i] = Newline}
  OBVIOUS
<1>2. S \subseteq Nat /\ S \subseteq line_start..last - 1
  BY <1>1
<1>3. line_end = IF S = {} THEN last ELSE Min(S)
  BY <1>1 DEF line_end, First
<1>4. CASE S = {}
  <2>1. \A i \in line_start..last - 1 : data[i] # Newline
    BY <1>1, <1>4
  <2>2. PICK e \in Nat : e = last
    OBVIOUS
  <2> QED
    BY <1>3, <1>4, <2>1, <2>2
<1>5. CASE S # {}
  <2>1. PICK e \in Nat : e = Min(S) /\ e \in S /\ \A y \in S : e <= y
    <3>1. Min(S) \in S /\ \A y \in S : Min(S) <= y
      BY <1>2, <1>5, MinIn
    <3> QED
      BY <1>2, <3>1
  <2>2. e \in line_start..last - 1 /\ data[e] = Newline
    BY <1>1, <2>1
  <2>3. ASSUME NEW i \in line_start..e - 1 PROVE data[i] # Newline
    <3>1. i \in line_start..last - 1 /\ ~(e <= i)
      BY <2>2
    <3> QED
      BY <1>1, <2>1, <3>1
  <2> QED
    BY <1>3, <1>5, <2>1, <2>2, <2>3
<1> QED
  BY <1>4, <1>5

\* The unfinished line moves to the front of the buffer.
LEMMA LineCutFinds == ProgramsInv /\ SearchInv /\ LineCut => SearchInv' /\ GrepFinds'
<1> SUFFICES ASSUME ProgramsInv, SearchInv, LineCut PROVE SearchInv' /\ GrepFinds'
  OBVIOUS
<1>1. /\ program = "grep" /\ pc = "line" /\ line_start # 0 /\ cnt # 0 /\ data[line_end] # Newline
      /\ UNCHANGED <<kernel, shell_vars, fd, file, fname, line_start, cnt, shown, junk, syserr_vars>>
      /\ last' = last - line_start /\ Goto("fill")
      /\ data' = [i \in 0..BUFSIZE |->
                    IF i <= Copied THEN Terminated[i + line_start] ELSE Terminated[i]]
  BY DEF LineCut, At, Unfinished, Cut, Copied, Terminated
<1>2. /\ UNCHANGED <<disk, args, shown, out, dir_count, fname, fd_arr>> /\ junk \subseteq junk'
      /\ program' = "grep" /\ pc' = "fill"
  BY <1>1 DEF kernel, shell_vars, Goto
<1>3. InFile /\ BUFSIZE \in Nat /\ BUFSIZE > 0 /\ BufferOK /\ line_start < last
  BY <1>1, FileIs DEF SearchInv, SearchAt, ProgramsInv, GrepInv
<1>4. ASSUME Clean(dir_count) PROVE TextAt'
  <2>1. /\ Len(Bytes) \in Nat /\ Pos \in 0..Len(Bytes) /\ LineInv /\ Bytes \in Plain
    BY <1>1, <1>3, <1>4, FileIs, TextIs
  <2>2. /\ last \in 0..BUFSIZE /\ line_start \in Nat /\ line_start > 0 /\ line_start <= last
        /\ BUFSIZE \in Nat /\ last \in Nat
        /\ data \in [0..BUFSIZE -> Char] /\ last <= Pos
        /\ \A i \in 0..BUFSIZE : data[i] = Newline => i \in line_start..last - 1
    BY <1>1, <1>3, <2>1 DEF BufferOK, LineInv
  <2>3. line_end = last /\ \A i \in line_start..last - 1 : data[i] # Newline
    <3>1. PICK e \in Nat : /\ e = line_end /\ line_start <= e /\ e <= last
                           /\ e < last => data[e] = Newline
                           /\ \A i \in line_start..e - 1 : data[i] # Newline
      BY <2>1, <2>2, LineEndIs
    <3>2. e = last
      BY <1>1, <2>2, <3>1
    <3> QED
      BY <3>1, <3>2
  <2>4. \A i \in 0..BUFSIZE : data[i] # Newline
    BY <2>2, <2>3
  <2>5. PICK ended : ended = [data EXCEPT ![last] = Nul] /\ ended = Terminated
    BY <2>3 DEF Terminated
  <2>6. PICK o \in Nat, r \in Nat : o = Offset /\ r = Offset + line_start /\ r = Offset' /\ r <= Pos
                                  /\ o + last = Pos
    <3>1. Bytes' = Bytes /\ Pos' = Pos
      BY <1>2 DEF Bytes, Pos
    <3>2. Offset \in Nat /\ Offset + line_start \in Nat /\ Offset' = Offset + line_start
          /\ Offset + line_start <= Pos /\ Offset + last = Pos
      <4>1. Pos - last \in Nat /\ (Pos - last) + line_start \in Nat
            /\ Pos - (last - line_start) = (Pos - last) + line_start
            /\ (Pos - last) + line_start <= Pos /\ (Pos - last) + last = Pos
        BY <2>1, <2>2
      <4> QED
        BY <1>1, <3>1, <4>1 DEF Offset
    <3> QED
      BY <3>2
  <2>7. Copied = last - line_start
    <3>1. ASSUME NEW i \in 0..last - line_start - 1 PROVE data[line_start + i] # Nul
      <4>1. PICK j \in line_start..last - 1 : j = line_start + i
        BY <2>2
      <4>2. o + j + 1 \in 1..Len(Bytes)
        BY <2>1, <2>2, <2>6
      <4>3. data[j] = Bytes[o + j + 1]
        BY <2>1, <2>6 DEF LineInv, Buffered
      <4>4. Bytes[o + j + 1] # Nul
        BY <2>1, <4>2, ElementOfSeq DEF Plain
      <4> QED
        BY <4>1, <4>3, <4>4
    <3> QED
      BY <1>3, <2>2, <2>3, <3>1, LineCopied
  <2>8. data' = [i \in 0..BUFSIZE |->
                  IF i <= last - line_start THEN ended[i + line_start] ELSE ended[i]]
    BY <1>1, <2>5, <2>7
  <2>9. \A i \in 0..BUFSIZE : ended[i] = IF i = last THEN Nul ELSE data[i]
    BY <2>2, <2>5
  <2>10. ASSUME NEW i \in 0..BUFSIZE PROVE data'[i] # Newline
    <3>1. \A j \in 0..BUFSIZE : ended[j] # Newline
      BY <2>4, <2>9 DEF Nul, Newline
    <3>2. i <= last - line_start => i + line_start \in 0..BUFSIZE
      BY <2>2
    <3> QED
      BY <2>8, <3>1, <3>2
  <2>11. Bytes' = Bytes /\ Pos' = Pos /\ Here' = Here
    BY <1>2 DEF Bytes, Pos, Here
  <2>12. ASSUME NEW i \in 0..last' - 1 PROVE data'[i] = Bytes[r + i + 1]
    <3>1. /\ i \in 0..BUFSIZE /\ i <= last - line_start /\ i + line_start \in 0..BUFSIZE
          /\ i + line_start # last /\ i + line_start \in line_start..last - 1
      BY <1>1, <2>2
    <3>2. data'[i] = data[i + line_start]
      BY <2>8, <2>9, <3>1
    <3>3. data[i + line_start] = Bytes[o + (i + line_start) + 1]
      BY <2>1, <2>6, <3>1 DEF LineInv, Buffered
    <3>4. o + (i + line_start) + 1 = r + i + 1
      BY <2>2, <2>6
    <3> QED
      BY <3>2, <3>3, <3>4
  <2>13. Buffered(0)'
    BY <2>6, <2>11, <2>12 DEF Buffered
  <2>14. ShownBefore(r)
    BY <1>1, <2>1, <2>6 DEF LineInv
  <2>15. ShownBefore(r)'
    BY <1>2, <2>11, <2>14, ShownThen DEF ShownBefore
  <2>16. ShownBefore(Offset)'
    BY <2>6, <2>15 DEF ShownBefore, LineAfter
  <2>17. last' < BUFSIZE /\ last' <= Pos'
    BY <1>1, <2>1, <2>2, <2>11
  <2>18. FillInv'
    BY <2>10, <2>13, <2>16, <2>17 DEF FillInv
  <2> QED
    BY <1>2, <2>1, <2>11, <2>18 DEF TextAt
<1> QED
  BY <1>1, <1>2, <1>3, <1>4, FileGoes

\* What a read of n bytes gives behind place p of a text.
Gives(T, p, n, s) ==
  \E r \in Nat : /\ r = Len(s) /\ r <= n /\ p + r <= Len(T)
                 /\ r = 0 \/ r < n => p + r = Len(T)
                 /\ \A i \in 1..r : s[i] = T[p + i]

\* The part of a text behind place p, n characters at most.
LEMMA PartAt ==
  ASSUME NEW T \in Plain, NEW L \in Nat, L = Len(T), NEW p \in Nat, p <= L,
         NEW n \in Nat, n > 0, NEW a \in Int, a = p + 1, NEW q \in Int, q = Least(p + n, L),
         NEW s, s = SubSeq(T, a, q)
  PROVE  Gives(T, p, n, s)
<1>1. q <= L /\ p <= q
  BY DEF Least
<1>2. \A i \in a..q : T[i] \in Char
  <2>1. \A i \in 1..L : T[i] \in Char
    BY ElementOfSeq DEF Plain
  <2> QED
    BY <1>1, <2>1
<1>3. /\ s \in Seq(Char) /\ Len(s) = IF a <= q THEN q - a + 1 ELSE 0
      /\ \A i \in 1..q - a + 1 : s[i] = T[a + i - 1]
  BY <1>2, SubSeqProperties
<1>4. PICK r \in Nat : r = Len(s) /\ r = q - p /\ q - a + 1 = r
  <2>1. q - p \in Nat /\ Len(s) = q - p /\ q - a + 1 = q - p
    BY <1>1, <1>3
  <2> QED
    BY <2>1
<1>5. r <= n /\ p + r <= L /\ (r = 0 \/ r < n => p + r = L)
  BY <1>1, <1>4 DEF Least
<1>6. \A i \in 1..r : s[i] = T[p + i]
  <2>1. ASSUME NEW i \in 1..r PROVE i \in 1..q - a + 1 /\ a + i - 1 = p + i
    <3>1. i \in Int /\ p \in Int /\ (p + 1) + i - 1 = p + i
      OBVIOUS
    <3> QED
      BY <1>4, <3>1
  <2> QED
    BY <1>3, <2>1
<1> QED
  BY <1>4, <1>5, <1>6 DEF Gives

\* A fill reads on where the one before has ended, and short of the room at the end only.
LEMMA FillGives ==
  ASSUME ProgramsInv, InFile, program = "grep", pc = "fill", Read(3, Room)
  PROVE  /\ UNCHANGED <<disk, dir_count, out>>
         /\ Clean(dir_count) =>
             \E r \in Nat : /\ ret' = r /\ r <= Room /\ Pos' = Pos + r /\ Pos + r <= Len(Bytes)
                            /\ r = 0 \/ r < Room => Pos + r = Len(Bytes)
                            /\ \A i \in 1..r : got'[i] = Bytes[Pos + i]
<1>1. /\ dir_count \in 1..Len(disk) /\ disk \in Images /\ Len(Bytes) \in Nat
      /\ fd_arr[3] = Opened(dir_count, Pos) /\ 3 \in Fds
      /\ BUFSIZE \in Nat /\ BUFSIZE > 0 /\ BufferOK /\ fname = disk[dir_count].name
  BY FileIs
<1>2. last \in 0..BUFSIZE /\ last \in Nat
  BY <1>1 DEF BufferOK
<1>3. PICK n \in Nat : n = Room /\ (Clean(dir_count) => n > 0)
  <2>1. BUFSIZE - last \in Nat /\ (last < BUFSIZE => BUFSIZE - last > 0)
    BY <1>1, <1>2
  <2>2. Clean(dir_count) => last < BUFSIZE
    BY TextIs DEF FillInv
  <2> QED
    BY <2>1, <2>2 DEF Room
<1>4. KernelOK /\ disk[dir_count].kind \in {"file", "rtc"}
  <2>1. Named(fname) = dir_count
    BY <1>1, PlainEntry
  <2> QED
    BY <2>1, GrepFile
<1>5. fd_arr[3].kind = disk[dir_count].kind /\ fd_arr[3].entry = dir_count /\ fd_arr[3].pos = Pos
  BY <1>1 DEF Opened
<1>6. /\ UNCHANGED <<disk, dir_count, out>> /\ Usable(3) /\ 3 # 1
  BY <1>1, <1>3, <1>4, <1>5, ReadTyped DEF Usable
<1>7. CASE Clean(dir_count) /\ disk[dir_count].kind = "rtc"
  <2>1. ReadClock /\ Bytes \in Plain /\ Pos \in 0..Len(Bytes)
    BY <1>5, <1>6, <1>7, TextIs DEF Read
  <2>2. Bytes = <<>>
    BY <1>1, <1>7, PlainEntry DEF Bytes
  <2>3. Len(Bytes) = 0
    BY <2>2
  <2>4. Pos = 0 /\ ret' = 0 /\ Pos' = 0
    BY <1>1, <2>1, <2>3 DEF ReadClock, Answer, Pos
  <2>5. PICK r \in Nat : r = 0
    OBVIOUS
  <2>6. ret' = r /\ r <= Room /\ Pos' = Pos + r /\ Pos + r <= Len(Bytes) /\ Pos + r = Len(Bytes)
    BY <1>3, <2>3, <2>4, <2>5
  <2> QED
    BY <1>6, <2>5, <2>6
<1>8. CASE Clean(dir_count) /\ disk[dir_count].kind = "file"
  <2>1. ReadFile(3, Room) /\ Bytes \in Plain /\ Pos \in 0..Len(Bytes) /\ n > 0
    BY <1>3, <1>5, <1>6, <1>8, TextIs DEF Read
  <2>2. PICK L \in Nat, p \in Nat : L = Len(Bytes) /\ p = Pos /\ p <= L
    BY <1>1, <2>1
  <2>3. PICK a \in Int, q \in Int : a = p + 1 /\ q = Least(p + n, L)
    BY DEF Least
  <2>4. PICK s : s = SubSeq(Bytes, a, q)
    OBVIOUS
  <2>5. got' = s /\ ret' = Len(s) /\ fd_arr' = [fd_arr EXCEPT ![3].pos = Pos + Len(s)]
    BY <1>3, <1>5, <2>1, <2>4, <2>2, <2>3 DEF ReadFile, Give, Answer, Moved, Bytes
  <2>6. PICK r \in Nat : /\ r = Len(s) /\ r <= n /\ Pos + r <= Len(Bytes)
                         /\ r = 0 \/ r < n => Pos + r = Len(Bytes)
                         /\ \A i \in 1..r : s[i] = Bytes[Pos + i]
    <3>1. PICK T \in Plain : T = Bytes /\ L = Len(T) /\ s = SubSeq(T, a, q)
      BY <2>1, <2>4, <2>2
    <3>2. Gives(T, p, n, s)
      BY <2>1, <2>2, <2>3, <3>1, PartAt
    <3> QED
      BY <2>2, <3>1, <3>2 DEF Gives
  <2>7. Pos' = Pos + r
    BY <1>1, <1>4, <2>5, <2>6 DEF Pos, KernelOK, Table
  <2> QED
    BY <1>3, <1>6, <2>5, <2>6, <2>7
<1> QED
  BY <1>4, <1>6, <1>7, <1>8

\* The fill comes behind what is left of the line.
LEMMA FileFilledFinds == ProgramsInv /\ SearchInv /\ FileFilled => SearchInv' /\ GrepFinds'
<1> SUFFICES ASSUME ProgramsInv, SearchInv, FileFilled PROVE SearchInv' /\ GrepFinds'
  OBVIOUS
<1>1. /\ program = "grep" /\ pc = "fill" /\ file = 3 /\ Read(3, Room) /\ InFile
      /\ UNCHANGED <<fd, file, fname, shown, junk, syserr_vars>>
  BY GrepFile DEF FileFilled, At, SearchInv, SearchAt
<1>2. disk' = disk /\ ret' \in 0..Room /\ BUFSIZE \in Nat /\ last \in 0..BUFSIZE
  BY <1>1, FileRead, GrepFile DEF BufferOK
<1>3. ret' # -1
  <2>1. BUFSIZE - last \in Nat
    BY <1>2
  <2> QED
    BY <1>2, <2>1 DEF Room
<1>4. /\ cnt' = ret' /\ last' = last + cnt' /\ line_start' = 0
      /\ data' = [i \in 0..BUFSIZE |->
                    IF i \in last..last' - 1 THEN got'[i - last + 1] ELSE data[i]]
      /\ Goto("line") /\ UNCHANGED shell_vars
  BY <1>3 DEF FileFilled
<1>5. /\ UNCHANGED <<disk, args, shown, out, dir_count, fname>> /\ junk \subseteq junk'
      /\ program' = "grep" /\ pc' = "line"
  BY <1>1, <1>4, FillGives DEF Goto, shell_vars
<1>6. ASSUME Clean(dir_count) PROVE TextAt'
  <2>1. UNCHANGED <<disk, dir_count, out>>
    BY <1>5
  <2>2. PICK r \in Nat : /\ ret' = r /\ r <= Room /\ Pos' = Pos + r /\ Pos + r <= Len(Bytes)
                         /\ r = 0 \/ r < Room => Pos + r = Len(Bytes)
                         /\ \A i \in 1..r : got'[i] = Bytes[Pos + i]
    BY <1>1, <1>6, FillGives
  <2>3. Len(Bytes) \in Nat /\ Pos \in 0..Len(Bytes) /\ FillInv
    BY <1>1, <1>6, FileIs, TextIs
  <2>4. /\ last < BUFSIZE /\ last <= Pos /\ last \in Nat /\ Pos \in Nat
        /\ \A i \in 0..BUFSIZE : data[i] # Newline
        /\ ShownBefore(Offset) \/ ShownAll
    BY <1>2, <2>3 DEF FillInv
  <2>5. Bytes' = Bytes /\ Here' = Here
    BY <1>5, <2>1 DEF Bytes, Here
  <2>6. cnt' = r /\ last' = last + r
    BY <1>4, <2>2
  <2>7. PICK o \in Nat : o = Offset /\ o = Offset' /\ o + last = Pos
    <3>1. Pos - last \in Nat /\ (Pos + r) - (last + r) = Pos - last /\ (Pos - last) + last = Pos
      BY <2>4
    <3> QED
      BY <2>2, <2>6, <3>1 DEF Offset
  <2>8. last' <= Pos' /\ line_start' <= last'
    BY <1>4, <2>2, <2>4, <2>6
  <2>9. cnt' = 0 \/ last' < BUFSIZE => Pos' = Len(Bytes')
    <3>1. last + r < BUFSIZE => r < BUFSIZE - last
      BY <1>2, <2>4
    <3> QED
      BY <2>2, <2>5, <2>6, <3>1 DEF Room
  <2>10. ASSUME NEW i \in 0..BUFSIZE, data'[i] = Newline PROVE i \in 0..last' - 1
    <3>1. i \in last..last' - 1
      BY <1>4, <2>4, <2>10
    <3> QED
      BY <2>4, <2>6, <3>1
  <2>11. ASSUME NEW i \in 0..last' - 1 PROVE data'[i] = Bytes[o + i + 1]
    <3>1. i \in 0..BUFSIZE
      <4>1. last + r <= BUFSIZE
        <5>1. r <= BUFSIZE - last
          BY <2>2 DEF Room
        <5> QED
          BY <1>2, <2>4, <5>1
      <4> QED
        BY <1>2, <2>4, <2>6, <4>1
    <3>2. CASE i < last
      <4>1. data'[i] = data[i] /\ i \in 0..last - 1
        BY <1>4, <2>4, <3>1, <3>2
      <4> QED
        BY <2>3, <2>7, <4>1 DEF FillInv, Buffered
    <3>3. CASE ~(i < last)
      <4>1. i \in last..last' - 1 /\ i - last + 1 \in 1..r
        BY <2>4, <2>6, <3>3
      <4>2. data'[i] = Bytes[Pos + (i - last + 1)]
        BY <1>4, <2>2, <3>1, <4>1
      <4>3. Pos + (i - last + 1) = o + i + 1
        <5>1. PICK j \in Nat, l \in Nat, q \in Nat : j = i /\ l = last /\ q = Pos
          BY <1>2, <2>4, <3>1
        <5>2. q = o + l
          BY <2>7, <5>1
        <5>3. q + (j - l + 1) = o + j + 1
          BY <5>2
        <5> QED
          BY <5>1, <5>3
      <4> QED
        BY <4>2, <4>3
    <3> QED
      BY <3>2, <3>3
  <2>12. Buffered(0)'
    BY <2>5, <2>7, <2>11 DEF Buffered
  <2>13. ShownBefore(Offset + line_start)' \/ (ShownAll' /\ cnt' = 0 /\ line_start' = 0)
    <3>1. CASE ShownBefore(Offset)
      <4>1. ShownBefore(o)
        BY <2>7, <3>1
      <4>2. ShownBefore(o)'
        BY <1>5, <2>1, <2>5, <4>1, ShownThen DEF ShownBefore
      <4>3. Offset' + line_start' = o
        <5>1. o + 0 = o
          OBVIOUS
        <5> QED
          BY <1>4, <2>7, <5>1, Zenon
      <4> QED
        BY <4>2, <4>3 DEF ShownBefore, LineAfter
    <3>2. CASE ShownAll
      <4>1. last = 0 /\ Pos = Len(Bytes) /\ Here = Found(dir_count, args)
        BY <3>2 DEF ShownAll
      <4>2. r = 0
        BY <2>2, <2>4, <4>1
      <4>3. last' = 0 /\ Pos' = Len(Bytes') /\ cnt' = 0
        BY <2>2, <2>4, <2>5, <2>6, <4>1, <4>2
      <4>4. PICK c : c = dir_count
        OBVIOUS
      <4>5. Here' = Found(c, args)' /\ dir_count' = c
        BY <1>5, <2>1, <2>5, <4>1, <4>4, SearchStays
      <4> QED
        BY <1>4, <4>3, <4>5 DEF ShownAll
    <3> QED
      BY <2>4, <3>1, <3>2
  <2>14. LineInv'
    BY <1>4, <2>8, <2>9, <2>10, <2>12, <2>13 DEF LineInv
  <2>15. Pos' \in 0..Len(Bytes')
    BY <2>2, <2>3, <2>4, <2>5
  <2> QED
    BY <1>5, <2>14, <2>15 DEF TextAt
<1> QED
  BY <1>1, <1>5, <1>6, FileGoes

\* A line that goes on from d to behind P is as long as that.
LEMMA LongLine ==
  ASSUME NEW T \in Plain, NEW d \in Nat, NEW P \in Nat, d < P, P <= Len(T),
         d = 0 \/ T[d] = Newline, \A j \in d + 1..P : T[j] # Newline
  PROVE  \E k \in LineEnds(T), n \in Int : n = Len(LineTo(T, k)) /\ n >= P - d
<1>1. PICK L \in Nat : L = Len(T) /\ T # <<>>
  <2>1. Len(T) \in Nat /\ Len(T) # 0
    BY LenProperties DEF Plain
  <2> QED
    BY <2>1, EmptySeq
<1>2. PICK S : S = {j \in P + 1..L + 1 : j \in LineEnds(T)}
  OBVIOUS
<1>3. S \subseteq Nat /\ S # {}
  <2>1. CASE \E j \in P + 1..L : T[j] = Newline
    <3>1. PICK j \in P + 1..L : T[j] = Newline
      BY <2>1
    <3>2. j \in 1..Len(T) + 1 /\ j <= Len(T) /\ j \in P + 1..L + 1
      BY <1>1
    <3>3. j \in LineEnds(T)
      BY <3>1, <3>2 DEF LineEnds
    <3> QED
      BY <1>2, <3>2, <3>3
  <2>2. CASE ~ \E j \in P + 1..L : T[j] = Newline
    <3>1. T[L] # Newline
      <4>1. L \in P + 1..L \/ L \in d + 1..P
        BY <1>1
      <4> QED
        BY <2>2, <4>1
    <3>2. L + 1 \in 1..Len(T) + 1 /\ ~(L + 1 <= Len(T)) /\ L + 1 \in P + 1..L + 1
      BY <1>1
    <3>3. L + 1 \in LineEnds(T)
      BY <1>1, <3>1, <3>2 DEF LineEnds
    <3> QED
      BY <1>2, <3>2, <3>3
  <2> QED
    BY <2>1, <2>2
<1>4. PICK k \in S : \A y \in S : k <= y
  BY <1>3, LeastOfSet
<1>5. k \in Nat /\ k >= P + 1 /\ k <= L + 1 /\ k \in LineEnds(T)
  BY <1>2, <1>3, <1>4
<1>6. ASSUME NEW j \in d + 1..k - 1 PROVE T[j] # Newline
  <2>1. CASE j <= P
    BY <2>1
  <2>2. CASE ~(j <= P)
    <3>1. j \in P + 1..L + 1 /\ j \in 1..Len(T) + 1 /\ j <= Len(T) /\ ~(k <= j)
      BY <1>1, <1>5, <2>2
    <3>2. j \notin LineEnds(T)
      BY <1>2, <1>4, <3>1
    <3> QED
      BY <3>1, <3>2 DEF LineEnds
  <2> QED
    BY <2>1, <2>2
<1>7. PICK q \in Int : q = k - 1 /\ q <= Len(T) /\ d < q /\ q - d >= P - d
  <2>1. k - 1 \in Int /\ k - 1 <= Len(T) /\ d < k - 1 /\ (k - 1) - d >= P - d
    BY <1>1, <1>5
  <2> QED
    BY <2>1
<1>8. LineTo(T, k) = SubSeq(T, d + 1, q)
  <2>1. d < k
    BY <1>5
  <2> QED
    BY <1>5, <1>6, <1>7, <2>1, LineIs
<1>9. Len(SubSeq(T, d + 1, q)) = q - d
  BY <1>7, PartPlain
<1>10. PICK n \in Int : n = q - d /\ n >= P - d
  BY <1>7
<1>11. n = Len(LineTo(T, k))
  BY <1>7, <1>8, <1>9, <1>10
<1> QED
  BY <1>5, <1>10, <1>11

\* The line in the buffer is the line of the file.
LEMMA BufferedLine ==
  ASSUME NEW T \in Plain, NEW o \in Nat, NEW a \in Nat, NEW e \in Nat, a <= e, o + e <= Len(T),
         \A i \in a..e - 1 : data[i] = T[o + i + 1]
  PROVE  [i \in 1..e - a |-> data[a + i - 1]] = SubSeq(T, (o + a) + 1, (o + e + 1) - 1)
<1>1. PICK p \in Int, q \in Int : /\ p = (o + a) + 1 /\ q = (o + e + 1) - 1
                                  /\ p >= 1 /\ q <= Len(T) /\ q - p + 1 = e - a
  <2>1. /\ (o + a) + 1 \in Int /\ (o + e + 1) - 1 \in Int /\ (o + a) + 1 >= 1
        /\ (o + e + 1) - 1 <= Len(T) /\ ((o + e + 1) - 1) - ((o + a) + 1) + 1 = e - a
    OBVIOUS
  <2> QED
    BY <2>1
<1>2. PICK n \in Nat : n = e - a
  OBVIOUS
<1>3. PICK x : x = SubSeq(T, p, q)
  OBVIOUS
<1>4. \A i \in p..q : T[i] \in Char
  <2>1. Len(T) \in Nat /\ \A i \in 1..Len(T) : T[i] \in Char
    BY LenProperties, ElementOfSeq DEF Plain
  <2> QED
    BY <1>1, <2>1
<1>5. /\ x \in Seq(Char) /\ Len(x) = IF p <= q THEN q - p + 1 ELSE 0
      /\ \A i \in 1..q - p + 1 : x[i] = T[p + i - 1]
  BY <1>3, <1>4, SubSeqProperties
<1>6. Len(x) = n
  BY <1>1, <1>2, <1>5
<1>7. ASSUME NEW i \in 1..n PROVE x[i] = data[a + i - 1]
  <2>1. x[i] = T[p + i - 1]
    BY <1>1, <1>2, <1>5
  <2>2. a + i - 1 \in a..e - 1 /\ o + (a + i - 1) + 1 = p + i - 1
    BY <1>1, <1>2
  <2> QED
    BY <2>1, <2>2
<1>8. DOMAIN x = 1..n /\ x = [i \in DOMAIN x |-> x[i]]
  BY <1>5, <1>6
<1>9. x = [i \in 1..n |-> data[a + i - 1]]
  BY <1>7, <1>8
<1> QED
  BY <1>1, <1>2, <1>3, <1>9

\* The word is not in an empty line.
LEMMA NoMatch ==
  ASSUME NEW s \in Text, s # <<>>, NEW text, text = <<>> PROVE ~Matches(text, s)
<1>1. text \in Text /\ Len(text) = 0
  BY NoText
<1>2. ~Holds(text, s)
  BY <1>1 DEF Holds
<1> QED
  BY <1>1, <1>2, MatchesHolds

\* The buffer is empty after a line.
LEMMA Emptied ==
  ASSUME ProgramsInv, InFile, Clean(dir_count), program = "grep", pc = "line",
         UNCHANGED <<disk, args, dir_count, fd_arr>>, last' = 0,
         \A i \in 0..BUFSIZE : data'[i] # Newline,
         \/ pc' = "close" /\ Here' = Found(dir_count, args)
         \/ pc' = "fill" /\ Pos = Len(Bytes) /\ Here' = Found(dir_count, args)
         \/ pc' = "fill" /\ LineAfter(Pos) /\ Here' = Search(dir_count, Pos)
  PROVE  (IF pc = "close" THEN Here = Found(dir_count, args) ELSE TextAt)'
<1>1. /\ dir_count \in 1..Len(disk) /\ Len(Bytes) \in Nat /\ Pos \in 0..Len(Bytes)
      /\ BUFSIZE \in Nat /\ BUFSIZE > 0
  BY FileIs, TextIs
<1>2. Bytes' = Bytes /\ Pos' = Pos
  BY DEF Bytes, Pos
<1>3. PICK c : c = dir_count
  OBVIOUS
<1>4. dir_count' = c /\ Found(c, args)' = Found(c, args)
  BY <1>3, SearchStays
<1>5. CASE pc' = "close" /\ Here' = Found(dir_count, args)
  BY <1>3, <1>4, <1>5
<1>6. CASE pc' = "fill"
  <2>1. PICK p \in Nat : p = Pos /\ p = Offset' /\ p <= Len(Bytes)
    <3>1. PICK p \in Nat : p = Pos /\ p <= Len(Bytes) /\ p - 0 = p
      BY <1>1
    <3>2. Offset' = p - 0
      BY <1>2, <3>1 DEF Offset
    <3> QED
      BY <3>1, <3>2
  <2>2. ShownBefore(Offset)' \/ ShownAll'
    <3>1. CASE Pos = Len(Bytes) /\ Here' = Found(dir_count, args)
      BY <1>2, <1>3, <1>4, <3>1 DEF ShownAll
    <3>2. CASE LineAfter(Pos) /\ Here' = Search(dir_count, Pos)
      <4>1. ShownBefore(p)'
        BY <1>1, <2>1, <3>2, ShownThen
      <4> QED
        BY <2>1, <4>1 DEF ShownBefore, LineAfter
    <3> QED
      BY <1>6, <3>1, <3>2
  <2>3. Buffered(0)'
    BY DEF Buffered
  <2>4. FillInv'
    BY <1>1, <1>2, <2>2, <2>3 DEF FillInv
  <2> QED
    BY <1>1, <1>2, <1>6, <2>4 DEF TextAt
<1> QED
  BY <1>5, <1>6

\* What is shown of a line is shown of the file.
LEMMA LineOut ==
  ASSUME ProgramsInv, InFile, program = "grep", pc = "line", LineSearched
  PROVE  /\ UNCHANGED <<disk, args, dir_count, fname, fd_arr, junk>>
         /\ Shape(dir_count, dir_count - 1)' /\ Here' = Here \o Shows(LineText)
<1>1. /\ UNCHANGED <<args, fname, junk>>
      /\ IF Matches(LineText, args) THEN Write(1, Shows(LineText)) ELSE UNCHANGED kernel
      /\ shown' = [shown EXCEPT ![Len(shown)] = shown[Len(shown)] \o Shows(LineText)]
  BY DEF LineSearched, LineText, shell_vars
<1>2. /\ fname \in Plain /\ fd_arr[1] = Std /\ out \in Text /\ LineText \in Text
      /\ dir_count \in Nat /\ dir_count > 0
  <2>1. BufferOK /\ BUFSIZE \in Nat /\ (line_start = 0 \/ line_start < last)
    BY GrepFile
  <2>2. LineText \in Text
    BY <2>1, LineTextTyped
  <2> QED
    BY <2>2, FileIs
<1>3. PICK x \in Plain : /\ x = Shows(LineText)
                         /\ ~Matches(LineText, args) => x = <<>>
  BY <1>2, ShowsPlain
<1>4. UNCHANGED <<disk, dir_count, fd_arr>> /\ out' = out \o x
  <2>1. CASE Matches(LineText, args)
    <3>1. Write(1, x)
      BY <1>1, <1>3, <2>1
    <3>2. out' = out \o Visible(x)
      BY <1>2, <3>1, WriteShows
    <3> QED
      BY <1>3, <3>1, <3>2, PlainShown, WriteIs
  <2>2. CASE ~Matches(LineText, args)
    <3>1. x = <<>> /\ UNCHANGED kernel
      BY <1>1, <1>3, <2>2
    <3>2. out \o <<>> = out
      BY <1>2, ConcatEmptySeq DEF Text
    <3> QED
      BY <3>1, <3>2 DEF kernel
  <2> QED
    BY <2>1, <2>2
<1>5. PICK e \in Nat, n \in Int : e = dir_count /\ n = dir_count - 1 /\ e > 0
  BY <1>2
<1>6. Shape(e, n) /\ Len(shown) = e
  BY <1>5 DEF InFile, Shape
<1>7. shown' = [shown EXCEPT ![e] = shown[e] \o x]
  BY <1>1, <1>3, <1>6
<1>8. x \in Text
  BY <1>3, PlainText
<1>9. Shape(e, n)' /\ shown'[e] = shown[e] \o x
  BY <1>1, <1>4, <1>5, <1>6, <1>7, <1>8, ShapeGrows
<1>10. dir_count' = e /\ dir_count' - 1 = n
  BY <1>4, <1>5
<1>11. Shape(dir_count, dir_count - 1)'
  BY <1>9, <1>10 DEF Shape
<1> QED
  BY <1>1, <1>3, <1>4, <1>5, <1>9, <1>10, <1>11 DEF Here

\* A line is shown when it holds the word, and the next begins behind it.
LEMMA LineSearchedFinds ==
  ASSUME LinesEntered PROVE ProgramsInv /\ SearchInv /\ LineSearched => SearchInv' /\ GrepFinds'
<1> SUFFICES ASSUME ProgramsInv, SearchInv, LineSearched PROVE SearchInv' /\ GrepFinds'
  OBVIOUS
<1>1. program = "grep" /\ pc = "line" /\ ~Unfinished /\ InFile /\ cnt' = cnt
  BY DEF LineSearched, At, SearchInv, SearchAt
<1>2. args \in Text
  <2>1. args = SecondWord /\ line \in Text
    BY <1>1, ArgsKnown
  <2> QED
    BY <2>1, SecondWordText
<1>3. PICK text : text = LineText
  OBVIOUS
<1>4. /\ UNCHANGED <<disk, args, dir_count, fname, fd_arr, junk>>
      /\ Shape(dir_count, dir_count - 1)' /\ Here' = Here \o Shows(text)
  BY <1>1, <1>3, LineOut
<1>5. /\ data' = [data EXCEPT ![line_end] = Nul] /\ line_start' = line_end + 1
      /\ IF line_start' >= last
           THEN last' = 0 /\ program' = program /\ pc' = IF cnt = 0 THEN "close" ELSE "fill"
           ELSE UNCHANGED <<last, program, pc>>
  BY DEF LineSearched, Goto
<1>6. program' = "grep" /\ pc' \in {"fill", "line", "close"}
  BY <1>1, <1>5
<1>7. ASSUME Clean(dir_count)
      PROVE  (IF pc = "close" THEN Here = Found(dir_count, args) ELSE TextAt)'
  <2>1. /\ dir_count \in 1..Len(disk) /\ disk \in Images /\ fname = disk[dir_count].name
        /\ Bytes \in Plain /\ Len(Bytes) \in Nat /\ Pos \in 0..Len(Bytes)
        /\ BufferOK /\ BUFSIZE \in Nat /\ BUFSIZE > 0 /\ args # <<>> /\ TextLines(dir_count)
    BY <1>1, <1>7, FileIs, TextIs
  <2>2. PICK c \in 1..Len(disk), T \in Plain, L \in Nat, P \in Nat :
          c = dir_count /\ T = disk[c].data /\ T = Bytes /\ L = Len(T) /\ P = Pos /\ P <= L
    BY <2>1 DEF Bytes
  <2>3. /\ last \in 0..BUFSIZE /\ line_start \in Nat /\ cnt \in Nat
        /\ data \in [0..BUFSIZE -> Char]
    BY <2>1 DEF BufferOK
  <2>4. /\ last <= P /\ line_start <= last
        /\ cnt = 0 \/ last < BUFSIZE => P = L
        /\ \A i \in 0..BUFSIZE : data[i] = Newline => i \in line_start..last - 1
        /\ Buffered(line_start)
        /\ ShownBefore(Offset + line_start) \/ (ShownAll /\ cnt = 0 /\ line_start = 0)
    BY <1>1, <1>7, <2>2, TextIs DEF LineInv
  <2>5. line_start = 0 \/ line_start < last
    BY <1>1, GrepFile
  <2>6. PICK e \in Nat : /\ e = line_end /\ line_start <= e /\ e <= last
                         /\ e < last => data[e] = Newline
                         /\ \A i \in line_start..e - 1 : data[i] # Newline
    BY <2>1, <2>3, <2>4, LineEndIs
  <2>7. PICK o \in Nat : o = Offset /\ o + last = P
    <3>1. P - last \in Nat /\ (P - last) + last = P
      BY <2>3, <2>4
    <3> QED
      BY <2>2, <3>1 DEF Offset
  <2>8. PICK d \in Nat : d = o + line_start
    BY <2>3
  <2>9. \A i \in line_start..last - 1 : data[i] = T[o + i + 1]
    BY <2>2, <2>4, <2>7 DEF Buffered
  <2>10. PICK k \in Nat : k = o + e + 1
    OBVIOUS
  <2>11. text = SubSeq(T, d + 1, k - 1)
    <3>1. o + e <= Len(T)
      BY <2>2, <2>3, <2>6, <2>7
    <3>2. \A i \in line_start..e - 1 : data[i] = T[o + i + 1]
      BY <2>3, <2>6, <2>9
    <3>3. PICK a \in Nat : a = line_start
      BY <2>3
    <3>4. [i \in 1..e - a |-> data[a + i - 1]] = SubSeq(T, (o + a) + 1, (o + e + 1) - 1)
      BY <2>6, <3>1, <3>2, <3>3, BufferedLine
    <3> QED
      BY <1>3, <2>6, <2>8, <2>10, <3>3, <3>4 DEF LineText
  <2>12. \A i \in 0..BUFSIZE : data'[i] = IF i = e THEN Nul ELSE data[i]
    BY <1>5, <2>3, <2>6
  <2>13. \A i \in 0..BUFSIZE : data'[i] = Newline => i \in e + 1..last - 1
    <3> SUFFICES ASSUME NEW i \in 0..BUFSIZE, data'[i] = Newline PROVE i \in e + 1..last - 1
      OBVIOUS
    <3>1. i # e /\ data[i] = Newline
      BY <2>12 DEF Nul, Newline
    <3>2. i \in line_start..last - 1
      BY <2>4, <3>1
    <3>3. ~(i < e)
      BY <2>3, <2>6, <3>1, <3>2
    <3> QED
      BY <2>3, <3>1, <3>2, <3>3
  <2>14. args \in Text /\ args # <<>> /\ disk \in Images /\ TextLines(c) /\ fname = disk[c].name
    BY <1>2, <2>1, <2>2
  <2>15. CASE e < last
    <3>1. last # 0 /\ data[e] = Newline /\ k <= P /\ d < k
      BY <2>3, <2>6, <2>7, <2>8, <2>10, <2>15
    <3>2. T[k] = Newline
      BY <2>3, <2>6, <2>9, <2>10, <2>15, <3>1
    <3>3. (d = 0 \/ T[d] = Newline) /\ Here = Search(c, d)
      <4>1. ShownBefore(Offset + line_start)
        BY <2>4, <3>1 DEF ShownAll
      <4> QED
        BY <2>2, <2>7, <2>8, <4>1 DEF ShownBefore, LineAfter
    <3>4. LineAt(T, d, k)
      <4>1. k \in 1..Len(T) + 1 /\ k <= Len(T)
        BY <2>2, <3>1
      <4>2. k \in LineEnds(T)
        BY <3>2, <4>1 DEF LineEnds
      <4>3. ASSUME NEW j \in d + 1..k - 1 PROVE T[j] # Newline
        <5>1. PICK i \in Int : i = j - o - 1 /\ o + i + 1 = j /\ i \in line_start..e - 1
          <6>1. /\ j - o - 1 \in Int /\ o + (j - o - 1) + 1 = j
                /\ j - o - 1 >= line_start /\ j - o - 1 <= e - 1
            BY <2>3, <2>8, <2>10
          <6> QED
            BY <2>3, <6>1
        <5>2. data[i] = T[j]
          BY <2>3, <2>6, <2>9, <5>1
        <5> QED
          BY <2>6, <5>1, <5>2
      <4> QED
        BY <3>1, <3>3, <4>1, <4>2, <4>3 DEF LineAt
    <3>5. Here' = Search(c, k)
      <4>1. Search(c, d) \o Shows(text) = Search(c, k)
        <5>1. Pasted(Search(c, d), Shows(text), Search(c, k))
          BY <2>2, <2>11, <2>14, <3>4, LineShown
        <5> QED
          BY <5>1 DEF Pasted
      <4> QED
        BY <1>4, <3>3, <4>1
    <3>6. CASE e + 1 < last
      <4>1. last' = last /\ pc' = "line" /\ line_start' = e + 1
        BY <1>1, <1>5, <2>3, <2>6, <3>6
      <4>2. Bytes' = Bytes /\ Pos' = Pos /\ cnt' = cnt /\ Offset' = o
        BY <1>1, <1>4, <2>7, <4>1 DEF Bytes, Pos, Offset
      <4>3. Buffered(e + 1)'
        <5>1. ASSUME NEW i \in e + 1..last - 1 PROVE data'[i] = Bytes[o + i + 1]
          <6>1. i \in 0..BUFSIZE /\ i # e /\ i \in line_start..last - 1
            BY <2>1, <2>3, <2>6
          <6> QED
            BY <2>2, <2>9, <2>12, <6>1
        <5> QED
          BY <4>1, <4>2, <5>1 DEF Buffered
      <4>4. ShownBefore(k)'
        <5>1. k \in 0..Len(Bytes) /\ LineAfter(k)
          BY <2>2, <3>1, <3>2 DEF LineAfter
        <5> QED
          BY <1>4, <2>2, <3>5, <5>1, ShownThen
      <4>5. Offset' + line_start' = k
        BY <2>10, <4>1, <4>2
      <4>6. ShownBefore(Offset + line_start)'
        BY <4>4, <4>5 DEF ShownBefore, LineAfter
      <4>7. LineInv'
        <5>1. Buffered(line_start)'
          BY <4>1, <4>3 DEF Buffered
        <5>2. last' <= Pos' /\ line_start' <= last'
          BY <2>2, <2>3, <2>4, <3>6, <4>1, <4>2
        <5>3. cnt' = 0 \/ last' < BUFSIZE => Pos' = Len(Bytes')
          BY <2>2, <2>4, <4>1, <4>2
        <5> QED
          BY <2>13, <4>1, <4>6, <5>1, <5>2, <5>3 DEF LineInv
      <4> QED
        BY <2>1, <4>1, <4>2, <4>7 DEF TextAt
    <3>7. CASE ~(e + 1 < last)
      <4>1. e + 1 = last /\ k = P
        BY <2>3, <2>6, <2>7, <2>10, <2>15, <3>7
      <4>2. last' = 0 /\ pc' = (IF cnt = 0 THEN "close" ELSE "fill")
        BY <1>5, <2>6, <4>1
      <4>3. \A i \in 0..BUFSIZE : data'[i] # Newline
        BY <2>3, <2>13, <4>1
      <4>4. CASE cnt = 0
        <5>1. Found(c, args) = Search(c, k)
          BY <2>2, <2>4, <2>14, <3>2, <4>1, <4>4, SearchEnds
        <5> QED
          BY <1>1, <1>4, <1>7, <2>2, <3>5, <4>2, <4>3, <4>4, <5>1, Emptied
      <4>5. CASE cnt # 0
        <5>1. LineAfter(Pos)
          BY <2>2, <3>2, <4>1 DEF LineAfter
        <5> QED
          BY <1>1, <1>4, <1>7, <2>2, <3>5, <4>1, <4>2, <4>3, <4>5, <5>1, Emptied
      <4> QED
        BY <4>4, <4>5
    <3> QED
      BY <3>6, <3>7
  <2>16. CASE ~(e < last)
    <3>1. e = last /\ k = P + 1 /\ last' = 0 /\ pc' = (IF cnt = 0 THEN "close" ELSE "fill")
      BY <1>5, <2>3, <2>6, <2>7, <2>10, <2>16
    <3>2. \A i \in 0..BUFSIZE : data'[i] # Newline
      BY <2>3, <2>13, <3>1
    <3>3. CASE line_start = last
      <4>1. last = 0 /\ line_start = 0 /\ d = P /\ o = P
        BY <2>3, <2>5, <2>7, <2>8, <3>3
      <4>2. text = <<>>
        BY <1>3, <2>6, <3>1, <4>1 DEF LineText
      <4>3. Here' = Here
        <5>1. ~Matches(text, args)
          BY <1>2, <2>1, <4>2, NoMatch
        <5>2. Shows(text) = <<>>
          BY <5>1 DEF Shows
        <5>3. Here \o <<>> = Here
          <6>1. PICK h \in Text : h = Here
            <7>1. shown \in Seq(Text) /\ dir_count \in 1..Len(shown)
              BY <1>1, <2>1, FileIs DEF InFile, Shape
            <7> QED
              BY <7>1, ElementOfSeq DEF Here
          <6>2. h \o <<>> = h
            BY ConcatEmptySeq DEF Text
          <6> QED
            BY <6>1, <6>2
        <5> QED
          BY <1>4, <5>2, <5>3
      <4>4. CASE ShownAll /\ cnt = 0
        BY <1>1, <1>4, <1>7, <2>2, <3>1, <3>2, <4>3, <4>4, Emptied DEF ShownAll
      <4>5. CASE ShownBefore(Offset + line_start)
        <5>1. LineAfter(Pos) /\ Here = Search(c, P)
          BY <2>2, <2>7, <2>8, <4>1, <4>5 DEF ShownBefore, LineAfter
        <5>2. CASE cnt = 0
          <6>1. P = L /\ (P = 0 \/ T[P] = Newline)
            BY <2>2, <2>4, <5>1, <5>2 DEF LineAfter
          <6>2. Found(c, args) = Search(c, P)
            BY <2>2, <2>14, <6>1, SearchEnds
          <6> QED
            BY <1>1, <1>4, <1>7, <2>2, <3>1, <3>2, <4>3, <5>1, <5>2, <6>2, Emptied
        <5>3. CASE cnt # 0
          BY <1>1, <1>4, <1>7, <2>2, <3>1, <3>2, <4>3, <5>1, <5>3, Emptied
        <5> QED
          BY <5>2, <5>3
      <4> QED
        BY <2>4, <4>4, <4>5
    <3>4. CASE line_start # last
      <4>1. line_start < last /\ d < P /\ last # 0
        BY <2>3, <2>5, <2>7, <2>8, <3>4
      <4>2. (d = 0 \/ T[d] = Newline) /\ Here = Search(c, d)
        <5>1. ShownBefore(Offset + line_start)
          BY <2>4, <4>1 DEF ShownAll
        <5> QED
          BY <2>2, <2>7, <2>8, <5>1 DEF ShownBefore, LineAfter
      <4>3. ASSUME NEW j \in d + 1..P PROVE T[j] # Newline
        <5>1. PICK i \in Int : i = j - o - 1 /\ o + i + 1 = j /\ i \in line_start..last - 1
          <6>1. /\ j - o - 1 \in Int /\ o + (j - o - 1) + 1 = j
                /\ j - o - 1 >= line_start /\ j - o - 1 <= last - 1
            BY <2>3, <2>7, <2>8
          <6> QED
            BY <2>3, <6>1
        <5>2. data[i] = T[j]
          BY <2>3, <2>9, <5>1
        <5> QED
          BY <2>6, <3>1, <5>1, <5>2
      <4>4. P = L
        <5> SUFFICES ASSUME P # L PROVE FALSE
          OBVIOUS
        <5>1. cnt # 0 /\ last = BUFSIZE
          BY <2>1, <2>3, <2>4
        <5>2. data[last] # Newline
          <6>1. last \in 0..BUFSIZE /\ ~(last \in line_start..last - 1)
            BY <2>3
          <6> QED
            BY <2>4, <6>1
        <5>3. line_start = 0
          BY <1>1, <2>6, <3>1, <5>1, <5>2 DEF Unfinished
        <5>4. P - d = BUFSIZE
          BY <2>1, <2>7, <2>8, <5>1, <5>3
        <5>5. PICK n \in LineEnds(T), m \in Int : m = Len(LineTo(T, n)) /\ m >= P - d
          BY <2>2, <4>1, <4>2, <4>3, LongLine
        <5>6. Len(LineTo(T, n)) < BUFSIZE
          BY <2>2, <2>14 DEF TextLines
        <5> QED
          BY <2>1, <5>4, <5>5, <5>6
      <4>5. LineAt(T, d, k)
        <5>1. k = Len(T) + 1 /\ k \in 1..Len(T) + 1 /\ ~(k <= Len(T)) /\ T # <<>> /\ d < k
          <6>1. Len(T) # 0
            BY <2>2, <4>1, <4>4
          <6> QED
            BY <2>2, <3>1, <4>1, <4>4, <6>1
        <5>2. T[Len(T)] # Newline
          BY <2>2, <4>1, <4>3, <4>4
        <5>3. k \in LineEnds(T)
          BY <5>1, <5>2 DEF LineEnds
        <5>4. \A j \in d + 1..k - 1 : T[j] # Newline
          BY <3>1, <4>3
        <5> QED
          BY <4>2, <5>1, <5>3, <5>4 DEF LineAt
      <4>6. Here' = Search(c, k)
        <5>1. Search(c, d) \o Shows(text) = Search(c, k)
          <6>1. Pasted(Search(c, d), Shows(text), Search(c, k))
            BY <2>2, <2>11, <2>14, <4>5, LineShown
          <6> QED
            BY <6>1 DEF Pasted
        <5> QED
          BY <1>4, <4>2, <5>1
      <4>7. Found(c, args) = Search(c, k)
        <5>1. k = Len(T) + 1
          BY <2>2, <3>1, <4>4
        <5> QED
          BY <2>2, <2>14, <5>1, SearchEnds
      <4> QED
        BY <1>1, <1>4, <1>7, <2>2, <3>1, <3>2, <4>4, <4>6, <4>7, Emptied
    <3> QED
      BY <3>3, <3>4
  <2> QED
    BY <2>15, <2>16
<1>8. Clean(dir_count)' => Clean(dir_count)
  BY <1>4, SearchStays DEF Clean
<1>9. InFile'
  BY <1>1, <1>4, <1>7, <1>8 DEF InFile
<1> QED
  BY <1>6, <1>9, SearchGoes DEF SearchAt

\* At first no program has ended.
LEMMA SearchInit == Init => SearchInv /\ GrepFinds
BY DEF Init, NoLocals, SearchInv, GrepFinds, Ended, At

\* When nothing happens nothing changes.
LEMMA SearchStill == UNCHANGED vars /\ SearchInv /\ GrepFinds => SearchInv' /\ GrepFinds'
<1> SUFFICES ASSUME UNCHANGED vars, SearchInv, GrepFinds PROVE SearchInv' /\ GrepFinds'
  OBVIOUS
<1>1. /\ UNCHANGED <<disk, fd_arr, dir_count, out, ret, program, pc, args, resident, status>>
      /\ UNCHANGED <<fname, data, last, line_start, cnt, shown, junk>>
  BY DEF vars, kernel, shell_vars, grep_vars
<1>2. SearchInv'
  <2>1. \A n, m : Shape(n, m) => Shape(n, m)'
    BY <1>1, ShapeStays
  <2>2. PICK c, n, p : c = dir_count /\ n = dir_count - 1 /\ p = Len(disk)
    OBVIOUS
  <2>3. /\ dir_count' = c /\ dir_count' - 1 = n /\ Len(disk') = p
        /\ Shape(c, c) => Shape(c, c)'
        /\ Shape(n, n) => Shape(n, n)'
        /\ Shape(c, n) => Shape(c, n)'
        /\ Shape(p, p) => Shape(p, p)'
        /\ Shape(0, 0) => Shape(0, 0)'
    BY <1>1, <2>1, <2>2
  <2>4. /\ Shape(dir_count, dir_count) => Shape(dir_count, dir_count)'
        /\ Shape(dir_count - 1, dir_count - 1) => Shape(dir_count - 1, dir_count - 1)'
        /\ Shape(dir_count, dir_count - 1) => Shape(dir_count, dir_count - 1)'
        /\ Shape(Len(disk), Len(disk)) => Shape(Len(disk), Len(disk))'
    BY <2>2, <2>3 DEF Shape
  <2>5. Found(dir_count, args)' = Found(dir_count, args) /\ (Clean(dir_count)' => Clean(dir_count))
    BY <1>1 DEF Found, FoundAt, Clean, TextLines
  <2>6. TextAt => TextAt'
    BY <1>1 DEF TextAt, FillInv, LineInv, ShownBefore, ShownAll, LineAfter, Buffered, Bytes, Here,
                Pos, Offset, Search, Found, FoundAt
  <2>7. InFile => InFile'
    BY <1>1, <2>4, <2>5, <2>6 DEF InFile, Here
  <2> QED
    BY <1>1, <2>3, <2>4, <2>7 DEF SearchInv, SearchAt
<1>3. GrepFinds'
  BY <1>1 DEF GrepFinds, Ended, At, Found, FoundAt, TextLines
<1> QED
  BY <1>2, <1>3

\* grep searches every entry and shows, of each file that is text without zeros, exactly
\* the lines that hold the word, once each and in order, whatever the disk, the line typed
\* and the size of its buffer, as long as the file's lines are shorter than the buffer
\* and no newline lay in it.
THEOREM LinesFound == ASSUME LinesEntered PROVE Spec => []GrepFinds
<1>1. SearchInv /\ GrepFinds /\ ProgramsInv /\ ProgramsInv' /\ [Next]_vars
        => (SearchInv /\ GrepFinds)'
  <2> SUFFICES ASSUME SearchInv, GrepFinds, ProgramsInv, ProgramsInv', [Next]_vars
               PROVE  SearchInv' /\ GrepFinds'
    OBVIOUS
  <2>1. CASE UNCHANGED vars
    BY <2>1, SearchStill
  <2>2. CASE ShellStep
    BY <2>2, ShellFinds
  <2>3. CASE ListerStep \/ SyserrStep
    BY <2>3, OthersSearch
  <2>4. CASE GrepOpens
    BY <2>4, GrepOpensFinds
  <2>5. CASE GrepOpened
    BY <2>5, GrepOpenedFinds
  <2>6. CASE GrepLists
    BY <2>6, GrepListsFinds
  <2>7. CASE GrepEntry
    BY <2>7, GrepEntryFinds
  <2>8. CASE FileOpened
    BY <2>8, FileOpenedFinds
  <2>9. CASE FileFilled
    BY <2>9, FileFilledFinds
  <2>10. CASE LineCut
    BY <2>10, LineCutFinds
  <2>11. CASE LineSearched
    BY <2>11, LineSearchedFinds
  <2>12. CASE FileClosed
    BY <2>12, FileClosedFinds
  <2> QED
    BY <2>1, <2>2, <2>3, <2>4, <2>5, <2>6, <2>7, <2>8, <2>9, <2>10, <2>11, <2>12
       DEF Next, GrepStep
<1> QED
  BY <1>1, SearchInit, ProgramsInvariant, PTL DEF Spec
=============================================================================
