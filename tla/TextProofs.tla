----------------------------- MODULE TextProofs -----------------------------
(***************************************************************************)
(* Theorems about Text, for every size of the memory and of the machine's  *)
(* numbers, all contents, and every call that keeps to Proper (CallsProper *)
(* is what the callers of these functions owe them).                       *)
(*                                                                         *)
(* TextInv has a part for each function: how much of its work is done, and *)
(* that memory is otherwise as it was.  What loops compute is found by     *)
(* induction on sets of numbers (Induction); on it rest the quotients of   *)
(* itoa (QuotientIs) and the value of a string of digits (DenotedIs).      *)
(***************************************************************************)
EXTENDS Text, WellFoundedInduction, TLAPS

\* A set of numbers has a least one.  It takes the place of an induction rule
\* whose predicate would be a parameter.
LEMMA LeastOfSet ==
  ASSUME NEW S, S \subseteq Nat, S # {}
  PROVE  \E x \in S : \A y \in S : x <= y
<1> DEFINE R == OpToRel(<, Nat)
<1>1. IsWellFoundedOn(R, Nat)
  BY NatLessThanWellFounded
<1>2. \A x, y \in Nat : x < y => <<x, y>> \in R
  BY DEF OpToRel
<1> HIDE DEF R
<1>3. PICK x \in S : \A y \in S : <<y, x>> \notin R
  BY <1>1, WFMin
<1>4. \A y \in S : ~(y < x)
  BY <1>2, <1>3
<1> QED
  BY <1>4

\* Induction, over a set.
LEMMA Induction ==
  ASSUME NEW S, 0 \in S, \A n \in Nat : n \in S => n + 1 \in S
  PROVE  Nat \subseteq S
<1> DEFINE T == Nat \ S
<1> SUFFICES ASSUME T # {} PROVE FALSE
  OBVIOUS
<1>1. PICK x \in T : \A y \in T : x <= y
  BY LeastOfSet
<1>2. x # 0 /\ x - 1 \in Nat
  OBVIOUS
<1>3. x - 1 \in S
  BY <1>1, <1>2
<1> QED
  BY <1>2, <1>3

-----------------------------------------------------------------------------
\* The indexes as a function of the assembly leaves them.
Calm == i = 0 /\ j = 0 /\ newval = 0

\* The byte a call is to put at address b, where it puts one.
Want(b) ==
  CASE op = "memset"       -> call.c % 256
    [] op = "memset_word"  -> (call.c \div Place[((b - call.d) % 2) + 1]) % 256
    [] op = "memset_dword" -> (call.c \div Place[((b - call.d) % 4) + 1]) % 256
    [] op = "strncpy"      -> IF b - call.d < Length(was, call.s)
                              THEN was[call.s + (b - call.d)] ELSE 0
    [] OTHER               -> was[call.s + (b - call.d)]

\* The addresses lo to hi hold what is wanted, the others what they held.
Filled(lo, hi) == mem = [b \in Bytes |-> IF b \in lo..hi THEN Want(b) ELSE was[b]]

\* memset and memcpy: what is left of the call is in ecx and edx; edi is the
\* first address not yet written.
BlockRegs ==
  /\ Calm
  /\ \/ pc = "top" /\ ecx = call.d + call.n - edi
     \/ pc = "rep" /\ df = 0 /\ edi + 4 * ecx + edx = call.d + call.n
     \/ pc = "bottom" /\ edi + edx = call.d + call.n
     \/ pc = "done" /\ edi = call.d + call.n
  /\ edi \in call.d..call.d + call.n
  /\ ecx \in 0..call.n /\ edx \in 0..call.n
  /\ esi = IF op = "memcpy" THEN call.s + (edi - call.d) ELSE call.s

\* The part of the invariant about memset and memcpy.
BlockInv == op \in Blocks => BlockRegs /\ Filled(call.d, edi - 1)

\* A string instruction that goes forwards, after call.n - ecx repetitions.
Forward ==
  /\ df = 0
  /\ edi = call.d + Unit * (call.n - ecx)
  /\ esi = IF op = "memmove" THEN call.s + (call.n - ecx) ELSE call.s
  /\ Filled(call.d, edi - 1)

\* memmove from the back: the last bytes are done.
Backward ==
  /\ df = 1
  /\ edi = call.d + ecx - 1
  /\ esi = call.s + ecx - 1
  /\ Filled(edi + 1, call.d + call.n - 1)

\* memset_word, memset_dword and memmove.
DirectInv ==
  op \in Repeats \ Blocks =>
    /\ Calm /\ edx = 0 /\ ecx \in 0..call.n
    /\ \/ pc = "direct" /\ edi = call.d /\ esi = call.s /\ ecx = call.n /\ mem = was
       \/ /\ pc = "rep" \/ (pc = "done" /\ ecx = 0)
          /\ IF op = "memmove" /\ Backwards THEN Backward ELSE Forward

\* Before the call nothing has happened, and the call is one a caller may make.
Base ==
  /\ was \in Contents /\ df \in {0, 1}
  /\ IF pc = "idle"
     THEN /\ mem = was /\ call = NoCall /\ Calm
          /\ edi = 0 /\ esi = 0 /\ ecx = 0 /\ edx = 0
     ELSE Proper(call, was)

\* The memory before the call is bytes.
LEMMA WasTyped == Base => was \in [Bytes -> 0..255]
  BY TextAssumption DEF Base, Bytes

\* How many bytes go to edi.
LEMMA DatumLength ==
  ASSUME NEW k \in Nat PROVE DOMAIN Datum(k) = 1..k /\ Len(Datum(k)) = k
<1> DEFINE f(b) == CASE op = "memset" -> call.c % 256
                    [] op \in Fills \ {"memset"} -> (call.c \div Place[b]) % 256
                    [] OTHER -> mem[esi + b - 1]
<1>1. Datum(k) = [b \in 1..k |-> f(b)]
  BY DEF Datum
<1> HIDE DEF f
<1> QED
  BY <1>1

\* The k bytes behind a region that is filled extend it.
LEMMA FillOn ==
  ASSUME NEW lo \in Int, NEW k \in Nat, edi \in Int, lo <= edi, Filled(lo, edi - 1),
         \A t \in 1..k : Datum(k)[t] = Want(edi + t - 1)
  PROVE  Written(edi, Datum(k)) = [b \in Bytes |-> IF b \in lo..edi + k - 1 THEN Want(b) ELSE was[b]]
<1>1. Len(Datum(k)) = k
  BY DatumLength
<1>2. Written(edi, Datum(k)) =
        [b \in Bytes |-> IF b \in edi..edi + k - 1 THEN Datum(k)[b - edi + 1] ELSE mem[b]]
  BY <1>1 DEF Written
<1>3. ASSUME NEW b \in Bytes, b \in edi..edi + k - 1
      PROVE  Datum(k)[b - edi + 1] = Want(b)
  <2>1. b - edi + 1 \in 1..k /\ edi + (b - edi + 1) - 1 = b
    BY <1>3, TextAssumption DEF Bytes
  <2> QED
    BY <2>1
<1> QED
  BY <1>2, <1>3, TextAssumption DEF Filled, Bytes

\* What Proper says of the calls that move bytes.
LEMMA MovesProper ==
  ASSUME Base, pc # "idle"
  PROVE  /\ call.d \in Bytes /\ call.s \in Bytes /\ call.n \in 0..Size
         /\ call.c \in 0..Modulus - 1
         /\ op \in Blocks \cup {"memmove", "strncpy"} => call.d + call.n <= Size
         /\ op = "memset_word" => call.d + 2 * call.n <= Size
         /\ op = "memset_dword" => call.d + 4 * call.n <= Size
         /\ op \in {"memcpy", "memmove"} => call.s + call.n <= Size
         /\ op = "memcpy" => call.d + call.n <= call.s \/ call.s + call.n <= call.d
<1>1. Proper(call, was)
  BY DEF Base
<1> QED
  BY <1>1 DEF Proper, op

\* The parameters of a call, as numbers.
LEMMA CallNumbers ==
  ASSUME Base, pc # "idle"
  PROVE  /\ call.d \in Nat /\ call.s \in Nat /\ call.n \in Nat /\ call.c \in Nat
         /\ call.d < Size /\ call.s < Size /\ Size \in Nat /\ Bytes = 0..Size - 1
<1>1. Size \in Nat /\ Bytes = 0..Size - 1 /\ Modulus \in Nat
  BY TextAssumption DEF Bytes
<1>2. /\ call.d \in Bytes /\ call.s \in Bytes /\ call.n \in 0..Size
      /\ call.c \in 0..Modulus - 1
  BY MovesProper
<1> QED
  BY <1>1, <1>2

\* What memset and memcpy write next is what is wanted there: memcpy has not
\* written over any of its source, which does not overlap.
LEMMA BlockData ==
  ASSUME Base, BlockInv, op \in Blocks, pc # "idle",
         NEW k \in Nat, edi + k <= call.d + call.n
  PROVE  \A t \in 1..k : Datum(k)[t] = Want(edi + t - 1)
<1>1. /\ call.d \in Bytes /\ call.s \in Bytes /\ call.n \in 0..Size
      /\ op = "memcpy" => call.d + call.n <= call.s \/ call.s + call.n <= call.d
      /\ op = "memcpy" => call.s + call.n <= Size
  BY MovesProper
<1>2. Size \in Nat /\ Bytes = 0..Size - 1
  BY TextAssumption DEF Bytes
<1> SUFFICES ASSUME NEW t \in 1..k PROVE Datum(k)[t] = Want(edi + t - 1)
  OBVIOUS
<1>3. CASE op = "memset"
  BY <1>3 DEF Datum, Want
<1>4. CASE op = "memcpy"
  <2>1. Datum(k)[t] = mem[esi + t - 1]
    BY <1>4 DEF Datum, Fills
  <2>2. edi \in call.d..call.d + call.n /\ esi = call.s + (edi - call.d)
    BY <1>4 DEF BlockInv, BlockRegs
  <2>4. esi + t - 1 \in Bytes /\ esi + t - 1 \notin call.d..edi - 1
    <3>1. /\ Size \in Nat /\ call.d \in Nat /\ call.s \in Nat /\ call.n \in Nat
          /\ call.d + call.n <= call.s \/ call.s + call.n <= call.d
          /\ call.s + call.n <= Size
      BY <1>1, <1>2, <1>4
    <3>2. PICK o \in Nat : o = edi - call.d /\ o + k <= call.n
      BY <2>2, <3>1
    <3>3. esi + t - 1 = call.s + o + t - 1 /\ edi = call.d + o
      BY <2>2, <3>1, <3>2
    <3>4. esi + t - 1 \in 0..Size - 1
      BY <3>1, <3>2, <3>3
    <3>5. call.s + o + t - 1 \notin call.d..call.d + o - 1
      <4>1. CASE call.d + call.n <= call.s
        BY <3>1, <3>2, <4>1
      <4>2. CASE call.s + call.n <= call.d
        BY <3>1, <3>2, <4>2
      <4> QED
        BY <3>1, <4>1, <4>2
    <3>6. esi + t - 1 \in Bytes
      BY <1>2, <3>4
    <3>7. edi - 1 = call.d + o - 1
      BY <3>1, <3>2, <3>3
    <3>8. esi + t - 1 \notin call.d..edi - 1
      BY <3>3, <3>5, <3>7
    <3> QED
      BY <3>6, <3>8
  <2>5. mem[esi + t - 1] = was[esi + t - 1]
    BY <2>4 DEF BlockInv, Filled
  <2>6. \A b : Want(b) = was[call.s + (b - call.d)]
    BY <1>4 DEF Want
  <2>7. PICK b : b = edi + t - 1
    OBVIOUS
  <2>8. esi + t - 1 = call.s + (b - call.d)
    BY <1>1, <1>2, <2>2, <2>7
  <2> QED
    BY <2>1, <2>5, <2>6, <2>7, <2>8
<1> QED
  BY <1>3, <1>4 DEF Blocks

\* A step that writes the next k bytes of a block.
LEMMA BlockWrites ==
  ASSUME Base, BlockInv, op \in Blocks, pc # "idle",
         NEW k \in Nat, edi + k <= call.d + call.n,
         mem' = Written(edi, Datum(k)), edi' = edi + k, UNCHANGED <<was, call>>
  PROVE  Filled(call.d, edi - 1)'
<1>1. /\ call.d \in Nat /\ call.n \in Nat /\ edi \in Int /\ call.d <= edi
  <2>1. call.d \in Bytes /\ call.n \in 0..Size
    BY MovesProper
  <2> QED
    BY <2>1, TextAssumption DEF BlockInv, BlockRegs, Bytes
<1>2. \A t \in 1..k : Datum(k)[t] = Want(edi + t - 1)
  BY BlockData
<1>3. Filled(call.d, edi - 1)
  BY DEF BlockInv
<1>4. mem' = [b \in Bytes |-> IF b \in call.d..edi + k - 1 THEN Want(b) ELSE was[b]]
  BY <1>1, <1>2, <1>3, FillOn
<1>5. \A b : Want(b)' = Want(b)
  BY DEF Want, op
<1>6. edi' - 1 = edi + k - 1 /\ was' = was /\ call' = call
  BY <1>1
<1> QED
  BY <1>4, <1>5, <1>6 DEF Filled

\* The words of a block and the bytes behind them.
LEMMA Quarters ==
  ASSUME NEW x \in Nat
  PROVE  /\ x = 4 * (x \div 4) + (x % 4)
         /\ x % 4 \in 0..3 /\ x \div 4 \in 0..x /\ x % 4 \in 0..x
  OBVIOUS

\* A step of memset or memcpy.
LEMMA BlockStep ==
  ASSUME Base, BlockInv, op \in Blocks, Repeating, UNCHANGED <<was, call, shown>>
  PROVE  BlockInv'
<1> DEFINE d == call.d
           n == call.n
<1>1. /\ d \in Nat /\ n \in Nat /\ call.s \in Nat /\ pc # "idle"
      /\ edi \in d..d + n /\ ecx \in 0..n /\ edx \in 0..n /\ BlockRegs
  <2>1. pc # "idle" /\ BlockRegs
    BY DEF BlockInv, BlockRegs
  <2>2. d \in Bytes /\ call.s \in Bytes /\ n \in 0..Size
    BY <2>1, MovesProper
  <2> QED
    BY <2>1, <2>2, TextAssumption DEF BlockRegs, Bytes
<1>2. op' = op /\ call' = call /\ was' = was
  BY DEF op
<1>3. ASSUME mem' = mem, edi' = edi PROVE Filled(call.d, edi - 1)'
  <2>1. \A b : Want(b)' = Want(b)
    BY DEF Want, op
  <2> QED
    BY <1>3, <2>1 DEF Filled, BlockInv
<1>4. CASE BlockByte
  <2>1. edi + 1 <= d + n /\ ecx = d + n - edi
    BY <1>1, <1>4 DEF BlockRegs, BlockByte
  <2>2. Filled(call.d, edi - 1)'
    BY <1>1, <1>4, <2>1, BlockWrites DEF BlockByte, Advance
  <2>3. BlockRegs'
    BY <1>1, <1>2, <1>4, <2>1 DEF BlockRegs, Calm, BlockByte, Advance, Goto, indexes, Blocks, Fills
  <2> QED
    BY <2>2, <2>3 DEF BlockInv
<1>5. CASE BlockAligned
  <2>1. ecx = d + n - edi
    BY <1>1, <1>5 DEF BlockRegs, BlockAligned
  <2>2. edi + 4 * ecx' + edx' = d + n /\ ecx' \in 0..n /\ edx' \in 0..n
    BY <1>1, <1>5, <2>1, Quarters DEF BlockAligned
  <2>3. BlockRegs'
    BY <1>1, <1>2, <1>5, <2>2 DEF BlockRegs, Calm, BlockAligned, cld, Goto, indexes
  <2> QED
    BY <1>3, <1>5, <2>3 DEF BlockInv, BlockAligned
<1>6. CASE BlockEnd
  <2>1. BlockRegs'
    BY <1>1, <1>2, <1>6 DEF BlockRegs, Calm, BlockEnd, Return, indexes, registers
  <2> QED
    BY <1>3, <1>6, <2>1 DEF BlockInv, BlockEnd, registers
<1>7. CASE Rep
  <2>1. Unit = 4 /\ pc = "rep" /\ ecx # 0
    BY <1>7 DEF Unit, Blocks, Rep
  <2>2. edi + 4 <= d + n /\ df = 0 /\ edi + 4 * ecx + edx = d + n
    BY <1>1, <2>1 DEF BlockRegs
  <2>3. Advance(4) /\ mem' = Written(edi, Datum(4))
    BY <1>7, <2>1, <2>2 DEF Rep
  <2>4. Filled(call.d, edi - 1)'
    BY <1>1, <2>2, <2>3, BlockWrites DEF Advance
  <2>5. BlockRegs'
    BY <1>1, <1>2, <1>7, <2>1, <2>2, <2>3 DEF BlockRegs, Calm, Rep, Advance, indexes, Blocks, Fills
  <2> QED
    BY <2>4, <2>5 DEF BlockInv
<1>8. CASE RepEnd
  <2>1. BlockRegs'
    BY <1>1, <1>2, <1>8 DEF BlockRegs, Calm, RepEnd, Goto, indexes, registers
  <2> QED
    BY <1>3, <1>8, <2>1 DEF BlockInv, RepEnd, registers
<1>9. CASE BlockBottom
  <2>1. edi + 1 <= d + n /\ edi + edx = d + n
    BY <1>1, <1>9 DEF BlockRegs, BlockBottom
  <2>2. Filled(call.d, edi - 1)'
    BY <1>1, <1>9, <2>1, BlockWrites DEF BlockBottom, Advance
  <2>3. BlockRegs'
    BY <1>1, <1>2, <1>9, <2>1 DEF BlockRegs, Calm, BlockBottom, Advance, Goto, indexes, Blocks, Fills
  <2> QED
    BY <2>2, <2>3 DEF BlockInv
<1> QED
  BY <1>1, <1>4, <1>5, <1>6, <1>7, <1>8, <1>9 DEF Repeating, Direct, BlockRegs

-----------------------------------------------------------------------------
\* The byte that stosw and stosl put at a place k of the region.
LEMMA Halves ==
  ASSUME NEW m \in Nat, NEW t \in 1..2
  PROVE  ((2 * m + t - 1) % 2) + 1 = t
  OBVIOUS

\* As Halves, of four bytes.
LEMMA Fourths ==
  ASSUME NEW m \in Nat, NEW t \in 1..4
  PROVE  ((4 * m + t - 1) % 4) + 1 = t
  OBVIOUS

\* The functions that are one string instruction, and what it moves.
LEMMA DirectOps ==
  ASSUME op \in Repeats \ Blocks
  PROVE  /\ op \in {"memset_word", "memset_dword", "memmove"}
         /\ op # "memmove" <=> op \in Fills
         /\ op = "memset_word" => Unit = 2
         /\ op = "memset_dword" => Unit = 4
         /\ op = "memmove" => Unit = 1
  BY DEF Repeats, Blocks, Fills, Unit

\* What holds of their parameters.
LEMMA DirectFacts ==
  ASSUME Base, DirectInv, op \in Repeats \ Blocks
  PROVE  /\ Size \in Nat /\ Bytes = 0..Size - 1
         /\ call.d \in Nat /\ call.s \in Nat /\ call.n \in Nat /\ Unit \in {1, 2, 4}
         /\ call.d < Size /\ call.s < Size
         /\ ecx \in 0..call.n
         /\ call.d + Unit * call.n <= Size
         /\ op = "memmove" => call.s + call.n <= Size
<1>1. pc # "idle" /\ ecx \in 0..call.n
  BY DEF DirectInv
<1>2. Size \in Nat /\ Bytes = 0..Size - 1
  BY TextAssumption DEF Bytes
<1>3. /\ call.d \in Bytes /\ call.s \in Bytes /\ call.n \in 0..Size
      /\ op = "memmove" => call.d + call.n <= Size
      /\ op = "memset_word" => call.d + 2 * call.n <= Size
      /\ op = "memset_dword" => call.d + 4 * call.n <= Size
      /\ op = "memmove" => call.s + call.n <= Size
  BY <1>1, MovesProper
<1> QED
  BY <1>1, <1>2, <1>3, DirectOps

\* What goes to edi next is what is wanted there: memmove forwards has not
\* written over what it still has to read, since its source is not below.
LEMMA ForwardData ==
  ASSUME Base, DirectInv, op \in Repeats \ Blocks, pc = "rep", ecx # 0, Forward,
         ~(op = "memmove" /\ Backwards)
  PROVE  \A t \in 1..Unit : Datum(Unit)[t] = Want(edi + t - 1)
<1>0. /\ Size \in Nat /\ Bytes = 0..Size - 1
      /\ call.d \in Nat /\ call.s \in Nat /\ call.n \in Nat /\ ecx \in 0..call.n
      /\ call.s < Size /\ Unit \in {1, 2, 4}
      /\ op = "memmove" => call.s + call.n <= Size
  BY DirectFacts
<1>1. PICK m \in Nat : m = call.n - ecx /\ m < call.n /\ edi = call.d + Unit * m
  BY <1>0 DEF Forward
<1> SUFFICES ASSUME NEW t \in 1..Unit PROVE Datum(Unit)[t] = Want(edi + t - 1)
  OBVIOUS
<1>2. CASE op = "memset_word"
  <2>1. Unit = 2
    BY <1>2, DirectOps
  <2>2. PICK b : b = edi + t - 1
    OBVIOUS
  <2>3. Want(b) = (call.c \div Place[((b - call.d) % 2) + 1]) % 256
    BY <1>2 DEF Want
  <2>4. b - call.d = 2 * m + t - 1
    <3>1. edi = call.d + 2 * m /\ t \in 1..2
      BY <1>1, <2>1
    <3> QED
      BY <1>0, <2>2, <3>1
  <2>5. ((b - call.d) % 2) + 1 = t
    BY <1>1, <2>1, <2>4, Halves
  <2>6. Datum(Unit)[t] = (call.c \div Place[t]) % 256
    BY <1>2 DEF Datum, Fills
  <2> QED
    BY <2>2, <2>3, <2>5, <2>6
<1>3. CASE op = "memset_dword"
  <2>1. Unit = 4
    BY <1>3, DirectOps
  <2>2. PICK b : b = edi + t - 1
    OBVIOUS
  <2>3. Want(b) = (call.c \div Place[((b - call.d) % 4) + 1]) % 256
    BY <1>3 DEF Want
  <2>4. b - call.d = 4 * m + t - 1
    <3>1. edi = call.d + 4 * m /\ t \in 1..4
      BY <1>1, <2>1
    <3> QED
      BY <1>0, <2>2, <3>1
  <2>5. ((b - call.d) % 4) + 1 = t
    BY <1>1, <2>1, <2>4, Fourths
  <2>6. Datum(Unit)[t] = (call.c \div Place[t]) % 256
    BY <1>3 DEF Datum, Fills
  <2> QED
    BY <2>2, <2>3, <2>5, <2>6
<1>4. CASE op = "memmove"
  <2>1. t = 1 /\ Unit = 1
    BY <1>4, DirectOps
  <2>2. Datum(Unit)[t] = mem[esi]
    <3>1. Datum(Unit)[t] = mem[esi + t - 1]
      BY <1>4 DEF Datum, Fills
    <3>2. esi = call.s + m
      BY <1>1, <1>4 DEF Forward
    <3>3. esi + t - 1 = esi
      BY <1>0, <1>1, <2>1, <3>2
    <3> QED
      BY <3>1, <3>3
  <2>3. call.d <= call.s
    BY <1>0, <1>4 DEF Backwards
  <2>4. esi = call.s + m /\ edi = call.d + m
    BY <1>0, <1>1, <1>4, <2>1 DEF Forward
  <2>5. esi \in Bytes /\ esi \notin call.d..edi - 1
    <3>1. m < call.n
      BY <1>1
    <3>2. esi \in Bytes
      BY <1>0, <1>4, <2>4, <3>1
    <3>3. esi \notin call.d..edi - 1
      BY <1>0, <2>3, <2>4, <3>1
    <3> QED
      BY <3>2, <3>3
  <2>6. mem[esi] = was[esi]
    BY <2>5 DEF Forward, Filled
  <2>7. \A b : Want(b) = was[call.s + (b - call.d)]
    BY <1>4 DEF Want
  <2>8. PICK b : b = edi + t - 1
    OBVIOUS
  <2>9. esi = call.s + (b - call.d)
    BY <1>0, <1>1, <2>1, <2>4, <2>8
  <2> QED
    BY <2>2, <2>6, <2>7, <2>8, <2>9
<1> QED
  BY <1>2, <1>3, <1>4, DirectOps

\* One unit more.
LEMMA Multiples ==
  ASSUME NEW u \in {1, 2, 4}, NEW m \in Nat
  PROVE  u * (m + 1) = u * m + u /\ u * m \in Nat
  OBVIOUS

\* A step of memset_word, memset_dword or memmove, which backwards has not
\* written over its source either.
LEMMA DirectStep ==
  ASSUME Base, DirectInv, op \in Repeats \ Blocks, Repeating, UNCHANGED <<was, call, shown>>
  PROVE  DirectInv'
<1> DEFINE d == call.d
           n == call.n
<1>0. /\ Size \in Nat /\ Bytes = 0..Size - 1
      /\ d \in Nat /\ call.s \in Nat /\ n \in Nat /\ ecx \in 0..n
      /\ call.s < Size /\ Unit \in {1, 2, 4}
      /\ op = "memmove" => call.s + n <= Size
  BY DirectFacts
<1>t. /\ d \in Nat /\ call.s \in Nat /\ n \in Nat /\ ecx \in Nat /\ ecx <= n
      /\ Unit \in Nat /\ Size \in Nat
  BY <1>0
<1>1. op' = op /\ call' = call /\ was' = was /\ Unit' = Unit /\ Backwards' = Backwards
      /\ \A b : Want(b)' = Want(b)
  BY DEF op, Unit, Backwards, Want
<1>2. pc \in {"direct", "rep", "done"} /\ Calm /\ edx = 0
  BY DEF DirectInv
<1>3. ASSUME UNCHANGED <<mem, df, registers, indexes>>, pc = "rep", ecx = 0, pc' = "done"
      PROVE  DirectInv'
  <2>1. edi' = edi /\ esi' = esi /\ ecx' = ecx /\ edx' = edx /\ Calm'
    BY <1>2, <1>3 DEF registers, indexes, Calm
  <2>2. Forward => Forward'
    BY <1>1, <1>3, <2>1 DEF Forward, Filled
  <2>3. Backward => Backward'
    BY <1>1, <1>3, <2>1 DEF Backward, Filled
  <2> QED
    BY <1>0, <1>1, <1>2, <1>3, <2>1, <2>2, <2>3 DEF DirectInv
<1>4. CASE Direct
  <2>1. edi = d /\ esi = call.s /\ ecx = n /\ mem = was
    BY <1>4 DEF DirectInv, Direct
  <2>2. pc' = "rep" /\ ecx' = ecx /\ edx' = edx /\ mem' = mem /\ Calm'
    BY <1>2, <1>4 DEF Direct, Goto, indexes, Calm
  <2>3. CASE op = "memmove" /\ Backwards
    <3>1. esi' = call.s + n - 1 /\ edi' = d + n - 1 /\ df' = 1
      BY <1>4, <2>1, <2>3 DEF Direct
    <3>2. Filled(edi + 1, call.d + call.n - 1)'
      <4>1. was \in [Bytes -> 0..255]
        BY WasTyped
      <4>2. edi' + 1 = d + n
        BY <1>t, <3>1
      <4> QED
        BY <1>0, <1>1, <2>1, <2>2, <4>1, <4>2 DEF Filled
    <3>3. Backward'
      BY <1>0, <1>1, <2>1, <2>2, <3>1, <3>2 DEF Backward
    <3> QED
      BY <1>0, <1>1, <1>2, <2>1, <2>2, <2>3, <3>3 DEF DirectInv
  <2>4. CASE ~(op = "memmove" /\ Backwards)
    <3>1. esi' = call.s /\ edi' = d /\ df' = 0
      BY <1>4, <2>1, <2>4 DEF Direct, cld
    <3>2. Filled(call.d, edi - 1)'
      <4>1. was \in [Bytes -> 0..255]
        BY WasTyped
      <4> QED
        BY <1>0, <1>1, <2>1, <2>2, <3>1, <4>1 DEF Filled
    <3>3. Forward'
      <4>1. n - ecx' = 0
        BY <1>t, <2>1, <2>2
      <4>2. d + Unit * 0 = d /\ call.s + 0 = call.s
        BY <1>t
      <4>3. edi' = d + Unit * (n - ecx')
        BY <3>1, <4>1, <4>2
      <4>4. esi' = IF op = "memmove" THEN call.s + (n - ecx') ELSE call.s
        BY <3>1, <4>1, <4>2
      <4> QED
        BY <1>1, <3>1, <3>2, <4>3, <4>4 DEF Forward
    <3> QED
      BY <1>0, <1>1, <1>2, <2>1, <2>2, <2>4, <3>3 DEF DirectInv
  <2> QED
    BY <2>3, <2>4
<1>5. CASE Rep
  <2>1. /\ pc = "rep" /\ ecx # 0 /\ mem' = Written(edi, Datum(Unit))
        /\ Advance(IF df = 0 THEN Unit ELSE -Unit)
        /\ ecx' = ecx - 1 /\ df' = df /\ pc' = "rep" /\ edx' = 0 /\ Calm'
    BY <1>2, <1>5 DEF Rep, indexes, Calm
  <2>2. ecx' \in 0..n
    BY <1>0, <2>1
  <2>3. CASE op = "memmove" /\ Backwards
    <3>1. Backward /\ call.s < d /\ Unit = 1 /\ d < Size
      BY <2>1, <2>3, DirectFacts, DirectOps DEF DirectInv, Backwards
    <3>2. /\ edi = d + ecx - 1 /\ esi = call.s + ecx - 1
          /\ edi' = edi - 1 /\ esi' = esi - 1
      <4>1. edi = d + ecx - 1 /\ esi = call.s + ecx - 1 /\ df = 1
        BY <3>1 DEF Backward
      <4>2. Advance(-1) /\ op \notin Fills
        BY <2>1, <2>3, <3>1, <4>1 DEF Fills
      <4>3. edi' = edi + (-1) /\ esi' = esi + (-1)
        BY <4>2 DEF Advance
      <4> QED
        BY <1>t, <4>1, <4>3
    <3>3. esi \in Bytes /\ esi \notin edi + 1..d + n - 1
      <4>1. call.s + n <= Size /\ ecx >= 1
        BY <1>0, <1>t, <2>1, <2>3
      <4>2. esi \in 0..Size - 1 /\ esi < edi + 1
        BY <1>t, <3>1, <3>2, <4>1
      <4> QED
        BY <1>0, <1>t, <3>2, <4>2
    <3>4. Datum(1)[1] = was[esi]
      <4>1. mem[esi] = was[esi]
        BY <3>1, <3>3 DEF Backward, Filled
      <4>2. Datum(1)[1] = mem[esi + 1 - 1]
        BY <2>3 DEF Datum, Fills
      <4>3. esi + 1 - 1 = esi
        BY <1>0, <3>2
      <4> QED
        BY <4>1, <4>2, <4>3
    <3>5. Want(edi) = was[esi]
      <4>1. \A b : Want(b) = was[call.s + (b - call.d)]
        BY <2>3 DEF Want
      <4>2. call.s + (edi - call.d) = esi
        BY <1>0, <3>2
      <4> QED
        BY <4>1, <4>2
    <3>6. mem' = [b \in Bytes |-> IF b = edi THEN Want(edi) ELSE mem[b]]
      <4>1. Len(Datum(1)) = 1
        BY DatumLength
      <4>2. \A b \in Bytes : b \in edi..edi + 1 - 1 <=> b = edi
        BY <1>0, <3>2
      <4>3. edi - edi + 1 = 1
        BY <1>0, <3>2
      <4> QED
        BY <2>1, <3>1, <3>4, <3>5, <4>1, <4>2, <4>3 DEF Written
    <3>7. Filled(edi + 1, call.d + call.n - 1)'
      <4>1. mem = [b \in Bytes |-> IF b \in edi + 1..d + n - 1 THEN Want(b) ELSE was[b]]
        BY <3>1 DEF Backward, Filled
      <4>2. edi' + 1 = edi /\ edi \in Int /\ edi <= d + n - 1
        BY <1>t, <3>2
      <4>3. \A b \in Bytes : b \in edi..d + n - 1 <=> b = edi \/ b \in edi + 1..d + n - 1
        BY <1>0, <4>2
      <4>4. mem' = [b \in Bytes |-> IF b \in edi..d + n - 1 THEN Want(b) ELSE was[b]]
        BY <3>6, <4>1, <4>3
      <4> QED
        BY <1>1, <4>2, <4>4 DEF Filled
    <3>8. Backward'
      <4>1. edi' = d + ecx' - 1 /\ esi' = call.s + ecx' - 1
        BY <1>t, <2>1, <3>2
      <4>2. df' = 1
        BY <2>1, <3>1 DEF Backward
      <4> QED
        BY <1>1, <3>7, <4>1, <4>2 DEF Backward
    <3> QED
      BY <1>1, <2>1, <2>2, <2>3, <3>8 DEF DirectInv
  <2>4. CASE ~(op = "memmove" /\ Backwards)
    <3>1. Forward
      BY <2>1, <2>4 DEF DirectInv
    <3>2. PICK m \in Nat : m = n - ecx /\ n - ecx' = m + 1 /\ edi = d + Unit * m
      BY <1>0, <2>1, <3>1 DEF Forward
    <3>3. edi' = edi + Unit /\ edi' = d + Unit * (m + 1)
      <4>1. edi' = edi + Unit
        BY <2>1, <3>1 DEF Forward, Advance
      <4>2. Unit * (m + 1) = Unit * m + Unit /\ Unit * m \in Nat
        BY <1>0, Multiples
      <4> QED
        BY <1>t, <3>2, <4>1, <4>2
    <3>4. d <= edi /\ edi \in Int
      <4>1. Unit * m \in Nat
        BY <1>0, Multiples
      <4> QED
        BY <1>t, <3>2, <4>1
    <3>5. mem' = [b \in Bytes |-> IF b \in d..edi + Unit - 1 THEN Want(b) ELSE was[b]]
      <4>1. \A t \in 1..Unit : Datum(Unit)[t] = Want(edi + t - 1)
        BY <2>1, <2>4, <3>1, ForwardData
      <4>2. Filled(d, edi - 1) /\ Unit \in Nat
        BY <1>t, <3>1 DEF Forward
      <4> QED
        BY <1>t, <2>1, <3>4, <4>1, <4>2, FillOn
    <3>6. Filled(call.d, edi - 1)'
      <4>1. edi' - 1 = edi + Unit - 1
        BY <1>t, <3>3, <3>4
      <4> QED
        BY <1>1, <3>5, <4>1 DEF Filled
    <3>7. esi' = IF op = "memmove" THEN call.s + (n - ecx') ELSE call.s
      <4>1. CASE op = "memmove"
        <5>1. Unit = 1 /\ op \notin Fills
          BY <4>1, DirectOps
        <5>2. esi' = esi + 1 /\ esi = call.s + m
          BY <2>1, <3>1, <3>2, <4>1, <5>1 DEF Forward, Advance
        <5>3. call.s + m + 1 = call.s + (m + 1)
          BY <1>t
        <5> QED
          BY <3>2, <4>1, <5>2, <5>3
      <4>2. CASE op # "memmove"
        BY <2>1, <3>1, <4>2, DirectOps DEF Forward, Advance
      <4> QED
        BY <4>1, <4>2
    <3>8. Forward'
      BY <1>1, <2>1, <3>1, <3>2, <3>3, <3>6, <3>7 DEF Forward
    <3> QED
      BY <1>1, <2>1, <2>2, <2>4, <3>8 DEF DirectInv
  <2> QED
    BY <2>3, <2>4
<1>6. CASE RepEnd
  BY <1>3, <1>6 DEF RepEnd, Return
<1> QED
  BY <1>2, <1>4, <1>5, <1>6
  DEF Repeating, BlockByte, BlockAligned, BlockBottom, BlockEnd

-----------------------------------------------------------------------------
\* A string has one length.
LEMMA LengthIs ==
  ASSUME NEW m, NEW a \in Nat, NEW l \in 0..Size - 1,
         m[a + l] = 0, \A k \in 0..l - 1 : m[a + k] # 0
  PROVE  Length(m, a) = l
<1> DEFINE P(x) == m[a + x] = 0 /\ \A k \in 0..x - 1 : m[a + k] # 0
<1>0. Size \in Nat
  BY TextAssumption
<1>1. P(l)
  OBVIOUS
<1>2. \A x \in 0..Size - 1 : P(x) => x = l
  <2> SUFFICES ASSUME NEW x \in 0..Size - 1, P(x), x # l PROVE FALSE
    OBVIOUS
  <2>1. CASE x < l
    BY <1>0, <2>1
  <2>2. CASE l < x
    BY <1>0, <2>2
  <2> QED
    BY <1>0, <2>1, <2>2
<1>3. Length(m, a) = CHOOSE x \in 0..Size - 1 : P(x)
  BY DEF Length
<1> HIDE DEF P
<1> QED
  BY <1>1, <1>2, <1>3

\* A string that ends has a length, at the first Nul.
LEMMA LengthEnds ==
  ASSUME NEW m, NEW a \in Nat, Ends(m, a)
  PROVE  /\ Length(m, a) \in 0..Size - 1 /\ a + Length(m, a) < Size
         /\ m[a + Length(m, a)] = 0
         /\ \A k \in 0..Length(m, a) - 1 : m[a + k] # 0
<1> DEFINE S == {l \in 0..Size - 1 : a + l < Size /\ m[a + l] = 0}
<1>0. Size \in Nat
  BY TextAssumption
<1>1. S \subseteq Nat /\ S # {}
  <2>1. PICK l \in 0..Size - 1 : a + l < Size /\ m[a + l] = 0
    BY DEF Ends
  <2>2. l \in S
    BY <2>1
  <2>3. S \subseteq Nat
    BY <1>0
  <2> QED
    BY <2>2, <2>3
<1>2. PICK l \in S : \A y \in S : l <= y
  BY <1>1, LeastOfSet
<1>3. \A k \in 0..l - 1 : m[a + k] # 0
  BY <1>0, <1>2
<1>4. Length(m, a) = l
  BY <1>2, <1>3, LengthIs
<1> QED
  BY <1>2, <1>3, <1>4

\* One byte written.
LEMMA WrittenByte ==
  ASSUME NEW a \in Nat, NEW x
  PROVE  Written(a, <<x>>) = [b \in Bytes |-> IF b = a THEN x ELSE mem[b]]
<1>1. Size \in Nat /\ Bytes = 0..Size - 1
  BY TextAssumption DEF Bytes
<1>2. Len(<<x>>) = 1 /\ <<x>>[1] = x
  OBVIOUS
<1>3. \A b \in Bytes : b \in a..a + 1 - 1 <=> b = a
  BY <1>1
<1>4. a - a + 1 = 1
  OBVIOUS
<1> QED
  BY <1>2, <1>3, <1>4 DEF Written

\* Filling one byte more.
LEMMA FillByte ==
  ASSUME NEW lo \in Nat, NEW k \in Nat, Filled(lo, lo + k - 1), NEW x, x = Want(lo + k)
  PROVE  Written(lo + k, <<x>>) = [b \in Bytes |-> IF b \in lo..lo + k THEN Want(b) ELSE was[b]]
<1>1. Size \in Nat /\ Bytes = 0..Size - 1
  BY TextAssumption DEF Bytes
<1>2. \A b \in Bytes : b \in lo..lo + k <=> b = lo + k \/ b \in lo..lo + k - 1
  BY <1>1
<1>3. lo + k \in Nat
  OBVIOUS
<1>4. Written(lo + k, <<x>>) = [b \in Bytes |-> IF b = lo + k THEN x ELSE mem[b]]
  BY <1>3, WrittenByte
<1> QED
  BY <1>2, <1>4 DEF Filled

-----------------------------------------------------------------------------
\* The length of the string given to the call.
StringLength == Length(was, call.s)

\* The functions written in C leave the registers of the assembly alone.
WalkRegs == edi = call.d /\ esi = call.s /\ ecx = call.n /\ edx = 0 /\ newval = 0

\* strlen has passed i characters that are not Nul.
StrlenInv ==
  op = "strlen" =>
    /\ WalkRegs /\ mem = was /\ j = 0 /\ i \in 0..StringLength
    /\ pc = "strlen" \/ (pc = "done" /\ result = i /\ i = StringLength)

\* strcpy has copied i characters; the last one is the Nul.
StrcpyInv ==
  op = "strcpy" =>
    /\ WalkRegs /\ j = 0 /\ i \in 0..StringLength
    /\ \/ pc = "strcpy" /\ Filled(call.d, call.d + i - 1)
       \/ pc = "done" /\ Filled(call.d, call.d + StringLength)

\* strncpy: first the characters, then the zeros.
StrncpyInv ==
  op = "strncpy" =>
    /\ WalkRegs /\ j = 0 /\ i \in 0..call.n
    /\ Filled(call.d, call.d + i - 1)
    /\ \/ pc = "strncpy" /\ i <= StringLength
       \/ pc = "pad" /\ (i < call.n => StringLength <= i)
       \/ pc = "done" /\ i = call.n

\* Comparisons: the first i characters are the same, and no Nul.
CompareInv ==
  op \in Compares =>
    /\ WalkRegs /\ mem = was /\ j = 0 /\ i \in 0..Size
    /\ op # "ece391_strcmp" => i <= call.n
    /\ \A k \in 0..i - 1 : was[call.d + k] = was[call.s + k] /\ was[call.d + k] # 0
    /\ \/ pc = "compare"
       \/ pc = "done" /\ op # "ece391_strcmp" /\ i = call.n /\ result = 0
       \/ /\ pc = "done" /\ i < Size
          /\ op # "ece391_strcmp" => i < call.n
          /\ was[call.d + i] # was[call.s + i] \/ was[call.d + i] = 0
          /\ result = Value(was[call.d + i]) - Value(was[call.s + i])

\* What Proper says of the string functions.
LEMMA StringFacts ==
  ASSUME Base, pc # "idle", op \in Walks \ Compares
  PROVE  /\ Size \in Nat /\ Bytes = 0..Size - 1
         /\ call.d \in Nat /\ call.s \in Nat /\ call.n \in Nat
         /\ call.s < Size /\ call.d < Size
         /\ StringLength \in Nat /\ call.s + StringLength < Size
         /\ was[call.s + StringLength] = 0
         /\ \A k \in 0..StringLength - 1 : was[call.s + k] # 0
<1>1. Size \in Nat /\ Bytes = 0..Size - 1
  BY TextAssumption DEF Bytes
<1>2. call.d \in Bytes /\ call.s \in Bytes /\ call.n \in 0..Size
  BY MovesProper
<1>3. Ends(was, call.s)
  BY DEF Base, Proper, op
<1>4. call.s \in Nat
  BY <1>1, <1>2
<1> QED
  BY <1>1, <1>2, <1>3, <1>4, LengthEnds DEF StringLength

\* A step of strlen.
LEMMA StrlenStep ==
  ASSUME Base, StrlenInv, op = "strlen", Strings, UNCHANGED <<was, call, shown>>
  PROVE  StrlenInv'
<1>0. pc \in {"strlen", "done"}
  BY DEF StrlenInv
<1>1. pc = "strlen" /\ Strlen
  BY <1>0 DEF Strings, Strlen, Strcpy, Strncpy, StrncpyPad, Strncmp
<1>2. /\ Size \in Nat /\ StringLength \in Nat /\ was[call.s + StringLength] = 0
      /\ \A k \in 0..StringLength - 1 : was[call.s + k] # 0
  BY <1>1, StringFacts DEF Walks, Compares
<1>3. op' = op /\ call' = call /\ was' = was /\ StringLength' = StringLength
  BY DEF op, StringLength
<1>4. WalkRegs' /\ mem' = was /\ j' = 0
  BY <1>1, <1>3 DEF StrlenInv, Strlen, WalkRegs, registers
<1>5. mem = was /\ i \in 0..StringLength
  BY DEF StrlenInv
<1>6. IsNul(call.s + i) <=> i = StringLength
  BY <1>2, <1>5 DEF IsNul
<1>7. CASE i = StringLength
  BY <1>1, <1>2, <1>3, <1>4, <1>5, <1>6, <1>7 DEF StrlenInv, Strlen, Return
<1>8. CASE i # StringLength
  BY <1>1, <1>2, <1>3, <1>4, <1>5, <1>6, <1>8 DEF StrlenInv, Strlen, Goto
<1> QED
  BY <1>7, <1>8

\* A step of strcpy: the character it copies is one of the string still, since
\* the copy has not reached it.
LEMMA StrcpyStep ==
  ASSUME Base, StrcpyInv, op = "strcpy", Strings, UNCHANGED <<was, call, shown>>
  PROVE  StrcpyInv'
<1> DEFINE d == call.d
           L == StringLength
<1>0. pc \in {"strcpy", "done"}
  BY DEF StrcpyInv
<1>1. pc = "strcpy" /\ Strcpy
  BY <1>0 DEF Strings, Strlen, Strcpy, Strncpy, StrncpyPad, Strncmp
<1>2. /\ Size \in Nat /\ Bytes = 0..Size - 1 /\ d \in Nat /\ call.s \in Nat
      /\ L \in Nat /\ call.s + L < Size
      /\ was[call.s + L] = 0 /\ \A k \in 0..L - 1 : was[call.s + k] # 0
  BY <1>1, StringFacts DEF Walks, Compares
<1>3. op' = op /\ call' = call /\ was' = was /\ L' = L /\ \A b : Want(b)' = Want(b)
  BY DEF op, StringLength, Want
<1>4. WalkRegs' /\ j' = 0
  BY <1>1, <1>3 DEF StrcpyInv, Strcpy, WalkRegs, registers
<1>5. i \in 0..L /\ Filled(d, d + i - 1)
  BY <1>1 DEF StrcpyInv
<1>6. d <= call.s \/ call.s + L < d
  BY <1>1 DEF Base, Proper, op, StringLength
<1>7. mem[call.s + i] = was[call.s + i]
  <2>1. call.s + i \in Bytes
    BY <1>2, <1>5
  <2>2. call.s + i \notin d..d + i - 1
    BY <1>2, <1>5, <1>6
  <2> QED
    BY <1>5, <2>1, <2>2 DEF Filled
<1>8. IsNul(call.s + i) <=> i = L
  BY <1>2, <1>5, <1>7 DEF IsNul
<1>9. mem' = [b \in Bytes |-> IF b \in d..d + i THEN Want(b) ELSE was[b]]
  <2>1. Want(d + i) = was[call.s + i]
    <3>1. \A b : Want(b) = was[call.s + (b - d)]
      BY DEF Want
    <3>2. PICK b : b = d + i
      OBVIOUS
    <3>3. call.s + (b - d) = call.s + i
      BY <1>2, <1>5, <3>2
    <3> QED
      BY <3>1, <3>2, <3>3
  <2>2. mem' = Written(d + i, <<mem[call.s + i]>>)
    BY <1>1 DEF Strcpy
  <2>3. d \in Nat /\ i \in Nat
    BY <1>2, <1>5
  <2>4. Filled(d, d + i - 1)
    BY <1>5
  <2>5. PICK x : x = mem[call.s + i] /\ x = Want(d + i)
    BY <1>7, <2>1
  <2>6. mem' = Written(d + i, <<x>>)
    BY <2>2, <2>5
  <2> QED
    BY <2>3, <2>4, <2>5, <2>6, FillByte
<1>10. CASE i = L
  <2>1. Filled(call.d, call.d + StringLength)'
    BY <1>3, <1>9, <1>10 DEF Filled
  <2>2. pc' = "done" /\ i' = i
    BY <1>1, <1>8, <1>10 DEF Strcpy, Return
  <2> QED
    BY <1>3, <1>4, <1>5, <2>1, <2>2 DEF StrcpyInv
<1>11. CASE i # L
  <2>1. pc' = "strcpy" /\ i' = i + 1
    BY <1>1, <1>8, <1>11 DEF Strcpy, Goto
  <2>2. d + i' - 1 = d + i /\ i' \in 0..L
    BY <1>2, <1>5, <1>11, <2>1
  <2>3. Filled(call.d, call.d + i - 1)'
    BY <1>3, <1>9, <2>2 DEF Filled
  <2> QED
    BY <1>3, <1>4, <2>1, <2>2, <2>3 DEF StrcpyInv
<1> QED
  BY <1>10, <1>11

\* A step of strncpy.
LEMMA StrncpyStep ==
  ASSUME Base, StrncpyInv, op = "strncpy", Strings, UNCHANGED <<was, call, shown>>
  PROVE  StrncpyInv'
<1> DEFINE d == call.d
           n == call.n
           L == StringLength
<1>0. pc \in {"strncpy", "pad", "done"}
  BY DEF StrncpyInv
<1>2. /\ Size \in Nat /\ Bytes = 0..Size - 1 /\ d \in Nat /\ call.s \in Nat /\ n \in Nat
      /\ L \in Nat /\ call.s + L < Size
      /\ was[call.s + L] = 0 /\ \A k \in 0..L - 1 : was[call.s + k] # 0
  BY <1>0, StringFacts DEF Walks, Compares
<1>3. op' = op /\ call' = call /\ was' = was /\ L' = L /\ \A b : Want(b)' = Want(b)
  BY DEF op, StringLength, Want
<1>4. WalkRegs /\ j = 0 /\ i \in 0..n /\ Filled(d, d + i - 1)
  BY DEF StrncpyInv
<1>5. d <= call.s \/ call.s + n <= d
  BY <1>0 DEF Base, Proper, op
<1>6. ASSUME i < n, i' = i + 1, NEW x, x = Want(d + i), mem' = Written(d + i, <<x>>)
      PROVE  i' \in 0..n /\ Filled(call.d, call.d + i - 1)'
  <2>1. d \in Nat /\ i \in Nat /\ Filled(d, d + i - 1)
    BY <1>2, <1>4
  <2>2. mem' = [b \in Bytes |-> IF b \in d..d + i THEN Want(b) ELSE was[b]]
    BY <1>6, <2>1, FillByte
  <2>3. d + i' - 1 = d + i
    BY <1>2, <1>4, <1>6
  <2>4. i' \in 0..n
    BY <1>2, <1>4, <1>6
  <2> QED
    BY <1>3, <2>2, <2>3, <2>4 DEF Filled
<1>7. \A b : Want(b) = IF b - d < L THEN was[call.s + (b - d)] ELSE 0
  BY DEF Want, StringLength
<1>8. PICK b : b = d + i /\ b - d = i
  <2>1. (d + i) - d = i
    BY <1>2, <1>4
  <2> QED
    BY <2>1
<1>9. ASSUME mem' = mem, i' = i PROVE Filled(call.d, call.d + i - 1)'
  BY <1>3, <1>4, <1>9 DEF Filled
<1>10. CASE Strncpy
  <2>1. pc = "strncpy" /\ i <= L /\ AtMost(n) = (i < n)
    BY <1>0, <1>10 DEF Strncpy, StrncpyInv, AtMost
  <2>2. WalkRegs' /\ j' = 0
    BY <1>3, <1>4, <1>10 DEF Strncpy, WalkRegs, registers
  <2>3. i < n => mem[call.s + i] = was[call.s + i]
    <3> SUFFICES ASSUME i < n PROVE mem[call.s + i] = was[call.s + i]
      OBVIOUS
    <3>1. call.s + i \in Bytes
      BY <1>2, <1>4, <2>1
    <3>2. call.s + i \notin d..d + i - 1
      <4>1. d \in Nat /\ call.s \in Nat /\ n \in Nat /\ i \in Nat /\ i < n
        BY <1>2, <1>4
      <4>2. CASE d <= call.s
        BY <4>1, <4>2
      <4>3. CASE call.s + n <= d
        BY <4>1, <4>3
      <4> QED
        BY <1>5, <4>2, <4>3
    <3> QED
      BY <1>4, <3>1, <3>2 DEF Filled
  <2>4. i < n => (IsNul(call.s + i) <=> i = L)
    BY <1>2, <1>4, <2>1, <2>3 DEF IsNul
  <2>5. CASE ~IsNul(call.s + i) /\ i < n
    <3>0. i < L
      BY <1>2, <1>4, <2>1, <2>4, <2>5
    <3>1. i < L /\ pc' = "strncpy" /\ i' = i + 1 /\ mem' = Written(d + i, <<mem[call.s + i]>>)
      BY <1>10, <2>1, <2>5, <3>0 DEF Strncpy, Goto
    <3>2. mem[call.s + i] = Want(d + i)
      BY <1>7, <1>8, <2>3, <2>5, <3>1
    <3>3. i' \in 0..n /\ Filled(call.d, call.d + i - 1)'
      BY <1>6, <2>5, <3>1, <3>2
    <3>4. i' <= L
      BY <1>2, <1>4, <3>1
    <3> QED
      BY <1>3, <2>2, <3>1, <3>3, <3>4 DEF StrncpyInv
  <2>6. CASE ~(~IsNul(call.s + i) /\ i < n)
    <3>1. pc' = "pad" /\ i' = i /\ mem' = mem
      BY <1>10, <2>1, <2>6 DEF Strncpy, Goto
    <3>2. i < n => L <= i
      BY <1>2, <1>4, <2>4, <2>6
    <3>3. Filled(call.d, call.d + i - 1)'
      BY <1>9, <3>1
    <3> QED
      BY <1>3, <1>4, <2>2, <3>1, <3>2, <3>3 DEF StrncpyInv
  <2> QED
    BY <2>5, <2>6
<1>11. CASE StrncpyPad
  <2>1. pc = "pad" /\ (i < n => L <= i) /\ AtMost(n) = (i < n)
    BY <1>0, <1>11 DEF StrncpyPad, StrncpyInv, AtMost
  <2>2. WalkRegs' /\ j' = 0
    BY <1>3, <1>4, <1>11 DEF StrncpyPad, WalkRegs, registers
  <2>3. CASE i < n
    <3>1. pc' = "pad" /\ i' = i + 1 /\ mem' = Written(d + i, <<0>>)
      BY <1>11, <2>1, <2>3 DEF StrncpyPad, Goto
    <3>2. 0 = Want(d + i)
      BY <1>2, <1>4, <1>7, <1>8, <2>1, <2>3
    <3>3. i' \in 0..n /\ Filled(call.d, call.d + i - 1)'
      BY <1>6, <2>3, <3>1, <3>2
    <3>4. L <= i'
      BY <1>2, <1>4, <2>1, <2>3, <3>1
    <3> QED
      BY <1>3, <2>2, <3>1, <3>3, <3>4 DEF StrncpyInv
  <2>4. CASE ~(i < n)
    <3>0. i = n
      BY <1>2, <1>4, <2>4
    <3>1. pc' = "done" /\ i' = i /\ mem' = mem /\ i = n
      BY <1>11, <2>1, <2>4, <3>0 DEF StrncpyPad, Return
    <3>2. Filled(call.d, call.d + i - 1)'
      BY <1>9, <3>1
    <3> QED
      BY <1>3, <1>4, <2>2, <3>1, <3>2 DEF StrncpyInv
  <2> QED
    BY <2>3, <2>4
<1> QED
  BY <1>0, <1>10, <1>11 DEF Strings, Strlen, Strcpy, Strncmp

\* What Proper says of comparisons.
LEMMA CompareFacts ==
  ASSUME Base, pc # "idle", op \in Compares
  PROVE  /\ Size \in Nat /\ call.d \in 0..Size - 1 /\ call.s \in 0..Size - 1 /\ call.n \in Nat
         /\ Readable(call, was, call.d) /\ Readable(call, was, call.s)
<1>1. Size \in Nat /\ Bytes = 0..Size - 1
  BY TextAssumption DEF Bytes
<1>2. call.d \in Bytes /\ call.s \in Bytes /\ call.n \in 0..Size
  BY MovesProper
<1>3. Readable(call, was, call.d) /\ Readable(call, was, call.s)
  BY DEF Base, Proper, op
<1>4. call.n \in Nat
  BY <1>1, <1>2
<1> QED
  BY <1>1, <1>2, <1>3, <1>4

\* A comparison reads no byte outside the memory.
LEMMA CompareInside ==
  ASSUME NEW a \in Nat, a < Size, Readable(call, was, a), call.n \in Nat,
         i \in Nat, op # "ece391_strcmp" => i < call.n,
         \A k \in 0..i - 1 : was[a + k] # 0
  PROVE  a + i < Size
<1>1. Size \in Nat
  BY TextAssumption
<1>2. CASE Ends(was, a)
  <2>1. PICK l \in 0..Size - 1 : a + l < Size /\ was[a + l] = 0
    BY <1>2 DEF Ends
  <2>2. i <= l
    BY <1>1, <2>1
  <2> QED
    BY <1>1, <2>1, <2>2
<1>3. CASE op # "ece391_strcmp" /\ a + call.n <= Size
  BY <1>1, <1>3
<1> QED
  BY <1>2, <1>3 DEF Readable, op

\* A step of a comparison.
LEMMA CompareStep ==
  ASSUME Base, CompareInv, op \in Compares, Strings, UNCHANGED <<was, call, shown>>
  PROVE  CompareInv'
<1> DEFINE d == call.d
           s == call.s
           n == call.n
<1>0. pc \in {"compare", "done"}
  BY DEF CompareInv
<1>1. pc = "compare" /\ Strncmp
  BY <1>0 DEF Strings, Strlen, Strcpy, Strncpy, StrncpyPad, Strncmp
<1>2. /\ Size \in Nat /\ d \in 0..Size - 1 /\ s \in 0..Size - 1 /\ n \in Nat
      /\ Readable(call, was, d) /\ Readable(call, was, s)
  BY <1>1, CompareFacts
<1>3. op' = op /\ call' = call /\ was' = was /\ \A b : Value(b)' = Value(b)
  BY DEF op, Value
<1>4. mem = was /\ i \in 0..Size /\ WalkRegs /\ j = 0
      /\ (op # "ece391_strcmp" => i <= n)
      /\ \A k \in 0..i - 1 : was[d + k] = was[s + k] /\ was[d + k] # 0
  BY DEF CompareInv
<1>5. WalkRegs' /\ mem' = was /\ j' = 0
  BY <1>1, <1>3, <1>4 DEF Strncmp, WalkRegs, registers
<1>6. CASE op # "ece391_strcmp" /\ i >= n
  <2>1. i = n
    BY <1>2, <1>4, <1>6
  <2>2. pc' = "done" /\ result' = 0 /\ i' = i
    BY <1>1, <1>6 DEF Strncmp, Return
  <2> QED
    BY <1>3, <1>4, <1>5, <1>6, <2>1, <2>2 DEF CompareInv
<1>7. CASE ~(op # "ece391_strcmp" /\ i >= n)
  <2>1. op # "ece391_strcmp" => i < n
    BY <1>2, <1>4, <1>7
  <2>2. d + i < Size
    <3>1. \A k \in 0..i - 1 : was[d + k] # 0
      BY <1>4
    <3>2. d \in Nat /\ i \in Nat /\ d < Size
      BY <1>2, <1>4
    <3> QED
      BY <1>2, <2>1, <3>1, <3>2, CompareInside
  <2>3. i < Size
    BY <1>2, <1>4, <2>2
  <2>4. CASE was[d + i] # was[s + i] \/ was[d + i] = 0
    <3>1. pc' = "done" /\ i' = i /\ result' = Value(was[d + i]) - Value(was[s + i])
      BY <1>1, <1>4, <1>7, <2>4 DEF Strncmp, Return
    <3> QED
      BY <1>3, <1>4, <1>5, <2>1, <2>3, <2>4, <3>1 DEF CompareInv
  <2>5. CASE ~(was[d + i] # was[s + i] \/ was[d + i] = 0)
    <3>1. pc' = "compare" /\ i' = i + 1
      BY <1>1, <1>4, <1>7, <2>5 DEF Strncmp, Goto
    <3>2. i' \in 0..Size /\ (op # "ece391_strcmp" => i' <= n)
      BY <1>2, <1>4, <2>1, <2>3, <3>1
    <3>3. \A k \in 0..i' - 1 : was[d + k] = was[s + k] /\ was[d + k] # 0
      <4>1. \A k \in 0..i' - 1 : k \in 0..i - 1 \/ k = i
        BY <1>4, <3>1
      <4> QED
        BY <1>4, <2>5, <4>1
    <3> QED
      BY <1>3, <1>5, <3>1, <3>2, <3>3 DEF CompareInv
  <2> QED
    BY <2>4, <2>5
<1> QED
  BY <1>6, <1>7

-----------------------------------------------------------------------------
\* Memory m with the first x and the last x bytes of a string of x + y + 1
\* bytes at a exchanged, mirror-wise: what strrev has done when beg is x and
\* end is y.
Mirror(m, a, x, y) ==
  [b \in Bytes |-> IF b \in a..a + x - 1 \/ b \in a + y + 1..a + x + y
                   THEN m[2 * a + x + y - b] ELSE m[b]]

\* The two bytes that one step of strrev exchanges.
Exchanged(p, q) == [mem EXCEPT ![p] = mem[q], ![q] = mem[p]]

\* Exchanging the next two bytes mirrors one byte more on each side.
LEMMA MirrorStep ==
  ASSUME NEW m, NEW a \in Nat, NEW x \in Nat, NEW y \in Nat, x < y,
         Size \in Nat, a + x + y < Size,
         mem = Mirror(m, a, x, y)
  PROVE  Exchanged(a + x, a + y) = Mirror(m, a, x + 1, y - 1)
<1>1. Bytes = 0..Size - 1
  BY DEF Bytes
<1>2. /\ a + x \in Bytes /\ a + y \in Bytes /\ a + x # a + y
      /\ a + x \notin a..a + x - 1 /\ a + x \notin a + y + 1..a + x + y
      /\ a + y \notin a..a + x - 1 /\ a + y \notin a + y + 1..a + x + y
  BY <1>1
<1>3. mem[a + x] = m[a + x] /\ mem[a + y] = m[a + y]
  BY <1>2 DEF Mirror
<1>4. DOMAIN mem = Bytes
  BY DEF Mirror
<1>5. (x + 1) + (y - 1) = x + y
  OBVIOUS
<1>6. /\ 2 * a + x + y - (a + x) = a + y
      /\ 2 * a + x + y - (a + y) = a + x
  OBVIOUS
<1> DEFINE new == [mem EXCEPT ![a + x] = mem[a + y], ![a + y] = mem[a + x]]
           In(b) == b \in a..a + x \/ b \in a + y..a + x + y
           New(b) == IF In(b) THEN m[2 * a + x + y - b] ELSE m[b]
<1>7. \A b \in Bytes : new[b] = New(b)
  <2> SUFFICES ASSUME NEW b \in Bytes PROVE new[b] = New(b)
    OBVIOUS
  <2>1. CASE b = a + x
    <3>1. new[b] = m[a + y]
      BY <1>2, <1>3, <1>4, <2>1
    <3>2. In(b) /\ 2 * a + x + y - b = a + y
      BY <1>6, <2>1
    <3> QED
      BY <3>1, <3>2
  <2>2. CASE b = a + y
    <3>1. new[b] = m[a + x]
      BY <1>2, <1>3, <1>4, <2>2
    <3>2. In(b) /\ 2 * a + x + y - b = a + x
      BY <1>6, <2>2
    <3> QED
      BY <3>1, <3>2
  <2>3. CASE b # a + x /\ b # a + y
    <3>1. new[b] = mem[b]
      BY <1>4, <2>3
    <3>2. In(b) <=> b \in a..a + x - 1 \/ b \in a + y + 1..a + x + y
      BY <1>1, <2>3
    <3> QED
      BY <3>1, <3>2 DEF Mirror
  <2> QED
    BY <2>1, <2>2, <2>3
<1>8. Mirror(m, a, x + 1, y - 1) = [b \in Bytes |-> New(b)]
  <2>1. a + (x + 1) - 1 = a + x /\ a + (y - 1) + 1 = a + y
    OBVIOUS
  <2>2. a + (x + 1) + (y - 1) = a + x + y /\ 2 * a + (x + 1) + (y - 1) = 2 * a + x + y
    OBVIOUS
  <2> QED
    BY <2>1, <2>2 DEF Mirror
<1>9. new = [b \in Bytes |-> new[b]]
  BY <1>4
<1> QED
  BY <1>7, <1>8, <1>9 DEF Exchanged

-----------------------------------------------------------------------------
\* A function is defined by its first value and by each value from the one
\* before.
Follows(f, base, step) == f[0] = base /\ \A k \in Nat : f[k + 1] = step[<<k + 1, f[k]>>]

\* Such a function exists: the largest of its finite beginnings.
LEMMA Recursion ==
  ASSUME NEW base \in Int, NEW step \in [Nat \X Int -> Int]
  PROVE  \E f \in [Nat -> Int] : Follows(f, base, step)
<1> DEFINE Chain(g, n) == /\ g \in [0..n -> Int] /\ g[0] = base
                          /\ \A k \in 0..n - 1 : g[k + 1] = step[<<k + 1, g[k]>>]
<1>1. \A n \in Nat : \E g \in [0..n -> Int] : Chain(g, n)
  <2> DEFINE S == {n \in Nat : \E g \in [0..n -> Int] : Chain(g, n)}
  <2>1. 0 \in S
    <3>1. Chain([k \in 0..0 |-> base], 0)
      OBVIOUS
    <3> QED
      BY <3>1
  <2>2. ASSUME NEW n \in Nat, n \in S PROVE n + 1 \in S
    <3>1. PICK g \in [0..n -> Int] : Chain(g, n)
      BY <2>2
    <3> DEFINE h == [k \in 0..n + 1 |-> IF k <= n THEN g[k] ELSE step[<<k, g[n]>>]]
    <3>2. h \in [0..n + 1 -> Int]
      <4> SUFFICES ASSUME NEW k \in 0..n + 1
                   PROVE  (IF k <= n THEN g[k] ELSE step[<<k, g[n]>>]) \in Int
        OBVIOUS
      <4>1. CASE k <= n
        BY <4>1
      <4>2. CASE k = n + 1
        BY <4>2
      <4> QED
        BY <4>1, <4>2
    <3>3. h[0] = base
      BY <3>1
    <3>4. ASSUME NEW k \in 0..n PROVE h[k + 1] = step[<<k + 1, h[k]>>]
      <4>1. h[k] = g[k] /\ k + 1 \in 0..n + 1
        OBVIOUS
      <4>2. CASE k < n
        BY <3>1, <4>1, <4>2
      <4>3. CASE k = n
        <5>1. h[k + 1] = step[<<k + 1, g[n]>>]
          BY <4>1, <4>3
        <5> QED
          BY <4>1, <4>3, <5>1
      <4> QED
        BY <4>2, <4>3
    <3>5. n + 1 \in Nat /\ (n + 1) - 1 = n
      OBVIOUS
    <3> HIDE DEF h
    <3>6. Chain(h, n + 1)
      BY <3>2, <3>3, <3>4, <3>5
    <3> QED
      BY <3>2, <3>5, <3>6
  <2> HIDE DEF S
  <2>3. Nat \subseteq S
    BY <2>1, <2>2, Induction
  <2> QED
    BY <2>3 DEF S
<1>2. ASSUME NEW n \in Nat, NEW m \in Nat, NEW g, NEW h, Chain(g, n), Chain(h, m)
      PROVE  \A k \in Nat : k <= n /\ k <= m => g[k] = h[k]
  <2> DEFINE S == {k \in Nat : k <= n /\ k <= m => g[k] = h[k]}
  <2>1. 0 \in S
    BY <1>2
  <2>2. ASSUME NEW k \in Nat, k \in S PROVE k + 1 \in S
    <3> SUFFICES ASSUME k + 1 <= n, k + 1 <= m PROVE g[k + 1] = h[k + 1]
      OBVIOUS
    <3>1. k \in 0..n - 1 /\ k \in 0..m - 1 /\ g[k] = h[k]
      BY <2>2
    <3> QED
      BY <1>2, <3>1
  <2> HIDE DEF S
  <2>3. Nat \subseteq S
    BY <2>1, <2>2, Induction
  <2> QED
    BY <2>3 DEF S
<1> DEFINE G(n) == CHOOSE g \in [0..n -> Int] : Chain(g, n)
           f == [n \in Nat |-> G(n)[n]]
<1>3. \A n \in Nat : G(n) \in [0..n -> Int] /\ Chain(G(n), n)
  BY <1>1
<1> HIDE DEF G
<1>4. f \in [Nat -> Int]
  BY <1>3
<1>5. f[0] = base
  BY <1>3
<1>6. ASSUME NEW k \in Nat PROVE f[k + 1] = step[<<k + 1, f[k]>>]
  <2>1. k + 1 \in Nat /\ k \in 0..(k + 1) - 1
    OBVIOUS
  <2>2. Chain(G(k + 1), k + 1) /\ Chain(G(k), k)
    BY <1>3, <2>1
  <2>3. G(k + 1)[k] = G(k)[k]
    <3>1. k <= k + 1 /\ k <= k
      OBVIOUS
    <3> HIDE DEF Chain
    <3> QED
      BY <1>2, <2>1, <2>2, <3>1
  <2>4. G(k + 1)[k + 1] = step[<<k + 1, G(k + 1)[k]>>]
    BY <2>1, <2>2
  <2> QED
    BY <2>1, <2>3, <2>4
<1> QED
  BY <1>4, <1>5, <1>6 DEF Follows

\* Quotient and remainder.
LEMMA Division ==
  ASSUME NEW x \in Nat, NEW r \in Nat \ {0}
  PROVE  x \div r \in Nat /\ x % r \in 0..r - 1 /\ x = (x \div r) * r + (x % r)
  OBVIOUS

\* The quotients are what they are defined to be.
LEMMA QuotientIs ==
  ASSUME NEW value \in Nat, NEW radix \in Nat \ {0}
  PROVE  /\ Quotient(value, radix) \in [Nat -> Nat]
         /\ Quotient(value, radix)[0] = value
         /\ \A k \in Nat : Quotient(value, radix)[k + 1] = Quotient(value, radix)[k] \div radix
<1> DEFINE step == [p \in Nat \X Int |-> p[2] \div radix]
           IsIt(q) == q = [k \in Nat |-> IF k = 0 THEN value ELSE q[k - 1] \div radix]
<1>1. step \in [Nat \X Int -> Int]
  OBVIOUS
<1>2. \A k \in Nat, x \in Int : step[<<k + 1, x>>] = x \div radix
  OBVIOUS
<1> HIDE DEF step
<1>3. PICK f \in [Nat -> Int] : Follows(f, value, step)
  <2>1. value \in Int
    OBVIOUS
  <2>2. PICK st \in [Nat \X Int -> Int] : st = step
    BY <1>1
  <2>3. \E f \in [Nat -> Int] : Follows(f, value, st)
    BY <2>1, Recursion
  <2> QED
    BY <2>2, <2>3
<1>4. f[0] = value /\ \A k \in Nat : f[k + 1] = f[k] \div radix
  BY <1>2, <1>3 DEF Follows
<1>5. IsIt(f)
  <2>1. ASSUME NEW k \in Nat PROVE f[k] = IF k = 0 THEN value ELSE f[k - 1] \div radix
    <3>1. CASE k = 0
      BY <1>4, <3>1
    <3>2. CASE k # 0
      <4>1. k - 1 \in Nat /\ (k - 1) + 1 = k
        BY <3>2
      <4>2. f[(k - 1) + 1] = f[k - 1] \div radix
        BY <1>4, <4>1
      <4> QED
        BY <3>2, <4>1, <4>2
    <3> QED
      BY <3>1, <3>2
  <2> QED
    BY <2>1
<1>6. Quotient(value, radix) = CHOOSE q : IsIt(q)
  BY DEF Quotient
<1> DEFINE q == Quotient(value, radix)
<1>7. IsIt(q)
  <2> HIDE DEF IsIt
  <2> QED
    BY <1>5, <1>6
<1> HIDE DEF q
<1>8. q[0] = value
  BY <1>7
<1>9. ASSUME NEW k \in Nat PROVE q[k + 1] = q[k] \div radix
  <2>1. k + 1 \in Nat /\ k + 1 # 0 /\ (k + 1) - 1 = k
    OBVIOUS
  <2> QED
    BY <1>7, <2>1
<1>10. \A k \in Nat : q[k] \in Nat
  <2> DEFINE S == {k \in Nat : q[k] \in Nat}
  <2>1. 0 \in S
    BY <1>8
  <2>2. ASSUME NEW k \in Nat, k \in S PROVE k + 1 \in S
    <3>1. q[k] \in Nat
      BY <2>2
    <3>2. q[k] \div radix \in Nat
      BY <3>1, Division
    <3> QED
      BY <1>9, <3>2
  <2> HIDE DEF S
  <2>3. Nat \subseteq S
    BY <2>1, <2>2, Induction
  <2> QED
    BY <2>3 DEF S
<1>11. q \in [Nat -> Nat]
  BY <1>7, <1>10
<1> QED
  BY <1>8, <1>9, <1>11 DEF q

\* The value of a digit, as Denoted takes it.
Character(ch) == IF ch < 58 THEN ch - 48 ELSE ch - 55

\* Digits are characters, and the value of a digit is what it was made of.
LEMMA DigitFacts ==
  ASSUME NEW x \in 0..35
  PROVE  /\ Digit(x) \in 48..90 /\ Character(Digit(x)) = x
         /\ Digit(x) = 48 <=> x = 0
  BY DEF Digit, Character

\* Digits in the order of the number, which are the remainders of the quotients
\* from the last to the first, denote the number.
LEMMA DenotedIs ==
  ASSUME NEW value \in Nat, NEW radix \in 2..36, NEW n \in Nat, NEW str,
         DOMAIN str = 1..n, Len(str) = n,
         Quotient(value, radix)[n] = 0,
         \A t \in 1..n : str[t] = Digit(Quotient(value, radix)[n - t] % radix)
  PROVE  Denoted(str, radix) = value
<1> DEFINE q(k) == Quotient(value, radix)[k]
<1>0. radix \in Nat \ {0}
  OBVIOUS
<1>1. /\ q(0) = value
      /\ \A k \in Nat : q(k) \in Nat /\ q(k + 1) = q(k) \div radix
  <2>1. Quotient(value, radix) \in [Nat -> Nat]
    BY <1>0, QuotientIs
  <2>2. Quotient(value, radix)[0] = value
    BY <1>0, QuotientIs
  <2>3. \A k \in Nat : Quotient(value, radix)[k + 1] = Quotient(value, radix)[k] \div radix
    BY <1>0, QuotientIs
  <2> QED
    BY <2>1, <2>2, <2>3
<1>2. q(n) = 0 /\ \A t \in 1..n : str[t] = Digit(q(n - t) % radix)
  OBVIOUS
<1> HIDE DEF q
<1>3. ASSUME NEW t \in 1..n
      PROVE  /\ Character(str[t]) \in Nat
             /\ q(n - t) = q(n - t + 1) * radix + Character(str[t])
  <2>0. PICK k \in Nat : k = n - t
    OBVIOUS
  <2>1. q(n - t) \in Nat /\ q(n - t + 1) = q(n - t) \div radix
    BY <1>1, <2>0
  <2>2. PICK x \in Nat : x = q(n - t)
    BY <2>1
  <2>3. x % radix \in 0..radix - 1 /\ x = (x \div radix) * radix + (x % radix)
    BY <1>0, Division
  <2>4. x % radix \in 0..35
    BY <2>3
  <2>5. Character(str[t]) = x % radix
    BY <1>2, <2>2, <2>4, DigitFacts
  <2> QED
    BY <2>1, <2>2, <2>3, <2>4, <2>5
<1> DEFINE IsIt(v) == v = [k \in 0..n |-> IF k = 0 THEN 0 ELSE v[k - 1] * radix + Character(str[k])]
           step == [p \in Nat \X Int |-> IF p[1] \in 1..n THEN p[2] * radix + Character(str[p[1]]) ELSE 0]
<1>4. \E v : IsIt(v)
  <2>1. step \in [Nat \X Int -> Int]
    <3> SUFFICES ASSUME NEW p \in Nat \X Int
                 PROVE  (IF p[1] \in 1..n THEN p[2] * radix + Character(str[p[1]]) ELSE 0) \in Int
      OBVIOUS
    <3>1. CASE p[1] \in 1..n
      <4>1. Character(str[p[1]]) \in Nat /\ p[2] \in Int
        BY <1>3, <3>1
      <4>2. p[2] * radix \in Int
        BY <4>1
      <4> QED
        BY <3>1, <4>1, <4>2
    <3> QED
      BY <3>1
  <2>2. ASSUME NEW k \in 0..n - 1, NEW x \in Int
        PROVE  step[<<k + 1, x>>] = x * radix + Character(str[k + 1])
    <3>1. <<k + 1, x>> \in Nat \X Int /\ k + 1 \in 1..n
      OBVIOUS
    <3> QED
      BY <3>1
  <2>3. PICK st \in [Nat \X Int -> Int] : st = step
    BY <2>1
  <2> HIDE DEF step
  <2>4. PICK f \in [Nat -> Int] : Follows(f, 0, st)
    <3>1. PICK z \in Int : z = 0
      OBVIOUS
    <3>2. \E f \in [Nat -> Int] : Follows(f, z, st)
      BY Recursion
    <3> QED
      BY <3>1, <3>2
  <2>5. f[0] = 0 /\ \A k \in 0..n - 1 : f[k + 1] = f[k] * radix + Character(str[k + 1])
    <3>1. f[0] = 0 /\ \A k \in Nat : f[k] \in Int /\ f[k + 1] = st[<<k + 1, f[k]>>]
      BY <2>4 DEF Follows
    <3> SUFFICES ASSUME NEW k \in 0..n - 1
                 PROVE  f[k + 1] = f[k] * radix + Character(str[k + 1])
      BY <3>1
    <3>2. PICK x \in Int : x = f[k] /\ f[k + 1] = st[<<k + 1, x>>]
      <4>1. k \in Nat
        OBVIOUS
      <4>2. f[k] \in Int /\ f[k + 1] = st[<<k + 1, f[k]>>]
        BY <3>1, <4>1
      <4> QED
        BY <4>2
    <3>3. step[<<k + 1, x>>] = x * radix + Character(str[k + 1])
      BY <2>2
    <3> QED
      BY <2>3, <3>2, <3>3
  <2> DEFINE v == [k \in 0..n |-> f[k]]
  <2>6. \A k \in 0..n : f[k] = IF k = 0 THEN 0 ELSE v[k - 1] * radix + Character(str[k])
    <3> SUFFICES ASSUME NEW k \in 0..n, k # 0
                 PROVE  f[k] = v[k - 1] * radix + Character(str[k])
      BY <2>5
    <3>1. k - 1 \in 0..n - 1 /\ (k - 1) + 1 = k
      OBVIOUS
    <3>2. f[(k - 1) + 1] = f[k - 1] * radix + Character(str[(k - 1) + 1])
      BY <2>5, <3>1
    <3> QED
      BY <3>1, <3>2
  <2>7. v = [k \in 0..n |-> IF k = 0 THEN 0 ELSE v[k - 1] * radix + Character(str[k])]
    BY <2>6
  <2> QED
    BY <2>7
<1> DEFINE val == CHOOSE v : IsIt(v)
<1>5. IsIt(val)
  <2> HIDE DEF IsIt
  <2> QED
    BY <1>4
<1>6. Denoted(str, radix) = val[n]
  BY DEF Denoted, Character
<1> HIDE DEF val
<1>7. val[0] = 0
  BY <1>5
<1>8. ASSUME NEW k \in 0..n - 1 PROVE val[k + 1] = val[k] * radix + Character(str[k + 1])
  <2>1. k + 1 \in 0..n /\ k + 1 # 0 /\ (k + 1) - 1 = k
    OBVIOUS
  <2> QED
    BY <1>5, <2>1
<1> DEFINE S == {k \in Nat : k <= n => val[k] = q(n - k)}
<1>9. 0 \in S
  BY <1>2, <1>7
<1>10. ASSUME NEW k \in Nat, k \in S PROVE k + 1 \in S
  <2> SUFFICES ASSUME k + 1 <= n PROVE val[k + 1] = q(n - (k + 1))
    OBVIOUS
  <2>1. k \in 0..n - 1 /\ k + 1 \in 1..n /\ n - (k + 1) + 1 = n - k
    OBVIOUS
  <2>2. val[k] = q(n - k)
    BY <1>10
  <2>3. q(n - (k + 1)) = q(n - k) * radix + Character(str[k + 1])
    BY <1>3, <2>1
  <2> QED
    BY <1>8, <2>1, <2>2, <2>3
<1> HIDE DEF S
<1>11. Nat \subseteq S
  BY <1>9, <1>10, Induction
<1>12. val[n] = q(n - n) /\ n - n = 0
  BY <1>11 DEF S
<1> QED
  BY <1>1, <1>6, <1>12

-----------------------------------------------------------------------------
\* itoa and the number formats.
NumberOps == Prints \cup {"itoa"}

\* The address of the number; what is left of it after k divisions; the digit
\* the next division gives.
At == Number(call)
Q(k) == Quotient(Magnitude(call), Radix(call))[k]
Ch(k) == Digit(Q(k) % Radix(call))

\* The digits of the number in memory m, L of them: in the order of the
\* divisions, and in the order of the number.
Digits(L) == L \in Nat \ {0} /\ At + L < Size /\ Q(L) = 0 /\ (op = "%#x" => L <= 8)

\* The digits in the order of the divisions, before strrev.
Raw(m, L) ==
  /\ Digits(L) /\ m[At + L] = 0
  /\ \A k \in 0..L - 1 : Q(k) # 0 /\ m[At + k] = Ch(k)

\* The digits in the order of the number, without leading zeros.
Formed(m, L) ==
  /\ Digits(L) /\ m[At + L] = 0
  /\ L > 1 => Q(L - 1) # 0
  /\ \A k \in 0..L - 1 : m[At + k] = Ch(L - 1 - k)

\* The minus sign is in front.
Signed(m) == Negative(call) => m[call.d] = 45

\* The types of what a number function keeps.
NumberRegs ==
  /\ edi = call.d /\ esi = call.s /\ ecx = call.n /\ edx = 0
  /\ mem \in [Bytes -> 0..255] /\ newval \in 0..Modulus - 1
  /\ i \in 0..Size /\ j \in -1..Size

\* The loop of itoa: i digits so far.
Dividing ==
  /\ pc = "digits" /\ Signed(mem) /\ j = 0 /\ newval = Q(i)
  /\ \A k \in 0..i - 1 : Q(k) # 0 /\ mem[At + k] = Ch(k)

\* All digits are there, in the wrong order.
Reversing == pc = "strrev" /\ Signed(mem) /\ Raw(mem, i)

\* strrev has exchanged i characters on each side.
Swapping ==
  /\ pc = "swap" /\ Signed(mem) /\ i <= j + 1
  /\ \E m : Raw(m, i + j + 1) /\ mem = Mirror(m, At, i, j)

\* itoa is done.
Converted == pc = "number" /\ Signed(mem) /\ \E L \in Nat : Formed(mem, L)

\* %#x: zeros from behind the place of the digits up to place 8.
Padding ==
  /\ pc = "zeros" /\ op = "%#x"
  /\ \E L \in Nat : /\ Formed(mem, L) /\ L <= i /\ i <= 8
                    /\ \A k \in L..i - 1 : mem[call.d + k] = 48

\* The string puts will show is in the buffer.
Putting ==
  /\ pc = "puts" /\ op # "itoa" /\ Signed(mem)
  /\ \E L \in Nat : /\ Formed(mem, L)
                    /\ op = "%#x" => \A k \in L..7 : mem[call.d + k] = 48

\* The part of the invariant about numbers: one of these holds at each place.
NumberInv ==
  op \in NumberOps =>
    /\ NumberRegs
    /\ \/ pc = "itoa" /\ Calm
       \/ Dividing \/ Reversing \/ Swapping \/ Converted \/ Padding \/ Putting
       \/ pc = "done" /\ NumbersRight

\* What Proper says of numbers, and what itoa is given.
LEMMA NumberFacts ==
  ASSUME Base, pc # "idle", op \in NumberOps
  PROVE  /\ Size \in Nat /\ Bytes = 0..Size - 1 /\ Modulus \in Nat
         /\ call.d \in Nat /\ call.d < Size /\ call.c \in 0..Modulus - 1
         /\ op = "%#x" => At = call.d + 8
         /\ Negative(call) => At = call.d + 1 /\ Magnitude(call) = Modulus - call.c /\ op = "%d"
         /\ op # "%#x" /\ ~Negative(call) => At = call.d
         /\ ~Negative(call) => Magnitude(call) = call.c
         /\ At \in Nat /\ call.d <= At
         /\ Radix(call) \in 2..36 /\ Magnitude(call) \in 0..Modulus - 1
<1>1. Size \in Nat /\ Bytes = 0..Size - 1 /\ Modulus \in Nat \ {0} /\ Modulus % 2 = 0
  BY TextAssumption DEF Bytes
<1>2. call.d \in Bytes /\ call.c \in 0..Modulus - 1
  BY MovesProper
<1>3. op = "itoa" => call.n \in 2..36
  BY DEF Base, Proper, op
<1>4. Radix(call) \in 2..36
  BY <1>3 DEF Radix, op, NumberOps, Prints
<1>5. Negative(call) => op = "%d" /\ call.c >= Modulus \div 2
  BY DEF Negative, op
<1>6. Negative(call) => Magnitude(call) = Modulus - call.c /\ Modulus - call.c \in 0..Modulus - 1
  <2> SUFFICES ASSUME Negative(call)
               PROVE  Magnitude(call) = Modulus - call.c /\ Modulus - call.c \in 0..Modulus - 1
    OBVIOUS
  <2>1. Modulus \div 2 >= 1
    BY <1>1
  <2>2. Modulus - call.c \in 0..Modulus - 1
    BY <1>1, <1>2, <1>5, <2>1
  <2>3. Magnitude(call) = (Modulus - call.c) % Modulus
    BY DEF Magnitude
  <2> QED
    BY <1>1, <2>2, <2>3
<1>7. ~Negative(call) => Magnitude(call) = call.c
  BY DEF Magnitude
<1>8. At = IF op = "%#x" THEN call.d + 8 ELSE IF Negative(call) THEN call.d + 1 ELSE call.d
  BY <1>5 DEF At, Number, op
<1>9. call.d \in Nat /\ call.d < Size
  BY <1>1, <1>2
<1>10. At \in Nat /\ call.d <= At
  BY <1>8, <1>9
<1> QED
  BY <1>1, <1>2, <1>4, <1>5, <1>6, <1>7, <1>8, <1>9, <1>10

\* The quotients and their digits.
LEMMA QuotientFacts ==
  ASSUME Base, pc # "idle", op \in NumberOps
  PROVE  /\ Q(0) = Magnitude(call)
         /\ \A k \in Nat : Q(k) \in Nat /\ Q(k + 1) = Q(k) \div Radix(call)
         /\ \A k \in Nat : Q(k) % Radix(call) \in 0..Radix(call) - 1 /\ Ch(k) \in 48..90
<1>1. Radix(call) \in 2..36 /\ Magnitude(call) \in 0..Modulus - 1 /\ Modulus \in Nat
  BY NumberFacts
<1>2. Radix(call) \in Nat \ {0} /\ Magnitude(call) \in Nat
  BY <1>1
<1>3. Quotient(Magnitude(call), Radix(call)) \in [Nat -> Nat]
  BY <1>2, QuotientIs
<1>4. Quotient(Magnitude(call), Radix(call))[0] = Magnitude(call)
  BY <1>2, QuotientIs
<1>5. \A k \in Nat : Quotient(Magnitude(call), Radix(call))[k + 1]
                       = Quotient(Magnitude(call), Radix(call))[k] \div Radix(call)
  BY <1>2, QuotientIs
<1>6. \A k \in Nat : Q(k) \in Nat
  BY <1>3 DEF Q
<1>7. \A k \in Nat : Q(k) % Radix(call) \in 0..Radix(call) - 1
  BY <1>2, <1>6, Division
<1>8. \A k \in Nat : Q(k) % Radix(call) \in 0..35
  BY <1>1, <1>7
<1>9. \A k \in Nat : Ch(k) \in 48..90
  BY <1>8, DigitFacts DEF Ch
<1> QED
  BY <1>4, <1>5, <1>6, <1>7, <1>9 DEF Q

\* The buffer has room for one digit more as long as the quotient is not 0.
LEMMA Roomy ==
  ASSUME Base, pc # "idle", op \in NumberOps, NEW x \in Nat, \A k \in 0..x - 1 : Q(k) # 0
  PROVE  /\ x <= Size
         /\ Q(x) # 0 => x < Size /\ At + x < Size
         /\ Q(x) = 0 /\ x # 0 => Digits(x)
         /\ At + 1 < Size
<1>1. PICK w \in 1..Size : Q(w) = 0 /\ At + w < Size /\ (op = "%#x" => w <= 8)
  <2>1. Room(call)
    BY DEF Base, Proper, op, NumberOps
  <2> QED
    BY <2>1 DEF Room, Q, At, op
<1>2. Size \in Nat /\ At \in Nat
  BY NumberFacts
<1>3. x <= w
  BY <1>1, <1>2
<1>4. Q(x) # 0 => x < w
  BY <1>1, <1>2, <1>3
<1> QED
  BY <1>1, <1>2, <1>3, <1>4 DEF Digits
-----------------------------------------------------------------------------
\* strrev called for itself.
StrrevInv ==
  op = "strrev" =>
    /\ WalkRegs
    /\ \/ pc = "strrev" /\ mem = was /\ i = 0 /\ j = 0
       \/ /\ pc = "swap" \/ (pc = "done" /\ i >= j)
          /\ i \in Nat /\ j \in -1..Size /\ i + j = StringLength - 1 /\ i <= j + 1
          /\ mem = Mirror(was, call.s, i, j)

\* Nothing exchanged yet.
LEMMA MirrorStart ==
  ASSUME NEW m, NEW a \in Nat, NEW l \in Nat, m \in [Bytes -> 0..255]
  PROVE  m = Mirror(m, a, 0, l - 1)
<1>1. Size \in Nat /\ Bytes = 0..Size - 1
  BY TextAssumption DEF Bytes
<1>2. \A b \in Bytes : ~(b \in a..a + 0 - 1 \/ b \in a + (l - 1) + 1..a + 0 + (l - 1))
  BY <1>1
<1> QED
  BY <1>2 DEF Mirror

\* A step of strrev called for itself.
LEMMA StrrevStep ==
  ASSUME Base, StrrevInv, op = "strrev", Numbers, UNCHANGED <<was, call, shown>>
  PROVE  StrrevInv'
<1> DEFINE L == StringLength
           a == call.s
<1>0. pc \in {"strrev", "swap", "done"} /\ WalkRegs
  BY DEF StrrevInv
<1>1. /\ Size \in Nat /\ Bytes = 0..Size - 1 /\ a \in Nat
      /\ L \in Nat /\ a + L < Size
      /\ was \in [Bytes -> 0..255]
  BY <1>0, StringFacts, WasTyped DEF Walks, Compares
<1>2. op' = op /\ call' = call /\ was' = was /\ L' = L /\ Bytes' = Bytes
  BY DEF op, StringLength, Bytes
<1>4. Strrev \/ StrrevSwap \/ StrrevEnd
  BY <1>0 DEF Numbers, Itoa, ItoaZero, ItoaDigit, ItoaReverse, NumberEnd, Zeros
<1>5. WalkRegs'
  BY <1>0, <1>2, <1>4 DEF Strrev, StrrevSwap, StrrevEnd, WalkRegs, registers, indexes
<1>6. Reversed = a
  BY DEF Reversed
<1>7. CASE Strrev
  <2>1. mem = was /\ pc = "strrev"
    BY <1>7 DEF StrrevInv, Strrev
  <2>2. i' = 0 /\ j' = L - 1 /\ mem' = mem /\ pc' = "swap"
    BY <1>6, <1>7, <2>1 DEF Strrev, Goto, StringLength
  <2>3. mem' = Mirror(was, a, i', j')
    BY <1>1, <2>1, <2>2, MirrorStart
  <2>4. mem' = Mirror(was, call.s, i, j)'
    BY <1>2, <2>3 DEF Mirror
  <2>5. i' \in Nat /\ j' \in -1..Size /\ i' + j' = L - 1 /\ i' <= j' + 1
    BY <1>1, <2>2
  <2> QED
    BY <1>2, <1>5, <2>2, <2>4, <2>5 DEF StrrevInv
<1>8. CASE StrrevSwap
  <2>1. /\ pc = "swap" /\ i < j /\ i \in Nat /\ j \in -1..Size /\ i + j = L - 1
        /\ mem = Mirror(was, a, i, j)
    BY <1>8 DEF StrrevInv, StrrevSwap
  <2>2. j \in Nat /\ a + i + j < Size
    BY <1>1, <2>1
  <2>3. i' = i + 1 /\ j' = j - 1 /\ pc' = "swap"
        /\ mem' = [mem EXCEPT ![a + i] = mem[a + j], ![a + j] = mem[a + i]]
    BY <1>6, <1>8 DEF StrrevSwap, Goto
  <2>4. mem' = Mirror(was, a, i + 1, j - 1)
    <3>1. PICK from \in Nat : from = a
      BY <1>1
    <3>2. from + i + j < Size /\ mem = Mirror(was, from, i, j)
      BY <2>1, <2>2, <3>1
    <3>3. i \in Nat /\ j \in Nat /\ i < j /\ Size \in Nat
      BY <1>1, <2>1, <2>2
    <3>4. Exchanged(from + i, from + j) = Mirror(was, from, i + 1, j - 1)
      BY <3>2, <3>3, MirrorStep
    <3>5. mem' = Exchanged(from + i, from + j)
      BY <2>3, <3>1 DEF Exchanged
    <3> QED
      BY <3>1, <3>4, <3>5
  <2>5. mem' = Mirror(was, call.s, i, j)'
    BY <1>2, <2>3, <2>4 DEF Mirror
  <2>6. i' \in Nat /\ j' \in -1..Size /\ i' + j' = L - 1 /\ i' <= j' + 1
    <3>1. i \in Nat /\ j \in Nat /\ i < j /\ j <= Size /\ i + j = L - 1 /\ Size \in Nat
      BY <1>1, <2>1, <2>2
    <3>2. i' = i + 1 /\ j' = j - 1
      BY <2>3
    <3> QED
      BY <3>1, <3>2
  <2> QED
    BY <1>2, <1>5, <2>3, <2>5, <2>6 DEF StrrevInv
<1>9. CASE StrrevEnd
  <2>1. /\ pc = "swap" /\ i >= j /\ i \in Nat /\ j \in -1..Size /\ i + j = L - 1 /\ i <= j + 1
        /\ mem = Mirror(was, a, i, j)
    BY <1>9 DEF StrrevInv, StrrevEnd
  <2>2. pc' = "done" /\ i' = i /\ j' = j /\ mem' = mem
    BY <1>9 DEF StrrevEnd, Return, indexes
  <2>3. mem' = Mirror(was, call.s, i, j)'
    BY <1>2, <2>1, <2>2 DEF Mirror
  <2> QED
    BY <1>2, <1>5, <2>1, <2>2, <2>3 DEF StrrevInv
<1> QED
  BY <1>4, <1>7, <1>8, <1>9

\* What a step of a call leaves as it is.
LEMMA NumberKept ==
  ASSUME UNCHANGED <<was, call>>
  PROVE  /\ op' = op /\ At' = At /\ Bytes' = Bytes /\ NumberOps' = NumberOps
         /\ Negative(call)' = Negative(call) /\ Radix(call)' = Radix(call)
         /\ Magnitude(call)' = Magnitude(call)
         /\ \A k : Q(k)' = Q(k) /\ Ch(k)' = Ch(k)
         /\ \A L : Digits(L)' = Digits(L)
<1>1. /\ op' = op /\ At' = At /\ Bytes' = Bytes /\ NumberOps' = NumberOps
      /\ Negative(call)' = Negative(call) /\ Radix(call)' = Radix(call)
      /\ Magnitude(call)' = Magnitude(call)
  BY DEF op, At, Bytes, NumberOps
<1>2. \A k : Q(k)' = Q(k)
  BY <1>1 DEF Q
<1>3. \A k : Ch(k)' = Ch(k)
  BY <1>1, <1>2 DEF Ch
<1>4. \A L : Digits(L)' = Digits(L)
  BY <1>1, <1>2 DEF Digits
<1> QED
  BY <1>1, <1>2, <1>3, <1>4

\* A byte written keeps memory bytes.
LEMMA WrittenTyped ==
  ASSUME NEW a \in Nat, NEW x \in 0..255, mem \in [Bytes -> 0..255]
  PROVE  Written(a, <<x>>) \in [Bytes -> 0..255]
<1>1. Written(a, <<x>>) = [b \in Bytes |-> IF b = a THEN x ELSE mem[b]]
  BY WrittenByte
<1> QED
  BY <1>1

\* Two bytes written.
LEMMA WrittenTwo ==
  ASSUME NEW a \in Nat, NEW x, NEW y
  PROVE  Written(a, <<x, y>>)
           = [b \in Bytes |-> IF b = a THEN x ELSE IF b = a + 1 THEN y ELSE mem[b]]
<1>1. Size \in Nat /\ Bytes = 0..Size - 1
  BY TextAssumption DEF Bytes
<1>2. Len(<<x, y>>) = 2 /\ <<x, y>>[1] = x /\ <<x, y>>[2] = y
  OBVIOUS
<1>3. \A b \in Bytes : b \in a..a + 2 - 1 <=> b = a \/ b = a + 1
  BY <1>1
<1>4. a - a + 1 = 1 /\ (a + 1) - a + 1 = 2 /\ a # a + 1
  OBVIOUS
<1> QED
  BY <1>2, <1>3, <1>4 DEF Written

\* The sign, and the number itoa is given.
LEMMA ItoaStep ==
  ASSUME Base, NumberInv, op \in NumberOps, Itoa, UNCHANGED <<was, call, shown>>
  PROVE  NumberInv'
<1>1. pc = "itoa" /\ Calm /\ NumberRegs
  BY DEF NumberInv, Itoa, Dividing, Reversing, Swapping, Converted, Padding, Putting
<1>2. /\ Size \in Nat /\ Bytes = 0..Size - 1 /\ call.d \in Nat /\ call.d < Size
      /\ Magnitude(call) \in 0..Modulus - 1
  BY <1>1, NumberFacts
<1>3. /\ op' = op /\ NumberOps' = NumberOps /\ \A k : Q(k)' = Q(k) /\ Ch(k)' = Ch(k)
      /\ Negative(call)' = Negative(call) /\ Bytes' = Bytes /\ At' = At /\ call' = call
  BY NumberKept
<1>4. mem' \in [Bytes -> 0..255] /\ (Negative(call) => mem'[call.d] = 45)
  <2>1. CASE Negative(call)
    <3>1. mem' = Written(call.d, <<45>>)
      BY <2>1 DEF Itoa
    <3>2. PICK a \in Nat, x \in 0..255 : a = call.d /\ x = 45
      BY <1>2
    <3>3. mem' = [b \in Bytes |-> IF b = a THEN x ELSE mem[b]]
      BY <3>1, <3>2, WrittenByte
    <3>5. mem \in [Bytes -> 0..255]
      BY <1>1 DEF NumberRegs
    <3>6. mem' \in [Bytes -> 0..255]
      BY <3>3, <3>5
    <3>4. call.d \in Bytes
      BY <1>2
    <3> QED
      BY <3>2, <3>3, <3>4, <3>6
  <2>2. CASE ~Negative(call)
    BY <1>1, <2>2 DEF Itoa, NumberRegs
  <2> QED
    BY <2>1, <2>2
<1>5. pc' = "digits" /\ i' = 0 /\ j' = 0 /\ newval' = Magnitude(call) /\ UNCHANGED registers
  BY <1>1 DEF Itoa, Goto, Calm
<1>6. NumberRegs'
  BY <1>1, <1>2, <1>3, <1>4, <1>5 DEF NumberRegs, registers
<1>7. Dividing'
  <2>1. Signed(mem)'
    BY <1>3, <1>4 DEF Signed
  <2>2. newval' = Q(i')
    BY <1>1, <1>5, QuotientFacts
  <2> QED
    BY <1>3, <1>5, <2>1, <2>2 DEF Dividing
<1> QED
  BY <1>6, <1>7 DEF NumberInv

\* The number 0, a case of its own in itoa.
LEMMA ItoaZeroStep ==
  ASSUME Base, NumberInv, op \in NumberOps, ItoaZero, UNCHANGED <<was, call, shown>>
  PROVE  NumberInv'
<1>1. pc = "digits" /\ Dividing /\ NumberRegs
  BY DEF NumberInv, ItoaZero, Dividing, Reversing, Swapping, Converted, Padding, Putting
<1>2. /\ Size \in Nat /\ Bytes = 0..Size - 1 /\ call.d \in Nat /\ call.d < Size
      /\ At \in Nat /\ (Negative(call) => At = call.d + 1) /\ Radix(call) \in 2..36
  BY <1>1, NumberFacts
<1>3. /\ op' = op /\ NumberOps' = NumberOps /\ \A k : Q(k)' = Q(k) /\ Ch(k)' = Ch(k)
      /\ Negative(call)' = Negative(call) /\ Bytes' = Bytes /\ At' = At /\ call' = call
  BY NumberKept
<1>4. /\ pc' = "number" /\ UNCHANGED <<registers, indexes>>
      /\ mem' = [b \in Bytes |-> IF b = At THEN 48 ELSE IF b = At + 1 THEN 0 ELSE mem[b]]
  BY <1>2, WrittenTwo DEF ItoaZero, Goto, At
<1>5. Q(0) = 0 /\ Q(1) = 0 /\ Ch(0) = 48
  <2>1. Q(0) = 0 /\ Q(0 + 1) = Q(0) \div Radix(call)
    BY <1>1, QuotientFacts DEF ItoaZero
  <2>2. 0 \div Radix(call) = 0 /\ 0 % Radix(call) = 0
    <3>1. PICK r \in 2..36 : r = Radix(call)
      BY <1>2
    <3>2. 0 \div r = 0 /\ 0 % r = 0
      OBVIOUS
    <3> QED
      BY <3>1, <3>2
  <2>3. 0 + 1 = 1
    OBVIOUS
  <2> QED
    BY <2>1, <2>2, <2>3, DigitFacts DEF Ch
<1>6. At + 1 < Size
  <2>1. \A k \in 0..0 - 1 : Q(k) # 0
    OBVIOUS
  <2> QED
    BY <1>1, <2>1, Roomy
<1>7. Formed(mem, 1)'
  <2>1. Digits(1)'
    BY <1>3, <1>5, <1>6, NumberKept DEF Digits
  <2>2. At \in Bytes /\ At + 1 \in Bytes /\ At + 0 = At /\ At # At + 1
    BY <1>2, <1>6
  <2>3. mem'[At + 1] = 0 /\ mem'[At + 0] = Ch(0)
    BY <1>4, <1>5, <2>2
  <2>4. \A k \in 0..1 - 1 : k = 0
    OBVIOUS
  <2> QED
    BY <1>3, <2>1, <2>3, <2>4 DEF Formed
<1>8. Signed(mem)'
  <2>1. call.d \in Bytes /\ (Negative(call) => call.d # At /\ call.d # At + 1)
    BY <1>2
  <2> QED
    BY <1>1, <1>3, <1>4, <2>1 DEF Signed, Dividing
<1>9. NumberRegs'
  <2>1. mem' \in [Bytes -> 0..255]
    BY <1>1, <1>4 DEF NumberRegs
  <2> QED
    BY <1>1, <1>3, <1>4, <2>1 DEF NumberRegs, registers, indexes
<1> QED
  BY <1>4, <1>7, <1>8, <1>9 DEF NumberInv, Converted

\* One digit, which the buffer has room for.
LEMMA ItoaDigitStep ==
  ASSUME Base, NumberInv, op \in NumberOps, ItoaDigit, UNCHANGED <<was, call, shown>>
  PROVE  NumberInv'
<1>1. pc = "digits" /\ Dividing /\ NumberRegs
  BY DEF NumberInv, ItoaDigit, Dividing, Reversing, Swapping, Converted, Padding, Putting
<1>2. /\ Size \in Nat /\ Bytes = 0..Size - 1 /\ call.d \in Nat /\ call.d < Size
      /\ At \in Nat /\ (Negative(call) => At = call.d + 1) /\ Radix(call) \in 2..36
      /\ Modulus \in Nat
  BY <1>1, NumberFacts
<1>3. /\ op' = op /\ NumberOps' = NumberOps /\ \A k : Q(k)' = Q(k) /\ Ch(k)' = Ch(k)
      /\ Negative(call)' = Negative(call) /\ Bytes' = Bytes /\ At' = At /\ call' = call
  BY NumberKept
<1>4. /\ i \in Nat /\ newval = Q(i) /\ newval > 0 /\ newval \in 0..Modulus - 1
      /\ \A k \in 0..i - 1 : Q(k) # 0 /\ mem[At + k] = Ch(k)
  BY <1>1, <1>2 DEF Dividing, NumberRegs, ItoaDigit
<1>5. Q(i) # 0 /\ i < Size /\ At + i < Size
  <2>1. Q(i) # 0
    BY <1>4
  <2> QED
    BY <1>1, <1>4, <2>1, Roomy
<1>6. Ch(i) \in 48..90 /\ Q(i + 1) = Q(i) \div Radix(call)
  BY <1>1, <1>4, QuotientFacts
<1>7. /\ mem' = [b \in Bytes |-> IF b = At + i THEN Ch(i) ELSE mem[b]]
      /\ mem' \in [Bytes -> 0..255]
  <2>1. mem' = Written(At + i, <<Ch(i)>>)
    BY <1>4 DEF ItoaDigit, At, Ch
  <2>2. At + i \in Nat /\ Ch(i) \in 0..255 /\ mem \in [Bytes -> 0..255]
    BY <1>1, <1>2, <1>4, <1>6 DEF NumberRegs
  <2>3. PICK place \in Nat, x \in 0..255 : place = At + i /\ x = Ch(i)
    BY <2>2
  <2>4. mem' = [b \in Bytes |-> IF b = place THEN x ELSE mem[b]]
    BY <2>1, <2>3, WrittenByte
  <2>5. mem' \in [Bytes -> 0..255]
    BY <2>2, <2>4
  <2> QED
    BY <2>3, <2>4, <2>5
<1>8. pc' = "digits" /\ i' = i + 1 /\ newval' = Q(i + 1) /\ j' = j /\ UNCHANGED registers
  BY <1>4, <1>6 DEF ItoaDigit, Goto
<1>9. NumberRegs'
  <2>1. newval' \in 0..Modulus - 1
    <3>1. newval \div Radix(call) \in 0..newval
      <4>1. PICK x \in Nat, r \in 2..36 : x = newval /\ r = Radix(call)
        BY <1>2, <1>4
      <4>2. x \div r \in 0..x
        OBVIOUS
      <4> QED
        BY <4>1, <4>2
    <3> QED
      BY <1>2, <1>4, <1>6, <1>8, <3>1
  <2>2. i' \in 0..Size
    BY <1>2, <1>4, <1>5, <1>8
  <2> QED
    BY <1>1, <1>3, <1>7, <1>8, <2>1, <2>2 DEF NumberRegs, registers
<1>10. Dividing'
  <2>1. ASSUME NEW k \in 0..i' - 1 PROVE Q(k) # 0 /\ mem'[At + k] = Ch(k)
    <3>1. k \in 0..i /\ At + k \in Bytes
      BY <1>2, <1>4, <1>5, <1>8
    <3>2. CASE k = i
      BY <1>5, <1>7, <3>1, <3>2
    <3>3. CASE k # i
      <4>1. k \in 0..i - 1 /\ At + k # At + i
        BY <1>2, <1>4, <3>1, <3>3
      <4> QED
        BY <1>4, <1>7, <3>1, <4>1
    <3> QED
      BY <3>2, <3>3
  <2>2. Signed(mem)'
    <3>1. call.d \in Bytes /\ (Negative(call) => call.d # At + i)
      BY <1>2, <1>4
    <3> QED
      BY <1>1, <1>3, <1>7, <3>1 DEF Signed, Dividing
  <2>3. newval' = Q(i') /\ j' = 0
    BY <1>1, <1>8 DEF Dividing
  <2> QED
    BY <1>3, <1>8, <2>1, <2>2, <2>3 DEF Dividing
<1> QED
  BY <1>9, <1>10 DEF NumberInv

\* The Nul behind the digits.
LEMMA ItoaReverseStep ==
  ASSUME Base, NumberInv, op \in NumberOps, ItoaReverse, UNCHANGED <<was, call, shown>>
  PROVE  NumberInv'
<1>1. pc = "digits" /\ Dividing /\ NumberRegs
  BY DEF NumberInv, ItoaReverse, Dividing, Reversing, Swapping, Converted, Padding, Putting
<1>2. /\ Size \in Nat /\ Bytes = 0..Size - 1 /\ call.d \in Nat /\ call.d < Size
      /\ At \in Nat /\ (Negative(call) => At = call.d + 1)
  BY <1>1, NumberFacts
<1>3. /\ op' = op /\ NumberOps' = NumberOps /\ \A k : Q(k)' = Q(k) /\ Ch(k)' = Ch(k)
      /\ Negative(call)' = Negative(call) /\ Bytes' = Bytes /\ At' = At /\ call' = call
      /\ \A L : Digits(L)' = Digits(L)
  BY NumberKept
<1>4. /\ i \in Nat /\ Q(i) = 0
      /\ \A k \in 0..i - 1 : Q(k) # 0 /\ mem[At + k] = Ch(k)
  BY <1>1, <1>2 DEF Dividing, NumberRegs, ItoaReverse
<1>5. i # 0
  <2>1. Q(0) # 0
    BY <1>1, QuotientFacts DEF ItoaReverse
  <2> QED
    BY <1>4, <2>1
<1>6. Digits(i)
  BY <1>1, <1>4, <1>5, Roomy
<1>7. /\ mem' = [b \in Bytes |-> IF b = At + i THEN 0 ELSE mem[b]]
      /\ mem' \in [Bytes -> 0..255]
  <2>1. mem' = Written(At + i, <<0>>)
    BY DEF ItoaReverse, At
  <2>2. PICK place \in Nat : place = At + i
    BY <1>2, <1>4
  <2>3. 0 \in 0..255 /\ mem \in [Bytes -> 0..255]
    BY <1>1 DEF NumberRegs
  <2>4. mem' = [b \in Bytes |-> IF b = place THEN 0 ELSE mem[b]]
    BY <2>1, <2>2, WrittenByte
  <2>5. mem' \in [Bytes -> 0..255]
    BY <2>3, <2>4
  <2> QED
    BY <2>2, <2>4, <2>5
<1>8. pc' = "strrev" /\ UNCHANGED <<registers, indexes>>
  BY DEF ItoaReverse, Goto
<1>9. Raw(mem, i)'
  <2>1. i' = i /\ At + i \in Bytes
    BY <1>2, <1>4, <1>6, <1>8 DEF indexes, Digits
  <2>2. ASSUME NEW k \in 0..i - 1 PROVE Q(k) # 0 /\ mem'[At + k] = Ch(k)
    <3>1. At + k \in Bytes /\ At + k # At + i
      BY <1>2, <1>4, <2>1
    <3> QED
      BY <1>4, <1>7, <3>1
  <2> QED
    BY <1>3, <1>6, <1>7, <2>1, <2>2 DEF Raw
<1>10. Signed(mem)'
  <2>1. call.d \in Bytes /\ (Negative(call) => call.d # At + i)
    BY <1>2, <1>4
  <2> QED
    BY <1>1, <1>3, <1>7, <2>1 DEF Signed, Dividing
<1>11. NumberRegs'
  BY <1>1, <1>3, <1>7, <1>8 DEF NumberRegs, registers, indexes
<1> QED
  BY <1>8, <1>9, <1>10, <1>11 DEF NumberInv, Reversing

\* The place of a digit, and of the Nul behind the digits.
LEMMA DigitPlaces ==
  ASSUME Base, pc # "idle", op \in NumberOps, NEW L \in Nat, Digits(L)
  PROVE  /\ At + L \in Bytes /\ At \in Nat /\ Size \in Nat /\ L <= Size
         /\ \A k \in 0..L - 1 : At + k \in Bytes /\ L - 1 - k \in 0..L - 1
         /\ \A k \in Nat : Ch(k) # 0
<1>1. Size \in Nat /\ Bytes = 0..Size - 1 /\ At \in Nat
  BY NumberFacts
<1>2. At + L < Size
  BY DEF Digits
<1>3. \A k \in Nat : Ch(k) # 0
  <2>1. \A k \in Nat : Ch(k) \in 48..90
    BY QuotientFacts
  <2> QED
    BY <2>1
<1> QED
  BY <1>1, <1>2, <1>3

\* strrev of the number begins.
LEMMA NumberStrrevStep ==
  ASSUME Base, NumberInv, op \in NumberOps, Strrev, UNCHANGED <<was, call, shown>>
  PROVE  NumberInv'
<1>1. pc = "strrev" /\ Reversing /\ NumberRegs
  BY DEF NumberInv, Strrev, Dividing, Reversing, Swapping, Converted, Padding, Putting
<1>2. /\ op' = op /\ NumberOps' = NumberOps /\ \A k : Q(k)' = Q(k) /\ Ch(k)' = Ch(k)
      /\ Negative(call)' = Negative(call) /\ Bytes' = Bytes /\ At' = At /\ call' = call
      /\ \A L : Digits(L)' = Digits(L)
  BY NumberKept
<1>3. Raw(mem, i) /\ Signed(mem) /\ i \in Nat /\ Digits(i)
  BY <1>1 DEF Reversing, Raw, Digits
<1>4. /\ Size \in Nat /\ At \in Nat /\ i <= Size /\ At + i < Size /\ i # 0
      /\ \A k \in Nat : Ch(k) # 0
  BY <1>1, <1>3, DigitPlaces DEF Digits
<1>5. Length(mem, At) = i
  <2>1. i \in 0..Size - 1
    BY <1>3, <1>4
  <2>2. mem[At + i] = 0 /\ \A k \in 0..i - 1 : mem[At + k] # 0
    BY <1>3, <1>4 DEF Raw
  <2> QED
    BY <1>4, <2>1, <2>2, LengthIs
<1>6. i' = 0 /\ j' = i - 1 /\ pc' = "swap" /\ UNCHANGED <<mem, registers, newval>>
  <2>1. Reversed = At
    BY DEF Reversed, At, NumberOps, Prints
  <2> QED
    BY <1>5, <2>1 DEF Strrev, Goto
<1>7. mem' = Mirror(mem, At, i, j)'
  <2>1. mem = Mirror(mem, At, 0, i - 1)
    BY <1>1, <1>3, <1>4, MirrorStart DEF NumberRegs
  <2>2. Mirror(mem, At, i, j)' = Mirror(mem, At, 0, i - 1)
    BY <1>2, <1>6 DEF Mirror
  <2> QED
    BY <1>6, <2>1, <2>2
<1>8. Raw(mem, i + j + 1)'
  <2>1. i' + j' + 1 = i
    BY <1>3, <1>6
  <2> QED
    BY <1>2, <1>3, <1>6, <2>1 DEF Raw
<1>9. Signed(mem)' /\ i' <= j' + 1
  BY <1>2, <1>3, <1>6 DEF Signed
<1>10. Swapping'
  BY <1>6, <1>7, <1>8, <1>9 DEF Swapping
<1>11. NumberRegs'
  <2>1. i' \in 0..Size /\ j' \in -1..Size
    BY <1>3, <1>4, <1>6
  <2> QED
    BY <1>1, <1>2, <1>6, <2>1 DEF NumberRegs, registers
<1> QED
  BY <1>10, <1>11 DEF NumberInv

\* strrev of the number goes on.
LEMMA NumberSwapStep ==
  ASSUME Base, NumberInv, op \in NumberOps, StrrevSwap, UNCHANGED <<was, call, shown>>
  PROVE  NumberInv'
<1>1. pc = "swap" /\ Swapping /\ NumberRegs
  BY DEF NumberInv, StrrevSwap, Dividing, Reversing, Swapping, Converted, Padding, Putting
<1>2. /\ op' = op /\ NumberOps' = NumberOps /\ \A k : Q(k)' = Q(k) /\ Ch(k)' = Ch(k)
      /\ Negative(call)' = Negative(call) /\ Bytes' = Bytes /\ At' = At /\ call' = call
      /\ \A L : Digits(L)' = Digits(L)
  BY NumberKept
<1>3. PICK m : Raw(m, i + j + 1) /\ mem = Mirror(m, At, i, j)
  BY <1>1 DEF Swapping
<1>4. /\ Size \in Nat /\ Bytes = 0..Size - 1 /\ call.d \in Nat /\ call.d < Size
      /\ At \in Nat /\ (Negative(call) => At = call.d + 1)
  BY <1>1, NumberFacts
<1>5. i \in Nat /\ j \in Nat /\ i < j /\ i <= Size /\ j <= Size /\ At + i + j < Size
  <2>1. i < j /\ i \in 0..Size /\ j \in -1..Size
    BY <1>1 DEF NumberRegs, StrrevSwap
  <2>2. At + (i + j + 1) < Size
    BY <1>3 DEF Raw, Digits
  <2> QED
    BY <1>4, <2>1, <2>2
<1>6. /\ pc' = "swap" /\ i' = i + 1 /\ j' = j - 1 /\ UNCHANGED <<registers, newval>>
      /\ mem' = Exchanged(At + i, At + j)
  <2>1. Reversed = At
    BY DEF Reversed, At, NumberOps, Prints
  <2> QED
    BY <2>1 DEF StrrevSwap, Goto, Exchanged
<1>7. mem' = Mirror(m, At, i + 1, j - 1)
  <2>1. PICK a \in Nat : a = At
    BY <1>4
  <2>2. a + i + j < Size /\ mem = Mirror(m, a, i, j)
    BY <1>3, <1>5, <2>1
  <2>3. Exchanged(a + i, a + j) = Mirror(m, a, i + 1, j - 1)
    BY <1>4, <1>5, <2>2, MirrorStep
  <2> QED
    BY <1>6, <2>1, <2>3
<1>8. /\ mem \in [Bytes -> 0..255] /\ At + i \in Bytes /\ At + j \in Bytes
      /\ call.d \in Bytes /\ (Negative(call) => call.d # At + i /\ call.d # At + j)
  BY <1>1, <1>4, <1>5 DEF NumberRegs
<1>9. mem' \in [Bytes -> 0..255] /\ (Negative(call) => mem'[call.d] = mem[call.d])
  BY <1>6, <1>8 DEF Exchanged
<1>10. Signed(mem)'
  BY <1>1, <1>2, <1>9 DEF Signed, Swapping
<1>11. \E n : Raw(n, i + j + 1)' /\ mem' = Mirror(n, At, i, j)'
  <2>1. i' + j' + 1 = i + j + 1
    BY <1>5, <1>6
  <2>2. Raw(m, i + j + 1)'
    BY <1>2, <1>3, <2>1 DEF Raw
  <2>3. mem' = Mirror(m, At, i, j)'
    BY <1>2, <1>6, <1>7 DEF Mirror
  <2> QED
    BY <2>2, <2>3
<1>12. i' <= j' + 1 /\ i' \in 0..Size /\ j' \in -1..Size
  BY <1>4, <1>5, <1>6
<1>13. NumberRegs'
  BY <1>1, <1>2, <1>6, <1>9, <1>12 DEF NumberRegs, registers
<1> QED
  BY <1>6, <1>10, <1>11, <1>12, <1>13 DEF NumberInv, Swapping

\* strrev of the number ends: mirrored, the digits are in the order of the
\* number.
LEMMA NumberReversedStep ==
  ASSUME Base, NumberInv, op \in NumberOps, StrrevEnd, UNCHANGED <<was, call, shown>>
  PROVE  NumberInv'
<1>1. pc = "swap" /\ Swapping /\ NumberRegs
  BY DEF NumberInv, StrrevEnd, Dividing, Reversing, Swapping, Converted, Padding, Putting
<1>2. /\ op' = op /\ NumberOps' = NumberOps /\ \A k : Q(k)' = Q(k) /\ Ch(k)' = Ch(k)
      /\ Negative(call)' = Negative(call) /\ Bytes' = Bytes /\ At' = At /\ call' = call
      /\ \A L : Digits(L)' = Digits(L)
  BY NumberKept
<1>3. PICK m : Raw(m, i + j + 1) /\ mem = Mirror(m, At, i, j)
  BY <1>1 DEF Swapping
<1>4. i >= j /\ i <= j + 1 /\ i \in Nat /\ j \in Int /\ j >= -1
  BY <1>1 DEF NumberRegs, Swapping, StrrevEnd
<1>5. PICK L \in Nat : L = i + j + 1
  BY <1>4
<1>6. Digits(L) /\ L # 0 /\ Raw(m, L)
  BY <1>3, <1>5 DEF Raw, Digits
<1>7. /\ At + L \in Bytes /\ At \in Nat
      /\ \A k \in 0..L - 1 : At + k \in Bytes /\ L - 1 - k \in 0..L - 1
  BY <1>1, <1>6, DigitPlaces
<1>8. pc' = "number" /\ UNCHANGED <<mem, registers, indexes>>
  BY DEF StrrevEnd, Goto, NumberOps, Prints
<1>9. mem[At + L] = 0
  <2>1. ~(At + L \in At..At + i - 1 \/ At + L \in At + j + 1..At + i + j)
    BY <1>4, <1>5, <1>7
  <2> QED
    BY <1>3, <1>6, <1>7, <2>1 DEF Mirror, Raw
<1>10. ASSUME NEW k \in 0..L - 1 PROVE mem[At + k] = Ch(L - 1 - k)
  <2>1. At + k \in Bytes /\ L - 1 - k \in 0..L - 1
    BY <1>7
  <2>2. m[At + (L - 1 - k)] = Ch(L - 1 - k)
    BY <1>6, <2>1 DEF Raw
  <2>3. CASE At + k \in At..At + i - 1 \/ At + k \in At + j + 1..At + i + j
    <3>1. mem[At + k] = m[2 * At + i + j - (At + k)]
      BY <1>3, <2>1, <2>3 DEF Mirror
    <3>2. 2 * At + i + j - (At + k) = At + (L - 1 - k)
      BY <1>4, <1>5, <1>7
    <3> QED
      BY <2>2, <3>1, <3>2
  <2>4. CASE ~(At + k \in At..At + i - 1 \/ At + k \in At + j + 1..At + i + j)
    <3>1. mem[At + k] = m[At + k]
      BY <1>3, <2>1, <2>4 DEF Mirror
    <3>2. k = L - 1 - k
      BY <1>4, <1>5, <1>7, <2>4
    <3> QED
      BY <2>2, <3>1, <3>2
  <2> QED
    BY <2>3, <2>4
<1>11. L > 1 => Q(L - 1) # 0
  <2>1. L - 1 \in 0..L - 1
    BY <1>6
  <2> QED
    BY <1>6, <2>1 DEF Raw
<1>12. Formed(mem, L)'
  BY <1>2, <1>6, <1>8, <1>9, <1>10, <1>11 DEF Formed
<1>13. Signed(mem)'
  BY <1>1, <1>2, <1>8 DEF Signed, Swapping
<1>14. NumberRegs'
  BY <1>1, <1>2, <1>8 DEF NumberRegs, registers, indexes
<1> QED
  BY <1>8, <1>12, <1>13, <1>14 DEF NumberInv, Converted

\* Once 0, the quotients stay 0.
LEMMA QuotientZero ==
  ASSUME Base, pc # "idle", op \in NumberOps, NEW L \in Nat, Q(L) = 0
  PROVE  \A k \in Nat : k >= L => Q(k) = 0
<1> DEFINE S == {k \in Nat : k >= L => Q(k) = 0}
<1>1. Radix(call) \in 2..36
  BY NumberFacts
<1>2. ASSUME NEW k \in Nat, Q(k) = 0 PROVE Q(k + 1) = 0
  <2>1. Q(k + 1) = Q(k) \div Radix(call)
    BY QuotientFacts
  <2>2. PICK r \in 2..36 : r = Radix(call)
    BY <1>1
  <2>3. 0 \div r = 0
    OBVIOUS
  <2> QED
    BY <1>2, <2>1, <2>2, <2>3
<1>3. 0 \in S
  OBVIOUS
<1>4. ASSUME NEW k \in Nat, k \in S PROVE k + 1 \in S
  <2> SUFFICES ASSUME k + 1 >= L PROVE Q(k + 1) = 0
    OBVIOUS
  <2>1. CASE k + 1 = L
    BY <2>1
  <2>2. CASE k + 1 # L
    <3>1. k >= L
      BY <2>2
    <3>2. Q(k) = 0
      BY <1>4, <3>1
    <3> QED
      BY <1>2, <3>2
  <2> QED
    BY <2>1, <2>2
<1> HIDE DEF S
<1>5. Nat \subseteq S
  BY <1>3, <1>4, Induction
<1> QED
  BY <1>5 DEF S

\* The characters of a string whose length is known.
LEMMA StringIs ==
  ASSUME NEW m, NEW a \in Nat, NEW l \in Nat, Length(m, a) = l
  PROVE  /\ String(m, a) = [k \in 1..l |-> m[a + k - 1]]
         /\ DOMAIN String(m, a) = 1..l /\ Len(String(m, a)) = l
<1>1. String(m, a) = [k \in 1..l |-> m[a + k - 1]]
  BY DEF String
<1> QED
  BY <1>1

\* The digits of the quotients from place n down denote the number.
LEMMA DigitsDenote ==
  ASSUME Base, pc # "idle", op \in NumberOps, NEW n \in Nat, NEW str,
         DOMAIN str = 1..n, Len(str) = n, Q(n) = 0,
         \A t \in 1..n : str[t] = Ch(n - t)
  PROVE  Denoted(str, Radix(call)) = Magnitude(call)
<1>1. PICK value \in Nat, radix \in 2..36 : value = Magnitude(call) /\ radix = Radix(call)
  BY NumberFacts
<1>2. Quotient(value, radix)[n] = 0
  BY <1>1 DEF Q
<1>3. \A t \in 1..n : str[t] = Digit(Quotient(value, radix)[n - t] % radix)
  BY <1>1 DEF Ch, Q
<1>4. Denoted(str, radix) = value
  BY <1>2, <1>3, DenotedIs
<1> QED
  BY <1>1, <1>4

\* What itoa leaves in the buffer is the number.
LEMMA NumberString ==
  ASSUME Base, pc # "idle", op \in NumberOps, NEW L \in Nat, Formed(mem, L)
  PROVE  /\ Length(mem, At) = L /\ Len(String(mem, At)) = L
         /\ String(mem, At) = [k \in 1..L |-> mem[At + k - 1]]
         /\ Canonical(String(mem, At))
         /\ Denoted(String(mem, At), Radix(call)) = Magnitude(call)
<1>1. /\ At + L \in Bytes /\ At \in Nat /\ Size \in Nat /\ Bytes = 0..Size - 1
      /\ \A k \in 0..L - 1 : At + k \in Bytes /\ L - 1 - k \in 0..L - 1
      /\ \A k \in Nat : Ch(k) # 0
      /\ L # 0 /\ Q(L) = 0
  BY DigitPlaces DEF Formed, Digits, Bytes
<1>2. \A k \in 0..L - 1 : mem[At + k] = Ch(L - 1 - k) /\ L - 1 - k \in Nat
  BY <1>1 DEF Formed
<1>3. Length(mem, At) = L
  <2>1. L \in 0..Size - 1
    BY <1>1
  <2>2. mem[At + L] = 0 /\ \A k \in 0..L - 1 : mem[At + k] # 0
    BY <1>1, <1>2 DEF Formed
  <2> QED
    BY <1>1, <2>1, <2>2, LengthIs
<1>4. /\ String(mem, At) = [k \in 1..L |-> mem[At + k - 1]]
      /\ DOMAIN String(mem, At) = 1..L /\ Len(String(mem, At)) = L
  BY <1>1, <1>3, StringIs
<1>5. ASSUME NEW t \in 1..L PROVE String(mem, At)[t] = Ch(L - t)
  <2>1. t - 1 \in 0..L - 1 /\ L - 1 - (t - 1) = L - t /\ At + t - 1 = At + (t - 1)
    BY <1>1
  <2> QED
    BY <1>2, <1>4, <2>1
<1>6. Canonical(String(mem, At))
  <2>1. String(mem, At)[1] = Ch(L - 1) /\ 1 \in 1..L
    BY <1>1, <1>5
  <2>2. ASSUME L > 1 PROVE Ch(L - 1) # 48
    <3>1. Q(L - 1) # 0 /\ L - 1 \in Nat /\ (L - 1) + 1 = L
      BY <2>2 DEF Formed
    <3>2. Q(L - 1) \in Nat /\ Q((L - 1) + 1) = Q(L - 1) \div Radix(call)
      BY <3>1, QuotientFacts
    <3>3. Radix(call) \in 2..36
      BY NumberFacts
    <3>4. PICK x \in Nat, r \in Nat \ {0} : x = Q(L - 1) /\ r = Radix(call) /\ r <= 36
      BY <3>2, <3>3
    <3>5. x = (x \div r) * r + (x % r) /\ x % r \in 0..r - 1
      BY Division
    <3>6. x \div r = 0 /\ x # 0
      BY <1>1, <3>1, <3>2, <3>4
    <3>7. x = x % r
      <4>1. 0 * r = 0 /\ x % r \in Nat
        BY <3>5
      <4>2. x = 0 * r + (x % r)
        BY <3>5, <3>6
      <4> QED
        BY <4>1, <4>2
    <3>8. x % r # 0 /\ x % r \in 0..35
      <4>1. x % r \in 0..r - 1 /\ r <= 36
        BY <3>4, <3>5
      <4>2. x % r # 0
        BY <3>6, <3>7
      <4>3. PICK y : y = x % r
        OBVIOUS
      <4> QED
        BY <4>1, <4>2, <4>3
    <3> QED
      BY <3>4, <3>8, DigitFacts DEF Ch
  <2>3. String(mem, At) # <<>>
    BY <1>1, <1>4
  <2>4. Len(String(mem, At)) # 1 => L > 1
    BY <1>1, <1>4
  <2> QED
    BY <2>1, <2>2, <2>3, <2>4 DEF Canonical
<1>7. Denoted(String(mem, At), Radix(call)) = Magnitude(call)
  <2>1. PICK str : str = String(mem, At)
    OBVIOUS
  <2>2. \A t \in 1..L : str[t] = Ch(L - t)
    BY <1>5, <2>1
  <2>3. DOMAIN str = 1..L /\ Len(str) = L /\ Q(L) = 0
    BY <1>1, <1>4, <2>1
  <2> QED
    BY <2>1, <2>2, <2>3, DigitsDenote
<1> QED
  BY <1>3, <1>4, <1>6, <1>7

\* A negative number: the sign and the digits behind it.
LEMMA NegativeString ==
  ASSUME Base, pc # "idle", op \in NumberOps, NEW L \in Nat, Formed(mem, L),
         Signed(mem), Negative(call)
  PROVE  /\ Head(String(mem, call.d)) = 45
         /\ Tail(String(mem, call.d)) = String(mem, At)
<1>1. /\ At + L \in Bytes /\ At \in Nat /\ Size \in Nat /\ Bytes = 0..Size - 1
      /\ \A k \in 0..L - 1 : At + k \in Bytes /\ L - 1 - k \in 0..L - 1
      /\ \A k \in Nat : Ch(k) # 0
      /\ call.d \in Nat /\ At = call.d + 1
  BY DigitPlaces, NumberFacts DEF Formed, Digits
<1>2. mem[At + L] = 0 /\ \A k \in 0..L - 1 : mem[At + k] # 0
  <2>1. mem[At + L] = 0 /\ \A k \in 0..L - 1 : mem[At + k] = Ch(L - 1 - k)
    BY DEF Formed
  <2>2. \A k \in 0..L - 1 : L - 1 - k \in Nat
    OBVIOUS
  <2> QED
    BY <1>1, <2>1, <2>2
<1>3. mem[call.d] = 45
  BY DEF Signed
<1>4. PICK d \in Nat : d = call.d /\ At = d + 1
  BY <1>1
<1>5. PICK l \in Nat : l = L + 1 /\ l \in 0..Size - 1
  <2>1. At + L < Size
    BY <1>1
  <2> QED
    BY <1>1, <2>1
<1>6. /\ String(mem, d) = [k \in 1..l |-> mem[d + k - 1]]
      /\ Len(String(mem, d)) = l
  <2>1. mem[d + l] = 0
    <3>1. d + l = At + L
      BY <1>4, <1>5
    <3> QED
      BY <1>2, <3>1
  <2>2. ASSUME NEW k \in 0..l - 1 PROVE mem[d + k] # 0
    <3>1. CASE k = 0
      <4>1. d + k = d
        BY <3>1
      <4> QED
        BY <1>3, <1>4, <4>1
    <3>2. CASE k # 0
      <4>1. k - 1 \in 0..L - 1 /\ d + k = At + (k - 1)
        BY <1>4, <1>5, <3>2
      <4> QED
        BY <1>2, <4>1
    <3> QED
      BY <3>1, <3>2
  <2>3. \A k \in 0..l - 1 : mem[d + k] # 0
    BY <2>2
  <2>4. Length(mem, d) = l
    BY <1>5, <2>1, <2>3, LengthIs
  <2> QED
    BY <2>4, StringIs
<1>7. Head(String(mem, call.d)) = 45
  <2>1. 1 \in 1..l /\ d + 1 - 1 = d
    BY <1>5
  <2>2. String(mem, d)[1] = mem[d]
    BY <1>6, <2>1
  <2> QED
    BY <1>3, <1>4, <1>6, <2>2
<1>8. Tail(String(mem, d)) = [k \in 1..L |-> mem[At + k - 1]]
  <2>1. Tail(String(mem, d)) = [k \in 1..l - 1 |-> String(mem, d)[k + 1]]
    BY <1>6
  <2>2. l - 1 = L
    BY <1>5
  <2>3. ASSUME NEW k \in 1..L PROVE String(mem, d)[k + 1] = mem[At + k - 1]
    <3>1. k + 1 \in 1..l /\ d + (k + 1) - 1 = At + k - 1
      BY <1>4, <1>5
    <3> QED
      BY <1>6, <3>1
  <2> QED
    BY <2>1, <2>2, <2>3
<1> QED
  BY <1>4, <1>7, <1>8, NumberString

\* The number of %#x: zeros and the digits, eight characters together.
LEMMA PaddedString ==
  ASSUME Base, pc # "idle", op = "%#x", NEW L \in Nat, Formed(mem, L),
         \A k \in L..7 : mem[call.d + k] = 48
  PROVE  /\ Len(String(mem, call.d + L)) = 8
         /\ Denoted(String(mem, call.d + L), 16) = call.c
<1>0. op \in NumberOps
  BY DEF NumberOps, Prints
<1>1. /\ At + L \in Bytes /\ At \in Nat /\ Size \in Nat /\ Bytes = 0..Size - 1
      /\ \A k \in 0..L - 1 : At + k \in Bytes /\ L - 1 - k \in 0..L - 1
      /\ \A k \in Nat : Ch(k) # 0
      /\ call.d \in Nat /\ At = call.d + 8
      /\ L # 0 /\ L <= 8 /\ Q(L) = 0
  BY <1>0, DigitPlaces, NumberFacts DEF Formed, Digits
<1>2. mem[At + L] = 0 /\ \A k \in 0..L - 1 : mem[At + k] = Ch(L - 1 - k) /\ L - 1 - k \in Nat
  BY <1>1 DEF Formed
<1>3. Radix(call) = 16 /\ Magnitude(call) = call.c /\ call.c \in Nat
  <2>1. ~Negative(call)
    BY DEF Negative, op
  <2>2. call.c \in 0..Modulus - 1 /\ Modulus \in Nat /\ Magnitude(call) = call.c
    BY <1>0, <2>1, NumberFacts
  <2>3. Radix(call) = 16
    BY DEF Radix, op
  <2> QED
    BY <2>2, <2>3
<1>4. \A k \in Nat : k >= L => Ch(k) = 48
  <2> SUFFICES ASSUME NEW k \in Nat, k >= L PROVE Ch(k) = 48
    OBVIOUS
  <2>1. Q(k) = 0
    BY <1>0, <1>1, QuotientZero
  <2>2. 0 % 16 = 0 /\ 0 \in 0..35
    OBVIOUS
  <2> QED
    BY <1>3, <2>1, <2>2, DigitFacts DEF Ch
<1>5. ASSUME NEW k \in 0..7 PROVE mem[call.d + L + k] = Ch(7 - k)
  <2>1. CASE k <= 7 - L
    <3>1. call.d \in Nat /\ L \in 1..8
      BY <1>1
    <3>2. L + k \in L..7 /\ call.d + L + k = call.d + (L + k) /\ 7 - k \in Nat /\ 7 - k >= L
      BY <2>1, <3>1
    <3> QED
      BY <1>4, <3>2
  <2>2. CASE k > 7 - L
    <3>1. /\ k - (8 - L) \in 0..L - 1
          /\ call.d + L + k = At + (k - (8 - L))
          /\ L - 1 - (k - (8 - L)) = 7 - k
      <4>1. call.d \in Nat /\ At = call.d + 8 /\ L \in 1..8
        BY <1>1
      <4> QED
        BY <2>2, <4>1
    <3> QED
      BY <1>2, <3>1
  <2> QED
    BY <1>1, <2>1, <2>2
<1>6. PICK a \in Nat, n \in Nat : a = call.d + L /\ n = 8
  BY <1>1
<1>7. Length(mem, a) = n
  <2>1. n \in 0..Size - 1
    <3>1. At + L < Size /\ At = call.d + 8 /\ call.d \in Nat /\ At \in Nat /\ Size \in Nat
      BY <1>1
    <3> QED
      BY <1>6, <3>1
  <2>2. mem[a + n] = 0
    <3>1. a + n = At + L
      BY <1>1, <1>6
    <3> QED
      BY <1>2, <3>1
  <2>3. ASSUME NEW k \in 0..n - 1 PROVE mem[a + k] # 0
    <3>1. k \in 0..7 /\ 7 - k \in Nat /\ a + k = call.d + L + k
      BY <1>6
    <3>2. mem[a + k] = Ch(7 - k)
      BY <1>5, <3>1
    <3> QED
      BY <1>1, <3>1, <3>2
  <2>4. \A k \in 0..n - 1 : mem[a + k] # 0
    BY <2>3
  <2> QED
    BY <2>1, <2>2, <2>4, LengthIs
<1>8. /\ String(mem, a) = [k \in 1..n |-> mem[a + k - 1]]
      /\ DOMAIN String(mem, a) = 1..n /\ Len(String(mem, a)) = n
  BY <1>7, StringIs
<1>9. Denoted(String(mem, a), 16) = call.c
  <2>1. PICK str : str = String(mem, a)
    OBVIOUS
  <2>2. ASSUME NEW t \in 1..n PROVE str[t] = Ch(n - t)
    <3>1. t - 1 \in 0..7 /\ 7 - (t - 1) = n - t /\ a + t - 1 = call.d + L + (t - 1)
      BY <1>1, <1>6
    <3>2. str[t] = mem[a + t - 1]
      BY <1>8, <2>1
    <3>3. mem[call.d + L + (t - 1)] = Ch(7 - (t - 1))
      BY <1>5, <3>1
    <3> QED
      BY <3>1, <3>2, <3>3
  <2>3. \A t \in 1..n : str[t] = Ch(n - t)
    BY <2>2
  <2>4. DOMAIN str = 1..n /\ Len(str) = n
    BY <1>8, <2>1
  <2>5. Q(n) = 0
    <3>1. n >= L
      BY <1>1, <1>6
    <3> QED
      BY <1>0, <1>1, <3>1, QuotientZero
  <2>6. Denoted(str, Radix(call)) = Magnitude(call)
    BY <1>0, <2>3, <2>4, <2>5, DigitsDenote
  <2> QED
    BY <1>3, <2>1, <2>6
<1> QED
  BY <1>6, <1>8, <1>9

\* The return of itoa.
LEMMA NumberEndStep ==
  ASSUME Base, NumberInv, op \in NumberOps, NumberEnd, UNCHANGED <<was, call, shown>>
  PROVE  NumberInv'
<1>1. pc = "number" /\ Converted /\ NumberRegs
  BY DEF NumberInv, NumberEnd, Dividing, Reversing, Swapping, Converted, Padding, Putting
<1>2. /\ op' = op /\ NumberOps' = NumberOps /\ \A k : Q(k)' = Q(k) /\ Ch(k)' = Ch(k)
      /\ Negative(call)' = Negative(call) /\ Bytes' = Bytes /\ At' = At /\ call' = call
      /\ \A L : Digits(L)' = Digits(L)
  BY NumberKept
<1>3. PICK L \in Nat : Formed(mem, L)
  BY <1>1 DEF Converted
<1>4. mem' = mem /\ UNCHANGED <<registers, newval>> /\ j' = j
  BY DEF NumberEnd
<1>5. Formed(mem, L)'
  BY <1>2, <1>3, <1>4 DEF Formed
<1>6. Signed(mem)'
  BY <1>1, <1>2, <1>4 DEF Signed, Converted
<1>7. i' \in 0..Size => NumberRegs'
  BY <1>1, <1>2, <1>4 DEF NumberRegs, registers
<1>8. i \in 0..Size
  BY <1>1 DEF NumberRegs
<1>9. CASE op = "itoa"
  <2>1. pc' = "done" /\ i' = i
    BY <1>9 DEF NumberEnd, Return
  <2>2. At = call.d /\ Magnitude(call) = call.c /\ Radix(call) = call.n
    <3>1. ~Negative(call)
      BY <1>9 DEF Negative, op
    <3>2. At = call.d /\ Magnitude(call) = call.c
      BY <1>1, <1>9, <3>1, NumberFacts
    <3> QED
      BY <1>9, <3>2 DEF Radix, op
  <2>3. Canonical(String(mem, call.d)) /\ Denoted(String(mem, call.d), call.n) = call.c
    <3>1. /\ Canonical(String(mem, At))
          /\ Denoted(String(mem, At), Radix(call)) = Magnitude(call)
      BY <1>1, <1>3, NumberString
    <3> QED
      BY <2>2, <3>1
  <2>4. NumbersRight'
    BY <1>2, <1>4, <1>9, <2>3 DEF NumbersRight, Done
  <2> QED
    BY <1>7, <1>8, <2>1, <2>4 DEF NumberInv
<1>10. CASE op = "%#x"
  <2>1. Length(mem, At) = L
    BY <1>1, <1>3, NumberString
  <2>2. pc' = "zeros" /\ i' = L
    BY <1>10, <2>1 DEF NumberEnd, Goto, At
  <2>3. L <= 8 /\ L \in 0..Size
    <3>1. Digits(L)
      BY <1>3 DEF Formed
    <3>2. L <= Size
      BY <1>1, <3>1, DigitPlaces
    <3> QED
      BY <1>10, <3>1, <3>2, TextAssumption DEF Digits
  <2>4. Padding'
    BY <1>2, <1>5, <1>10, <2>2, <2>3 DEF Padding
  <2> QED
    BY <1>7, <2>2, <2>3, <2>4 DEF NumberInv
<1>11. CASE op \notin {"itoa", "%#x"}
  <2>1. pc' = "puts" /\ i' = i
    BY <1>11 DEF NumberEnd, Goto
  <2>2. Putting'
    BY <1>2, <1>5, <1>6, <1>11, <2>1 DEF Putting
  <2> QED
    BY <1>7, <1>8, <2>1, <2>2 DEF NumberInv
<1> QED
  BY <1>9, <1>10, <1>11

\* One zero of %#x.
LEMMA ZerosStep ==
  ASSUME Base, NumberInv, op \in NumberOps, Zeros, UNCHANGED <<was, call, shown>>
  PROVE  NumberInv'
<1>1. pc = "zeros" /\ Padding /\ NumberRegs /\ op = "%#x"
  BY DEF NumberInv, Zeros, Dividing, Reversing, Swapping, Converted, Padding, Putting
<1>2. /\ op' = op /\ NumberOps' = NumberOps /\ \A k : Q(k)' = Q(k) /\ Ch(k)' = Ch(k)
      /\ Negative(call)' = Negative(call) /\ Bytes' = Bytes /\ At' = At /\ call' = call
      /\ \A L : Digits(L)' = Digits(L)
  BY NumberKept
<1>3. PICK L \in Nat : /\ Formed(mem, L) /\ L <= i /\ i <= 8
                       /\ \A k \in L..i - 1 : mem[call.d + k] = 48
  BY <1>1 DEF Padding
<1>4. /\ Size \in Nat /\ Bytes = 0..Size - 1 /\ call.d \in Nat /\ At = call.d + 8
      /\ At \in Nat
  BY <1>1, NumberFacts
<1>5. /\ At + L \in Bytes /\ \A k \in 0..L - 1 : At + k \in Bytes
      /\ i \in 0..8 /\ 8 < Size
  <2>1. Digits(L)
    BY <1>3 DEF Formed
  <2>2. At + L < Size /\ i \in 0..Size
    BY <1>1, <2>1 DEF Digits, NumberRegs
  <2>3. At + L \in Bytes /\ \A k \in 0..L - 1 : At + k \in Bytes
    <3>1. At \in Nat /\ Size \in Nat /\ At + L < Size /\ Bytes = 0..Size - 1
      BY <1>4, <2>2
    <3>2. At + L \in 0..Size - 1
      BY <3>1
    <3>3. \A k \in 0..L - 1 : At + k \in 0..Size - 1
      BY <3>1
    <3> QED
      BY <3>1, <3>2, <3>3
  <2>4. i \in 0..8 /\ 8 < Size
    <3>1. L <= i /\ i <= 8 /\ L # 0
      BY <1>3, <2>1 DEF Digits
    <3> QED
      BY <1>4, <2>2, <3>1
  <2> QED
    BY <2>3, <2>4
<1>6. CASE i < 8
  <2>1. /\ mem' = [b \in Bytes |-> IF b = call.d + i THEN 48 ELSE mem[b]]
        /\ mem' \in [Bytes -> 0..255]
    <3>1. mem' = Written(call.d + i, <<48>>)
      BY <1>6 DEF Zeros
    <3>2. PICK place \in Nat, x \in 0..255 : place = call.d + i /\ x = 48
      BY <1>4, <1>5
    <3>3. mem' = [b \in Bytes |-> IF b = place THEN x ELSE mem[b]]
      BY <3>1, <3>2, WrittenByte
    <3>4. mem \in [Bytes -> 0..255]
      BY <1>1 DEF NumberRegs
    <3>5. mem' \in [Bytes -> 0..255]
      BY <3>3, <3>4
    <3> QED
      BY <3>2, <3>3, <3>5
  <2>2. pc' = "zeros" /\ i' = i + 1 /\ UNCHANGED <<registers, j, newval>>
    BY <1>6 DEF Zeros, Goto
  <2>3. NumberRegs'
    <3>1. i' \in 0..Size
      BY <1>4, <1>5, <1>6, <2>2
    <3> QED
      BY <1>1, <1>2, <2>1, <2>2, <3>1 DEF NumberRegs, registers
  <2>4. Formed(mem, L)'
    <3>1. mem'[At + L] = mem[At + L]
      <4>1. At + L # call.d + i
        BY <1>4, <1>5, <1>6
      <4> QED
        BY <1>5, <2>1, <4>1
    <3>2. ASSUME NEW k \in 0..L - 1 PROVE mem'[At + k] = mem[At + k]
      <4>1. At + k # call.d + i
        <5>1. At = call.d + 8 /\ call.d \in Nat /\ i \in 0..7
          BY <1>4, <1>5, <1>6
        <5> QED
          BY <5>1
      <4> QED
        BY <1>5, <2>1, <4>1
    <3> QED
      BY <1>2, <1>3, <3>1, <3>2 DEF Formed
  <2>5. ASSUME NEW k \in L..i' - 1 PROVE mem'[call.d + k] = 48
    <3>1. k \in L..i /\ call.d + k \in Bytes
      <4>1. call.d \in Nat /\ At = call.d + 8 /\ At + L < Size /\ i \in 0..7 /\ Size \in Nat
        BY <1>4, <1>5, <1>6
      <4> QED
        BY <1>3, <1>4, <2>2, <4>1
    <3>2. CASE k = i
      BY <2>1, <3>1, <3>2
    <3>3. CASE k # i
      <4>1. k \in L..i - 1 /\ call.d + k # call.d + i
        BY <1>4, <1>5, <3>1, <3>3
      <4> QED
        BY <1>3, <2>1, <3>1, <4>1
    <3> QED
      BY <3>2, <3>3
  <2>6. L <= i' /\ i' <= 8
    BY <1>3, <1>5, <1>6, <2>2
  <2>7. Padding'
    BY <1>1, <1>2, <2>2, <2>4, <2>5, <2>6 DEF Padding
  <2> QED
    BY <2>3, <2>7 DEF NumberInv
<1>7. CASE ~(i < 8)
  <2>1. mem' = mem /\ pc' = "puts" /\ i' = i /\ UNCHANGED <<registers, j, newval>>
    BY <1>7 DEF Zeros, Goto
  <2>2. NumberRegs'
    BY <1>1, <1>2, <2>1 DEF NumberRegs, registers
  <2>3. Formed(mem, L)'
    BY <1>2, <1>3, <2>1 DEF Formed
  <2>4. \A k \in L..7 : mem'[call.d + k] = 48
    <3>1. i = 8 /\ 8 - 1 = 7
      BY <1>5, <1>7
    <3> QED
      BY <1>3, <2>1, <3>1
  <2>5. Signed(mem)'
    <3>1. ~Negative(call)
      BY <1>1 DEF Negative, op
    <3> QED
      BY <1>2, <3>1 DEF Signed
  <2>6. Putting'
    BY <1>1, <1>2, <2>1, <2>3, <2>4, <2>5 DEF Putting
  <2> QED
    BY <2>2, <2>6 DEF NumberInv
<1> QED
  BY <1>6, <1>7

\* What puts shows is the string in the buffer, so that it denotes the number.
LEMMA PutsStep ==
  ASSUME Base, NumberInv, op \in NumberOps, Puts, UNCHANGED <<was, call>>
  PROVE  NumberInv'
<1>1. pc = "puts" /\ Putting /\ NumberRegs /\ op \in Prints
  BY DEF NumberInv, Puts, Dividing, Reversing, Swapping, Converted, Padding, Putting, NumberOps
<1>2. /\ op' = op /\ NumberOps' = NumberOps /\ Bytes' = Bytes /\ call' = call
  BY NumberKept
<1>3. PICK L \in Nat : /\ Formed(mem, L)
                       /\ op = "%#x" => \A k \in L..7 : mem[call.d + k] = 48
  BY <1>1 DEF Putting
<1>4. pc' = "done" /\ UNCHANGED <<mem, registers, indexes>>
  BY DEF Puts, Return
<1>5. NumberRegs'
  BY <1>1, <1>2, <1>4 DEF NumberRegs, registers, indexes
<1>6. /\ Length(mem, At) = L
      /\ Canonical(String(mem, At))
      /\ Denoted(String(mem, At), Radix(call)) = Magnitude(call)
  BY <1>1, <1>3, NumberString
<1>7. /\ op = "%#x" => At = call.d + 8
      /\ Negative(call) => At = call.d + 1 /\ Magnitude(call) = Modulus - call.c /\ op = "%d"
      /\ op # "%#x" /\ ~Negative(call) => At = call.d
      /\ ~Negative(call) => Magnitude(call) = call.c
  BY <1>1, NumberFacts
<1>8. CASE op = "%#x"
  <2>1. shown' = String(mem, call.d + L)
    BY <1>6, <1>8 DEF Puts, At
  <2>2. \A k \in L..7 : mem[call.d + k] = 48
    BY <1>3, <1>8
  <2>3. Len(shown') = 8 /\ Denoted(shown', 16) = call.c
    BY <1>1, <1>3, <1>8, <2>1, <2>2, PaddedString
  <2> QED
    BY <1>2, <1>4, <1>5, <1>8, <2>3 DEF NumberInv, NumbersRight, Done
<1>9. CASE op \in {"%u", "%x"}
  <2>1. ~Negative(call)
    BY <1>9 DEF Negative, op
  <2>2. shown' = String(mem, At)
    BY <1>7, <1>9, <2>1 DEF Puts
  <2>3. Radix(call) = IF op = "%x" THEN 16 ELSE 10
    BY <1>9 DEF Radix, op
  <2>4. Canonical(shown') /\ Denoted(shown', IF op = "%x" THEN 16 ELSE 10) = call.c
    BY <1>6, <1>7, <2>1, <2>2, <2>3
  <2> QED
    BY <1>2, <1>4, <1>5, <1>9, <2>4 DEF NumberInv, NumbersRight, Done
<1>10. CASE op = "%d"
  <2>1. Radix(call) = 10
    BY <1>10 DEF Radix, op
  <2>2. Negative(call) <=> call.c >= Modulus \div 2
    BY <1>10 DEF Negative, op
  <2>3. shown' = String(mem, call.d)
    BY <1>10 DEF Puts
  <2>4. call.c \in Int /\ Modulus \div 2 \in Int
    <3>1. call.c \in 0..Modulus - 1 /\ Modulus \in Nat
      BY <1>1, NumberFacts
    <3> QED
      BY <3>1
  <2>5. CASE Negative(call)
    <3>1. ~(call.c < Modulus \div 2)
      BY <2>2, <2>4, <2>5
    <3>2. Signed(mem)
      BY <1>1 DEF Putting
    <3>3. Head(shown') = 45 /\ Tail(shown') = String(mem, At)
      BY <1>1, <1>3, <2>3, <2>5, <3>2, NegativeString
    <3>4. Canonical(Tail(shown')) /\ Denoted(Tail(shown'), 10) = Modulus - call.c
      BY <1>6, <1>7, <2>1, <2>5, <3>3
    <3> QED
      BY <1>2, <1>4, <1>5, <1>10, <3>1, <3>3, <3>4 DEF NumberInv, NumbersRight, Done
  <2>6. CASE ~Negative(call)
    <3>1. call.c < Modulus \div 2
      BY <2>2, <2>4, <2>6
    <3>2. Canonical(shown') /\ Denoted(shown', 10) = call.c
      BY <1>6, <1>7, <1>10, <2>1, <2>3, <2>6
    <3> QED
      BY <1>2, <1>4, <1>5, <1>10, <3>1, <3>2 DEF NumberInv, NumbersRight, Done
  <2> QED
    BY <2>5, <2>6
<1> QED
  BY <1>1, <1>8, <1>9, <1>10 DEF Prints

\* A step of itoa or of a number format.
LEMMA NumberStep ==
  ASSUME Base, NumberInv, op \in NumberOps, Numbers, UNCHANGED <<was, call, shown>>
  PROVE  NumberInv'
BY ItoaStep, ItoaZeroStep, ItoaDigitStep, ItoaReverseStep, NumberStrrevStep,
   NumberSwapStep, NumberReversedStep, NumberEndStep, ZerosStep DEF Numbers

-----------------------------------------------------------------------------
\* The invariant: a part for each function.
TextInv ==
  /\ Base /\ BlockInv /\ DirectInv /\ StrlenInv /\ StrcpyInv /\ StrncpyInv
  /\ CompareInv /\ StrrevInv /\ NumberInv

\* No call is two of these.
LEMMA Families ==
  /\ op \in Blocks => op \notin (Repeats \ Blocks) \cup Walks \cup NumberOps
  /\ op \in Repeats \ Blocks => op \notin Walks \cup NumberOps
  /\ op \in Walks => op \notin NumberOps
  /\ op \in Compares => op \notin {"strlen", "strcpy", "strncpy", "strrev"}
  /\ op = "none" => op \notin Repeats \cup Walks \cup NumberOps
  /\ Walks = {"strlen", "strcpy", "strncpy", "strrev"} \cup Compares
BY DEF Blocks, Repeats, Fills, Walks, Compares, NumberOps, Prints

\* A call is one of them.
LEMMA CallIs ==
  ASSUME Base, pc # "idle"
  PROVE  op \in Blocks \cup (Repeats \ Blocks) \cup Walks \cup NumberOps
<1>1. op \in Repeats \cup Walks \cup Prints \cup {"itoa"}
  BY DEF Base, Proper, op
<1> QED
  BY <1>1 DEF NumberOps

\* One family keeps the invariants of all others, which say nothing of it.
LEMMA OthersHold ==
  ASSUME op' = op
  PROVE  /\ op \notin Blocks => BlockInv'
         /\ op \notin Repeats \ Blocks => DirectInv'
         /\ op # "strlen" => StrlenInv'
         /\ op # "strcpy" => StrcpyInv'
         /\ op # "strncpy" => StrncpyInv'
         /\ op \notin Compares => CompareInv'
         /\ op # "strrev" => StrrevInv'
         /\ op \notin NumberOps => NumberInv'
<1>1. /\ op \notin Blocks => BlockInv'
      /\ op \notin Repeats \ Blocks => DirectInv'
  BY DEF BlockInv, DirectInv, Repeats, Blocks, Fills
<1>2. /\ op # "strlen" => StrlenInv'
      /\ op # "strcpy" => StrcpyInv'
      /\ op # "strncpy" => StrncpyInv'
      /\ op # "strrev" => StrrevInv'
  BY DEF StrlenInv, StrcpyInv, StrncpyInv, StrrevInv
<1>3. op \notin Compares => CompareInv'
  BY DEF CompareInv, Compares
<1>4. op \notin NumberOps => NumberInv'
  BY DEF NumberInv, NumberOps, Prints
<1> QED
  BY <1>1, <1>2, <1>3, <1>4

\* The places a call of each family can be at.
LEMMA Labels ==
  ASSUME TextInv
  PROVE  /\ op \in Blocks => pc \in {"top", "rep", "bottom", "done"}
         /\ op \in Repeats \ Blocks => pc \in {"direct", "rep", "done"}
         /\ op = "strlen" => pc \in {"strlen", "done"}
         /\ op = "strcpy" => pc \in {"strcpy", "done"}
         /\ op = "strncpy" => pc \in {"strncpy", "pad", "done"}
         /\ op \in Compares => pc \in {"compare", "done"}
         /\ op = "strrev" => pc \in {"strrev", "swap", "done"}
         /\ op \in NumberOps => pc \in {"itoa", "digits", "strrev", "swap", "number", "zeros", "puts", "done"}
<1>1. /\ op \in Blocks => pc \in {"top", "rep", "bottom", "done"}
      /\ op \in Repeats \ Blocks => pc \in {"direct", "rep", "done"}
  BY DEF TextInv, BlockInv, BlockRegs, DirectInv
<1>2. /\ op = "strlen" => pc \in {"strlen", "done"}
      /\ op = "strcpy" => pc \in {"strcpy", "done"}
      /\ op = "strncpy" => pc \in {"strncpy", "pad", "done"}
      /\ op \in Compares => pc \in {"compare", "done"}
      /\ op = "strrev" => pc \in {"strrev", "swap", "done"}
  BY DEF TextInv, StrlenInv, StrcpyInv, StrncpyInv, CompareInv, StrrevInv
<1>3. op \in NumberOps => pc \in {"itoa", "digits", "strrev", "swap", "number", "zeros", "puts", "done"}
  BY DEF TextInv, NumberInv, Dividing, Reversing, Swapping, Converted, Padding, Putting
<1> QED
  BY <1>1, <1>2, <1>3

\* The places the actions start at.
LEMMA Starts ==
  /\ Repeating => pc \in {"top", "rep", "bottom", "direct"}
  /\ Strings => pc \in {"strlen", "strcpy", "strncpy", "pad", "compare"}
  /\ Numbers => pc \in {"itoa", "digits", "strrev", "swap", "number", "zeros"}
  /\ Puts => pc = "puts"
<1>1. Repeating => pc \in {"top", "rep", "bottom", "direct"}
  BY DEF Repeating, BlockByte, BlockAligned, BlockBottom, BlockEnd, Direct, Rep, RepEnd
<1>2. Strings => pc \in {"strlen", "strcpy", "strncpy", "pad", "compare"}
  BY DEF Strings, Strlen, Strcpy, Strncpy, StrncpyPad, Strncmp
<1>3. Numbers => pc \in {"itoa", "digits", "strrev", "swap", "number", "zeros"}
  BY DEF Numbers, Itoa, ItoaZero, ItoaDigit, ItoaReverse, Strrev, StrrevSwap, StrrevEnd,
         NumberEnd, Zeros
<1>4. Puts => pc = "puts"
  BY DEF Puts
<1> QED
  BY <1>1, <1>2, <1>3, <1>4

\* No step of a call goes back to its beginning, and the flag is 0 or 1.
LEMMA Runs ==
  ASSUME df \in {0, 1}, Repeating \/ Strings \/ Numbers \/ Puts
  PROVE  pc' # "idle" /\ df' \in {0, 1}
<1>1. CASE Repeating
  BY <1>1 DEF Repeating, BlockByte, BlockAligned, BlockBottom, BlockEnd, Direct, Rep, RepEnd,
              Goto, Return, cld
<1>2. CASE Strings
  BY <1>2 DEF Strings, Strlen, Strcpy, Strncpy, StrncpyPad, Strncmp, Goto, Return
<1>3. CASE Numbers
  BY <1>3 DEF Numbers, Itoa, ItoaZero, ItoaDigit, ItoaReverse, Strrev, StrrevSwap, StrrevEnd,
              NumberEnd, Zeros, Goto, Return
<1>4. CASE Puts
  BY <1>4 DEF Puts, Return
<1> QED
  BY <1>1, <1>2, <1>3, <1>4

\* Each step of a call keeps the part of the invariant about its function.
LEMMA ContinuesStep ==
  ASSUME TextInv, Continues
  PROVE  TextInv'
<1>1. /\ Repeating \/ Strings \/ Numbers \/ Puts
      /\ UNCHANGED <<was, call>>
      /\ ~Puts => UNCHANGED shown
  BY DEF Continues
<1>2. op' = op
  BY <1>1 DEF op
<1>3. pc # "idle"
  BY <1>1, Starts
<1>4. Base
  BY DEF TextInv
<1>5. Base'
  <2>1. pc' # "idle" /\ df' \in {0, 1}
    BY <1>1, <1>4, Runs DEF Base
  <2>2. Proper(call, was)'
    BY <1>1, <1>3, <1>4 DEF Base
  <2> QED
    BY <1>1, <1>4, <2>1, <2>2 DEF Base
<1>6. CASE op \in Blocks
  <2>1. Repeating /\ UNCHANGED <<was, call, shown>>
    BY <1>1, <1>6, Labels, Starts
  <2>2. BlockInv'
    BY <1>4, <1>6, <2>1, BlockStep DEF TextInv
  <2> QED
    BY <1>2, <1>5, <1>6, <2>2, Families, OthersHold DEF TextInv
<1>7. CASE op \in Repeats \ Blocks
  <2>1. Repeating /\ UNCHANGED <<was, call, shown>>
    BY <1>1, <1>7, Labels, Starts
  <2>2. DirectInv'
    BY <1>4, <1>7, <2>1, DirectStep DEF TextInv
  <2> QED
    BY <1>2, <1>5, <1>7, <2>2, Families, OthersHold DEF TextInv
<1>8. CASE op = "strlen"
  <2>1. Strings /\ UNCHANGED <<was, call, shown>>
    BY <1>1, <1>8, Labels, Starts
  <2>2. StrlenInv'
    BY <1>4, <1>8, <2>1, StrlenStep DEF TextInv
  <2> QED
    BY <1>2, <1>5, <1>8, <2>2, Families, OthersHold DEF TextInv
<1>9. CASE op = "strcpy"
  <2>1. Strings /\ UNCHANGED <<was, call, shown>>
    BY <1>1, <1>9, Labels, Starts
  <2>2. StrcpyInv'
    BY <1>4, <1>9, <2>1, StrcpyStep DEF TextInv
  <2> QED
    BY <1>2, <1>5, <1>9, <2>2, Families, OthersHold DEF TextInv
<1>10. CASE op = "strncpy"
  <2>1. Strings /\ UNCHANGED <<was, call, shown>>
    BY <1>1, <1>10, Labels, Starts
  <2>2. StrncpyInv'
    BY <1>4, <1>10, <2>1, StrncpyStep DEF TextInv
  <2> QED
    BY <1>2, <1>5, <1>10, <2>2, Families, OthersHold DEF TextInv
<1>11. CASE op \in Compares
  <2>1. Strings /\ UNCHANGED <<was, call, shown>>
    BY <1>1, <1>11, Labels, Starts
  <2>2. CompareInv'
    BY <1>4, <1>11, <2>1, CompareStep DEF TextInv
  <2> QED
    BY <1>2, <1>5, <1>11, <2>2, Families, OthersHold DEF TextInv
<1>12. CASE op = "strrev"
  <2>1. Numbers /\ UNCHANGED <<was, call, shown>>
    BY <1>1, <1>12, Labels, Starts
  <2>2. StrrevInv'
    BY <1>4, <1>12, <2>1, StrrevStep DEF TextInv
  <2> QED
    BY <1>2, <1>5, <1>12, <2>2, Families, OthersHold DEF TextInv
<1>13. CASE op \in NumberOps
  <2>1. (Numbers /\ UNCHANGED shown) \/ Puts
    BY <1>1, <1>13, Labels, Starts
  <2>2. NumberInv
    BY DEF TextInv
  <2>3. NumberInv'
    BY <1>1, <1>4, <1>13, <2>1, <2>2, NumberStep, PutsStep
  <2> QED
    BY <1>2, <1>5, <1>13, <2>3, Families, OthersHold DEF TextInv
<1> QED
  BY <1>3, <1>4, <1>6, <1>7, <1>8, <1>9, <1>10, <1>11, <1>12, <1>13, CallIs, Families

\* Nothing is to be written yet.
LEMMA NothingFilled ==
  ASSUME NEW d \in Int, NEW e \in Int, e < d, mem = was, was \in [Bytes -> 0..255]
  PROVE  Filled(d, e)
<1>1. Size \in Nat /\ Bytes = 0..Size - 1
  BY TextAssumption DEF Bytes
<1>2. \A b \in Bytes : ~(b \in d..e)
  BY <1>1
<1> QED
  BY <1>2 DEF Filled

\* Where the functions begin.
LEMMA EntryIs ==
  ASSUME NEW o
  PROVE  /\ o \in Blocks => Entry(o) = "top"
         /\ o \in Repeats \ Blocks => Entry(o) = "direct"
         /\ o \in Compares => Entry(o) = "compare"
         /\ o \in NumberOps => Entry(o) = "itoa"
         /\ o \in {"strlen", "strcpy", "strncpy", "strrev"} => Entry(o) = o
<1>1. o \in Blocks => Entry(o) = "top"
  BY DEF Entry, Blocks, Repeats, Fills, Compares, Prints
<1>2. o \in Repeats \ Blocks => Entry(o) = "direct"
  BY DEF Entry, Blocks, Repeats, Fills, Compares, Prints
<1>3. o \in Compares => Entry(o) = "compare"
  BY DEF Entry, Blocks, Repeats, Fills, Compares, Prints
<1>4. o \in NumberOps => Entry(o) = "itoa"
  BY DEF Entry, Blocks, Repeats, Fills, Compares, Prints, NumberOps
<1>5. o \in {"strlen", "strcpy", "strncpy", "strrev"} => Entry(o) = o
  BY DEF Entry, Blocks, Repeats, Fills, Compares, Prints
<1> QED
  BY <1>1, <1>2, <1>3, <1>4, <1>5

\* A call that begins.
Beginning ==
  /\ Base /\ pc # "idle" /\ mem = was /\ Calm /\ pc = Entry(op)
  /\ edi = call.d /\ esi = call.s /\ ecx = call.n /\ edx = 0

\* The part of the invariant about a function holds where it begins.
LEMMA Begun == Beginning => TextInv
<1> SUFFICES ASSUME Beginning PROVE TextInv
  OBVIOUS
<1> USE DEF Beginning
<1>e. /\ op \in Blocks => pc = "top"
      /\ op \in Repeats \ Blocks => pc = "direct"
      /\ op \in Compares => pc = "compare"
      /\ op \in NumberOps => pc = "itoa"
      /\ op \in {"strlen", "strcpy", "strncpy", "strrev"} => pc = op
  BY EntryIs
<1>1. /\ Size \in Nat /\ Bytes = 0..Size - 1
      /\ call.d \in Nat /\ call.s \in Nat /\ call.n \in Nat
  <2>1. Size \in Nat /\ Bytes = 0..Size - 1
    BY TextAssumption DEF Bytes
  <2>2. call.d \in Bytes /\ call.s \in Bytes /\ call.n \in 0..Size
    BY MovesProper
  <2> QED
    BY <2>1, <2>2
<1>2. was \in [Bytes -> 0..255]
  BY WasTyped
<1>3. Filled(call.d, call.d - 1) /\ i = 0 /\ j = 0 /\ newval = 0
  <2>1. PICK d \in Int, e \in Int : d = call.d /\ e = call.d - 1 /\ e < d
    BY <1>1
  <2>2. Filled(d, e)
    BY <1>2, <2>1, NothingFilled
  <2> QED
    BY <2>1, <2>2 DEF Calm
<1>4. BlockInv
  <2> SUFFICES ASSUME op \in Blocks PROVE BlockInv
    BY DEF BlockInv
  <2>1. pc = "top"
    BY <1>e
  <2>2. BlockRegs
    BY <1>1, <2>1 DEF BlockRegs
  <2> QED
    BY <1>3, <2>2 DEF BlockInv
<1>5. DirectInv
  <2> SUFFICES ASSUME op \in Repeats \ Blocks PROVE DirectInv
    BY DEF DirectInv
  <2>1. pc = "direct"
    BY <1>e
  <2> QED
    BY <1>1, <2>1 DEF DirectInv
<1>6. WalkRegs
  BY <1>3 DEF WalkRegs
<1>7. op \in {"strlen", "strcpy", "strncpy", "strrev"} => pc = op
  BY <1>e
<1>8. op \in {"strlen", "strcpy", "strncpy", "strrev"} => StringLength \in Nat
  <2> SUFFICES ASSUME op \in {"strlen", "strcpy", "strncpy", "strrev"}
               PROVE  StringLength \in Nat
    OBVIOUS
  <2>1. op \in Walks \ Compares
    BY DEF Walks, Compares
  <2> QED
    BY <2>1, StringFacts
<1>9. StrlenInv
  BY <1>3, <1>6, <1>7, <1>8 DEF StrlenInv
<1>10. ASSUME NEW k \in Int, k = 0 PROVE Filled(call.d, call.d + k - 1)
  <2>1. call.d + k - 1 = call.d - 1
    BY <1>1, <1>10
  <2> QED
    BY <1>3, <2>1
<1>11. i \in Int /\ Filled(call.d, call.d + i - 1)
  BY <1>3, <1>10
<1>12. StrcpyInv
  BY <1>3, <1>6, <1>7, <1>8, <1>11 DEF StrcpyInv
<1>13. StrncpyInv
  BY <1>1, <1>3, <1>6, <1>7, <1>8, <1>11 DEF StrncpyInv
<1>14. CompareInv
  <2> SUFFICES ASSUME op \in Compares PROVE CompareInv
    BY DEF CompareInv
  <2>1. pc = "compare"
    BY <1>e
  <2>2. \A k \in 0..i - 1 : was[call.d + k] = was[call.s + k] /\ was[call.d + k] # 0
    BY <1>3
  <2> QED
    BY <1>1, <1>3, <1>6, <2>1, <2>2 DEF CompareInv
<1>15. StrrevInv
  BY <1>3, <1>6, <1>7 DEF StrrevInv
<1>16. NumberInv
  <2> SUFFICES ASSUME op \in NumberOps PROVE NumberInv
    BY DEF NumberInv
  <2>1. pc = "itoa"
    BY <1>e
  <2>2. NumberRegs
    BY <1>1, <1>2, <1>3, TextAssumption DEF NumberRegs
  <2> QED
    BY <2>1, <2>2 DEF NumberInv
<1> QED
  BY <1>4, <1>5, <1>9, <1>12, <1>13, <1>14, <1>15, <1>16 DEF TextInv

\* The same of the next state.
LEMMA BegunNext == Beginning' => TextInv'
BY Begun, PTL

\* The beginning of a call.
LEMMA BeginStep ==
  ASSUME TextInv, NEW c \in Calls, Begin(c)
  PROVE  TextInv'
<1>1. /\ Base /\ pc = "idle" /\ mem = was /\ Calm
      /\ edx = 0 /\ was \in Contents /\ df \in {0, 1}
  BY DEF TextInv, Base, Begin
<1>2. /\ call' = c /\ pc' = Entry(c.op) /\ edi' = c.d /\ esi' = c.s /\ ecx' = c.n
      /\ UNCHANGED <<mem, df, was, edx, i, j, newval>>
  BY DEF Begin, indexes
<1>3. Proper(c, was)
  BY <1>1, CallsProper
<1>4. pc' # "idle"
  <2>1. c.op \in Repeats \cup Walks \cup Prints \cup {"itoa"}
    BY <1>3 DEF Proper
  <2> QED
    BY <1>2, <2>1 DEF Entry, Blocks, Repeats, Fills, Compares, Prints, Walks
<1>5. Base'
  BY <1>1, <1>2, <1>3, <1>4 DEF Base
<1>6. Beginning'
  <2>1. Calm' /\ mem' = was' /\ pc' = Entry(op') /\ edi' = call'.d /\ esi' = call'.s
        /\ ecx' = call'.n /\ edx' = 0
    BY <1>1, <1>2 DEF Calm, op
  <2> QED
    BY <1>4, <1>5, <2>1 DEF Beginning
<1> QED
  BY <1>6, BegunNext

\* No step at all.
LEMMA StutterStep ==
  ASSUME TextInv, UNCHANGED vars
  PROVE  TextInv'
<1>1. /\ UNCHANGED <<mem, df, was, call, pc, edi, esi, ecx, edx, i, j, newval, result, shown>>
      /\ op' = op /\ Bytes' = Bytes /\ WalkRegs' = WalkRegs /\ StringLength' = StringLength
      /\ \A b : Want(b)' = Want(b)
  BY DEF vars, registers, indexes, op, Bytes, WalkRegs, StringLength, Want
<1>2. \A lo, hi : Filled(lo, hi)' = Filled(lo, hi)
  BY <1>1 DEF Filled
<1>3. Calm' = Calm /\ Base'
  BY <1>1 DEF TextInv, Base, Calm
<1>4. BlockInv'
  <2>1. BlockRegs' = BlockRegs
    BY <1>1, <1>3 DEF BlockRegs
  <2>2. Filled(call.d, edi - 1)' = Filled(call.d, edi - 1)
    BY <1>1 DEF Filled
  <2> QED
    BY <1>1, <2>1, <2>2 DEF TextInv, BlockInv
<1>5. DirectInv'
  <2>1. Unit' = Unit /\ Backwards' = Backwards
    BY <1>1 DEF Unit, Backwards
  <2>2. Filled(call.d, edi - 1)' = Filled(call.d, edi - 1)
    BY <1>1 DEF Filled
  <2>3. Filled(edi + 1, call.d + call.n - 1)' = Filled(edi + 1, call.d + call.n - 1)
    BY <1>1 DEF Filled
  <2>4. Forward' = Forward /\ Backward' = Backward
    BY <1>1, <2>1, <2>2, <2>3 DEF Forward, Backward
  <2> QED
    BY <1>1, <1>3, <2>1, <2>4 DEF TextInv, DirectInv
<1>6. StrlenInv'
  BY <1>1 DEF TextInv, StrlenInv
<1>7. StrcpyInv'
  <2>1. Filled(call.d, call.d + i - 1)' = Filled(call.d, call.d + i - 1)
    BY <1>1 DEF Filled
  <2>2. Filled(call.d, call.d + StringLength)' = Filled(call.d, call.d + StringLength)
    BY <1>1 DEF Filled
  <2> QED
    BY <1>1, <2>1, <2>2 DEF TextInv, StrcpyInv
<1>8. StrncpyInv'
  <2>1. Filled(call.d, call.d + i - 1)' = Filled(call.d, call.d + i - 1)
    BY <1>1 DEF Filled
  <2> QED
    BY <1>1, <2>1 DEF TextInv, StrncpyInv
<1>9. CompareInv'
  <2>1. \A b : Value(b)' = Value(b)
    BY <1>1 DEF Value
  <2> QED
    BY <1>1, <2>1 DEF TextInv, CompareInv
<1>10. StrrevInv'
  <2>1. Mirror(was, call.s, i, j)' = Mirror(was, call.s, i, j)
    BY <1>1 DEF Mirror
  <2> QED
    BY <1>1, <2>1 DEF TextInv, StrrevInv
<1>11. NumberInv'
  <2>1. /\ NumberOps' = NumberOps /\ At' = At /\ \A k : Q(k)' = Q(k) /\ Ch(k)' = Ch(k)
        /\ \A L : Digits(L)' = Digits(L)
        /\ Negative(call)' = Negative(call)
    BY <1>1, NumberKept
  <2>2. /\ Signed(mem)' = Signed(mem)
        /\ \A m, L : Raw(m, L)' = Raw(m, L) /\ Formed(m, L)' = Formed(m, L)
    BY <1>1, <2>1 DEF Signed, Raw, Formed
  <2>3. NumberRegs' = NumberRegs
    BY <1>1 DEF NumberRegs
  <2>4. Dividing' = Dividing
    BY <1>1, <2>1, <2>2 DEF Dividing
  <2>5. Reversing => Reversing'
    BY <1>1, <2>1, <2>2 DEF Reversing, Raw
  <2>6. Swapping => Swapping'
    <3> SUFFICES ASSUME Swapping PROVE Swapping'
      OBVIOUS
    <3>1. PICK m : Raw(m, i + j + 1) /\ mem = Mirror(m, At, i, j)
      BY DEF Swapping
    <3>2. Raw(m, i + j + 1)'
      BY <1>1, <2>1, <3>1 DEF Raw
    <3>3. mem' = Mirror(m, At, i, j)'
      BY <1>1, <2>1, <3>1 DEF Mirror
    <3>4. pc' = "swap" /\ Signed(mem)' /\ i' <= j' + 1
      BY <1>1, <2>2 DEF Swapping
    <3> QED
      BY <3>2, <3>3, <3>4 DEF Swapping
  <2>7. \A L : Formed(mem, L) => Formed(mem, L)'
    BY <1>1, <2>1 DEF Formed
  <2>8. Converted => Converted'
    BY <1>1, <2>2, <2>7 DEF Converted
  <2>9. Padding => Padding'
    BY <1>1, <2>7 DEF Padding
  <2>10. Putting => Putting'
    BY <1>1, <2>2, <2>7 DEF Putting
  <2>11. pc = "done" /\ NumbersRight => NumbersRight'
    BY <1>1 DEF NumbersRight, Done
  <2>12. pc = "itoa" /\ Calm => pc' = "itoa" /\ Calm'
    BY <1>1, <1>3
  <2> QED
    BY <1>1, <2>1, <2>3, <2>4, <2>5, <2>6, <2>8, <2>9, <2>10, <2>11, <2>12 DEF TextInv, NumberInv
<1> QED
  BY <1>3, <1>4, <1>5, <1>6, <1>7, <1>8, <1>9, <1>10, <1>11 DEF TextInv

\* Before the call.
LEMMA InitText ==
  ASSUME Init
  PROVE  TextInv
<1>1. op = "none"
  BY DEF Init, NoCall, op
<1>2. Base
  BY DEF Init, Base, Calm
<1>3. /\ op \notin Blocks /\ op \notin Repeats \ Blocks /\ op \notin Compares
      /\ op \notin NumberOps
      /\ op \notin {"strlen", "strcpy", "strncpy", "strrev"}
  BY <1>1 DEF Blocks, Repeats, Fills, Compares, NumberOps, Prints
<1> QED
  BY <1>2, <1>3 DEF TextInv, BlockInv, DirectInv, StrlenInv, StrcpyInv, StrncpyInv,
                    CompareInv, StrrevInv, NumberInv

\* The invariant holds in every state of every call.
THEOREM TextInvariant == Spec => []TextInv
<1>1. Init => TextInv
  BY InitText
<1>2. TextInv /\ [Next]_vars => TextInv'
  <2> SUFFICES ASSUME TextInv, [Next]_vars PROVE TextInv'
    OBVIOUS
  <2>1. CASE Continues
    BY <2>1, ContinuesStep
  <2>2. CASE \E c \in Calls : Begin(c)
    BY <2>2, BeginStep
  <2>3. CASE UNCHANGED vars
    BY <2>3, StutterStep
  <2> QED
    BY <2>1, <2>2, <2>3 DEF Next
<1> QED
  BY <1>1, <1>2, PTL DEF Spec

-----------------------------------------------------------------------------
\* What is to be written are bytes.
LEMMA WantTyped ==
  ASSUME Base, pc # "idle", op \in Repeats \cup {"strcpy", "strncpy"},
         NEW b \in Nat, call.d <= b,
         op \in {"memcpy", "memmove"} => b < call.d + call.n,
         op = "strcpy" => b <= call.d + StringLength
  PROVE  Want(b) \in 0..255
<1>1. /\ Size \in Nat /\ Bytes = 0..Size - 1
      /\ call.d \in Nat /\ call.s \in Nat /\ call.n \in Nat /\ call.c \in Nat
      /\ op \in {"memcpy", "memmove"} => call.s + call.n <= Size
  <2>1. Size \in Nat /\ Bytes = 0..Size - 1 /\ Modulus \in Nat
    BY TextAssumption DEF Bytes
  <2>2. /\ call.d \in Bytes /\ call.s \in Bytes /\ call.n \in 0..Size
        /\ call.c \in 0..Modulus - 1
        /\ op \in {"memcpy", "memmove"} => call.s + call.n <= Size
    BY MovesProper
  <2> QED
    BY <2>1, <2>2
<1>2. was \in [Bytes -> 0..255]
  BY WasTyped
<1>3. PICK k \in Nat : k = b - call.d
  BY <1>1
<1>4. CASE op = "memset"
  <2>1. PICK x \in Nat : x = call.c
    BY <1>1
  <2>2. x % 256 \in 0..255
    OBVIOUS
  <2> QED
    BY <1>4, <2>1, <2>2 DEF Want
<1>5. ASSUME NEW t \in 1..4 PROVE (call.c \div Place[t]) % 256 \in 0..255
  <2>1. Place[t] \in Nat \ {0}
    BY DEF Place
  <2>2. PICK x \in Nat, r \in Nat \ {0} : x = call.c /\ r = Place[t]
    BY <1>1, <2>1
  <2>3. x \div r \in Nat
    BY Division
  <2>4. (x \div r) % 256 \in 0..255
    BY <2>3
  <2> QED
    BY <2>2, <2>4
<1>6. CASE op = "memset_word"
  <2>1. PICK t \in 1..4 : t = (k % 2) + 1
    OBVIOUS
  <2>2. Want(b) = (call.c \div Place[t]) % 256
    BY <1>3, <1>6, <2>1 DEF Want
  <2> QED
    BY <1>5, <2>2
<1>7. CASE op = "memset_dword"
  <2>1. PICK t \in 1..4 : t = (k % 4) + 1
    OBVIOUS
  <2>2. Want(b) = (call.c \div Place[t]) % 256
    BY <1>3, <1>7, <2>1 DEF Want
  <2> QED
    BY <1>5, <2>2
<1>8. CASE op \in {"memcpy", "memmove"}
  <2>1. call.s + k \in Bytes
    BY <1>1, <1>3, <1>8
  <2>2. Want(b) = was[call.s + k]
    BY <1>3, <1>8 DEF Want
  <2> QED
    BY <1>2, <2>1, <2>2
<1>9. CASE op \in {"strcpy", "strncpy"}
  <2>1. StringLength \in Nat /\ call.s + StringLength < Size
    BY <1>9, StringFacts DEF Walks, Compares
  <2>2. k <= StringLength => was[call.s + k] \in 0..255
    <3>1. k <= StringLength => call.s + k \in Bytes
      BY <1>1, <2>1
    <3> QED
      BY <1>2, <3>1
  <2>3. CASE op = "strcpy"
    <3>1. k <= StringLength /\ Want(b) = was[call.s + k]
      BY <1>1, <1>3, <2>1, <2>3 DEF Want
    <3> QED
      BY <2>2, <3>1
  <2>4. CASE op = "strncpy"
    <3>1. Want(b) = IF k < StringLength THEN was[call.s + k] ELSE 0
      BY <1>3, <2>4 DEF Want, StringLength
    <3> QED
      BY <2>1, <2>2, <3>1
  <2> QED
    BY <1>9, <2>3, <2>4
<1> QED
  BY <1>4, <1>6, <1>7, <1>8, <1>9 DEF Repeats, Fills

\* Memory filled with what is wanted is bytes.
LEMMA FilledTyped ==
  ASSUME Base, pc # "idle", op \in Repeats \cup {"strcpy", "strncpy"},
         NEW lo \in Nat, NEW hi \in Int, Filled(lo, hi), call.d <= lo,
         op \in {"memcpy", "memmove"} => hi < call.d + call.n,
         op = "strcpy" => hi <= call.d + StringLength
  PROVE  mem \in [Bytes -> 0..255]
<1>1. Size \in Nat /\ Bytes = 0..Size - 1 /\ was \in [Bytes -> 0..255]
  BY TextAssumption, WasTyped DEF Bytes
<1>2. /\ call.d \in Nat /\ call.n \in Nat
      /\ op = "strcpy" => StringLength \in Nat
  <2>1. call.d \in Bytes /\ call.n \in 0..Size
    BY MovesProper
  <2>2. op = "strcpy" => StringLength \in Nat
    BY StringFacts DEF Walks, Compares
  <2> QED
    BY <1>1, <2>1, <2>2
<1>3. ASSUME NEW b \in Bytes, b \in lo..hi PROVE Want(b) \in 0..255
  <2>1. /\ b \in Nat /\ call.d <= b
        /\ op \in {"memcpy", "memmove"} => b < call.d + call.n
        /\ op = "strcpy" => b <= call.d + StringLength
    BY <1>1, <1>2, <1>3
  <2> QED
    BY <2>1, WantTyped
<1>4. \A b \in Bytes : (IF b \in lo..hi THEN Want(b) ELSE was[b]) \in 0..255
  BY <1>1, <1>3
<1> QED
  BY <1>4 DEF Filled

\* The registers of the assembly functions, in a call that uses none else.
LEMMA BlockTyped ==
  ASSUME Base, BlockInv, op \in Blocks
  PROVE  TypeOK
<1>1. BlockRegs /\ Filled(call.d, edi - 1) /\ pc # "idle"
  BY DEF BlockInv, BlockRegs
<1>2. /\ Size \in Nat /\ Modulus \in Nat \ {0}
      /\ call.d \in Nat /\ call.s \in Nat /\ call.n \in Nat
      /\ call.s < Size /\ call.d < Size /\ call.d + call.n <= Size
      /\ op = "memcpy" => call.s + call.n <= Size
  <2>1. Size \in Nat /\ Bytes = 0..Size - 1 /\ Modulus \in Nat \ {0}
    BY TextAssumption DEF Bytes
  <2>2. /\ call.d \in Bytes /\ call.s \in Bytes /\ call.n \in 0..Size
        /\ call.d + call.n <= Size
        /\ op = "memcpy" => call.s + call.n <= Size
    BY <1>1, MovesProper
  <2> QED
    BY <2>1, <2>2
<1>3. /\ edi \in call.d..call.d + call.n /\ ecx \in 0..call.n /\ edx \in 0..call.n
      /\ esi = IF op = "memcpy" THEN call.s + (edi - call.d) ELSE call.s
      /\ i = 0 /\ j = 0 /\ newval = 0
  BY <1>1 DEF BlockRegs, Calm
<1>4. edi \in -1..Size /\ ecx \in -1..Size /\ edx \in -1..Size
  BY <1>2, <1>3
<1>5. esi \in -1..Size
  BY <1>2, <1>3
<1>6. mem \in [Bytes -> 0..255]
  <2>1. PICK lo \in Nat, hi \in Int : lo = call.d /\ hi = edi - 1
    BY <1>2, <1>3
  <2>2. Filled(lo, hi) /\ call.d <= lo /\ hi < call.d + call.n
    BY <1>1, <1>2, <1>3, <2>1
  <2>3. op \in Repeats /\ op # "strcpy"
    BY DEF Repeats, Blocks, Fills
  <2> QED
    BY <1>1, <2>2, <2>3, FilledTyped
<1> QED
  BY <1>2, <1>3, <1>4, <1>5, <1>6 DEF TypeOK, Base

\* Products by the size of a unit.
LEMMA Scaled ==
  ASSUME NEW u \in {1, 2, 4}, NEW m \in Nat, NEW n \in Nat, m <= n
  PROVE  u * m \in Nat /\ u * n \in Nat /\ u * m <= u * n /\ m <= u * n /\ n <= u * n
<1>1. CASE u = 1
  BY <1>1
<1>2. CASE u = 2
  BY <1>2
<1>3. CASE u = 4
  BY <1>3
<1> QED
  BY <1>1, <1>2, <1>3

\* The registers of a string instruction.
LEMMA DirectTyped ==
  ASSUME Base, DirectInv, op \in Repeats \ Blocks
  PROVE  TypeOK
<1>1. /\ Size \in Nat /\ Bytes = 0..Size - 1
      /\ call.d \in Nat /\ call.s \in Nat /\ call.n \in Nat /\ Unit \in {1, 2, 4}
      /\ call.d < Size /\ call.s < Size
      /\ ecx \in 0..call.n
      /\ call.d + Unit * call.n <= Size
      /\ op = "memmove" => call.s + call.n <= Size
  BY DirectFacts
<1>2. Calm /\ edx = 0 /\ pc # "idle" /\ Modulus \in Nat \ {0}
  BY TextAssumption DEF DirectInv
<1>3. /\ op = "memmove" => Unit = 1
      /\ op \in Repeats /\ op # "strcpy" /\ op # "memcpy"
  BY DirectOps DEF Repeats, Blocks, Fills
<1>4. CASE pc = "direct" /\ edi = call.d /\ esi = call.s /\ ecx = call.n /\ mem = was
  <2>1. edi \in -1..Size /\ esi \in -1..Size
    BY <1>1, <1>4
  <2>2. mem \in [Bytes -> 0..255]
    BY <1>4, WasTyped
  <2>3. ecx <= Size
    BY <1>1
  <2> QED
    BY <1>1, <1>2, <2>1, <2>2, <2>3 DEF TypeOK, Base, Calm
<1>5. CASE Forward
  <2>1. PICK m \in Nat : m = call.n - ecx /\ m <= call.n
    BY <1>1
  <2>2. /\ Unit * m \in Nat /\ Unit * call.n \in Nat
        /\ Unit * m <= Unit * call.n /\ m <= Unit * call.n /\ call.n <= Unit * call.n
    <3>1. PICK u \in {1, 2, 4}, n \in Nat : u = Unit /\ n = call.n /\ m <= n
      BY <1>1, <2>1
    <3>2. u * m \in Nat /\ u * n \in Nat /\ u * m <= u * n /\ m <= u * n /\ n <= u * n
      BY <3>1, Scaled
    <3> QED
      BY <3>1, <3>2
  <2>3. edi = call.d + Unit * m
    BY <1>5, <2>1 DEF Forward
  <2>4. edi \in -1..Size /\ ecx \in -1..Size
    <3>1. PICK u \in Nat, v \in Nat : u = Unit * m /\ v = Unit * call.n
      BY <1>1, <2>2
    <3>2. /\ edi = call.d + u /\ u <= v /\ call.n <= v /\ call.d + v <= Size
          /\ Size \in Nat /\ call.d \in Nat /\ call.n \in Nat /\ ecx \in 0..call.n
      BY <1>1, <2>2, <2>3, <3>1
    <3> QED
      BY <3>2
  <2>5. esi \in -1..Size
    <3>1. esi = IF op = "memmove" THEN call.s + m ELSE call.s
      BY <1>5, <2>1 DEF Forward
    <3>2. /\ Size \in Nat /\ call.s \in Nat /\ call.n \in Nat /\ call.s < Size
          /\ op = "memmove" => call.s + call.n <= Size
      BY <1>1
    <3> QED
      BY <2>1, <3>1, <3>2
  <2>6. mem \in [Bytes -> 0..255]
    <3>1. PICK lo \in Nat, hi \in Int : lo = call.d /\ hi = edi - 1
      BY <1>1, <2>4
    <3>2. Filled(lo, hi) /\ call.d <= lo
      BY <1>1, <1>5, <3>1 DEF Forward
    <3>3. op = "memmove" => hi < call.d + call.n
      <4>1. op = "memmove" => edi = call.d + m
        <5>1. 1 * m = m
          BY <2>1
        <5> QED
          BY <1>3, <2>3, <5>1
      <4>2. call.d \in Nat /\ call.n \in Nat
        BY <1>1
      <4> QED
        BY <2>1, <3>1, <4>1, <4>2
    <3> QED
      BY <1>2, <1>3, <3>2, <3>3, FilledTyped
  <2> QED
    BY <1>1, <1>2, <2>4, <2>5, <2>6 DEF TypeOK, Base, Calm
<1>6. CASE Backward /\ op = "memmove"
  <2>1. Unit = 1 /\ 1 * call.n = call.n
    BY <1>1, <1>3, <1>6
  <2>2. edi = call.d + ecx - 1 /\ esi = call.s + ecx - 1
    BY <1>6 DEF Backward
  <2>i. /\ Size \in Nat /\ call.d \in Nat /\ call.s \in Nat /\ call.n \in Nat
        /\ ecx \in 0..call.n /\ call.d + call.n <= Size /\ call.s + call.n <= Size
    BY <1>1, <1>6, <2>1
  <2>3. edi \in -1..Size /\ ecx \in -1..Size /\ esi \in -1..Size
    BY <2>2, <2>i
  <2>4. mem \in [Bytes -> 0..255]
    <3>1. PICK lo \in Nat, hi \in Int : lo = edi + 1 /\ hi = call.d + call.n - 1
      BY <2>2, <2>i
    <3>2. call.d <= lo /\ hi < call.d + call.n
      BY <2>2, <2>i, <3>1
    <3>3. Filled(lo, hi)
      BY <1>6, <3>1 DEF Backward
    <3> QED
      BY <1>2, <1>3, <3>2, <3>3, FilledTyped
  <2> QED
    BY <1>1, <1>2, <2>3, <2>4 DEF TypeOK, Base, Calm
<1> QED
  BY <1>4, <1>5, <1>6 DEF DirectInv

\* The indexes of the string functions.
LEMMA WalksTyped ==
  ASSUME TextInv, op \in Walks
  PROVE  TypeOK
<1>1. Base /\ pc # "idle"
  BY Labels DEF TextInv, Walks
<1>2. /\ Size \in Nat /\ Bytes = 0..Size - 1 /\ Modulus \in Nat \ {0}
      /\ call.d \in 0..Size - 1 /\ call.s \in 0..Size - 1 /\ call.n \in 0..Size
      /\ op = "strncpy" => call.d + call.n <= Size
      /\ was \in [Bytes -> 0..255]
  <2>1. Size \in Nat /\ Bytes = 0..Size - 1 /\ Modulus \in Nat \ {0}
    BY TextAssumption DEF Bytes
  <2>2. /\ call.d \in Bytes /\ call.s \in Bytes /\ call.n \in 0..Size
        /\ op = "strncpy" => call.d + call.n <= Size
    BY <1>1, MovesProper
  <2> QED
    BY <1>1, <2>1, <2>2, WasTyped
<1>3. ASSUME WalkRegs, i \in -1..Size, j \in -1..Size, mem \in [Bytes -> 0..255]
      PROVE  TypeOK
  <2>1. {edi, esi, ecx, edx} \subseteq -1..Size
    BY <1>2, <1>3 DEF WalkRegs
  <2> QED
    BY <1>1, <1>2, <1>3, <2>1 DEF TypeOK, Base, WalkRegs
<1>4. op \notin Compares => /\ StringLength \in Nat /\ call.s + StringLength < Size
  BY <1>1, StringFacts
<1>5. CASE op = "strlen"
  <2>1. op \notin Compares
    BY <1>5 DEF Compares
  <2>2. WalkRegs /\ mem = was /\ j = 0 /\ i \in 0..StringLength
    BY <1>5 DEF TextInv, StrlenInv
  <2>3. i \in -1..Size /\ j \in -1..Size
    BY <1>2, <1>4, <2>1, <2>2
  <2> QED
    BY <1>2, <1>3, <2>2, <2>3
<1>6. CASE op = "strcpy"
  <2>1. op \notin Compares
    BY <1>6 DEF Compares
  <2>2. /\ WalkRegs /\ j = 0 /\ i \in 0..StringLength
        /\ Filled(call.d, call.d + i - 1) \/ Filled(call.d, call.d + StringLength)
    BY <1>6 DEF TextInv, StrcpyInv
  <2>3. i \in -1..Size /\ j \in -1..Size
    BY <1>2, <1>4, <2>1, <2>2
  <2>4. PICK lo \in Nat, hi \in Int : /\ Filled(lo, hi) /\ lo = call.d
                                      /\ hi <= call.d + StringLength
    <3>1. call.d \in Nat /\ call.d + i - 1 \in Int /\ call.d + StringLength \in Int
          /\ call.d + i - 1 <= call.d + StringLength
      BY <1>2, <1>4, <2>1, <2>2
    <3> QED
      BY <2>2, <3>1
  <2>5. mem \in [Bytes -> 0..255]
    <3>1. call.d <= lo /\ op # "memcpy" /\ op # "memmove"
      BY <1>2, <1>6, <2>4
    <3> QED
      BY <1>1, <1>6, <2>4, <3>1, FilledTyped
  <2> QED
    BY <1>3, <2>2, <2>3, <2>5
<1>7. CASE op = "strncpy"
  <2>1. op \notin Compares
    BY <1>7 DEF Compares
  <2>2. WalkRegs /\ j = 0 /\ i \in 0..call.n /\ Filled(call.d, call.d + i - 1)
    BY <1>7 DEF TextInv, StrncpyInv
  <2>3. i \in -1..Size /\ j \in -1..Size
    BY <1>2, <2>2
  <2>4. PICK lo \in Nat, hi \in Int : Filled(lo, hi) /\ lo = call.d
    <3>1. call.d \in Nat /\ call.d + i - 1 \in Int
      BY <1>2, <2>2
    <3> QED
      BY <2>2, <3>1
  <2>5. mem \in [Bytes -> 0..255]
    <3>1. call.d <= lo /\ op # "memcpy" /\ op # "memmove" /\ op # "strcpy"
      BY <1>2, <1>7, <2>4
    <3> QED
      BY <1>1, <1>7, <2>4, <3>1, FilledTyped
  <2> QED
    BY <1>3, <2>2, <2>3, <2>5
<1>8. CASE op \in Compares
  <2>1. WalkRegs /\ mem = was /\ j = 0 /\ i \in 0..Size
    BY <1>8 DEF TextInv, CompareInv
  <2>2. i \in -1..Size /\ j \in -1..Size
    BY <1>2, <2>1
  <2> QED
    BY <1>2, <1>3, <2>1, <2>2
<1>9. CASE op = "strrev"
  <2>1. op \notin Compares
    BY <1>9 DEF Compares
  <2>2. WalkRegs
    BY <1>9 DEF TextInv, StrrevInv
  <2>3. CASE mem = was /\ i = 0 /\ j = 0
    <3>1. i \in -1..Size /\ j \in -1..Size
      BY <1>2, <2>3
    <3> QED
      BY <1>2, <1>3, <2>2, <2>3, <3>1
  <2>4. CASE /\ i \in Nat /\ j \in -1..Size /\ i + j = StringLength - 1 /\ i <= j + 1
             /\ mem = Mirror(was, call.s, i, j)
    <3>1. i \in -1..Size /\ call.s + i + j < Size
      BY <1>2, <1>4, <2>1, <2>4
    <3>2. ASSUME NEW b \in Bytes,
                 b \in call.s..call.s + i - 1 \/ b \in call.s + j + 1..call.s + i + j
          PROVE  2 * call.s + i + j - b \in Bytes
      <4>1. /\ Size \in Nat /\ call.s \in Nat /\ b \in 0..Size - 1
            /\ i \in Nat /\ j \in Int /\ j >= -1 /\ i <= j + 1 /\ call.s + i + j < Size
        BY <1>2, <2>4, <3>1
      <4>2. 2 * call.s + i + j - b \in 0..Size - 1
        <5>1. CASE b \in call.s..call.s + i - 1
          BY <4>1, <5>1
        <5>2. CASE b \in call.s + j + 1..call.s + i + j
          BY <4>1, <5>2
        <5> QED
          BY <3>2, <5>1, <5>2
      <4> QED
        BY <1>2, <4>2
    <3>3. mem \in [Bytes -> 0..255]
      <4>1. ASSUME NEW b \in Bytes
            PROVE  (IF b \in call.s..call.s + i - 1 \/ b \in call.s + j + 1..call.s + i + j
                    THEN was[2 * call.s + i + j - b] ELSE was[b]) \in 0..255
        BY <1>2, <3>2
      <4>2. mem = Mirror(was, call.s, i, j)
        BY <2>4
      <4> QED
        BY <4>1, <4>2 DEF Mirror
    <3> QED
      BY <1>3, <2>2, <2>4, <3>1, <3>3
  <2> QED
    BY <1>9, <2>3, <2>4 DEF TextInv, StrrevInv
<1> QED
  BY <1>5, <1>6, <1>7, <1>8, <1>9 DEF Walks

\* The indexes of the number functions.
LEMMA NumbersTyped ==
  ASSUME TextInv, op \in NumberOps
  PROVE  TypeOK
<1>1. Base /\ pc # "idle" /\ NumberRegs
  BY Labels DEF TextInv, NumberInv
<1>2. Size \in Nat /\ call.d \in Bytes /\ call.s \in Bytes /\ call.n \in 0..Size
      /\ Bytes = 0..Size - 1
  BY <1>1, MovesProper, TextAssumption DEF Bytes
<1>3. {edi, esi, ecx, edx} \subseteq -1..Size /\ i \in -1..Size
  BY <1>1, <1>2 DEF NumberRegs
<1> QED
  BY <1>1, <1>3 DEF TypeOK, Base, NumberRegs

\* Before the call.
LEMMA IdleTyped ==
  ASSUME TextInv, pc = "idle"
  PROVE  TypeOK
<1>1. /\ mem = was /\ i = 0 /\ j = 0 /\ newval = 0 /\ df \in {0, 1}
      /\ edi = 0 /\ esi = 0 /\ ecx = 0 /\ edx = 0
      /\ was \in [Bytes -> 0..255]
  BY WasTyped DEF TextInv, Base, Calm
<1>2. Size \in Nat /\ Modulus \in Nat \ {0}
  BY TextAssumption
<1> QED
  BY <1>1, <1>2 DEF TypeOK

\* The invariant gives the type invariant.
LEMMA TextInvTyped == TextInv => TypeOK
<1> SUFFICES ASSUME TextInv PROVE TypeOK
  OBVIOUS
<1>1. CASE pc = "idle"
  BY <1>1, IdleTyped
<1>2. CASE pc # "idle"
  <2>1. Base
    BY DEF TextInv
  <2> QED
    BY <1>2, <2>1, CallIs, BlockTyped, DirectTyped, WalksTyped, NumbersTyped DEF TextInv
<1> QED
  BY <1>1, <1>2

-----------------------------------------------------------------------------
\* A region filled with what was wanted is one that holds the string w.
LEMMA FilledWrote ==
  ASSUME NEW a \in Nat, NEW n \in Nat, NEW w, Len(w) = n, Filled(a, a + n - 1),
         \A k \in 0..n - 1 : w[k + 1] = Want(a + k)
  PROVE  Wrote(a, w)
<1>1. Size \in Nat /\ Bytes = 0..Size - 1
  BY TextAssumption DEF Bytes
<1>2. ASSUME NEW b \in Bytes, b \in a..a + n - 1 PROVE w[b - a + 1] = Want(b)
  <2>1. PICK k \in 0..n - 1 : k = b - a /\ b = a + k
    BY <1>1, <1>2
  <2> QED
    BY <2>1
<1> QED
  BY <1>1, <1>2 DEF Filled, Wrote

\* At the end the whole region is filled.
LEMMA BlocksWrote ==
  ASSUME TextInv, pc = "done", op \in Repeats
  PROVE  /\ op \in {"memset", "memcpy", "memmove"} => Filled(call.d, call.d + call.n - 1)
         /\ op = "memset_word" => Filled(call.d, call.d + 2 * call.n - 1)
         /\ op = "memset_dword" => Filled(call.d, call.d + 4 * call.n - 1)
<1>1. CASE op \in Blocks
  <2>1. Filled(call.d, edi - 1) /\ edi = call.d + call.n
    BY <1>1 DEF TextInv, BlockInv, BlockRegs
  <2>2. Filled(call.d, call.d + call.n - 1)
    <3>1. call.d \in Nat /\ call.n \in Nat
      BY <1>1, CallNumbers DEF TextInv
    <3>2. edi - 1 = call.d + call.n - 1
      BY <2>1, <3>1
    <3> QED
      BY <2>1, <3>2
  <2>3. op # "memset_word" /\ op # "memset_dword"
    BY <1>1 DEF Blocks
  <2> QED
    BY <2>2, <2>3
<1>2. CASE op \in Repeats \ Blocks
  <2>1. /\ call.d \in Nat /\ call.s \in Nat /\ call.n \in Nat /\ Unit \in {1, 2, 4}
    BY <1>2, DirectFacts DEF TextInv
  <2>2. ecx = 0 /\ IF op = "memmove" /\ Backwards THEN Backward ELSE Forward
    BY <1>2 DEF TextInv, DirectInv
  <2>3. CASE op = "memmove" /\ Backwards
    <3>1. edi = call.d - 1 /\ Filled(edi + 1, call.d + call.n - 1)
      BY <2>1, <2>2, <2>3 DEF Backward
    <3>2. edi + 1 = call.d
      BY <2>1, <3>1
    <3> QED
      BY <2>3, <3>1, <3>2
  <2>4. CASE ~(op = "memmove" /\ Backwards)
    <3>1. edi = call.d + Unit * (call.n - 0) /\ Filled(call.d, edi - 1)
      BY <2>2, <2>4 DEF Forward
    <3>2. call.n - 0 = call.n /\ 1 * call.n = call.n
      BY <2>1
    <3>3. Filled(call.d, call.d + Unit * call.n - 1)
      <4>1. PICK v \in Int : v = Unit * call.n
        BY <2>1
      <4>2. edi = call.d + v
        BY <3>1, <3>2, <4>1
      <4>3. edi - 1 = call.d + v - 1
        BY <2>1, <4>2
      <4> QED
        BY <3>1, <4>1, <4>3
    <3>4. CASE op = "memmove"
      <4>1. Unit * call.n = call.n
        BY <1>2, <3>2, <3>4, DirectOps
      <4>2. Filled(call.d, call.d + call.n - 1)
        BY <3>3, <4>1
      <4> QED
        BY <3>4, <4>2
    <3>5. CASE op = "memset_word"
      BY <1>2, <3>3, <3>5, DirectOps
    <3>6. CASE op = "memset_dword"
      BY <1>2, <3>3, <3>6, DirectOps
    <3> QED
      BY <1>2, <3>4, <3>5, <3>6, DirectOps
  <2> QED
    BY <2>3, <2>4
<1> QED
  BY <1>1, <1>2

\* The invariant gives BytesRight.
LEMMA TextInvBytes == TextInv => BytesRight
<1> SUFFICES ASSUME TextInv PROVE BytesRight
  OBVIOUS
<1>1. CASE Done({"memset"})
  <2>1. op = "memset" /\ pc = "done" /\ op \in Repeats
    BY <1>1 DEF Done, Repeats, Fills
  <2>2. call.d \in Nat /\ call.n \in Nat
    BY <2>1, CallNumbers DEF TextInv
  <2>3. PICK a \in Nat, n \in Nat : a = call.d /\ n = call.n
    BY <2>2
  <2>4. Filled(a, a + n - 1)
    BY <2>1, <2>3, BlocksWrote
  <2> DEFINE w == [k \in 1..n |-> call.c % 256]
  <2>5. Len(w) = n
    OBVIOUS
  <2>6. \A k \in 0..n - 1 : w[k + 1] = Want(a + k)
    BY <2>1 DEF Want
  <2>7. Wrote(a, w)
    <3> HIDE DEF w
    <3> QED
      BY <2>4, <2>5, <2>6, FilledWrote
  <2> QED
    BY <2>1, <2>3, <2>7 DEF BytesRight, Done
<1>2. CASE Done({"memset_word"})
  <2>1. op = "memset_word" /\ pc = "done" /\ op \in Repeats
    BY <1>2 DEF Done, Repeats, Fills
  <2>2. call.d \in Nat /\ call.n \in Nat
    BY <2>1, CallNumbers DEF TextInv
  <2>3. PICK a \in Nat, n \in Nat : a = call.d /\ n = 2 * call.n
    BY <2>2
  <2>4. Filled(a, a + n - 1)
    BY <2>1, <2>3, BlocksWrote
  <2> DEFINE w == [k \in 1..n |-> (call.c \div Place[((k - 1) % 2) + 1]) % 256]
  <2>5. Len(w) = n
    OBVIOUS
  <2>6. ASSUME NEW k \in 0..n - 1 PROVE w[k + 1] = Want(a + k)
    <3>1. (k + 1) - 1 = k /\ (a + k) - call.d = k /\ k + 1 \in 1..n
      BY <2>3
    <3> QED
      BY <2>1, <3>1 DEF Want
  <2>7. Wrote(a, w)
    <3> HIDE DEF w
    <3> QED
      BY <2>4, <2>5, <2>6, FilledWrote
  <2> QED
    BY <2>1, <2>3, <2>7 DEF BytesRight, Done
<1>3. CASE Done({"memset_dword"})
  <2>1. op = "memset_dword" /\ pc = "done" /\ op \in Repeats
    BY <1>3 DEF Done, Repeats, Fills
  <2>2. call.d \in Nat /\ call.n \in Nat
    BY <2>1, CallNumbers DEF TextInv
  <2>3. PICK a \in Nat, n \in Nat : a = call.d /\ n = 4 * call.n
    BY <2>2
  <2>4. Filled(a, a + n - 1)
    BY <2>1, <2>3, BlocksWrote
  <2> DEFINE w == [k \in 1..n |-> (call.c \div Place[((k - 1) % 4) + 1]) % 256]
  <2>5. Len(w) = n
    OBVIOUS
  <2>6. ASSUME NEW k \in 0..n - 1 PROVE w[k + 1] = Want(a + k)
    <3>1. (k + 1) - 1 = k /\ (a + k) - call.d = k /\ k + 1 \in 1..n
      BY <2>3
    <3> QED
      BY <2>1, <3>1 DEF Want
  <2>7. Wrote(a, w)
    <3> HIDE DEF w
    <3> QED
      BY <2>4, <2>5, <2>6, FilledWrote
  <2> QED
    BY <2>1, <2>3, <2>7 DEF BytesRight, Done
<1>4. CASE Done({"memcpy", "memmove"})
  <2>1. op \in {"memcpy", "memmove"} /\ pc = "done" /\ op \in Repeats
    BY <1>4 DEF Done, Repeats, Fills
  <2>2. call.d \in Nat /\ call.n \in Nat /\ call.s \in Nat
    BY <2>1, CallNumbers DEF TextInv
  <2>3. PICK a \in Nat, n \in Nat : a = call.d /\ n = call.n
    BY <2>2
  <2>4. Filled(a, a + n - 1)
    BY <2>1, <2>3, BlocksWrote
  <2> DEFINE w == [k \in 1..n |-> was[call.s + k - 1]]
  <2>5. Len(w) = n
    OBVIOUS
  <2>6. ASSUME NEW k \in 0..n - 1 PROVE w[k + 1] = Want(a + k)
    <3>1. call.s + (k + 1) - 1 = call.s + k /\ (a + k) - call.d = k /\ k + 1 \in 1..n
      BY <2>2, <2>3
    <3> QED
      BY <2>1, <3>1 DEF Want
  <2>7. Wrote(a, w)
    <3> HIDE DEF w
    <3> QED
      BY <2>4, <2>5, <2>6, FilledWrote
  <2> QED
    BY <2>1, <2>3, <2>7 DEF BytesRight, Done
<1> QED
  BY <1>1, <1>2, <1>3, <1>4 DEF BytesRight

-----------------------------------------------------------------------------
\* At the end of strcpy: the string and its Nul.
LEMMA StrcpyRight ==
  ASSUME TextInv, pc = "done", op = "strcpy"
  PROVE  Wrote(call.d, Append(String(was, call.s), 0))
<1>1. Base /\ op \in Walks \ Compares
  BY DEF TextInv, Walks, Compares
<1>2. /\ call.d \in Nat /\ call.s \in Nat /\ StringLength \in Nat
      /\ was[call.s + StringLength] = 0
  BY <1>1, StringFacts
<1>3. PICK a \in Nat, s \in Nat, l \in Nat, n \in Nat :
        a = call.d /\ s = call.s /\ l = StringLength /\ n = l + 1
  BY <1>2
<1>4. Filled(a, a + n - 1)
  <2>1. a + n - 1 = call.d + StringLength
    BY <1>3
  <2> QED
    BY <1>3, <2>1 DEF TextInv, StrcpyInv
<1>5. String(was, s) = [k \in 1..l |-> was[s + k - 1]] /\ Len(String(was, s)) = l
  <2>1. Length(was, s) = l
    BY <1>3 DEF StringLength
  <2> QED
    BY <2>1, StringIs
<1> DEFINE w == Append(String(was, s), 0)
<1>6. Len(w) = n /\ (\A k \in 1..l : w[k] = was[s + k - 1]) /\ w[n] = 0
  <2>1. PICK str : str = String(was, s)
    OBVIOUS
  <2>2. str = [k \in 1..l |-> was[s + k - 1]] /\ Len(str) = l
    BY <1>5, <2>1
  <2>3. Append(str, 0) = [k \in 1..l + 1 |-> IF k \in 1..l THEN str[k] ELSE 0]
    BY <2>2
  <2>4. /\ Len(Append(str, 0)) = l + 1
        /\ \A k \in 1..l : Append(str, 0)[k] = was[s + k - 1]
        /\ Append(str, 0)[l + 1] = 0
    BY <2>2, <2>3
  <2> QED
    BY <1>3, <2>1, <2>4
<1>7. ASSUME NEW k \in 0..n - 1 PROVE w[k + 1] = Want(a + k)
  <2>1. Want(a + k) = was[s + k]
    <3>1. (a + k) - call.d = k
      BY <1>3
    <3> QED
      BY <1>3, <3>1 DEF Want
  <2>2. CASE k < l
    <3>1. k + 1 \in 1..l /\ s + (k + 1) - 1 = s + k
      BY <1>3, <2>2
    <3> QED
      BY <1>6, <2>1, <3>1
  <2>3. CASE k = l
    BY <1>2, <1>3, <1>6, <2>1, <2>3
  <2>4. k < l \/ k = l
    BY <1>3
  <2> QED
    BY <2>2, <2>3, <2>4
<1> HIDE DEF w
<1>8. Wrote(a, w)
  BY <1>4, <1>6, <1>7, FilledWrote
<1> QED
  BY <1>3, <1>8 DEF w

\* At the end of strncpy.
LEMMA StrncpyRight ==
  ASSUME TextInv, pc = "done", op = "strncpy"
  PROVE  Wrote(call.d, [k \in 1..call.n |->
                          IF k <= Length(was, call.s) THEN was[call.s + k - 1] ELSE 0])
<1>1. Base /\ op \in Walks \ Compares
  BY DEF TextInv, Walks, Compares
<1>2. call.d \in Nat /\ call.s \in Nat /\ call.n \in Nat /\ StringLength \in Nat
  BY <1>1, StringFacts
<1>3. PICK a \in Nat, n \in Nat, l \in Nat : a = call.d /\ n = call.n /\ l = StringLength
  BY <1>2
<1>4. Filled(a, a + n - 1)
  BY <1>3 DEF TextInv, StrncpyInv
<1> DEFINE w == [k \in 1..n |-> IF k <= l THEN was[call.s + k - 1] ELSE 0]
<1>5. Len(w) = n
  OBVIOUS
<1>6. ASSUME NEW k \in 0..n - 1 PROVE w[k + 1] = Want(a + k)
  <2>1. /\ (a + k) - call.d = k /\ k + 1 \in 1..n /\ call.s + (k + 1) - 1 = call.s + k
        /\ k + 1 <= l <=> k < l
    BY <1>2, <1>3
  <2>2. Want(a + k) = IF k < l THEN was[call.s + k] ELSE 0
    BY <1>3, <2>1 DEF Want, StringLength
  <2>3. w[k + 1] = IF k < l THEN was[call.s + k] ELSE 0
    BY <2>1
  <2> QED
    BY <2>2, <2>3
<1>7. Wrote(a, w)
  <2> HIDE DEF w
  <2> QED
    BY <1>4, <1>5, <1>6, FilledWrote
<1> QED
  BY <1>3, <1>7 DEF StringLength

\* At the end of strrev: a string mirrored about its middle is reversed.
LEMMA StrrevRight ==
  ASSUME TextInv, pc = "done", op = "strrev"
  PROVE  Wrote(call.s, Reverse(String(was, call.s)))
<1>1. Base /\ op \in Walks \ Compares
  BY DEF TextInv, Walks, Compares
<1>2. /\ call.s \in Nat /\ StringLength \in Nat /\ call.s + StringLength < Size
      /\ Size \in Nat /\ Bytes = 0..Size - 1
  BY <1>1, StringFacts
<1>3. PICK a \in Nat, l \in Nat : a = call.s /\ l = StringLength
  BY <1>2
<1>4. /\ i \in Nat /\ j \in Int /\ i >= j /\ i + j = l - 1 /\ i <= j + 1
      /\ mem = Mirror(was, a, i, j)
  <2>1. /\ i \in Nat /\ j \in -1..Size /\ i >= j /\ i + j = StringLength - 1 /\ i <= j + 1
        /\ mem = Mirror(was, call.s, i, j)
    BY DEF TextInv, StrrevInv
  <2> QED
    BY <1>2, <1>3, <2>1
<1>5. /\ String(was, a) = [k \in 1..l |-> was[a + k - 1]]
      /\ Len(String(was, a)) = l
  <2>1. Length(was, a) = l
    BY <1>3 DEF StringLength
  <2> QED
    BY <2>1, StringIs
<1> DEFINE w == Reverse(String(was, a))
<1>6. w = [k \in 1..l |-> String(was, a)[(l - k) + 1]] /\ Len(w) = l
  <2>1. w = [k \in 1..l |-> String(was, a)[(l - k) + 1]]
    BY <1>5 DEF Reverse
  <2> QED
    BY <2>1
<1>7. ASSUME NEW b \in Bytes
      PROVE  mem[b] = IF b \in a..a + l - 1 THEN w[b - a + 1] ELSE was[b]
  <2>1. CASE b \in a..a + l - 1
    <3>1. PICK k \in 1..l : k = b - a + 1 /\ b = a + k - 1
      BY <1>2, <1>7, <2>1
    <3>2. w[k] = was[a + l - k]
      <4>1. (l - k) + 1 \in 1..l /\ a + ((l - k) + 1) - 1 = a + l - k
        BY <3>1
      <4> QED
        BY <1>5, <1>6, <4>1
    <3>3. mem[b] = was[a + l - k]
      <4>1. CASE b \in a..a + i - 1 \/ b \in a + j + 1..a + i + j
        <5>1. 2 * a + i + j - b = a + l - k
          BY <1>4, <3>1
        <5> QED
          BY <1>4, <4>1, <5>1 DEF Mirror
      <4>2. CASE ~(b \in a..a + i - 1 \/ b \in a + j + 1..a + i + j)
        <5>1. b = a + l - k
          BY <1>4, <2>1, <3>1, <4>2
        <5> QED
          BY <1>4, <4>2, <5>1 DEF Mirror
      <4> QED
        BY <4>1, <4>2
    <3> QED
      BY <2>1, <3>1, <3>2, <3>3
  <2>2. CASE b \notin a..a + l - 1
    <3>1. ~(b \in a..a + i - 1 \/ b \in a + j + 1..a + i + j)
      BY <1>2, <1>4, <2>2
    <3> QED
      BY <1>4, <2>2, <3>1 DEF Mirror
  <2> QED
    BY <2>1, <2>2
<1>8. Wrote(a, w)
  <2> HIDE DEF w
  <2> QED
    BY <1>6, <1>7 DEF Wrote
<1> QED
  BY <1>3, <1>8

\* The bytes two strings first differ at.
LEMMA OrderIs ==
  ASSUME NEW a, NEW b, NEW n, NEW k \in 0..n - 1, n \in Int,
         was[a + k] # was[b + k],
         \A m \in 0..k - 1 : was[a + m] = was[b + m] /\ was[a + m] # 0
  PROVE  Order(a, b, n) = Sign(Value(was[a + k]) - Value(was[b + k]))
<1> DEFINE P(x) == /\ was[a + x] # was[b + x]
                   /\ \A m \in 0..x - 1 : was[a + m] = was[b + m] /\ was[a + m] # 0
           differ == {x \in 0..n - 1 : P(x)}
<1>1. k \in differ
  OBVIOUS
<1>2. \A x \in differ : x = k
  <2> SUFFICES ASSUME NEW x \in 0..n - 1, P(x), x # k PROVE FALSE
    OBVIOUS
  <2>1. CASE x < k
    BY <2>1
  <2>2. CASE k < x
    BY <2>2
  <2> QED
    BY <2>1, <2>2
<1>3. Order(a, b, n) = IF differ = {} THEN 0
                       ELSE LET x == CHOOSE x \in differ : TRUE
                            IN  Sign(Value(was[a + x]) - Value(was[b + x]))
  BY DEF Order
<1> HIDE DEF differ
<1>4. (CHOOSE x \in differ : TRUE) = k
  BY <1>1, <1>2
<1> QED
  BY <1>1, <1>3, <1>4

\* Two strings that do not differ.
LEMMA OrderZero ==
  ASSUME NEW a, NEW b, NEW n \in Int,
         ~ \E k \in 0..n - 1 : /\ was[a + k] # was[b + k]
                               /\ \A m \in 0..k - 1 : was[a + m] = was[b + m] /\ was[a + m] # 0
  PROVE  Order(a, b, n) = 0
BY DEF Order

\* At the end of a comparison: where both strings end the order is 0 as well.
LEMMA CompareRight ==
  ASSUME TextInv, pc = "done", op \in Compares
  PROVE  /\ mem = was
         /\ Sign(result) = Order(call.d, call.s,
              IF op = "ece391_strcmp" THEN Size - call.s ELSE call.n)
<1>1. Base
  BY DEF TextInv
<1>2. /\ Size \in Nat /\ call.d \in 0..Size - 1 /\ call.s \in 0..Size - 1 /\ call.n \in Nat
      /\ Readable(call, was, call.s)
  BY <1>1, CompareFacts
<1>3. /\ mem = was /\ i \in 0..Size
      /\ op # "ece391_strcmp" => i <= call.n
      /\ \A k \in 0..i - 1 : was[call.d + k] = was[call.s + k] /\ was[call.d + k] # 0
  BY DEF TextInv, CompareInv
<1>4. PICK n \in Int : n = IF op = "ece391_strcmp" THEN Size - call.s ELSE call.n
  BY <1>2
<1>5. CASE op # "ece391_strcmp" /\ i = call.n /\ result = 0
  <2>1. Order(call.d, call.s, n) = 0
    BY <1>3, <1>4, <1>5, OrderZero
  <2>2. Sign(result) = 0
    BY <1>5 DEF Sign
  <2> QED
    BY <1>3, <1>4, <2>1, <2>2
<1>6. CASE /\ op # "ece391_strcmp" => i < call.n
           /\ was[call.d + i] # was[call.s + i] \/ was[call.d + i] = 0
           /\ result = Value(was[call.d + i]) - Value(was[call.s + i])
  <2>1. \A k \in 0..i - 1 : was[call.s + k] # 0
    BY <1>3
  <2>2. call.s + i < Size
    <3>1. call.s \in Nat /\ call.s < Size /\ i \in Nat
      BY <1>2, <1>3
    <3> QED
      BY <1>2, <1>6, <2>1, <3>1, CompareInside
  <2>3. i \in 0..n - 1
    BY <1>2, <1>3, <1>4, <1>6, <2>2
  <2>4. CASE was[call.d + i] # was[call.s + i]
    <3>1. PICK k \in 0..n - 1 : k = i
      BY <2>3
    <3>2. Order(call.d, call.s, n) = Sign(Value(was[call.d + k]) - Value(was[call.s + k]))
      BY <1>3, <2>4, <3>1, OrderIs
    <3> QED
      BY <1>3, <1>4, <1>6, <3>1, <3>2
  <2>5. CASE was[call.d + i] = was[call.s + i]
    <3>1. ASSUME NEW k \in 0..n - 1, was[call.d + k] # was[call.s + k],
                 \A m \in 0..k - 1 : was[call.d + m] = was[call.s + m] /\ was[call.d + m] # 0
          PROVE  FALSE
      <4>1. CASE k < i
        BY <1>3, <3>1, <4>1
      <4>2. CASE k = i
        BY <2>5, <3>1, <4>2
      <4>3. CASE i < k
        <5>1. i \in 0..k - 1
          BY <1>3, <4>3
        <5> QED
          BY <1>6, <2>5, <3>1, <5>1
      <4> QED
        BY <1>3, <4>1, <4>2, <4>3
    <3>2. Order(call.d, call.s, n) = 0
      BY <3>1, OrderZero
    <3>3. result = 0
      <4>1. Base /\ call.d + i \in Bytes
        <5>1. \A k \in 0..i - 1 : was[call.d + k] # 0
          BY <1>3
        <5>2. call.d \in Nat /\ call.d < Size /\ i \in Nat /\ Readable(call, was, call.d)
          BY <1>1, <1>2, <1>3, CompareFacts
        <5>3. call.d + i < Size
          BY <1>2, <1>6, <5>1, <5>2, CompareInside
        <5> QED
          BY <1>1, <1>2, <1>3, <5>2, <5>3 DEF Bytes
      <4>2. was[call.d + i] \in 0..255
        BY <4>1, WasTyped
      <4>3. Value(was[call.d + i]) \in Int
        BY <4>2 DEF Value
      <4> QED
        BY <1>6, <2>5, <4>3
    <3>4. Sign(result) = 0
      BY <3>3 DEF Sign
    <3> QED
      BY <1>3, <1>4, <3>2, <3>4
  <2> QED
    BY <2>4, <2>5
<1> QED
  BY <1>5, <1>6 DEF TextInv, CompareInv

\* The invariant gives StringsRight.
LEMMA TextInvStrings == TextInv => StringsRight
<1> SUFFICES ASSUME TextInv PROVE StringsRight
  OBVIOUS
<1>1. Done({"strlen"}) => result = Length(was, call.s) /\ mem = was
  BY DEF Done, TextInv, StrlenInv, StringLength
<1>2. Done({"strcpy"}) => Wrote(call.d, Append(String(was, call.s), 0))
  BY StrcpyRight DEF Done
<1>3. Done({"strncpy"}) =>
        Wrote(call.d, [k \in 1..call.n |->
          IF k <= Length(was, call.s) THEN was[call.s + k - 1] ELSE 0])
  BY StrncpyRight DEF Done
<1>4. Done(Compares) =>
        /\ mem = was
        /\ Sign(result) = Order(call.d, call.s,
             IF op = "ece391_strcmp" THEN Size - call.s ELSE call.n)
  BY CompareRight DEF Done
<1>5. Done({"strrev"}) => Wrote(call.s, Reverse(String(was, call.s)))
  BY StrrevRight DEF Done
<1> QED
  BY <1>1, <1>2, <1>3, <1>4, <1>5 DEF StringsRight

\* The invariant gives NumbersRight.
LEMMA TextInvNumbers == TextInv => NumbersRight
<1> SUFFICES ASSUME TextInv PROVE NumbersRight
  OBVIOUS
<1>1. CASE pc = "done" /\ op \in NumberOps
  BY <1>1 DEF TextInv, NumberInv, Dividing, Reversing, Swapping, Converted, Padding, Putting
<1>2. CASE ~(pc = "done" /\ op \in NumberOps)
  BY <1>2 DEF NumbersRight, Done, NumberOps, Prints
<1> QED
  BY <1>1, <1>2

-----------------------------------------------------------------------------
\* In every call no register and no index leaves the memory, and what is written
\* are bytes: the loops of memset, memcpy, strncpy, itoa and printf end in time,
\* also those that test their bound after the step.
THEOREM TextTyped == Spec => []TypeOK
BY TextInvariant, TextInvTyped, PTL

\* memset, memset_word, memset_dword, memcpy and memmove write exactly the bytes
\* they are to, on every alignment and for every length, memmove also where the
\* regions overlap, and whatever direction flag they find.
THEOREM BytesWritten == Spec => []BytesRight
BY TextInvariant, TextInvBytes, PTL

\* strlen, strcpy, strncpy, strrev and the comparisons of the kernel and of the
\* programs' library compute what they promise, for strings of every length;
\* strcpy and strncpy also where the source overlaps the destination from above.
THEOREM StringsComputed == Spec => []StringsRight
BY TextInvariant, TextInvStrings, PTL

\* What itoa leaves and what printf shows denotes the number, for every number of
\* every width and every radix: what the divisions give, in reverse, is its
\* digits, without leading zeros but those of %#x; for %d with its sign, the least
\* number included.
THEOREM NumbersPrinted == Spec => []NumbersRight
BY TextInvariant, TextInvNumbers, PTL
=============================================================================
