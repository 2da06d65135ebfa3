-------------------------------- MODULE Text --------------------------------
(***************************************************************************)
(* The byte, string and number functions of lib.c, and those of the        *)
(* programs' library that differ from them, on a memory of a few bytes:    *)
(* one step per byte, or per machine word where the code moves words.      *)
(*                                                                         *)
(* A behaviour is one call.  The direction flag is what the code before it *)
(* left, which memmove does not care about.  Callers keep to Proper.       *)
(***************************************************************************)
EXTENDS Integers, Sequences, SequencesExt

CONSTANTS
  Contents,   \* what the memory may hold before the call
  Size,       \* the bytes of the memory
  Modulus,    \* how many values a uint32_t has
  Calls       \* the calls: records [op, d, s, n, c], unused fields 0

ASSUME TextAssumption ==
  /\ Size \in Nat \ {0}
  /\ Modulus \in Nat \ {0} /\ Modulus % 2 = 0
  /\ Contents \subseteq [0..Size - 1 -> 0..255]

Fills    == {"memset", "memset_word", "memset_dword"}
Blocks   == {"memset", "memcpy"}        \* bytes, then words, then bytes
Repeats  == Fills \cup {"memcpy", "memmove"}
Compares == {"strncmp", "ece391_strncmp", "ece391_strcmp"}
Prints   == {"%u", "%d", "%x", "%#x"}

\* The functions written in C that go through strings.
Walks    == {"strlen", "strcpy", "strncpy", "strrev"} \cup Compares

VARIABLES
  mem, df,
  was,                   \* history: the memory before the call
  call,                  \* the call, its op "none" before it
  pc,
  edi, esi, ecx, edx,    \* the registers of the assembly functions
  i, j,                  \* the indexes of the C functions, beg and end
  newval,
  result,                \* what the call returned
  shown                  \* the string printf gave to puts

registers == <<edi, esi, ecx, edx>>
indexes   == <<i, j, newval>>
vars == <<mem, df, was, call, pc, registers, indexes, result, shown>>

NoCall == [op |-> "none", d |-> 0, s |-> 0, n |-> 0, c |-> 0]

op == call.op
Bytes == 0..Size - 1

Init ==
  /\ mem \in Contents /\ was = mem /\ df \in {0, 1}
  /\ call = NoCall /\ pc = "idle"
  /\ edi = 0 /\ esi = 0 /\ ecx = 0 /\ edx = 0
  /\ i = 0 /\ j = 0 /\ newval = 0
  /\ result = 0 /\ shown = <<>>

\* The end of a call and what it returns.
Return(value) == pc' = "done" /\ result' = value

Goto(label) == pc' = label /\ UNCHANGED result

\* Memory with the bytes w from address a on.
Written(a, w) == [b \in Bytes |-> IF b \in a..a + Len(w) - 1 THEN w[b - a + 1] ELSE mem[b]]

-----------------------------------------------------------------------------
\* memset, memset_word, memset_dword, memcpy and memmove.

\* The bytes one repetition of the string instruction moves.
Unit == CASE op = "memmove" -> 1
          [] op = "memset_word" -> 2
          [] OTHER -> 4

\* What a byte of a number counts for, from the lowest up.
Place == <<1, 256, 65536, 16777216>>

\* The k bytes that go to edi.
Datum(k) ==
  [b \in 1..k |-> CASE op = "memset" -> call.c % 256
                    [] op \in Fills \ {"memset"} -> (call.c \div Place[b]) % 256
                    [] OTHER -> mem[esi + b - 1]]

Advance(k) ==
  /\ edi' = edi + k
  /\ esi' = IF op \in Fills THEN esi ELSE esi + k

\* Mutant: memmove always starts from the front.
ForwardsOnly == FALSE

\* memmove starts from the back.
Backwards == call.s < call.d

\* Mutant: the direction flag is left as it was found.
KeepDirection == UNCHANGED df

cld == df' = 0

BlockByte ==
  /\ pc = "top" /\ ecx # 0 /\ edi % 4 # 0
  /\ mem' = Written(edi, Datum(1))
  /\ Advance(1) /\ ecx' = ecx - 1
  /\ Goto("top")
  /\ UNCHANGED <<df, edx, indexes>>

BlockAligned ==
  /\ pc = "top" /\ ecx # 0 /\ edi % 4 = 0
  /\ edx' = ecx % 4 /\ ecx' = ecx \div 4
  /\ cld
  /\ Goto("rep")
  /\ UNCHANGED <<mem, edi, esi, indexes>>

BlockEnd ==
  /\ \/ pc = "top" /\ ecx = 0
     \/ pc = "bottom" /\ edx = 0
  /\ Return(call.d)
  /\ UNCHANGED <<mem, df, registers, indexes>>

\* The three functions that are a string instruction.
Direct ==
  /\ pc = "direct"
  /\ IF op = "memmove" /\ Backwards
       THEN esi' = esi + ecx - 1 /\ edi' = edi + ecx - 1 /\ df' = 1
       ELSE cld /\ UNCHANGED <<esi, edi>>
  /\ Goto("rep")
  /\ UNCHANGED <<mem, ecx, edx, indexes>>

\* rep stosw, stosl, movsb, movsl.
Rep ==
  /\ pc = "rep" /\ ecx # 0
  /\ mem' = Written(edi, Datum(Unit))
  /\ Advance(IF df = 0 THEN Unit ELSE -Unit)
  /\ ecx' = ecx - 1
  /\ UNCHANGED <<df, pc, edx, indexes, result>>

RepEnd ==
  /\ pc = "rep" /\ ecx = 0
  /\ IF op \in Blocks THEN Goto("bottom") ELSE Return(call.d)
  /\ UNCHANGED <<mem, df, registers, indexes>>

BlockBottom ==
  /\ pc = "bottom" /\ edx # 0
  /\ mem' = Written(edi, Datum(1))
  /\ Advance(1) /\ edx' = edx - 1
  /\ Goto("bottom")
  /\ UNCHANGED <<df, ecx, indexes>>

Repeating ==
  \/ BlockByte \/ BlockAligned \/ BlockBottom \/ BlockEnd
  \/ Direct \/ Rep \/ RepEnd

-----------------------------------------------------------------------------
\* The functions written in C.
IsNul(a) == mem[a] = 0

Strlen ==
  /\ pc = "strlen"
  /\ IF IsNul(call.s + i) THEN Return(i) /\ UNCHANGED i
                          ELSE i' = i + 1 /\ Goto("strlen")
  /\ UNCHANGED <<mem, df, registers, j, newval>>

Strcpy ==
  /\ pc = "strcpy"
  /\ mem' = Written(call.d + i, <<mem[call.s + i]>>)
  /\ IF IsNul(call.s + i) THEN Return(call.d) /\ UNCHANGED i
                          ELSE i' = i + 1 /\ Goto("strcpy")
  /\ UNCHANGED <<df, registers, j, newval>>

\* Mutant: the loops run once more than n says.
AtMostLate(n) == i <= n

\* The bound of the loops of strncpy.
AtMost(n) == i < n

Strncpy ==
  /\ pc = "strncpy"
  /\ IF ~IsNul(call.s + i) /\ AtMost(call.n)
       THEN mem' = Written(call.d + i, <<mem[call.s + i]>>) /\ i' = i + 1 /\ Goto(pc)
       ELSE Goto("pad") /\ UNCHANGED <<mem, i>>
  /\ UNCHANGED <<df, registers, j, newval>>

StrncpyPad ==
  /\ pc = "pad"
  /\ IF AtMost(call.n)
       THEN mem' = Written(call.d + i, <<0>>) /\ i' = i + 1 /\ Goto(pc)
       ELSE Return(call.d) /\ UNCHANGED <<mem, i>>
  /\ UNCHANGED <<df, registers, j, newval>>

\* The characters of lib.c are signed, those of the programs' library are not.
Value(byte) == IF op = "strncmp" /\ byte > 127 THEN byte - 256 ELSE byte

\* strncmp and ece391_strncmp end at n, ece391_strcmp has no bound.
Strncmp ==
  LET a == mem[call.d + i]
      b == mem[call.s + i]
  IN  /\ pc = "compare"
      /\ IF op # "ece391_strcmp" /\ i >= call.n THEN Return(0) /\ UNCHANGED i
         ELSE IF a # b \/ a = 0 THEN Return(Value(a) - Value(b)) /\ UNCHANGED i
         ELSE i' = i + 1 /\ Goto("compare")
      /\ UNCHANGED <<mem, df, registers, j, newval>>

\* The string that starts at a.
Length(m, a) == CHOOSE l \in 0..Size - 1 : m[a + l] = 0 /\ \A k \in 0..l - 1 : m[a + k] # 0
String(m, a) == [k \in 1..Length(m, a) |-> m[a + k - 1]]

-----------------------------------------------------------------------------
\* itoa, and the number formats of printf, whose buffer is at call.d.
Negative(c) == c.op = "%d" /\ c.c >= Modulus \div 2

\* What itoa is given: -value wraps to itself for the least number.
Magnitude(c) == IF Negative(c) THEN (Modulus - c.c) % Modulus ELSE c.c

Radix(c) == CASE c.op = "itoa" -> c.n [] c.op \in {"%x", "%#x"} -> 16 [] OTHER -> 10

\* Where in the buffer it writes.
Number(c) == CASE c.op = "%#x" -> c.d + 8 [] Negative(c) -> c.d + 1 [] OTHER -> c.d

\* Mutant: the letters follow the digits without a gap.
DigitAscii(k) == 48 + k

\* lookup[].
Digit(k) == IF k < 10 THEN 48 + k ELSE 55 + k

Itoa ==
  /\ pc = "itoa"
  /\ mem' = IF Negative(call) THEN Written(call.d, <<45>>) ELSE mem
  /\ newval' = Magnitude(call)
  /\ Goto("digits")
  /\ UNCHANGED <<df, registers, i, j>>

ItoaZero ==
  /\ pc = "digits" /\ Magnitude(call) = 0
  /\ mem' = Written(Number(call), <<48, 0>>)
  /\ Goto("number")
  /\ UNCHANGED <<df, registers, indexes>>

ItoaDigit ==
  /\ pc = "digits" /\ newval > 0
  /\ mem' = Written(Number(call) + i, <<Digit(newval % Radix(call))>>)
  /\ i' = i + 1
  /\ newval' = newval \div Radix(call)
  /\ Goto("digits")
  /\ UNCHANGED <<df, registers, j>>

ItoaReverse ==
  /\ pc = "digits" /\ Magnitude(call) # 0 /\ newval = 0
  /\ mem' = Written(Number(call) + i, <<0>>)
  /\ Goto("strrev")
  /\ UNCHANGED <<df, registers, indexes>>

\* strrev, of its argument or of the number.
Reversed == IF op = "strrev" THEN call.s ELSE Number(call)

Strrev ==
  /\ pc = "strrev"
  /\ i' = 0 /\ j' = Length(mem, Reversed) - 1
  /\ Goto("swap")
  /\ UNCHANGED <<mem, df, registers, newval>>

StrrevSwap ==
  /\ pc = "swap" /\ i < j
  /\ mem' = [mem EXCEPT ![Reversed + i] = mem[Reversed + j],
                        ![Reversed + j] = mem[Reversed + i]]
  /\ i' = i + 1 /\ j' = j - 1
  /\ Goto("swap")
  /\ UNCHANGED <<df, registers, newval>>

StrrevEnd ==
  /\ pc = "swap" /\ i >= j
  /\ IF op = "strrev" THEN Return(call.s) ELSE Goto("number")
  /\ UNCHANGED <<mem, df, registers, indexes>>

\* Behind itoa: %#x puts zeros before the digits, up to place 8 of the buffer.
NumberEnd ==
  /\ pc = "number"
  /\ CASE op = "itoa" -> Return(call.d) /\ UNCHANGED i
       [] op = "%#x" -> i' = Length(mem, Number(call)) /\ Goto("zeros")
       [] OTHER -> Goto("puts") /\ UNCHANGED i
  /\ UNCHANGED <<mem, df, registers, j, newval>>

Zeros ==
  /\ pc = "zeros"
  /\ IF i < 8 THEN mem' = Written(call.d + i, <<48>>) /\ i' = i + 1 /\ Goto("zeros")
              ELSE Goto("puts") /\ UNCHANGED <<mem, i>>
  /\ UNCHANGED <<df, registers, j, newval>>

\* puts, and the return of printf.
Puts ==
  /\ pc = "puts"
  /\ shown' = String(mem, IF op = "%#x" THEN call.d + Length(mem, Number(call)) ELSE call.d)
  /\ Return(0)
  /\ UNCHANGED <<mem, df, registers, indexes>>

Numbers ==
  \/ Itoa \/ ItoaZero \/ ItoaDigit \/ ItoaReverse
  \/ Strrev \/ StrrevSwap \/ StrrevEnd
  \/ NumberEnd \/ Zeros

-----------------------------------------------------------------------------
\* What is left of value after k divisions by radix: the loop of itoa.
Quotient(value, radix) ==
  LET left[k \in Nat] == IF k = 0 THEN value ELSE left[k - 1] \div radix IN left

\* The digits and the Nul behind them fit into the buffer; to eight digits
\* where zeros are put before them.
Room(c) ==
  \E w \in 1..Size : /\ Quotient(Magnitude(c), Radix(c))[w] = 0
                     /\ Number(c) + w < Size
                     /\ c.op = "%#x" => w <= 8

\* A string that ends in memory m, or n bytes of it.
Ends(m, a) == \E l \in 0..Size - 1 : a + l < Size /\ m[a + l] = 0
Readable(c, m, a) == Ends(m, a) \/ (c.op # "ece391_strcmp" /\ a + c.n <= Size)

\* What a caller owes the functions: bytes that are in memory and strings that
\* end there; for memcpy and strncpy regions that do not overlap, for strcpy
\* none that the copy would run into.
Proper(c, m) ==
  /\ c \in [op : Repeats \cup Walks \cup Prints \cup {"itoa"},
            d : Bytes, s : Bytes, n : 0..Size, c : 0..Modulus - 1]
  /\ c.op \in Blocks \cup {"memmove", "strncpy"} => c.d + c.n <= Size
  /\ c.op = "memset_word" => c.d + 2 * c.n <= Size
  /\ c.op = "memset_dword" => c.d + 4 * c.n <= Size
  /\ c.op \in {"memcpy", "memmove"} => c.s + c.n <= Size
  /\ c.op = "memcpy" => c.d + c.n <= c.s \/ c.s + c.n <= c.d
  /\ c.op \in Walks \ Compares => Ends(m, c.s)
  /\ c.op \in Compares => Readable(c, m, c.d) /\ Readable(c, m, c.s)
  /\ c.op = "strncpy" => c.d <= c.s \/ c.s + c.n <= c.d
  /\ c.op = "strcpy" =>
       c.d <= c.s \/ (c.s + Length(m, c.s) < c.d /\ c.d + Length(m, c.s) < Size)
  /\ c.op = "itoa" => c.n \in 2..36
  /\ c.op \in Prints \cup {"itoa"} => Room(c)

ASSUME CallsProper == \A c \in Calls, m \in Contents : Proper(c, m)

-----------------------------------------------------------------------------
\* Where a function begins.
Entry(o) == CASE o \in Blocks -> "top"
               [] o \in Repeats \ Blocks -> "direct"
               [] o \in Compares -> "compare"
               [] o \in Prints \cup {"itoa"} -> "itoa"
               [] OTHER -> o

Begin(c) ==
  /\ pc = "idle"
  /\ call' = c /\ pc' = Entry(c.op)
  /\ edi' = c.d /\ esi' = c.s /\ ecx' = c.n
  /\ UNCHANGED <<mem, df, was, edx, indexes, result, shown>>

Strings == Strlen \/ Strcpy \/ Strncpy \/ StrncpyPad \/ Strncmp

Continues ==
  \/ (Repeating \/ Strings \/ Numbers) /\ UNCHANGED <<was, call, shown>>
  \/ Puts /\ UNCHANGED <<was, call>>

Next == Continues \/ \E c \in Calls : Begin(c)

Spec == Init /\ [][Next]_vars

-----------------------------------------------------------------------------
Done(ops) == pc = "done" /\ op \in ops

\* Type invariant: no index or register leaves the memory the call is given.
TypeOK ==
  /\ mem \in [Bytes -> 0..255]
  /\ df \in {0, 1}
  /\ {edi, esi, ecx, edx} \subseteq -1..Size
  /\ {i, j} \subseteq -1..Size
  /\ newval \in 0..Modulus - 1

\* What the call wrote: w from address a on, and nothing else.
Wrote(a, w) ==
  \A b \in Bytes :
    mem[b] = IF b \in a..a + Len(w) - 1 THEN w[b - a + 1] ELSE was[b]

\* memset and memcpy, which move bytes up to an aligned address, then words,
\* then bytes, and memmove, whichever way it goes, write exactly the bytes
\* asked for, whatever direction an earlier memmove left the flag in.
BytesRight ==
  /\ Done({"memset"}) => Wrote(call.d, [k \in 1..call.n |-> call.c % 256])
  /\ Done({"memset_word"}) =>
       Wrote(call.d, [k \in 1..2 * call.n |-> (call.c \div Place[((k - 1) % 2) + 1]) % 256])
  /\ Done({"memset_dword"}) =>
       Wrote(call.d, [k \in 1..4 * call.n |-> (call.c \div Place[((k - 1) % 4) + 1]) % 256])
  /\ Done({"memcpy", "memmove"}) =>
       Wrote(call.d, [k \in 1..call.n |-> was[call.s + k - 1]])

Sign(n) == CASE n < 0 -> -1 [] n = 0 -> 0 [] OTHER -> 1

\* The order of two strings, of which the first n characters count.
Order(a, b, n) ==
  LET differ == {k \in 0..n - 1 : /\ was[a + k] # was[b + k]
                                  /\ \A m \in 0..k - 1 : was[a + m] = was[b + m] /\ was[a + m] # 0}
  IN  IF differ = {} THEN 0
      ELSE LET k == CHOOSE k \in differ : TRUE IN Sign(Value(was[a + k]) - Value(was[b + k]))

\* The string functions, also where the source lies above the destination and
\* overlaps it, as it does where grep moves the rest of a line to the front of
\* its buffer: copies are the string and its end, or the first n characters of
\* it filled up with zeros; comparisons have the sign of the first difference.
StringsRight ==
  /\ Done({"strlen"}) => result = Length(was, call.s) /\ mem = was
  /\ Done({"strcpy"}) => Wrote(call.d, Append(String(was, call.s), 0))
  /\ Done({"strncpy"}) =>
       Wrote(call.d, [k \in 1..call.n |->
         IF k <= Length(was, call.s) THEN was[call.s + k - 1] ELSE 0])
  /\ Done(Compares) =>
       /\ mem = was
       /\ Sign(result) = Order(call.d, call.s,
            IF op = "ece391_strcmp" THEN Size - call.s ELSE call.n)
  /\ Done({"strrev"}) => Wrote(call.s, Reverse(String(was, call.s)))

\* The number a string of digits stands for.
Denoted(str, radix) ==
  LET value[k \in 0..Len(str)] ==
        IF k = 0 THEN 0
        ELSE value[k - 1] * radix + (IF str[k] < 58 THEN str[k] - 48 ELSE str[k] - 55)
  IN  value[Len(str)]

Canonical(str) == str # <<>> /\ (str[1] = 48 => Len(str) = 1)

\* What is printed denotes the number: for %d the negative numbers too, the
\* least one included; for %#x with zeros to eight digits; else without any.
NumbersRight ==
  /\ Done({"itoa"}) =>
       /\ Canonical(String(mem, call.d))
       /\ Denoted(String(mem, call.d), call.n) = call.c
  /\ Done({"%u"}) => Canonical(shown) /\ Denoted(shown, 10) = call.c
  /\ Done({"%x"}) => Canonical(shown) /\ Denoted(shown, 16) = call.c
  /\ Done({"%#x"}) => Len(shown) = 8 /\ Denoted(shown, 16) = call.c
  /\ Done({"%d"}) =>
       IF call.c < Modulus \div 2
       THEN Canonical(shown) /\ Denoted(shown, 10) = call.c
       ELSE /\ Head(shown) = 45 /\ Canonical(Tail(shown))
            /\ Denoted(Tail(shown), 10) = Modulus - call.c
=============================================================================
