------------------------------- MODULE MCText -------------------------------
(***************************************************************************)
(* The instance of Text for TLC.                                           *)
(***************************************************************************)
EXTENDS Text

With(zeros, base) == [a \in 0..Size - 1 |-> IF a \in zeros THEN 0 ELSE base[(a % Len(base)) + 1]]

\* Bytes that all differ, for the functions that move bytes; and strings of
\* one, three and more letters, some equal for a while, one with the sign bit.
SomeContents ==
  { [a \in 0..Size - 1 |-> a + 1 - 20 * (a \div 19)],
    With({5, 13, 19}, <<97, 98>>),
    With({3, 9, 10, 19}, <<97, 200, 98>>) }

SomeCalls ==
  LET Call(o, d, s, n, c) == [op |-> o, d |-> d, s |-> s, n |-> n, c |-> c]
  IN  {Call("memset", d, 0, n, 7) : d \in 0..5, n \in 0..9}
      \cup {Call("memset_word", d, 0, n, 7 + 256 * 8) : d \in {0, 1}, n \in 0..3}
      \cup {Call("memset_dword", d, 0, n, 7 + 256 * 8) : d \in {0, 1}, n \in 0..3}
      \cup {Call("memcpy", d, s, n, 0) : d \in 9..12, s \in 0..2, n \in 0..7}
      \cup {Call("memmove", d, s, n, 0) : d \in 0..4, s \in 0..4, n \in 0..4}
      \cup {Call("strlen", 0, s, 0, 0) : s \in 0..9}
      \cup {c \in {Call("strcpy", d, s, 0, 0) : d \in 0..3, s \in 0..9} : c.d <= c.s}
      \cup {Call("strncpy", d, s, n, 0) : d \in {14}, s \in 0..9, n \in 0..5}
      \cup {Call(o, d, s, n, 0) : o \in Compares, d \in 0..3, s \in 4..7, n \in 0..4}
      \cup {Call("strrev", 0, s, 0, 0) : s \in 0..9}
      \cup {Call("itoa", 2, 0, r, v) : r \in {8, 10, 16}, v \in {0, 1, 9, 10, 171, 65535}}
      \cup {Call(o, 1, 0, 0, v) : o \in Prints,
              v \in {0, 7, 16, 4095, 32767, 32768, 32769, 65535}}
=============================================================================
