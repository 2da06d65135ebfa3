----------------------------- MODULE MCPrograms -----------------------------
EXTENDS Programs

Entry(name, kind, run, bytes) ==
  [name |-> name, kind |-> kind, run |-> run, data |-> bytes]

ExitName == <<"e", "x", "i", "t">>
Hello    == <<"h", "e", "l", "l", "o">>
Cat == <<"c", "a", "t">>
Ls  == <<"l", "s">>
Grep == <<"g", "r", "e", "p">>
Syserr == <<"s", "y", "s", "e", "r", "r">>

\* What a program's own bytes look like to another: zeros, newlines and letters.
Code == <<"#", Nul, Newline, "b", "a", Nul>>

\* A directory with all the programs and one text.
Disk(text) == <<
  Entry(Dot, "dir", "none", <<>>),
  Entry(Cat, "file", "cat", Code), Entry(Ls, "file", "ls", <<"#">>),
  Entry(Grep, "file", "grep", <<"#">>), Entry(Syserr, "file", "syserr", <<"#">>),
  Entry(<<"r", "t", "c">>, "rtc", "none", <<>>),
  Entry(Hello, "file", "none", text) >>

\* One with grep and a text.
GrepDisk(text) == <<
  Entry(Dot, "dir", "none", <<>>),
  Entry(Hello, "file", "none", text),
  Entry(Grep, "file", "grep", Code) >>

\* All short texts, two whose lines are moved down twice, and two that are moved
\* down with a zero in them.
Texts == UNION {[1..n -> {"a", "b", Newline}] : n \in 0..4} \cup {
  <<"a", Newline, "b", Newline, "b", "a", Newline>>,
  <<Newline, Newline, "b", "a", Newline, "a", "b">>,
  <<Newline, "a", Nul, "b", Newline>>, <<"b", Newline, Nul, "a", "b">> }

AllDisks ==
  {GrepDisk(t) : t \in Texts}
    \cup {Disk(t) : t \in {<<>>, <<"a">>, <<"b", Newline, "a", "a">>, <<Newline, "a", "b">>,
                          <<"a", "b", Newline, "b", "a", Newline, "a">>}}

Padded(s) == s \o [i \in 1..16 - Len(s) |-> Nul]
Entered(s) == Padded(Append(s, Newline))

Words(a, n, b) == a \o [i \in 1..n |-> Space] \o b

TypedLines == {
  Entered(<<>>), Entered(ExitName), Entered(<<"x">>), Entered(Hello),
  Entered(Ls), Entered(Words(<<>>, 1, Ls)),
  Entered(Cat), Entered(Words(Cat, 1, Hello)), Entered(Words(Cat, 2, Dot)),
  Entered(Words(Cat, 1, <<"x">>)), Entered(Words(Words(Cat, 1, <<"r", "t", "c">>), 1, Ls)),
  Entered(Words(Grep, 1, <<"a">>)), Entered(Words(Grep, 1, <<"b", "a">>)), Entered(Grep),
  Entered(Syserr), Entered(<<"0">>), Entered(<<"3">>),
  Entered(<<"1">>), Entered(<<"2">>), Entered(<<"4">>), Entered(<<"5">>),
  Entered(<<"6">>), Entered(<<"7">>), Entered(<<"8">>),
  Padded(ExitName), Padded(Ls), Padded(Words(Cat, 1, Hello)),
  Words(Cat, 7, Hello) \o <<Newline>>, [i \in 1..16 |-> Nul] }

StackBytes == {"?", Newline}
BehindLine == [i \in 1..200 |-> Nul]
=============================================================================
