\* Every text of up to four characters over two letters and the newline, two longer
\* ones and two with a zero; programs with zeros and newlines in them and an empty
\* file; a grep buffer of three; 29 lines to type, four of them without a newline.
CONSTANTS
  MAX_FILENAME = 32
  ARGLENGTH = 128
  LastFd = 7
  BUFSIZE = 3
  Exit <- ExitName
  Images <- AllDisks
  Lines <- TypedLines
  Garbage <- StackBytes
  Behind <- BehindLine
SPECIFICATION Spec
INVARIANTS TypeOK ShowsFiles GrepFinds SyserrPasses ArgsAsTyped
PROPERTIES CommandsEnd
