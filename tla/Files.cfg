SPECIFICATION Spec
CONSTANTS
  LastFd = 3
  BlockSize = 3
  BlockNums = 2
  NumDataBlocks = 3
  num_dentries = 4
  dentries <- Image
  inodes <- Blocks
  Size = 4
INVARIANT TypeOK
PROPERTIES ReadsFile EndAfterAll
