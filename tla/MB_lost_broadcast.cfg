\* A publisher writes between a subscriber's read and its wait.
SPECIFICATION FairSpec
CONSTANTS
  b = b  d = d  cb = cb  cb2 = cb2  cd = cd  cd2 = cd2  rb = rb  rb2 = rb2  ls = ls
  ls2 = ls2  p1 = p1  p2 = p2  s1 = s1
  Names = {b}  NoName = NoName  NoCell = NoCell  NoClient = NoClient
  NoThread = NoThread  NoMutex = NoMutex
  w1 = w1  w2 = w2  w3 = w3  Workers = {w1, w2}
  Clients = {cb, p1, s1}
  Rank <- Alphabet  Text <- Texts
  Request <- Requested  After <- BoxFirst
  INODE_TABLE_SIZE = 2  DATA_BLOCKS = 2  MAX_OPEN_FILES = 2  MAX_DIR_ENTRIES = 1
  BLOCK_SIZE = 2  SizeT = 16  MAX_BOX_NUMBER = 1  Buffer = 1  MaxMessages = 1
PROPERTY MessageHeard
CHECK_DEADLOCK FALSE
