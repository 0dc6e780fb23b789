\* Two managers create a box of one name at the same time.
SPECIFICATION Spec
CONSTANTS
  b = b  d = d  cb = cb  cb2 = cb2  cd = cd  cd2 = cd2  rb = rb  rb2 = rb2  ls = ls
  ls2 = ls2  p1 = p1  p2 = p2  s1 = s1
  Names = {b}  NoName = NoName  NoCell = NoCell  NoClient = NoClient
  NoThread = NoThread  NoMutex = NoMutex
  w1 = w1  w2 = w2  w3 = w3  Workers = {w1, w2}
  Clients = {cb, cb2}
  Rank <- Alphabet  Text <- Texts
  Request <- Requested  After <- NoOrder
  INODE_TABLE_SIZE = 2  DATA_BLOCKS = 1  MAX_OPEN_FILES = 2  MAX_DIR_ENTRIES = 1
  BLOCK_SIZE = 1  SizeT = 16  MAX_BOX_NUMBER = 2  Buffer = 1  MaxMessages = 0
INVARIANT UniqueBoxes
CHECK_DEADLOCK FALSE
