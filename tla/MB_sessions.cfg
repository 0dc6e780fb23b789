\* Two publishers, one after the other or refused, and a subscriber use a box.
SPECIFICATION Spec
CONSTANTS
  b = b  d = d  cb = cb  cb2 = cb2  cd = cd  cd2 = cd2  rb = rb  rb2 = rb2  ls = ls
  ls2 = ls2  p1 = p1  p2 = p2  s1 = s1
  Names = {b, d}  NoName = NoName  NoCell = NoCell  NoClient = NoClient
  NoThread = NoThread  NoMutex = NoMutex
  w1 = w1  w2 = w2  w3 = w3  Workers = {w1, w2, w3}
  Clients = {cb, p1, p2, s1}
  Rank <- Alphabet  Text <- Texts
  Request <- Requested  After <- PublishersLast
  INODE_TABLE_SIZE = 3  DATA_BLOCKS = 2  MAX_OPEN_FILES = 3  MAX_DIR_ENTRIES = 2
  BLOCK_SIZE = 3  SizeT = 16  MAX_BOX_NUMBER = 2  Buffer = 2  MaxMessages = 2
INVARIANTS TypeOK OnePublisher SessionsApart StreamKept LinesKept AllCounted CountsKept
PROPERTY BoxLogged
CHECK_DEADLOCK FALSE
SYMMETRY WorkerSymmetry
