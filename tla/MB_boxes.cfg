\* One manager after another creates and removes boxes, while one of the boxes has
\* a publisher, which may keep the one open file there is room for, and the other,
\* when it is removed for the second time, may have a subscriber.
SPECIFICATION FairSpec
CONSTANTS
  b = b  d = d  cb = cb  cb2 = cb2  cd = cd  cd2 = cd2  rb = rb  rb2 = rb2  ls = ls
  ls2 = ls2  p1 = p1  p2 = p2  s1 = s1
  Names = {b, d}  NoName = NoName  NoCell = NoCell  NoClient = NoClient
  NoThread = NoThread  NoMutex = NoMutex
  w1 = w1  w2 = w2  w3 = w3  Workers = {w1, w2}
  Clients = {cb, cd, cd2, ls, rb, ls2, cb2, rb2, p1, s1}
  Rank <- Alphabet  Text <- Texts
  Request <- BoxesRequested  After <- OneManager
  INODE_TABLE_SIZE = 3  DATA_BLOCKS = 2  MAX_OPEN_FILES = 1  MAX_DIR_ENTRIES = 2
  BLOCK_SIZE = 2  SizeT = 16  MAX_BOX_NUMBER = 2  Buffer = 1  MaxMessages = 1
INVARIANT BoxesBacked
PROPERTIES ListingSorted ListingComplete PublisherLeaves ManagersAnswered OthersUndisturbed
CHECK_DEADLOCK FALSE
