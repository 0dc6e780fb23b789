\* Two threads, each on its own names, copy files in, write and unlink.
SPECIFICATION CopySpec
CONSTANTS
  t1 = t1  t2 = t2  a = a  b = b  long = long  bad = bad
  Threads = {t1, t2}  NoThread = NoThread  NoMutex = NoMutex  NoPath = NoPath
  Names = {a, b}  LongNames = {}  BadNames = {}
  INODE_TABLE_SIZE = 3  DATA_BLOCKS = 2  MAX_OPEN_FILES = 2  MAX_DIR_ENTRIES = 2
  BLOCK_SIZE = 2  SizeT = 8  MaxOffset = 3  StackDepth = 1
  SIZE_OF_BUFFER = 1  SourceSizes = {2, 3}  MaxStreams = 1
  Ops <- CopyOps  Modes <- CopyModes  Lens = {1}
  PathsOf <- PrivatePaths  HandleUse = "own"
INVARIANTS OpenHandleLive HandlesOwned NoFailure BlocksAccounted
PROPERTIES CopyExact CopyGivesBack
SYMMETRY PrivateSymmetry
