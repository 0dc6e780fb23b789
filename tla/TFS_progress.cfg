\* Every call gives the root lock up, while other threads write.
SPECIFICATION FairSpec
CONSTANTS
  t1 = t1  t2 = t2  a = a  b = b  long = long  bad = bad
  Threads = {t1, t2}  NoThread = NoThread  NoMutex = NoMutex  NoPath = NoPath
  Names = {a}  LongNames = {long}  BadNames = {bad}
  INODE_TABLE_SIZE = 3  DATA_BLOCKS = 3  MAX_OPEN_FILES = 1  MAX_DIR_ENTRIES = 2
  BLOCK_SIZE = 1  SizeT = 4  MaxOffset = 2  StackDepth = 1
  Ops <- ProgressOps  Modes <- NamespaceModes  Lens = {1}
  PathsOf <- SharedPaths  HandleUse = "own"
PROPERTY RootReleased
