\* One thread opens a file while another unlinks it.
SPECIFICATION Spec
CONSTANTS
  t1 = t1  t2 = t2  a = a  b = b  long = long  bad = bad
  NoThread = NoThread  NoMutex = NoMutex  NoPath = NoPath
  Threads = {t1, t2}  Names = {a}  LongNames = {}  BadNames = {}
  INODE_TABLE_SIZE = 2  DATA_BLOCKS = 2  MAX_OPEN_FILES = 1  MAX_DIR_ENTRIES = 1
  BLOCK_SIZE = 1  SizeT = 4  MaxOffset = 2  StackDepth = 1
  Ops <- OpenUnlinkOps  Modes <- NamespaceModes  Lens = {1}
  PathsOf <- SharedPaths  HandleUse = "own"
INVARIANT OpenHandleLive
