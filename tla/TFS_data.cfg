\* Two threads read, write, truncate and close files through any handle.
SPECIFICATION Spec
CONSTANTS
  t1 = t1  t2 = t2  a = a  b = b  long = long  bad = bad
  Threads = {t1, t2}  NoThread = NoThread  NoMutex = NoMutex  NoPath = NoPath
  Names = {a}  LongNames = {}  BadNames = {}
  INODE_TABLE_SIZE = 2  DATA_BLOCKS = 2  MAX_OPEN_FILES = 2  MAX_DIR_ENTRIES = 1
  BLOCK_SIZE = 2  SizeT = 8  MaxOffset = 5  StackDepth = 1
  Ops <- DataOps  Modes <- DataModes  Lens = {0, 1, 3}
  PathsOf <- SharedPaths  HandleUse = "any"
INVARIANT EntryHeld
PROPERTY TransferFromWithin
SYMMETRY ThreadSymmetry
