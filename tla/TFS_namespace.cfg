\* Two threads create, link and unlink the same names.
SPECIFICATION Spec
CONSTANTS
  t1 = t1  t2 = t2  a = a  b = b  long = long  bad = bad
  Threads = {t1, t2}  NoThread = NoThread  NoMutex = NoMutex  NoPath = NoPath
  Names = {a, b}  LongNames = {long}  BadNames = {bad}
  INODE_TABLE_SIZE = 3  DATA_BLOCKS = 1  MAX_OPEN_FILES = 1  MAX_DIR_ENTRIES = 3
  BLOCK_SIZE = 1  SizeT = 4  MaxOffset = 1  StackDepth = 1
  Ops <- NamespaceOps  Modes <- NamespaceModes  Lens = {}
  PathsOf <- SharedPaths  HandleUse = "own"
INVARIANTS TypeOK RootExclusive LinkCountExact UnlinkPinned OnlyLinksFail
PROPERTY NamesKept
SYMMETRY SharedSymmetry
