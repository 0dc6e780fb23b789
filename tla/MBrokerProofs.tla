--------------------------- MODULE MBrokerProofs ---------------------------
(* The broker, for every number of workers, clients and boxes: the types   *)
(* of its state, the open files of the sessions, that a box has one        *)
(* publisher at a time, and that boxes have names and files of their own.  *)
EXTENDS MBroker, FiniteSetTheorems, SequenceTheorems, WellFoundedInduction, TLAPS

\* Every nonempty set of numbers has a least one.
LEMMA LeastInSet ==
  ASSUME NEW S \in SUBSET Nat, S # {}
  PROVE  Min(S) \in S /\ \A n \in S : Min(S) =< n
<1> DEFINE T == {0 .. m : m \in S}
           R == StrictSubsetOrdering(Nat)
<1>1. T \subseteq FiniteSubsetsOf(Nat)
  <2>1. \A m \in S : IsFiniteSet(0 .. m) /\ 0 .. m \subseteq Nat
    BY FS_Interval
  <2> QED
    BY <2>1 DEF FiniteSubsetsOf
<1>2. PICK X \in T : \A Y \in T : ~ (<<Y, X>> \in R)
  <2> HIDE DEF T, R
  <2>1. T # {}
    BY DEF T
  <2>2. IsWellFoundedOn(R, FiniteSubsetsOf(Nat))
    BY FS_StrictSubsetOrderingWellFounded DEF R
  <2> QED
    BY <1>1, <2>1, <2>2, WFMin
<1>3. PICK x \in S : X = 0 .. x
  OBVIOUS
<1>4. \A y \in S : x =< y
  <2> SUFFICES ASSUME NEW y \in S, y < x PROVE FALSE
    OBVIOUS
  <2>1. 0 .. y \subseteq 0 .. x /\ 0 .. y # 0 .. x
    <3>1. x \in 0 .. x /\ x \notin 0 .. y
      OBVIOUS
    <3> QED
      BY <3>1
  <2>2. <<0 .. y, 0 .. x>> \in R
    BY <2>1 DEF StrictSubsetOrdering
  <2> QED
    BY <1>2, <1>3, <2>2
<1> QED
  BY <1>4 DEF Min

\* The lesser of two numbers.
LEMMA LesserOf ==
  ASSUME NEW m \in Nat, NEW n \in Nat
  PROVE  Min({m, n}) = IF m <= n THEN m ELSE n
<1>1. \A S : S = {m, n} => S \in SUBSET Nat /\ S # {}
  OBVIOUS
<1>2. Min({m, n}) \in {m, n} /\ \A k \in {m, n} : Min({m, n}) =< k
  BY <1>1, LeastInSet
<1> QED
  BY <1>2

LEMMA ModSize == ASSUME NEW n \in Int PROVE n % SizeT \in 0 .. SizeT - 1
BY FSAssumption

-----------------------------------------------------------------------------
(* The file system.                                                        *)

\* A file that is not empty has a block, not the directory's.
FSInv ==
  /\ FSTypeOK(Message)
  /\ \A i \in Inodes :
       inode_table[i].i_size > 0 => inode_table[i].i_data_block \in Blocks \ {0}

LEMMA FirstInode ==
  ASSUME FSInv, freeinode_ts # {}
  PROVE  inode_alloc \in freeinode_ts /\ inode_alloc \in Inodes \ {Root}
<1>1. freeinode_ts \in SUBSET Nat
  BY FSAssumption DEF FSInv, FSTypeOK, Inodes
<1> QED
  BY <1>1, LeastInSet DEF inode_alloc, FSInv, FSTypeOK

LEMMA FirstBlock ==
  ASSUME FSInv, free_blocks # {}
  PROVE  data_block_alloc \in free_blocks /\ data_block_alloc \in Blocks \ {0}
<1>1. free_blocks \in SUBSET Nat
  BY FSAssumption DEF FSInv, FSTypeOK, Blocks
<1> QED
  BY <1>1, LeastInSet DEF data_block_alloc, FSInv, FSTypeOK

LEMMA FirstHandle ==
  ASSUME FSInv, free_open_file_entries # {}
  PROVE  Min(free_open_file_entries) \in free_open_file_entries
<1>1. free_open_file_entries \in SUBSET Nat
  BY FSAssumption DEF FSInv, FSTypeOK, Handles
<1> QED
  BY <1>1, LeastInSet

\* A handle that tfs_open returns was free and is not any more; nothing else of
\* the table changes.
LEMMA HandleAdded ==
  ASSUME FSInv, NEW inum, NEW offset, NEW fd, add_to_open_file_table(inum, offset, fd)
  PROVE  \/ fd = -1 /\ UNCHANGED openVars
         \/ /\ fd \in free_open_file_entries /\ fd \in Handles
            /\ free_open_file_entries' = free_open_file_entries \ {fd}
            /\ open_file_table' = [open_file_table EXCEPT
                 ![fd] = [of_inumber |-> inum, of_offset |-> offset]]
BY FirstHandle DEF add_to_open_file_table, FSInv, FSTypeOK

LEMMA OpenFS ==
  ASSUME FSInv, NEW p \in Names, NEW mode, NEW fd, tfs_open(p, mode, fd)
  PROVE  FSInv'
<1>1. FSTypeOK(Message)
  BY DEF FSInv
<1>2. ASSUME NEW inum \in Inodes, NEW offset \in Nat, add_to_open_file_table(inum, offset, fd)
      PROVE  /\ free_open_file_entries' \subseteq Handles
             /\ open_file_table' \in [Handles -> [of_inumber : Inodes, of_offset : Nat]]
  BY <1>1, <1>2, HandleAdded DEF FSTypeOK, openVars
<1>3. CASE /\ tfs_lookup(p) # -1
           /\ add_to_open_file_table(tfs_lookup(p),
                IF "APPEND" \in mode THEN inode_table[tfs_lookup(p)].i_size ELSE 0, fd)
           /\ UNCHANGED fileVars
  <2>1. tfs_lookup(p) \in Inodes
    BY <1>1, <1>3 DEF tfs_lookup, find_in_dir, FSTypeOK
  <2>2. (IF "APPEND" \in mode THEN inode_table[tfs_lookup(p)].i_size ELSE 0) \in Nat
    BY <1>1, <2>1, FSAssumption DEF FSTypeOK
  <2> QED
    BY <1>1, <1>2, <1>3, <2>1, <2>2 DEF FSInv, FSTypeOK, fileVars
<1>4. CASE /\ tfs_lookup(p) = -1 /\ "CREAT" \in mode
           /\ freeinode_ts # {} /\ EntryFits
           /\ inode_create(inode_alloc) /\ add_dir_entry(p, inode_alloc)
           /\ add_to_open_file_table(inode_alloc, 0, fd)
           /\ UNCHANGED <<free_blocks, fs_data>>
  <2>1. PICK inum \in Inodes \ {Root} : inum = inode_alloc
    BY <1>4, FirstInode
  <2>2. /\ free_open_file_entries' \subseteq Handles
        /\ open_file_table' \in [Handles -> [of_inumber : Inodes, of_offset : Nat]]
    BY <1>2, <1>4, <2>1
  <2>3. /\ freeinode_ts' = freeinode_ts \ {inum}
        /\ inode_table' = [inode_table EXCEPT ![inum] = EmptyFile]
    BY <1>4, <2>1 DEF inode_create
  <2>4. dir' \in [DOMAIN dir' -> Inodes \ {Root}] /\ DOMAIN dir' \subseteq Names
    BY <1>1, <1>4, <2>1 DEF add_dir_entry, FSTypeOK
  <2>5. /\ inode_table' \in [Inodes -> [i_size : 0 .. BLOCK_SIZE, i_data_block : Blocks \cup {-1}]]
        /\ \A i \in Inodes :
             inode_table'[i].i_size > 0 => inode_table'[i].i_data_block \in Blocks \ {0}
    BY <1>1, <2>3, FSAssumption DEF EmptyFile, FSInv, FSTypeOK
  <2> QED
    BY <1>1, <1>4, <2>2, <2>3, <2>4, <2>5 DEF FSInv, FSTypeOK
<1>5. CASE UNCHANGED fsVars
  BY <1>1, <1>5 DEF FSInv, FSTypeOK, fsVars, openVars, fileVars
<1> QED
  BY <1>3, <1>4, <1>5 DEF tfs_open

LEMMA CloseFS ==
  ASSUME FSInv, NEW fd \in Handles, tfs_close(fd)
  PROVE  FSInv'
BY DEF FSInv, FSTypeOK, tfs_close, remove_from_open_file_table, fileVars

LEMMA UnlinkFS ==
  ASSUME FSInv, NEW p, tfs_lookup(p) # -1, tfs_unlink(p)
  PROVE  FSInv'
<1>1. FSTypeOK(Message)
  BY DEF FSInv
<1>2. PICK inum \in Inodes \ {Root} : inum = tfs_lookup(p)
  BY <1>1 DEF tfs_lookup, find_in_dir, FSTypeOK
<1>3. /\ freeinode_ts' = freeinode_ts \cup {inum}
      /\ free_blocks' = free_blocks \cup
           (IF inode_table[inum].i_size > 0 THEN {inode_table[inum].i_data_block} ELSE {})
      /\ dir' = [q \in DOMAIN dir \ {p} |-> dir[q]]
      /\ UNCHANGED <<inode_table, fs_data, openVars>>
  BY <1>2 DEF tfs_unlink, inode_delete, clear_dir_entry
<1>4. free_blocks' \subseteq Blocks \ {0}
  BY <1>1, <1>2, <1>3 DEF FSInv, FSTypeOK
<1> QED
  BY <1>1, <1>2, <1>3, <1>4 DEF FSInv, FSTypeOK, openVars

LEMMA ReadFS ==
  ASSUME FSInv, NEW fd \in Handles, NEW len \in Nat, tfs_read(fd, len)
  PROVE  FSInv' /\ ToRead(fd, len) \in 0 .. len
<1>1. /\ open_file_table[fd] \in [of_inumber : Inodes, of_offset : Nat]
      /\ InodeOf(fd).i_size \in Nat /\ OffsetOf(fd) \in Nat
  BY FSAssumption DEF FSInv, FSTypeOK, InodeOf, OffsetOf
<1>2. (InodeOf(fd).i_size - OffsetOf(fd)) % SizeT \in Nat
  BY <1>1, ModSize
<1>3. ToRead(fd, len) \in 0 .. len
  BY <1>2 DEF ToRead
<1>4. open_file_table' = [open_file_table EXCEPT ![fd].of_offset = @ + ToRead(fd, len)]
  BY DEF tfs_read
<1>5. open_file_table' \in [Handles -> [of_inumber : Inodes, of_offset : Nat]]
  <2>1. PICK k \in Nat : k = OffsetOf(fd) + ToRead(fd, len)
    BY <1>1, <1>3
  <2>2. open_file_table' = [open_file_table EXCEPT ![fd].of_offset = k]
    BY <1>4, <2>1 DEF OffsetOf
  <2>3. open_file_table \in [Handles -> [of_inumber : Inodes, of_offset : Nat]]
    BY DEF FSInv, FSTypeOK
  <2> QED
    BY <2>2, <2>3
<1> QED
  BY <1>3, <1>5 DEF FSInv, FSTypeOK, tfs_read, fileVars

\* What tfs_write does when it writes: the cells after the offset, and the size.
LEMMA WriteFS ==
  ASSUME FSInv, NEW fd \in Handles, NEW buffer \in Seq(Message \cup {NoCell}), NEW n,
         tfs_write(fd, buffer, n)
  PROVE  FSInv' /\ n \in -1 .. Len(buffer)
<1>1. FSTypeOK(Message)
  BY DEF FSInv
<1> DEFINE inum == open_file_table[fd].of_inumber
           size == inode_table[inum].i_size
           offset == open_file_table[fd].of_offset
           room == IF Len(buffer) + offset > BLOCK_SIZE THEN BLOCK_SIZE - offset ELSE Len(buffer)
           fresh == size = 0
           block == IF fresh THEN data_block_alloc ELSE inode_table[inum].i_data_block
<1>2. inum \in Inodes /\ offset \in Nat /\ size \in 0 .. BLOCK_SIZE
  BY <1>1 DEF FSTypeOK
<1>3. Len(buffer) \in Nat /\ BLOCK_SIZE \in Nat
  BY FSAssumption
<1>4. (room <= Len(buffer) /\ room + offset <= BLOCK_SIZE) \/ room <= 0
  BY <1>2, <1>3
<1>5. CASE UNCHANGED fsVars /\ n \in {-1, 0}
  BY <1>1, <1>3, <1>5 DEF FSInv, FSTypeOK, fsVars, openVars, fileVars
<1>6. CASE /\ room > 0 /\ (fresh => free_blocks # {}) /\ n = room
           /\ free_blocks' = IF fresh THEN free_blocks \ {block} ELSE free_blocks
           /\ fs_data' = [fs_data EXCEPT ![block] = [c \in 1 .. BLOCK_SIZE |->
                IF c \in offset + 1 .. offset + n THEN buffer[c - offset] ELSE @[c]]]
           /\ inode_table' = [inode_table EXCEPT ![inum] =
                [i_size |-> IF offset + n > size THEN offset + n ELSE size,
                 i_data_block |-> block]]
           /\ open_file_table' = [open_file_table EXCEPT ![fd].of_offset = offset + n]
           /\ UNCHANGED <<freeinode_ts, dir, free_open_file_entries>>
  <2>1. block \in Blocks \ {0}
    BY <1>2, <1>6, FirstBlock DEF FSInv
  <2>2. n \in 1 .. Len(buffer) /\ offset + n \in 1 .. BLOCK_SIZE
    BY <1>2, <1>3, <1>6
  <2> HIDE DEF inum, size, offset, room, fresh, block
  <2>3. (IF offset + n > size THEN offset + n ELSE size) \in 0 .. BLOCK_SIZE
    BY <1>2, <2>2
  <2>4. /\ inode_table' \in [Inodes -> [i_size : 0 .. BLOCK_SIZE, i_data_block : Blocks \cup {-1}]]
        /\ \A i \in Inodes :
             inode_table'[i].i_size > 0 => inode_table'[i].i_data_block \in Blocks \ {0}
    BY <1>1, <1>2, <1>6, <2>1, <2>3 DEF FSInv, FSTypeOK
  <2>5. open_file_table' \in [Handles -> [of_inumber : Inodes, of_offset : Nat]]
    <3>1. PICK k \in Nat : k = offset + n
      BY <2>2
    <3>2. open_file_table \in [Handles -> [of_inumber : Inodes, of_offset : Nat]]
      BY <1>1 DEF FSTypeOK
    <3> QED
      BY <1>6, <3>1, <3>2
  <2>6. fs_data' \in [Blocks -> [1 .. BLOCK_SIZE -> Message \cup {NoCell}]]
    <3>1. fs_data \in [Blocks -> [1 .. BLOCK_SIZE -> Message \cup {NoCell}]]
      BY <1>1 DEF FSTypeOK
    <3>2. \A c \in 1 .. BLOCK_SIZE :
            (IF c \in offset + 1 .. offset + n THEN buffer[c - offset] ELSE fs_data[block][c])
              \in Message \cup {NoCell}
      <4>1. \A c \in offset + 1 .. offset + n : c - offset \in 1 .. Len(buffer)
        BY <1>2, <2>2
      <4>2. \A k \in 1 .. Len(buffer) : buffer[k] \in Message \cup {NoCell}
        OBVIOUS
      <4>3. \A c \in 1 .. BLOCK_SIZE : fs_data[block][c] \in Message \cup {NoCell}
        BY <2>1, <3>1
      <4> QED
        BY <4>1, <4>2, <4>3
    <3> QED
      BY <1>6, <2>1, <3>1, <3>2
  <2>7. free_blocks' \subseteq Blocks \ {0}
    BY <1>1, <1>6 DEF FSTypeOK
  <2> QED
    BY <1>1, <1>3, <1>6, <2>2, <2>4, <2>5, <2>6, <2>7 DEF FSInv, FSTypeOK
<1> QED
  BY <1>5, <1>6 DEF tfs_write, InodeOf, OffsetOf

-----------------------------------------------------------------------------
(* What the steps leave alone.                                             *)

Step(w) == Work(w) \/ WakeSpuriously(w)

FSStep(w) ==
  \/ CreateFile(w) \/ CreateClose(w) \/ RemoveFile(w) \/ PubOpen(w) \/ PubWrite(w)
  \/ PubClose(w, "pub_end", "pub_uncount") \/ PubClose(w, "pub_short", "pub_miscount")
  \/ SubOpen(w) \/ SubRead(w)

BoxStep(w) ==
  \/ CreateTaken(w) \/ CreateName(w) \/ CreateBox(w) \/ RemoveUnlock(w) \/ PubCount(w)
  \/ PubWrite(w) \/ PubUncount(w) \/ PubMiscount(w) \/ SubCount(w)

ClientStep(w) ==
  \/ ListReply(w) \/ Reply(w) \/ PubOpen(w) \/ PubRead(w) \/ SubOpen(w) \/ Refuse(w)
  \/ SubSend(w)

LEMMA FSFrame ==
  ASSUME NEW w \in Workers, Step(w), ~FSStep(w)
  PROVE  UNCHANGED fsVars
<1>1. CASE Begin(w) \/ ListSpot(w) \/ ListReply(w) \/ EmptySpot(w) \/ FindBox(w)
           \/ FindNothing(w) \/ Found(w) \/ CreateExists(w)
  BY <1>1 DEF Begin, ListSpot, ListReply, EmptySpot, FindBox, FindNothing, Crash, Found,
       CreateExists
<1>2. CASE CreateTaken(w) \/ CreateName(w) \/ CreateBox(w) \/ Reply(w)
           \/ RemoveUnlock(w) \/ RemoveWake(w) \/ RemoveDestroy(w)
           \/ RemoveCond(w)
  BY <1>2 DEF CreateTaken, CreateName, CreateBox, Reply, RemoveUnlock, RemoveWake, RemoveDestroy,
       RemoveCond
<1>3. CASE PubCount(w) \/ PubLock(w) \/ PubRead(w) \/ PubSignal(w) \/ PubUncount(w)
           \/ PubMiscount(w)
  BY <1>3 DEF PubCount, PubLock, PubRead, Crash, PubSignal, PubUncount, PubMiscount
<1>4. CASE SubCount(w) \/ Refuse(w) \/ SubLock(w) \/ SubWait(w) \/ SubSend(w)
           \/ WakeSpuriously(w)
  BY <1>4 DEF SubCount, Refuse, SubLock, SubWait, SubSend, Crash, WakeSpuriously
<1> QED
  BY <1>1, <1>2, <1>3, <1>4 DEF Step, Work, FSStep

LEMMA BoxFrame ==
  ASSUME NEW w \in Workers, Step(w), ~BoxStep(w)
  PROVE  UNCHANGED boxes
<1>1. CASE Begin(w) \/ ListSpot(w) \/ ListReply(w) \/ EmptySpot(w) \/ FindBox(w)
           \/ FindNothing(w) \/ Found(w) \/ CreateExists(w)
  BY <1>1 DEF Begin, ListSpot, ListReply, EmptySpot, FindBox, FindNothing, Crash, Found,
       CreateExists
<1>2. CASE CreateFile(w) \/ CreateClose(w) \/ Reply(w) \/ RemoveFile(w) \/ RemoveWake(w) \/ RemoveDestroy(w)
           \/ RemoveCond(w)
  BY <1>2 DEF CreateFile, CreateClose, Reply, RemoveFile, RemoveWake, RemoveDestroy, RemoveCond
<1>3. CASE PubOpen(w) \/ PubLock(w) \/ PubRead(w) \/ PubSignal(w)
           \/ PubClose(w, "pub_end", "pub_uncount") \/ PubClose(w, "pub_short", "pub_miscount")
  BY <1>3 DEF PubOpen, PubLock, PubRead, Crash, PubSignal, PubClose
<1>4. CASE SubOpen(w) \/ Refuse(w) \/ SubLock(w) \/ SubRead(w) \/ SubWait(w) \/ SubSend(w)
           \/ WakeSpuriously(w)
  BY <1>4 DEF SubOpen, Refuse, SubLock, SubRead, SubWait, SubSend, Crash, WakeSpuriously
<1> QED
  BY <1>1, <1>2, <1>3, <1>4 DEF Step, Work, BoxStep

LEMMA ClientFrame ==
  ASSUME NEW w \in Workers, Step(w), ~ClientStep(w)
  PROVE  UNCHANGED clientVars
<1>1. CASE Begin(w) \/ ListSpot(w) \/ EmptySpot(w) \/ FindBox(w)
           \/ FindNothing(w) \/ Found(w) \/ CreateExists(w)
  BY <1>1 DEF Begin, ListSpot, EmptySpot, FindBox, FindNothing, Crash, Found, CreateExists
<1>2. CASE CreateFile(w) \/ CreateTaken(w) \/ CreateName(w) \/ CreateBox(w) \/ CreateClose(w)
           \/ RemoveFile(w) \/ RemoveUnlock(w) \/ RemoveWake(w) \/ RemoveDestroy(w)
           \/ RemoveCond(w)
  BY <1>2 DEF CreateFile, CreateTaken, CreateName, CreateBox, CreateClose, RemoveFile,
       RemoveUnlock, RemoveWake, RemoveDestroy, RemoveCond
<1>3. CASE PubCount(w) \/ PubLock(w) \/ PubWrite(w) \/ PubSignal(w)
           \/ PubClose(w, "pub_end", "pub_uncount") \/ PubClose(w, "pub_short", "pub_miscount")
           \/ PubUncount(w) \/ PubMiscount(w)
  BY <1>3 DEF PubCount, PubLock, PubWrite, PubSignal, PubClose, PubUncount, PubMiscount
<1>4. CASE SubCount(w) \/ SubLock(w) \/ SubRead(w) \/ SubWait(w) \/ WakeSpuriously(w)
  BY <1>4 DEF SubCount, SubLock, SubRead, Crash, SubWait, WakeSpuriously
<1> QED
  BY <1>1, <1>2, <1>3, <1>4 DEF Step, Work, ClientStep

LEMMA RequestFrame ==
  ASSUME NEW w \in Workers, Step(w), ~Begin(w)
  PROVE  UNCHANGED requestVars
<1>1. CASE ListSpot(w) \/ ListReply(w) \/ EmptySpot(w) \/ FindBox(w)
           \/ FindNothing(w) \/ Found(w) \/ CreateExists(w)
  BY <1>1 DEF ListSpot, ListReply, EmptySpot, FindBox, FindNothing, Crash, Found, CreateExists
<1>2. CASE CreateFile(w) \/ CreateTaken(w) \/ CreateName(w) \/ CreateBox(w) \/ CreateClose(w)
           \/ Reply(w) \/ RemoveFile(w) \/ RemoveUnlock(w) \/ RemoveWake(w) \/ RemoveDestroy(w)
           \/ RemoveCond(w)
  BY <1>2 DEF CreateFile, CreateTaken, CreateName, CreateBox, CreateClose, Reply, RemoveFile,
       RemoveUnlock, RemoveWake, RemoveDestroy, RemoveCond
<1>3. CASE PubCount(w) \/ PubOpen(w) \/ PubLock(w) \/ PubRead(w) \/ PubWrite(w) \/ PubSignal(w)
           \/ PubClose(w, "pub_end", "pub_uncount") \/ PubClose(w, "pub_short", "pub_miscount")
           \/ PubUncount(w) \/ PubMiscount(w)
  BY <1>3 DEF PubCount, PubOpen, PubLock, PubRead, Crash, PubWrite, PubSignal, PubClose,
       PubUncount, PubMiscount
<1>4. CASE SubCount(w) \/ SubOpen(w) \/ Refuse(w) \/ SubLock(w) \/ SubRead(w) \/ SubWait(w)
           \/ SubSend(w) \/ WakeSpuriously(w)
  BY <1>4 DEF SubCount, SubOpen, Refuse, SubLock, SubRead, SubWait, SubSend, Crash,
       WakeSpuriously
<1> QED
  BY <1>1, <1>2, <1>3, <1>4 DEF Step, Work

\* A step is its worker's; it may wake another, or strand it.
Others(w) ==
  \A u \in Workers \ {w} :
    /\ loc'[u] = loc[u] /\ req'[u] = req[u]
    /\ pc'[u] # pc[u] => pc[u] = "asleep" /\ pc'[u] \in {"woken", "stranded"}

LEMMA OthersStep ==
  ASSUME BrokerTypeOK, NEW w \in Workers, Step(w)
  PROVE  Others(w)
<1> USE DEF Others, Goto
<1>t. /\ pc \in [Workers -> Labels]
      /\ DOMAIN loc = Workers /\ loc = [u \in Workers |-> loc[u]]
      /\ req \in [Workers -> Clients \cup {NoClient}]
  BY DEF BrokerTypeOK
<1>1. CASE Begin(w)
  BY <1>1, <1>t DEF Begin, Requests!Take
<1>2. CASE ~Begin(w)
  <2>1. req' = req
    BY <1>2, RequestFrame DEF requestVars
  <2> USE <1>t, <2>1
  <2>2. CASE EmptySpot(w) \/ FindBox(w) \/ ListSpot(w)
    BY <2>2 DEF EmptySpot, FindBox, ListSpot, ScanNext
  <2>3. CASE ListReply(w) \/ FindNothing(w) \/ Found(w) \/ CreateExists(w)
    BY <2>3 DEF ListReply, FindNothing, Crash, Found, CreateExists
  <2>4. CASE CreateFile(w) \/ CreateTaken(w) \/ CreateName(w) \/ CreateClose(w)
             \/ Reply(w) \/ RemoveFile(w) \/ RemoveUnlock(w) \/ RemoveDestroy(w) \/ RemoveCond(w)
    BY <2>4 DEF CreateFile, CreateTaken, CreateName, CreateClose, Reply, RemoveFile, RemoveUnlock,
         RemoveDestroy, RemoveCond
  <2>5. CASE CreateBox(w)
    BY <2>5 DEF CreateBox
  <2>6. CASE RemoveWake(w) \/ PubSignal(w)
    BY <2>6 DEF RemoveWake, PubSignal, Woken
  <2>7. CASE PubCount(w) \/ PubOpen(w) \/ PubLock(w) \/ PubRead(w) \/ PubWrite(w)
    BY <2>7 DEF PubCount, PubOpen, PubLock, PubRead, Crash, PubWrite
  <2>8. CASE \/ PubClose(w, "pub_end", "pub_uncount") \/ PubClose(w, "pub_short", "pub_miscount")
             \/ PubUncount(w) \/ PubMiscount(w)
    BY <2>8 DEF PubClose, PubUncount, PubMiscount
  <2>9. CASE SubCount(w) \/ SubOpen(w) \/ Refuse(w) \/ SubLock(w) \/ SubRead(w)
    BY <2>9 DEF SubCount, SubOpen, Refuse, SubLock, SubRead, Crash
  <2>10. CASE SubWait(w) \/ SubSend(w) \/ WakeSpuriously(w)
    BY <2>10 DEF SubWait, SubSend, Crash, WakeSpuriously
  <2> QED
    BY <1>2, <2>2, <2>3, <2>4, <2>5, <2>6, <2>7, <2>8, <2>9, <2>10 DEF Step, Work
<1> QED
  BY <1>1, <1>2

-----------------------------------------------------------------------------
(* Where a worker is, and what it knows there.                             *)

StepsOf ==
  [list       |-> {"list", "list_reply"},
   create     |-> {"empty", "find", "found", "exists", "create", "reply"} \cup CreateSection,
   remove     |-> {"unlink", "find", "found", "remove", "remove_wake", "remove_destroy",
                   "remove_cond", "reply"},
   publisher  |-> {"find", "found", "publish"} \cup PubSection,
   subscriber |-> {"find", "found", "subscribe", "sub_open", "refuse"} \cup SubFile]

OpenSteps == PubFile \cup SubFile \cup CreateSection
SpotSteps == {"found", "exists", "remove", "remove_wake", "remove_destroy", "remove_cond",
              "publish", "subscribe", "sub_open"}
  \cup PubSection \cup SubFile \cup CreateSection

\* A worker serves the request it took, with the spot and the file it has found.
Shape(w) ==
  pc[w] # "idle" =>
    /\ req[w] \in Clients /\ pc[w] \in StepsOf[Code(w)]
    /\ pc[w] \in OpenSteps => loc[w].fd \in Handles
    /\ pc[w] \in SpotSteps => loc[w].spot \in Spots
    /\ pc[w] = "list" => loc[w].reply.box_amount <= loc[w].i
    /\ pc[w] = "pub_write" => loc[w].buffer \in Seq(Message) /\ Len(loc[w].buffer) <= Buffer

BrokerInv == BrokerTypeOK /\ FSInv /\ \A w \in Workers : Shape(w)

LocType == [free : Spots \cup {-1}, spot : Spots \cup {-1}, i : Spots,
            fd : Handles \cup {-1}, buffer : Seq(Message \cup {NoCell}), n : -1 .. Buffer,
            reply : [box_amount : 0 .. MAX_BOX_NUMBER, boxes : [Spots -> ListedBox]]]

LEMMA CodeType ==
  ASSUME NEW c \in Clients
  PROVE  /\ Request[c].code \in Codes /\ Request[c].box \in Names
         /\ \A x : x \in StepsOf[Request[c].code] => x \in Labels \ {"idle"}
<1>1. Request[c].code \in Codes /\ Request[c].box \in Names
  BY ClientsAssumption
<1>2. \A code \in Codes : \A x : x \in StepsOf[code] => x \in Labels \ {"idle"}
  BY DEF Codes, StepsOf, Labels, CreateSection, PubSection, PubFile, SubFile, ManagerSteps
<1> QED
  BY <1>1, <1>2

\* The code of the request that a worker serves follows from where it is.
LEMMA CodeAt ==
  ASSUME NEW w \in Workers, Shape(w), pc[w] # "idle"
  PROVE  /\ req[w] \in Clients /\ Name(w) \in Names /\ Code(w) \in Codes
         /\ pc[w] \in {"list", "list_reply"} <=> Code(w) = "list"
         /\ pc[w] \in {"empty", "exists", "create"} \cup CreateSection => Code(w) = "create"
         /\ pc[w] \in {"unlink", "remove", "remove_wake", "remove_destroy", "remove_cond"} => Code(w) = "remove"
         /\ pc[w] \in {"publish"} \cup PubSection => Code(w) = "publisher"
         /\ pc[w] \in {"subscribe", "sub_open", "refuse"} \cup SubFile => Code(w) = "subscriber"
         /\ pc[w] = "reply" => Code(w) \in {"create", "remove"}
<1>1. req[w] \in Clients /\ pc[w] \in StepsOf[Code(w)]
  BY DEF Shape
<1>2. Code(w) \in Codes /\ Name(w) \in Names
  BY <1>1, CodeType DEF Code, Name
<1>3. \A code \in Codes : pc[w] \in StepsOf[code] =>
         /\ pc[w] \in {"list", "list_reply"} <=> code = "list"
         /\ pc[w] \in {"empty", "exists", "create"} \cup CreateSection => code = "create"
         /\ pc[w] \in {"unlink", "remove", "remove_wake", "remove_destroy", "remove_cond"} => code = "remove"
         /\ pc[w] \in {"publish"} \cup PubSection => code = "publisher"
         /\ pc[w] \in {"subscribe", "sub_open", "refuse"} \cup SubFile => code = "subscriber"
         /\ pc[w] = "reply" => code \in {"create", "remove"}
  BY DEF Codes, StepsOf, CreateSection, PubSection, PubFile, SubFile
<1> QED
  BY <1>1, <1>2, <1>3

LEMMA LocFields ==
  ASSUME NEW w \in Workers, NEW f \in [Workers -> LocType]
  PROVE  /\ \A x \in Spots \cup {-1} : [f EXCEPT ![w].free = x] \in [Workers -> LocType]
         /\ \A x \in Spots \cup {-1} : [f EXCEPT ![w].spot = x] \in [Workers -> LocType]
         /\ \A x \in Spots : [f EXCEPT ![w].i = x] \in [Workers -> LocType]
         /\ \A x \in Handles \cup {-1} : [f EXCEPT ![w].fd = x] \in [Workers -> LocType]
         /\ \A x \in Seq(Message \cup {NoCell}) :
              [f EXCEPT ![w].buffer = x] \in [Workers -> LocType]
         /\ \A x \in -1 .. Buffer : [f EXCEPT ![w].n = x] \in [Workers -> LocType]
<1>1. f[w] \in LocType
  OBVIOUS
<1>2. \A x \in Spots \cup {-1} : [f EXCEPT ![w].free = x] \in [Workers -> LocType]
  BY <1>1 DEF LocType
<1>3. \A x \in Spots \cup {-1} : [f EXCEPT ![w].spot = x] \in [Workers -> LocType]
  BY <1>1 DEF LocType
<1>4. \A x \in Spots : [f EXCEPT ![w].i = x] \in [Workers -> LocType]
  BY <1>1 DEF LocType
<1>5. \A x \in Handles \cup {-1} : [f EXCEPT ![w].fd = x] \in [Workers -> LocType]
  BY <1>1 DEF LocType
<1>6. \A x \in Seq(Message \cup {NoCell}) : [f EXCEPT ![w].buffer = x] \in [Workers -> LocType]
  BY <1>1 DEF LocType
<1>7. \A x \in -1 .. Buffer : [f EXCEPT ![w].n = x] \in [Workers -> LocType]
  BY <1>1 DEF LocType
<1> QED
  BY <1>2, <1>3, <1>4, <1>5, <1>6, <1>7

\* A step of a request that is being served, from what it needs to what it gives.
LEMMA ShapeGoes ==
  ASSUME NEW w \in Workers, Shape(w), pc[w] # "idle", req'[w] = req[w],
         pc'[w] # "idle" =>
           /\ pc'[w] \in StepsOf[Code(w)]
           /\ pc'[w] \in OpenSteps => loc'[w].fd \in Handles
           /\ pc'[w] \in SpotSteps => loc'[w].spot \in Spots
           /\ pc'[w] = "list" => loc'[w].reply.box_amount <= loc'[w].i
           /\ pc'[w] = "pub_write" =>
                loc'[w].buffer \in Seq(Message) /\ Len(loc'[w].buffer) <= Buffer
  PROVE  Shape(w)'
BY DEF Shape, Code

\* The same when only the place changes.
LEMMA ShapeMoves ==
  ASSUME NEW w \in Workers, Shape(w), pc[w] # "idle",
         req'[w] = req[w], loc'[w].fd = loc[w].fd, loc'[w].spot = loc[w].spot,
         pc'[w] # "idle" =>
           /\ pc'[w] \in StepsOf[Code(w)]
           /\ pc'[w] \in OpenSteps => pc[w] \in OpenSteps
           /\ pc'[w] \in SpotSteps => pc[w] \in SpotSteps
           /\ pc'[w] \notin {"list", "pub_write"}
  PROVE  Shape(w)'
BY DEF Shape, Code

LEMMA NoLocType == NoLoc \in LocType /\ NoLoc.i = 0 /\ NoLoc.reply.box_amount = 0
<1>1. 0 \in Spots /\ 0 \in 0 .. MAX_BOX_NUMBER /\ 0 \in -1 .. Buffer /\ 0 \in 0 .. SizeT - 1
  BY BrokerAssumption, FSAssumption DEF Spots
<1>2. <<>> \in Seq(Message \cup {NoCell})
  BY EmptySeq
<1>3. NoReply \in [box_amount : 0 .. MAX_BOX_NUMBER, boxes : [Spots -> ListedBox]]
  BY <1>1 DEF NoReply, ListedBox
<1> QED
  BY <1>1, <1>2, <1>3 DEF NoLoc, LocType, NoReply

LEMMA BeginShape ==
  ASSUME BrokerInv, NEW w \in Workers, Begin(w)
  PROVE  /\ req' \in [Workers -> Clients \cup {NoClient}] /\ queue' \in Seq(Clients)
         /\ pc' \in [Workers -> Labels] /\ loc' \in [Workers -> LocType] /\ Shape(w)'
<1>1. /\ queue \in Seq(Clients) /\ req \in [Workers -> Clients \cup {NoClient}]
      /\ pc \in [Workers -> Labels] /\ loc \in [Workers -> LocType]
  BY DEF BrokerInv, BrokerTypeOK, LocType
<1>2. /\ queue # <<>> /\ req' = [req EXCEPT ![w] = Head(queue)] /\ queue' = Tail(queue)
  BY DEF Begin, Requests!Take
<1>3. PICK c \in Clients : c = Head(queue)
  BY <1>1, <1>2
<1>4. PICK code \in Codes : code = Request[c].code
  BY CodeType
<1>5. FirstStep[code] \in StepsOf[code] /\ FirstStep[code] \in {"empty", "unlink", "list", "find"}
  BY DEF Codes, FirstStep, StepsOf
<1>6. pc' = [pc EXCEPT ![w] = FirstStep[code]] /\ loc' = [loc EXCEPT ![w] = NoLoc]
  BY <1>3, <1>4 DEF Begin, Goto
<1>7. FirstStep[code] \in Labels
  BY <1>5 DEF Labels, ManagerSteps
<1>8. req'[w] = c /\ pc'[w] = FirstStep[code] /\ loc'[w] = NoLoc
  BY <1>1, <1>2, <1>3, <1>6
<1>9. pc'[w] \notin OpenSteps \cup SpotSteps
  BY <1>5, <1>8 DEF OpenSteps, SpotSteps, CreateSection, PubSection, PubFile, SubFile
<1>10. Shape(w)'
  BY <1>3, <1>4, <1>5, <1>8, <1>9, NoLocType DEF Shape, Code
<1> QED
  BY <1>1, <1>2, <1>3, <1>6, <1>7, <1>10, NoLocType

\* The loops over boxes.
LEMMA ScanShape ==
  ASSUME BrokerInv, NEW w \in Workers, EmptySpot(w) \/ FindBox(w) \/ ListSpot(w)
  PROVE  pc' \in [Workers -> Labels] /\ loc' \in [Workers -> LocType] /\ Shape(w)'
<1>1. /\ pc \in [Workers -> Labels] /\ loc \in [Workers -> LocType] /\ Shape(w)
      /\ boxes \in [Spots -> [taken : BOOLEAN, box_name : Names \cup {NoName},
           n_publishers : 0 .. SizeT - 1, n_subscribers : 0 .. SizeT - 1,
           box_size : 0 .. SizeT - 1]]
  BY DEF BrokerInv, BrokerTypeOK, LocType
<1>2. req' = req
  BY DEF EmptySpot, FindBox, ListSpot, requestVars
<1>3. loc[w] \in LocType /\ loc[w].i \in Spots /\ loc[w].i \in Nat
  <2>1. loc[w] \in LocType
    BY <1>1
  <2>2. loc[w].i \in Spots
    BY <2>1 DEF LocType
  <2> QED
    BY <2>1, <2>2, BrokerAssumption DEF Spots
<1>4. ASSUME ~LastSpot(w) PROVE loc[w].i + 1 \in Spots
  BY <1>3, <1>4, BrokerAssumption DEF LastSpot, Spots
<1>5. 0 \in Spots
  BY BrokerAssumption DEF Spots
<1>6. CASE EmptySpot(w)
  <2>1. pc[w] = "empty" /\ Code(w) = "create"
    BY <1>1, <1>6, CodeAt DEF EmptySpot, At
  <2>2. CASE ScanNext(w) /\ ~LastSpot(w)
    <3>1. loc' = [loc EXCEPT ![w].i = loc[w].i + 1] /\ pc' = pc
      BY <2>2 DEF ScanNext
    <3>2. loc' \in [Workers -> LocType]
      BY <1>1, <1>4, <2>2, <3>1, LocFields
    <3>3. loc'[w].fd = loc[w].fd /\ loc'[w].spot = loc[w].spot
      BY <1>1, <3>1 DEF LocType
    <3>4. Shape(w)'
      BY <1>1, <1>2, <2>1, <3>1, <3>3, ShapeMoves DEF Shape
    <3> QED
      BY <1>1, <3>1, <3>2, <3>4
  <2>3. CASE ~(ScanNext(w) /\ ~LastSpot(w))
    <3>1. PICK x \in Spots \cup {-1} : loc' = [loc EXCEPT ![w].free = x, ![w].i = 0]
      BY <1>3, <1>6, <2>3 DEF EmptySpot
    <3>2. pc' = [pc EXCEPT ![w] = "find"]
      BY <1>6, <2>3 DEF EmptySpot, Goto
    <3>3. loc' \in [Workers -> LocType] /\ loc'[w].fd = loc[w].fd /\ loc'[w].spot = loc[w].spot
      <4>1. PICK f : f = [loc EXCEPT ![w].free = x]
        OBVIOUS
      <4>2. f \in [Workers -> LocType]
        BY <1>1, <4>1, LocFields
      <4>3. loc' = [f EXCEPT ![w].i = 0]
        BY <3>1, <4>1
      <4>4. loc' \in [Workers -> LocType]
        BY <1>5, <4>2, <4>3, LocFields
      <4> QED
        BY <1>1, <1>3, <3>1, <4>4 DEF LocType
    <3>4. "find" \in Labels /\ "find" \in StepsOf["create"] /\ "find" \notin OpenSteps \cup SpotSteps
      BY DEF Labels, StepsOf, OpenSteps, SpotSteps, CreateSection, PubSection, PubFile, SubFile
    <3>5. Shape(w)'
      BY <1>1, <1>2, <2>1, <3>2, <3>3, <3>4, ShapeMoves
    <3> QED
      BY <1>1, <3>2, <3>3, <3>4, <3>5
  <2> QED
    BY <2>2, <2>3
<1>7. CASE FindBox(w)
  <2>1. pc[w] = "find" /\ Code(w) \in Codes \ {"list"}
    BY <1>1, <1>7, CodeAt DEF FindBox, At
  <2>2. CASE ScanNext(w) /\ ~LastSpot(w)
    <3>1. loc' = [loc EXCEPT ![w].i = loc[w].i + 1] /\ pc' = pc
      BY <2>2 DEF ScanNext
    <3>2. loc' \in [Workers -> LocType]
      BY <1>1, <1>4, <2>2, <3>1, LocFields
    <3>3. loc'[w].fd = loc[w].fd /\ loc'[w].spot = loc[w].spot
      BY <1>1, <3>1 DEF LocType
    <3>4. Shape(w)'
      BY <1>1, <1>2, <2>1, <3>1, <3>3, ShapeMoves DEF Shape
    <3> QED
      BY <1>1, <3>1, <3>2, <3>4
  <2>3. CASE Goto(w, "found") /\ loc' = [loc EXCEPT ![w].spot = loc[w].i]
    <3>1. loc' \in [Workers -> LocType] /\ loc'[w].spot \in Spots
      BY <1>1, <1>3, <2>3 DEF LocType
    <3>2. \A code \in Codes \ {"list"} : "found" \in StepsOf[code]
      BY DEF Codes, StepsOf
    <3>3. "found" \in Labels /\ "found" \notin OpenSteps
      BY DEF Labels, OpenSteps, CreateSection, PubFile, SubFile
    <3>4. pc' = [pc EXCEPT ![w] = "found"] /\ pc'[w] = "found"
      BY <1>1, <2>3 DEF Goto
    <3>5. Shape(w)'
      BY <1>1, <1>2, <2>1, <3>1, <3>2, <3>3, <3>4, ShapeGoes
    <3> QED
      BY <1>1, <3>1, <3>3, <3>4, <3>5
  <2>4. CASE Goto(w, MissStep[Code(w)]) /\ UNCHANGED loc /\ Code(w) # "remove"
    <3>1. PICK code \in {"create", "publisher", "subscriber"} : code = Code(w)
      BY <2>1, <2>4 DEF Codes
    <3>2. /\ MissStep[code] \in {"idle", "create", "refuse"}
          /\ MissStep[code] # "idle" => MissStep[code] \in StepsOf[code]
      BY DEF MissStep, StepsOf
    <3>3. MissStep[code] \in Labels /\ MissStep[code] \notin OpenSteps \cup SpotSteps
      BY <3>2 DEF Labels, ManagerSteps, OpenSteps, SpotSteps, CreateSection, PubSection, PubFile,
           SubFile
    <3>4. pc' = [pc EXCEPT ![w] = MissStep[code]] /\ pc'[w] = MissStep[code]
      BY <1>1, <2>4, <3>1 DEF Goto
    <3>5. Shape(w)'
      BY <1>1, <1>2, <2>1, <2>4, <3>1, <3>2, <3>3, <3>4, ShapeMoves
    <3> QED
      BY <1>1, <2>4, <3>3, <3>4, <3>5
  <2> QED
    BY <1>7, <2>2, <2>3, <2>4 DEF FindBox
<1>8. CASE ListSpot(w)
  <2> DEFINE s == loc[w].i
             reply == IF boxes[s].taken
                      THEN [box_amount |-> loc[w].reply.box_amount + 1,
                            boxes |-> [loc[w].reply.boxes EXCEPT ![s] = BoxOf(s)]]
                      ELSE loc[w].reply
             next == IF LastSpot(w) THEN 0 ELSE s + 1
  <2>1. pc[w] = "list" /\ Code(w) = "list" /\ loc[w].reply.box_amount <= s
    BY <1>1, <1>8, CodeAt DEF ListSpot, At, Shape
  <2>2. next \in Spots
    BY <1>4, <1>5
  <2>3. /\ loc[w].reply \in [box_amount : 0 .. MAX_BOX_NUMBER, boxes : [Spots -> ListedBox]]
        /\ loc[w].reply.box_amount + 1 \in 0 .. MAX_BOX_NUMBER
    BY <1>3, <2>1, BrokerAssumption DEF LocType, Spots
  <2>4. BoxOf(s) \in ListedBox
    BY <1>1, <1>3 DEF BoxOf, ListedBox
  <2>5. /\ reply \in [box_amount : 0 .. MAX_BOX_NUMBER, boxes : [Spots -> ListedBox]]
        /\ reply.box_amount <= s + 1
    <3>1. CASE boxes[s].taken
      BY <1>3, <2>1, <2>3, <2>4, <3>1
    <3>2. CASE ~boxes[s].taken
      BY <1>3, <2>1, <2>3, <3>2, BrokerAssumption
    <3> QED
      BY <3>1, <3>2
  <2>6. loc' = [loc EXCEPT ![w].reply = reply, ![w].i = next]
    BY <1>8 DEF ListSpot
  <2>7. pc' = [pc EXCEPT ![w] = IF LastSpot(w) THEN "list_reply" ELSE "list"]
    BY <1>8 DEF ListSpot, Goto
  <2> HIDE DEF reply, next
  <2>8. loc' \in [Workers -> LocType] /\ loc'[w].reply = reply /\ loc'[w].i = next
    <3>1. PICK f : f = [loc EXCEPT ![w].reply = reply]
      OBVIOUS
    <3>2. f \in [Workers -> LocType] /\ f[w].reply = reply
      BY <1>1, <1>3, <2>5, <3>1 DEF LocType
    <3>3. loc' = [f EXCEPT ![w].i = next]
      BY <2>6, <3>1
    <3>4. loc' \in [Workers -> LocType]
      BY <2>2, <3>2, <3>3, LocFields
    <3>5. f[w] \in LocType
      BY <3>2
    <3> QED
      BY <3>2, <3>3, <3>4, <3>5 DEF LocType
  <2>9. {"list", "list_reply"} \subseteq Labels
    BY DEF Labels, ManagerSteps
  <2>10. /\ {"list", "list_reply"} = StepsOf["list"]
         /\ {"list", "list_reply"} \cap (OpenSteps \cup SpotSteps) = {}
    BY DEF StepsOf, OpenSteps, SpotSteps, CreateSection, PubSection, PubFile, SubFile
  <2>11. pc'[w] = IF LastSpot(w) THEN "list_reply" ELSE "list"
    BY <1>1, <2>7
  <2>12. ~LastSpot(w) => next = s + 1
    BY DEF next
  <2>13. Shape(w)'
    BY <1>1, <1>2, <2>1, <2>5, <2>8, <2>10, <2>11, <2>12, ShapeGoes
  <2> QED
    BY <1>1, <2>7, <2>8, <2>9, <2>13
<1> QED
  BY <1>6, <1>7, <1>8

\* A step that goes from one place to another and leaves the locals.
LEMMA GotoShape ==
  ASSUME BrokerInv, NEW w \in Workers, NEW to, pc[w] # "idle",
         req' = req, loc' = loc, pc' = [pc EXCEPT ![w] = to],
         \/ to = "idle"
         \/ /\ to \in StepsOf[Code(w)] /\ to \notin {"list", "pub_write"}
            /\ to \in OpenSteps => pc[w] \in OpenSteps
            /\ to \in SpotSteps => pc[w] \in SpotSteps
  PROVE  pc' \in [Workers -> Labels] /\ loc' \in [Workers -> LocType] /\ Shape(w)'
<1>1. pc \in [Workers -> Labels] /\ loc \in [Workers -> LocType] /\ Shape(w)
  BY DEF BrokerInv, BrokerTypeOK, LocType
<1>2. pc'[w] = to
  BY <1>1
<1>3. to \in Labels
  <2>1. req[w] \in Clients
    BY <1>1 DEF Shape
  <2>2. to \in StepsOf[Code(w)] => to \in Labels
    BY <2>1, CodeType DEF Code
  <2> QED
    BY <2>2 DEF Labels
<1>4. Shape(w)'
  BY <1>1, <1>2, ShapeMoves
<1> QED
  BY <1>1, <1>3, <1>4

\* A step that ends the broker.
LEMMA CrashShape ==
  ASSUME BrokerInv, NEW w \in Workers, Crash
  PROVE  pc' \in [Workers -> Labels] /\ loc' \in [Workers -> LocType] /\ Shape(w)'
<1>1. pc \in [Workers -> Labels] /\ loc \in [Workers -> LocType] /\ Shape(w)
  BY DEF BrokerInv, BrokerTypeOK, LocType
<1>2. pc' = pc /\ loc' = loc /\ req' = req
  BY DEF Crash, requestVars
<1> QED
  BY <1>1, <1>2 DEF Shape, Code

LEMMA ManagerShape ==
  ASSUME BrokerInv, NEW w \in Workers,
         \/ ListReply(w) \/ FindNothing(w) \/ Found(w) \/ CreateExists(w) \/ CreateTaken(w)
         \/ CreateName(w) \/ CreateClose(w) \/ Reply(w) \/ RemoveFile(w) \/ RemoveUnlock(w)
         \/ RemoveDestroy(w) \/ RemoveCond(w)
  PROVE  pc' \in [Workers -> Labels] /\ loc' \in [Workers -> LocType] /\ Shape(w)'
<1>1. pc \in [Workers -> Labels] /\ Shape(w)
  BY DEF BrokerInv, BrokerTypeOK
<1> DEFINE Goes(to) == /\ req' = req /\ loc' = loc /\ pc[w] # "idle"
                       /\ pc' = [pc EXCEPT ![w] = to]
<1> USE DEF OpenSteps, SpotSteps, CreateSection, PubSection, PubFile, SubFile
<1>2. CASE FindNothing(w)
  BY <1>2, CrashShape DEF FindNothing
<1>3. CASE ListReply(w) \/ Reply(w)
  <2>1. Goes("idle")
    BY <1>3 DEF ListReply, Reply, At, Goto, requestVars
  <2> QED
    BY <2>1, GotoShape
<1>4. CASE Found(w)
  <2>1. pc[w] = "found" /\ req[w] \in Clients /\ "found" \in StepsOf[Code(w)]
    BY <1>1, <1>4 DEF Found, At, Shape
  <2>2. PICK code \in Codes : code = Code(w)
    BY <2>1, CodeType DEF Code
  <2>3. code # "list"
    BY <2>1, <2>2 DEF Codes, StepsOf
  <2>4. /\ HitStep[code] \in StepsOf[code]
        /\ HitStep[code] \in {"exists", "remove", "publish", "subscribe"}
    BY <2>2, <2>3 DEF Codes, HitStep, StepsOf
  <2>5. PICK to : to = HitStep[code]
    OBVIOUS
  <2>6. Goes(to)
    BY <1>4, <2>1, <2>2, <2>5 DEF Found, Goto, requestVars
  <2> QED
    BY <2>1, <2>2, <2>4, <2>5, <2>6, GotoShape
<1>5. CASE CreateExists(w) \/ CreateClose(w)
  <2>1. Goes("reply") /\ Code(w) = "create"
    BY <1>1, <1>5, CodeAt DEF CreateExists, CreateClose, At, Goto, requestVars
  <2>2. "reply" \in StepsOf["create"]
    BY DEF StepsOf
  <2> QED
    BY <2>1, <2>2, GotoShape
<1>6. CASE CreateTaken(w) \/ CreateName(w)
  <2>1. PICK to \in {"create_name", "create_box"} :
          Goes(to) /\ Code(w) = "create" /\ pc[w] \in CreateSection
    BY <1>1, <1>6, CodeAt DEF CreateTaken, CreateName, At, Goto, requestVars
  <2>2. to \in StepsOf["create"]
    BY DEF StepsOf
  <2> QED
    BY <2>1, <2>2, GotoShape
<1>7. CASE RemoveFile(w)
  <2>1. PICK to \in {"reply", "find"} : Goes(to) /\ Code(w) = "remove"
    BY <1>1, <1>7, CodeAt DEF RemoveFile, At, Goto, requestVars
  <2>2. to \in StepsOf["remove"]
    BY DEF StepsOf
  <2> QED
    BY <2>1, <2>2, GotoShape
<1>8. CASE RemoveUnlock(w) \/ RemoveDestroy(w) \/ RemoveCond(w)
  <2>1. PICK to \in {"remove_wake", "remove_cond", "reply"} :
          Goes(to) /\ Code(w) = "remove" /\ pc[w] \in {"remove", "remove_destroy", "remove_cond"}
    BY <1>1, <1>8, CodeAt DEF RemoveUnlock, RemoveDestroy, RemoveCond, At, Goto, requestVars
  <2>2. to \in StepsOf["remove"]
    BY DEF StepsOf
  <2> QED
    BY <2>1, <2>2, GotoShape
<1> QED
  BY <1>2, <1>3, <1>4, <1>5, <1>6, <1>7, <1>8

LEMMA SessionShape ==
  ASSUME BrokerInv, NEW w \in Workers,
         \/ PubCount(w) \/ PubLock(w)
         \/ PubClose(w, "pub_end", "pub_uncount") \/ PubClose(w, "pub_short", "pub_miscount")
         \/ PubUncount(w) \/ PubMiscount(w)
         \/ SubCount(w) \/ Refuse(w) \/ SubLock(w) \/ SubWait(w) \/ SubSend(w)
         \/ WakeSpuriously(w)
  PROVE  pc' \in [Workers -> Labels] /\ loc' \in [Workers -> LocType] /\ Shape(w)'
<1>1. pc \in [Workers -> Labels] /\ Shape(w)
  BY DEF BrokerInv, BrokerTypeOK
<1> DEFINE Goes(to) == /\ req' = req /\ loc' = loc /\ pc[w] # "idle"
                       /\ pc' = [pc EXCEPT ![w] = to]
<1> USE DEF OpenSteps, SpotSteps, CreateSection, PubSection, PubFile, SubFile
<1>2. CASE PubUncount(w) \/ PubMiscount(w) \/ Refuse(w)
  <2>1. Goes("idle")
    BY <1>2 DEF PubUncount, PubMiscount, Refuse, At, Goto, requestVars
  <2> QED
    BY <2>1, GotoShape
<1>3. CASE PubCount(w)
  <2>1. PICK to \in {"pub_open", "idle"} : Goes(to) /\ Code(w) = "publisher" /\ pc[w] = "publish"
    BY <1>1, <1>3, CodeAt DEF PubCount, At, Goto, requestVars
  <2>2. "pub_open" \in StepsOf["publisher"]
    BY DEF StepsOf
  <2> QED
    BY <2>1, <2>2, GotoShape
<1>4. CASE \/ PubLock(w) \/ PubClose(w, "pub_end", "pub_uncount")
           \/ PubClose(w, "pub_short", "pub_miscount")
  <2>1. PICK to \in {"pub_read", "pub_uncount", "pub_miscount"} :
          Goes(to) /\ Code(w) = "publisher" /\ pc[w] \in {"pub_lock", "pub_end", "pub_short"}
    BY <1>1, <1>4, CodeAt DEF PubLock, PubClose, At, Goto, requestVars
  <2>2. to \in StepsOf["publisher"]
    BY DEF StepsOf
  <2> QED
    BY <2>1, <2>2, GotoShape
<1>5. CASE SubCount(w)
  <2>1. Goes("sub_open") /\ Code(w) = "subscriber" /\ pc[w] = "subscribe"
    BY <1>1, <1>5, CodeAt DEF SubCount, At, Goto, requestVars
  <2>2. "sub_open" \in StepsOf["subscriber"]
    BY DEF StepsOf
  <2> QED
    BY <2>1, <2>2, GotoShape
<1>6. CASE SubSend(w) /\ Crash
  BY <1>6, CrashShape
<1>7. CASE SubLock(w) \/ SubWait(w) \/ WakeSpuriously(w) \/ (SubSend(w) /\ ~Crash)
  <2>1. PICK to \in {"sub_read", "asleep", "woken"} :
          Goes(to) /\ Code(w) = "subscriber" /\ pc[w] \in SubFile
    <3>1. CASE SubLock(w)
      BY <1>1, <3>1, CodeAt DEF SubLock, Goto, requestVars
    <3>2. CASE SubWait(w)
      BY <1>1, <3>2, CodeAt DEF SubWait, At, Goto, requestVars
    <3>3. CASE WakeSpuriously(w)
      BY <1>1, <3>3, CodeAt DEF WakeSpuriously, Goto, requestVars
    <3>4. CASE SubSend(w) /\ ~Crash
      BY <1>1, <3>4, CodeAt DEF SubSend, At, Goto, requestVars
    <3> QED
      BY <1>7, <3>1, <3>2, <3>3, <3>4
  <2>2. to \in StepsOf["subscriber"]
    BY DEF StepsOf
  <2> QED
    BY <2>1, <2>2, GotoShape
<1> QED
  BY <1>2, <1>3, <1>4, <1>5, <1>6, <1>7

\* The steps that open a file.
LEMMA OpenShape ==
  ASSUME BrokerInv, NEW w \in Workers, CreateFile(w) \/ PubOpen(w) \/ SubOpen(w)
  PROVE  pc' \in [Workers -> Labels] /\ loc' \in [Workers -> LocType] /\ Shape(w)'
<1>1. pc \in [Workers -> Labels] /\ loc \in [Workers -> LocType] /\ Shape(w)
  BY DEF BrokerInv, BrokerTypeOK, LocType
<1>2. req' = req
  BY DEF CreateFile, PubOpen, SubOpen, requestVars
<1>3. loc[w] \in LocType
  BY <1>1
<1>4. loc[w].free \in Spots \cup {-1} /\ loc[w].spot \in Spots \cup {-1}
  BY <1>3 DEF LocType
<1> USE DEF OpenSteps, SpotSteps, CreateSection, PubSection, PubFile, SubFile
<1>5. CASE CreateFile(w)
  <2>1. pc[w] = "create" /\ Code(w) = "create"
    BY <1>1, <1>5, CodeAt DEF CreateFile, At
  <2>2. {"reply", "create_taken"} \subseteq StepsOf["create"]
    BY DEF StepsOf
  <2>3. CASE Goto(w, "reply") /\ UNCHANGED loc
    BY <1>2, <2>1, <2>2, <2>3, GotoShape DEF Goto
  <2>4. CASE \E fd \in Handles \cup {-1} :
               /\ loc[w].free # -1
               /\ Goto(w, IF fd = -1 THEN "reply" ELSE "create_taken")
               /\ loc' = [loc EXCEPT ![w].fd = fd, ![w].spot = loc[w].free]
    <3>1. PICK fd \in Handles \cup {-1} :
               /\ loc[w].free # -1
               /\ Goto(w, IF fd = -1 THEN "reply" ELSE "create_taken")
               /\ loc' = [loc EXCEPT ![w].fd = fd, ![w].spot = loc[w].free]
      BY <2>4
    <3>2. PICK f : f = [loc EXCEPT ![w].fd = fd]
      OBVIOUS
    <3>3. f \in [Workers -> LocType] /\ f[w].fd = fd
      <4>1. f \in [Workers -> LocType]
        BY <1>1, <3>2, LocFields
      <4> QED
        BY <1>1, <3>2, <4>1 DEF LocType
    <3>4. PICK x \in Spots : x = loc[w].free
      BY <1>4, <3>1
    <3>5. loc' = [f EXCEPT ![w].spot = x]
      BY <3>1, <3>2, <3>4
    <3>6. loc' \in [Workers -> LocType]
      BY <3>3, <3>5, LocFields
    <3>7. loc'[w].fd = fd /\ loc'[w].spot = x
      <4>1. f[w] \in LocType
        BY <3>3
      <4> QED
        BY <3>3, <3>5, <4>1 DEF LocType
    <3>8. PICK to \in {"reply", "create_taken"} :
            pc' = [pc EXCEPT ![w] = to] /\ (to = "create_taken" => fd # -1)
      BY <3>1 DEF Goto
    <3>9. to \in Labels
      BY DEF Labels, ManagerSteps
    <3>10. pc'[w] = to
      BY <1>1, <3>8
    <3>11. Shape(w)'
      BY <1>1, <1>2, <2>1, <2>2, <3>4, <3>7, <3>8, <3>10, ShapeGoes
    <3> QED
      BY <1>1, <3>6, <3>8, <3>9, <3>11
  <2> QED
    BY <1>5, <2>3, <2>4 DEF CreateFile
<1>6. CASE PubOpen(w) \/ SubOpen(w)
  <2>1. PICK fd \in Handles \cup {-1}, to \in {"idle", "pub_lock", "refuse", "sub_lock"} :
          /\ loc' = [loc EXCEPT ![w].fd = fd]
          /\ pc' = [pc EXCEPT ![w] = to]
          /\ to \in {"pub_lock", "sub_lock"} => fd # -1
          /\ Code(w) = "publisher" => to \in {"idle", "pub_lock"}
          /\ Code(w) = "subscriber" => to \in {"refuse", "sub_lock"}
          /\ Code(w) \in {"publisher", "subscriber"}
    <3>1. CASE PubOpen(w)
      BY <1>1, <3>1, CodeAt DEF PubOpen, At, Goto
    <3>2. CASE SubOpen(w)
      BY <1>1, <3>2, CodeAt DEF SubOpen, At, Goto
    <3> QED
      BY <1>6, <3>1, <3>2
  <2>2. loc' \in [Workers -> LocType]
    BY <1>1, <2>1, LocFields
  <2>3. loc'[w].fd = fd /\ loc'[w].spot = loc[w].spot
    BY <1>1, <1>3, <2>1 DEF LocType
  <2>4. pc[w] \in {"pub_open", "sub_open"} /\ loc[w].spot \in Spots
    BY <1>1, <1>6 DEF PubOpen, SubOpen, At, Shape
  <2>5. /\ "pub_lock" \in StepsOf["publisher"]
        /\ {"refuse", "sub_lock"} \subseteq StepsOf["subscriber"]
    BY DEF StepsOf
  <2>6. pc'[w] = to
    BY <1>1, <2>1
  <2>7. Shape(w)'
    BY <1>1, <1>2, <2>1, <2>3, <2>4, <2>5, <2>6, ShapeGoes
  <2>8. to \in Labels
    BY DEF Labels, PubSection
  <2> QED
    BY <1>1, <2>1, <2>2, <2>7, <2>8
<1> QED
  BY <1>5, <1>6

\* The steps that wake or strand other workers.
LEMMA WakeShape ==
  ASSUME BrokerInv, NEW w \in Workers, CreateBox(w) \/ RemoveWake(w) \/ PubSignal(w)
  PROVE  pc' \in [Workers -> Labels] /\ loc' \in [Workers -> LocType] /\ Shape(w)'
<1>1. pc \in [Workers -> Labels] /\ loc \in [Workers -> LocType] /\ Shape(w)
  BY DEF BrokerInv, BrokerTypeOK, LocType
<1>2. req' = req /\ loc' = loc
  BY DEF CreateBox, RemoveWake, PubSignal, requestVars
<1> USE DEF OpenSteps, SpotSteps, CreateSection, PubSection, PubFile, SubFile
<1>3. PICK to \in {"create_close", "remove_destroy", "pub_short", "pub_end", "pub_read"} :
        /\ pc'[w] = to /\ pc[w] # "idle" /\ to \in StepsOf[Code(w)]
        /\ to \in OpenSteps => pc[w] \in OpenSteps
        /\ to \in SpotSteps => pc[w] \in SpotSteps
  <2>1. CASE CreateBox(w)
    BY <1>1, <2>1, CodeAt DEF CreateBox, At, StepsOf
  <2>2. CASE RemoveWake(w)
    <3>1. Code(w) = "remove" /\ pc[w] = "remove_wake"
      BY <1>1, <2>2, CodeAt DEF RemoveWake, At
    <3>2. pc'[w] = "remove_destroy"
      BY <2>2 DEF RemoveWake, Woken
    <3> QED
      BY <3>1, <3>2 DEF StepsOf
  <2>3. CASE PubSignal(w)
    <3>1. Code(w) = "publisher" /\ pc[w] = "pub_signal"
      BY <1>1, <2>3, CodeAt DEF PubSignal, At
    <3>2. pc'[w] \in {"pub_short", "pub_end", "pub_read"}
      BY <1>1, <2>3 DEF PubSignal, Woken
    <3> QED
      BY <3>1, <3>2 DEF StepsOf
  <2> QED
    BY <2>1, <2>2, <2>3
<1>4. Shape(w)'
  BY <1>1, <1>2, <1>3, ShapeMoves
<1>5. pc' \in [Workers -> Labels]
  <2>1. Others(w)
    BY OthersStep DEF BrokerInv, Step, Work
  <2>2. pc' = [u \in Workers |-> pc'[u]]
    BY <1>1 DEF CreateBox, RemoveWake, PubSignal, Woken
  <2>3. to \in Labels /\ {"woken", "stranded"} \subseteq Labels
    BY DEF Labels, ManagerSteps
  <2>4. \A u \in Workers : pc'[u] \in Labels
    BY <1>1, <1>3, <2>1, <2>3 DEF Others
  <2> QED
    BY <2>2, <2>4
<1> QED
  BY <1>1, <1>2, <1>4, <1>5

-----------------------------------------------------------------------------
(* The buffers.                                                            *)

\* A function on the first numbers is a sequence.
LEMMA FunIsSeq ==
  ASSUME NEW S, NEW k \in Nat, NEW f \in [1 .. k -> S]
  PROVE  f \in Seq(S) /\ Len(f) = k
OBVIOUS

\* A part of a sequence.
LEMMA PartOfSeq ==
  ASSUME NEW S, NEW s \in Seq(S), NEW m \in Nat \ {0}, NEW n \in Nat, n <= Len(s)
  PROVE  /\ SubSeq(s, m, n) \in Seq(S)
         /\ Len(SubSeq(s, m, n)) = IF m <= n THEN n - m + 1 ELSE 0
         /\ \A i \in 1 .. n - m + 1 : SubSeq(s, m, n)[i] = s[m + i - 1]
<1>1. \A i \in m .. n : s[i] \in S
  BY ElementOfSeq
<1>2. m \in Int /\ n \in Int
  OBVIOUS
<1> QED
  BY <1>1, <1>2, SubSeqProperties

\* What a publisher's session reads fits in its buffer, and the rest stays in the pipe.
LEMMA TakenFromPipe ==
  ASSUME NEW s \in Seq(Message), NEW n \in 0 .. Buffer, n <= Len(s)
  PROVE  /\ Newline(SubSeq(s, 1, n)) \in Seq(Message) /\ Len(Newline(SubSeq(s, 1, n))) = n
         /\ Newline(SubSeq(s, 1, n)) \in Seq(Message \cup {NoCell})
         /\ SubSeq(s, n + 1, Len(s)) \in Seq(Message)
<1>1. Len(s) \in Nat /\ Buffer \in Nat
  BY BrokerAssumption
<1>2. n \in Nat
  BY <1>1
<1>3. PICK t : t = SubSeq(s, 1, n)
  OBVIOUS
<1>4. t \in Seq(Message) /\ Len(t) = n
  <2>1. 1 \in Nat \ {0}
    OBVIOUS
  <2> QED
    BY <1>2, <1>3, <2>1, PartOfSeq
<1>5. \A m \in Message : [m EXCEPT !.end = "newline"] \in Message
  BY DEF Message
<1>6. \A i \in 1 .. n :
        (IF i = 1 THEN [t[i] EXCEPT !.end = "newline"] ELSE t[i]) \in Message
  BY <1>4, <1>5
<1>7. Newline(t) = [i \in 1 .. n |-> IF i = 1 THEN [t[i] EXCEPT !.end = "newline"] ELSE t[i]]
  BY <1>4 DEF Newline
<1>8. PICK u : u = Newline(t)
  OBVIOUS
<1>9. u \in [1 .. n -> Message]
  BY <1>6, <1>7, <1>8
<1>10. u \in Seq(Message) /\ Len(u) = n
  BY <1>2, <1>9, FunIsSeq
<1>11. u \in Seq(Message \cup {NoCell})
  BY <1>10
<1>12. SubSeq(s, n + 1, Len(s)) \in Seq(Message)
  BY <1>1, <1>2, PartOfSeq
<1> QED
  BY <1>1, <1>2, <1>3, <1>8, <1>10, <1>11, <1>12

\* What is read of a file, unless the read fails.
LEMMA ContentsRead ==
  ASSUME FSInv, NEW fd \in Handles, NEW len \in Nat, ToRead(fd, len) \in 0 .. len,
         ~ReadFails(fd, len)
  PROVE  /\ Contents(fd, len) \in Seq(Message \cup {NoCell})
         /\ Len(Contents(fd, len)) = ToRead(fd, len)
<1>1. PICK k \in Nat : k = ToRead(fd, len)
  OBVIOUS
<1>2. OffsetOf(fd) \in Nat
  BY DEF FSInv, FSTypeOK, OffsetOf
<1>3. fs_data \in [Blocks -> [1 .. BLOCK_SIZE -> Message \cup {NoCell}]]
  BY DEF FSInv, FSTypeOK
<1>4. k > 0 => InodeOf(fd).i_data_block \in Blocks
  BY <1>1 DEF ReadFails
<1>5. BLOCK_SIZE \in Nat
  BY FSAssumption
<1> DEFINE C(c) == IF OffsetOf(fd) + c <= BLOCK_SIZE
                   THEN fs_data[InodeOf(fd).i_data_block][OffsetOf(fd) + c] ELSE NoCell
<1>6. \A c \in 1 .. k : C(c) \in Message \cup {NoCell}
  BY <1>2, <1>3, <1>4, <1>5
<1>7. PICK f : f = [c \in 1 .. k |-> C(c)]
  OBVIOUS
<1>8. f \in [1 .. k -> Message \cup {NoCell}]
  BY <1>6, <1>7
<1>9. f \in Seq(Message \cup {NoCell}) /\ Len(f) = k
  BY <1>8
<1>10. Contents(fd, len) = f
  BY <1>1, <1>7 DEF Contents
<1> QED
  BY <1>1, <1>9, <1>10

\* The steps of a session that read and write.
LEMMA DataShape ==
  ASSUME BrokerInv, pipe \in [Clients -> Seq(Message)], NEW w \in Workers,
         PubRead(w) \/ PubWrite(w) \/ SubRead(w)
  PROVE  /\ pc' \in [Workers -> Labels] /\ loc' \in [Workers -> LocType] /\ Shape(w)'
         /\ FSInv' /\ pipe' \in [Clients -> Seq(Message)]
<1>1. pc \in [Workers -> Labels] /\ loc \in [Workers -> LocType] /\ Shape(w) /\ FSInv
  BY DEF BrokerInv, BrokerTypeOK, LocType
<1>2. req' = req
  BY DEF PubRead, PubWrite, SubRead, Crash, requestVars
<1>3. loc[w] \in LocType
  BY <1>1
<1> USE DEF OpenSteps, SpotSteps, CreateSection, PubSection, PubFile, SubFile
<1>4. CASE Crash
  <2>1. UNCHANGED <<fsVars, pipe>>
    BY <1>4 DEF Crash, clientVars
  <2>2. FSInv'
    BY <1>1, <2>1 DEF FSInv, FSTypeOK, fsVars, openVars, fileVars
  <2> QED
    BY <1>4, <2>1, <2>2, CrashShape
<1>5. CASE PubRead(w) /\ ~Crash
  <2>1. PICK c, n : c = req[w] /\ n = Min({Len(pipe[c]), Buffer})
    OBVIOUS
  <2>a. Len(pipe[c]) \in Nat => n \in 0 .. Buffer /\ n <= Len(pipe[c])
    <3>1. Buffer \in Nat
      BY BrokerAssumption
    <3> QED
      BY <2>1, <3>1, LesserOf
  <2>2. /\ pc[w] = "pub_read"
        /\ loc' = [loc EXCEPT ![w].buffer = Newline(SubSeq(pipe[c], 1, n))]
        /\ pipe' = [pipe EXCEPT ![c] = SubSeq(@, n + 1, Len(@))]
        /\ pc' = [pc EXCEPT ![w] = "pub_write"]
        /\ UNCHANGED fsVars
    BY <1>5, <2>1 DEF PubRead, At, Goto
  <2>3. c \in Clients /\ Code(w) = "publisher" /\ loc[w].fd \in Handles /\ loc[w].spot \in Spots
    BY <1>1, <2>1, <2>2, CodeAt DEF Shape
  <2>4. pipe[c] \in Seq(Message)
    BY <2>3
  <2>5. PICK b : b = Newline(SubSeq(pipe[c], 1, n))
    OBVIOUS
  <2>6. /\ b \in Seq(Message) /\ b \in Seq(Message \cup {NoCell}) /\ Len(b) <= Buffer
        /\ SubSeq(pipe[c], n + 1, Len(pipe[c])) \in Seq(Message)
    BY <2>a, <2>4, <2>5, TakenFromPipe
  <2>7. loc' = [loc EXCEPT ![w].buffer = b]
    BY <2>2, <2>5
  <2>8. loc' \in [Workers -> LocType]
    BY <1>1, <2>6, <2>7, LocFields
  <2>9. loc'[w].buffer = b /\ loc'[w].fd = loc[w].fd /\ loc'[w].spot = loc[w].spot
    BY <1>1, <1>3, <2>7 DEF LocType
  <2>10. "pub_write" \in Labels /\ "pub_write" \in StepsOf["publisher"]
    BY DEF Labels, StepsOf
  <2>11. pc'[w] = "pub_write"
    BY <1>1, <2>2
  <2>12. Shape(w)'
    BY <1>1, <1>2, <2>2, <2>3, <2>6, <2>9, <2>10, <2>11, ShapeGoes
  <2>13. FSInv'
    BY <1>1, <2>2 DEF FSInv, FSTypeOK, fsVars, openVars, fileVars
  <2>14. pipe' \in [Clients -> Seq(Message)]
    BY <2>2, <2>3, <2>6
  <2> QED
    BY <1>1, <2>2, <2>8, <2>10, <2>12, <2>13, <2>14
<1>6. CASE PubWrite(w)
  <2>1. PICK n \in -1 .. Len(loc[w].buffer) :
          tfs_write(loc[w].fd, loc[w].buffer, n) /\ loc' = [loc EXCEPT ![w].n = n]
    BY <1>6 DEF PubWrite
  <2>2. pc[w] = "pub_write" /\ pc' = [pc EXCEPT ![w] = "pub_signal"] /\ pipe' = pipe
    BY <1>6 DEF PubWrite, At, Goto, clientVars
  <2>3. /\ Code(w) = "publisher" /\ loc[w].fd \in Handles /\ loc[w].spot \in Spots
        /\ loc[w].buffer \in Seq(Message) /\ Len(loc[w].buffer) <= Buffer
    BY <1>1, <2>2, CodeAt DEF Shape
  <2>4. n \in -1 .. Buffer
    BY <2>3, BrokerAssumption
  <2>5. loc' \in [Workers -> LocType]
    BY <1>1, <2>1, <2>4, LocFields
  <2>6. loc'[w].fd = loc[w].fd /\ loc'[w].spot = loc[w].spot
    BY <1>1, <1>3, <2>1 DEF LocType
  <2>7. "pub_signal" \in Labels /\ "pub_signal" \in StepsOf["publisher"]
    BY DEF Labels, StepsOf
  <2>8. pc'[w] = "pub_signal"
    BY <1>1, <2>2
  <2>9. Shape(w)'
    BY <1>1, <1>2, <2>2, <2>3, <2>6, <2>7, <2>8, ShapeGoes
  <2>10. loc[w].buffer \in Seq(Message \cup {NoCell})
    BY <1>3 DEF LocType
  <2>11. FSInv'
    BY <1>1, <2>1, <2>3, <2>10, WriteFS
  <2> QED
    BY <1>1, <2>2, <2>5, <2>7, <2>9, <2>11
<1>7. CASE SubRead(w) /\ ~Crash
  <2>1. PICK fd : fd = loc[w].fd
    OBVIOUS
  <2>2. PICK b : b = Contents(fd, Buffer)
    OBVIOUS
  <2>3. /\ pc[w] = "sub_read" /\ ~ReadFails(fd, Buffer) /\ tfs_read(fd, Buffer)
        /\ loc' = [loc EXCEPT ![w].buffer = b] /\ pipe' = pipe
    BY <1>7, <2>1, <2>2 DEF SubRead, At, clientVars
  <2>4. PICK to \in {"sub_wait", "sub_send"} : pc' = [pc EXCEPT ![w] = to]
    BY <1>7 DEF SubRead, Goto
  <2>5. Code(w) = "subscriber" /\ fd \in Handles /\ loc[w].spot \in Spots
    BY <1>1, <2>1, <2>3, CodeAt DEF Shape
  <2>6. Buffer \in Nat
    BY BrokerAssumption
  <2>7. FSInv' /\ ToRead(fd, Buffer) \in 0 .. Buffer
    BY <1>1, <2>3, <2>5, <2>6, ReadFS
  <2>8. b \in Seq(Message \cup {NoCell})
    BY <1>1, <2>2, <2>3, <2>5, <2>6, <2>7, ContentsRead
  <2>9. loc' \in [Workers -> LocType]
    BY <1>1, <2>3, <2>8, LocFields
  <2>10. loc'[w].fd = loc[w].fd /\ loc'[w].spot = loc[w].spot
    BY <1>1, <1>3, <2>3 DEF LocType
  <2>11. to \in Labels /\ to \in StepsOf["subscriber"]
    BY DEF Labels, StepsOf
  <2>12. pc'[w] = to
    BY <1>1, <2>4
  <2>13. Shape(w)'
    BY <1>1, <1>2, <2>1, <2>3, <2>5, <2>10, <2>11, <2>12, ShapeGoes
  <2> QED
    BY <1>1, <2>3, <2>4, <2>7, <2>9, <2>11, <2>13
<1> QED
  BY <1>4, <1>5, <1>6, <1>7 DEF PubWrite

-----------------------------------------------------------------------------
(* The types.                                                              *)

\* Every step of a worker keeps the file system what it is.
LEMMA StepFS ==
  ASSUME BrokerInv, pipe \in [Clients -> Seq(Message)], NEW w \in Workers, Step(w)
  PROVE  FSInv'
<1>1. Shape(w) /\ FSInv
  BY DEF BrokerInv
<1>2. CASE UNCHANGED fsVars
  BY <1>1, <1>2 DEF FSInv, FSTypeOK, fsVars, openVars, fileVars
<1>3. CASE CreateFile(w) /\ ~UNCHANGED fsVars
  <2>1. pc[w] = "create" /\ \E fd \in Handles \cup {-1} : tfs_open(Name(w), {"CREAT"}, fd)
    BY <1>3 DEF CreateFile, At
  <2>2. Name(w) \in Names
    BY <1>1, <2>1, CodeAt
  <2> QED
    BY <1>1, <2>1, <2>2, OpenFS
<1>4. CASE PubOpen(w) \/ SubOpen(w)
  <2>1. /\ pc[w] # "idle"
        /\ \E fd \in Handles \cup {-1}, mode \in {{}, {"APPEND"}} : tfs_open(Name(w), mode, fd)
    BY <1>4 DEF PubOpen, SubOpen, At
  <2>2. Name(w) \in Names
    BY <1>1, <2>1, CodeAt
  <2> QED
    BY <1>1, <2>1, <2>2, OpenFS
<1>5. CASE \/ CreateClose(w) \/ PubClose(w, "pub_end", "pub_uncount")
           \/ PubClose(w, "pub_short", "pub_miscount")
  <2>1. tfs_close(loc[w].fd) /\ pc[w] \in {"create_close", "pub_end", "pub_short"}
    BY <1>5 DEF CreateClose, PubClose, At
  <2>2. loc[w].fd \in Handles
    BY <1>1, <2>1 DEF Shape, OpenSteps, PubFile, CreateSection
  <2> QED
    BY <1>1, <2>1, <2>2, CloseFS
<1>6. CASE RemoveFile(w) /\ ~UNCHANGED fsVars
  BY <1>1, <1>6, UnlinkFS DEF RemoveFile
<1>7. CASE PubWrite(w) \/ SubRead(w)
  BY <1>7, DataShape
<1> QED
  BY <1>2, <1>3, <1>4, <1>5, <1>6, <1>7, FSFrame DEF FSStep

\* Every step of a worker keeps the types of the labels and the locals.
LEMMA StepShape ==
  ASSUME BrokerInv, pipe \in [Clients -> Seq(Message)], NEW w \in Workers, Step(w)
  PROVE  /\ pc' \in [Workers -> Labels] /\ loc' \in [Workers -> LocType]
         /\ req' \in [Workers -> Clients \cup {NoClient}] /\ queue' \in Seq(Clients)
         /\ \A u \in Workers : Shape(u)'
<1>1. /\ pc' \in [Workers -> Labels] /\ loc' \in [Workers -> LocType] /\ Shape(w)'
  BY BeginShape, ScanShape, ManagerShape, SessionShape, OpenShape, WakeShape, DataShape
     DEF Step, Work
<1>2. req' \in [Workers -> Clients \cup {NoClient}] /\ queue' \in Seq(Clients)
  <2>1. CASE Begin(w)
    BY <2>1, BeginShape
  <2>2. CASE ~Begin(w)
    BY <2>2, RequestFrame DEF requestVars, BrokerInv, BrokerTypeOK
  <2> QED
    BY <2>1, <2>2
<1>3. ASSUME NEW u \in Workers, u # w PROVE Shape(u)'
  <2>1. /\ loc'[u] = loc[u] /\ req'[u] = req[u] /\ Shape(u)
        /\ pc'[u] # pc[u] => pc[u] = "asleep" /\ pc'[u] \in {"woken", "stranded"}
    BY <1>3, OthersStep DEF BrokerInv, Others
  <2>2. CASE pc'[u] = pc[u]
    BY <2>1, <2>2 DEF Shape, Code
  <2>3. CASE pc'[u] # pc[u]
    <3>1. Code(u) = "subscriber"
      BY <2>1, <2>3, CodeAt DEF SubFile
    <3>2. {"woken", "stranded"} \subseteq StepsOf["subscriber"]
      BY DEF StepsOf, SubFile
    <3> QED
      BY <2>1, <2>3, <3>1, <3>2, ShapeMoves DEF OpenSteps, SpotSteps, SubFile
  <2> QED
    BY <2>2, <2>3
<1> QED
  BY <1>1, <1>2, <1>3

BoxType == [taken : BOOLEAN, box_name : Names \cup {NoName}, n_publishers : 0 .. SizeT - 1,
            n_subscribers : 0 .. SizeT - 1, box_size : 0 .. SizeT - 1]

LEMMA BoxFields ==
  ASSUME NEW s \in Spots, NEW f \in [Spots -> BoxType]
  PROVE  /\ \A x \in BOOLEAN : [f EXCEPT ![s].taken = x] \in [Spots -> BoxType]
         /\ \A x \in Names : [f EXCEPT ![s].box_name = x] \in [Spots -> BoxType]
         /\ \A x \in 0 .. SizeT - 1 : [f EXCEPT ![s].n_publishers = x] \in [Spots -> BoxType]
         /\ \A x \in 0 .. SizeT - 1 : [f EXCEPT ![s].n_subscribers = x] \in [Spots -> BoxType]
         /\ \A x \in 0 .. SizeT - 1 : [f EXCEPT ![s].box_size = x] \in [Spots -> BoxType]
<1>1. f[s] \in BoxType
  OBVIOUS
<1> QED
  BY <1>1 DEF BoxType

LEMMA StepBoxes ==
  ASSUME BrokerInv, NEW w \in Workers, Step(w)
  PROVE  boxes' \in [Spots -> BoxType]
<1>1. boxes \in [Spots -> BoxType] /\ Shape(w)
  BY DEF BrokerInv, BrokerTypeOK, BoxType
<1>2. CASE UNCHANGED boxes
  BY <1>1, <1>2
<1>3. CASE BoxStep(w) /\ ~UNCHANGED boxes
  <2>1. pc[w] \in SpotSteps /\ pc[w] # "idle"
    BY <1>3 DEF BoxStep, CreateTaken, CreateName, CreateBox, RemoveUnlock, PubCount, PubWrite,
         PubUncount, PubMiscount, SubCount, At, SpotSteps, CreateSection, PubSection, PubFile
  <2>2. loc[w].spot \in Spots /\ Name(w) \in Names
    BY <1>1, <2>1, CodeAt DEF Shape
  <2>3. PICK s \in Spots : s = loc[w].spot
    BY <2>2
  <2>4. /\ boxes[s].n_publishers \in Int /\ boxes[s].n_subscribers \in Int
        /\ boxes[s].box_size \in Int /\ {0, 1} \subseteq 0 .. SizeT - 1
    BY <1>1, FSAssumption DEF BoxType
  <2>5. CASE CreateTaken(w) \/ RemoveUnlock(w) \/ CreateName(w) \/ PubCount(w)
    <3>1. CASE \E x \in BOOLEAN : boxes' = [boxes EXCEPT ![s].taken = x]
      BY <1>1, <3>1, BoxFields
    <3>2. CASE \E x \in Names : boxes' = [boxes EXCEPT ![s].box_name = x]
      BY <1>1, <3>2, BoxFields
    <3>3. CASE boxes' = [boxes EXCEPT ![s].n_publishers = 1]
      BY <1>1, <2>4, <3>3, BoxFields
    <3> QED
      BY <1>3, <2>2, <2>3, <2>5, <3>1, <3>2, <3>3
         DEF CreateTaken, RemoveUnlock, CreateName, PubCount
  <2>6. CASE CreateBox(w)
    <3>1. PICK f : f = [boxes EXCEPT ![s].n_publishers = 0]
      OBVIOUS
    <3>2. PICK g : g = [f EXCEPT ![s].n_subscribers = 0]
      OBVIOUS
    <3>3. f \in [Spots -> BoxType]
      BY <1>1, <2>4, <3>1, BoxFields
    <3>4. g \in [Spots -> BoxType]
      BY <2>4, <3>2, <3>3, BoxFields
    <3>5. boxes' = [g EXCEPT ![s].box_size = 0]
      BY <2>3, <2>6, <3>1, <3>2 DEF CreateBox
    <3> QED
      BY <2>4, <3>4, <3>5, BoxFields
  <2>7. CASE PubWrite(w)
    <3>1. PICK n \in Int : boxes' = [boxes EXCEPT ![s].box_size = (@ + n) % SizeT]
      <4>1. pc[w] = "pub_write"
        BY <2>7 DEF PubWrite, At
      <4>2. loc[w].buffer \in Seq(Message)
        BY <1>1, <4>1 DEF Shape
      <4>3. Len(loc[w].buffer) \in Nat
        BY <4>2
      <4>4. \A n \in -1 .. Len(loc[w].buffer) : n \in Int
        BY <4>3
      <4> QED
        BY <2>3, <2>7, <4>4 DEF PubWrite
    <3>2. PICK x : x = (boxes[s].box_size + n) % SizeT
      OBVIOUS
    <3>3. x \in 0 .. SizeT - 1
      BY <2>4, <3>2, ModSize
    <3>4. boxes' = [boxes EXCEPT ![s].box_size = x]
      BY <3>1, <3>2
    <3> QED
      BY <1>1, <3>3, <3>4, BoxFields
  <2>8. CASE PubUncount(w)
    <3>1. PICK x : x = (boxes[s].n_publishers - 1) % SizeT
      OBVIOUS
    <3>2. x \in 0 .. SizeT - 1
      BY <2>4, <3>1, ModSize
    <3>3. boxes' = [boxes EXCEPT ![s].n_publishers = x]
      BY <2>3, <2>8, <3>1 DEF PubUncount
    <3> QED
      BY <1>1, <3>2, <3>3, BoxFields
  <2>9. CASE PubMiscount(w)
    <3>1. PICK x : x = (boxes[s].n_subscribers - 1) % SizeT
      OBVIOUS
    <3>2. x \in 0 .. SizeT - 1
      BY <2>4, <3>1, ModSize
    <3>3. boxes' = [boxes EXCEPT ![s].n_subscribers = x]
      BY <2>3, <2>9, <3>1 DEF PubMiscount
    <3> QED
      BY <1>1, <3>2, <3>3, BoxFields
  <2>10. CASE SubCount(w)
    <3>1. PICK x : x = (boxes[s].n_subscribers + 1) % SizeT
      OBVIOUS
    <3>2. x \in 0 .. SizeT - 1
      BY <2>4, <3>1, ModSize
    <3>3. boxes' = [boxes EXCEPT ![s].n_subscribers = x]
      BY <2>3, <2>10, <3>1 DEF SubCount
    <3> QED
      BY <1>1, <3>2, <3>3, BoxFields
  <2> QED
    BY <1>3, <2>5, <2>6, <2>7, <2>8, <2>9, <2>10 DEF BoxStep
<1> QED
  BY <1>2, <1>3, BoxFrame

LEMMA StepLocks ==
  ASSUME BrokerInv, NEW w \in Workers, Step(w)
  PROVE  /\ boxes_mutex' \in Workers \cup {NoThread}
         /\ box_mutex' \in [Spots -> Owner] /\ pub_box_mutex' \in [Spots -> Owner]
         /\ sub_box_mutex' \in [Spots -> Owner]
<1>1. /\ boxes_mutex \in Workers \cup {NoThread}
      /\ box_mutex \in [Spots -> Owner] /\ pub_box_mutex \in [Spots -> Owner]
      /\ sub_box_mutex \in [Spots -> Owner]
  BY DEF BrokerInv, BrokerTypeOK
<1>2. \A m : Released(m) \in Owner /\ Locked(m, w) \in Owner
  BY DEF Released, Locked, Owner
<1>3. \A f \in [Spots -> Owner], s, x \in Owner : [f EXCEPT ![s] = x] \in [Spots -> Owner]
  OBVIOUS
<1>4. NoThread \in Owner
  BY DEF Owner
<1>5. CASE UNCHANGED lockVars
  BY <1>1, <1>5 DEF lockVars
<1>6. CASE EmptySpot(w) \/ FindBox(w)
  BY <1>1, <1>6 DEF EmptySpot, FindBox, ScanNext
<1>7. CASE ListSpot(w)
  BY <1>1, <1>7 DEF ListSpot
<1>8. CASE Found(w)
  BY <1>1, <1>2, <1>3, <1>8 DEF Found, LockBox
<1>9. CASE CreateExists(w)
  BY <1>1, <1>2, <1>3, <1>9 DEF CreateExists, UnlockBox
<1>10. CASE PubCount(w)
  BY <1>1, <1>2, <1>3, <1>10 DEF PubCount, UnlockBox
<1>11. CASE SubCount(w)
  BY <1>1, <1>2, <1>3, <1>11 DEF SubCount, UnlockBox
<1>12. CASE CreateBox(w)
  BY <1>1, <1>3, <1>4, <1>12 DEF CreateBox
<1>13. CASE RemoveUnlock(w)
  BY <1>1, <1>2, <1>3, <1>13 DEF RemoveUnlock, UnlockBox
<1>14. CASE RemoveDestroy(w)
  <2> DEFINE s == loc[w].spot
  <2>2. PICK m \in Destroyed(box_mutex[s]), p \in Destroyed(pub_box_mutex[s]),
             u \in Destroyed(sub_box_mutex[s]) :
          /\ box_mutex' = [box_mutex EXCEPT ![s] = m]
          /\ pub_box_mutex' = [pub_box_mutex EXCEPT ![s] = p]
          /\ sub_box_mutex' = [sub_box_mutex EXCEPT ![s] = u]
    BY <1>14 DEF RemoveDestroy
  <2>3. \A f \in [Spots -> Owner] : \A x \in Destroyed(f[s]) :
          [f EXCEPT ![s] = x] \in [Spots -> Owner]
    BY DEF Destroyed, Owner
  <2>4. boxes_mutex' = boxes_mutex
    BY <1>14 DEF RemoveDestroy
  <2> QED
    BY <1>1, <2>2, <2>3, <2>4
<1>15. CASE PubLock(w)
  BY <1>1, <1>2, <1>3, <1>15 DEF PubLock
<1>16. CASE PubClose(w, "pub_end", "pub_uncount") \/ PubClose(w, "pub_short", "pub_miscount")
  <2>1. pub_box_mutex' = [pub_box_mutex EXCEPT ![loc[w].spot] = Released(@)]
    BY <1>16 DEF PubClose
  <2>2. UNCHANGED <<boxes_mutex, box_mutex, sub_box_mutex>>
    BY <1>16 DEF PubClose
  <2> QED
    BY <1>1, <1>2, <1>3, <2>1, <2>2
<1>17. CASE SubLock(w)
  BY <1>1, <1>2, <1>3, <1>17 DEF SubLock
<1>18. CASE SubWait(w)
  BY <1>1, <1>2, <1>3, <1>18 DEF SubWait
<1>19. CASE \/ Begin(w) \/ ListReply(w) \/ FindNothing(w) \/ CreateFile(w) \/ CreateTaken(w)
            \/ CreateName(w) \/ CreateClose(w) \/ Reply(w) \/ RemoveFile(w)
            \/ RemoveWake(w) \/ RemoveCond(w)
  BY <1>5, <1>19 DEF Begin, ListReply, FindNothing, Crash, CreateFile, CreateTaken, CreateName,
       CreateClose, Reply, RemoveFile, RemoveWake, RemoveCond
<1>20. CASE \/ PubOpen(w) \/ PubRead(w) \/ PubWrite(w) \/ PubSignal(w) \/ PubUncount(w)
            \/ PubMiscount(w) \/ SubOpen(w) \/ Refuse(w) \/ SubRead(w) \/ SubSend(w)
            \/ WakeSpuriously(w)
  BY <1>5, <1>20 DEF PubOpen, PubRead, Crash, PubWrite, PubSignal, PubUncount, PubMiscount,
       SubOpen, Refuse, SubRead, SubSend, WakeSpuriously
<1> QED
  BY <1>6, <1>7, <1>8, <1>9, <1>10, <1>11, <1>12, <1>13, <1>14, <1>15, <1>16, <1>17, <1>18,
     <1>19, <1>20 DEF Step, Work

\* What the clients keep, but for the listings.
States == {"new", "sent", "open", "done", "left"}
ClientInv ==
  /\ client \in [Clients -> States]
  /\ pipe \in [Clients -> Seq(Message)] /\ sent \in [Clients -> 0 .. MaxMessages]
  /\ got \in [Clients -> Seq(Message \cup {NoCell})]
  /\ heard \in [Clients -> Nat] /\ message_count \in [Clients -> Nat]
  /\ \A c \in Clients : heard[c] <= Len(got[c])

LEMMA ClientsKept ==
  ASSUME ClientInv, UNCHANGED <<client, pipe, sent, got, heard, message_count>>
  PROVE  ClientInv'
BY DEF ClientInv

LEMMA ClientMoves ==
  ASSUME ClientInv, NEW c \in Clients, NEW x \in States, client' = [client EXCEPT ![c] = x],
         UNCHANGED <<pipe, sent, got, heard, message_count>>
  PROVE  ClientInv'
BY DEF ClientInv

LEMMA StepClients ==
  ASSUME BrokerInv, ClientInv, NEW w \in Workers, Step(w)
  PROVE  ClientInv'
<1>1. Shape(w) /\ loc[w] \in LocType
  BY DEF BrokerInv, BrokerTypeOK, LocType
<1>2. CASE UNCHANGED clientVars
  BY <1>2, ClientsKept DEF clientVars, printVars
<1>3. CASE ListReply(w) \/ Reply(w) \/ PubOpen(w) \/ SubOpen(w) \/ Refuse(w)
  <2>1. PICK c \in Clients : c = req[w]
    BY <1>1, <1>3 DEF Shape, ListReply, Reply, PubOpen, SubOpen, Refuse, At
  <2>2. PICK x \in {"done", "open"} : client' = [client EXCEPT ![c] = x]
    BY <1>3, <2>1 DEF ListReply, Reply, PubOpen, SubOpen, Refuse
  <2>3. x \in States
    BY DEF States
  <2>4. UNCHANGED <<pipe, sent, got, heard, message_count>>
    BY <1>3 DEF ListReply, Reply, PubOpen, SubOpen, Refuse, printVars
  <2> QED
    BY <2>2, <2>3, <2>4, ClientMoves
<1>4. CASE PubRead(w) /\ ~Crash
  <2>1. UNCHANGED <<client, sent, got, heard, message_count>>
    BY <1>4 DEF PubRead, printVars
  <2>2. pipe' \in [Clients -> Seq(Message)]
    BY <1>4, DataShape DEF ClientInv
  <2> QED
    BY <2>1, <2>2 DEF ClientInv
<1>5. CASE SubSend(w) /\ ~Crash
  <2>1. PICK c \in Clients : c = req[w]
    BY <1>1, <1>5 DEF Shape, SubSend, At
  <2>2. /\ got' = [got EXCEPT ![c] = @ \o loc[w].buffer]
        /\ UNCHANGED <<client, pipe, sent, heard, message_count>>
    BY <1>5, <2>1 DEF SubSend, printVars
  <2>3. loc[w].buffer \in Seq(Message \cup {NoCell})
    BY <1>1 DEF LocType
  <2>4. /\ got \in [Clients -> Seq(Message \cup {NoCell})] /\ heard \in [Clients -> Nat]
        /\ \A d \in Clients : heard[d] <= Len(got[d])
    BY DEF ClientInv
  <2>5. /\ got[c] \in Seq(Message \cup {NoCell})
        /\ got[c] \o loc[w].buffer \in Seq(Message \cup {NoCell})
        /\ Len(got[c] \o loc[w].buffer) = Len(got[c]) + Len(loc[w].buffer)
        /\ Len(got[c]) \in Nat /\ Len(loc[w].buffer) \in Nat
    BY <2>3, <2>4
  <2>6. got' \in [Clients -> Seq(Message \cup {NoCell})]
    BY <2>2, <2>4, <2>5
  <2>7. \A d \in Clients : heard[d] <= Len(got'[d])
    BY <2>2, <2>4, <2>5
  <2> QED
    BY <2>2, <2>6, <2>7 DEF ClientInv
<1>6. CASE Crash
  BY <1>2, <1>6 DEF Crash
<1> QED
  BY <1>2, <1>3, <1>4, <1>5, <1>6, ClientFrame DEF ClientStep

\* Only the end of the broker sets failed.
LEMMA FailedFrame ==
  ASSUME NEW w \in Workers, Step(w), ~Crash
  PROVE  failed' = failed
<1>1. CASE Begin(w) \/ ListSpot(w) \/ ListReply(w) \/ EmptySpot(w) \/ FindBox(w)
           \/ FindNothing(w) \/ Found(w) \/ CreateExists(w)
  BY <1>1 DEF Begin, ListSpot, ListReply, EmptySpot, FindBox, FindNothing, Found,
       CreateExists
<1>2. CASE CreateFile(w) \/ CreateTaken(w) \/ CreateName(w) \/ CreateBox(w) \/ CreateClose(w)
           \/ Reply(w) \/ RemoveFile(w) \/ RemoveUnlock(w) \/ RemoveWake(w) \/ RemoveDestroy(w)
           \/ RemoveCond(w)
  BY <1>2 DEF CreateFile, CreateTaken, CreateName, CreateBox, CreateClose, Reply, RemoveFile,
       RemoveUnlock, RemoveWake, RemoveDestroy, RemoveCond
<1>3. CASE PubCount(w) \/ PubOpen(w) \/ PubLock(w) \/ PubRead(w) \/ PubWrite(w) \/ PubSignal(w)
           \/ PubClose(w, "pub_end", "pub_uncount") \/ PubClose(w, "pub_short", "pub_miscount")
           \/ PubUncount(w) \/ PubMiscount(w)
  BY <1>3 DEF PubCount, PubOpen, PubLock, PubRead, PubWrite, PubSignal, PubClose,
       PubUncount, PubMiscount
<1>4. CASE SubCount(w) \/ SubOpen(w) \/ Refuse(w) \/ SubLock(w) \/ SubRead(w) \/ SubWait(w)
           \/ SubSend(w) \/ WakeSpuriously(w)
  BY <1>4 DEF SubCount, SubOpen, Refuse, SubLock, SubRead, SubWait, SubSend, WakeSpuriously
<1> QED
  BY <1>1, <1>2, <1>3, <1>4 DEF Step, Work

\* The steps that are not a worker's; ReceiveError is one way to leave.
ClientAction(c) ==
  Register(c) \/ RegisterEnds(c) \/ Publish(c) \/ Receive(c) \/ Leave(c) \/ sig_handler

\* What they leave alone: everything the workers keep, but for the queue.
LEMMA ClientActionFrame ==
  ASSUME NEW c, ClientAction(c)
  PROVE  /\ UNCHANGED <<fsVars, req, boxes, lockVars, pc, loc>>
         /\ ~Register(c) => queue' = queue
         /\ failed' = failed \/ Crash
BY DEF ClientAction, Register, RegisterEnds, Publish, Receive, Leave, sig_handler, Crash,
       requestVars, Requests!Put

LEMMA ShapeSame ==
  ASSUME UNCHANGED <<req, pc, loc>>, \A w \in Workers : Shape(w)
  PROVE  (\A w \in Workers : Shape(w))'
BY DEF Shape, Code

LEMMA FSInvSame == ASSUME FSInv, UNCHANGED fsVars PROVE FSInv'
BY DEF FSInv, FSTypeOK, fsVars, openVars, fileVars

LEMMA BrokerInvSame ==
  ASSUME BrokerInv, UNCHANGED <<fsVars, req, boxes, lockVars, pc, loc>>,
         queue' \in Seq(Clients), failed' \in BOOLEAN
  PROVE  BrokerInv'
<1>1. FSInv' /\ (\A w \in Workers : Shape(w))'
  BY FSInvSame, ShapeSame DEF BrokerInv
<1>2. FSTypeOK(Message)'
  BY <1>1 DEF FSInv
<1>3. BrokerTypeOK'
  BY <1>2 DEF BrokerInv, BrokerTypeOK, lockVars
<1> QED
  BY <1>1, <1>3 DEF BrokerInv

\* How many lines there are among the first messages.
LEMMA LinesType ==
  ASSUME NEW s, NEW n \in Nat
  PROVE  LinesIn(s, n) \in Nat /\ \A p \in 0 .. n : LinesIn(s, p) <= LinesIn(s, n)
<1> DEFINE Lines(p) == {i \in 1 .. p : Text[s[i].from][s[i].nr] # "empty"}
<1>1. IsFiniteSet(Lines(n)) /\ Cardinality(Lines(n)) \in Nat
  <2>1. IsFiniteSet(1 .. n) /\ Lines(n) \in SUBSET (1 .. n)
    BY FS_Interval
  <2> QED
    BY <2>1, FS_Subset, FS_CardinalityType
<1>2. ASSUME NEW p \in 0 .. n PROVE Cardinality(Lines(p)) <= Cardinality(Lines(n))
  <2>1. Lines(p) \in SUBSET Lines(n)
    OBVIOUS
  <2> HIDE DEF Lines
  <2> QED
    BY <1>1, <2>1, FS_Subset
<1> QED
  BY <1>1, <1>2 DEF LinesIn

LEMMA ReceiveClients ==
  ASSUME ClientInv, NEW c \in Clients, Receive(c)
  PROVE  ClientInv'
<1> DEFINE g == got[c]
           h == heard[c]
<1>1. /\ g \in Seq(Message \cup {NoCell}) /\ h \in Nat /\ h <= Len(g)
      /\ message_count[c] \in Nat
      /\ heard \in [Clients -> Nat] /\ message_count \in [Clients -> Nat]
  BY DEF ClientInv
<1>2. PICK n : n = Min({Len(g) - h, MESSAGE_SIZE})
  OBVIOUS
<1>3. Len(g) \in Nat /\ Len(g) - h \in Nat /\ MESSAGE_SIZE \in Nat
  BY <1>1, BrokerAssumption DEF MESSAGE_SIZE
<1>4. n \in Nat /\ h + n <= Len(g)
  <2>1. n = IF Len(g) - h <= MESSAGE_SIZE THEN Len(g) - h ELSE MESSAGE_SIZE
    BY <1>2, <1>3, LesserOf
  <2> QED
    BY <1>1, <1>3, <2>1
<1>5. PICK message : message = SubSeq(g, h + 1, h + n)
  OBVIOUS
<1>6. message \in Seq(Message \cup {NoCell})
  <2>1. PICK i \in Nat \ {0} : i = h + 1
    BY <1>1
  <2>2. PICK j \in Nat : j = h + n /\ j <= Len(g)
    BY <1>1, <1>4
  <2>3. message = SubSeq(g, i, j)
    BY <1>5, <2>1, <2>2
  <2> HIDE DEF g, h
  <2> QED
    BY <1>1, <2>2, <2>3, PartOfSeq
<1>7. PrintedOf(message) \in Nat
  <2> DEFINE Zeros == {i \in DOMAIN message : message[i].end = "nul"}
  <2>1. Zeros \in SUBSET Nat /\ Len(message) \in Nat
    BY <1>6
  <2>2. Zeros # {} => Min(Zeros) \in Nat
    <3> HIDE DEF Zeros
    <3> QED
      BY <2>1, LeastInSet
  <2> QED
    BY <2>1, <2>2 DEF PrintedOf
<1>8. PICK k \in Nat, extra \in {0, 1} : message_count' = [message_count EXCEPT ![c] = @ + k + extra]
  BY <1>2, <1>5, <1>7, LinesType DEF Receive
<1>9. message_count' \in [Clients -> Nat]
  <2>1. message_count[c] + k + extra \in Nat
    BY <1>1
  <2> QED
    BY <1>1, <1>8, <2>1
<1>10. heard' = [heard EXCEPT ![c] = @ + n]
  BY <1>2 DEF Receive
<1>11. UNCHANGED <<client, pipe, sent, got>>
  BY DEF Receive
<1>12. heard' \in [Clients -> Nat] /\ \A d \in Clients : heard'[d] <= Len(got[d])
  BY <1>1, <1>4, <1>10 DEF ClientInv
<1> QED
  BY <1>9, <1>11, <1>12 DEF ClientInv

LEMMA ClientActionClients ==
  ASSUME ClientInv, NEW c \in Clients, ClientAction(c)
  PROVE  ClientInv'
<1>1. CASE Register(c) \/ Leave(c)
  <2>1. PICK x \in States : client' = [client EXCEPT ![c] = x]
    BY <1>1 DEF Register, Leave, States
  <2>2. UNCHANGED <<pipe, sent, got, heard, message_count>>
    BY <1>1 DEF Register, Leave, printVars
  <2> QED
    BY <2>1, <2>2, ClientMoves
<1>2. CASE RegisterEnds(c) \/ sig_handler
  BY <1>2, ClientsKept DEF RegisterEnds, sig_handler, Crash, clientVars, printVars
<1>3. CASE Publish(c)
  <2>1. PICK k : k = sent[c] + 1
    OBVIOUS
  <2>2. sent[c] \in 0 .. MaxMessages /\ sent[c] < MaxMessages /\ MaxMessages \in Nat
    BY <1>3, BrokerAssumption DEF ClientInv, Publish
  <2>3. k \in 1 .. MaxMessages /\ k \in 0 .. MaxMessages
    BY <2>1, <2>2
  <2>4. PICK m : m = [from |-> c, nr |-> k, end |-> "nul"]
    OBVIOUS
  <2>5. m \in Message
    BY <2>3, <2>4 DEF Message
  <2>6. /\ pipe' = [pipe EXCEPT ![c] = Append(pipe[c], m)] /\ sent' = [sent EXCEPT ![c] = k]
        /\ UNCHANGED <<client, got, heard, message_count>>
    BY <1>3, <2>1, <2>4 DEF Publish, printVars
  <2>7. pipe[c] \in Seq(Message) /\ Append(pipe[c], m) \in Seq(Message)
    BY <2>5 DEF ClientInv
  <2>8. pipe' \in [Clients -> Seq(Message)] /\ sent' \in [Clients -> 0 .. MaxMessages]
    BY <2>3, <2>6, <2>7 DEF ClientInv
  <2> QED
    BY <2>6, <2>8 DEF ClientInv
<1>4. CASE Receive(c)
  BY <1>4, ReceiveClients
<1> QED
  BY <1>1, <1>2, <1>3, <1>4 DEF ClientAction

\* The types, and what each worker knows where it is.
TypeInv == BrokerInv /\ ClientInv

LEMMA TypeInit == Init => TypeInv
<1> SUFFICES ASSUME Init PROVE TypeInv
  OBVIOUS
<1>1. FSInv
  <2>1. 0 \in Nat /\ Root \in Inodes /\ 0 \in 0 .. BLOCK_SIZE
    BY FSAssumption DEF Root, Inodes
  <2>2. FSInit
    BY DEF Init
  <2>3. DOMAIN dir = {}
    BY <2>2 DEF FSInit
  <2>4. dir \in [DOMAIN dir -> Inodes \ {Root}] /\ DOMAIN dir \subseteq Names
    BY <2>2, <2>3 DEF FSInit
  <2>5. \A i \in Inodes : inode_table[i] = EmptyFile
    BY <2>2 DEF FSInit
  <2>6. \A i \in Inodes : ~(inode_table[i].i_size > 0)
    BY <2>5 DEF EmptyFile
  <2> QED
    BY <2>1, <2>2, <2>4, <2>6 DEF FSInv, FSTypeOK, FSInit, EmptyFile
<1>2. \A w \in Workers : Shape(w)
  BY DEF Init, Shape
<1>3. BrokerTypeOK
  <2>1. FSTypeOK(Message)
    BY <1>1 DEF FSInv
  <2>2. queue \in Seq(Clients) /\ req \in [Workers -> Clients \cup {NoClient}]
    BY EmptySeq DEF Init, Requests!Init
  <2>3. boxes \in [Spots -> BoxType]
    <3>1. 0 \in 0 .. SizeT - 1
      BY FSAssumption
    <3>2. NewBox \in BoxType
      BY <3>1 DEF NewBox, BoxType
    <3> QED
      BY <3>2 DEF Init
  <2>4. /\ boxes_mutex \in Workers \cup {NoThread}
        /\ box_mutex \in [Spots -> Owner] /\ pub_box_mutex \in [Spots -> Owner]
        /\ sub_box_mutex \in [Spots -> Owner]
    BY DEF Init, Owner
  <2>5. pc \in [Workers -> Labels] /\ loc \in [Workers -> LocType] /\ failed \in BOOLEAN
    BY NoLocType DEF Init, Labels
  <2> QED
    BY <2>1, <2>2, <2>3, <2>4, <2>5 DEF BrokerTypeOK, BoxType, LocType
<1>4. ClientInv
  <2>1. /\ <<>> \in Seq(Message) /\ <<>> \in Seq(Message \cup {NoCell}) /\ Len(<<>>) = 0
        /\ 0 \in 0 .. MaxMessages
    BY EmptySeq, BrokerAssumption
  <2>2. /\ pipe = [c \in Clients |-> <<>>] /\ got = [c \in Clients |-> <<>>]
        /\ sent = [c \in Clients |-> 0] /\ heard = [c \in Clients |-> 0]
        /\ message_count = [c \in Clients |-> 0] /\ client = [c \in Clients |-> "new"]
    BY DEF Init
  <2> QED
    BY <2>1, <2>2 DEF ClientInv, States
<1> QED
  BY <1>1, <1>2, <1>3, <1>4 DEF TypeInv, BrokerInv

\* The steps of Next.
LEMMA NextSteps ==
  ASSUME Next
  PROVE  (\E w \in Workers : Step(w)) \/ (\E c \in Clients : ClientAction(c)) \/ sig_handler
BY DEF Next, Step, ClientAction, ReceiveError, Leave

LEMMA TypeStep ==
  ASSUME TypeInv, NEW w \in Workers, Step(w)
  PROVE  TypeInv'
<1>1. BrokerInv /\ ClientInv /\ pipe \in [Clients -> Seq(Message)]
  BY DEF TypeInv, ClientInv
<1>2. FSInv' /\ ClientInv'
  BY <1>1, StepFS, StepClients
<1>3. /\ pc' \in [Workers -> Labels] /\ loc' \in [Workers -> LocType]
      /\ req' \in [Workers -> Clients \cup {NoClient}] /\ queue' \in Seq(Clients)
      /\ \A u \in Workers : Shape(u)'
  BY <1>1, StepShape
<1>4. boxes' \in [Spots -> BoxType]
  BY <1>1, StepBoxes
<1>5. /\ boxes_mutex' \in Workers \cup {NoThread}
      /\ box_mutex' \in [Spots -> Owner] /\ pub_box_mutex' \in [Spots -> Owner]
      /\ sub_box_mutex' \in [Spots -> Owner]
  BY <1>1, StepLocks
<1>6. failed' \in BOOLEAN
  BY <1>1, FailedFrame DEF Crash, BrokerInv, BrokerTypeOK
<1>7. FSTypeOK(Message)'
  BY <1>2 DEF FSInv
<1>8. BrokerTypeOK'
  BY <1>3, <1>4, <1>5, <1>6, <1>7 DEF BrokerTypeOK, BoxType, LocType
<1> QED
  BY <1>2, <1>3, <1>8 DEF TypeInv, BrokerInv

LEMMA TypeClientAction ==
  ASSUME TypeInv, NEW c \in Clients, ClientAction(c)
  PROVE  TypeInv'
<1>1. ClientInv'
  BY ClientActionClients DEF TypeInv
<1>2. queue' \in Seq(Clients)
  <2>1. queue \in Seq(Clients)
    BY DEF TypeInv, BrokerInv, BrokerTypeOK
  <2>2. CASE Register(c)
    BY <2>1, <2>2 DEF Register, Requests!Put
  <2> QED
    BY <2>1, <2>2, ClientActionFrame
<1>3. failed' \in BOOLEAN
  BY ClientActionFrame DEF Crash, TypeInv, BrokerInv, BrokerTypeOK
<1>4. BrokerInv'
  BY <1>2, <1>3, ClientActionFrame, BrokerInvSame DEF TypeInv
<1> QED
  BY <1>1, <1>4 DEF TypeInv

LEMMA TypeNext == TypeInv /\ [Next]_vars => TypeInv'
<1> SUFFICES ASSUME TypeInv, [Next]_vars PROVE TypeInv'
  OBVIOUS
<1>1. CASE \E w \in Workers : Step(w)
  BY <1>1, TypeStep
<1>2. CASE \E c \in Clients : ClientAction(c)
  BY <1>2, TypeClientAction
<1>3. CASE UNCHANGED vars \/ sig_handler
  <2>1. UNCHANGED <<fsVars, requestVars, boxes, lockVars, pc, loc, clientVars>>
    BY <1>3 DEF vars, sig_handler, Crash
  <2>2. failed' \in BOOLEAN
    BY <1>3 DEF vars, sig_handler, Crash, TypeInv, BrokerInv, BrokerTypeOK
  <2>3. queue' \in Seq(Clients) /\ req' = req
    BY <2>1 DEF requestVars, TypeInv, BrokerInv, BrokerTypeOK
  <2>4. BrokerInv'
    BY <2>1, <2>2, <2>3, BrokerInvSame DEF TypeInv
  <2>5. ClientInv'
    BY <2>1, ClientsKept DEF TypeInv, clientVars, printVars
  <2> QED
    BY <2>4, <2>5 DEF TypeInv
<1> QED
  BY <1>1, <1>2, <1>3, NextSteps

\* Types: in every state the broker's tables, mutexes and requests and the pipes are
\* what the code declares them to be, every worker serves a request it took from the
\* queue, at a step of that request, and a session's handle and spot are in range
\* whenever it uses them.
THEOREM BrokerTypeCorrect == Spec => []TypeInv
<1>1. Init => TypeInv
  BY TypeInit
<1>2. TypeInv /\ [Next]_vars => TypeInv'
  BY TypeNext
<1> QED
  BY <1>1, <1>2, PTL DEF Spec

-----------------------------------------------------------------------------
(* The open files of the sessions.                                         *)

DirGrows == \A p \in DOMAIN dir : p \in DOMAIN dir' /\ dir'[p] = dir[p]
FilesOf(handles) ==
  \A h \in handles : open_file_table'[h].of_inumber = open_file_table[h].of_inumber

\* What opening a file does to the directory and to the table of open files.
LEMMA OpenTable ==
  ASSUME FSInv, NEW p \in Names, NEW mode, NEW fd \in Handles \cup {-1}, tfs_open(p, mode, fd)
  PROVE  /\ DirGrows
         /\ fd = -1 => UNCHANGED openVars
         /\ fd # -1 => /\ fd \in free_open_file_entries
                       /\ free_open_file_entries' = free_open_file_entries \ {fd}
                       /\ p \in DOMAIN dir' /\ open_file_table'[fd].of_inumber = dir'[p]
                       /\ FilesOf(Handles \ {fd})
<1>1. /\ free_open_file_entries \subseteq Handles /\ -1 \notin Handles
      /\ open_file_table \in [Handles -> [of_inumber : Inodes, of_offset : Nat]]
      /\ dir \in [DOMAIN dir -> Inodes \ {Root}] /\ -1 \notin Inodes
  BY DEF FSInv, FSTypeOK, Handles, Inodes
<1>2. ASSUME NEW inum, NEW offset, add_to_open_file_table(inum, offset, fd)
      PROVE  /\ fd = -1 => UNCHANGED openVars
             /\ fd # -1 => /\ fd \in free_open_file_entries
                           /\ free_open_file_entries' = free_open_file_entries \ {fd}
                           /\ open_file_table'[fd].of_inumber = inum
                           /\ FilesOf(Handles \ {fd})
  <2>1. \/ fd = -1 /\ UNCHANGED openVars
        \/ /\ fd \in free_open_file_entries /\ fd \in Handles
           /\ free_open_file_entries' = free_open_file_entries \ {fd}
           /\ open_file_table' = [open_file_table EXCEPT
                ![fd] = [of_inumber |-> inum, of_offset |-> offset]]
    BY <1>2, HandleAdded
  <2> QED
    BY <1>1, <2>1 DEF FilesOf
<1>3. CASE /\ tfs_lookup(p) # -1
           /\ add_to_open_file_table(tfs_lookup(p),
                IF "APPEND" \in mode THEN inode_table[tfs_lookup(p)].i_size ELSE 0, fd)
           /\ UNCHANGED fileVars
  <2>1. dir' = dir /\ p \in DOMAIN dir /\ tfs_lookup(p) = dir[p]
    BY <1>1, <1>3 DEF fileVars, tfs_lookup, find_in_dir
  <2> QED
    BY <1>2, <1>3, <2>1 DEF DirGrows
<1>4. CASE /\ tfs_lookup(p) = -1
           /\ add_dir_entry(p, inode_alloc)
           /\ add_to_open_file_table(inode_alloc, 0, fd)
  <2>1. p \notin DOMAIN dir
    BY <1>1, <1>4 DEF tfs_lookup, find_in_dir
  <2>2. p \in DOMAIN dir' /\ dir'[p] = inode_alloc /\ DirGrows
    BY <1>4, <2>1 DEF add_dir_entry, DirGrows
  <2> QED
    BY <1>2, <1>4, <2>2
<1>5. CASE fd = -1 /\ UNCHANGED fsVars
  BY <1>5 DEF fsVars, fileVars, DirGrows
<1> QED
  BY <1>3, <1>4, <1>5 DEF tfs_open

\* The steps that open a file or close one.
Opens(w) == CreateFile(w) \/ PubOpen(w) \/ SubOpen(w)
Closes(w) == \/ CreateClose(w) \/ PubClose(w, "pub_end", "pub_uncount")
             \/ PubClose(w, "pub_short", "pub_miscount")

LEMMA OpensTable ==
  ASSUME TypeInv, NEW w \in Workers, Opens(w)
  PROVE  /\ req' = req /\ pc[w] \notin OpenSteps /\ pc[w] # "idle"
         /\ DirGrows
         /\ \/ UNCHANGED openVars /\ pc'[w] \notin OpenSteps
            \/ \E fd \in Handles \cap free_open_file_entries :
                 /\ free_open_file_entries' = free_open_file_entries \ {fd}
                 /\ loc'[w].fd = fd /\ pc'[w] \in OpenSteps
                 /\ Name(w) \in DOMAIN dir'
                 /\ open_file_table'[fd].of_inumber = dir'[Name(w)]
                 /\ FilesOf(Handles \ {fd})
<1>1. /\ FSInv /\ Shape(w) /\ pc \in [Workers -> Labels] /\ loc \in [Workers -> LocType]
      /\ loc' \in [Workers -> LocType]
  BY OpenShape DEF TypeInv, BrokerInv, BrokerTypeOK, LocType, Opens
<1>2. req' = req /\ pc[w] \notin OpenSteps /\ pc[w] # "idle"
  BY DEF Opens, CreateFile, PubOpen, SubOpen, requestVars, At, OpenSteps, PubFile, SubFile,
     CreateSection
<1>3. Name(w) \in Names
  BY <1>1, <1>2, CodeAt
<1>4. CASE UNCHANGED fsVars /\ Goto(w, "reply")
  BY <1>1, <1>2, <1>4 DEF fsVars, fileVars, openVars, Goto, OpenSteps, PubFile, SubFile,
     CreateSection, DirGrows
<1>5. ASSUME NEW fd \in Handles \cup {-1}, NEW mode, tfs_open(Name(w), mode, fd),
             loc'[w].fd = fd, NEW to, pc' = [pc EXCEPT ![w] = to],
             to \in OpenSteps <=> fd # -1
      PROVE  /\ DirGrows
             /\ \/ UNCHANGED openVars /\ pc'[w] \notin OpenSteps
                \/ \E h \in Handles \cap free_open_file_entries :
                     /\ free_open_file_entries' = free_open_file_entries \ {h}
                     /\ loc'[w].fd = h /\ pc'[w] \in OpenSteps
                     /\ Name(w) \in DOMAIN dir'
                     /\ open_file_table'[h].of_inumber = dir'[Name(w)]
                     /\ FilesOf(Handles \ {h})
  <2>1. PICK p \in Names : p = Name(w)
    BY <1>3
  <2>2. pc'[w] = to
    BY <1>1, <1>5
  <2>3. /\ DirGrows
        /\ fd = -1 => UNCHANGED openVars
        /\ fd # -1 => /\ fd \in free_open_file_entries
                      /\ free_open_file_entries' = free_open_file_entries \ {fd}
                      /\ p \in DOMAIN dir' /\ open_file_table'[fd].of_inumber = dir'[p]
                      /\ FilesOf(Handles \ {fd})
    BY <1>1, <1>5, <2>1, OpenTable
  <2> QED
    BY <1>5, <2>1, <2>2, <2>3
<1>6. CASE CreateFile(w) /\ ~(UNCHANGED fsVars /\ Goto(w, "reply"))
  <2>1. PICK fd \in Handles \cup {-1} :
          /\ tfs_open(Name(w), {"CREAT"}, fd)
          /\ pc' = [pc EXCEPT ![w] = IF fd = -1 THEN "reply" ELSE "create_taken"]
          /\ loc' = [loc EXCEPT ![w].fd = fd, ![w].spot = loc[w].free]
    BY <1>6 DEF CreateFile, Goto
  <2>2. loc[w] \in LocType
    BY <1>1
  <2>3. loc'[w].fd = fd
    BY <1>1, <2>1, <2>2 DEF LocType
  <2>4. (IF fd = -1 THEN "reply" ELSE "create_taken") \in OpenSteps <=> fd # -1
    BY DEF OpenSteps, PubFile, SubFile, CreateSection
  <2> QED
    BY <1>2, <1>5, <2>1, <2>3, <2>4
<1>7. CASE PubOpen(w) \/ SubOpen(w)
  <2>1. PICK fd \in Handles \cup {-1}, mode \in {{}, {"APPEND"}},
             to \in {"idle", "pub_lock", "refuse", "sub_lock"} :
          /\ tfs_open(Name(w), mode, fd)
          /\ pc' = [pc EXCEPT ![w] = to] /\ loc' = [loc EXCEPT ![w].fd = fd]
          /\ to \in {"pub_lock", "sub_lock"} <=> fd # -1
    <3>1. CASE PubOpen(w)
      BY <3>1 DEF PubOpen, Goto
    <3>2. CASE SubOpen(w)
      BY <3>2 DEF SubOpen, Goto
    <3> QED
      BY <1>7, <3>1, <3>2
  <2>2. loc[w] \in LocType
    BY <1>1
  <2>3. loc'[w].fd = fd
    BY <1>1, <2>1, <2>2 DEF LocType
  <2>4. to \in OpenSteps <=> fd # -1
    BY <2>1 DEF OpenSteps, PubFile, SubFile, CreateSection
  <2> QED
    BY <1>2, <1>5, <2>1, <2>3, <2>4
<1> QED
  BY <1>2, <1>4, <1>6, <1>7 DEF Opens

LEMMA ClosesTable ==
  ASSUME TypeInv, NEW w \in Workers, Closes(w)
  PROVE  /\ req' = req /\ pc[w] \in OpenSteps /\ pc'[w] \notin OpenSteps
         /\ free_open_file_entries' = free_open_file_entries \cup {loc[w].fd}
         /\ open_file_table' = open_file_table /\ dir' = dir
<1>1. pc \in [Workers -> Labels]
  BY DEF TypeInv, BrokerInv, BrokerTypeOK
<1>2. /\ pc[w] \in {"create_close", "pub_end", "pub_short"} /\ req' = req
      /\ tfs_close(loc[w].fd)
      /\ \E to \in {"reply", "pub_uncount", "pub_miscount"} : pc' = [pc EXCEPT ![w] = to]
  BY DEF Closes, CreateClose, PubClose, At, Goto, requestVars
<1> QED
  BY <1>1, <1>2 DEF OpenSteps, PubFile, SubFile, CreateSection, tfs_close,
     remove_from_open_file_table, fileVars

\* A worker that has taken a request has no file open.
LEMMA BeginClosed ==
  ASSUME TypeInv, NEW w \in Workers, Begin(w)
  PROVE  pc'[w] \in {"empty", "unlink", "list", "find"}
<1>1. pc \in [Workers -> Labels] /\ queue \in Seq(Clients) /\ queue # <<>>
  BY DEF TypeInv, BrokerInv, BrokerTypeOK, Begin, Requests!Take
<1>2. PICK code \in Codes : code = Request[Head(queue)].code
  BY <1>1, CodeType
<1>3. FirstStep[code] \in {"empty", "unlink", "list", "find"}
  BY DEF Codes, FirstStep
<1>4. pc' = [pc EXCEPT ![w] = FirstStep[code]]
  BY <1>2 DEF Begin, Goto
<1> QED
  BY <1>1, <1>3, <1>4

\* A step that neither opens nor closes a file leaves an open one open.
LEMMA OpenKept ==
  ASSUME TypeInv, NEW w \in Workers, Step(w), ~Opens(w), ~Closes(w), pc'[w] \in OpenSteps
  PROVE  pc[w] \in OpenSteps /\ loc'[w].fd = loc[w].fd /\ req' = req
<1>1. pc \in [Workers -> Labels] /\ loc \in [Workers -> LocType] /\ Shape(w)
  BY DEF TypeInv, BrokerInv, BrokerTypeOK, LocType
<1> USE DEF OpenSteps, PubFile, SubFile, CreateSection
<1>2. ~Begin(w)
  BY BeginClosed
<1>3. req' = req
  BY <1>2, RequestFrame DEF requestVars
<1>4. CASE UNCHANGED <<pc, loc>>
  BY <1>3, <1>4
<1>5. CASE UNCHANGED loc /\ \E to : pc' = [pc EXCEPT ![w] = to] /\ (to \in OpenSteps => pc[w] \in OpenSteps)
  BY <1>1, <1>3, <1>5
<1>6. CASE EmptySpot(w) \/ FindBox(w) \/ ListSpot(w)
  <2>1. pc[w] \in {"empty", "find", "list"} /\ Code(w) \in Codes
    BY <1>1, <1>6, CodeAt DEF EmptySpot, FindBox, ListSpot, At
  <2>2. \A code \in {"create", "publisher", "subscriber"} : MissStep[code] \notin OpenSteps
    BY DEF MissStep
  <2>3. CASE EmptySpot(w)
    BY <1>1, <2>1, <2>3 DEF EmptySpot, ScanNext, Goto
  <2>4. CASE ListSpot(w)
    BY <1>1, <2>1, <2>4 DEF ListSpot, Goto
  <2>5. CASE FindBox(w)
    <3>1. Code(w) # "list"
      BY <1>1, <2>5, CodeAt DEF FindBox, At
    <3> QED
      BY <1>1, <2>1, <2>2, <2>5, <3>1 DEF FindBox, ScanNext, Goto, Codes
  <2> QED
    BY <1>6, <2>3, <2>4, <2>5
<1>7. CASE ListReply(w) \/ FindNothing(w) \/ CreateExists(w) \/ CreateTaken(w) \/ CreateName(w)
           \/ Reply(w) \/ RemoveFile(w) \/ RemoveUnlock(w) \/ RemoveDestroy(w) \/ RemoveCond(w)
  BY <1>1, <1>3, <1>7 DEF ListReply, FindNothing, CreateExists, CreateTaken, CreateName, Reply,
       RemoveFile, RemoveUnlock, RemoveDestroy, RemoveCond, At, Goto, Crash
<1>8. CASE Found(w)
  <2>1. Code(w) \in Codes \ {"list"}
    BY <1>1, <1>8, CodeAt DEF Found, At
  <2>2. \A code \in Codes \ {"list"} : HitStep[code] \notin OpenSteps
    BY DEF HitStep, Codes
  <2> QED
    BY <1>1, <1>8, <2>1, <2>2 DEF Found, Goto
<1>9. CASE CreateBox(w)
  BY <1>1, <1>3, <1>9 DEF CreateBox, At
<1>10. CASE RemoveWake(w)
  <2>1. pc'[w] = "remove_destroy"
    BY <1>10 DEF RemoveWake, Woken
  <2> QED
    BY <2>1
<1>11. CASE PubSignal(w)
  BY <1>3, <1>11 DEF PubSignal, At
<1>12. CASE PubCount(w) \/ PubLock(w) \/ PubUncount(w) \/ PubMiscount(w)
  BY <1>1, <1>3, <1>12 DEF PubCount, PubLock, PubUncount, PubMiscount, At, Goto
<1>13. CASE SubCount(w) \/ Refuse(w) \/ SubLock(w) \/ SubWait(w) \/ WakeSpuriously(w)
  BY <1>1, <1>3, <1>13 DEF SubCount, Refuse, SubLock, SubWait, WakeSpuriously, At, Goto
<1>14. CASE SubSend(w)
  BY <1>1, <1>3, <1>14 DEF SubSend, At, Goto, Crash
<1>15. CASE Crash
  BY <1>4, <1>15 DEF Crash
<1>16. CASE (PubRead(w) \/ PubWrite(w) \/ SubRead(w)) /\ ~Crash
  <2>1. pc[w] \in OpenSteps
    BY <1>16 DEF PubRead, PubWrite, SubRead, At
  <2>2. loc[w] \in LocType
    BY <1>1
  <2>3. (\E b : loc' = [loc EXCEPT ![w].buffer = b]) \/ (\E n : loc' = [loc EXCEPT ![w].n = n])
    BY <1>16 DEF PubRead, PubWrite, SubRead
  <2>4. loc'[w].fd = loc[w].fd
    BY <1>1, <2>2, <2>3 DEF LocType
  <2> QED
    BY <1>3, <2>1, <2>4
<1> QED
  BY <1>2, <1>6, <1>7, <1>8, <1>9, <1>10, <1>11, <1>12, <1>13, <1>14, <1>15, <1>16
     DEF Step, Work, Opens, Closes

\* And the table of open files and the directory what they are, if it is no removal.
LEMMA OtherTable ==
  ASSUME TypeInv, NEW w \in Workers, Step(w), ~Opens(w), ~Closes(w), ~RemoveFile(w)
  PROVE  UNCHANGED <<free_open_file_entries, dir>> /\ FilesOf(Handles)
<1>1. open_file_table \in [Handles -> [of_inumber : Inodes, of_offset : Nat]]
  BY DEF TypeInv, BrokerInv, FSInv, FSTypeOK
<1>2. CASE UNCHANGED fsVars
  BY <1>2 DEF fsVars, openVars, fileVars, FilesOf
<1>3. CASE PubWrite(w) \/ SubRead(w)
  <2>1. \/ UNCHANGED fsVars
        \/ /\ UNCHANGED <<free_open_file_entries, dir>>
           /\ \E x : open_file_table' = [open_file_table EXCEPT ![loc[w].fd].of_offset = x]
    <3>1. CASE PubWrite(w)
      <4>1. \E n \in -1 .. Len(loc[w].buffer) : tfs_write(loc[w].fd, loc[w].buffer, n)
        BY <3>1 DEF PubWrite
      <4> QED
        BY <4>1 DEF tfs_write
    <3>2. CASE SubRead(w)
      BY <3>2 DEF SubRead, Crash, tfs_read, fileVars
    <3> QED
      BY <1>3, <3>1, <3>2
  <2> QED
    BY <1>1, <1>2, <2>1 DEF FilesOf
<1> QED
  BY <1>2, <1>3, FSFrame DEF FSStep, Opens, Closes

-----------------------------------------------------------------------------
(* The requests.                                                           *)

\* The clients that have their answer before c asks, through any number of others.
Before(c) ==
  {e \in Clients : \A S \in SUBSET Clients :
     After[c] \subseteq S /\ (\A d \in S : After[d] \subseteq S) => e \in S}

\* All the requests to create boxes are answered before a publisher comes: the
\* creation of a box sets the counts of its spot, whichever box has taken it since.
BoxesFirst ==
  \A p, c \in Clients : Request[p].code = "publisher" /\ Request[c].code = "create"
    => c \in Before(p)

\* Each request is in the queue once, or with one worker, or answered, and a client
\* comes when those it waits for have their answer.
ReqInv ==
  /\ \A i, j \in 1 .. Len(queue) : queue[i] = queue[j] => i = j
  /\ \A i \in 1 .. Len(queue) : client[queue[i]] \notin {"new", "done"}
  /\ \A w \in Workers : pc[w] # "idle" =>
       /\ client[req[w]] \notin {"new", "done"}
       /\ \A i \in 1 .. Len(queue) : queue[i] # req[w]
  /\ \A v, w \in Workers : v # w /\ pc[v] # "idle" /\ pc[w] # "idle" => req[v] # req[w]
  /\ \A c \in Clients : client[c] # "new" => \A d \in After[c] : client[d] = "done"

\* Every step but the first is of a request that is being served.
LEMMA Busy ==
  ASSUME NEW w \in Workers, Step(w), ~Begin(w)
  PROVE  pc[w] # "idle"
<1>1. CASE ListSpot(w) \/ ListReply(w) \/ EmptySpot(w) \/ FindBox(w)
           \/ FindNothing(w) \/ Found(w) \/ CreateExists(w)
  BY <1>1 DEF ListSpot, ListReply, EmptySpot, FindBox, FindNothing, Found, CreateExists, At
<1>2. CASE CreateFile(w) \/ CreateTaken(w) \/ CreateName(w) \/ CreateBox(w) \/ CreateClose(w)
           \/ Reply(w) \/ RemoveFile(w) \/ RemoveUnlock(w) \/ RemoveWake(w) \/ RemoveDestroy(w)
           \/ RemoveCond(w)
  BY <1>2 DEF CreateFile, CreateTaken, CreateName, CreateBox, CreateClose, Reply, RemoveFile,
       RemoveUnlock, RemoveWake, RemoveDestroy, RemoveCond, At
<1>3. CASE PubCount(w) \/ PubOpen(w) \/ PubLock(w) \/ PubRead(w) \/ PubWrite(w) \/ PubSignal(w)
           \/ PubClose(w, "pub_end", "pub_uncount") \/ PubClose(w, "pub_short", "pub_miscount")
           \/ PubUncount(w) \/ PubMiscount(w)
  BY <1>3 DEF PubCount, PubOpen, PubLock, PubRead, PubWrite, PubSignal, PubClose,
       PubUncount, PubMiscount, At
<1>4. CASE SubCount(w) \/ SubOpen(w) \/ Refuse(w) \/ SubLock(w) \/ SubRead(w) \/ SubWait(w)
           \/ SubSend(w) \/ WakeSpuriously(w)
  BY <1>4 DEF SubCount, SubOpen, Refuse, SubLock, SubRead, SubWait, SubSend, WakeSpuriously, At
<1> QED
  BY <1>1, <1>2, <1>3, <1>4 DEF Step, Work

\* A worker changes the client it serves only, whom it answers or connects.
LEMMA ServedOnly ==
  ASSUME TypeInv, NEW w \in Workers, Step(w), client' # client
  PROVE  /\ pc[w] # "idle" /\ req[w] \in Clients /\ ~Begin(w)
         /\ client[req[w]] \in {"sent", "open"}
         /\ \E x \in {"open", "done"} : client' = [client EXCEPT ![req[w]] = x]
         /\ client'[req[w]] = "done" => pc'[w] = "idle"
<1>1. Shape(w) /\ pc \in [Workers -> Labels] /\ client \in [Clients -> States]
  BY DEF TypeInv, BrokerInv, BrokerTypeOK, ClientInv
<1>2. ListReply(w) \/ Reply(w) \/ PubOpen(w) \/ SubOpen(w) \/ Refuse(w)
  BY ClientFrame DEF ClientStep, clientVars, PubRead, SubSend, Crash
<1>3. pc[w] # "idle" /\ ~Begin(w)
  BY <1>2 DEF ListReply, Reply, PubOpen, SubOpen, Refuse, Begin, At
<1>4. req[w] \in Clients
  BY <1>1, <1>3 DEF Shape
<1>5. /\ client[req[w]] \in {"sent", "open"}
      /\ \E x \in {"open", "done"} : client' = [client EXCEPT ![req[w]] = x]
  BY <1>2 DEF ListReply, Reply, PubOpen, SubOpen, Refuse
<1>6. client'[req[w]] = "done" => pc'[w] = "idle"
  <2>1. CASE ListReply(w) \/ Reply(w) \/ Refuse(w)
    BY <1>1, <2>1 DEF ListReply, Reply, Refuse, Goto
  <2>2. CASE PubOpen(w) \/ SubOpen(w)
    BY <1>1, <1>4, <2>2 DEF PubOpen, SubOpen
  <2> QED
    BY <1>2, <2>1, <2>2
<1> QED
  BY <1>3, <1>4, <1>5, <1>6

LEMMA ReqStep ==
  ASSUME TypeInv, ReqInv, NEW w \in Workers, Step(w)
  PROVE  ReqInv'
<1>1. /\ queue \in Seq(Clients) /\ client \in [Clients -> States]
      /\ req \in [Workers -> Clients \cup {NoClient}] /\ pc \in [Workers -> Labels]
      /\ \A u \in Workers : Shape(u)
      /\ After \in [Clients -> SUBSET Clients]
  BY ClientsAssumption DEF TypeInv, BrokerInv, BrokerTypeOK, ClientInv
<1>2. Len(queue) \in Nat /\ \A i \in 1 .. Len(queue) : queue[i] \in Clients
  BY <1>1
<1>3. CASE Begin(w)
  <2>1. /\ queue # <<>> /\ req' = [req EXCEPT ![w] = Head(queue)] /\ queue' = Tail(queue)
        /\ pc[w] = "idle" /\ client' = client
    BY <1>3 DEF Begin, Requests!Take, At, clientVars
  <2>2. /\ Len(queue') = Len(queue) - 1 /\ Len(queue) >= 1 /\ Head(queue) = queue[1]
        /\ \A i \in 1 .. Len(queue') : queue'[i] = queue[i + 1]
    BY <1>1, <2>1
  <2>3. \A i \in 1 .. Len(queue') : i + 1 \in 1 .. Len(queue) /\ i + 1 # 1
    BY <1>2, <2>2
  <2>4. req'[w] = queue[1] /\ 1 \in 1 .. Len(queue)
    BY <1>1, <1>2, <2>1, <2>2
  <2>5. \A u \in Workers : u # w /\ pc'[u] # "idle" => pc[u] # "idle" /\ req'[u] = req[u]
    <3>1. Others(w)
      BY OthersStep DEF TypeInv, BrokerInv
    <3> QED
      BY <3>1 DEF Others
  <2>6. \A i, j \in 1 .. Len(queue') : queue'[i] = queue'[j] => i = j
    <3>1. \A i, j \in 1 .. Len(queue') : queue'[i] = queue'[j] => i + 1 = j + 1
      BY <2>2, <2>3 DEF ReqInv
    <3> QED
      BY <1>2, <2>2, <3>1
  <2>7. \A i \in 1 .. Len(queue') : client'[queue'[i]] \notin {"new", "done"}
    BY <2>1, <2>2, <2>3 DEF ReqInv
  <2>8. \A u \in Workers : pc'[u] # "idle" =>
          /\ client'[req'[u]] \notin {"new", "done"}
          /\ \A i \in 1 .. Len(queue') : queue'[i] # req'[u]
    <3>1. \A i \in 1 .. Len(queue') : queue'[i] # req'[w]
      BY <2>2, <2>3, <2>4 DEF ReqInv
    <3>2. client'[req'[w]] \notin {"new", "done"}
      BY <2>1, <2>4 DEF ReqInv
    <3>3. \A u \in Workers : u # w /\ pc'[u] # "idle" =>
            /\ client'[req'[u]] \notin {"new", "done"}
            /\ \A i \in 1 .. Len(queue') : queue'[i] # req'[u]
      BY <2>1, <2>2, <2>3, <2>5 DEF ReqInv, Code
    <3> QED
      BY <3>1, <3>2, <3>3
  <2>9. \A v, u \in Workers : v # u /\ pc'[v] # "idle" /\ pc'[u] # "idle" => req'[v] # req'[u]
    BY <2>4, <2>5 DEF ReqInv
  <2> QED
    BY <2>1, <2>6, <2>7, <2>8, <2>9 DEF ReqInv, Code
<1>4. CASE ~Begin(w)
  <2>1. queue' = queue /\ req' = req /\ pc[w] # "idle"
    BY <1>4, RequestFrame, Busy DEF requestVars
  <2>2. \A u \in Workers : pc'[u] # "idle" => pc[u] # "idle"
    <3>1. Others(w)
      BY OthersStep DEF TypeInv, BrokerInv
    <3> QED
      BY <2>1, <3>1 DEF Others
  <2>3. CASE client' = client
    BY <2>1, <2>2, <2>3 DEF ReqInv, Code
  <2>4. CASE client' # client
    <3>1. /\ req[w] \in Clients /\ client[req[w]] \in {"sent", "open"}
          /\ \E x \in {"open", "done"} : client' = [client EXCEPT ![req[w]] = x]
          /\ client'[req[w]] = "done" => pc'[w] = "idle"
      BY <2>4, ServedOnly
    <3>2. PICK x \in {"open", "done"} : client' = [client EXCEPT ![req[w]] = x]
      BY <3>1
    <3>3. client'[req[w]] = x /\ \A c \in Clients : c # req[w] => client'[c] = client[c]
      BY <1>1, <3>1, <3>2
    <3>4. \A i \in 1 .. Len(queue) : queue[i] # req[w]
      BY <2>1 DEF ReqInv
    <3>5. \A i \in 1 .. Len(queue') : client'[queue'[i]] \notin {"new", "done"}
      BY <1>2, <2>1, <3>3, <3>4 DEF ReqInv
    <3>6. \A u \in Workers : pc'[u] # "idle" =>
            /\ client'[req'[u]] \notin {"new", "done"}
            /\ \A i \in 1 .. Len(queue') : queue'[i] # req'[u]
      <4>1. \A u \in Workers : u # w /\ pc'[u] # "idle" => req[u] # req[w] /\ req[u] \in Clients
        BY <1>1, <2>1, <2>2 DEF ReqInv, Shape
      <4> QED
        BY <2>1, <2>2, <3>1, <3>3, <4>1 DEF ReqInv, Code
    <3>7. \A c \in Clients : client'[c] # "new" => \A d \in After[c] : client'[d] = "done"
      <4>1. \A c \in Clients : client[c] = "done" => client'[c] = "done"
        BY <3>1, <3>3
      <4>2. \A c \in Clients : client'[c] # "new" => client[c] # "new"
        BY <3>1, <3>3
      <4> QED
        BY <1>1, <4>1, <4>2 DEF ReqInv
    <3> QED
      BY <2>1, <2>2, <3>5, <3>6, <3>7 DEF ReqInv, Code
  <2> QED
    BY <2>3, <2>4
<1> QED
  BY <1>3, <1>4

LEMMA ReqClientAction ==
  ASSUME TypeInv, ReqInv, NEW c \in Clients, ClientAction(c)
  PROVE  ReqInv'
<1>1. /\ queue \in Seq(Clients) /\ client \in [Clients -> States]
      /\ \A u \in Workers : Shape(u)
      /\ After \in [Clients -> SUBSET Clients]
  BY ClientsAssumption DEF TypeInv, BrokerInv, BrokerTypeOK, ClientInv
<1>2. Len(queue) \in Nat /\ \A i \in 1 .. Len(queue) : queue[i] \in Clients
  BY <1>1
<1>3. pc' = pc /\ req' = req
  BY ClientActionFrame
<1>4. CASE Register(c)
  <2>1. /\ client[c] = "new" /\ \A d \in After[c] : client[d] = "done"
        /\ queue' = Append(queue, c) /\ client' = [client EXCEPT ![c] = "sent"]
    BY <1>4 DEF Register, Requests!Put
  <2>2. client'[c] = "sent" /\ \A d \in Clients : d # c => client'[d] = client[d]
    BY <1>1, <2>1
  <2>3. /\ Len(queue') = Len(queue) + 1
        /\ \A i \in 1 .. Len(queue) : queue'[i] = queue[i] /\ queue'[Len(queue) + 1] = c
    BY <1>1, <2>1
  <2>4. queue'[Len(queue) + 1] = c
    BY <1>1, <2>1
  <2>5. \A i \in 1 .. Len(queue') : i \in 1 .. Len(queue) \/ i = Len(queue) + 1
    BY <1>2, <2>3
  <2>6. \A i \in 1 .. Len(queue) : queue[i] # c
    BY <2>1 DEF ReqInv
  <2>7. \A i, j \in 1 .. Len(queue') : queue'[i] = queue'[j] => i = j
    BY <2>3, <2>4, <2>5, <2>6 DEF ReqInv
  <2>8. \A i \in 1 .. Len(queue') : client'[queue'[i]] \notin {"new", "done"}
    BY <1>2, <2>2, <2>3, <2>4, <2>5 DEF ReqInv
  <2>9. \A w \in Workers : pc[w] # "idle" => req[w] # c /\ req[w] \in Clients
    BY <1>1, <2>1 DEF ReqInv, Shape
  <2>10. \A w \in Workers : pc[w] # "idle" =>
           /\ client'[req[w]] \notin {"new", "done"}
           /\ \A i \in 1 .. Len(queue') : queue'[i] # req[w]
    BY <2>2, <2>3, <2>4, <2>5, <2>9 DEF ReqInv
  <2>11. \A e \in Clients : client'[e] # "new" => \A d \in After[e] : client'[d] = "done"
    <3>1. \A d \in Clients : client[d] = "done" => client'[d] = "done"
      BY <2>1, <2>2
    <3>2. \A e \in Clients : client'[e] # "new" => e = c \/ client[e] # "new"
      BY <2>2
    <3> QED
      BY <1>1, <2>1, <3>1, <3>2 DEF ReqInv
  <2> QED
    BY <1>3, <2>7, <2>8, <2>10, <2>11 DEF ReqInv, Code
<1>5. CASE ~Register(c)
  <2>1. queue' = queue
    BY <1>5, ClientActionFrame
  <2>2. CASE client' = client
    BY <1>3, <2>1, <2>2 DEF ReqInv, Code
  <2>3. CASE client' # client
    <3>1. client[c] \in {"sent", "open"} /\ client' = [client EXCEPT ![c] = "left"]
      BY <1>5, <2>3 DEF ClientAction, RegisterEnds, Publish, Receive, Leave, sig_handler, Crash,
           clientVars
    <3>2. client'[c] = "left" /\ \A d \in Clients : d # c => client'[d] = client[d]
      BY <1>1, <3>1
    <3>3. \A i \in 1 .. Len(queue') : client'[queue'[i]] \notin {"new", "done"}
      BY <1>2, <2>1, <3>2 DEF ReqInv
    <3>4. \A w \in Workers : pc[w] # "idle" =>
            /\ client'[req[w]] \notin {"new", "done"}
            /\ \A i \in 1 .. Len(queue') : queue'[i] # req[w]
      BY <1>1, <2>1, <3>2 DEF ReqInv, Shape
    <3>5. \A e \in Clients : client'[e] # "new" => \A d \in After[e] : client'[d] = "done"
      <4>1. \A d \in Clients : client[d] = "done" => client'[d] = "done"
        BY <3>1, <3>2
      <4>2. \A e \in Clients : client'[e] # "new" => client[e] # "new"
        BY <3>1, <3>2
      <4> QED
        BY <1>1, <4>1, <4>2 DEF ReqInv
    <3> QED
      BY <1>3, <2>1, <3>3, <3>4, <3>5 DEF ReqInv, Code
  <2> QED
    BY <2>2, <2>3
<1> QED
  BY <1>4, <1>5

LEMMA ReqInit == Init => ReqInv
<1> SUFFICES ASSUME Init PROVE ReqInv
  OBVIOUS
<1>1. queue = <<>> /\ Len(queue) = 0 /\ 1 .. 0 = {}
  BY EmptySeq DEF Init, Requests!Init
<1>2. /\ \A w \in Workers : pc[w] = "idle"
      /\ \A c \in Clients : client[c] = "new"
  BY DEF Init
<1> QED
  BY <1>1, <1>2 DEF ReqInv

LEMMA ReqNext == TypeInv /\ ReqInv /\ [Next]_vars => ReqInv'
<1> SUFFICES ASSUME TypeInv, ReqInv, [Next]_vars PROVE ReqInv'
  OBVIOUS
<1>1. CASE \E w \in Workers : Step(w)
  BY <1>1, ReqStep
<1>2. CASE \E c \in Clients : ClientAction(c)
  BY <1>2, ReqClientAction
<1>3. CASE UNCHANGED vars \/ sig_handler
  <2>1. UNCHANGED <<queue, req, pc, client>>
    BY <1>3 DEF vars, sig_handler, Crash, requestVars, clientVars
  <2> QED
    BY <2>1 DEF ReqInv, Code
<1> QED
  BY <1>1, <1>2, <1>3, NextSteps

\* Those that c waits for, directly or not, have been answered when c has asked.
LEMMA BeforeDone ==
  ASSUME ReqInv, NEW c \in Clients, NEW d \in Before(c), client[c] # "new"
  PROVE  client[d] = "done"
<1> DEFINE S == {e \in Clients : client[e] = "done"}
<1>1. \A e \in Clients : After[e] \subseteq Clients
  BY ClientsAssumption
<1>2. \A e \in Clients : client[e] # "new" => After[e] \subseteq S
  BY <1>1 DEF ReqInv
<1>3. \A e \in S : After[e] \subseteq S
  BY <1>2
<1> QED
  BY <1>2, <1>3 DEF Before

\* While a publisher is being served no box is being created.
LEMMA NoCreation ==
  ASSUME BoxesFirst, TypeInv, ReqInv, NEW v \in Workers, NEW w \in Workers,
         pc[v] # "idle", Code(v) = "publisher", pc[w] # "idle"
  PROVE  Code(w) # "create"
<1>1. req[v] \in Clients /\ req[w] \in Clients
  BY DEF TypeInv, BrokerInv, Shape
<1>2. client[req[v]] # "new" /\ client[req[w]] # "done"
  BY DEF ReqInv
<1> QED
  BY <1>1, <1>2, BeforeDone DEF BoxesFirst, Code

-----------------------------------------------------------------------------
(* The sessions, and the removals.                                         *)

Changing(c) == Request[c].code \in {"create", "remove"}

\* Whether a worker serves one that creates or removes a box.
Manages(w) == pc[w] # "idle" /\ Code(w) \in {"create", "remove"}

\* Removals are apart from what others do when there are none.
NoRemoves == \A c \in Clients : Request[c].code # "remove"

LEMMA NoneApart ==
  ASSUME NoRemoves
  PROVE  Spec => []RemovesApart
<1>1. TypeInv => RemovesApart
  <2>1. TypeInv => \A w \in Workers : pc[w] # "idle" => req[w] \in Clients
    BY DEF TypeInv, BrokerInv, Shape
  <2> QED
    BY <2>1 DEF NoRemoves, RemovesApart, Code
<1> QED
  BY <1>1, BrokerTypeCorrect, PTL

\* While a box is removed nobody else uses it.
LEMMA RemovesAlone ==
  ASSUME RemovesApart, NEW v \in Workers, NEW w \in Workers, v # w,
         pc[v] # "idle", pc[w] # "idle", Code(w) = "remove"
  PROVE  ~Manages(v) /\ (Code(v) \in {"publisher", "subscriber"} => Name(v) # Name(w))
BY DEF RemovesApart, Manages

LEMMA SessionsStep ==
  ASSUME RemovesApart, TypeInv, SessionsApart, NEW w \in Workers, Step(w)
  PROVE  SessionsApart'
<1>1. /\ open_file_table \in [Handles -> [of_inumber : Inodes, of_offset : Nat]]
      /\ -1 \notin Inodes /\ \A u \in Workers : Shape(u)
  BY DEF TypeInv, BrokerInv, FSInv, FSTypeOK, Inodes
<1>3. \A u \in Workers : pc[u] \in OpenSteps =>
        /\ loc[u].fd \in Handles \ free_open_file_entries
        /\ Name(u) \in DOMAIN dir /\ open_file_table[loc[u].fd].of_inumber = dir[Name(u)]
  <2> SUFFICES ASSUME NEW u \in Workers, pc[u] \in OpenSteps
               PROVE  /\ loc[u].fd \in Handles \ free_open_file_entries
                      /\ Name(u) \in DOMAIN dir
                      /\ open_file_table[loc[u].fd].of_inumber = dir[Name(u)]
    OBVIOUS
  <2>1. /\ loc[u].fd \in Handles \ free_open_file_entries
        /\ open_file_table[loc[u].fd].of_inumber = tfs_lookup(Name(u))
    BY DEF SessionsApart, OpenSteps
  <2>2. tfs_lookup(Name(u)) # -1
    BY <1>1, <2>1
  <2> QED
    BY <2>1, <2>2 DEF tfs_lookup, find_in_dir
<1>4. \A u, v \in Workers : u # v /\ pc[u] \in OpenSteps /\ pc[v] \in OpenSteps
        => loc[v].fd # loc[u].fd
  BY DEF SessionsApart, OpenSteps
<1>5. \A u \in Workers : u # w /\ pc'[u] \in OpenSteps =>
        pc[u] \in OpenSteps /\ loc'[u].fd = loc[u].fd /\ req'[u] = req[u]
  <2>1. Others(w)
    BY OthersStep DEF TypeInv, BrokerInv
  <2>2. "asleep" \in OpenSteps
    BY DEF OpenSteps, SubFile
  <2> QED
    BY <2>1, <2>2 DEF Others
\* What has to hold after the step.
<1>6. SUFFICES /\ \A u \in Workers : pc'[u] \in OpenSteps =>
                    /\ loc'[u].fd \in Handles \ free_open_file_entries'
                    /\ Request[req'[u]].box \in DOMAIN dir'
                    /\ open_file_table'[loc'[u].fd].of_inumber = dir'[Request[req'[u]].box]
               /\ \A u, v \in Workers : u # v /\ pc'[u] \in OpenSteps /\ pc'[v] \in OpenSteps
                    => loc'[v].fd # loc'[u].fd
  BY DEF SessionsApart, OpenSteps, tfs_lookup, find_in_dir, Name
<1>7. CASE Opens(w)
  <2>1. /\ req' = req /\ DirGrows
        /\ \/ UNCHANGED openVars /\ pc'[w] \notin OpenSteps
           \/ \E fd \in Handles \cap free_open_file_entries :
                /\ free_open_file_entries' = free_open_file_entries \ {fd}
                /\ loc'[w].fd = fd /\ pc'[w] \in OpenSteps
                /\ Name(w) \in DOMAIN dir'
                /\ open_file_table'[fd].of_inumber = dir'[Name(w)]
                /\ FilesOf(Handles \ {fd})
    BY <1>7, OpensTable
  <2>2. CASE UNCHANGED openVars /\ pc'[w] \notin OpenSteps
    BY <1>3, <1>4, <1>5, <2>1, <2>2 DEF DirGrows, Name, openVars
  <2>3. CASE \E fd \in Handles \cap free_open_file_entries :
                /\ free_open_file_entries' = free_open_file_entries \ {fd}
                /\ loc'[w].fd = fd /\ pc'[w] \in OpenSteps
                /\ Name(w) \in DOMAIN dir'
                /\ open_file_table'[fd].of_inumber = dir'[Name(w)]
                /\ FilesOf(Handles \ {fd})
    <3>1. PICK fd \in Handles \cap free_open_file_entries :
                /\ free_open_file_entries' = free_open_file_entries \ {fd}
                /\ loc'[w].fd = fd /\ pc'[w] \in OpenSteps
                /\ Name(w) \in DOMAIN dir'
                /\ open_file_table'[fd].of_inumber = dir'[Name(w)]
                /\ FilesOf(Handles \ {fd})
      BY <2>3
    <3>2. \A u \in Workers : u # w /\ pc'[u] \in OpenSteps => loc'[u].fd # fd
      BY <1>3, <1>5
    <3>3. \A u \in Workers : u # w /\ pc'[u] \in OpenSteps =>
            /\ loc'[u].fd \in Handles \ free_open_file_entries'
            /\ Request[req'[u]].box \in DOMAIN dir'
            /\ open_file_table'[loc'[u].fd].of_inumber = dir'[Request[req'[u]].box]
      BY <1>3, <1>5, <2>1, <3>1, <3>2 DEF DirGrows, FilesOf, Name
    <3>4. /\ loc'[w].fd \in Handles \ free_open_file_entries'
          /\ Request[req'[w]].box \in DOMAIN dir'
          /\ open_file_table'[loc'[w].fd].of_inumber = dir'[Request[req'[w]].box]
      BY <2>1, <3>1 DEF Name
    <3> QED
      BY <1>4, <1>5, <3>1, <3>2, <3>3, <3>4
  <2> QED
    BY <2>1, <2>2, <2>3
<1>8. CASE Closes(w)
  <2>1. /\ req' = req /\ pc[w] \in OpenSteps /\ pc'[w] \notin OpenSteps
        /\ free_open_file_entries' = free_open_file_entries \cup {loc[w].fd}
        /\ open_file_table' = open_file_table /\ dir' = dir
    BY <1>8, ClosesTable
  <2> QED
    BY <1>3, <1>4, <1>5, <2>1 DEF Name
<1>2. CASE RemoveFile(w) /\ ~Opens(w) /\ ~Closes(w)
  <2>1. /\ UNCHANGED <<openVars, req, loc>> /\ pc[w] = "unlink" /\ pc'[w] \notin OpenSteps
        /\ dir' = dir \/ dir' = [q \in DOMAIN dir \ {Name(w)} |-> dir[q]]
    <3>1. pc'[w] \in {"reply", "find"}
      BY <1>2 DEF RemoveFile, Goto, TypeInv, BrokerInv, BrokerTypeOK
    <3> QED
      BY <1>2, <3>1 DEF RemoveFile, At, tfs_unlink, clear_dir_entry, fsVars, fileVars, requestVars,
         OpenSteps, PubFile, SubFile, CreateSection
  <2>2. ASSUME NEW u \in Workers, u # w, pc[u] \in OpenSteps PROVE Name(u) # Name(w)
    <3>1. pc[u] # "idle" /\ pc[w] # "idle" /\ Code(w) = "remove"
      BY <1>1, <2>1, <2>2, CodeAt DEF OpenSteps, PubFile, SubFile, CreateSection
    <3>2. Code(u) \in {"create", "publisher", "subscriber"}
      BY <1>1, <2>2, <3>1, CodeAt DEF OpenSteps, PubSection
    <3> QED
      BY <2>2, <3>1, <3>2, RemovesAlone DEF Manages
  <2>3. \A u \in Workers : u # w /\ pc[u] \in OpenSteps =>
          Name(u) \in DOMAIN dir' /\ dir'[Name(u)] = dir[Name(u)]
    BY <1>3, <2>1, <2>2
  <2> QED
    BY <1>3, <1>4, <1>5, <2>1, <2>3 DEF Name, openVars
<1>9. CASE ~Opens(w) /\ ~Closes(w) /\ ~RemoveFile(w)
  <2>1. UNCHANGED <<free_open_file_entries, dir>> /\ FilesOf(Handles)
    BY <1>9, OtherTable
  <2>2. \A u \in Workers : pc'[u] \in OpenSteps =>
          pc[u] \in OpenSteps /\ loc'[u].fd = loc[u].fd /\ req'[u] = req[u]
    BY <1>5, <1>9, OpenKept
  <2> QED
    BY <1>3, <1>4, <2>1, <2>2 DEF FilesOf, Name
<1> QED
  BY <1>2, <1>7, <1>8, <1>9

\* Sessions have files of their own: as long as no box is removed that is in use, every
\* session and every creation that is under way has a handle that no other has and that
\* is not free, of the file that the directory has for the box it was asked for.
THEOREM SessionsApartCorrect ==
  Spec /\ []RemovesApart => []SessionsApart
<1>1. Init => SessionsApart
  BY DEF Init, SessionsApart, PubFile, SubFile, CreateSection
<1>2. RemovesApart /\ TypeInv /\ SessionsApart /\ [Next]_vars => SessionsApart'
  <2> SUFFICES ASSUME RemovesApart, TypeInv, SessionsApart, [Next]_vars PROVE SessionsApart'
    OBVIOUS
  <2>1. CASE \E w \in Workers : Step(w)
    BY <2>1, SessionsStep
  <2>2. CASE (\E c \in Clients : ClientAction(c)) \/ sig_handler \/ UNCHANGED vars
    <3>1. UNCHANGED <<fsVars, req, pc, loc>>
      BY <2>2, ClientActionFrame DEF sig_handler, Crash, vars, requestVars
    <3> QED
      BY <3>1 DEF SessionsApart, Name, tfs_lookup, find_in_dir, fsVars, openVars, fileVars
  <2> QED
    BY <2>1, <2>2, NextSteps
<1> QED
  BY <1>1, <1>2, TypeInit, TypeNext, PTL DEF Spec

\* The same as a property of a behaviour, which a run with removals checks: a removal
\* leaves the other boxes' sessions their files and handles, until one is in use.
THEOREM OthersUndisturbedCorrect == Spec => OthersUndisturbed
BY SessionsApartCorrect, PTL DEF OthersUndisturbed

-----------------------------------------------------------------------------
(* The sessions of publishers.                                             *)

\* A session of a publisher begins where the count is tested, and keeps its spot.
LEMMA PubKept ==
  ASSUME TypeInv, NEW w \in Workers, Step(w), pc'[w] \in PubSection
  PROVE  /\ loc'[w].spot = loc[w].spot
         /\ \/ pc[w] \in PubSection
            \/ /\ PubCount(w) /\ Box(w).n_publishers = 0
               /\ boxes' = [boxes EXCEPT ![loc[w].spot].n_publishers = 1]
<1>1. pc \in [Workers -> Labels] /\ loc \in [Workers -> LocType] /\ Shape(w)
  BY DEF TypeInv, BrokerInv, BrokerTypeOK, LocType
<1>2. loc[w] \in LocType
  BY <1>1
<1> USE DEF PubSection, PubFile
<1>3. ~Begin(w)
  BY BeginClosed
<1>4. pc[w] # "idle" /\ req' = req
  BY <1>3, Busy, RequestFrame DEF requestVars
<1>5. Shape(w)' /\ pc'[w] # "idle"
  BY StepShape DEF TypeInv, ClientInv
<1>6. Code(w) = "publisher"
  <2>1. pc'[w] \in StepsOf[Code(w)] /\ Code(w) \in Codes
    BY <1>1, <1>4, <1>5, CodeAt DEF Shape, Code
  <2> QED
    BY <2>1 DEF StepsOf, Codes, CreateSection, SubFile
<1>7. pc[w] \in {"find", "found", "publish"} \cup PubSection
  BY <1>1, <1>4, <1>6 DEF Shape, StepsOf
<1>8. CASE pc[w] \in {"find", "found"}
  <2>1. FindBox(w) \/ FindNothing(w) \/ Found(w)
    BY <1>3, <1>8 DEF Step, Work, ListSpot, ListReply, EmptySpot, CreateExists, CreateFile,
         CreateTaken, CreateName, CreateBox, CreateClose, Reply, RemoveFile, RemoveUnlock,
         RemoveWake, RemoveDestroy, RemoveCond, PubCount, PubOpen, PubLock, PubRead, PubWrite,
         PubSignal, PubClose,
         PubUncount, PubMiscount, SubCount, SubOpen, Refuse, SubLock, SubRead, SubWait, SubSend,
         WakeSpuriously, At
  <2>2. pc'[w] \notin PubSection
    BY <1>1, <1>6, <1>8, <2>1 DEF FindBox, FindNothing, Found, ScanNext, Goto, Crash, HitStep,
         MissStep
  <2> QED
    BY <2>2
<1>9. CASE pc[w] = "publish"
  <2>1. PubCount(w)
    BY <1>3, <1>9 DEF Step, Work, ListSpot, ListReply, EmptySpot, FindBox, FindNothing, Found,
         CreateExists, CreateFile, CreateTaken, CreateName, CreateBox, CreateClose, Reply,
         RemoveFile, RemoveUnlock, RemoveWake, RemoveDestroy, RemoveCond, PubOpen, PubLock,
         PubRead, PubWrite, PubSignal, PubClose, PubUncount, PubMiscount, SubCount, SubOpen, Refuse, SubLock,
         SubRead, SubWait, SubSend, WakeSpuriously, At
  <2> QED
    BY <1>1, <2>1 DEF PubCount, Goto
<1>10. CASE pc[w] \in PubSection
  <2>1. \/ PubOpen(w) \/ PubLock(w) \/ PubRead(w) \/ PubWrite(w) \/ PubSignal(w)
        \/ PubClose(w, "pub_end", "pub_uncount") \/ PubClose(w, "pub_short", "pub_miscount")
        \/ PubUncount(w) \/ PubMiscount(w)
    BY <1>3, <1>10 DEF Step, Work, ListSpot, ListReply, EmptySpot, FindBox, FindNothing, Found,
         CreateExists, CreateFile, CreateTaken, CreateName, CreateBox, CreateClose, Reply,
         RemoveFile, RemoveUnlock, RemoveWake, RemoveDestroy, RemoveCond, PubCount, SubCount,
         SubOpen, Refuse, SubLock, SubRead, SubWait, SubSend, WakeSpuriously, At
  <2>2. \/ loc' = loc \/ (\E x : loc' = [loc EXCEPT ![w].fd = x])
        \/ (\E x : loc' = [loc EXCEPT ![w].buffer = x]) \/ (\E x : loc' = [loc EXCEPT ![w].n = x])
    BY <2>1 DEF PubOpen, PubLock, PubRead, Crash, PubWrite, PubSignal, PubClose, PubUncount,
         PubMiscount
  <2> QED
    BY <1>1, <1>2, <1>10, <2>2 DEF LocType
<1> QED
  BY <1>7, <1>8, <1>9, <1>10

\* Who sets the number of publishers of a box.
LEMMA CountsOf ==
  ASSUME TypeInv, NEW w \in Workers, Step(w), NEW s \in Spots,
         boxes'[s].n_publishers # boxes[s].n_publishers
  PROVE  /\ s = loc[w].spot /\ pc[w] # "idle"
         /\ \/ Code(w) = "create" /\ CreateBox(w)
            \/ PubCount(w)
            \/ PubUncount(w)
<1>1. boxes \in [Spots -> BoxType] /\ Shape(w)
  BY DEF TypeInv, BrokerInv, BrokerTypeOK, BoxType
<1>2. boxes[s] \in BoxType
  BY <1>1
<1>3. BoxStep(w)
  BY BoxFrame
<1>4. CASE CreateTaken(w) \/ CreateName(w) \/ RemoveUnlock(w)
  BY <1>1, <1>2, <1>4 DEF CreateTaken, CreateName, RemoveUnlock, BoxType
<1>5. CASE PubWrite(w) \/ PubMiscount(w) \/ SubCount(w)
  <2>1. boxes'[s].n_publishers = boxes[s].n_publishers
    <3>1. \/ \E x : boxes' = [boxes EXCEPT ![loc[w].spot].box_size = x]
          \/ \E x : boxes' = [boxes EXCEPT ![loc[w].spot].n_subscribers = x]
      BY <1>5 DEF PubWrite, PubMiscount, SubCount
    <3>2. \/ boxes'[s] = boxes[s]
          \/ \E x : boxes'[s] = [boxes[s] EXCEPT !.box_size = x]
          \/ \E x : boxes'[s] = [boxes[s] EXCEPT !.n_subscribers = x]
      BY <1>1, <3>1
    <3>3. CASE \E x : boxes'[s] = [boxes[s] EXCEPT !.box_size = x]
      BY <1>2, <3>3 DEF BoxType
    <3>4. CASE \E x : boxes'[s] = [boxes[s] EXCEPT !.n_subscribers = x]
      BY <1>2, <3>4 DEF BoxType
    <3> QED
      BY <3>2, <3>3, <3>4
  <2> QED
    BY <2>1
<1>6. CASE CreateBox(w)
  <2>1. pc[w] # "idle" /\ Code(w) = "create"
    BY <1>1, <1>6, CodeAt DEF CreateBox, At, CreateSection
  <2>2. s # loc[w].spot => boxes'[s] = boxes[s]
    BY <1>1, <1>6 DEF CreateBox
  <2> QED
    BY <1>6, <2>1, <2>2
<1>7. CASE PubCount(w) \/ PubUncount(w)
  BY <1>1, <1>7 DEF PubCount, PubUncount, At
<1> QED
  BY <1>3, <1>4, <1>5, <1>6, <1>7 DEF BoxStep

LEMMA PublisherStep ==
  ASSUME BoxesFirst, TypeInv, ReqInv, OnePublisher, NEW w \in Workers, Step(w)
  PROVE  OnePublisher'
<1>1. /\ boxes \in [Spots -> BoxType] /\ \A u \in Workers : Shape(u)
      /\ \A u \in Workers : pc[u] \in PubSection =>
           pc[u] # "idle" /\ loc[u].spot \in Spots /\ Code(u) = "publisher"
  <2>1. boxes \in [Spots -> BoxType] /\ \A u \in Workers : Shape(u)
    BY DEF TypeInv, BrokerInv, BrokerTypeOK, BoxType
  <2>2. \A u \in Workers : pc[u] \in PubSection => pc[u] # "idle"
    BY DEF PubSection, PubFile
  <2> QED
    BY <2>1, <2>2, CodeAt DEF Shape, SpotSteps
<1>2. \A u \in Workers : u # w /\ pc'[u] \in PubSection =>
        pc[u] \in PubSection /\ loc'[u].spot = loc[u].spot
  <2>1. Others(w)
    BY OthersStep DEF TypeInv, BrokerInv
  <2> QED
    BY <2>1 DEF Others, PubSection, PubFile
<1>3. \A u \in Workers : pc'[u] \in PubSection =>
        /\ loc'[u].spot = loc[u].spot
        /\ \/ pc[u] \in PubSection
           \/ /\ u = w /\ PubCount(w) /\ Box(w).n_publishers = 0
              /\ boxes' = [boxes EXCEPT ![loc[w].spot].n_publishers = 1]
  BY <1>2, PubKept
<1>4. CASE pc'[w] \in PubSection /\ pc[w] \notin PubSection
  <2>1. /\ PubCount(w) /\ Box(w).n_publishers = 0
        /\ boxes' = [boxes EXCEPT ![loc[w].spot].n_publishers = 1]
        /\ loc'[w].spot = loc[w].spot
    BY <1>4, PubKept
  <2>2. loc[w].spot \in Spots
    BY <1>1, <2>1 DEF PubCount, At, Shape, SpotSteps
  <2>3. \A u \in Workers : u # w /\ pc'[u] \in PubSection =>
          pc[u] \in PubSection /\ loc[u].spot # loc[w].spot
    BY <1>2, <2>1 DEF OnePublisher, Box
  <2>4. boxes[loc[w].spot] \in BoxType
    BY <1>1, <2>2
  <2>5. boxes'[loc[w].spot].n_publishers = 1
    BY <1>1, <2>1, <2>2, <2>4 DEF BoxType
  <2>6. \A s \in Spots : s # loc[w].spot => boxes'[s] = boxes[s]
    BY <1>1, <2>1
  <2>7. \A u \in Workers : pc'[u] \in PubSection => boxes'[loc'[u].spot].n_publishers > 0
    BY <1>1, <1>2, <2>1, <2>3, <2>5, <2>6 DEF OnePublisher, Box
  <2>8. \A u, v \in Workers : u # v /\ pc'[u] \in PubSection /\ pc'[v] \in PubSection
          => loc'[v].spot # loc'[u].spot
    BY <1>2, <2>1, <2>3 DEF OnePublisher
  <2> QED
    BY <2>7, <2>8 DEF OnePublisher, Box
<1>5. CASE pc'[w] \in PubSection => pc[w] \in PubSection
  <2>1. \A u \in Workers : pc'[u] \in PubSection => pc[u] \in PubSection /\ loc'[u].spot = loc[u].spot
    BY <1>2, <1>3, <1>5
  <2>2. \A u \in Workers : pc'[u] \in PubSection =>
          boxes'[loc[u].spot].n_publishers = boxes[loc[u].spot].n_publishers
    <3> SUFFICES ASSUME NEW u \in Workers, pc'[u] \in PubSection,
                        boxes'[loc[u].spot].n_publishers # boxes[loc[u].spot].n_publishers
                 PROVE  FALSE
      OBVIOUS
    <3>1. pc[u] \in PubSection /\ loc[u].spot \in Spots /\ Code(u) = "publisher" /\ pc[u] # "idle"
      BY <1>1, <2>1
    <3>2. PICK s \in Spots : s = loc[u].spot
      BY <3>1
    <3>3. /\ s = loc[w].spot /\ pc[w] # "idle"
          /\ Code(w) = "create" \/ PubCount(w) \/ PubUncount(w)
      BY <3>2, CountsOf
    <3>4. Code(w) # "create"
      BY <3>1, <3>3, NoCreation
    <3>5. CASE PubCount(w)
      <4>1. (pc[w] = "publish" /\ Box(w).n_publishers > 0) \/ Box(w).n_publishers = 0
        BY <3>1, <3>2, <3>3, <3>5 DEF OnePublisher, Box, PubCount, At
      <4>2. Box(w).n_publishers > 0
        BY <3>1, <3>2, <3>3 DEF OnePublisher, Box
      <4>3. boxes' = boxes
        BY <3>5, <4>2 DEF PubCount
      <4> QED
        BY <4>3
    <3>6. CASE PubUncount(w)
      <4>1. pc[w] = "pub_uncount" /\ pc'[w] = "idle"
        <5>1. pc \in [Workers -> Labels]
          BY DEF TypeInv, BrokerInv, BrokerTypeOK
        <5> QED
          BY <3>6, <5>1 DEF PubUncount, At, Goto
      <4>2. u # w
        BY <4>1 DEF PubSection, PubFile
      <4>3. pc[w] \in PubSection
        BY <4>1 DEF PubSection
      <4> QED
        BY <3>1, <3>2, <3>3, <4>2, <4>3 DEF OnePublisher
    <3> QED
      BY <3>3, <3>4, <3>5, <3>6
  <2>3. \A u \in Workers : pc'[u] \in PubSection => boxes'[loc'[u].spot].n_publishers > 0
    BY <2>1, <2>2 DEF OnePublisher, Box
  <2>4. \A u, v \in Workers : u # v /\ pc'[u] \in PubSection /\ pc'[v] \in PubSection
          => loc'[v].spot # loc'[u].spot
    BY <2>1 DEF OnePublisher
  <2> QED
    BY <2>3, <2>4 DEF OnePublisher, Box
<1> QED
  BY <1>4, <1>5

\* One publisher at a time: when all the boxes have been created before publishers
\* come, a box that has a publisher's session counts it and has no other, although
\* the count is all that keeps a second one out and no lock is held meanwhile.
THEOREM OnePublisherCorrect ==
  ASSUME BoxesFirst
  PROVE  Spec => []OnePublisher
<1>1. Init => OnePublisher
  BY DEF Init, OnePublisher, PubSection, PubFile
<1>2. TypeInv /\ ReqInv /\ OnePublisher /\ [Next]_vars => OnePublisher'
  <2> SUFFICES ASSUME TypeInv, ReqInv, OnePublisher, [Next]_vars PROVE OnePublisher'
    OBVIOUS
  <2>1. CASE \E w \in Workers : Step(w)
    BY <2>1, PublisherStep
  <2>2. CASE (\E c \in Clients : ClientAction(c)) \/ sig_handler \/ UNCHANGED vars
    <3>1. UNCHANGED <<boxes, pc, loc>>
      BY <2>2, ClientActionFrame DEF sig_handler, Crash, vars
    <3> QED
      BY <3>1 DEF OnePublisher, Box
  <2> QED
    BY <2>1, <2>2, NextSteps
<1> QED
  BY <1>1, <1>2, TypeInit, TypeNext, ReqInit, ReqNext, PTL DEF Spec

-----------------------------------------------------------------------------
(* The boxes, their names and their files.                                 *)

\* Boxes are created and removed by one client after another.  With two at once a
\* name may be given to two boxes, which the run MB_two_creates shows.
OneChanges ==
  \A c, d \in Clients : c # d /\ Changing(c) /\ Changing(d) => c \in Before(d) \/ d \in Before(c)

\* One worker at a time creates or removes a box.
LEMMA OneManages ==
  ASSUME OneChanges, TypeInv, ReqInv, NEW v \in Workers, NEW w \in Workers, v # w,
         Manages(v), Manages(w)
  PROVE  FALSE
<1>1. req[v] \in Clients /\ req[w] \in Clients
  BY DEF TypeInv, BrokerInv, Shape, Manages
<1>2. req[v] # req[w] /\ client[req[v]] \notin {"new", "done"} /\ client[req[w]] \notin {"new", "done"}
  BY DEF ReqInv, Manages
<1>3. req[v] \in Before(req[w]) \/ req[w] \in Before(req[v])
  BY <1>1, <1>2 DEF OneChanges, Changing, Manages, Code
<1> QED
  BY <1>1, <1>2, <1>3, BeforeDone

\* Each spot is as taken as it was, and has the name it had.
NamesSame == \A s \in Spots :
  boxes'[s].taken = boxes[s].taken /\ boxes'[s].box_name = boxes[s].box_name

\* Who takes a spot, leaves it or names it.
LEMMA NamesWritten ==
  ASSUME TypeInv, NEW w \in Workers, Step(w), ~CreateTaken(w), ~CreateName(w), ~RemoveUnlock(w)
  PROVE  NamesSame
<1>1. boxes \in [Spots -> BoxType]
  BY DEF TypeInv, BrokerInv, BrokerTypeOK, BoxType
<1> SUFFICES ASSUME NEW s \in Spots
             PROVE  boxes'[s].taken = boxes[s].taken /\ boxes'[s].box_name = boxes[s].box_name
  BY DEF NamesSame
<1>2. boxes[s] \in BoxType
  BY <1>1
<1>3. CASE UNCHANGED boxes
  BY <1>3
<1>4. CASE CreateBox(w)
  <2>1. PICK b : b = [boxes[s] EXCEPT !.n_publishers = 0]
    OBVIOUS
  <2>2. b \in BoxType /\ b.taken = boxes[s].taken /\ b.box_name = boxes[s].box_name
    BY <1>2, <2>1, FSAssumption DEF BoxType
  <2>3. PICK d : d = [b EXCEPT !.n_subscribers = 0]
    OBVIOUS
  <2>4. d \in BoxType /\ d.taken = b.taken /\ d.box_name = b.box_name
    BY <2>2, <2>3, FSAssumption DEF BoxType
  <2>5. PICK e : e = [d EXCEPT !.box_size = 0]
    OBVIOUS
  <2>6. e.taken = d.taken /\ e.box_name = d.box_name
    BY <2>4, <2>5 DEF BoxType
  <2>7. s = loc[w].spot => boxes'[s] = e
    BY <1>1, <1>4, <2>1, <2>3, <2>5 DEF CreateBox
  <2>8. s # loc[w].spot => boxes'[s] = boxes[s]
    BY <1>1, <1>4 DEF CreateBox
  <2> QED
    BY <2>2, <2>4, <2>6, <2>7, <2>8
<1>5. CASE PubCount(w) \/ PubUncount(w)
  <2>1. \/ boxes'[s] = boxes[s]
        \/ \E x : boxes'[s] = [boxes[s] EXCEPT !.n_publishers = x]
    BY <1>1, <1>5 DEF PubCount, PubUncount
  <2> QED
    BY <1>2, <2>1 DEF BoxType
<1>6. CASE PubMiscount(w) \/ SubCount(w)
  <2>1. \/ boxes'[s] = boxes[s]
        \/ \E x : boxes'[s] = [boxes[s] EXCEPT !.n_subscribers = x]
    BY <1>1, <1>6 DEF PubMiscount, SubCount
  <2> QED
    BY <1>2, <2>1 DEF BoxType
<1>7. CASE PubWrite(w)
  <2>1. PICK x : boxes' = [boxes EXCEPT ![loc[w].spot].box_size = x]
    BY <1>7 DEF PubWrite
  <2>2. boxes'[s] = boxes[s] \/ boxes'[s] = [boxes[s] EXCEPT !.box_size = x]
    BY <1>1, <2>1
  <2> QED
    BY <1>2, <2>2 DEF BoxType
<1> QED
  BY <1>3, <1>4, <1>5, <1>6, <1>7, BoxFrame DEF BoxStep

\* Who takes a name out of the directory.
LEMMA NamesGrow ==
  ASSUME TypeInv, NEW w \in Workers, Step(w), ~RemoveFile(w)
  PROVE  DOMAIN dir \subseteq DOMAIN dir'
<1>1. CASE Opens(w)
  BY <1>1, OpensTable DEF DirGrows
<1>2. CASE Closes(w)
  BY <1>2, ClosesTable
<1>3. CASE ~Opens(w) /\ ~Closes(w)
  BY <1>3, OtherTable
<1> QED
  BY <1>1, <1>2, <1>3

Removing(p) ==
  \E w \in Workers : pc[w] \in {"find", "found", "remove"} /\ Code(w) = "remove" /\ Name(w) = p

\* What the worker that creates a box has found out about the names, and the one that
\* removes a box about the spot.
ManagerAt(w) ==
  pc[w] # "idle" =>
    /\ Code(w) = "create" =>
         /\ pc[w] = "find" => \A s \in 0 .. loc[w].i - 1 : ~IsNamed(w, s)
         /\ pc[w] \in {"create", "create_taken"} => \A s \in Spots : ~IsNamed(w, s)
         /\ pc[w] = "create_name" => \A s \in Spots \ {loc[w].spot} : ~IsNamed(w, s)
         /\ pc[w] \in {"create_taken", "create_name"} => Name(w) \in DOMAIN dir
    /\ Code(w) = "remove" /\ pc[w] \in {"found", "remove"} => IsNamed(w, loc[w].spot)

BackInv ==
  /\ \A s \in Spots : Made(s) =>
       boxes[s].box_name \in DOMAIN dir \/ Removing(boxes[s].box_name)
  /\ \A r, s \in Spots : Made(r) /\ Made(s) /\ boxes[r].box_name = boxes[s].box_name => r = s
  /\ \A w \in Workers : ManagerAt(w)

LEMMA NameFound ==
  ASSUME TypeInv, NEW p
  PROVE  tfs_lookup(p) # -1 <=> p \in DOMAIN dir
<1>1. dir \in [DOMAIN dir -> Inodes \ {Root}] /\ -1 \notin Inodes
  BY DEF TypeInv, BrokerInv, FSInv, FSTypeOK, Inodes
<1> QED
  BY <1>1 DEF tfs_lookup, find_in_dir

LEMMA BackedFrom == ASSUME TypeInv, BackInv PROVE BoxesBacked
BY NameFound DEF BackInv, Made, Removing, BoxesBacked

\* The steps of a worker that creates or removes a box.
LEMMA ManagerServes ==
  ASSUME TypeInv, NEW w \in Workers, Step(w), Manages(w)
  PROVE  /\ req' = req
         /\ \/ EmptySpot(w) \/ FindBox(w) \/ FindNothing(w) \/ Found(w)
            \/ CreateExists(w) \/ CreateFile(w) \/ CreateTaken(w) \/ CreateName(w)
            \/ CreateBox(w) \/ CreateClose(w) \/ Reply(w)
            \/ RemoveFile(w) \/ RemoveUnlock(w) \/ RemoveWake(w) \/ RemoveDestroy(w)
            \/ RemoveCond(w)
<1>1. Shape(w)
  BY DEF TypeInv, BrokerInv
<1>2. ~Begin(w)
  BY DEF Begin, At, Manages
<1>3. req' = req
  BY <1>2, RequestFrame DEF requestVars
<1>4. pc[w] \in StepsOf["create"] \cup StepsOf["remove"]
  BY <1>1 DEF Shape, Manages
<1>5. pc[w] \notin {"list", "list_reply", "publish", "subscribe", "sub_open", "refuse"}
      /\ pc[w] \notin PubSection /\ pc[w] \notin SubFile
  BY <1>4 DEF StepsOf, CreateSection, PubSection, PubFile, SubFile
<1>6. /\ ~ListSpot(w) /\ ~ListReply(w) /\ ~PubCount(w) /\ ~SubCount(w) /\ ~SubOpen(w) /\ ~Refuse(w)
  BY <1>5 DEF ListSpot, ListReply, PubCount, SubCount, SubOpen, Refuse, At
<1>7. /\ ~PubOpen(w) /\ ~PubLock(w) /\ ~PubRead(w) /\ ~PubWrite(w) /\ ~PubSignal(w)
      /\ ~PubClose(w, "pub_end", "pub_uncount") /\ ~PubClose(w, "pub_short", "pub_miscount")
      /\ ~PubUncount(w) /\ ~PubMiscount(w)
  BY <1>5 DEF PubOpen, PubLock, PubRead, PubWrite, PubSignal, PubClose, PubUncount, PubMiscount, At,
     PubSection, PubFile
<1>8. ~SubLock(w) /\ ~SubRead(w) /\ ~SubWait(w) /\ ~SubSend(w) /\ ~WakeSpuriously(w)
  BY <1>5 DEF SubLock, SubRead, SubWait, SubSend, WakeSpuriously, At, SubFile
<1> QED
  BY <1>2, <1>3, <1>6, <1>7, <1>8 DEF Step, Work

\* Another worker that creates or removes a box keeps what it knows.
LEMMA OtherManager ==
  ASSUME TypeInv, NEW w \in Workers, Step(w), NEW v \in Workers, v # w, Manages(v)'
  PROVE  Manages(v) /\ pc'[v] = pc[v] /\ loc'[v] = loc[v] /\ req'[v] = req[v]
<1>1. Others(w) /\ Shape(v)
  BY OthersStep DEF TypeInv, BrokerInv
<1>2. /\ loc'[v] = loc[v] /\ req'[v] = req[v]
      /\ pc'[v] # pc[v] => pc[v] = "asleep"
  BY <1>1 DEF Others
<1>3. Code(v)' = Code(v)
  BY <1>2 DEF Code
<1>4. pc[v] = "asleep" => Code(v) = "subscriber"
  BY <1>1, CodeAt DEF SubFile
<1> QED
  BY <1>2, <1>3, <1>4 DEF Manages

\* A worker that does neither leaves the boxes made as they are.
LEMMA OtherSteps ==
  ASSUME TypeInv, NEW w \in Workers, Step(w), ~Manages(w)
  PROVE  /\ ~CreateTaken(w) /\ ~CreateName(w) /\ ~RemoveUnlock(w) /\ ~RemoveFile(w)
         /\ Manages(w)' => pc'[w] \in {"empty", "unlink"}
         /\ pc[w] # "create_name" /\ pc'[w] # "create_name"
<1>1. Shape(w) /\ Shape(w)' /\ pc \in [Workers -> Labels] /\ queue \in Seq(Clients)
      /\ req \in [Workers -> Clients \cup {NoClient}]
  BY StepShape DEF TypeInv, ClientInv, BrokerInv, BrokerTypeOK
<1>2. pc[w] \notin {"create_taken", "create_name", "remove", "unlink"}
  BY <1>1, CodeAt DEF Manages, CreateSection
<1>3. ~CreateTaken(w) /\ ~CreateName(w) /\ ~RemoveUnlock(w) /\ ~RemoveFile(w)
  BY <1>2 DEF CreateTaken, CreateName, RemoveUnlock, RemoveFile, At
<1>4. CASE Begin(w)
  <2>1. queue # <<>>
    BY <1>4 DEF Begin, Requests!Take
  <2>2. PICK c \in Clients : c = Head(queue)
    BY <1>1, <2>1
  <2>3. req'[w] = c /\ pc'[w] = FirstStep[Request[c].code]
    BY <1>1, <1>4, <2>2 DEF Begin, Requests!Take, Goto
  <2>4. Code(w)' = Request[c].code
    BY <2>3 DEF Code
  <2>5. Manages(w)' => pc'[w] \in {"empty", "unlink"}
    BY <2>3, <2>4 DEF Manages, FirstStep
  <2>6. pc'[w] # "create_name"
    BY <1>4, BeginClosed
  <2> QED
    BY <1>2, <1>3, <2>5, <2>6
<1>5. CASE ~Begin(w)
  <2>1. req' = req /\ pc[w] # "idle"
    BY <1>5, RequestFrame, Busy DEF requestVars
  <2>2. ~Manages(w)'
    BY <2>1 DEF Manages, Code
  <2>3. pc'[w] # "create_name"
    <3>1. SUFFICES ASSUME pc'[w] = "create_name" PROVE FALSE
      OBVIOUS
    <3>2. pc'[w] \in StepsOf[Code(w)] /\ Code(w) \in Codes
      BY <1>1, <2>1, <3>1, CodeAt DEF Shape, Code
    <3>3. Code(w) = "create"
      BY <3>1, <3>2 DEF StepsOf, Codes, PubSection, PubFile, SubFile
    <3> QED
      BY <2>1, <3>3 DEF Manages
  <2> QED
    BY <1>2, <1>3, <2>2, <2>3
<1> QED
  BY <1>4, <1>5

\* What a manager's worker knows stays true while the names do.
LEMMA ManagerKept ==
  ASSUME TypeInv, NEW v \in Workers, ManagerAt(v), NamesSame, DOMAIN dir \subseteq DOMAIN dir',
         Manages(v), pc'[v] = pc[v], loc'[v] = loc[v], req'[v] = req[v]
  PROVE  ManagerAt(v)'
<1>1. Code(v)' = Code(v) /\ Name(v)' = Name(v)
  BY DEF Code, Name
<1>2. \A s \in Spots : IsNamed(v, s)' = IsNamed(v, s)
  BY <1>1 DEF NamesSame, IsNamed
<1>3. loc \in [Workers -> LocType] /\ Shape(v) /\ pc[v] # "idle" /\ MAX_BOX_NUMBER \in Nat
  BY BrokerAssumption DEF TypeInv, BrokerInv, BrokerTypeOK, LocType, Manages
<1>4. loc[v].i \in Spots
  BY <1>3 DEF LocType
<1>5. \A s \in 0 .. loc[v].i - 1 : s \in Spots
  BY <1>3, <1>4 DEF Spots
<1>6. pc[v] \in {"found", "remove"} => loc[v].spot \in Spots
  BY <1>3 DEF Shape, SpotSteps
<1> QED
  BY <1>1, <1>2, <1>3, <1>5, <1>6 DEF ManagerAt

\* A worker that serves another kind of client disturbs nothing.
LEMMA BackOther ==
  ASSUME TypeInv, BackInv, NEW w \in Workers, Step(w), ~Manages(w)
  PROVE  BackInv'
<1>1. /\ ~CreateTaken(w) /\ ~CreateName(w) /\ ~RemoveUnlock(w) /\ ~RemoveFile(w)
      /\ Manages(w)' => pc'[w] \in {"empty", "unlink"}
      /\ pc[w] # "create_name" /\ pc'[w] # "create_name"
  BY OtherSteps
<1>2. NamesSame /\ DOMAIN dir \subseteq DOMAIN dir'
  BY <1>1, NamesWritten, NamesGrow
<1>3. Others(w) /\ \A u \in Workers : Shape(u)
  BY OthersStep DEF TypeInv, BrokerInv
<1>4. \A u \in Workers : u # w => loc'[u] = loc[u] /\ req'[u] = req[u]
                                  /\ (pc[u] # "asleep" => pc'[u] = pc[u])
  BY <1>3 DEF Others
<1>5. \A v \in Workers : ManagerAt(v)'
  <2> SUFFICES ASSUME NEW v \in Workers PROVE ManagerAt(v)'
    OBVIOUS
  <2>1. CASE ~Manages(v)'
    BY <2>1 DEF ManagerAt, Manages
  <2>2. CASE Manages(v)' /\ v = w
    BY <1>1, <2>2 DEF ManagerAt
  <2>3. CASE Manages(v)' /\ v # w
    BY <1>2, <2>3, OtherManager, ManagerKept DEF BackInv
  <2> QED
    BY <2>1, <2>2, <2>3
<1>6. \A s \in Spots : Made(s)' => Made(s)
  <2>1. \A u \in Workers : pc[u] = "create_name" => pc'[u] = "create_name" /\ loc'[u] = loc[u]
    BY <1>1, <1>4
  <2> QED
    BY <1>2, <2>1 DEF Made, NamesSame
<1>7. \A p : Removing(p) => Removing(p)'
  <2> SUFFICES ASSUME NEW p, NEW u \in Workers, pc[u] \in {"find", "found", "remove"},
                      Code(u) = "remove", Name(u) = p
               PROVE  Removing(p)'
    BY DEF Removing
  <2>1. u # w
    BY DEF Manages
  <2> QED
    BY <1>4, <2>1 DEF Removing, Code, Name
<1> QED
  BY <1>2, <1>5, <1>6, <1>7 DEF BackInv, NamesSame

\* Where the one worker is that creates or removes a box.
LEMMA ManagerGoes ==
  ASSUME OneChanges, TypeInv, ReqInv, NEW w \in Workers, Step(w), Manages(w)
  PROVE  /\ req' = req /\ Code(w)' = Code(w) /\ Name(w)' = Name(w)
         /\ Code(w) \in {"create", "remove"} /\ pc[w] # "idle"
         /\ \A v \in Workers \ {w} : ManagerAt(v)'
         /\ \A s \in Spots : Made(s) <=> boxes[s].taken /\ ~(pc[w] = "create_name" /\ loc[w].spot = s)
         /\ \A s \in Spots : Made(s)' <=> boxes'[s].taken /\ ~(pc'[w] = "create_name" /\ loc'[w].spot = s)
         /\ \A p : Removing(p) =>
              pc[w] \in {"find", "found", "remove"} /\ Code(w) = "remove" /\ Name(w) = p
         /\ Code(w) = "remove" /\ pc'[w] \in {"find", "found", "remove"} => Removing(Name(w))'
<1>1. req' = req
  BY ManagerServes
<1>2. /\ Code(w)' = Code(w) /\ Name(w)' = Name(w)
      /\ Code(w) \in {"create", "remove"} /\ pc[w] # "idle"
  BY <1>1 DEF Code, Name, Manages
<1>3. \A v \in Workers \ {w} : ~Manages(v)
  BY OneManages
<1>4. \A v \in Workers \ {w} : ~Manages(v)'
  BY <1>3, OtherManager
<1>5. \A v \in Workers \ {w} : pc[v] # "create_name" /\ pc'[v] # "create_name"
  <2> SUFFICES ASSUME NEW v \in Workers \ {w}
               PROVE  pc[v] # "create_name" /\ pc'[v] # "create_name"
    OBVIOUS
  <2>1. Shape(v) /\ Others(w)
    BY OthersStep DEF TypeInv, BrokerInv
  <2>2. pc[v] # "create_name"
    BY <1>3, <2>1, CodeAt DEF Manages, CreateSection
  <2> QED
    BY <2>1, <2>2 DEF Others
<1>6. \A v \in Workers \ {w} : ManagerAt(v)'
  BY <1>4 DEF ManagerAt, Manages
<1>7. \A p : Removing(p) =>
        pc[w] \in {"find", "found", "remove"} /\ Code(w) = "remove" /\ Name(w) = p
  BY <1>3 DEF Removing, Manages
<1>8. Code(w) = "remove" /\ pc'[w] \in {"find", "found", "remove"} => Removing(Name(w))'
  BY <1>2 DEF Removing
<1>9. /\ \A s \in Spots : Made(s) <=> boxes[s].taken /\ ~(pc[w] = "create_name" /\ loc[w].spot = s)
      /\ \A s \in Spots : Made(s)' <=> boxes'[s].taken /\ ~(pc'[w] = "create_name" /\ loc'[w].spot = s)
  BY <1>5 DEF Made
<1> QED
  BY <1>1, <1>2, <1>6, <1>7, <1>8, <1>9

\* The steps of a manager's worker that name no box and remove no file.
LEMMA BackQuiet ==
  ASSUME OneChanges, TypeInv, ReqInv, BackInv, NEW w \in Workers, Step(w), Manages(w),
         ~CreateTaken(w), ~CreateName(w), ~RemoveUnlock(w), ~RemoveFile(w)
  PROVE  BackInv'
<1>1. NamesSame /\ DOMAIN dir \subseteq DOMAIN dir'
  BY NamesWritten, NamesGrow
<1>2. /\ req' = req /\ Code(w)' = Code(w) /\ Name(w)' = Name(w)
      /\ Code(w) \in {"create", "remove"} /\ pc[w] # "idle"
      /\ \A v \in Workers \ {w} : ManagerAt(v)'
      /\ \A s \in Spots : Made(s) <=> boxes[s].taken /\ ~(pc[w] = "create_name" /\ loc[w].spot = s)
      /\ \A s \in Spots : Made(s)' <=> boxes'[s].taken /\ ~(pc'[w] = "create_name" /\ loc'[w].spot = s)
      /\ \A p : Removing(p) =>
           pc[w] \in {"find", "found", "remove"} /\ Code(w) = "remove" /\ Name(w) = p
      /\ Code(w) = "remove" /\ pc'[w] \in {"find", "found", "remove"} => Removing(Name(w))'
  BY ManagerGoes
<1>3. /\ pc \in [Workers -> Labels] /\ loc \in [Workers -> LocType] /\ loc[w] \in LocType
      /\ Shape(w) /\ MAX_BOX_NUMBER \in Nat \ {0} /\ ManagerAt(w)
  BY BrokerAssumption DEF TypeInv, BrokerInv, BrokerTypeOK, LocType, BackInv
<1>4. \A s \in Spots : IsNamed(w, s)' = IsNamed(w, s)
  BY <1>1, <1>2 DEF NamesSame, IsNamed
<1>5. ASSUME ManagerAt(w)', UNCHANGED <<pc, loc>> \/ (pc[w] # "create_name" /\ pc'[w] # "create_name"),
             Code(w) = "remove" /\ pc[w] \in {"find", "found", "remove"}
               => pc'[w] \in {"find", "found", "remove"}
      PROVE  BackInv'
  <2>1. \A s \in Spots : Made(s)' => Made(s)
    BY <1>1, <1>2, <1>5 DEF NamesSame
  <2>2. \A p : Removing(p) => Removing(p)'
    BY <1>2, <1>5
  <2> QED
    BY <1>1, <1>2, <1>5, <2>1, <2>2 DEF BackInv, NamesSame
<1>6. CASE EmptySpot(w)
  <2>1. pc[w] = "empty" /\ Code(w) = "create"
    BY <1>3, <1>6, CodeAt DEF EmptySpot, At
  <2>2. CASE UNCHANGED pc
    BY <1>2, <1>5, <2>1, <2>2 DEF ManagerAt
  <2>3. CASE ~UNCHANGED pc
    <3>1. /\ pc' = [pc EXCEPT ![w] = "find"]
          /\ \E x \in Spots \cup {-1} : loc' = [loc EXCEPT ![w].free = x, ![w].i = 0]
      BY <1>3, <1>6, <2>3 DEF EmptySpot, ScanNext, Goto, LocType
    <3>2. PICK x \in Spots \cup {-1} : loc' = [loc EXCEPT ![w].free = x, ![w].i = 0]
      BY <3>1
    <3>3. loc'[w].i = 0
      <4>1. PICK f : f = [loc EXCEPT ![w].free = x]
        OBVIOUS
      <4>2. f \in [Workers -> LocType] /\ f[w] \in LocType
        BY <1>3, <4>1, LocFields
      <4>3. loc' = [f EXCEPT ![w].i = 0]
        BY <3>2, <4>1
      <4> QED
        BY <4>2, <4>3 DEF LocType
    <3>4. pc'[w] = "find"
      BY <1>3, <3>1
    <3>5. ManagerAt(w)'
      BY <1>2, <2>1, <3>3, <3>4 DEF ManagerAt
    <3> QED
      BY <1>5, <2>1, <3>4, <3>5
  <2> QED
    BY <2>2, <2>3
<1>7. CASE FindBox(w)
  <2>1. pc[w] = "find" /\ loc[w].i \in Spots
    BY <1>3, <1>7 DEF FindBox, At, LocType
  <2>2. CASE IsNamed(w, loc[w].i) /\ Goto(w, "found") /\ loc' = [loc EXCEPT ![w].spot = loc[w].i]
    <3>1. pc'[w] = "found" /\ loc'[w].spot = loc[w].i
      BY <1>3, <2>2 DEF Goto, LocType
    <3>2. ManagerAt(w)'
      BY <1>2, <1>4, <2>1, <2>2, <3>1 DEF ManagerAt
    <3> QED
      BY <1>5, <2>1, <3>1, <3>2
  <2>3. CASE ~IsNamed(w, loc[w].i) /\ ~LastSpot(w) /\ ScanNext(w)
    <3>1. pc'[w] = "find" /\ loc'[w].i = loc[w].i + 1
      BY <1>3, <2>1, <2>3 DEF ScanNext, LocType
    <3>2. Code(w) = "create" => \A s \in 0 .. loc'[w].i - 1 : ~IsNamed(w, s)'
      <4> SUFFICES ASSUME Code(w) = "create", NEW s \in 0 .. loc'[w].i - 1 PROVE ~IsNamed(w, s)'
        OBVIOUS
      <4>1. (s \in 0 .. loc[w].i - 1 \/ s = loc[w].i) /\ s \in Spots
        BY <1>3, <2>1, <3>1 DEF Spots
      <4>2. ~IsNamed(w, s)
        BY <1>2, <1>3, <2>1, <2>3, <4>1 DEF ManagerAt
      <4> QED
        BY <1>4, <4>1, <4>2
    <3>3. ManagerAt(w)'
      BY <1>2, <3>1, <3>2 DEF ManagerAt
    <3> QED
      BY <1>5, <2>1, <3>1, <3>3
  <2>4. CASE /\ ~IsNamed(w, loc[w].i) /\ LastSpot(w) /\ Code(w) # "remove"
             /\ Goto(w, MissStep[Code(w)]) /\ UNCHANGED loc
    <3>1. Code(w) = "create" /\ pc'[w] = "create"
      BY <1>2, <1>3, <2>4 DEF Goto, MissStep
    <3>2. \A s \in Spots : ~IsNamed(w, s)'
      <4> SUFFICES ASSUME NEW s \in Spots PROVE ~IsNamed(w, s)'
        OBVIOUS
      <4>1. s \in 0 .. loc[w].i - 1 \/ s = loc[w].i
        BY <1>3, <2>1, <2>4 DEF Spots, LastSpot
      <4>2. ~IsNamed(w, s)
        BY <1>2, <1>3, <2>1, <2>4, <3>1, <4>1 DEF ManagerAt
      <4> QED
        BY <1>4, <4>2
    <3>3. ManagerAt(w)'
      BY <1>2, <3>1, <3>2 DEF ManagerAt
    <3> QED
      BY <1>5, <2>1, <3>1, <3>3
  <2> QED
    BY <1>7, <2>2, <2>3, <2>4 DEF FindBox
<1>8. CASE FindNothing(w)
  <2>1. UNCHANGED <<pc, loc>>
    BY <1>8 DEF FindNothing, Crash
  <2>2. ManagerAt(w)'
    BY <1>1, <1>2, <1>3, <2>1, ManagerKept
  <2> QED
    BY <1>5, <2>1, <2>2
<1>9. CASE Found(w)
  <2>1. pc[w] = "found" /\ loc' = loc /\ pc'[w] = HitStep[Code(w)]
    BY <1>3, <1>9 DEF Found, At, Goto
  <2>2. pc'[w] = IF Code(w) = "create" THEN "exists" ELSE "remove"
    BY <1>2, <2>1 DEF HitStep
  <2>3. loc[w].spot \in Spots
    BY <1>3, <2>1 DEF Shape, SpotSteps
  <2>4. ManagerAt(w)'
    BY <1>2, <1>3, <1>4, <2>1, <2>2, <2>3 DEF ManagerAt
  <2> QED
    BY <1>2, <1>5, <2>1, <2>2, <2>4
<1>10. CASE CreateFile(w)
  <2>1. pc[w] = "create" /\ Code(w) = "create" /\ pc'[w] \in {"reply", "create_taken"}
    BY <1>3, <1>10, CodeAt DEF CreateFile, At, Goto
  <2>2. pc'[w] = "create_taken" => Name(w) \in DOMAIN dir'
    BY <1>10, <1>2, OpensTable DEF Opens, OpenSteps, CreateSection
  <2>3. ManagerAt(w)'
    BY <1>2, <1>3, <1>4, <2>1, <2>2 DEF ManagerAt
  <2> QED
    BY <1>5, <2>1, <2>3
<1>11. CASE CreateExists(w) \/ CreateBox(w) \/ CreateClose(w) \/ Reply(w)
            \/ RemoveWake(w) \/ RemoveDestroy(w) \/ RemoveCond(w)
  <2>1. pc[w] \in {"exists", "create_box", "create_close", "reply", "remove_wake",
                   "remove_destroy", "remove_cond"}
    BY <1>11 DEF CreateExists, CreateBox, CreateClose, Reply, RemoveWake, RemoveDestroy,
         RemoveCond, At
  <2>2. pc'[w] \in {"reply", "create_close", "idle", "remove_destroy", "remove_cond"}
    <3>1. CASE CreateExists(w) \/ CreateClose(w) \/ Reply(w) \/ RemoveDestroy(w) \/ RemoveCond(w)
      BY <1>3, <3>1 DEF CreateExists, CreateClose, Reply, RemoveDestroy, RemoveCond, Goto
    <3>2. CASE CreateBox(w)
      BY <3>2 DEF CreateBox
    <3>3. CASE RemoveWake(w)
      BY <3>3 DEF RemoveWake, Woken
    <3> QED
      BY <1>11, <3>1, <3>2, <3>3
  <2>3. ManagerAt(w)'
    BY <2>2 DEF ManagerAt
  <2> QED
    BY <1>5, <2>1, <2>2, <2>3
<1> QED
  BY <1>6, <1>7, <1>8, <1>9, <1>10, <1>11, ManagerServes

\* The steps that name a box, or remove its file and then its spot.
LEMMA BackNames ==
  ASSUME OneChanges, TypeInv, ReqInv, BackInv, NEW w \in Workers, Step(w), Manages(w),
         CreateTaken(w) \/ CreateName(w) \/ RemoveUnlock(w) \/ RemoveFile(w)
  PROVE  BackInv'
<1>1. /\ req' = req /\ Code(w)' = Code(w) /\ Name(w)' = Name(w)
      /\ \A v \in Workers \ {w} : ManagerAt(v)'
      /\ \A s \in Spots : Made(s) <=> boxes[s].taken /\ ~(pc[w] = "create_name" /\ loc[w].spot = s)
      /\ \A s \in Spots : Made(s)' <=> boxes'[s].taken /\ ~(pc'[w] = "create_name" /\ loc'[w].spot = s)
      /\ \A p : Removing(p) =>
           pc[w] \in {"find", "found", "remove"} /\ Code(w) = "remove" /\ Name(w) = p
      /\ Code(w) = "remove" /\ pc'[w] \in {"find", "found", "remove"} => Removing(Name(w))'
  BY ManagerGoes
<1>2. /\ pc \in [Workers -> Labels] /\ boxes \in [Spots -> BoxType] /\ Shape(w) /\ ManagerAt(w)
  BY DEF TypeInv, BrokerInv, BrokerTypeOK, BoxType, BackInv
<1>3. ~RemoveFile(w) => DOMAIN dir \subseteq DOMAIN dir'
  BY NamesGrow
<1>4. CASE CreateTaken(w)
  <2>1. /\ pc[w] = "create_taken" /\ pc'[w] = "create_name" /\ loc' = loc /\ dir' = dir
        /\ boxes' = [boxes EXCEPT ![loc[w].spot].taken = TRUE]
    BY <1>2, <1>4 DEF CreateTaken, At, Goto, fsVars, fileVars
  <2>2. Code(w) = "create" /\ loc[w].spot \in Spots
    BY <1>2, <2>1, CodeAt DEF CreateSection, Shape, SpotSteps
  <2>3. \A s \in Spots : s # loc[w].spot => boxes'[s] = boxes[s]
    BY <1>2, <2>1
  <2>4. \A s \in Spots : Made(s)' => Made(s) /\ boxes'[s] = boxes[s]
    BY <1>1, <2>1, <2>3
  <2>5. \A p : ~Removing(p)
    BY <1>1, <2>1
  <2>6. ManagerAt(w)'
    <3>1. \A s \in Spots \ {loc[w].spot} : ~IsNamed(w, s)'
      BY <1>1, <1>2, <2>1, <2>2, <2>3 DEF ManagerAt, IsNamed
    <3>2. Name(w) \in DOMAIN dir
      BY <1>2, <2>1, <2>2 DEF ManagerAt
    <3> QED
      BY <1>1, <2>1, <2>2, <3>1, <3>2 DEF ManagerAt
  <2> QED
    BY <1>1, <2>1, <2>4, <2>5, <2>6 DEF BackInv
<1>5. CASE CreateName(w)
  <2>1. /\ pc[w] = "create_name" /\ pc'[w] = "create_box" /\ loc' = loc /\ dir' = dir
        /\ boxes' = [boxes EXCEPT ![loc[w].spot].box_name = Name(w)]
    BY <1>2, <1>5 DEF CreateName, At, Goto, fsVars, fileVars
  <2>2. Code(w) = "create" /\ loc[w].spot \in Spots
    BY <1>2, <2>1, CodeAt DEF CreateSection, Shape, SpotSteps
  <2>3. \A s \in Spots : s # loc[w].spot => boxes'[s] = boxes[s]
    BY <1>2, <2>1
  <2>4. boxes'[loc[w].spot].box_name = Name(w)
    <3>1. boxes[loc[w].spot] \in BoxType
      BY <1>2, <2>2
    <3> QED
      BY <1>2, <2>1, <2>2, <3>1 DEF BoxType
  <2>5. \A s \in Spots : Made(s)' /\ s # loc[w].spot => Made(s) /\ boxes'[s] = boxes[s]
    BY <1>1, <2>1, <2>3
  <2>6. \A p : ~Removing(p)
    BY <1>1, <2>1
  <2>7. Name(w) \in DOMAIN dir /\ \A s \in Spots \ {loc[w].spot} : ~IsNamed(w, s)
    BY <1>2, <2>1, <2>2 DEF ManagerAt
  <2>8. \A s \in Spots : Made(s) /\ s # loc[w].spot => boxes[s].box_name # Name(w)
    BY <2>7 DEF Made, IsNamed
  <2>9. ManagerAt(w)'
    BY <1>1, <2>1, <2>2 DEF ManagerAt
  <2>10. \A s \in Spots : Made(s)' => boxes'[s].box_name \in DOMAIN dir'
    BY <2>1, <2>4, <2>5, <2>6, <2>7 DEF BackInv
  <2>11. \A r, s \in Spots : Made(r)' /\ Made(s)' /\ boxes'[r].box_name = boxes'[s].box_name => r = s
    BY <2>4, <2>5, <2>8 DEF BackInv
  <2> QED
    BY <1>1, <2>9, <2>10, <2>11 DEF BackInv
<1>6. CASE RemoveFile(w)
  <2>1. pc[w] = "unlink" /\ loc' = loc /\ boxes' = boxes /\ pc'[w] \in {"reply", "find"}
    BY <1>2, <1>6 DEF RemoveFile, At, Goto
  <2>2. Code(w) = "remove"
    BY <1>2, <2>1, CodeAt
  <2>3. \/ dir' = dir
        \/ pc'[w] = "find" /\ DOMAIN dir' = DOMAIN dir \ {Name(w)}
    BY <1>2, <1>6 DEF RemoveFile, Goto, tfs_unlink, clear_dir_entry, fsVars, fileVars
  <2>4. \A p \in DOMAIN dir : p \in DOMAIN dir' \/ Removing(p)'
    BY <1>1, <2>2, <2>3
  <2>5. \A p : ~Removing(p)
    BY <1>1, <2>1
  <2>6. \A s \in Spots : Made(s)' => Made(s)
    BY <1>1, <2>1
  <2>7. ManagerAt(w)'
    BY <1>1, <2>1, <2>2 DEF ManagerAt
  <2> QED
    BY <1>1, <2>1, <2>4, <2>5, <2>6, <2>7 DEF BackInv
<1>7. CASE RemoveUnlock(w)
  <2>1. /\ pc[w] = "remove" /\ pc'[w] = "remove_wake" /\ loc' = loc /\ dir' = dir
        /\ boxes' = [boxes EXCEPT ![loc[w].spot].taken = FALSE]
    BY <1>2, <1>7 DEF RemoveUnlock, At, Goto, fsVars, fileVars
  <2>2. Code(w) = "remove" /\ loc[w].spot \in Spots /\ IsNamed(w, loc[w].spot)
    BY <1>2, <2>1, CodeAt DEF Shape, SpotSteps, ManagerAt
  <2>3. \A s \in Spots : s # loc[w].spot => boxes'[s] = boxes[s]
    BY <1>2, <2>1
  <2>4. ~boxes'[loc[w].spot].taken
    <3>1. boxes[loc[w].spot] \in BoxType
      BY <1>2, <2>2
    <3> QED
      BY <1>2, <2>1, <2>2, <3>1 DEF BoxType
  <2>5. \A s \in Spots : Made(s)' => s # loc[w].spot /\ Made(s) /\ boxes'[s] = boxes[s]
    BY <1>1, <2>1, <2>3, <2>4
  <2>6. Made(loc[w].spot) /\ boxes[loc[w].spot].box_name = Name(w)
    BY <1>1, <2>1, <2>2 DEF IsNamed
  <2>7. \A s \in Spots : Made(s)' => ~Removing(boxes[s].box_name)
    BY <1>1, <2>2, <2>5, <2>6 DEF BackInv
  <2>8. ManagerAt(w)'
    BY <1>1, <2>1, <2>2 DEF ManagerAt
  <2>9. \A s \in Spots : Made(s)' => boxes'[s].box_name \in DOMAIN dir'
    BY <2>1, <2>5, <2>7 DEF BackInv
  <2> QED
    BY <1>1, <2>5, <2>8, <2>9 DEF BackInv
<1> QED
  BY <1>4, <1>5, <1>6, <1>7

\* Backed: when the requests to create and to remove boxes come one after another, the
\* boxes have names of their own, and each the file that its removal is to delete,
\* although each is made and unmade in steps that take no lock in common.
THEOREM BoxesBackedCorrect ==
  ASSUME OneChanges
  PROVE  Spec => []BoxesBacked
<1>1. Init => BackInv
  BY DEF Init, NewBox, BackInv, Made, ManagerAt
<1>2. TypeInv /\ ReqInv /\ BackInv /\ [Next]_vars => BackInv'
  <2> SUFFICES ASSUME TypeInv, ReqInv, BackInv, [Next]_vars PROVE BackInv'
    OBVIOUS
  <2>1. CASE \E w \in Workers : Step(w)
    BY <2>1, BackOther, BackQuiet, BackNames
  <2>2. CASE (\E c \in Clients : ClientAction(c)) \/ sig_handler \/ UNCHANGED vars
    <3>1. UNCHANGED <<req, boxes, pc, loc, dir>>
      BY <2>2, ClientActionFrame DEF sig_handler, Crash, vars, requestVars, fsVars, fileVars
    <3> QED
      BY <3>1 DEF BackInv, Made, Removing, ManagerAt, IsNamed, Code, Name
  <2> QED
    BY <2>1, <2>2, NextSteps
<1>3. TypeInv /\ BackInv => BoxesBacked
  BY BackedFrom
<1> QED
  BY <1>1, <1>2, <1>3, TypeInit, TypeNext, ReqInit, ReqNext, PTL DEF Spec

-----------------------------------------------------------------------------
(* What subscribers count.                                                 *)

\* A part of a sequence.
LEMMA PartAfter ==
  ASSUME NEW S, NEW s \in Seq(S), NEW h \in Nat, NEW n \in Nat, h + n <= Len(s)
  PROVE  /\ SubSeq(s, h + 1, h + n) \in Seq(S) /\ Len(SubSeq(s, h + 1, h + n)) = n
         /\ \A i \in 1 .. n : SubSeq(s, h + 1, h + n)[i] = s[h + i]
<1>1. PICK a \in Nat \ {0}, b \in Nat : a = h + 1 /\ b = h + n
  OBVIOUS
<1>2. /\ SubSeq(s, a, b) \in Seq(S)
      /\ Len(SubSeq(s, a, b)) = IF a <= b THEN b - a + 1 ELSE 0
      /\ \A i \in 1 .. b - a + 1 : SubSeq(s, a, b)[i] = s[a + i - 1]
  BY <1>1, PartOfSeq
<1>3. (IF a <= b THEN b - a + 1 ELSE 0) = n /\ b - a + 1 = n
  BY <1>1
<1>4. \A i \in 1 .. n : a + i - 1 = h + i
  BY <1>1
<1>5. Len(SubSeq(s, a, b)) = n /\ \A i \in 1 .. n : SubSeq(s, a, b)[i] = s[h + i]
  BY <1>2, <1>3, <1>4
<1> QED
  BY <1>1, <1>2, <1>5

LEMMA Appended ==
  ASSUME NEW S, NEW s \in Seq(S), NEW t \in Seq(S)
  PROVE  /\ s \o t \in Seq(S) /\ Len(s \o t) = Len(s) + Len(t)
         /\ \A i \in 1 .. Len(s) : (s \o t)[i] = s[i]
         /\ \A i \in 1 .. Len(t) : (s \o t)[Len(s) + i] = t[i]
  OBVIOUS

LEMMA LinesSame ==
  ASSUME NEW s, NEW t, NEW n \in Nat, \A i \in 1 .. n : s[i] = t[i]
  PROVE  LinesIn(s, n) = LinesIn(t, n)
<1>1. {i \in 1 .. n : Text[s[i].from][s[i].nr] # "empty"}
        = {i \in 1 .. n : Text[t[i].from][t[i].nr] # "empty"}
  OBVIOUS
<1> QED
  BY <1>1 DEF LinesIn

\* The lines of the messages after the first h are counted apart.
LEMMA LinesAfter ==
  ASSUME NEW s, NEW t, NEW h \in Nat, NEW n \in Nat, \A i \in 1 .. n : t[i] = s[h + i]
  PROVE  LinesIn(s, h + n) = LinesIn(s, h) + LinesIn(t, n)
<1> DEFINE P(i) == Text[s[i].from][s[i].nr] # "empty"
           A == {i \in 1 .. h : P(i)}
           B == {i \in h + 1 .. h + n : P(i)}
           T == {i \in 1 .. n : Text[t[i].from][t[i].nr] # "empty"}
           f == [i \in T |-> h + i]
<1>1. IsFiniteSet(A) /\ IsFiniteSet(T) /\ Cardinality(A) \in Nat /\ Cardinality(T) \in Nat
  <2>1. IsFiniteSet(1 .. h) /\ IsFiniteSet(1 .. n)
    BY FS_Interval
  <2>2. A \in SUBSET (1 .. h) /\ T \in SUBSET (1 .. n)
    OBVIOUS
  <2> HIDE DEF A, T
  <2> QED
    BY <2>1, <2>2, FS_Subset, FS_CardinalityType
<1>2. f \in Bijection(T, B)
  <2>1. \A i \in T : h + i \in B
    <3> SUFFICES ASSUME NEW i \in T PROVE h + i \in B
      OBVIOUS
    <3>1. i \in 1 .. n /\ t[i] = s[h + i] /\ h + i \in h + 1 .. h + n
      OBVIOUS
    <3>2. P(h + i)
      BY <3>1
    <3> QED
      BY <3>1, <3>2
  <2>2. ASSUME NEW i \in T, NEW j \in T, f[i] = f[j] PROVE i = j
    <3>1. i \in Nat /\ j \in Nat /\ h + i = h + j
      BY <2>2
    <3> QED
      BY <3>1
  <2>3. ASSUME NEW k \in B PROVE \E i \in T : f[i] = k
    <3>1. k - h \in 1 .. n /\ h + (k - h) = k
      OBVIOUS
    <3>2. PICK i \in 1 .. n : i = k - h /\ h + i = k
      BY <3>1
    <3>3. P(k) /\ t[i] = s[k]
      BY <3>2
    <3>4. i \in T /\ f[i] = k
      BY <3>2, <3>3
    <3> QED
      BY <3>4
  <2>4. f \in [T -> B]
    <3> HIDE DEF T, B
    <3> QED
      BY <2>1
  <2> HIDE DEF T, B, f
  <2> QED
    BY <2>2, <2>3, <2>4 DEF Bijection, Injection, Surjection, IsInjective
<1>3. IsFiniteSet(B) /\ Cardinality(B) = Cardinality(T)
  <2> HIDE DEF B, T, f
  <2> QED
    BY <1>1, <1>2, FS_Bijection DEF ExistsBijection
<1>4. A \cup B = {i \in 1 .. h + n : P(i)} /\ A \cap B = {}
  <2>1. \A i : i \in 1 .. h + n <=> i \in 1 .. h \/ i \in h + 1 .. h + n
    OBVIOUS
  <2>2. \A i : ~ (i \in 1 .. h /\ i \in h + 1 .. h + n)
    OBVIOUS
  <2> QED
    BY <2>1, <2>2
<1>5. Cardinality(A \cup B) = Cardinality(A) + Cardinality(B) - Cardinality(A \cap B)
  <2> HIDE DEF A, B
  <2> QED
    BY <1>1, <1>3, FS_Union
<1>6. Cardinality({}) = 0
  BY FS_EmptySet
<1>7. Cardinality({i \in 1 .. h + n : P(i)}) = Cardinality(A) + Cardinality(T)
  <2> HIDE DEF A, B, T, P
  <2> QED
    BY <1>1, <1>3, <1>4, <1>5, <1>6
<1> QED
  BY <1>7 DEF LinesIn

\* One read of a subscriber.
LEMMA CountedReceive ==
  ASSUME TypeInv, AllCounted, NEW c \in Clients, Receive(c)
  PROVE  AllCounted'
<1> DEFINE g == got[c]
           h == heard[c]
           m == message_count[c]
<1>1. /\ g \in Seq(Message \cup {NoCell}) /\ h \in Nat /\ h <= Len(g) /\ m \in Nat
      /\ heard \in [Clients -> Nat] /\ message_count \in [Clients -> Nat]
  BY DEF TypeInv, ClientInv
<1>2. PICK n : n = Min({Len(g) - h, MESSAGE_SIZE})
  OBVIOUS
<1>3. Len(g) \in Nat /\ Len(g) - h \in Nat /\ MESSAGE_SIZE \in Nat
  BY <1>1, BrokerAssumption DEF MESSAGE_SIZE
<1>4. n \in Nat /\ h + n <= Len(g)
  <2>1. n = IF Len(g) - h <= MESSAGE_SIZE THEN Len(g) - h ELSE MESSAGE_SIZE
    BY <1>2, <1>3, LesserOf
  <2> QED
    BY <1>1, <1>3, <2>1
<1>5. PICK message : message = SubSeq(g, h + 1, h + n)
  OBVIOUS
<1>6. /\ message \in Seq(Message \cup {NoCell}) /\ Len(message) = n
      /\ \A i \in 1 .. n : message[i] = g[h + i]
  <2>1. PICK S : S = Message \cup {NoCell}
    OBVIOUS
  <2>2. PICK s \in Seq(S), a \in Nat : s = g /\ a = h
    BY <1>1, <2>1
  <2>3. a + n <= Len(s)
    BY <1>4, <2>2
  <2>4. /\ SubSeq(s, a + 1, a + n) \in Seq(S) /\ Len(SubSeq(s, a + 1, a + n)) = n
        /\ \A i \in 1 .. n : SubSeq(s, a + 1, a + n)[i] = s[a + i]
    BY <1>4, <2>3, PartAfter
  <2> QED
    BY <1>5, <2>1, <2>2, <2>4
<1>7. /\ PrintedOf(message) \in 0 .. n
      /\ (\A i \in 1 .. n : message[i].end = "newline") => PrintedOf(message) = n
  <2> DEFINE Zeros == {i \in DOMAIN message : message[i].end = "nul"}
  <2>1. Zeros \in SUBSET Nat /\ Zeros \subseteq 1 .. n
    BY <1>6
  <2>2. Zeros # {} => Min(Zeros) \in 1 .. n
    <3> HIDE DEF Zeros
    <3> QED
      BY <2>1, LeastInSet
  <2>3. PrintedOf(message) = IF Zeros = {} THEN n ELSE Min(Zeros)
    BY <1>6 DEF PrintedOf
  <2>4. (\A i \in 1 .. n : message[i].end = "newline") => Zeros = {}
    BY <2>1
  <2> HIDE DEF Zeros
  <2> QED
    BY <1>4, <2>2, <2>3, <2>4
<1>8. PICK p \in Nat, l \in Nat :
        /\ p = LinesIn(message, PrintedOf(message)) /\ l = LinesIn(message, n)
        /\ p <= l /\ (PrintedOf(message) = n => p = l)
  <2>1. PICK o \in 0 .. n : o = PrintedOf(message)
    BY <1>7
  <2>2. LinesIn(message, n) \in Nat /\ LinesIn(message, o) <= LinesIn(message, n)
    BY <1>4, <2>1, LinesType
  <2>3. LinesIn(message, o) \in Nat
    BY <1>4, <2>1, LinesType
  <2> QED
    BY <2>1, <2>2, <2>3
<1>9. PICK extra \in {0, 1} :
        /\ message_count' = [message_count EXCEPT ![c] = m + p + extra]
        /\ n < MESSAGE_SIZE => extra = 0
  <2>1. PICK extra :
          /\ message_count' = [message_count EXCEPT
                                 ![c] = @ + LinesIn(message, PrintedOf(message)) + extra]
          /\ extra = 0 \/ (extra = 1 /\ n = MESSAGE_SIZE)
    BY <1>2, <1>5 DEF Receive
  <2>2. (n < MESSAGE_SIZE => extra = 0) /\ extra \in {0, 1}
    BY <1>3, <1>4, <2>1
  <2> QED
    BY <1>1, <1>8, <2>1, <2>2
<1>10. heard' = [heard EXCEPT ![c] = h + n] /\ got' = got
  BY <1>2 DEF Receive
<1>11. heard'[c] = h + n /\ message_count'[c] = m + p + extra
  BY <1>1, <1>9, <1>10
<1>12. ASSUME h + n < MESSAGE_SIZE
       PROVE  /\ m + p + extra <= LinesIn(g, h + n)
              /\ (\A i \in 1 .. h + n : g[i].end = "newline") => m + p + extra = LinesIn(g, h + n)
  <2>1. h < MESSAGE_SIZE /\ n < MESSAGE_SIZE /\ extra = 0
    BY <1>1, <1>3, <1>4, <1>9, <1>12
  <2>2. PICK k \in Nat : k = LinesIn(g, h) /\ LinesIn(g, h + n) = k + l
    <3> HIDE DEF g, h
    <3>1. LinesIn(g, h) \in Nat
      BY <1>1, LinesType
    <3>2. LinesIn(g, h + n) = LinesIn(g, h) + LinesIn(message, n)
      <4>1. h \in Nat /\ n \in Nat
        BY <1>1, <1>4
      <4>2. \A i \in 1 .. n : message[i] = g[h + i]
        BY <1>6
      <4> QED
        BY <4>1, <4>2, LinesAfter
    <3> QED
      BY <1>8, <3>1, <3>2
  <2>3. m <= k /\ ((\A i \in 1 .. h : g[i].end = "newline") => m = k)
    BY <2>1, <2>2 DEF AllCounted
  <2>4. (\A i \in 1 .. h + n : g[i].end = "newline") => m = k /\ p = l
    <3> SUFFICES ASSUME \A i \in 1 .. h + n : g[i].end = "newline" PROVE m = k /\ p = l
      OBVIOUS
    <3>1. \A i \in 1 .. h : i \in 1 .. h + n
      BY <1>1, <1>4
    <3>2. \A i \in 1 .. n : h + i \in 1 .. h + n
      BY <1>1, <1>4
    <3>3. \A i \in 1 .. n : message[i].end = "newline"
      BY <1>6, <3>2
    <3>4. PrintedOf(message) = n /\ m = k
      BY <1>7, <2>3, <3>1, <3>3
    <3> QED
      BY <1>8, <3>4
  <2>5. m + p + extra <= k + l
    <3> HIDE DEF g, h, m
    <3> QED
      BY <1>1, <1>8, <2>1, <2>2, <2>3
  <2>6. m = k /\ p = l => m + p + extra = k + l
    BY <2>1, <2>2, <1>1
  <2> QED
    BY <2>2, <2>4, <2>5, <2>6
<1>13. \A d \in Clients : d # c => heard'[d] = heard[d] /\ message_count'[d] = message_count[d]
  BY <1>1, <1>9, <1>10
<1> QED
  BY <1>10, <1>11, <1>12, <1>13 DEF AllCounted

\* A subscriber's count is that of the messages with a text it has read.
THEOREM AllCountedCorrect == Spec => []AllCounted
<1>1. Init => AllCounted
  <2> SUFFICES ASSUME Init PROVE AllCounted
    OBVIOUS
  <2>1. \A c \in Clients : heard[c] = 0 /\ message_count[c] = 0
    BY DEF Init
  <2>2. \A s : LinesIn(s, 0) = 0
    BY FS_EmptySet DEF LinesIn
  <2> QED
    BY <2>1, <2>2 DEF AllCounted
<1>2. TypeInv /\ AllCounted /\ [Next]_vars => AllCounted'
  <2> SUFFICES ASSUME TypeInv, AllCounted, [Next]_vars PROVE AllCounted'
    OBVIOUS
  <2>1. CASE \E c \in Clients : Receive(c)
    BY <2>1, CountedReceive
  <2>2. CASE UNCHANGED <<heard, message_count, got>>
    BY <2>2 DEF AllCounted
  <2>3. CASE \E w \in Workers : SubSend(w) /\ ~Crash
    <3>1. PICK w \in Workers : SubSend(w) /\ ~Crash
      BY <2>3
    <3>2. PICK c \in Clients : c = req[w]
      <4>1. Shape(w) /\ pc[w] # "idle"
        BY <3>1 DEF SubSend, At, TypeInv, BrokerInv
      <4> QED
        BY <4>1 DEF Shape
    <3>3. /\ got' = [got EXCEPT ![c] = @ \o loc[w].buffer]
          /\ UNCHANGED <<heard, message_count>>
      BY <3>1, <3>2 DEF SubSend, printVars
    <3>4. loc[w].buffer \in Seq(Message \cup {NoCell})
      <4>1. loc[w] \in LocType
        BY DEF TypeInv, BrokerInv, BrokerTypeOK, LocType
      <4> QED
        BY <4>1 DEF LocType
    <3>5. /\ got \in [Clients -> Seq(Message \cup {NoCell})] /\ heard \in [Clients -> Nat]
          /\ \A d \in Clients : heard[d] <= Len(got[d])
      BY DEF TypeInv, ClientInv
    <3>6. got[c] \in Seq(Message \cup {NoCell}) /\ Len(got[c]) \in Nat
      BY <3>5
    <3>7. \A i \in 1 .. Len(got[c]) : (got[c] \o loc[w].buffer)[i] = got[c][i]
      BY <3>4, <3>6, Appended
    <3>8. \A d \in Clients : \A i \in 1 .. heard[d] : got'[d][i] = got[d][i]
      <4>1. \A i \in 1 .. heard[c] : i \in 1 .. Len(got[c])
        BY <3>5, <3>6
      <4>2. \A d \in Clients : d # c => got'[d] = got[d]
        BY <3>3, <3>5
      <4>3. got'[c] = got[c] \o loc[w].buffer
        BY <3>3, <3>5
      <4> QED
        BY <3>7, <4>1, <4>2, <4>3
    <3>9. \A d \in Clients : LinesIn(got'[d], heard[d]) = LinesIn(got[d], heard[d])
      <4> SUFFICES ASSUME NEW d \in Clients
                   PROVE  LinesIn(got'[d], heard[d]) = LinesIn(got[d], heard[d])
        OBVIOUS
      <4>1. heard[d] \in Nat
        BY <3>5
      <4>2. \A i \in 1 .. heard[d] : got'[d][i] = got[d][i]
        BY <3>8
      <4> QED
        BY <4>1, <4>2, LinesSame
    <3> QED
      BY <3>3, <3>8, <3>9 DEF AllCounted
  <2>4. CASE \E w \in Workers : Step(w)
    <3>1. PICK w \in Workers : Step(w)
      BY <2>4
    <3>2. (SubSend(w) /\ ~Crash) \/ UNCHANGED <<heard, message_count, got>>
      BY <3>1, ClientFrame DEF ClientStep, ListReply, Reply, PubOpen, PubRead, SubOpen, Refuse,
         Crash, clientVars, printVars
    <3> QED
      BY <2>2, <2>3, <3>2
  <2>5. CASE (\E c \in Clients : ClientAction(c)) \/ sig_handler \/ UNCHANGED vars
    <3>1. (\E c \in Clients : Receive(c)) \/ UNCHANGED <<heard, message_count, got>>
      BY <2>5 DEF ClientAction, Register, RegisterEnds, Publish, Leave, sig_handler, Crash, vars,
         clientVars, printVars
    <3> QED
      BY <2>1, <2>2, <3>1
  <2> QED
    BY <2>4, <2>5, NextSteps
<1> QED
  BY <1>1, <1>2, TypeInit, TypeNext, PTL DEF Spec
=============================================================================
