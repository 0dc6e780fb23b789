------------------------------ MODULE GlobalFS ------------------------------
(***************************************************************************)
(* TecnicoFS of Exercise2/fs, the file system of the broker: one directory *)
(* of files of one block each.  Every call holds g_library_mutex from its  *)
(* first line to its last, so a call is one step; it is written here as an *)
(* action with the value it returns as its last parameter.  There are no   *)
(* links, so the directory is a function from names to inumbers.           *)
(***************************************************************************)
EXTENDS Integers, Sequences, FiniteSets, FiniteSetsExt

CONSTANTS
  Names,             \* paths "/x" whose x a directory entry can hold
  INODE_TABLE_SIZE, DATA_BLOCKS, MAX_OPEN_FILES, MAX_DIR_ENTRIES,
  BLOCK_SIZE,        \* in cells of a block
  SizeT,             \* 2^w for the w bits of size_t, and of uint64_t
  NoCell             \* what is in a cell nobody wrote

ASSUME FSAssumption ==
  /\ INODE_TABLE_SIZE \in Nat \ {0} /\ DATA_BLOCKS \in Nat \ {0}
  /\ MAX_OPEN_FILES \in Nat \ {0} /\ MAX_DIR_ENTRIES \in Nat
  /\ BLOCK_SIZE \in Nat \ {0} /\ SizeT \in Nat /\ BLOCK_SIZE < SizeT

Inodes  == 0 .. INODE_TABLE_SIZE - 1
Blocks  == 0 .. DATA_BLOCKS - 1
Handles == 0 .. MAX_OPEN_FILES - 1
Root    == 0         \* ROOT_DIR_INUM, whose block is block 0

VARIABLES
  freeinode_ts, free_blocks, free_open_file_entries,
                     \* the sets of entries that are FREE
  inode_table,       \* i_size and i_data_block of each inode
  dir,               \* the inumber of each name in the directory
  open_file_table,   \* of_inumber and of_offset of each entry
  fs_data            \* the cells of each block

openVars == <<free_open_file_entries, open_file_table>>
fileVars == <<freeinode_ts, free_blocks, inode_table, dir, fs_data>>
fsVars   == <<openVars, fileVars>>

EmptyFile == [i_size |-> 0, i_data_block |-> -1]

\* After tfs_init: the root inode and its block are taken.
FSInit ==
  /\ freeinode_ts = Inodes \ {Root} /\ free_blocks = Blocks \ {0}
  /\ free_open_file_entries = Handles
  /\ inode_table = [i \in Inodes |-> EmptyFile]
  /\ dir = [p \in {} |-> Root]
  /\ open_file_table = [h \in Handles |-> [of_inumber |-> Root, of_offset |-> 0]]
  /\ fs_data = [b \in Blocks |-> [c \in 1 .. BLOCK_SIZE |-> NoCell]]

FSTypeOK(Cells) ==
  /\ freeinode_ts \subseteq Inodes \ {Root} /\ free_blocks \subseteq Blocks \ {0}
  /\ free_open_file_entries \subseteq Handles
  /\ inode_table \in [Inodes -> [i_size : 0 .. BLOCK_SIZE, i_data_block : Blocks \cup {-1}]]
  /\ dir \in [DOMAIN dir -> Inodes \ {Root}] /\ DOMAIN dir \subseteq Names
  /\ open_file_table \in [Handles -> [of_inumber : Inodes, of_offset : Nat]]
  /\ fs_data \in [Blocks -> [1 .. BLOCK_SIZE -> Cells \cup {NoCell}]]

-----------------------------------------------------------------------------
(* The tables (state.c).                                                   *)

find_in_dir(p) == IF p \in DOMAIN dir THEN dir[p] ELSE -1

\* A name of a box is shorter than a directory entry has room for.
EntryFits == Cardinality(DOMAIN dir) < MAX_DIR_ENTRIES
add_dir_entry(p, inum) == dir' = [q \in DOMAIN dir \cup {p} |-> IF q = p THEN inum ELSE dir[q]]

clear_dir_entry(p) == dir' = [q \in DOMAIN dir \ {p} |-> dir[q]]

\* The first entries that are FREE.
inode_alloc == Min(freeinode_ts)
data_block_alloc == Min(free_blocks)

inode_create(inum) ==
  /\ freeinode_ts' = freeinode_ts \ {inum}
  /\ inode_table' = [inode_table EXCEPT ![inum] = EmptyFile]

\* The size stays, and the number of the block.
inode_delete(inum) ==
  LET inode == inode_table[inum] IN
  /\ freeinode_ts' = freeinode_ts \cup {inum}
  /\ free_blocks' = free_blocks \cup (IF inode.i_size > 0 THEN {inode.i_data_block} ELSE {})

\* Mutant: the entry is not marked as taken.
add_shared_entry(inum, offset, fd) ==
  \/ /\ free_open_file_entries = {} /\ fd = -1
     /\ UNCHANGED openVars
  \/ /\ free_open_file_entries # {} /\ fd = Min(free_open_file_entries)
     /\ open_file_table' = [open_file_table EXCEPT
          ![fd] = [of_inumber |-> inum, of_offset |-> offset]]
     /\ UNCHANGED free_open_file_entries

\* The first free entry is taken; -1 is returned when there is none.
add_to_open_file_table(inum, offset, fd) ==
  \/ /\ free_open_file_entries = {} /\ fd = -1
     /\ UNCHANGED openVars
  \/ /\ free_open_file_entries # {} /\ fd = Min(free_open_file_entries)
     /\ free_open_file_entries' = free_open_file_entries \ {fd}
     /\ open_file_table' = [open_file_table EXCEPT
          ![fd] = [of_inumber |-> inum, of_offset |-> offset]]

remove_from_open_file_table(fd) ==
  free_open_file_entries' = free_open_file_entries \cup {fd}

InodeOf(fd)  == inode_table[open_file_table[fd].of_inumber]
OffsetOf(fd) == open_file_table[fd].of_offset

-----------------------------------------------------------------------------
(* The calls (operations.c).                                               *)

tfs_lookup(p) == find_in_dir(p)

\* The broker never passes TFS_O_TRUNC.  A new file keeps its name when the
\* open file table is full.
tfs_open(p, mode, fd) ==
  \/ /\ tfs_lookup(p) # -1
     /\ add_to_open_file_table(tfs_lookup(p),
          IF "APPEND" \in mode THEN inode_table[tfs_lookup(p)].i_size ELSE 0, fd)
     /\ UNCHANGED fileVars
  \/ /\ tfs_lookup(p) = -1 /\ "CREAT" \in mode
     /\ freeinode_ts # {} /\ EntryFits
     /\ inode_create(inode_alloc) /\ add_dir_entry(p, inode_alloc)
     /\ add_to_open_file_table(inode_alloc, 0, fd)
     /\ UNCHANGED <<free_blocks, fs_data>>
  \/ /\ tfs_lookup(p) = -1
     /\ "CREAT" \notin mode \/ freeinode_ts = {} \/ ~EntryFits
     /\ fd = -1
     /\ UNCHANGED fsVars

tfs_close(fd) ==
  /\ remove_from_open_file_table(fd)
  /\ UNCHANGED <<open_file_table, fileVars>>

\* Mutant: the file's entries of the open file table are freed, and all the others.
unlink_closes_all(p) ==
  /\ inode_delete(tfs_lookup(p)) /\ clear_dir_entry(p)
  /\ free_open_file_entries' = Handles
  /\ UNCHANGED <<inode_table, fs_data, open_file_table>>

\* The inode is deleted whether or not the file is open.
tfs_unlink(p) ==
  /\ inode_delete(tfs_lookup(p)) /\ clear_dir_entry(p)
  /\ UNCHANGED <<inode_table, fs_data, openVars>>

\* What fits in the block is written; a file that is empty gets a block first,
\* and -1 is returned when there is none.
tfs_write(fd, buffer, n) ==
  LET inode == InodeOf(fd)
      offset == OffsetOf(fd)
      room == IF Len(buffer) + offset > BLOCK_SIZE THEN BLOCK_SIZE - offset ELSE Len(buffer)
      fresh == inode.i_size = 0
      block == IF fresh THEN data_block_alloc ELSE inode.i_data_block
  IN
  \/ /\ room > 0 /\ fresh /\ free_blocks = {} /\ n = -1
     /\ UNCHANGED fsVars
  \/ /\ room = 0 /\ n = 0
     /\ UNCHANGED fsVars
  \/ /\ room > 0 /\ (fresh => free_blocks # {}) /\ n = room
     /\ free_blocks' = IF fresh THEN free_blocks \ {block} ELSE free_blocks
     /\ fs_data' = [fs_data EXCEPT ![block] = [c \in 1 .. BLOCK_SIZE |->
          IF c \in offset + 1 .. offset + n THEN buffer[c - offset] ELSE @[c]]]
     /\ inode_table' = [inode_table EXCEPT ![open_file_table[fd].of_inumber] =
          [i_size |-> IF offset + n > inode.i_size THEN offset + n ELSE inode.i_size,
           i_data_block |-> block]]
     /\ open_file_table' = [open_file_table EXCEPT ![fd].of_offset = offset + n]
     /\ UNCHANGED <<freeinode_ts, dir, free_open_file_entries>>

\* size_t arithmetic: i_size - of_offset wraps when the handle's inode has been
\* deleted and taken by a shorter file.
ToRead(fd, len) ==
  LET left == (InodeOf(fd).i_size - OffsetOf(fd)) % SizeT
  IN  IF left > len THEN len ELSE left

\* data_block_get's assertion.
ReadFails(fd, len) == ToRead(fd, len) > 0 /\ InodeOf(fd).i_data_block \notin Blocks

\* The bytes after the end of the block are those of whatever follows it.
Contents(fd, len) ==
  [c \in 1 .. ToRead(fd, len) |->
     IF OffsetOf(fd) + c <= BLOCK_SIZE
     THEN fs_data[InodeOf(fd).i_data_block][OffsetOf(fd) + c] ELSE NoCell]

\* The caller gets Contents(fd, len).
tfs_read(fd, len) ==
  /\ open_file_table' = [open_file_table EXCEPT ![fd].of_offset = @ + ToRead(fd, len)]
  /\ UNCHANGED <<free_open_file_entries, fileVars>>
=============================================================================
