-------------------------------- MODULE TFS --------------------------------
(***************************************************************************)
(* TecnicoFS of Exercise1/fs (operations.c, state.c): a file system with   *)
(* one directory, kept in memory and called by concurrent threads.  Every  *)
(* inode has a rwlock, every open file entry a mutex, and the open file    *)
(* and data block tables a mutex each.                                     *)
(*                                                                         *)
(* A call is a sequence of steps of its thread, recorded in pc.  A step    *)
(* runs from the acquisition of a lock, or from a point where another      *)
(* thread can interfere, up to the next such point.  Everything done on    *)
(* the directory and on the inode table happens under the write lock of    *)
(* the root inode, so one step covers it; the tables that are scanned with *)
(* a mutex taken and released per slot are scanned one slot per step.      *)
(***************************************************************************)
EXTENDS Integers, FiniteSets, FiniteSetsExt

CONSTANTS
  Threads,           \* callers of the file system
  NoThread,          \* owner of a lock that is not held
  NoMutex,           \* an open_file_lock never initialised, or destroyed
  Names,             \* paths "/x" whose x a directory entry can hold
  LongNames,         \* paths of MAX_FILE_NAME + 1 characters: valid_pathname
                     \* accepts them, add_dir_entry does not
  BadNames,          \* paths valid_pathname refuses
  NoPath,            \* a NULL sym_path, an empty d_name
  INODE_TABLE_SIZE, DATA_BLOCKS, MAX_OPEN_FILES, MAX_DIR_ENTRIES,
  BLOCK_SIZE,        \* in cells of a block
  SizeT,             \* 2^w for the w bits of size_t
  MaxOffset,         \* bound on of_offset
  StackDepth,        \* the recursive calls of tfs_open the stack has room for
  \* The workload: what the callers do.
  Ops,               \* the calls they make
  Modes,             \* the flag sets they pass to tfs_open
  Lens,              \* the lengths they read and write
  PathsOf,           \* the paths each thread names
  HandleUse          \* which handles they pass, see MayUse

OpNames == {"open", "link", "sym_link", "unlink", "close", "write", "read"}
Flags   == {"CREAT", "TRUNC", "APPEND"}
Paths   == Names \cup LongNames \cup BadNames

ASSUME ThreadsAssumption ==
  NoThread \notin Threads /\ NoMutex \notin Threads /\ NoMutex # NoThread

ASSUME NamesAssumption ==
  /\ Names \cap LongNames = {}
  /\ (Names \cup LongNames) \cap BadNames = {}
  /\ NoPath \notin Paths

ASSUME SizesAssumption ==
  /\ INODE_TABLE_SIZE \in Nat \ {0} /\ DATA_BLOCKS \in Nat \ {0}
  /\ MAX_OPEN_FILES \in Nat \ {0} /\ MAX_DIR_ENTRIES \in Nat \ {0}
  /\ BLOCK_SIZE \in Nat \ {0} /\ SizeT \in Nat /\ MaxOffset \in Nat
  /\ BLOCK_SIZE <= MaxOffset /\ MaxOffset < SizeT
  /\ StackDepth \in Nat \ {0}

ASSUME WorkloadAssumption ==
  /\ Ops \subseteq OpNames /\ Modes \subseteq SUBSET Flags
  /\ Lens \subseteq 0 .. SizeT - 1
  /\ PathsOf \in [Threads -> SUBSET Paths]
  /\ HandleUse \in {"own", "any"}

Inodes  == 0 .. INODE_TABLE_SIZE - 1
Blocks  == 0 .. DATA_BLOCKS - 1
Handles == 0 .. MAX_OPEN_FILES - 1
Slots   == 0 .. MAX_DIR_ENTRIES - 1
Root    == 0         \* ROOT_DIR_INUM, whose entries are in block 0

VARIABLES
  freeinode_ts, free_blocks, free_open_file_entries,
                        \* the sets of entries that are FREE
  inode_table,          \* the inodes
  inode_lock,           \* the owner of each inode's rwlock
  dir,                  \* the directory entries, in the root's block
  open_file_table,      \* of_inumber and of_offset of each entry
  open_file_lock,       \* the owner of each entry's mutex
  open_file_table_lock, \* the owner of the open file table's mutex
  pc, loc,              \* where each thread is in its call, and its locals
  mine,                 \* the handles tfs_open returned to each thread that
                        \* it has not passed to tfs_close
  failed                \* an assertion, or undefined behaviour, ended the process

inodeVars == <<freeinode_ts, inode_table>>
fileVars  == <<free_open_file_entries, open_file_table, open_file_lock,
               open_file_table_lock, mine>>
vars == <<freeinode_ts, free_blocks, inode_table, inode_lock, dir,
          fileVars, pc, loc, failed>>

-----------------------------------------------------------------------------
(* State of a fresh file system, after tfs_init.  The tables are memory    *)
(* fresh from the system: the names of empty entries are empty, and the    *)
(* inodes and open files that were never used are not looked at.           *)

NoLoc == [path |-> NoPath, target |-> NoPath, mode |-> {}, inum |-> 0,
          offset |-> 0, fh |-> 0, len |-> 0, i |-> 0, depth |-> 0]

NewInode(type) == [i_node_type |-> type, i_size |-> 0, i_data_block |-> -1,
                   hard_link_counter |-> 1, sym_path |-> NoPath]

RootInode == [NewInode("directory") EXCEPT !.i_size = BLOCK_SIZE, !.i_data_block = 0]

EmptyEntry == [d_name |-> NoPath, d_inumber |-> -1]

Init ==
  /\ freeinode_ts = Inodes \ {Root}
  /\ free_blocks = Blocks \ {0}
  /\ free_open_file_entries = Handles
  /\ inode_table = [i \in Inodes |-> IF i = Root THEN RootInode ELSE NewInode("file")]
  /\ inode_lock = [i \in Inodes |-> NoThread]
  /\ dir = [s \in Slots |-> EmptyEntry]
  /\ open_file_table = [h \in Handles |-> [of_inumber |-> 0, of_offset |-> 0]]
  /\ open_file_lock = [h \in Handles |-> NoMutex]
  /\ open_file_table_lock = NoThread
  /\ pc = [t \in Threads |-> "idle"]
  /\ loc = [t \in Threads |-> NoLoc]
  /\ mine = [t \in Threads |-> {}]
  /\ failed = FALSE

-----------------------------------------------------------------------------
(* The directory.                                                          *)

valid_pathname(p) == p \in Names \cup LongNames

EntriesNamed(p) == {s \in Slots : dir[s].d_inumber # -1 /\ dir[s].d_name = p}

\* Mutant: the last entry of that name, not the first.
FindLast(p) ==
  IF EntriesNamed(p) = {} THEN -1 ELSE dir[Max(EntriesNamed(p))].d_inumber

find_in_dir(p) ==
  IF EntriesNamed(p) = {} THEN -1 ELSE dir[Min(EntriesNamed(p))].d_inumber

tfs_lookup(p) == IF valid_pathname(p) THEN find_in_dir(p) ELSE -1

EmptySlots == {s \in Slots : dir[s].d_inumber = -1}

\* Mutant: the length of the name is not checked.
FitsAnyLength(p) == valid_pathname(p) /\ EmptySlots # {}

EntryFits(p) == p \in Names /\ EmptySlots # {}

add_dir_entry(p, inum) ==
  IF EntryFits(p)
  THEN [dir EXCEPT ![Min(EmptySlots)] = [d_name |-> p, d_inumber |-> inum]]
  ELSE dir

\* clear_dir_entry compares names only: it does not look at d_inumber.
SlotsNamed(p) == {s \in Slots : dir[s].d_name = p}

clear_dir_entry(p) == [dir EXCEPT ![Min(SlotsNamed(p))] = EmptyEntry]

-----------------------------------------------------------------------------
(* The inode table.                                                        *)

\* The block inode_delete, or a truncation, frees.
BlockOf(inum) == IF inode_table[inum].i_size > 0
                 THEN {inode_table[inum].i_data_block} ELSE {}

FirstFreeInode == Min(freeinode_ts)

IsLink(inum) == inode_table[inum].i_node_type = "symlink"
Unlocked(inum) == inode_lock[inum] = NoThread

-----------------------------------------------------------------------------
(* Entering and leaving a call.                                            *)

Idle(t) == ~failed /\ pc[t] = "idle"
At(t, label) == ~failed /\ pc[t] = label

Goto(t, label) == pc' = [pc EXCEPT ![t] = label]

Return(t) == Goto(t, "idle") /\ loc' = [loc EXCEPT ![t] = NoLoc]

\* The process ends: no thread takes a step any more.
Crash == failed' = TRUE /\ UNCHANGED <<freeinode_ts, free_blocks, inode_table,
                                       inode_lock, dir, fileVars, pc, loc>>

\* root_inode(false), the first thing link, sym_link and unlink do.
EnterRoot(t, op, locals) ==
  /\ Idle(t) /\ op \in Ops
  /\ inode_lock[Root] = NoThread
  /\ inode_lock' = [inode_lock EXCEPT ![Root] = t]
  /\ Goto(t, op) /\ loc' = [loc EXCEPT ![t] = locals]
  /\ UNCHANGED <<inodeVars, free_blocks, dir, fileVars, failed>>

UnlockRoot == inode_lock' = [inode_lock EXCEPT ![Root] = NoThread]

\* Mutant: the unlock is missing on this return path.
RefuseLocked(t) ==
  Return(t) /\ UNCHANGED <<inodeVars, inode_lock, free_blocks, dir, fileVars, failed>>

\* The call gives up under the root lock and returns -1.
Refuse(t) ==
  /\ UnlockRoot /\ Return(t)
  /\ UNCHANGED <<inodeVars, free_blocks, dir, fileVars, failed>>

-----------------------------------------------------------------------------
(* tfs_open                                                                *)

Found(t) == tfs_lookup(loc[t].path)
OpenEnter(t) ==
  \E p \in PathsOf[t], mode \in Modes :
    /\ valid_pathname(p)           \* otherwise it returns -1 at once
    /\ EnterRoot(t, "open", [NoLoc EXCEPT !.path = p, !.mode = mode])

\* No such file and no TFS_O_CREAT, or a link whose target is gone.
OpenRefused(t) ==
  /\ At(t, "open")
  /\ \/ Found(t) = -1 /\ "CREAT" \notin loc[t].mode
     \/ /\ Found(t) # -1 /\ Unlocked(Found(t)) /\ IsLink(Found(t))
        /\ tfs_lookup(inode_table[Found(t)].sym_path) = -1
  /\ Refuse(t)

\* A link whose target exists: both locks are given up before sym_path is
\* read again, to be the argument of the recursive call.
OpenLink(t) ==
  /\ At(t, "open") /\ Found(t) # -1 /\ Unlocked(Found(t)) /\ IsLink(Found(t))
  /\ tfs_lookup(inode_table[Found(t)].sym_path) # -1
  /\ UnlockRoot
  /\ Goto(t, "open_follow") /\ loc' = [loc EXCEPT ![t].inum = Found(t)]
  /\ UNCHANGED <<inodeVars, free_blocks, dir, fileVars, failed>>

FollowedPath(t) == inode_table[loc[t].inum].sym_path

\* The recursive call.  A build that makes the call a jump goes on however long
\* the chain of links; one that does not runs out of stack.
OpenFollow(t) ==
  /\ At(t, "open_follow")
  /\ \/ /\ ~valid_pathname(FollowedPath(t)) /\ Return(t)
        /\ UNCHANGED <<inodeVars, inode_lock, free_blocks, dir, fileVars, failed>>
     \/ /\ valid_pathname(FollowedPath(t))
        /\ Goto(t, "open_again")
        /\ loc' = [loc EXCEPT ![t].path = FollowedPath(t),
                              ![t].depth = IF @ < StackDepth THEN @ + 1 ELSE @]
        /\ UNCHANGED <<inodeVars, inode_lock, free_blocks, dir, fileVars, failed>>
     \/ /\ valid_pathname(FollowedPath(t)) /\ loc[t].depth = StackDepth
        /\ Crash

OpenAgain(t) ==
  /\ At(t, "open_again") /\ Unlocked(Root)
  /\ inode_lock' = [inode_lock EXCEPT ![Root] = t]
  /\ Goto(t, "open")
  /\ UNCHANGED <<inodeVars, free_blocks, dir, fileVars, loc, failed>>

\* Under the inode's lock and the root's, released before the handle is added.
OpenExisting(t) ==
  LET inum == Found(t)
      cut  == "TRUNC" \in loc[t].mode
      size == IF cut THEN 0 ELSE inode_table[inum].i_size
  IN
  /\ At(t, "open") /\ inum # -1 /\ Unlocked(inum) /\ ~IsLink(inum)
  /\ free_blocks' = IF cut THEN free_blocks \cup BlockOf(inum) ELSE free_blocks
  /\ inode_table' = [inode_table EXCEPT ![inum].i_size = size]
  /\ UnlockRoot
  /\ Goto(t, "open_add")
  /\ loc' = [loc EXCEPT ![t].inum = inum,
                        ![t].offset = IF "APPEND" \in loc[t].mode THEN size ELSE 0]
  /\ UNCHANGED <<freeinode_ts, dir, fileVars, failed>>

\* inode_create takes the first free inode and initialises it, its lock too.
\* When the entry does not fit, inode_delete gives the inode back.
OpenCreate(t) ==
  LET inum == FirstFreeInode
      fits == EntryFits(loc[t].path)
  IN
  /\ At(t, "open") /\ Found(t) = -1 /\ "CREAT" \in loc[t].mode
  /\ freeinode_ts # {}
  /\ inode_table' = [inode_table EXCEPT ![inum] = NewInode("file")]
  /\ inode_lock' = [inode_lock EXCEPT ![inum] = NoThread, ![Root] = NoThread]
  /\ freeinode_ts' = IF fits THEN freeinode_ts \ {inum} ELSE freeinode_ts
  /\ dir' = add_dir_entry(loc[t].path, inum)
  /\ IF fits THEN Goto(t, "open_add") /\ loc' = [loc EXCEPT ![t].inum = inum]
             ELSE Return(t)
  /\ UNCHANGED <<free_blocks, fileVars, failed>>

\* Mutant: a full inode table returns with the root locked.
OpenNoInodeLocked(t) ==
  /\ At(t, "open") /\ Found(t) = -1 /\ "CREAT" \in loc[t].mode
  /\ freeinode_ts = {} /\ RefuseLocked(t)

\* No space in the inode table.
OpenNoInode(t) ==
  /\ At(t, "open") /\ Found(t) = -1 /\ "CREAT" \in loc[t].mode
  /\ freeinode_ts = {}
  /\ Refuse(t)

\* Mutant: the entry is not marked TAKEN.
OpenAddShared(t) ==
  LET h == loc[t].i IN
  /\ At(t, "open_add") /\ open_file_table_lock = NoThread
  /\ h \in free_open_file_entries
  /\ open_file_table' = [open_file_table EXCEPT
       ![h] = [of_inumber |-> loc[t].inum, of_offset |-> loc[t].offset]]
  /\ open_file_lock' = [open_file_lock EXCEPT ![h] = NoThread]
  /\ mine' = [mine EXCEPT ![t] = @ \cup {h}]
  /\ Return(t)
  /\ UNCHANGED <<inodeVars, inode_lock, free_blocks, dir, free_open_file_entries,
                 open_file_table_lock, failed>>

\* add_to_open_file_table looks at one entry each time it holds the table's
\* mutex, with no other lock.
OpenAddTake(t) ==
  LET h == loc[t].i IN
  /\ At(t, "open_add") /\ open_file_table_lock = NoThread
  /\ h \in free_open_file_entries
  /\ free_open_file_entries' = free_open_file_entries \ {h}
  /\ open_file_table' = [open_file_table EXCEPT
       ![h] = [of_inumber |-> loc[t].inum, of_offset |-> loc[t].offset]]
  /\ open_file_lock' = [open_file_lock EXCEPT ![h] = NoThread]
  /\ mine' = [mine EXCEPT ![t] = @ \cup {h}]
  /\ Return(t)
  /\ UNCHANGED <<inodeVars, inode_lock, free_blocks, dir, open_file_table_lock, failed>>

OpenAddNext(t) ==
  /\ At(t, "open_add") /\ open_file_table_lock = NoThread
  /\ loc[t].i \notin free_open_file_entries
  /\ IF loc[t].i + 1 < MAX_OPEN_FILES
     THEN loc' = [loc EXCEPT ![t].i = @ + 1] /\ UNCHANGED pc
     ELSE Return(t)
  /\ UNCHANGED <<inodeVars, inode_lock, free_blocks, dir, fileVars, failed>>

-----------------------------------------------------------------------------
(* tfs_link and tfs_sym_link                                               *)

LinkEnter(t, op) ==
  \E target, p \in PathsOf[t] :
    EnterRoot(t, op, [NoLoc EXCEPT !.path = p, !.target = target])

\* The tests both calls make first.  "Checks if this link already exists"
\* compares the inumber found with 0.
LinkRefused(t) ==
  \/ tfs_lookup(loc[t].path) = 0
  \/ ~valid_pathname(loc[t].path)
  \/ tfs_lookup(loc[t].target) = -1

Link(t) ==
  LET inum == tfs_lookup(loc[t].target) IN
  /\ At(t, "link")
  /\ \/ LinkRefused(t) /\ Refuse(t)
     \/ /\ ~LinkRefused(t) /\ Unlocked(inum)
        /\ IsLink(inum) \/ ~EntryFits(loc[t].path)
        /\ Refuse(t)
     \/ /\ ~LinkRefused(t) /\ Unlocked(inum)
        /\ ~IsLink(inum) /\ EntryFits(loc[t].path)
        /\ dir' = add_dir_entry(loc[t].path, inum)
        /\ inode_table' = [inode_table EXCEPT ![inum].hard_link_counter = @ + 1]
        /\ UnlockRoot /\ Return(t)
        /\ UNCHANGED <<freeinode_ts, free_blocks, fileVars, failed>>

\* When the entry does not fit the call still returns 0, and nothing refers
\* to the inode it took.  strcpy writes one byte more than the malloc of
\* strlen(target): what follows it on the heap may be spoilt, or may not.
SymLink(t) ==
  LET inum == FirstFreeInode IN
  /\ At(t, "sym_link")
  /\ \/ (LinkRefused(t) \/ freeinode_ts = {}) /\ Refuse(t)
     \/ /\ ~LinkRefused(t) /\ freeinode_ts # {}
        /\ freeinode_ts' = freeinode_ts \ {inum}
        /\ inode_table' = [inode_table EXCEPT ![inum] =
             [NewInode("symlink") EXCEPT !.sym_path = loc[t].target]]
        /\ inode_lock' = [inode_lock EXCEPT ![inum] = NoThread, ![Root] = NoThread]
        /\ dir' = add_dir_entry(loc[t].path, inum)
        /\ Return(t)
        /\ UNCHANGED <<free_blocks, fileVars, failed>>
     \/ ~LinkRefused(t) /\ freeinode_ts # {} /\ Crash

-----------------------------------------------------------------------------
(* tfs_unlink                                                              *)

UnlinkEnter(t) ==
  \E p \in PathsOf[t] : EnterRoot(t, "unlink", [NoLoc EXCEPT !.path = p])

\* No such name, or a file whose link count is not positive: the last else of
\* the code, which LinkCountExact shows is never reached.
UnlinkRefused(t) ==
  /\ At(t, "unlink")
  /\ Found(t) # -1 => /\ Unlocked(Found(t)) /\ ~IsLink(Found(t))
                      /\ inode_table[Found(t)].hard_link_counter < 1
  /\ Refuse(t)

\* Mutant: the link count is not decremented.
UnlinkKeepsCount(t) ==
  LET inum == Found(t) IN
  /\ At(t, "unlink") /\ inum # -1 /\ Unlocked(inum)
  /\ ~IsLink(inum) /\ inode_table[inum].hard_link_counter > 1
  /\ dir' = clear_dir_entry(loc[t].path)
  /\ UnlockRoot /\ Return(t)
  /\ UNCHANGED <<inodeVars, free_blocks, fileVars, failed>>

\* One of several hard links: the file stays.
UnlinkName(t) ==
  LET inum == Found(t) IN
  /\ At(t, "unlink") /\ inum # -1 /\ Unlocked(inum)
  /\ ~IsLink(inum) /\ inode_table[inum].hard_link_counter > 1
  /\ inode_table' = [inode_table EXCEPT ![inum].hard_link_counter = @ - 1]
  /\ dir' = clear_dir_entry(loc[t].path)
  /\ UnlockRoot /\ Return(t)
  /\ UNCHANGED <<freeinode_ts, free_blocks, fileVars, failed>>

\* Mutant: the root is unlocked with the link's inode.
UnlinkLinkUnlocked(t) ==
  LET inum == Found(t) IN
  /\ At(t, "unlink") /\ inum # -1 /\ Unlocked(inum) /\ IsLink(inum)
  /\ UnlockRoot
  /\ Goto(t, "unlink_delete") /\ loc' = [loc EXCEPT ![t].inum = inum]
  /\ UNCHANGED <<inodeVars, free_blocks, dir, fileVars, failed>>

UnlinkLink(t) ==
  LET inum == Found(t) IN
  /\ At(t, "unlink") /\ inum # -1 /\ Unlocked(inum) /\ IsLink(inum)
  /\ Goto(t, "unlink_delete") /\ loc' = [loc EXCEPT ![t].inum = inum]
  /\ UNCHANGED <<inodeVars, inode_lock, free_blocks, dir, fileVars, failed>>

\* The last hard link: is_file_open is called with the inode locked.
UnlinkLast(t) ==
  LET inum == Found(t) IN
  /\ At(t, "unlink") /\ inum # -1 /\ Unlocked(inum)
  /\ ~IsLink(inum) /\ inode_table[inum].hard_link_counter = 1
  /\ inode_lock' = [inode_lock EXCEPT ![inum] = t]
  /\ Goto(t, "unlink_scan") /\ loc' = [loc EXCEPT ![t].inum = inum]
  /\ UNCHANGED <<inodeVars, free_blocks, dir, fileVars, failed>>

\* is_file_open takes no lock: it looks at one entry after the other.
EntryIsOpen(h, inum) ==
  open_file_table[h].of_inumber = inum /\ h \notin free_open_file_entries

UnlinkOpen(t) ==
  /\ At(t, "unlink_scan") /\ EntryIsOpen(loc[t].i, loc[t].inum)
  /\ inode_lock' = [inode_lock EXCEPT ![loc[t].inum] = NoThread, ![Root] = NoThread]
  /\ Return(t)
  /\ UNCHANGED <<inodeVars, free_blocks, dir, fileVars, failed>>

\* Mutant: is_file_open looks at the first entry only.
UnlinkScanFirst(t) ==
  /\ At(t, "unlink_scan") /\ ~EntryIsOpen(loc[t].i, loc[t].inum)
  /\ inode_lock' = [inode_lock EXCEPT ![loc[t].inum] = NoThread]
  /\ Goto(t, "unlink_delete")
  /\ UNCHANGED <<inodeVars, free_blocks, dir, fileVars, loc, failed>>

UnlinkScan(t) ==
  /\ At(t, "unlink_scan") /\ ~EntryIsOpen(loc[t].i, loc[t].inum)
  /\ IF loc[t].i + 1 < MAX_OPEN_FILES
     THEN loc' = [loc EXCEPT ![t].i = @ + 1] /\ UNCHANGED <<pc, inode_lock>>
     ELSE /\ inode_lock' = [inode_lock EXCEPT ![loc[t].inum] = NoThread]
          /\ Goto(t, "unlink_delete") /\ UNCHANGED loc
  /\ UNCHANGED <<inodeVars, free_blocks, dir, fileVars, failed>>

\* Mutant: the inode is deleted and its entry stays.
UnlinkKeepsEntry(t) ==
  /\ At(t, "unlink_delete")
  /\ freeinode_ts' = freeinode_ts \cup {loc[t].inum}
  /\ UnlockRoot /\ Return(t)
  /\ UNCHANGED <<inode_table, free_blocks, dir, fileVars, failed>>

\* inode_delete, with the inode unlocked, then clear_dir_entry.
UnlinkDelete(t) ==
  /\ At(t, "unlink_delete")
  /\ IF loc[t].inum \in freeinode_ts \/ SlotsNamed(loc[t].path) = {}
     THEN Crash                    \* the assertions at state.c:264, operations.c:377
     ELSE /\ free_blocks' = free_blocks \cup BlockOf(loc[t].inum)
          /\ freeinode_ts' = freeinode_ts \cup {loc[t].inum}
          /\ dir' = clear_dir_entry(loc[t].path)
          /\ UnlockRoot /\ Return(t)
          /\ UNCHANGED <<inode_table, fileVars, failed>>

-----------------------------------------------------------------------------
(* Calls on a handle: get_open_file_entry locks the entry's mutex and only *)
(* then looks at whether the entry is taken.                               *)

\* "own": a thread passes the handles it opened.  "any": every handle, also one
\* that another thread uses, that is closed, or that was never opened.
MayUse(t, h) == HandleUse = "any" \/ h \in mine[t]

\* Locking a mutex that was destroyed fails the assertion; an entry that is
\* free makes tfs_close, tfs_read and tfs_write unlock through a NULL pointer.
EnterFile(t, op, h, locals, kept) ==
  /\ Idle(t) /\ op \in Ops /\ MayUse(t, h)
  /\ \/ /\ open_file_lock[h] = NoThread /\ h \notin free_open_file_entries
        /\ open_file_lock' = [open_file_lock EXCEPT ![h] = t]
        /\ Goto(t, op) /\ loc' = [loc EXCEPT ![t] = locals]
        /\ mine' = kept
        /\ UNCHANGED <<inodeVars, inode_lock, free_blocks, dir, open_file_table,
                       free_open_file_entries, open_file_table_lock, failed>>
     \/ /\ open_file_lock[h] = NoMutex \/ h \in free_open_file_entries
        /\ open_file_lock[h] \notin Threads
        /\ Crash

UnlockFile(t) == open_file_lock' = [open_file_lock EXCEPT ![loc[t].fh] = NoThread]

CloseEnter(t) ==
  \E h \in Handles :
    EnterFile(t, "close", h, [NoLoc EXCEPT !.fh = h],
              [u \in Threads |-> mine[u] \ {h}])

\* remove_from_open_file_table unlocks the entry's mutex before destroying it.
CloseUnlock(t) ==
  /\ At(t, "close") /\ open_file_table_lock = NoThread
  /\ open_file_table_lock' = t
  /\ UnlockFile(t)
  /\ Goto(t, "close_destroy")
  /\ UNCHANGED <<inodeVars, inode_lock, free_blocks, dir, open_file_table,
                 free_open_file_entries, mine, loc, failed>>

\* Mutant: the result of pthread_mutex_destroy is not checked.
CloseUnchecked(t) ==
  LET h == loc[t].fh IN
  /\ At(t, "close_destroy")
  /\ open_file_lock' = [open_file_lock EXCEPT ![h] = NoMutex]
  /\ free_open_file_entries' = free_open_file_entries \cup {h}
  /\ open_file_table_lock' = NoThread
  /\ Return(t)
  /\ UNCHANGED <<inodeVars, inode_lock, free_blocks, dir, open_file_table, mine, failed>>

CloseDestroy(t) ==
  LET h == loc[t].fh IN
  /\ At(t, "close_destroy")
  /\ IF open_file_lock[h] # NoThread
     THEN Crash                    \* pthread_mutex_destroy returns EBUSY
     ELSE /\ open_file_lock' = [open_file_lock EXCEPT ![h] = NoMutex]
          /\ free_open_file_entries' = free_open_file_entries \cup {h}
          /\ open_file_table_lock' = NoThread
          /\ Return(t)
          /\ UNCHANGED <<inodeVars, inode_lock, free_blocks, dir, open_file_table,
                         mine, failed>>

TransferEnter(t, op) ==
  \E h \in Handles, n \in Lens :
    /\ open_file_table[h].of_offset + n <= MaxOffset
    /\ EnterFile(t, op, h, [NoLoc EXCEPT !.fh = h, !.len = n], mine)

FileOf(t)   == open_file_table[loc[t].fh].of_inumber
OffsetOf(t) == open_file_table[loc[t].fh].of_offset

\* Mutant: the write is not cut at the end of the block.
ToWriteUncut(t) == loc[t].len

\* size_t arithmetic: block_size - of_offset wraps when the offset is beyond.
ToWrite(t) == IF (loc[t].len + OffsetOf(t)) % SizeT > BLOCK_SIZE
              THEN (BLOCK_SIZE - OffsetOf(t)) % SizeT
              ELSE loc[t].len

\* memcpy of more than the caller's len, or beyond the block, is undefined
\* behaviour and ends the process here.
CopyIn(t, block, allocated) ==
  LET end == (OffsetOf(t) + ToWrite(t)) % SizeT
      inode == inode_table[FileOf(t)]
  IN
  IF ToWrite(t) > loc[t].len \/ OffsetOf(t) + ToWrite(t) > BLOCK_SIZE
       \/ block \notin Blocks
  THEN Crash
  ELSE /\ open_file_table' = [open_file_table EXCEPT ![loc[t].fh].of_offset = end]
       /\ inode_table' = [inode_table EXCEPT
            ![FileOf(t)].i_data_block = block,
            ![FileOf(t)].i_size = IF end > inode.i_size THEN end ELSE inode.i_size]
       /\ free_blocks' = free_blocks \ allocated
       /\ inode_lock' = [inode_lock EXCEPT ![FileOf(t)] = NoThread]
       /\ UnlockFile(t) /\ Return(t)
       /\ UNCHANGED <<freeinode_ts, dir, free_open_file_entries,
                      open_file_table_lock, mine, failed>>

Write(t) ==
  /\ At(t, "write") /\ Unlocked(FileOf(t))
  /\ \/ /\ ToWrite(t) > 0 /\ inode_table[FileOf(t)].i_size = 0
        /\ inode_lock' = [inode_lock EXCEPT ![FileOf(t)] = t]
        /\ Goto(t, "write_alloc")
        /\ UNCHANGED <<inodeVars, free_blocks, dir, fileVars, loc, failed>>
     \/ /\ ToWrite(t) > 0 /\ inode_table[FileOf(t)].i_size # 0
        /\ CopyIn(t, inode_table[FileOf(t)].i_data_block, {})
     \/ /\ ToWrite(t) = 0
        /\ UnlockFile(t) /\ Return(t)
        /\ UNCHANGED <<inodeVars, inode_lock, free_blocks, dir, open_file_table,
                       free_open_file_entries, open_file_table_lock, mine, failed>>

\* Mutant: the block is not marked TAKEN.
WriteAllocShared(t) ==
  /\ At(t, "write_alloc")
  /\ \/ loc[t].i \in free_blocks /\ CopyIn(t, loc[t].i, {})
     \/ /\ loc[t].i \notin free_blocks /\ loc[t].i + 1 < DATA_BLOCKS
        /\ loc' = [loc EXCEPT ![t].i = @ + 1]
        /\ UNCHANGED <<inodeVars, inode_lock, free_blocks, dir, fileVars, pc, failed>>

\* data_block_alloc looks at one block each time it holds the table's mutex.
WriteAlloc(t) ==
  /\ At(t, "write_alloc")
  /\ \/ loc[t].i \in free_blocks /\ CopyIn(t, loc[t].i, {loc[t].i})
     \/ /\ loc[t].i \notin free_blocks /\ loc[t].i + 1 < DATA_BLOCKS
        /\ loc' = [loc EXCEPT ![t].i = @ + 1]
        /\ UNCHANGED <<inodeVars, inode_lock, free_blocks, dir, fileVars, pc, failed>>
     \/ /\ loc[t].i \notin free_blocks /\ loc[t].i + 1 = DATA_BLOCKS
        /\ inode_lock' = [inode_lock EXCEPT ![FileOf(t)] = NoThread]
        /\ UnlockFile(t) /\ Return(t)
        /\ UNCHANGED <<inodeVars, free_blocks, dir, open_file_table,
                       free_open_file_entries, open_file_table_lock, mine, failed>>

\* Mutant: the read is not cut at the end of the file.
ToReadUncut(t) == loc[t].len

\* size_t arithmetic: i_size - of_offset wraps when the file was truncated
\* below the offset of the handle.
ToRead(t) == LET left == (inode_table[FileOf(t)].i_size - OffsetOf(t)) % SizeT
             IN  IF left > loc[t].len THEN loc[t].len ELSE left

\* A read past the end copies the bytes that follow in the block, or in fs_data.
Read(t) ==
  /\ At(t, "read") /\ Unlocked(FileOf(t))
  /\ IF ToRead(t) > 0 /\ inode_table[FileOf(t)].i_data_block \notin Blocks
     THEN Crash
     ELSE /\ open_file_table' = [open_file_table EXCEPT
               ![loc[t].fh].of_offset = (@ + ToRead(t)) % SizeT]
          /\ UnlockFile(t) /\ Return(t)
          /\ UNCHANGED <<inodeVars, inode_lock, free_blocks, dir,
                         free_open_file_entries, open_file_table_lock, mine, failed>>

-----------------------------------------------------------------------------
\* Starting a call is the caller's choice; a call that started goes on.
Call(t) ==
  \/ OpenEnter(t) \/ LinkEnter(t, "link") \/ LinkEnter(t, "sym_link")
  \/ UnlinkEnter(t) \/ CloseEnter(t)
  \/ TransferEnter(t, "write") \/ TransferEnter(t, "read")

Continue(t) ==
  \/ OpenRefused(t) \/ OpenLink(t) \/ OpenFollow(t) \/ OpenAgain(t)
  \/ OpenExisting(t) \/ OpenCreate(t) \/ OpenNoInode(t)
  \/ OpenAddTake(t) \/ OpenAddNext(t)
  \/ Link(t) \/ SymLink(t)
  \/ UnlinkRefused(t) \/ UnlinkName(t) \/ UnlinkLink(t) \/ UnlinkLast(t)
  \/ UnlinkOpen(t) \/ UnlinkScan(t) \/ UnlinkDelete(t)
  \/ CloseUnlock(t) \/ CloseDestroy(t)
  \/ Write(t) \/ WriteAlloc(t) \/ Read(t)

\* The process has ended.
Ended == failed /\ UNCHANGED vars

Next == (\E t \in Threads : Call(t) \/ Continue(t)) \/ Ended

Fairness == \A t \in Threads : WF_vars(Continue(t))

Spec == Init /\ [][Next]_vars
FairSpec == Spec /\ Fairness

-----------------------------------------------------------------------------
(* Properties.                                                             *)

InodeType == [i_node_type : {"file", "directory", "symlink"},
              i_size : 0 .. SizeT - 1, i_data_block : Blocks \cup {-1},
              hard_link_counter : Int, sym_path : Paths \cup {NoPath}]

LocType == [path : Paths \cup {NoPath}, target : Paths \cup {NoPath},
            mode : SUBSET Flags, inum : Inodes, offset : 0 .. SizeT - 1,
            fh : Handles, len : 0 .. SizeT - 1, i : Nat, depth : 0 .. StackDepth]

RootSection == {"open", "link", "sym_link", "unlink", "unlink_scan", "unlink_delete"}
FileSection == {"close", "write", "write_alloc", "read"}
Labels == RootSection \cup FileSection
          \cup {"idle", "open_follow", "open_again", "open_add", "close_destroy"}

\* The types of the variables; TecnicoFS itself checks none of them.
TypeOK ==
  /\ freeinode_ts \subseteq Inodes
  /\ free_blocks \subseteq Blocks
  /\ free_open_file_entries \subseteq Handles
  /\ inode_table \in [Inodes -> InodeType]
  /\ \A i \in Inodes : inode_table[i].i_size > 0 => inode_table[i].i_data_block \in Blocks
  /\ inode_lock \in [Inodes -> Threads \cup {NoThread}]
  /\ dir \in [Slots -> [d_name : Names \cup {NoPath}, d_inumber : Inodes \cup {-1}]]
  /\ open_file_table \in [Handles -> [of_inumber : Inodes, of_offset : 0 .. SizeT - 1]]
  /\ open_file_lock \in [Handles -> Threads \cup {NoThread, NoMutex}]
  /\ open_file_table_lock \in Threads \cup {NoThread}
  /\ pc \in [Threads -> Labels]
  /\ loc \in [Threads -> LocType]
  /\ mine \in [Threads -> SUBSET Handles]
  /\ failed \in BOOLEAN

\* The root inode's lock is held exactly by the thread between root_inode(false)
\* and the unlock of each of its return paths: two threads are never between
\* them, and no path of tfs_open, tfs_link, tfs_sym_link or tfs_unlink returns
\* with the lock or goes on without it.
RootExclusive == \A t \in Threads : inode_lock[Root] = t <=> pc[t] \in RootSection

SlotsOf(inum) == {s \in Slots : dir[s].d_inumber = inum}

\* hard_link_counter is the number of directory entries of a file, at least
\* one; a symbolic link has at most one entry, and an entry never refers to a
\* free inode.  tfs_link and tfs_unlink keep the two in step, and tfs_unlink
\* gives an inode back only with its last entry.
LinkCountExact ==
  \A i \in Inodes \ {Root} :
    IF i \in freeinode_ts THEN SlotsOf(i) = {}
    ELSE IF IsLink(i) THEN Cardinality(SlotsOf(i)) <= 1
    ELSE /\ inode_table[i].hard_link_counter = Cardinality(SlotsOf(i))
         /\ SlotsOf(i) # {}

\* While tfs_unlink works on the last entry of an inode, its name is found at
\* that inode, which is taken: clear_dir_entry, which compares names only,
\* clears the entry that was looked up and inode_delete deletes that inode once.
UnlinkPinned ==
  \A t \in Threads : pc[t] \in {"unlink_scan", "unlink_delete"} =>
    /\ Found(t) = loc[t].inum /\ loc[t].inum \notin freeinode_ts
    /\ SlotsOf(loc[t].inum) = {Min(SlotsNamed(loc[t].path))}

\* No assertion of the library fails, no mutex is destroyed while it is held and
\* no copy goes beyond the block or the caller's buffer, whatever the interleaving
\* of callers that make no symbolic links, pass the handles they opened and, after
\* another tfs_open truncated the file, do not read through the older ones.
NoFailure == ~failed

\* The two steps that symbolic links make undefined: the copy of the target into
\* a block one byte short (operations.c:224), and the recursion of tfs_open when
\* the chain of links has used the stack up (operations.c:117).
LinkOverflows(t) ==
  \/ pc[t] = "sym_link" /\ ~LinkRefused(t) /\ freeinode_ts # {}
  \/ pc[t] = "open_follow" /\ valid_pathname(FollowedPath(t)) /\ loc[t].depth = StackDepth

\* Those two are the only ways the process ends when the same callers make symbolic
\* links too: no assertion fails and no inode is deleted twice, though a link is
\* removed, and its inode used again, while a tfs_open follows it.
OnlyLinksFail == failed => \E t \in Threads : LinkOverflows(t)

\* A handle that tfs_open returned has a taken entry and a live mutex until
\* it is closed, and was returned to one thread only.
HandlesOwned ==
  \A t \in Threads : \A h \in mine[t] :
    /\ h \notin free_open_file_entries /\ open_file_lock[h] # NoMutex
    /\ \A u \in Threads \ {t} : h \notin mine[u]

\* Between get_open_file_entry and the unlock of its return path a thread holds
\* the mutex of an entry that stays taken, so no two threads work on an entry and
\* nobody frees it under a reader or writer, not even a close of the same handle.
EntryHeld ==
  \A t \in Threads : pc[t] \in FileSection =>
    open_file_lock[loc[t].fh] = t /\ loc[t].fh \notin free_open_file_entries

\* Every block is free, or holds the directory, or holds the contents of
\* exactly one file that is not empty.
BlocksAccounted ==
  LET Full == {i \in Inodes \ freeinode_ts : inode_table[i].i_size > 0} IN
  /\ Blocks \ free_blocks = {inode_table[i].i_data_block : i \in Full}
  /\ \A i, j \in Full :
       inode_table[i].i_data_block = inode_table[j].i_data_block => i = j

\* The inode of an open file is not deleted: tfs_unlink refuses when the file
\* is open ("tfs_write: inode of open file deleted", operations.c:408).
OpenHandleLive ==
  \A h \in Handles \ free_open_file_entries :
    open_file_table[h].of_inumber \notin freeinode_ts

\* The handles a step reads or writes through: their offset goes up.
Advanced ==
  {h \in Handles \ free_open_file_entries :
     /\ open_file_table'[h].of_inumber = open_file_table[h].of_inumber
     /\ open_file_table'[h].of_offset > open_file_table[h].of_offset}

SizeBehind(h) == inode_table[open_file_table[h].of_inumber].i_size

\* tfs_read and tfs_write never move a handle past the end of its file: a read
\* returns less than len "if the file size was reached" (operations.h:113).
TransferWithinFile ==
  [][\A h \in Advanced : open_file_table'[h].of_offset <= SizeBehind(h)']_vars

\* They do not when the handle was within the file, whatever the other handles
\* of the file were used for; only a truncation leaves a handle beyond the end.
TransferFromWithin ==
  [][\A h \in Advanced :
       open_file_table[h].of_offset <= SizeBehind(h)
       => open_file_table'[h].of_offset <= SizeBehind(h)']_vars

\* A call that holds the root lock gives it up, unless the process ends: no
\* return path keeps it.
RootReleased ==
  \A t \in Threads : pc[t] \in RootSection ~> inode_lock[Root] # t \/ failed

\* What the directory and the inode table make of the names and of the inodes.
SlotsAt(p, i) == {s \in EntriesNamed(p) : dir[s].d_inumber = i}

Entries == [p \in Names |-> [i \in Inodes \ {Root} |-> Cardinality(SlotsAt(p, i))]]

KindOf(i) == IF i \in freeinode_ts THEN [is |-> "nothing", target |-> -1]
             ELSE IF IsLink(i) THEN [is |-> "symlink", target |-> inode_table[i].sym_path]
             ELSE [is |-> "file", target |-> -1]

Kinds == [i \in Inodes \ {Root} |-> KindOf(i)]

NamesOf == INSTANCE NameSpace WITH
  Targets <- Paths, Files <- Inodes \ {Root}, None <- -1, entries <- Entries, files <- Kinds

\* TFS implements NameSpace: entries and files change only by whole calls, one
\* entry at a time, and a file is gone exactly when its last entry goes, not
\* when a counter says so or while a tfs_unlink still scans the open files.
NamesKept == NamesOf!Spec

=============================================================================
