-------------------------- MODULE TFSHandleProofs --------------------------
(* The open files of TFS, for every value of the constants: who owns a     *)
(* handle, where its offset is, and when the library fails.                *)
EXTENDS TFSProofs

Closing == {"close", "close_destroy"}

\* A handle that a thread closes is nobody's any more.
CloseUnowned ==
  \A t, u \in Threads : pc[t] \in Closing => loc[t].fh \notin mine[u]

HandleInv == HandlesOwned /\ CloseUnowned

-----------------------------------------------------------------------------
(* The steps that do not work on open files.                               *)

FileStep(t) ==
  \/ OpenAddTake(t) \/ CloseEnter(t) \/ TransferEnter(t, "write") \/ TransferEnter(t, "read")
  \/ CloseUnlock(t) \/ CloseDestroy(t) \/ Write(t) \/ WriteAlloc(t) \/ Read(t)

OutsideFiles(label) == label \notin FileSection \cup {"close_destroy"}

LEMMA FileFrame ==
  ASSUME TypeOK, NEW t \in Threads, Call(t) \/ Continue(t), ~FileStep(t)
  PROVE  UNCHANGED fileVars /\ OutsideFiles(pc[t]) /\ OutsideFiles(pc'[t])
<1> USE DEF OutsideFiles, FileSection, Goto, Return, TypeOK
<1>1. ASSUME NEW op \in {"open", "link", "sym_link", "unlink"}, NEW l, EnterRoot(t, op, l)
      PROVE  UNCHANGED fileVars /\ OutsideFiles(pc[t]) /\ OutsideFiles(pc'[t])
  BY <1>1 DEF EnterRoot, Idle
<1>2. CASE OpenEnter(t) \/ LinkEnter(t, "link") \/ LinkEnter(t, "sym_link") \/ UnlinkEnter(t)
  BY <1>2, <1>1 DEF OpenEnter, LinkEnter, UnlinkEnter
<1>3. CASE OpenRefused(t) \/ OpenNoInode(t) \/ UnlinkRefused(t)
  BY <1>3 DEF OpenRefused, OpenNoInode, UnlinkRefused, Refuse, At
<1>4. CASE OpenLink(t) \/ OpenFollow(t) \/ OpenAgain(t)
  BY <1>4 DEF OpenLink, OpenFollow, OpenAgain, At, Crash
<1>5. CASE OpenExisting(t) \/ OpenCreate(t) \/ OpenAddNext(t)
  BY <1>5 DEF OpenExisting, OpenCreate, OpenAddNext, At
<1>6. CASE Link(t) \/ SymLink(t)
  BY <1>6 DEF Link, SymLink, Refuse, At, Crash
<1>7. CASE UnlinkName(t) \/ UnlinkLink(t) \/ UnlinkLast(t) \/ UnlinkOpen(t)
  BY <1>7 DEF UnlinkName, UnlinkLink, UnlinkLast, UnlinkOpen, At
<1>8. CASE UnlinkScan(t) \/ UnlinkDelete(t)
  BY <1>8 DEF UnlinkScan, UnlinkDelete, Crash, At
<1> QED
  BY <1>2, <1>3, <1>4, <1>5, <1>6, <1>7, <1>8 DEF FileStep, Call, Continue

\* A transfer that completes moves the handle's offset and unlocks its entry.
LEMMA TransferFrame ==
  ASSUME TypeOK, NEW t \in Threads, Write(t) \/ WriteAlloc(t) \/ Read(t)
  PROVE  /\ pc[t] \in {"write", "write_alloc", "read"}
         /\ UNCHANGED <<free_open_file_entries, mine, open_file_table_lock, freeinode_ts, dir>>
         /\ \/ UNCHANGED fileVars /\ pc'[t] \in {"write", "write_alloc", "read"}
            \/ UnlockFile(t) /\ pc'[t] = "idle"
         /\ \/ UNCHANGED open_file_table
            \/ \E n : open_file_table' = [open_file_table EXCEPT ![loc[t].fh].of_offset = n]
<1> USE DEF Goto, Return, TypeOK, At
<1>1. CASE Write(t)
  BY <1>1 DEF Write, CopyIn, Crash, fileVars, inodeVars
<1>2. CASE WriteAlloc(t)
  BY <1>2 DEF WriteAlloc, CopyIn, Crash, fileVars, inodeVars
<1>3. CASE Read(t)
  BY <1>3 DEF Read, Crash, fileVars, inodeVars
<1> QED
  BY <1>1, <1>2, <1>3

-----------------------------------------------------------------------------
(* Who owns a handle.                                                      *)

LEMMA HandlesKept ==
  ASSUME HandleInv, NEW t \in Threads, Others(t),
         UNCHANGED <<free_open_file_entries, mine>>,
         \A u \in Threads : \A h \in mine[u] :
           open_file_lock[h] # NoMutex => open_file_lock'[h] # NoMutex,
         pc'[t] \in Closing => pc[t] \in Closing /\ loc'[t].fh = loc[t].fh
  PROVE  HandleInv'
<1>1. HandlesOwned'
  BY DEF HandleInv, HandlesOwned
<1>2. CloseUnowned'
  BY DEF HandleInv, CloseUnowned, Others
<1> QED
  BY <1>1, <1>2 DEF HandleInv

LEMMA HandleInvStep ==
  ASSUME TypeOK, LockInv, HandleInv, NEW t \in Threads, Call(t) \/ Continue(t)
  PROVE  HandleInv'
<1> USE OthersStep, HandleType, ThreadsAssumption
<1>1. CASE ~FileStep(t)
  BY <1>1, FileFrame, HandlesKept DEF fileVars, OutsideFiles, FileSection, Closing
<1>c. CASE Crash
  BY <1>c, HandlesKept DEF Crash, fileVars
<1>2. CASE OpenAddTake(t)
  <2> DEFINE h == loc[t].i
  <2>1. /\ h \in free_open_file_entries /\ h \in Handles
        /\ free_open_file_entries' = free_open_file_entries \ {h}
        /\ open_file_lock' = [open_file_lock EXCEPT ![h] = NoThread]
        /\ mine' = [mine EXCEPT ![t] = @ \cup {h}]
        /\ pc'[t] = "idle"
    BY <1>2 DEF OpenAddTake, Return, Goto, TypeOK
  <2> HIDE DEF h
  <2>2. \A u \in Threads : h \notin mine[u]
    BY <2>1 DEF HandleInv, HandlesOwned
  <2>3. HandlesOwned'
    BY <2>1, <2>2 DEF HandleInv, HandlesOwned, TypeOK
  <2>4. \A u \in Threads : pc[u] \in Closing => loc[u].fh # h
    BY <2>1 DEF LockInv, EntryHeld, CloseHeld, Closing, FileSection
  <2>5. CloseUnowned'
    BY <2>1, <2>4 DEF HandleInv, CloseUnowned, Others, TypeOK, Closing
  <2> QED
    BY <2>3, <2>5 DEF HandleInv
<1>3. CASE CloseEnter(t) /\ ~Crash
  <2>1. PICK h \in Handles :
          EnterFile(t, "close", h, [NoLoc EXCEPT !.fh = h], [u \in Threads |-> mine[u] \ {h}])
    BY <1>3 DEF CloseEnter
  <2>2. /\ UNCHANGED free_open_file_entries
        /\ open_file_lock' = [open_file_lock EXCEPT ![h] = t]
        /\ mine' = [u \in Threads |-> mine[u] \ {h}]
        /\ loc'[t].fh = h
    BY <1>3, <2>1 DEF EnterFile, TypeOK, NoLoc
  <2>3. HandlesOwned'
    BY <2>2 DEF HandleInv, HandlesOwned, TypeOK
  <2>4. CloseUnowned'
    BY <2>2 DEF HandleInv, CloseUnowned, Others
  <2> QED
    BY <2>3, <2>4 DEF HandleInv
<1>4. CASE (TransferEnter(t, "write") \/ TransferEnter(t, "read")) /\ ~Crash
  <2>1. PICK op \in {"write", "read"}, h \in Handles, n \in Lens :
          EnterFile(t, op, h, [NoLoc EXCEPT !.fh = h, !.len = n], mine)
    BY <1>4 DEF TransferEnter
  <2>2. /\ UNCHANGED <<free_open_file_entries, mine>>
        /\ open_file_lock' = [open_file_lock EXCEPT ![h] = t]
        /\ pc'[t] = op
    BY <1>4, <2>1 DEF EnterFile, TypeOK, Goto
  <2> QED
    BY <2>2, HandlesKept DEF TypeOK, Closing
<1>5. CASE CloseUnlock(t)
  <2>1. /\ UNCHANGED <<free_open_file_entries, mine, loc>>
        /\ open_file_lock' = [open_file_lock EXCEPT ![loc[t].fh] = NoThread]
        /\ pc[t] \in Closing
    BY <1>5 DEF CloseUnlock, UnlockFile, At, Closing
  <2> QED
    BY <2>1, HandlesKept DEF TypeOK
<1>6. CASE CloseDestroy(t) /\ ~Crash
  <2> DEFINE h == loc[t].fh
  <2>1. /\ pc[t] \in Closing /\ pc'[t] = "idle" /\ UNCHANGED mine
        /\ open_file_lock' = [open_file_lock EXCEPT ![h] = NoMutex]
        /\ free_open_file_entries' = free_open_file_entries \cup {h}
    BY <1>6 DEF CloseDestroy, Return, Goto, At, Closing, TypeOK
  <2>2. \A u \in Threads : h \notin mine[u]
    BY <2>1 DEF HandleInv, CloseUnowned
  <2>3. HandlesOwned'
    BY <2>1, <2>2 DEF HandleInv, HandlesOwned, TypeOK
  <2>4. CloseUnowned'
    BY <2>1 DEF HandleInv, CloseUnowned, Others, Closing
  <2> QED
    BY <2>3, <2>4 DEF HandleInv
<1>7. CASE Write(t) \/ WriteAlloc(t) \/ Read(t)
  <2>1. /\ UNCHANGED <<free_open_file_entries, mine>> /\ pc'[t] \notin Closing
        /\ \/ UNCHANGED open_file_lock
           \/ open_file_lock' = [open_file_lock EXCEPT ![loc[t].fh] = NoThread]
    BY <1>7, TransferFrame DEF UnlockFile, Closing, fileVars
  <2> QED
    BY <2>1, HandlesKept DEF TypeOK
<1> QED
  BY <1>1, <1>c, <1>2, <1>3, <1>4, <1>5, <1>6, <1>7 DEF FileStep

\* Every handle in a caller's hands is open and its own, whatever handles the
\* callers pass.
THEOREM HandleInvCorrect == Spec => []HandleInv
<1>1. Init => HandleInv
  BY DEF Init, HandleInv, HandlesOwned, CloseUnowned, Closing
<1>2. TypeOK /\ LockInv /\ HandleInv /\ [Next]_vars => HandleInv'
  <2> SUFFICES ASSUME TypeOK, LockInv, HandleInv, [Next]_vars PROVE HandleInv'
    OBVIOUS
  <2>1. CASE UNCHANGED vars
    BY <2>1 DEF vars, fileVars, HandleInv, HandlesOwned, CloseUnowned
  <2>2. ASSUME NEW t \in Threads, Call(t) \/ Continue(t) PROVE HandleInv'
    BY <2>2, HandleInvStep
  <2> QED
    BY <2>1, <2>2 DEF Next, Ended
<1> QED
  BY <1>1, <1>2, LockInvCorrect, TypeCorrect, PTL DEF Spec

\* tfs_open gives a handle to one thread only, and the entry of a handle that is
\* not closed is taken and has its mutex.
THEOREM HandlesOwnedCorrect == Spec => []HandlesOwned
<1>1. HandleInv => HandlesOwned
  BY DEF HandleInv
<1> QED
  BY <1>1, HandleInvCorrect, PTL

-----------------------------------------------------------------------------
(* Where the offset of a handle goes.                                      *)

LEMMA ModSmall ==
  ASSUME NEW m \in Nat, NEW n \in 0 .. m - 1
  PROVE  n % m = n
OBVIOUS

\* A write leaves the offset of its handle within the file, and the others.
LEMMA CopyInWithin ==
  ASSUME TypeOK, NEW t \in Threads, NEW block, NEW S, CopyIn(t, block, S), ~Crash
  PROVE  /\ \A h \in Handles : /\ open_file_table'[h].of_inumber = open_file_table[h].of_inumber
                               /\ h # loc[t].fh => open_file_table'[h] = open_file_table[h]
         /\ open_file_table'[loc[t].fh].of_offset <= inode_table'[FileOf(t)].i_size
<1> DEFINE end == (OffsetOf(t) + ToWrite(t)) % SizeT
           size == inode_table[FileOf(t)].i_size
<1>1. /\ open_file_table' = [open_file_table EXCEPT ![loc[t].fh].of_offset = end]
      /\ inode_table' = [inode_table EXCEPT ![FileOf(t)].i_data_block = block,
                                            ![FileOf(t)].i_size = IF end > size THEN end ELSE size]
  BY DEF CopyIn
<1>2. FileOf(t) \in Inodes /\ loc[t].fh \in Handles /\ size \in Int
  BY HandleType DEF TypeOK, InodeType
<1>3. end \in Int
  <2>1. loc[t].len \in Int /\ OffsetOf(t) \in Int /\ SizeT \in Nat /\ SizeT > 0
    BY HandleType, SizesAssumption
  <2>2. ToWrite(t) \in Int
    BY <2>1, ModRange, SizesAssumption DEF ToWrite
  <2> QED
    BY <2>1, <2>2, ModRange
<1> HIDE DEF end, size
<1>4. inode_table'[FileOf(t)].i_size = IF end > size THEN end ELSE size
  BY <1>1, <1>2 DEF TypeOK, InodeType
<1>5. open_file_table'[loc[t].fh].of_offset = end
  BY <1>1, <1>2 DEF TypeOK
<1>6. \A h \in Handles : /\ open_file_table'[h].of_inumber = open_file_table[h].of_inumber
                         /\ h # loc[t].fh => open_file_table'[h] = open_file_table[h]
  BY <1>1, <1>2 DEF TypeOK
<1> QED
  BY <1>2, <1>3, <1>4, <1>5, <1>6

\* A read that begins within the file returns no more than is left of it.
LEMMA ReadWithin ==
  ASSUME TypeOK, NEW t \in Threads, Read(t), ~Crash
  PROVE  /\ \A h \in Handles : /\ open_file_table'[h].of_inumber = open_file_table[h].of_inumber
                               /\ h # loc[t].fh => open_file_table'[h] = open_file_table[h]
         /\ inode_table' = inode_table
         /\ OffsetOf(t) <= inode_table[FileOf(t)].i_size =>
              open_file_table'[loc[t].fh].of_offset <= inode_table[FileOf(t)].i_size
<1> DEFINE end == (OffsetOf(t) + ToRead(t)) % SizeT
           size == inode_table[FileOf(t)].i_size
<1>1. /\ open_file_table' = [open_file_table EXCEPT ![loc[t].fh].of_offset = end]
      /\ inode_table' = inode_table
  BY DEF Read, OffsetOf, inodeVars
<1>2. /\ FileOf(t) \in Inodes /\ loc[t].fh \in Handles
      /\ size \in 0 .. SizeT - 1 /\ OffsetOf(t) \in 0 .. SizeT - 1
      /\ loc[t].len \in 0 .. SizeT - 1 /\ SizeT \in Nat
  BY HandleType, SizesAssumption DEF TypeOK, InodeType
<1>3. ASSUME OffsetOf(t) <= size PROVE end <= size
  <2>1. (size - OffsetOf(t)) % SizeT = size - OffsetOf(t)
    <3>1. size - OffsetOf(t) \in 0 .. SizeT - 1
      BY <1>2, <1>3
    <3> HIDE DEF size
    <3> QED
      BY <1>2, <3>1, ModSmall
  <2>2. ToRead(t) \in 0 .. size - OffsetOf(t)
    BY <1>2, <1>3, <2>1 DEF ToRead
  <2>3. OffsetOf(t) + ToRead(t) \in 0 .. SizeT - 1 /\ OffsetOf(t) + ToRead(t) <= size
    <3> HIDE DEF size
    <3> QED
      BY <1>2, <1>3, <2>2
  <2> QED
    BY <1>2, <2>3, ModSmall
<1> HIDE DEF end, size
<1>4. open_file_table'[loc[t].fh].of_offset = end
  BY <1>1, <1>2 DEF TypeOK
<1>5. \A h \in Handles : /\ open_file_table'[h].of_inumber = open_file_table[h].of_inumber
                         /\ h # loc[t].fh => open_file_table'[h] = open_file_table[h]
  BY <1>1, <1>2 DEF TypeOK
<1> QED
  BY <1>1, <1>3, <1>4, <1>5 DEF size

LEMMA TransferWithinStep ==
  ASSUME TypeOK, NEW t \in Threads, Call(t) \/ Continue(t), NEW h \in Advanced,
         open_file_table[h].of_offset <= SizeBehind(h)
  PROVE  open_file_table'[h].of_offset <= SizeBehind(h)'
<1>1. /\ h \in Handles /\ h \notin free_open_file_entries
      /\ open_file_table'[h].of_inumber = open_file_table[h].of_inumber
      /\ open_file_table'[h].of_offset > open_file_table[h].of_offset
  BY DEF Advanced
<1>2. open_file_table' # open_file_table
  BY <1>1 DEF TypeOK
<1>c. ~Crash
  BY <1>2 DEF Crash, fileVars
<1>a. ASSUME NEW block, NEW S, CopyIn(t, block, S)
      PROVE  open_file_table'[h].of_offset <= SizeBehind(h)'
  <2>1. h = loc[t].fh
    BY <1>a, <1>c, <1>1, CopyInWithin DEF TypeOK
  <2> QED
    BY <1>a, <1>c, <1>1, <2>1, CopyInWithin DEF SizeBehind, FileOf
<1>3. CASE ~FileStep(t)
  BY <1>2, <1>3, FileFrame DEF fileVars
<1>4. CASE OpenAddTake(t)
  <2>1. h # loc[t].i
    BY <1>1, <1>4 DEF OpenAddTake
  <2>2. open_file_table'[h] = open_file_table[h]
    BY <1>1, <1>4, <2>1 DEF OpenAddTake, TypeOK
  <2> QED
    BY <1>1, <2>2 DEF TypeOK
<1>5. CASE CloseEnter(t) \/ TransferEnter(t, "write") \/ TransferEnter(t, "read")
           \/ CloseUnlock(t) \/ CloseDestroy(t)
  BY <1>2, <1>5 DEF CloseEnter, TransferEnter, EnterFile, CloseUnlock, CloseDestroy, Crash, fileVars
<1>6. CASE Write(t)
  BY <1>2, <1>6, <1>a DEF Write, fileVars
<1>7. CASE WriteAlloc(t)
  BY <1>2, <1>7, <1>a DEF WriteAlloc, fileVars
<1>8. CASE Read(t)
  <2>1. h = loc[t].fh
    BY <1>8, <1>c, <1>1, ReadWithin DEF TypeOK
  <2> QED
    BY <1>8, <1>c, <1>1, <2>1, ReadWithin DEF SizeBehind, FileOf, OffsetOf
<1> QED
  BY <1>3, <1>4, <1>5, <1>6, <1>7, <1>8 DEF FileStep

\* A read or a write that begins within its file ends within it, whatever other
\* handles of the file do meanwhile and however the offsets wrap around.
THEOREM TransferFromWithinCorrect == Spec => TransferFromWithin
<1>1. TypeOK /\ [Next]_vars =>
        [\A h \in Advanced : open_file_table[h].of_offset <= SizeBehind(h)
           => open_file_table'[h].of_offset <= SizeBehind(h)']_vars
  BY TransferWithinStep DEF Next, Ended
<1> QED
  BY <1>1, TypeCorrect, PTL DEF Spec, TransferFromWithin

-----------------------------------------------------------------------------
(* Open files are not deleted when no file is, or when no two threads name *)
(* the same path.                                                          *)

\* The inode of an open file, and of a file that is being opened, is taken.
FilesKept ==
  /\ OpenHandleLive
  /\ \A t \in Threads : pc[t] = "open_add" => loc[t].inum \notin freeinode_ts

Unlinking == {"unlink", "unlink_scan", "unlink_delete"}

\* The inode a name is found at is taken.
LEMMA FoundTaken ==
  ASSUME TypeOK, LockInv, LinkInv, NEW p, tfs_lookup(p) # -1
  PROVE  tfs_lookup(p) \in Inodes /\ tfs_lookup(p) # Root /\ tfs_lookup(p) \notin freeinode_ts
BY LookupType, LookupSlot, NotRoot DEF LinkInv, LinkCountExact

\* What becomes of the open files in the steps that free none of their inodes.
LEMMA HandleFrame ==
  ASSUME TypeOK, NEW t \in Threads, Call(t) \/ Continue(t), ~OpenAddTake(t),
         NEW h \in Handles \ free_open_file_entries'
  PROVE  /\ h \notin free_open_file_entries
         /\ open_file_table'[h].of_inumber = open_file_table[h].of_inumber
<1>1. CASE ~FileStep(t)
  BY <1>1, FileFrame DEF fileVars
<1>2. CASE CloseEnter(t) \/ TransferEnter(t, "write") \/ TransferEnter(t, "read")
           \/ CloseUnlock(t) \/ CloseDestroy(t)
  BY <1>2 DEF CloseEnter, TransferEnter, EnterFile, CloseUnlock, CloseDestroy, Crash, fileVars
<1>3. CASE Write(t) \/ WriteAlloc(t) \/ Read(t)
  <2>1. UNCHANGED free_open_file_entries
    BY <1>3, TransferFrame
  <2>2. CASE UNCHANGED open_file_table
    BY <2>1, <2>2
  <2>3. ASSUME NEW n, open_file_table' = [open_file_table EXCEPT ![loc[t].fh].of_offset = n]
        PROVE  open_file_table'[h].of_inumber = open_file_table[h].of_inumber
    BY <2>3 DEF TypeOK
  <2> QED
    BY <1>3, <2>1, <2>2, <2>3, TransferFrame
<1> QED
  BY <1>1, <1>2, <1>3 DEF FileStep

\* The steps that begin a call, or are taken within the calls on a handle, leave the
\* inodes' kinds, the directory and the free inodes alone, and so do most others.
NodesKept == \A i \in Inodes : /\ inode_table'[i].i_node_type = inode_table[i].i_node_type
                               /\ inode_table'[i].sym_path = inode_table[i].sym_path

NameStep(t) == OpenCreate(t) \/ Link(t) \/ SymLink(t) \/ UnlinkName(t) \/ UnlinkDelete(t)

LEMMA NameFrame ==
  ASSUME TypeOK, NEW t \in Threads, Call(t) \/ Continue(t), ~NameStep(t)
  PROVE  UNCHANGED <<freeinode_ts, dir>> /\ NodesKept
<1>s. UNCHANGED inode_table => NodesKept
  BY DEF NodesKept
<1>1. CASE OpenEnter(t) \/ LinkEnter(t, "link") \/ LinkEnter(t, "sym_link") \/ UnlinkEnter(t)
  BY <1>s, <1>1 DEF OpenEnter, LinkEnter, UnlinkEnter, EnterRoot, inodeVars
<1>2. CASE OpenRefused(t) \/ OpenNoInode(t) \/ UnlinkRefused(t)
  BY <1>s, <1>2 DEF OpenRefused, OpenNoInode, UnlinkRefused, Refuse, inodeVars
<1>3. CASE OpenLink(t) \/ OpenFollow(t) \/ OpenAgain(t) \/ OpenAddTake(t) \/ OpenAddNext(t)
  BY <1>s, <1>3 DEF OpenLink, OpenFollow, OpenAgain, OpenAddTake, OpenAddNext, inodeVars, Crash
<1>4. CASE OpenExisting(t)
  <2>1. PICK n : inode_table' = [inode_table EXCEPT ![Found(t)].i_size = n]
    BY <1>4 DEF OpenExisting
  <2> QED
    BY <1>4, <2>1 DEF OpenExisting, NodesKept, TypeOK, InodeType
<1>5. CASE UnlinkLink(t) \/ UnlinkLast(t) \/ UnlinkOpen(t) \/ UnlinkScan(t)
  BY <1>s, <1>5 DEF UnlinkLink, UnlinkLast, UnlinkOpen, UnlinkScan, inodeVars
<1>6. CASE CloseEnter(t) \/ TransferEnter(t, "write") \/ TransferEnter(t, "read")
           \/ CloseUnlock(t) \/ CloseDestroy(t)
  BY <1>s, <1>6
     DEF CloseEnter, TransferEnter, EnterFile, CloseUnlock, CloseDestroy, Crash, inodeVars
<1>7. ASSUME NEW block, NEW S, CopyIn(t, block, S)
      PROVE  UNCHANGED <<freeinode_ts, dir>> /\ NodesKept
  <2>1. CASE ~Crash
    <3>1. PICK n : inode_table' = [inode_table EXCEPT ![FileOf(t)].i_data_block = block,
                                                     ![FileOf(t)].i_size = n]
      BY <1>7, <2>1 DEF CopyIn
    <3> QED
      BY <1>7, <2>1, <3>1 DEF CopyIn, NodesKept, TypeOK, InodeType
  <2> QED
    BY <1>s, <2>1 DEF Crash
<1>8. CASE Write(t) \/ WriteAlloc(t) \/ Read(t)
  BY <1>s, <1>7, <1>8 DEF Write, WriteAlloc, Read, Crash, inodeVars
<1> QED
  BY <1>1, <1>2, <1>3, <1>4, <1>5, <1>6, <1>8 DEF NameStep, Call, Continue

\* A thread is at the end of tfs_open with the inode of a name, or a new one.
LEMMA OpeningFrame ==
  ASSUME TypeOK, NEW t \in Threads, Call(t) \/ Continue(t), pc'[t] = "open_add"
  PROVE  \/ OpenExisting(t) /\ loc'[t].inum = Found(t)
         \/ OpenCreate(t) /\ loc'[t].inum = FirstFreeInode /\ EntryFits(loc[t].path)
         \/ OpenAddNext(t) /\ loc'[t].inum = loc[t].inum /\ pc[t] = "open_add"
<1> USE DEF Goto, Return, TypeOK, LocType, At
<1>1. CASE FileStep(t)
  BY <1>1, TransferFrame
     DEF FileStep, OpenAddTake, CloseEnter, TransferEnter, EnterFile, CloseUnlock, CloseDestroy,
         Idle, Crash
<1>2. CASE OpenEnter(t) \/ LinkEnter(t, "link") \/ LinkEnter(t, "sym_link") \/ UnlinkEnter(t)
  BY <1>2 DEF OpenEnter, LinkEnter, UnlinkEnter, EnterRoot
<1>3. CASE OpenRefused(t) \/ OpenNoInode(t) \/ UnlinkRefused(t)
  BY <1>3 DEF OpenRefused, OpenNoInode, UnlinkRefused, Refuse
<1>4. CASE OpenLink(t) \/ OpenFollow(t) \/ OpenAgain(t) \/ OpenAddNext(t)
  BY <1>4 DEF OpenLink, OpenFollow, OpenAgain, OpenAddNext, Crash
<1>5. CASE OpenExisting(t)
  BY <1>5 DEF OpenExisting
<1>6. CASE OpenCreate(t)
  <2>1. EntryFits(loc[t].path) /\ loc' = [loc EXCEPT ![t].inum = FirstFreeInode]
    BY <1>6 DEF OpenCreate
  <2> QED
    BY <1>6, <2>1
<1>7. CASE Link(t) \/ SymLink(t) \/ UnlinkName(t) \/ UnlinkLink(t) \/ UnlinkLast(t)
  BY <1>7 DEF Link, SymLink, UnlinkName, UnlinkLink, UnlinkLast, Refuse, Crash
<1>8. CASE UnlinkOpen(t) \/ UnlinkScan(t) \/ UnlinkDelete(t)
  BY <1>8 DEF UnlinkOpen, UnlinkScan, UnlinkDelete, Crash
<1> QED
  BY <1>1, <1>2, <1>3, <1>4, <1>5, <1>6, <1>7, <1>8 DEF FileStep, Call, Continue

LEMMA FreeFrame ==
  ASSUME TypeOK, NEW t \in Threads, Call(t) \/ Continue(t)
  PROVE  \/ freeinode_ts' \subseteq freeinode_ts
         \/ UnlinkDelete(t) /\ freeinode_ts' = freeinode_ts \cup {loc[t].inum}
<1>1. CASE ~NameStep(t)
  BY <1>1, NameFrame
<1>2. CASE OpenCreate(t) \/ Link(t) \/ SymLink(t) \/ UnlinkName(t)
  BY <1>2 DEF OpenCreate, Link, SymLink, UnlinkName, Refuse, inodeVars, Crash
<1>3. CASE UnlinkDelete(t)
  BY <1>3 DEF UnlinkDelete, Crash
<1> QED
  BY <1>1, <1>2, <1>3 DEF NameStep

\* Only a deletion can free the inode of an open file.
LEMMA FilesKeptStep ==
  ASSUME TypeOK, LockInv, LinkInv, FilesKept, NEW t \in Threads, Call(t) \/ Continue(t),
         UnlinkDelete(t) =>
           /\ \A h \in Handles \ free_open_file_entries :
                open_file_table[h].of_inumber # loc[t].inum
           /\ \A u \in Threads : pc[u] = "open_add" => loc[u].inum # loc[t].inum
  PROVE  FilesKept'
<1>1. ASSUME NEW h \in Handles \ free_open_file_entries'
      PROVE  open_file_table'[h].of_inumber \notin freeinode_ts'
  <2>1. CASE OpenAddTake(t)
    <3>1. freeinode_ts' = freeinode_ts /\ loc[t].inum \notin freeinode_ts
      BY <2>1 DEF OpenAddTake, At, FilesKept, inodeVars
    <3>2. CASE h = loc[t].i
      BY <2>1, <3>1, <3>2 DEF OpenAddTake, TypeOK
    <3>3. CASE h # loc[t].i
      <4>1. h \notin free_open_file_entries /\ open_file_table'[h] = open_file_table[h]
        BY <2>1, <3>3 DEF OpenAddTake, TypeOK
      <4> QED
        BY <3>1, <4>1 DEF FilesKept, OpenHandleLive
    <3> QED
      BY <3>2, <3>3
  <2>2. CASE ~OpenAddTake(t)
    <3>1. /\ h \notin free_open_file_entries
          /\ open_file_table'[h].of_inumber = open_file_table[h].of_inumber
      BY <2>2, HandleFrame
    <3> QED
      BY <3>1, FreeFrame DEF FilesKept, OpenHandleLive
  <2> QED
    BY <2>1, <2>2
<1>2. ASSUME NEW u \in Threads, pc'[u] = "open_add"
      PROVE  loc'[u].inum \notin freeinode_ts'
  <2>1. CASE u # t
    BY <1>2, <2>1, OthersStep, FreeFrame DEF Others, FilesKept
  <2>2. CASE u = t /\ OpenExisting(t)
    <3>1. loc'[t].inum = Found(t) /\ Found(t) # -1 /\ freeinode_ts' = freeinode_ts
      BY <2>2 DEF OpenExisting, TypeOK, LocType
    <3> QED
      BY <2>2, <3>1, FoundTaken DEF Found
  <2>3. CASE u = t /\ OpenCreate(t) /\ loc'[t].inum = FirstFreeInode /\ EntryFits(loc[t].path)
    BY <2>3 DEF OpenCreate
  <2>4. CASE u = t /\ OpenAddNext(t) /\ loc'[t].inum = loc[t].inum /\ pc[t] = "open_add"
    BY <2>4 DEF OpenAddNext, FilesKept, inodeVars
  <2> QED
    BY <1>2, <2>1, <2>2, <2>3, <2>4, OpeningFrame
<1> QED
  BY <1>1, <1>2 DEF FilesKept, OpenHandleLive

LEMMA FilesKeptInit == Init => FilesKept
BY DEF Init, FilesKept, OpenHandleLive

\* Without tfs_unlink no thread is ever in it.
LEMMA NoUnlinking ==
  ASSUME TypeOK, "unlink" \notin Ops, \A u \in Threads : pc[u] \notin Unlinking,
         NEW t \in Threads, Call(t) \/ Continue(t)
  PROVE  \A u \in Threads : pc'[u] \notin Unlinking
<1>1. pc'[t] \notin Unlinking
  <2> USE DEF Goto, Return, TypeOK, At, Unlinking
  <2>1. CASE FileStep(t)
    <3>1. CASE Write(t) \/ WriteAlloc(t) \/ Read(t)
      BY <3>1, TransferFrame
    <3>2. CASE CloseEnter(t) \/ TransferEnter(t, "write") \/ TransferEnter(t, "read")
      BY <3>2 DEF CloseEnter, TransferEnter, EnterFile, Idle, Crash
    <3>3. CASE OpenAddTake(t) \/ CloseUnlock(t) \/ CloseDestroy(t)
      BY <3>3 DEF OpenAddTake, CloseUnlock, CloseDestroy, Crash
    <3> QED
      BY <2>1, <3>1, <3>2, <3>3 DEF FileStep
  <2>2. CASE OpenEnter(t) \/ LinkEnter(t, "link") \/ LinkEnter(t, "sym_link") \/ UnlinkEnter(t)
    BY <2>2 DEF OpenEnter, LinkEnter, UnlinkEnter, EnterRoot
  <2>3. CASE OpenRefused(t) \/ OpenNoInode(t) \/ UnlinkRefused(t)
    BY <2>3 DEF OpenRefused, OpenNoInode, UnlinkRefused, Refuse
  <2>4. CASE OpenLink(t) \/ OpenFollow(t) \/ OpenAgain(t) \/ OpenAddNext(t)
    BY <2>4 DEF OpenLink, OpenFollow, OpenAgain, OpenAddNext, Crash
  <2>5. CASE OpenExisting(t) \/ OpenCreate(t)
    BY <2>5 DEF OpenExisting, OpenCreate
  <2>6. CASE Link(t) \/ SymLink(t)
    BY <2>6 DEF Link, SymLink, Refuse, Crash
  <2>7. CASE UnlinkName(t) \/ UnlinkLink(t) \/ UnlinkLast(t)
    BY <2>7 DEF UnlinkName, UnlinkLink, UnlinkLast
  <2>8. CASE UnlinkOpen(t) \/ UnlinkScan(t) \/ UnlinkDelete(t)
    BY <2>8 DEF UnlinkOpen, UnlinkScan, UnlinkDelete
  <2> QED
    BY <2>1, <2>2, <2>3, <2>4, <2>5, <2>6, <2>7, <2>8 DEF FileStep, Call, Continue
<1> QED
  BY <1>1, OthersStep DEF Others

\* When no caller calls tfs_unlink, a file that is open, or being opened, stays.
LEMMA FilesKeptWithoutUnlink ==
  ASSUME "unlink" \notin Ops
  PROVE  Spec => []FilesKept
<1> DEFINE Inv == FilesKept /\ \A u \in Threads : pc[u] \notin Unlinking
<1>1. Init => Inv
  BY FilesKeptInit DEF Init, Unlinking
<1>2. TypeOK /\ LockInv /\ LinkInv /\ Inv /\ [Next]_vars => Inv'
  <2> SUFFICES ASSUME TypeOK, LockInv, LinkInv, Inv, [Next]_vars PROVE Inv'
    OBVIOUS
  <2>1. CASE UNCHANGED vars
    BY <2>1 DEF vars, fileVars, FilesKept, OpenHandleLive
  <2>2. ASSUME NEW t \in Threads, Call(t) \/ Continue(t) PROVE Inv'
    <3>1. ~UnlinkDelete(t)
      BY DEF UnlinkDelete, At, Unlinking
    <3> QED
      BY <2>2, <3>1, FilesKeptStep, NoUnlinking
  <2> QED
    BY <2>1, <2>2 DEF Next, Ended
<1>3. Inv => FilesKept
  OBVIOUS
<1> HIDE DEF Inv
<1> QED
  BY <1>1, <1>2, <1>3, LinkInvCorrect, LockInvCorrect, TypeCorrect, PTL DEF Spec

-----------------------------------------------------------------------------
(* Threads that share no path.                                             *)

\* No two threads name the same path.
PathsApart == \A t, u \in Threads : t # u => PathsOf[t] \cap PathsOf[u] = {}

Owns(t, i) == \E s \in SlotsOf(i) : dir[s].d_name \in PathsOf[t]

\* All the names of an inode, and the target of a link, are of the same thread.
NamesApart ==
  \A t \in Threads : \A i \in Inodes : Owns(t, i) =>
    /\ \A s \in SlotsOf(i) : dir[s].d_name \in PathsOf[t]
    /\ IsLink(i) => inode_table[i].sym_path \in PathsOf[t]

\* A thread works on its own inodes, and while it deletes one, no handle of that
\* inode is open but those its scan has still to look at.
CallApart(t) ==
  /\ loc[t].path \in PathsOf[t] \cup {NoPath} /\ loc[t].target \in PathsOf[t] \cup {NoPath}
  /\ pc[t] = "open_follow" => Owns(t, loc[t].inum) /\ IsLink(loc[t].inum)
  /\ pc[t] = "open_add" => Owns(t, loc[t].inum) /\ ~IsLink(loc[t].inum)
  /\ pc[t] = "unlink" => loc[t].i = 0
  /\ pc[t] = "unlink_scan" =>
       \A h \in Handles : h < loc[t].i => ~EntryIsOpen(h, loc[t].inum)
  /\ pc[t] = "unlink_delete" => \A h \in Handles : ~EntryIsOpen(h, loc[t].inum)

\* An open file is no symbolic link.
OpenNoLink ==
  \A h \in Handles \ free_open_file_entries : ~IsLink(open_file_table[h].of_inumber)

ApartInv == FilesKept /\ NamesApart /\ (\A t \in Threads : CallApart(t)) /\ OpenNoLink

LEMMA FoundOwned ==
  ASSUME TypeOK, LinkInv, NEW t \in Threads, NEW p \in PathsOf[t] \cup {NoPath},
         tfs_lookup(p) # -1
  PROVE  Owns(t, tfs_lookup(p)) /\ p \in PathsOf[t]
BY LookupSlot DEF LinkInv, Owns, SlotsNamed

\* The inode of an owner is taken, and has one owner.
LEMMA OwnedTaken ==
  ASSUME TypeOK, LockInv, LinkInv, NEW t \in Threads, NEW i \in Inodes, Owns(t, i)
  PROVE  i # Root /\ i \notin freeinode_ts
BY DEF Owns, SlotsOf, LockInv, RootKept, LinkInv, LinkCountExact

LEMMA OneOwner ==
  ASSUME PathsApart, NamesApart, NEW t \in Threads, NEW u \in Threads, NEW i \in Inodes,
         Owns(t, i), Owns(u, i)
  PROVE  t = u
BY DEF PathsApart, NamesApart, Owns

\* Steps that change no name and no kind.
LEMMA OwnsKept ==
  ASSUME UNCHANGED dir, NEW t, NEW i
  PROVE  Owns(t, i)' = Owns(t, i)
BY DEF Owns, SlotsOf

LEMMA NamesApartKept ==
  ASSUME TypeOK, NamesApart, UNCHANGED dir, NodesKept
  PROVE  NamesApart'
<1> SUFFICES ASSUME NEW t \in Threads, NEW i \in Inodes, Owns(t, i)'
             PROVE  /\ \A s \in SlotsOf(i)' : dir'[s].d_name \in PathsOf[t]
                    /\ IsLink(i)' => inode_table'[i].sym_path \in PathsOf[t]
  BY DEF NamesApart
<1>1. Owns(t, i)
  BY OwnsKept
<1>2. SlotsOf(i)' = SlotsOf(i)
  BY DEF SlotsOf
<1> QED
  BY <1>1, <1>2 DEF NamesApart, NodesKept, IsLink

\* A thread that takes no step is not disturbed, as long as its inode keeps its
\* name and its kind and nobody opens the one it deletes.
LEMMA CallApartKept ==
  ASSUME NEW u \in Threads, CallApart(u), pc'[u] = pc[u], loc'[u] = loc[u],
         pc[u] \in {"open_follow", "open_add"} /\ Owns(u, loc[u].inum) =>
           Owns(u, loc[u].inum)' /\ IsLink(loc[u].inum)' = IsLink(loc[u].inum),
         pc[u] \in {"unlink_scan", "unlink_delete"} =>
           \A h \in Handles : EntryIsOpen(h, loc[u].inum)' => EntryIsOpen(h, loc[u].inum)
  PROVE  CallApart(u)'
<1>1. \A i : i = loc[u].inum => Owns(u, i)' = Owns(u, loc[u].inum)'
  BY DEF Owns, SlotsOf
<1>2. /\ Owns(u, loc[u].inum)' <=> \E s \in Slots : dir'[s].d_inumber = loc[u].inum
                                                    /\ dir'[s].d_name \in PathsOf[u]
  BY DEF Owns, SlotsOf
<1> QED
  BY <1>1, <1>2 DEF CallApart, Owns, SlotsOf, IsLink, EntryIsOpen

\* No step changes what a taken inode is.
LEMMA KindsKept ==
  ASSUME TypeOK, NEW t \in Threads, Call(t) \/ Continue(t), NEW i \in Inodes \ freeinode_ts
  PROVE  /\ inode_table'[i].i_node_type = inode_table[i].i_node_type
         /\ inode_table'[i].sym_path = inode_table[i].sym_path
<1>1. CASE ~NameStep(t)
  BY <1>1, NameFrame DEF NodesKept
<1>2. CASE OpenCreate(t) \/ SymLink(t)
  <2>1. CASE freeinode_ts # {}
    <3>1. FirstFreeInode # i
      BY <2>1, FirstFreeType
    <3>2. UNCHANGED inode_table \/ \E n : inode_table' = [inode_table EXCEPT ![FirstFreeInode] = n]
      BY <1>2 DEF OpenCreate, SymLink, Refuse, Crash, inodeVars
    <3> QED
      BY <3>1, <3>2 DEF TypeOK
  <2>2. CASE freeinode_ts = {}
    BY <1>2, <2>2 DEF OpenCreate, SymLink, Refuse, Crash, inodeVars
  <2> QED
    BY <2>1, <2>2
<1>3. CASE Link(t) \/ UnlinkName(t)
  <2>1. UNCHANGED inode_table
        \/ \E j, n : inode_table' = [inode_table EXCEPT ![j].hard_link_counter = n]
    BY <1>3 DEF Link, UnlinkName, Refuse, inodeVars
  <2> QED
    BY <2>1 DEF TypeOK, InodeType
<1>4. CASE UnlinkDelete(t)
  BY <1>4 DEF UnlinkDelete, Crash
<1> QED
  BY <1>1, <1>2, <1>3, <1>4 DEF NameStep

\* A thread's entry in the directory: one more for a new inode or for its own.
LEMMA NamesApartAdded ==
  ASSUME TypeOK, PathsApart, NamesApart, NEW t \in Threads, NEW p \in PathsOf[t],
         NEW inum \in Inodes, EntryFits(p), dir' = add_dir_entry(p, inum),
         Owns(t, inum) \/ SlotsOf(inum) = {},
         \A i \in Inodes \ {inum} :
           /\ inode_table'[i].i_node_type = inode_table[i].i_node_type
           /\ inode_table'[i].sym_path = inode_table[i].sym_path,
         inode_table'[inum].i_node_type = "symlink" =>
           inode_table'[inum].sym_path \in PathsOf[t]
  PROVE  NamesApart'
<1> DEFINE m == Min(EmptySlots)
<1>1. m \in Slots /\ dir[m].d_inumber = -1
  BY SlotMin DEF EntryFits, EmptySlots
<1>2. dir' = [dir EXCEPT ![m] = [d_name |-> p, d_inumber |-> inum]]
  BY DEF add_dir_entry
<1>3. \A i \in Inodes : i # -1
  BY SizesAssumption DEF Inodes
<1> HIDE DEF m
<1>4. SlotsOf(inum)' = SlotsOf(inum) \cup {m} /\ dir'[m].d_name = p
  BY <1>1, <1>2, <1>3 DEF SlotsOf, TypeOK
<1>5. \A i \in Inodes \ {inum} : SlotsOf(i)' = SlotsOf(i)
  BY <1>1, <1>2, <1>3 DEF SlotsOf, TypeOK
<1>6. \A i \in Inodes : \A s \in SlotsOf(i) : s # m /\ dir'[s] = dir[s]
  BY <1>1, <1>2, <1>3 DEF SlotsOf, TypeOK
<1> SUFFICES ASSUME NEW u \in Threads, NEW i \in Inodes, Owns(u, i)'
             PROVE  /\ \A s \in SlotsOf(i)' : dir'[s].d_name \in PathsOf[u]
                    /\ IsLink(i)' => inode_table'[i].sym_path \in PathsOf[u]
  BY DEF NamesApart
<1>7. CASE i # inum
  <2>1. Owns(u, i)
    BY <1>5, <1>6, <1>7 DEF Owns
  <2> QED
    BY <1>5, <1>6, <1>7, <2>1 DEF NamesApart, IsLink
<1>8. CASE i = inum
  <2>1. \A s \in SlotsOf(inum)' : dir'[s].d_name \in PathsOf[t]
    BY <1>4, <1>6 DEF NamesApart, Owns
  <2>2. u = t
    BY <1>8, <2>1 DEF Owns, PathsApart
  <2> QED
    BY <1>8, <2>1, <2>2 DEF IsLink
<1> QED
  BY <1>7, <1>8

LEMMA OwnsAdded ==
  ASSUME TypeOK, NEW u \in Threads, NEW p, NEW inum, NEW i \in Inodes, Owns(u, i),
         dir' = add_dir_entry(p, inum)
  PROVE  \E s \in Slots : dir'[s].d_inumber = i /\ dir'[s].d_name \in PathsOf[u]
<1>1. EntryFits(p) => Min(EmptySlots) \in Slots /\ dir[Min(EmptySlots)].d_inumber = -1
  BY SlotMin DEF EntryFits, EmptySlots
<1>2. i # -1
  BY SizesAssumption DEF Inodes
<1> QED
  BY <1>1, <1>2 DEF add_dir_entry, Owns, SlotsOf, TypeOK

\* A thread's entry in the directory: one less.
LEMMA NamesApartCleared ==
  ASSUME TypeOK, NamesApart, NEW p, SlotsNamed(p) # {}, dir' = clear_dir_entry(p),
         NodesKept
  PROVE  NamesApart'
<1>1. Min(SlotsNamed(p)) \in Slots
  BY SlotMin DEF SlotsNamed
<1>2. \A i \in Inodes : i # -1
  BY SizesAssumption DEF Inodes
<1>3. ASSUME NEW i \in Inodes, NEW s \in SlotsOf(i)'
      PROVE  s \in SlotsOf(i) /\ dir'[s] = dir[s]
  BY <1>1, <1>2 DEF SlotsOf, clear_dir_entry, EmptyEntry, TypeOK
<1> SUFFICES ASSUME NEW u \in Threads, NEW i \in Inodes, Owns(u, i)'
             PROVE  /\ \A s \in SlotsOf(i)' : dir'[s].d_name \in PathsOf[u]
                    /\ IsLink(i)' => inode_table'[i].sym_path \in PathsOf[u]
  BY DEF NamesApart
<1>4. Owns(u, i)
  BY <1>3 DEF Owns
<1> QED
  BY <1>3, <1>4 DEF NamesApart, IsLink, NodesKept

LEMMA OwnsCleared ==
  ASSUME TypeOK, NamesInv, NEW u \in Threads, NEW p, NEW i \in Inodes, Owns(u, i),
         tfs_lookup(p) # -1, i # tfs_lookup(p), dir' = clear_dir_entry(p)
  PROVE  \E s \in Slots : dir'[s].d_inumber = i /\ dir'[s].d_name \in PathsOf[u]
<1>1. Min(SlotsNamed(p)) \in Slots /\ dir[Min(SlotsNamed(p))].d_inumber = tfs_lookup(p)
  BY LookupSlot
<1> QED
  BY <1>1 DEF clear_dir_entry, Owns, SlotsOf, TypeOK

LEMMA NamesApartStep ==
  ASSUME TypeOK, LockInv, LinkInv, PathsApart, ApartInv,
         NEW t \in Threads, Call(t) \/ Continue(t)
  PROVE  NamesApart'
<1> USE DEF ApartInv
<1>s. UNCHANGED inode_table => NodesKept
  BY DEF NodesKept
<1>1. CASE ~NameStep(t)
  BY <1>1, NameFrame, NamesApartKept
<1>2. CASE Refuse(t) \/ Crash
  BY <1>2, <1>s, NamesApartKept DEF Refuse, Crash, inodeVars
<1>3. ASSUME NEW node, freeinode_ts # {},
             inode_table' = [inode_table EXCEPT ![FirstFreeInode] = node],
             dir' = add_dir_entry(loc[t].path, FirstFreeInode),
             node.i_node_type = "symlink" => node.sym_path \in PathsOf[t]
      PROVE  NamesApart'
  <2>1. PICK inum \in Inodes : inum = FirstFreeInode
    BY <1>3, FirstFreeType
  <2>2. inum \in freeinode_ts /\ SlotsOf(inum) = {}
    BY <1>3, <2>1, FirstFreeType, NotRoot DEF LinkInv, LinkCountExact
  <2>3. /\ inode_table'[inum] = node
        /\ \A i \in Inodes \ {inum} : inode_table'[i] = inode_table[i]
    BY <1>3, <2>1 DEF TypeOK
  <2>4. CASE EntryFits(loc[t].path)
    <3>1. loc[t].path \in PathsOf[t]
      BY <2>4, NamesAssumption DEF EntryFits, CallApart, Paths
    <3> QED
      BY <1>3, <2>1, <2>2, <2>3, <2>4, <3>1, NamesApartAdded
  <2>5. CASE ~EntryFits(loc[t].path)
    <3>1. dir' = dir
      BY <1>3, <2>5 DEF add_dir_entry
    <3> SUFFICES ASSUME NEW u \in Threads, NEW i \in Inodes, Owns(u, i)'
                 PROVE  /\ \A s \in SlotsOf(i)' : dir'[s].d_name \in PathsOf[u]
                        /\ IsLink(i)' => inode_table'[i].sym_path \in PathsOf[u]
      BY DEF NamesApart
    <3>2. Owns(u, i) /\ SlotsOf(i)' = SlotsOf(i)
      BY <3>1, OwnsKept DEF SlotsOf
    <3>3. i # inum
      BY <2>2, <3>2 DEF Owns
    <3> QED
      BY <2>3, <3>1, <3>2, <3>3 DEF NamesApart, IsLink
  <2> QED
    BY <2>4, <2>5
<1>4. CASE OpenCreate(t)
  <2>1. NewInode("file").i_node_type # "symlink"
    BY DEF NewInode
  <2> QED
    BY <1>4, <2>1, <1>3 DEF OpenCreate
<1>5. CASE SymLink(t) /\ ~Refuse(t) /\ ~Crash
  <2> DEFINE node == [NewInode("symlink") EXCEPT !.sym_path = loc[t].target]
  <2>1. node.sym_path = loc[t].target
    BY DEF NewInode
  <2>2. loc[t].target \in PathsOf[t]
    <3>1. tfs_lookup(loc[t].target) # -1
      BY <1>5 DEF SymLink, LinkRefused
    <3> QED
      BY <3>1, FoundOwned DEF CallApart
  <2>3. /\ freeinode_ts # {}
        /\ inode_table' = [inode_table EXCEPT ![FirstFreeInode] = node]
        /\ dir' = add_dir_entry(loc[t].path, FirstFreeInode)
    BY <1>5 DEF SymLink
  <2> HIDE DEF node
  <2> QED
    BY <2>1, <2>2, <2>3, <1>3
<1>6. CASE Link(t) /\ ~Refuse(t)
  <2>1. PICK inum \in Inodes : inum = tfs_lookup(loc[t].target)
    BY <1>6, LookupType DEF Link, LinkRefused
  <2>2. Owns(t, inum)
    BY <1>6, <2>1, FoundOwned DEF Link, LinkRefused, CallApart
  <2>3. /\ EntryFits(loc[t].path) /\ ~IsLink(inum)
        /\ dir' = add_dir_entry(loc[t].path, inum)
        /\ inode_table' = [inode_table EXCEPT ![inum].hard_link_counter = @ + 1]
    BY <1>6, <2>1 DEF Link
  <2>4. loc[t].path \in PathsOf[t]
    BY <2>3, NamesAssumption DEF EntryFits, CallApart, Paths
  <2>5. /\ \A i \in Inodes \ {inum} : inode_table'[i] = inode_table[i]
        /\ inode_table'[inum].i_node_type = inode_table[inum].i_node_type
    BY <2>3 DEF TypeOK, InodeType
  <2> QED
    BY <2>2, <2>3, <2>4, <2>5, NamesApartAdded DEF IsLink
<1>7. CASE UnlinkName(t) \/ (UnlinkDelete(t) /\ ~Crash)
  <2>1. SlotsNamed(loc[t].path) # {} /\ dir' = clear_dir_entry(loc[t].path)
    BY <1>7, LookupSlot DEF UnlinkName, UnlinkDelete, Found, LinkInv
  <2>2. NodesKept
    <3>1. UNCHANGED inode_table
          \/ \E n : inode_table' = [inode_table EXCEPT ![Found(t)].hard_link_counter = n]
      BY <1>7 DEF UnlinkName, UnlinkDelete
    <3> QED
      BY <3>1 DEF NodesKept, TypeOK, InodeType
  <2> QED
    BY <2>1, <2>2, NamesApartCleared
<1> QED
  BY <1>1, <1>2, <1>4, <1>5, <1>6, <1>7 DEF NameStep

LEMMA OthersApartStep ==
  ASSUME TypeOK, LockInv, LinkInv, PathsApart, ApartInv,
         NEW t \in Threads, Call(t) \/ Continue(t), NEW u \in Threads \ {t}
  PROVE  CallApart(u)'
<1> DEFINE i == loc[u].inum
<1> USE DEF ApartInv
<1>1. pc'[u] = pc[u] /\ loc'[u] = loc[u] /\ i \in Inodes
  BY OthersStep DEF Others, TypeOK, LocType
<1>2. ASSUME Owns(u, i)
      PROVE  Owns(u, loc[u].inum)' /\ IsLink(loc[u].inum)' = IsLink(loc[u].inum)
  <2>1. i \notin freeinode_ts
    BY <1>1, <1>2, OwnedTaken
  <2>2. IsLink(loc[u].inum)' = IsLink(loc[u].inum)
    BY <1>1, <2>1, KindsKept DEF IsLink
  <2>3. \E s \in Slots : dir'[s].d_inumber = i /\ dir'[s].d_name \in PathsOf[u]
    <3>1. CASE UNCHANGED dir
      BY <1>2, <3>1 DEF Owns, SlotsOf
    <3>2. CASE OpenCreate(t) \/ (SymLink(t) /\ ~Crash) \/ Link(t)
      <4>1. UNCHANGED dir \/ \E inum : dir' = add_dir_entry(loc[t].path, inum)
        BY <3>2 DEF OpenCreate, SymLink, Link, Refuse
      <4> QED
        BY <1>1, <1>2, <3>1, <4>1, OwnsAdded
    <3>3. CASE UnlinkName(t) \/ (UnlinkDelete(t) /\ ~Crash)
      <4>1. dir' = clear_dir_entry(loc[t].path) /\ Found(t) # -1
        <5>1. UnlinkDelete(t) => loc[t].inum \in Inodes /\ Found(t) = loc[t].inum
          BY DEF UnlinkDelete, At, LinkInv, UnlinkPinned, TypeOK, LocType
        <5>2. \A j \in Inodes : j # -1
          BY SizesAssumption DEF Inodes
        <5> QED
          BY <3>3, <5>1, <5>2 DEF UnlinkName, UnlinkDelete
      <4>2. Found(t) \in Inodes /\ Owns(t, Found(t))
        BY <4>1, FoundOwned, LookupType DEF Found, CallApart
      <4>3. i # Found(t)
        BY <1>2, <4>2, OneOwner
      <4> QED
        BY <1>1, <1>2, <4>1, <4>3, OwnsCleared DEF LinkInv, Found
    <3> QED
      BY <3>1, <3>2, <3>3, NameFrame DEF NameStep, Crash
  <2>4. Owns(u, loc[u].inum)'
    BY <1>1, <2>3 DEF Owns, SlotsOf
  <2> QED
    BY <2>2, <2>4
<1>3. ASSUME pc[u] \in {"unlink_scan", "unlink_delete"}, NEW h \in Handles,
             EntryIsOpen(h, loc[u].inum)'
      PROVE  EntryIsOpen(h, loc[u].inum)
  <2>1. CASE ~OpenAddTake(t)
    BY <1>1, <1>3, <2>1, HandleFrame DEF EntryIsOpen
  <2>2. CASE OpenAddTake(t) /\ h # loc[t].i
    BY <1>1, <1>3, <2>2 DEF OpenAddTake, EntryIsOpen, TypeOK
  <2>3. CASE OpenAddTake(t) /\ h = loc[t].i
    <3>1. loc[t].inum = i
      BY <1>1, <1>3, <2>3 DEF OpenAddTake, EntryIsOpen, TypeOK
    <3>2. Owns(t, i)
      BY <2>3, <3>1 DEF OpenAddTake, At, CallApart
    <3>3. Found(u) = i /\ i # -1
      BY <1>1, <1>3, SizesAssumption DEF LinkInv, UnlinkPinned, Inodes
    <3>4. Owns(u, i)
      BY <3>3, FoundOwned DEF Found, CallApart
    <3> QED
      BY <1>1, <3>2, <3>4, OneOwner
  <2> QED
    BY <2>1, <2>2, <2>3
<1> QED
  BY <1>1, <1>2, <1>3, CallApartKept

\* What the thread that takes a step knows after it.
LEMMA SelfApartStep ==
  ASSUME TypeOK, LockInv, LinkInv, PathsApart, ApartInv,
         NEW t \in Threads, Call(t) \/ Continue(t)
  PROVE  CallApart(t)'
<1> DEFINE quiet == pc'[t] \notin {"open_follow", "open_add"} \cup Unlinking
           paths == /\ loc'[t].path \in PathsOf[t] \cup {NoPath}
                    /\ loc'[t].target \in PathsOf[t] \cup {NoPath}
<1> USE DEF ApartInv
<1>p. /\ loc[t].path \in PathsOf[t] \cup {NoPath} /\ loc[t].target \in PathsOf[t] \cup {NoPath}
      /\ NoLoc.path = NoPath /\ NoLoc.target = NoPath
  BY DEF CallApart, NoLoc
<1>q. CASE quiet /\ paths
  BY <1>q DEF CallApart, Unlinking
<1>1. CASE Refuse(t)
  BY <1>1, <1>p, <1>q DEF Refuse, Return, Goto, TypeOK, Unlinking
<1>2. CASE OpenEnter(t) \/ LinkEnter(t, "link") \/ LinkEnter(t, "sym_link")
  <2>1. \A p \in PathsOf[t] : \A mode :
          /\ [NoLoc EXCEPT !.path = p, !.mode = mode].path = p
          /\ [NoLoc EXCEPT !.path = p, !.mode = mode].target = NoPath
    BY DEF NoLoc
  <2>2. \A p, q \in PathsOf[t] : /\ [NoLoc EXCEPT !.path = p, !.target = q].path = p
                                 /\ [NoLoc EXCEPT !.path = p, !.target = q].target = q
    BY DEF NoLoc
  <2>3. ASSUME NEW op \in {"open", "link", "sym_link"}, NEW l, EnterRoot(t, op, l),
               l.path \in PathsOf[t], l.target \in PathsOf[t] \cup {NoPath}
        PROVE  CallApart(t)'
    BY <2>3, <1>q DEF EnterRoot, Goto, TypeOK, Unlinking
  <2>4. CASE OpenEnter(t)
    <3>1. PICK p \in PathsOf[t], mode \in Modes :
            EnterRoot(t, "open", [NoLoc EXCEPT !.path = p, !.mode = mode])
      BY <2>4 DEF OpenEnter
    <3> QED
      BY <2>1, <2>3, <3>1
  <2>5. ASSUME NEW op \in {"link", "sym_link"}, LinkEnter(t, op) PROVE CallApart(t)'
    <3>1. PICK target \in PathsOf[t], p \in PathsOf[t] :
            EnterRoot(t, op, [NoLoc EXCEPT !.path = p, !.target = target])
      BY <2>5 DEF LinkEnter
    <3> DEFINE l == [NoLoc EXCEPT !.path = p, !.target = target]
    <3>2. l.path = p /\ l.target = target
      BY <2>2
    <3>3. EnterRoot(t, op, l)
      BY <3>1
    <3> HIDE DEF l
    <3>4. l.path \in PathsOf[t] /\ l.target \in PathsOf[t] \cup {NoPath}
      BY <3>2
    <3> QED
      BY <2>3, <3>3, <3>4
  <2> QED
    BY <1>2, <2>4, <2>5
<1>3. CASE UnlinkEnter(t)
  <2>1. \A p : [NoLoc EXCEPT !.path = p].path = p /\ [NoLoc EXCEPT !.path = p].target = NoPath
               /\ [NoLoc EXCEPT !.path = p].i = 0
    BY DEF NoLoc
  <2>2. pc'[t] = "unlink" /\ paths /\ loc'[t].i = 0
    BY <1>3, <2>1 DEF UnlinkEnter, EnterRoot, Goto, TypeOK
  <2> QED
    BY <2>2 DEF CallApart
<1>4. CASE OpenLink(t)
  <2>1. /\ pc'[t] = "open_follow" /\ loc'[t].inum = Found(t) /\ paths
        /\ Found(t) # -1 /\ IsLink(Found(t)) /\ UNCHANGED <<dir, inode_table>>
    BY <1>4, <1>p DEF OpenLink, Goto, TypeOK, LocType, inodeVars
  <2>2. Owns(t, Found(t))
    BY <2>1, <1>p, FoundOwned DEF Found
  <2>3. Owns(t, loc[t].inum)' /\ IsLink(loc[t].inum)'
    BY <2>1, <2>2 DEF Owns, SlotsOf, IsLink
  <2> QED
    BY <2>1, <2>3 DEF CallApart
<1>5. CASE OpenFollow(t) /\ ~Crash
  <2> DEFINE target == FollowedPath(t)
             deeper == IF loc[t].depth < StackDepth THEN loc[t].depth + 1 ELSE loc[t].depth
  <2>1. target \in PathsOf[t]
    BY <1>5 DEF OpenFollow, FollowedPath, At, CallApart, NamesApart, TypeOK, LocType
  <2>2. \/ /\ loc' = [loc EXCEPT ![t].path = target, ![t].depth = deeper]
           /\ pc' = [pc EXCEPT ![t] = "open_again"]
        \/ loc' = [loc EXCEPT ![t] = NoLoc] /\ pc' = [pc EXCEPT ![t] = "idle"]
    BY <1>5 DEF OpenFollow, Goto, Return
  <2> HIDE DEF target, deeper
  <2>3. CASE /\ loc' = [loc EXCEPT ![t].path = target, ![t].depth = deeper]
             /\ pc' = [pc EXCEPT ![t] = "open_again"]
    BY <2>1, <2>3, <1>p, <1>q DEF TypeOK, LocType, Unlinking
  <2>4. CASE loc' = [loc EXCEPT ![t] = NoLoc] /\ pc' = [pc EXCEPT ![t] = "idle"]
    BY <2>4, <1>p, <1>q DEF TypeOK, Unlinking
  <2> QED
    BY <2>2, <2>3, <2>4
<1>6. CASE OpenAgain(t)
  BY <1>6, <1>p, <1>q DEF OpenAgain, Goto, TypeOK, Unlinking
<1>7. CASE OpenExisting(t)
  <2>1. /\ pc'[t] = "open_add" /\ loc'[t].inum = Found(t) /\ paths
        /\ Found(t) # -1 /\ ~IsLink(Found(t)) /\ UNCHANGED dir
    BY <1>7, <1>p DEF OpenExisting, Goto, TypeOK, LocType
  <2>2. Owns(t, Found(t)) /\ Found(t) \in Inodes
    BY <2>1, <1>p, FoundOwned, LookupType DEF Found
  <2>3. NodesKept
    BY <1>7, NameFrame DEF NameStep, OpenExisting, OpenCreate, Link, SymLink, UnlinkName,
                           UnlinkDelete, At
  <2>4. Owns(t, loc[t].inum)' /\ ~IsLink(loc[t].inum)'
    BY <2>1, <2>2, <2>3 DEF Owns, SlotsOf, IsLink, NodesKept
  <2> QED
    BY <2>1, <2>4 DEF CallApart
<1>8. CASE OpenCreate(t) /\ EntryFits(loc[t].path)
  <2> DEFINE m == Min(EmptySlots)
             inum == FirstFreeInode
  <2>1. inum \in Inodes /\ m \in Slots
    BY <1>8, FirstFreeType, SlotMin DEF OpenCreate, EntryFits, EmptySlots
  <2>2. /\ dir' = [dir EXCEPT ![m] = [d_name |-> loc[t].path, d_inumber |-> inum]]
        /\ inode_table' = [inode_table EXCEPT ![inum] = NewInode("file")]
        /\ pc' = [pc EXCEPT ![t] = "open_add"] /\ loc' = [loc EXCEPT ![t].inum = inum]
    BY <1>8 DEF OpenCreate, add_dir_entry, Goto
  <2>3. loc[t].path \in PathsOf[t]
    BY <1>8, <1>p, NamesAssumption DEF EntryFits, Paths
  <2> HIDE DEF m, inum
  <2>4. pc'[t] = "open_add" /\ loc'[t].inum = inum /\ paths
    BY <2>2, <1>p DEF TypeOK, LocType
  <2>5. dir'[m].d_inumber = inum /\ dir'[m].d_name = loc[t].path
    BY <2>1, <2>2 DEF TypeOK
  <2>6. Owns(t, loc[t].inum)'
    BY <2>1, <2>3, <2>4, <2>5 DEF Owns, SlotsOf
  <2>7. ~IsLink(loc[t].inum)'
    BY <2>1, <2>2, <2>4 DEF IsLink, NewInode, TypeOK
  <2> QED
    BY <2>4, <2>6, <2>7 DEF CallApart
<1>9. CASE OpenCreate(t) /\ ~EntryFits(loc[t].path)
  BY <1>9, <1>p, <1>q DEF OpenCreate, Return, Goto, TypeOK, Unlinking
<1>10. CASE OpenAddNext(t)
  <2>1. /\ pc[t] = "open_add" /\ UNCHANGED <<dir, inode_table>>
        /\ \/ UNCHANGED pc /\ loc' = [loc EXCEPT ![t].i = @ + 1]
           \/ pc' = [pc EXCEPT ![t] = "idle"] /\ loc' = [loc EXCEPT ![t] = NoLoc]
    BY <1>10 DEF OpenAddNext, At, Return, Goto, inodeVars
  <2>2. CASE UNCHANGED pc /\ loc' = [loc EXCEPT ![t].i = @ + 1]
    <3>1. loc'[t].inum = loc[t].inum /\ paths
      BY <2>2, <1>p DEF TypeOK, LocType
    <3>2. Owns(t, loc[t].inum)' /\ ~IsLink(loc[t].inum)'
      BY <2>1, <3>1 DEF CallApart, Owns, SlotsOf, IsLink
    <3> QED
      BY <2>1, <2>2, <3>1, <3>2 DEF CallApart
  <2>3. CASE pc' = [pc EXCEPT ![t] = "idle"] /\ loc' = [loc EXCEPT ![t] = NoLoc]
    BY <2>3, <1>p, <1>q DEF TypeOK, Unlinking
  <2> QED
    BY <2>1, <2>2, <2>3
<1>11. CASE \/ OpenAddTake(t) \/ UnlinkName(t) \/ UnlinkOpen(t) \/ (UnlinkDelete(t) /\ ~Crash)
            \/ (CloseDestroy(t) /\ ~Crash)
  BY <1>11, <1>p, <1>q
     DEF OpenAddTake, UnlinkName, UnlinkOpen, UnlinkDelete, CloseDestroy, Return, Goto,
         TypeOK, Unlinking
<1>12. CASE (Link(t) \/ SymLink(t)) /\ ~Refuse(t) /\ ~Crash
  BY <1>12, <1>p, <1>q DEF Link, SymLink, Return, Goto, TypeOK, Unlinking
<1>13. CASE UnlinkLink(t)
  <2>1. /\ pc'[t] = "unlink_delete" /\ loc'[t].inum = Found(t) /\ paths
        /\ Found(t) # -1 /\ IsLink(Found(t)) /\ UNCHANGED <<free_open_file_entries, open_file_table>>
    BY <1>13, <1>p DEF UnlinkLink, Goto, TypeOK, LocType, fileVars
  <2>2. \A h \in Handles : ~EntryIsOpen(h, loc[t].inum)'
    BY <2>1 DEF EntryIsOpen, OpenNoLink
  <2> QED
    BY <2>1, <2>2 DEF CallApart
<1>14. CASE UnlinkLast(t)
  <2>1. /\ pc[t] = "unlink" /\ pc'[t] = "unlink_scan" /\ paths
        /\ loc'[t].inum = Found(t) /\ loc'[t].i = loc[t].i
    BY <1>14, <1>p DEF UnlinkLast, Goto, At, TypeOK, LocType
  <2>2. loc[t].i = 0 /\ \A h \in Handles : ~(h < 0)
    BY <2>1, SizesAssumption DEF CallApart, Handles
  <2> QED
    BY <2>1, <2>2 DEF CallApart
<1>15. CASE UnlinkScan(t)
  <2>1. /\ pc[t] = "unlink_scan" /\ loc[t].i \in Nat
        /\ UNCHANGED <<free_open_file_entries, open_file_table>>
        /\ ~EntryIsOpen(loc[t].i, loc[t].inum)
        /\ \/ loc' = [loc EXCEPT ![t].i = @ + 1] /\ UNCHANGED pc
           \/ loc[t].i + 1 >= MAX_OPEN_FILES /\ pc' = [pc EXCEPT ![t] = "unlink_delete"]
              /\ UNCHANGED loc
    BY <1>15, SizesAssumption DEF UnlinkScan, At, Goto, fileVars, TypeOK, LocType
  <2>2. ASSUME NEW h \in Handles, h < loc[t].i + 1
        PROVE  ~EntryIsOpen(h, loc[t].inum)
    <3>1. h < loc[t].i \/ h = loc[t].i
      BY <2>1, <2>2, SizesAssumption DEF Handles
    <3> QED
      BY <2>1, <3>1 DEF CallApart
  <2>3. CASE loc' = [loc EXCEPT ![t].i = @ + 1] /\ UNCHANGED pc
    <3>1. /\ pc'[t] = "unlink_scan" /\ paths
          /\ loc'[t].inum = loc[t].inum /\ loc'[t].i = loc[t].i + 1
      BY <2>1, <2>3, <1>p DEF TypeOK, LocType
    <3> QED
      BY <2>1, <2>2, <3>1 DEF CallApart, EntryIsOpen
  <2>4. CASE loc[t].i + 1 >= MAX_OPEN_FILES /\ pc' = [pc EXCEPT ![t] = "unlink_delete"]
             /\ UNCHANGED loc
    <3>1. pc'[t] = "unlink_delete" /\ \A h \in Handles : h < loc[t].i + 1
      BY <2>1, <2>4, SizesAssumption DEF TypeOK, Handles
    <3> QED
      BY <2>1, <2>2, <2>4, <3>1, <1>p DEF CallApart, EntryIsOpen
  <2> QED
    BY <2>1, <2>3, <2>4
<1>16. CASE CloseUnlock(t)
  BY <1>16, <1>p, <1>q DEF CloseUnlock, Goto, TypeOK, Unlinking
<1>17. CASE (CloseEnter(t) \/ TransferEnter(t, "write") \/ TransferEnter(t, "read")) /\ ~Crash
  <2>1. ASSUME NEW op \in FileSection, NEW h, NEW l, NEW kept, EnterFile(t, op, h, l, kept),
               l.path = NoPath, l.target = NoPath
        PROVE  CallApart(t)'
    BY <1>17, <2>1, <1>q DEF EnterFile, Goto, TypeOK, Unlinking, FileSection
  <2>2. CASE CloseEnter(t)
    <3>1. PICK h \in Handles :
            EnterFile(t, "close", h, [NoLoc EXCEPT !.fh = h], [u \in Threads |-> mine[u] \ {h}])
      BY <2>2 DEF CloseEnter
    <3> DEFINE l    == [NoLoc EXCEPT !.fh = h]
               kept == [u \in Threads |-> mine[u] \ {h}]
    <3>2. l.path = NoPath /\ l.target = NoPath
      BY DEF NoLoc
    <3>3. EnterFile(t, "close", h, l, kept) /\ "close" \in FileSection
      BY <3>1 DEF FileSection
    <3> HIDE DEF l, kept
    <3> QED
      BY <2>1, <3>2, <3>3
  <2>3. ASSUME NEW op \in {"write", "read"}, TransferEnter(t, op) PROVE CallApart(t)'
    <3>1. PICK h \in Handles, n \in Lens :
            EnterFile(t, op, h, [NoLoc EXCEPT !.fh = h, !.len = n], mine)
      BY <2>3 DEF TransferEnter
    <3> DEFINE l == [NoLoc EXCEPT !.fh = h, !.len = n]
    <3>2. l.path = NoPath /\ l.target = NoPath
      BY DEF NoLoc
    <3>3. EnterFile(t, op, h, l, mine) /\ op \in FileSection
      BY <3>1 DEF FileSection
    <3> HIDE DEF l
    <3> QED
      BY <2>1, <3>2, <3>3
  <2> QED
    BY <1>17, <2>2, <2>3
<1>18. CASE Write(t) \/ WriteAlloc(t) \/ Read(t)
  <2>1. paths
    <3>1. CASE Write(t)
      BY <3>1, <1>p DEF Write, CopyIn, Crash, Return, TypeOK, LocType
    <3>2. CASE WriteAlloc(t)
      <4>1. \/ loc' = [loc EXCEPT ![t] = NoLoc] \/ loc' = loc
            \/ loc' = [loc EXCEPT ![t].i = loc[t].i + 1]
        BY <3>2 DEF WriteAlloc, CopyIn, Crash, Return
      <4>2. /\ loc'[t].path = loc[t].path /\ loc'[t].target = loc[t].target
            \/ loc'[t] = NoLoc
        <5>1. CASE loc' = [loc EXCEPT ![t] = NoLoc]
          BY <5>1 DEF TypeOK
        <5>2. CASE loc' = [loc EXCEPT ![t].i = loc[t].i + 1]
          BY <5>2 DEF TypeOK
        <5> QED
          BY <4>1, <5>1, <5>2
      <4> QED
        BY <4>2, <1>p
    <3>3. CASE Read(t)
      BY <3>3, <1>p DEF Read, Crash, Return, TypeOK, LocType
    <3> QED
      BY <1>18, <3>1, <3>2, <3>3
  <2>2. quiet
    BY <1>18, TransferFrame DEF Unlinking
  <2> QED
    BY <2>1, <2>2, <1>q
<1>19. CASE Crash
  <2>1. UNCHANGED <<pc, loc, dir, inode_table, free_open_file_entries, open_file_table>>
    BY <1>19 DEF Crash, fileVars
  <2> QED
    BY <2>1 DEF CallApart, Owns, SlotsOf, IsLink, EntryIsOpen
<1> QED
  BY <1>1, <1>2, <1>3, <1>4, <1>5, <1>6, <1>7, <1>8, <1>9, <1>10, <1>11, <1>12, <1>13,
     <1>14, <1>15, <1>16, <1>17, <1>18, <1>19
     DEF Call, Continue, OpenRefused, OpenNoInode, UnlinkRefused

LEMMA ApartInvStep ==
  ASSUME TypeOK, LockInv, LinkInv, PathsApart, ApartInv,
         NEW t \in Threads, Call(t) \/ Continue(t)
  PROVE  ApartInv'
<1> USE DEF ApartInv
<1>1. FilesKept'
  <2>1. ASSUME UnlinkDelete(t)
        PROVE  /\ \A h \in Handles \ free_open_file_entries :
                    open_file_table[h].of_inumber # loc[t].inum
               /\ \A u \in Threads : pc[u] = "open_add" => loc[u].inum # loc[t].inum
    <3>1. pc[t] = "unlink_delete" /\ loc[t].inum \in Inodes
      BY <2>1 DEF UnlinkDelete, At, TypeOK, LocType
    <3>2. Found(t) = loc[t].inum /\ loc[t].inum # -1
      BY <3>1, SizesAssumption DEF LinkInv, UnlinkPinned, Inodes
    <3>3. Owns(t, loc[t].inum)
      BY <3>2, FoundOwned DEF Found, CallApart
    <3>4. ASSUME NEW u \in Threads, pc[u] = "open_add" PROVE loc[u].inum # loc[t].inum
      <4>1. Owns(u, loc[u].inum) /\ u # t
        BY <3>1, <3>4 DEF CallApart
      <4> QED
        BY <3>1, <3>3, <4>1, OneOwner
    <3> QED
      BY <3>1, <3>4 DEF CallApart, EntryIsOpen
  <2> QED
    BY <2>1, FilesKeptStep
<1>2. OpenNoLink'
  <2> SUFFICES ASSUME NEW h \in Handles \ free_open_file_entries'
               PROVE  ~IsLink(open_file_table[h].of_inumber)'
    BY DEF OpenNoLink
  <2>1. CASE ~OpenAddTake(t)
    <3>1. /\ h \notin free_open_file_entries
          /\ open_file_table'[h].of_inumber = open_file_table[h].of_inumber
      BY <2>1, HandleFrame
    <3>2. open_file_table[h].of_inumber \in Inodes \ freeinode_ts
      BY <3>1 DEF FilesKept, OpenHandleLive, TypeOK
    <3> QED
      BY <3>1, <3>2, KindsKept DEF OpenNoLink, IsLink
  <2>2. CASE OpenAddTake(t) /\ h = loc[t].i
    <3>1. ~IsLink(loc[t].inum)
      BY <2>2 DEF OpenAddTake, At, CallApart
    <3> QED
      BY <2>2, <3>1 DEF OpenAddTake, TypeOK, IsLink, inodeVars
  <2>3. CASE OpenAddTake(t) /\ h # loc[t].i
    <3>1. h \notin free_open_file_entries /\ open_file_table'[h] = open_file_table[h]
      BY <2>3 DEF OpenAddTake, TypeOK
    <3> QED
      BY <2>3, <3>1 DEF OpenAddTake, OpenNoLink, IsLink, inodeVars
  <2> QED
    BY <2>1, <2>2, <2>3
<1> QED
  BY <1>1, <1>2, NamesApartStep, OthersApartStep, SelfApartStep

\* When no two threads share a path, a file that is open, or being opened, stays:
\* the scan of tfs_unlink, which takes no lock, misses none of its handles.
LEMMA ApartInvCorrect ==
  ASSUME PathsApart
  PROVE  Spec => []ApartInv
<1>1. Init => ApartInv
  <2> SUFFICES ASSUME Init PROVE ApartInv
    OBVIOUS
  <2>1. \A i \in Inodes : SlotsOf(i) = {}
    BY SizesAssumption DEF Init, SlotsOf, EmptyEntry, Inodes
  <2>2. NamesApart
    BY <2>1 DEF NamesApart, Owns
  <2>3. \A t \in Threads : CallApart(t)
    BY DEF Init, CallApart, NoLoc
  <2> QED
    BY <2>2, <2>3, FilesKeptInit DEF Init, ApartInv, OpenNoLink
<1>2. TypeOK /\ LockInv /\ LinkInv /\ ApartInv /\ [Next]_vars => ApartInv'
  <2> SUFFICES ASSUME TypeOK, LockInv, LinkInv, ApartInv, [Next]_vars PROVE ApartInv'
    OBVIOUS
  <2>1. CASE UNCHANGED vars
    BY <2>1 DEF vars, fileVars, ApartInv, FilesKept, OpenHandleLive, NamesApart, CallApart,
                OpenNoLink, Owns, SlotsOf, IsLink, EntryIsOpen
  <2>2. ASSUME NEW t \in Threads, Call(t) \/ Continue(t) PROVE ApartInv'
    BY <2>2, ApartInvStep
  <2> QED
    BY <2>1, <2>2 DEF Next, Ended
<1> QED
  BY <1>1, <1>2, LinkInvCorrect, LockInvCorrect, TypeCorrect, PTL DEF Spec

LEMMA FilesKeptApart ==
  ASSUME PathsApart
  PROVE  Spec => []FilesKept
<1>1. ApartInv => FilesKept
  BY DEF ApartInv
<1> QED
  BY <1>1, ApartInvCorrect, PTL

\* The inode of an open file is not deleted when tfs_unlink is not called or no two
\* threads name the same path, whichever handles the callers pass.
THEOREM OpenHandleLiveCorrect ==
  ASSUME PathsApart \/ "unlink" \notin Ops
  PROVE  Spec => []OpenHandleLive
<1>1. Spec => []FilesKept
  BY FilesKeptApart, FilesKeptWithoutUnlink
<1>2. FilesKept => OpenHandleLive
  BY DEF FilesKept
<1> QED
  BY <1>1, <1>2, PTL

-----------------------------------------------------------------------------
(* When the library does not fail.                                         *)

\* How far the offset of a handle on an inode may be: a caller that reads must not
\* be past the end of the file, one that only writes not past the block.
Limit(i) == IF "read" \in Ops THEN inode_table[i].i_size ELSE BLOCK_SIZE

OffsetsWithin ==
  /\ \A i \in Inodes : inode_table[i].i_size <= BLOCK_SIZE
  /\ \A h \in Handles \ free_open_file_entries :
       open_file_table[h].of_offset <= Limit(open_file_table[h].of_inumber)
  /\ \A t \in Threads : pc[t] = "open_add" => loc[t].offset <= Limit(loc[t].inum)

\* The sum of offset and length does not wrap around in a transfer.
Transferring == {"write", "write_alloc", "read"}
LengthsWithin ==
  \A t \in Threads : pc[t] \in Transferring => OffsetOf(t) + loc[t].len <= MaxOffset

\* Nobody has locked the mutex that remove_from_open_file_table destroys.
CloseReady ==
  \A t \in Threads : pc[t] = "close_destroy" => open_file_lock[loc[t].fh] = NoThread

CallsMade ==
  \A t \in Threads : /\ loc[t].mode # {} => loc[t].mode \in Modes
                     /\ pc[t] = "read" => "read" \in Ops
                     /\ pc[t] # "open_add" => loc[t].offset = 0

FailInv == OnlyLinksFail /\ OffsetsWithin /\ LengthsWithin /\ CloseReady /\ CallsMade

\* What the callers do not do: pass a handle that is not theirs, or read from a file
\* that tfs_open truncates or tfs_unlink deletes.
CallersCareful ==
  /\ HandleUse = "own"
  /\ \/ "read" \notin Ops
     \/ /\ \A mode \in Modes : "TRUNC" \notin mode
        /\ PathsApart \/ "unlink" \notin Ops

\* A write stays within what the caller passes and within the block.
LEMMA WriteFits ==
  ASSUME TypeOK, NEW t \in Threads,
         OffsetOf(t) <= BLOCK_SIZE, OffsetOf(t) + loc[t].len <= MaxOffset
  PROVE  /\ ToWrite(t) \in Nat /\ ToWrite(t) <= loc[t].len
         /\ OffsetOf(t) + ToWrite(t) <= BLOCK_SIZE
         /\ (OffsetOf(t) + ToWrite(t)) % SizeT = OffsetOf(t) + ToWrite(t)
<1>1. /\ OffsetOf(t) \in Nat /\ loc[t].len \in Nat
      /\ BLOCK_SIZE \in Nat /\ SizeT \in Nat /\ BLOCK_SIZE < SizeT /\ MaxOffset < SizeT
  BY HandleType, SizesAssumption
<1>2. (loc[t].len + OffsetOf(t)) % SizeT = loc[t].len + OffsetOf(t)
  <2>1. loc[t].len + OffsetOf(t) \in 0 .. SizeT - 1
    BY <1>1, SizesAssumption
  <2> QED
    BY <1>1, <2>1, ModSmall
<1>3. (BLOCK_SIZE - OffsetOf(t)) % SizeT = BLOCK_SIZE - OffsetOf(t)
  BY <1>1, ModSmall
<1>4. /\ ToWrite(t) \in Nat /\ ToWrite(t) <= loc[t].len
      /\ OffsetOf(t) + ToWrite(t) <= BLOCK_SIZE
  BY <1>1, <1>2, <1>3 DEF ToWrite
<1>5. OffsetOf(t) + ToWrite(t) \in 0 .. SizeT - 1
  BY <1>1, <1>4
<1> QED
  BY <1>1, <1>4, <1>5, ModSmall

\* A thread at work on a handle is not past the block.
LEMMA OffsetInBlock ==
  ASSUME TypeOK, LockInv, FailInv, NEW t \in Threads, pc[t] \in Transferring
  PROVE  /\ OffsetOf(t) <= BLOCK_SIZE /\ OffsetOf(t) + loc[t].len <= MaxOffset
         /\ "read" \in Ops => OffsetOf(t) <= inode_table[FileOf(t)].i_size
<1>1. loc[t].fh \in Handles \ free_open_file_entries
  BY HandleType DEF LockInv, EntryHeld, FileSection, Transferring
<1>2. OffsetOf(t) <= Limit(FileOf(t)) /\ FileOf(t) \in Inodes
  BY <1>1, HandleType DEF FailInv, OffsetsWithin, OffsetOf, FileOf
<1>3. /\ OffsetOf(t) \in Int /\ inode_table[FileOf(t)].i_size \in Int
      /\ inode_table[FileOf(t)].i_size <= BLOCK_SIZE /\ BLOCK_SIZE \in Int
  BY <1>2, HandleType, SizesAssumption DEF FailInv, OffsetsWithin, TypeOK, InodeType
<1> QED
  BY <1>2, <1>3 DEF Limit, FailInv, LengthsWithin

LEMMA CopyInSafe ==
  ASSUME ~failed, TypeOK, LockInv, FailInv, NEW t \in Threads, pc[t] \in Transferring,
         NEW block \in Blocks, NEW S, CopyIn(t, block, S)
  PROVE  failed' = FALSE
<1>1. ~(ToWrite(t) > loc[t].len \/ OffsetOf(t) + ToWrite(t) > BLOCK_SIZE)
  BY OffsetInBlock, WriteFits, HandleType, SizesAssumption
<1> QED
  BY <1>1 DEF CopyIn, TypeOK

LEMMA ReadSafe ==
  ASSUME TypeOK, LockInv, FailInv, NEW t \in Threads, Read(t)
  PROVE  failed' = FALSE
<1> DEFINE size == inode_table[FileOf(t)].i_size
<1>1. pc[t] \in Transferring /\ "read" \in Ops
  BY DEF Read, At, Transferring, FailInv, CallsMade
<1>2. /\ FileOf(t) \in Inodes /\ size \in 0 .. SizeT - 1 /\ OffsetOf(t) \in 0 .. SizeT - 1
      /\ OffsetOf(t) <= size /\ SizeT \in Nat /\ loc[t].len \in Nat
      /\ size > 0 => inode_table[FileOf(t)].i_data_block \in Blocks
  BY <1>1, OffsetInBlock, HandleType, SizesAssumption DEF TypeOK, InodeType
<1>3. (size - OffsetOf(t)) % SizeT = size - OffsetOf(t)
  <2>1. size - OffsetOf(t) \in 0 .. SizeT - 1
    BY <1>2
  <2> HIDE DEF size
  <2> QED
    BY <1>2, <2>1, ModSmall
<1>4. ToRead(t) > 0 => size > 0
  <2>1. ToRead(t) = IF size - OffsetOf(t) > loc[t].len THEN loc[t].len ELSE size - OffsetOf(t)
    BY <1>3 DEF ToRead
  <2> HIDE DEF size
  <2> QED
    BY <1>2, <2>1
<1> QED
  BY <1>2, <1>4 DEF Read, At, TypeOK

\* A thread takes steps only until the process ends.
LEMMA StepsRun ==
  ASSUME NEW t \in Threads, Call(t) \/ Continue(t)
  PROVE  ~failed
<1>1. CASE Call(t)
  BY <1>1 DEF Call, OpenEnter, LinkEnter, UnlinkEnter, CloseEnter, TransferEnter, EnterRoot,
              EnterFile, Idle
<1>2. CASE Continue(t)
  BY <1>2 DEF Continue, At, OpenRefused, OpenLink, OpenFollow, OpenAgain, OpenExisting, OpenCreate,
     OpenNoInode, OpenAddTake, OpenAddNext, Link, SymLink, UnlinkRefused, UnlinkName,
     UnlinkLink, UnlinkLast, UnlinkOpen, UnlinkScan, UnlinkDelete, CloseUnlock, CloseDestroy,
     Write, WriteAlloc, Read
<1> QED
  BY <1>1, <1>2

\* The only steps that end the process are the two that overflow.
LEMMA NoCrash ==
  ASSUME CallersCareful, TypeOK, LockInv, LinkInv, HandleInv, FailInv,
         NEW t \in Threads, Call(t) \/ Continue(t)
  PROVE  failed' = FALSE \/ (Crash /\ LinkOverflows(t))
<1> USE DEF FailInv
<1>0. ~failed /\ failed = FALSE
  BY StepsRun DEF TypeOK
<1>r. ASSUME NEW op, NEW l, EnterRoot(t, op, l) PROVE failed' = FALSE
  BY <1>0, <1>r DEF EnterRoot
<1>f. ASSUME NEW op, NEW h \in Handles, NEW l, NEW kept, EnterFile(t, op, h, l, kept)
      PROVE  failed' = FALSE
  <2>1. h \in mine[t]
    BY <1>f DEF EnterFile, MayUse, CallersCareful
  <2>2. h \notin free_open_file_entries /\ open_file_lock[h] # NoMutex
    BY <2>1 DEF HandleInv, HandlesOwned
  <2> QED
    BY <1>0, <1>f, <2>2 DEF EnterFile
<1>1. CASE OpenEnter(t) \/ LinkEnter(t, "link") \/ LinkEnter(t, "sym_link") \/ UnlinkEnter(t)
  BY <1>1, <1>r DEF OpenEnter, LinkEnter, UnlinkEnter
<1>2. CASE OpenRefused(t) \/ OpenNoInode(t) \/ UnlinkRefused(t) \/ Link(t)
  BY <1>0, <1>2 DEF OpenRefused, OpenNoInode, UnlinkRefused, Link, Refuse
<1>11. CASE SymLink(t)
  BY <1>0, <1>11 DEF SymLink, At, Refuse, LinkOverflows
<1>12. CASE OpenFollow(t)
  BY <1>0, <1>12 DEF OpenFollow, At, LinkOverflows
<1>3. CASE OpenLink(t) \/ OpenAgain(t) \/ OpenExisting(t) \/ OpenCreate(t)
           \/ OpenAddTake(t) \/ OpenAddNext(t)
  BY <1>0, <1>3 DEF OpenLink, OpenAgain, OpenExisting, OpenCreate, OpenAddTake, OpenAddNext
<1>4. CASE UnlinkName(t) \/ UnlinkLink(t) \/ UnlinkLast(t) \/ UnlinkOpen(t) \/ UnlinkScan(t)
  BY <1>0, <1>4 DEF UnlinkName, UnlinkLink, UnlinkLast, UnlinkOpen, UnlinkScan
<1>5. CASE UnlinkDelete(t)
  <2>1. pc[t] = "unlink_delete" /\ loc[t].inum \in Inodes
    BY <1>5 DEF UnlinkDelete, At, TypeOK, LocType
  <2>2. Found(t) = loc[t].inum /\ loc[t].inum \notin freeinode_ts /\ Found(t) # -1
    BY <2>1, SizesAssumption DEF LinkInv, UnlinkPinned, Inodes
  <2>3. SlotsNamed(loc[t].path) # {}
    <3>1. EntriesNamed(loc[t].path) # {}
      BY <2>2 DEF Found, tfs_lookup, find_in_dir
    <3> QED
      BY <3>1 DEF EntriesNamed, SlotsNamed
  <2> QED
    BY <1>0, <1>5, <2>2, <2>3 DEF UnlinkDelete
<1>6. CASE CloseEnter(t) \/ TransferEnter(t, "write") \/ TransferEnter(t, "read")
  BY <1>6, <1>f DEF CloseEnter, TransferEnter
<1>7. CASE CloseUnlock(t) \/ CloseDestroy(t)
  BY <1>0, <1>7 DEF CloseUnlock, CloseDestroy, CloseReady, At
<1>8. CASE Write(t)
  <2>1. pc[t] \in Transferring /\ FileOf(t) \in Inodes
    BY <1>8, HandleType DEF Write, At, Transferring
  <2>2. CASE inode_table[FileOf(t)].i_size # 0 /\ CopyIn(t, inode_table[FileOf(t)].i_data_block, {})
    <3>1. inode_table[FileOf(t)].i_data_block \in Blocks
      BY <2>1, <2>2, SizesAssumption DEF TypeOK, InodeType
    <3> QED
      BY <1>0, <2>1, <2>2, <3>1, CopyInSafe
  <2> QED
    BY <1>0, <1>8, <2>2 DEF Write
<1>9. CASE WriteAlloc(t)
  <2>1. pc[t] \in Transferring
    BY <1>9 DEF WriteAlloc, At, Transferring
  <2>2. CASE loc[t].i \in free_blocks /\ CopyIn(t, loc[t].i, {loc[t].i})
    <3>1. loc[t].i \in Blocks
      BY <2>2 DEF TypeOK
    <3> QED
      BY <1>0, <2>1, <2>2, <3>1, CopyInSafe
  <2> QED
    BY <1>0, <1>9, <2>2 DEF WriteAlloc
<1>10. CASE Read(t)
  BY <1>10, ReadSafe
<1> QED
  BY <1>1, <1>2, <1>3, <1>4, <1>5, <1>6, <1>7, <1>8, <1>9, <1>10,
     <1>11, <1>12 DEF Call, Continue

\* The sizes of the files: none exceeds the block, and none that is taken goes down
\* when the callers read.
LEMMA SizeFrame ==
  ASSUME CallersCareful, TypeOK, LockInv, LinkInv, FailInv,
         NEW t \in Threads, Call(t) \/ Continue(t), failed' = FALSE
  PROVE  \A i \in Inodes :
           /\ inode_table'[i].i_size <= BLOCK_SIZE
           /\ "read" \in Ops /\ i \notin freeinode_ts =>
                inode_table[i].i_size <= inode_table'[i].i_size
<1> USE SizesAssumption
<1> DEFINE kept == \A i \in Inodes : inode_table'[i].i_size = inode_table[i].i_size
<1>s. \A i \in Inodes : inode_table[i].i_size \in Nat /\ inode_table[i].i_size <= BLOCK_SIZE
  BY DEF TypeOK, InodeType, FailInv, OffsetsWithin
<1>k. CASE kept
  BY <1>s, <1>k
<1>u. UNCHANGED inode_table => kept
  OBVIOUS
<1>c. ~Crash
  BY DEF Crash
<1>1. CASE OpenEnter(t) \/ LinkEnter(t, "link") \/ LinkEnter(t, "sym_link") \/ UnlinkEnter(t)
  BY <1>1, <1>u, <1>k DEF OpenEnter, LinkEnter, UnlinkEnter, EnterRoot, inodeVars
<1>2. CASE OpenRefused(t) \/ OpenNoInode(t) \/ UnlinkRefused(t)
  BY <1>2, <1>u, <1>k DEF OpenRefused, OpenNoInode, UnlinkRefused, Refuse, inodeVars
<1>3. CASE OpenLink(t) \/ (OpenFollow(t) /\ ~Crash) \/ OpenAgain(t) \/ OpenAddTake(t) \/ OpenAddNext(t)
  BY <1>3, <1>u, <1>k DEF OpenLink, OpenFollow, OpenAgain, OpenAddTake, OpenAddNext, inodeVars
<1>4. CASE OpenExisting(t)
  <2>1. PICK size : /\ inode_table' = [inode_table EXCEPT ![Found(t)].i_size = size]
                    /\ size = IF "TRUNC" \in loc[t].mode THEN 0 ELSE inode_table[Found(t)].i_size
    BY <1>4 DEF OpenExisting
  <2>2. "read" \in Ops => "TRUNC" \notin loc[t].mode
    BY DEF CallersCareful, FailInv, CallsMade
  <2>3. \A i \in Inodes : \/ inode_table'[i].i_size = inode_table[i].i_size
                          \/ inode_table'[i].i_size = 0 /\ "read" \notin Ops
    BY <2>1, <2>2 DEF TypeOK, InodeType
  <2> QED
    BY <2>3, <1>s
<1>5. CASE OpenCreate(t)
  <2>1. /\ inode_table' = [inode_table EXCEPT ![FirstFreeInode] = NewInode("file")]
        /\ FirstFreeInode \in freeinode_ts
    BY <1>5, FirstFreeType DEF OpenCreate
  <2>2. \A i \in Inodes : \/ inode_table'[i].i_size = inode_table[i].i_size
                          \/ inode_table'[i].i_size = 0 /\ i \in freeinode_ts
    BY <2>1 DEF TypeOK, NewInode
  <2> QED
    BY <2>2, <1>s
<1>6. CASE Link(t)
  <2>1. CASE Refuse(t)
    BY <2>1, <1>u, <1>k DEF Refuse, inodeVars
  <2>2. CASE ~Refuse(t)
    <3>1. PICK inum, n : inode_table' = [inode_table EXCEPT ![inum].hard_link_counter = n]
      BY <1>6, <2>2 DEF Link
    <3> QED
      BY <3>1, <1>k DEF TypeOK, InodeType
  <2> QED
    BY <2>1, <2>2
<1>7. CASE SymLink(t) /\ ~Crash
  <2>1. CASE Refuse(t)
    BY <2>1, <1>u, <1>k DEF Refuse, inodeVars
  <2>2. CASE ~Refuse(t)
    <3>1. /\ inode_table' = [inode_table EXCEPT ![FirstFreeInode] =
               [NewInode("symlink") EXCEPT !.sym_path = loc[t].target]]
          /\ FirstFreeInode \in freeinode_ts
      BY <1>7, <2>2, FirstFreeType DEF SymLink
    <3>2. \A i \in Inodes : \/ inode_table'[i].i_size = inode_table[i].i_size
                            \/ inode_table'[i].i_size = 0 /\ i \in freeinode_ts
      BY <3>1 DEF TypeOK, NewInode
    <3> QED
      BY <3>2, <1>s
  <2> QED
    BY <2>1, <2>2
<1>8. CASE UnlinkName(t)
  <2>1. PICK inum, n : inode_table' = [inode_table EXCEPT ![inum].hard_link_counter = n]
    BY <1>8 DEF UnlinkName
  <2> QED
    BY <2>1, <1>k DEF TypeOK, InodeType
<1>9. CASE UnlinkLink(t) \/ UnlinkLast(t) \/ UnlinkOpen(t) \/ UnlinkScan(t)
  BY <1>9, <1>u, <1>k DEF UnlinkLink, UnlinkLast, UnlinkOpen, UnlinkScan, inodeVars
<1>10. CASE UnlinkDelete(t)
  BY <1>10, <1>c, <1>u, <1>k DEF UnlinkDelete
<1>11. CASE CloseEnter(t) \/ TransferEnter(t, "write") \/ TransferEnter(t, "read")
            \/ CloseUnlock(t) \/ CloseDestroy(t)
  BY <1>11, <1>u, <1>k
     DEF CloseEnter, TransferEnter, EnterFile, CloseUnlock, CloseDestroy, Crash, inodeVars
<1>12. ASSUME NEW block, NEW S, CopyIn(t, block, S), pc[t] \in Transferring
       PROVE  \A i \in Inodes : /\ inode_table'[i].i_size <= BLOCK_SIZE
                                /\ inode_table[i].i_size <= inode_table'[i].i_size
  <2> DEFINE end == (OffsetOf(t) + ToWrite(t)) % SizeT
             size == inode_table[FileOf(t)].i_size
  <2>1. inode_table' = [inode_table EXCEPT ![FileOf(t)].i_data_block = block,
                                           ![FileOf(t)].i_size = IF end > size THEN end ELSE size]
    BY <1>12, <1>c DEF CopyIn
  <2>2. end \in Nat /\ end <= BLOCK_SIZE
    BY <1>12, OffsetInBlock, WriteFits, HandleType
  <2>3. size \in Nat /\ size <= BLOCK_SIZE
    BY <1>s, HandleType
  <2> HIDE DEF end, size
  <2>4. PICK n : /\ inode_table' = [inode_table EXCEPT ![FileOf(t)].i_data_block = block,
                                                      ![FileOf(t)].i_size = n]
                 /\ n \in Nat /\ n <= BLOCK_SIZE /\ size <= n
    <3>1. LET n == IF end > size THEN end ELSE size
          IN  n \in Nat /\ n <= BLOCK_SIZE /\ size <= n
      BY <2>2, <2>3
    <3> QED
      BY <2>1, <3>1
  <2>5. /\ inode_table'[FileOf(t)].i_size = n
        /\ \A i \in Inodes \ {FileOf(t)} : inode_table'[i] = inode_table[i]
    BY <2>4, HandleType DEF TypeOK, InodeType
  <2>6. inode_table[FileOf(t)].i_size <= n
    BY <2>4 DEF size
  <2>7. ASSUME NEW i \in Inodes
        PROVE  /\ inode_table'[i].i_size <= BLOCK_SIZE
               /\ inode_table[i].i_size <= inode_table'[i].i_size
    <3>1. CASE i = FileOf(t)
      BY <3>1, <2>4, <2>5, <2>6
    <3>2. CASE i # FileOf(t)
      BY <3>2, <2>5, <1>s
    <3> QED
      BY <3>1, <3>2
  <2> QED
    BY <2>7
<1>13. CASE Write(t)
  BY <1>13, <1>12, <1>u, <1>k DEF Write, At, Transferring, inodeVars
<1>14. CASE WriteAlloc(t)
  BY <1>14, <1>12, <1>u, <1>k DEF WriteAlloc, At, Transferring, inodeVars
<1>15. CASE Read(t)
  BY <1>15, <1>c, <1>u, <1>k DEF Read, inodeVars
<1> QED
  BY <1>c, <1>1, <1>2, <1>3, <1>4, <1>5, <1>6, <1>7, <1>8, <1>9, <1>10, <1>11, <1>13, <1>14, <1>15
     DEF Call, Continue

\* A read or a write moves the offset of its handle, within the file.
LEMMA OffsetFrame ==
  ASSUME TypeOK, LockInv, FailInv, NEW t \in Threads, Call(t) \/ Continue(t), failed' = FALSE,
         ~OpenAddTake(t), NEW h \in Handles \ free_open_file_entries'
  PROVE  \/ open_file_table'[h].of_offset = open_file_table[h].of_offset
         \/ /\ open_file_table'[h].of_offset <= SizeBehind(h)'
            /\ h = loc[t].fh /\ pc[t] \in Transferring
<1>c. ~Crash
  BY DEF Crash
<1>h. h \in Handles
  OBVIOUS
<1>a. ASSUME NEW block, NEW S, CopyIn(t, block, S), pc[t] \in Transferring, h = loc[t].fh
      PROVE  open_file_table'[h].of_offset <= SizeBehind(h)'
  BY <1>h, <1>a, <1>c, CopyInWithin DEF SizeBehind, FileOf
<1>b. ASSUME NEW block, NEW S, CopyIn(t, block, S), h # loc[t].fh
      PROVE  open_file_table'[h].of_offset = open_file_table[h].of_offset
  <2>1. \A k \in Handles : k # loc[t].fh => open_file_table'[k] = open_file_table[k]
    BY <1>b, <1>c, CopyInWithin
  <2> QED
    BY <1>h, <1>b, <2>1
<1>1. CASE ~FileStep(t)
  BY <1>1, FileFrame DEF fileVars
<1>2. CASE CloseEnter(t) \/ TransferEnter(t, "write") \/ TransferEnter(t, "read")
           \/ CloseUnlock(t) \/ CloseDestroy(t)
  BY <1>2 DEF CloseEnter, TransferEnter, EnterFile, CloseUnlock, CloseDestroy, Crash, fileVars
<1>3. CASE Write(t)
  BY <1>3, <1>a, <1>b DEF Write, At, Transferring, fileVars
<1>4. CASE WriteAlloc(t)
  BY <1>4, <1>a, <1>b DEF WriteAlloc, At, Transferring, fileVars
<1>5. CASE Read(t)
  <2>1. pc[t] \in Transferring /\ "read" \in Ops
    BY <1>5 DEF Read, At, Transferring, FailInv, CallsMade
  <2>2. OffsetOf(t) <= inode_table[FileOf(t)].i_size
    BY <2>1, OffsetInBlock
  <2> QED
    BY <1>h, <1>5, <1>c, <2>1, <2>2, ReadWithin DEF SizeBehind, FileOf
<1> QED
  BY <1>1, <1>2, <1>3, <1>4, <1>5 DEF FileStep

LEMMA LimitFrame ==
  ASSUME CallersCareful, TypeOK, LockInv, LinkInv, FailInv,
         NEW t \in Threads, Call(t) \/ Continue(t), failed' = FALSE,
         NEW i \in Inodes, "read" \in Ops => i \notin freeinode_ts
  PROVE  Limit(i) <= Limit(i)'
<1>1. "read" \in Ops => inode_table[i].i_size <= inode_table'[i].i_size
  BY SizeFrame
<1> QED
  BY <1>1, SizesAssumption DEF Limit

\* With reads the files that are open, or being opened, are not deleted.
LEMMA OffsetsWithinStep ==
  ASSUME CallersCareful, TypeOK, LockInv, LinkInv, FailInv, "read" \in Ops => FilesKept,
         NEW t \in Threads, Call(t) \/ Continue(t), failed' = FALSE, TypeOK'
  PROVE  OffsetsWithin'
<1> USE SizesAssumption
<1>l. \A i \in Inodes : Limit(i) \in Nat /\ Limit(i)' \in Nat
  BY DEF Limit, TypeOK, InodeType
<1>s. \A i \in Inodes : inode_table'[i].i_size <= BLOCK_SIZE
  BY SizeFrame
<1>b. \A i \in Inodes : inode_table'[i].i_size \in Nat /\ inode_table'[i].i_size <= Limit(i)'
  BY <1>s DEF Limit, TypeOK, InodeType
<1>1. ASSUME NEW h \in Handles \ free_open_file_entries'
      PROVE  open_file_table'[h].of_offset <= Limit(open_file_table[h].of_inumber)'
  <2>h. h \in Handles
    OBVIOUS
  <2>t. open_file_table'[h].of_inumber \in Inodes /\ open_file_table'[h].of_offset \in Int
    BY <2>h DEF TypeOK
  <2>1. CASE OpenAddTake(t)
    <3>1. UNCHANGED inode_table /\ pc[t] = "open_add"
      BY <2>1 DEF OpenAddTake, At, inodeVars
    <3>2. \A i : Limit(i)' = Limit(i)
      BY <3>1 DEF Limit
    <3>3. CASE h = loc[t].i
      BY <2>1, <2>h, <3>1, <3>2, <3>3 DEF OpenAddTake, TypeOK, FailInv, OffsetsWithin
    <3>4. CASE h # loc[t].i
      <4>1. h \notin free_open_file_entries /\ open_file_table'[h] = open_file_table[h]
        BY <2>1, <2>h, <3>4 DEF OpenAddTake, TypeOK
      <4> QED
        BY <2>h, <3>2, <4>1 DEF FailInv, OffsetsWithin
    <3> QED
      BY <3>3, <3>4
  <2>2. CASE ~OpenAddTake(t)
    <3>1. /\ h \notin free_open_file_entries
          /\ open_file_table'[h].of_inumber = open_file_table[h].of_inumber
      BY <2>2, HandleFrame
    <3>2. CASE open_file_table'[h].of_offset = open_file_table[h].of_offset
      <4>1. PICK i \in Inodes : /\ i = open_file_table[h].of_inumber
                               /\ open_file_table[h].of_offset <= Limit(i)
        BY <2>h, <2>t, <3>1 DEF FailInv, OffsetsWithin
      <4>2. "read" \in Ops => i \notin freeinode_ts
        BY <2>h, <3>1, <4>1 DEF FilesKept, OpenHandleLive
      <4>3. Limit(i) <= Limit(i)'
        BY <4>1, <4>2, LimitFrame
      <4>4. open_file_table'[h].of_offset <= Limit(i)'
        BY <2>t, <3>2, <4>1, <4>3, <1>l
      <4> QED
        BY <3>1, <4>1, <4>4
    <3>3. CASE open_file_table'[h].of_offset <= SizeBehind(h)'
      BY <2>t, <3>3, <1>b, <1>l DEF SizeBehind
    <3> QED
      BY <2>2, <3>2, <3>3, OffsetFrame
  <2> QED
    BY <2>1, <2>2
<1>2. ASSUME NEW u \in Threads, pc'[u] = "open_add"
      PROVE  loc'[u].offset <= Limit(loc[u].inum)'
  <2>t. loc'[u].inum \in Inodes /\ loc'[u].offset \in Int
    BY DEF TypeOK, LocType
  <2>1. CASE pc[u] = "open_add" /\ loc'[u].inum = loc[u].inum /\ loc'[u].offset = loc[u].offset
    <3>1. PICK i \in Inodes : i = loc[u].inum /\ loc[u].offset <= Limit(i)
      BY <2>1, <2>t DEF FailInv, OffsetsWithin
    <3>2. "read" \in Ops => i \notin freeinode_ts
      BY <2>1, <3>1 DEF FilesKept
    <3>3. Limit(i) <= Limit(i)'
      BY <3>1, <3>2, LimitFrame
    <3>4. loc'[u].offset <= Limit(i)'
      BY <2>t, <2>1, <3>1, <3>3, <1>l
    <3> QED
      BY <2>1, <3>1, <3>4
  <2>2. CASE u # t
    BY <1>2, <2>1, <2>2, OthersStep DEF Others
  <2>3. CASE u = t /\ OpenExisting(t)
    <3>1. /\ loc'[t].inum = Found(t)
          /\ \/ loc'[t].offset = 0
             \/ loc'[t].offset = inode_table'[Found(t)].i_size
      <4> DEFINE size == IF "TRUNC" \in loc[t].mode THEN 0 ELSE inode_table[Found(t)].i_size
      <4>1. /\ inode_table' = [inode_table EXCEPT ![Found(t)].i_size = size]
            /\ loc' = [loc EXCEPT ![t].inum = Found(t),
                                  ![t].offset = IF "APPEND" \in loc[t].mode THEN size ELSE 0]
            /\ Found(t) # -1
        BY <2>3 DEF OpenExisting
      <4>2. Found(t) \in Inodes
        BY <4>1, LookupType DEF Found
      <4> HIDE DEF size
      <4>3. inode_table'[Found(t)].i_size = size
        BY <4>1, <4>2 DEF TypeOK, InodeType
      <4>4. loc'[t].inum = Found(t) /\ loc'[t].offset = IF "APPEND" \in loc[t].mode THEN size ELSE 0
        BY <4>1 DEF TypeOK, LocType
      <4> QED
        BY <4>3, <4>4
    <3> QED
      BY <2>3, <2>t, <3>1, <1>b, <1>l
  <2>4. CASE u = t /\ OpenCreate(t) /\ EntryFits(loc[t].path)
    <3>1. loc'[t].offset = loc[t].offset /\ pc[t] = "open"
      BY <2>4 DEF OpenCreate, TypeOK, LocType, At
    <3>2. loc'[t].offset = 0
      BY <3>1 DEF FailInv, CallsMade
    <3> QED
      BY <2>4, <2>t, <3>2, <1>l
  <2>5. CASE u = t /\ OpenAddNext(t) /\ pc[t] = "open_add"
    <3>1. loc' = [loc EXCEPT ![t].i = @ + 1]
      BY <1>2, <2>5 DEF OpenAddNext, Return, Goto, TypeOK
    <3> QED
      BY <2>1, <2>5, <3>1 DEF TypeOK, LocType
  <2> QED
    BY <1>2, <2>2, <2>3, <2>4, <2>5, OpeningFrame
<1> QED
  BY <1>1, <1>2, <1>s DEF OffsetsWithin

\* Nobody else works on the entry of a thread in a call on a handle.
LEMMA EntryAlone ==
  ASSUME TypeOK, LockInv, NEW t \in Threads, Call(t) \/ Continue(t),
         NEW u \in Threads \ {t}, pc[u] \in FileSection
  PROVE  open_file_table'[loc[u].fh] = open_file_table[loc[u].fh]
<1>1. /\ open_file_lock[loc[u].fh] = u /\ loc[u].fh \notin free_open_file_entries
      /\ loc[u].fh \in Handles
  BY HandleType DEF LockInv, EntryHeld
<1>2. CASE ~FileStep(t)
  BY <1>2, FileFrame DEF fileVars
<1>3. CASE OpenAddTake(t)
  BY <1>1, <1>3 DEF OpenAddTake, TypeOK
<1>4. CASE CloseEnter(t) \/ TransferEnter(t, "write") \/ TransferEnter(t, "read")
           \/ CloseUnlock(t) \/ CloseDestroy(t)
  BY <1>4 DEF CloseEnter, TransferEnter, EnterFile, CloseUnlock, CloseDestroy, Crash, fileVars
<1>5. CASE Write(t) \/ WriteAlloc(t) \/ Read(t)
  <2>1. pc[t] \in FileSection
    BY <1>5, TransferFrame DEF FileSection
  <2>2. loc[t].fh # loc[u].fh
    BY <1>1, <2>1 DEF LockInv, EntryHeld
  <2>3. CASE UNCHANGED open_file_table
    BY <2>3
  <2>4. ASSUME NEW n, open_file_table' = [open_file_table EXCEPT ![loc[t].fh].of_offset = n]
        PROVE  open_file_table'[loc[u].fh] = open_file_table[loc[u].fh]
    BY <1>1, <2>2, <2>4 DEF TypeOK
  <2> QED
    BY <1>5, <2>3, <2>4, TransferFrame
<1> QED
  BY <1>2, <1>3, <1>4, <1>5 DEF FileStep

LEMMA LengthsWithinStep ==
  ASSUME TypeOK, LockInv, FailInv, NEW t \in Threads, Call(t) \/ Continue(t), failed' = FALSE
  PROVE  LengthsWithin'
<1> SUFFICES ASSUME NEW u \in Threads, pc'[u] \in Transferring
             PROVE  open_file_table'[loc'[u].fh].of_offset + loc'[u].len <= MaxOffset
  BY DEF LengthsWithin, OffsetOf
<1>c. ~Crash
  BY DEF Crash
<1>k. CASE /\ pc[u] \in Transferring /\ loc'[u].fh = loc[u].fh /\ loc'[u].len = loc[u].len
           /\ open_file_table'[loc[u].fh] = open_file_table[loc[u].fh]
  BY <1>k DEF FailInv, LengthsWithin, OffsetOf
<1>e. ASSUME NEW op, NEW h \in Handles, NEW n \in Lens, u = t,
             open_file_table[h].of_offset + n <= MaxOffset,
             EnterFile(t, op, h, [NoLoc EXCEPT !.fh = h, !.len = n], mine)
      PROVE  open_file_table'[loc'[t].fh].of_offset + loc'[t].len <= MaxOffset
  <2>1. /\ loc' = [loc EXCEPT ![t] = [NoLoc EXCEPT !.fh = h, !.len = n]]
        /\ open_file_table' = open_file_table
    BY <1>c, <1>e DEF EnterFile
  <2>2. loc'[t].fh = h /\ loc'[t].len = n
    BY <2>1 DEF TypeOK, NoLoc
  <2> QED
    BY <1>e, <2>1, <2>2
<1>1. CASE u # t
  <2>1. pc[u] \in Transferring /\ loc'[u] = loc[u]
    BY <1>1, OthersStep DEF Others
  <2>2. open_file_table'[loc[u].fh] = open_file_table[loc[u].fh]
    BY <1>1, <2>1, EntryAlone DEF Transferring, FileSection
  <2> QED
    BY <1>k, <2>1, <2>2
<1>2. CASE u = t /\ ~FileStep(t)
  BY <1>2, FileFrame DEF OutsideFiles, FileSection, Transferring
<1>3. CASE u = t /\ (OpenAddTake(t) \/ CloseUnlock(t) \/ CloseDestroy(t))
  BY <1>3, <1>c DEF OpenAddTake, CloseUnlock, CloseDestroy, Return, Goto, TypeOK, Transferring
<1>4. CASE u = t /\ CloseEnter(t)
  BY <1>4, <1>c DEF CloseEnter, EnterFile, Goto, TypeOK, Transferring
<1>5. CASE u = t /\ (TransferEnter(t, "write") \/ TransferEnter(t, "read"))
  BY <1>5, <1>e DEF TransferEnter
<1>6. CASE u = t /\ (Write(t) \/ WriteAlloc(t) \/ Read(t))
  <2>1. pc[t] \in Transferring /\ UNCHANGED fileVars
    BY <1>6, TransferFrame DEF Transferring
  <2>2. loc'[t].fh = loc[t].fh /\ loc'[t].len = loc[t].len
    <3>1. CASE Write(t)
      BY <1>6, <3>1, <1>c DEF Write, CopyIn, Return, Goto, TypeOK, Transferring
    <3>2. CASE WriteAlloc(t)
      BY <1>6, <3>2, <1>c DEF WriteAlloc, CopyIn, Return, Goto, TypeOK, LocType, Transferring
    <3>3. CASE Read(t)
      BY <1>6, <3>3, <1>c DEF Read, Return, Goto, TypeOK, Transferring
    <3> QED
      BY <1>6, <3>1, <3>2, <3>3
  <2> QED
    BY <1>6, <1>k, <2>1, <2>2 DEF fileVars
<1> QED
  BY <1>1, <1>2, <1>3, <1>4, <1>5, <1>6 DEF FileStep

LEMMA CloseReadyStep ==
  ASSUME TypeOK, LockInv, HandleInv, FailInv, HandleUse = "own",
         NEW t \in Threads, Call(t) \/ Continue(t), failed' = FALSE
  PROVE  CloseReady'
<1> SUFFICES ASSUME NEW u \in Threads, pc'[u] = "close_destroy"
             PROVE  open_file_lock'[loc'[u].fh] = NoThread
  BY DEF CloseReady
<1>c. ~Crash
  BY DEF Crash
<1>1. CASE u = t
  <2>1. CASE ~FileStep(t)
    BY <1>1, <2>1, FileFrame DEF OutsideFiles
  <2>2. CASE OpenAddTake(t) \/ CloseDestroy(t)
    BY <1>1, <2>2, <1>c DEF OpenAddTake, CloseDestroy, Return, Goto, TypeOK
  <2>3. CASE CloseEnter(t) \/ TransferEnter(t, "write") \/ TransferEnter(t, "read")
    BY <1>1, <2>3, <1>c DEF CloseEnter, TransferEnter, EnterFile, Goto, TypeOK
  <2>4. CASE CloseUnlock(t)
    BY <1>1, <2>4, HandleType DEF CloseUnlock, UnlockFile, TypeOK
  <2>5. CASE Write(t) \/ WriteAlloc(t) \/ Read(t)
    BY <1>1, <2>5, TransferFrame
  <2> QED
    BY <2>1, <2>2, <2>3, <2>4, <2>5 DEF FileStep
<1>2. CASE u # t
  <2>1. /\ pc[u] = "close_destroy" /\ loc'[u] = loc[u]
        /\ loc[u].fh \in Handles /\ loc[u].fh \notin free_open_file_entries
        /\ open_file_lock[loc[u].fh] = NoThread /\ open_file_table_lock = u
    BY <1>2, OthersStep, HandleType DEF Others, LockInv, CloseHeld, FailInv, CloseReady
  <2>2. \A v \in Threads : loc[u].fh \notin mine[v]
    BY <2>1 DEF HandleInv, CloseUnowned, Closing
  <2>3. CASE ~FileStep(t)
    BY <2>1, <2>3, FileFrame DEF fileVars
  <2>4. CASE OpenAddTake(t)
    BY <2>1, <2>4 DEF OpenAddTake, TypeOK
  <2>5. ASSUME NEW op, NEW h \in Handles, NEW l, NEW kept, EnterFile(t, op, h, l, kept)
        PROVE  open_file_lock'[loc[u].fh] = NoThread
    BY <1>c, <2>1, <2>2, <2>5 DEF EnterFile, MayUse, TypeOK
  <2>6. CASE CloseEnter(t) \/ TransferEnter(t, "write") \/ TransferEnter(t, "read")
    BY <2>1, <2>5, <2>6 DEF CloseEnter, TransferEnter
  <2>7. CASE CloseUnlock(t)
    BY <2>1, <2>7 DEF CloseUnlock, UnlockFile, TypeOK
  <2>8. CASE CloseDestroy(t)
    BY <1>2, <2>1, <2>8 DEF CloseDestroy, At, LockInv, CloseHeld
  <2>9. CASE Write(t) \/ WriteAlloc(t) \/ Read(t)
    <3>1. UNCHANGED open_file_lock \/ UnlockFile(t)
      BY <2>9, TransferFrame DEF fileVars
    <3> QED
      BY <2>1, <3>1 DEF UnlockFile, TypeOK
  <2> QED
    BY <2>3, <2>4, <2>6, <2>7, <2>8, <2>9 DEF FileStep
<1> QED
  BY <1>1, <1>2

LEMMA CallsMadeStep ==
  ASSUME TypeOK, FailInv, NEW t \in Threads, Call(t) \/ Continue(t), failed' = FALSE
  PROVE  CallsMade'
<1>c. ~Crash
  BY DEF Crash
<1> DEFINE made == /\ loc'[t].mode # {} => loc'[t].mode \in Modes
                   /\ pc'[t] = "read" => "read" \in Ops
                   /\ pc'[t] # "open_add" => loc'[t].offset = 0
<1> SUFFICES made
  BY OthersStep DEF FailInv, CallsMade, Others
<1>b. /\ loc[t].mode # {} => loc[t].mode \in Modes
      /\ pc[t] = "read" => "read" \in Ops
      /\ pc[t] # "open_add" => loc[t].offset = 0
  BY DEF FailInv, CallsMade
<1>n. NoLoc.mode = {} /\ NoLoc.offset = 0
  BY DEF NoLoc
<1> USE DEF Goto, Return, TypeOK, LocType, At
<1>1. ASSUME NEW l, l.mode # {} => l.mode \in Modes, l.offset = 0,
             NEW op \in {"open", "link", "sym_link", "unlink"}, EnterRoot(t, op, l)
      PROVE  made
  BY <1>1 DEF EnterRoot
<1>2. CASE OpenEnter(t)
  <2>1. PICK p \in PathsOf[t], mode \in Modes :
          EnterRoot(t, "open", [NoLoc EXCEPT !.path = p, !.mode = mode])
    BY <1>2 DEF OpenEnter
  <2> DEFINE l == [NoLoc EXCEPT !.path = p, !.mode = mode]
  <2>2. l.mode = mode /\ l.offset = 0
    BY DEF NoLoc
  <2> HIDE DEF l
  <2>3. EnterRoot(t, "open", l)
    BY <2>1 DEF l
  <2> QED
    BY <2>2, <2>3, <1>1
<1>3. ASSUME NEW op \in {"link", "sym_link"}, LinkEnter(t, op) PROVE made
  <2>1. PICK target, p \in PathsOf[t] :
          EnterRoot(t, op, [NoLoc EXCEPT !.path = p, !.target = target])
    BY <1>3 DEF LinkEnter
  <2> DEFINE l == [NoLoc EXCEPT !.path = p, !.target = target]
  <2>2. l.mode = {} /\ l.offset = 0
    BY DEF NoLoc
  <2> HIDE DEF l
  <2>3. EnterRoot(t, op, l)
    BY <2>1 DEF l
  <2> QED
    BY <2>2, <2>3, <1>1
<1>4. CASE UnlinkEnter(t)
  <2>1. PICK p \in PathsOf[t] : EnterRoot(t, "unlink", [NoLoc EXCEPT !.path = p])
    BY <1>4 DEF UnlinkEnter
  <2> DEFINE l == [NoLoc EXCEPT !.path = p]
  <2>2. l.mode = {} /\ l.offset = 0
    BY DEF NoLoc
  <2> HIDE DEF l
  <2>3. EnterRoot(t, "unlink", l)
    BY <2>1 DEF l
  <2> QED
    BY <2>2, <2>3, <1>1
<1>r. CASE Return(t)
  BY <1>r, <1>n
<1>k. CASE /\ \/ UNCHANGED loc
              \/ \E n : loc' = [loc EXCEPT ![t].inum = n]
              \/ \E n, d : loc' = [loc EXCEPT ![t].path = n, ![t].depth = d]
              \/ \E n : loc' = [loc EXCEPT ![t].i = n]
           /\ pc'[t] \notin {"read", "open_add"} \/ pc'[t] = pc[t]
           /\ pc[t] # "open_add" \/ pc'[t] = pc[t]
  <2>1. loc'[t].mode = loc[t].mode /\ loc'[t].offset = loc[t].offset
    <3>1. CASE UNCHANGED loc
      BY <3>1
    <3>2. ASSUME NEW n, loc' = [loc EXCEPT ![t].inum = n]
          PROVE  loc'[t].mode = loc[t].mode /\ loc'[t].offset = loc[t].offset
      BY <3>2
    <3>3. ASSUME NEW n, NEW d, loc' = [loc EXCEPT ![t].path = n, ![t].depth = d]
          PROVE  loc'[t].mode = loc[t].mode /\ loc'[t].offset = loc[t].offset
      BY <3>3
    <3>4. ASSUME NEW n, loc' = [loc EXCEPT ![t].i = n]
          PROVE  loc'[t].mode = loc[t].mode /\ loc'[t].offset = loc[t].offset
      BY <3>4
    <3> QED
      BY <1>k, <3>1, <3>2, <3>3, <3>4
  <2> QED
    BY <1>b, <1>k, <2>1
<1>5. CASE OpenRefused(t) \/ OpenNoInode(t) \/ UnlinkRefused(t)
  BY <1>5, <1>r DEF OpenRefused, OpenNoInode, UnlinkRefused, Refuse
<1>6. CASE OpenLink(t) \/ OpenAgain(t)
  <2>1. /\ UNCHANGED loc \/ \E n : loc' = [loc EXCEPT ![t].inum = n]
        /\ pc[t] # "open_add" /\ pc'[t] \notin {"read", "open_add"}
    BY <1>6 DEF OpenLink, OpenAgain
  <2> QED
    BY <1>k, <2>1
<1>7. CASE OpenFollow(t) /\ ~Crash
  <2>1. CASE ~Return(t)
    <3>1. /\ \E n, d : loc' = [loc EXCEPT ![t].path = n, ![t].depth = d]
          /\ pc[t] # "open_add" /\ pc'[t] \notin {"read", "open_add"}
      BY <1>7, <2>1 DEF OpenFollow
    <3> QED
      BY <1>k, <3>1
  <2> QED
    BY <1>r, <2>1
<1>8. CASE OpenExisting(t)
  <2>1. PICK n : loc' = [loc EXCEPT ![t].inum = Found(t), ![t].offset = n]
    BY <1>8 DEF OpenExisting
  <2> QED
    BY <1>8, <2>1, <1>b DEF OpenExisting
<1>9. CASE OpenCreate(t)
  <2>1. pc[t] = "open"
    BY <1>9 DEF OpenCreate
  <2>2. CASE ~Return(t)
    <3>1. loc' = [loc EXCEPT ![t].inum = FirstFreeInode] /\ pc' = [pc EXCEPT ![t] = "open_add"]
      BY <1>9, <2>2 DEF OpenCreate
    <3>2. loc'[t].mode = loc[t].mode /\ loc'[t].offset = loc[t].offset /\ pc'[t] = "open_add"
      BY <3>1
    <3> QED
      BY <3>2, <1>b
  <2> QED
    BY <2>2, <1>r
<1>10. CASE OpenAddTake(t) \/ OpenAddNext(t)
  <2>1. CASE ~Return(t)
    <3>1. (\E n : loc' = [loc EXCEPT ![t].i = n]) /\ pc'[t] = pc[t]
      BY <1>10, <2>1 DEF OpenAddTake, OpenAddNext
    <3> QED
      BY <1>k, <3>1
  <2> QED
    BY <1>r, <2>1
<1>11. CASE Link(t) \/ (SymLink(t) /\ ~Crash) \/ UnlinkName(t) \/ UnlinkOpen(t) \/ CloseDestroy(t) \/ Read(t)
            \/ UnlinkDelete(t)
  BY <1>11, <1>c, <1>r DEF Link, SymLink, UnlinkName, UnlinkOpen, UnlinkDelete, Refuse, CloseDestroy, Read
<1>12. CASE UnlinkLink(t) \/ UnlinkLast(t)
  <2>1. /\ \E n : loc' = [loc EXCEPT ![t].inum = n]
        /\ pc[t] # "open_add" /\ pc'[t] \notin {"read", "open_add"}
    BY <1>12 DEF UnlinkLink, UnlinkLast
  <2> QED
    BY <1>k, <2>1
<1>13. CASE UnlinkScan(t)
  <2>1. /\ UNCHANGED loc \/ \E n : loc' = [loc EXCEPT ![t].i = n]
        /\ pc[t] = "unlink_scan" /\ pc'[t] \in {"unlink_scan", "unlink_delete"}
    BY <1>13 DEF UnlinkScan
  <2> QED
    BY <1>k, <2>1
<1>14. ASSUME NEW op, op \in Ops, NEW h, NEW kept, NEW l, l.mode = {}, l.offset = 0, EnterFile(t, op, h, l, kept)
       PROVE  made
  BY <1>14, <1>c DEF EnterFile
<1>15. CASE CloseEnter(t)
  <2>1. PICK h \in Handles :
          EnterFile(t, "close", h, [NoLoc EXCEPT !.fh = h], [u \in Threads |-> mine[u] \ {h}])
    BY <1>15 DEF CloseEnter
  <2> DEFINE l == [NoLoc EXCEPT !.fh = h]
  <2>2. l.mode = {} /\ l.offset = 0
    BY DEF NoLoc
  <2> HIDE DEF l
  <2>3. EnterFile(t, "close", h, l, [u \in Threads |-> mine[u] \ {h}])
    BY <2>1 DEF l
  <2>4. "close" \in Ops
    BY <2>1 DEF EnterFile
  <2> QED
    BY <2>2, <2>3, <2>4, <1>14
<1>16. ASSUME NEW op, TransferEnter(t, op) PROVE made
  <2>1. PICK h \in Handles, n \in Lens :
          EnterFile(t, op, h, [NoLoc EXCEPT !.fh = h, !.len = n], mine)
    BY <1>16 DEF TransferEnter
  <2> DEFINE l == [NoLoc EXCEPT !.fh = h, !.len = n]
  <2>2. l.mode = {} /\ l.offset = 0
    BY DEF NoLoc
  <2> HIDE DEF l
  <2>3. EnterFile(t, op, h, l, mine)
    BY <2>1 DEF l
  <2>4. op \in Ops
    BY <2>1 DEF EnterFile
  <2> QED
    BY <2>2, <2>3, <2>4, <1>14
<1>17. CASE CloseUnlock(t)
  BY <1>17, <1>b DEF CloseUnlock
<1>18. CASE Write(t)
  BY <1>18, <1>c, <1>b, <1>r DEF Write, CopyIn
<1>19. CASE WriteAlloc(t)
  BY <1>19, <1>c, <1>b, <1>r DEF WriteAlloc, CopyIn
<1> QED
  BY <1>c, <1>2, <1>3, <1>4, <1>5, <1>6, <1>7, <1>8, <1>9, <1>10, <1>11, <1>12, <1>13, <1>15, <1>16,
     <1>17, <1>18, <1>19 DEF Call, Continue

LEMMA FailInvStep ==
  ASSUME CallersCareful, TypeOK, LockInv, LinkInv, HandleInv, FailInv,
         "read" \in Ops => FilesKept, TypeOK',
         NEW t \in Threads, Call(t) \/ Continue(t)
  PROVE  FailInv'
<1>1. HandleUse = "own"
  BY DEF CallersCareful
<1>2. CASE failed' = FALSE
  BY <1>1, <1>2, OffsetsWithinStep, LengthsWithinStep, CloseReadyStep, CallsMadeStep
     DEF FailInv, OnlyLinksFail
<1>3. CASE Crash /\ LinkOverflows(t)
  <2>1. UNCHANGED <<pc, loc, freeinode_ts, inode_table, dir, open_file_table,
                    free_open_file_entries, open_file_lock>>
    BY <1>3 DEF Crash, fileVars
  <2>2. LinkOverflows(t)'
    BY <1>3, <2>1 DEF LinkOverflows, LinkRefused, FollowedPath, tfs_lookup, find_in_dir, EntriesNamed
  <2> QED
    BY <2>1, <2>2 DEF FailInv, OnlyLinksFail, OffsetsWithin, LengthsWithin, CloseReady, CallsMade,
                      Limit, OffsetOf
<1> QED
  BY <1>2, <1>3, NoCrash

LEMMA FailInvInit == Init => FailInv
<1> SUFFICES ASSUME Init PROVE FailInv
  OBVIOUS
<1>1. \A i \in Inodes : inode_table[i].i_size <= BLOCK_SIZE
  BY SizesAssumption DEF Init, RootInode, NewInode
<1>2. OffsetsWithin
  BY <1>1 DEF Init, OffsetsWithin
<1>3. CallsMade
  BY DEF Init, CallsMade, NoLoc
<1> QED
  BY <1>2, <1>3 DEF Init, FailInv, OnlyLinksFail, LengthsWithin, CloseReady, Transferring

\* When callers pass the handles they opened, and, if they read at all, never
\* truncate a file and do not unlink what another thread may have open, the process
\* ends in no step but the two where a symbolic link overflows the heap or the stack.
THEOREM OnlyLinksFailCorrect ==
  ASSUME CallersCareful
  PROVE  Spec => []OnlyLinksFail
<1>1. Spec => []("read" \in Ops => FilesKept)
  <2>1. CASE "read" \notin Ops
    <3>1. "read" \in Ops => FilesKept
      BY <2>1
    <3> QED
      BY <3>1, PTL
  <2>2. CASE "read" \in Ops
    <3>1. Spec => []FilesKept
      BY <2>2, FilesKeptApart, FilesKeptWithoutUnlink DEF CallersCareful
    <3> QED
      BY <3>1, PTL
  <2> QED
    BY <2>1, <2>2
<1>2. /\ TypeOK /\ TypeOK' /\ LockInv /\ LinkInv /\ HandleInv /\ ("read" \in Ops => FilesKept)
      /\ FailInv /\ [Next]_vars
      => FailInv'
  <2> SUFFICES ASSUME TypeOK, TypeOK', LockInv, LinkInv, HandleInv,
                      "read" \in Ops => FilesKept, FailInv, [Next]_vars
               PROVE  FailInv'
    OBVIOUS
  <2>1. CASE UNCHANGED vars
    BY <2>1 DEF vars, fileVars, FailInv, OffsetsWithin, LengthsWithin, CloseReady, CallsMade,
                Limit, OffsetOf, OnlyLinksFail, LinkOverflows, LinkRefused, FollowedPath,
                tfs_lookup, find_in_dir, EntriesNamed
  <2>2. ASSUME NEW t \in Threads, Call(t) \/ Continue(t) PROVE FailInv'
    BY <2>2, FailInvStep
  <2> QED
    BY <2>1, <2>2 DEF Next, Ended
<1>3. FailInv => OnlyLinksFail
  BY DEF FailInv
<1> QED
  BY <1>1, <1>2, <1>3, FailInvInit, TypeCorrect, LockInvCorrect, LinkInvCorrect, HandleInvCorrect,
     PTL DEF Spec

\* Without tfs_sym_link there are no links, and no thread makes or follows one.
NoLinks == /\ \A i \in Inodes : inode_table[i].i_node_type # "symlink"
           /\ \A t \in Threads : pc[t] \notin {"sym_link", "open_follow"}

LEMMA NoLinksStep ==
  ASSUME "sym_link" \notin Ops, TypeOK, NoLinks, NEW t \in Threads, Call(t) \/ Continue(t)
  PROVE  NoLinks'
<1> USE DEF NoLinks, TypeOK, Goto, Return, At
<1>s. ~SymLink(t) /\ ~OpenFollow(t) /\ ~LinkEnter(t, "sym_link")
  BY DEF SymLink, OpenFollow, LinkEnter, EnterRoot
<1>1. pc'[t] \notin {"sym_link", "open_follow"}
  <2>1. CASE FileStep(t)
    <3>1. CASE Write(t) \/ WriteAlloc(t) \/ Read(t)
      BY <3>1, TransferFrame
    <3>2. CASE CloseEnter(t) \/ TransferEnter(t, "write") \/ TransferEnter(t, "read")
      BY <3>2 DEF CloseEnter, TransferEnter, EnterFile, Idle, Crash
    <3>3. CASE OpenAddTake(t) \/ CloseUnlock(t) \/ CloseDestroy(t)
      BY <3>3 DEF OpenAddTake, CloseUnlock, CloseDestroy, Crash
    <3> QED
      BY <2>1, <3>1, <3>2, <3>3 DEF FileStep
  <2>2. CASE OpenEnter(t) \/ LinkEnter(t, "link") \/ UnlinkEnter(t)
    BY <2>2 DEF OpenEnter, LinkEnter, UnlinkEnter, EnterRoot
  <2>3. CASE OpenRefused(t) \/ OpenNoInode(t) \/ UnlinkRefused(t)
    BY <2>3 DEF OpenRefused, OpenNoInode, UnlinkRefused, Refuse
  <2>4. CASE OpenLink(t)
    <3>1. Found(t) \in Inodes /\ IsLink(Found(t))
      BY <2>4, LookupType DEF OpenLink, Found
    <3> QED
      BY <3>1 DEF IsLink
  <2>5. CASE OpenAgain(t) \/ OpenAddNext(t) \/ OpenExisting(t) \/ OpenCreate(t)
    BY <2>5 DEF OpenAgain, OpenAddNext, OpenExisting, OpenCreate
  <2>6. CASE Link(t)
    BY <2>6 DEF Link, Refuse
  <2>7. CASE UnlinkName(t) \/ UnlinkLink(t) \/ UnlinkLast(t)
    BY <2>7 DEF UnlinkName, UnlinkLink, UnlinkLast
  <2>8. CASE UnlinkOpen(t) \/ UnlinkScan(t) \/ UnlinkDelete(t)
    BY <2>8 DEF UnlinkOpen, UnlinkScan, UnlinkDelete, Crash
  <2> QED
    BY <1>s, <2>1, <2>2, <2>3, <2>4, <2>5, <2>6, <2>7, <2>8 DEF FileStep, Call, Continue
<1>2. \A u \in Threads : pc'[u] \notin {"sym_link", "open_follow"}
  BY <1>1, OthersStep DEF Others
<1>3. ASSUME NEW i \in Inodes PROVE inode_table'[i].i_node_type # "symlink"
  <2>1. CASE ~NameStep(t)
    BY <2>1, NameFrame DEF NodesKept
  <2>2. CASE OpenCreate(t)
    <3>1. FirstFreeInode \in Inodes /\ NewInode("file").i_node_type = "file"
      BY <2>2, FirstFreeType DEF OpenCreate, NewInode
    <3>2. inode_table' = [inode_table EXCEPT ![FirstFreeInode] = NewInode("file")]
      BY <2>2 DEF OpenCreate
    <3> QED
      BY <3>1, <3>2
  <2>3. CASE Link(t) \/ UnlinkName(t)
    <3>1. UNCHANGED inode_table
          \/ \E j, n : inode_table' = [inode_table EXCEPT ![j].hard_link_counter = n]
      BY <2>3 DEF Link, UnlinkName, Refuse, inodeVars
    <3> QED
      BY <3>1 DEF InodeType
  <2>4. CASE UnlinkDelete(t)
    BY <2>4 DEF UnlinkDelete, Crash
  <2> QED
    BY <1>s, <2>1, <2>2, <2>3, <2>4 DEF NameStep
<1> QED
  BY <1>2, <1>3

\* The same callers, when they make no symbolic links: no assertion of the library
\* fails, no mutex is destroyed while held, and no copy leaves the block or the buffer.
THEOREM NoFailureCorrect ==
  ASSUME CallersCareful, "sym_link" \notin Ops
  PROVE  Spec => []NoFailure
<1>1. Init => NoLinks
  BY DEF Init, NoLinks, RootInode, NewInode
<1>2. TypeOK /\ NoLinks /\ [Next]_vars => NoLinks'
  <2> SUFFICES ASSUME TypeOK, NoLinks, [Next]_vars PROVE NoLinks'
    OBVIOUS
  <2>1. CASE UNCHANGED vars
    BY <2>1 DEF vars, NoLinks
  <2>2. ASSUME NEW t \in Threads, Call(t) \/ Continue(t) PROVE NoLinks'
    BY <2>2, NoLinksStep
  <2> QED
    BY <2>1, <2>2 DEF Next, Ended
<1>3. NoLinks /\ OnlyLinksFail => NoFailure
  BY DEF NoLinks, OnlyLinksFail, LinkOverflows, NoFailure
<1> QED
  BY <1>1, <1>2, <1>3, TypeCorrect, OnlyLinksFailCorrect, PTL DEF Spec

-----------------------------------------------------------------------------
(* The data blocks.                                                        *)

Full == {i \in Inodes \ freeinode_ts : inode_table[i].i_size > 0}

\* A writer that looks for a block has its file locked, and the file is still empty.
AllocHeld ==
  \A t \in Threads : pc[t] = "write_alloc" =>
    /\ inode_lock[FileOf(t)] = t /\ inode_table[FileOf(t)].i_size = 0
    /\ ToWrite(t) > 0

\* is_file_open is called with the file locked.
ScanHeld == \A t \in Threads : pc[t] = "unlink_scan" => inode_lock[loc[t].inum] = t

BlockInv == BlocksAccounted /\ AllocHeld /\ ScanHeld

LEMMA FullKept ==
  ASSUME BlocksAccounted, free_blocks' = free_blocks, Full' = Full,
         \A i \in Full : inode_table'[i].i_data_block = inode_table[i].i_data_block
  PROVE  BlocksAccounted'
BY DEF BlocksAccounted, Full

\* A file that is emptied or deleted gives its block back.
LEMMA FullLess ==
  ASSUME TypeOK, BlocksAccounted, NEW j \in Inodes \ freeinode_ts,
         free_blocks' = free_blocks \cup BlockOf(j), Full' = Full \ {j},
         \A i \in Full' : inode_table'[i].i_data_block = inode_table[i].i_data_block
  PROVE  BlocksAccounted'
<1>1. CASE inode_table[j].i_size > 0
  <2>1. j \in Full /\ BlockOf(j) = {inode_table[j].i_data_block}
    BY <1>1 DEF Full, BlockOf
  <2>2. /\ Blocks \ free_blocks = {inode_table[i].i_data_block : i \in Full}
        /\ \A i, k \in Full : inode_table[i].i_data_block = inode_table[k].i_data_block => i = k
    BY DEF BlocksAccounted, Full
  <2>3. Blocks \ free_blocks' = {inode_table'[i].i_data_block : i \in Full'}
    BY <2>1, <2>2
  <2>4. \A i, k \in Full' : inode_table'[i].i_data_block = inode_table'[k].i_data_block => i = k
    BY <2>2
  <2> QED
    BY <2>3, <2>4 DEF BlocksAccounted, Full
<1>2. CASE ~(inode_table[j].i_size > 0)
  <2>1. j \notin Full /\ BlockOf(j) = {}
    BY <1>2 DEF Full, BlockOf
  <2>2. Full' = Full /\ free_blocks' = free_blocks
    BY <2>1
  <2> QED
    BY <2>2, FullKept
<1> QED
  BY <1>1, <1>2

\* A file that was empty gets a free block.
LEMMA FullMore ==
  ASSUME TypeOK, BlocksAccounted, NEW j \in Inodes \ Full, NEW b \in free_blocks,
         free_blocks' = free_blocks \ {b}, Full' = Full \cup {j},
         inode_table'[j].i_data_block = b,
         \A i \in Full : inode_table'[i].i_data_block = inode_table[i].i_data_block
  PROVE  BlocksAccounted'
<1>1. /\ Blocks \ free_blocks = {inode_table[i].i_data_block : i \in Full}
      /\ \A i, k \in Full : inode_table[i].i_data_block = inode_table[k].i_data_block => i = k
  BY DEF BlocksAccounted, Full
<1>2. \A i \in Full : inode_table[i].i_data_block # b
  BY <1>1
<1>3. Blocks \ free_blocks' = {inode_table'[i].i_data_block : i \in Full'}
  <2>1. b \in Blocks
    BY DEF TypeOK
  <2> QED
    BY <1>1, <2>1
<1>4. \A i, k \in Full' : inode_table'[i].i_data_block = inode_table'[k].i_data_block => i = k
  BY <1>1, <1>2
<1> QED
  BY <1>3, <1>4 DEF BlocksAccounted, Full

\* A copy into a file that is not free and has the block gives it no other.
LEMMA CopyInBlocks ==
  ASSUME TypeOK, LockInv, OpenHandleLive, BlockInv,
         NEW t \in Threads, Write(t) \/ WriteAlloc(t)
  PROVE  BlocksAccounted'
<1> USE SizesAssumption DEF BlockInv
<1>h. /\ pc[t] \in {"write", "write_alloc"} /\ FileOf(t) \in Inodes \ freeinode_ts
      /\ loc[t].fh \in Handles
  BY HandleType, TransferFrame
     DEF Write, WriteAlloc, At, LockInv, EntryHeld, FileSection, OpenHandleLive, FileOf
<1>u. CASE UNCHANGED <<inodeVars, free_blocks>>
  BY <1>u, FullKept DEF inodeVars, Full
<1>1. ASSUME NEW b \in Blocks, NEW S, CopyIn(t, b, S), ~Crash, ToWrite(t) > 0
      PROVE  /\ freeinode_ts' = freeinode_ts /\ free_blocks' = free_blocks \ S
             /\ inode_table'[FileOf(t)].i_data_block = b /\ inode_table'[FileOf(t)].i_size > 0
             /\ \A i \in Inodes \ {FileOf(t)} : inode_table'[i] = inode_table[i]
  <2> DEFINE end == (OffsetOf(t) + ToWrite(t)) % SizeT
             size == inode_table[FileOf(t)].i_size
  <2>1. /\ freeinode_ts' = freeinode_ts /\ free_blocks' = free_blocks \ S
        /\ inode_table' = [inode_table EXCEPT ![FileOf(t)].i_data_block = b,
                                              ![FileOf(t)].i_size = IF end > size THEN end ELSE size]
        /\ ~(OffsetOf(t) + ToWrite(t) > BLOCK_SIZE)
    BY <1>1 DEF CopyIn
  <2>2. end > 0 /\ end \in Int /\ size \in Nat
    <3>1. /\ OffsetOf(t) \in Nat /\ loc[t].len \in Nat /\ BLOCK_SIZE \in Nat /\ SizeT \in Nat
          /\ SizeT > 0 /\ BLOCK_SIZE < SizeT
      BY HandleType
    <3>2. ToWrite(t) \in Int
      BY <3>1, ModRange DEF ToWrite
    <3>3. OffsetOf(t) + ToWrite(t) \in 0 .. SizeT - 1 /\ OffsetOf(t) + ToWrite(t) > 0
      BY <1>1, <2>1, <3>1, <3>2
    <3>4. size \in Nat
      BY <1>h DEF TypeOK, InodeType
    <3> QED
      BY <3>1, <3>3, <3>4, ModSmall
  <2> HIDE DEF end, size
  <2>3. PICK n : /\ inode_table' = [inode_table EXCEPT ![FileOf(t)].i_data_block = b,
                                                      ![FileOf(t)].i_size = n]
                 /\ n > 0
    <3>1. (IF end > size THEN end ELSE size) > 0
      BY <2>2
    <3> QED
      BY <2>1, <3>1
  <2> QED
    BY <1>h, <2>1, <2>3 DEF TypeOK, InodeType
<1>2. CASE Write(t)
  <2>1. ASSUME NEW b, b = inode_table[FileOf(t)].i_data_block, NEW S, S = {},
               ToWrite(t) > 0, inode_table[FileOf(t)].i_size # 0, CopyIn(t, b, S), ~Crash
        PROVE  BlocksAccounted'
    <3>1. FileOf(t) \in Full /\ b \in Blocks
      BY <1>h, <2>1 DEF Full, TypeOK, InodeType
    <3>2. /\ freeinode_ts' = freeinode_ts /\ free_blocks' = free_blocks \ S
          /\ inode_table'[FileOf(t)].i_data_block = b
          /\ inode_table'[FileOf(t)].i_size > 0
          /\ \A i \in Inodes \ {FileOf(t)} : inode_table'[i] = inode_table[i]
      BY <2>1, <3>1, <1>1
    <3>3. Full' = Full /\ free_blocks' = free_blocks
      BY <2>1, <3>1, <3>2 DEF Full
    <3>4. \A i \in Full : inode_table'[i].i_data_block = inode_table[i].i_data_block
      BY <2>1, <3>2 DEF Full
    <3> QED
      BY <3>3, <3>4, FullKept
  <2>2. CASE Crash
    BY <2>2, <1>u DEF Crash, inodeVars
  <2> QED
    BY <1>2, <1>u, <2>1, <2>2 DEF Write
<1>3. CASE WriteAlloc(t)
  <2>1. ASSUME NEW b \in free_blocks, NEW S, S = {b}, CopyIn(t, b, S), ~Crash
        PROVE  BlocksAccounted'
    <3>1. b \in Blocks /\ ToWrite(t) > 0 /\ FileOf(t) \notin Full
      BY <1>3, <2>1 DEF WriteAlloc, At, AllocHeld, TypeOK, Full
    <3>2. /\ freeinode_ts' = freeinode_ts /\ free_blocks' = free_blocks \ S
          /\ inode_table'[FileOf(t)].i_data_block = b
          /\ inode_table'[FileOf(t)].i_size > 0
          /\ \A i \in Inodes \ {FileOf(t)} : inode_table'[i] = inode_table[i]
      BY <2>1, <3>1, <1>1
    <3>3. Full' = Full \cup {FileOf(t)}
      BY <1>h, <3>2 DEF Full
    <3>4. \A i \in Full : inode_table'[i].i_data_block = inode_table[i].i_data_block
      BY <3>1, <3>2 DEF Full
    <3>5. PICK j \in Inodes \ Full : j = FileOf(t)
      BY <1>h, <3>1
    <3> QED
      BY <2>1, <3>2, <3>3, <3>4, <3>5, FullMore
  <2>2. CASE Crash
    BY <2>2, <1>u DEF Crash, inodeVars
  <2> QED
    BY <1>3, <1>u, <2>1, <2>2 DEF WriteAlloc
<1> QED
  BY <1>2, <1>3

LEMMA BlocksStep ==
  ASSUME TypeOK, LockInv, LinkInv, OpenHandleLive, BlockInv,
         NEW t \in Threads, Call(t) \/ Continue(t)
  PROVE  BlocksAccounted'
<1> USE SizesAssumption DEF BlockInv
<1>u. CASE UNCHANGED <<inodeVars, free_blocks>>
  BY <1>u, FullKept DEF inodeVars, Full
<1>k. CASE /\ freeinode_ts' = freeinode_ts /\ free_blocks' = free_blocks
           /\ \A i \in Inodes : /\ inode_table'[i].i_size = inode_table[i].i_size
                                /\ inode_table'[i].i_data_block = inode_table[i].i_data_block
  BY <1>k, FullKept DEF Full
<1>n. CASE /\ free_blocks' = free_blocks /\ freeinode_ts # {}
           /\ freeinode_ts' = freeinode_ts \/ freeinode_ts' = freeinode_ts \ {FirstFreeInode}
           /\ \E inode : /\ inode.i_size = 0
                         /\ inode_table' = [inode_table EXCEPT ![FirstFreeInode] = inode]
  <2>1. PICK j, inode :
          /\ j \in freeinode_ts /\ inode.i_size = 0
          /\ inode_table' = [inode_table EXCEPT ![j] = inode]
          /\ freeinode_ts' = freeinode_ts \/ freeinode_ts' = freeinode_ts \ {j}
    BY <1>n, FirstFreeType
  <2>2. j \in Inodes /\ j \notin Full /\ ~(inode_table'[j].i_size > 0)
    BY <2>1 DEF TypeOK, Full
  <2>3. \A i \in Inodes \ {j} : inode_table'[i] = inode_table[i]
    BY <2>1 DEF TypeOK
  <2>4. Full' = Full /\ \A i \in Full : inode_table'[i] = inode_table[i]
    BY <2>1, <2>2, <2>3 DEF Full
  <2> QED
    BY <1>n, <2>4, FullKept
<1>1. CASE OpenEnter(t) \/ LinkEnter(t, "link") \/ LinkEnter(t, "sym_link") \/ UnlinkEnter(t)
  BY <1>1, <1>u DEF OpenEnter, LinkEnter, UnlinkEnter, EnterRoot
<1>2. CASE OpenRefused(t) \/ OpenNoInode(t) \/ UnlinkRefused(t)
  BY <1>2, <1>u DEF OpenRefused, OpenNoInode, UnlinkRefused, Refuse
<1>3. CASE OpenLink(t) \/ OpenFollow(t) \/ OpenAgain(t) \/ OpenAddTake(t) \/ OpenAddNext(t)
  BY <1>3, <1>u DEF OpenLink, OpenFollow, OpenAgain, OpenAddTake, OpenAddNext, Crash, inodeVars
<1>4. CASE OpenExisting(t)
  <2>1. Found(t) \in Inodes \ freeinode_ts
    BY <1>4, FoundTaken DEF OpenExisting, Found
  <2>2. CASE "TRUNC" \notin loc[t].mode
    <3>1. inode_table' = [inode_table EXCEPT ![Found(t)].i_size = inode_table[Found(t)].i_size]
      BY <1>4, <2>2 DEF OpenExisting
    <3> QED
      BY <1>4, <2>1, <2>2, <3>1, <1>k DEF OpenExisting, TypeOK, InodeType
  <2>3. CASE "TRUNC" \in loc[t].mode
    <3>1. /\ inode_table' = [inode_table EXCEPT ![Found(t)].i_size = 0]
          /\ free_blocks' = free_blocks \cup BlockOf(Found(t))
          /\ freeinode_ts' = freeinode_ts
      BY <1>4, <2>3 DEF OpenExisting
    <3>2. /\ \A i \in Inodes \ {Found(t)} : inode_table'[i] = inode_table[i]
          /\ ~(inode_table'[Found(t)].i_size > 0)
      BY <2>1, <3>1 DEF TypeOK, InodeType
    <3>3. PICK j \in Inodes \ freeinode_ts : j = Found(t)
      BY <2>1
    <3>4. Full' = Full \ {j} /\ \A i \in Full' : inode_table'[i] = inode_table[i]
      BY <3>1, <3>2, <3>3 DEF Full
    <3> QED
      BY <3>1, <3>3, <3>4, FullLess
  <2> QED
    BY <2>2, <2>3
<1>5. CASE OpenCreate(t)
  <2>1. NewInode("file").i_size = 0
    BY DEF NewInode
  <2> QED
    BY <1>5, <2>1, <1>n DEF OpenCreate
<1>6. CASE Link(t)
  <2>1. CASE Refuse(t)
    BY <2>1, <1>u DEF Refuse
  <2>2. CASE ~Refuse(t)
    <3>1. /\ \E inum, n : inode_table' = [inode_table EXCEPT ![inum].hard_link_counter = n]
          /\ freeinode_ts' = freeinode_ts /\ free_blocks' = free_blocks
      BY <1>6, <2>2 DEF Link
    <3> QED
      BY <3>1, <1>k DEF TypeOK, InodeType
  <2> QED
    BY <2>1, <2>2
<1>7. CASE SymLink(t) /\ ~Crash
  <2>1. CASE Refuse(t)
    BY <2>1, <1>u DEF Refuse
  <2>2. CASE ~Refuse(t)
    <3> DEFINE link == [NewInode("symlink") EXCEPT !.sym_path = loc[t].target]
    <3>1. link.i_size = 0
      BY DEF NewInode
    <3>2. /\ inode_table' = [inode_table EXCEPT ![FirstFreeInode] = link]
          /\ free_blocks' = free_blocks /\ freeinode_ts # {}
          /\ freeinode_ts' = freeinode_ts \ {FirstFreeInode}
      BY <1>7, <2>2 DEF SymLink
    <3> HIDE DEF link
    <3> QED
      BY <3>1, <3>2, <1>n
  <2> QED
    BY <2>1, <2>2
<1>8. CASE UnlinkName(t)
  <2>1. /\ \E inum, n : inode_table' = [inode_table EXCEPT ![inum].hard_link_counter = n]
        /\ freeinode_ts' = freeinode_ts /\ free_blocks' = free_blocks
    BY <1>8 DEF UnlinkName
  <2> QED
    BY <2>1, <1>k DEF TypeOK, InodeType
<1>9. CASE UnlinkLink(t) \/ UnlinkLast(t) \/ UnlinkOpen(t) \/ UnlinkScan(t)
  BY <1>9, <1>u DEF UnlinkLink, UnlinkLast, UnlinkOpen, UnlinkScan
<1>10. CASE UnlinkDelete(t)
  <2>1. CASE Crash
    BY <2>1, <1>u DEF Crash, inodeVars
  <2>2. CASE ~Crash
    <3>1. PICK j \in Inodes \ freeinode_ts :
            /\ free_blocks' = free_blocks \cup BlockOf(j)
            /\ freeinode_ts' = freeinode_ts \cup {j}
            /\ inode_table' = inode_table
      BY <1>10, <2>2 DEF UnlinkDelete, TypeOK, LocType
    <3>2. Full' = Full \ {j}
      BY <3>1 DEF Full
    <3> QED
      BY <3>1, <3>2, FullLess
  <2> QED
    BY <2>1, <2>2
<1>11. CASE CloseEnter(t) \/ TransferEnter(t, "write") \/ TransferEnter(t, "read")
            \/ CloseUnlock(t) \/ CloseDestroy(t) \/ Read(t)
  BY <1>11, <1>u
     DEF CloseEnter, TransferEnter, EnterFile, CloseUnlock, CloseDestroy, Read, Crash, inodeVars
<1>12. CASE Write(t) \/ WriteAlloc(t)
  BY <1>12, CopyInBlocks
<1>c. CASE Crash
  BY <1>c, <1>u DEF Crash, inodeVars
<1> QED
  BY <1>c, <1>1, <1>2, <1>3, <1>4, <1>5, <1>6, <1>7, <1>8, <1>9, <1>10, <1>11, <1>12
     DEF Call, Continue

-----------------------------------------------------------------------------
(* The locks of the files.                                                 *)

\* A thread changes the lock of a file when it is free or the thread's own, or
\* initialises the lock of an inode that it takes from the free ones.
LEMMA InodeLockFrame ==
  ASSUME TypeOK, LockInv, BlockInv, NEW t \in Threads, Call(t) \/ Continue(t),
         NEW i \in Inodes \ {Root}, i \notin freeinode_ts, inode_lock[i] # t
  PROVE  \/ inode_lock'[i] = inode_lock[i]
         \/ inode_lock[i] = NoThread
<1> USE DEF TypeOK, UnlockRoot
<1>1. CASE OpenEnter(t) \/ LinkEnter(t, "link") \/ LinkEnter(t, "sym_link") \/ UnlinkEnter(t)
  BY <1>1 DEF OpenEnter, LinkEnter, UnlinkEnter, EnterRoot
<1>r. CASE Refuse(t)
  BY <1>r DEF Refuse
<1>2. CASE OpenRefused(t) \/ OpenNoInode(t) \/ UnlinkRefused(t)
  BY <1>2, <1>r DEF OpenRefused, OpenNoInode, UnlinkRefused
<1>3. CASE OpenLink(t) \/ OpenFollow(t) \/ OpenAgain(t) \/ OpenExisting(t)
           \/ OpenAddTake(t) \/ OpenAddNext(t)
  BY <1>3 DEF OpenLink, OpenFollow, OpenAgain, OpenExisting, OpenAddTake, OpenAddNext, Crash
<1>4. CASE OpenCreate(t)
  <2>1. /\ inode_lock' = [inode_lock EXCEPT ![FirstFreeInode] = NoThread, ![Root] = NoThread]
        /\ FirstFreeInode \in freeinode_ts
    BY <1>4, FirstFreeType DEF OpenCreate
  <2> QED
    BY <2>1
<1>5. CASE Link(t)
  BY <1>5, <1>r DEF Link
<1>6. CASE SymLink(t) /\ ~Refuse(t) /\ ~Crash
  <2>1. /\ inode_lock' = [inode_lock EXCEPT ![FirstFreeInode] = NoThread, ![Root] = NoThread]
        /\ FirstFreeInode \in freeinode_ts
    BY <1>6, FirstFreeType DEF SymLink
  <2> QED
    BY <2>1
<1>7. CASE UnlinkName(t) \/ UnlinkLink(t)
  BY <1>7 DEF UnlinkName, UnlinkLink
<1>8. CASE UnlinkLast(t)
  <2>1. inode_lock' = [inode_lock EXCEPT ![Found(t)] = t] /\ inode_lock[Found(t)] = NoThread
    BY <1>8 DEF UnlinkLast, Unlocked
  <2> QED
    BY <2>1
<1>9. CASE UnlinkOpen(t) \/ UnlinkScan(t)
  <2>1. inode_lock[loc[t].inum] = t
    BY <1>9 DEF UnlinkOpen, UnlinkScan, At, BlockInv, ScanHeld
  <2>2. i # loc[t].inum
    BY <2>1
  <2> QED
    BY <1>9, <2>2 DEF UnlinkOpen, UnlinkScan
<1>10. CASE UnlinkDelete(t)
  BY <1>10 DEF UnlinkDelete, Crash
<1>11. CASE CloseEnter(t) \/ TransferEnter(t, "write") \/ TransferEnter(t, "read")
            \/ CloseUnlock(t) \/ CloseDestroy(t) \/ Read(t)
  BY <1>11 DEF CloseEnter, TransferEnter, EnterFile, CloseUnlock, CloseDestroy, Read, Crash
<1>12. CASE Write(t)
  BY <1>12 DEF Write, CopyIn, Crash, Unlocked
<1>13. CASE WriteAlloc(t)
  <2>1. inode_lock[FileOf(t)] = t
    BY <1>13 DEF WriteAlloc, At, BlockInv, AllocHeld
  <2> QED
    BY <1>13, <2>1 DEF WriteAlloc, CopyIn, Crash
<1>c. CASE Crash
  BY <1>c DEF Crash
<1> QED
  BY <1>c, <1>1, <1>2, <1>3, <1>4, <1>5, <1>6, <1>7, <1>8, <1>9, <1>10, <1>11, <1>12, <1>13, <1>r
     DEF Call, Continue

\* The file of a thread that holds its lock stays empty.
LEMMA EmptyFrame ==
  ASSUME TypeOK, LockInv, BlockInv, NEW t \in Threads, Call(t) \/ Continue(t),
         NEW i \in Inodes \ freeinode_ts, inode_lock[i] \notin {t, NoThread},
         inode_table[i].i_size = 0
  PROVE  inode_table'[i].i_size = 0
<1> USE DEF TypeOK, InodeType
<1>u. CASE UNCHANGED inode_table
  BY <1>u
<1>1. CASE OpenEnter(t) \/ LinkEnter(t, "link") \/ LinkEnter(t, "sym_link") \/ UnlinkEnter(t)
  BY <1>1, <1>u DEF OpenEnter, LinkEnter, UnlinkEnter, EnterRoot, inodeVars
<1>r. CASE Refuse(t)
  BY <1>r, <1>u DEF Refuse, inodeVars
<1>2. CASE OpenRefused(t) \/ OpenNoInode(t) \/ UnlinkRefused(t)
  BY <1>2, <1>r DEF OpenRefused, OpenNoInode, UnlinkRefused
<1>3. CASE OpenLink(t) \/ OpenFollow(t) \/ OpenAgain(t) \/ OpenAddTake(t) \/ OpenAddNext(t)
  BY <1>3, <1>u DEF OpenLink, OpenFollow, OpenAgain, OpenAddTake, OpenAddNext, inodeVars, Crash
<1>4. CASE OpenExisting(t)
  <2>1. PICK n : /\ inode_table' = [inode_table EXCEPT ![Found(t)].i_size = n]
                 /\ inode_lock[Found(t)] = NoThread
    BY <1>4 DEF OpenExisting, Unlocked
  <2> QED
    BY <2>1
<1>5. CASE OpenCreate(t)
  <2>1. PICK inode : inode_table' = [inode_table EXCEPT ![FirstFreeInode] = inode]
    BY <1>5 DEF OpenCreate
  <2>2. FirstFreeInode \in freeinode_ts
    BY <1>5, FirstFreeType DEF OpenCreate
  <2> QED
    BY <2>1, <2>2
<1>6. CASE Link(t) /\ ~Refuse(t)
  <2>1. PICK j, n : inode_table' = [inode_table EXCEPT ![j].hard_link_counter = n]
    BY <1>6 DEF Link
  <2> QED
    BY <2>1
<1>7. CASE SymLink(t) /\ ~Refuse(t) /\ ~Crash
  <2>1. PICK inode : inode_table' = [inode_table EXCEPT ![FirstFreeInode] = inode]
    BY <1>7 DEF SymLink
  <2>2. FirstFreeInode \in freeinode_ts
    BY <1>7, FirstFreeType DEF SymLink
  <2> QED
    BY <2>1, <2>2
<1>8. CASE UnlinkName(t)
  <2>1. PICK j, n : inode_table' = [inode_table EXCEPT ![j].hard_link_counter = n]
    BY <1>8 DEF UnlinkName
  <2> QED
    BY <2>1
<1>9. CASE UnlinkLink(t) \/ UnlinkLast(t) \/ UnlinkOpen(t) \/ UnlinkScan(t) \/ UnlinkDelete(t)
  BY <1>9, <1>u
     DEF UnlinkLink, UnlinkLast, UnlinkOpen, UnlinkScan, UnlinkDelete, Crash, inodeVars
<1>11. CASE CloseEnter(t) \/ TransferEnter(t, "write") \/ TransferEnter(t, "read")
            \/ CloseUnlock(t) \/ CloseDestroy(t) \/ Read(t)
  BY <1>11, <1>u
     DEF CloseEnter, TransferEnter, EnterFile, CloseUnlock, CloseDestroy, Read, Crash, inodeVars
<1>12. ASSUME NEW block, NEW S, CopyIn(t, block, S), inode_lock[FileOf(t)] \in {t, NoThread}
       PROVE  inode_table'[i].i_size = 0
  <2>1. CASE ~Crash
    <3>1. PICK n : inode_table' = [inode_table EXCEPT ![FileOf(t)].i_data_block = block,
                                                     ![FileOf(t)].i_size = n]
      BY <1>12, <2>1 DEF CopyIn
    <3> QED
      BY <1>12, <3>1
  <2> QED
    BY <2>1, <1>u DEF Crash
<1>13. CASE Write(t)
  BY <1>13, <1>12, <1>u DEF Write, Unlocked, inodeVars
<1>14. CASE WriteAlloc(t)
  <2>1. inode_lock[FileOf(t)] = t
    BY <1>14 DEF WriteAlloc, At, BlockInv, AllocHeld
  <2> QED
    BY <1>14, <2>1, <1>12, <1>u DEF WriteAlloc, inodeVars
<1>c. CASE Crash
  BY <1>c, <1>u DEF Crash, inodeVars
<1> QED
  BY <1>c, <1>1, <1>2, <1>3, <1>4, <1>5, <1>6, <1>7, <1>8, <1>9, <1>11, <1>13, <1>14, <1>r
     DEF Call, Continue

LEMMA AllocHeldStep ==
  ASSUME TypeOK, LockInv, OpenHandleLive, BlockInv, NEW t \in Threads, Call(t) \/ Continue(t)
  PROVE  AllocHeld'
<1> SUFFICES ASSUME NEW u \in Threads, pc'[u] = "write_alloc"
             PROVE  /\ inode_lock'[FileOf(u)'] = u /\ inode_table'[FileOf(u)'].i_size = 0
                    /\ ToWrite(u)' > 0
  BY DEF AllocHeld
<1> USE DEF BlockInv
<1>1. CASE u = t
  <2>1. CASE ~FileStep(t)
    BY <1>1, <2>1, FileFrame DEF OutsideFiles, FileSection
  <2>2. CASE OpenAddTake(t) \/ CloseUnlock(t)
    BY <1>1, <2>2 DEF OpenAddTake, CloseUnlock, Return, Goto, TypeOK
  <2>3. CASE CloseEnter(t) \/ TransferEnter(t, "write") \/ TransferEnter(t, "read")
    BY <1>1, <2>3 DEF CloseEnter, TransferEnter, EnterFile, Goto, TypeOK, Idle, Crash
  <2>4. CASE CloseDestroy(t)
    BY <1>1, <2>4 DEF CloseDestroy, Return, Goto, TypeOK, At, Crash
  <2>5. CASE Read(t)
    BY <1>1, <2>5 DEF Read, Return, Goto, TypeOK, At, Crash
  <2>6. CASE Write(t)
    <3>1. pc[t] = "write" /\ pc'[t] # "idle" /\ ~Crash
      BY <1>1, <2>6 DEF Write, At, Crash
    <3>2. /\ ToWrite(t) > 0 /\ inode_table[FileOf(t)].i_size = 0
          /\ inode_lock' = [inode_lock EXCEPT ![FileOf(t)] = t]
          /\ UNCHANGED <<inodeVars, fileVars, loc>>
      BY <2>6, <3>1 DEF Write, CopyIn, Return, Goto, TypeOK
    <3>3. FileOf(t)' = FileOf(t) /\ ToWrite(t)' = ToWrite(t)
      BY <3>2 DEF FileOf, ToWrite, OffsetOf, fileVars
    <3> QED
      BY <1>1, <3>2, <3>3, HandleType DEF TypeOK, inodeVars
  <2>7. CASE WriteAlloc(t)
    <3>1. pc[t] = "write_alloc" /\ pc'[t] # "idle"
      BY <1>1, <2>7 DEF WriteAlloc, At
    <3>2. CASE Crash
      BY <1>1, <3>1, <3>2 DEF Crash, AllocHeld, FileOf, ToWrite, OffsetOf, fileVars
    <3>3. CASE ~Crash
      <4>1. /\ loc' = [loc EXCEPT ![t].i = @ + 1]
            /\ UNCHANGED <<inodeVars, inode_lock, fileVars>>
        BY <2>7, <3>1, <3>3 DEF WriteAlloc, CopyIn, Return, Goto, TypeOK
      <4>2. loc'[t].fh = loc[t].fh /\ loc'[t].len = loc[t].len
        BY <4>1 DEF TypeOK, LocType
      <4>3. FileOf(t)' = FileOf(t) /\ ToWrite(t)' = ToWrite(t)
        BY <4>1, <4>2 DEF FileOf, ToWrite, OffsetOf, fileVars
      <4> QED
        BY <1>1, <3>1, <4>1, <4>3 DEF AllocHeld, inodeVars
    <3> QED
      BY <3>2, <3>3
  <2> QED
    BY <2>1, <2>2, <2>3, <2>4, <2>5, <2>6, <2>7 DEF FileStep
<1>2. CASE u # t
  <2>1. pc[u] = "write_alloc" /\ loc'[u] = loc[u]
    BY <1>2, OthersStep DEF Others
  <2>2. open_file_table'[loc[u].fh] = open_file_table[loc[u].fh]
    BY <1>2, <2>1, EntryAlone DEF FileSection
  <2>3. FileOf(u)' = FileOf(u) /\ ToWrite(u)' = ToWrite(u)
    BY <2>1, <2>2 DEF FileOf, ToWrite, OffsetOf
  <2>4. PICK i \in Inodes \ {Root} : i = FileOf(u)
    BY <2>1, HandleType, NotRoot DEF FileSection
  <2>5. i \notin freeinode_ts
    BY <2>1, <2>4, HandleType DEF OpenHandleLive, LockInv, EntryHeld, FileSection, FileOf
  <2>6. inode_lock[i] = u /\ inode_table[i].i_size = 0 /\ ToWrite(u) > 0
    BY <2>1, <2>4 DEF AllocHeld
  <2>7. inode_lock'[i] = u
    BY <1>2, <2>5, <2>6, InodeLockFrame, ThreadsAssumption
  <2>8. inode_table'[i].i_size = 0
    BY <1>2, <2>5, <2>6, EmptyFrame, ThreadsAssumption
  <2> QED
    BY <2>3, <2>4, <2>6, <2>7, <2>8
<1> QED
  BY <1>1, <1>2

LEMMA ScanHeldStep ==
  ASSUME TypeOK, LockInv, LinkInv, BlockInv, NEW t \in Threads, Call(t) \/ Continue(t)
  PROVE  ScanHeld'
<1> SUFFICES ASSUME NEW u \in Threads, pc'[u] = "unlink_scan"
             PROVE  inode_lock'[loc'[u].inum] = u
  BY DEF ScanHeld
<1> USE DEF BlockInv
<1>1. CASE u = t
  <2> USE DEF TypeOK, Goto, Return, At
  <2>r. pc'[t] = "unlink_scan"
    BY <1>1
  <2>1. CASE FileStep(t)
    <3>1. CASE Write(t) \/ WriteAlloc(t) \/ Read(t)
      BY <2>r, <3>1, TransferFrame
    <3>2. CASE CloseEnter(t) \/ TransferEnter(t, "write") \/ TransferEnter(t, "read")
      BY <2>r, <3>2 DEF CloseEnter, TransferEnter, EnterFile, Idle, Crash
    <3>3. CASE OpenAddTake(t) \/ CloseUnlock(t) \/ CloseDestroy(t)
      BY <2>r, <3>3 DEF OpenAddTake, CloseUnlock, CloseDestroy, Crash
    <3> QED
      BY <2>1, <3>1, <3>2, <3>3 DEF FileStep
  <2>2. CASE OpenEnter(t) \/ LinkEnter(t, "link") \/ LinkEnter(t, "sym_link") \/ UnlinkEnter(t)
    BY <2>r, <2>2 DEF OpenEnter, LinkEnter, UnlinkEnter, EnterRoot
  <2>3. CASE OpenRefused(t) \/ OpenNoInode(t) \/ UnlinkRefused(t)
    BY <2>r, <2>3 DEF OpenRefused, OpenNoInode, UnlinkRefused, Refuse
  <2>4. CASE OpenLink(t) \/ OpenFollow(t) \/ OpenAgain(t) \/ OpenAddNext(t)
    BY <2>r, <2>4 DEF OpenLink, OpenFollow, OpenAgain, OpenAddNext, Crash
  <2>5. CASE OpenExisting(t) \/ OpenCreate(t)
    BY <2>r, <2>5 DEF OpenExisting, OpenCreate
  <2>6. CASE Link(t) \/ SymLink(t)
    BY <2>r, <2>6 DEF Link, SymLink, Refuse, Crash
  <2>7. CASE UnlinkName(t) \/ UnlinkLink(t) \/ UnlinkOpen(t) \/ UnlinkDelete(t)
    BY <2>r, <2>7 DEF UnlinkName, UnlinkLink, UnlinkOpen, UnlinkDelete, Crash
  <2>8. CASE UnlinkLast(t)
    <3>1. /\ inode_lock' = [inode_lock EXCEPT ![Found(t)] = t]
          /\ loc' = [loc EXCEPT ![t].inum = Found(t)] /\ Found(t) # -1
      BY <2>8 DEF UnlinkLast
    <3>2. Found(t) \in Inodes /\ loc'[t].inum = Found(t)
      BY <3>1, LookupType DEF Found, LocType
    <3> QED
      BY <1>1, <3>1, <3>2
  <2>9. CASE UnlinkScan(t)
    <3>1. /\ pc[t] = "unlink_scan" /\ UNCHANGED inode_lock
          /\ UNCHANGED loc \/ \E n : loc' = [loc EXCEPT ![t].i = n]
      BY <2>r, <2>9 DEF UnlinkScan
    <3>2. loc'[t].inum = loc[t].inum
      BY <3>1 DEF LocType
    <3> QED
      BY <1>1, <3>1, <3>2 DEF ScanHeld
  <2> QED
    BY <2>1, <2>2, <2>3, <2>4, <2>5, <2>6, <2>7, <2>8, <2>9 DEF FileStep, Call, Continue
<1>2. CASE u # t
  <2>1. pc[u] = "unlink_scan" /\ loc'[u] = loc[u]
    BY <1>2, OthersStep DEF Others
  <2>2. PICK i \in Inodes \ {Root} : i = loc[u].inum
    BY <2>1 DEF LockInv, RootKept, TypeOK, LocType
  <2>3. i \notin freeinode_ts /\ inode_lock[i] = u
    BY <2>1, <2>2 DEF LinkInv, UnlinkPinned, ScanHeld
  <2>4. inode_lock'[i] = u
    BY <1>2, <2>3, InodeLockFrame, ThreadsAssumption
  <2> QED
    BY <2>1, <2>2, <2>4
<1> QED
  BY <1>1, <1>2

LEMMA BlockInvInit == Init => BlockInv
<1> SUFFICES ASSUME Init PROVE BlockInv
  OBVIOUS
<1>1. Full = {Root} /\ inode_table[Root].i_data_block = 0
  <2>1. inode_table[Root] = RootInode /\ Root \in Inodes /\ Root \notin freeinode_ts
    BY RootInInodes DEF Init
  <2>2. RootInode.i_size > 0 /\ RootInode.i_data_block = 0
    BY SizesAssumption DEF RootInode, NewInode
  <2>3. Inodes \ freeinode_ts = {Root}
    BY RootInInodes DEF Init
  <2> QED
    BY <2>1, <2>2, <2>3 DEF Full
<1>2. Blocks \ free_blocks = {0}
  BY RootInInodes DEF Init
<1>3. BlocksAccounted
  BY <1>1, <1>2 DEF BlocksAccounted, Full
<1> QED
  BY <1>3 DEF Init, BlockInv, AllocHeld, ScanHeld

\* As long as no open file is deleted, no block is lost and none is given to two
\* files: the library's three ways of taking and giving back blocks agree, however the
\* writers that look for one interleave.
THEOREM BlocksWhileFilesKept == Spec /\ []OpenHandleLive => []BlocksAccounted
<1>1. TypeOK /\ LockInv /\ LinkInv /\ OpenHandleLive /\ BlockInv /\ [Next]_vars => BlockInv'
  <2> SUFFICES ASSUME TypeOK, LockInv, LinkInv, OpenHandleLive, BlockInv, [Next]_vars
               PROVE  BlockInv'
    OBVIOUS
  <2>1. CASE UNCHANGED vars
    BY <2>1 DEF vars, fileVars, BlockInv, BlocksAccounted, AllocHeld, ScanHeld, FileOf, ToWrite,
                OffsetOf
  <2>2. ASSUME NEW t \in Threads, Call(t) \/ Continue(t) PROVE BlockInv'
    BY <2>2, BlocksStep, AllocHeldStep, ScanHeldStep DEF BlockInv
  <2> QED
    BY <2>1, <2>2 DEF Next, Ended
<1>2. BlockInv => BlocksAccounted
  BY DEF BlockInv
<1> QED
  BY <1>1, <1>2, BlockInvInit, TypeCorrect, LockInvCorrect, LinkInvCorrect, PTL DEF Spec

\* Blocks are accounted for when tfs_unlink is not called or no two threads name the
\* same path, whichever handles the callers pass.
THEOREM BlocksAccountedCorrect ==
  ASSUME PathsApart \/ "unlink" \notin Ops
  PROVE  Spec => []BlocksAccounted
BY OpenHandleLiveCorrect, BlocksWhileFilesKept, PTL
=============================================================================
