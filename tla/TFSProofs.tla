----------------------------- MODULE TFSProofs -----------------------------
(* Proofs about TFS, for every value of its constants and every workload:  *)
(* types, locks, the link counts and the deletion of the last link.        *)
EXTENDS TFS, TLAPS, WellFoundedInduction, FiniteSetTheorems

\* A scan from 0 upwards finds the least index of a nonempty set.
LEMMA MinInSet ==
  ASSUME NEW S \in SUBSET Nat, S # {}
  PROVE  Min(S) \in S
<1> DEFINE T == {0 .. m : m \in S}
           R == StrictSubsetOrdering(Nat)
<1>1. T \subseteq FiniteSubsetsOf(Nat)
  <2>1. \A m \in S : IsFiniteSet(0 .. m) /\ 0 .. m \subseteq Nat
    BY FS_Interval
  <2> QED
    BY <2>1 DEF FiniteSubsetsOf
<1>2. PICK X \in T : \A Y \in T : ~ (<<Y, X>> \in R)
  <2> HIDE DEF T, R
  <2>1. T # {}
    BY DEF T
  <2>2. IsWellFoundedOn(R, FiniteSubsetsOf(Nat))
    BY FS_StrictSubsetOrderingWellFounded DEF R
  <2> QED
    BY <1>1, <2>1, <2>2, WFMin
<1>3. PICK x \in S : X = 0 .. x
  OBVIOUS
<1>4. \A y \in S : x =< y
  <2> SUFFICES ASSUME NEW y \in S, y < x PROVE FALSE
    OBVIOUS
  <2>1. 0 .. y \subseteq 0 .. x /\ 0 .. y # 0 .. x
    <3>1. x \in 0 .. x /\ x \notin 0 .. y
      OBVIOUS
    <3> QED
      BY <3>1
  <2>2. <<0 .. y, 0 .. x>> \in R
    BY <2>1 DEF StrictSubsetOrdering
  <2> QED
    BY <1>2, <1>3, <2>2
<1> QED
  BY <1>4 DEF Min

LEMMA ModRange ==
  ASSUME NEW x \in Int, NEW n \in Nat, n > 0
  PROVE  x % n \in 0 .. n - 1
OBVIOUS

-----------------------------------------------------------------------------
(* Type correctness.                                                       *)

LEMMA RootInInodes == Root \in Inodes /\ 0 \in Handles /\ 0 \in Blocks
BY SizesAssumption DEF Root, Inodes, Handles, Blocks

LEMMA FirstFreeType ==
  ASSUME TypeOK, freeinode_ts # {}
  PROVE  FirstFreeInode \in freeinode_ts /\ FirstFreeInode \in Inodes
<1>1. freeinode_ts \in SUBSET Nat
  BY SizesAssumption DEF TypeOK, Inodes
<1> QED
  BY <1>1, MinInSet DEF FirstFreeInode, TypeOK

LEMMA SlotMin ==
  ASSUME NEW S \in SUBSET Slots, S # {}
  PROVE  Min(S) \in S /\ Min(S) \in Slots
<1>1. S \in SUBSET Nat
  BY SizesAssumption DEF Slots
<1> QED
  BY <1>1, MinInSet

LEMMA LookupType ==
  ASSUME TypeOK, NEW p
  PROVE  tfs_lookup(p) \in Inodes \cup {-1}
<1>1. CASE valid_pathname(p) /\ EntriesNamed(p) # {}
  <2>1. Min(EntriesNamed(p)) \in Slots
    BY <1>1, SlotMin DEF EntriesNamed
  <2> QED
    BY <1>1, <2>1 DEF TypeOK, tfs_lookup, find_in_dir
<1>2. CASE ~ (valid_pathname(p) /\ EntriesNamed(p) # {})
  BY <1>2 DEF tfs_lookup, find_in_dir
<1> QED
  BY <1>1, <1>2

DirType == [Slots -> [d_name : Names \cup {NoPath}, d_inumber : Inodes \cup {-1}]]

LEMMA AddEntryType ==
  ASSUME TypeOK, NEW p, NEW inum \in Inodes
  PROVE  add_dir_entry(p, inum) \in DirType
<1>1. CASE EntryFits(p)
  <2>1. Min(EmptySlots) \in Slots
    BY <1>1, SlotMin DEF EmptySlots, EntryFits
  <2> QED
    BY <1>1, <2>1 DEF TypeOK, DirType, add_dir_entry, EntryFits
<1>2. CASE ~EntryFits(p)
  BY <1>2 DEF TypeOK, DirType, add_dir_entry
<1> QED
  BY <1>1, <1>2

LEMMA ClearEntryType ==
  ASSUME TypeOK, NEW p, SlotsNamed(p) # {}
  PROVE  clear_dir_entry(p) \in DirType
<1>1. Min(SlotsNamed(p)) \in Slots
  BY SlotMin DEF SlotsNamed
<1> QED
  BY <1>1 DEF TypeOK, DirType, clear_dir_entry, EmptyEntry

LEMMA InitType == Init => TypeOK
<1> SUFFICES ASSUME Init PROVE TypeOK
  OBVIOUS
<1> USE RootInInodes, SizesAssumption
<1>1. /\ NoLoc \in LocType
      /\ NewInode("file") \in InodeType
      /\ RootInode \in InodeType
  <2>1. NoLoc \in LocType
    BY DEF NoLoc, LocType, Root
  <2>2. NewInode("file") \in InodeType
    BY DEF NewInode, InodeType
  <2>3. RootInode \in InodeType
    <3>1. NewInode("directory") \in InodeType
      BY DEF NewInode, InodeType
    <3>2. BLOCK_SIZE \in 0 .. SizeT - 1
      OBVIOUS
    <3> QED
      BY <3>1, <3>2 DEF RootInode, InodeType, Root
  <2> QED
    BY <2>1, <2>2, <2>3
<1>2. inode_table \in [Inodes -> InodeType]
  BY <1>1 DEF Init
<1>3. \A i \in Inodes : inode_table[i].i_size > 0 => inode_table[i].i_data_block \in Blocks
  BY DEF Init, NewInode, RootInode
<1>4. dir \in DirType
  BY DEF Init, DirType, EmptyEntry
<1>5. open_file_table \in [Handles -> [of_inumber : Inodes, of_offset : 0 .. SizeT - 1]]
  BY DEF Init, Root
<1>6. pc \in [Threads -> Labels] /\ loc \in [Threads -> LocType]
  BY <1>1 DEF Init, Labels
<1> QED
  BY <1>2, <1>3, <1>4, <1>5, <1>6 DEF Init, TypeOK, DirType

LEMMA EnterRootType ==
  ASSUME TypeOK, NEW t \in Threads, NEW op \in RootSection, NEW l \in LocType,
         EnterRoot(t, op, l)
  PROVE  TypeOK'
BY DEF TypeOK, EnterRoot, Goto, Labels, inodeVars, fileVars

LEMMA RefuseType ==
  ASSUME TypeOK, NEW t \in Threads, Refuse(t)
  PROVE  TypeOK'
<1>1. NoLoc \in LocType
  BY RootInInodes, SizesAssumption DEF NoLoc, LocType, Root
<1> QED
  BY <1>1 DEF TypeOK, Refuse, UnlockRoot, Return, Goto, Labels, inodeVars, fileVars

LEMMA CrashType ==
  ASSUME TypeOK, Crash
  PROVE  TypeOK'
BY DEF TypeOK, Crash, fileVars

LEMMA NoLocType == NoLoc \in LocType
BY RootInInodes, SizesAssumption DEF NoLoc, LocType, Root

LEMMA LocUpdate ==
  ASSUME NEW l \in LocType
  PROVE  /\ \A inum \in Inodes : [l EXCEPT !.inum = inum] \in LocType
         /\ \A n \in Nat : [l EXCEPT !.i = n] \in LocType
         /\ l.i + 1 \in Nat
         /\ \A p \in Paths \cup {NoPath} : [l EXCEPT !.path = p] \in LocType
         /\ \A inum \in Inodes, offset \in 0 .. SizeT - 1 :
              [l EXCEPT !.inum = inum, !.offset = offset] \in LocType
<1>1. \A inum \in Inodes : [l EXCEPT !.inum = inum] \in LocType
  BY DEF LocType
<1>2. \A n \in Nat : [l EXCEPT !.i = n] \in LocType
  BY DEF LocType
<1>3. l.i + 1 \in Nat
  BY DEF LocType
<1>4. \A p \in Paths \cup {NoPath} : [l EXCEPT !.path = p] \in LocType
  BY DEF LocType
<1>5. ASSUME NEW inum \in Inodes, NEW offset \in 0 .. SizeT - 1
      PROVE  [l EXCEPT !.inum = inum, !.offset = offset] \in LocType
  BY DEF LocType
<1> QED
  BY <1>1, <1>2, <1>3, <1>4, <1>5

LEMMA InodeUpdate ==
  ASSUME NEW i \in InodeType
  PROVE  /\ \A n \in 0 .. SizeT - 1 : [i EXCEPT !.i_size = n] \in InodeType
         /\ \A n \in Int : [i EXCEPT !.hard_link_counter = n] \in InodeType
         /\ i.hard_link_counter + 1 \in Int /\ i.hard_link_counter - 1 \in Int
         /\ \A n \in 0 .. SizeT - 1, b \in Blocks :
              [i EXCEPT !.i_data_block = b, !.i_size = n] \in InodeType
<1>1. \A n \in 0 .. SizeT - 1 : [i EXCEPT !.i_size = n] \in InodeType
  BY DEF InodeType
<1>2. \A n \in Int : [i EXCEPT !.hard_link_counter = n] \in InodeType
  BY DEF InodeType
<1>3. i.hard_link_counter + 1 \in Int /\ i.hard_link_counter - 1 \in Int
  BY DEF InodeType
<1>4. ASSUME NEW n \in 0 .. SizeT - 1, NEW b \in Blocks
      PROVE  [i EXCEPT !.i_data_block = b, !.i_size = n] \in InodeType
  BY DEF InodeType
<1> QED
  BY <1>1, <1>2, <1>3, <1>4

LEMMA OpenType ==
  ASSUME TypeOK, NEW t \in Threads,
         \/ OpenEnter(t) \/ OpenRefused(t) \/ OpenLink(t) \/ OpenFollow(t)
         \/ OpenAgain(t) \/ OpenExisting(t) \/ OpenCreate(t) \/ OpenNoInode(t)
         \/ OpenAddTake(t) \/ OpenAddNext(t)
  PROVE  TypeOK'
<1> USE NoLocType, RootInInodes
<1> DEFINE Found_t == Found(t)
<1>a. Found_t \in Inodes \cup {-1}
  BY LookupType DEF Found
<1>1. CASE OpenEnter(t)
  <2>1. PICK p \in PathsOf[t], mode \in Modes :
          EnterRoot(t, "open", [NoLoc EXCEPT !.path = p, !.mode = mode])
    BY <1>1 DEF OpenEnter
  <2>2. [NoLoc EXCEPT !.path = p, !.mode = mode] \in LocType
    BY WorkloadAssumption DEF LocType
  <2> QED
    BY <2>1, <2>2, EnterRootType DEF RootSection
<1>2. CASE OpenRefused(t)
  BY <1>2, RefuseType DEF OpenRefused
<1>3. CASE OpenLink(t)
  <2>1. Found_t \in Inodes
    BY <1>a, <1>3 DEF OpenLink
  <2> HIDE DEF Found_t
  <2> QED
    BY <1>3, <2>1 DEF TypeOK, OpenLink, UnlockRoot, Goto, Labels, LocType, inodeVars, fileVars, Found_t
<1>4. CASE OpenFollow(t) /\ ~Crash
  <2>1. loc' \in [Threads -> LocType] /\ pc' \in [Threads -> Labels]
    <3> DEFINE sp == FollowedPath(t)
               deeper == IF loc[t].depth < StackDepth THEN loc[t].depth + 1 ELSE loc[t].depth
    <3>1. CASE valid_pathname(sp)
      <4>1. sp \in Paths \cup {NoPath}
        BY <3>1 DEF valid_pathname, Paths
      <4>2. /\ pc' = [pc EXCEPT ![t] = "open_again"]
            /\ loc' = [loc EXCEPT ![t].path = sp, ![t].depth = deeper]
        BY <1>4, <3>1 DEF OpenFollow, Goto
      <4>3. deeper \in 0 .. StackDepth
        BY SizesAssumption DEF TypeOK, LocType
      <4> HIDE DEF sp, deeper
      <4> QED
        BY <4>1, <4>2, <4>3 DEF TypeOK, Labels, LocType
    <3>2. CASE ~valid_pathname(sp)
      <4>1. Return(t)
        BY <1>4, <3>2 DEF OpenFollow
      <4> QED
        BY <4>1 DEF TypeOK, Return, Goto, Labels
    <3> QED
      BY <3>1, <3>2
  <2> QED
    BY <1>4, <2>1 DEF TypeOK, OpenFollow, inodeVars, fileVars
<1>5. CASE OpenAgain(t)
  BY <1>5 DEF TypeOK, OpenAgain, Goto, Labels, RootSection, inodeVars, fileVars
<1>6. CASE OpenExisting(t)
  <2>1. Found_t \in Inodes
    BY <1>a, <1>6 DEF OpenExisting
  <2>2. BlockOf(Found_t) \subseteq Blocks
    BY <2>1 DEF BlockOf, TypeOK
  <2>3. inode_table[Found_t].i_size \in 0 .. SizeT - 1 /\ 0 \in 0 .. SizeT - 1
    BY <2>1, SizesAssumption DEF TypeOK, InodeType
  <2> HIDE DEF Found_t
  <2>4. /\ inode_table' \in [Inodes -> InodeType]
        /\ \A i \in Inodes : inode_table'[i].i_size > 0 => inode_table'[i].i_data_block \in Blocks
    <3>1. PICK size \in {0, inode_table[Found_t].i_size} :
            inode_table' = [inode_table EXCEPT ![Found_t].i_size = size]
      BY <1>6 DEF OpenExisting, Found_t
    <3>2. size \in 0 .. SizeT - 1 /\ (size > 0 => inode_table[Found_t].i_size > 0)
      BY <2>3
    <3>3. inode_table' \in [Inodes -> InodeType]
      <4>1. [inode_table[Found_t] EXCEPT !.i_size = size] \in InodeType
        BY <2>1, <3>2, InodeUpdate DEF TypeOK
      <4> QED
        BY <2>1, <3>1, <4>1 DEF TypeOK
    <3>4. ASSUME NEW i \in Inodes, inode_table'[i].i_size > 0
          PROVE  inode_table'[i].i_data_block \in Blocks
      <4>1. CASE i = Found_t
        <5>1. inode_table'[i].i_size = size /\ inode_table'[i].i_data_block = inode_table[i].i_data_block
          BY <2>1, <3>1, <4>1 DEF TypeOK, InodeType
        <5> QED
          BY <3>2, <3>4, <4>1, <5>1 DEF TypeOK
      <4>2. CASE i # Found_t
        <5>1. inode_table'[i] = inode_table[i]
          BY <3>1, <4>2 DEF TypeOK
        <5> QED
          BY <3>4, <5>1 DEF TypeOK
      <4> QED
        BY <4>1, <4>2
    <3> QED
      BY <3>3, <3>4
  <2>5. free_blocks' \subseteq Blocks
    BY <1>6, <2>2 DEF OpenExisting, TypeOK, Found_t
  <2>6. loc' \in [Threads -> LocType]
    <3>1. PICK o \in 0 .. SizeT - 1 :
            loc' = [loc EXCEPT ![t].inum = Found_t, ![t].offset = o]
      BY <1>6, <2>3 DEF OpenExisting, Found_t
    <3>2. [loc[t] EXCEPT !.inum = Found_t, !.offset = o] \in LocType
      BY <2>1 DEF TypeOK, LocType
    <3> QED
      BY <3>1, <3>2 DEF TypeOK
  <2>7. pc' \in [Threads -> Labels]
    BY <1>6 DEF OpenExisting, TypeOK, Goto, Labels
  <2> QED
    BY <1>6, <2>4, <2>5, <2>6, <2>7 DEF TypeOK, OpenExisting, UnlockRoot, fileVars
<1>7. CASE OpenCreate(t)
  <2> DEFINE inum == FirstFreeInode
  <2>1. inum \in Inodes
    BY <1>7, FirstFreeType DEF OpenCreate
  <2>2. NewInode("file") \in InodeType /\ ~ (NewInode("file").i_size > 0)
    BY SizesAssumption DEF NewInode, InodeType
  <2> HIDE DEF inum
  <2>3. /\ inode_table' \in [Inodes -> InodeType]
        /\ \A i \in Inodes : inode_table'[i].i_size > 0 => inode_table'[i].i_data_block \in Blocks
    <3>1. inode_table' = [inode_table EXCEPT ![inum] = NewInode("file")]
      BY <1>7 DEF OpenCreate, inum
    <3> HIDE DEF NewInode
    <3> QED
      BY <2>1, <2>2, <3>1 DEF TypeOK
  <2>4. dir' \in DirType
    BY <1>7, <2>1, AddEntryType DEF OpenCreate, inum
  <2>5. loc' \in [Threads -> LocType] /\ pc' \in [Threads -> Labels]
    <3>1. [loc[t] EXCEPT !.inum = inum] \in LocType
      BY <2>1, LocUpdate DEF TypeOK
    <3>2. \/ loc' = [loc EXCEPT ![t].inum = inum] /\ pc' = [pc EXCEPT ![t] = "open_add"]
          \/ Return(t)
      BY <1>7 DEF OpenCreate, Goto, inum
    <3> QED
      BY <3>1, <3>2 DEF TypeOK, Return, Goto, Labels
  <2>6. freeinode_ts' \subseteq Inodes /\ inode_lock' \in [Inodes -> Threads \cup {NoThread}]
    BY <1>7, <2>1 DEF OpenCreate, TypeOK, inum
  <2> QED
    BY <1>7, <2>3, <2>4, <2>5, <2>6 DEF TypeOK, DirType, OpenCreate, fileVars
<1>8. CASE OpenNoInode(t)
  BY <1>8, RefuseType DEF OpenNoInode
<1>9. CASE OpenAddTake(t)
  <2>1. loc[t].i \in Handles /\ loc[t].inum \in Inodes /\ loc[t].offset \in 0 .. SizeT - 1
    BY <1>9 DEF OpenAddTake, TypeOK, LocType
  <2>2. /\ open_file_table' \in [Handles -> [of_inumber : Inodes, of_offset : 0 .. SizeT - 1]]
        /\ open_file_lock' \in [Handles -> Threads \cup {NoThread, NoMutex}]
        /\ free_open_file_entries' \subseteq Handles
        /\ mine' \in [Threads -> SUBSET Handles]
    BY <1>9, <2>1 DEF OpenAddTake, TypeOK
  <2> QED
    BY <1>9, <2>2 DEF TypeOK, OpenAddTake, Return, Goto, Labels, inodeVars
<1>10. CASE OpenAddNext(t)
  <2>1. loc' \in [Threads -> LocType] /\ pc' \in [Threads -> Labels]
    <3>1. CASE loc[t].i + 1 < MAX_OPEN_FILES
      <4>1. [loc[t] EXCEPT !.i = loc[t].i + 1] \in LocType
        BY LocUpdate DEF TypeOK
      <4> QED
        BY <1>10, <3>1, <4>1 DEF OpenAddNext, TypeOK
    <3>2. CASE ~ (loc[t].i + 1 < MAX_OPEN_FILES)
      <4>1. Return(t)
        BY <1>10, <3>2 DEF OpenAddNext
      <4> QED
        BY <4>1 DEF TypeOK, Return, Goto, Labels
    <3> QED
      BY <3>1, <3>2
  <2> QED
    BY <1>10, <2>1 DEF TypeOK, OpenAddNext, inodeVars, fileVars
<1> QED
  BY <1>1, <1>2, <1>3, <1>4, <1>5, <1>6, <1>7, <1>8, <1>9, <1>10, CrashType

LEMMA LinkType ==
  ASSUME TypeOK, NEW t \in Threads,
         LinkEnter(t, "link") \/ LinkEnter(t, "sym_link") \/ Link(t) \/ SymLink(t)
  PROVE  TypeOK'
<1>1. ASSUME NEW op \in {"link", "sym_link"}, LinkEnter(t, op)
      PROVE  TypeOK'
  <2>1. PICK target \in PathsOf[t], p \in PathsOf[t] :
          EnterRoot(t, op, [NoLoc EXCEPT !.path = p, !.target = target])
    BY <1>1 DEF LinkEnter
  <2>2. [NoLoc EXCEPT !.path = p, !.target = target] \in LocType
    BY WorkloadAssumption, NoLocType DEF LocType
  <2> QED
    BY <2>1, <2>2, EnterRootType DEF RootSection
<1>2. CASE Link(t) /\ ~Refuse(t)
  <2> DEFINE inum == tfs_lookup(loc[t].target)
  <2>1. /\ ~LinkRefused(t)
        /\ dir' = add_dir_entry(loc[t].path, inum)
        /\ inode_table' = [inode_table EXCEPT ![inum].hard_link_counter = @ + 1]
        /\ UnlockRoot /\ Return(t)
        /\ UNCHANGED <<freeinode_ts, free_blocks, fileVars, failed>>
    BY <1>2 DEF Link
  <2>2. inum \in Inodes
    BY <2>1, LookupType DEF LinkRefused
  <2> HIDE DEF inum
  <2>3. dir' \in DirType
    BY <2>1, <2>2, AddEntryType
  <2>4. /\ inode_table' \in [Inodes -> InodeType]
        /\ \A i \in Inodes : inode_table'[i].i_size > 0 => inode_table'[i].i_data_block \in Blocks
    <3>1. [inode_table[inum] EXCEPT !.hard_link_counter = inode_table[inum].hard_link_counter + 1]
            \in InodeType
      BY <2>2, InodeUpdate DEF TypeOK
    <3>2. inode_table' \in [Inodes -> InodeType]
      BY <2>1, <2>2, <3>1 DEF TypeOK
    <3>3. \A i \in Inodes : /\ inode_table'[i].i_size = inode_table[i].i_size
                            /\ inode_table'[i].i_data_block = inode_table[i].i_data_block
      BY <2>1, <2>2 DEF TypeOK, InodeType
    <3> QED
      BY <3>2, <3>3 DEF TypeOK
  <2> QED
    BY <2>1, <2>3, <2>4, NoLocType, RootInInodes
       DEF TypeOK, DirType, UnlockRoot, Return, Goto, Labels, fileVars
<1>3. CASE SymLink(t) /\ ~Refuse(t) /\ ~Crash
  <2> DEFINE inum == FirstFreeInode
             inode == [NewInode("symlink") EXCEPT !.sym_path = loc[t].target]
  <2>1. /\ freeinode_ts # {}
        /\ freeinode_ts' = freeinode_ts \ {inum}
        /\ inode_table' = [inode_table EXCEPT ![inum] = inode]
        /\ inode_lock' = [inode_lock EXCEPT ![inum] = NoThread, ![Root] = NoThread]
        /\ dir' = add_dir_entry(loc[t].path, inum)
        /\ Return(t)
        /\ UNCHANGED <<free_blocks, fileVars, failed>>
    BY <1>3 DEF SymLink
  <2>2. inum \in Inodes
    BY <2>1, FirstFreeType
  <2>3. inode \in InodeType /\ ~ (inode.i_size > 0)
    <3>1. NewInode("symlink") \in InodeType /\ NewInode("symlink").i_size = 0
      BY SizesAssumption DEF NewInode, InodeType
    <3>2. loc[t].target \in Paths \cup {NoPath}
      BY DEF TypeOK, LocType
    <3> QED
      BY <3>1, <3>2 DEF InodeType
  <2> HIDE DEF inum, inode
  <2>4. /\ inode_table' \in [Inodes -> InodeType]
        /\ \A i \in Inodes : inode_table'[i].i_size > 0 => inode_table'[i].i_data_block \in Blocks
    BY <2>1, <2>2, <2>3 DEF TypeOK
  <2>5. dir' \in DirType
    BY <2>1, <2>2, AddEntryType
  <2> QED
    BY <2>1, <2>2, <2>4, <2>5, NoLocType, RootInInodes
       DEF TypeOK, DirType, Return, Goto, Labels, fileVars
<1> QED
  BY <1>1, <1>2, <1>3, RefuseType, CrashType

LEMMA UnlinkType ==
  ASSUME TypeOK, NEW t \in Threads,
         \/ UnlinkEnter(t) \/ UnlinkRefused(t) \/ UnlinkName(t) \/ UnlinkLink(t)
         \/ UnlinkLast(t) \/ UnlinkOpen(t) \/ UnlinkScan(t) \/ UnlinkDelete(t)
  PROVE  TypeOK'
<1> USE RootInInodes, NoLocType
<1>a. Found(t) \in Inodes \cup {-1}
  BY LookupType DEF Found
<1>b. loc[t].inum \in Inodes
  BY DEF TypeOK, LocType
<1>1. CASE UnlinkEnter(t)
  <2>1. PICK p \in PathsOf[t] : EnterRoot(t, "unlink", [NoLoc EXCEPT !.path = p])
    BY <1>1 DEF UnlinkEnter
  <2>2. [NoLoc EXCEPT !.path = p] \in LocType
    BY WorkloadAssumption DEF LocType
  <2> QED
    BY <2>1, <2>2, EnterRootType DEF RootSection
<1>2. CASE UnlinkRefused(t)
  BY <1>2, RefuseType DEF UnlinkRefused
<1>3. CASE UnlinkName(t)
  <2> DEFINE inum == Found(t)
  <2>1. inum \in Inodes
    BY <1>a, <1>3 DEF UnlinkName
  <2>2. /\ inode_table' = [inode_table EXCEPT ![inum].hard_link_counter = @ - 1]
        /\ dir' = clear_dir_entry(loc[t].path)
        /\ UnlockRoot /\ Return(t)
        /\ UNCHANGED <<freeinode_ts, free_blocks, fileVars, failed>>
    BY <1>3 DEF UnlinkName
  <2>3. SlotsNamed(loc[t].path) # {}
    <3>1. EntriesNamed(loc[t].path) # {}
      BY <1>3 DEF UnlinkName, Found, tfs_lookup, find_in_dir
    <3> QED
      BY <3>1 DEF EntriesNamed, SlotsNamed
  <2>4. dir' \in DirType
    BY <2>2, <2>3, ClearEntryType
  <2> HIDE DEF inum
  <2>5. /\ inode_table' \in [Inodes -> InodeType]
        /\ \A i \in Inodes : inode_table'[i].i_size > 0 => inode_table'[i].i_data_block \in Blocks
    <3>1. [inode_table[inum] EXCEPT !.hard_link_counter = inode_table[inum].hard_link_counter - 1]
            \in InodeType
      BY <2>1, InodeUpdate DEF TypeOK
    <3>2. inode_table' \in [Inodes -> InodeType]
      BY <2>1, <2>2, <3>1 DEF TypeOK
    <3>3. \A i \in Inodes : /\ inode_table'[i].i_size = inode_table[i].i_size
                            /\ inode_table'[i].i_data_block = inode_table[i].i_data_block
      BY <2>1, <2>2 DEF TypeOK, InodeType
    <3> QED
      BY <3>2, <3>3 DEF TypeOK
  <2> QED
    BY <2>2, <2>4, <2>5 DEF TypeOK, DirType, UnlockRoot, Return, Goto, Labels, fileVars
<1>4. CASE UnlinkLink(t) \/ UnlinkLast(t)
  <2>1. Found(t) \in Inodes
    BY <1>a, <1>4 DEF UnlinkLink, UnlinkLast
  <2>2. [loc[t] EXCEPT !.inum = Found(t)] \in LocType
    BY <2>1, LocUpdate DEF TypeOK
  <2>3. loc' \in [Threads -> LocType] /\ pc' \in [Threads -> Labels]
    <3>1. loc' = [loc EXCEPT ![t].inum = Found(t)]
      BY <1>4 DEF UnlinkLink, UnlinkLast
    <3>2. pc' \in [Threads -> Labels]
      BY <1>4 DEF UnlinkLink, UnlinkLast, TypeOK, Goto, Labels, RootSection
    <3> QED
      BY <2>2, <3>1, <3>2 DEF TypeOK
  <2>4. inode_lock' \in [Inodes -> Threads \cup {NoThread}]
    BY <1>4 DEF UnlinkLink, UnlinkLast, TypeOK
  <2> QED
    BY <1>4, <2>3, <2>4 DEF UnlinkLink, UnlinkLast, TypeOK, inodeVars, fileVars
<1>5. CASE UnlinkOpen(t)
  BY <1>5 DEF TypeOK, UnlinkOpen, Return, Goto, Labels, inodeVars, fileVars
<1>6. CASE UnlinkScan(t)
  <2>1. [loc[t] EXCEPT !.i = loc[t].i + 1] \in LocType
    BY LocUpdate DEF TypeOK
  <2>2. /\ loc' \in [Threads -> LocType] /\ pc' \in [Threads -> Labels]
        /\ inode_lock' \in [Inodes -> Threads \cup {NoThread}]
    <3>1. CASE loc[t].i + 1 < MAX_OPEN_FILES
      BY <1>6, <2>1, <3>1 DEF UnlinkScan, TypeOK
    <3>2. CASE ~ (loc[t].i + 1 < MAX_OPEN_FILES)
      BY <1>6, <1>b, <3>2 DEF UnlinkScan, TypeOK, Goto, Labels, RootSection
    <3> QED
      BY <3>1, <3>2
  <2> QED
    BY <1>6, <2>2 DEF UnlinkScan, TypeOK, inodeVars, fileVars
<1>7. CASE UnlinkDelete(t) /\ ~Crash
  <2>1. BlockOf(loc[t].inum) \subseteq Blocks
    BY <1>b DEF BlockOf, TypeOK
  <2>2. dir' \in DirType
    BY <1>7, ClearEntryType DEF UnlinkDelete
  <2>3. /\ free_blocks' = free_blocks \cup BlockOf(loc[t].inum)
        /\ freeinode_ts' = freeinode_ts \cup {loc[t].inum}
        /\ UnlockRoot /\ Return(t)
        /\ UNCHANGED <<inode_table, fileVars, failed>>
    BY <1>7 DEF UnlinkDelete
  <2>4. pc' \in [Threads -> Labels] /\ loc' \in [Threads -> LocType]
    BY <2>3 DEF TypeOK, Return, Goto, Labels
  <2>5. inode_lock' \in [Inodes -> Threads \cup {NoThread}]
    BY <2>3 DEF TypeOK, UnlockRoot
  <2> QED
    BY <1>b, <2>1, <2>2, <2>3, <2>4, <2>5 DEF TypeOK, DirType, fileVars
<1> QED
  BY <1>1, <1>2, <1>3, <1>4, <1>5, <1>6, <1>7, CrashType

LEMMA EnterFileType ==
  ASSUME TypeOK, NEW t \in Threads, NEW op \in FileSection, NEW h \in Handles,
         NEW l \in LocType, NEW kept \in [Threads -> SUBSET Handles],
         EnterFile(t, op, h, l, kept)
  PROVE  TypeOK'
<1>1. CASE Crash
  BY <1>1, CrashType
<1>2. CASE ~Crash
  <2>1. /\ open_file_lock' = [open_file_lock EXCEPT ![h] = t]
        /\ Goto(t, op) /\ loc' = [loc EXCEPT ![t] = l] /\ mine' = kept
        /\ UNCHANGED <<inodeVars, inode_lock, free_blocks, dir, open_file_table,
                       free_open_file_entries, open_file_table_lock, failed>>
    BY <1>2 DEF EnterFile
  <2>2. pc' \in [Threads -> Labels]
    BY <2>1 DEF TypeOK, Goto, Labels
  <2> QED
    BY <2>1, <2>2 DEF TypeOK, inodeVars
<1> QED
  BY <1>1, <1>2

LEMMA HandleType ==
  ASSUME TypeOK, NEW t \in Threads
  PROVE  /\ loc[t].fh \in Handles /\ loc[t].len \in 0 .. SizeT - 1
         /\ FileOf(t) \in Inodes /\ OffsetOf(t) \in 0 .. SizeT - 1
BY DEF TypeOK, LocType, FileOf, OffsetOf

LEMMA CopyInType ==
  ASSUME TypeOK, NEW t \in Threads, NEW block, NEW S, CopyIn(t, block, S)
  PROVE  TypeOK'
<1>1. CASE Crash
  BY <1>1, CrashType
<1>2. CASE ~Crash
  <2> DEFINE end == (OffsetOf(t) + ToWrite(t)) % SizeT
             file == FileOf(t)
             size == IF end > inode_table[file].i_size THEN end ELSE inode_table[file].i_size
  <2>1. /\ block \in Blocks
        /\ open_file_table' = [open_file_table EXCEPT ![loc[t].fh].of_offset = end]
        /\ inode_table' = [inode_table EXCEPT ![file].i_data_block = block,
                                              ![file].i_size = size]
        /\ free_blocks' = free_blocks \ S
        /\ inode_lock' = [inode_lock EXCEPT ![file] = NoThread]
        /\ UnlockFile(t) /\ Return(t)
        /\ UNCHANGED <<freeinode_ts, dir, free_open_file_entries,
                       open_file_table_lock, mine, failed>>
    BY <1>2 DEF CopyIn
  <2>2. file \in Inodes /\ loc[t].fh \in Handles
    BY HandleType
  <2>3. end \in 0 .. SizeT - 1
    <3>1. loc[t].len \in Int /\ OffsetOf(t) \in Int /\ SizeT \in Nat /\ SizeT > 0
      BY HandleType, SizesAssumption
    <3>2. ToWrite(t) \in Int
      BY <3>1, ModRange, SizesAssumption DEF ToWrite
    <3> QED
      BY <3>1, <3>2, ModRange
  <2>4. size \in 0 .. SizeT - 1
    BY <2>2, <2>3 DEF TypeOK, InodeType
  <2> HIDE DEF end, file, size
  <2>5. inode_table' \in [Inodes -> InodeType]
    <3>1. [inode_table[file] EXCEPT !.i_data_block = block, !.i_size = size] \in InodeType
      BY <2>1, <2>2, <2>4, InodeUpdate DEF TypeOK
    <3>2. inode_table' = [inode_table EXCEPT ![file] =
             [inode_table[file] EXCEPT !.i_data_block = block, !.i_size = size]]
      BY <2>1, <2>2 DEF TypeOK
    <3> QED
      BY <2>2, <3>1, <3>2 DEF TypeOK
  <2>6. ASSUME NEW i \in Inodes, inode_table'[i].i_size > 0
        PROVE  inode_table'[i].i_data_block \in Blocks
    <3>1. CASE i = file
      BY <2>1, <2>2, <3>1 DEF TypeOK, InodeType
    <3>2. CASE i # file
      BY <2>1, <2>6, <3>2 DEF TypeOK
    <3> QED
      BY <3>1, <3>2
  <2>7. open_file_table' \in [Handles -> [of_inumber : Inodes, of_offset : 0 .. SizeT - 1]]
    BY <2>1, <2>2, <2>3 DEF TypeOK
  <2>8. /\ open_file_lock' \in [Handles -> Threads \cup {NoThread, NoMutex}]
        /\ inode_lock' \in [Inodes -> Threads \cup {NoThread}]
        /\ free_blocks' \subseteq Blocks
        /\ pc' \in [Threads -> Labels] /\ loc' \in [Threads -> LocType]
    BY <2>1, <2>2, NoLocType DEF TypeOK, UnlockFile, Return, Goto, Labels
  <2> QED
    BY <2>1, <2>5, <2>6, <2>7, <2>8 DEF TypeOK
<1> QED
  BY <1>1, <1>2

LEMMA FileCallType ==
  ASSUME TypeOK, NEW t \in Threads,
         \/ CloseEnter(t) \/ CloseUnlock(t) \/ CloseDestroy(t)
         \/ TransferEnter(t, "write") \/ TransferEnter(t, "read")
         \/ Write(t) \/ WriteAlloc(t) \/ Read(t)
  PROVE  TypeOK'
<1> USE NoLocType
<1>a. /\ loc[t].fh \in Handles /\ FileOf(t) \in Inodes
  BY HandleType
<1>1. CASE CloseEnter(t)
  <2>1. PICK h \in Handles :
          EnterFile(t, "close", h, [NoLoc EXCEPT !.fh = h],
                    [u \in Threads |-> mine[u] \ {h}])
    BY <1>1 DEF CloseEnter
  <2>2. [NoLoc EXCEPT !.fh = h] \in LocType
    BY DEF LocType
  <2>3. [u \in Threads |-> mine[u] \ {h}] \in [Threads -> SUBSET Handles]
    BY DEF TypeOK
  <2> QED
    BY <2>1, <2>2, <2>3, EnterFileType DEF FileSection
<1>2. CASE CloseUnlock(t)
  BY <1>2, <1>a DEF CloseUnlock, TypeOK, UnlockFile, Goto, Labels, inodeVars
<1>3. CASE CloseDestroy(t) /\ ~Crash
  BY <1>3, <1>a DEF CloseDestroy, TypeOK, Return, Goto, Labels, inodeVars
<1>4. ASSUME NEW op \in {"write", "read"}, TransferEnter(t, op)
      PROVE  TypeOK'
  <2>1. PICK h \in Handles, n \in Lens :
          EnterFile(t, op, h, [NoLoc EXCEPT !.fh = h, !.len = n], mine)
    BY <1>4 DEF TransferEnter
  <2>2. n \in 0 .. SizeT - 1
    BY WorkloadAssumption
  <2>3. [NoLoc EXCEPT !.fh = h, !.len = n] \in LocType
    BY <2>2 DEF LocType
  <2>4. mine \in [Threads -> SUBSET Handles]
    BY DEF TypeOK
  <2> QED
    BY <2>1, <2>3, <2>4, EnterFileType DEF FileSection
<1>5. CASE Write(t) /\ ~ \E block, S : CopyIn(t, block, S)
  <2>1. \/ /\ inode_lock' = [inode_lock EXCEPT ![FileOf(t)] = t]
           /\ Goto(t, "write_alloc")
           /\ UNCHANGED <<inodeVars, free_blocks, dir, fileVars, loc, failed>>
        \/ /\ UnlockFile(t) /\ Return(t)
           /\ UNCHANGED <<inodeVars, inode_lock, free_blocks, dir, open_file_table,
                          free_open_file_entries, open_file_table_lock, mine, failed>>
    BY <1>5 DEF Write
  <2>2. /\ pc' \in [Threads -> Labels] /\ loc' \in [Threads -> LocType]
        /\ inode_lock' \in [Inodes -> Threads \cup {NoThread}]
        /\ open_file_lock' \in [Handles -> Threads \cup {NoThread, NoMutex}]
    <3>1. pc' \in [Threads -> Labels] /\ loc' \in [Threads -> LocType]
      BY <2>1 DEF TypeOK, Return, Goto, Labels, FileSection
    <3>2. inode_lock' \in [Inodes -> Threads \cup {NoThread}]
      BY <2>1, <1>a DEF TypeOK
    <3>3. open_file_lock' \in [Handles -> Threads \cup {NoThread, NoMutex}]
      BY <2>1, <1>a DEF TypeOK, UnlockFile, fileVars
    <3> QED
      BY <3>1, <3>2, <3>3
  <2> QED
    BY <2>1, <2>2 DEF TypeOK, inodeVars, fileVars
<1>6. CASE WriteAlloc(t) /\ ~ \E block, S : CopyIn(t, block, S)
  <2>1. [loc[t] EXCEPT !.i = loc[t].i + 1] \in LocType
    BY LocUpdate DEF TypeOK
  <2>2. \/ /\ loc' = [loc EXCEPT ![t].i = @ + 1]
           /\ UNCHANGED <<inodeVars, inode_lock, free_blocks, dir, fileVars, pc, failed>>
        \/ /\ inode_lock' = [inode_lock EXCEPT ![FileOf(t)] = NoThread]
           /\ UnlockFile(t) /\ Return(t)
           /\ UNCHANGED <<inodeVars, free_blocks, dir, open_file_table,
                          free_open_file_entries, open_file_table_lock, mine, failed>>
    BY <1>6 DEF WriteAlloc
  <2>3. /\ pc' \in [Threads -> Labels] /\ loc' \in [Threads -> LocType]
        /\ inode_lock' \in [Inodes -> Threads \cup {NoThread}]
        /\ open_file_lock' \in [Handles -> Threads \cup {NoThread, NoMutex}]
    <3>1. pc' \in [Threads -> Labels] /\ loc' \in [Threads -> LocType]
      <4>1. CASE Return(t)
        BY <4>1 DEF TypeOK, Return, Goto, Labels
      <4>2. CASE ~Return(t)
        BY <2>1, <2>2, <4>2 DEF TypeOK
      <4> QED
        BY <4>1, <4>2
    <3>2. inode_lock' \in [Inodes -> Threads \cup {NoThread}]
      BY <2>2, <1>a DEF TypeOK
    <3>3. open_file_lock' \in [Handles -> Threads \cup {NoThread, NoMutex}]
      BY <2>2, <1>a DEF TypeOK, UnlockFile, fileVars
    <3> QED
      BY <3>1, <3>2, <3>3
  <2> QED
    BY <2>2, <2>3 DEF TypeOK, inodeVars, fileVars
<1>7. CASE Read(t) /\ ~Crash
  <2> DEFINE end == (OffsetOf(t) + ToRead(t)) % SizeT
  <2>1. end \in 0 .. SizeT - 1
    <3>1. /\ loc[t].len \in Int /\ OffsetOf(t) \in Int /\ SizeT \in Nat /\ SizeT > 0
          /\ inode_table[FileOf(t)].i_size \in Int
      BY <1>a, HandleType, SizesAssumption DEF TypeOK, InodeType
    <3>2. ToRead(t) \in Int
      BY <3>1, ModRange DEF ToRead
    <3> QED
      BY <3>1, <3>2, ModRange
  <2>2. open_file_table' = [open_file_table EXCEPT ![loc[t].fh].of_offset = end]
    BY <1>7 DEF Read, OffsetOf
  <2> HIDE DEF end
  <2>3. open_file_table' \in [Handles -> [of_inumber : Inodes, of_offset : 0 .. SizeT - 1]]
    BY <1>a, <2>1, <2>2 DEF TypeOK
  <2> QED
    BY <1>7, <1>a, <2>3 DEF Read, TypeOK, UnlockFile, Return, Goto, Labels, inodeVars
<1> QED
  BY <1>1, <1>2, <1>3, <1>4, <1>5, <1>6, <1>7, CrashType, CopyInType

\* Every step of the file system keeps the types.
LEMMA TypeStep == TypeOK /\ [Next]_vars => TypeOK'
<1> SUFFICES ASSUME TypeOK, [Next]_vars PROVE TypeOK'
  OBVIOUS
<1>1. CASE UNCHANGED vars
  BY <1>1 DEF TypeOK, vars, fileVars
<1>2. ASSUME NEW t \in Threads, Call(t) \/ Continue(t)
      PROVE  TypeOK'
  <2>1. ASSUME Call(t) PROVE TypeOK'
    BY <2>1, OpenType, LinkType, UnlinkType, FileCallType DEF Call
  <2>2. ASSUME Continue(t) PROVE TypeOK'
    BY <2>2, OpenType, LinkType, UnlinkType, FileCallType DEF Continue
  <2> QED
    BY <1>2, <2>1, <2>2
<1> QED
  BY <1>1, <1>2 DEF Next, Ended

\* Every variable keeps its type.
THEOREM TypeCorrect == Spec => []TypeOK
<1> QED
  BY InitType, TypeStep, PTL DEF Spec

-----------------------------------------------------------------------------
(* The locks protect what they are meant to.                               *)

\* A thread in remove_from_open_file_table holds the table's mutex and works
\* on a taken entry.
CloseHeld ==
  \A t \in Threads : pc[t] = "close_destroy" =>
    open_file_table_lock = t /\ loc[t].fh \notin free_open_file_entries

\* The root inode is never free, named by an entry, opened or deleted: its lock
\* is not taken as the lock of a file.
RootKept ==
  /\ Root \notin freeinode_ts
  /\ \A s \in Slots : dir[s].d_inumber # Root
  /\ \A h \in Handles \ free_open_file_entries : open_file_table[h].of_inumber # Root
  /\ \A t \in Threads :
       pc[t] \in {"open_follow", "open_add", "unlink_scan", "unlink_delete"}
       => loc[t].inum # Root

LockInv == RootExclusive /\ EntryHeld /\ CloseHeld /\ RootKept

-----------------------------------------------------------------------------
(* The root lock.                                                          *)

\* A step acquires the root lock, releases it, or changes neither the lock nor
\* on which side of it the thread is.
LEMMA RootStep ==
  ASSUME TypeOK, RootExclusive, NEW t \in Threads, NEW label,
         pc' = [pc EXCEPT ![t] = label],
         \/ inode_lock[Root] = NoThread /\ inode_lock'[Root] = t /\ label \in RootSection
         \/ /\ inode_lock'[Root] = inode_lock[Root]
            /\ label \in RootSection <=> pc[t] \in RootSection
         \/ /\ pc[t] \in RootSection
            /\ inode_lock'[Root] = NoThread /\ label \notin RootSection
  PROVE  RootExclusive'
BY ThreadsAssumption DEF RootExclusive, TypeOK

\* The inodes that are looked up, taken or opened are not the root.
LEMMA NotRoot ==
  ASSUME TypeOK, LockInv
  PROVE  /\ \A p : tfs_lookup(p) # Root
         /\ freeinode_ts # {} => FirstFreeInode # Root
         /\ \A t \in Threads : pc[t] \in FileSection => FileOf(t) # Root
<1>1. ASSUME NEW p PROVE tfs_lookup(p) # Root
  <2>1. CASE valid_pathname(p) /\ EntriesNamed(p) # {}
    <3>1. Min(EntriesNamed(p)) \in Slots
      BY <2>1, SlotMin DEF EntriesNamed
    <3> QED
      BY <2>1, <3>1 DEF LockInv, RootKept, tfs_lookup, find_in_dir
  <2>2. CASE ~ (valid_pathname(p) /\ EntriesNamed(p) # {})
    BY <2>2 DEF tfs_lookup, find_in_dir, Root
  <2> QED
    BY <2>1, <2>2
<1>2. freeinode_ts # {} => FirstFreeInode # Root
  BY FirstFreeType DEF LockInv, RootKept
<1>3. \A t \in Threads : pc[t] \in FileSection => FileOf(t) # Root
  BY HandleType DEF LockInv, EntryHeld, RootKept, FileOf
<1> QED
  BY <1>1, <1>2, <1>3

LEMMA EnterRootExclusive ==
  ASSUME TypeOK, LockInv, NEW t \in Threads, NEW op \in RootSection, NEW l,
         EnterRoot(t, op, l)
  PROVE  RootExclusive'
BY RootStep, RootInInodes DEF EnterRoot, Goto, TypeOK, LockInv

LEMMA RefuseExclusive ==
  ASSUME TypeOK, LockInv, NEW t \in Threads, pc[t] \in RootSection, Refuse(t)
  PROVE  RootExclusive'
BY RootStep, RootInInodes
   DEF Refuse, UnlockRoot, Return, Goto, TypeOK, LockInv, RootSection

LEMMA CrashLocks ==
  ASSUME LockInv, Crash
  PROVE  LockInv'
BY DEF LockInv, Crash, RootExclusive, EntryHeld, CloseHeld, RootKept, fileVars

LEMMA RootExclusiveStep ==
  ASSUME TypeOK, LockInv, NEW t \in Threads, Call(t) \/ Continue(t)
  PROVE  RootExclusive'
<1> USE RootInInodes
<1>c. CASE Crash
  BY <1>c, CrashLocks DEF LockInv
<1>1. CASE OpenEnter(t) \/ UnlinkEnter(t)
  BY <1>1, EnterRootExclusive DEF OpenEnter, UnlinkEnter, RootSection
<1>2. CASE LinkEnter(t, "link") \/ LinkEnter(t, "sym_link")
  BY <1>2, EnterRootExclusive DEF LinkEnter, RootSection
<1>3. CASE OpenRefused(t) \/ OpenNoInode(t) \/ UnlinkRefused(t)
  BY <1>3, RefuseExclusive DEF OpenRefused, OpenNoInode, UnlinkRefused, At, RootSection
<1>4. CASE OpenLink(t)
  BY <1>4, RootStep DEF OpenLink, UnlockRoot, Goto, At, LockInv, TypeOK, RootSection
<1>5. CASE OpenFollow(t) /\ ~Crash
  BY <1>5, RootStep DEF OpenFollow, Return, Goto, At, LockInv, TypeOK, RootSection
<1>6. CASE OpenAgain(t)
  BY <1>6, RootStep DEF OpenAgain, Unlocked, Goto, At, LockInv, TypeOK, RootSection
<1>7. CASE OpenExisting(t)
  BY <1>7, RootStep DEF OpenExisting, UnlockRoot, Goto, At, LockInv, TypeOK, RootSection
<1>8. CASE OpenCreate(t)
  <2>1. inode_lock'[Root] = NoThread /\ pc[t] \in RootSection
    BY <1>8 DEF OpenCreate, TypeOK, At, RootSection
  <2>2. PICK label \in {"open_add", "idle"} : pc' = [pc EXCEPT ![t] = label]
    BY <1>8 DEF OpenCreate, Return, Goto
  <2> QED
    BY <2>1, <2>2, RootStep DEF LockInv, RootSection
<1>9. CASE OpenAddTake(t)
  BY <1>9, RootStep DEF OpenAddTake, Return, Goto, At, LockInv, TypeOK, RootSection
<1>10. CASE OpenAddNext(t)
  <2>1. PICK label \in {"open_add", "idle"} : pc' = [pc EXCEPT ![t] = label]
    BY <1>10 DEF OpenAddNext, Return, Goto, TypeOK, At
  <2> QED
    BY <1>10, <2>1, RootStep DEF OpenAddNext, At, LockInv, TypeOK, RootSection
<1>11. CASE Link(t) \/ (SymLink(t) /\ ~Crash)
  <2>1. pc[t] \in RootSection
    BY <1>11 DEF Link, SymLink, At, RootSection
  <2>2. CASE Refuse(t)
    BY <2>1, <2>2, RefuseExclusive
  <2>3. CASE ~Refuse(t)
    <3>1. inode_lock'[Root] = NoThread /\ pc' = [pc EXCEPT ![t] = "idle"]
      BY <1>11, <2>3 DEF Link, SymLink, UnlockRoot, Return, Goto, TypeOK
    <3> QED
      BY <2>1, <3>1, RootStep DEF LockInv, RootSection
  <2> QED
    BY <2>2, <2>3
<1>12. CASE UnlinkName(t)
  BY <1>12, RootStep DEF UnlinkName, UnlockRoot, Return, Goto, At, LockInv, TypeOK, RootSection
<1>13. CASE UnlinkLink(t)
  BY <1>13, RootStep DEF UnlinkLink, Goto, At, LockInv, TypeOK, RootSection
<1>14. CASE UnlinkLast(t)
  <2>1. Found(t) # Root
    BY NotRoot DEF Found
  <2>2. inode_lock'[Root] = inode_lock[Root]
    BY <1>14, <2>1 DEF UnlinkLast, TypeOK
  <2> QED
    BY <1>14, <2>2, RootStep DEF UnlinkLast, Goto, At, LockInv, TypeOK, RootSection
<1>15. CASE UnlinkOpen(t)
  BY <1>15, RootStep DEF UnlinkOpen, Return, Goto, At, LockInv, TypeOK, RootSection
<1>16. CASE UnlinkScan(t)
  <2>1. loc[t].inum # Root
    BY <1>16 DEF UnlinkScan, At, LockInv, RootKept
  <2>2. inode_lock'[Root] = inode_lock[Root]
    BY <1>16, <2>1 DEF UnlinkScan, TypeOK
  <2>3. PICK label \in {"unlink_scan", "unlink_delete"} : pc' = [pc EXCEPT ![t] = label]
    BY <1>16 DEF UnlinkScan, Goto, TypeOK, At
  <2> QED
    BY <1>16, <2>2, <2>3, RootStep DEF UnlinkScan, At, LockInv, RootSection
<1>17. CASE UnlinkDelete(t) /\ ~Crash
  BY <1>17, RootStep
     DEF UnlinkDelete, UnlockRoot, Return, Goto, At, LockInv, TypeOK, RootSection
<1>18. ASSUME NEW op \in FileSection, NEW h, NEW l, NEW kept,
              EnterFile(t, op, h, l, kept), ~Crash
       PROVE  RootExclusive'
  <2>1. pc' = [pc EXCEPT ![t] = op] /\ inode_lock' = inode_lock /\ pc[t] = "idle"
    BY <1>18 DEF EnterFile, Goto, Idle
  <2>2. op \notin RootSection
    BY DEF FileSection, RootSection
  <2> QED
    BY <2>1, <2>2, RootStep DEF LockInv, RootSection
<1>19. CASE CloseEnter(t) \/ TransferEnter(t, "write") \/ TransferEnter(t, "read")
  BY <1>19, <1>18, <1>c DEF CloseEnter, TransferEnter, FileSection
<1>20. CASE CloseUnlock(t)
  BY <1>20, RootStep DEF CloseUnlock, Goto, At, LockInv, RootSection
<1>21. CASE CloseDestroy(t) /\ ~Crash
  BY <1>21, RootStep DEF CloseDestroy, Return, Goto, At, LockInv, RootSection
<1>22. CASE (Write(t) \/ WriteAlloc(t) \/ Read(t)) /\ ~Crash
  <2>1. pc[t] \in FileSection /\ pc[t] \notin RootSection
    BY <1>22 DEF Write, WriteAlloc, Read, At, FileSection, RootSection
  <2>2. FileOf(t) # Root
    BY <2>1, NotRoot
  <2>3. inode_lock'[Root] = inode_lock[Root]
    BY <1>22, <2>2 DEF Write, WriteAlloc, Read, CopyIn, TypeOK
  <2>4. PICK label \in {"idle", "write_alloc"} : pc' = [pc EXCEPT ![t] = label]
    BY <1>22 DEF Write, WriteAlloc, Read, CopyIn, Return, Goto, At, TypeOK
  <2> QED
    BY <2>1, <2>3, <2>4, RootStep DEF LockInv, RootSection
<1> QED
  BY <1>c, <1>1, <1>2, <1>3, <1>4, <1>5, <1>6, <1>7, <1>8, <1>9, <1>10, <1>11, <1>12,
     <1>13, <1>14, <1>15, <1>16, <1>17, <1>19, <1>20, <1>21, <1>22 DEF Call, Continue

-----------------------------------------------------------------------------
(* The mutexes of the open file entries.                                   *)

\* What the step of a thread leaves alone.
Others(t) == \A u \in Threads \ {t} : pc'[u] = pc[u] /\ loc'[u] = loc[u]

LEMMA OthersStep ==
  ASSUME TypeOK, NEW t \in Threads, Call(t) \/ Continue(t)
  PROVE  Others(t)
<1> USE DEF Others, TypeOK, Goto, Return
<1>c. CASE Crash
  BY <1>c DEF Crash
<1>r. CASE Refuse(t)
  BY <1>r DEF Refuse
<1>1. ASSUME NEW op, NEW l, EnterRoot(t, op, l) PROVE Others(t)
  BY <1>1 DEF EnterRoot
<1>2. CASE OpenEnter(t) \/ LinkEnter(t, "link") \/ LinkEnter(t, "sym_link") \/ UnlinkEnter(t)
  BY <1>2, <1>1 DEF OpenEnter, LinkEnter, UnlinkEnter
<1>3. CASE OpenRefused(t) \/ OpenNoInode(t) \/ UnlinkRefused(t)
  BY <1>3, <1>r DEF OpenRefused, OpenNoInode, UnlinkRefused
<1>4. CASE OpenLink(t) \/ (OpenFollow(t) /\ ~Crash) \/ OpenAgain(t)
  BY <1>4 DEF OpenLink, OpenFollow, OpenAgain
<1>5. CASE OpenExisting(t)
  BY <1>5 DEF OpenExisting
<1>6. CASE OpenCreate(t)
  BY <1>6 DEF OpenCreate
<1>7. CASE OpenAddTake(t) \/ OpenAddNext(t)
  BY <1>7 DEF OpenAddTake, OpenAddNext, fileVars
<1>8. CASE Link(t) \/ (SymLink(t) /\ ~Crash)
  BY <1>8, <1>r DEF Link, SymLink
<1>9. CASE UnlinkName(t) \/ UnlinkLink(t) \/ UnlinkLast(t)
  BY <1>9 DEF UnlinkName, UnlinkLink, UnlinkLast
<1>10. CASE UnlinkOpen(t) \/ UnlinkScan(t)
  BY <1>10 DEF UnlinkOpen, UnlinkScan
<1>11. CASE UnlinkDelete(t)
  BY <1>11, <1>c DEF UnlinkDelete
<1>12. ASSUME NEW op, NEW h, NEW l, NEW kept, EnterFile(t, op, h, l, kept) PROVE Others(t)
  BY <1>12, <1>c DEF EnterFile
<1>13. CASE CloseEnter(t) \/ TransferEnter(t, "write") \/ TransferEnter(t, "read")
  BY <1>13, <1>12 DEF CloseEnter, TransferEnter
<1>14. CASE CloseUnlock(t) \/ CloseDestroy(t)
  BY <1>14, <1>c DEF CloseUnlock, CloseDestroy
<1>15. ASSUME NEW block, NEW S, CopyIn(t, block, S) PROVE Others(t)
  BY <1>15, <1>c DEF CopyIn
<1>16. CASE Write(t)
  BY <1>16, <1>15 DEF Write
<1>17. CASE WriteAlloc(t)
  BY <1>17, <1>15 DEF WriteAlloc
<1>18. CASE Read(t)
  BY <1>18, <1>c DEF Read
<1> QED
  BY <1>c, <1>2, <1>3, <1>4, <1>5, <1>6, <1>7, <1>8, <1>9, <1>10, <1>11, <1>13, <1>14,
     <1>16, <1>17, <1>18 DEF Call, Continue

\* A step that touches neither the entries nor their mutexes, and begins no
\* section on an entry.
LEMMA EntryKept ==
  ASSUME LockInv, NEW t \in Threads, Others(t),
         UNCHANGED <<open_file_lock, free_open_file_entries, open_file_table_lock>>,
         pc'[t] \in FileSection => pc[t] \in FileSection /\ loc'[t].fh = loc[t].fh,
         pc'[t] # "close_destroy"
  PROVE  EntryHeld' /\ CloseHeld'
BY DEF LockInv, Others, EntryHeld, CloseHeld

\* The end of a call on a handle.
LEMMA EntryReleased ==
  ASSUME TypeOK, LockInv, NEW t \in Threads, Others(t),
         pc[t] \in FileSection, UnlockFile(t),
         pc'[t] \notin FileSection \cup {"close_destroy"},
         UNCHANGED <<free_open_file_entries, open_file_table_lock>>
  PROVE  EntryHeld' /\ CloseHeld'
<1>1. ASSUME NEW u \in Threads, pc'[u] \in FileSection
      PROVE  open_file_lock'[loc'[u].fh] = u /\ loc'[u].fh \notin free_open_file_entries'
  <2>1. u # t /\ pc[u] \in FileSection /\ loc'[u] = loc[u]
    BY <1>1 DEF Others
  <2>2. open_file_lock[loc[u].fh] = u /\ open_file_lock[loc[t].fh] = t
    BY <2>1 DEF LockInv, EntryHeld
  <2> QED
    BY <2>1, <2>2, HandleType DEF LockInv, EntryHeld, UnlockFile, TypeOK
<1>2. CloseHeld'
  BY DEF LockInv, CloseHeld, Others
<1> QED
  BY <1>1, <1>2 DEF EntryHeld

LEMMA EntryStep ==
  ASSUME TypeOK, LockInv, NEW t \in Threads, Call(t) \/ Continue(t)
  PROVE  EntryHeld' /\ CloseHeld'
<1> USE OthersStep
<1> DEFINE quiet == UNCHANGED <<open_file_lock, free_open_file_entries, open_file_table_lock>>
           away  == pc'[t] \notin FileSection \cup {"close_destroy"}
<1>c. CASE Crash
  BY <1>c, CrashLocks DEF LockInv
<1>q. CASE quiet /\ away
  BY <1>q, EntryKept
<1>u. CASE /\ pc[t] \in FileSection /\ UnlockFile(t) /\ away
           /\ UNCHANGED <<free_open_file_entries, open_file_table_lock>>
  BY <1>u, EntryReleased
<1>1. ASSUME NEW op, NEW l, EnterRoot(t, op, l), op \notin FileSection \cup {"close_destroy"}
      PROVE  quiet /\ away
  BY <1>1 DEF EnterRoot, Goto, TypeOK, fileVars
<1>2. CASE OpenEnter(t) \/ LinkEnter(t, "link") \/ LinkEnter(t, "sym_link") \/ UnlinkEnter(t)
  BY <1>2, <1>1, <1>q DEF OpenEnter, LinkEnter, UnlinkEnter, FileSection
<1>3. ASSUME Refuse(t) PROVE quiet /\ away
  BY <1>3 DEF Refuse, Return, Goto, TypeOK, fileVars, FileSection
<1>4. CASE OpenRefused(t) \/ OpenNoInode(t) \/ UnlinkRefused(t)
  BY <1>4, <1>3, <1>q DEF OpenRefused, OpenNoInode, UnlinkRefused
<1>5. CASE OpenLink(t) \/ (OpenFollow(t) /\ ~Crash) \/ OpenAgain(t)
  BY <1>5, <1>q DEF OpenLink, OpenFollow, OpenAgain, Return, Goto, TypeOK, fileVars, FileSection
<1>6. CASE OpenExisting(t)
  BY <1>6, <1>q DEF OpenExisting, Goto, TypeOK, fileVars, FileSection
<1>7. CASE OpenCreate(t)
  BY <1>7, <1>q DEF OpenCreate, Return, Goto, TypeOK, fileVars, FileSection
<1>8. CASE OpenAddTake(t)
  <2>1. /\ loc[t].i \in free_open_file_entries /\ away
        /\ open_file_lock' = [open_file_lock EXCEPT ![loc[t].i] = NoThread]
        /\ free_open_file_entries' = free_open_file_entries \ {loc[t].i}
        /\ open_file_table_lock' = open_file_table_lock
    BY <1>8 DEF OpenAddTake, Return, Goto, TypeOK, FileSection
  <2>2. ASSUME NEW u \in Threads \ {t}, pc[u] \in FileSection
        PROVE  open_file_lock'[loc[u].fh] = u
    BY <2>1, <2>2, HandleType DEF LockInv, EntryHeld, TypeOK
  <2>3. EntryHeld'
    BY <2>1, <2>2 DEF LockInv, EntryHeld, Others
  <2>4. CloseHeld'
    BY <2>1 DEF LockInv, CloseHeld, Others
  <2> QED
    BY <2>3, <2>4
<1>9. CASE OpenAddNext(t)
  BY <1>9, <1>q DEF OpenAddNext, Return, Goto, At, TypeOK, fileVars, FileSection
<1>10. CASE Link(t) \/ (SymLink(t) /\ ~Crash)
  <2>1. CASE ~Refuse(t)
    BY <1>10, <2>1, <1>q DEF Link, SymLink, Return, Goto, TypeOK, fileVars, FileSection
  <2> QED
    BY <2>1, <1>3, <1>q
<1>11. CASE UnlinkName(t) \/ UnlinkLink(t) \/ UnlinkLast(t) \/ UnlinkOpen(t)
  BY <1>11, <1>q DEF UnlinkName, UnlinkLink, UnlinkLast, UnlinkOpen, Return, Goto, TypeOK,
                     fileVars, FileSection
<1>12. CASE UnlinkScan(t)
  BY <1>12, <1>q DEF UnlinkScan, Goto, At, TypeOK, fileVars, FileSection
<1>13. CASE UnlinkDelete(t)
  BY <1>13, <1>q, <1>c DEF UnlinkDelete, Return, Goto, TypeOK, fileVars, FileSection
<1>14. ASSUME NEW op \in FileSection, NEW h \in Handles, NEW l \in LocType, l.fh = h,
              NEW kept, EnterFile(t, op, h, l, kept), ~Crash
       PROVE  EntryHeld' /\ CloseHeld'
  <2>1. /\ open_file_lock[h] = NoThread /\ h \notin free_open_file_entries
        /\ open_file_lock' = [open_file_lock EXCEPT ![h] = t]
        /\ pc'[t] = op /\ loc'[t] = l
        /\ UNCHANGED <<free_open_file_entries, open_file_table_lock>>
    BY <1>14 DEF EnterFile, Goto, TypeOK
  <2>2. ASSUME NEW u \in Threads \ {t}, pc[u] \in FileSection
        PROVE  open_file_lock'[loc[u].fh] = u
    BY <2>1, <2>2, HandleType, ThreadsAssumption DEF LockInv, EntryHeld, TypeOK
  <2>3. open_file_lock'[h] = t
    BY <2>1 DEF TypeOK
  <2>4. EntryHeld'
    BY <1>14, <2>1, <2>2, <2>3 DEF LockInv, EntryHeld, Others
  <2>5. op # "close_destroy"
    BY DEF FileSection
  <2>6. CloseHeld'
    BY <2>1, <2>5 DEF LockInv, CloseHeld, Others
  <2> QED
    BY <2>4, <2>6
<1>15. CASE CloseEnter(t)
  <2>1. \A h \in Handles : /\ [NoLoc EXCEPT !.fh = h] \in LocType
                           /\ [NoLoc EXCEPT !.fh = h].fh = h
    BY NoLocType DEF NoLoc, LocType
  <2> QED
    BY <1>15, <2>1, <1>14, <1>c DEF CloseEnter, FileSection
<1>16. CASE TransferEnter(t, "write") \/ TransferEnter(t, "read")
  <2>1. \A h \in Handles, n \in Lens : /\ [NoLoc EXCEPT !.fh = h, !.len = n] \in LocType
                                       /\ [NoLoc EXCEPT !.fh = h, !.len = n].fh = h
    BY NoLocType, WorkloadAssumption DEF NoLoc, LocType
  <2> QED
    BY <1>16, <2>1, <1>14, <1>c DEF TransferEnter, FileSection
<1>17. CASE CloseUnlock(t)
  <2>1. /\ pc[t] = "close" /\ pc'[t] = "close_destroy" /\ loc' = loc
        /\ open_file_table_lock = NoThread /\ open_file_table_lock' = t
        /\ UnlockFile(t) /\ free_open_file_entries' = free_open_file_entries
    BY <1>17 DEF CloseUnlock, Goto, At, TypeOK
  <2>2. ASSUME NEW u \in Threads \ {t}, pc[u] \in FileSection
        PROVE  open_file_lock'[loc[u].fh] = u
    BY <2>1, <2>2, HandleType DEF LockInv, EntryHeld, TypeOK, UnlockFile, FileSection
  <2>3. EntryHeld'
    BY <2>1, <2>2 DEF LockInv, EntryHeld, Others, FileSection
  <2>4. \A u \in Threads : pc[u] # "close_destroy"
    BY <2>1, ThreadsAssumption DEF LockInv, CloseHeld
  <2>5. loc[t].fh \notin free_open_file_entries
    BY <2>1 DEF LockInv, EntryHeld, FileSection
  <2>6. CloseHeld'
    BY <2>1, <2>4, <2>5 DEF CloseHeld, Others
  <2> QED
    BY <2>3, <2>6
<1>18. CASE CloseDestroy(t) /\ ~Crash
  <2>1. /\ pc[t] = "close_destroy" /\ away
        /\ open_file_lock[loc[t].fh] = NoThread
        /\ open_file_lock' = [open_file_lock EXCEPT ![loc[t].fh] = NoMutex]
        /\ free_open_file_entries' = free_open_file_entries \cup {loc[t].fh}
    BY <1>18 DEF CloseDestroy, Return, Goto, At, TypeOK, FileSection
  <2>2. ASSUME NEW u \in Threads \ {t}, pc[u] \in FileSection
        PROVE  open_file_lock'[loc[u].fh] = u /\ loc[u].fh # loc[t].fh
    BY <2>1, <2>2, HandleType, ThreadsAssumption DEF LockInv, EntryHeld, TypeOK
  <2>3. EntryHeld'
    BY <2>1, <2>2 DEF LockInv, EntryHeld, Others
  <2>4. \A u \in Threads \ {t} : pc[u] # "close_destroy"
    BY <2>1 DEF LockInv, CloseHeld
  <2>5. CloseHeld'
    BY <2>1, <2>4 DEF CloseHeld, Others
  <2> QED
    BY <2>3, <2>5
<1>19. ASSUME NEW block, NEW S, CopyIn(t, block, S), pc[t] \in FileSection
       PROVE  EntryHeld' /\ CloseHeld'
  BY <1>19, <1>c, <1>u DEF CopyIn, Return, Goto, TypeOK, FileSection
<1>20. CASE Write(t)
  <2>1. CASE Goto(t, "write_alloc") /\ quiet /\ loc' = loc /\ pc[t] = "write"
    BY <2>1, EntryKept DEF Goto, TypeOK, FileSection
  <2>2. CASE UnlockFile(t) /\ Return(t) /\ pc[t] = "write"
             /\ UNCHANGED <<free_open_file_entries, open_file_table_lock>>
    BY <2>2, <1>u DEF Return, Goto, TypeOK, FileSection
  <2> QED
    BY <1>20, <2>1, <2>2, <1>19 DEF Write, At, FileSection, fileVars
<1>21. CASE WriteAlloc(t)
  <2>1. CASE /\ pc' = pc /\ quiet /\ pc[t] = "write_alloc"
             /\ loc' = [loc EXCEPT ![t].i = @ + 1]
    <3>1. loc'[t].fh = loc[t].fh
      BY <2>1 DEF TypeOK, LocType
    <3> QED
      BY <2>1, <3>1, EntryKept DEF FileSection
  <2>2. CASE UnlockFile(t) /\ Return(t) /\ pc[t] = "write_alloc"
             /\ UNCHANGED <<free_open_file_entries, open_file_table_lock>>
    BY <2>2, <1>u DEF Return, Goto, TypeOK, FileSection
  <2> QED
    BY <1>21, <2>1, <2>2, <1>19 DEF WriteAlloc, At, FileSection, fileVars
<1>22. CASE Read(t) /\ ~Crash
  BY <1>22, <1>u DEF Read, Return, Goto, At, TypeOK, FileSection
<1> QED
  BY <1>c, <1>2, <1>4, <1>5, <1>6, <1>7, <1>8, <1>9, <1>10, <1>11, <1>12, <1>13, <1>15,
     <1>16, <1>17, <1>18, <1>20, <1>21, <1>22 DEF Call, Continue

-----------------------------------------------------------------------------
(* The root inode.                                                         *)

LEMMA DirectoryKept ==
  ASSUME TypeOK, RootKept, NEW p, NEW inum \in Inodes, inum # Root, NEW s \in Slots
  PROVE  /\ add_dir_entry(p, inum)[s].d_inumber # Root
         /\ SlotsNamed(p) # {} => clear_dir_entry(p)[s].d_inumber # Root
<1>1. EntryFits(p) => Min(EmptySlots) \in Slots
  BY SlotMin DEF EntryFits, EmptySlots
<1>2. add_dir_entry(p, inum)[s].d_inumber # Root
  BY <1>1 DEF add_dir_entry, RootKept, TypeOK
<1>3. SlotsNamed(p) # {} => Min(SlotsNamed(p)) \in Slots
  BY SlotMin DEF SlotsNamed
<1>4. SlotsNamed(p) # {} => clear_dir_entry(p)[s].d_inumber # Root
  BY <1>3 DEF clear_dir_entry, EmptyEntry, RootKept, TypeOK, Root
<1> QED
  BY <1>2, <1>4

\* A step that keeps the directory, frees no inode and opens no file.
LEMMA RootUntouched ==
  ASSUME LockInv, NEW t \in Threads, Others(t),
         freeinode_ts' \subseteq freeinode_ts,
         \A s \in Slots : dir'[s].d_inumber # Root,
         UNCHANGED <<open_file_table, free_open_file_entries>>,
         pc'[t] \in {"open_follow", "open_add", "unlink_scan", "unlink_delete"}
           => loc'[t].inum # Root
  PROVE  RootKept'
BY DEF LockInv, RootKept, Others

\* A step that only moves handles: the files they refer to stay.
LEMMA RootUnopened ==
  ASSUME TypeOK, LockInv, NEW t \in Threads, Others(t),
         UNCHANGED <<freeinode_ts, dir>>,
         \A h \in Handles \ free_open_file_entries' :
           open_file_table'[h].of_inumber # Root,
         pc'[t] \notin {"open_follow", "open_add", "unlink_scan", "unlink_delete"}
  PROVE  RootKept'
BY DEF LockInv, RootKept, Others

LEMMA RootKeptStep ==
  ASSUME TypeOK, LockInv, NEW t \in Threads, Call(t) \/ Continue(t)
  PROVE  RootKept'
<1> USE OthersStep
<1> DEFINE next == loc'[t].inum
           kept == UNCHANGED <<freeinode_ts, dir, open_file_table, free_open_file_entries>>
           away == pc'[t] \notin {"open_follow", "open_add", "unlink_scan", "unlink_delete"}
<1>c. CASE Crash
  BY <1>c, CrashLocks DEF LockInv
<1>k. CASE kept /\ (away \/ next # Root)
  BY <1>k, RootUntouched DEF LockInv, RootKept
<1>1. ASSUME NEW op, NEW l, EnterRoot(t, op, l), op \in RootSection \ {"unlink_scan", "unlink_delete"}
      PROVE  kept /\ away
  BY <1>1 DEF EnterRoot, Goto, TypeOK, fileVars, inodeVars, RootSection
<1>2. CASE OpenEnter(t) \/ LinkEnter(t, "link") \/ LinkEnter(t, "sym_link") \/ UnlinkEnter(t)
  BY <1>2, <1>1, <1>k DEF OpenEnter, LinkEnter, UnlinkEnter, RootSection
<1>3. ASSUME Refuse(t) PROVE kept /\ away
  BY <1>3 DEF Refuse, Return, Goto, TypeOK, fileVars, inodeVars
<1>4. CASE OpenRefused(t) \/ OpenNoInode(t) \/ UnlinkRefused(t)
  BY <1>4, <1>3, <1>k DEF OpenRefused, OpenNoInode, UnlinkRefused
<1>5. CASE OpenLink(t) \/ OpenExisting(t) \/ UnlinkLink(t) \/ UnlinkLast(t)
  <2>1. Found(t) # Root
    BY NotRoot DEF Found
  <2>2. next = Found(t)
    BY <1>5 DEF OpenLink, OpenExisting, UnlinkLink, UnlinkLast, TypeOK, LocType
  <2>3. kept
    BY <1>5 DEF OpenLink, OpenExisting, UnlinkLink, UnlinkLast, fileVars, inodeVars
  <2> QED
    BY <2>1, <2>2, <2>3, <1>k
<1>6. CASE (OpenFollow(t) /\ ~Crash) \/ OpenAgain(t) \/ UnlinkOpen(t)
  BY <1>6, <1>k DEF OpenFollow, OpenAgain, UnlinkOpen, Return, Goto, TypeOK, fileVars, inodeVars
<1>7. CASE OpenCreate(t)
  <2>1. FirstFreeInode \in Inodes /\ FirstFreeInode # Root
    BY <1>7, FirstFreeType, NotRoot DEF OpenCreate
  <2>2. \A s \in Slots : dir'[s].d_inumber # Root
    BY <1>7, <2>1, DirectoryKept DEF OpenCreate, LockInv
  <2>3. away \/ next = FirstFreeInode
    BY <1>7 DEF OpenCreate, Return, Goto, TypeOK, LocType
  <2> QED
    BY <1>7, <2>1, <2>2, <2>3, RootUntouched DEF OpenCreate, fileVars
<1>8. CASE OpenAddTake(t)
  <2>1. loc[t].inum # Root /\ loc[t].i \in Handles
    BY <1>8 DEF OpenAddTake, At, LockInv, RootKept, TypeOK
  <2>2. \A h \in Handles \ free_open_file_entries' : open_file_table'[h].of_inumber # Root
    BY <1>8, <2>1 DEF OpenAddTake, LockInv, RootKept, TypeOK
  <2> QED
    BY <1>8, <2>2, RootUnopened DEF OpenAddTake, Return, Goto, TypeOK, inodeVars
<1>9. CASE OpenAddNext(t)
  <2>1. away \/ next # Root
    BY <1>9 DEF OpenAddNext, Return, Goto, At, TypeOK, LocType, LockInv, RootKept
  <2> QED
    BY <1>9, <2>1, <1>k DEF OpenAddNext, fileVars, inodeVars
<1>10. CASE Link(t) /\ ~Refuse(t)
  <2>1. tfs_lookup(loc[t].target) \in Inodes /\ tfs_lookup(loc[t].target) # Root
    BY <1>10, LookupType, NotRoot DEF Link, LinkRefused
  <2>2. \A s \in Slots : dir'[s].d_inumber # Root
    BY <1>10, <2>1, DirectoryKept DEF Link, LockInv
  <2> QED
    BY <1>10, <2>2, RootUntouched DEF Link, Return, Goto, TypeOK, fileVars
<1>11. CASE SymLink(t) /\ ~Refuse(t) /\ ~Crash
  <2>1. FirstFreeInode \in Inodes /\ FirstFreeInode # Root
    BY <1>11, FirstFreeType, NotRoot DEF SymLink
  <2>2. \A s \in Slots : dir'[s].d_inumber # Root
    BY <1>11, <2>1, DirectoryKept DEF SymLink, LockInv
  <2> QED
    BY <1>11, <2>2, RootUntouched DEF SymLink, Return, Goto, TypeOK, fileVars
<1>12. CASE UnlinkName(t)
  <2>1. tfs_lookup(loc[t].path) # -1
    BY <1>12 DEF UnlinkName, Found
  <2>2. SlotsNamed(loc[t].path) # {}
    BY <2>1 DEF tfs_lookup, find_in_dir, EntriesNamed, SlotsNamed
  <2>3. Found(t) \in Inodes /\ Found(t) # Root
    BY <1>12, LookupType, NotRoot DEF UnlinkName, Found
  <2>4. \A s \in Slots : dir'[s].d_inumber # Root
    BY <1>12, <2>2, <2>3, DirectoryKept DEF UnlinkName, LockInv
  <2> QED
    BY <1>12, <2>4, RootUntouched DEF UnlinkName, Return, Goto, TypeOK, fileVars
<1>13. CASE UnlinkScan(t)
  <2>1. next = loc[t].inum /\ loc[t].inum # Root
    BY <1>13 DEF UnlinkScan, At, TypeOK, LocType, LockInv, RootKept
  <2> QED
    BY <1>13, <2>1, <1>k DEF UnlinkScan, fileVars, inodeVars
<1>14. CASE UnlinkDelete(t) /\ ~Crash
  <2>1. loc[t].inum \in Inodes /\ loc[t].inum # Root
    BY <1>14 DEF UnlinkDelete, At, TypeOK, LocType, LockInv, RootKept
  <2>2. \A s \in Slots : dir'[s].d_inumber # Root
    BY <1>14, <2>1, DirectoryKept DEF UnlinkDelete, LockInv
  <2>3. Root \notin freeinode_ts' /\ away
    BY <1>14, <2>1 DEF UnlinkDelete, Return, Goto, TypeOK, LockInv, RootKept
  <2> QED
    BY <1>14, <2>2, <2>3 DEF UnlinkDelete, LockInv, RootKept, Others, fileVars
<1>15. ASSUME NEW op \in FileSection, NEW h, NEW l, NEW m, EnterFile(t, op, h, l, m), ~Crash
       PROVE  kept /\ away
  BY <1>15 DEF EnterFile, Goto, TypeOK, inodeVars, FileSection
<1>16. CASE CloseEnter(t) \/ TransferEnter(t, "write") \/ TransferEnter(t, "read")
  BY <1>16, <1>15, <1>c, <1>k DEF CloseEnter, TransferEnter, FileSection
<1>17. CASE CloseUnlock(t)
  BY <1>17, <1>k DEF CloseUnlock, Goto, TypeOK, inodeVars
<1>18. CASE CloseDestroy(t) /\ ~Crash
  <2>1. \A h \in Handles \ free_open_file_entries' : open_file_table'[h].of_inumber # Root
    BY <1>18 DEF CloseDestroy, LockInv, RootKept
  <2> QED
    BY <1>18, <2>1, RootUnopened DEF CloseDestroy, Return, Goto, TypeOK, inodeVars
<1>19. ASSUME NEW n, UNCHANGED <<freeinode_ts, dir, free_open_file_entries>>, away,
              open_file_table' = [open_file_table EXCEPT ![loc[t].fh].of_offset = n]
       PROVE  RootKept'
  <2>1. \A h \in Handles : open_file_table'[h].of_inumber = open_file_table[h].of_inumber
    BY <1>19 DEF TypeOK
  <2> QED
    BY <1>19, <2>1, RootUnopened DEF LockInv, RootKept
<1>20. ASSUME NEW block, NEW S, CopyIn(t, block, S) PROVE RootKept'
  <2>1. CASE ~Crash
    <3>1. away /\ UNCHANGED <<freeinode_ts, dir, free_open_file_entries>>
      BY <1>20, <2>1 DEF CopyIn, Return, Goto, TypeOK
    <3>2. PICK n : open_file_table' = [open_file_table EXCEPT ![loc[t].fh].of_offset = n]
      BY <1>20, <2>1 DEF CopyIn
    <3> QED
      BY <3>1, <3>2, <1>19
  <2> QED
    BY <2>1, <1>c
<1>21. CASE Write(t)
  BY <1>21, <1>20, <1>k DEF Write, Return, Goto, TypeOK, fileVars, inodeVars
<1>22. CASE WriteAlloc(t)
  BY <1>22, <1>20, <1>k DEF WriteAlloc, Return, Goto, At, TypeOK, fileVars, inodeVars
<1>23. CASE Read(t) /\ ~Crash
  <2>1. away /\ UNCHANGED <<freeinode_ts, dir, free_open_file_entries>>
    BY <1>23 DEF Read, Return, Goto, TypeOK, inodeVars
  <2>2. PICK n : open_file_table' = [open_file_table EXCEPT ![loc[t].fh].of_offset = n]
    BY <1>23 DEF Read
  <2> QED
    BY <2>1, <2>2, <1>19
<1> QED
  BY <1>c, <1>2, <1>3, <1>4, <1>5, <1>6, <1>7, <1>8, <1>9, <1>10, <1>11, <1>12, <1>13,
     <1>14, <1>16, <1>17, <1>18, <1>21, <1>22, <1>23, <1>k DEF Call, Continue

LEMMA LockInvInit == Init => LockInv
<1> SUFFICES ASSUME Init PROVE LockInv
  OBVIOUS
<1>1. RootExclusive
  BY RootInInodes, ThreadsAssumption DEF Init, RootExclusive, RootSection
<1>2. EntryHeld /\ CloseHeld
  BY DEF Init, EntryHeld, CloseHeld, FileSection
<1>3. RootKept
  <2>1. \A s \in Slots : dir[s].d_inumber # Root
    BY DEF Init, EmptyEntry, Root
  <2> QED
    BY <2>1 DEF Init, RootKept
<1> QED
  BY <1>1, <1>2, <1>3 DEF LockInv

\* The critical sections of the root inode and of the open file entries are
\* exclusive, and the root's lock is never taken as the lock of a file.
THEOREM LockInvCorrect == Spec => []LockInv
<1>1. TypeOK /\ LockInv /\ [Next]_vars => LockInv'
  <2> SUFFICES ASSUME TypeOK, LockInv, [Next]_vars PROVE LockInv'
    OBVIOUS
  <2>1. CASE UNCHANGED vars
    BY <2>1 DEF vars, fileVars, LockInv, RootExclusive, EntryHeld, CloseHeld, RootKept
  <2>2. ASSUME NEW t \in Threads, Call(t) \/ Continue(t) PROVE LockInv'
    BY <2>2, RootExclusiveStep, EntryStep, RootKeptStep DEF LockInv
  <2> QED
    BY <2>1, <2>2 DEF Next, Ended
<1> QED
  BY <1>1, LockInvInit, TypeCorrect, PTL DEF Spec

\* One thread at a time is in the critical section of the root inode, and no
\* return path leaves it with the lock held.
THEOREM RootExclusiveCorrect == Spec => []RootExclusive
<1>1. LockInv => RootExclusive
  BY DEF LockInv
<1> QED
  BY <1>1, LockInvCorrect, PTL

\* A thread that reads, writes or closes has its entry to itself, and nobody
\* frees the entry under it.
THEOREM EntryHeldCorrect == Spec => []EntryHeld
<1>1. LockInv => EntryHeld
  BY DEF LockInv
<1> QED
  BY <1>1, LockInvCorrect, PTL

-----------------------------------------------------------------------------
(* The names and the links.                                                *)

\* An entry is empty when it has no name and when it has no inode.
NamesInv == \A s \in Slots : dir[s].d_inumber = -1 <=> dir[s].d_name = NoPath

LinkInv == NamesInv /\ LinkCountExact /\ UnlinkPinned

-----------------------------------------------------------------------------
(* The entries of an inode.                                                *)

LEMMA SlotsFinite ==
  ASSUME NEW i PROVE IsFiniteSet(SlotsOf(i)) /\ SlotsOf(i) \in SUBSET Slots
<1>1. IsFiniteSet(Slots)
  BY FS_Interval, SizesAssumption DEF Slots
<1>2. SlotsOf(i) \in SUBSET Slots
  BY DEF SlotsOf
<1> QED
  BY <1>1, <1>2, FS_Subset

\* The entry a lookup finds is the one clear_dir_entry clears.
LEMMA LookupSlot ==
  ASSUME TypeOK, NamesInv, NEW p, tfs_lookup(p) # -1
  PROVE  /\ valid_pathname(p) /\ p # NoPath
         /\ SlotsNamed(p) # {} /\ Min(SlotsNamed(p)) \in SlotsNamed(p)
         /\ Min(SlotsNamed(p)) \in Slots
         /\ tfs_lookup(p) = dir[Min(SlotsNamed(p))].d_inumber
         /\ Min(SlotsNamed(p)) \in SlotsOf(tfs_lookup(p))
<1>1. valid_pathname(p) /\ EntriesNamed(p) # {}
  BY DEF tfs_lookup, find_in_dir
<1>2. p # NoPath
  BY <1>1, NamesAssumption DEF valid_pathname, Paths
<1>3. EntriesNamed(p) = SlotsNamed(p)
  BY <1>2 DEF EntriesNamed, SlotsNamed, NamesInv
<1>4. Min(SlotsNamed(p)) \in SlotsNamed(p) /\ Min(SlotsNamed(p)) \in Slots
  BY <1>1, <1>3, SlotMin DEF SlotsNamed
<1>5. tfs_lookup(p) = dir[Min(SlotsNamed(p))].d_inumber
  BY <1>1, <1>3 DEF tfs_lookup, find_in_dir
<1>6. Min(SlotsNamed(p)) \in SlotsOf(tfs_lookup(p))
  BY <1>4, <1>5 DEF SlotsOf
<1> QED
  BY <1>1, <1>2, <1>3, <1>4, <1>5, <1>6

\* Adding an entry gives its inode one more, and no other inode.
LEMMA SlotsAdded ==
  ASSUME TypeOK, NamesInv, NEW p, NEW inum \in Inodes, EntryFits(p),
         dir' = add_dir_entry(p, inum)
  PROVE  /\ NamesInv'
         /\ Cardinality(SlotsOf(inum)') = Cardinality(SlotsOf(inum)) + 1
         /\ SlotsOf(inum)' # {}
         /\ \A i \in Inodes \ {inum} : SlotsOf(i)' = SlotsOf(i)
<1> DEFINE m == Min(EmptySlots)
<1>1. m \in Slots /\ dir[m].d_inumber = -1
  BY SlotMin DEF EntryFits, EmptySlots
<1>2. dir' = [dir EXCEPT ![m] = [d_name |-> p, d_inumber |-> inum]]
  BY DEF add_dir_entry
<1>3. p # NoPath
  BY NamesAssumption DEF EntryFits, Paths
<1>4. inum # -1 /\ \A i \in Inodes : i # -1
  BY SizesAssumption DEF Inodes
<1> HIDE DEF m
<1>5. NamesInv'
  BY <1>1, <1>2, <1>3, <1>4 DEF NamesInv, TypeOK
<1>6. SlotsOf(inum)' = SlotsOf(inum) \cup {m} /\ m \notin SlotsOf(inum)
  BY <1>1, <1>2, <1>4 DEF SlotsOf, TypeOK
<1>7. \A i \in Inodes \ {inum} : SlotsOf(i)' = SlotsOf(i)
  BY <1>1, <1>2, <1>4 DEF SlotsOf, TypeOK
<1>8. Cardinality(SlotsOf(inum) \cup {m}) = Cardinality(SlotsOf(inum)) + 1
  BY <1>6, SlotsFinite, FS_AddElement
<1> QED
  BY <1>5, <1>6, <1>7, <1>8

\* Clearing an entry takes it from the inode it was an entry of.
LEMMA SlotsCleared ==
  ASSUME TypeOK, NamesInv, NEW p, SlotsNamed(p) # {}, dir' = clear_dir_entry(p)
  PROVE  /\ NamesInv'
         /\ \A i \in Inodes : SlotsOf(i)' = SlotsOf(i) \ {Min(SlotsNamed(p))}
<1> DEFINE m == Min(SlotsNamed(p))
<1>1. m \in Slots
  BY SlotMin DEF SlotsNamed
<1>2. dir' = [dir EXCEPT ![m] = EmptyEntry]
  BY DEF clear_dir_entry
<1>3. \A i \in Inodes : i # -1
  BY SizesAssumption DEF Inodes
<1> HIDE DEF m
<1>4. NamesInv'
  BY <1>1, <1>2 DEF NamesInv, TypeOK, EmptyEntry
<1>5. \A i \in Inodes : SlotsOf(i)' = SlotsOf(i) \ {m}
  BY <1>1, <1>2, <1>3 DEF SlotsOf, TypeOK, EmptyEntry
<1> QED
  BY <1>4, <1>5 DEF m

-----------------------------------------------------------------------------
(* What a step does to the two invariants.                                 *)

\* The fields of the inodes that the link counts depend on.
LinksKept == \A i \in Inodes :
  /\ inode_table'[i].i_node_type = inode_table[i].i_node_type
  /\ inode_table'[i].hard_link_counter = inode_table[i].hard_link_counter

LEMMA CountsKept ==
  ASSUME LinkInv, UNCHANGED <<freeinode_ts, dir>>, LinksKept
  PROVE  NamesInv' /\ LinkCountExact'
BY DEF LinkInv, NamesInv, LinkCountExact, LinksKept, SlotsOf, IsLink

\* A thread outside the section on the root leaves a deletion in progress alone.
LEMMA PinnedKept ==
  ASSUME LinkInv, NEW t \in Threads, Others(t), UNCHANGED <<freeinode_ts, dir>>,
         pc'[t] \in {"unlink_scan", "unlink_delete"} =>
           /\ pc[t] \in {"unlink_scan", "unlink_delete"}
           /\ loc'[t].path = loc[t].path /\ loc'[t].inum = loc[t].inum
  PROVE  UnlinkPinned'
<1> SUFFICES ASSUME NEW u \in Threads, pc'[u] \in {"unlink_scan", "unlink_delete"}
             PROVE  /\ Found(u)' = loc'[u].inum /\ loc'[u].inum \notin freeinode_ts'
                    /\ SlotsOf(loc[u].inum)' = {Min(SlotsNamed(loc[u].path))'}
  BY DEF UnlinkPinned
<1>1. /\ pc[u] \in {"unlink_scan", "unlink_delete"}
      /\ loc'[u].path = loc[u].path /\ loc'[u].inum = loc[u].inum
  BY DEF Others
<1>2. SlotsNamed(loc[u].path)' = SlotsNamed(loc[u].path)
  BY <1>1 DEF SlotsNamed
<1>3. EntriesNamed(loc[u].path)' = EntriesNamed(loc[u].path)
  BY <1>1 DEF EntriesNamed
<1>4. Found(u)' = Found(u)
  BY <1>1, <1>3 DEF Found, tfs_lookup, find_in_dir, valid_pathname
<1>5. SlotsOf(loc[u].inum)' = SlotsOf(loc[u].inum)
  BY <1>1 DEF SlotsOf
<1>6. Min(SlotsNamed(loc[u].path))' = Min(SlotsNamed(loc[u].path))
  BY <1>2
<1> QED
  BY <1>1, <1>4, <1>5, <1>6 DEF LinkInv, UnlinkPinned

\* While a thread is in the section on the root, no other deletes.
LEMMA Alone ==
  ASSUME LockInv, NEW t \in Threads, Others(t), pc[t] \in RootSection,
         pc'[t] \notin {"unlink_scan", "unlink_delete"}
  PROVE  UnlinkPinned'
<1>1. \A u \in Threads \ {t} : pc[u] \notin RootSection
  BY DEF LockInv, RootExclusive
<1> QED
  BY <1>1 DEF UnlinkPinned, Others, RootSection

LEMMA OnlyElement ==
  ASSUME NEW S, NEW m, IsFiniteSet(S), m \in S, Cardinality(S) <= 1
  PROVE  S = {m}
<1>1. Cardinality(S) \in Nat /\ Cardinality(S) # 0
  BY FS_CardinalityType, FS_EmptySet
<1>2. Cardinality(S) = 1
  BY <1>1
<1>3. PICK x : S = {x}
  BY <1>2, FS_Singleton
<1> QED
  BY <1>3

\* tfs_unlink begins to delete the inode of its name's only entry.
LEMMA PinnedBegun ==
  ASSUME TypeOK, LockInv, LinkInv, NEW t \in Threads, Others(t), pc[t] \in RootSection,
         UNCHANGED <<freeinode_ts, dir>>, Found(t) # -1,
         loc'[t].inum = Found(t), loc'[t].path = loc[t].path,
         Cardinality(SlotsOf(Found(t))) <= 1
  PROVE  UnlinkPinned'
<1>1. \A u \in Threads \ {t} : pc[u] \notin RootSection
  BY DEF LockInv, RootExclusive
<1> DEFINE p == loc[t].path
           m == Min(SlotsNamed(p))
<1>2. m \in SlotsOf(Found(t))
  BY LookupSlot DEF LinkInv, Found
<1>3. SlotsOf(Found(t)) = {m}
  BY <1>2, SlotsFinite, OnlyElement
<1>4. Found(t) \notin freeinode_ts
  <2>1. Found(t) \in Inodes /\ Found(t) # Root
    BY LookupType, NotRoot DEF Found
  <2> QED
    BY <1>2, <2>1 DEF LinkInv, LinkCountExact
<1>5. SlotsNamed(p)' = SlotsNamed(p)
  BY DEF SlotsNamed
<1>6. EntriesNamed(p)' = EntriesNamed(p)
  BY DEF EntriesNamed
<1>7. Found(t)' = Found(t)
  BY <1>6 DEF Found, tfs_lookup, find_in_dir, valid_pathname
<1>8. SlotsOf(loc[t].inum)' = SlotsOf(Found(t))
  BY DEF SlotsOf
<1>9. Min(SlotsNamed(p))' = m
  BY <1>5
<1>10. SlotsOf(loc[t].inum)' = {Min(SlotsNamed(loc[t].path))'}
  BY <1>3, <1>8, <1>9
<1>11. Found(t)' = loc'[t].inum /\ loc'[t].inum \notin freeinode_ts'
  BY <1>4, <1>7
<1>12. \A u \in Threads \ {t} : pc'[u] \notin {"unlink_scan", "unlink_delete"}
  BY <1>1 DEF Others, RootSection
<1> QED
  BY <1>10, <1>11, <1>12 DEF UnlinkPinned

-----------------------------------------------------------------------------
(* The steps that change the directory.                                    *)

\* A new inode and, if it fits, its only entry.
LEMMA CreateCounts ==
  ASSUME TypeOK, LockInv, LinkInv, NEW p, NEW node, freeinode_ts # {},
         node.hard_link_counter = 1,
         inode_table' = [inode_table EXCEPT ![FirstFreeInode] = node],
         dir' = add_dir_entry(p, FirstFreeInode),
         \/ freeinode_ts' = freeinode_ts \ {FirstFreeInode}
            /\ (EntryFits(p) \/ node.i_node_type = "symlink")
         \/ freeinode_ts' = freeinode_ts /\ ~EntryFits(p)
  PROVE  NamesInv' /\ LinkCountExact'
<1>1. PICK inum \in Inodes : inum = FirstFreeInode
  BY FirstFreeType
<1>2. inum \in freeinode_ts /\ inum # Root
  BY <1>1, FirstFreeType, NotRoot
<1>3. SlotsOf(inum) = {} /\ Cardinality(SlotsOf(inum)) = 0
  BY <1>2, FS_EmptySet DEF LinkInv, LinkCountExact
<1>4. /\ inode_table'[inum] = node
      /\ \A i \in Inodes \ {inum} : inode_table'[i] = inode_table[i]
  BY <1>1 DEF TypeOK
<1>5. CASE EntryFits(p)
  <2>1. /\ NamesInv'
        /\ Cardinality(SlotsOf(inum)') = Cardinality(SlotsOf(inum)) + 1
        /\ SlotsOf(inum)' # {}
        /\ \A i \in Inodes \ {inum} : SlotsOf(i)' = SlotsOf(i)
    BY <1>1, <1>5, SlotsAdded DEF LinkInv
  <2>2. freeinode_ts' = freeinode_ts \ {inum}
    BY <1>1, <1>5
  <2>3. ASSUME NEW i \in Inodes \ {Root}, i # inum
        PROVE  IF i \in freeinode_ts' THEN SlotsOf(i)' = {}
               ELSE IF IsLink(i)' THEN Cardinality(SlotsOf(i)') <= 1
               ELSE /\ inode_table'[i].hard_link_counter = Cardinality(SlotsOf(i)')
                    /\ SlotsOf(i)' # {}
    BY <1>4, <2>1, <2>2, <2>3 DEF LinkInv, LinkCountExact, IsLink
  <2>4. /\ inum \notin freeinode_ts' /\ SlotsOf(inum)' # {}
        /\ Cardinality(SlotsOf(inum)') = 1 /\ inode_table'[inum].hard_link_counter = 1
    BY <1>3, <1>4, <2>1, <2>2
  <2> QED
    BY <2>1, <2>3, <2>4 DEF LinkCountExact
<1>6. CASE ~EntryFits(p)
  <2>1. dir' = dir
    BY <1>6 DEF add_dir_entry
  <2>2. NamesInv' /\ \A i : SlotsOf(i)' = SlotsOf(i)
    BY <2>1 DEF LinkInv, NamesInv, SlotsOf
  <2>3. \A i \in Inodes \ {inum} : i \in freeinode_ts' <=> i \in freeinode_ts
    BY <1>1, <1>6
  <2>4. ASSUME NEW i \in Inodes \ {Root}, i # inum
        PROVE  IF i \in freeinode_ts' THEN SlotsOf(i)' = {}
               ELSE IF IsLink(i)' THEN Cardinality(SlotsOf(i)') <= 1
               ELSE /\ inode_table'[i].hard_link_counter = Cardinality(SlotsOf(i)')
                    /\ SlotsOf(i)' # {}
    BY <1>4, <2>2, <2>3, <2>4 DEF LinkInv, LinkCountExact, IsLink
  <2>5. inum \in freeinode_ts' \/ IsLink(inum)'
    BY <1>1, <1>2, <1>4, <1>6 DEF IsLink
  <2>6. SlotsOf(inum)' = {} /\ Cardinality(SlotsOf(inum)') <= 1
    BY <1>3, <2>2
  <2> QED
    BY <2>2, <2>4, <2>5, <2>6 DEF LinkCountExact
<1> QED
  BY <1>5, <1>6

\* A hard link more.
LEMMA LinkCounts ==
  ASSUME TypeOK, LockInv, LinkInv, NEW p, NEW target, tfs_lookup(target) # -1,
         ~IsLink(tfs_lookup(target)), EntryFits(p),
         inode_table' = [inode_table EXCEPT ![tfs_lookup(target)].hard_link_counter = @ + 1],
         dir' = add_dir_entry(p, tfs_lookup(target)),
         freeinode_ts' = freeinode_ts
  PROVE  NamesInv' /\ LinkCountExact'
<1>1. PICK inum \in Inodes : inum = tfs_lookup(target)
  BY LookupType
<1>2. inum # Root /\ SlotsOf(inum) # {}
  BY <1>1, NotRoot, LookupSlot DEF LinkInv
<1>3. /\ inum \notin freeinode_ts
      /\ inode_table[inum].hard_link_counter = Cardinality(SlotsOf(inum))
  BY <1>1, <1>2 DEF LinkInv, LinkCountExact
<1>4. /\ inode_table'[inum].hard_link_counter = inode_table[inum].hard_link_counter + 1
      /\ inode_table'[inum].i_node_type = inode_table[inum].i_node_type
      /\ \A i \in Inodes \ {inum} : inode_table'[i] = inode_table[i]
  BY <1>1 DEF TypeOK, InodeType
<1>5. /\ NamesInv'
      /\ Cardinality(SlotsOf(inum)') = Cardinality(SlotsOf(inum)) + 1
      /\ SlotsOf(inum)' # {}
      /\ \A i \in Inodes \ {inum} : SlotsOf(i)' = SlotsOf(i)
  BY <1>1, SlotsAdded DEF LinkInv
<1>6. ASSUME NEW i \in Inodes \ {Root}, i # inum
      PROVE  IF i \in freeinode_ts' THEN SlotsOf(i)' = {}
             ELSE IF IsLink(i)' THEN Cardinality(SlotsOf(i)') <= 1
             ELSE /\ inode_table'[i].hard_link_counter = Cardinality(SlotsOf(i)')
                  /\ SlotsOf(i)' # {}
  BY <1>4, <1>5, <1>6 DEF LinkInv, LinkCountExact, IsLink
<1>7. /\ inum \notin freeinode_ts' /\ ~IsLink(inum)' /\ SlotsOf(inum)' # {}
      /\ inode_table'[inum].hard_link_counter = Cardinality(SlotsOf(inum)')
  BY <1>1, <1>3, <1>4, <1>5 DEF IsLink
<1> QED
  BY <1>5, <1>6, <1>7 DEF LinkCountExact

\* A hard link less, not the last.
LEMMA NameCounts ==
  ASSUME TypeOK, LockInv, LinkInv, NEW p, tfs_lookup(p) # -1,
         ~IsLink(tfs_lookup(p)), inode_table[tfs_lookup(p)].hard_link_counter > 1,
         inode_table' = [inode_table EXCEPT ![tfs_lookup(p)].hard_link_counter = @ - 1],
         dir' = clear_dir_entry(p),
         freeinode_ts' = freeinode_ts
  PROVE  NamesInv' /\ LinkCountExact'
<1> DEFINE m == Min(SlotsNamed(p))
<1>1. PICK inum \in Inodes : inum = tfs_lookup(p)
  BY LookupType
<1>2. m \in Slots /\ m \in SlotsOf(inum) /\ dir[m].d_inumber = inum /\ SlotsNamed(p) # {}
  BY <1>1, LookupSlot DEF LinkInv
<1>3. NamesInv' /\ \A i \in Inodes : SlotsOf(i)' = SlotsOf(i) \ {m}
  BY <1>2, SlotsCleared DEF LinkInv
<1> HIDE DEF m
<1>4. inum # Root
  BY <1>1, NotRoot
<1>5. /\ inum \notin freeinode_ts
      /\ inode_table[inum].hard_link_counter = Cardinality(SlotsOf(inum))
  BY <1>1, <1>2, <1>4 DEF LinkInv, LinkCountExact
<1>6. /\ inode_table'[inum].hard_link_counter = inode_table[inum].hard_link_counter - 1
      /\ inode_table'[inum].i_node_type = inode_table[inum].i_node_type
      /\ \A i \in Inodes \ {inum} : inode_table'[i] = inode_table[i]
  BY <1>1 DEF TypeOK, InodeType
<1>7. Cardinality(SlotsOf(inum) \ {m}) = Cardinality(SlotsOf(inum)) - 1
  <2>1. m \in SlotsOf(inum) /\ IsFiniteSet(SlotsOf(inum))
    BY <1>2, SlotsFinite
  <2>2. \A S, x : IsFiniteSet(S) /\ x \in S => Cardinality(S \ {x}) = Cardinality(S) - 1
    BY FS_RemoveElement
  <2> QED
    BY <2>1, <2>2
<1>8. SlotsOf(inum)' # {}
  <2>1. Cardinality(SlotsOf(inum)') > 0
    <3>1. Cardinality(SlotsOf(inum)) \in Nat /\ Cardinality(SlotsOf(inum)) > 1
      BY <1>1, <1>5, SlotsFinite, FS_CardinalityType
    <3> QED
      BY <1>3, <1>7, <3>1
  <2> QED
    BY <2>1, FS_EmptySet
<1>9. \A i \in Inodes \ {inum} : SlotsOf(i)' = SlotsOf(i)
  BY <1>2, <1>3 DEF SlotsOf
<1>10. ASSUME NEW i \in Inodes \ {Root}, i # inum
       PROVE  IF i \in freeinode_ts' THEN SlotsOf(i)' = {}
              ELSE IF IsLink(i)' THEN Cardinality(SlotsOf(i)') <= 1
              ELSE /\ inode_table'[i].hard_link_counter = Cardinality(SlotsOf(i)')
                   /\ SlotsOf(i)' # {}
  BY <1>6, <1>9, <1>10 DEF LinkInv, LinkCountExact, IsLink
<1>11. /\ inum \notin freeinode_ts' /\ ~IsLink(inum)'
       /\ inode_table'[inum].hard_link_counter = Cardinality(SlotsOf(inum)')
  BY <1>1, <1>3, <1>5, <1>6, <1>7 DEF IsLink
<1> QED
  BY <1>3, <1>8, <1>10, <1>11 DEF LinkCountExact

\* The last entry and its inode.
LEMMA DeleteCounts ==
  ASSUME TypeOK, LockInv, LinkInv, NEW t \in Threads, pc[t] = "unlink_delete",
         freeinode_ts' = freeinode_ts \cup {loc[t].inum},
         dir' = clear_dir_entry(loc[t].path),
         SlotsNamed(loc[t].path) # {}, inode_table' = inode_table
  PROVE  NamesInv' /\ LinkCountExact'
<1> DEFINE m == Min(SlotsNamed(loc[t].path))
           inum == loc[t].inum
<1>1. inum \in Inodes /\ SlotsOf(inum) = {m}
  BY DEF LinkInv, UnlinkPinned, TypeOK, LocType
<1>2. NamesInv' /\ \A i \in Inodes : SlotsOf(i)' = SlotsOf(i) \ {m}
  BY SlotsCleared DEF LinkInv
<1> HIDE DEF m
<1>3. \A i \in Inodes : i # inum => SlotsOf(i)' = SlotsOf(i)
  BY <1>1, <1>2 DEF SlotsOf
<1>4. PICK n \in Inodes : n = inum
  BY <1>1
<1>5. SlotsOf(n)' = {}
  BY <1>1, <1>2, <1>4
<1>6. ASSUME NEW i \in Inodes \ {Root}, i # n
      PROVE  IF i \in freeinode_ts' THEN SlotsOf(i)' = {}
             ELSE IF IsLink(i)' THEN Cardinality(SlotsOf(i)') <= 1
             ELSE /\ inode_table'[i].hard_link_counter = Cardinality(SlotsOf(i)')
                  /\ SlotsOf(i)' # {}
  BY <1>3, <1>4, <1>6 DEF LinkInv, LinkCountExact, IsLink
<1> QED
  BY <1>2, <1>4, <1>5, <1>6 DEF LinkCountExact

-----------------------------------------------------------------------------
LEMMA LinkInvStep ==
  ASSUME TypeOK, LockInv, LinkInv, NEW t \in Threads, Call(t) \/ Continue(t)
  PROVE  LinkInv'
<1> USE OthersStep
<1> DEFINE same == UNCHANGED <<freeinode_ts, dir>>
           away == pc'[t] \notin {"unlink_scan", "unlink_delete"}
           done == pc[t] \in RootSection /\ away
<1>q. CASE same /\ LinksKept /\ away
  BY <1>q, CountsKept, PinnedKept DEF LinkInv
<1>d. CASE done /\ NamesInv' /\ LinkCountExact'
  BY <1>d, Alone DEF LinkInv
<1>s. UNCHANGED inode_table => LinksKept
  BY DEF LinksKept
<1>c. CASE Crash
  <2>1. UNCHANGED <<pc, loc, freeinode_ts, dir, inode_table>>
    BY <1>c DEF Crash
  <2> QED
    BY <2>1, <1>s, CountsKept, PinnedKept DEF LinkInv
<1>1. ASSUME NEW op \in {"open", "link", "sym_link", "unlink"}, NEW l, EnterRoot(t, op, l)
      PROVE  same /\ LinksKept /\ away
  BY <1>1, <1>s DEF EnterRoot, Goto, TypeOK, inodeVars
<1>2. CASE OpenEnter(t) \/ LinkEnter(t, "link") \/ LinkEnter(t, "sym_link") \/ UnlinkEnter(t)
  BY <1>2, <1>1, <1>q DEF OpenEnter, LinkEnter, UnlinkEnter
<1>3. ASSUME Refuse(t) PROVE same /\ LinksKept /\ away
  BY <1>3, <1>s DEF Refuse, Return, Goto, TypeOK, inodeVars
<1>4. CASE OpenRefused(t) \/ OpenNoInode(t) \/ UnlinkRefused(t)
  BY <1>4, <1>3, <1>q DEF OpenRefused, OpenNoInode, UnlinkRefused
<1>5. CASE OpenLink(t) \/ (OpenFollow(t) /\ ~Crash) \/ OpenAgain(t) \/ UnlinkOpen(t)
  BY <1>5, <1>q, <1>s
     DEF OpenLink, OpenFollow, OpenAgain, UnlinkOpen, Return, Goto, TypeOK, inodeVars
<1>6. CASE OpenExisting(t)
  <2>1. same /\ away
    BY <1>6 DEF OpenExisting, Goto, TypeOK
  <2>2. PICK n : inode_table' = [inode_table EXCEPT ![Found(t)].i_size = n]
    BY <1>6 DEF OpenExisting
  <2>3. LinksKept
    BY <2>2 DEF LinksKept, TypeOK, InodeType
  <2> QED
    BY <2>1, <2>3, <1>q
<1>7. CASE OpenCreate(t)
  <2>1. done
    BY <1>7 DEF OpenCreate, Return, Goto, At, TypeOK, RootSection
  <2>2. NewInode("file").hard_link_counter = 1
    BY DEF NewInode
  <2>3. NamesInv' /\ LinkCountExact'
    BY <1>7, <2>2, CreateCounts DEF OpenCreate
  <2> QED
    BY <2>1, <2>3, <1>d
<1>8. CASE OpenAddTake(t) \/ OpenAddNext(t)
  BY <1>8, <1>q, <1>s DEF OpenAddTake, OpenAddNext, Return, Goto, At, TypeOK, inodeVars
<1>9. CASE Link(t) /\ ~Refuse(t)
  <2>1. done
    BY <1>9 DEF Link, Return, Goto, At, TypeOK, RootSection
  <2>2. NamesInv' /\ LinkCountExact'
    BY <1>9, LinkCounts DEF Link, LinkRefused
  <2> QED
    BY <2>1, <2>2, <1>d
<1>10. CASE SymLink(t) /\ ~Refuse(t) /\ ~Crash
  <2>1. done
    BY <1>10 DEF SymLink, Return, Goto, At, TypeOK, RootSection
  <2> DEFINE node == [NewInode("symlink") EXCEPT !.sym_path = loc[t].target]
  <2>2. node.hard_link_counter = 1 /\ node.i_node_type = "symlink"
    BY DEF NewInode
  <2>3. /\ freeinode_ts # {} /\ freeinode_ts' = freeinode_ts \ {FirstFreeInode}
        /\ inode_table' = [inode_table EXCEPT ![FirstFreeInode] = node]
        /\ dir' = add_dir_entry(loc[t].path, FirstFreeInode)
    BY <1>10 DEF SymLink
  <2> HIDE DEF node
  <2>4. NamesInv' /\ LinkCountExact'
    BY <2>2, <2>3, CreateCounts
  <2> QED
    BY <2>1, <2>4, <1>d
<1>11. CASE UnlinkName(t)
  <2>1. done
    BY <1>11 DEF UnlinkName, Return, Goto, At, TypeOK, RootSection
  <2>2. NamesInv' /\ LinkCountExact'
    BY <1>11, NameCounts DEF UnlinkName, Found
  <2> QED
    BY <2>1, <2>2, <1>d
<1>12. CASE UnlinkLink(t) \/ UnlinkLast(t)
  <2>1. /\ same /\ UNCHANGED inode_table /\ pc[t] \in RootSection /\ Found(t) # -1
        /\ loc'[t].inum = Found(t) /\ loc'[t].path = loc[t].path
    BY <1>12 DEF UnlinkLink, UnlinkLast, At, TypeOK, LocType, inodeVars, RootSection
  <2>2. Cardinality(SlotsOf(Found(t))) <= 1
    <3>1. Found(t) \in Inodes /\ Found(t) # Root
      BY <2>1, LookupType, NotRoot DEF Found
    <3>2. SlotsOf(Found(t)) # {}
      BY <2>1, LookupSlot DEF Found, LinkInv
    <3>3. IsLink(Found(t)) \/ inode_table[Found(t)].hard_link_counter = 1
      BY <1>12 DEF UnlinkLink, UnlinkLast
    <3> QED
      BY <3>1, <3>2, <3>3 DEF LinkInv, LinkCountExact
  <2>3. UnlinkPinned'
    BY <2>1, <2>2, PinnedBegun
  <2> QED
    BY <2>1, <2>3, <1>s, CountsKept DEF LinkInv
<1>13. CASE UnlinkScan(t)
  <2>1. /\ same /\ UNCHANGED inode_table /\ pc[t] = "unlink_scan"
        /\ loc'[t].inum = loc[t].inum /\ loc'[t].path = loc[t].path
    BY <1>13 DEF UnlinkScan, At, TypeOK, LocType, inodeVars
  <2> QED
    BY <2>1, <1>s, CountsKept, PinnedKept DEF LinkInv
<1>14. CASE UnlinkDelete(t) /\ ~Crash
  <2>1. done
    BY <1>14 DEF UnlinkDelete, Return, Goto, At, TypeOK, RootSection
  <2>2. NamesInv' /\ LinkCountExact'
    BY <1>14, DeleteCounts DEF UnlinkDelete, At
  <2> QED
    BY <2>1, <2>2, <1>d
<1>15. ASSUME NEW op \in FileSection, NEW h, NEW l, NEW m, EnterFile(t, op, h, l, m), ~Crash
       PROVE  same /\ LinksKept /\ away
  BY <1>15, <1>s DEF EnterFile, Goto, TypeOK, inodeVars, FileSection
<1>16. CASE CloseEnter(t) \/ TransferEnter(t, "write") \/ TransferEnter(t, "read")
  BY <1>16, <1>15, <1>c, <1>q DEF CloseEnter, TransferEnter, FileSection
<1>17. CASE CloseUnlock(t)
  BY <1>17, <1>q, <1>s DEF CloseUnlock, Goto, TypeOK, inodeVars
<1>18. CASE CloseDestroy(t)
  BY <1>18, <1>q, <1>s, <1>c DEF CloseDestroy, Return, Goto, TypeOK, inodeVars
<1>19. ASSUME NEW block, NEW S, CopyIn(t, block, S) PROVE LinkInv'
  <2>1. CASE ~Crash
    <3>1. same /\ away
      BY <1>19, <2>1 DEF CopyIn, Return, Goto, TypeOK
    <3>2. PICK n : inode_table' = [inode_table EXCEPT ![FileOf(t)].i_data_block = block,
                                                     ![FileOf(t)].i_size = n]
      BY <1>19, <2>1 DEF CopyIn
    <3>3. LinksKept
      BY <3>2 DEF LinksKept, TypeOK, InodeType
    <3> QED
      BY <3>1, <3>3, <1>q
  <2> QED
    BY <2>1, <1>c
<1>20. CASE Write(t)
  BY <1>20, <1>19, <1>q, <1>s DEF Write, Return, Goto, TypeOK, inodeVars
<1>21. CASE WriteAlloc(t)
  BY <1>21, <1>19, <1>q, <1>s DEF WriteAlloc, Return, Goto, At, TypeOK, inodeVars
<1>22. CASE Read(t)
  BY <1>22, <1>q, <1>s, <1>c DEF Read, Return, Goto, TypeOK, inodeVars
<1> QED
  BY <1>2, <1>3, <1>4, <1>5, <1>6, <1>7, <1>8, <1>9, <1>10, <1>11, <1>12, <1>13, <1>14,
     <1>16, <1>17, <1>18, <1>20, <1>21, <1>22, <1>q, <1>c DEF Call, Continue

LEMMA LinkInvInit == Init => LinkInv
<1> SUFFICES ASSUME Init PROVE LinkInv
  OBVIOUS
<1>1. \A i \in Inodes : SlotsOf(i) = {}
  BY SizesAssumption DEF Init, SlotsOf, EmptyEntry, Inodes
<1>2. NamesInv
  BY DEF Init, NamesInv, EmptyEntry
<1>3. LinkCountExact
  BY <1>1 DEF Init, LinkCountExact
<1>4. UnlinkPinned
  BY DEF Init, UnlinkPinned
<1> QED
  BY <1>2, <1>3, <1>4 DEF LinkInv

\* The link counts, the names and the deletions in progress, together.
THEOREM LinkInvCorrect == Spec => []LinkInv
<1>1. TypeOK /\ LockInv /\ LinkInv /\ [Next]_vars => LinkInv'
  <2> SUFFICES ASSUME TypeOK, LockInv, LinkInv, [Next]_vars PROVE LinkInv'
    OBVIOUS
  <2>1. CASE UNCHANGED vars
    <3>1. UNCHANGED <<freeinode_ts, dir, inode_table, pc, loc>>
      BY <2>1 DEF vars
    <3>2. NamesInv' /\ LinkCountExact'
      BY <3>1, CountsKept DEF LinksKept
    <3>3. UnlinkPinned'
      <4>1. CASE Threads = {}
        BY <4>1 DEF UnlinkPinned
      <4>2. CASE Threads # {}
        <5>1. PICK t \in Threads : TRUE
          BY <4>2
        <5> QED
          BY <3>1, <5>1, PinnedKept DEF Others
      <4> QED
        BY <4>1, <4>2
    <3> QED
      BY <3>2, <3>3 DEF LinkInv
  <2>2. ASSUME NEW t \in Threads, Call(t) \/ Continue(t) PROVE LinkInv'
    BY <2>2, LinkInvStep
  <2> QED
    BY <2>1, <2>2 DEF Next, Ended
<1> QED
  BY <1>1, LinkInvInit, LockInvCorrect, TypeCorrect, PTL DEF Spec

\* tfs_link and tfs_unlink keep the link count of every file equal to the number
\* of its directory entries, and no entry refers to a free inode.
THEOREM LinkCountCorrect == Spec => []LinkCountExact
<1>1. LinkInv => LinkCountExact
  BY DEF LinkInv
<1> QED
  BY <1>1, LinkInvCorrect, PTL

\* tfs_unlink deletes the inode it looked up, once, and clears its only entry.
THEOREM UnlinkPinnedCorrect == Spec => []UnlinkPinned
<1>1. LinkInv => UnlinkPinned
  BY DEF LinkInv
<1> QED
  BY <1>1, LinkInvCorrect, PTL
=============================================================================
