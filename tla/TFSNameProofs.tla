--------------------------- MODULE TFSNameProofs ---------------------------
(* TFS implements NameSpace, for every value of the constants and every    *)
(* workload: whatever the calls do to the tables and the link counts, the  *)
(* names and the files change as NameSpace says.                           *)
EXTENDS TFSHandleProofs

Files == Inodes \ {Root}

-----------------------------------------------------------------------------
(* The entries a name has for a file.                                      *)

LEMMA EntriesFinite ==
  ASSUME NEW p, NEW i
  PROVE  IsFiniteSet(SlotsAt(p, i)) /\ Cardinality(SlotsAt(p, i)) \in Nat
<1>1. IsFiniteSet(Slots) /\ SlotsAt(p, i) \in SUBSET Slots
  BY FS_Interval, SizesAssumption DEF Slots, SlotsAt, EntriesNamed
<1> QED
  BY <1>1, FS_Subset, FS_CardinalityType

LEMMA EntriesType == Entries \in [Names -> [Files -> Nat]]
<1>1. \A p \in Names : \A i \in Files : Cardinality(SlotsAt(p, i)) \in Nat
  BY EntriesFinite
<1> QED
  BY <1>1 DEF Entries, Files

LEMMA EntriesPositive ==
  ASSUME NEW p \in Names, NEW i \in Files
  PROVE  Entries[p][i] > 0 <=> SlotsAt(p, i) # {}
<1>1. Entries[p][i] = Cardinality(SlotsAt(p, i))
  BY DEF Entries, Files
<1> QED
  BY <1>1, EntriesFinite, FS_EmptySet

\* A name that is found has an entry for the inode it is found at.
LEMMA FoundEntry ==
  ASSUME TypeOK, LockInv, LinkInv, NEW p, tfs_lookup(p) # -1
  PROVE  /\ p \in Names /\ tfs_lookup(p) \in Files
         /\ Min(SlotsNamed(p)) \in SlotsAt(p, tfs_lookup(p))
         /\ Entries[p][tfs_lookup(p)] > 0
<1>1. tfs_lookup(p) \in Files
  BY FoundTaken DEF Files
<1>2. /\ Min(SlotsNamed(p)) \in Slots /\ Min(SlotsNamed(p)) \in SlotsNamed(p) /\ p # NoPath
      /\ dir[Min(SlotsNamed(p))].d_inumber = tfs_lookup(p)
  BY LookupSlot DEF LinkInv
<1>3. p \in Names
  BY <1>2 DEF TypeOK, SlotsNamed
<1>4. Min(SlotsNamed(p)) \in SlotsAt(p, tfs_lookup(p))
  BY <1>2 DEF SlotsAt, EntriesNamed, SlotsNamed
<1>5. PICK i \in Files : i = tfs_lookup(p)
  BY <1>1
<1> QED
  BY <1>3, <1>4, <1>5, EntriesPositive

LEMMA EntryChanged ==
  ASSUME NEW p \in Names, NEW i \in Files, NEW n, Cardinality(SlotsAt(p, i)') = n,
         \A q \in Names : \A j \in Files : q # p \/ j # i => SlotsAt(q, j)' = SlotsAt(q, j)
  PROVE  Entries' = [Entries EXCEPT ![p][i] = n]
<1>1. \A q \in Names : \A j \in Files : Entries[q][j] = Cardinality(SlotsAt(q, j))
  BY DEF Entries, Files
<1>2. \A q \in Names : \A j \in Files : Entries'[q][j] = Cardinality(SlotsAt(q, j)')
  BY DEF Entries, Files
<1>3. /\ DOMAIN Entries = Names /\ DOMAIN Entries' = Names
      /\ Entries = [q \in DOMAIN Entries |-> Entries[q]]
      /\ Entries' = [q \in DOMAIN Entries' |-> Entries'[q]]
      /\ \A q \in Names :
           /\ DOMAIN Entries[q] = Files /\ Entries[q] = [j \in Files |-> Entries[q][j]]
           /\ DOMAIN Entries'[q] = Files /\ Entries'[q] = [j \in Files |-> Entries'[q][j]]
  BY DEF Entries, Files
<1> HIDE DEF Entries
<1>4. \A q \in Names \ {p} : Entries'[q] = Entries[q]
  <2>1. \A q \in Names \ {p} : \A j \in Files : Entries'[q][j] = Entries[q][j]
    BY <1>1, <1>2
  <2> QED
    BY <1>3, <2>1
<1>5. Entries'[p] = [Entries[p] EXCEPT ![i] = n]
  <2>1. Entries'[p][i] = n /\ \A j \in Files \ {i} : Entries'[p][j] = Entries[p][j]
    BY <1>1, <1>2
  <2> QED
    BY <1>3, <2>1
<1> QED
  BY <1>3, <1>4, <1>5

LEMMA EntryAdded ==
  ASSUME TypeOK, NEW p, NEW inum \in Files, EntryFits(p), dir' = add_dir_entry(p, inum)
  PROVE  p \in Names /\ Entries' = [Entries EXCEPT ![p][inum] = Entries[p][inum] + 1]
<1> DEFINE m == Min(EmptySlots)
<1>1. m \in Slots /\ dir[m].d_inumber = -1
  BY SlotMin DEF EntryFits, EmptySlots
<1>2. dir' = [dir EXCEPT ![m] = [d_name |-> p, d_inumber |-> inum]] /\ p \in Names
  BY DEF add_dir_entry, EntryFits
<1>3. \A i \in Files : i # -1
  BY SizesAssumption DEF Inodes, Files
<1> HIDE DEF m
<1>4. /\ dir'[m] = [d_name |-> p, d_inumber |-> inum]
      /\ \A s \in Slots \ {m} : dir'[s] = dir[s]
  BY <1>1, <1>2 DEF TypeOK
<1>5. SlotsAt(p, inum)' = SlotsAt(p, inum) \cup {m} /\ m \notin SlotsAt(p, inum)
  BY <1>1, <1>3, <1>4 DEF SlotsAt, EntriesNamed
<1>6. ASSUME NEW q \in Names, NEW i \in Files, q # p \/ i # inum
      PROVE  SlotsAt(q, i)' = SlotsAt(q, i)
  BY <1>1, <1>3, <1>4, <1>6 DEF SlotsAt, EntriesNamed
<1>7. Cardinality(SlotsAt(p, inum)') = Cardinality(SlotsAt(p, inum)) + 1
  BY <1>5, EntriesFinite, FS_AddElement
<1>8. Entries[p][inum] = Cardinality(SlotsAt(p, inum))
  BY <1>2 DEF Entries, Files
<1> QED
  BY <1>2, <1>6, <1>7, <1>8, EntryChanged

LEMMA EntryCleared ==
  ASSUME TypeOK, LockInv, LinkInv, NEW p, tfs_lookup(p) # -1, dir' = clear_dir_entry(p)
  PROVE  Entries' = [Entries EXCEPT ![p][tfs_lookup(p)] = Entries[p][tfs_lookup(p)] - 1]
<1> DEFINE m == Min(SlotsNamed(p))
<1>1. PICK inum \in Files : inum = tfs_lookup(p)
  BY FoundEntry
<1>2. m \in SlotsAt(p, inum) /\ p \in Names
  BY <1>1, FoundEntry
<1>3. dir' = [dir EXCEPT ![m] = EmptyEntry]
  BY DEF clear_dir_entry
<1> HIDE DEF m
<1>4. m \in Slots /\ dir[m].d_name = p /\ dir[m].d_inumber = inum
  BY <1>2 DEF SlotsAt, EntriesNamed
<1>5. dir'[m].d_inumber = -1 /\ \A s \in Slots \ {m} : dir'[s] = dir[s]
  BY <1>3, <1>4 DEF TypeOK, EmptyEntry
<1>6. SlotsAt(p, inum)' = SlotsAt(p, inum) \ {m}
  BY <1>4, <1>5 DEF SlotsAt, EntriesNamed
<1>7. ASSUME NEW q \in Names, NEW i \in Files, q # p \/ i # inum
      PROVE  SlotsAt(q, i)' = SlotsAt(q, i)
  BY <1>4, <1>5, <1>7 DEF SlotsAt, EntriesNamed
<1>8. Cardinality(SlotsAt(p, inum)') = Cardinality(SlotsAt(p, inum)) - 1
  <2>1. \A S, x : IsFiniteSet(S) /\ x \in S => Cardinality(S \ {x}) = Cardinality(S) - 1
    BY FS_RemoveElement
  <2> QED
    BY <1>2, <1>6, <2>1, EntriesFinite
<1>9. Entries[p][inum] = Cardinality(SlotsAt(p, inum))
  BY <1>2 DEF Entries, Files
<1> QED
  BY <1>1, <1>2, <1>7, <1>8, <1>9, EntryChanged

LEMMA EntriesKept == dir' = dir => Entries' = Entries
<1> SUFFICES ASSUME dir' = dir PROVE Entries' = Entries
  OBVIOUS
<1>1. \A p, i : SlotsAt(p, i)' = SlotsAt(p, i)
  BY DEF SlotsAt, EntriesNamed
<1> QED
  BY <1>1 DEF Entries

\* What the inodes are depends on these fields only.
LEMMA KindKept ==
  ASSUME NEW i, i \in freeinode_ts' <=> i \in freeinode_ts,
         i \notin freeinode_ts =>
           /\ inode_table'[i].i_node_type = inode_table[i].i_node_type
           /\ inode_table'[i].sym_path = inode_table[i].sym_path
  PROVE  KindOf(i)' = KindOf(i)
BY DEF KindOf, IsLink

LEMMA KindChanged ==
  ASSUME NEW inum \in Files, NEW kind, KindOf(inum)' = kind,
         \A i \in Files \ {inum} : KindOf(i)' = KindOf(i)
  PROVE  Kinds' = [Kinds EXCEPT ![inum] = kind]
BY DEF Kinds, Files

LEMMA AllKindsKept ==
  ASSUME \A i \in Files : KindOf(i)' = KindOf(i)
  PROVE  Kinds' = Kinds
BY DEF Kinds, Files

-----------------------------------------------------------------------------
(* Every step is one of NameSpace, or changes no name and no file.         *)

NamesStep == NamesOf!Next \/ UNCHANGED <<Entries, Kinds>>

LEMMA NamesFrame ==
  ASSUME TypeOK, NEW t \in Threads, Call(t) \/ Continue(t), ~NameStep(t)
  PROVE  UNCHANGED <<Entries, Kinds>>
<1>1. UNCHANGED <<freeinode_ts, dir>> /\ NodesKept
  BY NameFrame
<1>2. \A i \in Files : KindOf(i)' = KindOf(i)
  BY <1>1, KindKept DEF NodesKept, Files
<1> QED
  BY <1>1, <1>2, EntriesKept, AllKindsKept

\* A new inode, with the entry if it fits.
LEMMA NewKind ==
  ASSUME TypeOK, LockInv, freeinode_ts # {}, NEW node, 
         inode_table' = [inode_table EXCEPT ![FirstFreeInode] = node],
         freeinode_ts' = freeinode_ts \ {FirstFreeInode}
  PROVE  /\ FirstFreeInode \in Files
         /\ KindOf(FirstFreeInode) = [is |-> "nothing", target |-> -1]
         /\ Kinds' = [Kinds EXCEPT ![FirstFreeInode] =
              IF node.i_node_type = "symlink" THEN [is |-> "symlink", target |-> node.sym_path]
              ELSE [is |-> "file", target |-> -1]]
<1>1. PICK inum \in Files : inum = FirstFreeInode /\ inum \in freeinode_ts
  BY FirstFreeType, NotRoot DEF Files
<1>2. /\ inode_table'[inum] = node
      /\ \A i \in Files \ {inum} : inode_table'[i] = inode_table[i]
  BY <1>1 DEF TypeOK, Files
<1>3. \A i \in Files \ {inum} : KindOf(i)' = KindOf(i)
  BY <1>1, <1>2, KindKept
<1>4. KindOf(inum)' = IF node.i_node_type = "symlink" THEN [is |-> "symlink", target |-> node.sym_path]
                      ELSE [is |-> "file", target |-> -1]
  BY <1>1, <1>2 DEF KindOf, IsLink
<1>5. KindOf(inum) = [is |-> "nothing", target |-> -1]
  BY <1>1 DEF KindOf
<1> QED
  BY <1>1, <1>3, <1>4, <1>5, KindChanged

LEMMA FreeEntries ==
  ASSUME LinkInv, NEW i \in Files, i \in freeinode_ts, NEW p \in Names
  PROVE  Entries[p][i] = 0
<1>1. SlotsOf(i) = {}
  BY DEF LinkInv, LinkCountExact, Files
<1>2. SlotsAt(p, i) = {}
  BY <1>1 DEF SlotsOf, SlotsAt, EntriesNamed
<1> QED
  BY <1>2, FS_EmptySet DEF Entries, Files

LEMMA CreateStep ==
  ASSUME TypeOK, LockInv, LinkInv, NEW t \in Threads, OpenCreate(t)
  PROVE  NamesStep
<1> DEFINE p == loc[t].path
<1>1. /\ inode_table' = [inode_table EXCEPT ![FirstFreeInode] = NewInode("file")]
      /\ freeinode_ts # {} /\ Found(t) = -1
      /\ dir' = add_dir_entry(p, FirstFreeInode)
      /\ freeinode_ts' = IF EntryFits(p) THEN freeinode_ts \ {FirstFreeInode} ELSE freeinode_ts
  BY DEF OpenCreate
<1>2. PICK inum \in Files : inum = FirstFreeInode /\ inum \in freeinode_ts
  BY <1>1, FirstFreeType, NotRoot DEF Files
<1>3. CASE EntryFits(p)
  <2>1. p \in Names /\ Entries' = [Entries EXCEPT ![p][inum] = Entries[p][inum] + 1]
    BY <1>1, <1>2, <1>3, EntryAdded
  <2>2. NewInode("file").i_node_type = "file"
    BY DEF NewInode
  <2>3. /\ Kinds' = [Kinds EXCEPT ![inum] = [is |-> "file", target |-> -1]]
        /\ KindOf(inum) = [is |-> "nothing", target |-> -1]
    BY <1>1, <1>2, <1>3, <2>2, NewKind
  <2>4. EntriesNamed(p) = {}
    <3>1. ASSUME EntriesNamed(p) # {} PROVE FALSE
      <4>1. Min(EntriesNamed(p)) \in EntriesNamed(p)
        BY <3>1, SlotMin DEF EntriesNamed
      <4> QED
        BY <1>1, <2>1, <3>1, <4>1 DEF Found, tfs_lookup, find_in_dir, valid_pathname, EntriesNamed
    <3> QED
      BY <3>1
  <2>5. \A g \in Files : Entries[p][g] = 0
    <3>1. \A g \in Files : SlotsAt(p, g) = {}
      BY <2>4 DEF SlotsAt
    <3> QED
      BY <2>1, <3>1, FS_EmptySet DEF Entries, Files
  <2>6. Entries' = [Entries EXCEPT ![p][inum] = 1]
    <3>1. Entries[p][inum] + 1 = 1
      BY <2>5
    <3> QED
      BY <2>1, <3>1
  <2>7. Kinds[inum] = [is |-> "nothing", target |-> -1]
    BY <2>3 DEF Kinds, Files
  <2>8. NamesOf!Create(p, inum)
    BY <2>3, <2>5, <2>6, <2>7 DEF NamesOf!Create, NamesOf!Nothing, NamesOf!File, Files
  <2> QED
    BY <2>1, <2>8 DEF NamesStep, NamesOf!Next, Files
<1>4. CASE ~EntryFits(p)
  <2>1. dir' = dir /\ freeinode_ts' = freeinode_ts
    BY <1>1, <1>4 DEF add_dir_entry
  <2>2. \A i \in Files \ {inum} : inode_table'[i] = inode_table[i]
    BY <1>1, <1>2 DEF TypeOK
  <2>3. \A i \in Files : KindOf(i)' = KindOf(i)
    BY <1>2, <2>1, <2>2, KindKept
  <2> QED
    BY <2>1, <2>3, EntriesKept, AllKindsKept DEF NamesStep
<1> QED
  BY <1>3, <1>4

\* tfs_link gives a file that has an entry one more.
LEMMA LinkStep ==
  ASSUME TypeOK, LockInv, LinkInv, NEW t \in Threads, Link(t)
  PROVE  NamesStep
<1>1. CASE Refuse(t)
  <2>1. UNCHANGED <<inodeVars, dir>>
    BY <1>1 DEF Refuse
  <2>2. \A i \in Files : KindOf(i)' = KindOf(i)
    BY <2>1, KindKept DEF inodeVars
  <2> QED
    BY <2>1, <2>2, EntriesKept, AllKindsKept DEF NamesStep
<1>2. CASE ~Refuse(t)
  <2> DEFINE p == loc[t].path
             target == loc[t].target
  <2>1. /\ tfs_lookup(target) # -1 /\ ~IsLink(tfs_lookup(target)) /\ EntryFits(p)
        /\ dir' = add_dir_entry(p, tfs_lookup(target))
        /\ inode_table' = [inode_table EXCEPT ![tfs_lookup(target)].hard_link_counter = @ + 1]
        /\ freeinode_ts' = freeinode_ts
    BY <1>2 DEF Link, LinkRefused
  <2>2. PICK inum \in Files : inum = tfs_lookup(target)
    BY <2>1, FoundEntry
  <2>3. target \in Names /\ Entries[target][inum] > 0 /\ inum \notin freeinode_ts
    BY <2>1, <2>2, FoundEntry, FoundTaken
  <2>4. p \in Names /\ Entries' = [Entries EXCEPT ![p][inum] = Entries[p][inum] + 1]
    BY <2>1, <2>2, EntryAdded
  <2>5. \A i \in Files : /\ inode_table'[i].i_node_type = inode_table[i].i_node_type
                         /\ inode_table'[i].sym_path = inode_table[i].sym_path
    BY <2>1, <2>2 DEF TypeOK, InodeType, Files
  <2>6. Kinds' = Kinds
    BY <2>1, <2>5, KindKept, AllKindsKept
  <2>7. Kinds[inum] = [is |-> "file", target |-> -1]
    BY <2>1, <2>2, <2>3 DEF Kinds, KindOf, Files
  <2>8. NamesOf!Link(p, inum)
    BY <2>3, <2>4, <2>6, <2>7 DEF NamesOf!Link, NamesOf!Named, NamesOf!File
  <2> QED
    BY <2>4, <2>8 DEF NamesStep, NamesOf!Next, Files
<1> QED
  BY <1>1, <1>2

\* tfs_sym_link takes an inode for the link, with an entry if it fits.
LEMMA SymLinkStep ==
  ASSUME TypeOK, LockInv, LinkInv, NEW t \in Threads, SymLink(t)
  PROVE  NamesStep
<1>1. CASE Refuse(t) \/ Crash
  <2>1. UNCHANGED <<inodeVars, dir>>
    BY <1>1 DEF Refuse, Crash, inodeVars
  <2>2. \A i \in Files : KindOf(i)' = KindOf(i)
    BY <2>1, KindKept DEF inodeVars
  <2> QED
    BY <2>1, <2>2, EntriesKept, AllKindsKept DEF NamesStep
<1>2. CASE ~Refuse(t) /\ ~Crash
  <2> DEFINE p == loc[t].path
             q == loc[t].target
             node == [NewInode("symlink") EXCEPT !.sym_path = q]
  <2>1. /\ tfs_lookup(q) # -1 /\ freeinode_ts # {}
        /\ dir' = add_dir_entry(p, FirstFreeInode)
        /\ inode_table' = [inode_table EXCEPT ![FirstFreeInode] = node]
        /\ freeinode_ts' = freeinode_ts \ {FirstFreeInode}
    BY <1>2 DEF SymLink, LinkRefused
  <2>2. PICK inum \in Files : inum = FirstFreeInode /\ inum \in freeinode_ts
    BY <2>1, FirstFreeType, NotRoot DEF Files
  <2>3. node.i_node_type = "symlink" /\ node.sym_path = q
    BY DEF NewInode
  <2> HIDE DEF node
  <2>4. /\ Kinds' = [Kinds EXCEPT ![inum] = [is |-> "symlink", target |-> q]]
        /\ KindOf(inum) = [is |-> "nothing", target |-> -1]
    BY <2>1, <2>2, <2>3, NewKind
  <2>5. Kinds[inum] = [is |-> "nothing", target |-> -1]
    BY <2>4 DEF Kinds, Files
  <2>6. q \in Names /\ q \in Paths
    BY <2>1, FoundEntry DEF Paths
  <2>7. Kinds' # Kinds
    <3>1. Kinds'[inum] = [is |-> "symlink", target |-> q]
      BY <2>4 DEF Kinds, Files
    <3> QED
      BY <2>5, <3>1
  <2>8. CASE EntryFits(p)
    <3>1. p \in Names /\ Entries' = [Entries EXCEPT ![p][inum] = Entries[p][inum] + 1]
      BY <2>1, <2>2, <2>8, EntryAdded
    <3>2. Entries[p][inum] + 1 = 1
      BY <2>2, <3>1, FreeEntries
    <3>3. NamesOf!SymLink(p, inum, q)
      BY <2>4, <2>5, <3>1, <3>2 DEF NamesOf!SymLink, NamesOf!Nothing, NamesOf!LinkTo
    <3> QED
      BY <2>6, <2>7, <3>1, <3>3 DEF NamesStep, NamesOf!Next, Files
  <2>9. CASE ~EntryFits(p)
    <3>1. Entries' = Entries
      BY <2>1, <2>9, EntriesKept DEF add_dir_entry
    <3>2. NamesOf!SymLink(q, inum, q)
      BY <2>4, <2>5, <3>1 DEF NamesOf!SymLink, NamesOf!Nothing, NamesOf!LinkTo
    <3> QED
      BY <2>6, <2>7, <3>2 DEF NamesStep, NamesOf!Next, Files
  <2> QED
    BY <2>8, <2>9
<1> QED
  BY <1>1, <1>2

\* Every entry of a file is an entry of some name.
LEMMA NamedSlots ==
  ASSUME TypeOK, LinkInv, NEW i \in Files, NEW p \in Names, NamesOf!Named(i) = {p}
  PROVE  SlotsOf(i) = SlotsAt(p, i)
<1>1. ASSUME NEW s \in SlotsOf(i) PROVE s \in SlotsAt(p, i)
  <2>1. s \in Slots /\ dir[s].d_inumber = i /\ i # -1
    BY <1>1, SizesAssumption DEF SlotsOf, Files, Inodes
  <2>2. dir[s].d_name \in Names
    BY <2>1 DEF TypeOK, LinkInv, NamesInv
  <2>3. s \in SlotsAt(dir[s].d_name, i)
    BY <2>1 DEF SlotsAt, EntriesNamed
  <2>4. Entries[dir[s].d_name][i] > 0
    BY <2>2, <2>3, EntriesPositive
  <2>5. dir[s].d_name = p
    BY <2>2, <2>4 DEF NamesOf!Named
  <2> QED
    BY <2>3, <2>5
<1>2. SlotsAt(p, i) \subseteq SlotsOf(i)
  BY DEF SlotsAt, EntriesNamed, SlotsOf
<1> QED
  BY <1>1, <1>2

\* tfs_unlink of one of several links: the file keeps another entry.
LEMMA UnlinkNameStep ==
  ASSUME TypeOK, LockInv, LinkInv, NEW t \in Threads, UnlinkName(t)
  PROVE  NamesStep
<1> DEFINE p == loc[t].path
<1>1. /\ tfs_lookup(p) # -1 /\ ~IsLink(tfs_lookup(p))
      /\ inode_table[tfs_lookup(p)].hard_link_counter > 1
      /\ inode_table' = [inode_table EXCEPT ![tfs_lookup(p)].hard_link_counter = @ - 1]
      /\ dir' = clear_dir_entry(p) /\ freeinode_ts' = freeinode_ts
  BY DEF UnlinkName, Found
<1>2. PICK inum \in Files : inum = tfs_lookup(p)
  BY <1>1, FoundEntry
<1>3. p \in Names /\ Entries[p][inum] > 0 /\ inum \notin freeinode_ts
  BY <1>1, <1>2, FoundEntry, FoundTaken
<1>4. Entries' = [Entries EXCEPT ![p][inum] = Entries[p][inum] - 1]
  BY <1>1, <1>2, EntryCleared
<1>5. \A i \in Files : /\ inode_table'[i].i_node_type = inode_table[i].i_node_type
                       /\ inode_table'[i].sym_path = inode_table[i].sym_path
  BY <1>1, <1>2 DEF TypeOK, InodeType, Files
<1>6. Kinds' = Kinds
  BY <1>1, <1>5, KindKept, AllKindsKept
<1>7. ~(NamesOf!Named(inum) = {p} /\ Entries[p][inum] = 1)
  <2>1. SUFFICES ASSUME NamesOf!Named(inum) = {p}, Entries[p][inum] = 1 PROVE FALSE
    OBVIOUS
  <2>2. SlotsOf(inum) = SlotsAt(p, inum)
    BY <1>3, <2>1, NamedSlots
  <2>3. Entries[p][inum] = Cardinality(SlotsOf(inum))
    BY <1>3, <2>2 DEF Entries, Files
  <2>4. inode_table[inum].hard_link_counter = Cardinality(SlotsOf(inum))
    BY <1>1, <1>2, <1>3 DEF LinkInv, LinkCountExact, Files
  <2> QED
    BY <1>1, <1>2, <2>1, <2>3, <2>4
<1>8. NamesOf!Unlink(p, inum)
  BY <1>3, <1>4, <1>6, <1>7 DEF NamesOf!Unlink
<1>9. Entries' # Entries
  <2>1. Entries[p][inum] \in Nat
    BY <1>3, EntriesType
  <2>2. Entries'[p][inum] = Entries[p][inum] - 1
    BY <1>3, <1>4, EntriesType
  <2> QED
    BY <2>1, <2>2
<1> QED
  BY <1>3, <1>8, <1>9 DEF NamesStep, NamesOf!Next, Files

\* tfs_unlink of the last entry: the name is cleared and the inode is free.
LEMMA UnlinkDeleteStep ==
  ASSUME TypeOK, LockInv, LinkInv, NEW t \in Threads, UnlinkDelete(t)
  PROVE  NamesStep
<1>1. CASE Crash
  <2>1. UNCHANGED <<freeinode_ts, inode_table, dir>>
    BY <1>1 DEF Crash
  <2>2. \A i \in Files : KindOf(i)' = KindOf(i)
    BY <2>1, KindKept
  <2> QED
    BY <2>1, <2>2, EntriesKept, AllKindsKept DEF NamesStep
<1>2. CASE ~Crash
  <2> DEFINE p == loc[t].path
  <2>1. /\ freeinode_ts' = freeinode_ts \cup {loc[t].inum}
        /\ dir' = clear_dir_entry(p) /\ inode_table' = inode_table
    BY <1>2 DEF UnlinkDelete
  <2>2. /\ tfs_lookup(p) = loc[t].inum /\ loc[t].inum \notin freeinode_ts
        /\ SlotsOf(loc[t].inum) = {Min(SlotsNamed(p))}
    BY DEF UnlinkDelete, At, LinkInv, UnlinkPinned, Found
  <2>3. tfs_lookup(p) # -1
    BY <2>2, SizesAssumption DEF TypeOK, LocType, Inodes
  <2>4. PICK inum \in Files : inum = tfs_lookup(p)
    BY <2>3, FoundEntry
  <2>5. p \in Names /\ Entries[p][inum] > 0 /\ Min(SlotsNamed(p)) \in SlotsAt(p, inum)
    BY <2>3, <2>4, FoundEntry
  <2>6. Entries' = [Entries EXCEPT ![p][inum] = Entries[p][inum] - 1]
    BY <2>1, <2>3, <2>4, EntryCleared
  <2>7. Entries[p][inum] = 1
    <3>1. SlotsAt(p, inum) \subseteq SlotsOf(inum)
      BY DEF SlotsAt, EntriesNamed, SlotsOf
    <3>2. PICK m : m = Min(SlotsNamed(p))
      OBVIOUS
    <3>3. SlotsAt(p, inum) = {m}
      BY <2>2, <2>4, <2>5, <3>1, <3>2
    <3> QED
      BY <2>5, <3>3, FS_Singleton DEF Entries, Files
  <2>8. NamesOf!Named(inum) = {p}
    <3>1. ASSUME NEW r \in Names, Entries[r][inum] > 0 PROVE r = p
      <4>1. PICK s : s \in SlotsAt(r, inum)
        BY <3>1, EntriesPositive
      <4>2. s \in SlotsOf(inum) /\ dir[s].d_name = r
        BY <4>1 DEF SlotsAt, EntriesNamed, SlotsOf
      <4>3. dir[s].d_name = p
        BY <2>2, <2>4, <2>5, <4>2 DEF SlotsAt, EntriesNamed
      <4> QED
        BY <4>2, <4>3
    <3> QED
      BY <2>5, <3>1 DEF NamesOf!Named
  <2>9. Kinds' = [Kinds EXCEPT ![inum] = [is |-> "nothing", target |-> -1]]
    <3>1. KindOf(inum)' = [is |-> "nothing", target |-> -1]
      BY <2>1, <2>2, <2>4 DEF KindOf
    <3>2. \A i \in Files \ {inum} : KindOf(i)' = KindOf(i)
      BY <2>1, <2>2, <2>4, KindKept
    <3> QED
      BY <3>1, <3>2, KindChanged
  <2>10. NamesOf!Unlink(p, inum)
    BY <2>5, <2>6, <2>7, <2>8, <2>9 DEF NamesOf!Unlink, NamesOf!Nothing
  <2>11. Entries' # Entries
    <3>1. Entries'[p][inum] = 0
      BY <2>5, <2>6, <2>7, EntriesType
    <3> QED
      BY <2>7, <3>1
  <2> QED
    BY <2>5, <2>10, <2>11 DEF NamesStep, NamesOf!Next, Files
<1> QED
  BY <1>1, <1>2

LEMMA NamesInit == Init => NamesOf!Init
<1> SUFFICES ASSUME Init PROVE NamesOf!Init
  OBVIOUS
<1>1. \A p \in Names : \A i \in Files : Cardinality(SlotsAt(p, i)) = 0
  <2>1. \A p \in Names : \A i \in Files : SlotsAt(p, i) = {}
    BY DEF Init, EmptyEntry, SlotsAt, EntriesNamed
  <2> QED
    BY <2>1, FS_EmptySet
<1>2. \A i \in Files : KindOf(i) = [is |-> "nothing", target |-> -1]
  BY DEF Init, KindOf, Files
<1>3. Entries = [p \in Names |-> [f \in Files |-> 0]]
  BY <1>1 DEF Entries, Files
<1>4. Kinds = [f \in Files |-> [is |-> "nothing", target |-> -1]]
  BY <1>2 DEF Kinds, Files
<1> QED
  BY <1>3, <1>4 DEF NamesOf!Init, NamesOf!Nothing, Files

\* The calls of any number of threads, interleaved in any way, change names and
\* files as single steps of NameSpace: tfs_link and tfs_unlink never lose or
\* invent an entry, a file keeps its kind, and it is gone with its last entry.
THEOREM NamesKeptCorrect == Spec => NamesKept
<1>1. TypeOK /\ LockInv /\ LinkInv /\ [Next]_vars => [NamesOf!Next]_<<Entries, Kinds>>
  <2> SUFFICES ASSUME TypeOK, LockInv, LinkInv, [Next]_vars PROVE NamesStep
    BY DEF NamesStep
  <2>1. CASE UNCHANGED vars
    <3>1. UNCHANGED <<freeinode_ts, inode_table, dir>>
      BY <2>1 DEF vars
    <3>2. \A i \in Files : KindOf(i)' = KindOf(i)
      BY <3>1, KindKept
    <3> QED
      BY <3>1, <3>2, EntriesKept, AllKindsKept DEF NamesStep
  <2>2. ASSUME NEW t \in Threads, Call(t) \/ Continue(t) PROVE NamesStep
    <3>1. CASE ~NameStep(t)
      BY <2>2, <3>1, NamesFrame DEF NamesStep
    <3>2. CASE NameStep(t)
      BY <3>2, CreateStep, LinkStep, SymLinkStep, UnlinkNameStep, UnlinkDeleteStep DEF NameStep
    <3> QED
      BY <3>1, <3>2
  <2> QED
    BY <2>1, <2>2 DEF Next, Ended
<1> QED
  BY <1>1, NamesInit, TypeCorrect, LockInvCorrect, LinkInvCorrect, PTL
    DEF Spec, NamesKept, NamesOf!Spec
=============================================================================
