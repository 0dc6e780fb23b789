-------------------------- MODULE MBrokerLogProofs --------------------------
(* Boxes keep their publishers' order and whole lines, and a subscriber is *)
(* sent its box from the beginning, as long as no box is removed that is   *)
(* in use.  They are the logs of BoxLog while none is removed; the counts  *)
(* of the broker are then those of the sessions, until a box is full.      *)
EXTENDS MBrokerProofs

-----------------------------------------------------------------------------
(* Messages in the order of their publishers.                              *)

\* The places of a publisher's messages, and how many a file has.
FromFirst(cells, n, c) == {j \in 1 .. n : cells[j].from = c}
FromIn(cells, c) == Cardinality(FromFirst(cells, Len(cells), c))

\* The m messages after the first l are one publisher's.
RunOf(cells, l, m, c) == \A k \in 1 .. m : cells[l + k].from = c

\* Messages of one publisher that follow add to the number of its messages.
LEMMA FromTo ==
  ASSUME NEW cells, NEW c, NEW l \in Nat, NEW m \in Nat, RunOf(cells, l, m, c)
  PROVE  /\ Cardinality(FromFirst(cells, l, c)) \in Nat
         /\ Cardinality(FromFirst(cells, l + m, c)) = Cardinality(FromFirst(cells, l, c)) + m
<1> DEFINE A == {j \in 1 .. l : cells[j].from = c}
           B == l + 1 .. l + m
<1>1. IsFiniteSet(A) /\ Cardinality(A) \in Nat
  <2>1. IsFiniteSet(1 .. l) /\ A \subseteq 1 .. l
    BY FS_Interval
  <2>2. IsFiniteSet(A)
    BY <2>1, FS_Subset
  <2> QED
    BY <2>2, FS_CardinalityType
<1>2. IsFiniteSet(B) /\ Cardinality(B) = m
  <2>1. l + 1 \in Int /\ l + m \in Int
    OBVIOUS
  <2>2. IsFiniteSet(B) /\ Cardinality(B) = IF l + 1 > l + m THEN 0 ELSE l + m - (l + 1) + 1
    BY <2>1, FS_Interval
  <2> QED
    BY <2>2
<1>3. {j \in 1 .. l + m : cells[j].from = c} = A \cup B
  <2>1. \A j \in B : j - l \in 1 .. m /\ j = l + (j - l)
    OBVIOUS
  <2>2. \A j \in B : cells[j].from = c /\ j \in 1 .. l + m
    BY <2>1 DEF RunOf
  <2>3. \A j \in 1 .. l + m : j \in 1 .. l \/ j \in B
    OBVIOUS
  <2>4. 1 .. l \subseteq 1 .. l + m
    OBVIOUS
  <2> QED
    BY <2>2, <2>3, <2>4
<1>4. A \cap B = {}
  OBVIOUS
<1>5. Cardinality({}) = 0
  BY FS_EmptySet
<1>6. Cardinality(A \cup B) = Cardinality(A) + Cardinality(B) - Cardinality(A \cap B)
  BY <1>1, <1>2, FS_Union
<1>7. Cardinality(A \cup B) = Cardinality(A) + m
  <2> HIDE DEF A, B
  <2>1. Cardinality(A \cap B) = 0
    BY <1>4, <1>5
  <2>2. PICK a \in Nat : a = Cardinality(A)
    BY <1>1
  <2>3. Cardinality(A \cup B) = a + m - 0
    BY <1>2, <1>6, <2>1, <2>2
  <2> QED
    BY <2>2, <2>3
<1> QED
  BY <1>1, <1>3, <1>7 DEF FromFirst

\* How many messages of a publisher a file has is a number.
LEMMA FromInNat ==
  ASSUME NEW s \in Seq(Message), NEW c
  PROVE  FromIn(s, c) \in Nat
<1>1. Len(s) \in Nat /\ IsFiniteSet(1 .. Len(s)) /\ FromFirst(s, Len(s), c) \subseteq 1 .. Len(s)
  BY FS_Interval DEF FromFirst
<1>2. IsFiniteSet(FromFirst(s, Len(s), c))
  BY <1>1, FS_Subset
<1> QED
  BY <1>2, FS_CardinalityType DEF FromIn

\* Messages of one publisher, which come after those of the file.
Follow(messages, cells, c) ==
  \A k \in 1 .. Len(messages) :
    messages[k].from = c /\ messages[k].nr = FromIn(cells, c) + k

\* Messages that follow those of a file keep its publishers' order.
LEMMA OrderKept ==
  ASSUME NEW s \in Seq(Message), NEW t \in Seq(Message), NEW c, InOrder(s), Follow(t, s, c)
  PROVE  /\ InOrder(s \o t) /\ FromIn(s \o t, c) = FromIn(s, c) + Len(t)
         /\ \A d : d # c => FromIn(s \o t, d) = FromIn(s, d)
         /\ FromIn(s, c) \in Nat
<1>1. PICK u : u = s \o t
  OBVIOUS
<1>2. /\ u \in Seq(Message) /\ Len(u) = Len(s) + Len(t) /\ Len(s) \in Nat /\ Len(t) \in Nat
      /\ \A i \in 1 .. Len(s) : u[i] = s[i]
      /\ \A i \in 1 .. Len(t) : u[Len(s) + i] = t[i]
  BY <1>1, Appended
<1>d. DOMAIN u = 1 .. Len(u) /\ DOMAIN s = 1 .. Len(s)
  BY <1>2
<1>3. ASSUME NEW d, NEW i \in 0 .. Len(s)
      PROVE  FromFirst(u, i, d) = FromFirst(s, i, d)
  <2>1. \A j \in 1 .. i : j \in 1 .. Len(s)
    BY <1>2
  <2> QED
    BY <1>2, <2>1 DEF FromFirst
<1>4. Len(s) \in 0 .. Len(s)
  BY <1>2
<1>5. \A k \in 1 .. Len(t) : u[Len(s) + k].from = c /\ u[Len(s) + k].nr = FromIn(s, c) + k
  BY <1>2 DEF Follow
<1>6. ASSUME NEW m \in 0 .. Len(t)
      PROVE  /\ FromIn(s, c) \in Nat
             /\ Cardinality(FromFirst(u, Len(s) + m, c)) = FromIn(s, c) + m
  <2>1. \A k \in 1 .. m : k \in 1 .. Len(t)
    BY <1>2
  <2>a. PICK l \in Nat : l = Len(s)
    BY <1>2
  <2>b. RunOf(u, l, m, c)
    BY <1>5, <2>1, <2>a DEF RunOf
  <2>d. m \in Nat
    BY <1>2
  <2>c. /\ Cardinality(FromFirst(u, l, c)) \in Nat
        /\ Cardinality(FromFirst(u, l + m, c))
             = Cardinality(FromFirst(u, l, c)) + m
    BY <2>b, <2>d, FromTo
  <2>2. /\ Cardinality(FromFirst(u, Len(s), c)) \in Nat
        /\ Cardinality(FromFirst(u, Len(s) + m, c))
             = Cardinality(FromFirst(u, Len(s), c)) + m
    BY <2>a, <2>c
  <2>3. FromFirst(u, Len(s), c) = FromFirst(s, Len(s), c)
    BY <1>3, <1>4
  <2> QED
    BY <2>2, <2>3 DEF FromIn
<1>7. FromIn(s, c) \in Nat /\ FromIn(u, c) = FromIn(s, c) + Len(t)
  <2>1. Len(t) \in 0 .. Len(t)
    BY <1>2
  <2> QED
    BY <1>2, <1>6, <2>1 DEF FromIn
<1>8. ASSUME NEW d, d # c PROVE FromIn(u, d) = FromIn(s, d)
  <2>1. \A j \in 1 .. Len(u) : j \notin 1 .. Len(s) =>
          j - Len(s) \in 1 .. Len(t) /\ j = Len(s) + (j - Len(s))
    BY <1>2
  <2>2. \A j \in 1 .. Len(u) : j \notin 1 .. Len(s) => u[j].from # d
    BY <1>5, <1>8, <2>1
  <2>3. 1 .. Len(s) \subseteq 1 .. Len(u)
    BY <1>2
  <2>4. FromFirst(u, Len(u), d) = FromFirst(u, Len(s), d)
    BY <2>2, <2>3 DEF FromFirst
  <2> QED
    BY <1>3, <1>4, <2>4 DEF FromIn
<1>9. InOrder(u)
  <2> SUFFICES ASSUME NEW i \in 1 .. Len(u)
               PROVE  u[i].nr = 1 + Cardinality(FromFirst(u, i - 1, u[i].from))
    BY <1>d DEF InOrder, FromFirst
  <2>1. CASE i \in 1 .. Len(s)
    <3>1. i - 1 \in 0 .. Len(s)
      BY <1>2, <2>1
    <3>2. s[i].nr = 1 + Cardinality(FromFirst(s, i - 1, s[i].from))
      BY <2>1, <1>d DEF InOrder, FromFirst
    <3>3. FromFirst(u, i - 1, s[i].from) = FromFirst(s, i - 1, s[i].from)
      BY <1>3, <3>1
    <3> QED
      BY <1>2, <2>1, <3>2, <3>3
  <2>2. CASE i \notin 1 .. Len(s)
    <3>1. PICK k \in 1 .. Len(t) : i = Len(s) + k
      <4>1. i - Len(s) \in 1 .. Len(t) /\ i = Len(s) + (i - Len(s))
        BY <1>2, <2>2
      <4> QED
        BY <4>1
    <3>2. PICK m \in 0 .. Len(t) : m = k - 1
      BY <1>2
    <3>3. /\ i - 1 = Len(s) + m /\ FromIn(s, c) + k = 1 + (FromIn(s, c) + m)
      BY <1>2, <1>7, <3>1, <3>2
    <3>4. u[i].from = c /\ u[i].nr = FromIn(s, c) + k
      BY <1>5, <3>1
    <3>5. Cardinality(FromFirst(u, Len(s) + m, c)) = FromIn(s, c) + m
      BY <1>6
    <3> QED
      BY <3>3, <3>4, <3>5
  <2> QED
    BY <2>1, <2>2
<1> QED
  BY <1>1, <1>7, <1>8, <1>9

\* A line begins with the first of what is added.
EndsLines(cells) ==
  \A i \in DOMAIN cells :
    cells[i].end = "nul" => i > 1 /\ cells[i - 1].from = cells[i].from

\* Messages of one read keep the lines of a file whole.
LEMMA LinesAdded ==
  ASSUME NEW s \in Seq(Message), NEW t \in Seq(Message), NEW c, EndsLines(s),
         \A k \in 1 .. Len(t) : t[k].from = c,
         Len(t) > 0 => t[1].end = "newline"
  PROVE  EndsLines(s \o t)
<1>1. PICK u : u = s \o t
  OBVIOUS
<1>2. /\ u \in Seq(Message) /\ Len(u) = Len(s) + Len(t) /\ Len(s) \in Nat /\ Len(t) \in Nat
      /\ \A i \in 1 .. Len(s) : u[i] = s[i]
      /\ \A i \in 1 .. Len(t) : u[Len(s) + i] = t[i]
  BY <1>1, Appended
<1>d. DOMAIN u = 1 .. Len(u) /\ DOMAIN s = 1 .. Len(s)
  BY <1>2
<1>3. SUFFICES ASSUME NEW i \in 1 .. Len(u), u[i].end = "nul"
               PROVE  i > 1 /\ u[i - 1].from = u[i].from
  BY <1>1, <1>d DEF EndsLines
<1>4. CASE i \in 1 .. Len(s)
  <2>1. i > 1 /\ s[i - 1].from = s[i].from
    BY <1>2, <1>3, <1>4, <1>d DEF EndsLines
  <2>2. i - 1 \in 1 .. Len(s)
    BY <1>2, <1>4, <2>1
  <2> QED
    BY <1>2, <1>4, <2>1, <2>2
<1>5. CASE i \notin 1 .. Len(s)
  <2>1. PICK k \in 1 .. Len(t) : i = Len(s) + k
    <3>1. i - Len(s) \in 1 .. Len(t) /\ i = Len(s) + (i - Len(s))
      BY <1>2, <1>5
    <3> QED
      BY <3>1
  <2>2. u[i] = t[k]
    BY <1>2, <2>1
  <2>3. k # 1
    BY <1>2, <1>3, <2>2
  <2>4. PICK m \in 1 .. Len(t) : m = k - 1
    BY <1>2, <2>3
  <2>5. i - 1 = Len(s) + m /\ i > 1
    BY <1>2, <2>1, <2>4
  <2>6. u[i - 1] = t[m]
    BY <1>2, <2>5
  <2> QED
    BY <2>2, <2>5, <2>6
<1> QED
  BY <1>4, <1>5

-----------------------------------------------------------------------------
(* The files of the broker's file system.                                  *)

\* The messages of an inode.
CellsAt(i) == [c \in 1 .. inode_table[i].i_size |-> fs_data[inode_table[i].i_data_block][c]]

\* A name has the messages of its inode.
FilesAre ==
  \A p \in Names :
    /\ p \in DOMAIN dir => /\ dir[p] \in Inodes \ {Root} /\ tfs_lookup(p) = dir[p]
                           /\ FileCells(p) = CellsAt(dir[p])
    /\ p \notin DOMAIN dir => tfs_lookup(p) = -1 /\ FileCells(p) = <<>>

\* The names have inodes of their own, the inodes that are taken have blocks of their own,
\* and there is a message in every cell of a file.  An inode that is free keeps its size and
\* the number of a block that is free.
Used == Inodes \ freeinode_ts

FilesInv ==
  /\ \A p \in DOMAIN dir : dir[p] \notin freeinode_ts
  /\ \A p, q \in DOMAIN dir : dir[p] = dir[q] => p = q
  /\ \A i \in Used : inode_table[i].i_size > 0 => inode_table[i].i_data_block \notin free_blocks
  /\ \A i, j \in Used :
       inode_table[i].i_size > 0 /\ inode_table[j].i_size > 0
         /\ inode_table[i].i_data_block = inode_table[j].i_data_block => i = j
  /\ \A p \in Names : FileCells(p) \in Seq(Message)

\* What a name has is what its inode has, in a state and after a step.
LEMMA FilesThere == FSInv => FilesAre
<1> SUFFICES ASSUME FSInv, NEW p \in Names
             PROVE  /\ p \in DOMAIN dir => /\ dir[p] \in Inodes \ {Root} /\ tfs_lookup(p) = dir[p]
                                           /\ FileCells(p) = CellsAt(dir[p])
                    /\ p \notin DOMAIN dir => tfs_lookup(p) = -1 /\ FileCells(p) = <<>>
  BY DEF FilesAre
<1>1. dir \in [DOMAIN dir -> Inodes \ {Root}] /\ -1 \notin Inodes
  BY DEF FSInv, FSTypeOK, Inodes
<1>2. CASE p \in DOMAIN dir
  <2>1. dir[p] \in Inodes \ {Root} /\ tfs_lookup(p) = dir[p]
    BY <1>1, <1>2 DEF tfs_lookup, find_in_dir
  <2> QED
    BY <1>1, <1>2, <2>1 DEF FileCells, CellsAt
<1>3. CASE p \notin DOMAIN dir
  <2>1. tfs_lookup(p) = -1
    BY <1>3 DEF tfs_lookup, find_in_dir
  <2> QED
    BY <1>3, <2>1 DEF FileCells
<1> QED
  BY <1>2, <1>3

LEMMA FilesNext == FSInv' => FilesAre'
BY FilesThere, PTL

\* The size of a file is its number of messages.
LEMMA FileSize ==
  ASSUME FSInv, NEW i \in Inodes
  PROVE  /\ DOMAIN CellsAt(i) = 1 .. inode_table[i].i_size
         /\ inode_table[i].i_size \in 0 .. BLOCK_SIZE
         /\ CellsAt(i) \in Seq(Message) => Len(CellsAt(i)) = inode_table[i].i_size
         /\ \A c \in 1 .. inode_table[i].i_size :
              CellsAt(i)[c] = fs_data[inode_table[i].i_data_block][c]
<1>1. inode_table[i].i_size \in 0 .. BLOCK_SIZE /\ BLOCK_SIZE \in Nat
  BY FSAssumption DEF FSInv, FSTypeOK
<1>2. PICK n \in Nat : n = inode_table[i].i_size
  BY <1>1
<1>3. PICK f : f = CellsAt(i)
  OBVIOUS
<1>4. f = [c \in 1 .. n |-> fs_data[inode_table[i].i_data_block][c]]
  BY <1>2, <1>3 DEF CellsAt
<1>5. f \in Seq(Message) => Len(f) = n
  BY <1>4
<1> QED
  BY <1>1, <1>2, <1>3, <1>4, <1>5

\* No file changes.
LEMMA CellsSame ==
  ASSUME FilesInv, UNCHANGED fileVars
  PROVE  FilesInv' /\ \A p \in Names : FileCells(p)' = FileCells(p)
BY DEF FilesInv, Used, FileCells, tfs_lookup, find_in_dir, fileVars

\* Opening a file changes none, and a publisher's handle is at the end of it.
LEMMA OpenCells ==
  ASSUME FSInv, FSInv', FilesInv, NEW p \in Names, NEW mode, NEW fd \in Handles \cup {-1},
         tfs_open(p, mode, fd)
  PROVE  /\ FilesInv' /\ \A q \in Names : FileCells(q)' = FileCells(q)
         /\ \A h \in Handles : h # fd => OffsetOf(h)' = OffsetOf(h)
         /\ fd # -1 => OffsetOf(fd)' = IF "APPEND" \in mode THEN Len(FileCells(p)) ELSE 0
<1>0. FilesAre /\ FilesAre'
  BY FilesThere, FilesNext
<1>1. /\ open_file_table \in [Handles -> [of_inumber : Inodes, of_offset : Nat]]
      /\ freeinode_ts \subseteq Inodes \ {Root}
      /\ inode_table \in [Inodes -> [i_size : 0 .. BLOCK_SIZE, i_data_block : Blocks \cup {-1}]]
      /\ -1 \notin Handles /\ -1 \notin Inodes /\ DOMAIN dir \subseteq Names
  BY DEF FSInv, FSTypeOK, Handles, Inodes
<1>2. ASSUME NEW inum, NEW offset, add_to_open_file_table(inum, offset, fd)
      PROVE  /\ \A h \in Handles : h # fd => OffsetOf(h)' = OffsetOf(h)
             /\ fd # -1 => OffsetOf(fd)' = offset
  <2>1. \/ fd = -1 /\ UNCHANGED openVars
        \/ /\ fd \in free_open_file_entries /\ fd \in Handles
           /\ open_file_table' = [open_file_table EXCEPT
                ![fd] = [of_inumber |-> inum, of_offset |-> offset]]
    BY <1>2, HandleAdded
  <2> QED
    BY <1>1, <2>1 DEF OffsetOf, openVars
<1>3. CASE /\ tfs_lookup(p) # -1
           /\ add_to_open_file_table(tfs_lookup(p),
                IF "APPEND" \in mode THEN inode_table[tfs_lookup(p)].i_size ELSE 0, fd)
           /\ UNCHANGED fileVars
  <2>1. p \in DOMAIN dir /\ tfs_lookup(p) = dir[p] /\ FileCells(p) = CellsAt(dir[p])
        /\ dir[p] \in Inodes
    BY <1>0, <1>3 DEF FilesAre
  <2>2. FileCells(p) \in Seq(Message)
    BY DEF FilesInv
  <2>3. inode_table[tfs_lookup(p)].i_size = Len(FileCells(p))
    BY <2>1, <2>2, FileSize
  <2> QED
    BY <1>2, <1>3, <2>3, CellsSame
<1>4. CASE /\ tfs_lookup(p) = -1 /\ freeinode_ts # {}
           /\ inode_create(inode_alloc) /\ add_dir_entry(p, inode_alloc)
           /\ add_to_open_file_table(inode_alloc, 0, fd)
           /\ UNCHANGED <<free_blocks, fs_data>>
  <2>1. PICK i \in freeinode_ts : i = inode_alloc /\ i \in Inodes
    BY <1>4, FirstInode
  <2>2. /\ freeinode_ts' = freeinode_ts \ {i}
        /\ inode_table' = [inode_table EXCEPT ![i] = EmptyFile]
        /\ dir' = [q \in DOMAIN dir \cup {p} |-> IF q = p THEN i ELSE dir[q]]
    BY <1>4, <2>1 DEF inode_create, add_dir_entry
  <2>3. p \notin DOMAIN dir /\ FileCells(p) = <<>>
    BY <1>0, <1>1, <1>4 DEF FilesAre
  <2>4. \A q \in DOMAIN dir : dir'[q] = dir[q] /\ dir[q] # i /\ q \in DOMAIN dir'
    BY <2>1, <2>2, <2>3 DEF FilesInv
  <2>5. \A q \in DOMAIN dir : CellsAt(dir[q])' = CellsAt(dir[q])
    <3>1. \A q \in DOMAIN dir : inode_table'[dir[q]] = inode_table[dir[q]]
      BY <1>1, <2>1, <2>2, <2>4
    <3> QED
      BY <1>4, <2>4, <3>1 DEF CellsAt
  <2>6. \A q \in DOMAIN dir : FileCells(q)' = FileCells(q)
    BY <1>0, <1>1, <2>4, <2>5 DEF FilesAre
  <2>7. FileCells(p)' = <<>>
    <3>1. p \in DOMAIN dir' /\ dir'[p] = i
      BY <2>2
    <3>2. inode_table'[i].i_size = 0
      BY <1>1, <2>1, <2>2 DEF EmptyFile
    <3>3. CellsAt(i)' = <<>>
      BY <3>2 DEF CellsAt
    <3> QED
      BY <1>0, <3>1, <3>3 DEF FilesAre
  <2>8. \A q \in Names : q \notin DOMAIN dir /\ q # p => FileCells(q)' = <<>> /\ FileCells(q) = <<>>
    BY <1>0, <2>2 DEF FilesAre
  <2>9. \A q \in Names : FileCells(q)' = FileCells(q)
    BY <2>3, <2>6, <2>7, <2>8
  <2>10. FilesInv'
    <3>1. \A q \in DOMAIN dir' : dir'[q] \notin freeinode_ts'
      BY <2>2, <2>4 DEF FilesInv
    <3>2. \A q, r \in DOMAIN dir' : dir'[q] = dir'[r] => q = r
      BY <2>2, <2>3, <2>4 DEF FilesInv
    <3>3. inode_table'[i].i_size = 0 /\ \A j \in Inodes : j # i => inode_table'[j] = inode_table[j]
      BY <1>1, <2>1, <2>2 DEF EmptyFile
    <3>4. \A j \in Used' : inode_table'[j].i_size > 0 => j \in Used /\ j # i
      BY <2>2, <3>3 DEF Used
    <3>5. /\ \A j \in Used' : inode_table'[j].i_size > 0
                                 => inode_table'[j].i_data_block \notin free_blocks'
          /\ \A j, k \in Used' :
               inode_table'[j].i_size > 0 /\ inode_table'[k].i_size > 0
                 /\ inode_table'[j].i_data_block = inode_table'[k].i_data_block => j = k
      BY <1>4, <3>3, <3>4 DEF FilesInv, Used
    <3>6. \A q \in Names : FileCells(q)' \in Seq(Message)
      BY <2>9 DEF FilesInv
    <3> QED
      BY <3>1, <3>2, <3>5, <3>6 DEF FilesInv
  <2>11. Len(<<>>) = 0
    OBVIOUS
  <2> QED
    BY <1>2, <1>4, <2>3, <2>9, <2>10, <2>11
<1>5. CASE fd = -1 /\ UNCHANGED fsVars
  BY <1>5, CellsSame DEF fsVars, openVars, OffsetOf, fileVars
<1> QED
  BY <1>3, <1>4, <1>5 DEF tfs_open

\* Deleting a file takes away its messages, and no others.
LEMMA UnlinkCells ==
  ASSUME FSInv, FSInv', FilesInv, NEW p \in Names, p \in DOMAIN dir, tfs_unlink(p)
  PROVE  /\ FilesInv' /\ FileCells(p)' = <<>>
         /\ \A q \in Names : q # p => FileCells(q)' = FileCells(q)
         /\ \A h \in Handles : OffsetOf(h)' = OffsetOf(h)
<1>0. FilesAre /\ FilesAre'
  BY FilesThere, FilesNext
<1>1. PICK inum \in Inodes : inum = dir[p] /\ tfs_lookup(p) = inum
  BY <1>0 DEF FilesAre
<1>2. /\ freeinode_ts' = freeinode_ts \cup {inum}
      /\ free_blocks' = free_blocks \cup
           (IF inode_table[inum].i_size > 0 THEN {inode_table[inum].i_data_block} ELSE {})
      /\ dir' = [q \in DOMAIN dir \ {p} |-> dir[q]]
      /\ UNCHANGED <<inode_table, fs_data, openVars>>
  BY <1>1 DEF tfs_unlink, inode_delete, clear_dir_entry
<1>3. DOMAIN dir \subseteq Names
  BY DEF FSInv, FSTypeOK
<1>4. \A i \in Inodes : CellsAt(i)' = CellsAt(i)
  BY <1>2 DEF CellsAt
<1>5. \A q \in Names : q # p => FileCells(q)' = FileCells(q)
  <2> SUFFICES ASSUME NEW q \in Names, q # p PROVE FileCells(q)' = FileCells(q)
    OBVIOUS
  <2>1. CASE q \in DOMAIN dir
    <3>1. q \in DOMAIN dir' /\ dir'[q] = dir[q]
      BY <1>2, <2>1
    <3>2. dir[q] \in Inodes /\ FileCells(q) = CellsAt(dir[q])
      BY <1>0, <2>1 DEF FilesAre
    <3>3. FileCells(q)' = CellsAt(dir[q])'
      BY <1>0, <3>1 DEF FilesAre
    <3>4. PICK i \in Inodes : i = dir[q]
      BY <3>2
    <3>5. FileCells(q)' = CellsAt(i)'
      BY <3>1, <3>3, <3>4 DEF CellsAt
    <3> QED
      BY <1>4, <3>2, <3>4, <3>5
  <2>2. CASE q \notin DOMAIN dir
    <3>1. q \notin DOMAIN dir'
      BY <1>2, <2>2
    <3> QED
      BY <1>0, <2>2, <3>1 DEF FilesAre
  <2> QED
    BY <2>1, <2>2
<1>6. FileCells(p)' = <<>>
  <2>1. p \notin DOMAIN dir'
    BY <1>2
  <2> QED
    BY <1>0, <2>1 DEF FilesAre
<1>7. \A q \in Names : FileCells(q)' \in Seq(Message)
  <2>1. <<>> \in Seq(Message)
    OBVIOUS
  <2> QED
    BY <1>5, <1>6, <2>1 DEF FilesInv
<1>8. Used' = Used \ {inum} /\ inum \in Used
  BY <1>1, <1>2 DEF Used, FilesInv
<1>9. /\ \A q \in DOMAIN dir' : q \in DOMAIN dir /\ q # p /\ dir'[q] = dir[q] /\ dir[q] # inum
      /\ \A q \in DOMAIN dir' : dir'[q] \notin freeinode_ts'
      /\ \A q, r \in DOMAIN dir' : dir'[q] = dir'[r] => q = r
  BY <1>1, <1>2 DEF FilesInv
<1>10. \A i \in Used' : inode_table'[i].i_size > 0 => inode_table'[i].i_data_block \notin free_blocks'
  BY <1>2, <1>8 DEF FilesInv
<1>11. \A i, j \in Used' :
         inode_table'[i].i_size > 0 /\ inode_table'[j].i_size > 0
           /\ inode_table'[i].i_data_block = inode_table'[j].i_data_block => i = j
  BY <1>2, <1>8 DEF FilesInv
<1>12. FilesInv'
  BY <1>7, <1>9, <1>10, <1>11 DEF FilesInv
<1>13. \A h \in Handles : OffsetOf(h)' = OffsetOf(h)
  BY <1>2 DEF OffsetOf, openVars
<1> QED
  BY <1>5, <1>6, <1>12, <1>13

\* A file that is written at its end gets the messages that fit, after its own.
LEMMA WriteCells ==
  ASSUME FSInv, FSInv', FilesInv, NEW fd \in Handles, NEW p \in DOMAIN dir,
         open_file_table[fd].of_inumber = dir[p], OffsetOf(fd) = Len(FileCells(p)),
         NEW buffer \in Seq(Message), NEW n, tfs_write(fd, buffer, n), n > 0
  PROVE  /\ FilesInv' /\ n \in 1 .. Len(buffer) /\ dir' = dir
         /\ FileCells(p)' = FileCells(p) \o SubSeq(buffer, 1, n)
         /\ Len(FileCells(p)) + n <= BLOCK_SIZE
         /\ \A q \in Names : q # p => FileCells(q)' = FileCells(q)
         /\ \A h \in Handles : h # fd => OffsetOf(h)' = OffsetOf(h)
         /\ OffsetOf(fd)' = OffsetOf(fd) + n
<1>0. FilesAre /\ FilesAre'
  BY FilesThere, FilesNext
<1>1. /\ open_file_table \in [Handles -> [of_inumber : Inodes, of_offset : Nat]]
      /\ inode_table \in [Inodes -> [i_size : 0 .. BLOCK_SIZE, i_data_block : Blocks \cup {-1}]]
      /\ fs_data \in [Blocks -> [1 .. BLOCK_SIZE -> Message \cup {NoCell}]]
      /\ DOMAIN dir \subseteq Names /\ free_blocks \subseteq Blocks
      /\ \A i \in Inodes :
           inode_table[i].i_size > 0 => inode_table[i].i_data_block \in Blocks \ {0}
  BY DEF FSInv, FSTypeOK
<1>i. PICK inum \in Inodes : inum = dir[p] /\ inum \in Used
  BY <1>0, <1>1 DEF FilesAre, FilesInv, Used
<1> DEFINE size == inode_table[inum].i_size
           fresh == size = 0
           block == IF fresh THEN data_block_alloc ELSE inode_table[inum].i_data_block
           s == FileCells(p)
<1>2. /\ s = CellsAt(inum) /\ s \in Seq(Message) /\ Len(s) = size
      /\ size \in 0 .. BLOCK_SIZE
      /\ \A c \in 1 .. size : s[c] = fs_data[inode_table[inum].i_data_block][c]
  <2>1. s = CellsAt(inum) /\ s \in Seq(Message)
    BY <1>0, <1>1, <1>i DEF FilesAre, FilesInv
  <2> QED
    BY <2>1, FileSize
<1>3. BLOCK_SIZE \in Nat /\ Len(buffer) \in Nat
  BY FSAssumption
<1>4. /\ n \in 1 .. Len(buffer) /\ size + n <= BLOCK_SIZE
      /\ fresh => free_blocks # {}
      /\ free_blocks' = IF fresh THEN free_blocks \ {block} ELSE free_blocks
      /\ fs_data' = [fs_data EXCEPT ![block] = [c \in 1 .. BLOCK_SIZE |->
           IF c \in size + 1 .. size + n THEN buffer[c - size] ELSE @[c]]]
      /\ inode_table' = [inode_table EXCEPT ![inum] =
           [i_size |-> size + n, i_data_block |-> block]]
      /\ open_file_table' = [open_file_table EXCEPT ![fd].of_offset = size + n]
      /\ UNCHANGED <<freeinode_ts, dir>>
  <2>1. OffsetOf(fd) = size /\ InodeOf(fd) = inode_table[inum]
    BY <1>2, <1>i DEF InodeOf
  <2> DEFINE room == IF Len(buffer) + size > BLOCK_SIZE THEN BLOCK_SIZE - size ELSE Len(buffer)
  <2>2. /\ n = room /\ (fresh => free_blocks # {})
        /\ free_blocks' = IF fresh THEN free_blocks \ {block} ELSE free_blocks
        /\ fs_data' = [fs_data EXCEPT ![block] = [c \in 1 .. BLOCK_SIZE |->
             IF c \in size + 1 .. size + n THEN buffer[c - size] ELSE @[c]]]
        /\ inode_table' = [inode_table EXCEPT ![inum] =
             [i_size |-> IF size + n > size THEN size + n ELSE size,
              i_data_block |-> block]]
        /\ open_file_table' = [open_file_table EXCEPT ![fd].of_offset = size + n]
        /\ UNCHANGED <<freeinode_ts, dir>>
    BY <2>1, <1>i DEF tfs_write
  <2> HIDE DEF size, fresh, block
  <2>3. n \in 1 .. Len(buffer) /\ size + n <= BLOCK_SIZE /\ size + n > size
    BY <1>2, <1>3, <2>2
  <2> QED
    BY <2>2, <2>3
<1>5. /\ block \in Blocks /\ block # -1
      /\ fresh => block \in free_blocks
      /\ ~fresh => block = inode_table[inum].i_data_block
  <2>1. CASE fresh
    <3>1. data_block_alloc \in free_blocks
      BY <1>4, <2>1, FirstBlock
    <3> QED
      BY <1>1, <2>1, <3>1 DEF Blocks
  <2>2. CASE ~fresh
    BY <1>1, <1>2, <2>2 DEF Blocks
  <2> QED
    BY <2>1, <2>2
<1> HIDE DEF size, fresh, block, s
<1>6. /\ \A i \in Inodes : i # inum => inode_table'[i] = inode_table[i]
      /\ inode_table'[inum].i_size = size + n /\ inode_table'[inum].i_data_block = block
  BY <1>1, <1>2, <1>4
<1>7. /\ \A b \in Blocks : b # block => fs_data'[b] = fs_data[b]
      /\ \A c \in 1 .. BLOCK_SIZE :
           fs_data'[block][c] =
             IF c \in size + 1 .. size + n THEN buffer[c - size] ELSE fs_data[block][c]
  <2>1. PICK f : /\ f = [c \in 1 .. BLOCK_SIZE |-> IF c \in size + 1 .. size + n
                                                   THEN buffer[c - size] ELSE fs_data[block][c]]
                 /\ fs_data' = [fs_data EXCEPT ![block] = f]
    BY <1>4
  <2>2. fs_data'[block] = f
    BY <1>1, <1>5, <2>1
  <2> QED
    BY <1>1, <2>1, <2>2
<1>8. \A i \in Used : i # inum /\ inode_table[i].i_size > 0
        => inode_table[i].i_data_block # block /\ inode_table[i].i_data_block \in Blocks
  <2> SUFFICES ASSUME NEW i \in Used, i # inum, inode_table[i].i_size > 0
               PROVE  inode_table[i].i_data_block # block
    BY <1>1 DEF Used
  <2>1. CASE fresh
    BY <1>5, <2>1 DEF FilesInv
  <2>2. CASE ~fresh
    BY <1>i, <1>2, <1>5, <2>2 DEF FilesInv, fresh, size
  <2> QED
    BY <2>1, <2>2
<1>9. \A i \in Used : i # inum => CellsAt(i)' = CellsAt(i)
  <2> SUFFICES ASSUME NEW i \in Used, i # inum PROVE CellsAt(i)' = CellsAt(i)
    OBVIOUS
  <2>1. inode_table[i].i_size \in Nat /\ inode_table'[i] = inode_table[i]
    BY <1>1, <1>6 DEF Used
  <2>2. CASE inode_table[i].i_size = 0
    BY <2>1, <2>2 DEF CellsAt
  <2>3. CASE inode_table[i].i_size > 0
    <3>1. fs_data'[inode_table[i].i_data_block] = fs_data[inode_table[i].i_data_block]
      BY <1>7, <1>8, <2>3
    <3> QED
      BY <2>1, <3>1 DEF CellsAt
  <2> QED
    BY <2>1, <2>2, <2>3
<1>10. \A q \in Names : q # p => FileCells(q)' = FileCells(q)
  <2> SUFFICES ASSUME NEW q \in Names, q # p PROVE FileCells(q)' = FileCells(q)
    OBVIOUS
  <2>1. CASE q \in DOMAIN dir
    <3>1. dir[q] # inum /\ dir[q] \in Used
      BY <1>0, <1>i, <2>1 DEF FilesInv, FilesAre, Used
    <3>2. CellsAt(dir[q])' = CellsAt(dir[q])
      BY <1>4, <1>9, <3>1
    <3> QED
      BY <1>0, <1>4, <2>1, <3>2 DEF FilesAre
  <2>2. CASE q \notin DOMAIN dir
    BY <1>0, <1>4, <2>2 DEF FilesAre
  <2> QED
    BY <2>1, <2>2
<1>11. PICK t : t = SubSeq(buffer, 1, n)
  OBVIOUS
<1>12. t \in Seq(Message) /\ Len(t) = n /\ \A i \in 1 .. n : t[i] = buffer[i]
  <2>1. PICK m \in Nat : m = n
    BY <1>4
  <2>2. PICK h \in Nat : h = 0
    OBVIOUS
  <2>3. /\ SubSeq(buffer, h + 1, h + m) \in Seq(Message) /\ Len(SubSeq(buffer, h + 1, h + m)) = m
        /\ \A i \in 1 .. m : SubSeq(buffer, h + 1, h + m)[i] = buffer[h + i]
    <3>1. h + m <= Len(buffer)
      BY <1>3, <1>4, <2>1, <2>2
    <3> QED
      BY <3>1, PartAfter
  <2>4. h + 1 = 1 /\ h + m = n /\ \A i \in 1 .. m : h + i = i
    BY <2>1, <2>2
  <2> QED
    BY <1>11, <2>1, <2>3, <2>4
<1>13. FileCells(p)' = s \o t
  <2>1. FileCells(p)' = CellsAt(inum)'
    BY <1>0, <1>1, <1>4, <1>i DEF FilesAre
  <2>2. PICK u : u = CellsAt(inum)'
    OBVIOUS
  <2>3. PICK k \in Nat : k = size + n
    BY <1>2, <1>4
  <2>4. /\ s \o t \in Seq(Message) /\ Len(s \o t) = k
        /\ \A i \in 1 .. size : (s \o t)[i] = s[i]
        /\ \A i \in 1 .. n : (s \o t)[size + i] = t[i]
    <3>a. s \in Seq(Message) /\ t \in Seq(Message)
      BY <1>2, <1>12
    <3>1. /\ s \o t \in Seq(Message) /\ Len(s \o t) = Len(s) + Len(t)
          /\ \A i \in 1 .. Len(s) : (s \o t)[i] = s[i]
          /\ \A i \in 1 .. Len(t) : (s \o t)[Len(s) + i] = t[i]
      BY <3>a, Appended
    <3> QED
      BY <1>2, <1>12, <2>3, <3>1
  <2>5. \A i \in 1 .. k : u[i] = (s \o t)[i]
    <3> SUFFICES ASSUME NEW i \in 1 .. k PROVE u[i] = (s \o t)[i]
      OBVIOUS
    <3>1. u[i] = fs_data'[block][i] /\ i \in 1 .. BLOCK_SIZE
      BY <1>2, <1>3, <1>4, <1>6, <2>2, <2>3 DEF CellsAt
    <3>2. CASE i \in 1 .. size
      <4>1. i \notin size + 1 .. size + n /\ ~fresh
        BY <1>2, <3>2 DEF fresh
      <4>2. fs_data'[block][i] = fs_data[block][i]
        BY <1>7, <3>1, <4>1
      <4>3. s[i] = fs_data[block][i]
        BY <1>2, <1>5, <3>2, <4>1
      <4> QED
        BY <2>4, <3>1, <3>2, <4>2, <4>3
    <3>3. CASE i \notin 1 .. size
      <4>1. PICK j \in 1 .. n : j = i - size
        BY <1>2, <1>4, <2>3, <3>3
      <4>2. i = size + j /\ i \in size + 1 .. size + n
        BY <1>2, <1>4, <2>3, <4>1
      <4>3. fs_data'[block][i] = buffer[j]
        BY <1>7, <3>1, <4>1, <4>2
      <4> QED
        BY <1>12, <2>4, <3>1, <4>2, <4>3
    <3> QED
      BY <3>2, <3>3
  <2>6. u = [c \in 1 .. k |-> fs_data'[block][c]]
    BY <1>6, <2>2, <2>3 DEF CellsAt
  <2>7. \A i \in 1 .. k : (s \o t)[i] \in Message
    BY <2>4
  <2>8. u \in [1 .. k -> Message]
    BY <2>5, <2>6, <2>7
  <2>9. u \in Seq(Message) /\ Len(u) = k
    BY <2>3, <2>8, FunIsSeq
  <2>10. u = s \o t
    BY <2>4, <2>5, <2>9, SeqEqual
  <2> QED
    BY <2>1, <2>2, <2>10
<1>14. FilesInv'
  <2>1. \A q \in DOMAIN dir' : dir'[q] \notin freeinode_ts'
    BY <1>4 DEF FilesInv
  <2>2. \A q, r \in DOMAIN dir' : dir'[q] = dir'[r] => q = r
    BY <1>4 DEF FilesInv
  <2>3. \A i \in Used : inode_table'[i].i_size > 0
          => inode_table'[i].i_data_block \notin free_blocks'
    <3> SUFFICES ASSUME NEW i \in Used, inode_table'[i].i_size > 0
                 PROVE  inode_table'[i].i_data_block \notin free_blocks'
      OBVIOUS
    <3>1. CASE i # inum
      BY <1>4, <1>6, <3>1 DEF FilesInv, Used
    <3>2. CASE i = inum /\ fresh
      BY <1>4, <1>6, <3>2
    <3>3. CASE i = inum /\ ~fresh
      <4>1. inode_table[inum].i_size > 0
        BY <1>2, <3>3 DEF fresh, size
      <4> QED
        BY <1>2, <1>4, <1>5, <1>6, <3>3, <4>1 DEF FilesInv
    <3> QED
      BY <3>1, <3>2, <3>3
  <2>4. \A i, j \in Used :
          inode_table'[i].i_size > 0 /\ inode_table'[j].i_size > 0
            /\ inode_table'[i].i_data_block = inode_table'[j].i_data_block => i = j
    <3>1. \A i \in Used : i # inum /\ inode_table'[i].i_size > 0
            => inode_table'[i].i_data_block # block
      BY <1>6, <1>8 DEF Used
    <3>2. \A i, j \in Used : i # inum /\ j # inum =>
            (inode_table'[i].i_size > 0 /\ inode_table'[j].i_size > 0
            /\ inode_table'[i].i_data_block = inode_table'[j].i_data_block => i = j)
      BY <1>6 DEF FilesInv, Used
    <3> QED
      BY <1>6, <3>1, <3>2
  <2>5. \A q \in Names : FileCells(q)' \in Seq(Message)
    <3>1. s \o t \in Seq(Message)
      BY <1>2, <1>12
    <3> QED
      BY <1>10, <1>13, <3>1 DEF FilesInv
  <2> QED
    <3>1. Used' = Used
      BY <1>4 DEF Used
    <3> QED
      BY <2>1, <2>2, <2>3, <2>4, <2>5, <3>1 DEF FilesInv
<1>15. /\ \A h \in Handles : h # fd => OffsetOf(h)' = OffsetOf(h)
       /\ OffsetOf(fd)' = size + n
  BY <1>1, <1>4 DEF OffsetOf
<1> QED
  BY <1>2, <1>4, <1>10, <1>11, <1>13, <1>14, <1>15 DEF s

\* The beginnings of a sequence.
LEMMA Beginning ==
  ASSUME NEW S, NEW s \in Seq(S), NEW m \in Nat, m <= Len(s)
  PROVE  /\ SubSeq(s, 1, m) \in Seq(S) /\ Len(SubSeq(s, 1, m)) = m
         /\ \A i \in 1 .. m : SubSeq(s, 1, m)[i] = s[i]
<1>1. PICK h \in Nat : h = 0
  OBVIOUS
<1>2. h + m <= Len(s)
  BY <1>1
<1>3. /\ SubSeq(s, h + 1, h + m) \in Seq(S) /\ Len(SubSeq(s, h + 1, h + m)) = m
      /\ \A i \in 1 .. m : SubSeq(s, h + 1, h + m)[i] = s[h + i]
  BY <1>2, PartAfter
<1>4. h + 1 = 1 /\ h + m = m /\ \A i \in 1 .. m : h + i = i
  BY <1>1
<1> QED
  BY <1>3, <1>4

\* What is added to a sequence does not change its beginnings.
LEMMA BeginningKept ==
  ASSUME NEW S, NEW s \in Seq(S), NEW t \in Seq(S), NEW m \in Nat, m <= Len(s)
  PROVE  SubSeq(s \o t, 1, m) = SubSeq(s, 1, m)
<1>1. PICK u \in Seq(S) : u = s \o t
  BY Appended
<1>2. Len(u) = Len(s) + Len(t) /\ Len(s) \in Nat /\ Len(t) \in Nat
      /\ \A i \in 1 .. Len(s) : u[i] = s[i]
  BY <1>1, Appended
<1>3. m <= Len(u)
  BY <1>2
<1>a. /\ SubSeq(u, 1, m) \in Seq(S) /\ Len(SubSeq(u, 1, m)) = m
      /\ \A i \in 1 .. m : SubSeq(u, 1, m)[i] = u[i]
  BY <1>3, Beginning
<1>4. PICK a \in Seq(S) : a = SubSeq(u, 1, m) /\ Len(a) = m /\ \A i \in 1 .. m : a[i] = u[i]
  BY <1>a
<1>b. /\ SubSeq(s, 1, m) \in Seq(S) /\ Len(SubSeq(s, 1, m)) = m
      /\ \A i \in 1 .. m : SubSeq(s, 1, m)[i] = s[i]
  BY Beginning
<1>5. PICK b \in Seq(S) : b = SubSeq(s, 1, m) /\ Len(b) = m /\ \A i \in 1 .. m : b[i] = s[i]
  BY <1>b
<1>6. \A i \in 1 .. m : i \in 1 .. Len(s)
  BY <1>2
<1>7. \A i \in 1 .. Len(a) : a[i] = b[i]
  BY <1>2, <1>4, <1>5, <1>6
<1>8. a = b
  BY <1>4, <1>5, <1>7, SeqEqual
<1> QED
  BY <1>1, <1>4, <1>5, <1>8

\* A beginning and what follows it are a longer beginning.
LEMMA BeginningGrows ==
  ASSUME NEW S, NEW s \in Seq(S), NEW m \in Nat, NEW k \in Nat, m + k <= Len(s)
  PROVE  SubSeq(s, 1, m) \o SubSeq(s, m + 1, m + k) = SubSeq(s, 1, m + k)
<1>1. m <= Len(s) /\ m + k \in Nat
  OBVIOUS
<1>a. /\ SubSeq(s, 1, m) \in Seq(S) /\ Len(SubSeq(s, 1, m)) = m
      /\ \A i \in 1 .. m : SubSeq(s, 1, m)[i] = s[i]
  BY <1>1, Beginning
<1>2. PICK a \in Seq(S) : a = SubSeq(s, 1, m) /\ Len(a) = m /\ \A i \in 1 .. m : a[i] = s[i]
  BY <1>a
<1>b. /\ SubSeq(s, m + 1, m + k) \in Seq(S) /\ Len(SubSeq(s, m + 1, m + k)) = k
      /\ \A i \in 1 .. k : SubSeq(s, m + 1, m + k)[i] = s[m + i]
  BY PartAfter
<1>3. PICK b \in Seq(S) : /\ b = SubSeq(s, m + 1, m + k) /\ Len(b) = k
                          /\ \A i \in 1 .. k : b[i] = s[m + i]
  BY <1>b
<1>n. PICK n \in Nat : n = m + k /\ n <= Len(s)
  OBVIOUS
<1>c. /\ SubSeq(s, 1, n) \in Seq(S) /\ Len(SubSeq(s, 1, n)) = n
      /\ \A i \in 1 .. n : SubSeq(s, 1, n)[i] = s[i]
  BY <1>n, Beginning
<1>4. PICK c \in Seq(S) : /\ c = SubSeq(s, 1, m + k) /\ Len(c) = m + k
                          /\ \A i \in 1 .. m + k : c[i] = s[i]
  BY <1>n, <1>c
<1>d. /\ a \o b \in Seq(S) /\ Len(a \o b) = Len(a) + Len(b)
      /\ \A i \in 1 .. Len(a) : (a \o b)[i] = a[i]
      /\ \A i \in 1 .. Len(b) : (a \o b)[Len(a) + i] = b[i]
  BY Appended
<1>5. PICK d \in Seq(S) : /\ d = a \o b /\ Len(d) = Len(a) + Len(b)
                          /\ \A i \in 1 .. Len(a) : d[i] = a[i]
                          /\ \A i \in 1 .. Len(b) : d[Len(a) + i] = b[i]
  BY <1>d
<1>6. \A i \in 1 .. Len(d) : d[i] = c[i]
  <2> SUFFICES ASSUME NEW i \in 1 .. Len(d) PROVE d[i] = c[i]
    OBVIOUS
  <2>1. i \in 1 .. m + k
    BY <1>2, <1>3, <1>5
  <2>2. CASE i \in 1 .. m
    BY <1>2, <1>4, <1>5, <2>1, <2>2
  <2>3. CASE i \notin 1 .. m
    <3>1. PICK j \in 1 .. k : j = i - m
      BY <2>1, <2>3
    <3>2. i = m + j
      BY <2>1, <3>1
    <3>3. d[i] = b[j]
      BY <1>2, <1>3, <1>5, <3>2
    <3> QED
      BY <1>3, <1>4, <2>1, <3>2, <3>3
  <2> QED
    BY <2>2, <2>3
<1>7. d = c
  BY <1>2, <1>3, <1>4, <1>5, <1>6, SeqEqual
<1> QED
  BY <1>2, <1>3, <1>4, <1>5, <1>7

\* A read gives the next messages of the file.
LEMMA ReadCells ==
  ASSUME FSInv, FilesInv, NEW fd \in Handles, NEW p \in DOMAIN dir,
         open_file_table[fd].of_inumber = dir[p], OffsetOf(fd) <= Len(FileCells(p)),
         NEW len \in Nat, tfs_read(fd, len)
  PROVE  /\ ToRead(fd, len) \in 0 .. len /\ OffsetOf(fd) \in Nat
         /\ OffsetOf(fd) + ToRead(fd, len) <= Len(FileCells(p))
         /\ Contents(fd, len) =
              SubSeq(FileCells(p), OffsetOf(fd) + 1, OffsetOf(fd) + ToRead(fd, len))
         /\ Len(Contents(fd, len)) = ToRead(fd, len)
         /\ OffsetOf(fd)' = OffsetOf(fd) + ToRead(fd, len)
         /\ \A h \in Handles : h # fd => OffsetOf(h)' = OffsetOf(h)
         /\ UNCHANGED fileVars
<1>1. /\ open_file_table \in [Handles -> [of_inumber : Inodes, of_offset : Nat]]
      /\ DOMAIN dir \subseteq Names
  BY DEF FSInv, FSTypeOK
<1>2. PICK i \in Inodes : i = dir[p] /\ FileCells(p) = CellsAt(i)
  BY <1>1, FilesThere DEF FilesAre
<1>3. PICK s \in Seq(Message) : s = FileCells(p)
  BY <1>1 DEF FilesInv
<1>4. PICK size \in 0 .. BLOCK_SIZE :
        /\ size = inode_table[i].i_size /\ size = Len(s) /\ InodeOf(fd) = inode_table[i]
        /\ \A c \in 1 .. size : s[c] = fs_data[inode_table[i].i_data_block][c]
  BY <1>2, <1>3, FileSize DEF InodeOf
<1>5. PICK offset \in Nat : offset = OffsetOf(fd) /\ offset <= size
  BY <1>1, <1>3, <1>4 DEF OffsetOf
<1>6. BLOCK_SIZE \in Nat /\ SizeT \in Nat /\ BLOCK_SIZE < SizeT
  BY FSAssumption
<1>7. PICK k : k = ToRead(fd, len)
  OBVIOUS
<1>8. k \in 0 .. len /\ k <= size - offset
  <2>1. (size - offset) % SizeT = size - offset
    <3>1. size - offset \in Nat /\ size - offset < SizeT
      BY <1>4, <1>5, <1>6
    <3> QED
      BY <1>6, <3>1
  <2>2. k = IF size - offset > len THEN len ELSE size - offset
    BY <1>4, <1>5, <1>7, <2>1 DEF ToRead
  <2> QED
    BY <1>4, <1>5, <1>6, <2>2
<1>9. k \in Nat /\ offset + k <= size /\ size <= BLOCK_SIZE
  BY <1>4, <1>5, <1>6, <1>8
<1>10. PICK t \in Seq(Message) : /\ t = SubSeq(s, offset + 1, offset + k) /\ Len(t) = k
                                 /\ \A c \in 1 .. k : t[c] = s[offset + c]
  <2>1. offset + k <= Len(s)
    BY <1>4, <1>9
  <2>2. /\ SubSeq(s, offset + 1, offset + k) \in Seq(Message)
        /\ Len(SubSeq(s, offset + 1, offset + k)) = k
        /\ \A c \in 1 .. k : SubSeq(s, offset + 1, offset + k)[c] = s[offset + c]
    BY <1>9, <2>1, PartAfter
  <2> QED
    BY <2>2
<1>11. PICK f : f = Contents(fd, len)
  OBVIOUS
<1>12. f = [c \in 1 .. k |-> IF offset + c <= BLOCK_SIZE
              THEN fs_data[inode_table[i].i_data_block][offset + c] ELSE NoCell]
  BY <1>4, <1>5, <1>7, <1>11 DEF Contents
<1>13. \A c \in 1 .. k : f[c] = t[c]
  <2> SUFFICES ASSUME NEW c \in 1 .. k PROVE f[c] = t[c]
    OBVIOUS
  <2>1. offset + c \in 1 .. size /\ offset + c <= BLOCK_SIZE
    BY <1>4, <1>5, <1>6, <1>9
  <2> QED
    BY <1>4, <1>10, <1>12, <2>1
<1>14. f = t
  <2>1. \A c \in 1 .. k : t[c] \in Message
    BY <1>10
  <2>2. f \in [1 .. k -> Message]
    BY <1>12, <1>13, <2>1
  <2>3. f \in Seq(Message) /\ Len(f) = k
    BY <1>9, <2>2, FunIsSeq
  <2> QED
    BY <1>10, <1>13, <2>3, SeqEqual
<1>15. /\ open_file_table' = [open_file_table EXCEPT ![fd].of_offset = offset + k]
       /\ UNCHANGED fileVars
  BY <1>5, <1>7 DEF tfs_read, OffsetOf
<1>16. OffsetOf(fd)' = offset + k /\ \A h \in Handles : h # fd => OffsetOf(h)' = OffsetOf(h)
  BY <1>1, <1>15 DEF OffsetOf
<1> QED
  BY <1>3, <1>4, <1>5, <1>7, <1>8, <1>9, <1>10, <1>11, <1>14, <1>15, <1>16

-----------------------------------------------------------------------------
(* The steps of a session.                                                 *)

\* The steps of a worker that serves a publisher, and those of one that serves a
\* subscriber.
LEMMA PublisherSteps ==
  ASSUME TypeInv, NEW w \in Workers, Step(w), pc[w] # "idle", Code(w) = "publisher"
  PROVE  \/ FindBox(w) \/ FindNothing(w) \/ Found(w) \/ PubCount(w)
         \/ PubOpen(w) \/ PubLock(w) \/ PubRead(w) \/ PubWrite(w) \/ PubSignal(w)
         \/ PubClose(w, "pub_end", "pub_uncount") \/ PubClose(w, "pub_short", "pub_miscount")
         \/ PubUncount(w) \/ PubMiscount(w)
<1>1. pc[w] \in {"find", "found", "publish"} \cup PubSection
  BY DEF TypeInv, BrokerInv, Shape, StepsOf
<1> QED
  BY <1>1 DEF Step, Work, Begin, ListSpot, ListReply, EmptySpot, CreateExists, CreateFile,
       CreateTaken, CreateName, CreateBox, CreateClose, Reply, RemoveFile, RemoveUnlock,
       RemoveWake, RemoveDestroy, RemoveCond, SubCount, SubOpen, Refuse, SubLock, SubRead, SubWait,
       SubSend, WakeSpuriously, At, PubSection, PubFile

LEMMA SubscriberSteps ==
  ASSUME TypeInv, NEW w \in Workers, Step(w), pc[w] # "idle", Code(w) = "subscriber"
  PROVE  \/ FindBox(w) \/ FindNothing(w) \/ Found(w)
         \/ SubCount(w) \/ SubOpen(w) \/ Refuse(w) \/ SubLock(w) \/ SubRead(w) \/ SubWait(w)
         \/ SubSend(w) \/ WakeSpuriously(w)
<1>1. pc[w] \in {"find", "found", "subscribe", "sub_open", "refuse"} \cup SubFile
  BY DEF TypeInv, BrokerInv, Shape, StepsOf
<1> QED
  BY <1>1 DEF Step, Work, Begin, ListSpot, ListReply, EmptySpot, CreateExists, CreateFile,
       CreateTaken, CreateName, CreateBox, CreateClose, Reply, RemoveFile, RemoveUnlock,
       RemoveWake, RemoveDestroy, RemoveCond, PubCount, PubOpen, PubLock, PubRead, PubWrite, PubSignal,
       PubClose, PubUncount, PubMiscount, At, SubFile

-----------------------------------------------------------------------------
(* The spots of publishers' sessions.                                      *)

\* A publisher's session is at the first spot that has the name of its box.
SpotInv ==
  \A w \in Workers : pc[w] # "idle" /\ Code(w) = "publisher" =>
    /\ pc[w] = "find" => \A s \in 0 .. loc[w].i - 1 : ~IsNamed(w, s)
    /\ pc[w] \in {"found", "publish"} \cup PubSection =>
         /\ IsNamed(w, loc[w].spot)
         /\ \A s \in 0 .. loc[w].spot - 1 : ~IsNamed(w, s)

\* The spot that is about to be left has the name of the box that is removed.
RemoverInv ==
  \A w \in Workers : pc[w] # "idle" /\ Code(w) = "remove" /\ pc[w] \in {"found", "remove"} =>
    IsNamed(w, loc[w].spot)

\* No spot gets the name of the publisher that is served, or loses it.
LEMMA NamesStable ==
  ASSUME BoxesFirst, RemovesApart, TypeInv, ReqInv, RemoverInv, NEW w \in Workers, Step(w),
         NEW v \in Workers, pc[v] # "idle", Code(v) = "publisher"
  PROVE  \A s \in Spots : boxes'[s].taken /\ boxes'[s].box_name = Name(v) <=> IsNamed(v, s)
<1>1. Shape(w) /\ boxes \in [Spots -> BoxType]
  BY DEF TypeInv, BrokerInv, BrokerTypeOK, BoxType
<1>2. ~CreateTaken(w) /\ ~CreateName(w)
  <2>1. SUFFICES ASSUME pc[w] \in {"create_taken", "create_name"} PROVE FALSE
    BY DEF CreateTaken, CreateName, At
  <2>2. pc[w] # "idle" /\ Code(w) = "create"
    BY <1>1, <2>1, CodeAt DEF CreateSection
  <2> QED
    BY <2>2, NoCreation
<1>3. CASE RemoveUnlock(w)
  <2>1. pc[w] = "remove" /\ pc[w] # "idle" /\ Code(w) = "remove"
    BY <1>1, <1>3, CodeAt DEF RemoveUnlock, At
  <2>2. v # w /\ Name(v) # Name(w)
    BY <2>1, RemovesAlone
  <2>3. boxes[loc[w].spot].box_name = Name(w)
    BY <2>1 DEF RemoverInv, IsNamed
  <2>4. boxes' = [boxes EXCEPT ![loc[w].spot].taken = FALSE]
    BY <1>3 DEF RemoveUnlock
  <2>5. \A s \in Spots : /\ boxes'[s].box_name = boxes[s].box_name
                         /\ s # loc[w].spot => boxes'[s].taken = boxes[s].taken
    BY <1>1, <2>4 DEF BoxType
  <2> QED
    BY <2>2, <2>3, <2>5 DEF IsNamed
<1>4. CASE ~RemoveUnlock(w)
  BY <1>2, <1>4, NamesWritten DEF NamesSame, IsNamed
<1> QED
  BY <1>3, <1>4

\* It stays so: the one spot with that name is the remover's to leave.
LEMMA RemoverStep ==
  ASSUME RemovesApart, TypeInv, RemoverInv, NEW w \in Workers, Step(w)
  PROVE  RemoverInv'
<1>1. \A u \in Workers : Shape(u)
  BY DEF TypeInv, BrokerInv
<1>2. loc \in [Workers -> LocType] /\ pc \in [Workers -> Labels]
  BY DEF TypeInv, BrokerInv, BrokerTypeOK, LocType
<1> SUFFICES ASSUME NEW v \in Workers, pc'[v] \in {"found", "remove"}, Code(v)' = "remove"
             PROVE  IsNamed(v, loc[v].spot)'
  BY DEF RemoverInv
<1>3. CASE v # w
  <2>1. Manages(v)'
    BY DEF Manages
  <2>2. Manages(v) /\ pc'[v] = pc[v] /\ loc'[v] = loc[v] /\ req'[v] = req[v]
    BY <1>3, <2>1, OtherManager
  <2>3. pc[v] # "idle" /\ Code(v) = "remove" /\ loc[v].spot \in Spots
    BY <1>1, <2>2 DEF Manages, Code, Shape, SpotSteps
  <2>4. ~(pc[w] # "idle" /\ Manages(w))
    BY <1>3, <2>3, RemovesAlone
  <2>5. pc[w] \notin {"create_taken", "create_name", "remove"}
    BY <1>1, <2>4, CodeAt DEF Manages, CreateSection
  <2>6. NamesSame
    BY <2>5, NamesWritten DEF CreateTaken, CreateName, RemoveUnlock, At
  <2>7. IsNamed(v, loc[v].spot)
    BY <2>2, <2>3 DEF RemoverInv
  <2> QED
    BY <2>2, <2>3, <2>6, <2>7 DEF NamesSame, IsNamed, Name
<1>4. CASE v = w /\ ~Begin(w)
  <2>1. pc[w] # "idle" /\ req' = req /\ Code(w) = "remove"
    BY <1>4, Busy, RequestFrame DEF requestVars, Code
  <2>2. Manages(w)
    BY <2>1 DEF Manages
  <2>3. \/ EmptySpot(w) \/ FindBox(w) \/ FindNothing(w) \/ Found(w)
        \/ CreateExists(w) \/ CreateFile(w) \/ CreateTaken(w) \/ CreateName(w)
        \/ CreateBox(w) \/ CreateClose(w) \/ Reply(w)
        \/ RemoveFile(w) \/ RemoveUnlock(w) \/ RemoveWake(w)
        \/ RemoveDestroy(w) \/ RemoveCond(w)
    BY <2>2, ManagerServes
  <2>4. pc[w] \in StepsOf["remove"]
    BY <1>1, <2>1 DEF Shape
  <2>5. pc[w] \in {"unlink", "find", "found", "remove", "remove_wake", "remove_destroy",
                       "remove_cond", "reply"}
    BY <2>4 DEF StepsOf
  <2>6. CASE FindBox(w)
    <3>1. /\ pc'[w] = "found" /\ IsNamed(w, loc[w].i) /\ boxes' = boxes
          /\ loc' = [loc EXCEPT ![w].spot = loc[w].i]
      BY <1>2, <1>4, <2>1, <2>6 DEF FindBox, ScanNext, At, Goto
    <3>2. loc'[w].spot = loc[w].i
      BY <1>2, <3>1 DEF LocType
    <3> QED
      BY <1>4, <2>1, <3>1, <3>2 DEF IsNamed, Name
  <2>7. CASE Found(w) \/ FindNothing(w)
    <3>1. /\ pc[w] \in {"found", "find"} /\ boxes' = boxes /\ loc' = loc
          /\ pc'[w] \in {"found", "remove"} => pc[w] = "found"
      BY <1>2, <1>4, <2>1, <2>7 DEF Found, FindNothing, Crash, At
    <3> QED
      BY <1>4, <2>1, <3>1 DEF RemoverInv, IsNamed, Name
  <2>8. CASE RemoveFile(w) \/ RemoveUnlock(w) \/ RemoveWake(w)
               \/ RemoveDestroy(w) \/ RemoveCond(w) \/ Reply(w)
    <3>1. CASE RemoveWake(w)
      BY <1>2, <1>4, <3>1 DEF RemoveWake, Woken
    <3>2. CASE RemoveFile(w)
      <4>1. Goto(w, "reply") \/ Goto(w, "find")
        BY <3>2 DEF RemoveFile
      <4> QED
        BY <1>2, <1>4, <4>1 DEF Goto
    <3>3. CASE RemoveUnlock(w) \/ RemoveDestroy(w) \/ RemoveCond(w) \/ Reply(w)
      BY <1>2, <1>4, <3>3 DEF RemoveUnlock, RemoveDestroy, RemoveCond, Reply, Goto
    <3> QED
      BY <2>8, <3>1, <3>2, <3>3
  <2> QED
    BY <2>3, <2>5, <2>6, <2>7, <2>8 DEF EmptySpot, CreateExists, CreateFile, CreateTaken, CreateName,
       CreateBox, CreateClose, At
<1>5. CASE v = w /\ Begin(w)
  BY <1>2, <1>5, BeginClosed DEF Begin
<1> QED
  BY <1>3, <1>4, <1>5

LEMMA RemoverNext ==
  RemovesApart /\ TypeInv /\ RemoverInv /\ [Next]_vars => RemoverInv'
<1> SUFFICES ASSUME RemovesApart, TypeInv, RemoverInv, [Next]_vars PROVE RemoverInv'
  OBVIOUS
<1>1. CASE \E w \in Workers : Step(w)
  BY <1>1, RemoverStep
<1>2. CASE (\E c \in Clients : ClientAction(c)) \/ sig_handler \/ UNCHANGED vars
  <2>1. UNCHANGED <<req, boxes, pc, loc>>
    BY <1>2, ClientActionFrame DEF sig_handler, Crash, vars, requestVars
  <2> QED
    BY <2>1 DEF RemoverInv, IsNamed, Name, Code
<1> QED
  BY <1>1, <1>2, NextSteps

\* A publisher's session stays at the spot of the box it asked for.
LEMMA SpotStep ==
  ASSUME BoxesFirst, RemovesApart, TypeInv, ReqInv, RemoverInv, SpotInv, NEW w \in Workers, Step(w)
  PROVE  SpotInv'
<1>1. /\ pc \in [Workers -> Labels] /\ \A u \in Workers : Shape(u)
      /\ loc \in [Workers -> LocType]
  BY DEF TypeInv, BrokerInv, BrokerTypeOK, LocType
<1>2. MAX_BOX_NUMBER \in Nat \ {0}
  BY BrokerAssumption
<1> SUFFICES ASSUME NEW v \in Workers, pc'[v] # "idle", Code(v)' = "publisher"
             PROVE  /\ pc'[v] = "find" => \A s \in 0 .. loc'[v].i - 1 : ~IsNamed(v, s)'
                    /\ pc'[v] \in {"found", "publish"} \cup PubSection =>
                         /\ IsNamed(v, loc[v].spot)'
                         /\ \A s \in 0 .. loc'[v].spot - 1 : ~IsNamed(v, s)'
  BY DEF SpotInv
<1> USE DEF PubSection, PubFile
<1>3. Others(w)
  BY OthersStep DEF TypeInv, BrokerInv
<1>4. ASSUME pc[v] # "idle", req'[v] = req[v]
      PROVE  \A s \in Spots : IsNamed(v, s)' = IsNamed(v, s)
  <2>1. Code(v) = "publisher"
    BY <1>4 DEF Code
  <2>2. \A s \in Spots : boxes'[s].taken /\ boxes'[s].box_name = Name(v) <=> IsNamed(v, s)
    BY <1>4, <2>1, NamesStable
  <2> QED
    BY <1>4, <2>2 DEF IsNamed, Name
<1>5. ASSUME pc[v] # "idle", req'[v] = req[v], loc'[v].spot = loc[v].spot,
             pc[v] \in {"found", "publish"} \cup PubSection, pc'[v] # "find"
      PROVE  /\ IsNamed(v, loc[v].spot)'
             /\ \A s \in 0 .. loc'[v].spot - 1 : ~IsNamed(v, s)'
  <2>1. loc[v].spot \in Spots
    BY <1>1, <1>5 DEF Shape, SpotSteps
  <2>2. \A s \in 0 .. loc[v].spot - 1 : s \in Spots
    BY <1>2, <2>1 DEF Spots
  <2>3. Code(v) = "publisher"
    BY <1>5 DEF Code
  <2> QED
    BY <1>4, <1>5, <2>1, <2>2, <2>3 DEF SpotInv, IsNamed, Name
<1>6. CASE v # w
  <2>1. /\ loc'[v] = loc[v] /\ req'[v] = req[v] /\ pc[v] # "idle"
        /\ pc'[v] # pc[v] => pc[v] = "asleep" /\ pc'[v] \in {"woken", "stranded"}
    BY <1>3, <1>6 DEF Others
  <2>2. CASE pc'[v] = pc[v] /\ pc[v] = "find"
    <3>1. loc[v].i \in Spots
      BY <1>1 DEF LocType
    <3>2. \A s \in 0 .. loc[v].i - 1 : s \in Spots
      BY <1>2, <3>1 DEF Spots
    <3>3. Code(v) = "publisher"
      BY <2>1 DEF Code
    <3> QED
      BY <1>4, <2>1, <2>2, <3>2, <3>3 DEF SpotInv, IsNamed, Name
  <2> QED
    BY <1>5, <2>1, <2>2
<1>7. CASE v = w /\ Begin(w)
  <2>1. pc'[w] \in {"empty", "unlink", "list", "find"} /\ loc'[w] = NoLoc
    BY <1>1, <1>7, BeginClosed DEF Begin
  <2> QED
    BY <1>7, <2>1 DEF NoLoc
<1>8. CASE v = w /\ ~Begin(w)
  <2>1. pc[w] # "idle" /\ req' = req /\ Code(w) = "publisher"
    BY <1>8, Busy, RequestFrame DEF requestVars, Code
  <2>2. CASE pc'[w] \in PubSection
    BY <1>5, <1>8, <2>1, <2>2, PubKept DEF PubCount, At
  <2>3. CASE pc'[w] \notin PubSection
    <3>1. CASE FindBox(w)
      <4>1. CASE /\ IsNamed(w, loc[w].i) /\ Goto(w, "found")
                 /\ loc' = [loc EXCEPT ![w].spot = loc[w].i]
        <5>1. pc[w] = "find" /\ pc'[w] = "found" /\ loc'[w].spot = loc[w].i /\ loc[w].i \in Spots
          BY <1>1, <3>1, <4>1 DEF FindBox, At, Goto, LocType
        <5>2. \A s \in 0 .. loc[w].i - 1 : s \in Spots /\ ~IsNamed(w, s)
          BY <1>2, <2>1, <5>1 DEF SpotInv, Spots
        <5> QED
          BY <1>4, <1>8, <2>1, <4>1, <5>1, <5>2 DEF IsNamed, Name
      <4>2. CASE ~IsNamed(w, loc[w].i) /\ ~LastSpot(w) /\ ScanNext(w)
        <5>1. /\ pc[w] = "find" /\ pc'[w] = "find" /\ loc'[w].i = loc[w].i + 1
              /\ loc[w].i \in Spots
          BY <1>1, <3>1, <4>2 DEF FindBox, At, ScanNext, LocType
        <5>2. \A s \in 0 .. loc'[w].i - 1 : s \in Spots /\ ~IsNamed(w, s)
          <6>1. \A s \in 0 .. loc[w].i - 1 : s \in Spots /\ ~IsNamed(w, s)
            BY <1>2, <2>1, <5>1 DEF SpotInv, Spots
          <6>2. \A s \in 0 .. loc'[w].i - 1 : s \in 0 .. loc[w].i - 1 \/ s = loc[w].i
            BY <5>1 DEF Spots
          <6> QED
            BY <4>2, <5>1, <6>1, <6>2
        <5> QED
          BY <1>4, <1>8, <2>1, <5>1, <5>2
      <4>3. CASE Goto(w, MissStep[Code(w)])
        BY <1>1, <1>8, <2>1, <4>3 DEF Goto, MissStep
      <4> QED
        BY <3>1, <4>1, <4>2, <4>3 DEF FindBox
    <3>2. CASE Crash
      <4>1. pc' = pc /\ loc' = loc /\ boxes' = boxes
        BY <3>2 DEF Crash
      <4> QED
        BY <1>8, <2>1, <4>1 DEF SpotInv, IsNamed, Name
    <3>3. CASE Found(w)
      BY <1>1, <1>5, <1>8, <2>1, <3>3 DEF Found, Goto, At, HitStep
    <3>4. CASE PubCount(w) \/ PubOpen(w) \/ PubLock(w) \/ (PubRead(w) /\ ~Crash) \/ PubWrite(w)
      BY <1>1, <1>8, <2>3, <3>4 DEF PubCount, PubOpen, PubLock, PubRead, PubWrite, Goto
    <3>5. CASE PubSignal(w)
      BY <1>1, <1>8, <2>3, <3>5 DEF PubSignal, Woken
    <3>6. CASE PubClose(w, "pub_end", "pub_uncount") \/ PubClose(w, "pub_short", "pub_miscount")
               \/ PubUncount(w) \/ PubMiscount(w)
      BY <1>1, <1>8, <2>3, <3>6 DEF PubClose, PubUncount, PubMiscount, Goto
    <3> QED
      BY <2>1, <3>1, <3>2, <3>3, <3>4, <3>5, <3>6, PublisherSteps DEF FindNothing
  <2> QED
    BY <2>2, <2>3
<1> QED
  BY <1>6, <1>7, <1>8

LEMMA SpotNext ==
  ASSUME BoxesFirst
  PROVE  RemovesApart /\ TypeInv /\ ReqInv /\ RemoverInv /\ SpotInv /\ [Next]_vars => SpotInv'
<1> SUFFICES ASSUME RemovesApart, TypeInv, ReqInv, RemoverInv, SpotInv, [Next]_vars PROVE SpotInv'
  OBVIOUS
<1>1. CASE \E w \in Workers : Step(w)
  BY <1>1, SpotStep
<1>2. CASE (\E c \in Clients : ClientAction(c)) \/ sig_handler \/ UNCHANGED vars
  <2>1. UNCHANGED <<req, boxes, pc, loc>>
    BY <1>2, ClientActionFrame DEF sig_handler, Crash, vars, requestVars
  <2> QED
    BY <2>1 DEF SpotInv, IsNamed, Name, Code
<1> QED
  BY <1>1, <1>2, NextSteps

\* Two publishers' sessions have different boxes.
LEMMA NamesApart ==
  ASSUME TypeInv, OnePublisher, SpotInv, NEW v \in Workers, NEW w \in Workers, v # w,
         pc[v] \in PubSection, pc[w] \in PubSection
  PROVE  Name(v) # Name(w)
<1>1. loc[v].spot \in Spots /\ loc[w].spot \in Spots /\ loc[v].spot # loc[w].spot
  <2>1. Shape(v) /\ Shape(w) /\ pc[v] # "idle" /\ pc[w] # "idle"
    BY DEF TypeInv, BrokerInv, PubSection, PubFile
  <2> QED
    BY <2>1 DEF Shape, SpotSteps, OnePublisher
<1>2. /\ pc[v] # "idle" /\ Code(v) = "publisher" /\ pc[w] # "idle" /\ Code(w) = "publisher"
  <2>1. Shape(v) /\ Shape(w) /\ pc[v] # "idle" /\ pc[w] # "idle"
    BY DEF TypeInv, BrokerInv, PubSection, PubFile
  <2> QED
    BY <2>1, CodeAt
<1>3. /\ IsNamed(v, loc[v].spot) /\ IsNamed(w, loc[w].spot)
      /\ \A s \in 0 .. loc[v].spot - 1 : ~IsNamed(v, s)
      /\ \A s \in 0 .. loc[w].spot - 1 : ~IsNamed(w, s)
  BY <1>2 DEF SpotInv
<1>4. loc[v].spot \in 0 .. loc[w].spot - 1 \/ loc[w].spot \in 0 .. loc[v].spot - 1
  BY <1>1, BrokerAssumption DEF Spots
<1> QED
  BY <1>3, <1>4 DEF IsNamed

-----------------------------------------------------------------------------
(* What the sessions have read, written and sent.                          *)

\* How many of a publisher's messages have been taken out of its pipe.
Consumed(c) == sent[c] - Len(pipe[c])

\* What is in a pipe follows what was taken out of it.
PipeInv ==
  \A c \in Clients :
    /\ Len(pipe[c]) <= sent[c]
    /\ \A k \in 1 .. Len(pipe[c]) : pipe[c][k].from = c /\ pipe[c][k].nr = Consumed(c) + k
    /\ client[c] \in {"new", "sent"} =>
         /\ sent[c] = 0 /\ pipe[c] = <<>> /\ got[c] = <<>>
         /\ \A p \in Names : FromIn(FileCells(p), c) = 0

\* A publisher's handle is at the end of the file, which has all that was taken
\* out of the pipe but for what is in the buffer.
PubAt(label, l, c, state, offset, cells, taken) ==
  /\ state \in {"open", "left"} /\ offset = Len(cells)
  /\ label \in {"pub_lock", "pub_read"} => taken = FromIn(cells, c)
  /\ label = "pub_signal" /\ l.n = Len(l.buffer) => taken = FromIn(cells, c)
  /\ label = "pub_write" =>
       /\ taken = FromIn(cells, c) + Len(l.buffer) /\ Follow(l.buffer, cells, c)
       /\ Len(l.buffer) > 0 => l.buffer[1].end = "newline"

PubInv ==
  \A w \in Workers, c \in Clients, h \in Handles :
    pc[w] \in PubFile /\ req[w] = c /\ loc[w].fd = h =>
      PubAt(pc[w], loc[w], c, client[c], OffsetOf(h), FileCells(Request[c].box), Consumed(c))

\* A subscriber was sent what its handle has passed, but for what is in the buffer.
SubAt(label, l, state, offset, cells, fed) ==
  /\ state \in {"open", "left"} /\ offset <= Len(cells)
  /\ label # "sub_send" => fed = SubSeq(cells, 1, offset)
  /\ label = "sub_send" => fed \o l.buffer = SubSeq(cells, 1, offset) /\ Len(l.buffer) > 0

SubInv ==
  \A w \in Workers, c \in Clients, h \in Handles :
    pc[w] \in SubFile /\ req[w] = c /\ loc[w].fd = h =>
      SubAt(pc[w], loc[w], client[c], OffsetOf(h), FileCells(Request[c].box), got[c])

\* The files have their publishers' messages in order, and whole lines.
FilesKept == \A p \in Names : InOrder(FileCells(p)) /\ EndsLines(FileCells(p))

\* What is proved elsewhere, and the invariant.
LogBase == TypeInv /\ ReqInv /\ OnePublisher /\ SessionsApart /\ SpotInv
LogInv == FilesInv /\ PipeInv /\ PubInv /\ SubInv /\ FilesKept

\* A session, or a creation, has a handle of its own, of the file of its box.
LEMMA FileOpen ==
  ASSUME LogBase, NEW w \in Workers, pc[w] \in OpenSteps
  PROVE  /\ loc[w].fd \in Handles \ free_open_file_entries
         /\ req[w] \in Clients /\ Name(w) = Request[req[w]].box
         /\ Name(w) \in DOMAIN dir /\ Name(w) \in Names
         /\ open_file_table[loc[w].fd].of_inumber = dir[Name(w)]
         /\ \A v \in Workers \ {w} : pc[v] \in OpenSteps => loc[v].fd # loc[w].fd
<1>1. /\ loc[w].fd \in Handles \ free_open_file_entries
      /\ open_file_table[loc[w].fd].of_inumber = tfs_lookup(Name(w))
      /\ \A v \in Workers \ {w} : pc[v] \in OpenSteps => loc[v].fd # loc[w].fd
  BY DEF LogBase, SessionsApart, OpenSteps
<1>2. open_file_table \in [Handles -> [of_inumber : Inodes, of_offset : Nat]] /\ -1 \notin Inodes
  BY DEF LogBase, TypeInv, BrokerInv, FSInv, FSTypeOK, Inodes
<1>3. tfs_lookup(Name(w)) # -1
  BY <1>1, <1>2
<1>4. Shape(w) /\ pc[w] # "idle"
  BY DEF LogBase, TypeInv, BrokerInv, OpenSteps, PubFile, SubFile, CreateSection
<1>5. req[w] \in Clients /\ Name(w) \in Names
  BY <1>4, CodeAt
<1> QED
  BY <1>1, <1>3, <1>5 DEF Name, tfs_lookup, find_in_dir

\* No file is deleted.
LEMMA NoRemoval ==
  ASSUME NoRemoves, LogBase, NEW w \in Workers
  PROVE  ~RemoveFile(w)
<1>1. SUFFICES ASSUME pc[w] = "unlink" PROVE FALSE
  BY DEF RemoveFile, At
<1>2. Code(w) = "remove" /\ req[w] \in Clients
  BY <1>1, CodeAt DEF LogBase, TypeInv, BrokerInv
<1> QED
  BY <1>2 DEF NoRemoves, Code

\* Which file a step opens, and how.
LEMMA OpensCall ==
  ASSUME LogBase, NEW w \in Workers, Opens(w)
  PROVE  \/ UNCHANGED fsVars
         \/ \E p \in Names, mode \in SUBSET {"CREAT", "APPEND"}, fd \in Handles \cup {-1} :
              /\ tfs_open(p, mode, fd) /\ p = Name(w) /\ loc'[w].fd = fd
              /\ PubOpen(w) => mode = {"APPEND"}
              /\ SubOpen(w) => mode = {}
<1>1. loc \in [Workers -> LocType] /\ Shape(w)
  BY DEF LogBase, TypeInv, BrokerInv, BrokerTypeOK, LocType
<1>2. pc[w] # "idle"
  BY DEF Opens, CreateFile, PubOpen, SubOpen, At
<1>3. PICK p \in Names : p = Name(w)
  BY <1>1, <1>2, CodeAt
<1>4. \A fd : (loc' = [loc EXCEPT ![w].fd = fd]) => loc'[w].fd = fd
  BY <1>1 DEF LocType
<1>5. CASE CreateFile(w)
  <2>1. ~PubOpen(w) /\ ~SubOpen(w)
    BY <1>5 DEF CreateFile, PubOpen, SubOpen, At
  <2>2. CASE UNCHANGED fsVars
    BY <2>2
  <2>3. CASE ~UNCHANGED fsVars
    <3>1. PICK fd \in Handles \cup {-1} :
            /\ tfs_open(p, {"CREAT"}, fd)
            /\ loc' = [loc EXCEPT ![w].fd = fd, ![w].spot = loc[w].free]
      BY <1>3, <1>5, <2>3 DEF CreateFile
    <3>2. loc'[w].fd = fd
      <4>1. PICK f : f = [loc EXCEPT ![w].fd = fd]
        OBVIOUS
      <4>2. f \in [Workers -> LocType] /\ f[w].fd = fd
        BY <1>1, <4>1 DEF LocType
      <4>3. loc' = [f EXCEPT ![w].spot = loc[w].free]
        BY <3>1, <4>1
      <4> QED
        BY <4>2, <4>3 DEF LocType
    <3> QED
      BY <1>3, <2>1, <3>1, <3>2
  <2> QED
    BY <2>2, <2>3
<1>6. CASE PubOpen(w)
  <2>1. ~SubOpen(w)
    BY <1>6 DEF PubOpen, SubOpen, At
  <2>2. PICK fd \in Handles \cup {-1} :
          tfs_open(p, {"APPEND"}, fd) /\ loc' = [loc EXCEPT ![w].fd = fd]
    BY <1>3, <1>6 DEF PubOpen
  <2> QED
    BY <1>3, <1>4, <2>1, <2>2
<1>7. CASE SubOpen(w)
  <2>1. ~PubOpen(w)
    BY <1>7 DEF PubOpen, SubOpen, At
  <2>2. PICK fd \in Handles \cup {-1} :
          tfs_open(p, {}, fd) /\ loc' = [loc EXCEPT ![w].fd = fd]
    BY <1>3, <1>7 DEF SubOpen
  <2> QED
    BY <1>3, <1>4, <2>1, <2>2
<1> QED
  BY <1>5, <1>6, <1>7 DEF Opens

\* A step adds messages to one file, at its end, or none to any.
Wrote(w, h, p, b, n) ==
  /\ PubWrite(w) /\ h = loc[w].fd /\ p = Name(w) /\ b = loc[w].buffer /\ n \in 1 .. Len(b)
  /\ loc' = [loc EXCEPT ![w].n = n]
  /\ FileCells(p)' = FileCells(p) \o SubSeq(b, 1, n)
  /\ Len(FileCells(p)) + n <= BLOCK_SIZE
  /\ \A q \in Names : q # p => FileCells(q)' = FileCells(q)
  /\ OffsetOf(h)' = OffsetOf(h) + n

\* No file changes.
SameFiles == \A p \in Names : FileCells(p)' = FileCells(p)

\* What a write adds to the file of its box.
LEMMA WriteStep ==
  ASSUME LogBase, LogBase', LogInv, NEW w \in Workers, PubWrite(w)
  PROVE  /\ FilesInv'
         /\ \/ /\ UNCHANGED fsVars /\ SameFiles
               /\ \E n \in -1 .. 0 : loc' = [loc EXCEPT ![w].n = n]
            \/ \E h \in Handles, p \in Names, b \in Seq(Message), n \in Nat : Wrote(w, h, p, b, n)
<1>1. FSInv /\ FSInv' /\ FilesInv
  BY DEF LogBase, LogInv, TypeInv, BrokerInv
<1>2. pc[w] = "pub_write" /\ pc[w] \in OpenSteps /\ pc[w] \in PubFile
  BY DEF PubWrite, At, OpenSteps, PubFile
<1>3. Shape(w)
  BY DEF LogBase, TypeInv, BrokerInv
<1>4. PICK h \in Handles, p \in Names, c \in Clients, b \in Seq(Message) :
        /\ h = loc[w].fd /\ p = Name(w) /\ b = loc[w].buffer /\ c = req[w]
        /\ p = Request[c].box
        /\ p \in DOMAIN dir /\ open_file_table[h].of_inumber = dir[p]
  BY <1>2, <1>3, FileOpen DEF Shape
<1>5. PICK n \in -1 .. Len(b) : tfs_write(h, b, n) /\ loc' = [loc EXCEPT ![w].n = n]
  BY <1>4 DEF PubWrite
<1>6. CASE n \in -1 .. 0
  <2>1. UNCHANGED fsVars
    BY <1>5, <1>6 DEF tfs_write
  <2> QED
    BY <1>1, <1>5, <1>6, <2>1, CellsSame DEF SameFiles, fsVars
<1>7. CASE n \notin -1 .. 0
  <2>1. Len(b) \in Nat
    OBVIOUS
  <2>2. n \in Nat /\ n > 0
    BY <1>7, <2>1
  <2>3. OffsetOf(h) = Len(FileCells(p))
    BY <1>2, <1>4 DEF LogInv, PubInv, PubAt
  <2>4. /\ FilesInv' /\ n \in 1 .. Len(b)
        /\ FileCells(p)' = FileCells(p) \o SubSeq(b, 1, n)
        /\ Len(FileCells(p)) + n <= BLOCK_SIZE
        /\ \A q \in Names : q # p => FileCells(q)' = FileCells(q)
        /\ OffsetOf(h)' = OffsetOf(h) + n
    BY <1>1, <1>4, <1>5, <2>2, <2>3, WriteCells
  <2> QED
    BY <1>4, <1>5, <2>2, <2>4 DEF Wrote
<1> QED
  BY <1>6, <1>7

\* No step of a worker changes a file but by a write to its end.
LEMMA FilesStep ==
  ASSUME LogBase, LogBase', LogInv, NEW w \in Workers, Step(w), ~RemoveFile(w)
  PROVE  /\ FilesInv'
         /\ \/ SameFiles
            \/ \E h \in Handles, p \in Names, b \in Seq(Message), n \in Nat : Wrote(w, h, p, b, n)
<1>1. FSInv /\ FSInv' /\ FilesInv
  BY DEF LogBase, LogInv, TypeInv, BrokerInv
<1>2. CASE UNCHANGED fileVars
  BY <1>1, <1>2, CellsSame DEF SameFiles
<1>3. CASE Opens(w)
  <2>1. CASE UNCHANGED fsVars
    BY <1>2, <2>1 DEF fsVars
  <2>2. CASE ~UNCHANGED fsVars
    <3>1. PICK p \in Names, mode \in SUBSET {"CREAT", "APPEND"}, fd \in Handles \cup {-1} :
            tfs_open(p, mode, fd)
      BY <1>3, <2>2, OpensCall
    <3> QED
      BY <1>1, <3>1, OpenCells DEF SameFiles
  <2> QED
    BY <2>1, <2>2
<1>4. CASE Closes(w) \/ SubRead(w)
  <2>1. UNCHANGED fileVars
    BY <1>4 DEF Closes, CreateClose, PubClose, SubRead, Crash, tfs_close, tfs_read, fsVars
  <2> QED
    BY <1>2, <2>1
<1>5. CASE PubWrite(w)
  BY <1>5, WriteStep
<1> QED
  BY <1>2, <1>3, <1>4, <1>5, FSFrame DEF FSStep, Opens, Closes, fsVars

\* The offsets of the others' handles stay.
LEMMA OffsetsStep ==
  ASSUME LogBase, LogBase', LogInv, NEW w \in Workers, Step(w), ~RemoveFile(w),
         NEW v \in Workers, v # w, pc'[v] \in OpenSteps, NEW h \in Handles, loc'[v].fd = h
  PROVE  /\ loc'[v] = loc[v] /\ req'[v] = req[v] /\ pc[v] \in OpenSteps
         /\ pc'[v] # pc[v] => pc[v] = "asleep" /\ pc'[v] \in {"woken", "stranded"}
         /\ OffsetOf(h)' = OffsetOf(h)
<1>1. /\ loc'[v] = loc[v] /\ req'[v] = req[v] /\ pc[v] \in OpenSteps
      /\ pc'[v] # pc[v] => pc[v] = "asleep" /\ pc'[v] \in {"woken", "stranded"}
  <2>1. Others(w)
    BY OthersStep DEF LogBase, TypeInv, BrokerInv
  <2> QED
    BY <2>1 DEF Others, OpenSteps, SubFile
<1>2. loc[v].fd = h /\ h \notin free_open_file_entries
  BY <1>1, FileOpen
<1>3. FSInv /\ FSInv' /\ FilesInv
      /\ open_file_table \in [Handles -> [of_inumber : Inodes, of_offset : Nat]]
  BY DEF LogBase, LogInv, TypeInv, BrokerInv, FSInv, FSTypeOK
<1>4. CASE UNCHANGED open_file_table
  BY <1>1, <1>4 DEF OffsetOf
<1>5. CASE Opens(w)
  <2>1. CASE UNCHANGED fsVars
    BY <1>4, <2>1 DEF fsVars, openVars
  <2>2. CASE ~UNCHANGED fsVars
    <3>1. PICK p \in Names, mode \in SUBSET {"CREAT", "APPEND"}, fd \in Handles \cup {-1} :
            tfs_open(p, mode, fd)
      BY <1>5, <2>2, OpensCall
    <3>2. \A g \in Handles : g # fd => OffsetOf(g)' = OffsetOf(g)
      BY <1>3, <3>1, OpenCells
    <3>3. h # fd
      <4>1. fd # -1 => fd \in free_open_file_entries
        BY <1>3, <3>1, OpenTable
      <4>2. -1 \notin Handles
        BY DEF Handles
      <4> QED
        BY <1>2, <4>1, <4>2
    <3> QED
      BY <1>1, <3>2, <3>3
  <2> QED
    BY <2>1, <2>2
<1>6. CASE Closes(w)
  BY <1>4, <1>6 DEF Closes, CreateClose, PubClose, tfs_close
<1>7. CASE SubRead(w) \/ PubWrite(w)
  <2>1. pc[w] \in OpenSteps
    BY <1>7 DEF SubRead, PubWrite, At, OpenSteps, SubFile, PubFile
  <2>2. loc[w].fd # h
    BY <1>1, <1>2, <2>1, FileOpen
  <2>3. \/ UNCHANGED open_file_table
        \/ \E x : open_file_table' = [open_file_table EXCEPT ![loc[w].fd].of_offset = x]
    <3>1. CASE PubWrite(w)
      <4>1. PICK n : tfs_write(loc[w].fd, loc[w].buffer, n)
        BY <3>1 DEF PubWrite
      <4> QED
        BY <4>1 DEF tfs_write, fsVars, openVars
    <3>2. CASE SubRead(w)
      BY <3>2 DEF SubRead, Crash, tfs_read, fsVars, openVars
    <3> QED
      BY <1>7, <3>1, <3>2
  <2> QED
    BY <1>1, <1>3, <2>2, <2>3 DEF OffsetOf
<1> QED
  BY <1>1, <1>4, <1>5, <1>6, <1>7, FSFrame DEF FSStep, Opens, Closes, fsVars, openVars

\* A step changes what its own client has done only.
LEMMA ClientsFrame ==
  ASSUME LogBase, NEW w \in Workers, Step(w)
  PROVE  /\ sent' = sent
         /\ \/ UNCHANGED <<client, pipe, got>>
            \/ /\ pc[w] # "idle" /\ req[w] \in Clients /\ ClientStep(w)
               /\ \A c \in Clients : c # req[w] =>
                    client'[c] = client[c] /\ pipe'[c] = pipe[c] /\ got'[c] = got[c]
<1>1. /\ client \in [Clients -> States] /\ pipe \in [Clients -> Seq(Message)]
      /\ got \in [Clients -> Seq(Message \cup {NoCell})] /\ Shape(w)
  BY DEF LogBase, TypeInv, ClientInv, BrokerInv
<1>2. CASE ~ClientStep(w)
  BY <1>2, ClientFrame DEF clientVars
<1>3. CASE ClientStep(w)
  <2>1. pc[w] # "idle" /\ req[w] \in Clients
    BY <1>1, <1>3 DEF ClientStep, ListReply, Reply, PubOpen, PubRead, SubOpen, Refuse,
       SubSend, At, Shape
  <2>2. sent' = sent
    BY <1>3 DEF ClientStep, ListReply, Reply, PubOpen, PubRead, SubOpen, Refuse,
       SubSend, Crash,
       clientVars
  <2>3. PICK c \in Clients : c = req[w]
    BY <2>1
  <2>4. \/ (\E x : client' = [client EXCEPT ![c] = x]) /\ UNCHANGED <<pipe, got>>
        \/ (\E x : pipe' = [pipe EXCEPT ![c] = x]) /\ UNCHANGED <<client, got>>
        \/ (\E x : got' = [got EXCEPT ![c] = x]) /\ UNCHANGED <<client, pipe>>
        \/ UNCHANGED <<client, pipe, got>>
    BY <1>3, <2>3 DEF ClientStep, ListReply, Reply, PubOpen, PubRead, SubOpen, Refuse,
       SubSend, Crash,
       clientVars
  <2> QED
    BY <1>1, <1>3, <2>1, <2>2, <2>3, <2>4
<1> QED
  BY <1>2, <1>3

\* The sessions that do not move.
LEMMA OtherClient ==
  ASSUME LogBase, NEW w \in Workers, Step(w), NEW v \in Workers, v # w,
         pc[v] # "idle", NEW c \in Clients, req[v] = c
  PROVE  /\ client'[c] = client[c] /\ pipe'[c] = pipe[c] /\ got'[c] = got[c] /\ sent'[c] = sent[c]
<1>1. pc[w] # "idle" => req[w] # c
  BY DEF LogBase, ReqInv
<1> QED
  BY <1>1, ClientsFrame

\* A step of one worker leaves the publishers' sessions of the others as they are.
LEMMA OtherPub ==
  ASSUME LogBase, LogBase', LogInv, NEW w \in Workers, Step(w), ~RemoveFile(w),
         NEW v \in Workers, v # w, NEW c \in Clients, NEW h \in Handles,
         pc'[v] \in PubFile, req'[v] = c, loc'[v].fd = h
  PROVE  PubAt(pc'[v], loc'[v], c, client'[c], OffsetOf(h)', FileCells(Request[c].box)',
               Consumed(c)')
<1>1. pc'[v] \in OpenSteps /\ pc'[v] \notin {"woken", "stranded"}
  BY DEF OpenSteps, PubFile
<1>2. /\ loc'[v] = loc[v] /\ req[v] = c /\ pc'[v] = pc[v] /\ loc[v].fd = h
      /\ OffsetOf(h)' = OffsetOf(h)
  BY <1>1, OffsetsStep
<1>3. pc[v] # "idle"
  BY <1>2 DEF PubFile
<1>4. client'[c] = client[c] /\ Consumed(c)' = Consumed(c)
  BY <1>2, <1>3, OtherClient DEF Consumed
<1>5. PICK p \in Names : p = Request[c].box
  BY ClientsAssumption
<1>6. FileCells(p)' = FileCells(p)
  <2>1. CASE SameFiles
    BY <2>1 DEF SameFiles
  <2>2. CASE ~SameFiles
    <3>1. PICK g \in Handles, q \in Names, b \in Seq(Message), n \in Nat : Wrote(w, g, q, b, n)
      BY <2>2, FilesStep
    <3>2. pc[w] \in PubSection /\ pc[v] \in PubSection
      BY <1>2, <3>1 DEF Wrote, PubWrite, At, PubSection, PubFile
    <3>3. Name(v) # Name(w)
      BY <3>2, NamesApart DEF LogBase
    <3>4. p # q
      BY <1>2, <1>5, <3>1, <3>3 DEF Wrote, Name
    <3> QED
      BY <3>1, <3>4 DEF Wrote
  <2> QED
    BY <2>1, <2>2
<1>7. PubAt(pc[v], loc[v], c, client[c], OffsetOf(h), FileCells(p), Consumed(c))
  BY <1>2, <1>5 DEF LogInv, PubInv
<1> QED
  BY <1>2, <1>4, <1>5, <1>6, <1>7

\* A step of one worker leaves the subscribers' sessions of the others as they are.
LEMMA OtherSub ==
  ASSUME LogBase, LogBase', LogInv, NEW w \in Workers, Step(w), ~RemoveFile(w),
         NEW v \in Workers, v # w, NEW c \in Clients, NEW h \in Handles,
         pc'[v] \in SubFile, req'[v] = c, loc'[v].fd = h
  PROVE  SubAt(pc'[v], loc'[v], client'[c], OffsetOf(h)', FileCells(Request[c].box)', got'[c])
<1>1. pc'[v] \in OpenSteps
  BY DEF OpenSteps
<1>2. /\ loc'[v] = loc[v] /\ req[v] = c /\ loc[v].fd = h /\ OffsetOf(h)' = OffsetOf(h)
      /\ pc'[v] # pc[v] => pc[v] = "asleep" /\ pc'[v] \in {"woken", "stranded"}
  BY <1>1, OffsetsStep
<1>3. pc[v] # "idle" /\ pc[v] \in SubFile /\ (pc'[v] = "sub_send" <=> pc[v] = "sub_send")
  BY <1>2 DEF SubFile
<1>4. client'[c] = client[c] /\ got'[c] = got[c]
  BY <1>2, <1>3, OtherClient
<1>5. PICK p \in Names : p = Request[c].box
  BY ClientsAssumption
<1>6. SubAt(pc[v], loc[v], client[c], OffsetOf(h), FileCells(p), got[c])
  BY <1>2, <1>3, <1>5 DEF LogInv, SubInv
<1>7. FileCells(p) \in Seq(Message) /\ OffsetOf(h) \in Nat
  BY DEF LogInv, FilesInv, LogBase, TypeInv, BrokerInv, FSInv, FSTypeOK, OffsetOf
<1>8. PICK m \in Nat, s \in Seq(Message) : m = OffsetOf(h) /\ s = FileCells(p) /\ m <= Len(s)
  BY <1>6, <1>7 DEF SubAt
<1>9. PICK u : u = FileCells(p)'
  OBVIOUS
<1>10. Len(u) >= Len(s) /\ SubSeq(u, 1, m) = SubSeq(s, 1, m)
  <2>1. CASE u = s
    BY <1>8, <2>1
  <2>2. CASE u # s
    <3>1. PICK g \in Handles, q \in Names, b \in Seq(Message), n \in Nat : Wrote(w, g, q, b, n)
      BY <1>8, <1>9, <2>2, FilesStep DEF SameFiles
    <3>2. n \in 1 .. Len(b) /\ u = s \o SubSeq(b, 1, n)
      BY <1>8, <1>9, <2>2, <3>1 DEF Wrote
    <3>3. n <= Len(b)
      BY <3>2
    <3>4. SubSeq(b, 1, n) \in Seq(Message) /\ Len(SubSeq(b, 1, n)) = n
      BY <3>3, Beginning
    <3>5. PICK t \in Seq(Message) : t = SubSeq(b, 1, n) /\ Len(t) = n
      BY <3>4
    <3>6. SubSeq(s \o t, 1, m) = SubSeq(s, 1, m)
      BY <1>8, BeginningKept
    <3>7. Len(s \o t) = Len(s) + Len(t) /\ Len(s) \in Nat
      BY Appended
    <3>8. u = s \o t
      BY <3>2, <3>5
    <3>9. Len(u) = Len(s) + n /\ Len(s) \in Nat
      BY <3>5, <3>7, <3>8
    <3>10. Len(u) >= Len(s)
      BY <3>9
    <3> QED
      BY <3>6, <3>8, <3>10
  <2> QED
    BY <2>1, <2>2
<1>11. m <= Len(u)
  BY <1>8, <1>10
<1>12. SubAt(pc'[v], loc[v], client[c], m, u, got[c])
  BY <1>3, <1>6, <1>8, <1>10, <1>11 DEF SubAt
<1> QED
  BY <1>2, <1>4, <1>5, <1>8, <1>9, <1>12

\* A step without a call of the file system leaves files and offsets.
LEMMA QuietStep ==
  ASSUME LogBase, LogInv, NEW w \in Workers, Step(w), ~FSStep(w) \/ UNCHANGED fsVars
  PROVE  /\ SameFiles /\ FilesInv'
         /\ \A h \in Handles : OffsetOf(h)' = OffsetOf(h)
<1>1. UNCHANGED fsVars
  BY FSFrame
<1> QED
  BY <1>1, CellsSame DEF LogInv, SameFiles, OffsetOf, fsVars, openVars

\* What a publisher's session takes out of a pipe.
LEMMA TakenCells ==
  ASSUME NEW s \in Seq(Message), NEW n \in 0 .. Buffer, n <= Len(s)
  PROVE  /\ \A k \in 1 .. n : Newline(SubSeq(s, 1, n))[k].from = s[k].from
         /\ \A k \in 1 .. n : Newline(SubSeq(s, 1, n))[k].nr = s[k].nr
         /\ n > 0 => Newline(SubSeq(s, 1, n))[1].end = "newline"
         /\ Len(SubSeq(s, n + 1, Len(s))) = Len(s) - n
         /\ \A k \in 1 .. Len(s) - n : SubSeq(s, n + 1, Len(s))[k] = s[n + k]
<1>1. Buffer \in Nat /\ Len(s) \in Nat
  BY BrokerAssumption
<1>2. n \in Nat
  BY <1>1
<1>3. PICK b : b = Newline(SubSeq(s, 1, n))
  OBVIOUS
<1>a. /\ SubSeq(s, 1, n) \in Seq(Message) /\ Len(SubSeq(s, 1, n)) = n
      /\ \A i \in 1 .. n : SubSeq(s, 1, n)[i] = s[i]
  BY <1>2, Beginning
<1>4. PICK t \in Seq(Message) : /\ t = SubSeq(s, 1, n) /\ Len(t) = n
                                /\ \A i \in 1 .. n : t[i] = s[i]
  BY <1>a
<1>b. Newline(t) = [i \in 1 .. n |-> IF i = 1 THEN [t[i] EXCEPT !.end = "newline"] ELSE t[i]]
  <2>1. t \in Seq(Message) /\ Len(t) = n
    BY <1>4
  <2> QED
    BY <2>1 DEF Newline
<1>5. \A k \in 1 .. n : b[k] = IF k = 1 THEN [t[k] EXCEPT !.end = "newline"] ELSE t[k]
  BY <1>3, <1>4, <1>b
<1>6. \A m \in Message : [m EXCEPT !.end = "newline"].from = m.from
                         /\ [m EXCEPT !.end = "newline"].nr = m.nr
                         /\ [m EXCEPT !.end = "newline"].end = "newline"
  BY DEF Message
<1>7. \A k \in 1 .. n : t[k] \in Message
  BY <1>4
<1>8. \A k \in 1 .. n : b[k].from = s[k].from /\ b[k].nr = s[k].nr
  <2> SUFFICES ASSUME NEW k \in 1 .. n PROVE b[k].from = s[k].from /\ b[k].nr = s[k].nr
    OBVIOUS
  <2>1. b[k].from = t[k].from /\ b[k].nr = t[k].nr
    BY <1>5, <1>6, <1>7
  <2> QED
    BY <1>4, <2>1
<1>9. n > 0 => b[1].end = "newline"
  <2>1. n > 0 => 1 \in 1 .. n
    BY <1>2
  <2>2. n > 0 => b[1] = [t[1] EXCEPT !.end = "newline"] /\ t[1] \in Message
    BY <1>5, <1>7, <2>1
  <2> QED
    BY <1>6, <2>2
<1>10. PICK m \in Nat : m = Len(s) - n /\ n + m = Len(s)
  <2>1. Len(s) - n \in Nat /\ n + (Len(s) - n) = Len(s)
    BY <1>1, <1>2
  <2> QED
    BY <2>1
<1>11. n + m <= Len(s)
  BY <1>1, <1>10
<1>12. /\ SubSeq(s, n + 1, n + m) \in Seq(Message) /\ Len(SubSeq(s, n + 1, n + m)) = m
       /\ \A i \in 1 .. m : SubSeq(s, n + 1, n + m)[i] = s[n + i]
  BY <1>2, <1>11, PartAfter
<1> QED
  BY <1>3, <1>8, <1>9, <1>10, <1>12

\* A session of a publisher reads the next messages of its pipe.
LEMMA ReadMessages ==
  ASSUME LogBase, LogInv, NEW w \in Workers, PubRead(w), ~Crash, NEW c \in Clients, c = req[w]
  PROVE  \E b \in Seq(Message) :
           /\ loc' = [loc EXCEPT ![w].buffer = b] /\ pc' = [pc EXCEPT ![w] = "pub_write"]
           /\ UNCHANGED <<client, sent, got>>
           /\ Consumed(c) \in Nat /\ Consumed(c)' = Consumed(c) + Len(b)
           /\ \A k \in 1 .. Len(b) : b[k].from = c /\ b[k].nr = Consumed(c) + k
           /\ Len(b) > 0 => b[1].end = "newline"
           /\ Len(pipe'[c]) <= sent[c]
           /\ \A k \in 1 .. Len(pipe'[c]) :
                pipe'[c][k].from = c /\ pipe'[c][k].nr = Consumed(c)' + k
<1>1. pipe \in [Clients -> Seq(Message)] /\ sent \in [Clients -> 0 .. MaxMessages]
  BY DEF LogBase, TypeInv, ClientInv
<1>2. MaxMessages \in Nat /\ Buffer \in Nat
  BY BrokerAssumption
<1>3. PICK s \in Seq(Message), x \in Nat :
        /\ s = pipe[c] /\ x = sent[c] /\ Len(s) <= x
        /\ \A k \in 1 .. Len(s) : s[k].from = c /\ s[k].nr = Consumed(c) + k
  <2>1. pipe[c] \in Seq(Message) /\ sent[c] \in Nat
    BY <1>1, <1>2
  <2> QED
    BY <2>1 DEF LogInv, PipeInv
<1>4. Len(s) \in Nat
  OBVIOUS
<1>5. PICK n \in 0 .. Buffer : n = Min({Len(s), Buffer}) /\ n <= Len(s)
  <2>1. Min({Len(s), Buffer}) = IF Len(s) <= Buffer THEN Len(s) ELSE Buffer
    BY <1>2, <1>4, LesserOf
  <2> QED
    BY <1>2, <1>4, <2>1
<1>6. PICK b, r : /\ b = Newline(SubSeq(s, 1, n)) /\ r = SubSeq(s, n + 1, Len(s))
  OBVIOUS
<1>7. /\ b \in Seq(Message) /\ Len(b) = n
      /\ \A k \in 1 .. n : b[k].from = s[k].from /\ b[k].nr = s[k].nr
      /\ n > 0 => b[1].end = "newline"
      /\ r \in Seq(Message) /\ Len(r) = Len(s) - n
      /\ \A k \in 1 .. Len(s) - n : r[k] = s[n + k]
  <2>1. /\ Newline(SubSeq(s, 1, n)) \in Seq(Message) /\ Len(Newline(SubSeq(s, 1, n))) = n
        /\ SubSeq(s, n + 1, Len(s)) \in Seq(Message)
    BY <1>5, TakenFromPipe
  <2>2. /\ \A k \in 1 .. n : Newline(SubSeq(s, 1, n))[k].from = s[k].from
        /\ \A k \in 1 .. n : Newline(SubSeq(s, 1, n))[k].nr = s[k].nr
        /\ n > 0 => Newline(SubSeq(s, 1, n))[1].end = "newline"
        /\ Len(SubSeq(s, n + 1, Len(s))) = Len(s) - n
        /\ \A k \in 1 .. Len(s) - n : SubSeq(s, n + 1, Len(s))[k] = s[n + k]
    BY <1>5, TakenCells
  <2> QED
    BY <1>6, <2>1, <2>2
<1>8. /\ loc' = [loc EXCEPT ![w].buffer = b]
      /\ pipe' = [pipe EXCEPT ![c] = r]
      /\ pc' = [pc EXCEPT ![w] = "pub_write"]
      /\ UNCHANGED <<client, sent, got>>
  BY <1>3, <1>5, <1>6 DEF PubRead, Goto
<1>9. pipe'[c] = r
  BY <1>1, <1>8
<1>10. /\ Consumed(c) = x - Len(s) /\ Consumed(c)' = x - Len(r)
  BY <1>3, <1>8, <1>9 DEF Consumed
<1>11. n \in Nat
  BY <1>2
<1>12. PICK m \in Nat : m = Consumed(c)
  BY <1>3, <1>4, <1>10
<1>13. Consumed(c)' = m + n /\ Len(r) <= x
  BY <1>3, <1>4, <1>7, <1>10, <1>11, <1>12
<1>14. \A k \in 1 .. Len(b) : b[k].from = c /\ b[k].nr = m + k
  <2>1. \A k \in 1 .. n : k \in 1 .. Len(s)
    BY <1>4, <1>5, <1>11
  <2> QED
    BY <1>3, <1>7, <1>12, <2>1
<1>15. \A k \in 1 .. Len(r) : r[k].from = c /\ r[k].nr = (m + n) + k
  <2> SUFFICES ASSUME NEW k \in 1 .. Len(r) PROVE r[k].from = c /\ r[k].nr = (m + n) + k
    OBVIOUS
  <2>1. PICK i \in 1 .. Len(s) : i = n + k
    BY <1>4, <1>5, <1>7, <1>11
  <2>2. r[k] = s[i]
    BY <1>7, <2>1
  <2>3. m + i = (m + n) + k
    BY <1>11, <2>1
  <2> QED
    BY <1>3, <1>12, <2>2, <2>3
<1>16. /\ Consumed(c) \in Nat /\ Consumed(c)' = Consumed(c) + Len(b)
       /\ \A k \in 1 .. Len(b) : b[k].from = c /\ b[k].nr = Consumed(c) + k
       /\ Len(b) > 0 => b[1].end = "newline"
  BY <1>7, <1>12, <1>13, <1>14
<1>17. /\ Len(pipe'[c]) <= sent[c]
       /\ \A k \in 1 .. Len(pipe'[c]) :
            pipe'[c][k].from = c /\ pipe'[c][k].nr = Consumed(c)' + k
  BY <1>3, <1>9, <1>13, <1>15
<1> QED
  BY <1>7, <1>8, <1>16, <1>17

\* A session of a publisher writes what follows.
LEMMA WrittenCells ==
  ASSUME LogBase, LogInv, NEW w \in Workers, NEW h \in Handles, NEW p \in Names,
         NEW b \in Seq(Message), NEW n \in Nat, Wrote(w, h, p, b, n),
         NEW c \in Clients, c = req[w]
  PROVE  /\ p = Request[c].box /\ client[c] \in {"open", "left"}
         /\ FileCells(p) \in Seq(Message) /\ SubSeq(b, 1, n) \in Seq(Message)
         /\ Len(SubSeq(b, 1, n)) = n /\ n \in 1 .. Len(b)
         /\ OffsetOf(h) = Len(FileCells(p))
         /\ Consumed(c) = FromIn(FileCells(p), c) + Len(b) /\ FromIn(FileCells(p), c) \in Nat
         /\ InOrder(FileCells(p) \o SubSeq(b, 1, n)) /\ EndsLines(FileCells(p) \o SubSeq(b, 1, n))
         /\ FromIn(FileCells(p) \o SubSeq(b, 1, n), c) = FromIn(FileCells(p), c) + n
         /\ \A d : d # c => FromIn(FileCells(p) \o SubSeq(b, 1, n), d) = FromIn(FileCells(p), d)
<1>1. /\ pc[w] = "pub_write" /\ pc[w] \in PubFile /\ h = loc[w].fd /\ b = loc[w].buffer
      /\ p = Request[c].box /\ n \in 1 .. Len(b)
  BY DEF Wrote, PubWrite, At, PubFile, Name
<1>2. PubAt(pc[w], loc[w], c, client[c], OffsetOf(h), FileCells(p), Consumed(c))
  BY <1>1 DEF LogInv, PubInv
<1>3. /\ client[c] \in {"open", "left"} /\ OffsetOf(h) = Len(FileCells(p))
      /\ Consumed(c) = FromIn(FileCells(p), c) + Len(b) /\ Follow(b, FileCells(p), c)
      /\ Len(b) > 0 => b[1].end = "newline"
  BY <1>1, <1>2 DEF PubAt
<1>4. PICK s \in Seq(Message) : s = FileCells(p) /\ InOrder(s) /\ EndsLines(s)
  BY DEF LogInv, FilesInv, FilesKept
<1>a. n <= Len(b) /\ n > 0 /\ 1 \in 1 .. n
  BY <1>1
<1>b. /\ SubSeq(b, 1, n) \in Seq(Message) /\ Len(SubSeq(b, 1, n)) = n
      /\ \A i \in 1 .. n : SubSeq(b, 1, n)[i] = b[i]
  BY <1>a, Beginning
<1>5. PICK t \in Seq(Message) : /\ t = SubSeq(b, 1, n) /\ Len(t) = n
                                /\ \A i \in 1 .. n : t[i] = b[i]
  BY <1>b
<1>6. \A k \in 1 .. Len(t) : t[k].from = c /\ t[k].nr = FromIn(s, c) + k
  <2>1. \A k \in 1 .. n : k \in 1 .. Len(b)
    BY <1>a
  <2>2. \A k \in 1 .. Len(b) : b[k].from = c /\ b[k].nr = FromIn(s, c) + k
    BY <1>3, <1>4 DEF Follow
  <2> QED
    BY <1>5, <2>1, <2>2
<1>7. Follow(t, s, c) /\ \A k \in 1 .. Len(t) : t[k].from = c
  BY <1>6 DEF Follow
<1>8. t[1].end = "newline"
  BY <1>a, <1>3, <1>5
<1>9. /\ InOrder(s \o t) /\ FromIn(s \o t, c) = FromIn(s, c) + Len(t)
      /\ \A d : d # c => FromIn(s \o t, d) = FromIn(s, d)
      /\ FromIn(s, c) \in Nat
  BY <1>4, <1>7, OrderKept
<1>10. EndsLines(s \o t)
  BY <1>4, <1>7, <1>8, LinesAdded
<1> QED
  BY <1>1, <1>3, <1>4, <1>5, <1>9, <1>10

\* A session of a publisher goes on.
LEMMA OwnPub ==
  ASSUME LogBase, LogBase', LogInv, NEW w \in Workers, Step(w), ~RemoveFile(w),
         NEW c \in Clients, NEW h \in Handles,
         pc'[w] \in PubFile, req'[w] = c, loc'[w].fd = h
  PROVE  PubAt(pc'[w], loc'[w], c, client'[c], OffsetOf(h)', FileCells(Request[c].box)',
               Consumed(c)')
<1>1. /\ pc \in [Workers -> Labels] /\ loc \in [Workers -> LocType] /\ loc[w] \in LocType
      /\ client \in [Clients -> States] /\ Shape(w) /\ FSInv /\ FSInv'
  BY DEF LogBase, TypeInv, ClientInv, BrokerInv, BrokerTypeOK, LocType
<1> USE DEF PubFile
<1>2. pc[w] \in PubSection
  <2>1. pc'[w] \in PubSection
    BY DEF PubSection
  <2>2. ~PubCount(w)
    BY <1>1 DEF PubCount, Goto
  <2> QED
    BY <2>1, <2>2, PubKept DEF LogBase
<1>3. pc[w] # "idle" /\ Code(w) = "publisher"
  <2>1. pc[w] # "idle"
    BY <1>2 DEF PubSection
  <2> QED
    BY <1>1, <1>2, <2>1, CodeAt
<1>4. req' = req
  <2>1. ~Begin(w)
    BY <1>3 DEF Begin, At
  <2> QED
    BY <2>1, RequestFrame DEF requestVars
<1>5. PICK p \in Names : p = Request[c].box /\ p = Name(w) /\ req[w] = c
  BY <1>4, ClientsAssumption DEF Name
<1>6. ASSUME pc[w] \in PubFile, loc[w].fd = h
      PROVE  PubAt(pc[w], loc[w], c, client[c], OffsetOf(h), FileCells(p), Consumed(c))
  BY <1>5, <1>6 DEF LogInv, PubInv
<1>7. SUFFICES PubAt(pc'[w], loc'[w], c, client'[c], OffsetOf(h)', FileCells(p)', Consumed(c)')
  BY <1>5
<1>8. CASE Crash
  <2>1. UNCHANGED <<fsVars, pc, loc, clientVars>>
    BY <1>8 DEF Crash
  <2>2. FileCells(p)' = FileCells(p) /\ OffsetOf(h)' = OffsetOf(h)
    BY <2>1, QuietStep DEF SameFiles
  <2>3. client'[c] = client[c] /\ Consumed(c)' = Consumed(c) /\ pc' = pc /\ loc' = loc
    BY <2>1 DEF clientVars, Consumed
  <2> QED
    BY <1>6, <2>2, <2>3
<1>9. CASE PubOpen(w)
  <2>1. PICK fd \in Handles \cup {-1} :
          /\ tfs_open(p, {"APPEND"}, fd) /\ loc' = [loc EXCEPT ![w].fd = fd]
          /\ pc' = [pc EXCEPT ![w] = IF fd = -1 THEN "idle" ELSE "pub_lock"]
    BY <1>5, <1>9 DEF PubOpen, Goto
  <2>2. fd = h /\ fd # -1 /\ pc'[w] = "pub_lock"
    BY <1>1, <2>1 DEF LocType
  <2>3. /\ client[c] = "sent" /\ client' = [client EXCEPT ![c] = "open"] /\ UNCHANGED <<pipe, sent>>
    BY <1>5, <1>9 DEF PubOpen
  <2>4. /\ FileCells(p)' = FileCells(p) /\ OffsetOf(h)' = Len(FileCells(p))
    BY <1>1, <2>1, <2>2, OpenCells DEF LogInv
  <2>5. sent[c] = 0 /\ pipe[c] = <<>> /\ FromIn(FileCells(p), c) = 0
    BY <2>3 DEF LogInv, PipeInv
  <2>6. Len(<<>>) = 0
    OBVIOUS
  <2>7. Consumed(c)' = 0
    <3>1. Consumed(c)' = sent[c] - Len(pipe[c])
      BY <2>3 DEF Consumed
    <3>2. sent[c] - Len(pipe[c]) = 0 - 0
      BY <2>5, <2>6
    <3> QED
      BY <3>1, <3>2
  <2> QED
    BY <1>1, <2>2, <2>3, <2>4, <2>5, <2>7 DEF PubAt
<1>10. CASE PubLock(w) \/ PubSignal(w)
  <2>1. UNCHANGED <<loc, client, pipe, sent>> /\ pc[w] \in PubFile
    BY <1>10 DEF PubLock, PubSignal, At, clientVars
  <2>2. ~FSStep(w)
    BY <1>10 DEF FSStep, PubLock, PubSignal, CreateFile, CreateClose, RemoveFile, PubOpen, PubWrite,
         PubClose, SubOpen, SubRead, At
  <2>3. FileCells(p)' = FileCells(p) /\ OffsetOf(h)' = OffsetOf(h)
    BY <2>2, QuietStep DEF SameFiles
  <2>4. PubAt(pc[w], loc[w], c, client[c], OffsetOf(h), FileCells(p), Consumed(c))
    BY <1>6, <2>1
  <2>5. Consumed(c)' = Consumed(c)
    BY <2>1 DEF Consumed
  <2>6. CASE PubLock(w)
    <3>1. pc[w] = "pub_lock" /\ pc'[w] = "pub_read"
      BY <1>1, <2>6 DEF PubLock, At, Goto
    <3> QED
      BY <2>1, <2>3, <2>4, <2>5, <3>1 DEF PubAt
  <2>7. CASE PubSignal(w)
    <3>1. pc[w] = "pub_signal" /\ pc'[w] \in {"pub_short", "pub_end", "pub_read"}
          /\ (pc'[w] = "pub_read" => loc[w].n = Len(loc[w].buffer))
      BY <1>1, <2>7 DEF PubSignal, At, Woken
    <3> QED
      BY <2>1, <2>3, <2>4, <2>5, <3>1 DEF PubAt
  <2> QED
    BY <1>10, <2>6, <2>7
<1>11. CASE PubRead(w) /\ ~Crash
  <2>1. PICK b \in Seq(Message) :
          /\ loc' = [loc EXCEPT ![w].buffer = b] /\ pc' = [pc EXCEPT ![w] = "pub_write"]
          /\ UNCHANGED client
          /\ Consumed(c)' = Consumed(c) + Len(b)
          /\ \A k \in 1 .. Len(b) : b[k].from = c /\ b[k].nr = Consumed(c) + k
          /\ Len(b) > 0 => b[1].end = "newline"
    BY <1>5, <1>11, ReadMessages
  <2>2. pc[w] = "pub_read" /\ pc'[w] = "pub_write" /\ loc'[w].buffer = b /\ loc[w].fd = h
    BY <1>1, <1>11, <2>1 DEF PubRead, At, LocType
  <2>3. ~FSStep(w)
    BY <1>11 DEF FSStep, PubRead, CreateFile, CreateClose, RemoveFile, PubOpen, PubWrite,
         PubClose, SubOpen, SubRead, At
  <2>4. FileCells(p)' = FileCells(p) /\ OffsetOf(h)' = OffsetOf(h)
    BY <2>3, QuietStep DEF SameFiles
  <2>5. PubAt(pc[w], loc[w], c, client[c], OffsetOf(h), FileCells(p), Consumed(c))
    BY <1>6, <2>2
  <2>6. Consumed(c) = FromIn(FileCells(p), c)
    BY <2>2, <2>5 DEF PubAt
  <2>7. Follow(b, FileCells(p), c)
    BY <2>1, <2>6 DEF Follow
  <2> QED
    BY <2>1, <2>2, <2>4, <2>5, <2>6, <2>7 DEF PubAt
<1>12. CASE PubWrite(w)
  <2>1. pc[w] = "pub_write" /\ pc'[w] = "pub_signal" /\ UNCHANGED <<client, pipe, sent>>
    BY <1>1, <1>12 DEF PubWrite, At, Goto, clientVars
  <2>2. Consumed(c)' = Consumed(c)
    BY <2>1 DEF Consumed
  <2>3. ASSUME NEW n, loc' = [loc EXCEPT ![w].n = n]
        PROVE  /\ loc[w].fd = h /\ loc'[w].n = n /\ loc'[w].buffer = loc[w].buffer
               /\ PubAt(pc[w], loc[w], c, client[c], OffsetOf(h), FileCells(p), Consumed(c))
    BY <1>1, <1>6, <2>1, <2>3 DEF LocType
  <2>4. CASE /\ UNCHANGED fsVars /\ SameFiles
             /\ \E n \in -1 .. 0 : loc' = [loc EXCEPT ![w].n = n]
    <3>1. PICK n \in -1 .. 0 : loc' = [loc EXCEPT ![w].n = n]
      BY <2>4
    <3>2. FileCells(p)' = FileCells(p) /\ OffsetOf(h)' = OffsetOf(h)
      BY <2>4 DEF SameFiles, fsVars, openVars, OffsetOf
    <3>3. Len(loc[w].buffer) \in Nat
      BY <1>1 DEF LocType
    <3>4. n = Len(loc[w].buffer) => Consumed(c) = FromIn(FileCells(p), c)
      <4>1. Consumed(c) = FromIn(FileCells(p), c) + Len(loc[w].buffer)
        BY <2>1, <2>3, <3>1 DEF PubAt
      <4>2. FromIn(FileCells(p), c) \in Nat
        BY FromInNat DEF LogInv, FilesInv
      <4> QED
        BY <3>3, <4>1, <4>2
    <3> QED
      BY <2>1, <2>2, <2>3, <3>1, <3>2, <3>4 DEF PubAt
  <2>5. CASE \E g \in Handles, q \in Names, b \in Seq(Message), n \in Nat : Wrote(w, g, q, b, n)
    <3>1. PICK g \in Handles, q \in Names, b \in Seq(Message), n \in Nat : Wrote(w, g, q, b, n)
      BY <2>5
    <3>2. loc' = [loc EXCEPT ![w].n = n] /\ g = loc[w].fd /\ q = p /\ b = loc[w].buffer
      BY <1>5, <3>1 DEF Wrote
    <3>3. g = h /\ loc'[w].n = n /\ loc'[w].buffer = b
      BY <2>3, <3>2
    <3>4. /\ client[c] \in {"open", "left"}
          /\ FileCells(p) \in Seq(Message) /\ SubSeq(b, 1, n) \in Seq(Message)
          /\ Len(SubSeq(b, 1, n)) = n
          /\ OffsetOf(h) = Len(FileCells(p))
          /\ Consumed(c) = FromIn(FileCells(p), c) + Len(b)
          /\ FromIn(FileCells(p) \o SubSeq(b, 1, n), c) = FromIn(FileCells(p), c) + n
      BY <1>5, <3>1, <3>2, <3>3, WrittenCells
    <3>5. FileCells(p)' = FileCells(p) \o SubSeq(b, 1, n) /\ OffsetOf(h)' = OffsetOf(h) + n
      BY <3>1, <3>2, <3>3 DEF Wrote
    <3>6. PICK s \in Seq(Message), t \in Seq(Message) : s = FileCells(p) /\ t = SubSeq(b, 1, n)
      BY <3>4
    <3>7. Len(s \o t) = Len(s) + Len(t)
      BY Appended
    <3>8. OffsetOf(h)' = Len(FileCells(p)')
      BY <3>4, <3>5, <3>6, <3>7
    <3>9. n = Len(b) => Consumed(c) = FromIn(FileCells(p)', c)
      BY <3>4, <3>5
    <3> QED
      BY <2>1, <2>2, <3>3, <3>4, <3>8, <3>9 DEF PubAt
  <2> QED
    BY <1>12, <2>4, <2>5, WriteStep
<1>13. CASE \/ FindBox(w) \/ FindNothing(w) \/ Found(w)
            \/ PubCount(w) \/ PubUncount(w) \/ PubMiscount(w)
            \/ PubClose(w, "pub_end", "pub_uncount") \/ PubClose(w, "pub_short", "pub_miscount")
  BY <1>1, <1>2, <1>8, <1>13 DEF FindBox, FindNothing, Found, PubCount, PubUncount,
     PubMiscount, PubClose,
     At, Goto, PubSection
<1> QED
  BY <1>3, <1>8, <1>9, <1>10, <1>11, <1>12, <1>13, PublisherSteps DEF LogBase

\* A session of a subscriber goes on.
LEMMA OwnSub ==
  ASSUME LogBase, LogBase', LogInv, NEW w \in Workers, Step(w), ~RemoveFile(w),
         NEW c \in Clients, NEW h \in Handles,
         pc'[w] \in SubFile, req'[w] = c, loc'[w].fd = h
  PROVE  SubAt(pc'[w], loc'[w], client'[c], OffsetOf(h)', FileCells(Request[c].box)', got'[c])
<1>1. /\ pc \in [Workers -> Labels] /\ loc \in [Workers -> LocType] /\ loc[w] \in LocType
      /\ client \in [Clients -> States] /\ got \in [Clients -> Seq(Message \cup {NoCell})]
      /\ Shape(w) /\ Shape(w)' /\ FSInv /\ FSInv'
  BY DEF LogBase, TypeInv, ClientInv, BrokerInv, BrokerTypeOK, LocType
<1> USE DEF SubFile
<1>2. ~Begin(w)
  BY BeginClosed DEF LogBase
<1>3. pc[w] # "idle" /\ req' = req
  BY <1>2, Busy, RequestFrame DEF requestVars
<1>4. Code(w) = "subscriber"
  <2>1. pc'[w] \in StepsOf[Code(w)] /\ Code(w) \in Codes
    BY <1>1, <1>3, CodeAt DEF Shape, Code
  <2> QED
    BY <2>1 DEF StepsOf, Codes, CreateSection, PubSection, PubFile
<1>5. PICK p \in Names : p = Request[c].box /\ p = Name(w) /\ req[w] = c
  BY <1>3, ClientsAssumption DEF Name
<1>6. ASSUME pc[w] \in SubFile, loc[w].fd = h
      PROVE  SubAt(pc[w], loc[w], client[c], OffsetOf(h), FileCells(p), got[c])
  BY <1>5, <1>6 DEF LogInv, SubInv
<1>7. SUFFICES SubAt(pc'[w], loc'[w], client'[c], OffsetOf(h)', FileCells(p)', got'[c])
  BY <1>5
<1>8. PICK s \in Seq(Message) : s = FileCells(p)
  BY DEF LogInv, FilesInv
<1>9. CASE Crash
  <2>1. UNCHANGED <<fsVars, pc, loc, clientVars>>
    BY <1>9 DEF Crash
  <2>2. FileCells(p)' = FileCells(p) /\ OffsetOf(h)' = OffsetOf(h)
    BY <2>1, QuietStep DEF SameFiles
  <2> QED
    BY <1>6, <2>1, <2>2 DEF clientVars
<1>10. CASE SubOpen(w)
  <2>1. PICK fd \in Handles \cup {-1} :
          /\ tfs_open(p, {}, fd) /\ loc' = [loc EXCEPT ![w].fd = fd]
          /\ pc' = [pc EXCEPT ![w] = IF fd = -1 THEN "refuse" ELSE "sub_lock"]
    BY <1>5, <1>10 DEF SubOpen, Goto
  <2>2. fd = h /\ fd # -1 /\ pc'[w] = "sub_lock"
    BY <1>1, <2>1 DEF LocType
  <2>3. client[c] = "sent" /\ client' = [client EXCEPT ![c] = "open"] /\ got' = got
    BY <1>5, <1>10 DEF SubOpen
  <2>4. PICK mode : mode = {}
    OBVIOUS
  <2>5. FileCells(p)' = FileCells(p) /\ OffsetOf(h)' = 0
    BY <1>1, <2>1, <2>2, <2>4, OpenCells DEF LogInv
  <2>6. got[c] = <<>>
    BY <2>3 DEF LogInv, PipeInv
  <2>7. SubSeq(s, 1, 0) = <<>> /\ 0 <= Len(s)
    OBVIOUS
  <2> QED
    BY <1>1, <1>8, <2>2, <2>3, <2>5, <2>6, <2>7 DEF SubAt
<1>11. CASE SubLock(w) \/ SubWait(w) \/ WakeSpuriously(w)
  <2>1. /\ UNCHANGED <<loc, client, got>>
        /\ pc[w] \in SubFile \ {"sub_send", "sub_read"} /\ pc'[w] # "sub_send"
    BY <1>1, <1>11 DEF SubLock, SubWait, WakeSpuriously, At, Goto, clientVars
  <2>2. ~FSStep(w)
    BY <2>1 DEF FSStep, CreateFile, CreateClose, RemoveFile, PubOpen, PubWrite,
         PubClose, SubOpen, SubRead, At, requestVars
  <2>3. FileCells(p)' = FileCells(p) /\ OffsetOf(h)' = OffsetOf(h)
    BY <2>2, QuietStep DEF SameFiles
  <2> QED
    BY <1>6, <2>1, <2>3 DEF SubAt
<1>12. CASE SubRead(w) /\ ~Crash
  <2>1. pc[w] = "sub_read" /\ pc[w] \in OpenSteps
    BY <1>12 DEF SubRead, At, OpenSteps
  <2>2. /\ tfs_read(loc[w].fd, Buffer)
        /\ loc' = [loc EXCEPT ![w].buffer = Contents(loc[w].fd, Buffer)]
        /\ pc' = [pc EXCEPT ![w] = IF ToRead(loc[w].fd, Buffer) = 0 THEN "sub_wait" ELSE "sub_send"]
        /\ UNCHANGED <<client, got>>
    BY <1>12 DEF SubRead, Goto, clientVars
  <2>3. loc[w].fd = h
    BY <1>1, <2>2 DEF LocType
  <2>4. p \in DOMAIN dir /\ open_file_table[h].of_inumber = dir[p]
    BY <1>5, <2>1, <2>3, FileOpen
  <2>5. SubAt(pc[w], loc[w], client[c], OffsetOf(h), FileCells(p), got[c])
    BY <1>6, <2>1, <2>3
  <2>6. Buffer \in Nat /\ tfs_read(h, Buffer) /\ OffsetOf(h) <= Len(FileCells(p))
    BY <2>2, <2>3, <2>5, BrokerAssumption DEF SubAt
  <2>7. /\ ToRead(h, Buffer) \in 0 .. Buffer /\ OffsetOf(h) \in Nat
        /\ OffsetOf(h) + ToRead(h, Buffer) <= Len(FileCells(p))
        /\ Contents(h, Buffer) =
             SubSeq(FileCells(p), OffsetOf(h) + 1, OffsetOf(h) + ToRead(h, Buffer))
        /\ Len(Contents(h, Buffer)) = ToRead(h, Buffer)
        /\ OffsetOf(h)' = OffsetOf(h) + ToRead(h, Buffer)
        /\ UNCHANGED fileVars
    BY <1>1, <2>4, <2>6, ReadCells DEF LogInv
  <2>8. PICK m \in Nat, k \in Nat, b \in {Contents(h, Buffer)} :
          /\ m = OffsetOf(h) /\ k = ToRead(h, Buffer) /\ b = Contents(h, Buffer)
          /\ m + k <= Len(s) /\ b = SubSeq(s, m + 1, m + k) /\ Len(b) = k
    <3>1. PICK k \in Nat : k = ToRead(h, Buffer)
      BY <2>6, <2>7
    <3> QED
      BY <1>8, <2>7, <3>1
  <2>9. SubSeq(s, 1, m) \o SubSeq(s, m + 1, m + k) = SubSeq(s, 1, m + k)
    BY <2>8, BeginningGrows
  <2>10. got[c] = SubSeq(s, 1, m) /\ client[c] \in {"open", "left"}
    BY <1>8, <2>1, <2>5, <2>8 DEF SubAt
  <2>11. FileCells(p)' = s /\ OffsetOf(h)' = m + k
    BY <1>8, <2>7, <2>8, CellsSame DEF LogInv
  <2>12. loc'[w].buffer = b /\ pc'[w] = IF k = 0 THEN "sub_wait" ELSE "sub_send"
    BY <1>1, <2>2, <2>3, <2>8 DEF LocType
  <2>13. k = 0 => got[c] = SubSeq(s, 1, m + k)
    BY <2>10
  <2>14. SubAt(pc'[w], loc'[w], client[c], m + k, s, got[c])
    <3>1. CASE k = 0
      <4>1. pc'[w] # "sub_send"
        BY <2>12, <3>1
      <4> QED
        BY <2>8, <2>10, <2>13, <3>1, <4>1 DEF SubAt
    <3>2. CASE k # 0
      <4>a. pc'[w] = "sub_send" /\ Len(b) = k
        BY <2>8, <2>12, <3>2
      <4>1. pc'[w] = "sub_send" /\ Len(b) > 0
        BY <3>2, <4>a
      <4>2. got[c] \o loc'[w].buffer = SubSeq(s, 1, m + k)
        BY <2>8, <2>9, <2>10, <2>12
      <4> QED
        BY <2>8, <2>10, <2>12, <4>1, <4>2 DEF SubAt
    <3> QED
      BY <3>1, <3>2
  <2> QED
    BY <2>2, <2>11, <2>14
<1>13. CASE SubSend(w) /\ ~Crash
  <2>1. /\ pc[w] = "sub_send" /\ pc'[w] = "sub_read" /\ UNCHANGED <<loc, client>>
        /\ got'[c] = got[c] \o loc[w].buffer
    BY <1>1, <1>5, <1>13 DEF SubSend, At, Goto
  <2>2. ~FSStep(w)
    BY <2>1 DEF FSStep, CreateFile, CreateClose, RemoveFile, PubOpen, PubWrite,
         PubClose, SubOpen, SubRead, At, requestVars
  <2>3. FileCells(p)' = FileCells(p) /\ OffsetOf(h)' = OffsetOf(h)
    BY <2>2, QuietStep DEF SameFiles
  <2> QED
    BY <1>6, <2>1, <2>3 DEF SubAt
<1>14. CASE FindBox(w) \/ FindNothing(w) \/ Found(w) \/ SubCount(w) \/ Refuse(w)
  BY <1>1, <1>4, <1>9, <1>14 DEF FindBox, FindNothing, Found, SubCount, Refuse, ScanNext, At, Goto,
     HitStep, MissStep
<1> QED
  BY <1>3, <1>4, <1>9, <1>10, <1>11, <1>12, <1>13, <1>14, SubscriberSteps DEF LogBase

\* The pipes of the publishers, and the clients that have no session yet.
LEMMA PipeStep ==
  ASSUME LogBase, LogBase', LogInv, NEW w \in Workers, Step(w), ~RemoveFile(w)
  PROVE  PipeInv'
<1>1. /\ pc \in [Workers -> Labels] /\ loc \in [Workers -> LocType]
      /\ client \in [Clients -> States]
      /\ Shape(w) /\ PipeInv
  BY DEF LogBase, TypeInv, ClientInv, BrokerInv, BrokerTypeOK, LocType, LogInv
<1>2. sent' = sent
  BY ClientsFrame
<1>3. ASSUME NEW c \in Clients
      PROVE  /\ Len(pipe'[c]) <= sent[c]
             /\ \A k \in 1 .. Len(pipe'[c]) :
                  pipe'[c][k].from = c /\ pipe'[c][k].nr = Consumed(c)' + k
             /\ client'[c] \in {"new", "sent"} => pipe'[c] = pipe[c]
  <2>1. CASE pipe'[c] = pipe[c]
    <3>1. Consumed(c)' = Consumed(c)
      BY <1>2, <2>1 DEF Consumed
    <3> QED
      BY <1>1, <2>1, <3>1 DEF PipeInv
  <2>2. CASE pipe'[c] # pipe[c]
    <3>1. PubRead(w) /\ ~Crash
      <4>1. ClientStep(w)
        BY <2>2, ClientFrame DEF clientVars
      <4> QED
        BY <2>2, <4>1 DEF ClientStep, ListReply, Reply, PubOpen, SubOpen, Refuse,
       SubSend, Crash,
           clientVars
    <3>2. c = req[w]
      BY <2>2, ClientsFrame
    <3>3. /\ Len(pipe'[c]) <= sent[c] /\ client' = client
          /\ \A k \in 1 .. Len(pipe'[c]) :
               pipe'[c][k].from = c /\ pipe'[c][k].nr = Consumed(c)' + k
      BY <3>1, <3>2, ReadMessages
    <3>4. PICK h \in Handles : h = loc[w].fd
      BY <1>1, <3>1 DEF PubRead, At, Shape, OpenSteps, PubFile
    <3>5. client[c] \in {"open", "left"}
      <4>1. pc[w] \in PubFile
        BY <3>1 DEF PubRead, At, PubFile
      <4>2. PubAt(pc[w], loc[w], c, client[c], OffsetOf(h), FileCells(Request[c].box), Consumed(c))
        BY <3>2, <3>4, <4>1 DEF LogInv, PubInv
      <4> QED
        BY <4>2 DEF PubAt
    <3> QED
      BY <3>3, <3>5
  <2> QED
    BY <2>1, <2>2
<1>4. ASSUME NEW c \in Clients, client'[c] \in {"new", "sent"}
      PROVE  /\ client[c] \in {"new", "sent"} /\ got'[c] = got[c]
             /\ \A p \in Names : FromIn(FileCells(p), c) = 0 => FromIn(FileCells(p)', c) = 0
  <2>1. client[c] \in {"new", "sent"}
    <3>1. CASE client' = client
      BY <1>4, <3>1
    <3>2. CASE client' # client
      <4>1. PICK x \in {"open", "done"} : client' = [client EXCEPT ![req[w]] = x]
        BY <3>2, ServedOnly DEF LogBase
      <4> QED
        BY <1>1, <1>4, <4>1
    <3> QED
      BY <3>1, <3>2
  <2>2. got'[c] = got[c]
    <3>1. SUFFICES ASSUME got'[c] # got[c] PROVE FALSE
      OBVIOUS
    <3>2. SubSend(w) /\ ~Crash
      <4>1. ClientStep(w)
        BY <3>1, ClientFrame DEF clientVars
      <4> QED
        BY <3>1, <4>1 DEF ClientStep, ListReply, Reply, PubOpen, PubRead, SubOpen, Refuse, Crash,
           clientVars
    <3>3. c = req[w]
      BY <3>1, ClientsFrame
    <3> QED
      BY <2>1, <3>2, <3>3 DEF SubSend
  <2>3. ASSUME NEW p \in Names, FromIn(FileCells(p), c) = 0
        PROVE  FromIn(FileCells(p)', c) = 0
    <3>1. CASE FileCells(p)' = FileCells(p)
      BY <2>3, <3>1
    <3>2. CASE FileCells(p)' # FileCells(p)
      <4>1. PICK h \in Handles, q \in Names, b \in Seq(Message), n \in Nat : Wrote(w, h, q, b, n)
        BY <3>2, FilesStep DEF SameFiles
      <4>2. p = q /\ FileCells(p)' = FileCells(p) \o SubSeq(b, 1, n)
        BY <3>2, <4>1 DEF Wrote
      <4>3. PICK d \in Clients : d = req[w]
        BY <1>1, <4>1 DEF Wrote, PubWrite, At, Shape
      <4>4. /\ client[d] \in {"open", "left"}
            /\ \A e : e # d => FromIn(FileCells(q) \o SubSeq(b, 1, n), e) = FromIn(FileCells(q), e)
        BY <4>1, <4>3, WrittenCells
      <4> QED
        BY <2>1, <2>3, <4>2, <4>4
    <3> QED
      BY <3>1, <3>2
  <2> QED
    BY <2>1, <2>2, <2>3
<1> QED
  BY <1>1, <1>2, <1>3, <1>4 DEF PipeInv

\* The files keep their order and their lines.
LEMMA FilesKeptStep ==
  ASSUME LogBase, LogBase', LogInv, NEW w \in Workers, Step(w), ~RemoveFile(w)
  PROVE  FilesKept'
<1>1. SUFFICES ASSUME NEW p \in Names, NEW u, u = FileCells(p)'
               PROVE  InOrder(u) /\ EndsLines(u)
  BY DEF FilesKept
<1>2. CASE u = FileCells(p)
  BY <1>2 DEF LogInv, FilesKept
<1>3. CASE u # FileCells(p)
  <2>1. PICK h \in Handles, q \in Names, b \in Seq(Message), n \in Nat : Wrote(w, h, q, b, n)
    BY <1>1, <1>3, FilesStep DEF SameFiles
  <2>2. u = FileCells(q) \o SubSeq(b, 1, n)
    BY <1>1, <1>3, <2>1 DEF Wrote
  <2>3. PICK c \in Clients : c = req[w]
    BY <2>1 DEF Wrote, PubWrite, At, Shape, LogBase, TypeInv, BrokerInv
  <2>4. /\ InOrder(FileCells(q) \o SubSeq(b, 1, n)) /\ EndsLines(FileCells(q) \o SubSeq(b, 1, n))
    BY <2>1, <2>3, WrittenCells
  <2> QED
    BY <2>2, <2>4
<1> QED
  BY <1>2, <1>3

\* The invariant is kept by the steps of the workers.
LEMMA LogStep ==
  ASSUME LogBase, LogBase', LogInv, NEW w \in Workers, Step(w), ~RemoveFile(w)
  PROVE  LogInv'
<1>1. PubInv'
  <2> SUFFICES ASSUME NEW v \in Workers, NEW c \in Clients, NEW h \in Handles,
                      pc'[v] \in PubFile, req'[v] = c, loc'[v].fd = h
               PROVE  PubAt(pc'[v], loc'[v], c, client'[c], OffsetOf(h)',
                            FileCells(Request[c].box)', Consumed(c)')
    BY DEF PubInv
  <2>1. CASE v = w
    BY <2>1, OwnPub
  <2>2. CASE v # w
    BY <2>2, OtherPub
  <2> QED
    BY <2>1, <2>2
<1>2. SubInv'
  <2> SUFFICES ASSUME NEW v \in Workers, NEW c \in Clients, NEW h \in Handles,
                      pc'[v] \in SubFile, req'[v] = c, loc'[v].fd = h
               PROVE  SubAt(pc'[v], loc'[v], client'[c], OffsetOf(h)',
                            FileCells(Request[c].box)', got'[c])
    BY DEF SubInv
  <2>1. CASE v = w
    BY <2>1, OwnSub
  <2>2. CASE v # w
    BY <2>2, OtherSub
  <2> QED
    BY <2>1, <2>2
<1> QED
  BY <1>1, <1>2, FilesStep, PipeStep, FilesKeptStep DEF LogInv

\* Nothing is in a file that is not there.
LEMMA NoneFrom == \A c : FromIn(<<>>, c) = 0
<1>1. \A c : FromFirst(<<>>, 0, c) = {}
  BY DEF FromFirst
<1>2. Len(<<>>) = 0
  OBVIOUS
<1> QED
  BY <1>1, <1>2, FS_EmptySet DEF FromIn

\* A box that is removed has no sessions, so that the messages which are deleted are
\* those of nobody who still reads or writes.
LEMMA RemoveStep ==
  ASSUME RemovesApart, LogBase, LogBase', LogInv, NEW w \in Workers, Step(w), RemoveFile(w)
  PROVE  LogInv'
<1>1. /\ FSInv /\ FSInv' /\ FilesInv /\ PipeInv /\ TypeInv /\ ReqInv
      /\ \A u \in Workers : Shape(u)
      /\ pc \in [Workers -> Labels]
  BY DEF LogBase, LogInv, TypeInv, BrokerInv, BrokerTypeOK
<1>2. pc[w] = "unlink" /\ pc[w] # "idle" /\ Code(w) = "remove"
  BY <1>1, CodeAt DEF RemoveFile, At
<1>3. PICK r \in Names : r = Name(w)
  BY <1>1, <1>2, CodeAt
<1>4. UNCHANGED <<req, loc, client, pipe, sent, got>>
  BY DEF RemoveFile, requestVars, clientVars
<1>5. pc'[w] \in {"reply", "find"} /\ \A v \in Workers : v # w => pc'[v] = pc[v]
  BY <1>1 DEF RemoveFile, Goto
<1>6. /\ FilesInv' /\ \A q \in Names : q # r => FileCells(q)' = FileCells(q)
      /\ FileCells(r)' = FileCells(r) \/ FileCells(r)' = <<>>
      /\ \A h \in Handles : OffsetOf(h)' = OffsetOf(h)
  <2>1. CASE UNCHANGED fsVars
    <3>1. UNCHANGED fileVars /\ UNCHANGED open_file_table
      BY <2>1 DEF fsVars, openVars
    <3> QED
      BY <1>1, <3>1, CellsSame DEF OffsetOf
  <2>2. CASE tfs_lookup(r) # -1 /\ tfs_unlink(r)
    <3>1. r \in DOMAIN dir
      BY <1>1, <2>2, NameFound
    <3> QED
      BY <1>1, <2>2, <3>1, UnlinkCells
  <2> QED
    BY <1>3, <2>1, <2>2 DEF RemoveFile
<1>7. ASSUME NEW v \in Workers, NEW c \in Clients, pc'[v] \in PubFile \cup SubFile, req'[v] = c
      PROVE  /\ pc'[v] = pc[v] /\ req[v] = c /\ Request[c].box \in Names
             /\ FileCells(Request[c].box)' = FileCells(Request[c].box)
  <2>1. v # w /\ pc'[v] = pc[v] /\ req[v] = c
    BY <1>4, <1>5, <1>7 DEF PubFile, SubFile
  <2>2. pc[v] # "idle" /\ Code(v) \in {"publisher", "subscriber"}
    BY <1>1, <1>7, <2>1, CodeAt DEF PubFile, SubFile, PubSection
  <2>3. Name(v) # Name(w)
    BY <1>1, <1>2, <2>1, <2>2, RemovesAlone
  <2>4. PICK p \in Names : p = Request[c].box
    BY ClientsAssumption
  <2>5. p # r
    BY <1>3, <2>1, <2>3, <2>4 DEF Name
  <2> QED
    BY <1>6, <2>1, <2>4, <2>5
<1>8. \A c \in Clients : Consumed(c)' = Consumed(c)
  BY <1>4 DEF Consumed
<1>9. PubInv'
  <2> SUFFICES ASSUME NEW v \in Workers, NEW c \in Clients, NEW h \in Handles,
                      pc'[v] \in PubFile, req'[v] = c, loc'[v].fd = h
               PROVE  PubAt(pc'[v], loc'[v], c, client'[c], OffsetOf(h)',
                            FileCells(Request[c].box)', Consumed(c)')
    BY DEF PubInv
  <2>1. PICK p \in Names : p = Request[c].box
    BY ClientsAssumption
  <2>2. pc'[v] = pc[v] /\ req[v] = c /\ FileCells(p)' = FileCells(p)
    BY <1>7, <2>1
  <2>3. PubAt(pc[v], loc[v], c, client[c], OffsetOf(h), FileCells(p), Consumed(c))
    BY <1>4, <2>1, <2>2 DEF LogInv, PubInv
  <2> QED
    BY <1>4, <1>6, <1>8, <2>1, <2>2, <2>3
<1>10. SubInv'
  <2> SUFFICES ASSUME NEW v \in Workers, NEW c \in Clients, NEW h \in Handles,
                      pc'[v] \in SubFile, req'[v] = c, loc'[v].fd = h
               PROVE  SubAt(pc'[v], loc'[v], client'[c], OffsetOf(h)',
                            FileCells(Request[c].box)', got'[c])
    BY DEF SubInv
  <2>1. PICK p \in Names : p = Request[c].box
    BY ClientsAssumption
  <2>2. pc'[v] = pc[v] /\ req[v] = c /\ FileCells(p)' = FileCells(p)
    BY <1>7, <2>1
  <2>3. SubAt(pc[v], loc[v], client[c], OffsetOf(h), FileCells(p), got[c])
    BY <1>4, <2>1, <2>2 DEF LogInv, SubInv
  <2> QED
    BY <1>4, <1>6, <2>1, <2>2, <2>3
<1>11. PipeInv'
  <2> SUFFICES ASSUME NEW c \in Clients
               PROVE  /\ Len(pipe[c]) <= sent[c]
                      /\ \A k \in 1 .. Len(pipe[c]) :
                           pipe[c][k].from = c /\ pipe[c][k].nr = Consumed(c)' + k
                      /\ client[c] \in {"new", "sent"} =>
                           /\ sent[c] = 0 /\ pipe[c] = <<>> /\ got[c] = <<>>
                           /\ \A p \in Names : FromIn(FileCells(p)', c) = 0
    BY <1>4 DEF PipeInv
  <2>1. /\ Len(pipe[c]) <= sent[c]
        /\ \A k \in 1 .. Len(pipe[c]) :
             pipe[c][k].from = c /\ pipe[c][k].nr = Consumed(c) + k
        /\ client[c] \in {"new", "sent"} =>
             /\ sent[c] = 0 /\ pipe[c] = <<>> /\ got[c] = <<>>
             /\ \A p \in Names : FromIn(FileCells(p), c) = 0
    BY <1>1 DEF PipeInv
  <2>2. Consumed(c)' = Consumed(c)
    BY <1>8
  <2>3. \A p \in Names : FileCells(p)' = FileCells(p) \/ FileCells(p)' = <<>>
    BY <1>6
  <2>4. ASSUME NEW p \in Names, FromIn(FileCells(p), c) = 0 PROVE FromIn(FileCells(p)', c) = 0
    BY <2>3, <2>4, NoneFrom
  <2> QED
    BY <2>1, <2>2, <2>4
<1>12. FilesKept'
  <2>1. SUFFICES ASSUME NEW p \in Names, NEW u, u = FileCells(p)'
                 PROVE  InOrder(u) /\ EndsLines(u)
    BY DEF FilesKept
  <2>2. CASE u = FileCells(p)
    BY <2>2 DEF LogInv, FilesKept
  <2>3. CASE u = <<>>
    <3>1. DOMAIN u = {}
      BY <2>3
    <3> QED
      BY <3>1 DEF InOrder, EndsLines
  <2> QED
    BY <1>6, <2>1, <2>2, <2>3
<1> QED
  BY <1>6, <1>9, <1>10, <1>11, <1>12 DEF LogInv

\* The invariant is kept when only clients change, none from a session to another
\* state but to leave.
LEMMA LogClient ==
  ASSUME LogBase, LogInv, UNCHANGED <<fsVars, req, pc, loc, got>>,
         \A c \in Clients : /\ client[c] \in {"open", "left"} => client'[c] \in {"open", "left"}
                            /\ Consumed(c)' = Consumed(c),
         PipeInv'
  PROVE  LogInv'
<1>1. /\ SameFiles /\ FilesInv' /\ \A h \in Handles : OffsetOf(h)' = OffsetOf(h)
  BY CellsSame DEF LogInv, SameFiles, OffsetOf, fsVars, openVars
<1>2. \A c \in Clients : Request[c].box \in Names
  BY ClientsAssumption
<1>3. PubInv'
  <2> SUFFICES ASSUME NEW v \in Workers, NEW c \in Clients, NEW h \in Handles,
                      pc[v] \in PubFile, req[v] = c, loc[v].fd = h
               PROVE  PubAt(pc[v], loc[v], c, client'[c], OffsetOf(h)',
                            FileCells(Request[c].box)', Consumed(c)')
    BY DEF PubInv
  <2>1. PICK p \in Names : p = Request[c].box
    BY <1>2
  <2>2. PubAt(pc[v], loc[v], c, client[c], OffsetOf(h), FileCells(p), Consumed(c))
    BY <2>1 DEF LogInv, PubInv
  <2>3. FileCells(p)' = FileCells(p) /\ OffsetOf(h)' = OffsetOf(h)
    BY <1>1 DEF SameFiles
  <2> QED
    BY <2>1, <2>2, <2>3 DEF PubAt
<1>4. SubInv'
  <2> SUFFICES ASSUME NEW v \in Workers, NEW c \in Clients, NEW h \in Handles,
                      pc[v] \in SubFile, req[v] = c, loc[v].fd = h
               PROVE  SubAt(pc[v], loc[v], client'[c], OffsetOf(h)',
                            FileCells(Request[c].box)', got[c])
    BY DEF SubInv
  <2>1. PICK p \in Names : p = Request[c].box
    BY <1>2
  <2>2. SubAt(pc[v], loc[v], client[c], OffsetOf(h), FileCells(p), got[c])
    BY <2>1 DEF LogInv, SubInv
  <2>3. FileCells(p)' = FileCells(p) /\ OffsetOf(h)' = OffsetOf(h)
    BY <1>1 DEF SameFiles
  <2> QED
    BY <2>1, <2>2, <2>3 DEF SubAt
<1>5. FilesKept'
  BY <1>1 DEF FilesKept, LogInv, SameFiles
<1> QED
  BY <1>1, <1>3, <1>4, <1>5 DEF LogInv

\* The pipes are as they were when nothing is sent or taken.
LEMMA PipeSame ==
  ASSUME PipeInv, SameFiles, UNCHANGED <<pipe, sent, got>>,
         \A d \in Clients : client'[d] \in {"new", "sent"} => client[d] \in {"new", "sent"}
  PROVE  PipeInv' /\ \A d \in Clients : Consumed(d)' = Consumed(d)
<1>1. \A d \in Clients : Consumed(d)' = Consumed(d)
  BY DEF Consumed
<1>2. PipeInv'
  <2> SUFFICES ASSUME NEW d \in Clients
               PROVE  /\ Len(pipe[d]) <= sent[d]
                      /\ \A k \in 1 .. Len(pipe[d]) :
                           pipe[d][k].from = d /\ pipe[d][k].nr = Consumed(d)' + k
                      /\ client'[d] \in {"new", "sent"} =>
                           /\ sent[d] = 0 /\ pipe[d] = <<>> /\ got[d] = <<>>
                           /\ \A p \in Names : FromIn(FileCells(p)', d) = 0
    BY DEF PipeInv
  <2>1. /\ Len(pipe[d]) <= sent[d]
        /\ \A k \in 1 .. Len(pipe[d]) :
             pipe[d][k].from = d /\ pipe[d][k].nr = Consumed(d) + k
        /\ client[d] \in {"new", "sent"} =>
             /\ sent[d] = 0 /\ pipe[d] = <<>> /\ got[d] = <<>>
             /\ \A p \in Names : FromIn(FileCells(p), d) = 0
    BY DEF PipeInv
  <2>2. Consumed(d)' = Consumed(d)
    BY <1>1
  <2>3. \A p \in Names : FileCells(p)' = FileCells(p)
    BY DEF SameFiles
  <2> QED
    BY <2>1, <2>2, <2>3
<1> QED
  BY <1>1, <1>2

\* The invariant is kept by the steps of the clients.
LEMMA LogClientAction ==
  ASSUME LogBase, LogInv, (\E c \in Clients : ClientAction(c)) \/ sig_handler \/ UNCHANGED vars
  PROVE  LogInv'
<1>1. /\ client \in [Clients -> States] /\ pipe \in [Clients -> Seq(Message)]
      /\ sent \in [Clients -> 0 .. MaxMessages] /\ PipeInv /\ MaxMessages \in Nat
  BY BrokerAssumption DEF LogBase, TypeInv, ClientInv, LogInv
<1>2. UNCHANGED <<fsVars, req, pc, loc>>
  BY ClientActionFrame DEF sig_handler, Crash, vars, requestVars
<1>3. SameFiles
  BY <1>2, CellsSame DEF LogInv, SameFiles, fsVars
<1>4. CASE UNCHANGED <<client, pipe, sent, got>>
  <2>1. PipeInv' /\ \A c \in Clients : Consumed(c)' = Consumed(c)
    BY <1>1, <1>3, <1>4, PipeSame
  <2> QED
    BY <1>2, <1>4, <2>1, LogClient
<1>5. CASE \E c \in Clients : Register(c) \/ Leave(c)
  <2>1. PICK c \in Clients : Register(c) \/ Leave(c)
    BY <1>5
  <2>2. /\ UNCHANGED <<pipe, sent, got>>
        /\ \/ client[c] = "new" /\ client' = [client EXCEPT ![c] = "sent"]
           \/ client[c] \in {"sent", "open"} /\ client' = [client EXCEPT ![c] = "left"]
    BY <2>1 DEF Register, Leave
  <2>3. \A d \in Clients : /\ client'[d] \in {"new", "sent"} => client[d] \in {"new", "sent"}
                           /\ client[d] \in {"open", "left"} => client'[d] \in {"open", "left"}
    BY <1>1, <2>2
  <2>4. PipeInv' /\ \A d \in Clients : Consumed(d)' = Consumed(d)
    BY <1>1, <1>3, <2>2, <2>3, PipeSame
  <2> QED
    BY <1>2, <2>2, <2>3, <2>4, LogClient
<1>6. CASE \E c \in Clients : Publish(c)
  <2>1. PICK c \in Clients : Publish(c)
    BY <1>6
  <2>2. PICK s \in Seq(Message), x \in Nat :
          /\ s = pipe[c] /\ x = sent[c] /\ Len(s) <= x /\ x < MaxMessages
          /\ \A k \in 1 .. Len(s) : s[k].from = c /\ s[k].nr = Consumed(c) + k
    <3>1. pipe[c] \in Seq(Message) /\ sent[c] \in Nat /\ sent[c] < MaxMessages
      BY <1>1, <2>1 DEF Publish
    <3> QED
      BY <1>1, <3>1 DEF PipeInv
  <2>3. PICK m : m = [from |-> c, nr |-> x + 1, end |-> "nul"]
    OBVIOUS
  <2>4. /\ pipe' = [pipe EXCEPT ![c] = Append(s, m)] /\ sent' = [sent EXCEPT ![c] = x + 1]
        /\ client[c] = "open" /\ UNCHANGED <<client, got>>
    BY <2>1, <2>2, <2>3 DEF Publish
  <2>5. m \in Message
    BY <1>1, <2>2, <2>3 DEF Message
  <2>6. PICK t \in Seq(Message) :
          /\ t = Append(s, m) /\ Len(t) = Len(s) + 1 /\ t[Len(s) + 1] = m
          /\ \A k \in 1 .. Len(s) : t[k] = s[k]
    <3>1. /\ Append(s, m) \in Seq(Message) /\ Len(Append(s, m)) = Len(s) + 1
          /\ Append(s, m)[Len(s) + 1] = m
      BY <2>5
    <3>2. \A k \in 1 .. Len(s) : Append(s, m)[k] = s[k]
      BY <2>5
    <3> QED
      BY <3>1, <3>2
  <2>7. pipe'[c] = t /\ sent'[c] = x + 1
    BY <1>1, <2>4, <2>6
  <2>8. Len(s) \in Nat
    OBVIOUS
  <2>9. Consumed(c) = x - Len(s) /\ Consumed(c)' = (x + 1) - (Len(s) + 1)
    BY <2>2, <2>6, <2>7 DEF Consumed
  <2>10. PICK g \in Nat : g = Consumed(c) /\ Consumed(c)' = g /\ x + 1 = g + (Len(s) + 1)
    <3>1. x - Len(s) \in Nat /\ (x + 1) - (Len(s) + 1) = x - Len(s)
          /\ x + 1 = (x - Len(s)) + (Len(s) + 1)
      BY <2>2, <2>8
    <3> QED
      BY <2>9, <3>1
  <2>11. \A d \in Clients : d # c => pipe'[d] = pipe[d] /\ sent'[d] = sent[d]
    BY <1>1, <2>4
  <2>12. \A d \in Clients : Consumed(d)' = Consumed(d)
    <3>1. \A d \in Clients : d # c => Consumed(d)' = Consumed(d)
      BY <2>11 DEF Consumed
    <3> QED
      BY <2>10, <3>1
  <2>13. Len(t) <= x + 1 /\ \A k \in 1 .. Len(t) : t[k].from = c /\ t[k].nr = g + k
    <3>1. Len(t) <= x + 1
      BY <2>2, <2>6, <2>8
    <3>2. \A k \in 1 .. Len(t) : k \in 1 .. Len(s) \/ k = Len(s) + 1
      BY <2>6, <2>8
    <3>3. \A k \in 1 .. Len(s) : t[k].from = c /\ t[k].nr = g + k
      BY <2>2, <2>6, <2>10
    <3>4. t[Len(s) + 1].from = c /\ t[Len(s) + 1].nr = g + (Len(s) + 1)
      BY <2>3, <2>6, <2>10
    <3> QED
      BY <3>1, <3>2, <3>3, <3>4
  <2>14. PipeInv'
    <3> SUFFICES ASSUME NEW d \in Clients
                 PROVE  /\ Len(pipe'[d]) <= sent'[d]
                        /\ \A k \in 1 .. Len(pipe'[d]) :
                             pipe'[d][k].from = d /\ pipe'[d][k].nr = Consumed(d)' + k
                        /\ client[d] \in {"new", "sent"} =>
                             /\ sent'[d] = 0 /\ pipe'[d] = <<>> /\ got[d] = <<>>
                             /\ \A p \in Names : FromIn(FileCells(p)', d) = 0
      BY <2>4 DEF PipeInv
    <3>1. CASE d = c
      BY <2>4, <2>7, <2>10, <2>13, <3>1
    <3>2. CASE d # c
      BY <1>1, <1>3, <2>11, <2>12, <3>2 DEF PipeInv, SameFiles
    <3> QED
      BY <3>1, <3>2
  <2> QED
    BY <1>2, <2>4, <2>12, <2>14, LogClient
<1> QED
  BY <1>4, <1>5, <1>6 DEF ClientAction, RegisterEnds, Receive, ReceiveError, sig_handler, Crash,
     clientVars, vars

\* The invariant holds when there are no files and no sessions.
LEMMA LogInit == Init => LogBase /\ LogInv
<1> SUFFICES ASSUME Init PROVE LogBase /\ LogInv
  OBVIOUS
<1>1. /\ \A w \in Workers : pc[w] = "idle"
      /\ \A c \in Clients : client[c] = "new" /\ sent[c] = 0 /\ pipe[c] = <<>> /\ got[c] = <<>>
      /\ DOMAIN dir = {} /\ \A i \in Inodes : inode_table[i].i_size = 0
  BY DEF Init, FSInit, EmptyFile
<1>2. LogBase
  BY <1>1, TypeInit, ReqInit DEF LogBase, OnePublisher, SessionsApart, SpotInv, PubSection, PubFile,
     SubFile, CreateSection
<1>3. FSInv
  BY <1>2 DEF LogBase, TypeInv, BrokerInv
<1>4. \A p \in Names : FileCells(p) = <<>>
  BY <1>1, <1>3, FilesThere DEF FilesAre
<1>5. <<>> \in Seq(Message) /\ DOMAIN <<>> = {} /\ Len(<<>>) = 0
  OBVIOUS
<1>6. FilesInv
  <2>1. \A p \in Names : FileCells(p) \in Seq(Message)
    BY <1>4, <1>5
  <2> QED
    BY <1>1, <2>1 DEF FilesInv, Used
<1>7. \A c : FromIn(<<>>, c) = 0
  BY NoneFrom
<1>8. PipeInv
  BY <1>1, <1>4, <1>5, <1>7 DEF PipeInv
<1>9. FilesKept
  BY <1>4, <1>5 DEF FilesKept, InOrder, EndsLines
<1> QED
  BY <1>1, <1>2, <1>6, <1>8, <1>9 DEF LogInv, PubInv, SubInv, PubFile, SubFile

LEMMA LogNext ==
  RemovesApart /\ LogBase /\ LogBase' /\ LogInv /\ [Next]_vars => LogInv'
<1> SUFFICES ASSUME RemovesApart, LogBase, LogBase', LogInv, [Next]_vars PROVE LogInv'
  OBVIOUS
<1>1. CASE \E w \in Workers : Step(w)
  BY <1>1, LogStep, RemoveStep
<1> QED
  BY <1>1, LogClientAction, NextSteps

\* The inductive invariant of boxes, sessions and pipes: a publisher's handle is at
\* the end of its file, which has what was taken out of the pipe but for what is in the
\* worker's buffer; a subscriber was sent what its handle has passed but for what is in
\* the worker's buffer.  It holds as long as no box is removed that is in use.
THEOREM LogInvCorrect ==
  ASSUME BoxesFirst
  PROVE  Spec /\ []RemovesApart => [](LogBase /\ LogInv)
<1>1. Spec /\ []RemovesApart => []SessionsApart
  BY SessionsApartCorrect
<1>2. Spec => []OnePublisher
  BY OnePublisherCorrect
<1>3. Init => SpotInv /\ RemoverInv
  BY LogInit DEF LogBase, Init, RemoverInv
<1>4. Spec /\ []RemovesApart => []LogBase
  BY <1>1, <1>2, <1>3, TypeInit, TypeNext, ReqInit, ReqNext, RemoverNext, SpotNext, PTL
     DEF Spec, LogBase
<1>5. Init => LogInv
  BY LogInit
<1> QED
  BY <1>4, <1>5, LogNext, PTL DEF Spec

-----------------------------------------------------------------------------
(* The boxes are logs.                                                     *)

\* The sizes of sets are the same in BoxLog.
LEMMA LogCardinality == \A S : Log!Cardinality(S) = Cardinality(S)
BY DEF Log!Cardinality, Cardinality

\* What a publisher writes is added to the log of its box.
LEMMA LogPublish ==
  ASSUME LogBase, LogInv, LogInv', NEW w \in Workers, NEW h \in Handles, NEW p \in Names,
         NEW b \in Seq(Message), NEW n \in Nat, Wrote(w, h, p, b, n)
  PROVE  Log!Publish(p)
<1>1. PICK s \in Seq(Message) : s = FileCells(p)
  BY DEF LogInv, FilesInv
<1>2. n <= Len(b) /\ n > 0
  BY DEF Wrote
<1>3. SubSeq(b, 1, n) \in Seq(Message) /\ Len(SubSeq(b, 1, n)) = n
  BY <1>2, Beginning
<1>4. PICK t \in Seq(Message) : t = SubSeq(b, 1, n) /\ Len(t) = n
  BY <1>3
<1>5. PICK u \in Seq(Message) : u = s \o t
  BY Appended
<1>6. FileCells(p)' = u
  BY <1>1, <1>4, <1>5 DEF Wrote
<1>7. Len(u) \in Len(s) + 1 .. BLOCK_SIZE
  <2>1. Len(u) = Len(s) + Len(t) /\ Len(s) \in Nat
    BY <1>5, Appended
  <2>2. Len(s) + n <= BLOCK_SIZE /\ BLOCK_SIZE \in Nat
    BY <1>1, FSAssumption DEF Wrote
  <2> QED
    BY <1>2, <1>4, <2>1, <2>2
<1>8. SubSeq(u, 1, Len(s)) = s
  <2>1. Len(s) \in Nat /\ Len(s) <= Len(s)
    OBVIOUS
  <2>2. SubSeq(s \o t, 1, Len(s)) = SubSeq(s, 1, Len(s))
    BY <2>1, BeginningKept
  <2>3. SubSeq(s, 1, Len(s)) = s
    OBVIOUS
  <2> QED
    BY <1>5, <2>2, <2>3
<1>9. Log!InOrder(u)
  <2>1. InOrder(FileCells(p)')
    BY DEF LogInv, FilesKept
  <2> QED
    BY <1>6, <2>1, LogCardinality DEF InOrder, Log!InOrder
<1>10. got' = got
  BY DEF Wrote, PubWrite, clientVars
<1>11. [q \in Names |-> FileCells(q)'] = [[q \in Names |-> FileCells(q)] EXCEPT ![p] = u]
  BY <1>6 DEF Wrote
<1> QED
  BY <1>1, <1>6, <1>7, <1>8, <1>9, <1>10, <1>11 DEF Log!Publish

\* What a subscriber is sent is more of the log of its box.
LEMMA LogDeliver ==
  ASSUME LogBase, LogInv, NEW w \in Workers, SubSend(w), ~Crash, NEW c \in Clients, c = req[w]
  PROVE  Log!Deliver(c)
<1>1. /\ got \in [Clients -> Seq(Message \cup {NoCell})]
      /\ loc[w].buffer \in Seq(Message \cup {NoCell})
      /\ FSInv
  BY DEF LogBase, TypeInv, ClientInv, BrokerInv, BrokerTypeOK
<1>2. pc[w] = "sub_send" /\ pc[w] \in SubFile /\ pc[w] \in OpenSteps
  BY DEF SubSend, At, SubFile, OpenSteps
<1>3. PICK h \in Handles, p \in Names : h = loc[w].fd /\ p = Request[c].box
  BY <1>2, FileOpen DEF Name
<1>4. PICK s \in Seq(Message) : s = FileCells(p)
  BY DEF LogInv, FilesInv
<1>5. SubAt("sub_send", loc[w], client[c], OffsetOf(h), s, got[c])
  BY <1>2, <1>3, <1>4 DEF LogInv, SubInv
<1>6. PICK n \in Nat, g \in Seq(Message \cup {NoCell}), b \in Seq(Message \cup {NoCell}) :
        /\ n = OffsetOf(h) /\ g = got[c] /\ b = loc[w].buffer
        /\ n <= Len(s) /\ g \o b = SubSeq(s, 1, n) /\ Len(b) > 0
  <2>1. OffsetOf(h) \in Nat
    BY <1>1 DEF FSInv, FSTypeOK, OffsetOf
  <2> QED
    BY <1>1, <1>5, <2>1 DEF SubAt
<1>7. n \in Len(g) + 1 .. Len(s)
  <2>1. Len(g \o b) = Len(g) + Len(b) /\ Len(g) \in Nat /\ Len(b) \in Nat
    BY Appended
  <2>2. Len(SubSeq(s, 1, n)) = n
    BY <1>6, Beginning
  <2>3. Len(g) + Len(b) = n /\ Len(b) > 0 /\ n <= Len(s)
    BY <1>6, <2>1, <2>2
  <2>4. Len(s) \in Nat
    OBVIOUS
  <2> QED
    BY <2>1, <2>3, <2>4
<1>8. got' = [got EXCEPT ![c] = SubSeq(s, 1, n)] /\ UNCHANGED fsVars
  BY <1>6 DEF SubSend, Crash, vars, requestVars
<1>9. \A q \in Names : FileCells(q)' = FileCells(q)
  BY <1>8, CellsSame DEF LogInv, fsVars
<1>10. [q \in Names |-> FileCells(q)'] = [q \in Names |-> FileCells(q)]
  BY <1>9
<1> QED
  BY <1>3, <1>4, <1>6, <1>7, <1>8, <1>10 DEF Log!Deliver

\* Every step is a step of BoxLog, or leaves boxes and subscribers as they are.
LEMMA LogSteps ==
  ASSUME NoRemoves, LogBase, LogBase', LogInv, LogInv', [Next]_vars
  PROVE  Log!Next \/ UNCHANGED <<[p \in Names |-> FileCells(p)], got>>
<1>1. CASE SameFiles /\ got' = got
  BY <1>1 DEF SameFiles
<1>2. CASE (\E c \in Clients : ClientAction(c)) \/ sig_handler \/ UNCHANGED vars
  <2>1. UNCHANGED fsVars /\ got' = got
    BY <1>2, ClientActionFrame DEF sig_handler, Crash, vars, clientVars, ClientAction,
       Register, RegisterEnds, Publish, Receive, ReceiveError, Leave
  <2>2. SameFiles
    BY <2>1, CellsSame DEF LogInv, SameFiles, fsVars
  <2> QED
    BY <1>1, <2>1, <2>2
<1>3. CASE \E w \in Workers : Step(w)
  <2>1. PICK w \in Workers : Step(w)
    BY <1>3
  <2>2. CASE \E h \in Handles, p \in Names, b \in Seq(Message), n \in Nat : Wrote(w, h, p, b, n)
    <3>1. PICK h \in Handles, p \in Names, b \in Seq(Message), n \in Nat : Wrote(w, h, p, b, n)
      BY <2>2
    <3>2. Log!Publish(p)
      BY <3>1, LogPublish
    <3> QED
      BY <3>2 DEF Log!Next
  <2>3. CASE SameFiles /\ got' # got
    <3>1. ClientStep(w) /\ req[w] \in Clients
      BY <2>1, <2>3, ClientsFrame
    <3>2. SubSend(w) /\ ~Crash
      BY <2>3, <3>1 DEF ClientStep, ListReply, Reply, PubOpen, PubRead, SubOpen, Refuse, SubSend,
         Crash, clientVars
    <3>3. PICK c \in Clients : c = req[w]
      BY <3>1
    <3>4. Log!Deliver(c)
      BY <3>2, <3>3, LogDeliver
    <3> QED
      BY <3>4 DEF Log!Next
  <2> QED
    BY <1>1, <2>1, <2>2, <2>3, FilesStep, NoRemoval
<1> QED
  BY <1>2, <1>3, NextSteps

\* The boxes are logs: when no box is removed and the boxes are there before their
\* publishers come, every step of the broker adds messages to the end of one box, sends
\* one subscriber more of its box from its beginning, or does neither.
THEOREM BoxLoggedCorrect ==
  ASSUME NoRemoves, BoxesFirst
  PROVE  Spec => BoxLogged
<1>1. Init => Log!Init
  <2> SUFFICES ASSUME Init PROVE Log!Init
    OBVIOUS
  <2>1. \A p \in Names : FileCells(p) = <<>>
    <3>1. FSInv /\ DOMAIN dir = {}
      BY LogInit DEF LogBase, TypeInv, BrokerInv, Init, FSInit
    <3> QED
      BY <3>1, FilesThere DEF FilesAre
  <2>2. got = [c \in Clients |-> <<>>]
    BY DEF Init
  <2> QED
    BY <2>1, <2>2 DEF Log!Init
<1>2. LogBase /\ LogBase' /\ LogInv /\ LogInv' /\ [Next]_vars
        => [Log!Next]_<<[p \in Names |-> FileCells(p)], got>>
  BY LogSteps
<1>3. Spec => []RemovesApart
  BY NoneApart
<1>4. Spec /\ []RemovesApart => [](LogBase /\ LogInv)
  BY LogInvCorrect
<1> QED
  BY <1>1, <1>2, <1>3, <1>4, PTL DEF Spec, BoxLogged, Log!Spec

\* Lines are kept: as long as no box is removed that is in use, and when the boxes are
\* there before their publishers come, a message that does not end its line is in its file
\* after another of the same publisher.
THEOREM LinesKeptCorrect ==
  ASSUME BoxesFirst
  PROVE  Spec /\ []RemovesApart => []LinesKept
<1>1. LogInv => LinesKept
  <2> SUFFICES ASSUME LogInv, NEW p \in Names, NEW i \in DOMAIN FileCells(p),
                      FileCells(p)[i].end = "nul"
               PROVE  i > 1 /\ FileCells(p)[i - 1].from = FileCells(p)[i].from
    BY DEF LinesKept
  <2>1. EndsLines(FileCells(p))
    BY DEF LogInv, FilesKept
  <2> QED
    BY <2>1 DEF EndsLines
<1> QED
  BY <1>1, LogInvCorrect, PTL

\* A subscriber is sent the beginning of its box's file, nothing left out and nothing
\* twice: as long as no box is removed that is in use, and when the boxes are there before
\* their publishers come, what it was sent and what its worker holds is what the handle of its session has
\* passed, and the file has each publisher's messages in the order they were sent.
THEOREM StreamKeptCorrect ==
  ASSUME BoxesFirst
  PROVE  Spec /\ []RemovesApart => []StreamKept
<1>1. LogBase /\ LogInv => StreamKept
  <2> SUFFICES ASSUME LogBase, LogInv, NEW w \in Workers, pc[w] \in SubFile
               PROVE  /\ got[req[w]] \o (IF pc[w] = "sub_send" THEN loc[w].buffer ELSE <<>>)
                           = [k \in 1 .. OffsetOf(loc[w].fd) |->
                                fs_data[InodeOf(loc[w].fd).i_data_block][k]]
                      /\ InOrder([k \in 1 .. InodeOf(loc[w].fd).i_size |->
                                   fs_data[InodeOf(loc[w].fd).i_data_block][k]])
    BY Zenon DEF StreamKept
  <2> DEFINE inode == InodeOf(loc[w].fd)
             cells == fs_data[inode.i_data_block]
             pending == IF pc[w] = "sub_send" THEN loc[w].buffer ELSE <<>>
  <2> HIDE DEF inode, cells, pending
  <2>1. pc[w] \in OpenSteps
    BY DEF OpenSteps
  <2>2. PICK h \in Handles, p \in Names, c \in Clients :
          /\ h = loc[w].fd /\ p = Request[c].box /\ c = req[w] /\ p \in DOMAIN dir
          /\ open_file_table[h].of_inumber = dir[p]
    BY <2>1, FileOpen
  <2>3. FSInv /\ got \in [Clients -> Seq(Message \cup {NoCell})]
    BY DEF LogBase, TypeInv, BrokerInv, ClientInv
  <2>4. PICK s \in Seq(Message) : s = FileCells(p)
    BY DEF LogInv, FilesInv
  <2>5. s = [k \in 1 .. inode.i_size |-> cells[k]]
    <3>1. s = CellsAt(dir[p])
      BY <2>2, <2>3, <2>4, FilesThere DEF FilesAre
    <3>2. inode = inode_table[dir[p]]
      BY <2>2 DEF inode, InodeOf
    <3> QED
      BY <3>1, <3>2 DEF CellsAt, cells
  <2>6. InOrder(s)
    BY <2>4 DEF LogInv, FilesKept
  <2>7. SubAt(pc[w], loc[w], client[c], OffsetOf(h), s, got[c])
    BY <2>2, <2>4 DEF LogInv, SubInv
  <2>8. got[c] \o pending = SubSeq(s, 1, OffsetOf(h))
    <3>1. CASE pc[w] = "sub_send"
      BY <2>7, <3>1 DEF SubAt, pending
    <3>2. CASE pc[w] # "sub_send"
      <4>1. got[c] = SubSeq(s, 1, OffsetOf(h)) /\ got[c] \in Seq(Message \cup {NoCell})
        BY <2>3, <2>7, <3>2 DEF SubAt
      <4>2. pending = <<>>
        BY <3>2 DEF pending
      <4> QED
        BY <4>1, <4>2
    <3> QED
      BY <3>1, <3>2
  <2>9. PICK n \in Nat : n = OffsetOf(h) /\ n <= Len(s)
    <3>1. OffsetOf(h) \in Nat
      BY <2>3 DEF FSInv, FSTypeOK, OffsetOf
    <3> QED
      BY <2>7, <3>1 DEF SubAt
  <2>10. SubSeq(s, 1, n) = [k \in 1 .. n |-> cells[k]]
    <3>1. /\ SubSeq(s, 1, n) \in Seq(Message) /\ Len(SubSeq(s, 1, n)) = n
          /\ \A i \in 1 .. n : SubSeq(s, 1, n)[i] = s[i]
      BY <2>9, Beginning
    <3>2. \A i \in 1 .. n : s[i] = cells[i]
      <4>1. \A i \in 1 .. n : i \in 1 .. Len(s)
        BY <2>9
      <4>2. 1 .. Len(s) = DOMAIN s
        OBVIOUS
      <4> QED
        BY <2>5, <4>1, <4>2
    <3>3. PICK t \in Seq(Message) :
            t = SubSeq(s, 1, n) /\ Len(t) = n /\ \A i \in 1 .. n : t[i] = s[i]
      BY <3>1
    <3>4. t = [k \in 1 .. Len(t) |-> t[k]]
      OBVIOUS
    <3> QED
      BY <3>2, <3>3, <3>4
  <2> QED
    BY <2>2, <2>5, <2>6, <2>8, <2>9, <2>10 DEF inode, cells, pending
<1> QED
  BY <1>1, LogInvCorrect, PTL

-----------------------------------------------------------------------------
(* A handle and a block for every session.                                 *)

\* A set has no more elements than one that it is the image of.
LEMMA ImageBound ==
  ASSUME NEW S, IsFiniteSet(S), NEW f, NEW T, \A t \in T : \E s \in S : f[s] = t
  PROVE  Cardinality(T) <= Cardinality(S)
<1> DEFINE U == {s \in S : f[s] \in T}
           g == [s \in U |-> f[s]]
<1>1. IsFiniteSet(U) /\ Cardinality(U) <= Cardinality(S)
  BY FS_Subset
<1>2. g \in Surjection(U, T)
  BY DEF Surjection
<1>3. IsFiniteSet(T) /\ Cardinality(T) <= Cardinality(U)
  BY <1>1, <1>2, FS_Surjection
<1>4. Cardinality(S) \in Nat /\ Cardinality(T) \in Nat /\ Cardinality(U) \in Nat
  BY <1>1, <1>3, FS_CardinalityType
<1> QED
  BY <1>1, <1>3, <1>4

\* Every worker can have a file open.
EnoughHandles == Cardinality(Workers) <= MAX_OPEN_FILES

\* A handle that is taken is a worker's.
HandlesHeld ==
  \A h \in Handles \ free_open_file_entries :
    \E w \in Workers : pc[w] \in OpenSteps /\ loc[w].fd = h

\* A worker has its file open until it closes it.
LEMMA StaysOpen ==
  ASSUME TypeInv, NEW w \in Workers, Step(w), ~Closes(w), pc[w] \in OpenSteps
  PROVE  pc'[w] \in OpenSteps /\ loc'[w].fd = loc[w].fd
<1> USE DEF OpenSteps, PubFile, SubFile, CreateSection
<1>1. pc \in [Workers -> Labels] /\ Shape(w) /\ pc[w] # "idle"
  BY DEF TypeInv, BrokerInv, BrokerTypeOK
<1>2. ~Opens(w)
  BY OpensTable
<1>3. Code(w) \in {"create", "publisher", "subscriber"}
  BY <1>1, CodeAt DEF PubSection
<1>4. pc'[w] \in OpenSteps
  <2>1. CASE Crash
    BY <2>1 DEF Crash
  <2>2. CASE Code(w) = "create" /\ ~Crash
    <3>1. pc[w] \in CreateSection
      BY <1>1, <2>2, CodeAt DEF PubSection
    <3>2. CreateTaken(w) \/ CreateName(w) \/ CreateBox(w) \/ CreateClose(w)
      BY <2>2, <3>1, <1>1, ManagerServes DEF Manages, EmptySpot, FindBox, FindNothing, Found, CreateExists,
           CreateFile, Reply, RemoveFile, RemoveUnlock, RemoveWake, RemoveDestroy, RemoveCond, At
    <3>3. CASE CreateTaken(w) \/ CreateName(w)
      BY <1>1, <3>3 DEF CreateTaken, CreateName, Goto
    <3>4. CASE CreateBox(w)
      BY <3>4 DEF CreateBox
    <3> QED
      BY <3>2, <3>3, <3>4 DEF Closes
  <2>3. CASE Code(w) = "publisher" /\ ~Crash
    <3>1. pc[w] \in PubFile
      BY <1>1, <2>3, CodeAt
    <3>2. PubLock(w) \/ PubRead(w) \/ PubWrite(w) \/ PubSignal(w)
      BY <1>1, <1>2, <2>3, <3>1, PublisherSteps DEF FindBox, FindNothing, Found, PubCount, PubOpen,
           PubUncount, PubMiscount, Closes, At
    <3>3. CASE PubLock(w) \/ PubRead(w) \/ PubWrite(w)
      BY <1>1, <2>3, <3>3 DEF PubLock, PubRead, PubWrite, Goto
    <3>4. CASE PubSignal(w)
      BY <1>1, <3>4 DEF PubSignal, Woken
    <3> QED
      BY <3>2, <3>3, <3>4
  <2>4. CASE Code(w) = "subscriber" /\ ~Crash
    <3>1. pc[w] \in SubFile
      BY <1>1, <2>4, CodeAt DEF PubSection
    <3>2. SubLock(w) \/ SubRead(w) \/ SubWait(w) \/ SubSend(w) \/ WakeSpuriously(w)
      BY <1>1, <2>4, <3>1, SubscriberSteps DEF FindBox, FindNothing, Found, SubCount, SubOpen, Refuse, At
    <3> QED
      BY <1>1, <2>4, <3>2 DEF SubLock, SubRead, SubWait, SubSend, WakeSpuriously, Goto
  <2> QED
    BY <1>3, <2>1, <2>2, <2>3, <2>4
<1> QED
  BY <1>2, <1>4, OpenKept

LEMMA HandlesStep ==
  ASSUME NoRemoves, LogBase, HandlesHeld, NEW w \in Workers, Step(w)
  PROVE  HandlesHeld'
<1>1. TypeInv /\ ~RemoveFile(w) /\ Others(w)
  BY NoRemoval, OthersStep DEF LogBase, TypeInv, BrokerInv
<1>2. \A u \in Workers : u # w /\ pc[u] \in OpenSteps =>
        pc'[u] \in OpenSteps /\ loc'[u].fd = loc[u].fd
  BY <1>1 DEF Others, OpenSteps, SubFile
<1> SUFFICES ASSUME NEW h \in Handles \ free_open_file_entries'
             PROVE  \E u \in Workers : pc'[u] \in OpenSteps /\ loc'[u].fd = h
  BY DEF HandlesHeld, Handles
<1>3. ASSUME h \notin free_open_file_entries,
             \A u \in Workers : pc[u] \in OpenSteps /\ loc[u].fd = h /\ u = w =>
               pc'[u] \in OpenSteps /\ loc'[u].fd = h
      PROVE  \E u \in Workers : pc'[u] \in OpenSteps /\ loc'[u].fd = h
  BY <1>2, <1>3 DEF HandlesHeld
<1>4. CASE Opens(w)
  BY <1>1, <1>3, <1>4, OpensTable DEF openVars
<1>5. CASE Closes(w)
  BY <1>1, <1>3, <1>5, ClosesTable
<1>6. CASE ~Opens(w) /\ ~Closes(w)
  BY <1>1, <1>3, <1>6, OtherTable, StaysOpen
<1> QED
  BY <1>4, <1>5, <1>6

\* A worker that has no file open finds a handle.
LEMMA HandleLeft ==
  ASSUME EnoughHandles, HandlesHeld, NEW w \in Workers, pc[w] \notin OpenSteps
  PROVE  free_open_file_entries # {}
<1> SUFFICES ASSUME free_open_file_entries = {} PROVE FALSE
  OBVIOUS
<1>1. IsFiniteSet(Workers) /\ MAX_OPEN_FILES \in Nat \ {0}
  BY BrokerAssumption, FSAssumption
<1>2. IsFiniteSet(Workers \ {w}) /\ Cardinality(Workers \ {w}) = Cardinality(Workers) - 1
      /\ Cardinality(Workers) \in Nat
  BY <1>1, FS_RemoveElement, FS_CardinalityType
<1> DEFINE f == [u \in Workers |-> loc[u].fd]
<1>3. \A h \in Handles : \E u \in Workers \ {w} : f[u] = h
  BY DEF HandlesHeld
<1>4. Cardinality(Handles) <= Cardinality(Workers \ {w})
  BY <1>2, <1>3, ImageBound
<1>5. Cardinality(Handles) = MAX_OPEN_FILES
  BY <1>1, FS_Interval DEF Handles
<1> QED
  BY <1>1, <1>2, <1>4, <1>5 DEF EnoughHandles

\* The name of a box that is asked for is that of a file, from where it was found or
\* its file was opened.
WithFile == {"create_taken", "create_name", "found", "publish", "pub_open", "subscribe", "sub_open"}
NamesFiled ==
  /\ \A s \in Spots : boxes[s].box_name # NoName => boxes[s].box_name \in DOMAIN dir
  /\ \A w \in Workers : pc[w] \in WithFile => Name(w) \in DOMAIN dir

\* How a worker gets there.
LEMMA FileFound ==
  ASSUME NoRemoves, LogBase, NamesFiled, NEW w \in Workers, Step(w), pc'[w] \in WithFile
  PROVE  Name(w)' \in DOMAIN dir'
<1>1. /\ TypeInv /\ ~RemoveFile(w) /\ pc \in [Workers -> Labels] /\ Shape(w)
      /\ loc \in [Workers -> LocType]
  BY NoRemoval DEF LogBase, TypeInv, BrokerInv, BrokerTypeOK, LocType
<1>2. ~Begin(w)
  BY <1>1, BeginClosed DEF WithFile
<1>3. Name(w)' = Name(w) /\ pc[w] # "idle" /\ Name(w) \in Names
  BY <1>1, <1>2, RequestFrame, Busy, CodeAt DEF requestVars, Name
<1>4. DOMAIN dir \subseteq DOMAIN dir'
  BY <1>1, NamesGrow
<1>5. CASE pc[w] \in WithFile
  BY <1>3, <1>4, <1>5 DEF NamesFiled
<1>6. CASE CreateFile(w)
  <2>1. pc'[w] \in {"reply", "create_taken"}
    BY <1>1, <1>6 DEF CreateFile, Goto
  <2>2. pc'[w] \in OpenSteps
    BY <2>1 DEF WithFile, OpenSteps, CreateSection
  <2> QED
    BY <1>1, <1>3, <1>6, <2>2, OpensTable DEF Opens
<1>7. CASE FindBox(w)
  <2>1. CASE IsNamed(w, loc[w].i)
    <3>1. loc[w].i \in Spots
      BY <1>1 DEF LocType
    <3>2. boxes[loc[w].i].box_name = Name(w) /\ Name(w) # NoName
      BY <1>3, <2>1, BrokerAssumption DEF IsNamed
    <3> QED
      BY <1>3, <1>4, <3>1, <3>2 DEF NamesFiled
  <2>2. CASE ~IsNamed(w, loc[w].i)
    <3>1. pc[w] = "find" /\ Code(w) \in {"create", "remove", "publisher", "subscriber"}
      BY <1>1, <1>7, CodeAt DEF FindBox, At, Codes
    <3>2. pc'[w] \in {"find", "create", "idle", "refuse"}
      BY <1>1, <1>7, <2>2, <3>1 DEF FindBox, ScanNext, Goto, MissStep
    <3> QED
      BY <3>2 DEF WithFile
  <2> QED
    BY <2>1, <2>2
<1>8. CASE pc[w] \notin WithFile /\ ~FindBox(w) /\ ~CreateFile(w)
  <2>1. CASE UNCHANGED pc
    BY <1>8, <2>1
  <2>2. CASE EmptySpot(w) \/ ListSpot(w) \/ ListReply(w)
    BY <1>1, <1>8, <2>2 DEF EmptySpot, ScanNext, ListSpot, ListReply, Goto, WithFile
  <2>3. CASE CreateExists(w) \/ CreateClose(w) \/ Reply(w) \/ RemoveUnlock(w)
             \/ RemoveDestroy(w) \/ RemoveCond(w)
    BY <1>1, <2>3 DEF CreateExists, CreateClose, Reply, RemoveUnlock, RemoveDestroy, RemoveCond,
       Goto, WithFile
  <2>4. CASE CreateBox(w) \/ RemoveWake(w)
    BY <1>1, <2>4 DEF CreateBox, RemoveWake, Woken, WithFile
  <2>5. CASE PubLock(w) \/ (PubRead(w) /\ ~Crash) \/ PubWrite(w) \/ PubUncount(w) \/ PubMiscount(w)
    BY <1>1, <2>5 DEF PubLock, PubRead, PubWrite, PubUncount, PubMiscount, Goto, WithFile
  <2>6. CASE PubSignal(w) \/ PubClose(w, "pub_end", "pub_uncount") \/ PubClose(w, "pub_short", "pub_miscount")
    BY <1>1, <2>6 DEF PubSignal, Woken, PubClose, Goto, WithFile
  <2>7. CASE Refuse(w) \/ SubLock(w) \/ (SubRead(w) /\ ~Crash) \/ SubWait(w) \/ (SubSend(w) /\ ~Crash)
             \/ WakeSpuriously(w)
    BY <1>1, <2>7 DEF Refuse, SubLock, SubRead, SubWait, SubSend, WakeSpuriously, Goto, WithFile
  <2>8. CASE Found(w) \/ CreateTaken(w) \/ CreateName(w) \/ PubCount(w) \/ PubOpen(w)
             \/ SubCount(w) \/ SubOpen(w)
    BY <1>8, <2>8 DEF Found, CreateTaken, CreateName, PubCount, PubOpen, SubCount, SubOpen, At, WithFile
  <2>9. Crash => UNCHANGED pc
    BY DEF Crash
  <2> QED
    BY <1>1, <1>2, <1>8, <2>1, <2>2, <2>3, <2>4, <2>5, <2>6, <2>7, <2>8, <2>9
       DEF Step, Work, FindNothing
<1> QED
  BY <1>5, <1>6, <1>7, <1>8

LEMMA NamesFiledStep ==
  ASSUME NoRemoves, LogBase, NamesFiled, NEW w \in Workers, Step(w)
  PROVE  NamesFiled'
<1>1. /\ TypeInv /\ ~RemoveFile(w) /\ Others(w) /\ boxes \in [Spots -> BoxType] /\ Shape(w)
  BY NoRemoval, OthersStep DEF LogBase, TypeInv, BrokerInv, BrokerTypeOK, BoxType
<1>2. DOMAIN dir \subseteq DOMAIN dir'
  BY <1>1, NamesGrow
<1>3. \A v \in Workers : pc'[v] \in WithFile => Name(v)' \in DOMAIN dir'
  <2> SUFFICES ASSUME NEW v \in Workers, pc'[v] \in WithFile PROVE Name(v)' \in DOMAIN dir'
    OBVIOUS
  <2>1. CASE v = w
    BY <2>1, FileFound
  <2>2. CASE v # w
    <3>1. pc[v] \in WithFile /\ Name(v)' = Name(v)
      BY <1>1, <2>2 DEF Others, Name, WithFile
    <3> QED
      BY <1>2, <3>1 DEF NamesFiled
  <2> QED
    BY <2>1, <2>2
<1>4. \A s \in Spots : boxes'[s].box_name # NoName => boxes'[s].box_name \in DOMAIN dir'
  <2> SUFFICES ASSUME NEW s \in Spots, boxes'[s].box_name # NoName
               PROVE  boxes'[s].box_name \in DOMAIN dir'
    OBVIOUS
  <2>1. boxes[s] \in BoxType
    BY <1>1
  <2>2. CASE boxes'[s].box_name = boxes[s].box_name
    BY <1>2, <2>2 DEF NamesFiled
  <2>3. CASE CreateTaken(w) \/ RemoveUnlock(w)
    <3>1. PICK x : boxes' = [boxes EXCEPT ![loc[w].spot].taken = x]
      BY <2>3 DEF CreateTaken, RemoveUnlock
    <3>2. boxes'[s].box_name = boxes[s].box_name
      BY <1>1, <2>1, <3>1 DEF BoxType
    <3> QED
      BY <2>2, <3>2
  <2>4. CASE CreateName(w)
    <3>1. boxes' = [boxes EXCEPT ![loc[w].spot].box_name = Name(w)] /\ pc[w] = "create_name"
      BY <2>4 DEF CreateName, At
    <3>2. boxes'[s].box_name \in {boxes[s].box_name, Name(w)}
      BY <1>1, <2>1, <3>1 DEF BoxType
    <3>3. Name(w) \in DOMAIN dir
      BY <3>1 DEF NamesFiled, WithFile
    <3> QED
      BY <1>2, <2>2, <3>2, <3>3
  <2> QED
    BY <1>1, <2>2, <2>3, <2>4, NamesWritten DEF NamesSame
<1> QED
  BY <1>3, <1>4 DEF NamesFiled

\* A session's file is opened.
LEMMA SessionOpens ==
  ASSUME EnoughHandles, LogBase, HandlesHeld, NamesFiled, NEW w \in Workers, PubOpen(w) \/ SubOpen(w)
  PROVE  pc'[w] = IF PubOpen(w) THEN "pub_lock" ELSE "sub_lock"
<1>1. /\ pc \in [Workers -> Labels] /\ FSInv /\ TypeInv
      /\ free_open_file_entries \subseteq Handles /\ -1 \notin Handles
  <2>1. pc \in [Workers -> Labels] /\ FSInv /\ TypeInv
    BY DEF LogBase, TypeInv, BrokerInv, BrokerTypeOK
  <2>2. free_open_file_entries \subseteq Handles /\ -1 \notin Handles
    BY <2>1 DEF FSInv, FSTypeOK, Handles
  <2> QED
    BY <2>1, <2>2
<1>2. pc[w] \in {"pub_open", "sub_open"} /\ pc[w] \notin OpenSteps
  BY DEF PubOpen, SubOpen, At, OpenSteps, PubFile, SubFile, CreateSection
<1>3. free_open_file_entries # {} /\ Min(free_open_file_entries) # -1
  BY <1>1, <1>2, HandleLeft, FirstHandle
<1>4. tfs_lookup(Name(w)) # -1
  BY <1>1, <1>2, NameFound DEF NamesFiled, WithFile
<1>5. \A mode, fd : tfs_open(Name(w), mode, fd) => fd # -1
  BY <1>3, <1>4 DEF tfs_open, add_to_open_file_table
<1>6. PubOpen(w) => ~SubOpen(w)
  BY DEF PubOpen, SubOpen, At
<1> QED
  BY <1>1, <1>5, <1>6 DEF PubOpen, SubOpen, Goto

\* There is a block for each box that is asked for, beside the directory's.
Asked == {Request[c].box : c \in {e \in Clients : Request[e].code = "create"}}
EnoughBlocks == IsFiniteSet(Asked) /\ Cardinality(Asked) < DATA_BLOCKS

\* A block that is taken is that of a file that is not empty.
BlocksHeld ==
  /\ DOMAIN dir \subseteq Asked
  /\ \A x \in Blocks \ {0} : x \in free_blocks \/ \E p \in DOMAIN dir :
       inode_table[dir[p]].i_size > 0 /\ inode_table[dir[p]].i_data_block = x

LEMMA BlockLeft ==
  ASSUME EnoughBlocks, BlocksHeld, NEW q \in DOMAIN dir, ~(inode_table[dir[q]].i_size > 0)
  PROVE  free_blocks # {}
<1> SUFFICES ASSUME free_blocks = {} PROVE FALSE
  OBVIOUS
<1>1. IsFiniteSet(Asked) /\ DATA_BLOCKS \in Nat \ {0} /\ q \in Asked
  BY FSAssumption DEF EnoughBlocks, BlocksHeld
<1>2. IsFiniteSet(Asked \ {q}) /\ Cardinality(Asked \ {q}) = Cardinality(Asked) - 1
      /\ Cardinality(Asked) \in Nat
  BY <1>1, FS_RemoveElement, FS_CardinalityType
<1> DEFINE f == [p \in Asked |-> inode_table[dir[p]].i_data_block]
<1>3. \A x \in Blocks \ {0} : \E p \in Asked \ {q} : f[p] = x
  BY DEF BlocksHeld
<1>4. Cardinality(Blocks \ {0}) <= Cardinality(Asked \ {q})
  BY <1>2, <1>3, ImageBound
<1>5. Cardinality(Blocks \ {0}) = DATA_BLOCKS - 1
  <2>1. IsFiniteSet(Blocks) /\ Cardinality(Blocks) = DATA_BLOCKS /\ 0 \in Blocks
    BY <1>1, FS_Interval DEF Blocks
  <2> QED
    BY <2>1, FS_RemoveElement
<1> QED
  BY <1>1, <1>2, <1>4, <1>5 DEF EnoughBlocks

LEMMA BlocksStep ==
  ASSUME NoRemoves, LogBase, LogInv, BlocksHeld, NEW w \in Workers, Step(w)
  PROVE  BlocksHeld'
<1>1. /\ TypeInv /\ FSInv /\ ~RemoveFile(w) /\ Shape(w) /\ FilesInv
  BY NoRemoval DEF LogBase, LogInv, TypeInv, BrokerInv
<1>2. /\ inode_table \in [Inodes -> [i_size : 0 .. BLOCK_SIZE, i_data_block : Blocks \cup {-1}]]
      /\ dir \in [DOMAIN dir -> Inodes \ {Root}]
  BY <1>1 DEF FSInv, FSTypeOK
<1>3. CASE UNCHANGED fileVars
  BY <1>3 DEF BlocksHeld, fileVars
<1>4. CASE CreateFile(w) /\ ~UNCHANGED fileVars
  <2>1. Name(w) \in Asked
    <3>1. Code(w) = "create" /\ req[w] \in Clients
      BY <1>1, <1>4, CodeAt DEF CreateFile, At
    <3> QED
      BY <3>1 DEF Asked, Code, Name
  <2>2. PICK fd : tfs_open(Name(w), {"CREAT"}, fd)
    BY <1>4 DEF CreateFile, fsVars
  <2>3. /\ tfs_lookup(Name(w)) = -1 /\ freeinode_ts # {}
        /\ inode_create(inode_alloc) /\ add_dir_entry(Name(w), inode_alloc)
        /\ UNCHANGED <<free_blocks, fs_data>>
    BY <1>4, <2>2 DEF tfs_open, fsVars
  <2>4. PICK i \in freeinode_ts : i = inode_alloc
    BY <1>1, <2>3, FirstInode
  <2>5. /\ inode_table' = [inode_table EXCEPT ![i] = EmptyFile]
        /\ DOMAIN dir' = DOMAIN dir \cup {Name(w)} /\ Name(w) \notin DOMAIN dir
        /\ \A p \in DOMAIN dir : dir'[p] = dir[p]
    <3>1. Name(w) \notin DOMAIN dir
      BY <1>1, <2>3, NameFound
    <3> QED
      BY <2>3, <2>4, <3>1 DEF inode_create, add_dir_entry
  <2>6. \A p \in DOMAIN dir : inode_table'[dir'[p]] = inode_table[dir[p]]
    <3>1. \A p \in DOMAIN dir : dir[p] # i /\ dir[p] \in Inodes
      BY <1>1, <1>2 DEF FilesInv
    <3> QED
      BY <1>2, <2>5, <3>1
  <2> QED
    BY <2>1, <2>3, <2>5, <2>6 DEF BlocksHeld
<1>5. CASE PubWrite(w) /\ ~UNCHANGED fileVars
  <2>1. pc[w] \in OpenSteps
    BY <1>5 DEF PubWrite, At, OpenSteps, PubFile
  <2>2. PICK h \in Handles : h = loc[w].fd
    BY <2>1, FileOpen
  <2>3. Name(w) \in DOMAIN dir /\ open_file_table[h].of_inumber = dir[Name(w)]
    BY <2>1, <2>2, FileOpen
  <2>4. PICK i \in Inodes \ {Root} : i = dir[Name(w)]
    BY <1>2, <2>3
  <2>5. \A p \in DOMAIN dir : dir[p] = i => p = Name(w)
    BY <1>1, <2>3, <2>4 DEF FilesInv
  <2>6. PICK n \in -1 .. Len(loc[w].buffer) : tfs_write(h, loc[w].buffer, n)
    BY <1>5, <2>2 DEF PubWrite
  <2>7. /\ OffsetOf(h) \in Nat /\ inode_table[i].i_size \in Nat
    BY <1>1, <1>2, <2>4, FSAssumption DEF FSInv, FSTypeOK, OffsetOf
  <2>8. \E block, size \in Nat :
          /\ n > 0 /\ size > 0 /\ dir' = dir
          /\ inode_table' = [inode_table EXCEPT ![i] = [i_size |-> size, i_data_block |-> block]]
          /\ free_blocks \ {block} \subseteq free_blocks'
          /\ inode_table[i].i_size > 0 => block = inode_table[i].i_data_block
    <3> DEFINE block == IF inode_table[i].i_size = 0 THEN data_block_alloc
                        ELSE inode_table[i].i_data_block
               size == IF OffsetOf(h) + n > inode_table[i].i_size THEN OffsetOf(h) + n
                       ELSE inode_table[i].i_size
    <3>1. InodeOf(h) = inode_table[i] /\ open_file_table[h].of_inumber = i
      BY <2>3, <2>4 DEF InodeOf
    <3>2. ~UNCHANGED fsVars
      BY <1>5 DEF fsVars
    <3>3. /\ n > 0 /\ dir' = dir /\ (inode_table[i].i_size = 0 => free_blocks # {})
          /\ inode_table' = [inode_table EXCEPT ![i] = [i_size |-> size, i_data_block |-> block]]
          /\ free_blocks' = IF inode_table[i].i_size = 0 THEN free_blocks \ {block} ELSE free_blocks
      BY <2>6, <3>1, <3>2 DEF tfs_write
    <3>4. size \in Nat /\ size > 0
      BY <2>6, <2>7, <3>3
    <3>5. block \in Nat
      <4>1. CASE inode_table[i].i_size = 0
        BY <1>1, <3>3, <4>1, FirstBlock, FSAssumption DEF Blocks
      <4>2. CASE inode_table[i].i_size # 0
        <5>1. inode_table[i].i_data_block \in Blocks
          BY <1>1, <2>4, <2>7, <4>2 DEF FSInv
        <5> QED
          BY <4>2, <5>1, FSAssumption DEF Blocks
      <4> QED
        BY <4>1, <4>2
    <3>6. inode_table[i].i_size > 0 => block = inode_table[i].i_data_block
      BY <2>7
    <3> HIDE DEF block, size
    <3> QED
      BY <3>3, <3>4, <3>5, <3>6
  <2>9. PICK block, size \in Nat :
          /\ n > 0 /\ size > 0 /\ dir' = dir
          /\ inode_table' = [inode_table EXCEPT ![i] = [i_size |-> size, i_data_block |-> block]]
          /\ free_blocks \ {block} \subseteq free_blocks'
          /\ inode_table[i].i_size > 0 => block = inode_table[i].i_data_block
    BY <2>8
  <2>10. /\ inode_table'[i].i_size > 0 /\ inode_table'[i].i_data_block = block
         /\ \A j \in Inodes : j # i => inode_table'[j] = inode_table[j]
    BY <1>2, <2>9
  <2>11. \A x \in Blocks \ {0} : x \in free_blocks' \/ \E p \in DOMAIN dir' :
           inode_table'[dir'[p]].i_size > 0 /\ inode_table'[dir'[p]].i_data_block = x
    <3> SUFFICES ASSUME NEW x \in Blocks \ {0}, x \notin free_blocks'
                 PROVE  \E p \in DOMAIN dir :
                          inode_table'[dir[p]].i_size > 0 /\ inode_table'[dir[p]].i_data_block = x
      BY <2>9
    <3>1. CASE x = block
      BY <2>3, <2>4, <2>10, <3>1
    <3>2. CASE x # block
      <4>1. PICK p \in DOMAIN dir : inode_table[dir[p]].i_size > 0 /\ inode_table[dir[p]].i_data_block = x
        BY <2>9, <3>2 DEF BlocksHeld
      <4>2. dir[p] # i /\ dir[p] \in Inodes
        BY <1>2, <2>9, <3>2, <4>1
      <4> QED
        BY <2>10, <4>1, <4>2
    <3> QED
      BY <3>1, <3>2
  <2> QED
    BY <2>9, <2>11 DEF BlocksHeld
<1>6. CASE PubOpen(w) \/ SubOpen(w)
  <2>1. PICK mode, fd : tfs_open(Name(w), mode, fd) /\ "CREAT" \notin mode
    <3>1. "CREAT" \notin {"APPEND"} /\ "CREAT" \notin {}
      OBVIOUS
    <3> QED
      BY <1>6, <3>1 DEF PubOpen, SubOpen
  <2>2. UNCHANGED fileVars
    BY <2>1 DEF tfs_open, fsVars
  <2> QED
    BY <1>3, <2>2
<1>7. CASE Closes(w) \/ SubRead(w)
  <2>1. UNCHANGED fileVars
    BY <1>7 DEF Closes, CreateClose, PubClose, SubRead, Crash, tfs_close, tfs_read, fsVars
  <2> QED
    BY <1>3, <2>1
<1> QED
  BY <1>1, <1>3, <1>4, <1>5, <1>6, <1>7, FSFrame DEF FSStep, Closes, fsVars

\* A file that is full; no write is short in another.
Full(p) == Len(FileCells(p)) = BLOCK_SIZE
ShortFull ==
  \A w \in Workers :
    \/ pc[w] \in {"pub_short", "pub_miscount"}
    \/ pc[w] = "pub_signal" /\ loc[w].n # Len(loc[w].buffer)
    => Full(Name(w))

LEMMA FullKept ==
  ASSUME NoRemoves, LogBase, LogBase', LogInv, NEW w \in Workers, Step(w), NEW p \in Names, Full(p)
  PROVE  Full(p)'
<1>1. SameFiles => Full(p)'
  BY DEF SameFiles, Full
<1>2. ASSUME NEW h \in Handles, NEW q \in Names, NEW b \in Seq(Message), NEW n \in Nat,
             Wrote(w, h, q, b, n)
      PROVE  Full(p)'
  <2>1. q # p
    <3>1. Len(FileCells(q)) + n <= BLOCK_SIZE /\ n > 0
      BY <1>2 DEF Wrote
    <3> QED
      BY <3>1, FSAssumption DEF Full
  <2> QED
    BY <1>2, <2>1 DEF Wrote, Full
<1> QED
  BY <1>1, <1>2, FilesStep, NoRemoval

\* A write that is short fills the file.
LEMMA WriteFills ==
  ASSUME EnoughBlocks, LogBase, LogBase', LogInv, BlocksHeld, NEW w \in Workers, PubWrite(w),
         loc'[w].n # Len(loc'[w].buffer)
  PROVE  Full(Name(w))'
<1>1. /\ FSInv /\ FilesInv /\ FSInv' /\ loc \in [Workers -> LocType] /\ Shape(w)
  BY DEF LogBase, LogInv, TypeInv, BrokerInv, BrokerTypeOK, LocType
<1>2. pc[w] = "pub_write" /\ pc[w] \in OpenSteps /\ pc[w] \in PubFile
  BY DEF PubWrite, At, OpenSteps, PubFile
<1>3. PICK h \in Handles, p \in Names, c \in Clients, b \in Seq(Message) :
        /\ h = loc[w].fd /\ p = Name(w) /\ b = loc[w].buffer /\ c = req[w]
        /\ p = Request[c].box /\ p \in DOMAIN dir /\ open_file_table[h].of_inumber = dir[p]
  BY <1>1, <1>2, FileOpen DEF Shape
<1>4. PICK n \in -1 .. Len(b) : tfs_write(h, b, n) /\ loc' = [loc EXCEPT ![w].n = n] /\ req' = req
  BY <1>3 DEF PubWrite, requestVars
<1>5. loc'[w].n = n /\ loc'[w].buffer = b /\ Name(w)' = p
  <2>1. loc[w] \in LocType
    BY <1>1
  <2> QED
    BY <1>1, <1>3, <1>4, <2>1 DEF LocType, Name
<1>6. PICK l, k, size \in Nat :
        /\ l = Len(b) /\ k = BLOCK_SIZE /\ size = Len(FileCells(p)) /\ size <= k
        /\ OffsetOf(h) = size /\ InodeOf(h).i_size = size /\ InodeOf(h) = inode_table[dir[p]]
  <2>1. dir[p] \in Inodes /\ FileCells(p) = CellsAt(dir[p]) /\ FileCells(p) \in Seq(Message)
    BY <1>1, <1>3, FilesThere DEF FilesAre, FilesInv
  <2>2. /\ Len(FileCells(p)) = inode_table[dir[p]].i_size
        /\ inode_table[dir[p]].i_size \in 0 .. BLOCK_SIZE
    BY <1>1, <2>1, FileSize
  <2>3. OffsetOf(h) = Len(FileCells(p))
    BY <1>2, <1>3 DEF LogInv, PubInv, PubAt
  <2>4. InodeOf(h) = inode_table[dir[p]]
    BY <1>3 DEF InodeOf
  <2>5. Len(b) \in Nat /\ BLOCK_SIZE \in Nat
    BY FSAssumption
  <2>6. PICK size \in Nat : size = inode_table[dir[p]].i_size /\ size <= BLOCK_SIZE
    BY <2>2, <2>5
  <2>7. OffsetOf(h) = size /\ InodeOf(h).i_size = size /\ size = Len(FileCells(p))
    BY <2>2, <2>3, <2>4, <2>6
  <2> QED
    BY <2>4, <2>5, <2>6, <2>7
<1>7. n # l
  BY <1>5, <1>6
<1>8. CASE n = -1
  <2>1. size = 0 /\ free_blocks = {}
    BY <1>4, <1>6, <1>8 DEF tfs_write
  <2>2. ~(inode_table[dir[p]].i_size > 0)
    BY <1>6, <2>1
  <2> QED
    BY <1>3, <2>1, <2>2, BlockLeft
<1>9. CASE n = 0
  <2>1. (IF l + size > k THEN k - size ELSE l) = 0 /\ UNCHANGED fsVars
    BY <1>4, <1>6, <1>9 DEF tfs_write
  <2>2. size = k
    BY <1>6, <1>7, <1>9, <2>1
  <2>3. FileCells(p)' = FileCells(p)
    BY <1>1, <2>1, CellsSame DEF fsVars
  <2> QED
    BY <1>5, <1>6, <2>2, <2>3 DEF Full
<1>10. CASE n \in Nat \ {0}
  <2>1. n = IF l + size > k THEN k - size ELSE l
    BY <1>4, <1>6, <1>10 DEF tfs_write
  <2>2. size + n = k /\ n <= l
    BY <1>6, <1>7, <1>10, <2>1
  <2>3. FileCells(p)' = FileCells(p) \o SubSeq(b, 1, n)
    <3>1. n > 0 /\ OffsetOf(h) = Len(FileCells(p))
      BY <1>6, <1>10
    <3> QED
      BY <1>1, <1>3, <1>4, <3>1, WriteCells
  <2>4. PICK s \in Seq(Message), t \in Seq(Message) :
          s = FileCells(p) /\ t = SubSeq(b, 1, n) /\ Len(t) = n
    <3>1. SubSeq(b, 1, n) \in Seq(Message) /\ Len(SubSeq(b, 1, n)) = n
      BY <1>6, <1>10, <2>2, Beginning
    <3> QED
      BY <1>1, <3>1 DEF FilesInv
  <2>5. Len(s \o t) = k
    BY <1>6, <2>2, <2>4, Appended
  <2> QED
    BY <1>5, <1>6, <2>3, <2>4, <2>5 DEF Full
<1> QED
  <2>1. n \in -1 .. l
    BY <1>6
  <2> QED
    BY <1>6, <1>8, <1>9, <1>10, <2>1

LEMMA ShortStep ==
  ASSUME NoRemoves, EnoughBlocks, LogBase, LogBase', LogInv, BlocksHeld, ShortFull,
         NEW w \in Workers, Step(w)
  PROVE  ShortFull'
<1>1. /\ TypeInv /\ Others(w) /\ Shape(w) /\ pc \in [Workers -> Labels]
  BY OthersStep DEF LogBase, TypeInv, BrokerInv, BrokerTypeOK
<1> SUFFICES ASSUME NEW v \in Workers,
                    \/ pc'[v] \in {"pub_short", "pub_miscount"}
                    \/ pc'[v] = "pub_signal" /\ loc'[v].n # Len(loc'[v].buffer)
             PROVE  Full(Name(v))'
  BY DEF ShortFull
<1>2. ASSUME req'[v] = req[v], Full(Name(v)), Name(v) \in Names PROVE Full(Name(v))'
  <2>1. Full(Name(v)) /\ Name(v)' = Name(v)
    BY <1>2 DEF Name
  <2>2. PICK p \in Names : p = Name(v)
    BY <1>2
  <2>3. Full(p)'
    BY <2>1, <2>2, FullKept
  <2> QED
    BY <2>1, <2>2, <2>3 DEF Full
<1>3. CASE v # w
  <2>1. pc'[v] = pc[v] /\ loc'[v] = loc[v] /\ req'[v] = req[v]
    BY <1>1, <1>3 DEF Others
  <2>2. Shape(v) /\ pc[v] # "idle"
    BY <2>1 DEF LogBase, TypeInv, BrokerInv
  <2>3. Name(v) \in Names
    BY <2>2, CodeAt
  <2> QED
    BY <1>2, <2>1, <2>3 DEF ShortFull
<1>4. CASE v = w
  <2>1. pc'[w] \in PubSection /\ pc'[w] # "pub_open"
    BY <1>4 DEF PubSection, PubFile
  <2>2. pc[w] \in PubSection
    <3>1. PubCount(w) => pc'[w] \in {"idle", "pub_open"}
      BY <1>1 DEF PubCount, Goto
    <3>2. PubCount(w) => pc'[w] \notin PubSection \/ pc'[w] = "pub_open"
      BY <3>1 DEF PubSection, PubFile
    <3> QED
      BY <1>1, <2>1, <3>2, PubKept
  <2>3. /\ pc[w] # "idle" /\ Code(w) = "publisher" /\ Name(w) \in Names
        /\ pc[w] \notin {"find", "found", "publish"}
    <3>1. pc[w] # "idle" /\ pc[w] \notin {"find", "found", "publish"}
      BY <2>2 DEF PubSection, PubFile
    <3> QED
      BY <1>1, <2>2, <3>1, CodeAt
  <2>4. \/ PubOpen(w) \/ PubLock(w) \/ PubRead(w) \/ PubWrite(w) \/ PubSignal(w)
        \/ PubClose(w, "pub_end", "pub_uncount") \/ PubClose(w, "pub_short", "pub_miscount")
        \/ PubUncount(w) \/ PubMiscount(w)
    BY <1>1, <2>3, PublisherSteps DEF FindBox, FindNothing, Found, PubCount, At
  <2>5. req' = req
    BY <2>4 DEF PubOpen, PubLock, PubRead, Crash, PubWrite, PubSignal, PubClose, PubUncount,
       PubMiscount, requestVars
  <2>6. CASE PubWrite(w)
    <3>1. pc'[w] = "pub_signal"
      BY <1>1, <2>6 DEF PubWrite, Goto
    <3> QED
      BY <1>4, <2>6, <3>1, WriteFills
  <2>7. CASE PubSignal(w)
    <3>1. pc[w] = "pub_signal" /\ loc' = loc
      BY <2>7 DEF PubSignal, At
    <3>2. loc[w].n # Len(loc[w].buffer)
      <4>1. CASE pc'[w] = "pub_signal"
        BY <1>1, <2>7, <4>1 DEF PubSignal, Woken
      <4>2. CASE pc'[w] # "pub_signal"
        BY <1>1, <1>4, <2>7, <4>2 DEF PubSignal, Woken
      <4> QED
        BY <4>1, <4>2
    <3> QED
      BY <1>2, <1>4, <2>3, <2>5, <3>1, <3>2 DEF ShortFull
  <2>8. CASE PubClose(w, "pub_short", "pub_miscount")
    <3>1. pc[w] = "pub_short"
      BY <2>8 DEF PubClose, At
    <3> QED
      BY <1>2, <1>4, <2>3, <2>5, <3>1 DEF ShortFull
  <2>9. CASE PubRead(w) /\ Crash
    BY <1>2, <1>4, <2>3, <2>5, <2>9 DEF ShortFull, Crash
  <2>10. CASE \/ PubOpen(w) \/ PubLock(w) \/ (PubRead(w) /\ ~Crash)
              \/ PubClose(w, "pub_end", "pub_uncount") \/ PubUncount(w) \/ PubMiscount(w)
    <3>1. pc'[w] \notin {"pub_signal", "pub_short", "pub_miscount"}
      BY <1>1, <2>10 DEF PubOpen, PubLock, PubRead, PubClose, PubUncount, PubMiscount, Goto
    <3> QED
      BY <1>4, <3>1
  <2> QED
    BY <2>4, <2>6, <2>7, <2>8, <2>9, <2>10
<1> QED
  BY <1>3, <1>4

-----------------------------------------------------------------------------
(* The counts.                                                             *)

\* A number of a size_t, decremented and incremented.
LEMMA CountMod ==
  ASSUME NEW n \in 0 .. SizeT - 1
  PROVE  /\ n > 0 => (n - 1) % SizeT = n - 1
         /\ (n + 1) % SizeT <= n + 1
<1>1. SizeT \in Nat /\ SizeT > 0
  BY FSAssumption
<1>2. PICK k \in Nat : k = SizeT /\ k > 0
  BY <1>1
<1>3. ASSUME NEW m \in 0 .. k - 1 PROVE m % k = m
  BY <1>2
<1>4. n > 0 => n - 1 \in 0 .. k - 1
  BY <1>2
<1>5. (n + 1) % SizeT \in 0 .. SizeT - 1
  <2>1. n + 1 \in Int
    OBVIOUS
  <2> QED
    BY <2>1, ModSize
<1>6. CASE n + 1 < k
  <2>1. n + 1 \in 0 .. k - 1
    BY <1>2, <1>6
  <2>2. (n + 1) % k = n + 1
    BY <1>3, <2>1
  <2> QED
    BY <1>2, <1>3, <1>4, <2>2
<1>7. CASE ~(n + 1 < k)
  <2>1. \A x \in 0 .. k - 1 : x <= n + 1
    BY <1>2, <1>7
  <2> QED
    BY <1>2, <1>3, <1>4, <1>5, <2>1
<1> QED
  BY <1>6, <1>7

\* Who sets the number of subscribers of a box.
LEMMA SubsOf ==
  ASSUME TypeInv, NEW w \in Workers, Step(w), NEW s \in Spots,
         boxes'[s].n_subscribers # boxes[s].n_subscribers
  PROVE  /\ s = loc[w].spot /\ pc[w] # "idle"
         /\ \/ Code(w) = "create" /\ CreateBox(w) /\ boxes'[s].n_subscribers = 0
            \/ PubMiscount(w)
            \/ SubCount(w) /\ boxes'[s].n_subscribers = (boxes[s].n_subscribers + 1) % SizeT
<1>1. boxes \in [Spots -> BoxType] /\ Shape(w)
  BY DEF TypeInv, BrokerInv, BrokerTypeOK, BoxType
<1>2. boxes[s] \in BoxType
  BY <1>1
<1>3. BoxStep(w)
  BY BoxFrame
<1>4. CASE CreateTaken(w) \/ CreateName(w) \/ RemoveUnlock(w)
  BY <1>1, <1>2, <1>4 DEF CreateTaken, CreateName, RemoveUnlock, BoxType
<1>5. CASE PubWrite(w) \/ PubCount(w) \/ PubUncount(w)
  <2>1. \/ \E x : boxes' = [boxes EXCEPT ![loc[w].spot].box_size = x]
        \/ \E x : boxes' = [boxes EXCEPT ![loc[w].spot].n_publishers = x]
        \/ boxes' = boxes
    BY <1>5 DEF PubWrite, PubCount, PubUncount
  <2>2. \/ boxes'[s] = boxes[s]
        \/ \E x : boxes'[s] = [boxes[s] EXCEPT !.box_size = x]
        \/ \E x : boxes'[s] = [boxes[s] EXCEPT !.n_publishers = x]
    BY <1>1, <2>1
  <2>3. CASE \E x : boxes'[s] = [boxes[s] EXCEPT !.box_size = x]
    BY <1>2, <2>3 DEF BoxType
  <2>4. CASE \E x : boxes'[s] = [boxes[s] EXCEPT !.n_publishers = x]
    BY <1>2, <2>4 DEF BoxType
  <2> QED
    BY <2>2, <2>3, <2>4
<1>6. CASE CreateBox(w)
  <2>1. pc[w] # "idle" /\ Code(w) = "create"
    BY <1>1, <1>6, CodeAt DEF CreateBox, At, CreateSection
  <2>2. s # loc[w].spot => boxes'[s] = boxes[s]
    BY <1>1, <1>6 DEF CreateBox
  <2>3. s = loc[w].spot => boxes'[s].n_subscribers = 0
    BY <1>1, <1>2, <1>6 DEF CreateBox, BoxType
  <2> QED
    BY <1>6, <2>1, <2>2, <2>3
<1>7. CASE PubMiscount(w)
  BY <1>1, <1>7 DEF PubMiscount, At
<1>8. CASE SubCount(w)
  <2>1. PICK x : x = (boxes[loc[w].spot].n_subscribers + 1) % SizeT
    OBVIOUS
  <2>2. boxes' = [boxes EXCEPT ![loc[w].spot].n_subscribers = x] /\ pc[w] # "idle"
    BY <1>8, <2>1 DEF SubCount, At
  <2>3. s = loc[w].spot
    BY <1>1, <2>2
  <2>4. boxes'[s].n_subscribers = x
    BY <1>1, <1>2, <2>2, <2>3 DEF BoxType
  <2> QED
    BY <1>8, <2>1, <2>2, <2>3, <2>4
<1> QED
  BY <1>3, <1>4, <1>5, <1>6, <1>7, <1>8 DEF BoxStep

\* A session of a publisher ends where it decrements a count.
LEMMA PubEnds ==
  ASSUME EnoughHandles, LogBase, HandlesHeld, NamesFiled, NEW w \in Workers, Step(w),
         pc[w] \in PubSection, pc'[w] \notin PubSection
  PROVE  PubUncount(w) \/ PubMiscount(w)
<1>1. TypeInv /\ Shape(w) /\ pc \in [Workers -> Labels]
  BY DEF LogBase, TypeInv, BrokerInv, BrokerTypeOK
<1>2. pc[w] # "idle" /\ Code(w) = "publisher" /\ pc[w] \notin {"find", "found", "publish"}
  <2>1. pc[w] # "idle" /\ pc[w] \notin {"find", "found", "publish"}
    BY DEF PubSection, PubFile
  <2> QED
    BY <1>1, <2>1, CodeAt
<1>3. \/ PubOpen(w) \/ PubLock(w) \/ PubRead(w) \/ PubWrite(w) \/ PubSignal(w)
      \/ PubClose(w, "pub_end", "pub_uncount") \/ PubClose(w, "pub_short", "pub_miscount")
      \/ PubUncount(w) \/ PubMiscount(w)
  BY <1>1, <1>2, PublisherSteps DEF FindBox, FindNothing, Found, PubCount, At
<1>4. CASE PubOpen(w)
  BY <1>4, SessionOpens DEF PubSection, PubFile
<1>5. CASE \/ PubLock(w) \/ PubRead(w) \/ PubWrite(w)
           \/ PubClose(w, "pub_end", "pub_uncount") \/ PubClose(w, "pub_short", "pub_miscount")
  <2>1. pc'[w] \in {pc[w], "pub_read", "pub_write", "pub_signal", "pub_uncount", "pub_miscount"}
    BY <1>1, <1>5 DEF PubLock, PubRead, Crash, PubWrite, PubClose, Goto
  <2> QED
    BY <2>1 DEF PubSection, PubFile
<1>6. CASE PubSignal(w)
  <2>1. pc'[w] \in {"pub_short", "pub_end", "pub_read"}
    BY <1>1, <1>6 DEF PubSignal, Woken
  <2> QED
    BY <2>1 DEF PubSection, PubFile
<1> QED
  BY <1>3, <1>4, <1>5, <1>6

\* A session of a subscriber does not end.
SubSection == SubFile \cup {"sub_open"}
LEMMA SubKept ==
  ASSUME EnoughHandles, LogBase, HandlesHeld, NamesFiled, NEW w \in Workers, Step(w),
         pc[w] \in SubSection
  PROVE  pc'[w] \in SubSection /\ loc'[w].spot = loc[w].spot
<1>1. TypeInv /\ Shape(w) /\ pc \in [Workers -> Labels] /\ loc \in [Workers -> LocType]
  BY DEF LogBase, TypeInv, BrokerInv, BrokerTypeOK, LocType
<1>2. loc[w] \in LocType
  BY <1>1
<1>3. /\ pc[w] # "idle" /\ Code(w) = "subscriber"
      /\ pc[w] \notin {"find", "found", "subscribe", "refuse"}
  <2>1. pc[w] # "idle" /\ pc[w] \notin {"find", "found", "subscribe", "refuse"}
    BY DEF SubSection, SubFile
  <2> QED
    BY <1>1, <2>1, CodeAt DEF SubSection
<1>4. SubOpen(w) \/ SubLock(w) \/ SubRead(w) \/ SubWait(w) \/ SubSend(w) \/ WakeSpuriously(w)
  BY <1>1, <1>3, SubscriberSteps DEF FindBox, FindNothing, Found, SubCount, Refuse, At
<1>5. pc'[w] \in SubSection
  <2>1. CASE SubOpen(w)
    <3>1. ~PubOpen(w)
      BY <2>1 DEF SubOpen, PubOpen, At
    <3> QED
      BY <2>1, <3>1, SessionOpens DEF SubSection, SubFile
  <2>2. CASE SubLock(w) \/ SubRead(w) \/ SubWait(w) \/ SubSend(w) \/ WakeSpuriously(w)
    <3>1. pc'[w] \in {pc[w], "sub_read", "sub_wait", "sub_send", "asleep", "woken"}
      BY <1>1, <2>2 DEF SubLock, SubRead, Crash, SubWait, SubSend, WakeSpuriously, Goto
    <3> QED
      BY <3>1 DEF SubSection, SubFile
  <2> QED
    BY <1>4, <2>1, <2>2
<1>6. loc'[w].spot = loc[w].spot
  <2>1. \/ loc' = loc \/ (\E x : loc' = [loc EXCEPT ![w].fd = x])
        \/ (\E x : loc' = [loc EXCEPT ![w].buffer = x])
    BY <1>4 DEF SubOpen, SubLock, SubRead, Crash, SubWait, SubSend, WakeSpuriously
  <2> QED
    BY <1>1, <1>2, <2>1 DEF LocType
<1> QED
  BY <1>5, <1>6

\* The sessions of a spot, and the counts: right at every spot, but where a session of
\* a publisher may have decremented the wrong one.
AtSpot(labels, s) == {w \in Workers : pc[w] \in labels /\ loc[w].spot = s}
Counted(s) ==
  /\ boxes[s].n_publishers = Cardinality(AtSpot(PubSection, s))
  /\ boxes[s].n_subscribers <= Cardinality(AtSpot(SubSection, s))
PubCame == \E c \in Clients : Request[c].code = "publisher" /\ client[c] # "new"
FullSpot(s) == PubCame /\ boxes[s].box_name \in Names /\ Full(boxes[s].box_name)
CountsInv == \A s \in Spots : Counted(s) \/ FullSpot(s)

\* The invariant that CountsKept needs, beside that of the files.
CountsBase == HandlesHeld /\ NamesFiled /\ BlocksHeld /\ ShortFull

LEMMA SpotFinite ==
  ASSUME NEW labels, NEW s
  PROVE  IsFiniteSet(AtSpot(labels, s)) /\ Cardinality(AtSpot(labels, s)) \in Nat
<1>1. IsFiniteSet(AtSpot(labels, s))
  BY BrokerAssumption, FS_Subset DEF AtSpot
<1> QED
  BY <1>1, FS_CardinalityType

\* No box is created once a publisher has come.
LEMMA PubAfter ==
  ASSUME BoxesFirst, LogBase, NEW w \in Workers, pc[w] # "idle"
  PROVE  /\ Code(w) = "create" => ~PubCame
         /\ Code(w) = "publisher" => PubCame
<1>1. req[w] \in Clients /\ client[req[w]] \notin {"new", "done"} /\ ReqInv
  BY DEF LogBase, TypeInv, BrokerInv, Shape, ReqInv
<1>2. ASSUME Code(w) = "create", NEW c \in Clients, Request[c].code = "publisher", client[c] # "new"
      PROVE  FALSE
  <2>1. req[w] \in Before(c)
    BY <1>1, <1>2 DEF BoxesFirst, Code
  <2> QED
    BY <1>1, <1>2, <2>1, BeforeDone
<1> QED
  BY <1>1, <1>2 DEF PubCame, Code

\* A spot whose file is full stays one.
LEMMA FullSpotKept ==
  ASSUME NoRemoves, BoxesFirst, LogBase, LogBase', LogInv, NEW w \in Workers, Step(w),
         NEW s \in Spots, FullSpot(s)
  PROVE  FullSpot(s)'
<1>1. TypeInv /\ Shape(w) /\ client \in [Clients -> States]
  BY DEF LogBase, TypeInv, BrokerInv, ClientInv
<1>2. PubCame'
  <2>1. PICK c \in Clients : Request[c].code = "publisher" /\ client[c] # "new"
    BY DEF FullSpot, PubCame
  <2>2. client'[c] # "new"
    <3>1. CASE client' = client
      BY <2>1, <3>1
    <3>2. CASE client' # client
      <4>1. \E x \in {"open", "done"} : client' = [client EXCEPT ![req[w]] = x]
        BY <1>1, <3>2, ServedOnly
      <4> QED
        BY <1>1, <2>1, <4>1
    <3> QED
      BY <3>1, <3>2
  <2> QED
    BY <2>1, <2>2 DEF PubCame
<1>3. NamesSame
  <2>1. SUFFICES ASSUME pc[w] \in {"create_taken", "create_name", "remove"} PROVE FALSE
    BY <1>1, NamesWritten DEF CreateTaken, CreateName, RemoveUnlock, At
  <2>2. pc[w] # "idle" /\ Code(w) \in {"create", "remove"} /\ req[w] \in Clients
    BY <1>1, <2>1, CodeAt DEF CreateSection
  <2> QED
    BY <2>2, PubAfter DEF FullSpot, NoRemoves, Code
<1>4. PICK p \in Names : p = boxes[s].box_name /\ Full(p)
  BY DEF FullSpot
<1>5. boxes'[s].box_name = p /\ Full(p)'
  BY <1>3, <1>4, FullKept DEF NamesSame
<1> QED
  BY <1>2, <1>5 DEF FullSpot, Full

\* Where a session decrements the wrong count the file is full.
LEMMA MiscountFull ==
  ASSUME BoxesFirst, LogBase, ShortFull, NEW w \in Workers, PubMiscount(w)
  PROVE  FullSpot(loc[w].spot)
<1>1. pc[w] = "pub_miscount" /\ pc[w] \in PubSection /\ pc[w] # "idle"
  BY DEF PubMiscount, At, PubSection
<1>2. Code(w) = "publisher" /\ Name(w) \in Names
  BY <1>1, CodeAt DEF LogBase, TypeInv, BrokerInv
<1>3. boxes[loc[w].spot].box_name = Name(w)
  BY <1>1, <1>2 DEF LogBase, SpotInv, IsNamed
<1>4. Full(Name(w))
  BY <1>1 DEF ShortFull
<1> QED
  BY <1>1, <1>2, <1>3, <1>4, PubAfter DEF FullSpot

\* The number of publishers.
LEMMA PubCounted ==
  ASSUME BoxesFirst, EnoughHandles, LogBase, CountsBase, NEW w \in Workers, Step(w), NEW s \in Spots,
         boxes[s].n_publishers = Cardinality(AtSpot(PubSection, s)),
         ~(PubMiscount(w) /\ loc[w].spot = s)
  PROVE  boxes'[s].n_publishers = Cardinality(AtSpot(PubSection, s)')
<1>1. /\ TypeInv /\ Others(w) /\ pc \in [Workers -> Labels] /\ boxes \in [Spots -> BoxType]
      /\ ReqInv /\ boxes[s].n_publishers \in 0 .. SizeT - 1
  <2>1. TypeInv /\ Others(w) /\ pc \in [Workers -> Labels] /\ boxes \in [Spots -> BoxType] /\ ReqInv
    BY OthersStep DEF LogBase, TypeInv, BrokerInv, BrokerTypeOK, BoxType
  <2> QED
    BY <2>1 DEF BoxType
<1> DEFINE P == AtSpot(PubSection, s)
           Q == {u \in Workers : pc'[u] \in PubSection /\ loc'[u].spot = s}
<1>2. IsFiniteSet(P) /\ Cardinality(P) \in Nat
  BY SpotFinite
<1>3. \A u \in Workers : u # w => (u \in P <=> u \in Q)
  BY <1>1 DEF Others, AtSpot, PubSection, PubFile
<1>4. (AtSpot(PubSection, s))' = Q
  BY DEF AtSpot
<1> SUFFICES boxes'[s].n_publishers = Cardinality(Q)
  BY <1>4
<1>5. w \in P <=> pc[w] \in PubSection /\ loc[w].spot = s
  BY DEF AtSpot
<1>6. w \in Q <=> pc'[w] \in PubSection /\ loc'[w].spot = s
  OBVIOUS
<1>7. P \subseteq Workers /\ Q \subseteq Workers
  BY DEF AtSpot
<1> HIDE DEF P, Q
<1>8. CASE w \in Q /\ w \notin P
  <2>1. /\ loc'[w].spot = s /\ loc[w].spot = s /\ PubCount(w) /\ Box(w).n_publishers = 0
        /\ boxes' = [boxes EXCEPT ![s].n_publishers = 1]
    BY <1>1, <1>5, <1>6, <1>8, PubKept
  <2>2. boxes'[s].n_publishers = 1 /\ boxes[s].n_publishers = 0
    BY <1>1, <2>1 DEF Box, BoxType
  <2>3. P = {}
    BY <1>2, <2>2, FS_EmptySet DEF P
  <2>4. Q = {w}
    BY <1>3, <1>7, <1>8, <2>3
  <2> QED
    BY <2>2, <2>4, FS_Singleton
<1>9. CASE w \notin Q /\ w \in P
  <2>1. pc'[w] \notin PubSection
    BY <1>1, <1>5, <1>6, <1>9, PubKept DEF PubCount, At, PubSection, PubFile
  <2>2. PubUncount(w)
    BY <1>5, <1>9, <2>1, PubEnds DEF CountsBase
  <2>3. Q = P \ {w}
    BY <1>3, <1>7, <1>9
  <2>4. Cardinality(Q) = Cardinality(P) - 1 /\ Cardinality(P) > 0
    <3>1. Cardinality(Q) = Cardinality(P) - 1 /\ IsFiniteSet(Q)
      BY <1>2, <1>9, <2>3, FS_RemoveElement
    <3>2. Cardinality(Q) \in Nat
      BY <3>1, FS_CardinalityType
    <3> QED
      BY <1>2, <3>1, <3>2
  <2>5. PICK n \in 0 .. SizeT - 1 : n = boxes[s].n_publishers
    BY <1>1
  <2>6. boxes' = [boxes EXCEPT ![s].n_publishers = (n - 1) % SizeT]
    BY <1>1, <1>5, <1>9, <2>2, <2>5 DEF PubUncount
  <2>7. boxes'[s].n_publishers = (n - 1) % SizeT
    <3>1. PICK x : x = (n - 1) % SizeT
      OBVIOUS
    <3> QED
      BY <1>1, <2>6, <3>1 DEF BoxType
  <2>8. n > 0 /\ n = Cardinality(P)
    BY <2>4, <2>5 DEF P
  <2> QED
    BY <2>4, <2>7, <2>8, CountMod
<1>10. CASE w \in P <=> w \in Q
  <2>1. P = Q
    BY <1>3, <1>7, <1>10
  <2>2. CASE boxes'[s].n_publishers = boxes[s].n_publishers
    BY <2>1, <2>2 DEF P
  <2>3. CASE boxes'[s].n_publishers # boxes[s].n_publishers
    <3>1. /\ s = loc[w].spot /\ pc[w] # "idle"
          /\ (Code(w) = "create" /\ CreateBox(w)) \/ PubCount(w) \/ PubUncount(w)
      BY <1>1, <2>3, CountsOf
    <3>2. CASE Code(w) = "create" /\ CreateBox(w)
      <4>1. \A u \in P : pc[u] \in PubSection /\ pc[u] # "idle"
        BY DEF P, AtSpot, PubSection, PubFile
      <4>2. \A u \in P : Code(u) = "publisher"
        BY <1>1, <1>7, <4>1, CodeAt DEF TypeInv, BrokerInv
      <4>3. P = {}
        BY <1>1, <1>7, <3>1, <3>2, <4>1, <4>2, NoCreation
      <4>4. boxes'[s].n_publishers = 0
        BY <1>1, <3>1, <3>2 DEF CreateBox, BoxType
      <4> QED
        BY <2>1, <4>3, <4>4, FS_EmptySet
    <3>3. CASE PubCount(w)
      <4>1. pc[w] = "publish" /\ loc' = loc /\ pc'[w] = "pub_open"
        BY <1>1, <2>3, <3>3 DEF PubCount, At, Goto
      <4>2. w \in Q /\ w \notin P
        BY <1>5, <1>6, <3>1, <4>1 DEF PubSection, PubFile
      <4> QED
        BY <1>10, <4>2
    <3>4. CASE PubUncount(w)
      <4>1. pc[w] = "pub_uncount" /\ pc'[w] = "idle"
        BY <1>1, <3>4 DEF PubUncount, At, Goto
      <4>2. w \in P /\ w \notin Q
        BY <1>5, <1>6, <3>1, <4>1 DEF PubSection, PubFile
      <4> QED
        BY <1>10, <4>2
    <3> QED
      BY <3>1, <3>2, <3>3, <3>4
  <2> QED
    BY <2>2, <2>3
<1> QED
  BY <1>8, <1>9, <1>10

\* The number of subscribers.
LEMMA SubCounted ==
  ASSUME EnoughHandles, LogBase, CountsBase, NEW w \in Workers, Step(w), NEW s \in Spots,
         boxes[s].n_subscribers <= Cardinality(AtSpot(SubSection, s)),
         ~(PubMiscount(w) /\ loc[w].spot = s)
  PROVE  boxes'[s].n_subscribers <= Cardinality(AtSpot(SubSection, s)')
<1>1. /\ TypeInv /\ Others(w) /\ pc \in [Workers -> Labels] /\ boxes \in [Spots -> BoxType]
      /\ boxes[s].n_subscribers \in 0 .. SizeT - 1
  <2>1. TypeInv /\ Others(w) /\ pc \in [Workers -> Labels] /\ boxes \in [Spots -> BoxType]
    BY OthersStep DEF LogBase, TypeInv, BrokerInv, BrokerTypeOK, BoxType
  <2> QED
    BY <2>1 DEF BoxType
<1> DEFINE P == AtSpot(SubSection, s)
           Q == {u \in Workers : pc'[u] \in SubSection /\ loc'[u].spot = s}
<1>2. IsFiniteSet(P) /\ Cardinality(P) \in Nat /\ IsFiniteSet(Q) /\ Cardinality(Q) \in Nat
  <2>1. IsFiniteSet(Q)
    BY BrokerAssumption, FS_Subset
  <2> QED
    BY <2>1, SpotFinite, FS_CardinalityType
<1>3. P \subseteq Q
  <2> SUFFICES ASSUME NEW u \in P PROVE u \in Q
    OBVIOUS
  <2>1. u \in Workers /\ pc[u] \in SubSection /\ loc[u].spot = s
    BY DEF AtSpot
  <2>2. CASE u = w
    BY <2>1, <2>2, SubKept DEF CountsBase
  <2>3. CASE u # w
    BY <1>1, <2>1, <2>3 DEF Others, SubSection, SubFile
  <2> QED
    BY <2>2, <2>3
<1>4. (AtSpot(SubSection, s))' = Q
  BY DEF AtSpot
<1> SUFFICES boxes'[s].n_subscribers <= Cardinality(Q)
  BY <1>4
<1>5. Cardinality(P) <= Cardinality(Q)
  BY <1>2, <1>3, FS_Subset
<1>6. PICK n \in Nat : n = boxes[s].n_subscribers /\ n \in 0 .. SizeT - 1
  BY <1>1, FSAssumption
<1>7. n <= Cardinality(P)
  BY <1>6
<1>8. CASE boxes'[s].n_subscribers = boxes[s].n_subscribers
  <2> HIDE DEF P, Q
  <2> QED
    BY <1>2, <1>5, <1>6, <1>7, <1>8
<1>9. CASE boxes'[s].n_subscribers # boxes[s].n_subscribers
  <2>1. /\ s = loc[w].spot
        /\ \/ boxes'[s].n_subscribers = 0
           \/ SubCount(w) /\ boxes'[s].n_subscribers = (n + 1) % SizeT
    BY <1>1, <1>6, <1>9, SubsOf
  <2>2. CASE boxes'[s].n_subscribers = 0
    BY <1>2, <2>2
  <2>3. CASE SubCount(w) /\ boxes'[s].n_subscribers = (n + 1) % SizeT
    <3>1. pc[w] = "subscribe" /\ pc'[w] = "sub_open" /\ loc' = loc
      BY <1>1, <2>3 DEF SubCount, At, Goto
    <3>2. w \notin P /\ w \in Q
      BY <2>1, <3>1 DEF AtSpot, SubSection, SubFile
    <3>3. Cardinality(P \cup {w}) = Cardinality(P) + 1 /\ P \cup {w} \subseteq Q
      BY <1>2, <1>3, <3>2, FS_AddElement
    <3>4. Cardinality(P \cup {w}) <= Cardinality(Q)
      BY <1>2, <3>3, FS_Subset
    <3>5. PICK m \in Int : m = (n + 1) % SizeT /\ m <= n + 1
      <4>1. (n + 1) % SizeT \in Int
        BY <1>6, ModSize
      <4> QED
        BY <1>6, <4>1, CountMod
    <3> HIDE DEF P, Q
    <3>6. m <= Cardinality(Q)
      BY <1>2, <1>6, <1>7, <3>3, <3>4, <3>5
    <3> QED
      BY <2>3, <3>5, <3>6
  <2> QED
    BY <2>1, <2>2, <2>3
<1> QED
  BY <1>8, <1>9

LEMMA CountsStep ==
  ASSUME NoRemoves, BoxesFirst, EnoughHandles, LogBase, LogBase', LogInv, CountsBase, CountsInv,
         NEW w \in Workers, Step(w)
  PROVE  CountsInv'
<1> SUFFICES ASSUME NEW s \in Spots PROVE Counted(s)' \/ FullSpot(s)'
  BY DEF CountsInv
<1>1. CASE FullSpot(s) \/ (PubMiscount(w) /\ loc[w].spot = s)
  <2>1. FullSpot(s)
    BY <1>1, MiscountFull DEF CountsBase
  <2> QED
    BY <2>1, FullSpotKept
<1>2. CASE ~FullSpot(s) /\ ~(PubMiscount(w) /\ loc[w].spot = s)
  <2>1. Counted(s)
    BY <1>2 DEF CountsInv
  <2>2. boxes'[s].n_publishers = Cardinality(AtSpot(PubSection, s)')
    BY <1>2, <2>1, PubCounted DEF Counted
  <2>3. boxes'[s].n_subscribers <= Cardinality(AtSpot(SubSection, s)')
    BY <1>2, <2>1, SubCounted DEF Counted
  <2> QED
    BY <2>2, <2>3 DEF Counted
<1> QED
  BY <1>1, <1>2

\* The invariant holds when there are no boxes and no sessions.
LEMMA CountsInit == Init => CountsBase /\ CountsInv
<1> SUFFICES ASSUME Init PROVE CountsBase /\ CountsInv
  OBVIOUS
<1>1. /\ \A w \in Workers : pc[w] = "idle"
      /\ \A s \in Spots : boxes[s] = NewBox
      /\ DOMAIN dir = {} /\ free_open_file_entries = Handles /\ free_blocks = Blocks \ {0}
  BY DEF Init, FSInit
<1>2. CountsBase
  BY <1>1 DEF CountsBase, HandlesHeld, NamesFiled, WithFile, BlocksHeld, ShortFull, NewBox
<1>3. ASSUME NEW s \in Spots PROVE Counted(s)
  <2>1. AtSpot(PubSection, s) = {} /\ AtSpot(SubSection, s) = {}
    BY <1>1 DEF AtSpot, PubSection, PubFile, SubSection, SubFile
  <2>2. boxes[s].n_publishers = 0 /\ boxes[s].n_subscribers = 0
    BY <1>1, <1>3 DEF NewBox
  <2>3. Cardinality({}) = 0
    BY FS_EmptySet
  <2> QED
    BY <2>1, <2>2, <2>3 DEF Counted
<1> QED
  BY <1>2, <1>3 DEF CountsInv

\* The clients take no part in it.
LEMMA CountsClient ==
  ASSUME LogBase, LogInv, CountsBase, CountsInv,
         (\E c \in Clients : ClientAction(c)) \/ sig_handler \/ UNCHANGED vars
  PROVE  CountsBase' /\ CountsInv'
<1>1. UNCHANGED <<fsVars, req, boxes, pc, loc>>
  BY ClientActionFrame DEF sig_handler, Crash, vars, requestVars
<1>2. \A p \in Names : FileCells(p)' = FileCells(p)
  BY <1>1, CellsSame DEF LogInv, fsVars
<1>3. PubCame => PubCame'
  <2> SUFFICES ASSUME NEW c \in Clients, Request[c].code = "publisher", client[c] # "new"
               PROVE  client'[c] # "new"
    BY DEF PubCame
  <2>1. \/ client' = client
        \/ \E d \in Clients : \E x \in {"sent", "left"} : client' = [client EXCEPT ![d] = x]
    BY DEF ClientAction, Register, RegisterEnds, Publish, Receive, ReceiveError, Leave,
       sig_handler, Crash, clientVars, vars
  <2>2. client \in [Clients -> States]
    BY DEF LogBase, TypeInv, ClientInv
  <2> QED
    BY <2>1, <2>2
<1>4. HandlesHeld'
  BY <1>1 DEF CountsBase, HandlesHeld, fsVars, openVars
<1>5. NamesFiled'
  BY <1>1 DEF CountsBase, NamesFiled, Name, fsVars, fileVars
<1>6. BlocksHeld'
  BY <1>1 DEF CountsBase, BlocksHeld, fsVars, fileVars
<1>7. ShortFull'
  <2> SUFFICES ASSUME NEW v \in Workers,
                      \/ pc'[v] \in {"pub_short", "pub_miscount"}
                      \/ pc'[v] = "pub_signal" /\ loc'[v].n # Len(loc'[v].buffer)
               PROVE  Full(Name(v))'
    BY DEF ShortFull
  <2>1. /\ pc'[v] = pc[v] /\ loc'[v] = loc[v] /\ Name(v)' = Name(v)
    BY <1>1 DEF Name
  <2>2. Full(Name(v)) /\ pc[v] # "idle"
    BY <2>1 DEF CountsBase, ShortFull
  <2>3. PICK p \in Names : p = Name(v)
    BY <2>2, CodeAt DEF LogBase, TypeInv, BrokerInv
  <2> QED
    BY <1>2, <2>1, <2>2, <2>3 DEF Full
<1>8. ASSUME NEW s \in Spots PROVE Counted(s)' \/ FullSpot(s)'
  <2>1. Counted(s) => Counted(s)'
    BY <1>1 DEF Counted, AtSpot
  <2>2. FullSpot(s) => FullSpot(s)'
    BY <1>1, <1>2, <1>3 DEF FullSpot, Full
  <2> QED
    BY <2>1, <2>2 DEF CountsInv
<1> QED
  BY <1>4, <1>5, <1>6, <1>7, <1>8 DEF CountsBase, CountsInv

\* Counts are kept: when no box is removed, the boxes are there before their publishers
\* come, every worker can have a file open and every box has a block to fill, the broker's
\* count of a box's publishers is that of their sessions, and its count of subscribers no
\* more than that of theirs, until the file of the box is full.
THEOREM CountsKeptCorrect ==
  ASSUME NoRemoves, BoxesFirst, EnoughHandles, EnoughBlocks
  PROVE  Spec => []CountsKept
<1>1. LogBase /\ LogBase' /\ LogInv /\ CountsBase /\ CountsInv /\ [Next]_vars
        => CountsBase' /\ CountsInv'
  <2> SUFFICES ASSUME LogBase, LogBase', LogInv, CountsBase, CountsInv, [Next]_vars
               PROVE  CountsBase' /\ CountsInv'
    OBVIOUS
  <2>1. CASE \E w \in Workers : Step(w)
    <3>1. PICK w \in Workers : Step(w)
      BY <2>1
    <3>2. HandlesHeld' /\ NamesFiled' /\ BlocksHeld' /\ ShortFull'
      BY <3>1, HandlesStep, NamesFiledStep, BlocksStep, ShortStep DEF CountsBase
    <3> QED
      BY <3>1, <3>2, CountsStep DEF CountsBase
  <2> QED
    BY <2>1, CountsClient, NextSteps
<1>2. LogBase /\ CountsInv => CountsKept
  <2> SUFFICES ASSUME LogBase, CountsInv, NEW s \in Spots,
                      Len(FileCells(boxes[s].box_name)) < BLOCK_SIZE
               PROVE  /\ boxes[s].n_publishers
                           = Cardinality({w \in Workers : pc[w] \in PubSection /\ loc[w].spot = s})
                      /\ boxes[s].n_subscribers
                           <= Cardinality({w \in Workers : pc[w] \in SubFile \cup {"sub_open"}
                                                             /\ loc[w].spot = s})
    BY DEF CountsKept
  <2>1. ~FullSpot(s)
    BY FSAssumption DEF FullSpot, Full
  <2> QED
    BY <2>1 DEF CountsInv, Counted, AtSpot, SubSection
<1>3. Spec => []RemovesApart
  BY NoneApart
<1>4. Spec /\ []RemovesApart => [](LogBase /\ LogInv)
  BY LogInvCorrect
<1> QED
  BY <1>1, <1>2, <1>3, <1>4, CountsInit, PTL DEF Spec
=============================================================================
