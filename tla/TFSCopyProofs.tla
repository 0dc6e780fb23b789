--------------------------- MODULE TFSCopyProofs ---------------------------
(* A copy is nothing but calls of the file system: what holds of every     *)
(* sequence of calls holds while files are copied.                         *)
EXTENDS TFSHandleProofs, TFSCopy

CopyInv == TypeOK /\ CopyTypeOK

-----------------------------------------------------------------------------
(* The calls a copy makes.                                                 *)

LEMMA BytesRead ==
  ASSUME CopyTypeOK, NEW t \in Threads, copy[t].unread > 0
  PROVE  bytes_read(t) \in 1 .. SIZE_OF_BUFFER /\ copy[t].unread - bytes_read(t) \in Nat
<1>1. copy[t].unread \in Nat /\ SIZE_OF_BUFFER \in Nat \ {0}
  BY CopyAssumption DEF CopyTypeOK
<1> QED
  BY <1>1 DEF bytes_read

\* tfs_open with the flags of a copy is one of the calls of TFS.
LEMMA CopyOpenCalls ==
  ASSUME NEW t \in Threads, CopyOpen(t)
  PROVE  Call(t) \/ UNCHANGED vars
<1>1. PICK dest \in PathsOf[t] :
        \/ valid_pathname(dest) /\ EnterRoot(t, "open",
             [NoLoc EXCEPT !.path = dest, !.mode = {"CREAT", "TRUNC"}])
        \/ UNCHANGED vars
  BY DEF CopyOpen
<1>2. {"CREAT", "TRUNC"} \in Modes
  BY CopyAssumption
<1>3. CASE UNCHANGED vars
  BY <1>3
<1>4. CASE valid_pathname(dest) /\ EnterRoot(t, "open",
             [NoLoc EXCEPT !.path = dest, !.mode = {"CREAT", "TRUNC"}])
  <2>1. OpenEnter(t)
    BY <1>2, <1>4 DEF OpenEnter
  <2> QED
    BY <2>1 DEF Call
<1> QED
  BY <1>1, <1>3, <1>4

\* tfs_write of what fread returned, and tfs_close of the handle of the copy.
LEMMA CopyFileCalls ==
  ASSUME CopyTypeOK, NEW t \in Threads, CopyWrite(t) \/ CopyClose(t)
  PROVE  Call(t)
<1>1. copy[t].fh \in Handles
  BY DEF CopyTypeOK
<1>2. CASE CopyWrite(t)
  <2>1. bytes_read(t) \in Lens
    BY <1>2, BytesRead, CopyAssumption DEF CopyWrite
  <2>2. TransferEnter(t, "write")
    BY <1>1, <1>2, <2>1 DEF CopyWrite, TransferEnter
  <2> QED
    BY <2>2 DEF Call
<1>3. CASE CopyClose(t)
  <2>1. CloseEnter(t)
    BY <1>1, <1>3, CopyAssumption DEF CopyClose, CloseEnter
  <2> QED
    BY <2>1 DEF Call
<1> QED
  BY <1>2, <1>3

LEMMA CopyCalls ==
  ASSUME CopyTypeOK, [CopyNext]_copyVars PROVE [Next]_vars
<1>1. CASE UNCHANGED copyVars
  BY <1>1 DEF copyVars
<1>2. ASSUME NEW t \in Threads, CopyStep(t) PROVE [Next]_vars
  BY <1>2, CopyOpenCalls, CopyFileCalls DEF CopyStep, Next
<1>3. ASSUME NEW t \in Threads, CallStep(t) PROVE [Next]_vars
  BY <1>3 DEF CallStep, Next
<1> QED
  BY <1>1, <1>2, <1>3 DEF CopyNext

-----------------------------------------------------------------------------
(* The types of the copies.                                                *)

CopyType == [at : {"none", "open", "loop", "write", "close"}, size : Nat,
             unread : Nat, fh : Handles, ok : BOOLEAN,
             had : [handles : SUBSET Handles, streams : Int]]

LEMMA NoCopyType == NoCopy \in CopyType
BY RootInInodes DEF NoCopy, CopyType

\* The handle of a copy is one that tfs_open added.
LEMMA ReturnedType ==
  ASSUME CopyTypeOK, TypeOK', NEW t \in Threads PROVE Returned(t) \in CopyType
<1>1. copy[t] \in CopyType
  BY DEF CopyTypeOK, CopyType
<1>2. mine'[t] \subseteq Handles
  BY DEF TypeOK
<1>3. ~(mine'[t] \subseteq mine[t]) => (CHOOSE h \in mine'[t] \ mine[t] : TRUE) \in Handles
  BY <1>2
<1>4. (bytes_wrote(t) = loc[t].len) \in BOOLEAN
  OBVIOUS
<1> QED
  BY <1>1, <1>3, <1>4, NoCopyType DEF Returned, CopyType

LEMMA CopyTypeStep ==
  ASSUME CopyInv, TypeOK', [CopyNext]_copyVars PROVE CopyTypeOK'
<1>1. copy \in [Threads -> CopyType] /\ streams \in [Threads -> Int]
  BY DEF CopyInv, CopyTypeOK, CopyType
<1>2. SUFFICES copy' \in [Threads -> CopyType] /\ streams' \in [Threads -> Int]
  BY DEF CopyTypeOK, CopyType
<1>3. CASE UNCHANGED <<copy, streams>>
  BY <1>1, <1>3
<1>4. ASSUME NEW t \in Threads, CopyOpen(t)
      PROVE  copy' \in [Threads -> CopyType] /\ streams' \in [Threads -> Int]
  <2>1. mine[t] \subseteq Handles /\ streams[t] \in Int
    BY <1>1 DEF CopyInv, TypeOK
  <2>2. PICK size \in SourceSizes :
          /\ streams' = [streams EXCEPT ![t] = @ + 1]
          /\ \/ copy' = copy
             \/ copy' = [copy EXCEPT ![t] =
                  [NoCopy EXCEPT !.at = "open", !.size = size, !.unread = size,
                                 !.had = [handles |-> mine[t], streams |-> streams[t]]]]
    BY <1>4 DEF CopyOpen
  <2>3. size \in Nat
    BY CopyAssumption
  <2>4. [NoCopy EXCEPT !.at = "open", !.size = size, !.unread = size,
           !.had = [handles |-> mine[t], streams |-> streams[t]]] \in CopyType
    BY <2>1, <2>3, RootInInodes DEF NoCopy, CopyType
  <2> HIDE DEF CopyType
  <2> QED
    BY <1>1, <2>1, <2>2, <2>4
<1>5. ASSUME NEW t \in Threads, CopyWrite(t)
      PROVE  copy' \in [Threads -> CopyType] /\ streams' \in [Threads -> Int]
  <2>1. copy[t].unread - bytes_read(t) \in Nat
    BY <1>5, BytesRead DEF CopyWrite, CopyInv
  <2> QED
    BY <1>1, <1>5, <2>1 DEF CopyWrite, CopyType
<1>6. ASSUME NEW t \in Threads, CopyClose(t)
      PROVE  copy' \in [Threads -> CopyType] /\ streams' \in [Threads -> Int]
  BY <1>1, <1>6 DEF CopyClose, CopyType
<1>7. ASSUME NEW t \in Threads, CallStep(t)
      PROVE  copy' \in [Threads -> CopyType] /\ streams' \in [Threads -> Int]
  BY <1>1, <1>7, ReturnedType DEF CallStep, CopyInv
<1> QED
  BY <1>3, <1>4, <1>5, <1>6, <1>7 DEF CopyNext, CopyStep, copyVars

LEMMA CopyInvStep == CopyInv /\ [CopyNext]_copyVars => CopyInv'
<1> SUFFICES ASSUME CopyInv, [CopyNext]_copyVars PROVE CopyInv'
  OBVIOUS
<1>1. TypeOK'
  BY CopyCalls, TypeStep DEF CopyInv
<1> QED
  BY <1>1, CopyTypeStep DEF CopyInv

-----------------------------------------------------------------------------
\* A file system in which files are copied does nothing that its callers could
\* not have done with the seven calls: each step of tfs_copy_from_external_fs
\* is a step of one of them, or changes nothing of the file system.
THEOREM CopyImplementsTFS == CopySpec => Spec
<1>1. CopyInit => CopyInv
  BY InitType, NoCopyType DEF CopyInit, CopyInv, CopyTypeOK, CopyType
<1>2. CopyInit => Init
  BY DEF CopyInit
<1>3. CopyInv /\ [CopyNext]_copyVars => [Next]_vars
  BY CopyCalls DEF CopyInv
<1> QED
  BY <1>1, <1>2, <1>3, CopyInvStep, PTL DEF CopySpec, Spec

\* Link counts are exact while files are copied.
THEOREM CopyLinkCount == CopySpec => []LinkCountExact
<1> QED
  BY CopyImplementsTFS, LinkCountCorrect, PTL

-----------------------------------------------------------------------------
(* What a copy holds: a handle and a stream, until it closes them.         *)

Opening == {"open", "open_follow", "open_again", "open_add"}
Writing == {"write", "write_alloc"}

\* The part a call makes of a copy, and what the thread has besides.
CopyAt(c, label, handles, open) ==
  /\ c.at = "open" => label \in Opening /\ handles = c.had.handles /\ open = c.had.streams + 1
  /\ c.at = "loop" => label = "idle"
  /\ c.at = "write" => label \in Writing
  /\ c.at \in {"loop", "write"} => /\ c.fh \notin c.had.handles
                                   /\ handles = c.had.handles \cup {c.fh}
                                   /\ open = c.had.streams + 1
  /\ c.at = "close" => label \in Closing /\ handles = c.had.handles /\ open = c.had.streams

CopyHeld == ~failed => \A t \in Threads : CopyAt(copy[t], pc[t], mine[t], streams[t])

\* Whose handles a step of the file system changes, and how.
LEMMA MineFrame ==
  ASSUME HandleUse = "own", TypeOK, HandleInv, NEW t \in Threads, Call(t) \/ Continue(t)
  PROVE  /\ \A u \in Threads \ {t} : mine'[u] = mine[u]
         /\ pc[t] # "idle" =>
              \/ mine' = mine
              \/ /\ OpenAddTake(t) /\ pc'[t] = "idle"
                 /\ \E h \in Handles : h \notin mine[t] /\ mine'[t] = mine[t] \cup {h}
<1>1. CASE ~FileStep(t)
  BY <1>1, FileFrame DEF fileVars
<1>2. CASE OpenAddTake(t)
  <2>1. PICK h : h = loc[t].i
    OBVIOUS
  <2>2. /\ h \in free_open_file_entries /\ mine' = [mine EXCEPT ![t] = @ \cup {h}]
        /\ pc' = [pc EXCEPT ![t] = "idle"]
    BY <1>2, <2>1 DEF OpenAddTake, Return, Goto
  <2>3. h \in Handles /\ h \notin mine[t]
    BY <2>2 DEF TypeOK, HandleInv, HandlesOwned
  <2>4. /\ mine \in [Threads -> SUBSET Handles] /\ pc \in [Threads -> Labels]
    BY DEF TypeOK
  <2> QED
    BY <1>2, <2>2, <2>3, <2>4
<1>3. CASE CloseEnter(t)
  <2>1. pc[t] = "idle"
    BY <1>3 DEF CloseEnter, EnterFile, Idle
  <2>2. PICK h \in Handles :
          EnterFile(t, "close", h, [NoLoc EXCEPT !.fh = h], [u \in Threads |-> mine[u] \ {h}])
    BY <1>3 DEF CloseEnter
  <2>3. h \in mine[t] /\ (mine' = mine \/ mine' = [u \in Threads |-> mine[u] \ {h}])
    BY <2>2 DEF EnterFile, MayUse, Crash, fileVars
  <2>4. \A u \in Threads \ {t} : h \notin mine[u]
    BY <2>3 DEF HandleInv, HandlesOwned
  <2>5. \A u \in Threads \ {t} : mine'[u] = mine[u]
    BY <2>3, <2>4
  <2> QED
    BY <2>1, <2>5
<1>4. CASE TransferEnter(t, "write") \/ TransferEnter(t, "read")
  BY <1>4 DEF TransferEnter, EnterFile, Crash, fileVars
<1>5. CASE CloseUnlock(t) \/ CloseDestroy(t)
  BY <1>5 DEF CloseUnlock, CloseDestroy, Crash, fileVars
<1>6. CASE Write(t) \/ WriteAlloc(t) \/ Read(t)
  BY <1>6, TransferFrame
<1> QED
  BY <1>1, <1>2, <1>3, <1>4, <1>5, <1>6 DEF FileStep

\* A call goes on until it returns.
LEMMA CallGoesOn ==
  ASSUME TypeOK, NEW t \in Threads, Continue(t)
  PROVE  /\ pc[t] # "idle" /\ ~failed
         /\ pc[t] \in Opening => pc'[t] \in Opening \cup {"idle"}
         /\ pc[t] \in Writing => pc'[t] \in Writing \cup {"idle"}
         /\ pc[t] \in Closing => pc'[t] \in Closing \cup {"idle"}
<1> USE DEF Opening, Writing, Closing, At
<1>p. pc \in [Threads -> Labels]
  BY DEF TypeOK
<1>0. pc[t] # "idle" /\ ~failed
  BY DEF Continue, OpenRefused, OpenLink, OpenFollow, OpenAgain, OpenExisting, OpenCreate,
     OpenNoInode, OpenAddTake, OpenAddNext, Link, SymLink, UnlinkRefused, UnlinkName,
     UnlinkLink, UnlinkLast, UnlinkOpen, UnlinkScan, UnlinkDelete, CloseUnlock, CloseDestroy,
     Write, WriteAlloc, Read
<1>1. CASE OpenRefused(t) \/ OpenNoInode(t) \/ OpenAddTake(t)
  BY <1>p, <1>0, <1>1 DEF OpenRefused, OpenNoInode, OpenAddTake, Refuse, Return, Goto
<1>2. CASE OpenLink(t) \/ OpenFollow(t) \/ OpenAgain(t)
  BY <1>p, <1>0, <1>2 DEF OpenLink, OpenFollow, OpenAgain, Return, Goto, Crash
<1>3. CASE OpenExisting(t) \/ OpenCreate(t) \/ OpenAddNext(t)
  BY <1>p, <1>0, <1>3 DEF OpenExisting, OpenCreate, OpenAddNext, Return, Goto
<1>4. CASE \/ Link(t) \/ SymLink(t) \/ UnlinkRefused(t) \/ UnlinkName(t) \/ UnlinkLink(t)
           \/ UnlinkLast(t) \/ UnlinkOpen(t) \/ UnlinkScan(t) \/ UnlinkDelete(t)
  <2>1. pc[t] \in {"link", "sym_link", "unlink", "unlink_scan", "unlink_delete"}
    BY <1>4 DEF Link, SymLink, UnlinkRefused, UnlinkName, UnlinkLink, UnlinkLast, UnlinkOpen,
       UnlinkScan, UnlinkDelete
  <2> QED
    BY <1>0, <2>1
<1>5. CASE CloseUnlock(t)
  BY <1>p, <1>0, <1>5 DEF CloseUnlock, Return, Goto
<1>6. CASE CloseDestroy(t)
  BY <1>p, <1>0, <1>6 DEF CloseDestroy, Return, Goto, Crash
<1>7. CASE Write(t)
  BY <1>p, <1>0, <1>7 DEF Write, CopyIn, Return, Goto, Crash
<1>8. CASE WriteAlloc(t)
  BY <1>p, <1>0, <1>8 DEF WriteAlloc, CopyIn, Return, Goto, Crash
<1>9. CASE Read(t)
  <2>1. pc[t] = "read"
    BY <1>9 DEF Read
  <2> QED
    BY <1>0, <2>1
<1> QED
  BY <1>1, <1>2, <1>3, <1>4, <1>5, <1>6, <1>7, <1>8, <1>9 DEF Continue


\* The part of another thread's copy stays as it is.
LEMMA HeldByOthers ==
  ASSUME HandleUse = "own", TypeOK, HandleInv, CopyHeld, ~failed,
         NEW t \in Threads, Call(t) \/ Continue(t), NEW u \in Threads \ {t},
         copy'[u] = copy[u], streams'[u] = streams[u]
  PROVE  CopyAt(copy'[u], pc'[u], mine'[u], streams'[u])
<1>1. pc'[u] = pc[u] /\ mine'[u] = mine[u]
  BY OthersStep, MineFrame DEF Others
<1>2. CopyAt(copy[u], pc[u], mine[u], streams[u])
  BY DEF CopyHeld
<1> QED
  BY <1>1, <1>2

\* tfs_open of a copy has begun, or has refused the path.
LEMMA HeldOpen ==
  ASSUME TypeOK, CopyTypeOK, CopyHeld, ~failed, NEW t \in Threads, CopyOpen(t)
  PROVE  CopyAt(copy'[t], pc'[t], mine'[t], streams'[t])
<1>1. PICK dest \in PathsOf[t], size \in SourceSizes :
        /\ copy[t].at = "none"
        /\ streams' = [streams EXCEPT ![t] = @ + 1]
        /\ \/ UNCHANGED <<vars, copy>>
           \/ /\ EnterRoot(t, "open",
                   [NoLoc EXCEPT !.path = dest, !.mode = {"CREAT", "TRUNC"}])
              /\ copy' = [copy EXCEPT ![t] =
                   [NoCopy EXCEPT !.at = "open", !.size = size, !.unread = size,
                                  !.had = [handles |-> mine[t], streams |-> streams[t]]]]
  BY DEF CopyOpen
<1>2. CASE UNCHANGED <<vars, copy>>
  <2>1. copy'[t].at = "none"
    BY <1>1, <1>2
  <2> QED
    BY <2>1 DEF CopyAt
<1>3. CASE ~UNCHANGED <<vars, copy>>
  <2>1. /\ copy'[t].at = "open"
        /\ copy'[t].had = [handles |-> mine[t], streams |-> streams[t]]
    BY <1>1, <1>3 DEF CopyTypeOK, NoCopy
  <2>2. pc'[t] = "open" /\ mine' = mine
    BY <1>1, <1>3 DEF EnterRoot, Goto, TypeOK, fileVars
  <2>3. streams'[t] = streams[t] + 1
    BY <1>1 DEF CopyTypeOK
  <2> QED
    BY <2>1, <2>2, <2>3 DEF CopyAt, Opening
<1> QED
  BY <1>2, <1>3

\* tfs_write of a copy has begun.
LEMMA HeldWrite ==
  ASSUME TypeOK, CopyTypeOK, CopyHeld, ~failed, failed' = FALSE, NEW t \in Threads, CopyWrite(t)
  PROVE  CopyAt(copy'[t], pc'[t], mine'[t], streams'[t])
<1>0. CopyAt(copy[t], pc[t], mine[t], streams[t]) /\ copy[t].at = "loop"
  BY DEF CopyHeld, CopyWrite
<1>1. pc'[t] = "write" /\ mine' = mine
  BY DEF CopyWrite, EnterFile, Crash, Goto, TypeOK
<1>2. PICK n : /\ copy' = [copy EXCEPT ![t].at = "write", ![t].unread = n]
               /\ streams' = streams
  BY DEF CopyWrite
<1>3. /\ copy'[t].at = "write" /\ copy'[t].fh = copy[t].fh /\ copy'[t].had = copy[t].had
  BY <1>2 DEF CopyTypeOK
<1> QED
  BY <1>0, <1>1, <1>2, <1>3 DEF CopyAt, Writing

\* fclose, and tfs_close has begun.
LEMMA HeldClose ==
  ASSUME TypeOK, CopyTypeOK, CopyHeld, ~failed, failed' = FALSE, NEW t \in Threads, CopyClose(t)
  PROVE  CopyAt(copy'[t], pc'[t], mine'[t], streams'[t])
<1>0. CopyAt(copy[t], pc[t], mine[t], streams[t]) /\ copy[t].at = "loop"
  BY DEF CopyHeld, CopyClose
<1>1. pc'[t] = "close" /\ mine'[t] = mine[t] \ {copy[t].fh}
  BY DEF CopyClose, EnterFile, Crash, Goto, TypeOK
<1>2. /\ copy' = [copy EXCEPT ![t].at = "close"]
      /\ streams' = [streams EXCEPT ![t] = @ - 1]
  BY DEF CopyClose
<1>3. /\ copy'[t].at = "close" /\ copy'[t].had = copy[t].had
      /\ streams'[t] = streams[t] - 1
  BY <1>2 DEF CopyTypeOK
<1>4. copy[t].had.streams \in Int
  BY DEF CopyTypeOK
<1>5. /\ copy[t].fh \notin copy[t].had.handles
      /\ mine[t] = copy[t].had.handles \cup {copy[t].fh}
      /\ streams[t] = copy[t].had.streams + 1
  BY <1>0 DEF CopyAt
<1>6. mine'[t] = copy[t].had.handles
  BY <1>1, <1>5
<1>7. streams'[t] = copy[t].had.streams
  BY <1>3, <1>4, <1>5
<1> QED
  BY <1>1, <1>3, <1>6, <1>7 DEF CopyAt, Closing

\* The rest of a call of a copy.
LEMMA HeldCall ==
  ASSUME HandleUse = "own", TypeOK, HandleInv, CopyTypeOK, CopyHeld, ~failed, failed' = FALSE,
         NEW t \in Threads, CallStep(t)
  PROVE  CopyAt(copy'[t], pc'[t], mine'[t], streams'[t])
<1> DEFINE Goal == CopyAt(copy'[t], pc'[t], mine'[t], streams'[t])
<1>0. /\ CopyAt(copy[t], pc[t], mine[t], streams[t])
      /\ streams' = streams
      /\ copy[t].at \in {"none", "open", "loop", "write", "close"}
  BY DEF CopyHeld, CallStep, CopyTypeOK
<1>1. CASE copy[t].at = "none"
  <2>1. copy'[t].at = "none"
    BY <1>1 DEF CallStep, CopyTypeOK, Returned, NoCopy
  <2> QED
    BY <2>1 DEF CopyAt
<1>2. CASE copy[t].at # "none"
  <2>1. Continue(t)
    BY <1>2 DEF CallStep
  <2>2. pc[t] # "idle"
    BY <2>1, CallGoesOn
  <2>3. \/ mine' = mine
        \/ /\ pc'[t] = "idle"
           /\ \E h \in Handles : h \notin mine[t] /\ mine'[t] = mine[t] \cup {h}
    BY <2>1, <2>2, MineFrame
  <2>4. copy[t].at \in {"open", "write", "close"}
    BY <1>0, <1>2, <2>2 DEF CopyAt
  <2>5. CASE pc'[t] # "idle"
    <3>1. copy' = copy
      BY <2>5 DEF CallStep
    <3>2. /\ copy[t].at = "open" => pc'[t] \in Opening
          /\ copy[t].at = "write" => pc'[t] \in Writing
          /\ copy[t].at = "close" => pc'[t] \in Closing
      BY <1>0, <2>1, <2>5, CallGoesOn DEF CopyAt
    <3> QED
      BY <1>0, <2>3, <2>4, <2>5, <3>1, <3>2 DEF CopyAt
  <2>6. CASE pc'[t] = "idle"
    <3>1. copy'[t] = Returned(t)
      BY <2>2, <2>6 DEF CallStep, CopyTypeOK
    <3>2. NoCopy.at = "none"
      BY DEF NoCopy
    <3>3. CASE copy[t].at = "open" /\ ~(mine'[t] \subseteq mine[t])
      <4>1. PICK h \in Handles : h \notin mine[t] /\ mine'[t] = mine[t] \cup {h}
        BY <2>3, <3>3
      <4>2. mine'[t] \ mine[t] = {h}
        BY <4>1
      <4>3. (CHOOSE k \in mine'[t] \ mine[t] : TRUE) = h
        BY <4>2
      <4>4. copy'[t] = [copy[t] EXCEPT !.at = "loop", !.fh = h]
        BY <3>1, <3>3, <4>3 DEF Returned
      <4>5. copy'[t].at = "loop" /\ copy'[t].fh = h /\ copy'[t].had = copy[t].had
        BY <4>4 DEF CopyTypeOK
      <4> QED
        BY <1>0, <2>6, <3>3, <4>1, <4>5 DEF CopyAt
    <3>4. CASE copy[t].at = "open" /\ mine'[t] \subseteq mine[t]
      BY <3>1, <3>2, <3>4 DEF Returned, CopyAt
    <3>5. CASE copy[t].at = "close"
      BY <3>1, <3>2, <3>5 DEF Returned, CopyAt
    <3>6. CASE copy[t].at = "write"
      <4>1. pc[t] \in Writing
        BY <1>0, <3>6 DEF CopyAt
      <4>2. mine' = mine
        BY <2>1, <2>2, <4>1, MineFrame DEF OpenAddTake, At, Writing
      <4>3. copy'[t].at = "loop" /\ copy'[t].fh = copy[t].fh /\ copy'[t].had = copy[t].had
        BY <3>1, <3>6 DEF Returned, CopyTypeOK
      <4> QED
        BY <1>0, <2>6, <3>6, <4>2, <4>3 DEF CopyAt
    <3> QED
      BY <2>4, <3>3, <3>4, <3>5, <3>6
  <2> QED
    BY <2>5, <2>6
<1> QED
  BY <1>1, <1>2

\* A step of a thread changes its own copy and streams only.
LEMMA OtherCopies ==
  ASSUME CopyTypeOK, NEW t \in Threads, CopyStep(t) \/ CallStep(t), NEW u \in Threads \ {t}
  PROVE  copy'[u] = copy[u] /\ streams'[u] = streams[u]
BY DEF CopyStep, CallStep, CopyOpen, CopyWrite, CopyClose, CopyTypeOK

LEMMA CopyHeldStep ==
  ASSUME HandleUse = "own", CopyInv, CopyInv', HandleInv, CopyHeld, [CopyNext]_copyVars
  PROVE  CopyHeld'
<1> USE DEF CopyInv
<1>1. CASE UNCHANGED copyVars
  BY <1>1 DEF copyVars, vars, fileVars, CopyHeld
<1>2. ASSUME NEW t \in Threads, CopyStep(t) \/ CallStep(t) PROVE CopyHeld'
  <2> SUFFICES ASSUME failed' = FALSE, NEW u \in Threads
               PROVE  CopyAt(copy'[u], pc'[u], mine'[u], streams'[u])
    BY DEF CopyHeld, TypeOK
  <2>0. ~failed
    BY <1>2, CallGoesOn DEF CopyStep, CopyOpen, CopyWrite, CopyClose, CallStep, EnterFile,
       Idle, Call, OpenEnter, LinkEnter, UnlinkEnter, EnterRoot, CloseEnter, TransferEnter
  <2>1. CASE u = t
    BY <1>2, <2>0, <2>1, HeldOpen, HeldWrite, HeldClose, HeldCall DEF CopyStep
  <2>2. CASE u # t /\ (Call(t) \/ Continue(t))
    BY <1>2, <2>0, <2>2, HeldByOthers, OtherCopies
  <2>3. CASE u # t /\ UNCHANGED vars
    <3>1. CopyAt(copy[u], pc[u], mine[u], streams[u])
      BY <2>0 DEF CopyHeld
    <3> QED
      BY <1>2, <2>3, <3>1, OtherCopies DEF vars, fileVars
  <2>4. Call(t) \/ Continue(t) \/ UNCHANGED vars
    BY <1>2, CopyOpenCalls, CopyFileCalls DEF CopyStep, CallStep
  <2> QED
    BY <2>1, <2>2, <2>3, <2>4
<1> QED
  BY <1>1, <1>2 DEF CopyNext

\* When a copy that opened its destination ends, its thread has what it had.
LEMMA CopyEnd ==
  ASSUME HandleUse = "own", CopyInv, CopyInv', HandleInv, CopyHeld, CopyHeld',
         NEW u \in Threads, CopyStep(u) \/ CallStep(u),
         NEW t \in Threads, copy[t].at \notin {"none", "open"}, copy'[t].at = "none"
  PROVE  mine'[t] = copy[t].had.handles /\ streams'[t] = copy[t].had.streams
<1> USE DEF CopyInv
<1>1. u = t
  BY OtherCopies
<1>2. CallStep(t) /\ Continue(t)
  <2>1. CASE CopyOpen(t)
    BY <2>1 DEF CopyOpen
  <2>2. ASSUME CopyWrite(t) PROVE FALSE
    <3>1. PICK n : copy' = [copy EXCEPT ![t].at = "write", ![t].unread = n]
      BY <2>2 DEF CopyWrite
    <3> QED
      BY <3>1 DEF CopyTypeOK
  <2>3. ASSUME CopyClose(t) PROVE FALSE
    BY <2>3 DEF CopyClose, CopyTypeOK
  <2> QED
    BY <1>1, <2>1, <2>2, <2>3 DEF CopyStep, CallStep
<1>3. pc[t] # "idle" /\ ~failed
  BY <1>2, CallGoesOn
<1>4. copy'[t] # copy[t] /\ copy[t].at \in {"loop", "write", "close"}
  BY DEF CopyTypeOK
<1>5. copy'[t] = Returned(t) /\ streams' = streams
  BY <1>2, <1>4 DEF CallStep, CopyTypeOK
<1>6. CopyAt(copy[t], pc[t], mine[t], streams[t])
  BY <1>3 DEF CopyHeld
<1>7. copy[t].at = "close"
  BY <1>3, <1>4, <1>5, <1>6 DEF Returned, CopyTypeOK, CopyAt
<1>8. pc[t] \in Closing /\ mine[t] = copy[t].had.handles /\ streams[t] = copy[t].had.streams
  BY <1>6, <1>7 DEF CopyAt
<1>9. mine' = mine
  BY <1>2, <1>3, <1>8, MineFrame DEF OpenAddTake, At, Closing
<1> QED
  BY <1>5, <1>8, <1>9

\* A copy that opened its destination leaves its thread with the handles and the
\* streams it had, whether every write was whole or one fell short.
THEOREM CopyGivesBackCorrect ==
  ASSUME HandleUse = "own"
  PROVE  CopySpec => CopyGivesBack
<1>1. CopyInit => CopyInv /\ CopyHeld
  <2>1. CopyInit => CopyInv
    BY InitType, NoCopyType DEF CopyInit, CopyInv, CopyTypeOK, CopyType
  <2>2. CopyInit => CopyHeld
    BY DEF CopyInit, CopyHeld, CopyAt, NoCopy
  <2> QED
    BY <2>1, <2>2
<1>2. CopyInv /\ CopyInv' /\ HandleInv /\ CopyHeld /\ [CopyNext]_copyVars => CopyHeld'
  BY CopyHeldStep
<1>3. CopyInv /\ CopyInv' /\ HandleInv /\ CopyHeld /\ CopyHeld' /\ [CopyNext]_copyVars =>
        [\A t \in Threads : copy[t].at \notin {"none", "open"} /\ copy'[t].at = "none" =>
           mine'[t] = copy[t].had.handles /\ streams'[t] = copy[t].had.streams]_copyVars
  BY CopyEnd DEF CopyNext
<1> QED
  BY <1>1, <1>2, <1>3, CopyInvStep, CopyImplementsTFS, HandleInvCorrect, PTL
     DEF CopySpec, CopyGivesBack

-----------------------------------------------------------------------------
(* When no two threads share a path and each passes its own handles, no    *)
(* thread works on another's files.                                        *)

\* The handles of a thread, also the one it closes, are of its own files, and it
\* reads and writes through them only.
Holds(t) == IF pc[t] \in Closing THEN mine[t] \cup {loc[t].fh} ELSE mine[t]

WorksApart ==
  \A t \in Threads :
    /\ \A h \in Holds(t) : Owns(t, open_file_table[h].of_inumber)
    /\ pc[t] \in Transferring => loc[t].fh \in mine[t]

\* What holds of the file system while files are copied.
ApartState ==
  /\ HandleUse = "own" /\ PathsApart
  /\ TypeOK /\ LockInv /\ LinkInv /\ HandleInv /\ ApartInv

\* What a thread owns stays its own, as long as it is not deleted.
LEMMA OwnsStays ==
  ASSUME TypeOK, TypeOK', LockInv, LinkInv, LinkInv', ApartInv,
         NEW t \in Threads, Call(t) \/ Continue(t),
         NEW u \in Threads, NEW i \in Inodes, Owns(u, i), ~IsLink(i), i \notin freeinode_ts'
  PROVE  Owns(u, i)'
<1>1. i \notin freeinode_ts /\ i # Root
  BY OwnedTaken
<1>2. ~IsLink(i)'
  BY <1>1, KindsKept DEF IsLink
<1>3. SlotsOf(i)' # {}
  BY <1>1, <1>2 DEF LinkInv, LinkCountExact
<1>4. CASE UNCHANGED dir
  BY <1>4 DEF Owns, SlotsOf
<1>5. CASE OpenCreate(t) \/ SymLink(t) \/ Link(t)
  <2>1. UNCHANGED dir \/ \E inum : dir' = add_dir_entry(loc[t].path, inum)
    BY <1>5 DEF OpenCreate, SymLink, Link, Refuse, Crash
  <2>2. ASSUME NEW inum, dir' = add_dir_entry(loc[t].path, inum) PROVE Owns(u, i)'
    <3>1. \E s \in Slots : dir'[s].d_inumber = i /\ dir'[s].d_name \in PathsOf[u]
      BY <2>2, OwnsAdded
    <3> QED
      BY <3>1 DEF Owns, SlotsOf
  <2> QED
    BY <1>4, <2>1, <2>2
<1>6. CASE UnlinkName(t) \/ (UnlinkDelete(t) /\ ~Crash)
  <2>1. SlotsNamed(loc[t].path) # {} /\ dir' = clear_dir_entry(loc[t].path)
    BY <1>6, LookupSlot DEF UnlinkName, UnlinkDelete, Found, LinkInv
  <2>2. Min(SlotsNamed(loc[t].path)) \in Slots
    BY <2>1, SlotMin DEF SlotsNamed
  <2>3. i # -1
    BY SizesAssumption DEF Inodes
  <2>4. PICK s : s \in SlotsOf(i)'
    BY <1>3
  <2>5. s \in SlotsOf(i) /\ dir'[s] = dir[s]
    BY <2>1, <2>2, <2>3, <2>4 DEF SlotsOf, clear_dir_entry, EmptyEntry, TypeOK
  <2>6. dir[s].d_name \in PathsOf[u]
    BY <2>5 DEF ApartInv, NamesApart
  <2> QED
    BY <2>4, <2>5, <2>6 DEF Owns
<1> QED
  BY <1>4, <1>5, <1>6, NameFrame DEF NameStep, Crash

\* The entry of a handle a thread holds is taken.
LEMMA HeldTaken ==
  ASSUME TypeOK, LockInv, HandleInv, NEW t \in Threads, NEW h \in Holds(t)
  PROVE  h \in Handles \ free_open_file_entries
<1>1. h \in mine[t] => h \in Handles
  BY DEF TypeOK
<1>2. pc[t] \in Closing => loc[t].fh \in Handles \ free_open_file_entries
  BY HandleType DEF LockInv, EntryHeld, CloseHeld, FileSection, Closing
<1> QED
  BY <1>1, <1>2 DEF Holds, HandleInv, HandlesOwned

\* Two threads hold no handle together.
LEMMA HeldApart ==
  ASSUME TypeOK, LockInv, HandleInv, NEW t \in Threads, NEW u \in Threads \ {t},
         NEW h \in mine[t]
  PROVE  h \notin Holds(u)
BY DEF Holds, HandleInv, HandlesOwned, CloseUnowned

\* What a thread holds after a step it held before, or tfs_open added it.
LEMMA HoldsFrame ==
  ASSUME HandleUse = "own", TypeOK, HandleInv, NEW t \in Threads, Call(t) \/ Continue(t),
         NEW u \in Threads, NEW h \in Holds(u)'
  PROVE  h \in Holds(u) \/ (u = t /\ OpenAddTake(t) /\ h = loc[t].i)
<1>1. CASE u # t
  <2>1. pc'[u] = pc[u] /\ loc'[u] = loc[u] /\ mine'[u] = mine[u]
    BY <1>1, OthersStep, MineFrame DEF Others
  <2> QED
    BY <2>1 DEF Holds
<1>2. CASE u = t /\ OpenAddTake(t)
  <2>1. PICK k : k = loc[t].i
    OBVIOUS
  <2>2. mine' = [mine EXCEPT ![t] = @ \cup {k}] /\ pc'[t] = "idle"
    BY <1>2, <2>1 DEF OpenAddTake, Return, Goto, TypeOK
  <2>3. mine'[t] = mine[t] \cup {k}
    BY <2>2 DEF TypeOK
  <2> QED
    BY <1>2, <2>1, <2>2, <2>3 DEF Holds, Closing
<1>3. CASE u = t /\ CloseEnter(t)
  <2>1. PICK k \in Handles :
          EnterFile(t, "close", k, [NoLoc EXCEPT !.fh = k], [v \in Threads |-> mine[v] \ {k}])
    BY <1>3 DEF CloseEnter
  <2>2. k \in mine[t] /\ pc[t] = "idle"
    BY <2>1 DEF EnterFile, MayUse, Idle
  <2>3. CASE Crash
    BY <1>3, <2>3 DEF Crash, fileVars, Holds
  <2>4. CASE ~Crash
    <3>1. /\ loc' = [loc EXCEPT ![t] = [NoLoc EXCEPT !.fh = k]]
          /\ mine' = [v \in Threads |-> mine[v] \ {k}]
      BY <2>1, <2>4 DEF EnterFile
    <3>2. loc'[t].fh = k /\ mine'[t] \subseteq mine[t]
      BY <3>1 DEF TypeOK, NoLoc
    <3> QED
      BY <1>3, <2>2, <3>2 DEF Holds, Closing
  <2> QED
    BY <2>3, <2>4
<1>4. CASE u = t /\ ~OpenAddTake(t) /\ ~CloseEnter(t)
  <2>1. mine'[t] = mine[t]
    <3>1. CASE pc[t] # "idle"
      BY <1>4, <3>1, MineFrame
    <3>2. CASE pc[t] = "idle"
      <4>1. Call(t)
        BY <3>2, CallGoesOn
      <4> QED
        BY <1>4, <4>1 DEF Call, OpenEnter, LinkEnter, UnlinkEnter, EnterRoot, TransferEnter,
           EnterFile, Crash, fileVars
    <3> QED
      BY <3>1, <3>2
  <2>2. pc'[t] \in Closing => pc[t] \in Closing /\ loc'[t].fh = loc[t].fh
    <3>1. CASE ~FileStep(t)
      BY <3>1, FileFrame DEF OutsideFiles, FileSection, Closing
    <3>2. CASE TransferEnter(t, "write") \/ TransferEnter(t, "read")
      BY <3>2 DEF TransferEnter, EnterFile, Crash, Goto, TypeOK, Closing, Idle
    <3>3. CASE CloseUnlock(t) \/ CloseDestroy(t)
      BY <3>3 DEF CloseUnlock, CloseDestroy, Crash, Return, Goto, At, TypeOK, Closing
    <3>4. CASE Write(t) \/ WriteAlloc(t) \/ Read(t)
      BY <3>4, TransferFrame DEF Closing
    <3> QED
      BY <1>4, <3>1, <3>2, <3>3, <3>4 DEF FileStep
  <2> QED
    BY <1>4, <2>1, <2>2 DEF Holds
<1> QED
  BY <1>1, <1>2, <1>3, <1>4

LEMMA WorksApartStep ==
  ASSUME ApartState, ApartState', WorksApart, NEW t \in Threads, Call(t) \/ Continue(t)
  PROVE  WorksApart'
<1> USE DEF ApartState
<1>1. ASSUME NEW u \in Threads, NEW h \in Holds(u)'
      PROVE  Owns(u, open_file_table[h].of_inumber)'
  <2>1. h \in Handles \ free_open_file_entries'
    <3>1. h \in mine'[u] => h \in Handles
      BY DEF TypeOK
    <3>2. loc'[u].fh \in Handles
      BY DEF TypeOK, LocType
    <3>3. pc'[u] \in Closing => loc'[u].fh \notin free_open_file_entries'
      BY DEF LockInv, EntryHeld, CloseHeld, FileSection, Closing
    <3> QED
      BY <3>1, <3>2, <3>3 DEF Holds, HandleInv, HandlesOwned
  <2>2. PICK i \in Inodes : i = open_file_table'[h].of_inumber
    BY <2>1 DEF TypeOK
  <2>3. i \notin freeinode_ts' /\ ~IsLink(i)'
    BY <2>1, <2>2 DEF ApartInv, FilesKept, OpenHandleLive, OpenNoLink, IsLink
  <2>4. CASE u = t /\ OpenAddTake(t) /\ h = loc[t].i
    <3>1. i = loc[t].inum /\ UNCHANGED dir /\ pc[t] = "open_add"
      BY <2>1, <2>2, <2>4 DEF OpenAddTake, TypeOK, At
    <3>2. Owns(t, i)
      BY <3>1 DEF ApartInv, CallApart
    <3> QED
      BY <2>2, <2>4, <3>1, <3>2 DEF Owns, SlotsOf
  <2>5. CASE h \in Holds(u)
    <3>1. h \in Handles \ free_open_file_entries /\ Owns(u, open_file_table[h].of_inumber)
      BY <2>5, HeldTaken DEF WorksApart
    <3>2. open_file_table[h].of_inumber = i
      <4>1. CASE ~OpenAddTake(t)
        BY <2>1, <2>2, <4>1, HandleFrame
      <4>2. CASE OpenAddTake(t)
        BY <2>2, <3>1, <4>2 DEF OpenAddTake, TypeOK
      <4> QED
        BY <4>1, <4>2
    <3>3. ~IsLink(i)
      BY <3>1, <3>2 DEF ApartInv, OpenNoLink
    <3>4. Owns(u, i)'
      BY <2>3, <3>1, <3>2, <3>3, OwnsStays
    <3> QED
      BY <2>2, <3>4 DEF Owns, SlotsOf
  <2> QED
    BY <2>4, <2>5, HoldsFrame
<1>2. ASSUME NEW u \in Threads, pc'[u] \in Transferring
      PROVE  loc'[u].fh \in mine'[u]
  <2>1. CASE u # t
    <3>1. pc'[u] = pc[u] /\ loc'[u] = loc[u] /\ mine'[u] = mine[u]
      BY <2>1, OthersStep, MineFrame DEF Others
    <3> QED
      BY <1>2, <3>1 DEF WorksApart
  <2>2. CASE u = t /\ pc[t] \in Transferring
    <3>1. mine' = mine
      BY <2>2, MineFrame DEF OpenAddTake, At, Transferring
    <3>2. loc'[t].fh = loc[t].fh
      <4>1. Write(t) \/ WriteAlloc(t) \/ Read(t) \/ Crash
        BY <1>2, <2>2, FileFrame DEF OutsideFiles, FileSection, Transferring, FileStep, OpenAddTake,
           CloseEnter, TransferEnter, EnterFile, Idle, At, CloseUnlock, CloseDestroy
      <4>2. CASE Crash
        BY <4>2 DEF Crash
      <4>3. CASE Write(t)
        BY <1>2, <2>2, <4>3 DEF Write, CopyIn, Crash, Return, Goto, TypeOK, Transferring
      <4>4. CASE WriteAlloc(t)
        BY <1>2, <2>2, <4>4 DEF WriteAlloc, CopyIn, Crash, Return, Goto, TypeOK, Transferring, LocType
      <4>5. CASE Read(t)
        BY <1>2, <2>2, <4>5 DEF Read, Crash, Return, Goto, TypeOK, Transferring
      <4> QED
        BY <4>1, <4>2, <4>3, <4>4, <4>5
    <3> QED
      BY <2>2, <3>1, <3>2 DEF WorksApart
  <2>3. CASE u = t /\ pc[t] \notin Transferring
    <3>1. TransferEnter(t, "write") \/ TransferEnter(t, "read")
      <4>1. CASE ~FileStep(t)
        BY <1>2, <2>3, <4>1, FileFrame DEF OutsideFiles, FileSection, Transferring
      <4>2. CASE OpenAddTake(t) \/ CloseUnlock(t) \/ CloseDestroy(t)
        BY <1>2, <2>3, <4>2 DEF OpenAddTake, CloseUnlock, CloseDestroy, Crash, Return, Goto,
           TypeOK, Transferring
      <4>3. CASE CloseEnter(t)
        BY <1>2, <2>3, <4>3 DEF CloseEnter, EnterFile, Crash, Goto, TypeOK, Transferring
      <4>4. CASE Write(t) \/ WriteAlloc(t) \/ Read(t)
        BY <2>3, <4>4, TransferFrame DEF Transferring
      <4> QED
        BY <4>1, <4>2, <4>3, <4>4 DEF FileStep
    <3>2. PICK op \in {"write", "read"}, h \in Handles, n \in Lens :
            EnterFile(t, op, h, [NoLoc EXCEPT !.fh = h, !.len = n], mine)
      BY <3>1 DEF TransferEnter
    <3>3. ~Crash
      BY <1>2, <2>3 DEF Crash
    <3>4. /\ loc' = [loc EXCEPT ![t] = [NoLoc EXCEPT !.fh = h, !.len = n]]
          /\ mine' = mine /\ h \in mine[t]
      BY <3>2, <3>3 DEF EnterFile, MayUse
    <3>5. loc'[t].fh = h
      BY <3>4 DEF TypeOK, NoLoc
    <3> QED
      BY <2>3, <3>4, <3>5
  <2> QED
    BY <2>1, <2>2, <2>3
<1> QED
  BY <1>1, <1>2 DEF WorksApart


-----------------------------------------------------------------------------
(* What another thread does changes neither what a thread holds nor the    *)
(* size of its files.                                                      *)

LEMMA EntryApart ==
  ASSUME ApartState, WorksApart, NEW t \in Threads, Call(t) \/ Continue(t),
         NEW u \in Threads \ {t}, NEW h \in Holds(u)
  PROVE  open_file_table'[h] = open_file_table[h]
<1> USE DEF ApartState
<1>0. h \in Handles \ free_open_file_entries
  BY HeldTaken
<1>1. CASE ~FileStep(t)
  BY <1>1, FileFrame DEF fileVars
<1>2. CASE OpenAddTake(t)
  BY <1>0, <1>2 DEF OpenAddTake, TypeOK
<1>3. CASE CloseEnter(t) \/ TransferEnter(t, "write") \/ TransferEnter(t, "read")
           \/ CloseUnlock(t) \/ CloseDestroy(t)
  BY <1>3 DEF CloseEnter, TransferEnter, EnterFile, CloseUnlock, CloseDestroy, Crash, fileVars
<1>4. CASE Write(t) \/ WriteAlloc(t) \/ Read(t)
  <2>1. loc[t].fh \in mine[t]
    BY <1>4, TransferFrame DEF WorksApart, Transferring
  <2>2. loc[t].fh # h
    BY <2>1, HeldApart
  <2>3. CASE UNCHANGED open_file_table
    BY <2>3
  <2>4. ASSUME NEW n, open_file_table' = [open_file_table EXCEPT ![loc[t].fh].of_offset = n]
        PROVE  open_file_table'[h] = open_file_table[h]
    BY <1>0, <2>2, <2>4 DEF TypeOK
  <2> QED
    BY <1>4, <2>3, <2>4, TransferFrame
<1> QED
  BY <1>1, <1>2, <1>3, <1>4 DEF FileStep

LEMMA SizeApart ==
  ASSUME ApartState, WorksApart, NEW t \in Threads, Call(t) \/ Continue(t),
         NEW u \in Threads \ {t}, NEW i \in Inodes, Owns(u, i)
  PROVE  inode_table'[i].i_size = inode_table[i].i_size
<1> USE DEF ApartState
<1>0. i \notin freeinode_ts /\ ~Owns(t, i)
  BY OwnedTaken, OneOwner DEF ApartInv
<1>1. CASE UNCHANGED inode_table
  BY <1>1
<1>2. CASE OpenExisting(t)
  <2>1. PICK inum : inum = Found(t)
    OBVIOUS
  <2>2. Owns(t, inum)
    BY <1>2, <2>1, FoundOwned DEF OpenExisting, Found, ApartInv, CallApart
  <2>3. \E n : inode_table' = [inode_table EXCEPT ![inum].i_size = n]
    BY <1>2, <2>1 DEF OpenExisting
  <2> QED
    BY <1>0, <2>2, <2>3 DEF TypeOK
<1>3. CASE OpenCreate(t) \/ SymLink(t)
  <2>1. \/ UNCHANGED inode_table
        \/ freeinode_ts # {} /\ \E n : inode_table' = [inode_table EXCEPT ![FirstFreeInode] = n]
    BY <1>3 DEF OpenCreate, SymLink, Refuse, Crash, inodeVars
  <2>2. freeinode_ts # {} => FirstFreeInode # i
    BY <1>0, FirstFreeType
  <2> QED
    BY <2>1, <2>2 DEF TypeOK
<1>4. CASE Link(t) \/ UnlinkName(t)
  <2>1. UNCHANGED inode_table
        \/ \E j, n : inode_table' = [inode_table EXCEPT ![j].hard_link_counter = n]
    BY <1>4 DEF Link, UnlinkName, Refuse, inodeVars
  <2> QED
    BY <2>1 DEF TypeOK, InodeType
<1>5. CASE Write(t) \/ WriteAlloc(t)
  <2>1. PICK j : j = FileOf(t)
    OBVIOUS
  <2>2. loc[t].fh \in mine[t]
    BY <1>5, TransferFrame DEF WorksApart, Transferring, Write, WriteAlloc, At
  <2>3. Owns(t, j)
    BY <2>1, <2>2 DEF WorksApart, Holds, FileOf
  <2>4. UNCHANGED inode_table
        \/ \E m, n : inode_table' = [inode_table EXCEPT ![j].i_data_block = m, ![j].i_size = n]
    <3>1. ASSUME NEW m, NEW S, CopyIn(t, m, S)
          PROVE  UNCHANGED inode_table
                 \/ \E n : inode_table' = [inode_table EXCEPT ![j].i_data_block = m, ![j].i_size = n]
      <4>1. CASE Crash
        BY <4>1 DEF Crash
      <4>2. CASE ~Crash
        BY <2>1, <3>1, <4>2 DEF CopyIn
      <4> QED
        BY <4>1, <4>2
    <3>2. UNCHANGED inode_table \/ \E m, S : CopyIn(t, m, S)
      BY <1>5 DEF Write, WriteAlloc, inodeVars
    <3> QED
      BY <3>1, <3>2
  <2> QED
    BY <1>0, <2>3, <2>4 DEF TypeOK
<1>6. CASE OpenEnter(t) \/ LinkEnter(t, "link") \/ LinkEnter(t, "sym_link") \/ UnlinkEnter(t)
  BY <1>6, <1>1 DEF OpenEnter, LinkEnter, UnlinkEnter, EnterRoot, inodeVars
<1>7. CASE CloseEnter(t) \/ TransferEnter(t, "write") \/ TransferEnter(t, "read")
           \/ CloseUnlock(t) \/ CloseDestroy(t)
  BY <1>7, <1>1 DEF CloseEnter, TransferEnter, EnterFile, CloseUnlock, CloseDestroy, Crash, inodeVars
<1>8. CASE \/ OpenRefused(t) \/ OpenLink(t) \/ OpenFollow(t) \/ OpenAgain(t) \/ OpenNoInode(t)
           \/ OpenAddTake(t) \/ OpenAddNext(t) \/ Read(t)
  BY <1>8, <1>1 DEF OpenRefused, OpenLink, OpenFollow, OpenAgain, OpenNoInode, OpenAddTake,
     OpenAddNext, Read, Refuse, Crash, inodeVars
<1>9. CASE UnlinkRefused(t) \/ UnlinkLink(t) \/ UnlinkLast(t) \/ UnlinkOpen(t) \/ UnlinkScan(t)
           \/ UnlinkDelete(t)
  BY <1>9, <1>1 DEF UnlinkRefused, UnlinkLink, UnlinkLast, UnlinkOpen, UnlinkScan, UnlinkDelete,
     Refuse, Crash, inodeVars
<1> QED
  BY <1>2, <1>3, <1>4, <1>5, <1>6, <1>7, <1>8, <1>9 DEF Call, Continue

-----------------------------------------------------------------------------
(* What a copy has written.                                                *)

SizeOf(h) == inode_table[open_file_table[h].of_inumber].i_size

\* tfs_open empties the destination, and each write that is not short brings its
\* size, and the offset of the handle, to what fread has returned.
CopyDone(t) ==
  LET c    == copy[t]
      done == c.size - c.unread
  IN
  /\ c.at = "open" =>
       /\ c.ok /\ done = 0 /\ loc[t].mode = {"CREAT", "TRUNC"} /\ loc[t].offset = 0
       /\ pc[t] = "open_add" => inode_table[loc[t].inum].i_size = 0
  /\ c.at = "loop" =>
       /\ open_file_table[c.fh].of_offset = SizeOf(c.fh)
       /\ IF c.ok THEN SizeOf(c.fh) = done ELSE SizeOf(c.fh) < done
  /\ c.at = "write" =>
       /\ c.ok /\ loc[t].fh = c.fh /\ loc[t].len > 0
       /\ open_file_table[c.fh].of_offset = SizeOf(c.fh)
       /\ SizeOf(c.fh) + loc[t].len = done
  /\ c.at = "close" =>
       loc[t].fh = c.fh /\ IF c.ok THEN SizeOf(c.fh) = c.size ELSE SizeOf(c.fh) < c.size

CopiesDone == ~failed => \A t \in Threads : CopyDone(t) /\ copy[t].unread <= copy[t].size

\* The copies of other threads.
LEMMA DoneByOthers ==
  ASSUME ApartState, TypeOK', WorksApart, CopyTypeOK, CopyHeld, CopiesDone, ~failed,
         NEW t \in Threads, Call(t) \/ Continue(t), NEW u \in Threads \ {t}, copy'[u] = copy[u]
  PROVE  CopyDone(u)'
<1> USE DEF ApartState
<1>1. pc'[u] = pc[u] /\ loc'[u] = loc[u]
  BY OthersStep DEF Others
<1>2. CopyDone(u) /\ CopyAt(copy[u], pc[u], mine[u], streams[u])
  BY DEF CopiesDone, CopyHeld
<1>3. pc[u] = "open_add" => inode_table'[loc[u].inum].i_size = inode_table[loc[u].inum].i_size
  BY SizeApart DEF ApartInv, CallApart, TypeOK, LocType
<1>4. CASE copy[u].at \in {"none", "open"}
  BY <1>1, <1>2, <1>3, <1>4 DEF CopyDone
<1>5. CASE copy[u].at \notin {"none", "open"}
  <2>1. PICK h \in Handles : h = copy[u].fh
    BY DEF CopyTypeOK
  <2>2. h \in Holds(u)
    BY <1>2, <1>5, <2>1 DEF CopyAt, CopyDone, Holds, CopyTypeOK, Writing, Closing
  <2>3. open_file_table'[h] = open_file_table[h]
    BY <2>2, EntryApart
  <2>4. inode_table'[open_file_table[h].of_inumber].i_size = SizeOf(h)
    BY <2>1, <2>2, SizeApart DEF WorksApart, TypeOK, SizeOf
  <2>5. SizeOf(h)' = SizeOf(h)
    BY <2>3, <2>4 DEF SizeOf
  <2> QED
    BY <1>1, <1>2, <1>5, <2>1, <2>3, <2>5 DEF CopyDone
<1> QED
  BY <1>4, <1>5


\* A write whose handle is at the end of its file moves both by what it returns.
LEMMA WriteMoves ==
  ASSUME TypeOK, NEW t \in Threads, Write(t) \/ WriteAlloc(t), failed' = FALSE,
         NEW h \in Handles, h = loc[t].fh, open_file_table[h].of_offset = SizeOf(h)
  PROVE  \/ /\ pc'[t] # "idle" /\ UNCHANGED <<open_file_table, inode_table>>
            /\ loc'[t].fh = h /\ loc'[t].len = loc[t].len
         \/ /\ pc'[t] = "idle"
            /\ \E n \in 0 .. loc[t].len :
                 /\ open_file_table'[h].of_offset = open_file_table[h].of_offset + n
                 /\ SizeOf(h)' = SizeOf(h) + n
<1> DEFINE Waits == /\ pc'[t] # "idle" /\ UNCHANGED <<open_file_table, inode_table>>
                    /\ loc'[t].fh = h /\ loc'[t].len = loc[t].len
           Moves(n) == /\ open_file_table'[h].of_offset = open_file_table[h].of_offset + n
                       /\ SizeOf(h)' = SizeOf(h) + n
<1>c. ~Crash
  BY DEF Crash
<1>t. /\ loc[t].len \in Nat /\ open_file_table[h].of_offset \in Nat
      /\ BLOCK_SIZE \in Nat /\ SizeT \in Nat /\ BLOCK_SIZE < SizeT
  BY HandleType, SizesAssumption DEF TypeOK
<1>0. ASSUME UNCHANGED <<open_file_table, inode_table>>, pc'[t] = "idle"
      PROVE  pc'[t] = "idle" /\ \E n \in 0 .. loc[t].len : Moves(n)
  <2>1. open_file_table'[h].of_offset = open_file_table[h].of_offset + 0 /\ SizeOf(h)' = SizeOf(h) + 0
    BY <1>0, <1>t DEF SizeOf
  <2>2. 0 \in 0 .. loc[t].len
    BY <1>t
  <2> QED
    BY <1>0, <2>1, <2>2
<1>1. ASSUME NEW m, NEW S, CopyIn(t, m, S)
      PROVE  pc'[t] = "idle" /\ \E n \in 0 .. loc[t].len : Moves(n)
  <2>1. PICK i \in Inodes : i = open_file_table[h].of_inumber
    BY DEF TypeOK
  <2>2. PICK k : k = open_file_table[h].of_offset /\ k \in Nat
    BY <1>t
  <2>3. FileOf(t) = i /\ OffsetOf(t) = k
    BY <2>1, <2>2 DEF FileOf, OffsetOf
  <2>4. inode_table[i].i_size = k
    BY <2>1, <2>2 DEF SizeOf
  <2>5. ToWrite(t) \in Nat
    BY <1>t, <2>2, <2>3 DEF ToWrite
  <2>6. PICK n \in Nat : n = ToWrite(t)
    BY <2>5
  <2>7. n <= loc[t].len /\ k + n <= BLOCK_SIZE
    BY <1>c, <1>1, <1>t, <2>2, <2>3, <2>6 DEF CopyIn
  <2>8. (k + n) % SizeT = k + n
    BY <1>t, <2>2, <2>7, ModSmall
  <2>9. (IF k + n > inode_table[i].i_size THEN k + n ELSE inode_table[i].i_size) = k + n
    BY <2>2, <2>4
  <2>10. /\ open_file_table' = [open_file_table EXCEPT ![h].of_offset = k + n]
         /\ inode_table' = [inode_table EXCEPT ![i].i_data_block = m, ![i].i_size = k + n]
         /\ pc' = [pc EXCEPT ![t] = "idle"]
    BY <1>c, <1>1, <2>3, <2>6, <2>8, <2>9 DEF CopyIn, Return, Goto
  <2>11. pc'[t] = "idle" /\ inode_table'[i].i_size = k + n
    BY <2>10 DEF TypeOK
  <2>12. /\ open_file_table'[h].of_offset = k + n
         /\ open_file_table'[h].of_inumber = i
    BY <2>1, <2>10 DEF TypeOK
  <2>13. SizeOf(h)' = SizeOf(h) + n
    BY <2>1, <2>4, <2>11, <2>12 DEF SizeOf
  <2>14. n \in 0 .. loc[t].len
    BY <1>t, <2>7
  <2> QED
    BY <2>2, <2>11, <2>12, <2>13, <2>14
<1>2. CASE Write(t)
  <2>1. CASE Goto(t, "write_alloc") /\ UNCHANGED <<open_file_table, inode_table, loc>>
    BY <2>1 DEF Goto, TypeOK
  <2>2. CASE Return(t) /\ UNCHANGED <<open_file_table, inode_table>>
    <3>1. pc'[t] = "idle"
      BY <2>2 DEF Return, Goto, TypeOK
    <3> QED
      BY <1>0, <2>2, <3>1
  <2>3. ASSUME NEW m, CopyIn(t, m, {}) PROVE pc'[t] = "idle" /\ \E n \in 0 .. loc[t].len : Moves(n)
    BY <1>1, <2>3
  <2> QED
    BY <1>2, <2>1, <2>2, <2>3 DEF Write, inodeVars, fileVars
<1>3. CASE WriteAlloc(t)
  <2>1. CASE /\ pc[t] = "write_alloc" /\ loc' = [loc EXCEPT ![t].i = @ + 1]
             /\ UNCHANGED <<open_file_table, inode_table, pc>>
    BY <2>1 DEF TypeOK, LocType
  <2>2. CASE Return(t) /\ UNCHANGED <<open_file_table, inode_table>>
    <3>1. pc'[t] = "idle"
      BY <2>2 DEF Return, Goto, TypeOK
    <3> QED
      BY <1>0, <2>2, <3>1
  <2>3. ASSUME NEW m, NEW S, CopyIn(t, m, S)
        PROVE  pc'[t] = "idle" /\ \E n \in 0 .. loc[t].len : Moves(n)
    BY <1>1, <2>3
  <2> QED
    BY <1>3, <2>1, <2>2, <2>3 DEF WriteAlloc, At, inodeVars, fileVars
<1> QED
  BY <1>2, <1>3


\* tfs_open with the flags of a copy: until it adds the handle, the file it found or
\* made is empty.
LEMMA OpenEmpties ==
  ASSUME ApartState, NEW t \in Threads, Continue(t), ~OpenAddTake(t), pc[t] \in Opening,
         pc'[t] # "idle", loc[t].mode = {"CREAT", "TRUNC"}, loc[t].offset = 0,
         pc[t] = "open_add" => inode_table[loc[t].inum].i_size = 0
  PROVE  /\ loc'[t].mode = {"CREAT", "TRUNC"} /\ loc'[t].offset = 0
         /\ pc'[t] = "open_add" => inode_table'[loc'[t].inum].i_size = 0
<1> USE DEF ApartState
<1>c. CASE Crash /\ pc[t] # "open_add"
  BY <1>c DEF Crash
<1>1. CASE OpenLink(t)
  BY <1>1 DEF OpenLink, Goto, TypeOK, LocType
<1>2. CASE OpenFollow(t) /\ ~Crash
  <2>1. \/ \E p, d : /\ loc' = [loc EXCEPT ![t].path = p, ![t].depth = d]
                     /\ pc' = [pc EXCEPT ![t] = "open_again"]
        \/ pc' = [pc EXCEPT ![t] = "idle"]
    BY <1>2 DEF OpenFollow, Goto, Return
  <2>2. pc' # [pc EXCEPT ![t] = "idle"]
    BY DEF TypeOK
  <2>3. PICK p, d : /\ loc' = [loc EXCEPT ![t].path = p, ![t].depth = d]
                    /\ pc' = [pc EXCEPT ![t] = "open_again"]
    BY <2>1, <2>2
  <2>4. loc'[t].mode = loc[t].mode /\ loc'[t].offset = loc[t].offset
    BY <2>3 DEF TypeOK, LocType
  <2>5. pc'[t] = "open_again"
    BY <2>3 DEF TypeOK
  <2> QED
    BY <2>4, <2>5
<1>3. CASE OpenAgain(t)
  BY <1>3 DEF OpenAgain, Goto, TypeOK
<1>4. CASE OpenExisting(t)
  <2>1. PICK inum : inum = Found(t)
    OBVIOUS
  <2>2. "TRUNC" \in loc[t].mode /\ "APPEND" \notin loc[t].mode
    OBVIOUS
  <2>3. inum \in Inodes
    BY <1>4, <2>1, LookupType DEF OpenExisting, Found
  <2>4. /\ inode_table' = [inode_table EXCEPT ![inum].i_size = 0]
        /\ loc' = [loc EXCEPT ![t].inum = inum, ![t].offset = 0]
    BY <1>4, <2>1, <2>2 DEF OpenExisting
  <2>5. loc'[t].mode = loc[t].mode /\ loc'[t].offset = 0 /\ loc'[t].inum = inum
    BY <2>4 DEF TypeOK, LocType
  <2>6. inode_table'[inum].i_size = 0
    BY <2>3, <2>4 DEF TypeOK, InodeType
  <2> QED
    BY <2>5, <2>6
<1>5. CASE OpenCreate(t)
  <2>1. PICK inum \in Inodes : inum = FirstFreeInode
    BY <1>5, FirstFreeType DEF OpenCreate
  <2>2. loc' = [loc EXCEPT ![t].inum = inum]
    BY <1>5, <2>1 DEF OpenCreate, Return, Goto, TypeOK
  <2>3. loc'[t].mode = loc[t].mode /\ loc'[t].offset = 0 /\ loc'[t].inum = inum
    BY <2>2 DEF TypeOK, LocType
  <2>4. inode_table'[inum] = NewInode("file")
    BY <1>5, <2>1 DEF OpenCreate, TypeOK
  <2> QED
    BY <2>3, <2>4 DEF NewInode
<1>6. CASE OpenAddNext(t)
  <2>1. loc' = [loc EXCEPT ![t].i = @ + 1] /\ UNCHANGED <<inode_table, pc>>
    BY <1>6 DEF OpenAddNext, Return, Goto, TypeOK, inodeVars
  <2>2. /\ loc'[t].mode = loc[t].mode /\ loc'[t].offset = loc[t].offset
        /\ loc'[t].inum = loc[t].inum
    BY <2>1 DEF TypeOK, LocType
  <2> QED
    BY <2>1, <2>2
<1>7. CASE OpenRefused(t) \/ OpenNoInode(t)
  BY <1>7 DEF OpenRefused, OpenNoInode, Refuse, Return, Goto, TypeOK
<1>8. CASE Link(t) \/ SymLink(t)
  BY <1>8 DEF Link, SymLink, At, Opening
<1>9. CASE \/ UnlinkRefused(t) \/ UnlinkName(t) \/ UnlinkLink(t) \/ UnlinkLast(t)
           \/ UnlinkOpen(t) \/ UnlinkScan(t) \/ UnlinkDelete(t)
  BY <1>9 DEF UnlinkRefused, UnlinkName, UnlinkLink, UnlinkLast, UnlinkOpen, UnlinkScan,
     UnlinkDelete, At, Opening
<1>10. CASE CloseUnlock(t) \/ CloseDestroy(t) \/ Write(t) \/ WriteAlloc(t) \/ Read(t)
  BY <1>10 DEF CloseUnlock, CloseDestroy, Write, WriteAlloc, Read, At, Opening
<1> QED
  <2>1. OpenFollow(t) => pc[t] # "open_add"
    BY DEF OpenFollow, At
  <2> QED
    BY <2>1, <1>c, <1>1, <1>2, <1>3, <1>4, <1>5, <1>6, <1>7, <1>8, <1>9, <1>10 DEF Continue

\* The calls a copy begins.
LEMMA DoneOpen ==
  ASSUME TypeOK, CopyTypeOK, NEW t \in Threads, CopyOpen(t)
  PROVE  CopyDone(t)' /\ (copy[t].unread <= copy[t].size => copy'[t].unread <= copy'[t].size)
<1>1. PICK dest \in PathsOf[t], size \in SourceSizes :
        /\ copy[t].at = "none"
        /\ \/ UNCHANGED <<vars, copy>>
           \/ /\ EnterRoot(t, "open",
                   [NoLoc EXCEPT !.path = dest, !.mode = {"CREAT", "TRUNC"}])
              /\ copy' = [copy EXCEPT ![t] =
                   [NoCopy EXCEPT !.at = "open", !.size = size, !.unread = size,
                                  !.had = [handles |-> mine[t], streams |-> streams[t]]]]
  BY DEF CopyOpen
<1>2. CASE UNCHANGED <<vars, copy>>
  BY <1>1, <1>2 DEF CopyDone
<1>3. CASE ~UNCHANGED <<vars, copy>>
  <2>1. size \in Nat
    BY CopyAssumption
  <2>2. /\ copy'[t].at = "open" /\ copy'[t].ok
        /\ copy'[t].size = size /\ copy'[t].unread = size
    BY <1>1, <1>3 DEF CopyTypeOK, NoCopy
  <2>3. pc'[t] = "open" /\ loc'[t] = [NoLoc EXCEPT !.path = dest, !.mode = {"CREAT", "TRUNC"}]
    BY <1>1, <1>3 DEF EnterRoot, Goto, TypeOK
  <2>4. loc'[t].mode = {"CREAT", "TRUNC"} /\ loc'[t].offset = 0
    BY <2>3 DEF NoLoc
  <2>5. size - size = 0 /\ size <= size
    BY <2>1
  <2> QED
    BY <2>2, <2>3, <2>4, <2>5 DEF CopyDone
<1> QED
  BY <1>2, <1>3

LEMMA DoneWrite ==
  ASSUME TypeOK, CopyTypeOK, failed' = FALSE, NEW t \in Threads, CopyWrite(t), CopyDone(t),
         copy[t].unread <= copy[t].size
  PROVE  CopyDone(t)' /\ copy'[t].unread <= copy'[t].size
<1>1. PICK h \in Handles, b \in Nat, s \in Nat, unread \in Nat, size \in Nat :
        /\ h = copy[t].fh /\ b = bytes_read(t) /\ b > 0 /\ s = SizeOf(h)
        /\ unread = copy[t].unread /\ size = copy[t].size /\ unread - b \in Nat
  <2>1. copy[t].unread > 0
    BY DEF CopyWrite
  <2>2. bytes_read(t) \in 1 .. SIZE_OF_BUFFER /\ copy[t].unread - bytes_read(t) \in Nat
    BY <2>1, BytesRead
  <2>3. SIZE_OF_BUFFER \in Nat
    BY CopyAssumption
  <2>4. copy[t].fh \in Handles /\ copy[t].unread \in Nat /\ copy[t].size \in Nat
    BY DEF CopyTypeOK
  <2>5. SizeOf(copy[t].fh) \in Nat
    BY <2>4 DEF TypeOK, InodeType, SizeOf
  <2>6. bytes_read(t) \in Nat /\ bytes_read(t) > 0
    BY <2>2, <2>3
  <2> QED
    BY <2>2, <2>4, <2>5, <2>6
<1>2. /\ copy[t].at = "loop" /\ copy[t].ok
      /\ copy' = [copy EXCEPT ![t].at = "write", ![t].unread = unread - b]
      /\ EnterFile(t, "write", h, [NoLoc EXCEPT !.fh = h, !.len = b], mine)
  BY <1>1 DEF CopyWrite
<1>3. ~Crash
  BY DEF Crash
<1>4. /\ loc' = [loc EXCEPT ![t] = [NoLoc EXCEPT !.fh = h, !.len = b]]
      /\ UNCHANGED <<open_file_table, inode_table>>
  BY <1>2, <1>3 DEF EnterFile, inodeVars
<1>5. loc'[t].fh = h /\ loc'[t].len = b
  BY <1>4 DEF TypeOK, NoLoc
<1>6. /\ copy'[t].at = "write" /\ copy'[t].ok = copy[t].ok /\ copy'[t].fh = h
      /\ copy'[t].size = size /\ copy'[t].unread = unread - b
  BY <1>1, <1>2 DEF CopyTypeOK
<1>7. SizeOf(h)' = s /\ open_file_table'[h].of_offset = open_file_table[h].of_offset
  BY <1>1, <1>4 DEF SizeOf
<1>8. open_file_table[h].of_offset = s /\ s = size - unread
  BY <1>1, <1>2 DEF CopyDone
<1>9. s + b = size - (unread - b) /\ unread - b <= size
  BY <1>1, <1>8
<1> QED
  BY <1>1, <1>2, <1>5, <1>6, <1>7, <1>8, <1>9 DEF CopyDone

LEMMA DoneClose ==
  ASSUME TypeOK, CopyTypeOK, failed' = FALSE, NEW t \in Threads, CopyClose(t), CopyDone(t),
         copy[t].unread <= copy[t].size
  PROVE  CopyDone(t)' /\ copy'[t].unread <= copy'[t].size
<1>1. PICK h \in Handles, s \in Nat, unread \in Nat, size \in Nat :
        /\ h = copy[t].fh /\ s = SizeOf(h) /\ unread = copy[t].unread /\ size = copy[t].size
  <2>1. copy[t].fh \in Handles /\ copy[t].unread \in Nat /\ copy[t].size \in Nat
    BY DEF CopyTypeOK
  <2>2. SizeOf(copy[t].fh) \in Nat
    BY <2>1 DEF TypeOK, InodeType, SizeOf
  <2> QED
    BY <2>1, <2>2
<1>2. /\ copy[t].at = "loop" /\ (unread = 0 \/ ~copy[t].ok)
      /\ copy' = [copy EXCEPT ![t].at = "close"]
      /\ EnterFile(t, "close", h, [NoLoc EXCEPT !.fh = h], [v \in Threads |-> mine[v] \ {h}])
  BY <1>1 DEF CopyClose
<1>3. ~Crash
  BY DEF Crash
<1>4. /\ loc' = [loc EXCEPT ![t] = [NoLoc EXCEPT !.fh = h]]
      /\ UNCHANGED <<open_file_table, inode_table>>
  BY <1>2, <1>3 DEF EnterFile, inodeVars
<1>5. loc'[t].fh = h
  BY <1>4 DEF TypeOK, NoLoc
<1>6. /\ copy'[t].at = "close" /\ copy'[t].ok = copy[t].ok /\ copy'[t].fh = h
      /\ copy'[t].size = size /\ copy'[t].unread = unread
  BY <1>1, <1>2 DEF CopyTypeOK
<1>7. SizeOf(h)' = s
  BY <1>1, <1>4 DEF SizeOf
<1>8. IF copy[t].ok THEN s = size - unread ELSE s < size - unread
  BY <1>1, <1>2 DEF CopyDone
<1>9. IF copy[t].ok THEN s = size ELSE s < size
  BY <1>1, <1>2, <1>8
<1> QED
  BY <1>1, <1>5, <1>6, <1>7, <1>9 DEF CopyDone


\* The rest of the calls of a copy.
LEMMA DoneOpening ==
  ASSUME ApartState, TypeOK', CopyTypeOK, CopyHeld, ~failed,
         NEW t \in Threads, CallStep(t), CopyDone(t), copy[t].at = "open"
  PROVE  CopyDone(t)'
<1> USE DEF ApartState
<1>1. Continue(t) /\ pc[t] \in Opening /\ pc[t] # "idle"
  BY CallGoesOn DEF CallStep, CopyHeld, CopyAt
<1>2. /\ copy[t].ok /\ copy[t].size - copy[t].unread = 0
      /\ loc[t].mode = {"CREAT", "TRUNC"} /\ loc[t].offset = 0
      /\ pc[t] = "open_add" => inode_table[loc[t].inum].i_size = 0
  BY DEF CopyDone
<1>3. CASE pc'[t] # "idle"
  <2>1. copy' = copy
    BY <1>3 DEF CallStep
  <2>2. ~OpenAddTake(t)
    BY <1>3 DEF OpenAddTake, Return, Goto, TypeOK
  <2>3. /\ loc'[t].mode = {"CREAT", "TRUNC"} /\ loc'[t].offset = 0
        /\ pc'[t] = "open_add" => inode_table'[loc'[t].inum].i_size = 0
    BY <1>1, <1>2, <1>3, <2>2, OpenEmpties
  <2> QED
    BY <1>2, <2>1, <2>3 DEF CopyDone
<1>4. CASE pc'[t] = "idle" /\ mine'[t] \subseteq mine[t]
  <2>1. copy'[t] = NoCopy
    BY <1>1, <1>4 DEF CallStep, CopyTypeOK, Returned
  <2> QED
    BY <2>1 DEF CopyDone, NoCopy
<1>5. CASE pc'[t] = "idle" /\ ~(mine'[t] \subseteq mine[t])
  <2>1. OpenAddTake(t)
    BY <1>1, <1>5, MineFrame
  <2>2. PICK h \in Handles, i \in Inodes : h = loc[t].i /\ i = loc[t].inum
    BY <2>1 DEF OpenAddTake, TypeOK, LocType
  <2>3. /\ h \in free_open_file_entries /\ mine' = [mine EXCEPT ![t] = @ \cup {h}]
        /\ open_file_table' = [open_file_table EXCEPT ![h] = [of_inumber |-> i, of_offset |-> 0]]
        /\ inode_table' = inode_table /\ pc[t] = "open_add"
    BY <1>2, <2>1, <2>2 DEF OpenAddTake, At, inodeVars
  <2>4. mine'[t] = mine[t] \cup {h} /\ h \notin mine[t]
    BY <1>5, <2>3 DEF TypeOK
  <2>5. mine'[t] \ mine[t] = {h}
    BY <2>4
  <2>6. (CHOOSE k \in mine'[t] \ mine[t] : TRUE) = h
    BY <2>5
  <2>7. copy'[t] = [copy[t] EXCEPT !.at = "loop", !.fh = h]
    BY <1>1, <1>5, <2>6 DEF CallStep, CopyTypeOK, Returned
  <2>8. /\ copy'[t].at = "loop" /\ copy'[t].fh = h /\ copy'[t].ok
        /\ copy'[t].size = copy[t].size /\ copy'[t].unread = copy[t].unread
    BY <1>2, <2>7 DEF CopyTypeOK
  <2>9. open_file_table'[h].of_inumber = i /\ open_file_table'[h].of_offset = 0
    BY <2>3 DEF TypeOK
  <2>10. SizeOf(h)' = 0
    BY <1>2, <2>2, <2>3, <2>9 DEF SizeOf
  <2> QED
    BY <1>2, <2>8, <2>9, <2>10 DEF CopyDone
<1> QED
  BY <1>3, <1>4, <1>5

LEMMA DoneWriting ==
  ASSUME ApartState, TypeOK', CopyTypeOK, CopyHeld, ~failed, failed' = FALSE,
         NEW t \in Threads, CallStep(t), CopyDone(t), copy[t].at = "write"
  PROVE  CopyDone(t)'
<1> USE DEF ApartState
<1>1. Continue(t) /\ pc[t] \in Writing /\ pc[t] # "idle"
  BY CallGoesOn DEF CallStep, CopyHeld, CopyAt
<1>2. Write(t) \/ WriteAlloc(t)
  BY <1>1 DEF Continue, Writing, At, OpenRefused, OpenLink, OpenFollow, OpenAgain, OpenExisting,
     OpenCreate, OpenNoInode, OpenAddTake, OpenAddNext, Link, SymLink, UnlinkRefused, UnlinkName,
     UnlinkLink, UnlinkLast, UnlinkOpen, UnlinkScan, UnlinkDelete, CloseUnlock, CloseDestroy, Read
<1>3. PICK h \in Handles, s \in Nat, len \in Nat, size \in Nat, unread \in Nat :
        /\ h = copy[t].fh /\ s = SizeOf(h) /\ len = loc[t].len
        /\ size = copy[t].size /\ unread = copy[t].unread
  <2>1. copy[t].fh \in Handles /\ copy[t].unread \in Nat /\ copy[t].size \in Nat
    BY DEF CopyTypeOK
  <2>2. SizeOf(copy[t].fh) \in Nat
    BY <2>1 DEF TypeOK, InodeType, SizeOf
  <2>3. loc[t].len \in Nat
    BY HandleType, SizesAssumption
  <2> QED
    BY <2>1, <2>2, <2>3
<1>4. /\ copy[t].ok /\ loc[t].fh = h /\ len > 0
      /\ open_file_table[h].of_offset = s /\ s + len = size - unread
  BY <1>3 DEF CopyDone
<1>5. CASE pc'[t] # "idle"
  <2>1. copy' = copy
    BY <1>5 DEF CallStep
  <2>2. UNCHANGED <<open_file_table, inode_table>> /\ loc'[t].fh = h /\ loc'[t].len = len
    BY <1>2, <1>3, <1>4, <1>5, WriteMoves
  <2>3. SizeOf(h)' = s
    BY <1>3, <2>2 DEF SizeOf
  <2> QED
    BY <1>3, <1>4, <2>1, <2>2, <2>3 DEF CopyDone
<1>6. CASE pc'[t] = "idle"
  <2>1. PICK n \in 0 .. len : open_file_table'[h].of_offset = s + n /\ SizeOf(h)' = s + n
    BY <1>2, <1>3, <1>4, <1>6, WriteMoves
  <2>2. bytes_wrote(t) = n
    <3>1. bytes_wrote(t) = (s + n) - s
      BY <1>4, <2>1 DEF bytes_wrote
    <3> QED
      BY <3>1, <1>3
  <2>3. copy'[t] = [copy[t] EXCEPT !.at = "loop", !.ok = n = len]
    BY <1>1, <1>3, <1>6, <2>2 DEF CallStep, CopyTypeOK, Returned
  <2>4. /\ copy'[t].at = "loop" /\ copy'[t].fh = h /\ copy'[t].ok = (n = len)
        /\ copy'[t].size = size /\ copy'[t].unread = unread
    BY <1>3, <2>3 DEF CopyTypeOK
  <2>5. n = len => s + n = size - unread
    BY <1>4
  <2>6. n # len => s + n < size - unread
    BY <1>4
  <2> QED
    BY <2>1, <2>4, <2>5, <2>6 DEF CopyDone
<1> QED
  BY <1>5, <1>6

LEMMA DoneClosing ==
  ASSUME ApartState, TypeOK', CopyTypeOK, CopyHeld, ~failed, failed' = FALSE,
         NEW t \in Threads, CallStep(t), CopyDone(t), copy[t].at = "close"
  PROVE  CopyDone(t)'
<1> USE DEF ApartState
<1>1. Continue(t) /\ pc[t] \in Closing /\ pc[t] # "idle"
  BY CallGoesOn DEF CallStep, CopyHeld, CopyAt
<1>2. CloseUnlock(t) \/ CloseDestroy(t)
  BY <1>1 DEF Continue, Closing, At, OpenRefused, OpenLink, OpenFollow, OpenAgain, OpenExisting,
     OpenCreate, OpenNoInode, OpenAddTake, OpenAddNext, Link, SymLink, UnlinkRefused, UnlinkName,
     UnlinkLink, UnlinkLast, UnlinkOpen, UnlinkScan, UnlinkDelete, Write, WriteAlloc, Read
<1>3. CASE pc'[t] # "idle"
  <2>1. copy' = copy
    BY <1>3 DEF CallStep
  <2>2. UNCHANGED <<open_file_table, inode_table>> /\ loc' = loc
    BY <1>2, <1>3 DEF CloseUnlock, CloseDestroy, Crash, Return, Goto, TypeOK, inodeVars
  <2> QED
    BY <2>1, <2>2 DEF CopyDone, SizeOf
<1>4. CASE pc'[t] = "idle"
  <2>1. copy'[t] = NoCopy
    BY <1>1, <1>4 DEF CallStep, CopyTypeOK, Returned
  <2> QED
    BY <2>1 DEF CopyDone, NoCopy
<1> QED
  BY <1>3, <1>4

\* A call changes neither the size of the copy nor what is left to read.
LEMMA SizesStay ==
  ASSUME CopyTypeOK, NEW t \in Threads, CallStep(t), copy[t].unread <= copy[t].size
  PROVE  copy'[t].unread <= copy'[t].size
<1>1. copy' = copy \/ copy' = [copy EXCEPT ![t] = Returned(t)]
  BY DEF CallStep
<1>2. NoCopy.unread <= NoCopy.size
  BY DEF NoCopy
<1>3. Returned(t) = NoCopy \/ (/\ Returned(t).unread = copy[t].unread
                               /\ Returned(t).size = copy[t].size)
  BY DEF Returned, CopyTypeOK
<1> QED
  BY <1>1, <1>2, <1>3 DEF CopyTypeOK

LEMMA CopiesDoneStep ==
  ASSUME ApartState, ApartState', WorksApart, CopyInv, CopyInv', CopyHeld, CopiesDone,
         [CopyNext]_copyVars
  PROVE  CopiesDone'
<1> USE DEF CopyInv
<1>1. CASE UNCHANGED copyVars
  BY <1>1 DEF copyVars, vars, fileVars, CopiesDone, CopyDone, SizeOf
<1>2. ASSUME NEW t \in Threads, CopyStep(t) \/ CallStep(t) PROVE CopiesDone'
  <2> SUFFICES ASSUME failed' = FALSE, NEW u \in Threads
               PROVE  CopyDone(u)' /\ copy'[u].unread <= copy'[u].size
    BY DEF CopiesDone, TypeOK
  <2>0. ~failed
    BY <1>2, CallGoesOn DEF CopyStep, CopyOpen, CopyWrite, CopyClose, CallStep, EnterFile,
       Idle, Call, OpenEnter, LinkEnter, UnlinkEnter, EnterRoot, CloseEnter, TransferEnter
  <2>d. \A v \in Threads : CopyDone(v) /\ copy[v].unread <= copy[v].size
    BY <2>0 DEF CopiesDone
  <2>1. CASE u = t /\ CopyStep(t)
    BY <2>1, <2>d, DoneOpen, DoneWrite, DoneClose DEF CopyStep
  <2>2. CASE u = t /\ CallStep(t)
    <3>1. copy'[t].unread <= copy'[t].size
      BY <2>2, <2>d, SizesStay
    <3>2. CASE copy[t].at \in {"none", "loop"}
      <4>1. copy[t].at = "none"
        BY <2>0, <2>2, <3>2, CallGoesOn DEF CallStep, CopyHeld, CopyAt
      <4>2. copy'[t].at = "none"
        BY <2>2, <4>1 DEF CallStep, CopyTypeOK, Returned, NoCopy
      <4> QED
        BY <2>2, <3>1, <4>2 DEF CopyDone
    <3>3. CASE copy[t].at \in {"open", "write", "close"}
      BY <2>0, <2>2, <2>d, <3>1, <3>3, DoneOpening, DoneWriting, DoneClosing DEF ApartState
    <3> QED
      BY <3>2, <3>3 DEF CopyTypeOK
  <2>3. CASE u # t /\ (Call(t) \/ Continue(t))
    <3>1. copy'[u] = copy[u]
      BY <1>2, <2>3, OtherCopies
    <3> QED
      BY <2>0, <2>3, <2>d, <3>1, DoneByOthers
  <2>4. CASE u # t /\ UNCHANGED vars
    <3>1. copy'[u] = copy[u]
      BY <1>2, <2>4, OtherCopies
    <3> QED
      BY <2>4, <2>d, <3>1 DEF vars, fileVars, CopyDone, SizeOf
  <2>5. Call(t) \/ Continue(t) \/ UNCHANGED vars
    BY <1>2, CopyOpenCalls, CopyFileCalls DEF CopyStep, CallStep
  <2> QED
    BY <1>2, <2>1, <2>2, <2>3, <2>4, <2>5
<1> QED
  BY <1>1, <1>2 DEF CopyNext

\* What a copy says of itself when it ends.
LEMMA ExactEnd ==
  ASSUME TypeOK, CopyTypeOK, CopyHeld, CopiesDone,
         NEW u \in Threads, CopyStep(u) \/ CallStep(u), NEW t \in Threads, Ends(t)
  PROVE  copy[t].ok <=>
           inode_table[open_file_table[copy[t].fh].of_inumber].i_size = copy[t].size
<1>1. u = t
  BY OtherCopies DEF Ends
<1>2. ~failed
  BY <1>1, CallGoesOn DEF CopyStep, CopyOpen, CopyWrite, CopyClose, CallStep, EnterFile,
     Idle, Call, OpenEnter, LinkEnter, UnlinkEnter, EnterRoot, CloseEnter, TransferEnter
<1>3. CopyDone(t) /\ copy[t].at = "close"
  BY <1>2 DEF CopiesDone, Ends
<1>4. SizeOf(copy[t].fh) \in Int /\ copy[t].size \in Int
  BY DEF TypeOK, InodeType, SizeOf, CopyTypeOK
<1> QED
  BY <1>3, <1>4 DEF CopyDone, SizeOf

\* A copy is reported as done exactly when the destination has the size of the
\* source, when no two threads share a path and each passes its own handles.
THEOREM CopyExactCorrect ==
  ASSUME HandleUse = "own", PathsApart
  PROVE  CopySpec => CopyExact
<1> DEFINE FSInv == ApartState
<1>1. CopySpec => []FSInv
  <2>1. TypeOK /\ LockInv /\ LinkInv /\ HandleInv /\ ApartInv => FSInv
    BY DEF ApartState
  <2> QED
    BY <2>1, CopyImplementsTFS, TypeCorrect, LockInvCorrect, LinkInvCorrect, HandleInvCorrect,
       ApartInvCorrect, PTL
<1>2. CopyInit => CopyInv /\ CopyHeld /\ WorksApart /\ CopiesDone
  <2> SUFFICES ASSUME CopyInit PROVE CopyInv /\ CopyHeld /\ WorksApart /\ CopiesDone
    OBVIOUS
  <2>1. CopyInv
    BY InitType, NoCopyType DEF CopyInit, CopyInv, CopyTypeOK, CopyType
  <2>2. CopyHeld
    BY DEF CopyInit, CopyHeld, CopyAt, NoCopy
  <2>3. WorksApart
    BY DEF CopyInit, Init, WorksApart, Holds, Closing, Transferring
  <2>4. CopiesDone
    BY DEF CopyInit, CopiesDone, CopyDone, NoCopy
  <2> QED
    BY <2>1, <2>2, <2>3, <2>4
<1>3. FSInv /\ CopyInv /\ CopyInv' /\ CopyHeld /\ [CopyNext]_copyVars => CopyHeld'
  BY CopyHeldStep DEF ApartState
<1>4. FSInv /\ FSInv' /\ WorksApart /\ CopyInv /\ [CopyNext]_copyVars => WorksApart'
  <2> SUFFICES ASSUME FSInv, FSInv', WorksApart, CopyInv, [CopyNext]_copyVars PROVE WorksApart'
    OBVIOUS
  <2>1. [Next]_vars
    BY CopyCalls DEF CopyInv
  <2>2. CASE UNCHANGED vars
    BY <2>2 DEF vars, fileVars, WorksApart, Holds, Owns, SlotsOf
  <2>3. ASSUME NEW t \in Threads, Call(t) \/ Continue(t) PROVE WorksApart'
    BY <2>3, WorksApartStep
  <2> QED
    BY <2>1, <2>2, <2>3 DEF Next, Ended
<1>5. /\ FSInv /\ FSInv' /\ WorksApart /\ CopyInv /\ CopyInv' /\ CopyHeld /\ CopiesDone
      /\ [CopyNext]_copyVars
      => CopiesDone'
  BY CopiesDoneStep
<1>6. CopyInv /\ CopyHeld /\ CopiesDone /\ [CopyNext]_copyVars =>
        [\A t \in Threads : Ends(t) =>
           (copy[t].ok <=>
              inode_table[open_file_table[copy[t].fh].of_inumber].i_size = copy[t].size)]_copyVars
  BY ExactEnd DEF CopyNext, CopyInv
<1> HIDE DEF FSInv
<1> QED
  BY <1>1, <1>2, <1>3, <1>4, <1>5, <1>6, CopyInvStep, PTL DEF CopySpec, CopyExact


\* Copies make no assertion of the library fail where its callers do not: the copies'
\* own calls pass the handles they opened and make no symbolic links.
THEOREM CopyNoFailure ==
  ASSUME CallersCareful, "sym_link" \notin Ops
  PROVE  CopySpec => []NoFailure
<1> QED
  BY CopyImplementsTFS, NoFailureCorrect, PTL
=============================================================================
