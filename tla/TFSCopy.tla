------------------------------ MODULE TFSCopy ------------------------------
(***************************************************************************)
(* tfs_copy_from_external_fs (Exercise1/fs/operations.c) on top of TFS: a  *)
(* copy reads a file of the host in pieces and makes a tfs_open, as many   *)
(* tfs_writes and a tfs_close, between which the other threads run.        *)
(*                                                                         *)
(* What those calls return is read off the step with which they return:    *)
(* the handle tfs_open added to the thread's, and how far tfs_write moved  *)
(* the offset.  A copy whose fopen fails changes nothing and is left out.  *)
(***************************************************************************)
EXTENDS TFS

CONSTANTS
  SIZE_OF_BUFFER,    \* in cells of a block
  SourceSizes,       \* the sizes of the host's files, in cells
  MaxStreams         \* the host's limit: fopen fails beyond it

ASSUME CopyAssumption ==
  /\ SIZE_OF_BUFFER \in Nat \ {0} /\ SourceSizes \subseteq Nat /\ MaxStreams \in Nat
  /\ BLOCK_SIZE + SIZE_OF_BUFFER <= MaxOffset
  /\ {"CREAT", "TRUNC"} \in Modes /\ 1 .. SIZE_OF_BUFFER \subseteq Lens

VARIABLES
  copy,              \* the copy each thread is making
  streams            \* the FILEs each thread has open

copyVars == <<vars, copy, streams>>

\* at: the call it is in, or about to make.  unread: what fread has not
\* returned yet.  ok: no write fell short.  had: what the thread held before.
NoCopy == [at |-> "none", size |-> 0, unread |-> 0, fh |-> 0, ok |-> TRUE,
           had |-> [handles |-> {}, streams |-> 0]]

CopyInit == Init /\ copy = [t \in Threads |-> NoCopy] /\ streams = [t \in Threads |-> 0]

-----------------------------------------------------------------------------
\* fopen, then tfs_open(dest_path, TFS_O_CREAT | TFS_O_TRUNC).  When that
\* refuses the path at once, the copy returns -1 and the stream stays open.
CopyOpen(t) ==
  \E dest \in PathsOf[t], size \in SourceSizes :
    /\ Idle(t) /\ copy[t].at = "none" /\ streams[t] < MaxStreams
    /\ streams' = [streams EXCEPT ![t] = @ + 1]
    /\ IF valid_pathname(dest)
       THEN /\ EnterRoot(t, "open", [NoLoc EXCEPT !.path = dest, !.mode = {"CREAT", "TRUNC"}])
            /\ copy' = [copy EXCEPT ![t] =
                 [NoCopy EXCEPT !.at = "open", !.size = size, !.unread = size,
                                !.had = [handles |-> mine[t], streams |-> streams[t]]]]
       ELSE UNCHANGED <<vars, copy>>

bytes_read(t) == IF copy[t].unread < SIZE_OF_BUFFER THEN copy[t].unread ELSE SIZE_OF_BUFFER

\* One turn of the loop: fread returned bytes_read bytes, not 0.
CopyWrite(t) ==
  /\ copy[t].at = "loop" /\ copy[t].unread > 0 /\ copy[t].ok
  /\ open_file_table[copy[t].fh].of_offset + bytes_read(t) <= MaxOffset
  /\ EnterFile(t, "write", copy[t].fh,
               [NoLoc EXCEPT !.fh = copy[t].fh, !.len = bytes_read(t)], mine)
  /\ copy' = [copy EXCEPT ![t].at = "write", ![t].unread = @ - bytes_read(t)]
  /\ UNCHANGED streams

\* Mutant: the return after a short write closes the stream only.
CopyCloseIfOk(t) ==
  /\ copy[t].at = "loop" /\ (copy[t].unread = 0 \/ ~copy[t].ok)
  /\ streams' = [streams EXCEPT ![t] = @ - 1]
  /\ IF copy[t].ok
     THEN /\ EnterFile(t, "close", copy[t].fh, [NoLoc EXCEPT !.fh = copy[t].fh],
                       [u \in Threads |-> mine[u] \ {copy[t].fh}])
          /\ copy' = [copy EXCEPT ![t].at = "close"]
     ELSE copy' = [copy EXCEPT ![t] = NoCopy] /\ UNCHANGED vars

\* fclose and tfs_close, after the last write or after a short one.
CopyClose(t) ==
  /\ copy[t].at = "loop" /\ (copy[t].unread = 0 \/ ~copy[t].ok)
  /\ EnterFile(t, "close", copy[t].fh, [NoLoc EXCEPT !.fh = copy[t].fh],
               [u \in Threads |-> mine[u] \ {copy[t].fh}])
  /\ copy' = [copy EXCEPT ![t].at = "close"]
  /\ streams' = [streams EXCEPT ![t] = @ - 1]

bytes_wrote(t) == open_file_table'[loc[t].fh].of_offset - open_file_table[loc[t].fh].of_offset

\* Mutant: what tfs_write returns is not compared with what fread returned.
ReturnedUnchecked(t) ==
  CASE copy[t].at = "open" ->
         IF mine'[t] \subseteq mine[t] THEN NoCopy
         ELSE [copy[t] EXCEPT !.at = "loop", !.fh = CHOOSE h \in mine'[t] \ mine[t] : TRUE]
    [] copy[t].at = "write" -> [copy[t] EXCEPT !.at = "loop"]
    [] OTHER -> NoCopy

\* What the copy does with the call that returns: a tfs_open that fails ends
\* it with the stream open, and a write that is short ends the loop.
Returned(t) ==
  CASE copy[t].at = "open" ->
         IF mine'[t] \subseteq mine[t] THEN NoCopy
         ELSE [copy[t] EXCEPT !.at = "loop", !.fh = CHOOSE h \in mine'[t] \ mine[t] : TRUE]
    [] copy[t].at = "write" ->
         [copy[t] EXCEPT !.at = "loop", !.ok = bytes_wrote(t) = loc[t].len]
    [] OTHER -> NoCopy

-----------------------------------------------------------------------------
CopyStep(t) == CopyOpen(t) \/ CopyWrite(t) \/ CopyClose(t)

\* A step of the file system: a call of its own, if the thread makes no copy,
\* or the rest of a call.
CallStep(t) ==
  /\ \/ copy[t].at = "none" /\ Call(t)
     \/ Continue(t)
  /\ copy' = IF pc[t] # "idle" /\ pc'[t] = "idle"
             THEN [copy EXCEPT ![t] = Returned(t)] ELSE copy
  /\ UNCHANGED streams

CopyNext == \E t \in Threads : CopyStep(t) \/ CallStep(t)

CopySpec == CopyInit /\ [][CopyNext]_copyVars

-----------------------------------------------------------------------------
(* Properties.                                                             *)

\* The types of a copy's state.
CopyTypeOK ==
  /\ copy \in [Threads -> [at : {"none", "open", "loop", "write", "close"}, size : Nat,
                           unread : Nat, fh : Handles, ok : BOOLEAN,
                           had : [handles : SUBSET Handles, streams : Int]]]
  /\ streams \in [Threads -> Int]

Ends(t) == copy[t].at = "close" /\ copy'[t].at = "none"

\* A copy returns 0 exactly when the destination holds as many bytes as the
\* source, and -1 when "the number of bytes copied is different from the number
\* of bytes written" (operations.h:150): a file larger than a block, or a data
\* block table that other threads filled, is never reported as copied.
CopyExact ==
  [][\A t \in Threads : Ends(t) =>
       (copy[t].ok <=>
          inode_table[open_file_table[copy[t].fh].of_inumber].i_size = copy[t].size)]_copyVars

\* A copy that opened its destination leaves its thread with the handles and
\* the streams it had, whichever of its two returns it takes: no copy keeps an
\* entry of the open file table, which would make the file impossible to unlink.
CopyGivesBack ==
  [][\A t \in Threads : copy[t].at \notin {"none", "open"} /\ copy'[t].at = "none" =>
       mine'[t] = copy[t].had.handles /\ streams'[t] = copy[t].had.streams]_copyVars

=============================================================================
