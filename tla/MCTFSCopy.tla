----------------------------- MODULE MCTFSCopy -----------------------------
(* The instance of TFSCopy for TLC. *)
EXTENDS TFSCopy, MCTFS

\* What the threads do beside copying.
CopyOps   == {"open", "unlink", "close", "write"}
CopyModes == {{"CREAT", "TRUNC"}}
=============================================================================
