------------------------------- MODULE MCTFS -------------------------------
(* Instances of TFS for TLC: the threads, paths and workloads of the runs. *)
EXTENDS TFS, TLC

CONSTANTS t1, t2, a, b, long, bad

\* Both threads name the same paths, or each its own.
SharedPaths  == [t \in Threads |-> Paths]
PrivatePaths == (t1 :> {a}) @@ (t2 :> {b})

NamespaceOps == {"open", "link", "sym_link", "unlink"}
DataOps      == {"open", "close", "write", "read"}
OpenUnlinkOps == {"open", "unlink", "write", "close"}
ProgressOps  == OpNames \ {"close", "read"}

NamespaceModes == {{}, {"CREAT"}}
DataModes      == {{"CREAT"}, {"CREAT", "APPEND"}, {"TRUNC"}}

\* The threads, and the paths they share, are interchangeable.
SharedSymmetry  == Permutations({t1, t2}) \cup Permutations({a, b})

\* With one path, the threads are.
ThreadSymmetry  == Permutations({t1, t2})

\* With private paths, each thread is interchanged together with its path.
PrivateSymmetry == {(t1 :> t2) @@ (t2 :> t1) @@ (a :> b) @@ (b :> a)}
=============================================================================
