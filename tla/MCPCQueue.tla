----------------------------- MODULE MCPCQueue -----------------------------
(* Instances of PCQueue for TLC: the threads and elements of the runs.     *)
EXTENDS PCQueue, TLC

CONSTANTS p1, p2, c1, c2, x, y

\* The threads of a side, and the elements, are interchangeable.
Symmetry == Permutations({p1, p2}) \cup Permutations({c1, c2}) \cup Permutations({x, y})
=============================================================================
