---------------------------- MODULE MCFileLocks ----------------------------
(* Small instances of FileLocks for TLC. *)
EXTENDS FileLocks, TLC

CONSTANTS w1, w2, w3, p1, s1, s2

MCWorkers == {w1, w2}
MCPaths == {p1}
MCSlots == {s1}
MCTwoSlots == {s1, s2}
MCThreeWorkers == {w1, w2, w3}

\* Workers, and the slots of a worker, are interchangeable.
Symmetry == Permutations({w1, w2, w3}) \cup Permutations({s1, s2})
=============================================================================
