--------------------------- MODULE MCOverlapped ---------------------------
(* Instances of Overlapped for TLC. *)
EXTENDS Overlapped, TLC

\* Tasks, threads and addresses are interchangeable.
Symmetry == Permutations(Tasks) \cup Permutations(Threads) \cup Permutations(Wraps)
=============================================================================
