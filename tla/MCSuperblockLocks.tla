------------------------- MODULE MCSuperblockLocks --------------------------
(* Two directories in the root, one of them with a directory of its own,   *)
(* and files in two of them.  File 5 has been moved into a directory with  *)
(* a larger number.                                                        *)
EXTENDS SuperblockLocks, TLC

CONSTANTS t1, t2, t3

Tree == (2 :> 1) @@ (3 :> 2) @@ (4 :> 3) @@ (5 :> 6) @@ (6 :> 1)

Symmetry == Permutations(Threads)
=============================================================================
