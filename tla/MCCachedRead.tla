---------------------------- MODULE MCCachedRead -----------------------------
(***************************************************************************)
(* Model checking of CachedRead: an object of two blocks, the last short,  *)
(* and an object of one block whose key and etag have the same hash and    *)
(* are longer.                                                             *)
(***************************************************************************)
EXTENDS CachedRead, TLC

CONSTANTS o1, o2, h, t1, t2

Sizes == [o \in Objects |-> IF o = o1 THEN 3 ELSE 2]
Headers == [o \in Objects |-> IF o = o1 THEN 1 ELSE 2]
Symmetry == Permutations(Tasks)
SameHash == [o \in Objects |-> h]
=============================================================================
