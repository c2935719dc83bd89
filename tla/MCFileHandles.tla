--------------------------- MODULE MCFileHandles ---------------------------
(***************************************************************************)
(* Model checking of FileHandles.  The handles are interchangeable, so the *)
(* safety runs use them as a symmetry set.                                 *)
(***************************************************************************)
EXTENDS FileHandles, TLC

Symmetry == Permutations(Handles)

=============================================================================
