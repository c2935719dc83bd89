------------------------------ MODULE MCPrefetch ------------------------------
(* Prefetch over an object of a few bytes.                                   *)
EXTENDS Prefetch
=============================================================================
