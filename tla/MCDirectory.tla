---------------------------- MODULE MCDirectory -----------------------------
(***************************************************************************)
(* Model checking of Directory: two requests at a time, on one name of a   *)
(* mount without a cache, and with renames on two names of a mount with    *)
(* one that another client changes.                                        *)
(***************************************************************************)
EXTENDS Directory, TLC

CONSTANTS n1, n2, t1, t2

Fresh == [ops |-> Requests \ {"rename"}, files |-> {n1}, dirs |-> {},
          cache |-> FALSE, ttl |-> 0, negativeTtl |-> 0,
          names |-> {n1}, maxRequests |-> 5, maxRemote |-> 0]

Cached == [ops |-> {"lookup", "rename", "rmdir", "unlink", "write"}, files |-> {n1, n2}, dirs |-> {},
           cache |-> TRUE, ttl |-> 1, negativeTtl |-> 1,
           names |-> {n1, n2}, maxRequests |-> 3, maxRemote |-> 1]

FreshAndCached == {Fresh, Cached}

Symmetry == Permutations({t1, t2})

=============================================================================
