------------------------------ MODULE MCReaddir ------------------------------
(***************************************************************************)
(* Model checking of Readdir: one directory handle, two names, in lists    *)
(* that are in order and not, with the keys of a name next to each other   *)
(* and apart.                                                              *)
(***************************************************************************)
EXTENDS Readdir

CONSTANTS n1, n2, t1

\* Keys such as a and b: a < a/ < b < b/.
Plain == [ordered |-> TRUE, pageSize |-> 2, names |-> <<n1, n2>>,
          keys |-> <<<<n1, "file">>, <<n1, "dir">>, <<n2, "file">>, <<n2, "dir">>>>]

\* Keys such as a- and a: a < a- < a-/ < a/.
Apart == [ordered |-> TRUE, pageSize |-> 2, names |-> <<n2, n1>>,
          keys |-> <<<<n2, "file">>, <<n1, "file">>, <<n1, "dir">>, <<n2, "dir">>>>]

Lists == {Plain, Apart, [Plain EXCEPT !.ordered = FALSE]}

\* A directory n2 and a file n2 are there; files are created and written.
Written == [ops |-> {"create", "write"}, files |-> {n2}, dirs |-> {n2},
            cache |-> FALSE, ttl |-> 0, negativeTtl |-> 0,
            names |-> {n1, n2}, maxRequests |-> 3, maxRemote |-> 0]
OneMount == {Written}
=============================================================================
