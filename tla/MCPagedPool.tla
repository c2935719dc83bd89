----------------------------- MODULE MCPagedPool -----------------------------
\* PagedPool with two sizes of buffers.
EXTENDS PagedPool, TLC

TwoSizes == <<2, 4>>

\* Slack in each size, a request that is too large for a page, and one kind
\* both on pages and not.
Asked == {<<1, "get">>, <<3, "put">>, <<5, "get">>}

Symmetry == Permutations(Threads)
=============================================================================
