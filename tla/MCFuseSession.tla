---------------------------- MODULE MCFuseSession ----------------------------
\* FuseSession with the requests that a small instance sends.
EXTENDS FuseSession

\* Slow requests that leave one worker free, and a forget between them.
Mixed == <<"init", "slow", "forget", "slow">>
=============================================================================
