------------------------------ MODULE AtomicPut ------------------------------
(***************************************************************************)
(* What an atomic upload promises (doc/SEMANTICS.md, FileHandles): the     *)
(* object appears once, with all the bytes of the writes that succeeded    *)
(* and no others, and not unless complete has been called.                 *)
(***************************************************************************)
EXTENDS Sequences, SequencesExt

VARIABLES
    accepted,  \* the bytes of the writes that have returned
    object,    \* what has been published: nothing, or one content
    outcome    \* where the upload is

Init ==
    /\ accepted = <<>>
    /\ object = {}
    /\ outcome = "open"

Accept ==
    /\ outcome = "open"
    /\ IsPrefix(accepted, accepted')
    /\ UNCHANGED <<object, outcome>>

Complete ==
    /\ outcome = "open"
    /\ outcome' = "completing"
    /\ UNCHANGED <<accepted, object>>

\* A complete that has failed, for instance because a response was lost, may
\* still publish the object.
Publish ==
    /\ outcome \in {"completing", "uncertain"}
    /\ object = {}
    /\ object' = {accepted}
    /\ UNCHANGED <<accepted, outcome>>

Return ==
    /\ \/ outcome = "completing" /\ object = {accepted} /\ outcome' = "complete"
       \/ outcome = "completing" /\ outcome' = "uncertain"
       \/ outcome = "open" /\ outcome' = "abandoned"
    /\ UNCHANGED <<accepted, object>>

Next == Accept \/ Complete \/ Publish \/ Return

Spec == Init /\ [][Next]_<<accepted, object, outcome>>
=============================================================================
