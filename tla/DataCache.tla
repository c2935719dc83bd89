------------------------------ MODULE DataCache ------------------------------
(***************************************************************************)
(* What the DataCache trait (mountpoint-s3-fs/src/data_cache.rs) promises: *)
(* a cache may fail, and may forget any block at any time, but what it     *)
(* answers to a request for a block is that block, as somebody has put it, *)
(* or bytes that do not have the checksum that comes with them.            *)
(***************************************************************************)
CONSTANTS Readers, Blocks

VARIABLES
    known,   \* the blocks that were ever put
    answer   \* what a reader has asked for, and what it was answered

NoAnswer == [kind |-> "none"]
Asked(b) == [kind |-> "asked", block |-> b]
Hit(b) == [kind |-> "hit", block |-> b]
Damaged == [kind |-> "damaged"]
Miss == [kind |-> "miss"]
Error == [kind |-> "error"]

Init ==
    /\ known = {}
    /\ answer = [r \in Readers |-> NoAnswer]

Put(b) ==
    /\ known' = known \cup {b}
    /\ UNCHANGED answer

Ask(r, b) ==
    /\ answer' = [answer EXCEPT ![r] = Asked(b)]
    /\ UNCHANGED known

Reply(r, b) ==
    /\ answer[r] = Asked(b)
    /\ \E a \in {Miss, Error, Damaged} \cup {Hit(c) : c \in {b} \cap known} :
          answer' = [answer EXCEPT ![r] = a]
    /\ UNCHANGED known

\* Readers stop, one by one or all at once.
Leave(R) ==
    /\ answer' = [r \in Readers |-> IF r \in R THEN NoAnswer ELSE answer[r]]
    /\ UNCHANGED known

Next ==
    \/ \E b \in Blocks : Put(b)
    \/ \E r \in Readers, b \in Blocks : Ask(r, b) \/ Reply(r, b)
    \/ \E R \in SUBSET Readers : Leave(R)

Spec == Init /\ [][Next]_<<known, answer>>
=============================================================================
