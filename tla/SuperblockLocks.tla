--------------------------- MODULE SuperblockLocks --------------------------
(***************************************************************************)
(* The locks that the operations of the Superblock hold at the same time   *)
(* (mountpoint-s3-fs/src/superblock.rs): the RwLock of the inode map and   *)
(* the RwLock of each inode.  An operation is a sequence of stretches in   *)
(* which it locks and unlocks; between them it holds nothing and may wait  *)
(* for S3.  What it does under the locks is in modules Directory and       *)
(* FileHandles.  The mutex of the handle map, the lock of the negative     *)
(* cache and those of the directory handles are innermost and left out.    *)
(***************************************************************************)
EXTENDS Integers, Sequences, FiniteSets

CONSTANTS
    Threads,
    Dirs,      \* numbers of directories, 1 is the root
    Files,
    Parent,    \* the directory of each file and of each other directory
    Ops        \* operations that are run

ASSUME LocksAssumption ==
    /\ Dirs \cup Files \subseteq Nat \ {0} /\ Dirs \cap Files = {} /\ 1 \in Dirs
    /\ IsFiniteSet(Dirs \cup Files)
    /\ Parent \in [(Dirs \cup Files) \ {1} -> Dirs]
    /\ \A d \in Dirs \ {1} : Parent[d] < d   \* directories are never moved

VARIABLES
    todo,   \* what is left of the operation of a thread
    held    \* the locks it holds

vars == <<todo, held>>

Inodes == 0                        \* the lock of the inode map
Lock == {Inodes} \cup Dirs \cup Files

Read(l) == [do |-> "read", lock |-> l]
Write(l) == [do |-> "write", lock |-> l]
Drop(l) == [do |-> "drop", lock |-> l]

-----------------------------------------------------------------------------
\* The stretches of the operations during which a lock is held.

\* get and remember hold the inode map alone; getattr, setattr, create, mkdir,
\* open, flush, release, and the guards of rename hold one inode.
Alone(l) == {<<Read(l), Drop(l)>>, <<Write(l), Drop(l)>>}

\* cache_lookup, and the fast path of update_from_remote
CacheLookup(c) == <<Read(Parent[c]), Read(c), Drop(c), Drop(Parent[c])>>
FastPath(c) == <<Read(Parent[c]), Write(c), Drop(c), Drop(Parent[c])>>

\* the slow path, rmdir, and unlink of an entry that another inode has replaced
SlowPath(c) == <<Write(Parent[c]), Write(c), Drop(c), Drop(Parent[c])>>

\* rename of a file into a directory.
\* RenameLockGuard: an ancestor first, and otherwise the smaller number; the
\* number of an ancestor is the smaller one.
\* Mutant: the source first.
SourceFirst(p, q) == <<p, q>>

Parents(p, q) == IF p > q THEN <<q, p>> ELSE <<p, q>>

Rename(c, q) ==
    LET p == Parent[c]
        both == Parents(p, q)
    IN  IF p = q
        THEN <<Write(p), Read(c), Drop(c), Write(Inodes), Drop(Inodes), Drop(p)>>
        ELSE <<Write(both[1]), Write(both[2]), Read(c), Drop(c), Write(Inodes), Drop(Inodes), Drop(p), Drop(q)>>

\* finish_writing: the directories from the first remote one down, then the
\* file.
Ancestors[d \in Dirs] == IF d = 1 THEN {1} ELSE {d} \cup Ancestors[Parent[d]]

Ascending(S) == {s \in [1 .. Cardinality(S) -> S] : \A i, j \in DOMAIN s : i < j => s[i] < s[j]}

FinishWriting(c, top) ==
    {[i \in DOMAIN dirs |-> Write(dirs[i])] \o <<Write(c), Drop(c)>> \o [i \in DOMAIN dirs |-> Drop(dirs[i])] :
        dirs \in Ascending({d \in Dirs : d \in Ancestors[Parent[c]] /\ d >= top})}

\* forget, which keeps the inode map locked while it locks the parent
Forget(c) == <<Write(Inodes), Write(Parent[c]), Drop(Parent[c]), Drop(Inodes)>>

\* opendir: ReaddirHandle::new gets its local entries one after the other,
\* here one of them, with the directory locked.
Opendir(c) == <<Read(Parent[c]), Read(Inodes), Drop(Inodes), Read(c), Drop(c), Drop(Parent[c])>>

Entries == DOMAIN Parent
Tops == {1} \cup {Parent[f] : f \in Files}

Programs ==
    LET On(op, S) == IF op \in Ops THEN S ELSE {}
    IN  UNION {UNION {Alone(l) : l \in Lock},
               On("lookup", UNION {{CacheLookup(c), FastPath(c), SlowPath(c)} : c \in Entries}),
               On("rename", {Rename(c, q) : c \in Files, q \in Dirs}),
               On("finish", UNION {FinishWriting(c, d) : c \in Files, d \in Tops}),
               On("forget", {Forget(c) : c \in Entries}),
               On("opendir", {Opendir(c) : c \in Entries})}

-----------------------------------------------------------------------------
Init ==
    /\ todo = [t \in Threads |-> <<>>]
    /\ held = [t \in Threads |-> {}]

Start(t) ==
    /\ todo[t] = <<>>
    /\ \E p \in Programs : todo' = [todo EXCEPT ![t] = p]
    /\ UNCHANGED held

\* RwLock: readers share, a writer is alone.
Conflict(a, b) == a.lock = b.lock /\ "write" \in {a.do, b.do}

Wants(t) == IF todo[t] = <<>> THEN {} ELSE {s \in {Head(todo[t])} : s.do # "drop"}

Take(t) ==
    /\ \E s \in Wants(t) :
          /\ \A u \in Threads \ {t} : \A h \in held[u] : ~Conflict(s, h)
          /\ held' = [held EXCEPT ![t] = @ \cup {s}]
    /\ todo' = [todo EXCEPT ![t] = Tail(@)]

Release(t) ==
    /\ todo[t] # <<>> /\ Head(todo[t]).do = "drop"
    /\ held' = [held EXCEPT ![t] = {h \in @ : h.lock # Head(todo[t]).lock}]
    /\ todo' = [todo EXCEPT ![t] = Tail(@)]

Next == \E t \in Threads : Start(t) \/ Take(t) \/ Release(t)

Spec == Init /\ [][Next]_vars

-----------------------------------------------------------------------------
\* A thread waits for one that holds the lock or, if it only wants to read,
\* for one that waits to write: the RwLock may let writers go first.
WaitsFor(t, u) ==
    \E s \in Wants(t) :
        \/ \E h \in held[u] : Conflict(s, h)
        \/ u # t /\ s.do = "read" /\ \E w \in Wants(u) : Conflict(s, w)

\* "We must always acquire the locks in the following order to avoid
\* deadlock": there are no threads that wait for each other in a circle.
NoDeadlock ==
    ~ \E S \in (SUBSET Threads) \ {{}} :
          /\ \A t \in S : \E u \in S : WaitsFor(t, u)
          /\ \E t \in S : held[t] # {}
=============================================================================
