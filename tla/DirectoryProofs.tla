-------------------------- MODULE DirectoryProofs ---------------------------
(***************************************************************************)
(* Proofs about the entries of a directory, for any names, threads and     *)
(* mounts: lookup counts cover the kernel's references, an inode number is *)
(* one object, no entry stays in PendingRename, a new file stays in its    *)
(* directory, and a lookup finds what was there.                           *)
(***************************************************************************)
EXTENDS Directory, SequenceTheorems, TLAPS

-----------------------------------------------------------------------------
\* The inductive invariant: the requests under way.

\* Requests that change the directory have its lock for themselves.
Locked ==
    /\ \A t \in Threads : thread[t].pc = "idle" => thread[t] = Idle
    /\ \A t \in Threads : thread[t].op \in Changes => thread[t].lock = "excl"
    /\ \A t, u \in Threads : t # u /\ thread[t].lock = "excl" => thread[u].lock = "none"

\* Where requests are, and what they have by then.
Places(t) ==
    /\ thread[t].op # "readdir" /\ thread[t].pc # "readdir"
    /\ thread[t].op = "getattr" => thread[t].src # 0
    /\ thread[t].op \notin {"getattr", "rename"} => thread[t].src = 0
    /\ thread[t].pc \in {"cache", "remote", "negative", "update", "insert"} => thread[t].obj = 0
    /\ thread[t].pc \in {"insert", "remember"} => thread[t].op \in {"create", "mkdir"}
    /\ thread[t].pc = "remember" => thread[t].obj # 0
    /\ thread[t].pc \in {"s3", "local"} => thread[t].op \in {"unlink", "rename"}
    /\ thread[t].pc = "renamed" => thread[t].op = "rename"
    /\ thread[t].op = "unlink" /\ thread[t].pc \in {"s3", "local"} => thread[t].obj # 0
    /\ thread[t].op = "rename" => thread[t].name # thread[t].dst
    /\ thread[t].op = "rename" /\ thread[t].pc \in {"s3", "renamed", "local"} => thread[t].src # 0

-----------------------------------------------------------------------------
\* The inductive invariant: inode numbers and the objects that have them.

\* Numbers are handed out in order, and the inode map is right about them.
Numbered ==
    /\ nextIno <= Len(objs) + 1
    /\ \A o \in DOMAIN objs : objs[o].ino < nextIno
    /\ \A i \in Inos : inodes[i].obj # 0 => objs[inodes[i].obj].ino = i

\* The object made last for its number: a rename makes another one.
Latest(o) == \A p \in DOMAIN objs : objs[p].ino = objs[o].ino => p <= o

\* An entry is the latest object of its number, and the only one while its
\* number is not in the inode map.
Entries ==
    \A n \in Names : children[n] # 0 =>
        /\ Latest(children[n])
        /\ inodes[objs[children[n]].ino].obj = 0 =>
              \A p \in DOMAIN objs : objs[p].ino = objs[children[n]].ino => p = children[n]

\* A rename has the latest objects of its names.
RenameObjects ==
    \A t \in Threads : thread[t].op = "rename" =>
        /\ thread[t].src # 0 => Latest(thread[t].src) /\ objs[thread[t].src].name = thread[t].name
        /\ thread[t].obj # 0 => Latest(thread[t].obj) /\ objs[thread[t].obj].name = Target(t)

-----------------------------------------------------------------------------
\* The inductive invariant: counts and states.

\* The kernel has a reference for every entry it has.
References ==
    /\ \A n \in Names : dentry[n] # 0 => refs[dentry[n]] > 0
    /\ \A i \in Inos : refs[i] > 0 => inodes[i].obj # 0 /\ inodes[i].count >= refs[i]
    /\ "rename" \notin Ops => \A i \in Inos : inodes[i].count = refs[i]

Pending ==
    \A n \in Names : children[n] # 0 /\ objs[children[n]].status = "PendingRename" =>
        \E t \in Threads :
            /\ thread[t].op = "rename"
            /\ \/ children[n] = thread[t].src
               \/ children[n] = thread[t].obj /\ thread[t].pc \in {"s3", "renamed", "local"}

\* A number is among the writing children only while its objects are local.
WritingLocal ==
    /\ \A i \in writing : i < nextIno
    /\ \A o \in DOMAIN objs : objs[o].ino \in writing =>
          objs[o].status \in {"LocalUnopened", "LocalOpenForWriting"}
    /\ Ops \cap {"create", "mkdir"} = {} => writing = {}

\* What an unlink or a rename is about to remove is not new.
NotNew(o) == o # 0 => objs[o].ino \notin writing

Removals ==
    \A t \in Threads :
        /\ thread[t].op = "unlink" /\ thread[t].pc \in {"s3", "local"} => NotNew(thread[t].obj)
        /\ thread[t].op = "rename" /\ thread[t].src # 0 =>
              NotNew(thread[t].src) /\ NotNew(children[thread[t].name])
        /\ thread[t].op = "rename" /\ thread[t].src = 0 /\ thread[t].pc = "looked" /\ thread[t].obj # 0 =>
              children[thread[t].name] = thread[t].obj \/ NotNew(children[thread[t].name])

\* Nothing is made where a rename found nothing, if it looked.
RenamesLook == \A m \in Mounts : \/ "rename" \notin m.ops
                                 \/ m.ops \cap {"create", "mkdir"} = {}
                                 \/ ~MayFail /\ ~m.cache

TargetRemovals ==
    \A t \in Threads :
        /\ thread[t].op = "rename" /\ thread[t].src # 0 /\ thread[t].pc = "looked" =>
              children[thread[t].dst] = thread[t].obj \/ NotNew(children[thread[t].dst])
        /\ thread[t].op = "rename" /\ thread[t].pc \in {"s3", "renamed", "local"} =>
              NotNew(children[thread[t].dst])

DirInv ==
    /\ TypeOK /\ Locked /\ (\A t \in Threads : Places(t))
    /\ Numbered /\ Entries /\ RenameObjects /\ OneObjectPerInode
    /\ References /\ Pending /\ WritingLocal /\ Removals

-----------------------------------------------------------------------------
\* Types

ThreadSet(k) ==
    [op : Ops \cup {"none", "readdir"},
     pc : {"idle", "cache", "remote", "negative", "update", "looked",
           "insert", "remember", "s3", "renamed", "local", "readdir"},
     name : Names, dst : Names, obj : 0 .. k, src : 0 .. k,
     pin : SUBSET Inos, lock : {"none", "shared", "excl"},
     head : Etags \cup {-1, 0}, list : {"pending", "no", "yes"}]

LEMMA TypeFacts ==
    ASSUME TypeOK
    PROVE  /\ mount \in Mounts /\ objs \in Seq(Obj) /\ Len(objs) \in Nat /\ DOMAIN objs = 1 .. Len(objs)
           /\ \A o \in 1 .. Len(objs) : objs[o] \in Obj
           /\ thread \in [Threads -> ThreadSet(Len(objs))]
           /\ FileTtl \in Nat /\ NegativeTtl \in Nat /\ Cache \in BOOLEAN
           /\ mount.maxRequests \in Nat /\ mount.maxRemote \in Nat
           /\ Ops \subseteq Requests /\ mount.names \subseteq Names
           /\ AnyName \in Names
<1>1. mount \in Mounts /\ objs \in Seq(Obj)
  BY DEF TypeOK
<1>2. /\ Len(objs) \in Nat /\ DOMAIN objs = 1 .. Len(objs)
      /\ \A o \in 1 .. Len(objs) : objs[o] \in Obj
  BY <1>1
<1>3. thread \in [Threads -> ThreadSet(Len(objs))]
  BY DEF TypeOK, ThreadSet
<1>4. FileTtl \in Nat /\ NegativeTtl \in Nat /\ Cache \in BOOLEAN
  BY <1>1, DirectoryAssumption DEF FileTtl, NegativeTtl, Cache
<1>5. /\ mount.maxRequests \in Nat /\ mount.maxRemote \in Nat
      /\ Ops \subseteq Requests /\ mount.names \subseteq Names
  BY <1>1, DirectoryAssumption DEF Ops
<1>6. AnyName \in Names
  BY DirectoryAssumption DEF AnyName
<1> QED  BY <1>1, <1>2, <1>3, <1>4, <1>5, <1>6

LEMMA IdleTyped == ASSUME TypeOK PROVE Idle \in ThreadSet(Len(objs))
BY TypeFacts DEF Idle, ThreadSet

\* How a thread's record changes.
LEMMA Updates ==
    ASSUME NEW k \in Nat, NEW r \in ThreadSet(k),
           NEW pc \in {"idle", "cache", "remote", "negative", "update", "looked",
                       "insert", "remember", "s3", "renamed", "local", "readdir"},
           NEW o \in 0 .. k, NEW h \in Etags \cup {-1, 0}, NEW l \in {"pending", "no", "yes"}
    PROVE  /\ [r EXCEPT !.pc = pc] \in ThreadSet(k)
           /\ [r EXCEPT !.pc = pc, !.obj = o] \in ThreadSet(k)
           /\ [r EXCEPT !.pc = pc, !.src = o, !.obj = 0] \in ThreadSet(k)
           /\ [r EXCEPT !.pc = pc, !.obj = o, !.head = h, !.list = l] \in ThreadSet(k)
           /\ [r EXCEPT !.head = h, !.list = l, !.pc = pc] \in ThreadSet(k)
<1>1. [r EXCEPT !.pc = pc] \in ThreadSet(k)
  BY DEF ThreadSet
<1>2. [r EXCEPT !.pc = pc, !.obj = o] \in ThreadSet(k)
  BY DEF ThreadSet
<1>3. [r EXCEPT !.pc = pc, !.src = o, !.obj = 0] \in ThreadSet(k)
  <2>1. 0 \in 0 .. k
    OBVIOUS
  <2> QED  BY <2>1 DEF ThreadSet
<1>4. [r EXCEPT !.pc = pc, !.obj = o, !.head = h, !.list = l] \in ThreadSet(k)
  BY DEF ThreadSet
<1>5. [r EXCEPT !.head = h, !.list = l, !.pc = pc] \in ThreadSet(k)
  BY DEF ThreadSet
<1> QED  BY <1>1, <1>2, <1>3, <1>4, <1>5

LEMMA Wider ==
    ASSUME NEW k \in Nat, NEW j \in Nat, k <= j
    PROVE  ThreadSet(k) \subseteq ThreadSet(j)
<1> SUFFICES ASSUME NEW r \in ThreadSet(k) PROVE r \in ThreadSet(j)
  OBVIOUS
<1> QED  BY DEF ThreadSet

\* How the objects change.  Their number, name and kind never do.
SameInode(o) == objs'[o].ino = objs[o].ino /\ objs'[o].name = objs[o].name /\ objs'[o].kind = objs[o].kind
Kept == objs' \in Seq(Obj) /\ Len(objs') = Len(objs) /\ \A o \in 1 .. Len(objs) : SameInode(o)
Made(x) == /\ objs' \in Seq(Obj) /\ Len(objs') = Len(objs) + 1
           /\ \A o \in 1 .. Len(objs) : objs'[o] = objs[o]
           /\ objs'[Len(objs) + 1] = x

LEMMA SequenceOf ==
    ASSUME NEW S, NEW k \in Nat, NEW f, f \in [1 .. k -> S]
    PROVE  f \in Seq(S) /\ Len(f) = k
OBVIOUS

LEMMA ObjKept == ASSUME TypeOK, UNCHANGED objs PROVE Kept
BY TypeFacts DEF Kept, SameInode

LEMMA ObjUpdate ==
    ASSUME TypeOK, NEW o \in 1 .. Len(objs), NEW x \in Obj, objs' = [objs EXCEPT ![o] = x],
           x.ino = objs[o].ino /\ x.name = objs[o].name /\ x.kind = objs[o].kind
    PROVE  Kept /\ objs'[o] = x /\ \A p \in 1 .. Len(objs) : p # o => objs'[p] = objs[p]
<1>1. objs' \in [1 .. Len(objs) -> Obj]
  BY TypeFacts
<1>2. objs'[o] = x /\ \A p \in 1 .. Len(objs) : p # o => objs'[p] = objs[p]
  BY TypeFacts
<1>3. Len(objs) \in Nat
  BY TypeFacts
<1>4. objs' \in Seq(Obj) /\ Len(objs') = Len(objs)
  BY <1>1, <1>3, SequenceOf
<1> QED  BY <1>2, <1>4 DEF Kept, SameInode

LEMMA ObjsUpdate ==
    ASSUME TypeOK, NEW f, objs' = f, f \in [1 .. Len(objs) -> Obj],
           \A o \in 1 .. Len(objs) : f[o].ino = objs[o].ino /\ f[o].name = objs[o].name /\ f[o].kind = objs[o].kind
    PROVE  Kept
<1>1. Len(objs) \in Nat
  BY TypeFacts
<1>2. objs' \in Seq(Obj) /\ Len(objs') = Len(objs)
  BY <1>1, SequenceOf
<1> QED  BY <1>2 DEF Kept, SameInode

LEMMA ObjMade ==
    ASSUME TypeOK, NEW x \in Obj, objs' = Append(objs, x)
    PROVE  Made(x)
BY TypeFacts DEF Made

-----------------------------------------------------------------------------
\* What a step does to the thread that takes it

Moves(t, r) == thread'[t] = r /\ \A u \in Threads : u # t => thread'[u] = thread[u]

LEMMA MovesTyped ==
    ASSUME TypeOK, NEW t \in Threads, NEW k \in Nat, Len(objs) <= k, NEW r \in ThreadSet(k),
           thread' = [thread EXCEPT ![t] = r]
    PROVE  thread' \in [Threads -> ThreadSet(k)] /\ Moves(t, r)
<1>1. thread \in [Threads -> ThreadSet(Len(objs))] /\ Len(objs) \in Nat
  BY TypeFacts
<1>2. thread \in [Threads -> ThreadSet(k)]
  BY <1>1, Wider
<1> QED  BY <1>2 DEF Moves

LEMMA MovesHere ==
    ASSUME TypeOK, NEW t \in Threads, NEW r \in ThreadSet(Len(objs)), thread' = [thread EXCEPT ![t] = r]
    PROVE  thread' \in [Threads -> ThreadSet(Len(objs))] /\ Moves(t, r)
BY TypeFacts DEF Moves

LEMMA ReturnMoves ==
    ASSUME TypeOK, NEW t \in Threads, Return(t)
    PROVE  thread' \in [Threads -> ThreadSet(Len(objs))] /\ Moves(t, Idle)
BY IdleTyped, MovesHere DEF Return

LookedAs(t, o) == [thread[t] EXCEPT !.pc = "looked", !.obj = o, !.head = -1, !.list = "pending"]

LEMMA LookedMoves ==
    ASSUME TypeOK, NEW t \in Threads, NEW k \in Nat, Len(objs) <= k, NEW o \in 0 .. k, Looked(t, o)
    PROVE  thread' \in [Threads -> ThreadSet(k)] /\ Moves(t, LookedAs(t, o))
<1>1. thread[t] \in ThreadSet(k)
  BY TypeFacts, Wider
<1>2. LookedAs(t, o) \in ThreadSet(k)
  BY <1>1, Updates DEF LookedAs
<1>3. thread' = [thread EXCEPT ![t] = LookedAs(t, o)]
  BY TypeFacts DEF Looked, LookedAs
<1> QED  BY <1>2, <1>3, MovesTyped

LEMMA PcMoves ==
    ASSUME TypeOK, NEW t \in Threads,
           NEW pc \in {"cache", "remote", "negative", "update", "looked",
                       "insert", "remember", "s3", "renamed", "local"},
           thread' = [thread EXCEPT ![t].pc = pc]
    PROVE  thread' \in [Threads -> ThreadSet(Len(objs))] /\ Moves(t, [thread[t] EXCEPT !.pc = pc])
<1>1. thread[t] \in ThreadSet(Len(objs)) /\ Len(objs) \in Nat
  BY TypeFacts
<1>2. [thread[t] EXCEPT !.pc = pc] \in ThreadSet(Len(objs))
  BY <1>1 DEF ThreadSet
<1>3. thread' = [thread EXCEPT ![t] = [thread[t] EXCEPT !.pc = pc]]
  BY TypeFacts
<1> QED  BY <1>2, <1>3, MovesHere

AnswerPc(h, l) == IF l = "yes" \/ (h # -1 /\ l = "no") THEN IF Cache THEN "negative" ELSE "update" ELSE "remote"

LEMMA AnswerMoves ==
    ASSUME TypeOK, NEW t \in Threads, NEW h \in Etags \cup {-1, 0}, NEW l \in {"pending", "no", "yes"}, Answer(t, h, l)
    PROVE  /\ thread' \in [Threads -> ThreadSet(Len(objs))]
           /\ Moves(t, [thread[t] EXCEPT !.head = h, !.list = l, !.pc = AnswerPc(h, l)])
<1>1. thread[t] \in ThreadSet(Len(objs)) /\ Len(objs) \in Nat
  BY TypeFacts
<1>2. AnswerPc(h, l) \in {"negative", "update", "remote"}
  BY DEF AnswerPc
<1>3. [thread[t] EXCEPT !.head = h, !.list = l, !.pc = AnswerPc(h, l)] \in ThreadSet(Len(objs))
  <2>1. 0 \in 0 .. Len(objs)
    BY <1>1
  <2> QED  BY <1>1, <1>2, <2>1, Updates
<1>4. thread' = [thread EXCEPT ![t] = [thread[t] EXCEPT !.head = h, !.list = l, !.pc = AnswerPc(h, l)]]
  BY TypeFacts DEF Answer, AnswerPc
<1> QED  BY <1>3, <1>4, MovesHere

-----------------------------------------------------------------------------
\* What the requests do to the thread and to the objects

LEMMA TargetFacts ==
    ASSUME TypeOK, NEW t \in Threads
    PROVE  Target(t) \in Names /\ children[Target(t)] \in 0 .. Len(objs)
<1>1. Target(t) \in Names
  BY TypeFacts DEF Target, ThreadSet
<1> QED  BY <1>1 DEF TypeOK

LEMMA CacheLookupEffect ==
    ASSUME TypeOK, NEW t \in Threads, CacheLookup(t)
    PROVE  /\ Kept /\ thread' \in [Threads -> ThreadSet(Len(objs))]
           /\ \/ Moves(t, LookedAs(t, children[Target(t)])) /\ children[Target(t)] # 0
              \/ Moves(t, LookedAs(t, 0)) /\ Cache
              \/ Moves(t, [thread[t] EXCEPT !.pc = "remote"])
<1>1. Kept
  BY ObjKept DEF CacheLookup, superblock
<1>2. Len(objs) \in Nat /\ children[Target(t)] \in 0 .. Len(objs) /\ 0 \in 0 .. Len(objs) /\ Len(objs) <= Len(objs)
  BY TypeFacts, TargetFacts
<1>3. CASE Looked(t, children[Target(t)]) /\ children[Target(t)] # 0
  BY <1>1, <1>2, <1>3, LookedMoves
<1>4. CASE Looked(t, 0) /\ Cache
  BY <1>1, <1>2, <1>4, LookedMoves
<1>5. CASE thread' = [thread EXCEPT ![t].pc = "remote"]
  BY <1>1, <1>5, PcMoves
<1> QED  BY <1>3, <1>4, <1>5 DEF CacheLookup

LEMMA GetattrEffect ==
    ASSUME TypeOK, NEW t \in Threads, Places(t), Getattr(t)
    PROVE  /\ Kept /\ thread' \in [Threads -> ThreadSet(Len(objs))]
           /\ \A o \in 1 .. Len(objs) : objs'[o].status = objs[o].status
           /\ Moves(t, Idle) \/ Moves(t, [thread[t] EXCEPT !.pc = "remote"])
<1> DEFINE o == thread[t].src
           ttl == IF objs[o].status # "Remote" THEN FileTtl ELSE objs[o].ttl
           x == [objs[o] EXCEPT !.ttl = ttl]
<1>1. o \in 1 .. Len(objs)
  BY TypeFacts DEF Getattr, Places, ThreadSet
<1>2. objs[o] \in Obj /\ ttl \in 0 .. FileTtl
  BY <1>1, TypeFacts DEF Obj
<1>3. x \in Obj /\ x.ino = objs[o].ino /\ x.name = objs[o].name /\ x.kind = objs[o].kind /\ x.status = objs[o].status
  BY <1>2 DEF Obj
<1>4. objs' = [objs EXCEPT ![o] = x]
  BY <1>1, TypeFacts DEF Getattr
<1>5. Kept /\ \A p \in 1 .. Len(objs) : objs'[p].status = objs[p].status
  <2> HIDE DEF o, x
  <2>1. Kept /\ objs'[o] = x /\ \A p \in 1 .. Len(objs) : p # o => objs'[p] = objs[p]
    BY <1>1, <1>3, <1>4, ObjUpdate
  <2> QED  BY <1>3, <2>1
<1>6. Return(t) \/ thread' = [thread EXCEPT ![t].pc = "remote"]
  BY DEF Getattr
<1> QED  BY <1>5, <1>6, ReturnMoves, PcMoves

LEMMA HeadObjectEffect ==
    ASSUME TypeOK, NEW t \in Threads, HeadObject(t)
    PROVE  /\ Kept /\ thread' \in [Threads -> ThreadSet(Len(objs))]
           /\ \E h \in Etags \cup {-1, 0}, l \in {"pending", "no", "yes"} :
                 Moves(t, [thread[t] EXCEPT !.head = h, !.list = l, !.pc = AnswerPc(h, l)])
<1>1. Kept
  BY ObjKept DEF HeadObject, superblock
<1>2. s3[Target(t)] \in Etags \cup {-1, 0} /\ thread[t].list \in {"pending", "no", "yes"}
  BY TypeFacts, TargetFacts DEF TypeOK, ThreadSet
<1> QED  BY <1>1, <1>2, AnswerMoves DEF HeadObject

LEMMA ListObjectsEffect ==
    ASSUME TypeOK, NEW t \in Threads, ListObjects(t)
    PROVE  /\ Kept /\ thread' \in [Threads -> ThreadSet(Len(objs))]
           /\ \E h \in Etags \cup {-1, 0}, l \in {"pending", "no", "yes"} :
                 Moves(t, [thread[t] EXCEPT !.head = h, !.list = l, !.pc = AnswerPc(h, l)])
<1>1. Kept
  BY ObjKept DEF ListObjects, superblock
<1>2. thread[t].head \in Etags \cup {-1, 0}
  BY TypeFacts DEF ThreadSet
<1> QED  BY <1>1, <1>2, AnswerMoves DEF ListObjects

\* A request that fails: what it guarded is no longer pending.
Released(t) ==
    \A o \in 1 .. Len(objs) :
        \/ o \in Guarded(t) /\ objs[o].status = "PendingRename" /\ objs'[o].status = "Remote"
        \/ ~(o \in Guarded(t) /\ objs[o].status = "PendingRename") /\ objs'[o].status = objs[o].status

LEMMA UnguardFacts ==
    ASSUME TypeOK, NEW o \in 1 .. Len(objs)
    PROVE  /\ Unguard(o) \in Obj /\ Unguard(o).ino = objs[o].ino
           /\ Unguard(o).name = objs[o].name /\ Unguard(o).kind = objs[o].kind
           /\ Unguard(o).status = IF objs[o].status = "PendingRename" THEN "Remote" ELSE objs[o].status
<1>1. objs[o] \in Obj /\ o # 0
  BY TypeFacts
<1>2. CASE objs[o].status = "PendingRename"
  BY <1>1, <1>2 DEF Unguard, Obj
<1>3. CASE objs[o].status # "PendingRename"
  BY <1>1, <1>3 DEF Unguard
<1> QED  BY <1>2, <1>3

LEMMA FailEffect ==
    ASSUME TypeOK, NEW t \in Threads, Fail(t)
    PROVE  Kept /\ thread' \in [Threads -> ThreadSet(Len(objs))] /\ Released(t) /\ Moves(t, Idle)
<1> DEFINE f == [o \in DOMAIN objs |-> IF o \in Guarded(t) THEN Unguard(o) ELSE objs[o]]
<1>1. objs' = f /\ DOMAIN objs = 1 .. Len(objs) /\ \A o \in 1 .. Len(objs) : objs[o] \in Obj
  BY TypeFacts DEF Fail
<1>2. f \in [1 .. Len(objs) -> Obj]
  BY <1>1, UnguardFacts
<1>3. \A o \in 1 .. Len(objs) : f[o].ino = objs[o].ino /\ f[o].name = objs[o].name /\ f[o].kind = objs[o].kind
  BY <1>1, UnguardFacts
<1>4. Kept
  <2> HIDE DEF f
  <2> QED  BY <1>1, <1>2, <1>3, ObjsUpdate
<1>5. Released(t)
  BY <1>1, UnguardFacts DEF Released
<1> QED  BY <1>4, <1>5, ReturnMoves DEF Fail

\* A step that changes one object.
LEMMA OneObject ==
    ASSUME TypeOK, NEW o \in 1 .. Len(objs), NEW ttl \in 0 .. FileTtl,
           NEW st \in {"LocalUnopened", "LocalOpenForWriting", "Remote", "PendingRename"}, NEW e \in Etags \cup {0},
           \/ objs' = [objs EXCEPT ![o].ttl = ttl] /\ st = objs[o].status
           \/ objs' = [objs EXCEPT ![o].status = st]
           \/ objs' = [objs EXCEPT ![o].put = e] /\ st = objs[o].status
           \/ objs' = [objs EXCEPT ![o].ttl = ttl, ![o].status = st]
           \/ objs' = [objs EXCEPT ![o] = [@ EXCEPT !.status = st, !.ttl = ttl, !.put = 0]]
           \/ objs' = [objs EXCEPT ![o] = [@ EXCEPT !.status = st, !.etag = e, !.ttl = ttl, !.put = 0]]
    PROVE  Kept /\ objs'[o].status = st /\ \A p \in 1 .. Len(objs) : p # o => objs'[p] = objs[p]
<1>1. objs[o] \in Obj /\ DOMAIN objs = 1 .. Len(objs) /\ o \in DOMAIN objs
  BY TypeFacts
<1>2. ASSUME NEW x \in Obj, objs' = [objs EXCEPT ![o] = x], x.status = st,
             x.ino = objs[o].ino /\ x.name = objs[o].name /\ x.kind = objs[o].kind
      PROVE  Kept /\ objs'[o].status = st /\ \A p \in 1 .. Len(objs) : p # o => objs'[p] = objs[p]
  BY <1>2, ObjUpdate
<1>3. CASE objs' = [objs EXCEPT ![o].ttl = ttl] /\ st = objs[o].status
  <2> DEFINE x == [objs[o] EXCEPT !.ttl = ttl]
  <2>1. x \in Obj /\ x.ino = objs[o].ino /\ x.name = objs[o].name /\ x.kind = objs[o].kind /\ x.status = st
    BY <1>1, <1>3 DEF Obj
  <2>2. objs' = [objs EXCEPT ![o] = x]
    BY <1>1, <1>3
  <2> HIDE DEF x
  <2> QED  BY <1>2, <2>1, <2>2
<1>4. CASE objs' = [objs EXCEPT ![o].status = st]
  <2> DEFINE x == [objs[o] EXCEPT !.status = st]
  <2>1. x \in Obj /\ x.ino = objs[o].ino /\ x.name = objs[o].name /\ x.kind = objs[o].kind /\ x.status = st
    BY <1>1 DEF Obj
  <2>2. objs' = [objs EXCEPT ![o] = x]
    BY <1>1, <1>4
  <2> HIDE DEF x
  <2> QED  BY <1>2, <2>1, <2>2
<1>5. CASE objs' = [objs EXCEPT ![o].put = e] /\ st = objs[o].status
  <2> DEFINE x == [objs[o] EXCEPT !.put = e]
  <2>1. x \in Obj /\ x.ino = objs[o].ino /\ x.name = objs[o].name /\ x.kind = objs[o].kind /\ x.status = st
    BY <1>1, <1>5 DEF Obj
  <2>2. objs' = [objs EXCEPT ![o] = x]
    BY <1>1, <1>5
  <2> HIDE DEF x
  <2> QED  BY <1>2, <2>1, <2>2
<1>6. CASE objs' = [objs EXCEPT ![o].ttl = ttl, ![o].status = st]
  <2> DEFINE x == [objs[o] EXCEPT !.ttl = ttl, !.status = st]
  <2>1. x \in Obj /\ x.ino = objs[o].ino /\ x.name = objs[o].name /\ x.kind = objs[o].kind /\ x.status = st
    BY <1>1 DEF Obj
  <2>2. objs' = [objs EXCEPT ![o] = x]
    BY <1>1, <1>6
  <2> HIDE DEF x
  <2> QED  BY <1>2, <2>1, <2>2
<1>7. CASE objs' = [objs EXCEPT ![o] = [@ EXCEPT !.status = st, !.ttl = ttl, !.put = 0]]
  <2> DEFINE x == [objs[o] EXCEPT !.status = st, !.ttl = ttl, !.put = 0]
  <2>1. x \in Obj /\ x.ino = objs[o].ino /\ x.name = objs[o].name /\ x.kind = objs[o].kind /\ x.status = st
    BY <1>1 DEF Obj
  <2>2. objs' = [objs EXCEPT ![o] = x]
    BY <1>1, <1>7
  <2> HIDE DEF x
  <2> QED  BY <1>2, <2>1, <2>2
<1>8. CASE objs' = [objs EXCEPT ![o] = [@ EXCEPT !.status = st, !.etag = e, !.ttl = ttl, !.put = 0]]
  <2> DEFINE x == [objs[o] EXCEPT !.status = st, !.etag = e, !.ttl = ttl, !.put = 0]
  <2>1. x \in Obj /\ x.ino = objs[o].ino /\ x.name = objs[o].name /\ x.kind = objs[o].kind /\ x.status = st
    BY <1>1 DEF Obj
  <2>2. objs' = [objs EXCEPT ![o] = x]
    BY <1>1, <1>8
  <2> HIDE DEF x
  <2> QED  BY <1>2, <2>1, <2>2
<1> QED  BY <1>3, <1>4, <1>5, <1>6, <1>7, <1>8

\* A step that makes no object and no entry.
Local == {"LocalUnopened", "LocalOpenForWriting"}
StaysLocal == \A o \in 1 .. Len(objs) :
                  objs[o].ino \in writing' /\ objs[o].status \in Local => objs'[o].status \in Local
NothingPends == \A o \in 1 .. Len(objs) : objs'[o].status = "PendingRename" => objs[o].status = "PendingRename"
Shrinks == children' \in [Names -> 0 .. Len(objs)] /\ \A n \in Names : children'[n] \in {0, children[n]}
Quiet == Kept /\ Shrinks /\ writing' \subseteq writing /\ nextIno' = nextIno /\ StaysLocal
StatusSame == \A o \in 1 .. Len(objs) : objs'[o].status = objs[o].status

LEMMA ChildrenSame == ASSUME TypeOK, UNCHANGED children PROVE Shrinks
BY DEF TypeOK, Shrinks

LEMMA ChildRemoved ==
    ASSUME TypeOK, NEW n \in Names, children' = [children EXCEPT ![n] = 0]
    PROVE  Shrinks /\ children'[n] = 0 /\ \A m \in Names : m # n => children'[m] = children[m]
BY DEF TypeOK, Shrinks

LEMMA QuietSame ==
    ASSUME Kept, StatusSame, Shrinks, writing' \subseteq writing, nextIno' = nextIno
    PROVE  Quiet /\ NothingPends
BY DEF Quiet, StatusSame, StaysLocal, NothingPends

LEMMA AllSame ==
    ASSUME TypeOK, UNCHANGED <<objs, children, writing, nextIno>>
    PROVE  Quiet /\ NothingPends /\ StatusSame
<1>1. Kept /\ Shrinks /\ StatusSame
  BY ObjKept, ChildrenSame DEF StatusSame
<1> QED  BY <1>1, QuietSame

LEMMA LookupFailsEffect ==
    ASSUME TypeOK, NEW t \in Threads, LookupFails(t)
    PROVE  /\ Quiet /\ NothingPends /\ thread' \in [Threads -> ThreadSet(Len(objs))]
           /\ UNCHANGED <<children, writing, inodes, refs, dentry>>
           /\ IF thread[t].op = "rename" /\ thread[t].src # 0
              THEN Moves(t, LookedAs(t, 0)) /\ StatusSame
              ELSE Moves(t, Idle) /\ Released(t)
<1>1. UNCHANGED <<children, writing, nextIno, inodes, refs, dentry>> /\ Shrinks
  BY ChildrenSame DEF LookupFails, kernel
<1>2. CASE thread[t].op = "rename" /\ thread[t].src # 0
  <2>1. UNCHANGED objs /\ Looked(t, 0)
    BY <1>2 DEF LookupFails
  <2>2. Len(objs) \in Nat /\ 0 \in 0 .. Len(objs) /\ Len(objs) <= Len(objs)
    BY TypeFacts
  <2> QED  BY <1>1, <1>2, <2>1, <2>2, AllSame, LookedMoves
<1>3. CASE ~(thread[t].op = "rename" /\ thread[t].src # 0)
  <2>1. Fail(t)
    BY <1>3 DEF LookupFails
  <2>2. Kept /\ thread' \in [Threads -> ThreadSet(Len(objs))] /\ Released(t) /\ Moves(t, Idle)
    BY <2>1, FailEffect
  <2>3. StaysLocal /\ NothingPends
    BY <2>2 DEF Released, StaysLocal, NothingPends, Local
  <2> QED  BY <1>1, <1>3, <2>2, <2>3 DEF Quiet
<1> QED  BY <1>2, <1>3

LEMMA UpdateNegativeEffect ==
    ASSUME TypeOK, NEW t \in Threads, UpdateNegative(t)
    PROVE  /\ Quiet /\ NothingPends /\ thread' \in [Threads -> ThreadSet(Len(objs))]
           /\ Moves(t, [thread[t] EXCEPT !.pc = "update"])
BY AllSame, PcMoves DEF UpdateNegative

LEMMA NothingRemoteEffect ==
    ASSUME TypeOK, NEW t \in Threads, NothingRemote(t, Target(t), children[Target(t)])
    PROVE  /\ Quiet /\ NothingPends /\ StatusSame /\ thread' \in [Threads -> ThreadSet(Len(objs))]
           /\ UNCHANGED writing
           /\ \A m \in Names : m # Target(t) => children'[m] = children[m]
           /\ NotNew(children[Target(t)]) \/ UNCHANGED children
           /\ \/ Moves(t, LookedAs(t, children[Target(t)])) /\ children[Target(t)] # 0 /\ UNCHANGED children
              \/ Moves(t, LookedAs(t, 0)) /\ children'[Target(t)] = 0
<1> DEFINE n == Target(t)
           e == children[n]
<1>1. n \in Names /\ e \in 0 .. Len(objs) /\ Len(objs) \in Nat /\ 0 \in 0 .. Len(objs) /\ Len(objs) <= Len(objs)
  BY TypeFacts, TargetFacts
<1>2. UNCHANGED <<writing, nextIno>>
  BY DEF NothingRemote
<1>3. CASE e # 0 /\ objs[e].ino \in writing
  <2>1. objs' = [objs EXCEPT ![e].ttl = FileTtl] /\ Looked(t, e) /\ UNCHANGED children
    BY <1>3 DEF NothingRemote
  <2>2. e \in 1 .. Len(objs) /\ FileTtl \in 0 .. FileTtl /\ 0 \in Etags \cup {0}
    BY <1>1, <1>3, TypeFacts
  <2>3. objs[e].status \in {"LocalUnopened", "LocalOpenForWriting", "Remote", "PendingRename"}
    BY <2>2, TypeFacts DEF Obj
  <2> HIDE DEF n, e
  <2>4. Kept /\ objs'[e].status = objs[e].status /\ \A p \in 1 .. Len(objs) : p # e => objs'[p] = objs[p]
    BY <2>1, <2>2, <2>3, OneObject
  <2>5. StatusSame
    BY <2>2, <2>4 DEF StatusSame
  <2>6. Shrinks
    BY <2>1, ChildrenSame
  <2>7. thread' \in [Threads -> ThreadSet(Len(objs))] /\ Moves(t, LookedAs(t, e))
    BY <1>1, <2>1, LookedMoves
  <2> QED  BY <1>2, <1>3, <2>1, <2>4, <2>5, <2>6, <2>7, QuietSame DEF n, e
<1>4. CASE ~(e # 0 /\ objs[e].ino \in writing)
  <2>1. UNCHANGED objs /\ Looked(t, 0) /\ children' = [children EXCEPT ![n] = 0]
    BY <1>4 DEF NothingRemote
  <2>2. Kept /\ StatusSame
    BY <2>1, ObjKept DEF StatusSame
  <2>3. Shrinks /\ children'[n] = 0 /\ \A m \in Names : m # n => children'[m] = children[m]
    BY <1>1, <2>1, ChildRemoved
  <2>4. thread' \in [Threads -> ThreadSet(Len(objs))] /\ Moves(t, LookedAs(t, 0))
    BY <1>1, <2>1, LookedMoves
  <2> QED  BY <1>2, <1>4, <2>2, <2>3, <2>4, QuietSame DEF NotNew
<1> QED  BY <1>3, <1>4

LEMMA LocalShadowsEffect ==
    ASSUME TypeOK, NEW t \in Threads, LocalShadowsRemote(t, children[Target(t)])
    PROVE  /\ Quiet /\ NothingPends /\ StatusSame /\ thread' \in [Threads -> ThreadSet(Len(objs))]
           /\ UNCHANGED <<objs, children, writing>>
           /\ Moves(t, LookedAs(t, children[Target(t)])) /\ children[Target(t)] # 0
<1>1. Len(objs) \in Nat /\ children[Target(t)] \in 0 .. Len(objs) /\ Len(objs) <= Len(objs)
  BY TypeFacts, TargetFacts
<1> QED  BY <1>1, AllSame, LookedMoves DEF LocalShadowsRemote

LEMMA UpdateInPlaceEffect ==
    ASSUME TypeOK, NEW t \in Threads, UpdateInPlace(t, children[Target(t)])
    PROVE  /\ Quiet /\ NothingPends /\ thread' \in [Threads -> ThreadSet(Len(objs))]
           /\ UNCHANGED children
           /\ Moves(t, LookedAs(t, children[Target(t)])) /\ children[Target(t)] # 0
           /\ objs'[children[Target(t)]].status = "Remote"
           /\ \A p \in 1 .. Len(objs) : p # children[Target(t)] => objs'[p] = objs[p]
           /\ writing' \in {writing, writing \ {objs[children[Target(t)]].ino}}
<1> DEFINE e == children[Target(t)]
<1>1. Len(objs) \in Nat /\ e \in 0 .. Len(objs) /\ Len(objs) <= Len(objs) /\ e # 0
  BY TypeFacts, TargetFacts DEF UpdateInPlace, SameObject
<1>2. e \in 1 .. Len(objs) /\ FileTtl \in 0 .. FileTtl /\ 0 \in Etags \cup {0}
  BY <1>1, TypeFacts
<1>3. objs' = [objs EXCEPT ![e].ttl = FileTtl, ![e].status = "Remote"]
  BY DEF UpdateInPlace
<1>4. writing' = IF objs[e].status = "Remote" THEN writing ELSE writing \ {objs[e].ino}
  BY DEF UpdateInPlace
<1>5. UNCHANGED <<children, nextIno>> /\ Looked(t, e)
  BY DEF UpdateInPlace
<1> HIDE DEF e
<1>6. Kept /\ objs'[e].status = "Remote" /\ \A p \in 1 .. Len(objs) : p # e => objs'[p] = objs[p]
  BY <1>2, <1>3, OneObject
<1>7. StaysLocal
  BY <1>2, <1>4, <1>6 DEF StaysLocal, Local
<1>8. NothingPends
  BY <1>2, <1>6 DEF NothingPends
<1>9. Shrinks
  BY <1>5, ChildrenSame
<1>10. thread' \in [Threads -> ThreadSet(Len(objs))] /\ Moves(t, LookedAs(t, e))
  BY <1>1, <1>5, LookedMoves
<1> QED  BY <1>1, <1>4, <1>5, <1>6, <1>7, <1>8, <1>9, <1>10 DEF Quiet, e

\* An inode is made, with a new number.
Creates(n, kind, status) ==
    /\ \E x \in Obj : Made(x) /\ x.ino = nextIno /\ x.name = n /\ x.kind = kind /\ x.status = status
    /\ nextIno \in Inos /\ nextIno' = nextIno + 1
    /\ children' \in [Names -> 0 .. Len(objs) + 1]
    /\ children'[n] = Len(objs) + 1 /\ \A m \in Names : m # n => children'[m] = children[m]
    /\ Len(objs) < MaxObjs
    /\ writing' \subseteq writing \cup (IF status = "Remote" THEN {} ELSE {nextIno})

LEMMA CreateInodeEffect ==
    ASSUME TypeOK, Numbered, NEW n \in Names, NEW kind \in {"file", "dir"},
           NEW status \in {"LocalUnopened", "Remote"}, NEW etag \in Etags \cup {0},
           CreateInode(n, kind, status, etag)
    PROVE  Creates(n, kind, status)
<1> DEFINE x == NewObj(n, kind, status, etag)
<1>1. nextIno \in Inos /\ Len(objs) < MaxObjs /\ nextIno' = nextIno + 1
  BY TypeFacts, DirectoryAssumption DEF Numbered, TypeOK, Inos, CreateInode
<1>2. x \in Obj /\ x.ino = nextIno /\ x.name = n /\ x.kind = kind /\ x.status = status
  BY <1>1, TypeFacts DEF NewObj, Obj
<1>3. Made(x)
  <2> HIDE DEF x
  <2>1. objs' = Append(objs, x)
    BY DEF x, CreateInode
  <2> QED  BY <1>2, <2>1, ObjMade
<1>4. /\ children' \in [Names -> 0 .. Len(objs) + 1]
      /\ children'[n] = Len(objs) + 1 /\ \A m \in Names : m # n => children'[m] = children[m]
  BY TypeFacts DEF CreateInode, TypeOK
<1>5. writing' \subseteq writing \cup (IF status = "Remote" THEN {} ELSE {nextIno})
  BY DEF CreateInode
<1> QED  BY <1>1, <1>2, <1>3, <1>4, <1>5 DEF Creates

LEMMA FoundFacts ==
    ASSUME TypeOK, NEW t \in Threads
    PROVE  FoundKind(t) \in {"file", "dir", "none"} /\ FoundEtag(t) \in Etags \cup {0}
<1>1. thread[t].head \in Etags \cup {-1, 0}
  BY TypeFacts DEF ThreadSet
<1> QED  BY <1>1, DirectoryAssumption DEF FoundKind, FoundEtag

LEMMA RecreateEffect ==
    ASSUME TypeOK, Numbered, NEW t \in Threads, Recreate(t, Target(t), children[Target(t)])
    PROVE  /\ thread' \in [Threads -> ThreadSet(Len(objs'))]
           /\ Creates(Target(t), FoundKind(t), "Remote")
           /\ FoundKind(t) = "file" /\ children[Target(t)] # 0 => objs[children[Target(t)]].status = "Remote"
           /\ FoundKind(t) \in {"file", "dir"}
           /\ Moves(t, LookedAs(t, Len(objs) + 1))
<1>1. Target(t) \in Names /\ FoundKind(t) \in {"file", "dir"} /\ FoundEtag(t) \in Etags \cup {0}
  BY TargetFacts, FoundFacts DEF Recreate
<1>2. Creates(Target(t), FoundKind(t), "Remote")
  BY <1>1, CreateInodeEffect DEF Recreate
<1>3. Len(objs') = Len(objs) + 1 /\ Len(objs) \in Nat
  BY <1>2, TypeFacts DEF Creates, Made
<1>4. Len(objs) + 1 \in Nat /\ Len(objs) <= Len(objs) + 1 /\ Len(objs) + 1 \in 0 .. Len(objs) + 1
  BY <1>3
<1>5. Looked(t, Len(objs) + 1)
  BY DEF Recreate
<1>6. thread' \in [Threads -> ThreadSet(Len(objs) + 1)] /\ Moves(t, LookedAs(t, Len(objs) + 1))
  BY <1>4, <1>5, LookedMoves
<1> QED  BY <1>1, <1>2, <1>3, <1>6 DEF Recreate

\* An inode is remembered, for a reference of the kernel.
InodeMap(k) == [Inos -> [obj : 0 .. k, count : Nat]]
Remembered(o) ==
    LET i == objs[o].ino
    IN  /\ refs' \in [Inos -> Nat] /\ refs'[i] = refs[i] + 1
        /\ inodes' \in InodeMap(Len(objs))
        /\ inodes'[i].obj = IF inodes[i].obj = 0 THEN o ELSE inodes[i].obj
        /\ inodes'[i].count = IF inodes[i].obj = 0 THEN 1 ELSE inodes[i].count + 1
        /\ \A j \in Inos : j # i => refs'[j] = refs[j] /\ inodes'[j] = inodes[j]
        /\ dentry' \in [Names -> Inos \cup {0}] /\ \A n \in Names : dentry'[n] \in {0, i, dentry[n]}

LEMMA EnteredFacts ==
    ASSUME TypeOK, NEW t \in Threads, NEW i \in Inos \cup {0}, Entered(t, i)
    PROVE  dentry' \in [Names -> Inos \cup {0}] /\ \A n \in Names : dentry'[n] \in {0, i, dentry[n]}
<1>1. thread[t].name \in Names
  BY TypeFacts DEF ThreadSet
<1> QED  BY <1>1 DEF Entered, TypeOK

LEMMA RememberEffect ==
    ASSUME TypeOK, NEW t \in Threads, NEW o \in 1 .. Len(objs), Remember(t, o)
    PROVE  Remembered(o) /\ thread' \in [Threads -> ThreadSet(Len(objs))] /\ Moves(t, Idle)
<1> DEFINE i == objs[o].ino
<1>1. i \in Inos
  BY TypeFacts DEF Obj
<1>2. refs' \in [Inos -> Nat] /\ refs'[i] = refs[i] + 1 /\ \A j \in Inos : j # i => refs'[j] = refs[j]
  BY <1>1, SMTT(30) DEF TypeOK, Remember
<1>3. inodes \in [Inos -> [obj : 0 .. Len(objs), count : Nat]] /\ o \in 0 .. Len(objs) /\ Len(objs) \in Nat
  BY TypeFacts DEF TypeOK
<1>4. /\ inodes' \in [Inos -> [obj : 0 .. Len(objs), count : Nat]]
      /\ inodes'[i].obj = IF inodes[i].obj = 0 THEN o ELSE inodes[i].obj
      /\ inodes'[i].count = IF inodes[i].obj = 0 THEN 1 ELSE inodes[i].count + 1
      /\ \A j \in Inos : j # i => inodes'[j] = inodes[j]
  <2>1. inodes' = [inodes EXCEPT ![i] = IF inodes[i].obj = 0 THEN [obj |-> o, count |-> 1]
                                        ELSE [obj |-> inodes[i].obj, count |-> inodes[i].count + 1]]
    BY DEF Remember
  <2> HIDE DEF i
  <2>2. CASE inodes[i].obj = 0
    BY <1>1, <1>3, <2>1, <2>2
  <2>3. CASE inodes[i].obj # 0
    BY <1>1, <1>3, <2>1, <2>3
  <2> QED  BY <2>2, <2>3
<1>5. dentry' \in [Names -> Inos \cup {0}] /\ \A n \in Names : dentry'[n] \in {0, i, dentry[n]}
  BY <1>1, EnteredFacts DEF Remember
<1>6. thread' \in [Threads -> ThreadSet(Len(objs))] /\ Moves(t, Idle)
  BY ReturnMoves DEF Remember
<1> QED  BY <1>2, <1>4, <1>5, <1>6 DEF Remembered, InodeMap

EntriesDropped == dentry' \in [Names -> Inos \cup {0}] /\ \A n \in Names : dentry'[n] \in {0, dentry[n]}

LEMMA DentrySame == ASSUME TypeOK, UNCHANGED dentry PROVE EntriesDropped
BY DEF TypeOK, EntriesDropped

LEMMA LookupReturnsEffect ==
    ASSUME TypeOK, NEW t \in Threads, LookupReturns(t)
    PROVE  /\ Quiet /\ NothingPends /\ UNCHANGED <<objs, children, writing>>
           /\ thread' \in [Threads -> ThreadSet(Len(objs))] /\ Moves(t, Idle)
           /\ \/ UNCHANGED <<inodes, refs>> /\ EntriesDropped
              \/ thread[t].obj \in 1 .. Len(objs) /\ Remembered(thread[t].obj)
<1>1. UNCHANGED <<objs, children, writing, nextIno>> /\ Quiet /\ NothingPends
  BY AllSame DEF LookupReturns
<1>2. CASE thread[t].op = "getattr" /\ Return(t) /\ UNCHANGED <<inodes, kernel>>
  BY <1>1, <1>2, ReturnMoves, DentrySame DEF kernel
<1>3. CASE Return(t) /\ Entered(t, 0) /\ UNCHANGED <<inodes, refs, sent>>
  <2>1. EntriesDropped
    BY <1>3, EnteredFacts DEF EntriesDropped
  <2> QED  BY <1>1, <1>3, <2>1, ReturnMoves
<1>4. CASE thread[t].obj # 0 /\ Remember(t, thread[t].obj)
  <2>1. thread[t].obj \in 1 .. Len(objs)
    BY <1>4, TypeFacts DEF ThreadSet
  <2> QED  BY <1>1, <1>4, <2>1, RememberEffect
<1> QED  BY <1>2, <1>3, <1>4 DEF LookupReturns

LEMMA CreateLookedEffect ==
    ASSUME TypeOK, NEW t \in Threads, CreateLooked(t)
    PROVE  /\ Quiet /\ NothingPends /\ UNCHANGED <<children, writing, inodes, refs, dentry>>
           /\ thread' \in [Threads -> ThreadSet(Len(objs))]
           /\ Moves(t, Idle) \/ (thread[t].obj = 0 /\ Moves(t, [thread[t] EXCEPT !.pc = "insert"]))
<1>1. UNCHANGED <<children, writing, inodes, refs, dentry>> /\ Quiet /\ NothingPends
  BY AllSame DEF CreateLooked, superblock, kernel
<1>2. Return(t) \/ (thread[t].obj = 0 /\ thread' = [thread EXCEPT ![t].pc = "insert"])
  BY DEF CreateLooked
<1> QED  BY <1>1, <1>2, ReturnMoves, PcMoves

LEMMA CreateEffect ==
    ASSUME TypeOK, Numbered, NEW t \in Threads, Create(t)
    PROVE  /\ thread' \in [Threads -> ThreadSet(Len(objs'))] /\ UNCHANGED <<inodes, refs, dentry>>
           /\ \/ Quiet /\ NothingPends /\ UNCHANGED <<children, writing>> /\ Moves(t, Idle)
              \/ /\ \E kind \in {"file", "dir"} : Creates(thread[t].name, kind, "LocalUnopened")
                 /\ children[thread[t].name] = 0
                 /\ Moves(t, [thread[t] EXCEPT !.pc = "remember", !.obj = Len(objs) + 1])
<1> DEFINE n == thread[t].name
<1>1. UNCHANGED <<inodes, refs, dentry>> /\ n \in Names /\ Len(objs) \in Nat
  BY TypeFacts DEF Create, kernel, ThreadSet
<1>2. CASE children[n] # 0
  <2>1. Return(t) /\ UNCHANGED <<objs, children, writing, nextIno>>
    BY <1>2 DEF Create
  <2> QED  BY <1>1, <2>1, AllSame, ReturnMoves
<1>3. CASE children[n] = 0
  <2> DEFINE kind == IF thread[t].op = "mkdir" THEN "dir" ELSE "file"
             r == [thread[t] EXCEPT !.pc = "remember", !.obj = Len(objs) + 1]
  <2>1. CreateInode(n, kind, "LocalUnopened", 0)
    BY <1>3 DEF Create
  <2>2. kind \in {"file", "dir"} /\ 0 \in Etags \cup {0}
    OBVIOUS
  <2>3. Creates(n, kind, "LocalUnopened")
    <3> HIDE DEF kind, n
    <3> QED  BY <1>1, <2>1, <2>2, CreateInodeEffect
  <2>4. Len(objs') = Len(objs) + 1 /\ Len(objs) + 1 \in Nat /\ Len(objs) <= Len(objs) + 1
    BY <1>1, <2>3 DEF Creates, Made
  <2>5. thread[t] \in ThreadSet(Len(objs) + 1) /\ Len(objs) + 1 \in 0 .. Len(objs) + 1
    BY <1>1, <2>4, TypeFacts, Wider
  <2>6. r \in ThreadSet(Len(objs) + 1)
    BY <2>5 DEF ThreadSet
  <2>7. thread' = [thread EXCEPT ![t] = r]
    BY <1>3, TypeFacts DEF Create
  <2> HIDE DEF r
  <2>8. thread' \in [Threads -> ThreadSet(Len(objs) + 1)] /\ Moves(t, r)
    BY <2>4, <2>6, <2>7, MovesTyped
  <2> QED  BY <1>1, <1>3, <2>2, <2>3, <2>4, <2>8 DEF r
<1> QED  BY <1>2, <1>3

LEMMA CreateReturnsEffect ==
    ASSUME TypeOK, NEW t \in Threads, Places(t), CreateReturns(t)
    PROVE  /\ Quiet /\ NothingPends /\ UNCHANGED <<objs, children, writing>>
           /\ thread' \in [Threads -> ThreadSet(Len(objs))] /\ Moves(t, Idle)
           /\ thread[t].obj \in 1 .. Len(objs) /\ Remembered(thread[t].obj)
<1>1. UNCHANGED <<objs, children, writing, nextIno>> /\ Quiet /\ NothingPends
  BY AllSame DEF CreateReturns
<1>2. thread[t].obj \in 1 .. Len(objs)
  BY TypeFacts DEF CreateReturns, Places, ThreadSet
<1>3. Remember(t, thread[t].obj)
  BY DEF CreateReturns
<1> QED  BY <1>1, <1>2, <1>3, RememberEffect

LEMMA RmdirEffect ==
    ASSUME TypeOK, NEW t \in Threads, Rmdir(t)
    PROVE  /\ Quiet /\ NothingPends /\ UNCHANGED <<objs, inodes, refs>> /\ EntriesDropped
           /\ thread' \in [Threads -> ThreadSet(Len(objs))] /\ Moves(t, Idle)
<1> DEFINE o == thread[t].obj
<1>1. UNCHANGED <<objs, nextIno, inodes, refs>> /\ Return(t)
  BY DEF Rmdir
<1>2. Kept /\ StatusSame
  BY <1>1, ObjKept DEF StatusSame
<1>3. CASE UNCHANGED <<children, writing, dentry>>
  BY <1>1, <1>3, AllSame, ReturnMoves, DentrySame
<1>4. CASE /\ o # 0
           /\ children' = [children EXCEPT ![objs[o].name] = 0]
           /\ writing' = writing \ {objs[o].ino}
           /\ dentry' = [dentry EXCEPT ![objs[o].name] = 0]
  <2>1. objs[o].name \in Names
    BY <1>4, TypeFacts DEF ThreadSet, Obj
  <2>2. Shrinks
    BY <1>4, <2>1, ChildRemoved
  <2>3. EntriesDropped
    BY <1>4, <2>1 DEF EntriesDropped, TypeOK
  <2>4. writing' \subseteq writing
    BY <1>4
  <2> QED  BY <1>1, <1>2, <2>2, <2>3, <2>4, QuietSame, ReturnMoves
<1> QED  BY <1>3, <1>4 DEF Rmdir

LEMMA UnlinkLookedEffect ==
    ASSUME TypeOK, NEW t \in Threads, UnlinkLooked(t)
    PROVE  /\ Quiet /\ NothingPends /\ UNCHANGED <<children, writing, inodes, refs, dentry>>
           /\ thread' \in [Threads -> ThreadSet(Len(objs))]
           /\ \/ Moves(t, Idle)
              \/ /\ thread[t].obj # 0 /\ objs[thread[t].obj].status = "Remote"
                 /\ Moves(t, [thread[t] EXCEPT !.pc = "s3"])
<1>1. UNCHANGED <<children, writing, inodes, refs, dentry>> /\ Quiet /\ NothingPends
  BY AllSame DEF UnlinkLooked, superblock, kernel
<1>2. \/ Return(t)
      \/ /\ thread[t].obj # 0 /\ objs[thread[t].obj].status = "Remote"
         /\ thread' = [thread EXCEPT ![t].pc = "s3"]
  BY DEF UnlinkLooked
<1> QED  BY <1>1, <1>2, ReturnMoves, PcMoves

LEMMA DeleteObjectEffect ==
    ASSUME TypeOK, NEW t \in Threads, DeleteObject(t)
    PROVE  /\ Quiet /\ NothingPends /\ UNCHANGED <<children, writing, inodes, refs, dentry>>
           /\ thread' \in [Threads -> ThreadSet(Len(objs))]
           /\ Moves(t, Idle) \/ Moves(t, [thread[t] EXCEPT !.pc = "local"])
<1>1. UNCHANGED <<children, writing, inodes, refs, dentry>> /\ Quiet /\ NothingPends
  BY AllSame DEF DeleteObject, superblock, kernel
<1>2. Return(t) \/ thread' = [thread EXCEPT ![t].pc = "local"]
  BY DEF DeleteObject
<1> QED  BY <1>1, <1>2, ReturnMoves, PcMoves

LEMMA UnlinkEffect ==
    ASSUME TypeOK, NEW t \in Threads, Places(t), Unlink(t)
    PROVE  /\ Quiet /\ NothingPends /\ StatusSame /\ UNCHANGED <<writing, inodes, refs>> /\ EntriesDropped
           /\ thread' \in [Threads -> ThreadSet(Len(objs))] /\ Moves(t, Idle)
           /\ \A n \in Names : children'[n] # children[n] =>
                 children[n] # 0 /\ objs[children[n]].ino = objs[thread[t].obj].ino
<1> DEFINE o == thread[t].obj
           n == objs[o].name
           e == children[n]
<1>1. o \in 1 .. Len(objs)
  <2>1. o \in 0 .. Len(objs) /\ Len(objs) \in Nat
    BY TypeFacts DEF ThreadSet
  <2>2. o # 0
    BY DEF Unlink, Places
  <2> QED  BY <2>1, <2>2
<1>2. n \in Names /\ e \in 0 .. Len(objs)
  BY <1>1, TypeFacts DEF Obj, TypeOK
<1>3. UNCHANGED <<writing, nextIno, inodes, refs>> /\ Return(t) /\ dentry' = [dentry EXCEPT ![n] = 0]
  BY DEF Unlink
<1>4. EntriesDropped /\ thread' \in [Threads -> ThreadSet(Len(objs))] /\ Moves(t, Idle)
  BY <1>2, <1>3, ReturnMoves DEF EntriesDropped, TypeOK
<1>5. CASE e = 0
  <2>1. UNCHANGED <<objs, children>>
    BY <1>5 DEF Unlink
  <2> QED  BY <1>3, <1>4, <2>1, AllSame
<1>6. CASE e # 0 /\ objs[e].ino = objs[o].ino
  <2>1. UNCHANGED objs /\ children' = [children EXCEPT ![n] = 0]
    BY <1>6 DEF Unlink
  <2>2. Shrinks /\ \A m \in Names : m # n => children'[m] = children[m]
    BY <1>2, <2>1, ChildRemoved
  <2>3. Kept /\ StatusSame
    BY <2>1, ObjKept DEF StatusSame
  <2> QED  BY <1>3, <1>4, <1>6, <2>2, <2>3, QuietSame
<1>7. CASE e # 0 /\ objs[e].ino # objs[o].ino
  <2>1. UNCHANGED children /\ objs' = [objs EXCEPT ![e].ttl = 0]
    BY <1>7 DEF Unlink
  <2>2. e \in 1 .. Len(objs) /\ 0 \in 0 .. FileTtl /\ 0 \in Etags \cup {0}
    BY <1>2, <1>7, TypeFacts
  <2>3. objs[e].status \in {"LocalUnopened", "LocalOpenForWriting", "Remote", "PendingRename"}
    BY <2>2, TypeFacts DEF Obj
  <2> HIDE DEF e
  <2>4. Kept /\ objs'[e].status = objs[e].status /\ \A p \in 1 .. Len(objs) : p # e => objs'[p] = objs[p]
    BY <2>1, <2>2, <2>3, OneObject
  <2>5. StatusSame /\ Shrinks
    BY <2>1, <2>2, <2>4, ChildrenSame DEF StatusSame
  <2> QED  BY <1>3, <1>4, <2>1, <2>4, <2>5, QuietSame
<1> QED  BY <1>5, <1>6, <1>7

\* A step of a rename puts an object into PendingRename.
Pends(o) == /\ o \in 1 .. Len(objs) /\ objs[o].status = "Remote" /\ objs'[o].status = "PendingRename"
            /\ \A p \in 1 .. Len(objs) : p # o => objs'[p] = objs[p]

LEMMA PendsEffect ==
    ASSUME TypeOK, NEW o \in 1 .. Len(objs), objs[o].status = "Remote",
           objs' = [objs EXCEPT ![o].status = "PendingRename"], UNCHANGED <<children, writing, nextIno>>
    PROVE  Quiet /\ Pends(o)
<1>1. 0 \in 0 .. FileTtl /\ 0 \in Etags \cup {0}
  BY TypeFacts
<1>2. Kept /\ objs'[o].status = "PendingRename" /\ \A p \in 1 .. Len(objs) : p # o => objs'[p] = objs[p]
  BY <1>1, OneObject
<1>3. StaysLocal
  BY <1>2 DEF StaysLocal, Local
<1> QED  BY <1>2, <1>3, ChildrenSame DEF Quiet, Pends

LEMMA RenameSourceEffect ==
    ASSUME TypeOK, NEW t \in Threads, RenameSource(t)
    PROVE  /\ Quiet /\ UNCHANGED <<children, writing, inodes, refs, dentry>>
           /\ thread' \in [Threads -> ThreadSet(Len(objs))]
           /\ \/ NothingPends /\ StatusSame /\ Moves(t, Idle)
              \/ /\ Pends(thread[t].obj)
                 /\ Moves(t, [thread[t] EXCEPT !.pc = "cache", !.src = thread[t].obj, !.obj = 0])
<1> DEFINE o == thread[t].obj
           r == [thread[t] EXCEPT !.pc = "cache", !.src = thread[t].obj, !.obj = 0]
<1>1. UNCHANGED <<children, writing, nextIno, inodes, refs, dentry>>
  BY DEF RenameSource, kernel
<1>2. CASE Return(t) /\ UNCHANGED objs
  BY <1>1, <1>2, AllSame, ReturnMoves
<1>3. CASE /\ o # 0 /\ objs[o].status = "Remote"
           /\ objs' = [objs EXCEPT ![o].status = "PendingRename"]
           /\ thread' = [thread EXCEPT ![t].pc = "cache", ![t].src = o, ![t].obj = 0]
  <2>1. o \in 1 .. Len(objs) /\ o \in 0 .. Len(objs) /\ Len(objs) \in Nat
    BY <1>3, TypeFacts DEF ThreadSet
  <2>2. Quiet /\ Pends(o)
    BY <1>1, <1>3, <2>1, PendsEffect
  <2>3. thread' = [thread EXCEPT ![t] = r]
    BY <1>3, TypeFacts
  <2>4. r \in ThreadSet(Len(objs))
    <3>1. thread[t] \in ThreadSet(Len(objs)) /\ 0 \in 0 .. Len(objs)
      BY <2>1, TypeFacts
    <3> QED  BY <2>1, <3>1 DEF ThreadSet
  <2> HIDE DEF r
  <2>5. thread' \in [Threads -> ThreadSet(Len(objs))] /\ Moves(t, r)
    BY <2>3, <2>4, MovesHere
  <2> QED  BY <1>1, <2>2, <2>5 DEF r
<1> QED  BY <1>2, <1>3 DEF RenameSource

LEMMA RenameTargetEffect ==
    ASSUME TypeOK, NEW t \in Threads, RenameTarget(t)
    PROVE  /\ Quiet /\ UNCHANGED <<children, writing, inodes, refs, dentry>>
           /\ thread' \in [Threads -> ThreadSet(Len(objs))]
           /\ \/ NothingPends /\ StatusSame /\ thread[t].obj = 0 /\ Moves(t, [thread[t] EXCEPT !.pc = "s3"])
              \/ Pends(thread[t].obj) /\ Moves(t, [thread[t] EXCEPT !.pc = "s3"])
              \/ /\ NothingPends /\ Moves(t, Idle)
                 /\ objs'[thread[t].src].status # "PendingRename"
                 /\ \A o \in 1 .. Len(objs) : o # thread[t].src => objs'[o] = objs[o]
<1> DEFINE o == thread[t].obj
           c == thread[t].src
<1>1. UNCHANGED <<children, writing, nextIno, inodes, refs, dentry>>
  BY DEF RenameTarget, kernel
<1>2. CASE o = 0 /\ UNCHANGED objs /\ thread' = [thread EXCEPT ![t].pc = "s3"]
  BY <1>1, <1>2, AllSame, PcMoves
<1>3. CASE /\ o # 0 /\ objs[o].status = "Remote"
           /\ objs' = [objs EXCEPT ![o].status = "PendingRename"]
           /\ thread' = [thread EXCEPT ![t].pc = "s3"]
  <2>1. o \in 1 .. Len(objs)
    BY <1>3, TypeFacts DEF ThreadSet
  <2>2. Quiet /\ Pends(o)
    BY <1>1, <1>3, <2>1, PendsEffect
  <2> QED  BY <1>1, <1>3, <2>2, PcMoves
<1>4. CASE Return(t) /\ objs' = [objs EXCEPT ![c] = Unguard(c)]
  <2>1. c \in 1 .. Len(objs)
    BY TypeFacts DEF ThreadSet, RenameTarget
  <2> DEFINE x == Unguard(c)
  <2>2. /\ x \in Obj /\ x.ino = objs[c].ino /\ x.name = objs[c].name /\ x.kind = objs[c].kind
        /\ x.status = IF objs[c].status = "PendingRename" THEN "Remote" ELSE objs[c].status
    BY <2>1, UnguardFacts
  <2> HIDE DEF x, c
  <2>3. objs' = [objs EXCEPT ![c] = x]
    BY <1>4 DEF x
  <2>4. Kept /\ objs'[c] = x /\ \A p \in 1 .. Len(objs) : p # c => objs'[p] = objs[p]
    BY <2>1, <2>2, <2>3, ObjUpdate
  <2>5. StaysLocal /\ NothingPends /\ objs'[c].status # "PendingRename"
    BY <2>1, <2>2, <2>4 DEF StaysLocal, NothingPends, Local
  <2>6. thread' \in [Threads -> ThreadSet(Len(objs))] /\ Moves(t, Idle)
    BY <1>4, ReturnMoves
  <2> QED  BY <1>1, <2>4, <2>5, <2>6, ChildrenSame DEF Quiet, c
<1> QED  BY <1>2, <1>3, <1>4 DEF RenameTarget

LEMMA RenameObjectEffect ==
    ASSUME TypeOK, NEW t \in Threads, RenameObject(t)
    PROVE  /\ Quiet /\ NothingPends /\ UNCHANGED <<children, writing, inodes, refs, dentry>>
           /\ thread' \in [Threads -> ThreadSet(Len(objs))]
           /\ Moves(t, [thread[t] EXCEPT !.pc = "renamed"])
<1>1. UNCHANGED <<children, writing, inodes, refs, dentry>> /\ Quiet /\ NothingPends
  BY AllSame DEF RenameObject, superblock, kernel
<1> QED  BY <1>1, PcMoves DEF RenameObject

LEMMA RenameFailsEffect ==
    ASSUME TypeOK, NEW t \in Threads, RenameFails(t)
    PROVE  /\ Quiet /\ NothingPends /\ UNCHANGED <<children, writing, inodes, refs, dentry>>
           /\ thread' \in [Threads -> ThreadSet(Len(objs))] /\ Released(t) /\ Moves(t, Idle)
<1>1. UNCHANGED <<children, writing, nextIno, inodes, refs, dentry>> /\ Fail(t)
  BY DEF RenameFails, kernel
<1>2. Kept /\ thread' \in [Threads -> ThreadSet(Len(objs))] /\ Released(t) /\ Moves(t, Idle)
  BY <1>1, FailEffect
<1>3. StaysLocal /\ NothingPends
  BY <1>2 DEF Released, StaysLocal, NothingPends, Local
<1> QED  BY <1>1, <1>2, <1>3, ChildrenSame DEF Quiet

LEMMA RenameSucceedsEffect ==
    ASSUME TypeOK, NEW t \in Threads, RenameSucceeds(t)
    PROVE  /\ Quiet /\ NothingPends /\ UNCHANGED <<children, writing, inodes, refs, dentry>>
           /\ thread' \in [Threads -> ThreadSet(Len(objs))]
           /\ Moves(t, [thread[t] EXCEPT !.pc = "local"])
<1>1. UNCHANGED <<children, writing, inodes, refs, dentry>> /\ Quiet /\ NothingPends
  BY AllSame DEF RenameSucceeds, kernel
<1> QED  BY <1>1, PcMoves DEF RenameSucceeds

\* The last step of a rename: a second object with the number of the source.
RenamedTo(t) ==
    LET c == thread[t].src  i == objs[c].ino
    IN  /\ \E x \in Obj : Made(x) /\ x.ino = i /\ x.name = thread[t].dst /\ x.status = "Remote"
        /\ Len(objs) < MaxObjs
        /\ children' \in [Names -> 0 .. Len(objs) + 1]
        /\ children'[thread[t].dst] = Len(objs) + 1 /\ children'[thread[t].name] = 0
        /\ \A n \in Names \ {thread[t].dst, thread[t].name} : children'[n] = children[n]
        /\ inodes' \in InodeMap(Len(objs) + 1)
        /\ inodes'[i].obj = Len(objs) + 1
        /\ inodes'[i].count = IF inodes[i].obj = 0 THEN 1 ELSE inodes[i].count
        /\ \A j \in Inos : j # i => inodes'[j] = inodes[j]
        /\ dentry' \in [Names -> Inos \cup {0}]
        /\ \A n \in Names : dentry'[n] \in {0, dentry[n], dentry[thread[t].name]}
        /\ UNCHANGED <<writing, nextIno, refs>>

LEMMA RenameEffect ==
    ASSUME TypeOK, NEW t \in Threads, Places(t), Rename(t)
    PROVE  /\ RenamedTo(t) /\ thread' \in [Threads -> ThreadSet(Len(objs'))] /\ Moves(t, Idle)
           /\ thread[t].op = "rename" /\ thread[t].src \in 1 .. Len(objs)
           /\ thread[t].name \in Names /\ thread[t].dst \in Names /\ thread[t].name # thread[t].dst
<1> DEFINE c == thread[t].src
           i == objs[c].ino
           x == Renamed(t)
           k == Len(objs) + 1
<1>1. /\ c \in 1 .. Len(objs) /\ thread[t].op = "rename"
      /\ thread[t].name \in Names /\ thread[t].dst \in Names /\ thread[t].name # thread[t].dst
  BY TypeFacts DEF Rename, Places, ThreadSet
<1>2. objs[c] \in Obj /\ i \in Inos /\ FileTtl \in 0 .. FileTtl /\ Len(objs) \in Nat
  BY <1>1, TypeFacts DEF Obj
<1>3. x \in Obj /\ x.ino = i /\ x.name = thread[t].dst /\ x.status = "Remote"
  BY <1>1, <1>2 DEF Renamed, Obj
<1>4. Made(x) /\ Len(objs) < MaxObjs
  <2> HIDE DEF x
  <2>1. objs' = Append(objs, x) /\ Len(objs) < MaxObjs
    BY DEF Rename, x
  <2> QED  BY <1>3, <2>1, ObjMade
<1>5. /\ children' \in [Names -> 0 .. k] /\ children'[thread[t].dst] = k /\ children'[thread[t].name] = 0
      /\ \A n \in Names \ {thread[t].dst, thread[t].name} : children'[n] = children[n]
  <2>1. children' = [children EXCEPT ![thread[t].name] = 0, ![thread[t].dst] = k]
    BY DEF Rename
  <2>2. children \in [Names -> 0 .. Len(objs)]
    BY DEF TypeOK
  <2> QED  BY <1>1, <1>2, <2>1, <2>2
<1>6. /\ inodes' \in InodeMap(k) /\ inodes'[i].obj = k
      /\ inodes'[i].count = IF inodes[i].obj = 0 THEN 1 ELSE inodes[i].count
      /\ \A j \in Inos : j # i => inodes'[j] = inodes[j]
  <2>1. inodes \in [Inos -> [obj : 0 .. Len(objs), count : Nat]]
    BY DEF TypeOK
  <2>2. inodes' = [inodes EXCEPT ![i] = [obj |-> k, count |-> IF inodes[i].obj = 0 THEN 1 ELSE inodes[i].count]]
    BY DEF Rename
  <2> HIDE DEF i
  <2> QED  BY <1>2, <2>1, <2>2 DEF InodeMap
<1>7. /\ dentry' \in [Names -> Inos \cup {0}]
      /\ \A n \in Names : dentry'[n] \in {0, dentry[n], dentry[thread[t].name]}
  <2>1. dentry' = [dentry EXCEPT ![thread[t].dst] = dentry[thread[t].name], ![thread[t].name] = 0]
    BY DEF Rename, MovedEntry
  <2>2. dentry \in [Names -> Inos \cup {0}]
    BY DEF TypeOK
  <2> QED  BY <1>1, <2>1, <2>2
<1>8. thread' \in [Threads -> ThreadSet(Len(objs'))] /\ Moves(t, Idle)
  <2>1. thread' \in [Threads -> ThreadSet(Len(objs))] /\ Moves(t, Idle)
    BY ReturnMoves DEF Rename
  <2>2. ThreadSet(Len(objs)) \subseteq ThreadSet(k) /\ Len(objs') = k
    BY <1>2, <1>4, Wider DEF Made
  <2> QED  BY <2>1, <2>2
<1>9. UNCHANGED <<writing, nextIno, refs>>
  BY DEF Rename
<1> QED  BY <1>1, <1>3, <1>4, <1>5, <1>6, <1>7, <1>8, <1>9 DEF RenamedTo

\* A new request.
LEMMA RequestEffect ==
    ASSUME TypeOK, NEW t \in Threads, NEW op \in Ops, NEW n \in Names, NEW d \in Names, Request(t, op, n, d),
           References
    PROVE  /\ Quiet /\ NothingPends /\ UNCHANGED <<children, writing, inodes, refs, dentry>>
           /\ thread' \in [Threads -> ThreadSet(Len(objs))]
           /\ Moves(t, thread'[t])
           /\ thread'[t].op = op /\ thread'[t].pc = "cache" /\ thread'[t].obj = 0
           /\ thread'[t].name = n /\ thread'[t].dst = d /\ thread'[t].lock = LockFor(op, n)
           /\ IF op = "getattr" THEN thread'[t].src # 0 ELSE thread'[t].src = 0
           /\ op = "rename" => n # d
<1>1. UNCHANGED <<children, writing, inodes, refs, dentry>> /\ Quiet /\ NothingPends
  BY AllSame DEF Request, superblock
<1>2. op = "rename" => n # d
  BY DEF Request, Sent
<1>3. PICK i \in IF op = "getattr" THEN Known(n) ELSE {0} :
         thread' = [thread EXCEPT ![t] =
            [Idle EXCEPT !.op = op, !.pc = "cache", !.name = n, !.dst = d,
                         !.src = IF i = 0 THEN 0 ELSE inodes[i].obj,
                         !.pin = Known(n) \cup Known(d), !.lock = LockFor(op, n)]]
  BY DEF Request
<1> DEFINE src == IF i = 0 THEN 0 ELSE inodes[i].obj
           r == [Idle EXCEPT !.op = op, !.pc = "cache", !.name = n, !.dst = d, !.src = src,
                             !.pin = Known(n) \cup Known(d), !.lock = LockFor(op, n)]
<1>4. i \in Inos \cup {0} /\ (op = "getattr" => i \in Inos /\ refs[i] > 0) /\ (op # "getattr" => i = 0)
  BY DirectoryAssumption DEF Known, TypeOK, References, Inos
<1>5. src \in 0 .. Len(objs) /\ (IF op = "getattr" THEN src # 0 ELSE src = 0)
  <2>1. Len(objs) \in Nat /\ inodes \in [Inos -> [obj : 0 .. Len(objs), count : Nat]]
    BY TypeFacts DEF TypeOK
  <2>2. CASE op = "getattr"
    <3>1. i \in Inos /\ i # 0 /\ inodes[i].obj # 0
      BY <1>4, <2>2, DirectoryAssumption DEF References, Inos
    <3> QED  BY <2>1, <2>2, <3>1
  <2>3. CASE op # "getattr"
    BY <1>4, <2>1, <2>3
  <2> QED  BY <2>2, <2>3
<1>6. Known(n) \cup Known(d) \in SUBSET Inos
  BY DEF Known, TypeOK
<1>7. LockFor(op, n) \in {"none", "shared", "excl"}
  BY DEF LockFor
<1>8. Idle \in ThreadSet(Len(objs)) /\ Idle.obj = 0
  BY IdleTyped DEF Idle
<1> HIDE DEF src
<1>9. /\ r \in ThreadSet(Len(objs)) /\ r.op = op /\ r.pc = "cache" /\ r.obj = 0 /\ r.name = n /\ r.dst = d
      /\ r.src = src /\ r.lock = LockFor(op, n)
  BY <1>5, <1>6, <1>7, <1>8 DEF ThreadSet
<1>10. thread' = [thread EXCEPT ![t] = r]
  BY <1>3 DEF src
<1> HIDE DEF r
<1>11. thread' \in [Threads -> ThreadSet(Len(objs))] /\ Moves(t, r)
  BY <1>9, <1>10, MovesHere
<1>12. thread'[t] = r
  BY <1>11 DEF Moves
<1> QED  BY <1>1, <1>2, <1>5, <1>9, <1>11, <1>12

-----------------------------------------------------------------------------
\* What the other steps do

\* forget
Forgotten(i) ==
    /\ refs' \in [Inos -> Nat] /\ refs'[i] = 0 /\ \A j \in Inos : j # i => refs'[j] = refs[j] /\ inodes'[j] = inodes[j]
    /\ inodes' \in InodeMap(Len(objs))
    /\ \/ /\ inodes'[i].obj = inodes[i].obj /\ inodes[i].count > refs[i]
          /\ inodes'[i].count = inodes[i].count - refs[i]
          /\ UNCHANGED children
       \/ /\ inodes'[i] = NoInode
          /\ inodes[i].count <= refs[i]
          /\ \A n \in Names : children[n] # 0 /\ objs[children[n]].ino = i /\ n = objs[inodes[i].obj].name =>
                children'[n] = 0
    /\ dentry' \in [Names -> Inos \cup {0}]
    /\ \A n \in Names : dentry'[n] = IF dentry[n] = i THEN 0 ELSE dentry[n]

LEMMA ForgetEffect ==
    ASSUME TypeOK, NEW i \in Inos, Forget(i)
    PROVE  /\ Quiet /\ NothingPends /\ Forgotten(i) /\ refs[i] > 0 /\ UNCHANGED <<objs, thread>>
           /\ \A n \in Names : children'[n] # children[n] => objs[children[n]].ino = i
<1>1. UNCHANGED <<objs, nextIno, thread>> /\ Kept /\ StatusSame /\ refs[i] > 0
  BY ObjKept DEF Forget, StatusSame
<1>2. refs \in [Inos -> Nat] /\ inodes \in [Inos -> [obj : 0 .. Len(objs), count : Nat]]
  BY DEF TypeOK
<1>3. refs' \in [Inos -> Nat] /\ refs'[i] = 0 /\ \A j \in Inos : j # i => refs'[j] = refs[j]
  BY <1>2 DEF Forget
<1>4. /\ dentry' \in [Names -> Inos \cup {0}]
      /\ \A n \in Names : dentry'[n] = IF dentry[n] = i THEN 0 ELSE dentry[n]
  BY DEF Forget, TypeOK
<1>5. CASE inodes[i].count > refs[i]
  <2>1. inodes' = [inodes EXCEPT ![i].count = inodes[i].count - refs[i]] /\ UNCHANGED <<children, writing>>
    BY <1>5 DEF Forget
  <2>2. refs[i] \in Nat /\ inodes[i].count \in Nat /\ inodes[i].count - refs[i] \in Nat
    BY <1>2, <1>5
  <2>3. /\ inodes' \in [Inos -> [obj : 0 .. Len(objs), count : Nat]]
        /\ inodes'[i].obj = inodes[i].obj /\ inodes'[i].count = inodes[i].count - refs[i]
        /\ \A j \in Inos : j # i => inodes'[j] = inodes[j]
    BY <1>2, <2>1, <2>2
  <2> QED  BY <1>1, <1>3, <1>4, <1>5, <2>1, <2>3, ChildrenSame, QuietSame DEF Forgotten, InodeMap
<1>6. CASE ~(inodes[i].count > refs[i])
  <2>1. /\ inodes' = [inodes EXCEPT ![i] = NoInode]
        /\ writing' = writing \ {i}
        /\ children' = [n \in Names |->
                  IF n = objs[inodes[i].obj].name /\ children[n] # 0 /\ objs[children[n]].ino = i
                  THEN 0 ELSE children[n]]
    BY <1>6 DEF Forget
  <2>2. inodes[i].count <= refs[i]
    BY <1>2, <1>6
  <2>3. inodes' \in InodeMap(Len(objs)) /\ inodes'[i] = NoInode /\ \A j \in Inos : j # i => inodes'[j] = inodes[j]
    BY <1>2, <2>1, TypeFacts DEF NoInode, InodeMap
  <2>4. Shrinks /\ writing' \subseteq writing
    BY <2>1, TypeFacts DEF Shrinks, TypeOK
  <2>5. /\ \A n \in Names : children[n] # 0 /\ objs[children[n]].ino = i /\ n = objs[inodes[i].obj].name => children'[n] = 0
        /\ \A n \in Names : children'[n] # children[n] => objs[children[n]].ino = i
    BY <2>1
  <2> QED  BY <1>1, <1>3, <1>4, <2>2, <2>3, <2>4, <2>5, QuietSame DEF Forgotten
<1> QED  BY <1>5, <1>6

\* A file is written, or its stat refreshed.
Written(i, o) ==
    /\ o \in 1 .. Len(objs) /\ objs[o].ino = i
    /\ \A p \in 1 .. Len(objs) : p # o => objs'[p] = objs[p]
    /\ \/ UNCHANGED writing /\ objs'[o].status = objs[o].status
       \/ UNCHANGED writing /\ objs[o].kind = "file" /\ objs'[o].status = "LocalOpenForWriting"
       \/ writing' = writing \ {i} /\ objs[o].status = "LocalOpenForWriting" /\ objs'[o].status = "Remote"

LEMMA WriteEffect ==
    ASSUME TypeOK, Numbered, NEW i \in Inos,
           Setattr(i) \/ StartWriting(i) \/ PutObject(i) \/ FinishWriting(i)
    PROVE  /\ Quiet /\ NothingPends /\ UNCHANGED <<children, inodes, refs, dentry, thread>>
           /\ Written(i, inodes[i].obj)
<1> DEFINE o == inodes[i].obj
<1>1. UNCHANGED <<children, nextIno, inodes, refs, dentry, thread>> /\ Shrinks
  BY ChildrenSame DEF Setattr, StartWriting, PutObject, FinishWriting, kernel
<1>2. o # 0
  BY DEF Setattr, StartWriting, PutObject, FinishWriting
<1>3. o \in 1 .. Len(objs) /\ objs[o].ino = i
  BY <1>2, TypeFacts DEF TypeOK, Numbered
<1>4. objs[o].status \in {"LocalUnopened", "LocalOpenForWriting", "Remote", "PendingRename"} /\ objs[o].put \in Etags \cup {0}
  BY <1>3, TypeFacts DEF Obj
<1>5. FileTtl \in 0 .. FileTtl /\ 0 \in 0 .. FileTtl /\ 0 \in Etags \cup {0}
  BY TypeFacts
<1> HIDE DEF o
<1>6. CASE Setattr(i)
  <2>1. objs' = [objs EXCEPT ![o].ttl = FileTtl] /\ UNCHANGED writing
    BY <1>6 DEF Setattr, o
  <2>2. Kept /\ objs'[o].status = objs[o].status /\ \A p \in 1 .. Len(objs) : p # o => objs'[p] = objs[p]
    BY <1>3, <1>4, <1>5, <2>1, OneObject
  <2>3. StatusSame
    BY <1>3, <2>2 DEF StatusSame
  <2>4. Written(i, o)
    BY <1>3, <2>1, <2>2 DEF Written
  <2> QED  BY <1>1, <2>1, <2>2, <2>3, <2>4, QuietSame DEF o
<1>7. CASE StartWriting(i)
  <2>1. objs' = [objs EXCEPT ![o].status = "LocalOpenForWriting"] /\ UNCHANGED writing
    BY <1>7 DEF StartWriting, o
  <2>2. Kept /\ objs'[o].status = "LocalOpenForWriting" /\ \A p \in 1 .. Len(objs) : p # o => objs'[p] = objs[p]
    BY <1>3, <1>5, <2>1, OneObject
  <2>3. StaysLocal /\ NothingPends
    BY <1>3, <2>2 DEF StaysLocal, NothingPends, Local
  <2>4. objs[o].kind = "file"
    BY <1>7 DEF StartWriting, o
  <2>5. Written(i, o)
    BY <1>3, <2>1, <2>2, <2>4 DEF Written
  <2> QED  BY <1>1, <2>1, <2>2, <2>3, <2>5 DEF Quiet, o
<1>8. CASE PutObject(i)
  <2>1. PICK e \in Etags : objs' = [objs EXCEPT ![o].put = e]
    BY <1>8 DEF PutObject, o
  <2>2. UNCHANGED writing /\ e \in Etags \cup {0}
    BY <1>8 DEF PutObject
  <2>3. Kept /\ objs'[o].status = objs[o].status /\ \A p \in 1 .. Len(objs) : p # o => objs'[p] = objs[p]
    BY <1>3, <1>4, <1>5, <2>1, <2>2, OneObject
  <2>4. StatusSame
    BY <1>3, <2>3 DEF StatusSame
  <2>5. Written(i, o)
    BY <1>3, <2>2, <2>3 DEF Written
  <2> QED  BY <1>1, <2>2, <2>3, <2>4, <2>5, QuietSame DEF o
<1>9. CASE FinishWriting(i)
  <2>1. \/ objs' = [objs EXCEPT ![o] = [@ EXCEPT !.status = "Remote", !.etag = objs[o].put, !.ttl = FileTtl, !.put = 0]]
        \/ objs' = [objs EXCEPT ![o] = [@ EXCEPT !.status = "Remote", !.ttl = 0, !.put = 0]]
    BY <1>9 DEF FinishWriting, o
  <2>2. writing' = writing \ {i}
    BY <1>9 DEF FinishWriting
  <2>3. Kept /\ objs'[o].status = "Remote" /\ \A p \in 1 .. Len(objs) : p # o => objs'[p] = objs[p]
    BY <1>3, <1>4, <1>5, <2>1, OneObject
  <2>4. StaysLocal /\ NothingPends
    BY <1>3, <2>2, <2>3 DEF StaysLocal, NothingPends, Local
  <2>5. objs[o].status = "LocalOpenForWriting"
    BY <1>9 DEF FinishWriting, o
  <2>6. Written(i, o)
    BY <1>3, <2>2, <2>3, <2>5 DEF Written
  <2> QED  BY <1>1, <2>2, <2>3, <2>4, <2>6 DEF Quiet, o
<1> QED  BY <1>6, <1>7, <1>8, <1>9

LEMMA TickEffect ==
    ASSUME TypeOK, Tick
    PROVE  Quiet /\ NothingPends /\ StatusSame /\ UNCHANGED <<children, writing, inodes, refs, dentry, thread>>
<1> DEFINE f == [o \in DOMAIN objs |-> [objs[o] EXCEPT !.ttl = IF objs[o].ttl = 0 THEN 0 ELSE objs[o].ttl - 1]]
<1>1. UNCHANGED <<children, writing, nextIno, inodes, refs, dentry, thread>> /\ Shrinks /\ objs' = f
  BY ChildrenSame DEF Tick, kernel
<1>2. DOMAIN objs = 1 .. Len(objs) /\ FileTtl \in Nat
  BY TypeFacts
<1>3. ASSUME NEW o \in 1 .. Len(objs)
      PROVE  /\ f[o] \in Obj /\ f[o].ino = objs[o].ino /\ f[o].name = objs[o].name /\ f[o].kind = objs[o].kind
             /\ f[o].status = objs[o].status
  <2>1. objs[o] \in Obj /\ f[o] = [objs[o] EXCEPT !.ttl = IF objs[o].ttl = 0 THEN 0 ELSE objs[o].ttl - 1]
    BY <1>2, TypeFacts
  <2>2. (IF objs[o].ttl = 0 THEN 0 ELSE objs[o].ttl - 1) \in 0 .. FileTtl
    BY <1>2, <2>1 DEF Obj
  <2> HIDE DEF f
  <2> QED  BY <2>1, <2>2 DEF Obj
<1>4. f \in [1 .. Len(objs) -> Obj]
  BY <1>2, <1>3
<1> HIDE DEF f
<1>5. Kept /\ StatusSame
  BY <1>1, <1>3, <1>4, ObjsUpdate DEF StatusSame
<1> QED  BY <1>1, <1>5, QuietSame

-----------------------------------------------------------------------------
\* Type correctness

\* The variables that the rest of the invariant is not about.
RestTyped ==
    /\ mount \in Mounts
    /\ negative \in [Names -> 0 .. NegativeTtl]
    /\ renames \in {"unknown", "yes", "no"}
    /\ sent \in 0 .. mount.maxRequests
    /\ s3 \in [Names -> Etags \cup {0}]
    /\ s3dirs \subseteq Names
    /\ foreign \in 0 .. mount.maxRemote

LEMMA RestStep ==
    ASSUME TypeOK, \A t \in Threads : Places(t), Numbered, Step, mount' = mount
    PROVE  RestTyped'
<1>1. RestTyped /\ NegativeTtl' = NegativeTtl /\ NegativeTtl \in Nat
  BY TypeFacts DEF TypeOK, RestTyped, NegativeTtl
<1>2. mount.names \subseteq Names /\ mount.maxRequests \in Nat /\ mount.maxRemote \in Nat
  BY TypeFacts
<1>3. ASSUME UNCHANGED <<negative, renames, sent, s3, s3dirs, foreign>> PROVE RestTyped'
  BY <1>1, <1>3 DEF RestTyped
<1>4. ASSUME NEW t \in Threads, LookupStep(t) PROVE RestTyped'
  <2>1. CASE UpdateNegative(t)
    <3>1. negative' \in [Names -> 0 .. NegativeTtl]
      <4>1. negative' = [negative EXCEPT ![Target(t)] = IF FoundKind(t) = "none" THEN NegativeTtl ELSE 0]
        BY <2>1 DEF UpdateNegative
      <4>2. negative \in [Names -> 0 .. NegativeTtl] /\ NegativeTtl \in 0 .. NegativeTtl /\ 0 \in 0 .. NegativeTtl
        BY <1>1 DEF RestTyped
      <4> QED  BY <4>1, <4>2
    <3> QED  BY <1>1, <2>1, <3>1 DEF UpdateNegative, RestTyped, kernel, remote
  <2>2. CASE LookupReturns(t)
    BY <1>3, <2>2 DEF LookupReturns, Remember, kernel, remote
  <2> QED  BY <1>3, <1>4, <2>1, <2>2 DEF LookupStep, CacheLookup, Getattr, HeadObject, ListObjects, LookupFails,
                                         Update, superblock, kernel, remote
<1>5. ASSUME NEW t \in Threads, ChangeStep(t) PROVE RestTyped'
  <2>1. CASE CreateReturns(t)
    BY <1>3, <2>1 DEF CreateReturns, Remember, remote
  <2>2. CASE DeleteObject(t)
    <3>1. s3' \in [Names -> Etags \cup {0}]
      BY <1>1, <2>2 DEF DeleteObject, RestTyped
    <3> QED  BY <1>1, <2>2, <3>1 DEF DeleteObject, RestTyped, superblock, kernel
  <2>3. AfterRename(t) \in [Names -> Etags \cup {0}]
    <3>1. thread[t].name \in Names
      BY TypeFacts DEF ThreadSet
    <3> QED  BY <1>1, <3>1 DEF AfterRename, RestTyped
  <2>4. CASE RenameObject(t)
    BY <1>1, <2>3, <2>4 DEF RenameObject, RestTyped, superblock, kernel
  <2>5. CASE RenameFails(t)
    <3>1. s3' \in [Names -> Etags \cup {0}] /\ renames' \in {"unknown", "yes", "no"}
      BY <1>1, <2>3, <2>5 DEF RenameFails, RestTyped
    <3> QED  BY <1>1, <2>5, <3>1 DEF RenameFails, RestTyped, kernel
  <2>6. CASE RenameSucceeds(t)
    <3>1. negative' \in [Names -> 0 .. NegativeTtl]
      <4>1. negative' = [negative EXCEPT ![thread[t].dst] = 0]
        BY <2>6 DEF RenameSucceeds
      <4>2. negative \in [Names -> 0 .. NegativeTtl] /\ 0 \in 0 .. NegativeTtl
        BY <1>1 DEF RestTyped
      <4> QED  BY <4>1, <4>2
    <3>2. renames' \in {"unknown", "yes", "no"}
      BY <1>1, <2>6 DEF RenameSucceeds, RestTyped
    <3> QED  BY <1>1, <2>6, <3>1, <3>2 DEF RenameSucceeds, RestTyped, kernel, remote
  <2> QED  BY <1>3, <1>5, <2>1, <2>2, <2>4, <2>5, <2>6
           DEF ChangeStep, CreateLooked, Create, Rmdir, UnlinkLooked, Unlink, RenameSource, RenameTarget, Rename,
               superblock, kernel, remote
<1>6. ASSUME NEW t \in Threads, NEW op \in Ops \ {"write", "setattr"}, NEW n \in mount.names, NEW d \in mount.names,
             Request(t, op, n, d)
      PROVE  RestTyped'
  BY <1>1, <1>2, <1>6 DEF Request, RestTyped, superblock, remote
<1>7. ASSUME NEW i \in Inos, InodeStep(i) PROVE RestTyped'
  <2>1. CASE PutObject(i)
    <3>1. s3' \in [Names -> Etags \cup {0}]
      BY <1>1, <2>1 DEF PutObject, RestTyped
    <3> QED  BY <1>1, <2>1, <3>1 DEF PutObject, RestTyped, kernel
  <2> QED  BY <1>3, <1>7, <2>1 DEF InodeStep, Forget, Setattr, StartWriting, FinishWriting, kernel, remote
<1>8. CASE Tick
  <2>1. negative' \in [Names -> 0 .. NegativeTtl]
    BY <1>1, <1>8, SMTT(30) DEF Tick, RestTyped
  <2> QED  BY <1>1, <1>8, <2>1 DEF Tick, RestTyped, kernel, remote
<1>9. ASSUME NEW n \in mount.names, OtherClientChanges(n) PROVE RestTyped'
  <2>1. foreign' \in 0 .. mount.maxRemote /\ s3' \in [Names -> Etags \cup {0}] /\ s3dirs' \subseteq Names
    BY <1>1, <1>2, <1>9 DEF OtherClientChanges, RestTyped
  <2> QED  BY <1>1, <1>9, <2>1 DEF OtherClientChanges, RestTyped, superblock, kernel
<1> QED  BY <1>4, <1>5, <1>6, <1>7, <1>8, <1>9 DEF Step

\* The kinds of steps, for what does not depend on where the threads are.
ThreadsTyped == thread' \in [Threads -> ThreadSet(Len(objs'))]

QuietStep == Quiet /\ UNCHANGED <<inodes, refs>> /\ EntriesDropped
RememberStep == \E o \in 1 .. Len(objs) : Quiet /\ UNCHANGED objs /\ Remembered(o)
ForgetStep == \E i \in Inos : Quiet /\ UNCHANGED objs /\ Forgotten(i) /\ refs[i] > 0
CreateStep == \E n \in Names, kind \in {"file", "dir"}, status \in {"LocalUnopened", "Remote"} :
                  /\ Creates(n, kind, status) /\ UNCHANGED <<inodes, refs>> /\ EntriesDropped
                  /\ status = "LocalUnopened" =>
                        /\ Ops \cap {"create", "mkdir"} # {}
                        /\ \E t \in Threads : thread[t].op \in {"create", "mkdir"} /\ Moves(t, thread'[t])
                                             /\ thread'[t].op = thread[t].op
RenameStep == \E t \in Threads :
                  /\ RenamedTo(t) /\ Moves(t, Idle)
                  /\ thread[t].op = "rename" /\ thread[t].src \in 1 .. Len(objs)
                  /\ thread[t].name \in Names /\ thread[t].dst \in Names /\ thread[t].name # thread[t].dst

Coarse == ThreadsTyped /\ (QuietStep \/ RememberStep \/ ForgetStep \/ CreateStep \/ RenameStep)

LEMMA UpdateEffect ==
    ASSUME TypeOK, Numbered, NEW t \in Threads, Update(t)
    PROVE  /\ Coarse /\ UNCHANGED <<inodes, refs, dentry>>
           /\ \/ NothingRemote(t, Target(t), children[Target(t)])
              \/ LocalShadowsRemote(t, children[Target(t)])
              \/ UpdateInPlace(t, children[Target(t)])
              \/ Recreate(t, Target(t), children[Target(t)])
<1>1. UNCHANGED <<inodes, refs, dentry>> /\ EntriesDropped
  BY DentrySame DEF Update, kernel
<1>2. \/ NothingRemote(t, Target(t), children[Target(t)])
      \/ LocalShadowsRemote(t, children[Target(t)])
      \/ UpdateInPlace(t, children[Target(t)])
      \/ Recreate(t, Target(t), children[Target(t)])
  BY DEF Update
<1>3. CASE NothingRemote(t, Target(t), children[Target(t)])
  BY <1>1, <1>2, <1>3, NothingRemoteEffect DEF Coarse, ThreadsTyped, QuietStep, Quiet, Kept
<1>4. CASE LocalShadowsRemote(t, children[Target(t)])
  BY <1>1, <1>2, <1>4, LocalShadowsEffect DEF Coarse, ThreadsTyped, QuietStep, Quiet, Kept
<1>5. CASE UpdateInPlace(t, children[Target(t)])
  BY <1>1, <1>2, <1>5, UpdateInPlaceEffect DEF Coarse, ThreadsTyped, QuietStep, Quiet, Kept
<1>6. CASE Recreate(t, Target(t), children[Target(t)])
  <2>1. /\ thread' \in [Threads -> ThreadSet(Len(objs'))]
        /\ Creates(Target(t), FoundKind(t), "Remote") /\ FoundKind(t) \in {"file", "dir"}
    BY <1>6, RecreateEffect
  <2>2. Target(t) \in Names
    BY TargetFacts
  <2>3. CreateStep
    BY <1>1, <2>1, <2>2 DEF CreateStep
  <2> QED  BY <1>1, <1>2, <2>1, <2>3 DEF Coarse, ThreadsTyped
<1> QED  BY <1>2, <1>3, <1>4, <1>5, <1>6

LEMMA LookupCoarse ==
    ASSUME TypeOK, Numbered, NEW t \in Threads, Places(t), LookupStep(t)
    PROVE  Coarse
<1>1. ASSUME Quiet, UNCHANGED <<inodes, refs, dentry>>, thread' \in [Threads -> ThreadSet(Len(objs))] PROVE Coarse
  BY <1>1, DentrySame DEF Coarse, ThreadsTyped, QuietStep, Quiet, Kept
<1>2. ASSUME Kept, UNCHANGED <<children, writing, nextIno, inodes, refs, dentry>>, StatusSame,
             thread' \in [Threads -> ThreadSet(Len(objs))] PROVE Coarse
  <2>1. Quiet
    BY <1>2, ChildrenSame, QuietSame
  <2> QED  BY <1>1, <1>2, <2>1
<1>3. CASE CacheLookup(t)
  <2>1. UNCHANGED <<objs, children, writing, nextIno, inodes, refs, dentry>>
    BY <1>3 DEF CacheLookup, superblock, kernel
  <2> QED  BY <1>1, <1>3, <2>1, CacheLookupEffect, AllSame
<1>4. CASE Getattr(t)
  <2>1. UNCHANGED <<children, writing, nextIno, inodes, refs, dentry>>
    BY <1>4 DEF Getattr, kernel
  <2> QED  BY <1>2, <1>4, <2>1, GetattrEffect DEF StatusSame
<1>5. CASE HeadObject(t)
  <2>1. UNCHANGED <<objs, children, writing, nextIno, inodes, refs, dentry>>
    BY <1>5 DEF HeadObject, superblock, kernel
  <2> QED  BY <1>1, <1>5, <2>1, HeadObjectEffect, AllSame
<1>6. CASE ListObjects(t)
  <2>1. UNCHANGED <<objs, children, writing, nextIno, inodes, refs, dentry>>
    BY <1>6 DEF ListObjects, superblock, kernel
  <2> QED  BY <1>1, <1>6, <2>1, ListObjectsEffect, AllSame
<1>7. CASE LookupFails(t)
  BY <1>1, <1>7, LookupFailsEffect
<1>8. CASE UpdateNegative(t)
  <2>1. UNCHANGED <<inodes, refs, dentry>>
    BY <1>8 DEF UpdateNegative, kernel
  <2> QED  BY <1>1, <1>8, <2>1, UpdateNegativeEffect
<1>9. CASE Update(t)
  BY <1>9, UpdateEffect
<1>10. CASE LookupReturns(t)
  BY <1>10, LookupReturnsEffect DEF Coarse, ThreadsTyped, QuietStep, RememberStep, Quiet, Kept
<1> QED  BY <1>3, <1>4, <1>5, <1>6, <1>7, <1>8, <1>9, <1>10 DEF LookupStep

LEMMA ChangeCoarse ==
    ASSUME TypeOK, Numbered, NEW t \in Threads, Places(t), ChangeStep(t)
    PROVE  Coarse
<1>1. ASSUME Quiet, UNCHANGED <<inodes, refs>>, EntriesDropped \/ UNCHANGED dentry,
             thread' \in [Threads -> ThreadSet(Len(objs))] PROVE Coarse
  BY <1>1, DentrySame DEF Coarse, ThreadsTyped, QuietStep, Quiet, Kept
<1>2. CASE CreateLooked(t)
  BY <1>1, <1>2, CreateLookedEffect
<1>3. CASE Create(t)
  <2>1. thread' \in [Threads -> ThreadSet(Len(objs'))] /\ UNCHANGED <<inodes, refs, dentry>> /\ EntriesDropped
    BY <1>3, CreateEffect, DentrySame
  <2>2. CASE Quiet
    BY <2>1, <2>2 DEF Coarse, ThreadsTyped, QuietStep
  <2>3. CASE /\ \E kind \in {"file", "dir"} : Creates(thread[t].name, kind, "LocalUnopened")
             /\ Moves(t, [thread[t] EXCEPT !.pc = "remember", !.obj = Len(objs) + 1])
    <3>1. /\ thread[t].name \in Names /\ thread[t].op \in Ops \cup {"none", "readdir"}
          /\ thread[t] \in ThreadSet(Len(objs))
      BY TypeFacts DEF ThreadSet
    <3>2. thread[t].op \in {"create", "mkdir"}
      BY <1>3 DEF Create, Places
    <3>3. Ops \cap {"create", "mkdir"} # {}
      BY <3>1, <3>2
    <3>4. Moves(t, thread'[t]) /\ thread'[t].op = thread[t].op
      BY <2>3, <3>1 DEF Moves, ThreadSet
    <3> QED  BY <2>1, <2>3, <3>1, <3>2, <3>3, <3>4 DEF Coarse, ThreadsTyped, CreateStep
  <2> QED  BY <1>3, <2>2, <2>3, CreateEffect
<1>4. CASE CreateReturns(t)
  BY <1>4, CreateReturnsEffect DEF Coarse, ThreadsTyped, RememberStep
<1>5. CASE Rmdir(t)
  BY <1>1, <1>5, RmdirEffect
<1>6. CASE UnlinkLooked(t)
  BY <1>1, <1>6, UnlinkLookedEffect
<1>7. CASE DeleteObject(t)
  BY <1>1, <1>7, DeleteObjectEffect
<1>8. CASE Unlink(t)
  BY <1>1, <1>8, UnlinkEffect
<1>9. CASE RenameSource(t)
  BY <1>1, <1>9, RenameSourceEffect
<1>10. CASE RenameTarget(t)
  BY <1>1, <1>10, RenameTargetEffect
<1>11. CASE RenameObject(t)
  BY <1>1, <1>11, RenameObjectEffect
<1>12. CASE RenameFails(t)
  BY <1>1, <1>12, RenameFailsEffect
<1>13. CASE RenameSucceeds(t)
  BY <1>1, <1>13, RenameSucceedsEffect
<1>14. CASE Rename(t)
  BY <1>14, RenameEffect DEF Coarse, ThreadsTyped, RenameStep
<1> QED  BY <1>2, <1>3, <1>4, <1>5, <1>6, <1>7, <1>8, <1>9, <1>10, <1>11, <1>12, <1>13, <1>14 DEF ChangeStep

LEMMA OtherClientEffect ==
    ASSUME TypeOK, NEW n, OtherClientChanges(n)
    PROVE  Quiet /\ NothingPends /\ UNCHANGED <<children, writing, inodes, refs, dentry, thread>>
BY AllSame DEF OtherClientChanges, superblock, kernel

LEMMA StepCoarse ==
    ASSUME TypeOK, Numbered, References, \A t \in Threads : Places(t), Step
    PROVE  Coarse
<1>1. ASSUME Quiet, UNCHANGED <<inodes, refs, dentry>>, thread' \in [Threads -> ThreadSet(Len(objs))] PROVE Coarse
  BY <1>1, DentrySame DEF Coarse, ThreadsTyped, QuietStep, Quiet, Kept
<1>2. thread \in [Threads -> ThreadSet(Len(objs))] /\ mount.names \subseteq Names
  BY TypeFacts
<1>3. ASSUME NEW t \in Threads, LookupStep(t) \/ ChangeStep(t) PROVE Coarse
  BY <1>3, LookupCoarse, ChangeCoarse
<1>4. ASSUME NEW t \in Threads, NEW op \in Ops \ {"write", "setattr"}, NEW n \in mount.names, NEW d \in mount.names,
             Request(t, op, n, d)
      PROVE  Coarse
  BY <1>1, <1>2, <1>4, RequestEffect
<1>5. ASSUME NEW i \in Inos, InodeStep(i) PROVE Coarse
  <2>1. CASE Forget(i)
    <3>1. Quiet /\ Forgotten(i) /\ refs[i] > 0 /\ UNCHANGED <<objs, thread>>
      BY <2>1, ForgetEffect
    <3> QED  BY <1>2, <3>1 DEF Coarse, ThreadsTyped, ForgetStep
  <2>2. CASE Setattr(i) \/ StartWriting(i) \/ PutObject(i) \/ FinishWriting(i)
    BY <1>1, <1>2, <2>2, WriteEffect
  <2> QED  BY <1>5, <2>1, <2>2 DEF InodeStep
<1>6. CASE Tick
  BY <1>1, <1>2, <1>6, TickEffect
<1>7. ASSUME NEW n \in mount.names, OtherClientChanges(n) PROVE Coarse
  BY <1>1, <1>2, <1>7, OtherClientEffect
<1> QED  BY <1>3, <1>4, <1>5, <1>6, <1>7 DEF Step

LEMMA TypeFrom ==
    ASSUME TypeOK, mount' = mount, RestTyped', ThreadsTyped,
           objs' \in Seq(Obj), Len(objs') <= MaxObjs, children' \in [Names -> 0 .. Len(objs')], writing' \subseteq Inos,
           nextIno' \in 1 .. MaxObjs + 1, inodes' \in InodeMap(Len(objs')), refs' \in [Inos -> Nat],
           dentry' \in [Names -> Inos \cup {0}]
    PROVE  TypeOK'
<1>1. Obj' = Obj /\ Ops' = Ops
  BY DEF Obj, FileTtl, Ops
<1>2. thread' \in [Threads -> ThreadSet(Len(objs))]'
  BY <1>1 DEF ThreadsTyped, ThreadSet
<1> QED  BY <1>1, <1>2 DEF TypeOK, RestTyped, InodeMap, ThreadSet

LEMMA TypeStep ==
    ASSUME TypeOK, Numbered, Coarse, mount' = mount, RestTyped'
    PROVE  TypeOK'
<1>1. /\ objs \in Seq(Obj) /\ Len(objs) \in Nat /\ Len(objs) <= MaxObjs /\ MaxObjs \in Nat
      /\ children \in [Names -> 0 .. Len(objs)] /\ writing \subseteq Inos
      /\ nextIno \in 1 .. MaxObjs + 1 /\ inodes \in InodeMap(Len(objs)) /\ refs \in [Inos -> Nat]
  BY TypeFacts, DirectoryAssumption DEF TypeOK, InodeMap
<1>2. ThreadsTyped
  BY DEF Coarse
<1>3. CASE QuietStep
  <2>1. /\ objs' \in Seq(Obj) /\ Len(objs') = Len(objs) /\ children' \in [Names -> 0 .. Len(objs)]
        /\ writing' \subseteq writing /\ nextIno' = nextIno /\ inodes' = inodes /\ refs' = refs
        /\ dentry' \in [Names -> Inos \cup {0}]
    BY <1>3 DEF QuietStep, Quiet, Kept, Shrinks, EntriesDropped
  <2> QED  BY <1>1, <1>2, <2>1, TypeFrom
<1>4. CASE RememberStep
  <2>1. /\ objs' \in Seq(Obj) /\ Len(objs') = Len(objs) /\ children' \in [Names -> 0 .. Len(objs)]
        /\ writing' \subseteq writing /\ nextIno' = nextIno /\ inodes' \in InodeMap(Len(objs)) /\ refs' \in [Inos -> Nat]
        /\ dentry' \in [Names -> Inos \cup {0}]
    BY <1>4 DEF RememberStep, Quiet, Kept, Shrinks, Remembered
  <2> QED  BY <1>1, <1>2, <2>1, TypeFrom
<1>5. CASE ForgetStep
  <2>1. /\ objs' \in Seq(Obj) /\ Len(objs') = Len(objs) /\ children' \in [Names -> 0 .. Len(objs)]
        /\ writing' \subseteq writing /\ nextIno' = nextIno /\ inodes' \in InodeMap(Len(objs)) /\ refs' \in [Inos -> Nat]
        /\ dentry' \in [Names -> Inos \cup {0}]
    BY <1>5 DEF ForgetStep, Quiet, Kept, Shrinks, Forgotten
  <2> QED  BY <1>1, <1>2, <2>1, TypeFrom
<1>6. CASE CreateStep
  <2>1. /\ objs' \in Seq(Obj) /\ Len(objs') = Len(objs) + 1 /\ Len(objs) < MaxObjs
        /\ children' \in [Names -> 0 .. Len(objs) + 1]
        /\ nextIno \in Inos /\ nextIno' = nextIno + 1 /\ writing' \subseteq writing \cup {nextIno}
        /\ inodes' = inodes /\ refs' = refs /\ dentry' \in [Names -> Inos \cup {0}]
    BY <1>6 DEF CreateStep, Creates, Made, EntriesDropped
  <2>2. inodes' \in InodeMap(Len(objs) + 1)
    BY <1>1, <2>1 DEF InodeMap
  <2>3. nextIno' \in 1 .. MaxObjs + 1 /\ Len(objs') <= MaxObjs /\ writing' \subseteq Inos
    BY <1>1, <2>1 DEF Inos
  <2> QED  BY <1>1, <1>2, <2>1, <2>2, <2>3, TypeFrom
<1>7. CASE RenameStep
  <2>1. /\ objs' \in Seq(Obj) /\ Len(objs') = Len(objs) + 1 /\ Len(objs) < MaxObjs
        /\ children' \in [Names -> 0 .. Len(objs) + 1]
        /\ nextIno' = nextIno /\ writing' = writing
        /\ inodes' \in InodeMap(Len(objs) + 1) /\ refs' = refs /\ dentry' \in [Names -> Inos \cup {0}]
    BY <1>7 DEF RenameStep, RenamedTo, Made
  <2> QED  BY <1>1, <1>2, <2>1, TypeFrom
<1> QED  BY <1>3, <1>4, <1>5, <1>6, <1>7 DEF Coarse

-----------------------------------------------------------------------------
\* Numbers

LEMMA Typed ==
    ASSUME TypeOK
    PROVE  /\ Len(objs) \in Nat /\ DOMAIN objs = 1 .. Len(objs) /\ nextIno \in Nat
           /\ \A o \in 1 .. Len(objs) : objs[o].ino \in Inos /\ objs[o].ino \in Nat \ {0}
           /\ inodes \in [Inos -> [obj : 0 .. Len(objs), count : Nat]]
           /\ children \in [Names -> 0 .. Len(objs)]
           /\ refs \in [Inos -> Nat]
<1>1. MaxObjs \in Nat
  BY DirectoryAssumption
<1>2. \A o \in 1 .. Len(objs) : objs[o].ino \in Inos
  BY TypeFacts DEF Obj
<1>3. Inos \subseteq Nat \ {0}
  BY <1>1 DEF Inos
<1>4. nextIno \in Nat
  BY <1>1 DEF TypeOK
<1>5. \A o \in 1 .. Len(objs) : objs[o].ino \in Inos /\ objs[o].ino \in Nat \ {0}
  BY <1>2, <1>3
<1>6. /\ inodes \in [Inos -> [obj : 0 .. Len(objs), count : Nat]] /\ children \in [Names -> 0 .. Len(objs)]
      /\ refs \in [Inos -> Nat]
  BY DEF TypeOK
<1> QED  BY <1>4, <1>5, <1>6, TypeFacts

LEMMA NumberedStep ==
    ASSUME TypeOK, Numbered, Coarse, TypeOK'
    PROVE  Numbered'
<1>1. /\ Len(objs) \in Nat /\ DOMAIN objs = 1 .. Len(objs) /\ nextIno \in Nat
      /\ \A o \in 1 .. Len(objs) : objs[o].ino \in Nat
      /\ inodes \in [Inos -> [obj : 0 .. Len(objs), count : Nat]]
  BY Typed
<1>2. /\ nextIno <= Len(objs) + 1 /\ \A o \in 1 .. Len(objs) : objs[o].ino < nextIno
      /\ \A i \in Inos : inodes[i].obj # 0 => inodes[i].obj \in 1 .. Len(objs) /\ objs[inodes[i].obj].ino = i
  BY <1>1 DEF Numbered
<1>3. DOMAIN objs' = 1 .. Len(objs')
  BY DEF TypeOK
<1>4. ASSUME Quiet, \A i \in Inos : inodes'[i].obj # 0 => inodes'[i].obj \in 1 .. Len(objs) /\ objs[inodes'[i].obj].ino = i
      PROVE  Numbered'
  <2>1. Len(objs') = Len(objs) /\ nextIno' = nextIno /\ \A o \in 1 .. Len(objs) : objs'[o].ino = objs[o].ino
    BY <1>4 DEF Quiet, Kept, SameInode
  <2> QED  BY <1>2, <1>3, <1>4, <2>1 DEF Numbered
<1>5. CASE QuietStep
  BY <1>2, <1>4, <1>5 DEF QuietStep
<1>6. CASE RememberStep
  <2>1. PICK o \in 1 .. Len(objs) : Quiet /\ Remembered(o)
    BY <1>6 DEF RememberStep
  <2>2. \A i \in Inos : inodes'[i].obj # 0 => inodes'[i].obj \in 1 .. Len(objs) /\ objs[inodes'[i].obj].ino = i
    BY <1>2, <2>1 DEF Remembered
  <2> QED  BY <1>4, <2>1, <2>2
<1>7. CASE ForgetStep
  <2>1. PICK i \in Inos : Quiet /\ Forgotten(i)
    BY <1>7 DEF ForgetStep
  <2>2. \A j \in Inos : inodes'[j].obj \in {0, inodes[j].obj}
    BY <2>1 DEF Forgotten, NoInode
  <2> QED  BY <1>2, <1>4, <2>1, <2>2
<1>8. CASE CreateStep
  <2>1. PICK x \in Obj : Made(x) /\ x.ino = nextIno
    BY <1>8 DEF CreateStep, Creates
  <2>2. nextIno' = nextIno + 1 /\ inodes' = inodes
    BY <1>8 DEF CreateStep, Creates
  <2> QED  BY <1>1, <1>2, <1>3, <2>1, <2>2 DEF Numbered, Made
<1>9. CASE RenameStep
  <2>1. PICK t \in Threads : RenamedTo(t) /\ thread[t].src \in 1 .. Len(objs)
    BY <1>9 DEF RenameStep
  <2> DEFINE i == objs[thread[t].src].ino
  <2>2. PICK x \in Obj : Made(x) /\ x.ino = i
    BY <2>1 DEF RenamedTo
  <2>3. /\ nextIno' = nextIno /\ inodes'[i].obj = Len(objs) + 1
        /\ \A j \in Inos : j # i => inodes'[j] = inodes[j]
    BY <2>1 DEF RenamedTo
  <2>4. i < nextIno
    BY <1>2, <2>1
  <2> HIDE DEF i
  <2>5. nextIno' <= Len(objs') + 1 /\ \A o \in DOMAIN objs' : objs'[o].ino < nextIno'
    BY <1>1, <1>2, <1>3, <2>2, <2>3, <2>4 DEF Made
  <2>6. \A j \in Inos : inodes'[j].obj # 0 => objs'[inodes'[j].obj].ino = j
    BY <1>1, <1>2, <2>2, <2>3 DEF Made
  <2> QED  BY <2>5, <2>6 DEF Numbered
<1> QED  BY <1>5, <1>6, <1>7, <1>8, <1>9 DEF Coarse

-----------------------------------------------------------------------------
\* Entries

\* Entries and OneObjectPerInode, for one name.
Only(o) == \A p \in 1 .. Len(objs) : objs[p].ino = objs[o].ino => p = o
EntryOK(n) ==
    LET c == children[n]
    IN  c # 0 => /\ objs[c].name = n /\ inodes[objs[c].ino].obj \in {0, c} /\ Latest(c)
                 /\ inodes[objs[c].ino].obj = 0 => Only(c)

LEMMA EntriesByName ==
    ASSUME DOMAIN objs = 1 .. Len(objs)
    PROVE  Entries /\ OneObjectPerInode <=> \A n \in Names : EntryOK(n)
BY DEF Entries, OneObjectPerInode, EntryOK, Only

LEMMA LatestOf ==
    ASSUME TypeOK, NEW o \in 1 .. Len(objs), NEW p \in 1 .. Len(objs),
           Latest(o), Latest(p), objs[o].ino = objs[p].ino
    PROVE  o = p
<1>1. DOMAIN objs = 1 .. Len(objs)
  BY Typed
<1>2. o <= p /\ p <= o
  BY <1>1 DEF Latest
<1> QED  BY <1>2

LEMMA KeepsLatest ==
    ASSUME TypeOK, TypeOK', Kept, NEW o \in 1 .. Len(objs)
    PROVE  (Latest(o) => Latest(o)') /\ (Only(o) => Only(o)')
<1>1. DOMAIN objs = 1 .. Len(objs) /\ DOMAIN objs' = 1 .. Len(objs) /\ Len(objs') = Len(objs)
  BY Typed DEF TypeOK, Kept
<1>2. \A p \in 1 .. Len(objs) : objs'[p].ino = objs[p].ino
  BY DEF Kept, SameInode
<1> QED  BY <1>1, <1>2 DEF Latest, Only

LEMMA CreatedLatest ==
    ASSUME TypeOK, TypeOK', Numbered, NEW x \in Obj, Made(x), x.ino = nextIno, NEW k, k = Len(objs) + 1
    PROVE  /\ \A o \in 1 .. Len(objs) : (Latest(o) => Latest(o)') /\ (Only(o) => Only(o)')
           /\ Latest(k)' /\ Only(k)'
<1>1. DOMAIN objs = 1 .. Len(objs) /\ DOMAIN objs' = 1 .. k /\ Len(objs') = k /\ Len(objs) \in Nat
  BY Typed DEF TypeOK, Made
<1>2. /\ \A p \in 1 .. Len(objs) : objs'[p].ino = objs[p].ino /\ objs[p].ino < nextIno /\ objs[p].ino # nextIno
      /\ objs'[k].ino = nextIno
  BY <1>1, Typed DEF Made, Numbered
<1>3. \A o \in 1 .. Len(objs) : (Latest(o) => Latest(o)') /\ (Only(o) => Only(o)')
  BY <1>1, <1>2 DEF Latest, Only
<1>4. Latest(k)' /\ Only(k)'
  BY <1>1, <1>2 DEF Latest, Only
<1> QED  BY <1>3, <1>4

LEMMA EntriesStep ==
    ASSUME TypeOK, TypeOK', Numbered, References, RenameObjects, Entries, OneObjectPerInode, Coarse
    PROVE  Entries' /\ OneObjectPerInode'
<1>1. /\ Len(objs) \in Nat /\ DOMAIN objs = 1 .. Len(objs) /\ DOMAIN objs' = 1 .. Len(objs')
      /\ \A o \in 1 .. Len(objs) : objs[o].ino \in Inos /\ objs[o].ino \in Nat \ {0}
      /\ children \in [Names -> 0 .. Len(objs)] /\ children' \in [Names -> 0 .. Len(objs')]
      /\ inodes \in [Inos -> [obj : 0 .. Len(objs), count : Nat]]
  <2>1. DOMAIN objs' = 1 .. Len(objs') /\ children' \in [Names -> 0 .. Len(objs')]
    BY DEF TypeOK
  <2> QED  BY <2>1, Typed
<1>2. \A n \in Names : EntryOK(n)
  BY <1>1, EntriesByName
<1>3. ASSUME NEW n \in Names, children'[n] # 0, children'[n] = children[n],
             NEW c, c = children[n], c \in 1 .. Len(objs),
             objs'[c].name = objs[c].name, objs'[c].ino = objs[c].ino,
             Latest(c) => Latest(c)',
             Only(c) => Only(c)',
             inodes'[objs[c].ino].obj = inodes[objs[c].ino].obj
      PROVE  EntryOK(n)'
  BY <1>2, <1>3 DEF EntryOK
<1>4. SUFFICES ASSUME NEW n \in Names, children'[n] # 0 PROVE EntryOK(n)'
  <2>1. \A n \in Names : EntryOK(n)'
    BY <1>4 DEF EntryOK
  <2> QED  BY <1>1, <2>1 DEF Entries, OneObjectPerInode, EntryOK, Only
<1>c. PICK c : c = children[n]
  OBVIOUS
<1>5. ASSUME Quiet
      PROVE  /\ children'[n] = c /\ c \in 1 .. Len(objs) /\ objs'[c].name = objs[c].name /\ objs'[c].ino = objs[c].ino
             /\ Latest(c) => Latest(c)'
             /\ Only(c) => Only(c)'
  <2>1. children'[n] = c /\ c \in 1 .. Len(objs)
    BY <1>1, <1>4, <1>5, <1>c DEF Quiet, Shrinks
  <2> QED  BY <1>5, <2>1, KeepsLatest DEF Quiet, Kept, SameInode
<1>6. CASE QuietStep
  BY <1>3, <1>4, <1>5, <1>6, <1>c DEF QuietStep
<1>7. CASE RememberStep
  <2>1. PICK o \in 1 .. Len(objs) : Quiet /\ Remembered(o)
    BY <1>7 DEF RememberStep
  <2>2. CASE objs[c].ino # objs[o].ino
    <3>1. inodes'[objs[c].ino] = inodes[objs[c].ino]
      BY <1>1, <1>5, <2>1, <2>2 DEF Remembered
    <3> QED  BY <1>3, <1>4, <1>5, <2>1, <3>1, <1>c
  <2>3. CASE objs[c].ino = objs[o].ino
    <3>1. inodes'[objs[c].ino].obj = c
      <4>1. CASE inodes[objs[c].ino].obj = 0
        <5>1. o = c
          BY <1>2, <1>5, <2>1, <2>3, <4>1, <1>c DEF EntryOK, Only
        <5> QED  BY <2>1, <2>3, <4>1, <5>1 DEF Remembered
      <4>2. CASE inodes[objs[c].ino].obj # 0
        BY <1>2, <1>4, <1>5, <2>1, <2>3, <4>2, <1>c DEF EntryOK, Remembered
      <4> QED  BY <4>1, <4>2
    <3>2. objs[c].name = n /\ Latest(c)
      BY <1>2, <1>4, <1>5, <2>1, <1>c DEF EntryOK
    <3>3. c # 0 /\ objs'[c].ino = objs[c].ino /\ objs'[c].name = n /\ children'[n] = c /\ Latest(c)'
      BY <1>1, <1>5, <2>1, <3>2
    <3> QED  BY <3>1, <3>3 DEF EntryOK
  <2> QED  BY <2>2, <2>3
<1>8. CASE ForgetStep
  <2>1. PICK i \in Inos : Quiet /\ Forgotten(i) /\ refs[i] > 0
    BY <1>8 DEF ForgetStep
  <2>2. CASE objs[c].ino # i
    <3>1. inodes'[objs[c].ino] = inodes[objs[c].ino]
      BY <1>1, <1>5, <2>1, <2>2 DEF Forgotten
    <3> QED  BY <1>3, <1>4, <1>5, <2>1, <3>1, <1>c
  <2>3. CASE objs[c].ino = i
    <3>1. inodes[i].obj # 0
      BY <2>1 DEF References
    <3>2. inodes[i].obj = c /\ objs[c].name = n
      BY <1>2, <1>4, <1>5, <2>1, <2>3, <3>1, <1>c DEF EntryOK
    <3>3. children'[n] = c /\ c # 0
      BY <1>1, <1>5, <2>1
    <3>4. inodes'[i].obj = inodes[i].obj
      BY <1>c, <2>1, <2>3, <3>2, <3>3 DEF Forgotten
    <3> QED  BY <1>3, <1>4, <1>5, <2>1, <2>3, <3>4, <1>c
  <2> QED  BY <2>2, <2>3
<1>9. CASE CreateStep
  <2>1. PICK m \in Names, x \in Obj :
            /\ Made(x) /\ x.ino = nextIno /\ x.name = m
            /\ children'[m] = Len(objs) + 1 /\ \A k \in Names : k # m => children'[k] = children[k]
    BY <1>9 DEF CreateStep, Creates
  <2>2. inodes' = inodes /\ nextIno \in Inos
    BY <1>9 DEF CreateStep, Creates
  <2>3. CASE n = m
    <3>k. PICK k : k = Len(objs) + 1
      OBVIOUS
    <3>1. /\ children'[n] = k /\ objs'[k] = x /\ Latest(k)' /\ Only(k)'
      BY <2>1, <2>3, <3>k, CreatedLatest DEF Made
    <3>2. inodes'[nextIno].obj = 0
      <4>1. inodes[nextIno].obj # 0 => nextIno < nextIno
        BY <1>1, <2>2 DEF Numbered
      <4> QED  BY <2>2, <4>1, Typed
    <3> QED  BY <2>1, <2>3, <3>1, <3>2 DEF EntryOK
  <2>4. CASE n # m
    <3>1. children'[n] = c /\ c \in 1 .. Len(objs)
      BY <1>1, <1>4, <2>1, <2>4, <1>c
    <3>2. objs'[c] = objs[c] /\ (Latest(c) => Latest(c)') /\ (Only(c) => Only(c)')
      BY <2>1, <3>1, CreatedLatest DEF Made
    <3> QED  BY <1>3, <1>4, <2>2, <3>1, <3>2, <1>c
  <2> QED  BY <2>3, <2>4
<1>10. CASE RenameStep
  <2>1. PICK t \in Threads :
            /\ RenamedTo(t) /\ thread[t].op = "rename" /\ thread[t].src \in 1 .. Len(objs)
            /\ thread[t].name \in Names /\ thread[t].dst \in Names /\ thread[t].name # thread[t].dst
    BY <1>10 DEF RenameStep
  <2> DEFINE s == thread[t].src
             i == objs[s].ino
  <2>k. PICK k : k = Len(objs) + 1
    OBVIOUS
  <2>2. PICK x \in Obj : Made(x) /\ x.ino = i /\ x.name = thread[t].dst
    BY <2>1 DEF RenamedTo
  <2>3. /\ children'[thread[t].dst] = k /\ children'[thread[t].name] = 0
        /\ \A m \in Names \ {thread[t].dst, thread[t].name} : children'[m] = children[m]
        /\ inodes'[i].obj = k /\ \A j \in Inos : j # i => inodes'[j] = inodes[j]
    BY <2>1, <2>k DEF RenamedTo
  <2>4. Latest(s) /\ objs[s].name = thread[t].name
    BY <1>1, <2>1 DEF RenameObjects
  <2>5. /\ Len(objs') = k /\ objs'[k] = x /\ \A o \in 1 .. Len(objs) : objs'[o] = objs[o]
    BY <2>2, <2>k DEF Made
  <2>6. CASE n = thread[t].dst
    <3>1. Latest(k)'
      BY <1>1, <2>5, <2>k DEF Latest
    <3>2. k # 0
      BY <1>1, <2>k
    <3> QED  BY <2>2, <2>3, <2>5, <2>6, <3>1, <3>2 DEF EntryOK
  <2>7. CASE n # thread[t].dst
    <3>1. children'[n] = c /\ c \in 1 .. Len(objs) /\ n # thread[t].name
      BY <1>1, <1>4, <2>3, <2>7, <1>c
    <3>2. objs[c].name = n /\ Latest(c)
      BY <1>2, <3>1, <1>c DEF EntryOK
    <3>3. objs[c].ino # i
      BY <2>1, <2>4, <3>1, <3>2, LatestOf
    <3>4. Latest(c) => Latest(c)'
      <4> SUFFICES ASSUME Latest(c), NEW p \in DOMAIN objs', objs'[p].ino = objs'[c].ino PROVE p <= c
        BY DEF Latest
      <4>1. p \in 1 .. Len(objs) \/ p = k
        BY <1>1, <2>5, <2>k
      <4>2. p # k
        BY <2>2, <2>5, <3>1, <3>3
      <4>3. p \in 1 .. Len(objs) /\ objs[p].ino = objs[c].ino
        BY <2>5, <3>1, <4>1, <4>2
      <4> QED  BY <1>1, <4>3 DEF Latest
    <3>5. Only(c) => Only(c)'
      BY <1>1, <2>2, <2>5, <2>k, <3>1, <3>3, SMTT(30) DEF Only
    <3>6. inodes'[objs[c].ino] = inodes[objs[c].ino]
      BY <1>1, <2>3, <3>1, <3>3
    <3> QED  BY <1>3, <1>4, <2>5, <3>1, <3>4, <3>5, <3>6, <1>c
  <2> QED  BY <2>6, <2>7
<1> QED  BY <1>6, <1>7, <1>8, <1>9, <1>10 DEF Coarse

-----------------------------------------------------------------------------
\* Counts

LEMMA ReferencesStep ==
    ASSUME TypeOK, TypeOK', References, Coarse, mount' = mount
    PROVE  References'
<1>1. /\ inodes \in [Inos -> [obj : 0 .. Len(objs), count : Nat]] /\ refs \in [Inos -> Nat]
      /\ \A o \in 1 .. Len(objs) : objs[o].ino \in Inos
      /\ Len(objs) \in Nat
  BY Typed
<1>2. /\ \A n \in Names : dentry[n] \in Inos \cup {0} /\ (dentry[n] # 0 => dentry[n] \in Inos /\ refs[dentry[n]] > 0)
      /\ \A i \in Inos : refs[i] > 0 => inodes[i].obj # 0 /\ inodes[i].count >= refs[i]
      /\ "rename" \notin Ops => \A i \in Inos : inodes[i].count = refs[i]
  BY DEF References, TypeOK
<1>3. Ops' = Ops
  BY DEF Ops
<1>4. ASSUME UNCHANGED <<inodes, refs>>, EntriesDropped PROVE References'
  <2>1. \A n \in Names : dentry'[n] # 0 => refs'[dentry'[n]] > 0
    BY <1>2, <1>4 DEF EntriesDropped
  <2> QED  BY <1>2, <1>3, <1>4, <2>1 DEF References
<1>5. CASE QuietStep
  BY <1>4, <1>5 DEF QuietStep
<1>6. CASE RememberStep
  <2>1. PICK o \in 1 .. Len(objs) : Remembered(o)
    BY <1>6 DEF RememberStep
  <2> DEFINE i == objs[o].ino
  <2>2. /\ refs'[i] = refs[i] + 1
        /\ inodes'[i].obj = IF inodes[i].obj = 0 THEN o ELSE inodes[i].obj
        /\ inodes'[i].count = IF inodes[i].obj = 0 THEN 1 ELSE inodes[i].count + 1
        /\ \A j \in Inos : j # i => refs'[j] = refs[j] /\ inodes'[j] = inodes[j]
        /\ \A n \in Names : dentry'[n] \in {0, i, dentry[n]}
    BY <2>1 DEF Remembered
  <2>3. i \in Inos /\ refs[i] \in Nat /\ inodes[i].count \in Nat /\ (inodes[i].obj = 0 => refs[i] = 0)
    BY <1>1, <1>2
  <2> HIDE DEF i
  <2>4. \A n \in Names : dentry'[n] # 0 => refs'[dentry'[n]] > 0
    BY <1>2, <2>2, <2>3
  <2>5. \A j \in Inos : refs'[j] > 0 => inodes'[j].obj # 0 /\ inodes'[j].count >= refs'[j]
    <3> SUFFICES ASSUME NEW j \in Inos, refs'[j] > 0 PROVE inodes'[j].obj # 0 /\ inodes'[j].count >= refs'[j]
      OBVIOUS
    <3>1. CASE j = i
      BY <1>2, <2>1, <2>2, <2>3, <3>1
    <3>2. CASE j # i
      BY <1>2, <2>2, <3>2
    <3> QED  BY <3>1, <3>2
  <2>6. "rename" \notin Ops => \A j \in Inos : inodes'[j].count = refs'[j]
    BY <1>2, <2>2, <2>3
  <2> QED  BY <1>3, <2>4, <2>5, <2>6 DEF References
<1>7. CASE ForgetStep
  <2>1. PICK i \in Inos : Forgotten(i)
    BY <1>7 DEF ForgetStep
  <2>2. /\ refs'[i] = 0 /\ \A j \in Inos : j # i => refs'[j] = refs[j] /\ inodes'[j] = inodes[j]
        /\ \/ inodes'[i] = NoInode
           \/ inodes[i].count > refs[i]
        /\ \A n \in Names : dentry'[n] = IF dentry[n] = i THEN 0 ELSE dentry[n]
    BY <2>1 DEF Forgotten
  <2>3. \A n \in Names : dentry'[n] # 0 => refs'[dentry'[n]] > 0
    BY <1>2, <2>2
  <2>4. \A j \in Inos : refs'[j] > 0 => inodes'[j].obj # 0 /\ inodes'[j].count >= refs'[j]
    BY <1>2, <2>2
  <2>5. "rename" \notin Ops => \A j \in Inos : inodes'[j].count = refs'[j]
    <3> SUFFICES ASSUME "rename" \notin Ops, NEW j \in Inos PROVE inodes'[j].count = refs'[j]
      OBVIOUS
    <3>1. CASE j = i
      <4>1. inodes[i].count = refs[i] /\ refs[i] \in Nat
        BY <1>1, <1>2
      <4>2. inodes'[i] = NoInode
        BY <2>2, <4>1
      <4> QED  BY <2>2, <3>1, <4>2 DEF NoInode
    <3>2. CASE j # i
      BY <1>2, <2>2, <3>2
    <3> QED  BY <3>1, <3>2
  <2> QED  BY <1>3, <2>3, <2>4, <2>5 DEF References
<1>8. CASE CreateStep
  BY <1>4, <1>8 DEF CreateStep
<1>9. CASE RenameStep
  <2>1. PICK t \in Threads : RenamedTo(t) /\ thread[t].op = "rename" /\ thread[t].src \in 1 .. Len(objs) /\ thread[t].name \in Names
    BY <1>9 DEF RenameStep
  <2> DEFINE i == objs[thread[t].src].ino
  <2>2. /\ refs' = refs /\ inodes'[i].obj = Len(objs) + 1
        /\ inodes'[i].count = IF inodes[i].obj = 0 THEN 1 ELSE inodes[i].count
        /\ \A j \in Inos : j # i => inodes'[j] = inodes[j]
        /\ \A n \in Names : dentry'[n] \in {0, dentry[n], dentry[thread[t].name]}
    BY <2>1 DEF RenamedTo
  <2>3. "rename" \in Ops
    BY <2>1, TypeFacts DEF ThreadSet
  <2>4. \A n \in Names : dentry'[n] # 0 => refs'[dentry'[n]] > 0
    BY <1>2, <2>1, <2>2
  <2>5. \A j \in Inos : refs'[j] > 0 => inodes'[j].obj # 0 /\ inodes'[j].count >= refs'[j]
    BY <1>1, <1>2, <2>2, SMTT(30)
  <2> QED  BY <1>3, <2>3, <2>4, <2>5 DEF References
<1> QED  BY <1>5, <1>6, <1>7, <1>8, <1>9 DEF Coarse

\* The entry of a rename's source is not new.
LEMMA WritingStep ==
    ASSUME TypeOK, TypeOK', Numbered, WritingLocal, Removals, Coarse, mount' = mount
    PROVE  WritingLocal'
<1>1. /\ Len(objs) \in Nat /\ DOMAIN objs = 1 .. Len(objs) /\ nextIno \in Nat
      /\ \A o \in 1 .. Len(objs) : objs[o].ino \in Nat
  BY Typed
<1>2. DOMAIN objs' = 1 .. Len(objs') /\ Ops' = Ops /\ writing \subseteq Nat
  BY DirectoryAssumption DEF TypeOK, Ops, Inos
<1>3. /\ \A i \in writing : i < nextIno
      /\ \A o \in 1 .. Len(objs) : objs[o].ino \in writing => objs[o].status \in Local
      /\ Ops \cap {"create", "mkdir"} = {} => writing = {}
      /\ \A o \in 1 .. Len(objs) : objs[o].ino < nextIno
  BY <1>1 DEF WritingLocal, Local, Numbered
<1>4. ASSUME Quiet PROVE WritingLocal'
  <2>1. /\ Len(objs') = Len(objs) /\ writing' \subseteq writing /\ nextIno' = nextIno
        /\ \A o \in 1 .. Len(objs) : objs'[o].ino = objs[o].ino
        /\ \A o \in 1 .. Len(objs) : objs[o].ino \in writing' /\ objs[o].status \in Local => objs'[o].status \in Local
    BY <1>4 DEF Quiet, Kept, SameInode, StaysLocal
  <2> QED  BY <1>2, <1>3, <2>1 DEF WritingLocal, Local
<1>5. CASE QuietStep \/ RememberStep \/ ForgetStep
  BY <1>4, <1>5 DEF QuietStep, RememberStep, ForgetStep
<1>6. CASE CreateStep
  <2>1. PICK x \in Obj, status \in {"LocalUnopened", "Remote"} :
            /\ Made(x) /\ x.ino = nextIno /\ x.status = status
            /\ nextIno' = nextIno + 1
            /\ writing' \subseteq writing \cup (IF status = "Remote" THEN {} ELSE {nextIno})
            /\ status = "LocalUnopened" => Ops \cap {"create", "mkdir"} # {}
    BY <1>6 DEF CreateStep, Creates
  <2>2. /\ Len(objs') = Len(objs) + 1 /\ objs'[Len(objs) + 1] = x
        /\ \A o \in 1 .. Len(objs) : objs'[o] = objs[o]
    BY <2>1 DEF Made
  <2>3. nextIno \notin writing
    BY <1>1, <1>3
  <2>4. \A i \in writing' : i < nextIno'
    BY <1>1, <1>2, <1>3, <2>1
  <2>5. \A o \in DOMAIN objs' : objs'[o].ino \in writing' => objs'[o].status \in Local
    <3> SUFFICES ASSUME NEW o \in 1 .. Len(objs) + 1, objs'[o].ino \in writing' PROVE objs'[o].status \in Local
      BY <1>2, <2>2
    <3>1. CASE o = Len(objs) + 1
      BY <2>1, <2>2, <2>3, <3>1 DEF Local
    <3>2. CASE o # Len(objs) + 1
      <4>1. o \in 1 .. Len(objs) /\ objs'[o] = objs[o] /\ objs[o].ino # nextIno
        BY <1>1, <1>3, <2>2, <3>2
      <4> QED  BY <1>3, <2>1, <4>1
    <3> QED  BY <3>1, <3>2
  <2>6. Ops \cap {"create", "mkdir"} = {} => writing' = {}
    BY <1>3, <2>1
  <2> QED  BY <1>2, <2>4, <2>5, <2>6 DEF WritingLocal, Local
<1>7. CASE RenameStep
  <2>1. PICK t \in Threads : RenamedTo(t) /\ thread[t].op = "rename" /\ thread[t].src \in 1 .. Len(objs)
    BY <1>7 DEF RenameStep
  <2>2. PICK x \in Obj : Made(x) /\ x.ino = objs[thread[t].src].ino
    BY <2>1 DEF RenamedTo
  <2>3. UNCHANGED <<writing, nextIno>>
    BY <2>1 DEF RenamedTo
  <2>4. x.ino \notin writing
    BY <1>1, <2>1, <2>2 DEF Removals, NotNew
  <2>5. /\ Len(objs') = Len(objs) + 1 /\ objs'[Len(objs) + 1] = x
        /\ \A o \in 1 .. Len(objs) : objs'[o] = objs[o]
    BY <2>2 DEF Made
  <2>6. \A o \in DOMAIN objs' : objs'[o].ino \in writing' => objs'[o].status \in Local
    BY <1>1, <1>2, <1>3, <2>3, <2>4, <2>5
  <2> QED  BY <1>2, <1>3, <2>3, <2>6 DEF WritingLocal, Local
<1> QED  BY <1>5, <1>6, <1>7 DEF Coarse

-----------------------------------------------------------------------------
\* Where a request goes

OthersStay(t) == \A u \in Threads : u # t => thread'[u] = thread[u]
SameRequest(t) ==
    /\ thread'[t].op = thread[t].op /\ thread'[t].lock = thread[t].lock
    /\ thread'[t].name = thread[t].name /\ thread'[t].dst = thread[t].dst
    /\ thread'[t].pin = thread[t].pin
SameSource(t) == SameRequest(t) /\ thread'[t].src = thread[t].src

\* It ends, ...
Ends(t) == thread'[t] = Idle

\* goes on with what it has, ...
Goes(t) ==
    /\ SameSource(t) /\ thread'[t].obj = thread[t].obj
    /\ \/ thread[t].pc \in {"cache", "remote", "negative"} /\ thread'[t].pc \in {"remote", "negative", "update"}
       \/ /\ thread[t].pc = "looked" /\ thread'[t].pc = "insert"
          /\ thread[t].op \in {"create", "mkdir"} /\ thread[t].obj = 0
       \/ /\ thread[t].pc = "looked" /\ thread'[t].pc = "s3" /\ thread[t].op = "unlink"
          /\ thread[t].obj # 0 /\ objs[thread[t].obj].status = "Remote"
       \/ /\ thread[t].pc = "looked" /\ thread'[t].pc = "s3" /\ thread[t].op = "rename" /\ thread[t].src # 0
          /\ thread[t].obj # 0 => Pends(thread[t].obj)
       \/ thread[t].pc = "s3" /\ thread'[t].pc = "local" /\ thread[t].op = "unlink"
       \/ thread[t].pc = "s3" /\ thread'[t].pc = "renamed" /\ thread[t].op = "rename"
       \/ thread[t].pc = "renamed" /\ thread'[t].pc = "local"

\* finds the entry of its target, ...
Finds(t) ==
    /\ SameSource(t) /\ thread[t].pc \in {"cache", "update"} /\ thread'[t].pc = "looked"
    /\ thread'[t].obj = children[Target(t)] /\ children[Target(t)] # 0 /\ UNCHANGED children

\* or nothing, ...
FindsNothing(t) ==
    /\ SameSource(t) /\ thread[t].pc \in {"cache", "remote", "update"} /\ thread'[t].pc = "looked"
    /\ thread'[t].obj = 0
    /\ Cache \/ MayFail \/ children'[Target(t)] = 0

\* makes an inode ...
Makes(t) ==
    /\ SameSource(t) /\ thread'[t].obj = Len(objs) + 1
    /\ \/ /\ thread[t].pc = "update" /\ thread'[t].pc = "looked"
          /\ \E kind \in {"file", "dir"} : Creates(Target(t), kind, "Remote")
       \/ /\ thread[t].pc = "insert" /\ thread'[t].pc = "remember"
          /\ \E kind \in {"file", "dir"} : Creates(thread[t].name, kind, "LocalUnopened")

\* or has found what it renames.
HasSource(t) ==
    /\ SameRequest(t) /\ thread[t].pc = "looked" /\ thread'[t].pc = "cache"
    /\ thread[t].op = "rename" /\ thread[t].src = 0
    /\ thread'[t].src = thread[t].obj /\ thread'[t].obj = 0
    /\ Pends(thread[t].obj)

Outcome(t) ==
    /\ OthersStay(t)
    /\ Ends(t) \/ Goes(t) \/ Finds(t) \/ FindsNothing(t) \/ Makes(t) \/ HasSource(t)

LEMMA EndsOutcome == ASSUME NEW t \in Threads, Moves(t, Idle) PROVE Outcome(t) /\ Ends(t)
BY DEF Moves, Outcome, OthersStay, Ends

LEMMA PcOutcome ==
    ASSUME TypeOK, NEW t \in Threads, NEW pc, Moves(t, [thread[t] EXCEPT !.pc = pc])
    PROVE  OthersStay(t) /\ SameSource(t) /\ thread'[t].obj = thread[t].obj /\ thread'[t].pc = pc
<1>1. thread[t] \in ThreadSet(Len(objs))
  BY TypeFacts
<1>2. thread'[t] = [thread[t] EXCEPT !.pc = pc]
  BY DEF Moves
<1> QED  BY <1>1, <1>2 DEF Moves, OthersStay, SameSource, SameRequest, ThreadSet

LEMMA LookedOutcome ==
    ASSUME TypeOK, NEW t \in Threads, NEW o, Moves(t, LookedAs(t, o))
    PROVE  OthersStay(t) /\ SameSource(t) /\ thread'[t].obj = o /\ thread'[t].pc = "looked"
<1>1. thread[t] \in ThreadSet(Len(objs))
  BY TypeFacts
<1>2. thread'[t] = [thread[t] EXCEPT !.pc = "looked", !.obj = o, !.head = -1, !.list = "pending"]
  BY DEF Moves, LookedAs
<1> QED  BY <1>1, <1>2 DEF Moves, OthersStay, SameSource, SameRequest, ThreadSet

LEMMA AnswerOutcome ==
    ASSUME TypeOK, NEW t \in Threads, NEW h, NEW l, thread[t].pc = "remote",
           Moves(t, [thread[t] EXCEPT !.head = h, !.list = l, !.pc = AnswerPc(h, l)])
    PROVE  Outcome(t)
<1>1. thread[t] \in ThreadSet(Len(objs))
  BY TypeFacts
<1>2. thread'[t] = [thread[t] EXCEPT !.head = h, !.list = l, !.pc = AnswerPc(h, l)]
  BY DEF Moves
<1>3. OthersStay(t) /\ SameSource(t) /\ thread'[t].obj = thread[t].obj /\ thread'[t].pc = AnswerPc(h, l)
  BY <1>1, <1>2 DEF Moves, OthersStay, SameSource, SameRequest, ThreadSet
<1>4. AnswerPc(h, l) \in {"remote", "negative", "update"}
  BY DEF AnswerPc
<1> QED  BY <1>3, <1>4 DEF Outcome, Goes

LEMMA LookupOutcome ==
    ASSUME TypeOK, Numbered, NEW t \in Threads, Places(t), LookupStep(t)
    PROVE  Outcome(t)
<1>1. CASE CacheLookup(t)
  <2>1. thread[t].pc = "cache" /\ UNCHANGED children
    BY <1>1 DEF CacheLookup, superblock
  <2>2. CASE Moves(t, LookedAs(t, children[Target(t)])) /\ children[Target(t)] # 0
    BY <2>1, <2>2, LookedOutcome DEF Outcome, Finds
  <2>3. CASE Moves(t, LookedAs(t, 0)) /\ Cache
    BY <2>1, <2>3, LookedOutcome DEF Outcome, FindsNothing
  <2>4. CASE Moves(t, [thread[t] EXCEPT !.pc = "remote"])
    BY <2>1, <2>4, PcOutcome DEF Outcome, Goes
  <2> QED  BY <1>1, <2>2, <2>3, <2>4, CacheLookupEffect
<1>2. CASE Getattr(t)
  <2>1. thread[t].pc = "cache"
    BY <1>2 DEF Getattr
  <2>2. CASE Moves(t, Idle)
    BY <2>2, EndsOutcome
  <2>3. CASE Moves(t, [thread[t] EXCEPT !.pc = "remote"])
    BY <2>1, <2>3, PcOutcome DEF Outcome, Goes
  <2> QED  BY <1>2, <2>2, <2>3, GetattrEffect
<1>3. CASE HeadObject(t)
  <2>1. thread[t].pc = "remote"
    BY <1>3 DEF HeadObject
  <2> QED  BY <1>3, <2>1, HeadObjectEffect, AnswerOutcome
<1>4. CASE ListObjects(t)
  <2>1. thread[t].pc = "remote"
    BY <1>4 DEF ListObjects
  <2> QED  BY <1>4, <2>1, ListObjectsEffect, AnswerOutcome
<1>5. CASE LookupFails(t)
  <2>1. thread[t].pc = "remote" /\ MayFail
    BY <1>5 DEF LookupFails
  <2>2. CASE Moves(t, Idle)
    BY <2>2, EndsOutcome
  <2>3. CASE Moves(t, LookedAs(t, 0))
    BY <2>1, <2>3, LookedOutcome DEF Outcome, FindsNothing
  <2> QED  BY <1>5, <2>2, <2>3, LookupFailsEffect
<1>6. CASE UpdateNegative(t)
  <2>1. thread[t].pc = "negative"
    BY <1>6 DEF UpdateNegative
  <2> QED  BY <1>6, <2>1, UpdateNegativeEffect, PcOutcome DEF Outcome, Goes
<1>7. CASE Update(t)
  <2>1. thread[t].pc = "update"
    BY <1>7 DEF Update
  <2>2. CASE Moves(t, LookedAs(t, children[Target(t)])) /\ children[Target(t)] # 0 /\ UNCHANGED children
    BY <2>1, <2>2, LookedOutcome DEF Outcome, Finds
  <2>3. CASE Moves(t, LookedAs(t, 0)) /\ children'[Target(t)] = 0
    BY <2>1, <2>3, LookedOutcome DEF Outcome, FindsNothing
  <2>4. CASE Moves(t, LookedAs(t, Len(objs) + 1)) /\ \E kind \in {"file", "dir"} : Creates(Target(t), kind, "Remote")
    BY <2>1, <2>4, LookedOutcome DEF Outcome, Makes
  <2>5. CASE NothingRemote(t, Target(t), children[Target(t)])
    BY <2>2, <2>3, <2>5, NothingRemoteEffect
  <2>6. CASE LocalShadowsRemote(t, children[Target(t)])
    BY <2>2, <2>6, LocalShadowsEffect
  <2>7. CASE UpdateInPlace(t, children[Target(t)])
    BY <2>2, <2>7, UpdateInPlaceEffect
  <2>8. CASE Recreate(t, Target(t), children[Target(t)])
    BY <2>4, <2>8, RecreateEffect
  <2> QED  BY <1>7, <2>5, <2>6, <2>7, <2>8, UpdateEffect
<1>8. CASE LookupReturns(t)
  BY <1>8, LookupReturnsEffect, EndsOutcome
<1> QED  BY <1>1, <1>2, <1>3, <1>4, <1>5, <1>6, <1>7, <1>8 DEF LookupStep

LEMMA ChangeOutcome ==
    ASSUME TypeOK, Numbered, NEW t \in Threads, Places(t), ChangeStep(t)
    PROVE  Outcome(t)
<1>0. ASSUME Moves(t, Idle) PROVE Outcome(t)
  BY <1>0, EndsOutcome
<1>1. CASE CreateLooked(t)
  <2>1. thread[t].pc = "looked" /\ thread[t].op \in {"create", "mkdir"}
    BY <1>1 DEF CreateLooked
  <2>2. CASE thread[t].obj = 0 /\ Moves(t, [thread[t] EXCEPT !.pc = "insert"])
    BY <2>1, <2>2, PcOutcome DEF Outcome, Goes
  <2> QED  BY <1>0, <1>1, <2>2, CreateLookedEffect
<1>2. CASE Create(t)
  <2>1. thread[t].pc = "insert"
    BY <1>2 DEF Create
  <2> DEFINE r == [thread[t] EXCEPT !.pc = "remember", !.obj = Len(objs) + 1]
  <2>2. CASE /\ \E kind \in {"file", "dir"} : Creates(thread[t].name, kind, "LocalUnopened")
             /\ Moves(t, r)
    <3>1. thread[t] \in ThreadSet(Len(objs)) /\ thread'[t] = r
      BY <2>2, TypeFacts DEF Moves
    <3>2. OthersStay(t) /\ SameSource(t) /\ thread'[t].obj = Len(objs) + 1 /\ thread'[t].pc = "remember"
      BY <2>2, <3>1 DEF Moves, OthersStay, SameSource, SameRequest, ThreadSet
    <3> QED  BY <2>1, <2>2, <3>2 DEF Outcome, Makes
  <2> QED  BY <1>0, <1>2, <2>2, CreateEffect
<1>3. CASE CreateReturns(t)
  BY <1>0, <1>3, CreateReturnsEffect
<1>4. CASE Rmdir(t)
  BY <1>0, <1>4, RmdirEffect
<1>5. CASE UnlinkLooked(t)
  <2>1. thread[t].pc = "looked" /\ thread[t].op = "unlink"
    BY <1>5 DEF UnlinkLooked
  <2>2. CASE thread[t].obj # 0 /\ objs[thread[t].obj].status = "Remote" /\ Moves(t, [thread[t] EXCEPT !.pc = "s3"])
    BY <2>1, <2>2, PcOutcome DEF Outcome, Goes
  <2> QED  BY <1>0, <1>5, <2>2, UnlinkLookedEffect
<1>6. CASE DeleteObject(t)
  <2>1. thread[t].pc = "s3" /\ thread[t].op = "unlink"
    BY <1>6 DEF DeleteObject
  <2>2. CASE Moves(t, [thread[t] EXCEPT !.pc = "local"])
    BY <2>1, <2>2, PcOutcome DEF Outcome, Goes
  <2> QED  BY <1>0, <1>6, <2>2, DeleteObjectEffect
<1>7. CASE Unlink(t)
  BY <1>0, <1>7, UnlinkEffect
<1>8. CASE RenameSource(t)
  <2>1. thread[t].pc = "looked" /\ thread[t].op = "rename" /\ thread[t].src = 0
    BY <1>8 DEF RenameSource
  <2> DEFINE r == [thread[t] EXCEPT !.pc = "cache", !.src = thread[t].obj, !.obj = 0]
  <2>2. CASE Pends(thread[t].obj) /\ Moves(t, r)
    <3>1. thread[t] \in ThreadSet(Len(objs)) /\ thread'[t] = r
      BY <2>2, TypeFacts DEF Moves
    <3>2. OthersStay(t) /\ SameRequest(t) /\ thread'[t].src = thread[t].obj /\ thread'[t].obj = 0 /\ thread'[t].pc = "cache"
      BY <2>2, <3>1 DEF Moves, OthersStay, SameRequest, ThreadSet
    <3> QED  BY <2>1, <2>2, <3>2 DEF Outcome, HasSource
  <2> QED  BY <1>0, <1>8, <2>2, RenameSourceEffect
<1>9. CASE RenameTarget(t)
  <2>1. thread[t].pc = "looked" /\ thread[t].op = "rename" /\ thread[t].src # 0
    BY <1>9 DEF RenameTarget
  <2>2. CASE (thread[t].obj # 0 => Pends(thread[t].obj)) /\ Moves(t, [thread[t] EXCEPT !.pc = "s3"])
    BY <2>1, <2>2, PcOutcome DEF Outcome, Goes
  <2> QED  BY <1>0, <1>9, <2>2, RenameTargetEffect
<1>10. CASE RenameObject(t)
  <2>1. thread[t].pc = "s3" /\ thread[t].op = "rename"
    BY <1>10 DEF RenameObject
  <2> QED  BY <1>10, <2>1, RenameObjectEffect, PcOutcome DEF Outcome, Goes
<1>11. CASE RenameFails(t)
  BY <1>0, <1>11, RenameFailsEffect
<1>12. CASE RenameSucceeds(t)
  <2>1. thread[t].pc = "renamed"
    BY <1>12 DEF RenameSucceeds
  <2> QED  BY <1>12, <2>1, RenameSucceedsEffect, PcOutcome DEF Outcome, Goes
<1>13. CASE Rename(t)
  BY <1>0, <1>13, RenameEffect
<1> QED  BY <1>1, <1>2, <1>3, <1>4, <1>5, <1>6, <1>7, <1>8, <1>9, <1>10, <1>11, <1>12, <1>13 DEF ChangeStep

LEMMA IdleFields ==
    /\ Idle.op = "none" /\ Idle.pc = "idle" /\ Idle.obj = 0 /\ Idle.src = 0 /\ Idle.lock = "none"
BY DEF Idle

\* What every outcome has in common.
LEMMA OutcomeRequest ==
    ASSUME NEW t \in Threads, Outcome(t)
    PROVE  OthersStay(t) /\ (Ends(t) \/ (SameRequest(t) /\ thread'[t].pc # "idle"))
BY DEF Outcome, Goes, Finds, FindsNothing, Makes, HasSource, SameSource

LEMMA LockedStep ==
    ASSUME TypeOK, Numbered, References, Locked, \A t \in Threads : Places(t), Step
    PROVE  Locked'
<1>1. ASSUME NEW t \in Threads, Outcome(t) PROVE Locked'
  <2>1. OthersStay(t) /\ (Ends(t) \/ (SameRequest(t) /\ thread'[t].pc # "idle"))
    BY <1>1, OutcomeRequest
  <2>2. \A u \in Threads : thread'[u].pc = "idle" => thread'[u] = Idle
    BY <2>1 DEF OthersStay, Ends, Locked
  <2>3. \A u \in Threads : thread'[u].op \in Changes => thread'[u].lock = "excl"
    BY <2>1, IdleFields DEF OthersStay, Ends, SameRequest, Locked, Changes
  <2>4. \A u \in Threads : thread'[u].lock \in {thread[u].lock, "none"}
    BY <2>1, IdleFields DEF OthersStay, Ends, SameRequest
  <2>5. \A u, v \in Threads : u # v /\ thread'[u].lock = "excl" => thread'[v].lock = "none"
    BY <2>4 DEF Locked
  <2> QED  BY <2>2, <2>3, <2>5 DEF Locked, Idle
<1>2. ASSUME UNCHANGED thread PROVE Locked'
  BY <1>2 DEF Locked, Idle
<1>3. ASSUME NEW t \in Threads, NEW op \in Ops \ {"write", "setattr"}, NEW n \in mount.names, NEW d \in mount.names,
             Request(t, op, n, d)
      PROVE  Locked'
  <2>1. n \in Names /\ d \in Names
    BY TypeFacts
  <2>2. OthersStay(t) /\ thread'[t].op = op /\ thread'[t].pc = "cache" /\ thread'[t].lock = LockFor(op, n)
    BY <1>3, <2>1, RequestEffect DEF Moves, OthersStay
  <2>3. \A u \in Threads : thread'[u].pc = "idle" => thread'[u] = Idle
    BY <2>2 DEF OthersStay, Locked
  <2>4. op \in Changes => LockFor(op, n) = "excl"
    <3>1. ASSUME op \in Changes PROVE op # "lookup"
      BY <3>1 DEF Changes
    <3> QED  BY <3>1 DEF LockFor
  <2>5. \A u \in Threads : thread'[u].op \in Changes => thread'[u].lock = "excl"
    BY <2>2, <2>4 DEF OthersStay, Locked
  <2>6. \A u \in Threads : /\ LockFor(op, n) = "excl" => thread[u].lock = "none"
                           /\ LockFor(op, n) = "shared" => thread[u].lock # "excl"
    BY <1>3 DEF Request
  <2>7. LockFor(op, n) \in {"excl", "shared", "none"}
    BY DEF LockFor
  <2>8. \A u, v \in Threads : u # v /\ thread'[u].lock = "excl" => thread'[v].lock = "none"
    <3> SUFFICES ASSUME NEW u \in Threads, NEW v \in Threads, u # v, thread'[u].lock = "excl"
                 PROVE  thread'[v].lock = "none"
      OBVIOUS
    <3>1. CASE u = t
      BY <2>2, <2>6, <3>1 DEF OthersStay
    <3>2. CASE v = t
      BY <2>2, <2>6, <2>7, <3>2 DEF OthersStay
    <3>3. CASE u # t /\ v # t
      BY <2>2, <3>3 DEF OthersStay, Locked
    <3> QED  BY <3>1, <3>2, <3>3
  <2> QED  BY <2>3, <2>5, <2>8 DEF Locked, Idle
<1>4. ASSUME NEW t \in Threads, LookupStep(t) \/ ChangeStep(t) PROVE Locked'
  BY <1>1, <1>4, LookupOutcome, ChangeOutcome
<1>5. ASSUME NEW i \in Inos, InodeStep(i) PROVE Locked'
  BY <1>2, <1>5 DEF InodeStep, Forget, Setattr, StartWriting, PutObject, FinishWriting
<1>6. CASE Tick
  BY <1>2, <1>6 DEF Tick
<1>7. ASSUME NEW n \in mount.names, OtherClientChanges(n) PROVE Locked'
  BY <1>2, <1>7 DEF OtherClientChanges
<1> QED  BY <1>3, <1>4, <1>5, <1>6, <1>7 DEF Step

LEMMA PlacesStep ==
    ASSUME TypeOK, Numbered, References, \A t \in Threads : Places(t), Step
    PROVE  \A t \in Threads : Places(t)'
<1>1. ASSUME NEW t \in Threads, Outcome(t) PROVE \A u \in Threads : Places(u)'
  <2>1. OthersStay(t)
    BY <1>1 DEF Outcome
  <2>2. Places(t) /\ Len(objs) \in Nat
    BY Typed
  <2>3. CASE Ends(t)
    <3>1. Places(t)'
      BY <2>3, IdleFields DEF Ends, Places
    <3> QED  BY <2>1, <3>1 DEF OthersStay, Places
  <2>4. CASE Goes(t)
    <3>1. Places(t)'
      BY <2>2, <2>4 DEF Goes, SameSource, SameRequest, Places
    <3> QED  BY <2>1, <3>1 DEF OthersStay, Places
  <2>5. CASE Finds(t) \/ FindsNothing(t)
    <3>1. Places(t)'
      BY <2>2, <2>5 DEF Finds, FindsNothing, SameSource, SameRequest, Places
    <3> QED  BY <2>1, <3>1 DEF OthersStay, Places
  <2>6. CASE Makes(t)
    <3>1. Len(objs) + 1 # 0
      BY <2>2
    <3>2. Places(t)'
      BY <2>2, <2>6, <3>1 DEF Makes, SameSource, SameRequest, Places
    <3> QED  BY <2>1, <3>2 DEF OthersStay, Places
  <2>7. CASE HasSource(t)
    <3>1. Places(t)'
      BY <2>2, <2>7 DEF HasSource, SameRequest, Places
    <3> QED  BY <2>1, <3>1 DEF OthersStay, Places
  <2> QED  BY <1>1, <2>3, <2>4, <2>5, <2>6, <2>7 DEF Outcome
<1>2. ASSUME UNCHANGED thread PROVE \A t \in Threads : Places(t)'
  BY <1>2 DEF Places
<1>3. ASSUME NEW t \in Threads, NEW op \in Ops \ {"write", "setattr"}, NEW n \in mount.names, NEW d \in mount.names,
             Request(t, op, n, d)
      PROVE  \A u \in Threads : Places(u)'
  <2>1. n \in Names /\ d \in Names /\ op \in Requests
    BY TypeFacts
  <2>2. /\ OthersStay(t) /\ thread'[t].op = op /\ thread'[t].pc = "cache" /\ thread'[t].obj = 0
        /\ thread'[t].name = n /\ thread'[t].dst = d
        /\ IF op = "getattr" THEN thread'[t].src # 0 ELSE thread'[t].src = 0
        /\ op = "rename" => n # d
    BY <1>3, <2>1, RequestEffect DEF Moves, OthersStay
  <2>3. Places(t)'
    BY <2>1, <2>2 DEF Places, Requests
  <2> QED  BY <2>2, <2>3 DEF OthersStay, Places
<1>4. ASSUME NEW t \in Threads, LookupStep(t) \/ ChangeStep(t) PROVE \A u \in Threads : Places(u)'
  BY <1>1, <1>4, LookupOutcome, ChangeOutcome
<1>5. ASSUME NEW i \in Inos, InodeStep(i) PROVE \A u \in Threads : Places(u)'
  BY <1>2, <1>5 DEF InodeStep, Forget, Setattr, StartWriting, PutObject, FinishWriting
<1>6. CASE Tick
  BY <1>2, <1>6 DEF Tick
<1>7. ASSUME NEW n \in mount.names, OtherClientChanges(n) PROVE \A u \in Threads : Places(u)'
  BY <1>2, <1>7 DEF OtherClientChanges
<1> QED  BY <1>3, <1>4, <1>5, <1>6, <1>7 DEF Step

\* A thread starts a request.
Asks(t) ==
    /\ OthersStay(t) /\ thread[t].pc = "idle"
    /\ thread'[t].pc = "cache" /\ thread'[t].obj = 0
    /\ thread'[t].op # "getattr" => thread'[t].src = 0

LEMMA StepOutcome ==
    ASSUME TypeOK, Numbered, References, \A t \in Threads : Places(t), Step
    PROVE  UNCHANGED thread \/ \E t \in Threads : Asks(t) \/ (Outcome(t) /\ (LookupStep(t) \/ ChangeStep(t)))
<1>1. ASSUME NEW t \in Threads, NEW op \in Ops \ {"write", "setattr"}, NEW n \in mount.names, NEW d \in mount.names,
             Request(t, op, n, d)
      PROVE  Asks(t)
  <2>1. n \in Names /\ d \in Names /\ thread[t].pc = "idle"
    BY <1>1, TypeFacts DEF Request
  <2> QED  BY <1>1, <2>1, RequestEffect DEF Asks, Moves, OthersStay
<1>2. ASSUME NEW t \in Threads, LookupStep(t) \/ ChangeStep(t) PROVE Outcome(t)
  BY <1>2, LookupOutcome, ChangeOutcome
<1>3. ASSUME NEW i \in Inos, InodeStep(i) PROVE UNCHANGED thread
  BY <1>3 DEF InodeStep, Forget, Setattr, StartWriting, PutObject, FinishWriting
<1>4. CASE Tick
  BY <1>4 DEF Tick
<1>5. ASSUME NEW n \in mount.names, OtherClientChanges(n) PROVE UNCHANGED thread
  BY <1>5 DEF OtherClientChanges
<1> QED  BY <1>1, <1>2, <1>3, <1>4, <1>5 DEF Step

-----------------------------------------------------------------------------
\* The objects of a rename

\* When a rename takes its last step, no request changes the directory.
LEMMA RenameAlone ==
    ASSUME Locked, RenameStep
    PROVE  \A u \in Threads : thread'[u].op \notin Changes
<1>1. PICK t \in Threads : Moves(t, Idle) /\ thread[t].op = "rename"
  BY DEF RenameStep
<1>2. thread[t].lock = "excl"
  BY <1>1 DEF Locked, Changes
<1>3. ASSUME NEW u \in Threads, u # t PROVE thread'[u] = thread[u] /\ thread[u].lock = "none"
  BY <1>1, <1>2, <1>3 DEF Locked, Moves
<1>4. \A u \in Threads : u # t => thread'[u].op \notin Changes
  BY <1>3 DEF Locked
<1>5. thread'[t].op \notin Changes
  BY <1>1, IdleFields DEF Moves, Changes
<1> QED  BY <1>4, <1>5

\* Every other step keeps the latest objects and the names.
Steady == QuietStep \/ RememberStep \/ ForgetStep \/ CreateStep

LEMMA SteadyLatest ==
    ASSUME TypeOK, TypeOK', Numbered, Steady, NEW o \in 1 .. Len(objs)
    PROVE  (Latest(o) => Latest(o)') /\ objs'[o].name = objs[o].name /\ objs'[o].ino = objs[o].ino
<1>1. CASE Quiet
  BY <1>1, KeepsLatest DEF Quiet, Kept, SameInode
<1>2. CASE CreateStep
  <2>1. PICK x \in Obj : Made(x) /\ x.ino = nextIno
    BY <1>2 DEF CreateStep, Creates
  <2>2. PICK k : k = Len(objs) + 1
    OBVIOUS
  <2> QED  BY <2>1, <2>2, CreatedLatest DEF Made
<1> QED  BY <1>1, <1>2 DEF Steady, QuietStep, RememberStep, ForgetStep

LEMMA RenameObjectsStep ==
    ASSUME TypeOK, TypeOK', Numbered, References, Locked, \A t \in Threads : Places(t),
           Entries, OneObjectPerInode, RenameObjects, Coarse, Step
    PROVE  RenameObjects'
<1>1. CASE RenameStep
  BY <1>1, RenameAlone DEF RenameObjects, Changes
<1>2. CASE Steady
  <2>1. ASSUME NEW o \in 1 .. Len(objs), Latest(o) PROVE Latest(o)' /\ objs'[o].name = objs[o].name
    BY <1>2, <2>1, SteadyLatest
  <2>2. \A t \in Threads : thread[t].src \in 0 .. Len(objs) /\ thread[t].obj \in 0 .. Len(objs)
    BY TypeFacts DEF ThreadSet
  <2>3. DOMAIN objs = 1 .. Len(objs) /\ Len(objs) \in Nat
    BY Typed
  <2> SUFFICES ASSUME NEW t \in Threads, thread'[t].op = "rename",
                      NEW s, s = thread'[t].src, NEW o, o = thread'[t].obj
               PROVE  /\ s # 0 => Latest(s)' /\ objs'[s].name = thread'[t].name
                      /\ o # 0 => Latest(o)' /\ objs'[o].name = Target(t)'
    BY DEF RenameObjects
  <2>4. CASE thread'[t].src = thread[t].src /\ thread'[t].obj = thread[t].obj /\ SameRequest(t)
    <3>1. Target(t)' = Target(t) /\ thread[t].op = "rename"
      BY <2>4 DEF Target, SameRequest
    <3>2. s \in 0 .. Len(objs) /\ o \in 0 .. Len(objs) /\ thread[t].src = s /\ thread[t].obj = o
      BY <2>2, <2>4
    <3>3. /\ s # 0 => Latest(s) /\ objs[s].name = thread[t].name
          /\ o # 0 => Latest(o) /\ objs[o].name = Target(t)
      BY <3>1, <3>2 DEF RenameObjects
    <3> QED  BY <2>1, <2>4, <3>1, <3>2, <3>3 DEF SameRequest
  <2>5. CASE UNCHANGED thread
    BY <2>4, <2>5 DEF SameRequest
  <2>6. ASSUME NEW u \in Threads, Asks(u) PROVE (s = 0 /\ o = 0) \/ u # t
    BY <2>6 DEF Asks
  <2>7. ASSUME NEW u \in Threads, OthersStay(u), u # t
        PROVE  thread'[t].src = thread[t].src /\ thread'[t].obj = thread[t].obj /\ SameRequest(t)
    BY <2>7 DEF OthersStay, SameRequest
  <2>8. CASE Outcome(t)
    <3>1. Places(t)
      OBVIOUS
    <3>2. CASE Ends(t)
      BY <3>2, IdleFields DEF Ends
    <3>3. CASE Goes(t)
      BY <2>4, <3>3 DEF Goes, SameSource
    <3>4. ASSUME SameSource(t)
          PROVE  /\ Target(t)' = Target(t) /\ thread[t].op = "rename" /\ s = thread[t].src
                 /\ s # 0 => Latest(s)' /\ objs'[s].name = thread'[t].name
      <4>1. Target(t)' = Target(t) /\ thread[t].op = "rename" /\ s = thread[t].src /\ thread'[t].name = thread[t].name
        BY <3>4 DEF SameSource, SameRequest, Target
      <4>2. s # 0 => s \in 1 .. Len(objs) /\ Latest(s) /\ objs[s].name = thread[t].name
        BY <2>2, <4>1 DEF RenameObjects
      <4> QED  BY <2>1, <4>1, <4>2
    <3>5. CASE Finds(t)
      <4>1. o = children[Target(t)] /\ o # 0 /\ SameSource(t)
        BY <3>5 DEF Finds
      <4>2. Target(t) \in Names /\ o \in 1 .. Len(objs)
        BY <4>1, TargetFacts, Typed
      <4>3. Latest(o) /\ objs[o].name = Target(t)
        BY <4>1, <4>2 DEF Entries, OneObjectPerInode
      <4> QED  BY <2>1, <3>4, <4>1, <4>2, <4>3
    <3>6. CASE FindsNothing(t)
      BY <3>4, <3>6 DEF FindsNothing
    <3>7. CASE Makes(t)
      <4>1. SameSource(t) /\ o = Len(objs) + 1
        BY <3>7 DEF Makes
      <4>2. thread[t].pc # "insert"
        BY <3>1, <3>4, <4>1 DEF Places
      <4>3. PICK x \in Obj : Made(x) /\ x.ino = nextIno /\ x.name = Target(t)
        BY <3>7, <4>2 DEF Makes, Creates
      <4>4. Latest(o)' /\ objs'[o] = x
        BY <4>1, <4>3, CreatedLatest DEF Made
      <4> QED  BY <3>4, <4>1, <4>3, <4>4
    <3>8. CASE HasSource(t)
      <4>1. /\ s = thread[t].obj /\ o = 0 /\ thread[t].op = "rename" /\ thread[t].src = 0
            /\ thread'[t].name = thread[t].name /\ s \in 1 .. Len(objs)
        BY <3>8 DEF HasSource, SameRequest, Pends
      <4>2. Target(t) = thread[t].name
        BY <4>1 DEF Target
      <4>3. s # 0
        BY <2>3, <4>1
      <4>4. Latest(s) /\ objs[s].name = thread[t].name
        BY <4>1, <4>2, <4>3 DEF RenameObjects
      <4> QED  BY <2>1, <4>1, <4>4
    <3> QED  BY <2>8, <3>2, <3>3, <3>5, <3>6, <3>7, <3>8 DEF Outcome
  <2>9. ASSUME NEW u \in Threads, Outcome(u) \/ Asks(u) PROVE OthersStay(u)
    BY <2>9 DEF Outcome, Asks
  <2> QED  BY <2>4, <2>5, <2>6, <2>7, <2>8, <2>9, StepOutcome
<1> QED  BY <1>1, <1>2 DEF Coarse, Steady

-----------------------------------------------------------------------------
\* Pending renames

\* A rename under way keeps an object pending.
Holds(t, o) ==
    /\ thread[t].op = "rename"
    /\ o = thread[t].src \/ (o = thread[t].obj /\ thread[t].pc \in {"s3", "renamed", "local"})

\* What is put into PendingRename is held.
LEMMA PendsHeld ==
    ASSUME TypeOK, Numbered, References, \A t \in Threads : Places(t), Steady, Step,
           NEW o \in 1 .. Len(objs), objs'[o].status = "PendingRename", objs[o].status # "PendingRename"
    PROVE  \E t \in Threads : Holds(t, o)'
<1>1. ~NothingPends
  BY DEF NothingPends
<1>2. ASSUME UNCHANGED objs PROVE FALSE
  BY <1>2
<1>3. ASSUME NEW x, Made(x) PROVE FALSE
  BY <1>3 DEF Made
<1>4. ASSUME NEW t \in Threads, LookupStep(t) PROVE FALSE
  <2>1. CASE CacheLookup(t) \/ HeadObject(t) \/ ListObjects(t)
    BY <1>2, <2>1 DEF CacheLookup, HeadObject, ListObjects, superblock
  <2>2. CASE Getattr(t)
    BY <2>2, GetattrEffect DEF StatusSame
  <2>3. CASE LookupFails(t)
    BY <1>1, <2>3, LookupFailsEffect
  <2>4. CASE UpdateNegative(t)
    BY <1>1, <2>4, UpdateNegativeEffect
  <2>5. CASE Update(t)
    <3>1. CASE NothingRemote(t, Target(t), children[Target(t)])
      BY <1>1, <3>1, NothingRemoteEffect
    <3>2. CASE LocalShadowsRemote(t, children[Target(t)])
      BY <1>1, <3>2, LocalShadowsEffect
    <3>3. CASE UpdateInPlace(t, children[Target(t)])
      BY <1>1, <3>3, UpdateInPlaceEffect
    <3>4. CASE Recreate(t, Target(t), children[Target(t)])
      BY <1>3, <3>4, RecreateEffect DEF Creates
    <3> QED  BY <2>5, <3>1, <3>2, <3>3, <3>4, UpdateEffect
  <2>6. CASE LookupReturns(t)
    BY <1>1, <2>6, LookupReturnsEffect
  <2> QED  BY <1>4, <2>1, <2>2, <2>3, <2>4, <2>5, <2>6 DEF LookupStep
<1>5. ASSUME NEW t \in Threads, ChangeStep(t) PROVE Holds(t, o)'
  <2>1. CASE CreateLooked(t)
    BY <1>1, <2>1, CreateLookedEffect
  <2>2. CASE Create(t)
    BY <1>1, <1>3, <2>2, CreateEffect DEF Creates
  <2>3. CASE CreateReturns(t)
    BY <1>1, <2>3, CreateReturnsEffect
  <2>4. CASE Rmdir(t)
    BY <1>1, <2>4, RmdirEffect
  <2>5. CASE UnlinkLooked(t)
    BY <1>1, <2>5, UnlinkLookedEffect
  <2>6. CASE DeleteObject(t)
    BY <1>1, <2>6, DeleteObjectEffect
  <2>7. CASE Unlink(t)
    BY <1>1, <2>7, UnlinkEffect
  <2>8. CASE RenameSource(t)
    <3> DEFINE r == [thread[t] EXCEPT !.pc = "cache", !.src = thread[t].obj, !.obj = 0]
    <3>1. Pends(thread[t].obj) /\ Moves(t, r) /\ thread[t].op = "rename"
      BY <1>1, <2>8, RenameSourceEffect DEF RenameSource
    <3>2. o = thread[t].obj
      BY <3>1 DEF Pends
    <3>3. thread[t] \in ThreadSet(Len(objs)) /\ thread'[t] = r
      BY <3>1, TypeFacts DEF Moves
    <3>4. thread'[t].op = thread[t].op /\ thread'[t].src = thread[t].obj
      BY <3>3 DEF ThreadSet
    <3> QED  BY <3>1, <3>2, <3>4 DEF Holds
  <2>9. CASE RenameTarget(t)
    <3>1. Pends(thread[t].obj) /\ Moves(t, [thread[t] EXCEPT !.pc = "s3"]) /\ thread[t].op = "rename"
      BY <1>1, <2>9, RenameTargetEffect DEF RenameTarget
    <3>2. o = thread[t].obj
      BY <3>1 DEF Pends
    <3>3. thread'[t].op = thread[t].op /\ thread'[t].obj = thread[t].obj /\ thread'[t].pc = "s3"
      BY <3>1, PcOutcome DEF SameSource, SameRequest
    <3> QED  BY <3>1, <3>2, <3>3 DEF Holds
  <2>10. CASE RenameObject(t)
    BY <1>1, <2>10, RenameObjectEffect
  <2>11. CASE RenameFails(t)
    BY <1>1, <2>11, RenameFailsEffect
  <2>12. CASE RenameSucceeds(t)
    BY <1>1, <2>12, RenameSucceedsEffect
  <2>13. CASE Rename(t)
    BY <1>3, <2>13, RenameEffect DEF RenamedTo
  <2> QED  BY <1>5, <2>1, <2>2, <2>3, <2>4, <2>5, <2>6, <2>7, <2>8, <2>9, <2>10, <2>11, <2>12, <2>13 DEF ChangeStep
<1>6. ASSUME NEW t \in Threads, NEW op \in Ops \ {"write", "setattr"}, NEW n \in mount.names, NEW d \in mount.names,
             Request(t, op, n, d)
      PROVE  FALSE
  BY <1>2, <1>6 DEF Request, superblock
<1>7. ASSUME NEW i \in Inos, InodeStep(i) PROVE FALSE
  BY <1>1, <1>7, ForgetEffect, WriteEffect DEF InodeStep
<1>8. CASE Tick
  BY <1>1, <1>8, TickEffect
<1>9. ASSUME NEW n \in mount.names, OtherClientChanges(n) PROVE FALSE
  BY <1>1, <1>9, OtherClientEffect
<1> QED  BY <1>4, <1>5, <1>6, <1>7, <1>8, <1>9 DEF Step

\* A rename that ends releases what it holds.
LEMMA EndsReleases ==
    ASSUME TypeOK, Numbered, NEW t \in Threads, Places(t), LookupStep(t) \/ ChangeStep(t), ~Rename(t), Ends(t),
           NEW o \in 1 .. Len(objs), Holds(t, o)
    PROVE  objs'[o].status # "PendingRename"
<1>1. thread[t].op = "rename" /\ thread'[t].pc = "idle" /\ o # 0
  BY IdleFields, TypeFacts DEF Holds, Ends
<1>2. thread[t].pc \notin {"insert", "remember"}
  BY <1>1 DEF Places
<1>3. ASSUME NEW p, Moves(t, LookedAs(t, p)) PROVE FALSE
  BY <1>1, <1>3, LookedOutcome
<1>4. ASSUME NEW pc, pc # "idle", Moves(t, [thread[t] EXCEPT !.pc = pc]) PROVE FALSE
  BY <1>1, <1>4, PcOutcome
<1>5. ASSUME NEW h, NEW l, Moves(t, [thread[t] EXCEPT !.head = h, !.list = l, !.pc = AnswerPc(h, l)]) PROVE FALSE
  <2>1. thread[t] \in ThreadSet(Len(objs)) /\ thread'[t] = [thread[t] EXCEPT !.head = h, !.list = l, !.pc = AnswerPc(h, l)]
    BY <1>5, TypeFacts DEF Moves
  <2>2. thread'[t].pc = AnswerPc(h, l)
    BY <2>1 DEF ThreadSet
  <2> QED  BY <1>1, <2>2 DEF AnswerPc
<1>6. ASSUME Released(t) PROVE objs'[o].status # "PendingRename"
  <2>1. o \in Guarded(t)
    BY <1>1 DEF Holds, Guarded
  <2> QED  BY <1>6, <2>1 DEF Released
<1>7. CASE LookupStep(t)
  <2>1. CASE CacheLookup(t)
    BY <1>3, <1>4, <2>1, CacheLookupEffect
  <2>2. CASE HeadObject(t)
    BY <1>5, <2>2, HeadObjectEffect
  <2>3. CASE ListObjects(t)
    BY <1>5, <2>3, ListObjectsEffect
  <2>4. CASE LookupFails(t)
    BY <1>3, <1>6, <2>4, LookupFailsEffect
  <2>5. CASE UpdateNegative(t)
    BY <1>4, <2>5, UpdateNegativeEffect
  <2>6. CASE Update(t)
    <3>1. CASE NothingRemote(t, Target(t), children[Target(t)])
      BY <1>3, <3>1, NothingRemoteEffect
    <3>2. CASE LocalShadowsRemote(t, children[Target(t)])
      BY <1>3, <3>2, LocalShadowsEffect
    <3>3. CASE UpdateInPlace(t, children[Target(t)])
      BY <1>3, <3>3, UpdateInPlaceEffect
    <3>4. CASE Recreate(t, Target(t), children[Target(t)])
      BY <1>3, <3>4, RecreateEffect
    <3> QED  BY <2>6, <3>1, <3>2, <3>3, <3>4, UpdateEffect
  <2> QED  BY <1>1, <1>7, <2>1, <2>2, <2>3, <2>4, <2>5, <2>6 DEF LookupStep, Getattr, LookupReturns
<1>8. CASE ChangeStep(t)
  <2>1. CASE RenameSource(t)
    <3>1. thread[t].src = 0 /\ thread[t].pc = "looked"
      BY <2>1 DEF RenameSource
    <3> QED  BY <1>1, <3>1 DEF Holds
  <2>2. CASE RenameTarget(t)
    <3>1. thread[t].pc = "looked"
      BY <2>2 DEF RenameTarget
    <3>2. o = thread[t].src
      BY <3>1 DEF Holds
    <3>3. ~Moves(t, [thread[t] EXCEPT !.pc = "s3"])
      BY <1>4
    <3> QED  BY <2>2, <3>2, <3>3, RenameTargetEffect
  <2>3. CASE RenameObject(t)
    BY <1>4, <2>3, RenameObjectEffect
  <2>4. CASE RenameFails(t)
    BY <1>6, <2>4, RenameFailsEffect
  <2>5. CASE RenameSucceeds(t)
    BY <1>4, <2>5, RenameSucceedsEffect
  <2> QED  BY <1>1, <1>2, <1>8, <2>1, <2>2, <2>3, <2>4, <2>5
           DEF ChangeStep, CreateLooked, Create, CreateReturns, Rmdir, UnlinkLooked, DeleteObject, Unlink
<1> QED  BY <1>7, <1>8

\* Every other outcome keeps them.
LEMMA HoldsOn ==
    ASSUME TypeOK, Locked, NEW t \in Threads, Places(t), Outcome(t) \/ Asks(t), ~Ends(t),
           NEW o \in 1 .. Len(objs), Holds(t, o)
    PROVE  Holds(t, o)'
<1>1. thread[t].op = "rename" /\ o # 0
  BY TypeFacts DEF Holds
<1>2. CASE Asks(t)
  BY <1>1, <1>2, IdleFields DEF Asks, Locked
<1>3. CASE Goes(t)
  BY <1>1, <1>3 DEF Goes, SameSource, SameRequest, Holds
<1>4. CASE Finds(t) \/ FindsNothing(t)
  BY <1>1, <1>4 DEF Finds, FindsNothing, SameSource, SameRequest, Holds
<1>5. CASE Makes(t)
  BY <1>1, <1>5 DEF Makes, SameSource, SameRequest, Holds
<1>6. CASE HasSource(t)
  BY <1>1, <1>6 DEF HasSource, Holds
<1> QED  BY <1>2, <1>3, <1>4, <1>5, <1>6 DEF Outcome

LEMMA PendingStep ==
    ASSUME TypeOK, TypeOK', Numbered, References, Locked, \A t \in Threads : Places(t),
           Entries, OneObjectPerInode, RenameObjects, Pending, Coarse, Step
    PROVE  Pending'
<1>1. /\ Len(objs) \in Nat /\ children \in [Names -> 0 .. Len(objs)] /\ DOMAIN objs = 1 .. Len(objs)
  BY Typed
<1>2. ASSUME NEW n \in Names, children[n] # 0, objs[children[n]].status = "PendingRename"
      PROVE  \E t \in Threads : Holds(t, children[n])
  BY <1>2 DEF Pending, Holds
<1>3. SUFFICES ASSUME NEW n \in Names, NEW c, c = children'[n], c # 0, objs'[c].status = "PendingRename"
               PROVE  \E t \in Threads : Holds(t, c)'
  <2>1. ASSUME NEW n \in Names, children'[n] # 0, objs'[children'[n]].status = "PendingRename"
        PROVE  \E t \in Threads : /\ thread'[t].op = "rename"
                                   /\ \/ children'[n] = thread'[t].src
                                      \/ children'[n] = thread'[t].obj /\ thread'[t].pc \in {"s3", "renamed", "local"}
    BY <1>3, <2>1 DEF Holds
  <2> QED  BY <2>1 DEF Pending
<1>4. CASE RenameStep
  <2>1. PICK t \in Threads :
            /\ RenamedTo(t) /\ thread[t].op = "rename" /\ thread[t].src \in 1 .. Len(objs)
            /\ thread[t].name \in Names /\ thread[t].dst \in Names /\ thread[t].name # thread[t].dst
    BY <1>4 DEF RenameStep
  <2>2. PICK x \in Obj : Made(x) /\ x.status = "Remote"
    BY <2>1 DEF RenamedTo
  <2>3. n # thread[t].dst /\ n # thread[t].name /\ c = children[n]
    BY <1>3, <2>1, <2>2 DEF RenamedTo, Made
  <2>4. c \in 1 .. Len(objs) /\ objs[c].status = "PendingRename"
    BY <1>1, <1>3, <2>2, <2>3 DEF Made
  <2>5. PICK u \in Threads : Holds(u, c)
    BY <1>2, <1>3, <2>3, <2>4
  <2>6. u = t
    BY <2>1, <2>5 DEF Locked, Changes, Holds
  <2>7. objs[c].name = n
    BY <1>3, <2>3 DEF OneObjectPerInode
  <2>8. objs[c].name \in {thread[t].name, thread[t].dst}
    BY <1>3, <2>1, <2>5, <2>6 DEF RenameObjects, Holds, Target
  <2> QED  BY <2>3, <2>7, <2>8
<1>5. CASE Steady
  <2>1. c \in 1 .. Len(objs) /\ c = children[n]
    <3>1. CASE Quiet
      BY <1>1, <1>3, <3>1 DEF Quiet, Shrinks
    <3>2. CASE CreateStep
      <4>1. PICK m \in Names, x \in Obj, st \in {"LocalUnopened", "Remote"} :
                /\ Made(x) /\ x.status = st /\ children'[m] = Len(objs) + 1
                /\ \A k \in Names : k # m => children'[k] = children[k]
        BY <3>2 DEF CreateStep, Creates
      <4>2. n # m
        BY <1>3, <4>1 DEF Made
      <4> QED  BY <1>1, <1>3, <4>1, <4>2
    <3> QED  BY <1>5, <3>1, <3>2 DEF Steady, QuietStep, RememberStep, ForgetStep
  <2>2. CASE objs[c].status # "PendingRename"
    BY <1>3, <1>5, <2>1, <2>2, PendsHeld
  <2>3. CASE objs[c].status = "PendingRename"
    <3>1. PICK t \in Threads : Holds(t, c)
      BY <1>2, <1>3, <2>1, <2>3
    <3>2. CASE thread'[t] = thread[t]
      BY <3>1, <3>2 DEF Holds
    <3>3. CASE /\ thread'[t] # thread[t]
               /\ \E u \in Threads : Asks(u) \/ (Outcome(u) /\ (LookupStep(u) \/ ChangeStep(u)))
      <4>1. Asks(t) \/ (Outcome(t) /\ (LookupStep(t) \/ ChangeStep(t)))
        BY <3>3 DEF Asks, Outcome, OthersStay
      <4>2. CASE ~Ends(t)
        BY <2>1, <3>1, <4>1, <4>2, HoldsOn
      <4>3. CASE Ends(t)
        <5>1. ~Asks(t)
          BY <4>3, IdleFields DEF Asks, Ends
        <5>2. CASE Rename(t)
          BY <1>4, <5>2, RenameEffect DEF RenameStep
        <5>3. CASE ~Rename(t)
          BY <1>3, <2>1, <3>1, <4>1, <4>3, <5>1, <5>3, EndsReleases
        <5> QED  BY <5>2, <5>3
      <4> QED  BY <4>2, <4>3
    <3> QED  BY <3>2, <3>3, StepOutcome
  <2> QED  BY <2>2, <2>3
<1> QED  BY <1>4, <1>5 DEF Coarse, Steady

-----------------------------------------------------------------------------
\* What is about to be removed

\* Nothing becomes new once it is there, ...
LEMMA NotNewKept ==
    ASSUME TypeOK, TypeOK', Numbered, Coarse, NEW o \in 0 .. Len(objs), NotNew(o)
    PROVE  NotNew(o)'
<1> SUFFICES ASSUME o # 0 PROVE objs'[o].ino \notin writing'
  BY DEF NotNew
<1>1. o \in 1 .. Len(objs) /\ objs[o].ino \notin writing /\ objs[o].ino # nextIno
  <2>1. o \in 1 .. Len(objs)
    BY Typed
  <2>2. objs[o].ino < nextIno /\ objs[o].ino \in Nat /\ nextIno \in Nat
    BY <2>1, Typed DEF Numbered
  <2> QED  BY <2>1, <2>2 DEF NotNew
<1>2. CASE Quiet
  BY <1>1, <1>2 DEF Quiet, Kept, SameInode
<1>3. CASE CreateStep
  <2>1. writing' \subseteq writing \cup {nextIno} /\ objs'[o] = objs[o]
    BY <1>1, <1>3 DEF CreateStep, Creates, Made
  <2> QED  BY <1>1, <2>1
<1>4. CASE RenameStep
  BY <1>1, <1>4 DEF RenameStep, RenamedTo, Made
<1> QED  BY <1>2, <1>3, <1>4 DEF Coarse, QuietStep, RememberStep, ForgetStep

\* and no new entry is made while there is a rename.
LEMMA NoNewEntry ==
    ASSUME TypeOK, TypeOK', Numbered, WritingLocal, Locked, Coarse,
           NEW t \in Threads, thread'[t].op = "rename", NEW n \in Names
    PROVE  children'[n] = children[n] \/ NotNew(children[n])'
<1>1. ~RenameStep
  BY RenameAlone DEF Changes
<1>2. CASE Quiet
  BY <1>2 DEF Quiet, Shrinks, NotNew
<1>3. CASE CreateStep
  <2>1. PICK m \in Names, x \in Obj, st \in {"LocalUnopened", "Remote"} :
            /\ Made(x) /\ x.ino = nextIno /\ children'[m] = Len(objs) + 1
            /\ \A k \in Names : k # m => children'[k] = children[k]
            /\ writing' \subseteq writing \cup (IF st = "Remote" THEN {} ELSE {nextIno})
            /\ st = "LocalUnopened" =>
                  \E u \in Threads : thread[u].op \in {"create", "mkdir"} /\ Moves(u, thread'[u])
                                     /\ thread'[u].op = thread[u].op
    BY <1>3 DEF CreateStep, Creates
  <2>2. st # "LocalUnopened"
    <3> SUFFICES ASSUME NEW u \in Threads, thread[u].op \in {"create", "mkdir"}, Moves(u, thread'[u]),
                        thread'[u].op = thread[u].op
                 PROVE  FALSE
      BY <2>1
    <3>1. u # t
      OBVIOUS
    <3>2. thread[t].op = "rename"
      BY <3>1 DEF Moves
    <3> QED  BY <3>1, <3>2 DEF Locked, Changes
  <2>3. nextIno \notin writing
    BY Typed DEF WritingLocal
  <2> QED  BY <2>1, <2>2, <2>3 DEF NotNew, Made
<1> QED  BY <1>1, <1>2, <1>3 DEF Coarse, QuietStep, RememberStep, ForgetStep

\* What is remote is not new.
LEMMA RemoteNotNew ==
    ASSUME TypeOK, WritingLocal, NEW o \in 1 .. Len(objs), objs[o].status = "Remote"
    PROVE  NotNew(o)
BY Typed DEF WritingLocal, NotNew

LEMMA RemovalsStep ==
    ASSUME TypeOK, TypeOK', Numbered, References, Locked, \A t \in Threads : Places(t),
           WritingLocal, Removals, Coarse, Step
    PROVE  Removals'
<1>1. /\ \A t \in Threads : thread[t].src \in 0 .. Len(objs) /\ thread[t].obj \in 0 .. Len(objs) /\ thread[t].name \in Names
      /\ children \in [Names -> 0 .. Len(objs)]
  BY TypeFacts, Typed DEF ThreadSet
<1>2. SUFFICES ASSUME NEW t \in Threads,
                      NEW s, s = thread'[t].src, NEW o, o = thread'[t].obj, NEW n \in Names, n = thread'[t].name,
                      NEW c, c = children'[n]
               PROVE  /\ thread'[t].op = "unlink" /\ thread'[t].pc \in {"s3", "local"} => NotNew(o)'
                      /\ thread'[t].op = "rename" /\ s # 0 => NotNew(s)' /\ NotNew(c)'
                      /\ thread'[t].op = "rename" /\ s = 0 /\ thread'[t].pc = "looked" /\ o # 0 =>
                            c = o \/ NotNew(c)'
  <2>1. \A t \in Threads : thread'[t].name \in Names
    BY DEF TypeOK
  <2> QED  BY <1>2, <2>1 DEF Removals, NotNew
<1>3. ASSUME NEW p \in 0 .. Len(objs), NotNew(p) PROVE NotNew(p)'
  BY <1>3, NotNewKept
<1>4. ASSUME thread'[t].op = "rename" PROVE c = children[n] \/ NotNew(c)'
  BY <1>2, <1>4, NoNewEntry DEF NotNew
<1>5. ASSUME thread'[t].op = "rename", NotNew(children[n]) PROVE NotNew(c)'
  <2>1. children[n] \in 0 .. Len(objs)
    BY <1>1
  <2> QED  BY <1>3, <1>4, <1>5, <2>1
<1>6. CASE thread'[t] = thread[t]
  <2>1. s \in 0 .. Len(objs) /\ o \in 0 .. Len(objs) /\ n = thread[t].name /\ s = thread[t].src /\ o = thread[t].obj
    BY <1>1, <1>2, <1>6
  <2>2. /\ thread[t].op = "unlink" /\ thread[t].pc \in {"s3", "local"} => NotNew(o)
        /\ thread[t].op = "rename" /\ s # 0 => NotNew(s) /\ NotNew(children[n])
        /\ thread[t].op = "rename" /\ s = 0 /\ thread[t].pc = "looked" /\ o # 0 => children[n] = o \/ NotNew(children[n])
    BY <2>1 DEF Removals
  <2> QED  BY <1>3, <1>4, <1>5, <1>6, <2>1, <2>2
<1>7. CASE Asks(t)
  BY <1>2, <1>7 DEF Asks
<1>8. CASE Outcome(t)
  <2>1. CASE Ends(t)
    BY <2>1, IdleFields DEF Ends
  <2>2. ASSUME SameSource(t)
        PROVE  thread'[t].op = "rename" /\ s # 0 => NotNew(s)' /\ NotNew(c)'
    <3> SUFFICES ASSUME thread'[t].op = "rename", s # 0 PROVE NotNew(s)' /\ NotNew(c)'
      OBVIOUS
    <3>1. thread[t].op = "rename" /\ n = thread[t].name /\ s = thread[t].src /\ s \in 0 .. Len(objs)
      BY <1>1, <1>2, <2>2 DEF SameSource, SameRequest
    <3>2. NotNew(s) /\ NotNew(children[n])
      BY <3>1 DEF Removals
    <3> QED  BY <1>3, <1>5, <3>1, <3>2
  <2>3. CASE Goes(t)
    <3>1. o = thread[t].obj /\ o \in 0 .. Len(objs) /\ SameSource(t) /\ thread'[t].op = thread[t].op /\ thread'[t].pc # "looked"
      BY <1>1, <1>2, <2>3 DEF Goes, SameSource, SameRequest
    <3>2. ASSUME thread'[t].op = "unlink", thread'[t].pc \in {"s3", "local"} PROVE NotNew(o)
      <4>1. CASE thread[t].pc = "s3"
        BY <3>1, <3>2, <4>1 DEF Removals
      <4>2. CASE thread[t].pc = "looked" /\ o # 0 /\ objs[o].status = "Remote"
        <5>1. o \in 1 .. Len(objs)
          BY <3>1, <4>2, Typed
        <5> QED  BY <4>2, <5>1, RemoteNotNew
      <4>3. CASE thread[t].pc = "renamed"
        BY <3>1, <3>2, <4>3 DEF Places
      <4> QED  BY <2>3, <3>1, <3>2, <4>1, <4>2, <4>3 DEF Goes
    <3> QED  BY <1>3, <2>2, <3>1, <3>2
  <2>4. CASE Finds(t)
    <3>1. /\ SameSource(t) /\ o = children[Target(t)] /\ UNCHANGED children /\ thread'[t].pc = "looked"
      BY <1>2, <2>4 DEF Finds
    <3>2. ASSUME thread'[t].op = "rename", s = 0 PROVE c = o
      <4>1. Target(t) = n
        BY <1>2, <3>1, <3>2 DEF Target, SameSource, SameRequest
      <4> QED  BY <1>2, <3>1, <4>1
    <3> QED  BY <2>2, <3>1, <3>2
  <2>5. CASE FindsNothing(t)
    BY <1>2, <2>2, <2>5 DEF FindsNothing
  <2>6. CASE Makes(t)
    <3>1. SameSource(t) /\ thread'[t].pc \in {"looked", "remember"} /\ o = Len(objs) + 1
      BY <1>2, <2>6 DEF Makes
    <3>2. ASSUME thread'[t].op = "rename", s = 0, thread'[t].pc = "looked" PROVE c = o
      <4>1. Target(t) = n
        BY <1>2, <3>1, <3>2 DEF Target, SameSource, SameRequest
      <4> QED  BY <1>2, <2>6, <3>1, <3>2, <4>1 DEF Makes, Creates
    <3> QED  BY <2>2, <3>1, <3>2
  <2>7. CASE HasSource(t)
    <3>1. /\ s = thread[t].obj /\ s \in 1 .. Len(objs) /\ objs[s].status = "Remote" /\ thread[t].op = "rename"
          /\ thread'[t].op = "rename" /\ thread'[t].pc = "cache" /\ thread[t].pc = "looked" /\ thread[t].src = 0
          /\ n = thread[t].name
      BY <1>2, <2>7 DEF HasSource, Pends, SameRequest
    <3>2. NotNew(s) /\ s # 0 /\ s \in 0 .. Len(objs)
      BY <3>1, RemoteNotNew, Typed
    <3>3. NotNew(children[n])
      BY <3>1, <3>2 DEF Removals
    <3> QED  BY <1>3, <1>5, <3>1, <3>2, <3>3
  <2> QED  BY <1>8, <2>1, <2>3, <2>4, <2>5, <2>6, <2>7 DEF Outcome
<1>9. CASE \E u \in Threads : Asks(u) \/ Outcome(u)
  BY <1>6, <1>7, <1>8, <1>9 DEF Asks, Outcome, OthersStay
<1> QED  BY <1>6, <1>9, StepOutcome

LEMMA TargetRemovalsStep ==
    ASSUME TypeOK, TypeOK', Numbered, References, Locked, \A t \in Threads : Places(t),
           WritingLocal, WritingLocal', RenamesLook, TargetRemovals, Coarse, Step, mount' = mount
    PROVE  TargetRemovals'
<1>1. /\ \A t \in Threads : thread[t].obj \in 0 .. Len(objs) /\ thread[t].dst \in Names
      /\ children \in [Names -> 0 .. Len(objs)] /\ mount \in Mounts
  BY TypeFacts, Typed DEF ThreadSet
<1>2. SUFFICES ASSUME NEW t \in Threads, thread'[t].op = "rename",
                      NEW o, o = thread'[t].obj, NEW n \in Names, n = thread'[t].dst, NEW c, c = children'[n]
               PROVE  /\ thread'[t].src # 0 /\ thread'[t].pc = "looked" => c = o \/ NotNew(c)'
                      /\ thread'[t].pc \in {"s3", "renamed", "local"} => NotNew(c)'
  <2>1. \A t \in Threads : thread'[t].dst \in Names
    BY DEF TypeOK
  <2> QED  BY <1>2, <2>1 DEF TargetRemovals, NotNew
<1>3. CASE "rename" \notin Ops
  <2>1. thread'[t].op \in Ops \cup {"none", "readdir"}
    BY DEF TypeOK, Ops
  <2> QED  BY <1>2, <1>3, <2>1
<1>4. CASE Ops \cap {"create", "mkdir"} = {}
  BY <1>4 DEF WritingLocal, Ops, NotNew
<1>5. CASE ~MayFail /\ ~Cache
  <2>1. ASSUME NEW p \in 0 .. Len(objs), NotNew(p) PROVE NotNew(p)'
    BY <2>1, NotNewKept
  <2>2. c = children[n] \/ NotNew(c)'
    BY <1>2, NoNewEntry DEF NotNew
  <2>3. ASSUME NotNew(children[n]) PROVE NotNew(c)'
    <3>1. children[n] \in 0 .. Len(objs)
      BY <1>1
    <3> QED  BY <2>1, <2>2, <2>3, <3>1
  <2>4. CASE thread'[t] = thread[t]
    <3>1. o = thread[t].obj /\ n = thread[t].dst
      BY <1>2, <2>4
    <3>2. /\ thread[t].src # 0 /\ thread[t].pc = "looked" => children[n] = o \/ NotNew(children[n])
          /\ thread[t].pc \in {"s3", "renamed", "local"} => NotNew(children[n])
      BY <1>2, <2>4, <3>1 DEF TargetRemovals
    <3> QED  BY <2>2, <2>3, <2>4, <3>2
  <2>5. CASE Asks(t)
    BY <2>5 DEF Asks
  <2>6. CASE Outcome(t)
    <3>1. CASE Ends(t)
      BY <1>2, <3>1, IdleFields DEF Ends
    <3>2. CASE Goes(t)
      <4>1. /\ o = thread[t].obj /\ o \in 0 .. Len(objs) /\ n = thread[t].dst /\ thread[t].op = "rename"
            /\ thread'[t].pc # "looked"
        BY <1>1, <1>2, <3>2 DEF Goes, SameSource, SameRequest
      <4>2. ASSUME thread'[t].pc \in {"s3", "renamed", "local"} PROVE NotNew(children[n])
        <5>1. CASE thread[t].pc \in {"s3", "renamed"}
          BY <4>1, <5>1 DEF TargetRemovals
        <5>2. CASE thread[t].pc = "looked" /\ thread[t].src # 0 /\ (o # 0 => Pends(o))
          <6>1. NotNew(o)
            BY <5>2, RemoteNotNew DEF Pends, NotNew
          <6> QED  BY <4>1, <5>2, <6>1 DEF TargetRemovals
        <5> QED  BY <3>2, <4>1, <4>2, <5>1, <5>2 DEF Goes
      <4> QED  BY <2>3, <4>1, <4>2
    <3>3. ASSUME SameSource(t), thread'[t].src # 0 PROVE Target(t) = n
      BY <1>2, <3>3 DEF Target, SameSource, SameRequest
    <3>4. CASE Finds(t)
      BY <1>2, <3>3, <3>4 DEF Finds
    <3>5. CASE FindsNothing(t)
      BY <1>2, <1>5, <3>3, <3>5 DEF FindsNothing, NotNew
    <3>6. CASE Makes(t)
      <4>1. SameSource(t) /\ thread'[t].pc \in {"looked", "remember"} /\ o = Len(objs) + 1
        BY <1>2, <3>6 DEF Makes
      <4>2. ASSUME thread'[t].src # 0, thread'[t].pc = "looked" PROVE c = o
        BY <1>2, <3>3, <3>6, <4>1, <4>2 DEF Makes, Creates
      <4> QED  BY <4>1, <4>2
    <3>7. CASE HasSource(t)
      BY <3>7 DEF HasSource
    <3> QED  BY <2>6, <3>1, <3>2, <3>4, <3>5, <3>6, <3>7 DEF Outcome
  <2>7. CASE \E u \in Threads : Asks(u) \/ Outcome(u)
    BY <2>4, <2>5, <2>6, <2>7 DEF Asks, Outcome, OthersStay
  <2> QED  BY <2>4, <2>7, StepOutcome
<1> QED  BY <1>1, <1>3, <1>4, <1>5 DEF RenamesLook, Ops, Cache

-----------------------------------------------------------------------------
\* The invariant

LEMMA DirInit == Init => DirInv /\ TargetRemovals
<1> SUFFICES ASSUME Init PROVE DirInv /\ TargetRemovals
  OBVIOUS
<1>1. /\ mount \in Mounts /\ FileTtl \in Nat /\ NegativeTtl \in Nat /\ mount.maxRequests \in Nat /\ mount.maxRemote \in Nat
      /\ mount.dirs \subseteq Names /\ AnyName \in Names
  BY DirectoryAssumption DEF Init, FileTtl, NegativeTtl, AnyName
<1>2. objs = <<>> /\ objs \in Seq(Obj) /\ Len(objs) = 0 /\ DOMAIN objs = {}
  BY DEF Init
<1>3. /\ thread = [t \in Threads |-> Idle] /\ children = [n \in Names |-> 0] /\ inodes = [i \in Inos |-> NoInode]
      /\ refs = [i \in Inos |-> 0] /\ dentry = [n \in Names |-> 0] /\ writing = {} /\ nextIno = 1
  BY DEF Init
<1>4. MaxObjs \in Nat
  BY DirectoryAssumption
<1>5. TypeOK
  <2>1. Idle \in ThreadSet(0)
    BY <1>1 DEF Idle, ThreadSet
  <2>2. thread \in [Threads -> ThreadSet(0)]
    BY <1>3, <2>1
  <2>3. inodes \in [Inos -> [obj : 0 .. 0, count : Nat]]
    BY <1>3 DEF NoInode
  <2>4. nextIno \in 1 .. MaxObjs + 1 /\ Len(objs) <= MaxObjs
    BY <1>2, <1>3, <1>4
  <2>5. /\ negative \in [Names -> 0 .. NegativeTtl] /\ renames \in {"unknown", "yes", "no"}
        /\ sent \in 0 .. mount.maxRequests /\ foreign \in 0 .. mount.maxRemote
        /\ s3 \in [Names -> Etags \cup {0}] /\ s3dirs \subseteq Names
    BY <1>1 DEF Init
  <2>6. /\ children \in [Names -> 0 .. 0] /\ refs \in [Inos -> Nat] /\ dentry \in [Names -> Inos \cup {0}] /\ writing \subseteq Inos
    BY <1>3
  <2> QED  BY <1>1, <1>2, <2>2, <2>3, <2>4, <2>5, <2>6 DEF TypeOK, ThreadSet
<1>6. \A t \in Threads : thread[t] = Idle
  BY <1>3
<1>7. Locked
  BY <1>6, IdleFields DEF Locked, Changes
<1>8. \A t \in Threads : Places(t)
  BY <1>6, IdleFields DEF Places
<1>9. Numbered
  BY <1>2, <1>3 DEF Numbered, NoInode
<1>10. Entries /\ OneObjectPerInode /\ Pending
  BY <1>3 DEF Entries, OneObjectPerInode, Pending
<1>11. RenameObjects /\ Removals /\ TargetRemovals
  BY <1>6, IdleFields DEF RenameObjects, Removals, TargetRemovals
<1>12. References
  BY <1>3 DEF References, NoInode
<1>13. WritingLocal
  BY <1>3 DEF WritingLocal
<1> QED  BY <1>5, <1>7, <1>8, <1>9, <1>10, <1>11, <1>12, <1>13 DEF DirInv

LEMMA DirNext ==
    ASSUME DirInv, Next
    PROVE  DirInv' /\ Coarse
<1>1. /\ TypeOK /\ Locked /\ (\A t \in Threads : Places(t))
      /\ Numbered /\ Entries /\ RenameObjects /\ OneObjectPerInode
      /\ References /\ Pending /\ WritingLocal /\ Removals
  BY DEF DirInv
<1>2. Step /\ mount' = mount
  BY DEF Next
<1>3. Coarse /\ RestTyped'
  BY <1>1, <1>2, StepCoarse, RestStep
<1>4. TypeOK'
  BY <1>1, <1>2, <1>3, TypeStep
<1>5. Locked'
  BY <1>1, <1>2, LockedStep
<1>6. \A t \in Threads : Places(t)'
  BY <1>1, <1>2, PlacesStep
<1>7. Numbered'
  BY <1>1, <1>3, <1>4, NumberedStep
<1>8. Entries' /\ OneObjectPerInode'
  BY <1>1, <1>3, <1>4, EntriesStep
<1>9. RenameObjects'
  BY <1>1, <1>2, <1>3, <1>4, RenameObjectsStep
<1>10. References'
  BY <1>1, <1>2, <1>3, <1>4, ReferencesStep
<1>11. Pending'
  BY <1>1, <1>2, <1>3, <1>4, PendingStep
<1>12. WritingLocal'
  BY <1>1, <1>2, <1>3, <1>4, WritingStep
<1>13. Removals'
  BY <1>1, <1>2, <1>3, <1>4, RemovalsStep
<1> QED  BY <1>3, <1>4, <1>5, <1>6, <1>7, <1>8, <1>9, <1>10, <1>11, <1>12, <1>13 DEF DirInv

LEMMA DirStutter ==
    ASSUME DirInv, UNCHANGED vars
    PROVE  DirInv' /\ (TargetRemovals => TargetRemovals')
<1>1. UNCHANGED <<mount, objs, children, writing, nextIno, inodes, negative, renames, thread, refs, dentry, sent,
                  s3, s3dirs, foreign>>
  BY DEF vars, superblock, kernel, remote
<1>2. TypeOK'
  BY <1>1 DEF DirInv, TypeOK, Obj, Ops, FileTtl, NegativeTtl
<1>3. Locked' /\ \A t \in Threads : Places(t)'
  BY <1>1 DEF DirInv, Locked, Places, Idle
<1>4. Numbered' /\ Entries' /\ OneObjectPerInode' /\ RenameObjects'
  BY <1>1 DEF DirInv, Numbered, Entries, OneObjectPerInode, RenameObjects, Latest, Target
<1>5. References' /\ Pending' /\ WritingLocal'
  BY <1>1 DEF DirInv, References, Pending, WritingLocal, Ops
<1>6. Removals' /\ (TargetRemovals => TargetRemovals')
  BY <1>1 DEF DirInv, Removals, TargetRemovals, NotNew
<1> QED  BY <1>2, <1>3, <1>4, <1>5, <1>6 DEF DirInv

LEMMA DirAlways == Spec => []DirInv
<1>1. Init => DirInv
  BY DirInit
<1>2. DirInv /\ [Next]_vars => DirInv'
  BY DirNext, DirStutter
<1> QED  BY <1>1, <1>2, PTL DEF Spec

\* Type correctness, for any names, threads, mounts and bounds: every object
\* that an entry, the inode map or a request names exists, whatever requests,
\* forgets, failures and changes by another client come in whatever order.
THEOREM DirectoryTypeCorrect == Spec => []TypeOK
<1>1. DirInv => TypeOK
  BY DEF DirInv
<1> QED  BY <1>1, DirAlways, PTL

\* The lookup counts of the inode map cover the kernel's references, and
\* between requests they are equal on a mount without renames: the
\* debug_assert of forget holds for any number of threads and inodes.
THEOREM LookupCountsCoverReferences == Spec => []CountsMatchKernel
<1>1. DirInv => CountsMatchKernel
  BY DEF DirInv, References, CountsMatchKernel
<1> QED  BY <1>1, DirAlways, PTL

\* An entry is filed under its own name, and the object found by name is the
\* one the inode map has for its number, through creates, renames, forgets
\* and inodes that other clients' changes replace.
THEOREM EntriesAndInodeMapAgree == Spec => []OneObjectPerInode
<1>1. DirInv => OneObjectPerInode
  BY DEF DirInv
<1> QED  BY <1>1, DirAlways, PTL

\* What rmdir has found is not in PendingRename.
RmdirFound ==
    \A t \in Threads : thread[t].op = "rmdir" /\ thread[t].obj # 0 =>
        objs[thread[t].obj].status # "PendingRename"

LEMMA RmdirFoundStep ==
    ASSUME DirInv, DirInv', Coarse, Step, RmdirFound
    PROVE  RmdirFound'
<1>1. /\ TypeOK /\ TypeOK' /\ Numbered /\ References /\ Locked /\ Locked' /\ Pending'
      /\ (\A t \in Threads : Places(t)) /\ Len(objs) \in Nat
  BY Typed DEF DirInv
<1>2. SUFFICES ASSUME NEW t \in Threads, thread'[t].op = "rmdir", thread'[t].obj # 0,
                      objs'[thread'[t].obj].status = "PendingRename"
               PROVE  FALSE
  BY DEF RmdirFound
<1>3. \A u \in Threads : thread'[u].op # "rename"
  BY <1>1, <1>2 DEF Locked, Changes
<1>4. ~(thread[t].op = "rmdir" /\ thread'[t].obj = thread[t].obj)
  <2> SUFFICES ASSUME thread[t].op = "rmdir", thread'[t].obj = thread[t].obj PROVE FALSE
    OBVIOUS
  <2>1. PICK o \in 1 .. Len(objs) : o = thread[t].obj
    BY <1>1, <1>2, TypeFacts DEF ThreadSet
  <2>2. objs[o].status # "PendingRename" /\ objs'[o].status = "PendingRename"
    BY <1>2, <2>1 DEF RmdirFound
  <2>3. CASE RenameStep
    <3>1. PICK x \in Obj : Made(x)
      BY <2>3 DEF RenameStep, RenamedTo
    <3> QED  BY <2>1, <2>2, <3>1 DEF Made
  <2>4. CASE Steady
    <3>1. \E u \in Threads : Holds(u, o)'
      BY <1>1, <2>2, <2>4, PendsHeld
    <3> QED  BY <1>3, <3>1 DEF Holds
  <2> QED  BY <2>3, <2>4 DEF Coarse, Steady
<1>5. Outcome(t)
  <2>1. thread'[t] # thread[t] /\ ~Asks(t)
    BY <1>2, <1>4 DEF Asks
  <2>2. PICK u \in Threads : Asks(u) \/ Outcome(u)
    BY <1>1, <2>1, StepOutcome
  <2>3. u = t
    BY <2>1, <2>2 DEF Asks, Outcome, OthersStay
  <2> QED  BY <2>1, <2>2, <2>3
<1>6. ~Ends(t)
  BY <1>2, IdleFields DEF Ends
<1>7. CASE Finds(t)
  <2>1. Target(t) \in Names
    BY <1>1, TargetFacts
  <2>2. PICK n \in Names : children'[n] = thread'[t].obj
    BY <1>7, <2>1 DEF Finds
  <2>3. \E u \in Threads : thread'[u].op = "rename"
    BY <1>1, <1>2, <2>2 DEF Pending
  <2> QED  BY <1>3, <2>3
<1>8. CASE Makes(t)
  <2>1. PICK x : Made(x) /\ x.status # "PendingRename" /\ thread'[t].obj = Len(objs) + 1
    BY <1>8 DEF Makes, Creates
  <2> QED  BY <1>2, <2>1 DEF Made
<1> QED  BY <1>2, <1>4, <1>5, <1>6, <1>7, <1>8
         DEF Outcome, Goes, FindsNothing, HasSource, SameSource, SameRequest

LEMMA RmdirFoundAlways == Spec => []RmdirFound
<1>1. Init => RmdirFound
  BY IdleFields DEF Init, RmdirFound
<1>2. ASSUME DirInv, DirInv', RmdirFound, [Next]_vars PROVE RmdirFound'
  <2>1. CASE Next
    BY <1>2, <2>1, DirNext, RmdirFoundStep DEF Next
  <2>2. CASE UNCHANGED vars
    BY <1>2, <2>2 DEF vars, superblock, RmdirFound
  <2> QED  BY <1>2, <2>1, <2>2
<1>3. DirInv /\ DirInv' /\ RmdirFound /\ [Next]_vars => RmdirFound'
  BY <1>2
<1> QED  BY <1>1, <1>3, DirAlways, PTL DEF Spec

\* An entry is in PendingRename only while the rename that put it there is
\* under way: every path out of rename drops or replaces its guards.  And no
\* rmdir meets such an entry, although a directory can be one.
THEOREM PendingRenamesEnd == Spec => []PendingRenameIsPending
<1>1. ASSUME DirInv, RmdirFound PROVE PendingRenameIsPending
  <2>1. ASSUME NEW n \in Names, children[n] # 0, objs[children[n]].status = "PendingRename"
        PROVE  \E t \in Threads : children[n] \in Guarded(t)
    <3>1. PICK t \in Threads : thread[t].op = "rename" /\ children[n] \in {thread[t].src, thread[t].obj}
      BY <1>1, <2>1 DEF DirInv, Pending
    <3> QED  BY <3>1 DEF Guarded
  <2> QED  BY <1>1, <2>1 DEF PendingRenameIsPending, RmdirFound
<1>2. DirInv /\ RmdirFound => PendingRenameIsPending
  BY <1>1
<1> QED  BY <1>2, DirAlways, RmdirFoundAlways, PTL

-----------------------------------------------------------------------------
\* New files and directories

LEMMA TargetRemovalsAlways == RenamesLook => (Spec => []TargetRemovals)
<1> SUFFICES ASSUME RenamesLook PROVE Spec => []TargetRemovals
  OBVIOUS
<1>1. Init => TargetRemovals
  BY DirInit
<1>2. ASSUME DirInv, DirInv', TargetRemovals, [Next]_vars PROVE TargetRemovals'
  <2>1. CASE Next
    BY <1>2, <2>1, DirNext, TargetRemovalsStep DEF DirInv, Next
  <2>2. CASE UNCHANGED vars
    BY <1>2, <2>2, DirStutter
  <2> QED  BY <1>2, <2>1, <2>2
<1>3. DirInv /\ DirInv' /\ TargetRemovals /\ [Next]_vars => TargetRemovals'
  BY <1>2
<1> QED  BY <1>1, <1>3, DirAlways, PTL DEF Spec

\* Why a new entry went away.
Explained(n) ==
    LET o == children[n]
    IN  (o # 0 /\ children'[n] # o) /\ objs[o].ino \in writing =>
           \/ refs'[objs[o].ino] < refs[objs[o].ino]
           \/ children'[n] # 0 /\ objs'[children'[n]].kind = "dir"
           \/ \E t \in Threads : thread[t].op = "rmdir" /\ thread[t] # thread'[t]

LEMMA NewEntryStep ==
    ASSUME DirInv, TargetRemovals, Step, NEW n \in Names
    PROVE  Explained(n)
<1>1. /\ TypeOK /\ Numbered /\ References /\ WritingLocal /\ Removals /\ (\A t \in Threads : Places(t))
      /\ Len(objs) \in Nat /\ children \in [Names -> 0 .. Len(objs)] /\ refs \in [Inos -> Nat]
  BY Typed DEF DirInv
<1>2. SUFFICES ASSUME children[n] # 0, children'[n] # children[n], ~NotNew(children[n])
               PROVE  \/ refs'[objs[children[n]].ino] < refs[objs[children[n]].ino]
                      \/ children'[n] # 0 /\ objs'[children'[n]].kind = "dir"
                      \/ \E t \in Threads : thread[t].op = "rmdir" /\ thread[t] # thread'[t]
  BY <1>2 DEF Explained, NotNew
<1>3. ASSUME UNCHANGED children PROVE FALSE
  BY <1>2, <1>3
<1>4. ASSUME NEW t \in Threads, LookupStep(t) PROVE children'[n] # 0 /\ objs'[children'[n]].kind = "dir"
  <2>1. CASE Update(t)
    <3>1. CASE NothingRemote(t, Target(t), children[Target(t)])
      BY <1>1, <1>2, <1>3, <3>1, NothingRemoteEffect
    <3>2. CASE LocalShadowsRemote(t, children[Target(t)])
      BY <1>3, <3>2 DEF LocalShadowsRemote
    <3>3. CASE UpdateInPlace(t, children[Target(t)])
      BY <1>3, <3>3 DEF UpdateInPlace
    <3>4. CASE Recreate(t, Target(t), children[Target(t)])
      <4>1. /\ Creates(Target(t), FoundKind(t), "Remote") /\ FoundKind(t) \in {"file", "dir"}
            /\ FoundKind(t) = "file" /\ children[Target(t)] # 0 => objs[children[Target(t)]].status = "Remote"
        BY <1>1, <3>4, RecreateEffect
      <4>2. n = Target(t)
        BY <1>2, <4>1 DEF Creates
      <4>3. FoundKind(t) # "file"
        BY <1>1, <1>2, <4>1, <4>2, RemoteNotNew
      <4> QED  BY <1>1, <4>1, <4>2, <4>3 DEF Creates, Made
    <3> QED  BY <1>1, <2>1, <3>1, <3>2, <3>3, <3>4, UpdateEffect
  <2> QED  BY <1>3, <1>4, <2>1 DEF LookupStep, CacheLookup, Getattr, HeadObject, ListObjects, LookupFails,
                                   UpdateNegative, LookupReturns, superblock
<1>5. ASSUME NEW t \in Threads, ChangeStep(t) PROVE thread[t].op = "rmdir" /\ thread[t] # thread'[t]
  <2>1. CASE Create(t)
    BY <1>1, <1>2, <2>1, CreateEffect DEF Creates
  <2>2. CASE Rmdir(t)
    <3>1. thread[t].op = "rmdir" /\ thread'[t] = Idle
      BY <1>1, <2>2, RmdirEffect DEF Rmdir, Moves
    <3> QED  BY <3>1, IdleFields
  <2>3. CASE Unlink(t)
    <3>1. objs[children[n]].ino = objs[thread[t].obj].ino
      BY <1>1, <1>2, <2>3, UnlinkEffect
    <3>2. NotNew(thread[t].obj) /\ thread[t].obj # 0
      BY <1>1, <2>3 DEF Unlink, Removals, Places
    <3> QED  BY <1>2, <3>1, <3>2 DEF NotNew
  <2>4. CASE Rename(t)
    <3>1. /\ RenamedTo(t) /\ thread[t].op = "rename" /\ thread[t].src \in 1 .. Len(objs) /\ thread[t].pc = "local"
          /\ thread[t].name \in Names /\ thread[t].dst \in Names
      BY <1>1, <2>4, RenameEffect DEF Rename
    <3>2. n \in {thread[t].dst, thread[t].name}
      BY <1>2, <3>1 DEF RenamedTo
    <3>3. NotNew(children[thread[t].dst])
      BY <3>1 DEF TargetRemovals
    <3>4. NotNew(children[thread[t].name])
      BY <1>1, <3>1 DEF Removals
    <3> QED  BY <1>2, <3>2, <3>3, <3>4
  <2> QED  BY <1>3, <1>5, <2>1, <2>2, <2>3, <2>4
           DEF ChangeStep, CreateLooked, CreateReturns, UnlinkLooked, DeleteObject, RenameSource, RenameTarget,
               RenameObject, RenameFails, RenameSucceeds, superblock
<1>6. ASSUME NEW t \in Threads, NEW op \in Ops \ {"write", "setattr"}, NEW m \in mount.names, NEW d \in mount.names,
             Request(t, op, m, d)
      PROVE  FALSE
  BY <1>3, <1>6 DEF Request, superblock
<1>7. ASSUME NEW i \in Inos, InodeStep(i) PROVE refs'[objs[children[n]].ino] < refs[objs[children[n]].ino]
  <2>1. CASE Forget(i)
    <3>1. objs[children[n]].ino = i /\ refs'[i] = 0 /\ refs[i] > 0
      BY <1>1, <1>2, <2>1, ForgetEffect DEF Forgotten
    <3> QED  BY <3>1
  <2> QED  BY <1>3, <1>7, <2>1 DEF InodeStep, Setattr, StartWriting, PutObject, FinishWriting
<1>8. CASE Tick
  BY <1>3, <1>8 DEF Tick
<1>9. ASSUME NEW m \in mount.names, OtherClientChanges(m) PROVE FALSE
  BY <1>3, <1>9 DEF OtherClientChanges, superblock
<1> QED  BY <1>4, <1>5, <1>6, <1>7, <1>8, <1>9 DEF Step

\* A new file or directory stays in its directory until its write is
\* finished, whatever other requests do, on mounts whose renames see what is
\* at their target: only a forget, a directory of that name in S3 or its own
\* rmdir takes the entry away.
THEOREM NewEntriesAreKept == RenamesLook => (Spec => NewEntriesStay)
<1> SUFFICES ASSUME RenamesLook PROVE Spec => NewEntriesStay
  OBVIOUS
<1>1. ASSUME DirInv, TargetRemovals, [Next]_vars
      PROVE  [\A n \in Names : Explained(n)]_vars
  BY <1>1, NewEntryStep DEF Next
<1>2. Spec => [][\A n \in Names : Explained(n)]_vars
  BY <1>1, DirAlways, TargetRemovalsAlways, PTL DEF Spec
<1> QED  BY <1>2 DEF NewEntriesStay, Explained

-----------------------------------------------------------------------------
\* Lookups on a mount that is alone with its bucket: what they find was there.

\* The mounts for which this holds: with another client, or with renames, a
\* lookup may answer from what has changed since.
MountsAlone == \A m \in Mounts : m.cache \/ (m.maxRemote = 0 /\ "rename" \notin m.ops)

\* An entry that is among the writing children.
New(n) == children[n] # 0 /\ objs[children[n]].ino \in writing
Creating(t) == thread[t].op \in {"create", "mkdir"}

\* A create that was told that there is no such file.
FoundNothing(t) ==
    /\ Creating(t)
    /\ \/ thread[t].pc \in {"remote", "update"} /\ thread[t].head = 0
       \/ thread[t].pc = "looked" /\ thread[t].obj = 0
       \/ thread[t].pc = "insert"

\* Without renames an object has a number of its own.
OneEach == nextIno = Len(objs) + 1 /\ \A o \in DOMAIN objs : objs[o].ino = o

Dirs == \A o \in DOMAIN objs : objs[o].kind = "dir" => objs[o].status \in {"LocalUnopened", "Remote"}

\* A new entry is not in S3; the kernel has it, or is about to be given it.
Entry(n) ==
    /\ New(n) => n \notin s3dirs
    /\ New(n) => \/ dentry[n] = objs[children[n]].ino
                 \/ \E t \in Threads : thread[t].pc = "remember" /\ thread[t].obj = children[n]
    /\ children[n] # 0 /\ objs[children[n]].status = "LocalUnopened" => New(n)

\* What S3 has answered, ...
Answered(t) ==
    /\ thread[t].op # "rename" /\ thread[t].pc # "negative"
    /\ thread[t].pc = "cache" => thread[t].head = -1 /\ thread[t].list = "pending"
    /\ thread[t].pc = "update" => thread[t].list = "yes" \/ (thread[t].head # -1 /\ thread[t].list = "no")
    /\ thread[t].list = "yes" => thread[t].name \in s3dirs
    /\ thread[t].list = "no" => thread[t].name \notin s3dirs
    /\ Creating(t) /\ (thread[t].pc = "insert" \/ (thread[t].pc = "looked" /\ thread[t].obj = 0)) =>
          thread[t].name \notin s3dirs

\* and what a request has to do with new entries: it has the lock of the
\* directory, or the entry is one that the kernel had when it asked.
Keeps(t) == thread[t].lock = "none" => objs[children[thread[t].name]].ino \in thread[t].pin
SeesNew(t) ==
    /\ thread[t].op = "lookup" => thread[t].lock # "excl"
    /\ Creating(t) => dentry[thread[t].name] = 0
    /\ thread[t].op = "lookup" /\ thread[t].lock = "shared" => ~New(thread[t].name)
    /\ thread[t].op = "unlink" /\ thread[t].pc \in {"s3", "local"} => ~New(thread[t].name)
    /\ thread[t].pc \in {"looked", "remember"} /\ New(thread[t].name) /\ Keeps(t) =>
          thread[t].obj = children[thread[t].name]
    /\ thread[t].obj # 0 => objs[thread[t].obj].name = thread[t].name
    /\ \A i \in thread[t].pin : i < nextIno

\* What a lookup has seen.  A file that it has not seen missing is one that
\* the kernel had when it asked, and holds on to.
NoFile(t) == "no file" \in obs[t] \/ "finished" \in obs[t]
PinnedFile(t) == LocalKind(thread[t].name, "file") /\ objs[children[thread[t].name]].ino \in thread[t].pin
Seen(t) ==
    thread[t].op = "lookup" =>
        /\ thread[t].head > 0 => "file" \in obs[t]
        /\ thread[t].list = "yes" => "dir" \in obs[t]
        /\ thread[t].list = "no" => "no dir" \in obs[t] \/ LocalKind(thread[t].name, "dir")
        /\ thread[t].head = 0 => NoFile(t) \/ PinnedFile(t)
        /\ thread[t].lock = "none" /\ LocalKind(thread[t].name, "file") => NoFile(t) \/ PinnedFile(t)
        /\ \A u \in Threads : thread[t].lock = "none" /\ FoundNothing(u) /\ thread[u].name = thread[t].name =>
              "no file" \in obs[t]

\* The inductive invariant of such a mount, beside DirInv.
Sole == mount.maxRemote = 0 /\ "rename" \notin Ops /\ ~Cache

SoleInv ==
    /\ OneEach /\ Dirs
    /\ \A n \in Names : Entry(n)
    /\ \A t \in Threads : Answered(t) /\ SeesNew(t) /\ Seen(t)
    /\ LookupsJustified

LookInv == Sole => SoleInv

-----------------------------------------------------------------------------
\* What a step does to entries

LEMMA SoleFacts ==
    ASSUME DirInv, Sole
    PROVE  /\ TypeOK /\ Numbered /\ References /\ WritingLocal /\ Locked /\ OneObjectPerInode
           /\ \A t \in Threads : /\ Places(t) /\ thread[t].op # "rename" /\ Target(t) = thread[t].name
                                 /\ thread[t] \in ThreadSet(Len(objs)) /\ thread[t].name \in Names
           /\ Len(objs) \in Nat /\ children \in [Names -> 0 .. Len(objs)] /\ DOMAIN objs = 1 .. Len(objs)
<1>1. TypeOK /\ Numbered /\ References /\ WritingLocal /\ Locked /\ OneObjectPerInode /\ \A t \in Threads : Places(t)
  BY DEF DirInv
<1>2. \A t \in Threads : thread[t] \in ThreadSet(Len(objs)) /\ thread[t].name \in Names
  BY <1>1, TypeFacts DEF ThreadSet
<1>3. \A t \in Threads : thread[t].op # "rename"
  BY <1>2 DEF ThreadSet, Sole
<1>4. \A t \in Threads : Target(t) = thread[t].name
  BY <1>3 DEF Target
<1> QED  BY <1>1, <1>2, <1>3, <1>4, Typed

\* An entry is an object of its own, with its index for a number.
LEMMA EntryFacts ==
    ASSUME DirInv, Sole, OneEach, NEW n \in Names, children[n] # 0
    PROVE  /\ children[n] \in 1 .. Len(objs)
           /\ objs[children[n]].ino = children[n] /\ objs[children[n]].name = n
           /\ children[n] < nextIno
<1>1. children[n] \in 1 .. Len(objs)
  BY SoleFacts
<1>2. objs[children[n]].name = n
  BY SoleFacts DEF OneObjectPerInode
<1> QED  BY <1>1, <1>2, SoleFacts DEF OneEach

\* A create makes an entry.
Inserts(u, n) ==
    /\ Creating(u) /\ thread[u].pc = "insert" /\ thread[u].name = n /\ children[n] = 0
    /\ Moves(u, [thread[u] EXCEPT !.pc = "remember", !.obj = Len(objs) + 1])
    /\ children'[n] = Len(objs) + 1
    /\ objs'[Len(objs) + 1].ino = nextIno /\ objs'[Len(objs) + 1].name = n

\* Why an entry is not new any more: it was forgotten while no request had
\* it, it was a directory and removed, or a write of it has finished.
Gone(n) ==
    \/ children'[n] = 0 /\ \A t \in Threads : objs[children[n]].ino \notin thread[t].pin
    \/ children'[n] = 0 /\ objs[children[n]].kind = "dir"
    \/ /\ children'[n] = children[n]
       /\ objs[children[n]].status = "LocalOpenForWriting" /\ objs'[children[n]].status = "Remote"

Fate(n) ==
    /\ New(n) => (New(n)' /\ children'[n] = children[n]) \/ Gone(n)
    /\ New(n)' => (New(n) /\ children'[n] = children[n]) \/ \E u \in Threads : Inserts(u, n)
    /\ children'[n] # 0 /\ objs'[children'[n]].status = "LocalUnopened" => New(n)'

LEMMA StaysFate ==
    ASSUME NEW n \in Names, Entry(n), children'[n] = children[n],
           children[n] # 0 =>
              /\ SameInode(children[n])
              /\ objs[children[n]].ino \in writing' <=> objs[children[n]].ino \in writing
              /\ objs'[children[n]].status = "LocalUnopened" => objs[children[n]].status = "LocalUnopened"
    PROVE  Fate(n)
<1>1. New(n)' <=> New(n)
  BY DEF New, SameInode
<1>2. children'[n] # 0 /\ objs'[children'[n]].status = "LocalUnopened" => New(n)
  BY DEF Entry
<1> QED  BY <1>1, <1>2 DEF Fate

LEMMA DroppedFate ==
    ASSUME NEW n \in Names, children'[n] = 0, New(n) => Gone(n)
    PROVE  Fate(n)
<1>1. ~New(n)'
  BY DEF New
<1> QED  BY <1>1 DEF Fate

StillStep == Kept /\ StatusSame /\ UNCHANGED <<children, writing>>

LEMMA StillFate ==
    ASSUME DirInv, Sole, NEW n \in Names, Entry(n), StillStep
    PROVE  Fate(n)
<1>1. children[n] # 0 => children[n] \in 1 .. Len(objs)
  BY SoleFacts
<1> QED  BY <1>1, StaysFate DEF StillStep, Kept, StatusSame

LEMMA UnchangedStill == ASSUME TypeOK, UNCHANGED <<objs, children, writing>> PROVE StillStep
BY ObjKept DEF StillStep, StatusSame

\* A lookup that finds something else than a new entry has of S3 what the
\* entry's name is not.
LEMMA FoundFate ==
    ASSUME DirInv, Sole, SoleInv, NEW t \in Threads, FoundKind(t) = "dir"
    PROVE  ~New(thread[t].name)
<1>1. thread[t].list = "yes"
  BY DEF FoundKind
<1>2. thread[t].name \in s3dirs /\ thread[t].name \in Names
  BY <1>1, SoleFacts DEF SoleInv, Answered
<1> QED  BY <1>2 DEF SoleInv, Entry

LEMMA NewIsLocal ==
    ASSUME DirInv, Sole, NEW n \in Names, New(n)
    PROVE  objs[children[n]].status \in Local
<1>1. children[n] \in 1 .. Len(objs)
  BY SoleFacts DEF New
<1> QED  BY <1>1, SoleFacts DEF New, WritingLocal, Local

LEMMA UpdateFate ==
    ASSUME DirInv, Sole, SoleInv, NEW t \in Threads, Update(t), NEW m \in Names
    PROVE  Fate(m)
<1> DEFINE n == thread[t].name
           e == children[n]
<1>1. /\ n \in Names /\ Target(t) = n /\ Entry(m) /\ TypeOK /\ Numbered /\ WritingLocal /\ OneEach
      /\ \A k \in Names : children[k] # 0 => children[k] \in 1 .. Len(objs)
      /\ Len(objs) \in Nat
  BY SoleFacts DEF SoleInv
<1>2. CASE NothingRemote(t, n, e)
  <2>1. /\ Kept /\ StatusSame /\ UNCHANGED writing
        /\ \A k \in Names : k # n => children'[k] = children[k]
        /\ NotNew(e) \/ UNCHANGED children
        /\ children'[n] \in {0, e}
    BY <1>1, <1>2, NothingRemoteEffect DEF Quiet, Shrinks
  <2>2. CASE children'[m] = children[m]
    BY <1>1, <2>1, <2>2, StaysFate DEF Kept, StatusSame
  <2>3. CASE children'[m] # children[m]
    <3>1. m = n /\ children'[m] = 0 /\ NotNew(e)
      BY <2>1, <2>3
    <3> QED  BY <3>1, DroppedFate DEF New, NotNew
  <2> QED  BY <2>2, <2>3
<1>3. CASE LocalShadowsRemote(t, e)
  <2>1. StillStep
    BY <1>1, <1>3, UnchangedStill DEF LocalShadowsRemote
  <2> QED  BY <1>1, <2>1, StillFate
<1>4. CASE UpdateInPlace(t, e)
  <2>1. /\ Kept /\ UNCHANGED children /\ e # 0 /\ objs'[e].status = "Remote"
        /\ \A p \in 1 .. Len(objs) : p # e => objs'[p] = objs[p]
        /\ writing' \in {writing, writing \ {objs[e].ino}}
    BY <1>1, <1>4, UpdateInPlaceEffect DEF Quiet
  <2>2. ~New(n)
    <3>1. SUFFICES ASSUME New(n) PROVE FALSE
      OBVIOUS
    <3>2. objs[e].status \in Local
      BY <1>1, <3>1, NewIsLocal
    <3>3. FoundKind(t) = "dir"
      BY <1>4, <3>2 DEF UpdateInPlace, SameObject, Local
    <3> QED  BY <3>1, <3>3, FoundFate
  <2>3. CASE m = n
    <3>1. ~New(m)'
      BY <1>1, <2>1, <2>2, <2>3 DEF New, Kept, SameInode
    <3>2. ~New(m)
      BY <2>2, <2>3
    <3>3. objs'[children'[m]].status = "Remote"
      BY <2>1, <2>3
    <3> QED  BY <3>1, <3>2, <3>3 DEF Fate
  <2>4. CASE m # n
    <3>1. children[m] # 0 => children[m] # e /\ objs[children[m]].ino # objs[e].ino
      BY <1>1, <2>1, <2>4, EntryFacts
    <3> QED  BY <1>1, <2>1, <3>1, StaysFate DEF Kept
  <2> QED  BY <2>3, <2>4
<1>5. CASE Recreate(t, n, e)
  <2>1. PICK x \in Obj : Made(x) /\ x.ino = nextIno /\ x.status = "Remote"
    BY <1>1, <1>5, RecreateEffect DEF Creates
  <2>2. children'[n] = Len(objs) + 1 /\ \A k \in Names : k # n => children'[k] = children[k]
    BY <1>1, <1>5, RecreateEffect DEF Creates
  <2>3. writing' = writing \ (IF e = 0 THEN {} ELSE {objs[e].ino})
    BY <1>5 DEF Recreate, CreateInode
  <2>4. ~New(n)
    <3>1. SUFFICES ASSUME New(n) PROVE FALSE
      OBVIOUS
    <3>2. objs[e].status \in Local /\ e # 0
      BY <1>1, <3>1, NewIsLocal DEF New
    <3>3. FoundKind(t) = "dir"
      BY <1>1, <1>5, <3>2, RecreateEffect DEF Local
    <3> QED  BY <3>1, <3>3, FoundFate
  <2>5. CASE m = n
    <3>1. objs'[children'[m]].status = "Remote" /\ objs'[children'[m]].ino = nextIno
      BY <2>1, <2>2, <2>5 DEF Made
    <3>2. nextIno \notin writing
      BY <1>1, Typed DEF WritingLocal
    <3>3. ~New(m)'
      BY <2>3, <3>1, <3>2 DEF New
    <3>4. ~New(m)
      BY <2>4, <2>5
    <3> QED  BY <3>1, <3>3, <3>4 DEF Fate
  <2>6. CASE m # n
    <3>1. children[m] # 0 /\ e # 0 => objs[children[m]].ino # objs[e].ino
      BY <1>1, <2>6, EntryFacts
    <3>2. children[m] # 0 => objs'[children[m]] = objs[children[m]]
      BY <1>1, <2>1 DEF Made
    <3> QED  BY <1>1, <2>2, <2>3, <2>6, <3>1, <3>2, StaysFate DEF SameInode
  <2> QED  BY <2>5, <2>6
<1> QED  BY <1>1, <1>2, <1>3, <1>4, <1>5, UpdateEffect

\* Most steps of a request leave the entries alone.
LEMMA StillSteps ==
    ASSUME DirInv, Sole, NEW t \in Threads, LookupStep(t) \/ ChangeStep(t),
           ~Update(t), ~Create(t), ~Rmdir(t), ~Unlink(t)
    PROVE  StillStep
<1>1. TypeOK /\ Places(t) /\ thread[t].op # "rename" /\ thread[t].pc # "renamed"
  BY SoleFacts DEF Places
<1>2. CASE Getattr(t)
  BY <1>1, <1>2, GetattrEffect DEF StillStep, StatusSame, Getattr
<1>3. CASE LookupFails(t)
  <2>1. Fail(t) /\ UNCHANGED <<children, writing>>
    BY <1>1, <1>3 DEF LookupFails
  <2>2. Kept /\ Released(t)
    BY <1>1, <2>1, FailEffect
  <2> QED  BY <1>1, <2>1, <2>2 DEF StillStep, StatusSame, Released, Guarded
<1>4. CASE CacheLookup(t) \/ HeadObject(t) \/ ListObjects(t) \/ UpdateNegative(t) \/ LookupReturns(t)
  BY <1>1, <1>4, UnchangedStill DEF CacheLookup, HeadObject, ListObjects, UpdateNegative, LookupReturns, superblock
<1>5. CASE CreateLooked(t) \/ CreateReturns(t) \/ UnlinkLooked(t) \/ DeleteObject(t)
  BY <1>1, <1>5, UnchangedStill DEF CreateLooked, CreateReturns, UnlinkLooked, DeleteObject, superblock
<1> QED  BY <1>1, <1>2, <1>3, <1>4, <1>5 DEF LookupStep, ChangeStep, RenameSource, RenameTarget, RenameObject,
                                             RenameFails, RenameSucceeds, Rename

\* Statuses change as far as they have to.
StatusFate ==
    \A o \in 1 .. Len(objs) : /\ SameInode(o)
                              /\ objs'[o].status \in {objs[o].status, "Remote"} \/ objs[o].kind = "file"

LEMMA StillStatus == ASSUME StillStep PROVE StatusFate
BY DEF StillStep, StatusFate, Kept, StatusSame

LEMMA MadeStatus == ASSUME NEW x, Made(x) PROVE StatusFate
BY DEF StatusFate, Made, SameInode

LEMMA UpdateStatus ==
    ASSUME DirInv, Sole, NEW t \in Threads, Update(t)
    PROVE  StatusFate
<1>1. TypeOK /\ Numbered
  BY SoleFacts
<1>2. CASE NothingRemote(t, Target(t), children[Target(t)])
  BY <1>1, <1>2, NothingRemoteEffect DEF Quiet, StatusFate, Kept, StatusSame
<1>3. CASE LocalShadowsRemote(t, children[Target(t)])
  BY <1>1, <1>3, UnchangedStill, StillStatus DEF LocalShadowsRemote
<1>4. CASE UpdateInPlace(t, children[Target(t)])
  BY <1>1, <1>4, UpdateInPlaceEffect DEF Quiet, Kept, StatusFate
<1>5. CASE Recreate(t, Target(t), children[Target(t)])
  <2>1. PICK x \in Obj : Made(x)
    BY <1>1, <1>5, RecreateEffect DEF Creates
  <2> QED  BY <2>1, MadeStatus
<1> QED  BY <1>1, <1>2, <1>3, <1>4, <1>5, UpdateEffect

LEMMA CreateFate ==
    ASSUME DirInv, Sole, SoleInv, NEW t \in Threads, Create(t), NEW m \in Names
    PROVE  Fate(m) /\ StatusFate
<1> DEFINE n == thread[t].name
<1>1. /\ TypeOK /\ Numbered /\ n \in Names /\ Entry(m) /\ WritingLocal /\ OneEach /\ Creating(t)
      /\ children[m] # 0 => children[m] \in 1 .. Len(objs)
  BY SoleFacts DEF SoleInv, Create, Places, Creating
<1>2. CASE children[n] # 0
  <2>1. StillStep
    BY <1>1, <1>2, UnchangedStill DEF Create
  <2> QED  BY <1>1, <2>1, StillFate, StillStatus
<1>3. CASE children[n] = 0
  <2>0. Len(objs') = Len(objs) + 1 /\ Len(objs) \in Nat
    BY <1>1, <1>3, TypeFacts DEF Create, CreateInode
  <2>1. /\ Moves(t, [thread[t] EXCEPT !.pc = "remember", !.obj = Len(objs) + 1])
        /\ \E kind \in {"file", "dir"} : Creates(n, kind, "LocalUnopened")
    <3>1. ~Quiet
      BY <2>0 DEF Quiet, Kept
    <3> QED  BY <1>1, <3>1, CreateEffect
  <2>2. PICK x \in Obj : Made(x) /\ x.ino = nextIno /\ x.name = n
    BY <2>1 DEF Creates
  <2>3. children'[n] = Len(objs) + 1 /\ \A k \in Names : k # n => children'[k] = children[k]
    BY <2>1 DEF Creates
  <2>4. writing' = writing \cup {nextIno}
    BY <1>3 DEF Create, CreateInode
  <2>5. CASE m = n
    <3>1. children'[m] = Len(objs) + 1 /\ Len(objs) + 1 # 0 /\ objs'[children'[m]].ino = nextIno
      BY <2>2, <2>3, <2>5, SoleFacts DEF Made
    <3>2. New(m)'
      BY <2>4, <3>1 DEF New
    <3>3. Inserts(t, m)
      BY <1>1, <1>3, <2>1, <2>2, <2>5, <3>1 DEF Inserts, Create, Made
    <3>4. ~New(m)
      BY <1>3, <2>5 DEF New
    <3>5. \E u \in Threads : Inserts(u, m)
      BY <3>3
    <3>6. Fate(m)
      BY <3>2, <3>4, <3>5 DEF Fate
    <3> QED  BY <2>2, <3>6, MadeStatus
  <2>6. CASE m # n
    <3>1. children'[m] = children[m]
      BY <2>3, <2>6
    <3>2. children[m] # 0 => objs'[children[m]] = objs[children[m]] /\ objs[children[m]].ino # nextIno
      BY <1>1, <2>2, EntryFacts DEF Made
    <3>3. children[m] # 0 => SameInode(children[m]) /\ objs'[children[m]].status = objs[children[m]].status
      BY <3>2 DEF SameInode
    <3>4. children[m] # 0 => (objs[children[m]].ino \in writing' <=> objs[children[m]].ino \in writing)
      BY <2>4, <3>2
    <3>5. Fate(m)
      BY <1>1, <3>1, <3>3, <3>4, StaysFate
    <3> QED  BY <2>2, <3>5, MadeStatus
  <2> QED  BY <2>2, <2>5, <2>6, MadeStatus
<1> QED  BY <1>2, <1>3

LEMMA RmdirFate ==
    ASSUME DirInv, Sole, SoleInv, NEW t \in Threads, Rmdir(t), NEW m \in Names
    PROVE  Fate(m) /\ StatusFate
<1> DEFINE o == thread[t].obj
<1>1. /\ TypeOK /\ thread[t].name \in Names /\ Entry(m) /\ OneEach /\ SeesNew(t) /\ o \in 0 .. Len(objs)
      /\ thread[t].lock = "excl" /\ thread[t].pc = "looked" /\ DOMAIN objs = 1 .. Len(objs)
      /\ children[m] # 0 => children[m] \in 1 .. Len(objs)
      /\ Len(objs) \in Nat
  BY SoleFacts DEF SoleInv, Rmdir, Locked, Changes, ThreadSet
<1>2. UNCHANGED objs /\ Kept /\ StatusSame
  BY <1>1, UnchangedStill, ObjKept DEF Rmdir, StatusSame
<1>3. StatusFate
  BY <1>2 DEF StatusFate, Kept, StatusSame
<1>4. CASE UNCHANGED <<children, writing>>
  BY <1>1, <1>2, <1>3, <1>4, StillFate DEF StillStep
<1>5. CASE /\ o # 0
           /\ objs[o].kind = "dir"
           /\ children' = [children EXCEPT ![objs[o].name] = 0]
           /\ writing' = writing \ {objs[o].ino}
  <2>1. objs[o].name = thread[t].name /\ children \in [Names -> 0 .. Len(objs)]
    BY <1>1, <1>5, SoleFacts DEF SeesNew
  <2>2. CASE m = thread[t].name
    <3>1. children'[m] = 0
      BY <1>1, <1>5, <2>1, <2>2
    <3>2. New(m) => children[m] = o
      BY <1>1, <2>2 DEF SeesNew, Keeps
    <3> QED  BY <1>3, <1>5, <3>1, <3>2, DroppedFate DEF Gone
  <2>3. CASE m # thread[t].name
    <3>1. children'[m] = children[m]
      BY <1>1, <1>5, <2>1, <2>3
    <3>2. children[m] # 0 => objs[children[m]].ino = children[m] /\ children[m] # o /\ objs[o].ino = o
      BY <1>1, <1>5, <2>1, <2>3, EntryFacts DEF OneEach
    <3> QED  BY <1>1, <1>2, <1>3, <1>5, <3>1, <3>2, StaysFate DEF Kept, StatusSame
  <2> QED  BY <2>2, <2>3
<1> QED  BY <1>4, <1>5 DEF Rmdir

LEMMA UnlinkFate ==
    ASSUME DirInv, Sole, SoleInv, NEW t \in Threads, Unlink(t), NEW m \in Names
    PROVE  Fate(m) /\ StatusFate
<1>1. /\ TypeOK /\ Places(t) /\ Entry(m) /\ (children[m] # 0 => children[m] \in 1 .. Len(objs))
  BY SoleFacts DEF SoleInv
<1>6. NotNew(thread[t].obj) /\ thread[t].obj # 0
  BY <1>1 DEF DirInv, Removals, Unlink, Places
<1>2. /\ Kept /\ StatusSame /\ Shrinks /\ UNCHANGED writing
      /\ children'[m] # children[m] => children[m] # 0 /\ objs[children[m]].ino = objs[thread[t].obj].ino
  BY <1>1, UnlinkEffect DEF Quiet
<1>3. StatusFate
  BY <1>2 DEF StatusFate, Kept, StatusSame
<1>4. CASE children'[m] = children[m]
  BY <1>1, <1>2, <1>3, <1>4, StaysFate DEF Kept, StatusSame
<1>5. CASE children'[m] # children[m]
  <2>1. children'[m] = 0 /\ ~New(m)
    BY <1>1, <1>2, <1>5, <1>6 DEF Shrinks, New, NotNew
  <2> QED  BY <1>3, <2>1, DroppedFate
<1> QED  BY <1>4, <1>5

\* Without renames the kernel forgets all there is to forget.
LEMMA ForgetAll ==
    ASSUME DirInv, Sole, NEW i \in Inos, Forget(i)
    PROVE  /\ writing' = writing \ {i} /\ UNCHANGED objs /\ ~Pinned(i)
           /\ \A n \in Names : children'[n] = IF children[n] # 0 /\ objs[children[n]].ino = i THEN 0 ELSE children[n]
<1>1. inodes[i].count = refs[i] /\ inodes[i].obj # 0 /\ refs[i] \in Nat
  BY SoleFacts DEF Forget, References, Sole, TypeOK
<1>2. /\ writing' = writing \ {i}
      /\ children' = [n \in Names |->
               IF n = objs[inodes[i].obj].name /\ children[n] # 0 /\ objs[children[n]].ino = i
               THEN 0 ELSE children[n]]
  BY <1>1 DEF Forget
<1>3. ASSUME NEW n \in Names, children[n] # 0, objs[children[n]].ino = i PROVE n = objs[inodes[i].obj].name
  BY <1>1, <1>3, SoleFacts DEF OneObjectPerInode
<1> QED  BY <1>2, <1>3 DEF Forget

LEMMA ForgetFate ==
    ASSUME DirInv, Sole, SoleInv, NEW i \in Inos, Forget(i), NEW m \in Names
    PROVE  Fate(m) /\ StatusFate
<1>1. /\ TypeOK /\ Entry(m) /\ (children[m] # 0 => children[m] \in 1 .. Len(objs))
      /\ writing' = writing \ {i} /\ UNCHANGED objs /\ ~Pinned(i)
      /\ children'[m] = IF children[m] # 0 /\ objs[children[m]].ino = i THEN 0 ELSE children[m]
  BY SoleFacts, ForgetAll DEF SoleInv
<1>2. Kept /\ StatusSame /\ StatusFate
  BY <1>1, ObjKept DEF StatusSame, StatusFate, Kept
<1>3. CASE children[m] # 0 /\ objs[children[m]].ino = i
  <2>1. children'[m] = 0 /\ \A t \in Threads : objs[children[m]].ino \notin thread[t].pin
    BY <1>1, <1>3 DEF Pinned
  <2> QED  BY <1>2, <2>1, DroppedFate DEF Gone
<1>4. CASE ~(children[m] # 0 /\ objs[children[m]].ino = i)
  BY <1>1, <1>2, <1>4, StaysFate DEF Kept, StatusSame
<1> QED  BY <1>3, <1>4

LEMMA WriteFate ==
    ASSUME DirInv, Sole, SoleInv, NEW i \in Inos,
           Setattr(i) \/ StartWriting(i) \/ PutObject(i) \/ FinishWriting(i), NEW m \in Names
    PROVE  Fate(m) /\ StatusFate
<1>1. /\ TypeOK /\ Numbered /\ Entry(m) /\ OneEach /\ DOMAIN objs = 1 .. Len(objs)
      /\ children[m] # 0 => children[m] \in 1 .. Len(objs)
  BY SoleFacts DEF SoleInv
<1>2. Kept /\ UNCHANGED children /\ Written(i, inodes[i].obj)
  BY <1>1, WriteEffect DEF Quiet
<1> DEFINE o == inodes[i].obj
<1> HIDE DEF o
<1>3. /\ o \in 1 .. Len(objs) /\ i = o
      /\ \A p \in 1 .. Len(objs) : p # o => objs'[p] = objs[p]
      /\ \/ UNCHANGED writing /\ objs'[o].status = objs[o].status
         \/ UNCHANGED writing /\ objs[o].kind = "file" /\ objs'[o].status = "LocalOpenForWriting"
         \/ writing' = writing \ {i} /\ objs[o].status = "LocalOpenForWriting" /\ objs'[o].status = "Remote"
  BY <1>1, <1>2 DEF Written, OneEach, o
<1>4. StatusFate
  BY <1>2, <1>3 DEF StatusFate, Kept
<1>5. CASE children[m] # o
  BY <1>1, <1>2, <1>3, <1>4, <1>5, StaysFate DEF Kept, OneEach
<1>6. CASE children[m] = o
  <2>1. CASE UNCHANGED writing /\ objs'[o].status \in {objs[o].status, "LocalOpenForWriting"}
    BY <1>1, <1>2, <1>3, <1>4, <1>6, <2>1, StaysFate DEF Kept
  <2>2. CASE writing' = writing \ {i} /\ objs[o].status = "LocalOpenForWriting" /\ objs'[o].status = "Remote"
    <3>1. ~New(m)'
      BY <1>1, <1>2, <1>3, <1>6, <2>2 DEF New, OneEach, Kept, SameInode
    <3>2. Gone(m)
      BY <1>2, <1>6, <2>2 DEF Gone
    <3> QED  BY <1>2, <1>4, <1>6, <2>2, <3>1, <3>2 DEF Fate
  <2> QED  BY <1>3, <2>1, <2>2
<1> QED  BY <1>5, <1>6

LEMMA SoleStepFate ==
    ASSUME DirInv, Sole, SoleInv, Step, NEW m \in Names
    PROVE  Fate(m) /\ StatusFate
<1>1. TypeOK /\ Entry(m) /\ mount.maxRemote = 0 /\ foreign \in 0 .. mount.maxRemote
  BY SoleFacts DEF SoleInv, Sole, TypeOK
<1>2. ASSUME StillStep PROVE Fate(m) /\ StatusFate
  BY <1>1, <1>2, StillFate, StillStatus
<1>3. ASSUME NEW t \in Threads, LookupStep(t) \/ ChangeStep(t) PROVE Fate(m) /\ StatusFate
  BY <1>2, <1>3, StillSteps, UpdateFate, UpdateStatus, CreateFate, RmdirFate, UnlinkFate
<1>4. ASSUME NEW t \in Threads, NEW op, NEW n, NEW d, Request(t, op, n, d) PROVE Fate(m) /\ StatusFate
  BY <1>1, <1>2, <1>4, UnchangedStill DEF Request, superblock
<1>5. ASSUME NEW i \in Inos, InodeStep(i) PROVE Fate(m) /\ StatusFate
  BY <1>5, ForgetFate, WriteFate DEF InodeStep
<1>6. CASE Tick
  BY <1>1, <1>2, <1>6, TickEffect DEF StillStep, Quiet
<1>7. ASSUME NEW n, OtherClientChanges(n) PROVE FALSE
  BY <1>1, <1>7 DEF OtherClientChanges
<1> QED  BY <1>3, <1>4, <1>5, <1>6, <1>7 DEF Step

\* The objects of a step: as many as before, or one more.
LEMMA SoleStepObjects ==
    ASSUME DirInv, Sole, SoleInv, Step
    PROVE  OneEach' /\ Dirs' /\ Len(objs) <= Len(objs') /\ s3dirs' = s3dirs
<1>1. /\ TypeOK /\ Numbered /\ References /\ OneEach /\ Dirs /\ Len(objs) \in Nat /\ DOMAIN objs = 1 .. Len(objs)
      /\ \A t \in Threads : Places(t) /\ thread[t].op # "rename" /\ thread[t].pc # "renamed"
  BY SoleFacts DEF SoleInv, Places
<1>2. Coarse /\ ~RenameStep
  BY <1>1, StepCoarse DEF RenameStep
<1>3. StatusFate
  BY SoleStepFate, DirectoryAssumption
<1>4. ASSUME Quiet PROVE OneEach' /\ Dirs' /\ Len(objs) <= Len(objs')
  <2>1. objs' \in Seq(Obj) /\ Len(objs') = Len(objs) /\ nextIno' = nextIno
    BY <1>4 DEF Quiet, Kept
  <2>2. DOMAIN objs' = 1 .. Len(objs)
    BY <2>1
  <2>3. OneEach'
    BY <1>1, <1>3, <2>1, <2>2 DEF OneEach, StatusFate, SameInode
  <2>4. Dirs'
    BY <1>1, <1>3, <2>2 DEF Dirs, StatusFate, SameInode
  <2> QED  BY <1>1, <2>1, <2>3, <2>4
<1>5. ASSUME CreateStep PROVE OneEach' /\ Dirs' /\ Len(objs) <= Len(objs')
  <2>1. PICK x \in Obj : Made(x) /\ x.ino = nextIno /\ x.status \in {"LocalUnopened", "Remote"}
    BY <1>5 DEF CreateStep, Creates
  <2>2. nextIno' = nextIno + 1
    BY <1>5 DEF CreateStep, Creates
  <2>3. objs' \in Seq(Obj) /\ Len(objs') = Len(objs) + 1 /\ objs'[Len(objs) + 1] = x
    BY <2>1 DEF Made
  <2>4. DOMAIN objs' = 1 .. Len(objs) + 1
    BY <2>3
  <2>5. \A o \in 1 .. Len(objs) + 1 : o \in 1 .. Len(objs) \/ o = Len(objs) + 1
    BY <1>1
  <2>6. OneEach'
    BY <1>1, <1>3, <2>1, <2>2, <2>3, <2>4, <2>5 DEF OneEach, StatusFate, SameInode
  <2>7. Dirs'
    BY <1>1, <1>3, <2>1, <2>3, <2>4, <2>5 DEF Dirs, StatusFate, SameInode
  <2> QED  BY <1>1, <2>3, <2>6, <2>7
<1>6. s3dirs' = s3dirs
  <2>1. foreign \in 0 .. 0
    BY <1>1 DEF Sole, TypeOK
  <2>2. ASSUME NEW t \in Threads, LookupStep(t) PROVE s3dirs' = s3dirs
    BY <2>2 DEF LookupStep, CacheLookup, Getattr, HeadObject, ListObjects, LookupFails, UpdateNegative, Update,
                LookupReturns, remote
  <2>3. ASSUME NEW t \in Threads, ChangeStep(t) PROVE s3dirs' = s3dirs
    BY <2>3 DEF ChangeStep, CreateLooked, Create, CreateReturns, Rmdir, UnlinkLooked, DeleteObject, Unlink,
                RenameSource, RenameTarget, RenameObject, RenameFails, RenameSucceeds, Rename, remote
  <2>4. ASSUME NEW t \in Threads, NEW op, NEW n, NEW d, Request(t, op, n, d) PROVE s3dirs' = s3dirs
    BY <2>4 DEF Request, remote
  <2>5. ASSUME NEW i \in Inos, InodeStep(i) PROVE s3dirs' = s3dirs
    BY <2>5 DEF InodeStep, Forget, Setattr, StartWriting, PutObject, FinishWriting, remote
  <2>6. CASE Tick
    BY <2>6 DEF Tick, remote
  <2>7. ASSUME NEW n, OtherClientChanges(n) PROVE FALSE
    BY <2>1, <2>7 DEF OtherClientChanges, Sole
  <2> QED  BY <2>2, <2>3, <2>4, <2>5, <2>6, <2>7 DEF Step
<1> QED  BY <1>2, <1>4, <1>5, <1>6 DEF Coarse, QuietStep, RememberStep, ForgetStep

-----------------------------------------------------------------------------
\* What a request does next

\* It is sent, for a name the kernel knows or does not know, ...
Asked(t, n) ==
    /\ thread[t].pc = "idle" /\ thread'[t].pc = "cache" /\ thread'[t].name = n /\ thread'[t].obj = 0
    /\ thread'[t].head = -1 /\ thread'[t].list = "pending"
    /\ thread'[t].op \in Ops \ {"write", "setattr"} /\ thread'[t].lock = LockFor(thread'[t].op, n)
    /\ thread'[t].pin = Known(n)
    /\ thread'[t].op \in {"create", "mkdir"} => dentry[n] = 0
    /\ thread'[t].lock = "shared" => \A u \in Threads : thread[u].lock # "excl"
    /\ UNCHANGED <<objs, children, writing, nextIno, dentry, s3>>

\* goes on, ...
SameAnswer(t) == thread'[t].head = thread[t].head /\ thread'[t].list = thread[t].list
GoesOn(t) ==
    /\ SameRequest(t) /\ SameAnswer(t) /\ thread'[t].obj = thread[t].obj
    /\ \/ thread[t].pc = "cache" /\ thread'[t].pc = "remote"
       \/ thread[t].pc = "looked" /\ thread'[t].pc = "insert" /\ Creating(t) /\ thread[t].obj = 0
       \/ /\ thread[t].pc = "looked" /\ thread'[t].pc = "s3" /\ thread[t].op = "unlink"
          /\ thread[t].obj # 0 /\ objs[thread[t].obj].status = "Remote"
       \/ thread[t].pc = "s3" /\ thread'[t].pc = "local" /\ thread[t].op = "unlink"

\* hears from S3, ...
Heard(t, h, l) ==
    /\ SameRequest(t) /\ thread[t].pc = "remote" /\ thread'[t].obj = thread[t].obj
    /\ thread'[t].head = h /\ thread'[t].list = l
    /\ thread'[t].pc = IF l = "yes" \/ (h # -1 /\ l = "no") THEN "update" ELSE "remote"
    /\ UNCHANGED <<objs, children, writing, s3>>
Heads(t) == Heard(t, s3[thread[t].name], thread[t].list)
Lists(t) == Heard(t, thread[t].head, IF thread[t].name \in s3dirs THEN "yes" ELSE "no")

\* finds what is there, ...
Looks(t, n) ==
    /\ SameRequest(t) /\ thread[t].pc = "update" /\ thread'[t].pc = "looked" /\ thread[t].name = n
    /\ thread'[t].head = -1 /\ thread'[t].list = "pending" /\ thread'[t].obj = children'[n]
    /\ children'[n] = 0 => FoundKind(t) = "none" /\ ~New(n)
    /\ children'[n] # 0 => New(n)' \/ objs'[children'[n]].kind = FoundKind(t)

\* or makes an entry, or it ends.
Turn(t) ==
    /\ OthersStay(t)
    /\ \/ Ends(t) \/ GoesOn(t) \/ Heads(t) \/ Lists(t)
       \/ \E n \in Names : Asked(t, n) \/ Looks(t, n) \/ (Inserts(t, n) /\ SameRequest(t) /\ SameAnswer(t))

LEMMA PcTurn ==
    ASSUME TypeOK, NEW t \in Threads, NEW pc, Moves(t, [thread[t] EXCEPT !.pc = pc])
    PROVE  /\ OthersStay(t) /\ SameRequest(t) /\ SameAnswer(t) /\ thread'[t].obj = thread[t].obj
           /\ thread'[t].pc = pc
<1>1. thread[t] \in ThreadSet(Len(objs)) /\ thread'[t] = [thread[t] EXCEPT !.pc = pc]
  BY TypeFacts DEF Moves
<1> QED  BY <1>1, PcOutcome DEF SameAnswer, SameSource, ThreadSet

LEMMA LookedTurn ==
    ASSUME TypeOK, NEW t \in Threads, NEW o, Moves(t, LookedAs(t, o))
    PROVE  /\ OthersStay(t) /\ SameRequest(t) /\ thread'[t].obj = o /\ thread'[t].pc = "looked"
           /\ thread'[t].head = -1 /\ thread'[t].list = "pending"
<1>1. /\ thread[t] \in ThreadSet(Len(objs))
      /\ thread'[t] = [thread[t] EXCEPT !.pc = "looked", !.obj = o, !.head = -1, !.list = "pending"]
  BY TypeFacts DEF Moves, LookedAs
<1> QED  BY <1>1, LookedOutcome DEF SameSource, ThreadSet

LEMMA HeardTurn ==
    ASSUME DirInv, Sole, NEW t \in Threads, thread[t].pc = "remote",
           NEW h \in Etags \cup {-1, 0}, NEW l \in {"pending", "no", "yes"}, Answer(t, h, l),
           UNCHANGED <<objs, children, writing, s3>>
    PROVE  OthersStay(t) /\ Heard(t, h, l)
<1>1. TypeOK /\ thread[t] \in ThreadSet(Len(objs)) /\ ~Cache
  BY SoleFacts DEF Sole
<1>2. Moves(t, [thread[t] EXCEPT !.head = h, !.list = l, !.pc = AnswerPc(h, l)])
  BY <1>1, AnswerMoves
<1>3. thread'[t] = [thread[t] EXCEPT !.head = h, !.list = l, !.pc = AnswerPc(h, l)]
  BY <1>2 DEF Moves
<1>4. /\ SameRequest(t) /\ thread'[t].head = h /\ thread'[t].list = l /\ thread'[t].pc = AnswerPc(h, l)
      /\ thread'[t].obj = thread[t].obj
  BY <1>1, <1>3 DEF SameRequest, ThreadSet
<1>5. AnswerPc(h, l) = IF l = "yes" \/ (h # -1 /\ l = "no") THEN "update" ELSE "remote"
  BY <1>1 DEF AnswerPc
<1> QED  BY <1>2, <1>4, <1>5 DEF Moves, OthersStay, Heard

LEMMA UpdateTurn ==
    ASSUME DirInv, Sole, SoleInv, NEW t \in Threads, Update(t)
    PROVE  OthersStay(t) /\ \E n \in Names : Looks(t, n)
<1>1. PICK n \in Names : n = thread[t].name
  BY SoleFacts
<1>2. /\ TypeOK /\ Numbered /\ Target(t) = n /\ Entry(n) /\ Dirs /\ thread[t].pc = "update"
      /\ children[n] \in 0 .. Len(objs) /\ DOMAIN objs = 1 .. Len(objs) /\ Len(objs) \in Nat
  BY <1>1, SoleFacts DEF SoleInv, Update
<1>3. SUFFICES OthersStay(t) /\ Looks(t, n)
  OBVIOUS
<1>4. CASE NothingRemote(t, n, children[n])
  <2>1. Kept /\ UNCHANGED writing /\ FoundKind(t) = "none"
    BY <1>2, <1>4, NothingRemoteEffect DEF Quiet, NothingRemote
  <2>2. Len(objs) <= Len(objs) /\ 0 \in 0 .. Len(objs)
    BY <1>2
  <2>3. CASE New(n)
    <3>1. Looked(t, children[n]) /\ UNCHANGED children /\ children[n] # 0
      BY <1>4, <2>3 DEF NothingRemote, New
    <3>2. Moves(t, LookedAs(t, children[n]))
      BY <1>2, <2>2, <3>1, LookedMoves
    <3>3. New(n)'
      BY <1>2, <2>1, <2>3, <3>1 DEF New, Kept, SameInode
    <3> QED  BY <1>1, <1>2, <3>1, <3>2, <3>3, LookedTurn DEF Looks
  <2>4. CASE ~New(n)
    <3>1. Looked(t, 0) /\ children' = [children EXCEPT ![n] = 0]
      BY <1>4, <2>4 DEF NothingRemote, New
    <3>2. Moves(t, LookedAs(t, 0)) /\ children'[n] = 0
      BY <1>2, <2>2, <3>1, LookedMoves, SoleFacts
    <3> QED  BY <1>1, <1>2, <2>1, <2>4, <3>2, LookedTurn DEF Looks
  <2> QED  BY <2>3, <2>4
<1>5. CASE LocalShadowsRemote(t, children[n])
  <2>1. Moves(t, LookedAs(t, children[n])) /\ children[n] # 0 /\ UNCHANGED <<objs, children, writing>>
    BY <1>2, <1>5, LocalShadowsEffect
  <2>2. FoundKind(t) = "file" /\ objs[children[n]].status # "Remote" /\ children[n] \in 1 .. Len(objs)
    BY <1>2, <1>5, <2>1 DEF LocalShadowsRemote
  <2>3. New(n) \/ objs[children[n]].kind # "dir"
    BY <1>2, <2>1, <2>2 DEF Dirs, Entry
  <2>4. objs[children[n]].kind \in {"file", "dir"}
    BY <1>2, <2>2, TypeFacts DEF Obj
  <2>5. New(n) => New(n)'
    BY <2>1 DEF New
  <2> QED  BY <1>1, <1>2, <2>1, <2>2, <2>3, <2>4, <2>5, LookedTurn DEF Looks
<1>6. CASE UpdateInPlace(t, children[n])
  <2>1. Moves(t, LookedAs(t, children[n])) /\ children[n] # 0 /\ UNCHANGED children /\ Kept
    BY <1>2, <1>6, UpdateInPlaceEffect DEF Quiet
  <2>2. FoundKind(t) = objs[children[n]].kind /\ children[n] \in 1 .. Len(objs)
    BY <1>2, <1>6, <2>1 DEF UpdateInPlace, SameObject
  <2>3. objs'[children'[n]].kind = FoundKind(t)
    BY <2>1, <2>2 DEF Kept, SameInode
  <2> QED  BY <1>1, <1>2, <2>1, <2>3, LookedTurn DEF Looks
<1>7. CASE Recreate(t, n, children[n])
  <2>1. Moves(t, LookedAs(t, Len(objs) + 1)) /\ Creates(n, FoundKind(t), "Remote")
    BY <1>2, <1>7, RecreateEffect
  <2>2. children'[n] = Len(objs) + 1 /\ Len(objs) + 1 # 0 /\ objs'[Len(objs) + 1].kind = FoundKind(t)
    BY <1>2, <2>1 DEF Creates, Made
  <2> QED  BY <1>1, <1>2, <2>1, <2>2, LookedTurn DEF Looks
<1> QED  BY <1>2, <1>4, <1>5, <1>6, <1>7, UpdateEffect

LEMMA LookupTurn ==
    ASSUME DirInv, Sole, SoleInv, NEW t \in Threads, LookupStep(t)
    PROVE  Turn(t)
<1>1. /\ TypeOK /\ Places(t) /\ thread[t].op # "rename" /\ Target(t) = thread[t].name /\ thread[t].name \in Names
      /\ thread[t] \in ThreadSet(Len(objs)) /\ ~Cache /\ thread[t].pc # "negative"
  BY SoleFacts DEF Sole, SoleInv, Answered
<1>2. ASSUME Moves(t, Idle) PROVE Turn(t)
  BY <1>2, EndsOutcome DEF Turn, Outcome
<1>3. ASSUME thread' = [thread EXCEPT ![t].pc = "remote"], thread[t].pc = "cache" PROVE Turn(t)
  BY <1>1, <1>3, PcMoves, PcTurn DEF Turn, GoesOn
<1>4. CASE CacheLookup(t)
  BY <1>1, <1>3, <1>4 DEF CacheLookup
<1>5. CASE Getattr(t)
  BY <1>1, <1>2, <1>3, <1>5, ReturnMoves DEF Getattr
<1>6. CASE HeadObject(t)
  <2>1. s3[thread[t].name] \in Etags \cup {-1, 0} /\ thread[t].list \in {"pending", "no", "yes"}
    BY <1>1 DEF TypeOK, ThreadSet
  <2>2. /\ Answer(t, s3[thread[t].name], thread[t].list) /\ thread[t].pc = "remote"
        /\ UNCHANGED <<objs, children, writing, s3>>
    BY <1>1, <1>6 DEF HeadObject, superblock, remote
  <2> QED  BY <2>1, <2>2, HeardTurn DEF Turn, Heads
<1>7. CASE ListObjects(t)
  <2> DEFINE l == IF thread[t].name \in s3dirs THEN "yes" ELSE "no"
  <2>1. thread[t].head \in Etags \cup {-1, 0} /\ l \in {"pending", "no", "yes"}
    BY <1>1 DEF ThreadSet
  <2>2. Answer(t, thread[t].head, l) /\ thread[t].pc = "remote" /\ UNCHANGED <<objs, children, writing, s3>>
    BY <1>1, <1>7 DEF ListObjects, superblock, remote
  <2>3. OthersStay(t) /\ Heard(t, thread[t].head, l)
    <3> HIDE DEF l
    <3> QED  BY <2>1, <2>2, HeardTurn
  <2> QED  BY <2>3 DEF Turn, Lists
<1>8. CASE LookupFails(t)
  BY <1>1, <1>2, <1>8, FailEffect DEF LookupFails
<1>9. CASE Update(t)
  BY <1>9, UpdateTurn DEF Turn
<1>10. CASE LookupReturns(t)
  BY <1>1, <1>2, <1>10, LookupReturnsEffect
<1> QED  BY <1>1, <1>4, <1>5, <1>6, <1>7, <1>8, <1>9, <1>10 DEF LookupStep, UpdateNegative

LEMMA ChangeTurn ==
    ASSUME DirInv, Sole, SoleInv, NEW t \in Threads, ChangeStep(t)
    PROVE  Turn(t)
<1>1. /\ TypeOK /\ Numbered /\ Places(t) /\ thread[t].op # "rename" /\ thread[t].name \in Names
      /\ thread[t] \in ThreadSet(Len(objs)) /\ thread[t].pc # "renamed"
  BY SoleFacts DEF Places
<1>2. ASSUME Moves(t, Idle) PROVE Turn(t)
  BY <1>2, EndsOutcome DEF Turn, Outcome
<1>3. CASE CreateLooked(t)
  <2>1. CASE thread[t].obj = 0 /\ Moves(t, [thread[t] EXCEPT !.pc = "insert"])
    BY <1>1, <1>3, <2>1, PcTurn DEF CreateLooked, Turn, GoesOn, Creating
  <2> QED  BY <1>1, <1>2, <1>3, <2>1, CreateLookedEffect
<1>4. CASE Create(t)
  <2> DEFINE r == [thread[t] EXCEPT !.pc = "remember", !.obj = Len(objs) + 1]
  <2>1. CASE /\ \E kind \in {"file", "dir"} : Creates(thread[t].name, kind, "LocalUnopened")
             /\ children[thread[t].name] = 0
             /\ Moves(t, r)
    <3>1. PICK n \in Names : n = thread[t].name
      BY <1>1
    <3>2. thread'[t] = r /\ OthersStay(t)
      BY <2>1 DEF Moves, OthersStay
    <3>3. SameRequest(t) /\ SameAnswer(t)
      BY <1>1, <3>2 DEF SameRequest, SameAnswer, ThreadSet
    <3>4. PICK x \in Obj : Made(x) /\ x.ino = nextIno /\ x.name = n
      BY <2>1, <3>1 DEF Creates
    <3>5. children'[n] = Len(objs) + 1
      BY <2>1, <3>1 DEF Creates
    <3>6. Inserts(t, n)
      BY <1>1, <1>4, <2>1, <3>1, <3>4, <3>5 DEF Inserts, Made, Create, Creating, Places
    <3> QED  BY <3>2, <3>3, <3>6 DEF Turn
  <2> QED  BY <1>1, <1>2, <1>4, <2>1, CreateEffect
<1>5. CASE CreateReturns(t)
  BY <1>1, <1>2, <1>5, CreateReturnsEffect
<1>6. CASE Rmdir(t)
  BY <1>1, <1>2, <1>6, RmdirEffect
<1>7. CASE UnlinkLooked(t)
  <2>1. CASE thread[t].obj # 0 /\ objs[thread[t].obj].status = "Remote" /\ Moves(t, [thread[t] EXCEPT !.pc = "s3"])
    BY <1>1, <1>7, <2>1, PcTurn DEF UnlinkLooked, Turn, GoesOn
  <2> QED  BY <1>1, <1>2, <1>7, <2>1, UnlinkLookedEffect
<1>8. CASE DeleteObject(t)
  <2>1. CASE Moves(t, [thread[t] EXCEPT !.pc = "local"])
    BY <1>1, <1>8, <2>1, PcTurn DEF DeleteObject, Turn, GoesOn
  <2> QED  BY <1>1, <1>2, <1>8, <2>1, DeleteObjectEffect
<1>9. CASE Unlink(t)
  BY <1>1, <1>2, <1>9, UnlinkEffect
<1> QED  BY <1>1, <1>3, <1>4, <1>5, <1>6, <1>7, <1>8, <1>9
         DEF ChangeStep, RenameSource, RenameTarget, RenameObject, RenameFails, RenameSucceeds, Rename

LEMMA RequestTurn ==
    ASSUME DirInv, Sole, NEW t \in Threads, NEW op \in Ops \ {"write", "setattr"}, NEW n \in Names, NEW d \in Names,
           Request(t, op, n, d)
    PROVE  Turn(t)
<1>1. TypeOK /\ References /\ op # "rename" /\ d = n /\ thread \in [Threads -> ThreadSet(Len(objs))]
  BY SoleFacts, TypeFacts DEF Sole, Request
<1>2. PICK i : thread' = [thread EXCEPT ![t] =
            [Idle EXCEPT !.op = op, !.pc = "cache", !.name = n, !.dst = d,
                         !.src = IF i = 0 THEN 0 ELSE inodes[i].obj,
                         !.pin = Known(n) \cup Known(d), !.lock = LockFor(op, n)]]
  BY DEF Request
<1>3. /\ thread'[t].op = op /\ thread'[t].pc = "cache" /\ thread'[t].name = n /\ thread'[t].obj = 0
      /\ thread'[t].head = -1 /\ thread'[t].list = "pending" /\ thread'[t].pin = Known(n)
      /\ thread'[t].lock = LockFor(op, n) /\ OthersStay(t)
  BY <1>1, <1>2 DEF Idle, OthersStay
<1>4. op \in {"create", "mkdir"} => dentry[n] = 0
  <2>1. ASSUME op = "create" \/ op = "mkdir" PROVE Sent(op, n, d) = (Known(n) = {})
    BY <2>1 DEF Sent
  <2> QED  BY <2>1 DEF Request, Known
<1>5. thread[t].pc = "idle" /\ UNCHANGED <<objs, children, writing, nextIno, dentry, s3>>
  BY DEF Request, superblock, remote
<1>6. LockFor(op, n) = "shared" => \A u \in Threads : thread[u].lock # "excl"
  BY DEF Request
<1>7. Asked(t, n)
  BY <1>3, <1>4, <1>5, <1>6 DEF Asked
<1> QED  BY <1>3, <1>7 DEF Turn

LEMMA StepTurn ==
    ASSUME DirInv, Sole, SoleInv, Step
    PROVE  UNCHANGED thread \/ \E t \in Threads : Turn(t)
<1>1. TypeOK /\ mount.names \subseteq Names
  BY SoleFacts, TypeFacts
<1>2. ASSUME NEW i \in Inos, InodeStep(i) PROVE UNCHANGED thread
  BY <1>2 DEF InodeStep, Forget, Setattr, StartWriting, PutObject, FinishWriting
<1>3. ASSUME Tick \/ \E n \in mount.names : OtherClientChanges(n) PROVE UNCHANGED thread
  BY <1>3 DEF Tick, OtherClientChanges
<1>4. ASSUME NEW t \in Threads, LookupStep(t) \/ ChangeStep(t) PROVE Turn(t)
  BY <1>4, LookupTurn, ChangeTurn
<1>5. ASSUME NEW t \in Threads, NEW op \in Ops \ {"write", "setattr"}, NEW n \in mount.names, NEW d \in mount.names,
             Request(t, op, n, d)
      PROVE  Turn(t)
  BY <1>1, <1>5, RequestTurn
<1> QED  BY <1>2, <1>3, <1>4, <1>5 DEF Step

-----------------------------------------------------------------------------
\* What a step does to the kernel's entries

\* A request that has the lock of the directory enters a name; nothing takes
\* away the kernel's entry for a new file.
DentryFate(n) ==
    /\ dentry[n] = 0 =>
          dentry'[n] = 0 \/ \E t \in Threads : Ends(t) /\ thread[t].lock # "none" /\ thread[t].name = n
    /\ New(n) /\ children'[n] = children[n] /\ dentry[n] = objs[children[n]].ino => dentry'[n] = dentry[n]

LEMMA EnteredFate ==
    ASSUME DirInv, Sole, SoleInv, NEW t \in Threads, thread[t].pc \in {"looked", "remember"},
           thread[t].op \in {"lookup", "create", "mkdir"}, Ends(t),
           NEW i, Entered(t, i), i = IF thread[t].obj = 0 THEN 0 ELSE objs[thread[t].obj].ino,
           NEW n \in Names
    PROVE  DentryFate(n)
<1>1. thread[t].name \in Names /\ dentry \in [Names -> Inos \cup {0}] /\ SeesNew(t) /\ Locked
  BY SoleFacts DEF SoleInv, TypeOK
<1>2. CASE n # thread[t].name
  <2>1. dentry'[n] = dentry[n]
    BY <1>1, <1>2 DEF Entered
  <2> QED  BY <2>1 DEF DentryFate
<1>3. CASE n = thread[t].name /\ thread[t].lock # "none"
  <2>1. dentry'[n] = i
    BY <1>1, <1>3 DEF Entered
  <2>2. New(n) => i = objs[children[n]].ino
    <3>1. SUFFICES ASSUME New(n) PROVE i = objs[children[n]].ino
      OBVIOUS
    <3>2. thread[t].obj = children[n]
      BY <1>1, <1>3, <3>1 DEF SeesNew, Keeps
    <3> QED  BY <3>1, <3>2 DEF New
  <2> QED  BY <1>3, <2>1, <2>2 DEF DentryFate
<1>4. CASE n = thread[t].name /\ thread[t].lock = "none"
  <2>1. dentry'[n] = IF i # dentry[n] /\ dentry[n] \in thread[t].pin THEN 0 ELSE dentry[n]
    BY <1>1, <1>4 DEF Entered
  <2>2. ASSUME New(n), dentry[n] = objs[children[n]].ino, dentry[n] \in thread[t].pin PROVE i = dentry[n]
    <3>1. thread[t].obj = children[n]
      BY <1>1, <1>4, <2>2 DEF SeesNew, Keeps
    <3> QED  BY <2>2, <3>1 DEF New
  <2> QED  BY <2>1, <2>2 DEF DentryFate
<1> QED  BY <1>2, <1>3, <1>4

LEMMA DentryStep ==
    ASSUME DirInv, Sole, SoleInv, Step, NEW n \in Names
    PROVE  DentryFate(n)
<1>1. TypeOK /\ Numbered /\ References /\ dentry \in [Names -> Inos \cup {0}] /\ \A t \in Threads : Places(t) /\ SeesNew(t)
  BY SoleFacts DEF SoleInv, TypeOK
<1>2. ASSUME UNCHANGED dentry PROVE DentryFate(n)
  BY <1>2 DEF DentryFate
<1>3. ASSUME NEW t \in Threads, LookupReturns(t) PROVE DentryFate(n)
  <2>1. Moves(t, Idle) /\ thread[t].pc = "looked"
    BY <1>1, <1>3, LookupReturnsEffect DEF LookupReturns
  <2>2. Ends(t)
    BY <2>1 DEF Moves, Ends
  <2>3. CASE thread[t].op = "lookup" /\ thread[t].obj = 0 /\ Entered(t, 0)
    BY <2>1, <2>2, <2>3, EnteredFate
  <2>4. CASE thread[t].op = "lookup" /\ thread[t].obj # 0 /\ Entered(t, objs[thread[t].obj].ino)
    BY <2>1, <2>2, <2>4, EnteredFate
  <2> QED  BY <1>2, <1>3, <2>3, <2>4 DEF LookupReturns, Remember, kernel
<1>4. ASSUME NEW t \in Threads, CreateReturns(t) PROVE DentryFate(n)
  <2>1. Moves(t, Idle) /\ thread[t].pc = "remember" /\ Entered(t, objs[thread[t].obj].ino)
    BY <1>1, <1>4, CreateReturnsEffect DEF CreateReturns, Remember
  <2>2. Ends(t) /\ thread[t].op \in {"create", "mkdir"} /\ thread[t].obj # 0
    BY <1>1, <2>1 DEF Moves, Ends, Places
  <2> QED  BY <2>1, <2>2, EnteredFate
<1>5. ASSUME NEW t \in Threads, Rmdir(t) PROVE DentryFate(n)
  <2>1. CASE UNCHANGED dentry
    BY <1>2, <2>1
  <2>2. CASE /\ children' = [children EXCEPT ![objs[thread[t].obj].name] = 0]
             /\ dentry' = [dentry EXCEPT ![objs[thread[t].obj].name] = 0]
    <3>1. children \in [Names -> 0 .. Len(objs)]
      BY SoleFacts
    <3>2. IF n = objs[thread[t].obj].name THEN dentry'[n] = 0 /\ children'[n] = 0 ELSE dentry'[n] = dentry[n]
      BY <1>1, <2>2, <3>1
    <3> QED  BY <3>2 DEF DentryFate, New
  <2> QED  BY <1>5, <2>1, <2>2 DEF Rmdir
<1>6. ASSUME NEW t \in Threads, Unlink(t) PROVE DentryFate(n)
  <2>1. dentry' = [dentry EXCEPT ![objs[thread[t].obj].name] = 0] /\ thread[t].op = "unlink" /\ thread[t].pc = "local"
    BY <1>6 DEF Unlink
  <2>2. objs[thread[t].obj].name = thread[t].name /\ ~New(thread[t].name)
    BY <1>1, <2>1 DEF Places, SeesNew
  <2>3. dentry'[n] = IF n = thread[t].name THEN 0 ELSE dentry[n]
    BY <1>1, <2>1, <2>2
  <2> QED  BY <2>2, <2>3 DEF DentryFate
<1>7. ASSUME NEW i \in Inos, Forget(i) PROVE DentryFate(n)
  <2>1. dentry'[n] = IF dentry[n] = i THEN 0 ELSE dentry[n]
    BY <1>7 DEF Forget
  <2>2. children'[n] = IF children[n] # 0 /\ objs[children[n]].ino = i THEN 0 ELSE children[n]
    BY <1>7, ForgetAll
  <2> QED  BY <2>1, <2>2 DEF DentryFate, New
<1>8. ASSUME NEW t \in Threads, LookupStep(t), ~LookupReturns(t) PROVE UNCHANGED dentry
  BY <1>8 DEF LookupStep, CacheLookup, Getattr, HeadObject, ListObjects, LookupFails, UpdateNegative, Update, kernel
<1>9. ASSUME NEW t \in Threads, ChangeStep(t), ~CreateReturns(t), ~Rmdir(t), ~Unlink(t) PROVE UNCHANGED dentry
  <2>1. thread[t].op # "rename"
    BY SoleFacts
  <2> QED  BY <1>9, <2>1 DEF ChangeStep, CreateLooked, Create, UnlinkLooked, DeleteObject, RenameSource, RenameTarget,
                             RenameObject, RenameFails, RenameSucceeds, Rename, kernel
<1>10. ASSUME NEW t \in Threads, NEW op, NEW m, NEW d, Request(t, op, m, d) PROVE UNCHANGED dentry
  BY <1>10 DEF Request
<1>11. ASSUME NEW i \in Inos, InodeStep(i), ~Forget(i) PROVE UNCHANGED dentry
  BY <1>11 DEF InodeStep, Setattr, StartWriting, PutObject, FinishWriting, kernel
<1>12. ASSUME Tick \/ \E m \in mount.names : OtherClientChanges(m) PROVE UNCHANGED dentry
  BY <1>12 DEF Tick, OtherClientChanges, kernel
<1> QED  BY <1>2, <1>3, <1>4, <1>5, <1>6, <1>7, <1>8, <1>9, <1>10, <1>11, <1>12 DEF Step

\* A create ends with an entry of the kernel.
LEMMA RememberTurn ==
    ASSUME DirInv, Sole, SoleInv, Step, NEW t \in Threads, thread[t].pc = "remember"
    PROVE  thread'[t] = thread[t] \/ dentry'[thread[t].name] = objs[thread[t].obj].ino
<1>1. /\ TypeOK /\ Places(t) /\ mount.names \subseteq Names /\ Locked /\ thread[t].name \in Names
      /\ dentry \in [Names -> Inos \cup {0}]
  BY SoleFacts, TypeFacts DEF TypeOK
<1>2. ASSUME NEW u \in Threads, Turn(u), u # t PROVE thread'[t] = thread[t]
  BY <1>2 DEF Turn, OthersStay
<1>3. ASSUME NEW u \in Threads, LookupStep(u) \/ ChangeStep(u)
      PROVE  thread'[t] = thread[t] \/ dentry'[thread[t].name] = objs[thread[t].obj].ino
  <2>1. CASE u # t
    BY <1>2, <1>3, <2>1, LookupTurn, ChangeTurn
  <2>2. CASE u = t
    <3>1. CreateReturns(t)
      BY <1>3, <2>2 DEF LookupStep, CacheLookup, Getattr, HeadObject, ListObjects, LookupFails, UpdateNegative, Update,
                        LookupReturns, ChangeStep, CreateLooked, Create, Rmdir, UnlinkLooked, DeleteObject, Unlink,
                        RenameSource, RenameTarget, RenameObject, RenameFails, RenameSucceeds, Rename
    <3>2. Entered(t, objs[thread[t].obj].ino)
      BY <3>1 DEF CreateReturns, Remember
    <3>3. thread[t].lock = "excl"
      BY <1>1 DEF Places, Locked, Changes
    <3> QED  BY <1>1, <3>2, <3>3 DEF Entered
  <2> QED  BY <2>1, <2>2
<1>4. ASSUME NEW u \in Threads, NEW op \in Ops \ {"write", "setattr"}, NEW n \in mount.names, NEW d \in mount.names,
             Request(u, op, n, d)
      PROVE  thread'[t] = thread[t]
  <2>1. u # t
    BY <1>4 DEF Request
  <2> QED  BY <1>1, <1>2, <1>4, <2>1, RequestTurn
<1>5. ASSUME NEW i \in Inos, InodeStep(i) PROVE UNCHANGED thread
  BY <1>5 DEF InodeStep, Forget, Setattr, StartWriting, PutObject, FinishWriting
<1>6. ASSUME Tick \/ \E n \in mount.names : OtherClientChanges(n) PROVE UNCHANGED thread
  BY <1>6 DEF Tick, OtherClientChanges
<1> QED  BY <1>3, <1>4, <1>5, <1>6 DEF Step

-----------------------------------------------------------------------------
\* Entries and answers

\* What any step is for one request.
Same(t) == thread'[t] = thread[t]
Continues(t) ==
    /\ SameRequest(t)
    /\ \/ Same(t) \/ GoesOn(t) \/ Heads(t) \/ Lists(t)
       \/ \E n \in Names : Looks(t, n) \/ (Inserts(t, n) /\ SameAnswer(t))

LEMMA ThreadStep ==
    ASSUME DirInv, Sole, SoleInv, Step, NEW t \in Threads
    PROVE  Ends(t) \/ Continues(t) \/ \E n \in Names : Asked(t, n)
<1>1. CASE Same(t)
  BY <1>1 DEF Same, Continues, SameRequest
<1>2. CASE Turn(t)
  <2>1. CASE GoesOn(t) \/ Heads(t) \/ Lists(t)
    BY <2>1 DEF Continues, GoesOn, Heads, Lists, Heard
  <2>2. CASE \E n \in Names : Looks(t, n) \/ (Inserts(t, n) /\ SameRequest(t) /\ SameAnswer(t))
    BY <2>2 DEF Continues, Looks
  <2> QED  BY <1>2, <2>1, <2>2 DEF Turn
<1> QED  BY <1>1, <1>2, StepTurn DEF Same, Turn, OthersStay

LEMMA ExclAlone ==
    ASSUME DirInv, NEW t \in Threads, NEW u \in Threads, thread[t].op \in {"create", "mkdir", "unlink"}, u # t
    PROVE  thread[u].lock = "none"
BY DEF DirInv, Locked, Changes

LEMMA InsertsFacts ==
    ASSUME DirInv, Sole, SoleInv, NEW u \in Threads, NEW n \in Names, Inserts(u, n)
    PROVE  /\ thread'[u].pc = "remember" /\ thread'[u].obj = children'[n] /\ n \notin s3dirs /\ FoundNothing(u)
           /\ Creating(u) /\ thread[u].name = n /\ objs'[children'[n]].ino = nextIno
           /\ \A t \in Threads : t # u => thread[t].lock = "none" /\ Same(t)
<1>1. thread[u] \in ThreadSet(Len(objs)) /\ Answered(u)
  BY SoleFacts DEF SoleInv
<1>2. thread'[u] = [thread[u] EXCEPT !.pc = "remember", !.obj = Len(objs) + 1]
  BY DEF Inserts, Moves
<1>3. thread'[u].pc = "remember" /\ thread'[u].obj = children'[n]
  BY <1>1, <1>2 DEF ThreadSet, Inserts
<1>4. n \notin s3dirs
  BY <1>1 DEF Answered, Inserts
<1>5. \A t \in Threads : t # u => thread[t].lock = "none" /\ Same(t)
  BY ExclAlone DEF Inserts, Creating, Moves, Same
<1> QED  BY <1>3, <1>4, <1>5 DEF Inserts, FoundNothing

\* A new entry was new before, or is made in this step.
LEMMA NewFrom ==
    ASSUME DirInv, Sole, SoleInv, Step, NEW n \in Names, New(n)'
    PROVE  \/ /\ New(n) /\ children'[n] = children[n] /\ children[n] \in 1 .. Len(objs)
              /\ SameInode(children[n]) /\ objs'[children'[n]].ino = objs[children[n]].ino
           \/ \E u \in Threads : Inserts(u, n)
<1>1. Fate(n) /\ StatusFate
  BY SoleStepFate
<1>2. CASE New(n) /\ children'[n] = children[n]
  <2>1. children[n] \in 1 .. Len(objs)
    BY <1>2, SoleFacts DEF New
  <2> QED  BY <1>1, <1>2, <2>1 DEF StatusFate, SameInode
<1> QED  BY <1>1, <1>2 DEF Fate

\* The kernel has no entry for a name that it creates, or shares the lock for.
LEMMA UnknownNotNew ==
    ASSUME DirInv, Sole, SoleInv, NEW n \in Names, New(n), dentry[n] = 0
    PROVE  \E u \in Threads : Creating(u) /\ thread[u].pc = "remember" /\ thread[u].name = n /\ thread[u].lock = "excl"
<1>1. children[n] \in 1 .. Len(objs) /\ OneEach /\ Entry(n) /\ DOMAIN objs = 1 .. Len(objs) /\ Locked
  BY SoleFacts DEF SoleInv, New
<1>2. objs[children[n]].ino # 0 /\ objs[children[n]].name = n
  BY <1>1, EntryFacts DEF New
<1>3. PICK u \in Threads : thread[u].pc = "remember" /\ thread[u].obj = children[n]
  BY <1>1, <1>2 DEF Entry
<1>4. Creating(u) /\ thread[u].name = n
  <2>1. Places(u) /\ SeesNew(u)
    BY SoleFacts DEF SoleInv
  <2> QED  BY <1>1, <1>2, <1>3, <2>1 DEF Places, SeesNew, Creating
<1> QED  BY <1>1, <1>3, <1>4 DEF Locked, Creating, Changes

LEMMA EntryStep ==
    ASSUME DirInv, Sole, SoleInv, Step, NEW n \in Names
    PROVE  Entry(n)'
<1>1. Fate(n) /\ DentryFate(n) /\ Entry(n) /\ s3dirs' = s3dirs
  BY SoleStepFate, DentryStep, SoleStepObjects DEF SoleInv
<1>2. ASSUME New(n)' PROVE n \notin s3dirs'
  BY <1>1, <1>2, NewFrom, InsertsFacts DEF Entry
<1>3. ASSUME New(n)'
      PROVE  \/ dentry'[n] = objs'[children'[n]].ino
             \/ \E t \in Threads : thread'[t].pc = "remember" /\ thread'[t].obj = children'[n]
  <2>1. CASE New(n) /\ children'[n] = children[n] /\ objs'[children'[n]].ino = objs[children[n]].ino
    <3>1. CASE dentry[n] = objs[children[n]].ino
      BY <1>1, <2>1, <3>1 DEF DentryFate
    <3>2. ASSUME NEW t \in Threads, thread[t].pc = "remember", thread[t].obj = children[n]
          PROVE  dentry'[n] = objs'[children'[n]].ino \/ (thread'[t].pc = "remember" /\ thread'[t].obj = children'[n])
      <4>1. thread[t].name = n
        BY <2>1, <3>2, EntryFacts DEF SoleInv, SeesNew, New
      <4> QED  BY <2>1, <3>2, <4>1, RememberTurn
    <3> QED  BY <1>1, <2>1, <3>1, <3>2 DEF Entry
  <2>2. ASSUME NEW u \in Threads, Inserts(u, n) PROVE thread'[u].pc = "remember" /\ thread'[u].obj = children'[n]
    BY <2>2, InsertsFacts
  <2> QED  BY <1>3, <2>1, <2>2, NewFrom
<1>4. children'[n] # 0 /\ objs'[children'[n]].status = "LocalUnopened" => New(n)'
  BY <1>1 DEF Fate
<1> QED  BY <1>2, <1>3, <1>4 DEF Entry

LEMMA AnsweredStep ==
    ASSUME DirInv, Sole, SoleInv, Step, NEW t \in Threads
    PROVE  Answered(t)'
<1>1. Answered(t) /\ s3dirs' = s3dirs /\ thread[t] \in ThreadSet(Len(objs)) /\ thread[t].op # "rename"
  BY SoleFacts, SoleStepObjects DEF SoleInv
<1>2. CASE Ends(t)
  <2>1. /\ thread'[t].op = "none" /\ thread'[t].pc = "idle" /\ thread'[t].head = -1 /\ thread'[t].list = "pending"
    BY <1>2 DEF Ends, Idle
  <2> QED  BY <2>1 DEF Answered, Creating
<1>3. ASSUME NEW n \in Names, Asked(t, n) PROVE Answered(t)'
  BY <1>3 DEF Answered, Creating, Asked, Sole
<1>4. CASE Same(t)
  BY <1>1, <1>4 DEF Same, Answered, Creating
<1>5. CASE GoesOn(t)
  BY <1>1, <1>5 DEF GoesOn, SameRequest, SameAnswer, Answered, Creating
<1>6. CASE Heads(t)
  BY <1>1, <1>6 DEF Heads, Heard, SameRequest, Answered, Creating
<1>7. CASE Lists(t)
  BY <1>1, <1>7 DEF Lists, Heard, SameRequest, Answered, Creating
<1>8. ASSUME NEW n \in Names, Looks(t, n) PROVE Answered(t)'
  <2>1. children'[n] = 0 => n \notin s3dirs
    BY <1>1, <1>8 DEF Looks, FoundKind, Answered
  <2> QED  BY <1>1, <1>8, <2>1 DEF Looks, SameRequest, Answered, Creating
<1>9. ASSUME NEW n \in Names, Inserts(t, n), SameAnswer(t), SameRequest(t) PROVE Answered(t)'
  <2>1. thread'[t].pc = "remember"
    BY <1>9, InsertsFacts
  <2> QED  BY <1>1, <1>9, <2>1 DEF SameAnswer, SameRequest, Answered, Creating
<1> QED  BY <1>2, <1>3, <1>4, <1>5, <1>6, <1>7, <1>8, <1>9, ThreadStep DEF Continues

-----------------------------------------------------------------------------
\* New entries and requests

\* A number that the kernel has is one that was handed out.
LEMMA KnownNumbers ==
    ASSUME DirInv, NEW n \in Names, NEW i \in Known(n)
    PROVE  i < nextIno
<1>1. i = dentry[n] /\ i # 0 /\ TypeOK /\ References /\ Numbered
  BY DEF Known, DirInv
<1>2. i \in Inos /\ inodes[i].obj # 0
  BY <1>1 DEF References, TypeOK
<1>3. objs[inodes[i].obj].ino = i /\ inodes[i].obj \in 1 .. Len(objs) /\ DOMAIN objs = 1 .. Len(objs)
  BY <1>1, <1>2, Typed DEF Numbered
<1> QED  BY <1>1, <1>3 DEF Numbered

LEMMA SeesNewStep ==
    ASSUME DirInv, Sole, SoleInv, Step, DirInv', NEW t \in Threads
    PROVE  SeesNew(t)'
<1>1. /\ SeesNew(t) /\ OneEach /\ OneEach' /\ Len(objs) <= Len(objs') /\ Len(objs) \in Nat /\ Len(objs') \in Nat
      /\ thread[t].obj \in 0 .. Len(objs) /\ TypeOK /\ Locked /\ thread[t].name \in Names /\ StatusFate
      /\ OneObjectPerInode'
  <2>1. TypeOK' /\ OneObjectPerInode'
    BY DEF DirInv
  <2>2. Len(objs') \in Nat
    BY <2>1 DEF TypeOK
  <2>3. thread[t].obj \in 0 .. Len(objs)
    BY SoleFacts DEF ThreadSet
  <2> QED  BY <2>1, <2>2, <2>3, SoleFacts, SoleStepObjects, SoleStepFate DEF SoleInv
<1>2. nextIno <= nextIno' /\ nextIno \in Nat
  BY <1>1 DEF OneEach
<1>3. CASE Ends(t)
  <2>1. /\ thread'[t].op = "none" /\ thread'[t].pc = "idle" /\ thread'[t].lock = "none" /\ thread'[t].obj = 0
        /\ thread'[t].pin = {}
    BY <1>3 DEF Ends, Idle
  <2> QED  BY <2>1 DEF SeesNew, Creating
<1>4. ASSUME NEW n \in Names, Asked(t, n) PROVE SeesNew(t)'
  <2>1. /\ thread'[t].name = n /\ thread'[t].pc = "cache" /\ thread'[t].obj = 0 /\ thread'[t].pin = Known(n)
        /\ thread'[t].lock = LockFor(thread'[t].op, n) /\ UNCHANGED <<objs, children, writing, nextIno, dentry>>
    BY <1>4 DEF Asked
  <2>2. thread'[t].op \in {"create", "mkdir"} => dentry[n] = 0
    BY <1>4 DEF Asked
  <2>3. ASSUME thread'[t].op = "lookup" PROVE thread'[t].lock # "excl" /\ (thread'[t].lock = "shared" => ~New(n))
    <3>1. thread'[t].lock = IF Known(n) = {} THEN "shared" ELSE "none"
      BY <2>1, <2>3 DEF LockFor, Changes
    <3>2. ASSUME thread'[t].lock = "shared", New(n) PROVE FALSE
      <4>1. dentry[n] = 0 /\ \A u \in Threads : thread[u].lock # "excl"
        BY <1>4, <3>1, <3>2 DEF Known, Asked
      <4> QED  BY <3>2, <4>1, UnknownNotNew
    <3> QED  BY <3>1, <3>2
  <2>4. \A i \in thread'[t].pin : i < nextIno'
    BY <2>1, KnownNumbers
  <2>5. New(n)' <=> New(n)
    BY <2>1 DEF New
  <2> QED  BY <2>1, <2>2, <2>3, <2>4, <2>5 DEF SeesNew, Creating, New
<1>5. CASE Continues(t)
  <2>1. PICK n \in Names : thread[t].name = n /\ thread'[t].name = n
    BY <1>1, <1>5 DEF Continues, SameRequest
  <2>2. /\ thread'[t].op = thread[t].op /\ thread'[t].lock = thread[t].lock /\ thread'[t].pin = thread[t].pin
    BY <1>5 DEF Continues, SameRequest
  <2>3. ASSUME New(n)', ~New(n) PROVE \E u \in Threads : Inserts(u, n)
    BY <2>3, NewFrom
  <2>4. ASSUME Creating(t) PROVE dentry'[n] = 0
    <3>1. ASSUME NEW u \in Threads, Ends(u), thread[u].lock # "none" PROVE FALSE
      <4>1. u = t
        BY <2>4, <3>1, ExclAlone DEF Creating
      <4> QED  BY <2>2, <2>4, <3>1, <4>1, IdleFields DEF Ends, Creating
    <3>2. DentryFate(n) /\ dentry[n] = 0
      BY <1>1, <2>1, <2>4, DentryStep DEF SeesNew
    <3> QED  BY <3>1, <3>2 DEF DentryFate
  <2>5. ASSUME thread[t].op = "lookup", thread[t].lock = "shared", New(n)' PROVE FALSE
    <3>1. PICK u \in Threads : Inserts(u, n)
      BY <1>1, <2>1, <2>3, <2>5 DEF SeesNew
    <3>2. u # t
      BY <2>5, <3>1 DEF Inserts, Creating
    <3> QED  BY <2>5, <3>1, <3>2, InsertsFacts
  <2>6. ASSUME thread[t].op = "unlink", thread'[t].pc \in {"s3", "local"}, New(n)' PROVE FALSE
    <3>1. ~New(n)
      <4>1. CASE thread[t].pc \in {"s3", "local"}
        BY <1>1, <2>1, <2>6, <4>1 DEF SeesNew
      <4>2. CASE GoesOn(t) /\ thread[t].pc = "looked"
        <5>1. ASSUME New(n) PROVE FALSE
          <6>1. thread[t].lock = "excl"
            BY <1>1, <2>6 DEF Locked, Changes
          <6>2. thread[t].obj = children[n]
            BY <1>1, <2>1, <4>2, <5>1, <6>1 DEF SeesNew, Keeps
          <6>3. objs[thread[t].obj].status = "Remote"
            BY <2>6, <4>2 DEF GoesOn
          <6> QED  BY <5>1, <6>2, <6>3, NewIsLocal DEF Local
        <5> QED  BY <5>1
      <4>3. ASSUME NEW m \in Names, Inserts(t, m) PROVE FALSE
        BY <2>6, <4>3 DEF Inserts, Creating
      <4> QED  BY <1>5, <2>6, <4>1, <4>2, <4>3 DEF Continues, Same, GoesOn, Heads, Lists, Heard, Looks
    <3>2. PICK u \in Threads : Inserts(u, n)
      BY <2>3, <2>6, <3>1
    <3>3. u # t
      BY <2>6, <3>2 DEF Inserts, Creating
    <3> QED  BY <1>1, <2>6, <3>2, <3>3, InsertsFacts DEF Locked, Changes
  <2>7. ASSUME thread'[t].pc \in {"looked", "remember"}, New(n)',
               thread'[t].lock = "none" => objs'[children'[n]].ino \in thread'[t].pin
        PROVE  thread'[t].obj = children'[n]
    <3>1. CASE Same(t)
      <4>1. CASE New(n) /\ children'[n] = children[n] /\ objs'[children'[n]].ino = objs[children[n]].ino
        BY <1>1, <2>1, <2>7, <3>1, <4>1 DEF Same, SeesNew, Keeps
      <4>2. ASSUME NEW u \in Threads, Inserts(u, n) PROVE FALSE
        <5>1. u # t
          BY <2>7, <3>1, <4>2 DEF Inserts, Same
        <5>2. nextIno \in thread[t].pin
          BY <2>2, <2>7, <4>2, <5>1, InsertsFacts
        <5> QED  BY <1>1, <1>2, <5>2 DEF SeesNew
      <4> QED  BY <2>7, <4>1, <4>2, NewFrom
    <3>2. ASSUME NEW m \in Names, Looks(t, m) PROVE thread'[t].obj = children'[n]
      BY <2>1, <3>2 DEF Looks
    <3>3. ASSUME NEW m \in Names, Inserts(t, m) PROVE thread'[t].obj = children'[n]
      BY <2>1, <3>3, InsertsFacts DEF Inserts
    <3> QED  BY <1>5, <2>7, <3>1, <3>2, <3>3 DEF Continues, GoesOn, Heads, Lists, Heard
  <2>8. thread'[t].obj # 0 => objs'[thread'[t].obj].name = n
    <3>1. CASE thread'[t].obj = thread[t].obj
      BY <1>1, <2>1, <3>1 DEF SeesNew, StatusFate, SameInode
    <3>2. CASE thread'[t].obj = children'[n]
      BY <1>1, <3>2 DEF OneObjectPerInode
    <3> QED  BY <1>5, <2>1, <3>1, <3>2, InsertsFacts DEF Continues, Same, GoesOn, Heads, Lists, Heard, Looks, Inserts
  <2>9. \A i \in thread'[t].pin : i < nextIno'
    <3>1. ASSUME NEW i \in thread[t].pin PROVE i < nextIno'
      <4>1. i < nextIno /\ i \in Nat /\ nextIno' \in Nat
        <5>1. thread[t].pin \subseteq Inos
          BY SoleFacts DEF ThreadSet
        <5> QED  BY <1>1, <5>1, DirectoryAssumption DEF SeesNew, OneEach, Inos
      <4> QED  BY <1>2, <4>1
    <3> QED  BY <2>2, <3>1
  <2>10. thread[t].op = "lookup" => thread[t].lock # "excl"
    BY <1>1 DEF SeesNew
  <2> QED  BY <2>1, <2>2, <2>4, <2>5, <2>6, <2>7, <2>8, <2>9, <2>10 DEF SeesNew, Creating, Keeps, New
<1> QED  BY <1>3, <1>4, <1>5, ThreadStep

-----------------------------------------------------------------------------
\* What lookups see

SoleNext == DirInv /\ Sole /\ SoleInv /\ Step /\ Observe /\ DirInv' /\ Sole'

LEMMA Answers == ASSUME TypeOK, NEW t \in Threads PROVE thread[t].head \in Nat \cup {-1}
<1>1. thread[t].head \in Etags \cup {-1, 0}
  BY TypeFacts DEF ThreadSet
<1>2. Etags \subseteq Nat
  BY DirectoryAssumption
<1>3. thread[t].head \in Etags => thread[t].head \in Nat
  BY <1>2
<1>4. thread[t].head \in Etags \/ thread[t].head = -1 \/ thread[t].head = 0
  BY <1>1
<1> QED  BY <1>3, <1>4

LEMMA KindNext ==
    ASSUME SoleNext, NEW n \in Names, children'[n] # 0
    PROVE  objs'[children'[n]].kind \in {"file", "dir"}
<1>1. TypeOK'
  BY DEF SoleNext, DirInv
<1>2. objs' \in Seq(Obj') /\ children' \in [Names -> 0 .. Len(objs')]
  BY <1>1 DEF TypeOK
<1>3. Len(objs') \in Nat /\ \A o \in 1 .. Len(objs') : objs'[o] \in Obj'
  BY <1>2
<1>4. children'[n] \in 1 .. Len(objs')
  BY <1>2, <1>3
<1>5. objs'[children'[n]] \in Obj'
  BY <1>3, <1>4
<1> QED  BY <1>5 DEF Obj

LEMMA ObservedAt ==
    ASSUME SoleNext, NEW t \in Threads, thread'[t].op = "lookup", NEW n \in Names, thread'[t].name = n
    PROVE  /\ obs[t] \subseteq obs'[t]
           /\ IF HasFile(n)' THEN "file" \in obs'[t] ELSE "no file" \in obs'[t]
           /\ IF HasDir(n)' THEN "dir" \in obs'[t] ELSE "no dir" \in obs'[t]
           /\ WasWriting(t) /\ ~WasWriting(t)' => "finished" \in obs'[t]
<1>1. thread'[t].pc # "idle"
  BY IdleFields DEF SoleNext, DirInv, Locked, Idle
<1>2. obs'[t] = obs[t] \cup Now(t)' \cup (IF WasWriting(t) /\ ~WasWriting(t)' THEN {"finished"} ELSE {})
  BY <1>1 DEF SoleNext, Observe
<1>3. Target(t)' = n
  BY DEF Target
<1>4. Now(t)' = {IF HasFile(n)' THEN "file" ELSE "no file", IF HasDir(n)' THEN "dir" ELSE "no dir"}
  BY <1>3 DEF Now, HasFile, HasDir, LocalKind
<1> QED  BY <1>2, <1>4

\* A lookup goes on with a file that the kernel had, until its write is finished.
LEMMA PinnedStays ==
    ASSUME SoleNext, NEW t \in Threads, thread[t].op = "lookup", SameRequest(t), NoFile(t) \/ PinnedFile(t)
    PROVE  (NoFile(t) \/ PinnedFile(t))'
<1>1. PICK n \in Names : n = thread[t].name /\ thread'[t].name = n /\ Target(t) = n
  BY SoleFacts DEF SoleNext, SameRequest
<1>2. thread'[t].op = "lookup" /\ thread'[t].pin = thread[t].pin
  BY DEF SameRequest
<1>3. CASE NoFile(t)
  <2>1. obs[t] \subseteq obs'[t]
    BY <1>1, <1>2, ObservedAt
  <2> QED  BY <1>3, <2>1 DEF NoFile
<1>4. CASE PinnedFile(t)
  <2>1. /\ New(n) /\ objs[children[n]].kind = "file" /\ objs[children[n]].ino \in thread[t].pin
        /\ Fate(n) /\ StatusFate /\ children[n] \in 1 .. Len(objs)
    BY <1>1, <1>4, SoleFacts, SoleStepFate DEF SoleNext, PinnedFile, LocalKind, New
  <2>2. CASE New(n)' /\ children'[n] = children[n]
    <3>1. LocalKind(n, "file")' /\ objs'[children'[n]].ino \in thread'[t].pin
      BY <1>2, <2>1, <2>2 DEF StatusFate, SameInode, LocalKind, New
    <3> QED  BY <1>1, <3>1 DEF PinnedFile, LocalKind
  <2>3. CASE /\ children'[n] = children[n]
             /\ objs[children[n]].status = "LocalOpenForWriting" /\ objs'[children[n]].status = "Remote"
    <3>1. WasWriting(t)
      BY <1>1, <2>1, <2>3 DEF WasWriting, New
    <3>2. Target(t)' = n
      BY <1>1, <1>2 DEF Target
    <3>3. ~WasWriting(t)'
      BY <2>3, <3>2 DEF WasWriting
    <3>4. "finished" \in obs'[t]
      BY <1>1, <1>2, <3>1, <3>3, ObservedAt
    <3> QED  BY <3>4 DEF NoFile
  <2> QED  BY <2>1, <2>2, <2>3 DEF Fate, Gone
<1> QED  BY <1>3, <1>4

\* A create learns that there is no file when there is none.
LEMMA FoundNothingStep ==
    ASSUME SoleNext, NEW u \in Threads, FoundNothing(u)', NEW n \in Names, thread'[u].name = n
    PROVE  /\ Creating(u) /\ thread[u].name = n /\ SameRequest(u)
           /\ FoundNothing(u) \/ ~HasFile(n)'
<1>1. DirInv /\ Sole /\ SoleInv /\ Step /\ Answered(u) /\ SeesNew(u) /\ thread[u] \in ThreadSet(Len(objs)) /\ s3dirs' = s3dirs
  BY SoleFacts, SoleStepObjects DEF SoleNext, SoleInv
<1>2. /\ thread'[u].op \in {"create", "mkdir"}
      /\ \/ thread'[u].pc \in {"remote", "update"} /\ thread'[u].head = 0
         \/ thread'[u].pc = "looked" /\ thread'[u].obj = 0
         \/ thread'[u].pc = "insert"
  BY DEF FoundNothing, Creating
<1>3. ~Ends(u) /\ \A m \in Names : ~Asked(u, m)
  BY <1>2, IdleFields DEF Ends, Asked
<1>4. Continues(u)
  BY <1>1, <1>3, ThreadStep
<1>5. SameRequest(u) /\ Creating(u) /\ thread[u].name = n
  BY <1>2, <1>4 DEF Continues, SameRequest, Creating
<1>6. CASE Same(u)
  BY <1>2, <1>5, <1>6 DEF Same, FoundNothing
<1>7. CASE GoesOn(u)
  BY <1>1, <1>2, <1>5, <1>7 DEF GoesOn, SameAnswer, FoundNothing, Answered, Creating
<1>8. CASE Lists(u)
  BY <1>1, <1>2, <1>5, <1>8 DEF Lists, Heard, FoundNothing
<1>9. CASE Heads(u)
  <2>1. s3'[n] = 0 /\ UNCHANGED <<objs, children, writing>> /\ thread[u].pc = "remote"
    BY <1>2, <1>5, <1>9 DEF Heads, Heard
  <2>2. ASSUME New(n) PROVE FALSE
    <3>1. dentry[n] = 0
      BY <1>1, <1>5 DEF SeesNew
    <3>2. PICK v \in Threads : Creating(v) /\ thread[v].pc = "remember" /\ thread[v].lock = "excl"
      BY <1>1, <2>2, <3>1, UnknownNotNew
    <3>3. v # u
      BY <2>1, <3>2
    <3> QED  BY <1>1, <1>5, <3>2, <3>3, ExclAlone DEF Creating
  <2>3. ~LocalKind(n, "file")'
    BY <2>1, <2>2 DEF LocalKind, New
  <2> QED  BY <1>5, <2>1, <2>3 DEF HasFile
<1>10. ASSUME NEW m \in Names, Looks(u, m) PROVE FoundNothing(u)
  <2>1. thread[u].pc = "update" /\ FoundKind(u) = "none"
    BY <1>2, <1>10 DEF Looks
  <2>2. thread[u].head \in Nat \cup {-1}
    BY <1>1, SoleFacts, Answers
  <2>3. thread[u].head = 0
    BY <1>1, <2>1, <2>2 DEF FoundKind, Answered
  <2> QED  BY <1>5, <2>1, <2>3 DEF FoundNothing
<1>11. ASSUME NEW m \in Names, Inserts(u, m) PROVE FALSE
  BY <1>1, <1>2, <1>11, InsertsFacts
<1> QED  BY <1>4, <1>5, <1>6, <1>7, <1>8, <1>9, <1>10, <1>11 DEF Continues

LEMMA SeenStep ==
    ASSUME SoleNext, NEW t \in Threads, \A u \in Threads : SeesNew(u)', Answered(t)'
    PROVE  Seen(t)'
<1> SUFFICES ASSUME thread'[t].op = "lookup" PROVE Seen(t)'
  BY DEF Seen
<1>1. DirInv /\ Sole /\ SoleInv /\ Step /\ thread[t] \in ThreadSet(Len(objs)) /\ s3dirs' = s3dirs
  BY SoleFacts, SoleStepObjects DEF SoleNext
<1>2. ~Ends(t)
  BY IdleFields DEF Ends
<1>3. PICK n \in Names : thread'[t].name = n
  <2>1. TypeOK'
    BY DEF SoleNext, DirInv
  <2>2. thread'[t].name \in Names
    BY <2>1 DEF TypeOK
  <2> QED  BY <2>2
<1>4. /\ obs[t] \subseteq obs'[t]
      /\ IF HasFile(n)' THEN "file" \in obs'[t] ELSE "no file" \in obs'[t]
      /\ IF HasDir(n)' THEN "dir" \in obs'[t] ELSE "no dir" \in obs'[t]
  BY <1>3, ObservedAt
<1>5. /\ thread'[t].list = "yes" => "dir" \in obs'[t]
      /\ thread'[t].list = "no" => "no dir" \in obs'[t] \/ LocalKind(n, "dir")'
  BY <1>3, <1>4 DEF Answered, HasDir
<1>6. CASE \E m \in Names : Asked(t, m)
  <2>1. Asked(t, n)
    BY <1>3, <1>6 DEF Asked
  <2>2. thread'[t].head = -1 /\ UNCHANGED <<objs, children, writing, dentry>> /\ thread'[t].pin = Known(n)
    BY <2>1 DEF Asked
  <2>3. ASSUME thread'[t].lock = "none" PROVE dentry[n] # 0
    <3>1. thread'[t].lock = IF Known(n) = {} THEN "shared" ELSE "none"
      BY <2>1 DEF Asked, LockFor, Changes
    <3> QED  BY <2>3, <3>1 DEF Known
  <2>4. ASSUME thread'[t].lock = "none", LocalKind(n, "file")' PROVE LocalKind(n, "file")' /\ objs'[children'[n]].ino \in thread'[t].pin
    <3>1. New(n) /\ dentry[n] # 0
      BY <2>2, <2>3, <2>4 DEF LocalKind, New
    <3>2. dentry[n] = objs[children[n]].ino
      <4>1. ASSUME NEW u \in Threads, thread[u].pc = "remember", thread[u].obj = children[n] PROVE FALSE
        <5>1. Places(u) /\ SeesNew(u)
          BY <1>1, SoleFacts DEF SoleInv
        <5>2. thread[u].name = n /\ Creating(u)
          BY <1>1, <3>1, <4>1, <5>1, EntryFacts DEF Places, SeesNew, Creating, New, SoleInv
        <5> QED  BY <3>1, <5>1, <5>2 DEF SeesNew
      <4>2. Entry(n)
        BY <1>1 DEF SoleInv
      <4> QED  BY <3>1, <4>1, <4>2 DEF Entry
    <3> QED  BY <2>2, <2>4, <3>1, <3>2 DEF Known
  <2>5. ASSUME thread'[t].lock = "none", NEW u \in Threads, FoundNothing(u)', thread'[u].name = n PROVE FALSE
    <3>1. dentry'[n] = 0
      BY <2>5 DEF SeesNew, FoundNothing
    <3> QED  BY <2>2, <2>3, <2>5, <3>1
  <2>6. ~(-1 > 0) /\ -1 # 0
    OBVIOUS
  <2> QED  BY <1>3, <1>5, <2>2, <2>4, <2>5, <2>6 DEF Seen, NoFile, PinnedFile, LocalKind
<1>7. CASE Continues(t)
  <2>1. SameRequest(t) /\ thread[t].op = "lookup" /\ thread[t].name = n /\ Seen(t) /\ SeesNew(t)
    BY <1>1, <1>3, <1>7 DEF Continues, SameRequest, SoleInv
  <2>2. ASSUME NoFile(t) \/ PinnedFile(t) PROVE (NoFile(t) \/ PinnedFile(t))'
    BY <2>1, <2>2, PinnedStays
  <2>3. ASSUME thread[t].lock = "none", LocalKind(n, "file")' PROVE (NoFile(t) \/ PinnedFile(t))'
    <3>1. CASE New(n) /\ children'[n] = children[n] /\ SameInode(children[n])
      <4>1. LocalKind(n, "file")
        BY <2>3, <3>1 DEF LocalKind, New, SameInode
      <4> QED  BY <2>1, <2>2, <2>3, <4>1 DEF Seen
    <3>2. ASSUME NEW u \in Threads, Inserts(u, n) PROVE (NoFile(t) \/ PinnedFile(t))'
      <4>1. FoundNothing(u) /\ thread[u].name = n
        BY <1>1, <3>2, InsertsFacts
      <4>2. "no file" \in obs[t]
        BY <2>1, <2>3, <4>1 DEF Seen
      <4> QED  BY <1>4, <4>2 DEF NoFile
    <3>3. New(n)'
      BY <2>3 DEF LocalKind, New
    <3> QED  BY <1>1, <3>1, <3>2, <3>3, NewFrom
  <2>4. /\ thread'[t].head > 0 => "file" \in obs'[t]
        /\ thread'[t].head = 0 => (NoFile(t) \/ PinnedFile(t))'
    <3>1. CASE thread'[t].head = thread[t].head
      BY <1>4, <2>1, <2>2, <3>1 DEF Seen
    <3>2. CASE thread'[t].head = -1
      BY <3>2
    <3>3. CASE Heads(t)
      <4>1. thread'[t].head = s3[n] /\ UNCHANGED <<objs, children, writing, s3>> /\ s3[n] \in Nat
        <5>1. s3[n] \in Etags \/ s3[n] = 0
          BY <1>1, SoleFacts DEF TypeOK
        <5>2. \A e \in Etags : e \in Nat
          BY DirectoryAssumption
        <5>3. s3[n] \in Nat
          BY <5>1, <5>2
        <5> QED  BY <2>1, <3>3, <5>3 DEF Heads, Heard
      <4>2. ASSUME s3[n] > 0 PROVE "file" \in obs'[t]
        <5>1. s3'[n] # 0
          BY <4>1, <4>2
        <5> QED  BY <1>4, <5>1 DEF HasFile
      <4>3. ASSUME s3[n] = 0 PROVE (NoFile(t) \/ PinnedFile(t))'
        <5>1. CASE ~LocalKind(n, "file")'
          BY <1>4, <4>1, <4>3, <5>1 DEF HasFile, NoFile
        <5>2. CASE LocalKind(n, "file")'
          <6>1. New(n)
            BY <4>1, <5>2 DEF LocalKind, New
          <6>2. thread[t].lock = "none"
            BY <1>1, <2>1, <6>1 DEF SeesNew, ThreadSet
          <6> QED  BY <2>3, <5>2, <6>2
        <5> QED  BY <5>1, <5>2
      <4> QED  BY <4>1, <4>2, <4>3
    <3> QED  BY <1>7, <3>1, <3>2, <3>3 DEF Continues, Same, GoesOn, SameAnswer, Lists, Heard, Looks
  <2>5. ASSUME thread[t].lock = "none", NEW u \in Threads, FoundNothing(u)', thread'[u].name = n
        PROVE  "no file" \in obs'[t]
    <3>1. thread[u].name = n /\ (FoundNothing(u) \/ ~HasFile(n)')
      BY <2>5, FoundNothingStep
    <3>2. CASE FoundNothing(u)
      BY <1>4, <2>1, <2>5, <3>1, <3>2 DEF Seen
    <3>3. CASE ~HasFile(n)'
      BY <1>4, <3>3
    <3> QED  BY <3>1, <3>2, <3>3
  <2>6. thread'[t].lock = thread[t].lock
    BY <2>1 DEF SameRequest
  <2> QED  BY <1>3, <1>5, <2>3, <2>4, <2>5, <2>6 DEF Seen, NoFile, PinnedFile, LocalKind
<1> QED  BY <1>1, <1>2, <1>6, <1>7, ThreadStep

LEMMA JustifiedStep ==
    ASSUME SoleNext
    PROVE  LookupsJustified'
<1> SUFFICES ASSUME NEW t \in Threads, thread'[t].op = "lookup", thread'[t].pc = "looked"
             PROVE  IF thread'[t].obj # 0 THEN objs'[thread'[t].obj].kind \in obs'[t]
                    ELSE "no dir" \in obs'[t] /\ ("no file" \in obs'[t] \/ "finished" \in obs'[t])
  BY DEF LookupsJustified
<1>1. DirInv /\ Sole /\ SoleInv /\ Step /\ thread[t] \in ThreadSet(Len(objs)) /\ StatusFate /\ ~Cache
  BY SoleFacts, SoleStepFate, DirectoryAssumption DEF SoleNext, Sole
<1>2. ~Ends(t) /\ \A m \in Names : ~Asked(t, m)
  BY IdleFields DEF Ends, Asked
<1>3. Continues(t)
  BY <1>1, <1>2, ThreadStep
<1>4. PICK n \in Names : thread[t].name = n /\ thread'[t].name = n
  BY <1>1, <1>3 DEF Continues, SameRequest, ThreadSet
<1>5. /\ obs[t] \subseteq obs'[t]
      /\ IF HasFile(n)' THEN "file" \in obs'[t] ELSE "no file" \in obs'[t]
      /\ IF HasDir(n)' THEN "dir" \in obs'[t] ELSE "no dir" \in obs'[t]
  BY <1>4, ObservedAt
<1>6. thread[t].op = "lookup"
  BY <1>3 DEF Continues, SameRequest
<1>7. CASE Same(t)
  <2>1. IF thread[t].obj # 0 THEN objs[thread[t].obj].kind \in obs[t]
        ELSE "no dir" \in obs[t] /\ ("no file" \in obs[t] \/ "finished" \in obs[t])
    BY <1>1, <1>6, <1>7 DEF SoleInv, LookupsJustified, Same
  <2>2. thread[t].obj # 0 => objs'[thread[t].obj].kind = objs[thread[t].obj].kind
    BY <1>1 DEF ThreadSet, StatusFate, SameInode
  <2> QED  BY <1>5, <1>7, <2>1, <2>2 DEF Same
<1>8. ASSUME NEW m \in Names, Looks(t, m)
      PROVE  IF thread'[t].obj # 0 THEN objs'[thread'[t].obj].kind \in obs'[t]
             ELSE "no dir" \in obs'[t] /\ ("no file" \in obs'[t] \/ "finished" \in obs'[t])
  <2>1. m = n /\ thread[t].pc = "update" /\ thread'[t].obj = children'[n] /\ Seen(t) /\ Answered(t)
    BY <1>1, <1>4, <1>8 DEF Looks, SoleInv
  <2>2. CASE children'[n] = 0
    <3>1. FoundKind(t) = "none" /\ ~New(n)
      BY <1>8, <2>1, <2>2 DEF Looks
    <3>2. thread[t].head \in Nat \cup {-1}
      BY <1>1, SoleFacts, Answers
    <3>3. thread[t].head = 0 /\ thread[t].list = "no"
      BY <2>1, <3>1, <3>2 DEF FoundKind, Answered
    <3>4. "no dir" \in obs[t] /\ NoFile(t)
      BY <1>4, <1>6, <2>1, <3>1, <3>3 DEF Seen, PinnedFile, LocalKind, New
    <3> QED  BY <1>5, <2>1, <2>2, <3>4 DEF NoFile
  <2>3. CASE children'[n] # 0 /\ New(n)'
    <3>1. objs'[children'[n]].kind \in {"file", "dir"}
      BY <2>3, KindNext
    <3>2. ASSUME objs'[children'[n]].kind = "file" PROVE HasFile(n)'
      BY <2>3, <3>2 DEF HasFile, LocalKind, New
    <3>3. ASSUME objs'[children'[n]].kind = "dir" PROVE HasDir(n)'
      BY <2>3, <3>3 DEF HasDir, LocalKind, New
    <3> QED  BY <1>5, <2>1, <2>3, <3>1, <3>2, <3>3
  <2>4. CASE children'[n] # 0 /\ objs'[children'[n]].kind = FoundKind(t)
    <3>1. FoundKind(t) \in {"file", "dir"} => FoundKind(t) \in obs[t]
      BY <1>6, <2>1 DEF Seen, FoundKind
    <3>2. objs'[children'[n]].kind \in {"file", "dir"}
      BY <2>4, KindNext
    <3> QED  BY <1>5, <2>1, <2>4, <3>1, <3>2
  <2> QED  BY <1>8, <2>1, <2>2, <2>3, <2>4 DEF Looks
<1>9. ASSUME NEW m \in Names, Inserts(t, m) PROVE FALSE
  BY <1>6, <1>9 DEF Inserts, Creating
<1> QED  BY <1>3, <1>7, <1>8, <1>9 DEF Continues, GoesOn, Heads, Lists, Heard

-----------------------------------------------------------------------------
\* The theorem

LEMMA LookInit == Init => LookInv
<1> SUFFICES ASSUME Init PROVE SoleInv
  BY DEF LookInv
<1>1. /\ objs = <<>> /\ nextIno = 1 /\ writing = {} /\ children = [n \in Names |-> 0]
      /\ thread = [t \in Threads |-> Idle] /\ DOMAIN objs = {} /\ Len(objs) = 0
  BY DEF Init
<1>2. /\ Idle.op = "none" /\ Idle.pc = "idle" /\ Idle.head = -1 /\ Idle.list = "pending" /\ Idle.obj = 0
      /\ Idle.pin = {} /\ Idle.lock = "none"
  BY DEF Idle
<1>3. OneEach /\ Dirs
  BY <1>1 DEF OneEach, Dirs
<1>4. \A n \in Names : Entry(n)
  BY <1>1 DEF Entry, New
<1>5. \A t \in Threads : Answered(t) /\ SeesNew(t) /\ Seen(t)
  BY <1>1, <1>2 DEF Answered, SeesNew, Seen, Creating
<1>6. LookupsJustified
  BY <1>1, <1>2 DEF LookupsJustified
<1> QED  BY <1>3, <1>4, <1>5, <1>6 DEF SoleInv

LEMMA LookNext ==
    ASSUME DirInv, DirInv', LookInv, [Next]_vars
    PROVE  LookInv'
<1>1. CASE Next
  <2>1. mount' = mount /\ Step /\ Observe
    BY <1>1 DEF Next
  <2>2. Sole' <=> Sole
    BY <2>1 DEF Sole, Ops, Cache
  <2>3. ASSUME Sole PROVE SoleInv'
    <3>1. SoleInv /\ SoleNext
      BY <2>1, <2>2, <2>3 DEF LookInv, SoleNext
    <3>2. OneEach' /\ Dirs' /\ \A n \in Names : Entry(n)'
      BY <2>1, <2>3, <3>1, SoleStepObjects, EntryStep
    <3>3. \A t \in Threads : Answered(t)' /\ SeesNew(t)'
      BY <2>1, <2>3, <3>1, AnsweredStep, SeesNewStep
    <3>4. \A t \in Threads : Seen(t)'
      BY <3>1, <3>3, SeenStep
    <3>5. LookupsJustified'
      BY <3>1, JustifiedStep
    <3> QED  BY <3>2, <3>3, <3>4, <3>5 DEF SoleInv
  <2> QED  BY <2>2, <2>3 DEF LookInv
<1>2. CASE UNCHANGED vars
  <2>1. UNCHANGED <<mount, objs, children, writing, nextIno, inodes, thread, refs, dentry, s3, s3dirs, obs>>
    BY <1>2 DEF vars, superblock, kernel, remote
  <2>2. (OneEach' <=> OneEach) /\ (Dirs' <=> Dirs) /\ (LookupsJustified' <=> LookupsJustified) /\ (Sole' <=> Sole)
    BY <2>1 DEF OneEach, Dirs, LookupsJustified, Sole, Ops, Cache
  <2>3. \A n \in Names : Entry(n)' <=> Entry(n)
    BY <2>1 DEF Entry, New
  <2>4. \A t \in Threads : (Answered(t)' <=> Answered(t)) /\ (SeesNew(t)' <=> SeesNew(t)) /\ (Seen(t)' <=> Seen(t))
    BY <2>1 DEF Answered, SeesNew, Seen, Creating, New, Keeps, NoFile, PinnedFile, LocalKind, FoundNothing
  <2> QED  BY <2>2, <2>3, <2>4 DEF LookInv, SoleInv
<1> QED  BY <1>1, <1>2

\* On a mount without renames that is alone with its bucket, what a lookup
\* without a cache finds was there at a moment of the call, and what it misses
\* was missing at one or had a write that finished during the call, for any
\* number of threads and names, and whatever creates, removals, writes, forgets
\* and failures it meets.  So a new file that is not being written is never
\* missed; one whose write finishes may be, against SEMANTICS.md:82.
THEOREM LookupsAreJustified == MountsAlone => (Spec => []LookupsJustified)
<1> SUFFICES ASSUME MountsAlone PROVE Spec => []LookupsJustified
  OBVIOUS
<1>1. Init => LookInv
  BY LookInit
<1>2. DirInv /\ DirInv' /\ LookInv /\ [Next]_vars => LookInv'
  BY LookNext
<1>3. ASSUME DirInv, LookInv PROVE LookupsJustified
  <2>1. CASE Cache
    BY <2>1 DEF LookupsJustified
  <2>2. CASE ~Cache
    <3>1. mount \in Mounts
      BY <1>3 DEF DirInv, TypeOK
    <3>2. Sole
      BY <2>2, <3>1 DEF MountsAlone, Sole, Cache, Ops
    <3> QED  BY <1>3, <3>2 DEF LookInv, SoleInv
  <2> QED  BY <2>1, <2>2
<1>4. DirInv /\ LookInv => LookupsJustified
  BY <1>3
<1> QED  BY <1>1, <1>2, <1>4, DirAlways, PTL DEF Spec
=============================================================================
