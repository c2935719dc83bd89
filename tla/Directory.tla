----------------------------- MODULE Directory ------------------------------
(***************************************************************************)
(* The entries of one directory of the Superblock                          *)
(* (mountpoint-s3-fs/src/superblock.rs): lookup, getattr, setattr, create, *)
(* mkdir, rmdir, unlink, rename and forget, with the inode map, the        *)
(* negative cache and S3.  FUSE requests run on several threads, and none  *)
(* holds a lock while it waits for S3; a step is what happens between two  *)
(* such waits or under one lock.                                           *)
(*                                                                         *)
(* A rename makes a second Inode object with the same number, so objects   *)
(* and numbers are kept apart: an object is its index in `objs`, 0 is none.*)
(* Names are the keys of the objects in S3; an etag of 0 is no object, or  *)
(* the missing etag of a directory or of a new file.                       *)
(***************************************************************************)
EXTENDS Integers, Sequences, FiniteSets, SequencesExt

CONSTANTS
    Names,
    Threads,
    Mounts,       \* the file systems that may be mounted, one of which is
    Overwrite,    \* allow_overwrite
    MayFail,      \* may requests to S3 fail?
    Etags,        \* bound: etags an upload may get
    MaxObjs       \* bound: Inode objects made

Requests == {"lookup", "getattr", "mkdir", "rmdir", "create", "setattr", "unlink", "rename", "write"}

ASSUME DirectoryAssumption ==
    /\ Mounts \subseteq
          [ops : SUBSET Requests,    \* requests the kernel sends
           files : SUBSET Names,     \* names that are objects in S3 when it is mounted
           dirs : SUBSET Names,      \* names that are common prefixes then
           cache : BOOLEAN,          \* serve_lookup_from_cache and use_negative_cache
           ttl : Nat,                \* file_ttl and dir_ttl, in ticks
           negativeTtl : Nat,        \* negative_cache_ttl, in ticks
           names : SUBSET Names,     \* bound: names that are used
           maxRequests : Nat,        \* bound: requests the kernel sends
           maxRemote : Nat]          \* bound: changes another client makes to the bucket
    /\ {Overwrite, MayFail} \subseteq BOOLEAN
    /\ Names # {}
    /\ MaxObjs \in Nat
    /\ Etags \subseteq Nat \ {0}

VARIABLES
    mount,     \* the file system that is mounted
    objs,      \* every Inode object made, with its InodeState
    children,  \* the directory's children: name to object
    writing,   \* the directory's writing_children
    nextIno,   \* next_ino
    inodes,    \* InodeMap: number to object and lookup count
    negative,  \* NegativeCache: name to what is left of its TTL
    renames,   \* RenameCache
    thread,    \* the requests under way
    refs,      \* the kernel's reference counts
    dentry,    \* the kernel's directory entries: name to number, 0 is none
    sent,      \* the number of requests it has sent
    s3,        \* S3: name to etag
    s3dirs,    \* names that are common prefixes in S3
    foreign,   \* the number of changes another client has made
    obs        \* history: what the name of a request was during the request

superblock == <<objs, children, writing, nextIno, inodes, negative, renames>>
kernel == <<refs, dentry, sent>>
remote == <<s3, s3dirs, foreign>>
vars == <<mount, superblock, thread, kernel, remote, obs>>

Ops == mount.ops
Cache == mount.cache
FileTtl == mount.ttl
NegativeTtl == mount.negativeTtl

Inos == 1 .. MaxObjs
Obj == [ino : Inos, name : Names, kind : {"file", "dir"},
        status : {"LocalUnopened", "LocalOpenForWriting", "Remote", "PendingRename"},
        etag : Etags \cup {0}, ttl : 0 .. FileTtl,
        put : Etags \cup {0}]    \* the etag of an upload S3 has done and finish_writing has not seen

NoInode == [obj |-> 0, count |-> 0]
AnyName == CHOOSE n \in Names : TRUE
Idle == [op |-> "none", pc |-> "idle", name |-> AnyName, dst |-> AnyName, obj |-> 0, src |-> 0,
         pin |-> {}, lock |-> "none", head |-> -1, list |-> "pending"]

TypeOK ==
    /\ mount \in Mounts
    /\ objs \in Seq(Obj) /\ Len(objs) <= MaxObjs
    /\ children \in [Names -> 0 .. Len(objs)]
    /\ writing \subseteq Inos
    /\ nextIno \in 1 .. MaxObjs + 1
    /\ inodes \in [Inos -> [obj : 0 .. Len(objs), count : Nat]]
    /\ negative \in [Names -> 0 .. NegativeTtl]
    /\ renames \in {"unknown", "yes", "no"}
    /\ thread \in [Threads -> [op : Ops \cup {"none", "readdir"},
                               pc : {"idle", "cache", "remote", "negative", "update", "looked",
                                     "insert", "remember", "s3", "renamed", "local", "readdir"},
                               name : Names, dst : Names, obj : 0 .. Len(objs), src : 0 .. Len(objs),
                               pin : SUBSET Inos, lock : {"none", "shared", "excl"},
                               head : Etags \cup {-1, 0}, list : {"pending", "no", "yes"}]]
    /\ refs \in [Inos -> Nat]
    /\ dentry \in [Names -> Inos \cup {0}]
    /\ sent \in 0 .. mount.maxRequests
    /\ s3 \in [Names -> Etags \cup {0}]
    /\ s3dirs \subseteq Names
    /\ foreign \in 0 .. mount.maxRemote

Init ==
    /\ mount \in Mounts
    /\ objs = <<>>
    /\ children = [n \in Names |-> 0]
    /\ writing = {}
    /\ nextIno = 1
    /\ inodes = [i \in Inos |-> NoInode]
    /\ negative = [n \in Names |-> 0]
    /\ renames = "unknown"
    /\ thread = [t \in Threads |-> Idle]
    /\ refs = [i \in Inos |-> 0]
    /\ dentry = [n \in Names |-> 0]
    /\ sent = 0
    /\ s3 \in [Names -> Etags \cup {0}] /\ \A n \in Names : s3[n] # 0 <=> n \in mount.files
    /\ s3dirs = mount.dirs
    /\ foreign = 0
    /\ obs = [t \in Threads |-> {}]

-----------------------------------------------------------------------------
\* The kernel: it pins the inodes of the names a request is about, takes the
\* directory's lock for requests that change it, and shares that lock with
\* lookups, except to revalidate an entry it has.

Changes == {"create", "mkdir", "rmdir", "unlink", "rename"}

Known(n) == {dentry[n]} \ {0}

LockFor(op, n) ==
    CASE op \in Changes -> "excl"
      [] op = "lookup" /\ Known(n) = {} -> "shared"
      [] OTHER -> "none"

Sent(op, n, d) ==
    CASE op \in {"unlink", "rmdir"} -> Known(n) # {}
      [] op = "rename" -> n # d /\ Known(n) # {}
      [] op \in {"create", "mkdir"} -> Known(n) = {}
      [] op = "getattr" -> Known(n) # {}
      [] op = "lookup" -> TRUE

Request(t, op, n, d) ==
    /\ thread[t].pc = "idle"
    /\ op # "rename" => d = n
    /\ Sent(op, n, d)
    /\ sent < mount.maxRequests
    /\ sent' = sent + 1
    /\ \A u \in Threads :
          /\ LockFor(op, n) = "excl" => thread[u].lock = "none"
          /\ LockFor(op, n) = "shared" => thread[u].lock # "excl"
    /\ op = "rename" => renames # "no"
    /\ \E i \in IF op = "getattr" THEN Known(n) ELSE {0} :
         thread' = [thread EXCEPT ![t] =
            [Idle EXCEPT !.op = op, !.pc = "cache", !.name = n, !.dst = d,
                         !.src = IF i = 0 THEN 0 ELSE inodes[i].obj,
                         !.pin = Known(n) \cup Known(d), !.lock = LockFor(op, n)]]
    /\ UNCHANGED <<superblock, refs, dentry, remote>>

Return(t) == thread' = [thread EXCEPT ![t] = Idle]

\* A failed rename drops its PendingRenameGuards.
\* Mutant: they are left in place.
UnguardNothing(o) == objs[o]

Unguard(o) ==
    IF o # 0 /\ objs[o].status = "PendingRename" THEN [objs[o] EXCEPT !.status = "Remote"] ELSE objs[o]

Guarded(t) == IF thread[t].op = "rename" THEN {thread[t].src, thread[t].obj} ELSE {}

Fail(t) ==
    /\ Return(t)
    /\ objs' = [o \in DOMAIN objs |-> IF o \in Guarded(t) THEN Unguard(o) ELSE objs[o]]

-----------------------------------------------------------------------------
\* lookup_by_name, of the name a request is about or of a rename's target.

Target(t) == IF thread[t].op = "rename" /\ thread[t].src # 0 THEN thread[t].dst ELSE thread[t].name

Looked(t, o) ==
    thread' = [thread EXCEPT ![t].pc = "looked", ![t].obj = o, ![t].head = -1, ![t].list = "pending"]

\* cache_lookup
CacheLookup(t) ==
    LET e == children[Target(t)]
    IN  /\ thread[t].pc = "cache"
        /\ thread[t].op # "getattr"
        /\ IF Cache /\ e # 0 /\ objs[e].ttl > 0 THEN Looked(t, e)
           ELSE IF Cache /\ negative[Target(t)] > 0 THEN Looked(t, 0)
           ELSE thread' = [thread EXCEPT ![t].pc = "remote"]
        /\ UNCHANGED <<superblock, kernel, remote>>

\* getattr_with_inode: local state is always served, with a new TTL.
Getattr(t) ==
    LET o == thread[t].src
    IN  /\ thread[t].pc = "cache"
        /\ thread[t].op = "getattr"
        /\ objs' = [objs EXCEPT ![o].ttl = IF objs[o].status # "Remote" THEN FileTtl ELSE @]
        /\ IF objs'[o].ttl > 0 THEN Return(t)
           ELSE thread' = [thread EXCEPT ![t].pc = "remote"]
        /\ UNCHANGED <<children, writing, nextIno, inodes, negative, renames, kernel, remote>>

\* remote_lookup: HeadObject and ListObjects run side by side; a directory
\* shadows a file, so that its answer is enough.
Answer(t, h, l) ==
    thread' = [thread EXCEPT ![t].head = h, ![t].list = l,
                             ![t].pc = IF l = "yes" \/ (h # -1 /\ l = "no") 
                                           THEN IF Cache THEN "negative" ELSE "update" ELSE "remote"]

HeadObject(t) ==
    /\ thread[t].pc = "remote" /\ thread[t].head = -1
    /\ Answer(t, s3[Target(t)], thread[t].list)
    /\ UNCHANGED <<superblock, kernel, remote>>

ListObjects(t) ==
    /\ thread[t].pc = "remote" /\ thread[t].list = "pending"
    /\ Answer(t, thread[t].head, IF Target(t) \in s3dirs THEN "yes" ELSE "no")
    /\ UNCHANGED <<superblock, kernel, remote>>

\* A request fails; for a rename's target this counts as nothing there.
LookupFails(t) ==
    /\ MayFail
    /\ thread[t].pc = "remote"
    /\ IF thread[t].op = "rename" /\ thread[t].src # 0
       THEN Looked(t, 0) /\ UNCHANGED objs
       ELSE Fail(t)
    /\ UNCHANGED <<children, writing, nextIno, inodes, negative, renames, kernel, remote>>

FoundKind(t) == IF thread[t].list = "yes" THEN "dir" ELSE IF thread[t].head > 0 THEN "file" ELSE "none"
FoundEtag(t) == IF FoundKind(t) = "file" THEN thread[t].head ELSE 0

\* update_from_remote: first the negative cache if it is used, then the directory, whose
\* read-locked fast path does nothing that the write-locked path does not do.
UpdateNegative(t) ==
    /\ thread[t].pc = "negative"
    /\ negative' = [negative EXCEPT ![Target(t)] = IF FoundKind(t) = "none" THEN NegativeTtl ELSE 0]
    /\ thread' = [thread EXCEPT ![t].pc = "update"]
    /\ UNCHANGED <<objs, children, writing, nextIno, inodes, renames, kernel, remote>>

\* create_inode_locked
NewObj(n, kind, status, etag) ==
    [ino |-> nextIno, name |-> n, kind |-> kind, status |-> status, etag |-> etag, ttl |-> FileTtl,
     put |-> 0]

CreateInode(n, kind, status, etag) ==
    /\ Len(objs) < MaxObjs
    /\ objs' = Append(objs, NewObj(n, kind, status, etag))
    /\ children' = [children EXCEPT ![n] = Len(objs) + 1]
    /\ nextIno' = nextIno + 1
    /\ writing' = (writing \cup (IF status = "Remote" THEN {} ELSE {nextIno}))
                  \ (IF children[n] = 0 THEN {} ELSE {objs[children[n]].ino})

\* update_slow_path, in four cases.
\* Mutant: a local entry is removed like any other.
NothingRemoteRemoves(t, n, e) ==
    /\ FoundKind(t) = "none"
    /\ children' = [children EXCEPT ![n] = 0]
    /\ writing' = IF e = 0 THEN writing ELSE writing \ {objs[e].ino}
    /\ Looked(t, 0)
    /\ UNCHANGED <<objs, nextIno>>

\* Mutant: a local entry is not there for the lookup.
NothingRemoteDenies(t, n, e) ==
    /\ FoundKind(t) = "none"
    /\ Looked(t, 0)
    /\ UNCHANGED <<objs, children, writing, nextIno>>

NothingRemote(t, n, e) ==
    /\ FoundKind(t) = "none"
    /\ IF e # 0 /\ objs[e].ino \in writing
       THEN objs' = [objs EXCEPT ![e].ttl = FileTtl] /\ Looked(t, e) /\ UNCHANGED children
       ELSE children' = [children EXCEPT ![n] = 0] /\ Looked(t, 0) /\ UNCHANGED objs
    /\ UNCHANGED <<writing, nextIno>>

LocalShadowsRemote(t, e) ==
    /\ FoundKind(t) = "file" /\ e # 0
    /\ objs[e].status # "Remote"
    /\ Looked(t, e)
    /\ UNCHANGED <<objs, children, writing, nextIno>>

SameObject(t, e) ==
    /\ e # 0
    /\ FoundKind(t) = objs[e].kind
    /\ FoundEtag(t) = objs[e].etag
    /\ objs[e].status = "Remote" \/ FoundKind(t) = "dir"

UpdateInPlace(t, e) ==
    /\ SameObject(t, e)
    /\ objs' = [objs EXCEPT ![e].ttl = FileTtl, ![e].status = "Remote"]
    /\ writing' = IF objs[e].status = "Remote" THEN writing ELSE writing \ {objs[e].ino}
    /\ Looked(t, e)
    /\ UNCHANGED <<children, nextIno>>

Recreate(t, n, e) ==
    /\ FoundKind(t) # "none"
    /\ ~SameObject(t, e)
    /\ ~(FoundKind(t) = "file" /\ e # 0 /\ objs[e].status # "Remote")
    /\ CreateInode(n, FoundKind(t), "Remote", FoundEtag(t))
    /\ Looked(t, Len(objs) + 1)

Update(t) ==
    LET n == Target(t)
        e == children[n]
    IN  /\ thread[t].pc = "update"
        /\ NothingRemote(t, n, e) \/ LocalShadowsRemote(t, e) \/ UpdateInPlace(t, e) \/ Recreate(t, n, e)
        /\ UNCHANGED <<inodes, negative, renames, kernel, remote>>

-----------------------------------------------------------------------------
\* What the requests do with the inode they looked up.

\* The kernel enters the answer; one that only revalidates an entry confirms
\* or drops it.
Entered(t, i) ==
    dentry' = [dentry EXCEPT ![thread[t].name] =
        IF thread[t].lock # "none" THEN i ELSE IF i # @ /\ @ \in thread[t].pin THEN 0 ELSE @]

\* remember, and the reply to the kernel.
Remember(t, o) ==
    LET i == objs[o].ino
    IN  /\ inodes' = [inodes EXCEPT ![i] = IF @.obj = 0 THEN [obj |-> o, count |-> 1]
                                                        ELSE [obj |-> @.obj, count |-> @.count + 1]]
        /\ refs' = [refs EXCEPT ![i] = @ + 1]
        /\ Entered(t, i)
        /\ Return(t)
        /\ UNCHANGED sent

\* lookup; a getattr that looked a new inode up returns StaleInode.
LookupReturns(t) ==
    /\ thread[t].pc = "looked"
    /\ thread[t].op \in {"lookup", "getattr"}
    /\ \/ thread[t].op = "getattr" /\ Return(t) /\ UNCHANGED <<inodes, kernel>>
       \/ /\ thread[t].op = "lookup" /\ thread[t].obj = 0
          /\ Return(t)
          /\ Entered(t, 0)
          /\ UNCHANGED <<inodes, refs, sent>>
       \/ thread[t].op = "lookup" /\ thread[t].obj # 0 /\ Remember(t, thread[t].obj)
    /\ UNCHANGED <<objs, children, writing, nextIno, negative, renames, remote>>

\* create, for mknod and mkdir: the second check is made under the lock.
CreateLooked(t) ==
    /\ thread[t].pc = "looked"
    /\ thread[t].op \in {"create", "mkdir"}
    /\ IF thread[t].obj # 0 THEN Return(t) ELSE thread' = [thread EXCEPT ![t].pc = "insert"]
    /\ UNCHANGED <<superblock, kernel, remote>>

Create(t) ==
    LET n == thread[t].name
    IN  /\ thread[t].pc = "insert"
        /\ IF children[n] # 0
           THEN Return(t) /\ UNCHANGED <<objs, children, writing, nextIno>>
           ELSE /\ CreateInode(n, IF thread[t].op = "mkdir" THEN "dir" ELSE "file", "LocalUnopened", 0)
                /\ thread' = [thread EXCEPT ![t].pc = "remember", ![t].obj = Len(objs) + 1]
        /\ UNCHANGED <<inodes, negative, renames, kernel, remote>>

CreateReturns(t) ==
    /\ thread[t].pc = "remember"
    /\ Remember(t, thread[t].obj)
    /\ UNCHANGED <<objs, children, writing, nextIno, negative, renames, remote>>

\* rmdir of a directory that nothing was written into.
Rmdir(t) ==
    LET o == thread[t].obj
    IN  /\ thread[t].pc = "looked"
        /\ thread[t].op = "rmdir"
        /\ \/ /\ o # 0
              /\ objs[o].kind = "dir" /\ objs[o].status = "LocalUnopened"
              /\ children' = [children EXCEPT ![objs[o].name] = 0]
              /\ writing' = writing \ {objs[o].ino}
              /\ dentry' = [dentry EXCEPT ![objs[o].name] = 0]
           \/ /\ o # 0 => objs[o].kind = "file" \/ objs[o].status # "LocalUnopened"
              /\ UNCHANGED <<children, writing, dentry>>
        /\ Return(t)
        /\ UNCHANGED <<objs, nextIno, inodes, negative, renames, refs, sent, remote>>

\* unlink checks the status, deletes the object, and then removes the child,
\* or invalidates another inode that has taken its place.
UnlinkLooked(t) ==
    LET o == thread[t].obj
    IN  /\ thread[t].pc = "looked"
        /\ thread[t].op = "unlink"
        /\ IF o # 0 /\ objs[o].kind = "file" /\ objs[o].status = "Remote"
           THEN thread' = [thread EXCEPT ![t].pc = "s3"]
           ELSE Return(t)
        /\ UNCHANGED <<superblock, kernel, remote>>

DeleteObject(t) ==
    /\ thread[t].pc = "s3"
    /\ thread[t].op = "unlink"
    /\ LET gone == [s3 EXCEPT ![objs[thread[t].obj].name] = 0]
       IN  \/ s3' = gone /\ thread' = [thread EXCEPT ![t].pc = "local"]
           \/ MayFail /\ s3' \in {s3, gone} /\ Return(t)
    /\ UNCHANGED <<superblock, kernel, s3dirs, foreign>>

Unlink(t) ==
    LET n == objs[thread[t].obj].name
        e == children[n]
    IN  /\ thread[t].pc = "local"
        /\ thread[t].op = "unlink"
        /\ IF e = 0 THEN UNCHANGED <<objs, children>>
           ELSE IF objs[e].ino = objs[thread[t].obj].ino
           THEN children' = [children EXCEPT ![n] = 0] /\ UNCHANGED objs
           ELSE objs' = [objs EXCEPT ![e].ttl = 0] /\ UNCHANGED children
        /\ dentry' = [dentry EXCEPT ![n] = 0]
        /\ Return(t)
        /\ UNCHANGED <<writing, nextIno, inodes, negative, renames, refs, sent, remote>>

\* rename marks the source and an existing target PendingRename, ...
RenameSource(t) ==
    LET o == thread[t].obj
    IN  /\ thread[t].pc = "looked"
        /\ thread[t].op = "rename" /\ thread[t].src = 0
        /\ IF o # 0 /\ objs[o].kind = "file" /\ objs[o].status = "Remote"
           THEN /\ objs' = [objs EXCEPT ![o].status = "PendingRename"]
                /\ thread' = [thread EXCEPT ![t].pc = "cache", ![t].src = o, ![t].obj = 0]
           ELSE Return(t) /\ UNCHANGED objs
        /\ UNCHANGED <<children, writing, nextIno, inodes, negative, renames, kernel, remote>>

RenameTarget(t) ==
    LET o == thread[t].obj
    IN  /\ thread[t].pc = "looked"
        /\ thread[t].op = "rename" /\ thread[t].src # 0
        /\ IF o = 0 THEN thread' = [thread EXCEPT ![t].pc = "s3"] /\ UNCHANGED objs
           ELSE IF Overwrite /\ objs[o].status = "Remote"
           THEN /\ objs' = [objs EXCEPT ![o].status = "PendingRename"]
                /\ thread' = [thread EXCEPT ![t].pc = "s3"]
           ELSE /\ Return(t)
                /\ objs' = [objs EXCEPT ![thread[t].src] = Unguard(thread[t].src)]
        /\ UNCHANGED <<children, writing, nextIno, inodes, negative, renames, kernel, remote>>

\* ... renames the object, ...
CanRename(t) == s3[thread[t].name] # 0 /\ (Overwrite \/ s3[thread[t].dst] = 0)
AfterRename(t) == [s3 EXCEPT ![thread[t].dst] = s3[thread[t].name], ![thread[t].name] = 0]

RenameObject(t) ==
    /\ thread[t].pc = "s3"
    /\ thread[t].op = "rename"
    /\ CanRename(t)
    /\ s3' = AfterRename(t)
    /\ thread' = [thread EXCEPT ![t].pc = "renamed"]
    /\ UNCHANGED <<superblock, kernel, s3dirs, foreign>>

RenameFails(t) ==
    /\ thread[t].pc = "s3"
    /\ thread[t].op = "rename"
    /\ \/ ~CanRename(t) /\ UNCHANGED <<renames, s3>>
       \/ MayFail /\ CanRename(t) /\ s3' \in {s3, AfterRename(t)} /\ UNCHANGED renames
       \/ MayFail /\ renames' = (IF renames = "unknown" THEN "no" ELSE renames) /\ UNCHANGED s3
    /\ Fail(t)
    /\ UNCHANGED <<children, writing, nextIno, inodes, negative, kernel, s3dirs, foreign>>

\* ... and then updates the negative cache and, with both parents locked, the
\* directory and the inode map.
RenameSucceeds(t) ==
    /\ thread[t].pc = "renamed"
    /\ renames' = IF renames = "unknown" THEN "yes" ELSE renames
    /\ negative' = [negative EXCEPT ![thread[t].dst] = 0]
    /\ thread' = [thread EXCEPT ![t].pc = "local"]
    /\ UNCHANGED <<objs, children, writing, nextIno, inodes, kernel, remote>>

\* try_clone_with_new_key
Renamed(t) ==
    [objs[thread[t].src] EXCEPT !.name = thread[t].dst, !.status = "Remote", !.ttl = FileTtl, !.put = 0]

\* The kernel moves its entry.
MovedEntry(t) == [dentry EXCEPT ![thread[t].dst] = dentry[thread[t].name], ![thread[t].name] = 0]

\* Mutant: the inode map keeps the old object.
RenameKeepsMap(t) ==
    /\ thread[t].pc = "local"
    /\ thread[t].op = "rename"
    /\ Len(objs) < MaxObjs
    /\ objs' = Append(objs, Renamed(t))
    /\ children' = [children EXCEPT ![thread[t].name] = 0, ![thread[t].dst] = Len(objs) + 1]
    /\ dentry' = MovedEntry(t)
    /\ Return(t)
    /\ UNCHANGED <<writing, nextIno, inodes, negative, renames, refs, sent, remote>>

Rename(t) ==
    LET i == objs[thread[t].src].ino
    IN  /\ thread[t].pc = "local"
        /\ thread[t].op = "rename"
        /\ Len(objs) < MaxObjs
        /\ objs' = Append(objs, Renamed(t))
        /\ children' = [children EXCEPT ![thread[t].name] = 0, ![thread[t].dst] = Len(objs) + 1]
        /\ inodes' = [inodes EXCEPT ![i] = [obj |-> Len(objs) + 1,
                                            count |-> IF @.obj = 0 THEN 1 ELSE @.count]]
        /\ dentry' = MovedEntry(t)
        /\ Return(t)
        /\ UNCHANGED <<writing, nextIno, negative, renames, refs, sent, remote>>

-----------------------------------------------------------------------------
\* forget: the kernel gives all its references to an inode back.

Pinned(i) ==
    \/ \E t \in Threads : i \in thread[t].pin
    \/ inodes[i].obj # 0 /\ objs[inodes[i].obj].status = "LocalOpenForWriting"

\* Mutant: only one reference is given back.
ForgetOne(i) ==
    /\ refs[i] > 0 /\ ~Pinned(i)
    /\ refs' = [refs EXCEPT ![i] = 0]
    /\ dentry' = [n \in Names |-> IF dentry[n] = i THEN 0 ELSE dentry[n]]
    /\ IF inodes[i].count > 1
       THEN inodes' = [inodes EXCEPT ![i].count = @ - 1] /\ UNCHANGED <<children, writing>>
       ELSE /\ inodes' = [inodes EXCEPT ![i] = NoInode]
            /\ children' = [n \in Names |->
                  IF children[n] # 0 /\ objs[children[n]].ino = i THEN 0 ELSE children[n]]
            /\ writing' = writing \ {i}
    /\ UNCHANGED <<objs, nextIno, negative, renames, thread, sent, remote>>

Forget(i) ==
    /\ refs[i] > 0 /\ ~Pinned(i)
    /\ refs' = [refs EXCEPT ![i] = 0]
    /\ dentry' = [n \in Names |-> IF dentry[n] = i THEN 0 ELSE dentry[n]]
    /\ IF inodes[i].count > refs[i]
       THEN /\ inodes' = [inodes EXCEPT ![i].count = @ - refs[i]]
            /\ UNCHANGED <<children, writing>>
       ELSE /\ inodes' = [inodes EXCEPT ![i] = NoInode]
            /\ children' = [n \in Names |->
                  IF n = objs[inodes[i].obj].name /\ children[n] # 0 /\ objs[children[n]].ino = i
                  THEN 0 ELSE children[n]]
            /\ writing' = writing \ {i}
    /\ UNCHANGED <<objs, nextIno, negative, renames, thread, sent, remote>>

\* setattr refreshes the stat of a local inode.
Setattr(i) ==
    LET o == inodes[i].obj
    IN  /\ "setattr" \in Ops
        /\ refs[i] > 0
        /\ o # 0 /\ objs[o].status # "Remote"
        /\ objs' = [objs EXCEPT ![o].ttl = FileTtl]
        /\ UNCHANGED <<children, writing, nextIno, inodes, negative, renames, thread, kernel, remote>>

\* Writing a file: start_writing, the upload and finish_writing; module
\* FileHandles has the handles and what lies between.
StartWriting(i) ==
    LET o == inodes[i].obj
    IN  /\ "write" \in Ops
        /\ \E n \in Names : dentry[n] = i
        /\ o # 0 /\ objs[o].kind = "file"
        /\ objs[o].status = "LocalUnopened" \/ (Overwrite /\ objs[o].status = "Remote")
        /\ objs' = [objs EXCEPT ![o].status = "LocalOpenForWriting"]
        /\ UNCHANGED <<children, writing, nextIno, inodes, negative, renames, thread, kernel, remote>>

PutObject(i) ==
    LET o == inodes[i].obj
    IN  /\ o # 0 /\ objs[o].status = "LocalOpenForWriting"
        /\ objs[o].put = 0
        /\ \E e \in Etags : /\ s3' = [s3 EXCEPT ![objs[o].name] = e]
                            /\ objs' = [objs EXCEPT ![o].put = e]
        /\ UNCHANGED <<children, writing, nextIno, inodes, negative, renames, thread, kernel, s3dirs, foreign>>

FinishWriting(i) ==
    LET o == inodes[i].obj
    IN  /\ o # 0 /\ objs[o].status = "LocalOpenForWriting"
        /\ \/ /\ objs[o].put # 0
              /\ objs' = [objs EXCEPT ![o] = [@ EXCEPT !.status = "Remote", !.etag = objs[o].put,
                                                       !.ttl = FileTtl, !.put = 0]]
           \/ /\ MayFail
              /\ objs' = [objs EXCEPT ![o] = [@ EXCEPT !.status = "Remote", !.ttl = 0, !.put = 0]]
        /\ writing' = writing \ {i}
        /\ UNCHANGED <<children, nextIno, inodes, negative, renames, thread, kernel, remote>>

\* Time passes for the stats and the negative cache.
Tick ==
    /\ objs' = [o \in DOMAIN objs |-> [objs[o] EXCEPT !.ttl = IF @ = 0 THEN 0 ELSE @ - 1]]
    /\ negative' = [n \in Names |-> IF negative[n] = 0 THEN 0 ELSE negative[n] - 1]
    /\ UNCHANGED <<children, writing, nextIno, inodes, renames, thread, kernel, remote>>

OtherClientChanges(n) ==
    /\ foreign < mount.maxRemote
    /\ foreign' = foreign + 1
    /\ \/ /\ s3' \in {[s3 EXCEPT ![n] = e] : e \in Etags \cup {0}}
          /\ UNCHANGED s3dirs
       \/ /\ s3dirs' \in {s3dirs \cup {n}, s3dirs \ {n}}
          /\ UNCHANGED s3
    /\ UNCHANGED <<superblock, thread, kernel>>

-----------------------------------------------------------------------------
\* A file or a directory of that name exists if S3 has it, or if it is local.
LocalKind(n, k) ==
    children[n] # 0 /\ objs[children[n]].ino \in writing /\ objs[children[n]].kind = k
HasFile(n) == s3[n] # 0 \/ LocalKind(n, "file")
HasDir(n) == n \in s3dirs \/ LocalKind(n, "dir")
Exists(n) == HasFile(n) \/ HasDir(n)

Now(t) == {IF HasFile(Target(t)) THEN "file" ELSE "no file",
           IF HasDir(Target(t)) THEN "dir" ELSE "no dir"}

WasWriting(t) == children[Target(t)] # 0 /\ objs[children[Target(t)]].status = "LocalOpenForWriting"

Observe ==
    obs' = [t \in Threads |->
        IF thread'[t].pc = "idle" THEN {}
        ELSE obs[t] \cup Now(t)' \cup (IF WasWriting(t) /\ ~WasWriting(t)' THEN {"finished"} ELSE {})]

LookupStep(t) ==
    \/ CacheLookup(t) \/ Getattr(t) \/ HeadObject(t) \/ ListObjects(t) \/ LookupFails(t)
    \/ UpdateNegative(t) \/ Update(t) \/ LookupReturns(t)

ChangeStep(t) ==
    \/ CreateLooked(t) \/ Create(t) \/ CreateReturns(t) \/ Rmdir(t)
    \/ UnlinkLooked(t) \/ DeleteObject(t) \/ Unlink(t)
    \/ RenameSource(t) \/ RenameTarget(t) \/ RenameObject(t) \/ RenameFails(t) \/ RenameSucceeds(t)
    \/ Rename(t)

InodeStep(i) == Forget(i) \/ Setattr(i) \/ StartWriting(i) \/ PutObject(i) \/ FinishWriting(i)

Step ==
    \/ \E t \in Threads : LookupStep(t) \/ ChangeStep(t)
    \/ \E t \in Threads, op \in Ops \ {"write", "setattr"}, n, d \in mount.names : Request(t, op, n, d)
    \/ \E i \in Inos : InodeStep(i)
    \/ Tick
    \/ \E n \in mount.names : OtherClientChanges(n)

Next == Step /\ Observe /\ UNCHANGED mount

Spec == Init /\ [][Next]_vars

-----------------------------------------------------------------------------
\* Properties

\* An inode the kernel may still name in a request is in the inode map, with
\* a lookup count that covers the kernel's references: the debug_assert of
\* forget never fails, whatever order forgets and lookups come in.  Between
\* requests the counts are equal, so that no inode stays in the map for good,
\* unless a rename put it there: replace_or_insert counts one reference for an
\* inode that it finds forgotten.
CountsMatchKernel ==
    /\ \A i \in Inos : refs[i] > 0 => inodes[i].obj # 0 /\ inodes[i].count >= refs[i]
    /\ "rename" \notin Ops /\ (\A t \in Threads : thread[t].pc = "idle")
          => \A i \in Inos : inodes[i].count = refs[i]

\* An entry is filed under its own name, and an inode number found by name
\* and through the inode map is the same object; otherwise a write through
\* the one would not be seen through the other.
OneObjectPerInode ==
    \A n \in Names : LET o == children[n]
                      IN  o # 0 => /\ objs[o].name = n
                                   /\ inodes[objs[o].ino].obj \in {0, o}

\* A new file or directory stays in its directory until its write is finished:
\* only a forget or a directory with the same name in S3 can remove it, or
\* the rmdir of a new directory.  A rename could too where its lookup of the
\* target misses a new entry, from the negative cache or because it failed:
\* the mounts are ones where none does.
NewEntriesStay ==
    [][\A n \in Names :
          LET o == children[n]
          IN  (o # 0 /\ children'[n] # o) /\ objs[o].ino \in writing =>
                 \/ refs'[objs[o].ino] < refs[objs[o].ino]
                 \/ children'[n] # 0 /\ objs'[children'[n]].kind = "dir"
                 \/ \E t \in Threads : thread[t].op = "rmdir" /\ thread[t] # thread'[t]]_vars

\* On a mount without a cache, without renames and alone with its bucket, a
\* lookup finds a file or a directory only if one was there at some moment
\* during the call, and misses a name only if there was a moment when it was no
\* directory, and either one when it was no file or one when a write of the
\* file finished.  The last is what superblock.rs:1751 does: it acts on the
\* answers of S3 from before the write and removes the entry, so that a file
\* which was there throughout is reported missing, although SEMANTICS.md:82
\* promises that new files are "always immediately visible".  The property says
\* that a write that finishes in the call is the only way to this.
LookupsJustified ==
    ~Cache => \A t \in Threads : thread[t].op = "lookup" /\ thread[t].pc = "looked" =>
        IF thread[t].obj # 0 THEN objs[thread[t].obj].kind \in obs[t]
        ELSE "no dir" \in obs[t] /\ ("no file" \in obs[t] \/ "finished" \in obs[t])

\* An entry is in PendingRename only while the rename that put it there is
\* under way, and rmdir never meets one that is.  Rename puts its target into
\* that state whatever its kind (superblock.rs:477-489), so a directory can be
\* in it, and what rmdir calls unreachable (superblock.rs:659) is so because the
\* kernel locks the directory, not because only files can be in PendingRename.
PendingRenameIsPending ==
    /\ \A n \in Names : LET o == children[n]
                         IN  o # 0 /\ objs[o].status = "PendingRename" =>
                               \E t \in Threads : o \in Guarded(t)
    /\ \A t \in Threads : thread[t].op = "rmdir" /\ thread[t].obj # 0 =>
          objs[thread[t].obj].status # "PendingRename"
=============================================================================
