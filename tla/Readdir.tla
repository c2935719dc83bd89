------------------------------- MODULE Readdir -------------------------------
(***************************************************************************)
(* A directory handle and its stream of entries                            *)
(* (mountpoint-s3-fs/src/superblock/readdir.rs and Superblock::readdir)    *)
(* over the directory of module Directory: opendir takes a snapshot of the *)
(* local entries, readdir merges it with the pages of a ListObjects that   *)
(* goes on while the directory changes, and makes inodes of what it finds  *)
(* by the same update_from_remote that lookups use.                        *)
(*                                                                         *)
(* A readdir is a request of a thread, with op "readdir": at pc "readdir"  *)
(* it looks for the next entry, the actions of Directory update the        *)
(* directory, and at pc "looked" it adds the entry to the reply.           *)
(***************************************************************************)
EXTENDS Directory, Functions

CONSTANTS
    Listings,    \* what S3 may list: is_list_ordered, the name and kind of every key
                 \* there may be, in the order of their keys, the names in order, and
                 \* page_size
    Plus,        \* readdirplus: the kernel gets a reference with every entry
    Rooms,       \* how many entries a reply of the kernel's may have room for
    MaxStreams   \* bound: times the stream is started

ASSUME ReaddirAssumption ==
    /\ Plus \in BOOLEAN
    /\ \A l \in Listings : /\ l.ordered \in BOOLEAN /\ l.pageSize \in Nat \ {0}
                            /\ ToSet(l.keys) = Names \X {"file", "dir"} /\ IsInjective(l.keys)
                            /\ ToSet(l.names) = Names /\ IsInjective(l.names)
    /\ Rooms \subseteq Nat \ {0}

VARIABLES
    listing, \* one of Listings
    dir,     \* the DirHandle with its ReaddirHandle, and the request that has it locked
    fpos,    \* the kernel's position in the directory
    given,   \* history: the names that were read since the stream started
    stream   \* history: which names were there all the time since then, and which at some
             \* time, whether a page failed, and how often an inode was remembered for a
             \* reply that was not sent

position == <<fpos, given>>
readdirVars == <<vars, listing, dir, position, stream>>

Finished == Len(listing.keys) + 1
NoEntry == [name |-> "", kind |-> "none", etag |-> 0, obj |-> 0]

Closed == [open |-> FALSE, pos |-> 0, token |-> 1, entries |-> <<>>, locals |-> <<>>,
           last |-> NoEntry, readded |-> NoEntry, at |-> 0, resp |-> <<>>,
           offset |-> 0, room |-> 0, reply |-> <<>>]

\* The files and the directories there are.
Present == {<<n, "file">> : n \in {n \in Names : HasFile(n)}}
           \cup {<<n, "dir">> : n \in {n \in Names : HasDir(n)}}
NamesIn(present) == {p[1] : p \in present}

InitReaddir ==
    /\ Init
    /\ listing \in Listings
    /\ dir = Closed
    /\ fpos = 0
    /\ given = <<>>
    /\ stream = [number |-> 0, steady |-> {}, seen |-> {}, failed |-> FALSE, lost |-> [i \in Inos |-> 0]]

-----------------------------------------------------------------------------
\* ReaddirEntry: sorted by name, and then prefix before object before local.

Rank(kind) == CASE kind = "dir" -> 1 [] kind = "file" -> 2 [] kind = "local" -> 3
Place(n) == CHOOSE k \in DOMAIN listing.names : listing.names[k] = n

Before(a, b) ==
    \/ Place(a.name) < Place(b.name)
    \/ a.name = b.name /\ Rank(a.kind) <= Rank(b.kind)

Sorted(entries) == SetToSortSeq(entries, Before)

LocalEntry(i) == [name |-> objs[inodes[i].obj].name, kind |-> "local", etag |-> 0, obj |-> inodes[i].obj]

\* Mutant: only the files that are open for writing are in the snapshot.
NewHandleOpenOnly ==
    [Closed EXCEPT !.open = TRUE,
        !.locals = Sorted({LocalEntry(i) : i \in {j \in writing :
                                 objs[inodes[j].obj].status = "LocalOpenForWriting"}})]

\* ReaddirHandle::new, for opendir and for a stream that starts again.
NewHandle == [Closed EXCEPT !.open = TRUE, !.locals = Sorted({LocalEntry(i) : i \in writing})]

\* It fails if an entry is not in the inode map yet.
LocalsFound == \A i \in writing : inodes[i].obj # 0

Opendir ==
    /\ ~dir.open
    /\ LocalsFound
    /\ stream.number < MaxStreams
    /\ dir' = NewHandle
    /\ fpos' = 0 /\ given' = <<>>
    /\ UNCHANGED <<superblock, thread, kernel, remote>>

Reading == \E t \in Threads : thread[t].op = "readdir"

Releasedir ==
    /\ dir.open /\ ~Reading
    /\ dir' = Closed
    /\ UNCHANGED <<superblock, thread, kernel, remote, position>>

\* rewinddir
Rewind ==
    /\ dir.open /\ ~Reading
    /\ fpos # 0
    /\ stream.number < MaxStreams
    /\ fpos' = 0 /\ given' = <<>>
    /\ UNCHANGED <<superblock, thread, kernel, remote, dir>>

-----------------------------------------------------------------------------
\* RemoteIter::next

KeyName(k) == listing.keys[k][1]
KeyKind(k) == listing.keys[k][2]

InS3(k) == IF KeyKind(k) = "dir" THEN KeyName(k) \in s3dirs ELSE s3[KeyName(k)] # 0

RemoteEntry(k) ==
    [name |-> KeyName(k), kind |-> KeyKind(k), obj |-> 0,
     etag |-> IF KeyKind(k) = "dir" THEN 0 ELSE s3[KeyName(k)]]

\* ListObjects: the first keys from the continuation token on; common
\* prefixes come before objects.
KeysFrom(k) == SelectSeq([j \in 1 .. Len(listing.keys) |-> j], LAMBDA j : j >= k /\ InS3(j))
PageKeys == LET keys == KeysFrom(dir.token) IN SubSeq(keys, 1, Min({listing.pageSize, Len(keys)}))
NextToken == LET keys == KeysFrom(dir.token)
             IN  IF Len(keys) > listing.pageSize THEN keys[listing.pageSize + 1] ELSE Finished

Page ==
    LET entries == [k \in 1 .. Len(PageKeys) |-> RemoteEntry(PageKeys[k])]
    IN  IF listing.ordered THEN Sorted(ToSet(entries))
        ELSE SelectSeq(entries, LAMBDA e : e.kind = "dir") \o SelectSeq(entries, LAMBDA e : e.kind = "file")

Looking(t) == thread[t].op = "readdir" /\ thread[t].pc = "readdir"
NeedsPage == dir.pos >= 2 /\ dir.readded = NoEntry /\ dir.entries = <<>> /\ dir.token # Finished

ListPage(t) ==
    /\ Looking(t) /\ NeedsPage
    /\ dir' = [dir EXCEPT !.entries = Page, !.token = NextToken]
    /\ UNCHANGED <<superblock, thread, kernel, remote, position>>

\* An error: what was added to the reply is not sent.
Abort(t, d) ==
    /\ dir' = [d EXCEPT !.reply = <<>>, !.offset = 0, !.room = 0]
    /\ Return(t)
    /\ UNCHANGED <<superblock, kernel, remote, position>>

\* The token was taken before the request: after a failure the list starts again.
ListFails(t) ==
    /\ MayFail
    /\ Looking(t) /\ NeedsPage
    /\ Abort(t, [dir EXCEPT !.token = 1])

-----------------------------------------------------------------------------
\* ReaddirIter::next and ReaddirHandle::next: merge the page with the local
\* entries and leave out an entry that has the name of the one before it.

Merged ==
    LET r == dir.entries  l == dir.locals
    IN  IF r # <<>> /\ (l = <<>> \/ Before(r[1], l[1])) THEN "remote" ELSE "local"

Taken(from) ==
    IF from = "remote" THEN [dir EXCEPT !.entries = Tail(@)] ELSE [dir EXCEPT !.locals = Tail(@)]

Candidate(from) == IF from = "remote" THEN dir.entries[1] ELSE dir.locals[1]

\* A remote entry becomes an inode through update_from_remote; a local one has its inode.
Process(t, e) ==
    thread' = [thread EXCEPT ![t] =
        IF e.kind = "local"
        THEN [@ EXCEPT !.name = e.name, !.pc = "looked", !.obj = e.obj]
        ELSE [@ EXCEPT !.name = e.name, !.head = e.etag, !.list = IF e.kind = "dir" THEN "yes" ELSE "no",
                       !.pc = IF Cache THEN "negative" ELSE "update"]]

HasNext == dir.pos >= 2 /\ dir.readded = NoEntry /\ dir.entries \o dir.locals # <<>> /\ ~NeedsPage

NextOrdered(t) ==
    LET e == Candidate(Merged)
    IN  /\ Looking(t) /\ listing.ordered /\ HasNext
        /\ IF dir.last.name = e.name
           THEN dir' = Taken(Merged) /\ UNCHANGED thread
           ELSE dir' = [Taken(Merged) EXCEPT !.last = e] /\ Process(t, e)
        /\ UNCHANGED <<superblock, kernel, remote, position>>

\* Without an order all remote entries come first, and then the local ones
\* that none of them had the name of.
NextUnordered(t) ==
    /\ Looking(t) /\ ~listing.ordered /\ HasNext
    /\ IF dir.entries # <<>>
       THEN LET e == dir.entries[1]
            IN  /\ dir' = [Taken("remote") EXCEPT !.locals = SelectSeq(@, LAMBDA l : l.name # e.name)]
                /\ Process(t, e)
       ELSE \E k \in DOMAIN dir.locals :
                /\ dir' = [dir EXCEPT !.locals = RemoveAt(@, k)]
                /\ Process(t, dir.locals[k])
    /\ UNCHANGED <<superblock, kernel, remote, position>>

TakeReadded(t) ==
    /\ Looking(t) /\ dir.pos >= 2 /\ dir.readded # NoEntry
    /\ dir' = [dir EXCEPT !.readded = NoEntry]
    /\ Process(t, dir.readded)
    /\ UNCHANGED <<superblock, kernel, remote, position>>

-----------------------------------------------------------------------------
\* Superblock::readdir.  An entry of a reply is its name, offset and inode.

Dot == <<".", "..">>

\* The kernel takes a reference with every entry of a readdirplus but the first two.
Counted(reply) == SelectSeq(reply, LAMBDA e : Plus /\ e.obj # 0)
TimesIn(reply, i) == Len(SelectSeq(Counted(reply), LAMBDA e : objs[e.obj].ino = i))

\* The reply reaches the kernel.  The program that reads the directory takes
\* the entries in order and may be interrupted at any of them.
Deliver(reply) ==
    /\ refs' = [i \in Inos |-> refs[i] + TimesIn(reply, i)]
    /\ dentry' = [n \in Names |->
          IF \E e \in ToSet(Counted(reply)) : e.name = n
          THEN objs[(CHOOSE e \in ToSet(Counted(reply)) : e.name = n).obj].ino
          ELSE dentry[n]]
    /\ \E k \in 0 .. Len(reply) :
          /\ given' = given \o [j \in 1 .. k |-> reply[j].name]
          /\ fpos' = IF k = 0 THEN fpos ELSE reply[k].offset

\* finish: the reply is kept to be repeated.
Finish(t, d) ==
    /\ dir' = [d EXCEPT !.at = d.offset, !.resp = d.reply, !.reply = <<>>, !.offset = 0, !.room = 0]
    /\ Deliver(dir.reply)
    /\ UNCHANGED sent
    /\ Return(t)

Started(t) ==
    thread' = [thread EXCEPT ![t] = [Idle EXCEPT !.op = "readdir", !.pc = "readdir", !.lock = "shared"]]

\* A request at offset 0 starts the stream again unless it is at its start.
Restarts == fpos = 0 /\ dir.pos # 0

\* The kernel asks for entries with the lock of the directory shared.
Asks(t) ==
    /\ dir.open /\ ~Reading
    /\ thread[t].pc = "idle"
    /\ \A u \in Threads : thread[u].lock # "excl"
    /\ sent < mount.maxRequests
    /\ sent' = sent + 1

StartReaddir(t, room) ==
    /\ Asks(t)
    /\ Restarts \/ fpos = dir.pos
    /\ Restarts => LocalsFound /\ stream.number < MaxStreams
    /\ dir' = [IF Restarts THEN NewHandle ELSE dir EXCEPT !.offset = fpos, !.room = room]
    /\ Started(t)
    /\ UNCHANGED <<superblock, refs, dentry, remote, position>>

\* Mutant: an entry that is sent again is not remembered again.
RemembersNothing(reply) == inodes' = inodes

\* remember, for every entry of a readdirplus.
Remembers(reply) ==
    inodes' = [i \in Inos |->
        LET again == SelectSeq(Counted(reply), LAMBDA e : objs[e.obj].ino = i)
        IN  IF again = <<>> THEN inodes[i]
            ELSE IF inodes[i].obj = 0 THEN [obj |-> again[1].obj, count |-> Len(again)]
            ELSE [inodes[i] EXCEPT !.count = @ + Len(again)]]

\* A request for entries of the last response is answered from it.
InLastResponse == fpos >= dir.at /\ fpos < dir.at + Len(dir.resp)

\* Mutant: the last response is always repeated from its start.
RepeatFromStart(room) == SubSeq(dir.resp, 1, Min({room, Len(dir.resp)}))

Repeated(room) == SubSeq(dir.resp, fpos - dir.at + 1, Min({fpos - dir.at + room, Len(dir.resp)}))

RepeatResponse(t, room) ==
    LET reply == Repeated(room)
    IN  /\ Asks(t)
        /\ fpos > 0 /\ fpos # dir.pos
        /\ InLastResponse
        /\ Remembers(reply)
        /\ Deliver(reply)
        /\ UNCHANGED <<objs, children, writing, nextIno, negative, renames, thread, remote, dir>>

\* . and ..
AddDot(t) ==
    /\ Looking(t) /\ dir.pos < 2
    /\ IF Len(dir.reply) = dir.room THEN Finish(t, dir)
       ELSE /\ dir' = [dir EXCEPT !.pos = @ + 1,
                          !.reply = Append(@, [name |-> Dot[dir.pos + 1], offset |-> dir.pos + 1, obj |-> 0])]
            /\ UNCHANGED <<thread, kernel, position>>
    /\ UNCHANGED <<superblock, remote>>

\* The getattr of the directory or of its parent fails.
DotFails(t) ==
    /\ MayFail
    /\ Looking(t) /\ dir.pos < 2
    /\ Abort(t, dir)

\* The entry is added and remembered, or kept for the next request.
AddEntry(t) ==
    LET o == thread[t].obj
        e == [name |-> objs[o].name, offset |-> dir.pos + 1, obj |-> o]
    IN  /\ thread[t].op = "readdir" /\ thread[t].pc = "looked"
        /\ IF Len(dir.reply) = dir.room
           THEN /\ Finish(t, [dir EXCEPT !.readded = [name |-> objs[o].name, kind |-> "local", etag |-> 0, obj |-> o]])
                /\ UNCHANGED inodes
           ELSE /\ dir' = [dir EXCEPT !.pos = @ + 1, !.reply = Append(@, e)]
                /\ Remembers(<<e>>)
                /\ thread' = [thread EXCEPT ![t].pc = "readdir", ![t].obj = 0, ![t].head = -1, ![t].list = "pending"]
                /\ UNCHANGED <<kernel, position>>
        /\ UNCHANGED <<objs, children, writing, nextIno, negative, renames, remote>>

AtEnd(t) ==
    /\ Looking(t) /\ dir.pos >= 2
    /\ dir.readded = NoEntry /\ dir.entries \o dir.locals = <<>> /\ ~NeedsPage
    
EndOfStream(t) ==
    /\ AtEnd(t)
    /\ Finish(t, dir)
    /\ UNCHANGED <<superblock, remote>>

-----------------------------------------------------------------------------
HandleStep == Opendir \/ Releasedir \/ Rewind

ReaddirStep(t) ==
    \/ \E room \in Rooms : StartReaddir(t, room) \/ RepeatResponse(t, room)
    \/ AddDot(t) \/ DotFails(t) \/ ListPage(t) \/ ListFails(t)
    \/ NextOrdered(t) \/ NextUnordered(t) \/ TakeReadded(t) \/ AddEntry(t) \/ EndOfStream(t)

StreamStarts == dir'.open /\ (~dir.open \/ (Restarts /\ dir'.pos = 0))

PageFails == NeedsPage /\ \E t \in Threads : Looking(t) /\ thread'[t].pc = "idle"

ObserveStream ==
    stream' = IF StreamStarts
              THEN [stream EXCEPT !.number = @ + 1, !.steady = Present', !.seen = Present', !.failed = FALSE]
              ELSE [stream EXCEPT !.steady = @ \cap Present', !.seen = @ \cup Present',
                                  !.failed = @ \/ PageFails,
                                  !.lost = [i \in Inos |-> @[i] + IF PageFails THEN TimesIn(dir.reply, i) ELSE 0]]

NextReaddir ==
    /\ \/ HandleStep
       \/ \E t \in Threads : ReaddirStep(t)
       \/ Step /\ UNCHANGED <<dir, position>>
    /\ Observe
    /\ ObserveStream
    /\ UNCHANGED <<mount, listing>>

SpecReaddir == InitReaddir /\ [][NextReaddir]_readdirVars

-----------------------------------------------------------------------------
\* Properties

\* A file or directory that is there all the time is listed before the end of
\* the stream, whether it is local, remote, or goes from one to the other
\* while the directory is read.
NothingMissed ==
    \A t \in Threads : AtEnd(t) /\ dir.reply = <<>> => NamesIn(stream.steady) \subseteq ToSet(given)

\* The list puts a directory n after an entry m although the key of a file n
\* would come before it: a < a- < a/.
KeyAt(n, kind) == CHOOSE k \in DOMAIN listing.keys : listing.keys[k] = <<n, kind>>
Encloses(n, m) ==
    \E kind \in {"file", "dir"} : /\ KeyAt(n, "file") < KeyAt(m, kind) /\ KeyAt(m, kind) < KeyAt(n, "dir")
                                  /\ {<<n, "dir">>, <<m, kind>>} \subseteq stream.seen

\* No name is listed twice, although it may be a prefix, an object and a local
\* file at once, in one page or in two, and replies are full or only read in
\* part, unless the list starts again after an error.  There are two
\* exceptions:
\*  - a prefix and an object of an unordered list, as the comment of readdir.rs
\*    says, and
\*  - in an ordered list, names such as a and a- with a directory a: pages are
\*    sorted one by one (readdir.rs:427-435), so that a/ from a later page comes
\*    after a-, and only neighbours are compared.  Then a, of which there are a
\*    file and a directory, is listed twice, and so is a-, when it was local
\*    and is uploaded, although the comment on the ordered iterator
\*    (readdir.rs:451-453) says that shadowed entries are filtered out.
NoDuplicates ==
    ~stream.failed => \A j, k \in DOMAIN given :
        j # k /\ given[j] = given[k] =>
            /\ given[j] \in Names
            /\ IF listing.ordered THEN \E m \in Names : Encloses(given[j], m) \/ Encloses(m, given[j])
               ELSE {<<given[j], "file">>, <<given[j], "dir">>} \subseteq stream.seen

\* Between requests every lookup count is the number of references the kernel
\* has and of those it was to get in replies that failed after the entry was
\* remembered.
CountsAccounted ==
    (\A t \in Threads : thread[t].pc = "idle") => \A i \in Inos : inodes[i].count = refs[i] + stream.lost[i]
=============================================================================
