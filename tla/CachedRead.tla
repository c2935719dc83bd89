----------------------------- MODULE CachedRead ------------------------------
(***************************************************************************)
(* Reading objects through a data cache: the caching part stream           *)
(* (mountpoint-s3-fs/src/prefetch/caching_stream.rs) over the disk cache,  *)
(* the shared cache in S3 Express and the two-level cache made of them     *)
(* (mountpoint-s3-fs/src/data_cache).                                      *)
(*                                                                         *)
(* Data are what they are data of: a block is an object, which stands for  *)
(* its key and etag, and an index.  Blocks are put by tasks that nobody    *)
(* waits for; a step of one is what it does under the usage lock, or one   *)
(* file operation.  The process may stop and start again.                  *)
(***************************************************************************)
EXTENDS Integers, Sequences, FiniteSets, SequencesExt, FiniteSetsExt

CONSTANTS
    Objects,
    Size,        \* the size of each object
    Hash,        \* hash_cache_key_raw: two objects may have the same
    BlockSize,
    Header,      \* the length of the header of an object's blocks, with its key and etag
    MaxHeader,   \* BINCODE_HEADER_MAX_SIZE
    Limits,      \* limits of the disk cache to check: "none", "total", "space"
    MaxSize,     \* max_size of CacheLimit::TotalSize
    ExpressMax,  \* values of max_object_size of the express cache to check
    Readers,     \* streams
    Tasks,       \* bound: put tasks at a time
    MaxReads,    \* bound: streams started
    MaxRestarts, \* bound: restarts of the process
    MaxFaults    \* bound: failed operations and damaged blocks

Ceiling(n) == (n + BlockSize - 1) \div BlockSize
Blocks == UNION {{[obj |-> o, idx |-> i] : i \in 0 .. Ceiling(Size[o]) - 1} : o \in Objects}

ASSUME CachedReadAssumption ==
    /\ Size \in [Objects -> Nat \ {0}]
    /\ BlockSize \in Nat \ {0}
    /\ MaxHeader \in Nat /\ Header \in [Objects -> 0 .. MaxHeader]
    /\ ExpressMax \subseteq Nat
    /\ {MaxSize, MaxReads, MaxRestarts, MaxFaults} \subseteq Nat
    /\ Limits \subseteq {"none", "total", "space"}
    /\ IsFiniteSet(Tasks)

Least(a, b) == IF a < b THEN a ELSE b
Most(a, b) == IF a < b THEN b ELSE a

\* The bytes of a block: only the last of an object is short.
BlockLen(b) == Least(BlockSize, Size[b.obj] - b.idx * BlockSize)

VARIABLES
    config,   \* which caches there are, their limits, and whether the directory is cleaned up
    files,    \* the files of the cache directory
    usage,    \* UsageInfo: the files in the order of their last use, and their total size
    task,     \* the put tasks
    express,  \* the objects of the express cache, shared with other instances
    reader,   \* the streams
    known,    \* history: the blocks that were ever put
    spent     \* how much of the bounds is used up

vars == <<config, files, usage, task, express, reader, known, spent>>

\* DiskBlockKey, the name of a file, and get_s3_key, the key of an object of the
\* express cache: both hash key and etag, and neither holds them.
Path(b) == <<Hash[b.obj], b.idx>>
Paths == {Path(b) : b \in Blocks}

\* A file, or an object of the express cache: the block that its header or its
\* metadata name, the length of its data, and whether it can be read and its data
\* have their checksum.
NoFile == [state |-> "none"]
File(b, len, state) == [state |-> state, block |-> b, len |-> len]

Unused == [entries |-> <<>>, size |-> 0]
Free == [pc |-> "free"]
Idle == [pc |-> "idle", answer |-> [kind |-> "none"]]

Init ==
    /\ config \in [levels : {{"disk"}, {"express"}, {"disk", "express"}}, limit : Limits, cleanup : BOOLEAN,
                   expressMax : ExpressMax]
    /\ files = [p \in Paths |-> NoFile]
    /\ usage = Unused
    /\ task = [t \in Tasks |-> Free]
    /\ express = [p \in Paths |-> NoFile]
    /\ reader = [r \in Readers |-> Idle]
    /\ known = {}
    /\ spent = [reads |-> 0, restarts |-> 0, faults |-> 0]

Fault == spent.faults < MaxFaults /\ spent' = [spent EXCEPT !.faults = @ + 1]
NoFault == UNCHANGED spent

-----------------------------------------------------------------------------
\* CachingRequest::get_from_cache

OnDisk == "disk" \in config.levels
InExpress == "express" \in config.levels

Block(r) == [obj |-> reader[r].obj, idx |-> reader[r].idx]
EndBlock(r) == Ceiling(reader[r].to)

Ask(s) == [s EXCEPT !.pc = IF OnDisk THEN "open" ELSE "express",
                    !.answer = [kind |-> "asked", block |-> [obj |-> s.obj, idx |-> s.idx]]]
Answered(r, pc, a) == [reader EXCEPT ![r].pc = pc, ![r].answer = a]

StartRead(r, o, from, to) ==
    /\ reader[r].pc = "idle"
    /\ spent.reads < MaxReads
    /\ spent' = [spent EXCEPT !.reads = @ + 1]
    /\ reader' = [reader EXCEPT ![r] =
          Ask([pc |-> "open", obj |-> o, from |-> from, to |-> to, idx |-> from \div BlockSize,
               parts |-> <<>>, file |-> NoFile, len |-> 0, buffer |-> 0, answer |-> [kind |-> "none"]])]
    /\ UNCHANGED <<config, files, usage, task, express, known>>

\* read_block of the disk cache: a file that is open can be replaced or
\* removed, but does not change.
OpenFile(r) ==
    /\ reader[r].pc = "open"
    /\ reader' = [reader EXCEPT ![r].pc = "read", ![r].file = files[Path(Block(r))]]
    /\ UNCHANGED <<config, files, usage, task, express, known, spent>>

\* Mutant: the header is not compared with the block that was asked for.
ValidAnything(file, b) == file.state \in {"good", "damaged"}

\* DiskBlock::read and DiskBlockHeader::validate: the header is that of the block,
\* and has its own checksum.  The length is what the header says; the checksum of
\* the data is not looked at, but goes with them.
Valid(file, b) ==
    /\ file.state \in {"good", "damaged"}
    /\ file.block = b

HitOn(file) == IF file.state = "good" THEN [kind |-> "hit", block |-> file.block] ELSE [kind |-> "damaged"]

\* A stream gets what there is of the block, whatever its length.
HitBy(r, file) == [reader EXCEPT ![r].pc = "push", ![r].answer = HitOn(file), ![r].len = file.len]

\* The entry of a file, of which there is at most one, and the entries that
\* are left when it is taken out.
Entry(p) == {j \in DOMAIN usage.entries : usage.entries[j].path = p}
Without(p) == IF Entry(p) = {} THEN usage.entries ELSE RemoveAt(usage.entries, CHOOSE j \in Entry(p) : TRUE)
SizeOf(p) == IF Entry(p) = {} THEN 0 ELSE usage.entries[CHOOSE j \in Entry(p) : TRUE].size

\* UsageInfo::refresh
Refresh(p) ==
    IF Entry(p) = {} THEN usage
    ELSE [usage EXCEPT !.entries = Append(Without(p), [path |-> p, size |-> SizeOf(p)])]

ReadFile(r) ==
    LET file == reader[r].file  b == Block(r)
    IN  /\ reader[r].pc = "read"
        /\ IF Valid(file, b)
           THEN usage' = Refresh(Path(b)) /\ reader' = HitBy(r, file)
           ELSE /\ reader' = IF InExpress THEN [reader EXCEPT ![r].pc = "express"]
                             ELSE Answered(r, "client", [kind |-> IF file.state = "none" THEN "miss" ELSE "error"])
                /\ UNCHANGED usage
        /\ UNCHANGED <<config, files, task, express, known, spent>>

\* A task is spawned and not awaited.
Spawned(b, len, state, level) ==
    \E t \in Tasks :
        /\ task[t] = Free
        /\ task' = [task EXCEPT ![t] =
              [pc |-> IF OnDisk THEN "evict" ELSE "express", block |-> b, len |-> len, state |-> state, level |-> level]]

Oversized(o) == Size[o] > config.expressMax

\* validate_object_metadata: the object under the key is of the block that was
\* asked for.  One without metadata or without a checksum is no answer.
ValidMetadata(object, b) ==
    /\ object.state \in {"good", "damaged"}
    /\ object.block = b

\* read_block of the express cache.  The two-level cache asks it for what is
\* not on disk, and puts what it gets on disk.
GetExpress(r) ==
    LET b == Block(r)  object == express[Path(b)]
    IN  /\ reader[r].pc = "express"
        /\ \/ /\ ~Oversized(b.obj) /\ ValidMetadata(object, b)
              /\ reader' = HitBy(r, object)
              /\ IF OnDisk THEN Spawned(b, object.len, object.state, "disk") ELSE UNCHANGED task
              /\ NoFault
           \/ /\ Oversized(b.obj) \/ object = NoFile
              /\ reader' = Answered(r, "client", [kind |-> "miss"])
              /\ UNCHANGED task /\ NoFault
           \/ /\ ~Oversized(b.obj)
              /\ \/ object # NoFile /\ ~ValidMetadata(object, b) /\ NoFault
                 \/ Fault
              /\ reader' = Answered(r, "client", [kind |-> "error"])
              /\ UNCHANGED task
        /\ UNCHANGED <<config, files, usage, express, known>>

\* Mutant: the start is not trimmed.
PartFromStart(s, from, to) == [from |-> from, to |-> Least(s.to, to)]

\* try_make_part: the bytes of a block or of a piece of one that are in range.
PartOf(s, from, to) == [from |-> Most(s.from, from), to |-> Least(s.to, to)]
WithPart(s, part) == IF part.from < part.to THEN [s EXCEPT !.parts = Append(@, part)] ELSE s

\* After a block the stream waits for the read window to reach the next one: that
\* is to take the next step later, and a wait that fails is a StopRead.
PushBlock(r) ==
    LET s == reader[r]
        start == s.idx * BlockSize
        pushed == WithPart([s EXCEPT !.idx = @ + 1], PartOf(s, start, start + s.len))
    IN  /\ s.pc = "push"
        /\ reader' = [reader EXCEPT ![r] = IF s.idx + 1 = EndBlock(r)
                          THEN [pushed EXCEPT !.pc = "done"] ELSE Ask(pushed)]
        /\ UNCHANGED <<config, files, usage, task, express, known, spent>>

-----------------------------------------------------------------------------
\* get_from_client and compose_parts: the rest is read from S3 in pieces, and
\* every block of it is put into the cache when it is complete.

RequestEnd(r) == Least(EndBlock(r) * BlockSize, Size[reader[r].obj])

Position(r) == reader[r].idx * BlockSize + reader[r].buffer

Piece(r, n) ==
    LET s == reader[r]
        at == Position(r)
        pushed == WithPart(s, PartOf(s, at, at + n))
    IN  /\ s.pc = "client"
        /\ s.buffer + n <= BlockSize /\ at + n <= RequestEnd(r)
        /\ IF s.buffer + n < BlockSize
           THEN reader' = [reader EXCEPT ![r] = [pushed EXCEPT !.buffer = @ + n]] /\ UNCHANGED <<task, known>>
           ELSE /\ reader' = [reader EXCEPT ![r] = [pushed EXCEPT !.buffer = 0, !.idx = @ + 1]]
                /\ Spawned(Block(r), s.buffer + n, "good", "all")
                /\ known' = known \cup {Block(r)}
        /\ UNCHANGED <<config, files, usage, express, spent>>

EndOfBody(r) ==
    LET s == reader[r]
    IN  /\ s.pc = "client"
        /\ Position(r) = RequestEnd(r)
        /\ reader' = [reader EXCEPT ![r].pc = "done"]
        /\ IF s.buffer > 0
           THEN Spawned(Block(r), s.buffer, "good", "all") /\ known' = known \cup {Block(r)}
           ELSE UNCHANGED <<task, known>>
        /\ UNCHANGED <<config, files, usage, express, spent>>

\* The stream is dropped, or it fails: so does the request or the wait for the
\* window, the body has a part at another offset, or it ends within a block before
\* the end of the object, which is a panic.  The tasks go on.
StopRead(r) ==
    /\ reader[r].pc # "idle"
    /\ \/ reader[r].pc = "done" /\ NoFault
       \/ reader[r].pc # "done" /\ Fault
    /\ reader' = [reader EXCEPT ![r] = Idle]
    /\ UNCHANGED <<config, files, usage, task, express, known>>

-----------------------------------------------------------------------------
\* put_block of the disk cache, and then of the express cache.

AfterDisk(t) ==
    task' = [task EXCEPT ![t] = IF InExpress /\ @.level = "all" THEN [@ EXCEPT !.pc = "express"] ELSE Free]

\* is_limit_exceeded; how much space there is depends on others too.
Exceeded ==
    CASE config.limit = "none" -> {FALSE}
      [] config.limit = "total" -> {usage.size > MaxSize}
      [] config.limit = "space" -> BOOLEAN

\* Mutant: only one file is evicted.
PutEvictOnce(t) ==
    /\ task[t].pc = "evict"
    /\ IF TRUE \in Exceeded /\ usage.entries # <<>>
       THEN LET e == Head(usage.entries)
            IN  /\ usage' = [entries |-> Tail(usage.entries), size |-> Most(usage.size - e.size, 0)]
                /\ files' = [files EXCEPT ![e.path] = NoFile]
       ELSE UNCHANGED <<usage, files>>
    /\ task' = [task EXCEPT ![t].pc = "write"]
    /\ UNCHANGED <<config, express, reader, known, spent>>

\* evict_if_needed: the lock is released after every file.
PutEvict(t) ==
    /\ task[t].pc = "evict"
    /\ \/ /\ FALSE \in Exceeded
          /\ task' = [task EXCEPT ![t].pc = "write"]
          /\ NoFault
          /\ UNCHANGED <<files, usage>>
       \/ /\ TRUE \in Exceeded /\ usage.entries # <<>>
          /\ LET e == Head(usage.entries)
             IN  /\ usage' = [entries |-> Tail(usage.entries), size |-> Most(usage.size - e.size, 0)]
                 /\ \/ files' = [files EXCEPT ![e.path] = NoFile] /\ NoFault
                    \/ Fault /\ UNCHANGED files
          /\ UNCHANGED task
       \/ /\ TRUE \in Exceeded /\ usage.entries = <<>>
          /\ AfterDisk(t)
          /\ NoFault
          /\ UNCHANGED <<files, usage>>
    /\ UNCHANGED <<config, express, reader, known>>

\* write_block, into a temporary file.
PutWrite(t) ==
    /\ task[t].pc = "write"
    /\ \/ task' = [task EXCEPT ![t].pc = "persist"] /\ NoFault
       \/ Fault /\ AfterDisk(t)
    /\ UNCHANGED <<config, files, usage, express, reader, known>>

\* Mutant: the size of a file that is replaced stays counted.
AddTwice(p, size) == [entries |-> Append(Without(p), [path |-> p, size |-> size]), size |-> usage.size + size]

\* UsageInfo::add
Add(p, size) ==
    [entries |-> Append(Without(p), [path |-> p, size |-> size]), size |-> Most(usage.size - SizeOf(p), 0) + size]

FileSize(b, len) == Header[b.obj] + len

\* What is counted is the header and the data.  Without a limit there is no
\* UsageInfo.
PutPersist(t) ==
    LET p == Path(task[t].block)
    IN  /\ task[t].pc = "persist"
        /\ \/ /\ files' = [files EXCEPT ![p] = File(task[t].block, task[t].len, task[t].state)]
              /\ usage' = IF config.limit = "none" THEN usage ELSE Add(p, FileSize(task[t].block, task[t].len))
              /\ NoFault
           \/ Fault /\ UNCHANGED <<files, usage>>
        /\ AfterDisk(t)
        /\ UNCHANGED <<config, express, reader, known>>

PutExpress(t) ==
    LET b == task[t].block
    IN  /\ task[t].pc = "express"
        /\ \/ NoFault /\ express' = IF Oversized(b.obj) THEN express
                                    ELSE [express EXCEPT ![Path(b)] = File(b, task[t].len, task[t].state)]
           \/ Fault /\ UNCHANGED express
        /\ task' = [task EXCEPT ![t] = Free]
        /\ UNCHANGED <<config, files, usage, reader, known>>

-----------------------------------------------------------------------------
\* The surroundings.

\* A block goes bad, so that it cannot be read, or so that it can.
DamageFile(p) ==
    /\ Fault
    /\ files[p].state = "good"
    /\ \E s \in {"damaged", "unreadable"} : files' = [files EXCEPT ![p].state = s]
    /\ UNCHANGED <<config, usage, task, express, reader, known>>

DamageExpress(p) ==
    /\ Fault
    /\ express[p].state = "good"
    /\ \E s \in {"damaged", "unreadable"} : express' = [express EXCEPT ![p].state = s]
    /\ UNCHANGED <<config, files, usage, task, reader, known>>

\* Another instance puts a block into the express cache, or removes it.
OtherInstance(b) ==
    /\ InExpress /\ ~Oversized(b.obj)
    /\ Fault
    /\ \/ express' = [express EXCEPT ![Path(b)] = File(b, BlockLen(b), "good")] /\ known' = known \cup {b}
       \/ express' = [express EXCEPT ![Path(b)] = NoFile] /\ UNCHANGED known
    /\ UNCHANGED <<config, files, usage, task, reader>>

\* The process stops, with the machine perhaps, and starts: files that were
\* not yet written out are cut short.  ManagedCacheDir removes the directory.
Restart ==
    /\ spent.restarts < MaxRestarts
    /\ spent' = [spent EXCEPT !.restarts = @ + 1]
    /\ \E cut \in SUBSET {p \in Paths : files[p] # NoFile} :
          files' = [p \in Paths |-> IF config.cleanup THEN NoFile
                                    ELSE IF p \in cut THEN [files[p] EXCEPT !.state = "unreadable"] ELSE files[p]]
    /\ usage' = Unused
    /\ task' = [t \in Tasks |-> Free]
    /\ reader' = [r \in Readers |-> Idle]
    /\ UNCHANGED <<config, express, known>>

-----------------------------------------------------------------------------
StreamStep(r) ==
    \/ OpenFile(r) \/ ReadFile(r) \/ GetExpress(r) \/ PushBlock(r)
    \/ \E n \in 1 .. BlockSize : Piece(r, n)
    \/ EndOfBody(r)

TaskStep(t) == PutEvict(t) \/ PutWrite(t) \/ PutPersist(t) \/ PutExpress(t)

Next ==
    \/ \E r \in Readers, o \in Objects : \E from \in 0 .. Size[o] - 1 : \E to \in from + 1 .. Size[o] :
          StartRead(r, o, from, to)
    \/ \E r \in Readers : StreamStep(r) \/ StopRead(r)
    \/ \E t \in Tasks : TaskStep(t)
    \/ \E p \in Paths : DamageFile(p) \/ DamageExpress(p)
    \/ \E b \in Blocks : OtherInstance(b)
    \/ Restart

Spec == Init /\ [][Next]_vars

-----------------------------------------------------------------------------
\* Properties

\* Together the caches keep the promise of a single one, whatever files and
\* objects are damaged, mixed up by equal hashes, left by an earlier process
\* or replaced while they are read.
Cache == INSTANCE DataCache WITH answer <- [r \in Readers |-> reader[r].answer]
ImplementsDataCache == Cache!Spec

\* Every entry is of a file of its own that is there, with its size.
EntriesMatchFiles ==
    /\ \A j, k \in DOMAIN usage.entries : usage.entries[j].path = usage.entries[k].path => j = k
    /\ \A j \in DOMAIN usage.entries :
          LET file == files[usage.entries[j].path]
          IN  file.state # "none" /\ FileSize(file.block, file.len) = usage.entries[j].size

\* The sizes of the first n entries together, for each n, and of all of them.
Sums(entries) ==
    LET sum[n \in 0 .. Len(entries)] == IF n = 0 THEN 0 ELSE sum[n - 1] + entries[n].size
    IN  sum
TotalSize(entries) == Sums(entries)[Len(entries)]

\* The usage counts no file that is not there: it is what it says it is after
\* any order of puts, evictions and replacements.
UsageMatchesFiles ==
    /\ usage.size = TotalSize(usage.entries)
    /\ EntriesMatchFiles

\* The limit is checked before a block is written and counted afterwards: it
\* can be passed by one block with its header for every put at the same time, and
\* no more.
LargestFile == MaxHeader + BlockSize

SizeBounded ==
    config.limit = "total" =>
        usage.size + LargestFile * Cardinality({t \in Tasks : task[t].pc \in {"write", "persist"}})
            <= MaxSize + LargestFile * Cardinality(Tasks)

\* The parts of a stream follow each other without gap or overlap, across the
\* change from the cache to S3 in the middle, up to the end of its range.
StreamContinues ==
    \A r \in Readers : reader[r].pc # "idle" =>
        LET s == reader[r]
            end(k) == IF k = 0 THEN s.from ELSE s.parts[k].to
        IN  /\ \A k \in DOMAIN s.parts : s.parts[k].from = end(k - 1)
            /\ s.pc = "done" => end(Len(s.parts)) = s.to
=============================================================================
