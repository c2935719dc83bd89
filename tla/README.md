# Mountpoint for Amazon S3: TLA+ models

Mountpoint presents an S3 bucket as a file system. Requests come from the
kernel through FUSE and run on worker threads; each becomes calls to the
superblock (names, inodes, handles), to uploads or to the prefetcher, and those
make requests to S3. What is hard about it is seldom in one function. It lies
between them: no lock is held while a request waits for S3, uploads are finished
by whoever happens to wait for them, a reader and the task that feeds it pace
each other, and every answer from S3 may be late or lost.

This directory holds models of those parts, the TLC configurations that check
them, and proofs for TLAPS. `PROJECT.json` says for every definition which lines
of the source it stands for, lists the runs, the mutants (deliberate bugs under
which each property must fail), the findings, the hazards and the theorems.
Paths below are relative to `src/mountpoint-s3-fs/src/` unless they say
otherwise.

## The system

| Part | State | Operations | Talks to |
|---|---|---|---|
| `fs.rs`, `fs/handles.rs` | file handles, each with an `UploadState` or a prefetch request under an async mutex | open, read, write, fsync, flush, release | superblock, uploads, prefetcher |
| `metablock/pending_upload.rs` | a hook per file being written: a shared future that completes the upload once | get or run, await | the file handle's mutex, `finish_writing` |
| `superblock/handles_map.rs` | per inode: active and inactive readers, or one writer | add reader, set writer, reactivate, deactivate, remove | open, read, write, flush, release |
| `superblock.rs`, `superblock/inode.rs` | inode map with lookup counts; per inode an `RwLock` with kind, write status, stat, children, `writing_children` | lookup, getattr, setattr, create, mkdir, rmdir, unlink, rename, forget | S3 (HEAD, LIST, DELETE, RenameObject) |
| `superblock/negative_cache.rs` | names known not to exist, until they expire | insert, remove, contains | lookup, create |
| `superblock/readdir.rs` | a stream of local and remote entries per directory handle | opendir, readdir, readd | superblock, LIST |
| `upload/incremental.rs` | a buffer, a bounded channel of buffers, a channel of events, a task | write, complete, append | PutObject with offset and If-Match |
| `upload/atomic.rs`, `async_util.rs` | a running checksum, a size, a request that a task creates | write, complete, drop | the client's PutObject request |
| `s3_crt_client/put_object.rs` (client), `s3/client.rs` (CRT bindings) | channels for the creation, the headers and the result of a multi-part upload, a review callback, a waker | write, review_and_complete, cancel; callbacks | the CRT, a C library |
| `prefetch.rs`, `prefetch/*` | next offset, backward seek window; per task a part queue, a read window and its controller | read, seek, reset; the task's two GetObject requests | GetObject, memory limiter |
| `mem_limiter.rs` | one counter of reserved bytes | reserve, try_reserve, release | prefetcher, incremental upload |
| `prefetch/caching_stream.rs`, `data_cache/*` | blocks on disk, in S3 Express or both; which blocks of the disk are in use, and how large they are | get_block, put_block, evict, clean up | prefetcher, S3 |
| `memory/*` | pages of buffers per size, counters of empty pages and of reserved bytes | reserve, release, trim | S3 client, uploads, memory limiter |
| `fuse/session.rs`, `src/mountpoint-s3-fuser/src/*` | a pool of workers, a count of all and one of idle workers | run, spawn, reply, join, shut down | kernel |
| `manifest/*` | a database of files and directories made from CSV files, per directory handle an iterator | ingest, lookup, getattr, readdir | prefetcher |

Around these: the client crates (`mountpoint-s3-client`, `-crt`, `-crt-sys`), the
FUSE protocol library, the command line, metrics and logging.

What makes each part correct:

* *Handles and uploads.* A file has several readers or one writer. Data that
  write, fsync and release accepted reaches S3, whoever runs the upload. A read
  handle sees what was uploaded before it was opened. No open and no release
  waits for ever.
* *Directory.* What a lookup answers was true at some moment of the call. A file
  that was created and not removed stays. The kernel's reference counts keep
  their inodes alive, and no inode is kept without one. A name and a number lead
  to the same inode.
* *Locks.* No set of requests waits in a circle.
* *Readdir.* A listing has every entry that was there all the time, and none
  twice; a reference is counted for each entry the kernel was given.
* *Manifest.* A mount serves the objects of its manifest and nothing else, or is
  refused; a damaged row is never served as another entry; a listing is complete.
* *Append.* Every version of the object is a prefix of what was written; success
  means all of it is there. The caller never blocks for good.
* *Atomic upload.* The object appears once, with the bytes of the writes that
  succeeded and no others, never before complete or after a drop; success means
  it is there. The caller never blocks for good.
* *Prefetch.* A read gets the bytes it asked for; the memory reserved is exactly
  what the window holds; reader and task do not wait for each other.
* *Data caches.* A cache may forget, but answers a request for a block with that
  block. The disk cache knows what it holds and stays below its limit.
* *FUSE session.* While workers may be added, a request is not left waiting
  because all workers are busy; a request that is handled is answered once; join
  returns.
* *Memory pool.* No memory is given out twice or freed in use; the counters are
  exact.

## Modules

| Module | Models | Checked by |
|---|---|---|
| `HandleMap` | `InodeHandleMap` of one inode, as operators | through `FileHandles` |
| `FileHandles` | all handles of one file, their hooks, the inode's write status and stat, the object | `handles_atomic`, `handles_faults` |
| `FileHandlesProofs` | theorems about `FileHandles` and `HandleMap`: whatever fails, and more of them as long as nothing fails | TLAPS |
| `AppendUpload` | one incremental upload: caller, channels, task, versions of the object | `uploads` |
| `AtomicPut` | abstract: what an atomic upload promises | refined by `AtomicUpload` |
| `AtomicUpload` | one atomic upload: caller, task, PutObject request, callbacks of the CRT, parts | `uploads` |
| `Uploader` | the upload of a file, of one kind or the other; composes the two | `uploads` |
| `Directory` | one directory: entries, inode map, negative and rename caches, kernel, S3 | `directory` |
| `Readdir` | a directory handle and its listing, on top of `Directory` | `dir_readdir` |
| `Manifest` | ingest of a manifest, its index, lookups and listings of a read-only mount | `manifest` |
| `SuperblockLocks` | which locks every superblock operation holds together, in which order | `locks`, `finding_rename_deadlock` |
| `Prefetch` | one handle's reads, its part queue, read window, task and memory | `prefetch` |
| `DataCache` | abstract: what the `DataCache` trait promises | refined by `CachedRead` |
| `CachedRead` | streams through the disk, express and two-level caches, tasks that put blocks, restarts | `cached_read` |
| `FuseSession` | workers, their counters, the thread that waits for them, join, the kernel's queue | `fuse_session` |
| `PagedPool` | pages, masks, locks and counters of the pool; trim | `paged_pool` |
| `UploaderProofs`, `DirectoryProofs`, `SuperblockLocksProofs`, `PrefetchProofs`, `CachedReadProofs`, `FuseSessionProofs`, `PagedPoolProofs` | theorems about the module of that name | TLAPS |
| `MC*` | values of constants, symmetry | |

The cut between modules follows the code's own interfaces. `FileHandles` treats
an upload as one PUT that happens, happens without its response arriving, or
does not happen; `AppendUpload` and `AtomicUpload` open that up. `Readdir`
EXTENDS `Directory` and shares its state and its updates. `Directory` knows only whether an
inode is open for writing; `FileHandles` has the handles behind it.
`SuperblockLocks` has the locks that the other two take for granted: in
`Directory` and `FileHandles` a critical section is one step.

### FileHandles

One action is what a request does between two awaits. `handle[h].op` and `.step`
say which request holds the mutex of a handle and how far it is, so requests on
one handle queue and those on different handles interleave. `result[h]` is the
shared future of the hook: fresh, running, or what it came to. Release and open
put a handle's name in `awaits` while they wait for a hook, and `HookRuns` takes
the mutex of the handle the hook belongs to, as the boxed future does. Data is
counted: `written` units were accepted, `pending` of them are not in S3.

Left out: whether the stat allows reading (`is_readable`), a rename that
succeeds (it replaces the inode and belongs to `Directory`), the bytes read, and
the parts of a multi-part upload, which are in `AtomicUpload`.

### AppendUpload

Bytes are their positions in the stream, so that a version of the object is a
sequence in which a lost, doubled or foreign byte shows. The channel of buffers
is bounded, the one of events is not. A PUT takes effect or not, and its response
arrives or not; another client may replace the object at any time. Memory is
there or not: `HasBuffer` lets the caller have one buffer always and more when it
can be reserved.

### AtomicUpload

The model follows the call from `UploadRequest` through `RemoteResult` and
`S3PutObjectRequest` to the calls and callbacks at the CRT's border; the CRT and
S3 beyond it are an environment that takes bytes into parts of `PartSize`, sends
them, asks for a review and completes, or fails at any of these. The caller is
the most general one the interface allows: it may drop the future of a write
(as a test of the client does), go on after an error, complete or drop the
request. File handles only ever drop it after an error. Every byte offered is a
fresh number, so that retried, lost and damaged bytes show. A checksum is the
sequence it was computed from: that different sequences have different CRCs is
an assumption. Refused writes (out of order, too large) change nothing in the
request and appear only as a guard.

### Directory

Objects and inode numbers are apart because a rename makes a second `Inode` with
the number of the first. Each request takes a few steps: what it looks at
locally, the HEAD and the LIST in either order and with anything in between, and
the update under the locks. The kernel is modelled from how FUSE file systems are
called: it pins the inodes of a request, serialises changes of a directory, runs
lookups beside them only to revalidate, and sends FORGET at any time for
references it holds. `obs` records what a name was while a request ran, so that
"was true at some moment" can be stated.

`mount` is the file system of a behaviour: its options, the bucket's contents and
the requests that are sent.

Simplified: one directory; the two checks of `cache_lookup` are one step; the
fast path of `update_from_remote` is the slow path with the same outcome; one
TTL for files and directories; hooks are left to `FileHandles`.

### Readdir

A readdir is one more request of `Directory`. It merges a snapshot of the local
entries with pages of a ListObjects, in order or not, makes an inode of each
entry with the same action lookups use, and adds entries to a reply of limited
room; entries that did not fit are added again to the next one. The kernel may
ask again for the last reply, start over, forget, or give up. A page may fail, and
so may the getattr of `.` and `..`. `lost` counts references that a failed reply has
left behind. What S3 lists is a constant: whether in order, with which keys (those
of a name next to each other, or apart as in `a`, `a-`, `a-/`, `a/`) and how many on
a page.

### Manifest

An ingest takes one step for each row; its builder hands ids to directories as keys
need them and writes rows in batches. It may be refused at any row, at the end of a
file, or by the unique index, and the process may stop at any point; each leaves a
database, which the next ingest refuses. Lookups and getattr change nothing and are
operators. A readdir request takes one step for each entry, and its reply reaches
the kernel as a whole or, after an error, not at all. Rows may be damaged on disk
while they are served. A checksum is the tuple of fields it is computed from, so
collisions are left out. `Listed` is the reference: what a path is according to the
rows of the manifest.

### SuperblockLocks

An operation is a sequence of lock and unlock steps, one sequence for each
stretch between waits for S3. `WaitsFor` relates a thread to those that hold, or
wait before it for, the lock it wants: a reader that waits behind a waiting
writer is included, since the standard `RwLock` may prefer writers. Locks that
are taken last and released before anything else is locked (the handle map, the
negative cache) are left out. Renames run at the same time, which the kernel
would prevent in part. Directories are numbered from the root down, as inode
numbers are given out: a directory is found after its parent and never moved. Of
the local entries that opendir goes through one stands for all.

### Prefetch

Consumer and producer take turns in any order. A part is its offset and length.
The consumer's `Take` is `RequestTask::read`; every turn of the loop in
`send_feedback` is a step of its own (`Grow`, `ScaleDown`, `KeepWindow`), between
which others may take the memory. The task pushes one chunk at a time and counts
it in a second step, as the code does. The client's stream is an environment
that delivers whole parts, cut from the start of the range or of the object,
while its own window lasts, and fails when it is polled with its window used up
(`EmptyReadWindow` in the client). The 1.125 MiB of a first request without a cache and
the empty first request are both initial values of `initial`.

Left out: the checks `backpressure_handle` and `initial_read_window_size`, which
fail at once or never, and metrics. That `Part::into_bytes` never meets a part of
another offset is `QueueContinues`.

### CachedRead

A block is named by its object (which stands for key and etag) and its index, and
data are what they are data of, so a wrong answer shows. Two objects have the same
hash and thus the same file on disk and the same key in the express cache, where
other instances put blocks too: `Valid` and `ValidMetadata` are what tells them apart.
A stream is given what is stored, whatever its length. What is counted of a file is
its header and its data, but not the version in front of them, as in the code. Every put runs in a task of its own: it makes room
under the usage lock, writes the file and counts it, as separate steps, so that
two puts may pass the limit together (`SizeBounded` says by how much). What is
evicted is taken from the counted size with saturation, as in the code. Files may
be damaged; the process may stop between any two steps and start again with or
without cleaning the directory. `ImplementsDataCache` maps what the tasks have put
to `known` and the answers of both levels of caches to `answer`. The wait for the
read window after a cached block only delays the stream's next step; a body that
ends too early or has a part at a wrong offset ends the stream (`StopRead`).

### FuseSession

One step is one access to one of the two counters. A worker reads a request,
takes itself from the idle count, adds a worker if it was the last one, runs the
handler, and counts itself idle again. Slow requests may never return, so that
the pool must grow past them. Forgets need no reply. The first request the kernel
sends is FUSE_INIT, and it waits for its reply. The kernel may close the
connection, a signal may interrupt join, threads may fail to start, a request may
be one that `Request::new` cannot parse, and handlers may panic. A panic sends the
reply from the destructor of `ReplyRaw`; the handler of init has no such object, so
a panic there (`"dropped"`) sends nothing.

### PagedPool

One step is one access to a mask or to a counter. The fast path under the read
lock, the slow path under the write lock, release, and trim with its unlocked look
at the counter of empty pages interleave freely. A reservation takes the first
page with room and its first free slot, and addresses of freed pages are used
again, so that a late access to a page that is gone would show.

## Runs

Every run terminates by itself: TLC explores all states within the bounds.

| Run | Question | Bounds |
|---|---|---|
| `handles_atomic` | Three handles, multi-part uploads, no failure: exclusion, no loss, read-after-write | one write per handle, three versions |
| `handles_faults` | Two handles, appends, everything may fail, renames are refused, forgets overtake releases, stats expire: map, status and hooks stay consistent, open and release return | one write per handle, one more version |
| `uploads` | Incremental: up to four buffers through a channel of one, failing and lost PUTs, another client. Atomic: two parts, interrupted and retried writes, damaged bytes, missing checksums, failures, lost responses | seven bytes, two foreign versions; six bytes offered, three faults |
| `directory` | Two mounts. Without caches, two threads look up, stat, create, write, make, remove and unlink a name; with caches, renames over existing files and directories against lookups, unlinks, rmdirs, writes and forgets of two names, and another client. Requests fail. Answers are justified, new entries stay, counts agree, names and numbers lead to one inode, and rmdir meets no pending rename | five requests; three requests and one remote change; three objects |
| `dir_readdir` | Listings in and out of order, with keys that sort apart from their names, while files are created, uploaded and forgotten; failing pages and getattrs, repeated replies, rewinds | three requests of three or four entries, two streams, pages of two keys |
| `manifest` | Manifests of up to three rows in any order, with rows to skip and to refuse, and a second channel; crashes; listings in small batches and replies, seeks, damage | two channels, one damaged row, batches of two |
| `locks` | Three threads run any operation but forget on four directories and two files | |
| `prefetch` | Any sequence of reads of one or three bytes at any offset of an object of eight, part size two, windows up to four; memory comes and goes; everything may fail | none but the object's size |
| `cached_read` | Streams over an object of two blocks, the last one short, and another with the same hash and a longer header; both limits of the disk cache, and none; an express cache that takes both objects or the smaller one; restarts, damage, another instance | two streams, two tasks, one restart, one fault |
| `fuse_session` | At most three workers, requests that may never return, forgets, failures, a panic in any handler, init's too, a request that cannot be parsed, interrupt and unmount | four requests, one fault |
| `paged_pool` | Three threads reserve and drop buffers of two sizes and larger ones while trim runs | six page addresses, two slots on a page |
| `finding_rename_deadlock` | see Findings | two threads |

Why the bounds are enough. The conflicts on a handle map need two handles, and
takeover of a flushed handle by a third party needs three (`handles_atomic`); with
failures two handles already give 225 000 states. One write per handle is
enough to have something to lose. In `uploads` four buffers fill the
buffer, the channel, the task's hand and one more, the first moment at which the
caller must wait; six bytes offered against a limit of four let writes be
interrupted, retried and refused, and span two parts. In `Directory` two threads
with three to five requests in all reach every pair of operations with another
before them that sets the scene. `dir_readdir` has a file and a directory of one
name, a second name that comes and goes, and more keys than fit on a page, so that the
two keys of a name are on one page or on two; both
exceptions of `NoDuplicates` occur, the second one for each of the two names. In
`manifest` three rows are enough for a key below another, for a directory shared by
two keys and by two channels, and for a directory of more than one batch. Three
threads reach the circles of two and of three operations, on a tree with a chain
of three directories; longer circles are excluded by proof (`LocksNoDeadlock`). In `prefetch` the object has four parts, so the
first request, the second, and a window that is smaller than the rest of the
object all occur, offsets are not aligned with parts, and there is no bound on
the number of reads. In `cached_read` the second stream meets the puts of the
first, and the limit is less than one object with its headers. In `fuse_session` two
requests that never return leave the pool one worker short of its limit. In
`paged_pool` two threads share a page while the third, or trim, finds it empty or
full.

`CHECK_DEADLOCK FALSE` stands where the system may stop: all handles are closed,
the upload is done, an ingest was refused, or the bound on requests is reached. `prefetch`,
`paged_pool` and `fuse_session` check deadlock.

### Fairness

* `FileHandles`: weak fairness of every step of a request (worker threads run,
  and S3 answers or times out), and strong fairness of a hook taking its handle's
  mutex. The async mutex is fair: a hook that waits for it is not overtaken for
  ever by requests of the application.
* `AppendUpload`: weak fairness of the caller's steps, which its worker polls,
  and of the task, which the runtime polls; requests to S3 end.
* `AtomicUpload`: weak fairness of the caller's steps, of the spawned task and of
  the CRT, whose own timeouts end its requests. Interruptions are not fair.
* `FuseSession`: workers run, handlers other than slow ones return, the waiting
  thread and join run. Slow handlers, interrupts and unmounts are not fair.
* `Prefetch`: weak fairness of the consumer and of the task. The client delivers
  data or fails while its window is open.

No fairness is assumed of applications, other clients, expiry, or memory: memory
held by others may never be released.

### Refinement

`CachedRead` implements `DataCache` (`ImplementsDataCache`) and `AtomicUpload`
implements `AtomicPut` (`ImplementsAtomicPut`); both are checked as properties of
`cached_read` and `uploads`. The mapping of the second is by the caller's
position: a call of complete is "completing", one that failed "uncertain", since
S3 may have performed what the client has given up; a request that was dropped
is "abandoned" and publishes nothing.

## Findings

`finding_rename_deadlock` (`NoDeadlock`) is expected to fail. Rename locks the
inode map while it holds the parents (`superblock.rs:612`); forget locks the
parent while it holds the inode map (`superblock.rs:1307-1317`).
`superblock/inode.rs:69` gives an order of locks "to avoid deadlock".

### Deviations without a run of their own

These behaviours also differ from what a document, a comment or a reader expects.
The runs above leave them out; the first group shows when the constants or the
conditions named are changed.

| Property | Change | What happens |
|---|---|---|
| `NoSilentLoss` | `handles_atomic` with two handles, `Incremental` and `MayFail` TRUE | After a failed append in fsync the handle is failed but the file is not finished. Its release leaves a completed hook on the inode; the next writer's release finds that hook in place of its own (`superblock.rs:1020`), and its data is never uploaded although every call succeeded. `superblock.rs:1045`: "This ensures all data is uploaded to S3 before the handle is fully released." |
| `NoSilentLoss` | the same with `Forgets = TRUE` | forget removes the inode before a release, which then finds none (`superblock.rs:1341`, a TODO in the code) |
| `NoSilentLoss` | `handles_atomic` with `Renames = TRUE` | A flush of another process defers the upload and leaves a hook; a reader takes over; the writer's fsync completes the upload while a rename is pending, so that `finish_writing` refuses to record its end (`superblock.rs:991`) and the ended hook stays attached. The rename fails, and the next writer's release finds that hook in place of its own |
| `ReadersOrSingleWriter` | `handles_atomic` with `MayFail = TRUE` | after a failed upload `finish_writing` removes all handles of the inode (`superblock.rs:964`), others that are still usable included; `src/doc/SEMANTICS.md:231` says "multiple concurrent readers _or_ a single writer" |
| `OpenSeesAcked` | `handles_atomic` with two handles, `Incremental` and `MayFail` TRUE | after a lost response a read handle opens on the older cached stat (`superblock.rs:863`, comment at 945) |
| `LookupsJustified` | without its exception "finished", for uploads that finished during the call | A lookup gets its 404 while a new file is local; the upload completes; the lookup then takes the entry for one removed remotely, drops it and answers ENOENT (`superblock.rs:1751`). `src/doc/SEMANTICS.md:82`: new objects are "always immediately visible through Mountpoint". The same happens to directories that another client makes visible |
| `LookupsJustified` | without its condition `~Cache` | a 404 older than a create is put into the negative cache after it (`superblock.rs:1652`) |
| `LookupsJustified` | a mount without a cache, with lookup, mkdir and one remote change | another client's object under a new local directory makes it visible; a lookup whose answers are older then drops it, or answers for what has since gone |
| `NewEntriesStay` | a mount with create or mkdir and rename, and a cache whose negative entries outlive the others, or `MayFail = TRUE` | Rename looks its target up; a stale negative entry, or a failed request, is taken for "nothing there" (`superblock.rs:592-615` only warns), and the rename then replaces the new local entry without a look at it |
| `CountsMatchKernel` | without its condition on renames | when another client replaces the source of a rename, `replace_or_insert` gives a lookup count to an inode the kernel does not know (`superblock.rs:1971`) |
| `ListingExact` | without its condition that every row is well formed | A batch with a row that cannot be parsed sets `finished` before it fails (`manifest/core.rs:388`): the request returns an error, and the same one sent again is answered with the end of the directory, as if it were empty. `manifest/core.rs:318`: `finished` "Indicates whether the database has no more entries" |

Found while translating the code:

* A completed hook may stay attached to an inode, after a fault or when a rename
  is pending while `finish_writing` runs (`superblock.rs:991`).
* A reader whose open fails after it was added stays in the handle map
  (`fs/handles.rs:76`).
* unlink checks the write status before it waits for S3 (`superblock.rs:704`); a
  writer may have opened the file since.
* A new inode is in its directory before it is in the inode map
  (`superblock.rs:1299`), where opendir looks for it (`superblock/readdir.rs:80`).
* opendir locks the inode map while it holds the directory, against forget.
* The remote iterator of readdir sorts again only within a page
  (`superblock/readdir.rs:427-435`), and only neighbours are compared: keys such as
  `a`, `a-`, `a/` that fall on two pages list `a` twice, or show an object that the
  directory of the same name should hide, and a local `a-` that is uploaded
  meanwhile is listed twice. `superblock/readdir.rs:451-453` says that entries
  "that are shadowed by other entries of the same name" are filtered out.
  `dir_readdir` has these keys, and `NoDuplicates` names them as an exception.
* rename puts an existing target into PendingRename without a look at its kind
  (`superblock.rs:477-489`), so that a directory can be in a state that rmdir calls
  unreachable: "Only files can be in PendingRename" (`superblock.rs:659`). The
  `unreachable!` is not reached as long as the kernel sends no rmdir while a rename
  in the same directory is under way, which is what `PendingRenameIsPending` shows.
* A write handle whose `start_atomic_upload` fails, which it does when the
  encryption settings in memory are found corrupted (`upload/atomic.rs:71`), leaves
  the file open for writing with no handle (`fs/handles.rs:113-116`).
* The continuation token is taken before the request (`superblock/readdir.rs:386`):
  after a failed page the listing starts again. An error in the middle of a reply
  leaves the references of its entries counted and the offset advanced, so that the
  next request is out of order.
* With another client, a listing can miss a file that is open for writing locally
  and was deleted remotely while the listing went on.
* `get_parent_id` (`manifest/metablock.rs:52`) answers for `..` without looking at the
  checksum, which is "verified on retrieval, before serving fuse requests"
  (`manifest/db.rs:42`). A row whose parent or name is damaged is not found, rather
  than refused.
* An ingest that fails leaves its database, and with it every later attempt fails.
* Files of an earlier process that were not cleaned up, or could not be removed, are
  not in the usage of the disk cache, and are not evicted before they are written
  again.
* In the FUSE session a failed spawn, a failed channel and a panic leave the
  counters incremented, after which the pool may stay below its limit. A malformed
  request ends the worker and gets no reply (`mountpoint-s3-fuser/src/session.rs:208`).
* `init` panics on purpose when the kernel lacks what the configuration asks for
  (`fs.rs:186`, `207`, `223`), which "should makes it clear to users that they cannot
  enable overwrite on their host" (`fs.rs:218`). The panic ends its worker only, which
  has added another before it ran the handler, and init has no reply to drop
  (`mountpoint-s3-fuser/src/request.rs:126-155`): the kernel waits for an answer that
  does not come, and join waits until it is interrupted. `RepliedOnce` names this as
  the one handled request without a reply.
* `PagedPool::new_with_candidate_sizes` removes only adjacent duplicates before it
  sorts, although its comment says that duplicates are ignored; the second pool of
  a size is never used.

## Proofs

TLC explores the instances above; the theorems hold for every value of the
constants that the assumptions of the module admit, bounds included: for any
number of handles, threads, workers, requests, blocks, parts, faults and restarts. Every
invariant was checked by TLC before it was proved.

| Theorem | Property | Holds |
|---|---|---|
| `TypeCorrect`, `ReadersXorWriter`, `StatusMatchesMap`, `AwaitedHooksAreKept` | `TypeOK`, `MapExclusive`, `WriterIffOpenForWriting`, `AwaitedHookKept` of `FileHandles` | whatever fails |
| `HandlesReadersOrWriter`, `HandlesNoSilentLoss`, `HandlesSeeAcked` | `ReadersOrSingleWriter`, `NoSilentLoss`, `OpenSeesAcked` | with multi-part uploads and no failure, rename or forget (`Quiet`) |
| `UploadImplementsAtomicPut` | `ImplementsAtomicPut`: `AtomicUpload` refines `AtomicPut` | whatever fails |
| `UploadTypeCorrect`, `UploadObjectIsPrefix`, `UploadCompleteIsDurable` | types of both uploads; `ObjectIsPrefix`, `CompleteIsDurable` of `AppendUpload` | whatever fails, with another client |
| `DirectoryTypeCorrect`, `LookupCountsCoverReferences`, `EntriesAndInodeMapAgree`, `PendingRenamesEnd` | `TypeOK`, `CountsMatchKernel`, `OneObjectPerInode`, `PendingRenameIsPending` of `Directory` | whatever fails, with another client |
| `NewEntriesAreKept` | `NewEntriesStay` of `Directory` | on mounts whose renames find what is there (`RenamesLook`) |
| `LookupsAreJustified` | `LookupsJustified` of `Directory` | on mounts without a cache that are alone with their bucket and have no renames (`MountsAlone`) |
| `LocksNoDeadlock` | `NoDeadlock` of `SuperblockLocks` | unless forget runs beside rename or opendir (`OneOrder`) |
| `PrefetchTypeCorrect`, `ReadsAreContiguous`, `MemoryIsExact`, `BuffersAreBounded`, `FailuresHaveCauses` | `TypeOK`, `QueueContinues`, `MemoryAccounted`, `BufferBounded`, `ErrorsHaveCauses` of `Prefetch` | whatever fails |
| `CacheImplements` | `ImplementsDataCache`: `CachedRead` refines `DataCache` | with damage and restarts |
| `CacheTypeCorrect`, `CacheStreamContinues`, `CacheSizeBounded`, `CacheUsageMatches` | `TypeOK`, `StreamContinues`, `SizeBounded`, `UsageMatchesFiles` | with damage and restarts |
| `SessionTypeCorrect`, `SessionPoolGrows`, `SessionRepliedOnce` | `TypeOK`, `PoolGrows`, `RepliedOnce` of `FuseSession` | with failures, panics, unmount; `RepliedOnce` but for an init whose handler panics |
| `PoolTypeCorrect`, `PoolBuffersSafe`, `PoolEmptyExact`, `PoolReservedExact`, `PoolSearchUndisturbed` | `TypeOK`, `BuffersSafe`, `EmptyExact`, `ReservedExact`, `SearchUndisturbed` of `PagedPool` | always |

**Handles, whatever fails** (`FileHandlesProofs`). Neither `MapExclusive` nor
`WriterIffOpenForWriting` is inductive alone. Adding a reader keeps the first only
because it drops an inactive writer, which keeps the status right only because the
open that does so moves the inode back to `Remote`; setting a writer is the converse.
Their conjunction `MapSafe`, with `TypeOK`, is inductive. Most actions do not touch
the map; the ones that do go through `finish_writing` and `flush_writer`, for which
there are lemmas of their own. The `debug_assert` of `try_reactivate_handle` is one
direction of `WriterIffOpenForWriting`. `AwaitedHookKept` needs to know who waits:
only flush makes a hook, and for the writer; whoever waits for the hook of a handle
has evicted that handle or is its own release; and a handle is made the writer but
once, so that a handle whose hook is awaited never flushes again (`HooksKept`).

**Handles, when nothing fails** (`FileHandlesProofs`). `Quiet` is not a
convenience: with failures, renames or forgets the code breaks these three
properties (see Deviations). The invariant `QuietInv` is about the hook. A handle
that may be used is active in the map (`LiveInMap`). An upload that has not ended is
that of the map's writer or of the attached hook (`BusyTracked`); the writer has no
hook but its own, and has one as soon as another handle may evict it (`WriterHook`);
the attached hook has not ended, and once its handle is not the writer somebody waits
for it (`HookGoes`, `HookAwaited`), so that nothing is forgotten when handles take
over from each other. The stat, like the lookup that a hook hands to an open, is of
the last acknowledged version (`StatAcked`, `LookupAcked`).

**Atomic uploads** (`UploaderProofs`). The refinement rests on what the review
compares. The hasher has either exactly the accepted bytes and those of the write
under way, or strictly more than these (`HashCovers`): a write that did not end is
in the hasher for good. A review that passes therefore found the parts to be the
accepted bytes (`Reviewed`), and only then may S3 publish them.

**Appends** (`UploaderProofs`). While the task has not failed, or not so that the
caller could miss it (`Clean`), what it is sending, then the channel, then the
caller's buffer are the bytes that follow those appended, without gap
(`Contiguous`), and the etag that its next request requires is that of a version
with just these (`VersionKnown`): If-Match then lets no other bytes in. The caller
is told of every failure before it is done (`EtagTold`).

**Directory** (`DirectoryProofs`). The invariant `DirInv` ties objects to numbers.
The inode map is right about the number of its objects (`Numbered`); an entry is the
object made last for its number, and the only one as long as the inode map does not
have it (`Entries`); a rename, which makes a second object of a number, holds the
last ones of its two names (`RenameObjects`), since it has the directory to itself
(`Locked`, `Places`). This gives `OneObjectPerInode`. A pending entry is held by a rename
(`Pending`), so that an rmdir, which has the directory to itself, finds none and sees
none become one (`RmdirFound`). The counts need only the
kernel's side of the protocol (`References`). For `NewEntriesStay`, what is among the
writing children is local (`WritingLocal`), and what an unlink or a rename is about
to remove is not (`Removals`). Of the target of a rename this is true only if the
rename saw what was there (`TargetRemovals`), hence `RenamesLook`.

**Lookups** (`DirectoryProofs`). With `MountsAlone` nobody else changes the bucket, so
that what S3 answered stays true while the call goes on (`Answered`), and the
invariant `SoleInv` is about new entries. A new entry is not in S3, and the kernel
has it or is about to be given it (`Entry`). A request has either the directory's
lock or was sent for an entry that the kernel had, so that it finds the new entry,
which it pinned (`SeesNew`); a create learns that there is nothing only while there
is nothing. A lookup that has not seen the file missing is therefore for a file that
the kernel held, and holds until its write finishes (`Seen`): an ENOENT is right, or
the write finished during the call, which is the exception that the property makes.

**Locks** (`SuperblockLocksProofs`). Directories come in the order of their
numbers, then files, then the inode map; with forget the inode map comes first,
which rename and opendir contradict, hence `OneOrder`. The invariant says of every
thread that a lock it has still to take comes after all that it holds then. In a
circle, whoever holds a lock that is wanted waits for a later one (a reader behind a
waiting writer goes one further), so that there would be no last among the locks
wanted; but there are finitely many.

**Prefetch** (`PrefetchProofs`). Half of the proof is about sequences of parts: that
those of the queue, and those of the seek window, follow each other from one offset
to another (`Chain`), and that pushing, splitting, taking and pushing back keep it.
`PrefetchInv` then says where reader, queue, task and stream are in the object
(`Position`, `Task`, `Stream`), how far the window is ahead of them (`Windows`), and
what the seek window holds (`SeekWindow`); that the memory is the window and the seek
window (`MemoryExact`) is kept because every change of the one is a change of the
other in the same step. A read fails only if a request of the task failed: otherwise
the task is never ahead of its range, and its window always lets it go on.

**Caches** (`CachedReadProofs`). Data that pass the checks are of a block that some
task has put (`GoodKnown`), what is stored of a block is all of it (`TypeOK`), and a
stream asks for the block it is at (`AskedFor`): a file or an express object under an
equal name is refused because its header or its metadata name another block.
The parts of a stream end where it is, cut to its range (`Delivered`), also when it
leaves the cache in the middle. For `SizeBounded`, a put that has made room and not
yet counted itself is where the limit is passed. For `UsageMatchesFiles`, entries are
of different files and each is counted with the size of its file, so that what is
taken off the sum was in it.

**Session** (`FuseSessionProofs`). The two atomic counters are tied to where the
threads are (`WorkersCounted`, `IdlersCounted`): exactly before the first fault, as
bounds after it. The worker that takes the idle count to zero is one that adds a
worker (`SomeoneAdds`), which gives `PoolGrows`. A request that was taken is held by
one worker (`HoldsTaken`), which gives that what is done was replied to once
(`Answered`); no request is sent before init is replied to (`InitFirst`), so that none
follows an init that was dropped.

**Pool** (`PagedPoolProofs`). A thread has a buffer from its reservation to the end
of its release, locks the mask of its own page only, and no page is in two places;
with these `BuffersSafe` is inductive. Locks match where threads are (`LocksMatch`),
so pages change only while nobody searches them. `EmptyExact` is kept because every
step that empties or fills a mask moves a page or a thread into or out of the
two sets it counts. `ReservedExact` is a sum over a set: that it does not depend on the
order in which `MapThenSumSet` takes the elements is proved first.

Sums are the one place where induction is needed. The provers cannot use an
induction theorem about a predicate, but they can use one about a set:
`SetInduction` says that a set with 0 and with the successors of its members has all
natural numbers, and the lemmas name the set of numbers for which they hold.

Assumptions. Each module names its own (`ConfigAssumption`, `AppendAssumption`,
`AtomicAssumption`, `DirectoryAssumption`, `LocksAssumption`, `SizesAssumption`,
`CachedReadAssumption`,
`FuseSessionAssumption`, `PagedPoolAssumption`, `ThreadsAssumption`, and that
`NoHandle` is no handle); the runs evaluate them. They are types and sizes, except:
the kernel sends FUSE_INIT first; the sizes of the pool are sorted and not empty, as
its constructor makes them, and there are addresses for a page of each size for
every thread; directories are numbered after their parents; the sets of threads, of
put tasks and of inodes are finite; there is a name; the largest read window is of two bytes or more
and no first request is of a single one (a preferred window of one byte would never
grow, for half of it is nothing).

Only model-checked:

* liveness (`OpenReturns`, `ReleaseReturns` and the like), which the prover
  cannot do, as it cannot do ENABLED;
* the three properties under `Quiet` for appends, whose handles write into an object
  that is already there, so that an upload under way has partly happened;
* `Readdir` and `Manifest`. What a listing has is a property of merged and cut
  sequences over the whole of a stream, of which every step is an induction of its own.

## Plan

Done: the models (`FileHandles` first, for the most important promise is that no
data is lost), two refinements, and proofs about all but two of them.

Next: `CountsAccounted` of `Readdir`, for which `References` would have to include the
references of a reply that has not arrived, and `ListingExact` of `Manifest`.

## Not modelled

* Functions on data that unit tests cover: encoding and decoding (of FUSE messages,
  of S3 responses, of cache blocks), paths, flags, attributes, error codes.
* Requests of the client other than PutObject and GetObject: they are single
  requests, here answered by an environment that may fail or lose the response. The
  CRT, a C library, is not in the repository; most of its bindings are accessors.
* Mock clients, examples, benchmarks and test support, which are a large part of
  the lines of the repository.
* Command line, configuration, daemonising and mounting; logging and metrics.
* Of modelled parts: the size limit of the negative cache, nested directories in
  `Directory`, the destroy request of FUSE, the unmount with files open, the
  in-memory cache.

The models stand for about an eighth of the repository's lines of code: the parts in
which threads, tasks and answers from S3 meet. `PROJECT.json` lists every part
under `components`.
