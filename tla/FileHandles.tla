----------------------------- MODULE FileHandles -----------------------------
(***************************************************************************)
(* The life of the file handles of one file: fs.rs (open, read, write,     *)
(* fsync, flush, release), fs/handles.rs (UploadState),                    *)
(* metablock/pending_upload.rs (PendingUploadHook) and the Superblock      *)
(* methods they call (open_handle, finish_writing, flush_writer, ...).     *)
(*                                                                         *)
(* A FUSE request runs on a worker thread.  It is split here at its await  *)
(* points: one action is what a handler does between two awaits, under the *)
(* inode's lock where the code takes it.  `op` and `step` say which        *)
(* request holds a handle's state mutex and where in it that request is,   *)
(* so at most one request runs on a handle and the others queue.  Data is  *)
(* counted, not spelled out: a write is one unit.                          *)
(***************************************************************************)
EXTENDS Naturals, FiniteSets, HandleMap

CONSTANTS
    Incremental,      \* --incremental-upload: append in place of a multi-part upload
    AllowOverwrite,   \* --allow-overwrite
    ForceRevalidate,  \* open revalidates a remote inode even when its stat is valid
    MayFail,          \* may S3 requests and writes fail?
    Renames,          \* may S3 refuse a rename of the file while handles are open?
    Forgets,          \* may the kernel's FORGET overtake a RELEASE?
    MaxWrites,        \* bound: writes accepted on one handle
    MaxEtag           \* bound: no fsync or deferring flush starts beyond this version

ASSUME ConfigAssumption ==
    /\ {Incremental, AllowOverwrite, ForceRevalidate, MayFail, Renames, Forgets} \subseteq BOOLEAN
    /\ MaxWrites \in Nat
    /\ MaxEtag \in Nat

VARIABLES
    present,     \* is the inode in the superblock's InodeMap?
    status,      \* InodeState.write_status
    stat,        \* InodeState.stat: etag (0 is None), size, is it within its TTL?
    hook,        \* InodeState.pending_upload_hook: the handle it uploads, or NoHandle
    map,         \* the inode's entry in the InodeHandleMap
    handle,      \* every file handle ever opened, see Handle
    result,      \* what a handle's PendingUploadHook has come to
    object,      \* the object in S3: etag (0 is absent) and size
    acked        \* the last version of the object a request of ours learned of

inodeVars == <<present, status, stat, hook, map>>
vars == <<inodeVars, handle, result, object, acked>>

WriteStatus == {"LocalUnopened", "LocalOpenForWriting", "Remote", "PendingRename"}

\* FileHandle and the request in progress on it.  `fault` records that an S3
\* request or a write on this handle failed; it never influences a step.
Handle ==
    [phase   : {"unused", "head", "looked", "awaitOpen", "open", "closing", "awaitClose",
                "closed", "failed"},
     rw      : {"R", "W"},
     trunc   : BOOLEAN,
     flushed : BOOLEAN,
     upload  : {"none", "progress", "completed", "failed"},
     written : Nat,                      \* written_bytes, or the size of the MPU
     pending : Nat,                      \* of those, the ones S3 does not have yet
     offset  : Nat,                      \* where an append puts them
     etag    : Nat,                      \* the version read, or appended to
     op      : {"none", "write", "fsync", "flush", "defer", "hook"},
     step    : {"none", "put", "ok", "err"},
     res     : Nat,                      \* etag in the response to HEAD or PUT
     awaits  : Handles \cup {NoHandle},  \* whose hook open or release waits for
     fault   : BOOLEAN]

HookResult ==
    [state : {"idle", "fresh", "running", "lookup", "none", "err"}, etag : Nat, size : Nat]

TypeOK ==
    /\ present \in BOOLEAN
    /\ status \in WriteStatus
    /\ stat \in [etag : Nat, size : Nat, valid : BOOLEAN]
    /\ hook \in Handles \cup {NoHandle}
    /\ map \in InodeHandles
    /\ handle \in [Handles -> Handle]
    /\ result \in [Handles -> HookResult]
    /\ object \in [etag : Nat, size : Nat]
    /\ acked \in Nat

UnusedHandle ==
    [phase |-> "unused", rw |-> "R", trunc |-> FALSE, flushed |-> FALSE, upload |-> "none",
     written |-> 0, pending |-> 0, offset |-> 0, etag |-> 0, op |-> "none", step |-> "none",
     res |-> 0, awaits |-> NoHandle, fault |-> FALSE]

MarkFault(r, failed) == IF failed THEN [r EXCEPT !.fault = TRUE] ELSE r

MarkFlushed(r, done) == IF done THEN [r EXCEPT !.flushed = TRUE] ELSE r

\* An open that returned an error: no handle is made.
FailedHandle == [UnusedHandle EXCEPT !.phase = "failed"]

\* A file created locally by mknod, or one found in the bucket.
Init ==
    /\ present = TRUE
    /\ \/ /\ status = "LocalUnopened"
          /\ object = [etag |-> 0, size |-> 0]
       \/ /\ status = "Remote"
          /\ object = [etag |-> 1, size |-> 1]
    /\ stat = [etag |-> object.etag, size |-> object.size, valid |-> TRUE]
    /\ hook = NoHandle
    /\ map = Empty
    /\ handle = [h \in Handles |-> UnusedHandle]
    /\ result = [h \in Handles |-> [state |-> "idle", etag |-> 0, size |-> 0]]
    /\ acked = object.etag

-----------------------------------------------------------------------------
\* Superblock methods, each one critical section under the inode's lock.

HasLocalState == status # "Remote" \/ hook # NoHandle

\* finish_writing(ino, etag, fh): refused while the file is being renamed.
CanFinishWriting == present /\ status \in {"LocalOpenForWriting", "Remote"}

\* Mutant: the etag is only recorded for the current writer.
FinishWritingCurrentOnly(h, etag) ==
    IF CanFinishWriting /\ IsWriter(map, h) /\ etag # 0
    THEN /\ hook' = NoHandle
         /\ status' = "Remote"
         /\ map' = RemoveWriter(map, h)
         /\ stat' = [stat EXCEPT !.etag = etag, !.valid = TRUE]
         /\ UNCHANGED present
    ELSE /\ hook' = IF CanFinishWriting THEN NoHandle ELSE hook
         /\ UNCHANGED <<present, status, stat, map>>

FinishWriting(h, etag) ==
    IF ~CanFinishWriting
    THEN UNCHANGED inodeVars
    ELSE /\ hook' = NoHandle
         /\ IF etag # 0
            THEN /\ IF IsWriter(map, h)
                    THEN status' = "Remote" /\ map' = RemoveWriter(map, h)
                    ELSE UNCHANGED <<status, map>>
                 /\ stat' = [stat EXCEPT !.etag = etag, !.valid = TRUE]
            ELSE /\ status' = "Remote"
                 /\ map' = RemoveInode(map)
                 /\ stat' = [stat EXCEPT !.valid = FALSE]
         /\ UNCHANGED present

\* flush_writer(ino, fh, hook): get_or_insert keeps a hook that is already there.
\* Mutant: a handle that is no longer the writer is flushed as one.
FlushesAnyWriter(h) == present /\ status = "LocalOpenForWriting" /\ map.writer # NoHandle

FlushesWriter(h) == present /\ status = "LocalOpenForWriting" /\ IsWriter(map, h)

FlushWriter(h) ==
    IF FlushesWriter(h)
    THEN /\ map' = DeactivateWriter(map, h)
         /\ IF hook = NoHandle
            THEN hook' = h /\ result' = [result EXCEPT ![h].state = "fresh"]
            ELSE UNCHANGED <<hook, result>>
         /\ UNCHANGED <<present, status, stat>>
    ELSE UNCHANGED <<inodeVars, result>>

\* WriteMode::is_inode_writable
IsInodeWritable(trunc) == Incremental \/ (AllowOverwrite /\ trunc)

-----------------------------------------------------------------------------
\* open

OpenFlags ==
    {[access |-> "RDONLY", trunc |-> FALSE, append |-> FALSE],
     [access |-> "WRONLY", trunc |-> FALSE, append |-> FALSE],
     [access |-> "WRONLY", trunc |-> TRUE, append |-> FALSE],
     [access |-> "RDWR", trunc |-> FALSE, append |-> FALSE],
     [access |-> "RDWR", trunc |-> TRUE, append |-> FALSE],
     [access |-> "RDWR", trunc |-> FALSE, append |-> TRUE]}

\* The mode open_handle chooses, from the write status of the lookup.
ModeFor(flags) ==
    IF \/ flags.access = "WRONLY"
       \/ /\ flags.access = "RDWR"
          /\ \/ status = "LocalUnopened"
             \/ AllowOverwrite /\ flags.trunc
             \/ Incremental /\ flags.append
    THEN "W"
    ELSE "R"

\* getattr_with_inode answers from the inode, or asks S3 with a HEAD.  The
\* choice of the mode only depends on whether the file is LocalUnopened, and
\* a file that needs the HEAD is not and will not be.
OpenLookup(h, flags) ==
    /\ handle[h].phase = "unused"
    /\ present
    /\ LET cached == HasLocalState \/ (~ForceRevalidate /\ stat.valid)
       IN  /\ handle' = [handle EXCEPT ![h] =
                            [@ EXCEPT !.phase = IF cached THEN "looked" ELSE "head",
                                      !.rw = ModeFor(flags),
                                      !.trunc = flags.trunc,
                                      !.res = IF cached THEN 0 ELSE object.etag]]
           /\ stat' = IF HasLocalState THEN [stat EXCEPT !.valid = TRUE] ELSE stat
    /\ UNCHANGED <<present, status, hook, map, result, object, acked>>

\* update_from_remote on the response: a file with local state is kept as it
\* is, one with the same etag is refreshed, and one that is gone or has
\* another etag makes this inode stale and the open fail.
OpenRevalidate(h) ==
    /\ handle[h].phase = "head"
    /\ LET same == ~HasLocalState /\ handle[h].res = stat.etag
           found == handle[h].res # 0 /\ (same \/ HasLocalState)
       IN  /\ handle' = [handle EXCEPT ![h] =
                            IF found THEN [@ EXCEPT !.phase = "looked", !.res = 0] ELSE FailedHandle]
           /\ stat' = IF found /\ same THEN [stat EXCEPT !.valid = TRUE] ELSE stat
    /\ UNCHANGED <<present, status, hook, map, result, object, acked>>

\* The HEAD itself fails.
OpenHeadFails(h) ==
    /\ MayFail
    /\ handle[h].phase = "head"
    /\ handle' = [handle EXCEPT ![h] = FailedHandle]
    /\ UNCHANGED <<inodeVars, result, object, acked>>

\* FileHandleState::new, from a stat, and the insertion in file_handles.  A
\* read handle needs an etag; without one open fails with EBADF, and what
\* open_handle has put into the handle map stays there.  (start_atomic_upload
\* fails too when the encryption settings in memory are found corrupted; that
\* is not modelled.)
NewHandleState(h, etag, size) ==
    LET r == handle[h]
    IN  IF r.rw = "R"
        THEN IF etag = 0
             THEN FailedHandle
             ELSE [r EXCEPT !.phase = "open", !.etag = etag, !.awaits = NoHandle]
        ELSE [r EXCEPT !.phase = "open", !.upload = "progress",
                       !.etag = IF r.trunc THEN 0 ELSE etag,
                       !.offset = IF r.trunc THEN 0 ELSE size,
                       !.awaits = NoHandle]

\* open goes on at once, or first waits for the upload of an earlier handle.
OpenedFrom(h, st) ==
    handle' = [handle EXCEPT ![h] =
                 IF hook = NoHandle
                 THEN NewHandleState(h, st.etag, st.size)
                 ELSE [@ EXCEPT !.phase = "awaitOpen", !.awaits = hook]]

\* Mutant: the file stays LocalOpenForWriting when a reader evicts the writer.
StartReadingKeepsStatus(h) ==
    /\ handle[h].phase = "looked"
    /\ handle[h].rw = "R"
    /\ status # "LocalUnopened"
    /\ CanAddReader(map)
    /\ map' = AddReader(map, h)
    /\ OpenedFrom(h, stat)
    /\ UNCHANGED <<present, status, stat, hook, result, object, acked>>

\* start_reading
StartReading(h) ==
    /\ handle[h].phase = "looked"
    /\ handle[h].rw = "R"
    /\ status # "LocalUnopened"
    /\ CanAddReader(map)
    /\ map' = AddReader(map, h)
    /\ status' = IF status = "LocalOpenForWriting" THEN "Remote" ELSE status
    /\ OpenedFrom(h, stat)
    /\ UNCHANGED <<present, stat, hook, result, object, acked>>

\* start_writing
StartWriting(h) ==
    LET unopened == status = "LocalUnopened"
        size == IF unopened \/ handle[h].trunc THEN 0 ELSE stat.size
    IN  /\ handle[h].phase = "looked"
        /\ handle[h].rw = "W"
        /\ \/ unopened
           \/ status # "PendingRename" /\ IsInodeWritable(handle[h].trunc)
        /\ CanSetWriter(map)
        /\ map' = SetWriter(map, h)
        /\ status' = "LocalOpenForWriting"
        /\ stat' = [stat EXCEPT !.size = size]
        /\ OpenedFrom(h, stat')
        /\ UNCHANGED <<present, hook, result, object, acked>>

\* start_reading and start_writing return an error.
OpenRefused(h) ==
    /\ handle[h].phase = "looked"
    /\ IF handle[h].rw = "R"
       THEN status = "LocalUnopened" \/ ~CanAddReader(map)
       ELSE \/ status = "PendingRename"
            \/ status # "LocalUnopened" /\ ~IsInodeWritable(handle[h].trunc)
            \/ ~CanSetWriter(map)
    /\ handle' = [handle EXCEPT ![h] = FailedHandle]
    /\ UNCHANGED <<inodeVars, result, object, acked>>

\* wait_for_completion returns to open: with an error, with the stat the
\* upload left, or with None, when the inode's stat is read again.
OpenAfterHook(h) ==
    /\ handle[h].phase = "awaitOpen"
    /\ \E g \in Handles :
         /\ handle[h].awaits = g
         /\ \/ /\ result[g].state = "err"
               /\ handle' = [handle EXCEPT ![h] = FailedHandle]
            \/ /\ result[g].state = "lookup"
               /\ handle' = [handle EXCEPT ![h] =
                               NewHandleState(h, result[g].etag, result[g].size)]
            \/ /\ result[g].state = "none"
               /\ handle' = [handle EXCEPT ![h] = NewHandleState(h, stat.etag, stat.size)]
    /\ UNCHANGED <<inodeVars, result, object, acked>>

-----------------------------------------------------------------------------
\* Requests on an open handle.  Each holds the handle's state mutex throughout.

Idle(h) == handle[h].phase = "open" /\ handle[h].op = "none"

\* read on a flushed handle re-activates it, or returns EBADF if a newer
\* handle has evicted it.  The bytes themselves come from the prefetcher.
Read(h) ==
    /\ Idle(h)
    /\ handle[h].rw = "R"
    /\ handle[h].flushed
    /\ present
    /\ TracksReader(map, h)
    /\ map' = ActivateReader(map, h)
    /\ handle' = [handle EXCEPT ![h].flushed = FALSE]
    /\ UNCHANGED <<present, status, stat, hook, result, object, acked>>

\* The handle may be written to: it is not flushed, or try_reactivate_handle
\* makes the current writer active again and detaches its hook.
\* Mutant: a handle that another one has evicted is re-activated.
ReactivatesEvicted(h) == handle[h].flushed /\ present

Reactivates(h) == handle[h].flushed /\ present /\ IsWriter(map, h)

Reactivate(h) ==
    IF Reactivates(h)
    THEN map' = ActivateWriter(map, h) /\ hook' = NoHandle
    ELSE UNCHANGED <<map, hook>>

AcceptedWrite(r) ==
    [r EXCEPT !.flushed = FALSE, !.op = "write", !.step = "ok",
              !.written = r.written + 1, !.pending = r.pending + 1]

RefusedWrite(r) ==
    [r EXCEPT !.flushed = FALSE, !.op = "write", !.step = "err",
              !.upload = "failed", !.fault = TRUE]

\* UploadState::write up to the return of request.write: a failed write
\* aborts the upload.
Write(h) ==
    /\ Idle(h)
    /\ handle[h].rw = "W"
    /\ ~handle[h].flushed \/ Reactivates(h)
    /\ handle[h].written < MaxWrites
    /\ Reactivate(h)
    /\ \/ /\ handle[h].upload = "progress"
          /\ handle' = [handle EXCEPT ![h] = AcceptedWrite(@)]
       \/ /\ MayFail
          /\ handle[h].upload = "progress"
          /\ handle' = [handle EXCEPT ![h] = RefusedWrite(@)]
       \/ /\ handle[h].upload \in {"completed", "failed"}
          /\ handle' = [handle EXCEPT ![h].flushed = FALSE]
    /\ UNCHANGED <<present, status, stat, result, object, acked>>

\* The rest of it: inc_file_size, whose error only fails the write, or
\* finish_on_error.
WriteReturns(h) ==
    /\ handle[h].op = "write"
    /\ LET counted == present /\ status = "LocalOpenForWriting"
       IN  /\ handle' = [handle EXCEPT ![h] =
                            MarkFault([@ EXCEPT !.op = "none", !.step = "none"], ~counted)]
           /\ IF handle[h].step = "err"
              THEN FinishWriting(h, 0)
              ELSE /\ stat' = [stat EXCEPT !.size = IF counted THEN @ + 1 ELSE @]
                   /\ UNCHANGED <<present, status, hook, map>>
    /\ UNCHANGED <<result, object, acked>>

\* The upload is taken out of the handle, which reads Completed meanwhile.
Uploading(h, op) ==
    handle' = [handle EXCEPT ![h] = [@ EXCEPT !.upload = "completed", !.op = op, !.step = "put"]]

\* fsync: UploadState::commit.  It has nothing to do on a read handle or an
\* upload that has ended.
Fsync(h) ==
    /\ Idle(h)
    /\ object.etag < MaxEtag
    /\ handle[h].upload = "progress"
    /\ Uploading(h, "fsync")
    /\ UNCHANGED <<inodeVars, result, object, acked>>

\* flush on a read handle: flush_reader
FlushReader(h) ==
    /\ Idle(h)
    /\ handle[h].rw = "R"
    /\ present
    /\ map' = DeactivateReader(map, h)
    /\ handle' = [handle EXCEPT ![h].flushed = TRUE]
    /\ UNCHANGED <<present, status, stat, hook, result, object, acked>>

\* flush on a write handle: UploadState::complete.  Without data, or called
\* by another process than open was, flush leaves the upload to a hook: an
\* append commits first, a multi-part upload goes on.
Defers(h, samePid) == handle[h].written = 0 \/ ~samePid

FlushCompletes(h, samePid) ==
    /\ Idle(h)
    /\ handle[h].upload = "progress"
    /\ ~Defers(h, samePid)
    /\ Uploading(h, "flush")
    /\ UNCHANGED <<inodeVars, result, object, acked>>

FlushCommits(h, samePid) ==
    /\ Idle(h)
    /\ object.etag < MaxEtag
    /\ handle[h].upload = "progress"
    /\ Incremental
    /\ Defers(h, samePid)
    /\ Uploading(h, "defer")
    /\ UNCHANGED <<inodeVars, result, object, acked>>

FlushDefers(h, samePid) ==
    /\ Idle(h)
    /\ handle[h].upload = "progress"
    /\ ~Incremental
    /\ Defers(h, samePid)
    /\ present
    /\ FlushWriter(h)
    /\ handle' = [handle EXCEPT ![h].flushed = TRUE]
    /\ UNCHANGED <<object, acked>>

\* Completed uploads make flush succeed, failed ones make it return the error.
FlushEnded(h) ==
    /\ Idle(h)
    /\ handle[h].upload = "completed"
    /\ ~handle[h].flushed
    /\ handle' = [handle EXCEPT ![h].flushed = TRUE]
    /\ UNCHANGED <<inodeVars, result, object, acked>>

-----------------------------------------------------------------------------
\* S3 and the end of an upload

\* An append with nothing to add to a non-empty object needs no PUT.
NoPut(h) == Incremental /\ handle[h].pending = 0 /\ handle[h].offset > 0

\* An append is conditional on the version and the size it starts from.
Accepts(h) ==
    (Incremental /\ handle[h].offset > 0) =>
        object.etag = handle[h].etag /\ object.size = handle[h].offset

\* S3 performs the PUT, and its response arrives or is lost.
S3Put(h) ==
    /\ handle[h].step = "put"
    /\ ~NoPut(h)
    /\ Accepts(h)
    /\ object' = [etag |-> object.etag + 1,
                  size |-> handle[h].pending + (IF Incremental THEN handle[h].offset ELSE 0)]
    /\ \E step \in {"ok"} \cup (IF MayFail THEN {"err"} ELSE {}) :
         handle' = [handle EXCEPT ![h] =
                      MarkFault([@ EXCEPT !.step = step, !.res = object'.etag, !.pending = 0,
                                          !.offset = object'.size], step = "err")]
    /\ UNCHANGED <<inodeVars, result, acked>>

S3NoPut(h) ==
    /\ handle[h].step = "put"
    /\ NoPut(h)
    /\ handle' = [handle EXCEPT ![h] = [@ EXCEPT !.step = "ok", !.res = handle[h].etag]]
    /\ UNCHANGED <<inodeVars, result, object, acked>>

\* S3 refuses the PUT, or it never reaches S3.
S3Refuses(h) ==
    /\ handle[h].step = "put"
    /\ ~NoPut(h)
    /\ MayFail \/ ~Accepts(h)
    /\ handle' = [handle EXCEPT ![h] = [@ EXCEPT !.step = "err", !.fault = TRUE]]
    /\ UNCHANGED <<inodeVars, result, object, acked>>

Learn(h) == acked' = IF handle[h].step = "ok" THEN handle[h].res ELSE acked

Responded(h, op) == handle[h].op = op /\ handle[h].step \in {"ok", "err"}

Returned(r, upload) ==
    [r EXCEPT !.op = "none", !.step = "none", !.res = 0, !.upload = upload]

\* commit_append returns to fsync: on success a new append request starts
\* where this one ended, on error the upload has failed, and nothing else.
AppendCommitted(r) ==
    IF r.step = "ok"
    THEN [Returned(r, "progress") EXCEPT !.etag = r.res]
    ELSE Returned(r, "failed")

FsyncReturns(h) ==
    /\ Incremental
    /\ Responded(h, "fsync")
    /\ handle' = [handle EXCEPT ![h] = AppendCommitted(@)]
    /\ Learn(h)
    /\ UNCHANGED <<inodeVars, result, object>>

\* ... or to the flush that defers the upload, which then calls flush_writer.
DeferReturns(h) ==
    /\ Responded(h, "defer")
    /\ IF handle[h].step = "ok"
       THEN FlushWriter(h)
       ELSE UNCHANGED <<inodeVars, result>>
    /\ handle' = [handle EXCEPT ![h] =
                    MarkFlushed(AppendCommitted(@), @.step = "ok" /\ present)]
    /\ Learn(h)
    /\ UNCHANGED object

\* complete_upload and complete_append: finish_writing with the new etag, or
\* without one when the upload has failed.
FinishedEtag(h) == IF handle[h].step = "ok" THEN handle[h].res ELSE 0

Finished(h) == handle[h].step = "ok" /\ CanFinishWriting

\* ... called by flush, or by fsync on a multi-part upload,
CompleteReturns(h) ==
    /\ \/ Responded(h, "flush")
       \/ ~Incremental /\ Responded(h, "fsync")
    /\ FinishWriting(h, FinishedEtag(h))
    /\ handle' = [handle EXCEPT ![h] =
                    MarkFlushed(Returned(@, IF Finished(h) THEN "completed" ELSE "failed"),
                                @.op = "flush" /\ Finished(h))]
    /\ Learn(h)
    /\ UNCHANGED <<result, object>>

\* Mutant: the result of the hook's future is not kept.
HookForgetsResult(h) ==
    /\ Responded(h, "hook")
    /\ FinishWriting(h, FinishedEtag(h))
    /\ handle' = [handle EXCEPT ![h] = Returned(@, "completed")]
    /\ Learn(h)
    /\ UNCHANGED <<result, object>>

\* ... or by complete_pending_upload, whose result the hook keeps.
HookReturns(h) ==
    /\ Responded(h, "hook")
    /\ FinishWriting(h, FinishedEtag(h))
    /\ result' = [result EXCEPT ![h] =
                    IF Finished(h)
                    THEN [state |-> "lookup", etag |-> stat'.etag, size |-> stat'.size]
                    ELSE [@ EXCEPT !.state = "err"]]
    /\ handle' = [handle EXCEPT ![h] = Returned(@, "completed")]
    /\ Learn(h)
    /\ UNCHANGED object

\* wait_for_completion: the first caller runs the hook's future, which takes
\* the handle's state mutex and finds the upload in progress or ended.
HookRuns(h) ==
    /\ result[h].state = "fresh"
    /\ handle[h].op = "none"
    /\ \E w \in Handles : handle[w].awaits = h
    /\ IF handle[h].upload = "progress"
       THEN /\ result' = [result EXCEPT ![h].state = "running"]
            /\ Uploading(h, "hook")
       ELSE /\ result' = [result EXCEPT ![h].state = "none"]
            /\ UNCHANGED handle
    /\ UNCHANGED <<inodeVars, object, acked>>

-----------------------------------------------------------------------------
\* release.  The kernel sends it when no descriptor is left, after its other
\* requests on the handle, and does not wait for it.

Close(h) ==
    /\ Idle(h)
    /\ handle' = [handle EXCEPT ![h].phase = "closing"]
    /\ UNCHANGED <<inodeVars, result, object, acked>>

\* finish_reading
ReleaseReader(h) ==
    /\ handle[h].phase = "closing"
    /\ handle[h].rw = "R"
    /\ map' = IF present THEN RemoveReader(map, h) ELSE map
    /\ handle' = [handle EXCEPT ![h] = [UnusedHandle EXCEPT !.phase = "closed"]]
    /\ UNCHANGED <<present, status, stat, hook, result, object, acked>>

\* Mutants: release does not wait for the hook; or it waits with the state
\* mutex held, which the hook needs.
ReleaseWriterAsync(h) ==
    /\ handle[h].phase = "closing"
    /\ handle[h].rw = "W"
    /\ handle[h].op = "none"
    /\ FlushWriter(h)
    /\ handle' = [handle EXCEPT ![h].phase = "closed"]
    /\ UNCHANGED <<object, acked>>

ReleaseWriterLocked(h) ==
    /\ handle[h].phase = "closing"
    /\ handle[h].rw = "W"
    /\ handle[h].op = "none"
    /\ FlushWriter(h)
    /\ handle' = [handle EXCEPT ![h] =
                    IF FlushesWriter(h)
                    THEN [@ EXCEPT !.phase = "awaitClose", !.awaits = hook', !.op = "flush"]
                    ELSE [@ EXCEPT !.phase = "closed"]]
    /\ UNCHANGED <<object, acked>>

\* release_writer: flush_writer, then the hook that is on the inode, if any.
ReleaseWriter(h) ==
    /\ handle[h].phase = "closing"
    /\ handle[h].rw = "W"
    /\ handle[h].op = "none"
    /\ FlushWriter(h)
    /\ handle' = [handle EXCEPT ![h] =
                    IF FlushesWriter(h)
                    THEN [@ EXCEPT !.phase = "awaitClose", !.awaits = hook']
                    ELSE [@ EXCEPT !.phase = "closed"]]
    /\ UNCHANGED <<object, acked>>

ReleaseAfterHook(h) ==
    /\ handle[h].phase = "awaitClose"
    /\ result[handle[h].awaits].state \in {"lookup", "none", "err"}
    /\ handle' = [handle EXCEPT ![h] = [@ EXCEPT !.phase = "closed", !.awaits = NoHandle]]
    /\ UNCHANGED <<inodeVars, result, object, acked>>

-----------------------------------------------------------------------------
\* The rest of the system

\* forget: the last reference is dropped.  The kernel has sent RELEASE for
\* every handle, but another thread may still be about to process one.  The
\* handles are removed from the map after the inode; in between a release finds
\* no inode and leaves the map alone.
Forget ==
    /\ Forgets
    /\ present
    /\ \A h \in Handles :
         handle[h].phase \in {"unused", "closing", "awaitClose", "closed", "failed"}
    /\ present' = FALSE
    /\ map' = RemoveInode(map)
    /\ UNCHANGED <<status, stat, hook, handle, result, object, acked>>

\* A rename that S3 refuses: PendingRenameGuard::try_transition, RenameObject,
\* and the drop of the guard, which restores the status.
RenameBegins ==
    /\ Renames
    /\ present
    /\ status = "Remote"
    /\ status' = "PendingRename"
    /\ UNCHANGED <<present, stat, hook, map, handle, result, object, acked>>

RenameFails ==
    /\ status = "PendingRename"
    /\ status' = "Remote"
    /\ UNCHANGED <<present, stat, hook, map, handle, result, object, acked>>

\* The TTL of the cached stat runs out.  An open that always revalidates
\* does not look at it.
Expire ==
    /\ ~ForceRevalidate
    /\ stat.valid
    /\ stat' = [stat EXCEPT !.valid = FALSE]
    /\ UNCHANGED <<present, status, hook, map, handle, result, object, acked>>

HandleStep(h) ==
    \/ OpenRevalidate(h) \/ StartReading(h) \/ StartWriting(h) \/ OpenRefused(h)
    \/ OpenAfterHook(h)
    \/ WriteReturns(h) \/ S3Put(h) \/ S3NoPut(h) \/ S3Refuses(h)
    \/ FsyncReturns(h) \/ DeferReturns(h) \/ CompleteReturns(h)
    \/ HookRuns(h) \/ HookReturns(h)
    \/ ReleaseReader(h) \/ ReleaseWriter(h) \/ ReleaseAfterHook(h)

Application(h) ==
    \/ \E flags \in OpenFlags : OpenLookup(h, flags)
    \/ Read(h) \/ Write(h) \/ Fsync(h) \/ FlushReader(h) \/ FlushEnded(h) \/ Close(h)
    \/ \E samePid \in BOOLEAN :
         FlushCompletes(h, samePid) \/ FlushCommits(h, samePid) \/ FlushDefers(h, samePid)

Next ==
    \/ \E h \in Handles : Application(h) \/ HandleStep(h) \/ OpenHeadFails(h)
    \/ Forget \/ RenameBegins \/ RenameFails \/ Expire

Spec == Init /\ [][Next]_vars

\* Worker threads run and S3 answers or a request times out; the state mutex
\* is fair, so a hook that waits for it gets it between two requests of the
\* application.
Fairness ==
    \A h \in Handles : WF_vars(HandleStep(h)) /\ SF_vars(HookRuns(h))

FairSpec == Spec /\ Fairness

-----------------------------------------------------------------------------
\* Properties

\* The handle map never tracks a writer beside readers: set_writer evicts
\* inactive readers and try_add_reader an inactive writer.
MapExclusive ==
    map.writer # NoHandle => \A h \in Handles : map.readers[h] = "Absent"

\* The debug_assert of try_reactivate_handle, and its converse: the inode is
\* LocalOpenForWriting exactly while the map has a writer for it, through
\* every open that takes over, every failed upload and every late hook.
WriterIffOpenForWriting ==
    present => (map.writer # NoHandle <=> status = "LocalOpenForWriting")

\* A handle the application can read from or write to without re-activation.
Usable(h) ==
    /\ handle[h].phase = "open"
    /\ ~handle[h].flushed
    /\ handle[h].rw = "W" => handle[h].upload = "progress" \/ handle[h].op # "none"

\* A file has several readers or a single writer: whatever is opened, flushed,
\* re-activated and released, two usable handles are both read handles, as long
\* as no upload fails.  After one the code does not keep this: finish_writing
\* removes the handles that are still usable too (superblock.rs:964), and
\* another open succeeds beside them.
ReadersOrSingleWriter ==
    \A g, h \in Handles :
        g # h /\ Usable(g) /\ Usable(h) => handle[g].rw = "R" /\ handle[h].rw = "R"

\* Somebody will still run, or is running, the hook of handle h.
UploadUnderWay(h) ==
    /\ result[h].state \in {"fresh", "running"}
    /\ \E w \in Handles : handle[w].awaits = h

\* When a handle is released the data it accepted is in S3 or on its way,
\* unless S3 or a write on that handle failed.  This holds for a mount on
\* which no upload of another handle has failed, and nothing was forgotten or
\* renamed while the file was open; otherwise a hook that is left on the inode
\* or a forget that overtakes the release can lose the data (superblock.rs:991,
\* 1020 and 1341).
NoSilentLoss ==
    \A h \in Handles :
        handle[h].phase = "closed" /\ handle[h].pending > 0 =>
            handle[h].fault \/ UploadUnderWay(h)

\* Read-after-write: a read handle is opened on the last version of the
\* object that one of our uploads is known to have produced, or a later one,
\* as long as no upload fails: the stat stays as it was after one whose
\* response is lost (superblock.rs:863).
OpenSeesAcked ==
    [][\A h \in Handles :
         handle'[h].rw = "R" /\ handle'[h].phase = "open" /\ handle[h].phase # "open"
            => handle'[h].etag >= acked]_vars

\* A hook that somebody waits for is never replaced by a new one.
AwaitedHookKept ==
    [][\A h \in Handles :
         result[h].state # "fresh" /\ result'[h].state = "fresh"
            => \A w \in Handles : handle[w].awaits # h]_vars

\* Every open returns, every release returns: no cycle of waits on hooks and
\* state mutexes.
OpenReturns ==
    \A h \in Handles :
        handle[h].phase \in {"head", "looked", "awaitOpen"} ~>
            handle[h].phase \notin {"head", "looked", "awaitOpen"}

ReleaseReturns ==
    \A h \in Handles : handle[h].phase = "closing" ~> handle[h].phase = "closed"

=============================================================================
