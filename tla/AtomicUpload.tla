---------------------------- MODULE AtomicUpload ----------------------------
(***************************************************************************)
(* One atomic upload: UploadRequest (mountpoint-s3-fs/src/upload/          *)
(* atomic.rs), the task that creates its PutObject request (async_util.rs),*)
(* S3PutObjectRequest (mountpoint-s3-client, s3_crt_client/put_object.rs)  *)
(* and the callbacks through which the CRT, a C library, drives it.  The   *)
(* CRT and S3 are modelled from the calls and callbacks in src/.           *)
(*                                                                         *)
(* The caller may do whatever the interface allows: give up a write that   *)
(* is under way, go on after an error, complete, or drop the request.  A   *)
(* byte is the number of bytes offered before it, plus 1; Corrupt is a     *)
(* byte damaged in memory.  A checksum is the bytes it was computed from.  *)
(***************************************************************************)
EXTENDS Integers, Sequences, SequencesExt, FiniteSets

CONSTANTS
    PartSize,         \* write_part_size
    MaxParts,         \* MAX_S3_MULTIPART_UPLOAD_PARTS
    MaxOffered,       \* bound: bytes offered in calls of write
    MaxUploadFaults   \* bound: failures, damaged bytes, checksums that are missing

ASSUME AtomicAssumption ==
    /\ {PartSize, MaxParts} \subseteq Nat \ {0}
    /\ {MaxOffered, MaxUploadFaults} \subseteq Nat

VARIABLES
    call,       \* where the caller is, see AtomicTypeOK
    data,       \* the slice of the write under way
    left,       \* the part of it that the meta request has not taken
    offered,    \* bytes offered so far
    hasher,     \* UploadRequest.hasher
    accepted,   \* the bytes of the writes that returned Ok; next_request_offset is its length
    slot,       \* UploadRequest.request: the channel and the value of the RemoteResult
    creator,    \* the spawned task
    pendingWrite, \* S3PutObjectRequest.state = PendingWrite
    review,     \* ReviewCallbackBox
    mpu,        \* the channel mpu_created
    fin,        \* the channel of the meta request's result
    parked,     \* does the CRT hold the waker of a MetaRequestWrite?
    crt,        \* where the meta request is
    cancelled,  \* has it been cancelled?
    eof,        \* has the last write been taken?
    part,       \* the bytes of the part being filled
    parts,      \* the parts that S3 has: bytes, and whether their checksum is known
    object,     \* what has been published
    faults

atomicCaller == <<call, data, left, offered, hasher, accepted, pendingWrite>>
atomicChannels == <<slot, mpu, fin, review, parked>>
atomicCrt == <<crt, eof, part, parts, object>>
atomicVars == <<atomicCaller, atomicChannels, atomicCrt, creator, cancelled, faults>>

Corrupt == 0
Finished == crt \in {"finished", "lost"}

AtomicTypeOK ==
    /\ call \in {"idle", "get", "write", "into", "eof", "wait", "dropping",
                 "done", "failed", "exited", "dropped"}
    /\ {data, left, hasher, accepted, part} \subseteq Seq(Nat)
    /\ offered \in 0 .. MaxOffered
    /\ slot \in {"empty", "ok", "err", "held", "gone"}
    /\ creator \in {"make", "await", "ended"}
    /\ review \in {"unset", "set", "taken"}
    /\ {mpu, fin} \subseteq {"unset", "ok", "err"}
    /\ {pendingWrite, parked, cancelled, eof} \subseteq BOOLEAN
    /\ crt \in {"none", "creating", "open", "completing", "finished", "lost"}
    /\ parts \in Seq([bytes : Seq(Nat), sum : BOOLEAN])
    /\ object \subseteq Seq(Nat)
    /\ faults \in 0 .. MaxUploadFaults

\* UploadRequest::new spawns the task.
AtomicInit ==
    /\ call = "idle" /\ data = <<>> /\ left = <<>> /\ offered = 0
    /\ hasher = <<>> /\ accepted = <<>>
    /\ slot = "empty" /\ creator = "make"
    /\ pendingWrite = FALSE /\ review = "unset" /\ mpu = "unset" /\ fin = "unset" /\ parked = FALSE
    /\ crt = "none" /\ cancelled = FALSE /\ eof = FALSE
    /\ part = <<>> /\ parts = <<>> /\ object = {} /\ faults = 0

Fault == faults < MaxUploadFaults /\ faults' = faults + 1

-----------------------------------------------------------------------------
\* The caller.

\* UploadRequest::write: out-of-order and oversized writes are refused without
\* a trace; the others go into the hasher before anything is awaited.
AtomicWrite(n) ==
    /\ call = "idle"
    /\ offered + n <= MaxOffered
    /\ Len(accepted) + n <= PartSize * MaxParts
    /\ data' = [i \in 1 .. n |-> offered + i]
    /\ left' = data'
    /\ offered' = offered + n
    /\ hasher' = hasher \o data'
    /\ call' = "get"
    /\ UNCHANGED <<accepted, pendingWrite, atomicChannels, atomicCrt, creator, cancelled, faults>>

\* RemoteResult::receive waits for the task's result: a value is kept, an
\* error is returned once, and after it there is nothing.
Receive ==
    /\ slot # "empty"
    /\ slot' = IF slot \in {"ok", "held"} THEN "held" ELSE "gone"

\* S3PutObjectRequest::write refuses to go on after a write that did not end.
GetMut ==
    /\ call = "get"
    /\ Receive
    /\ IF slot' = "held" /\ ~pendingWrite
       THEN call' = "write" /\ pendingWrite' = TRUE
       ELSE call' = "idle" /\ UNCHANGED pendingWrite
    /\ UNCHANGED <<data, left, offered, hasher, accepted, mpu, fin, review, parked, atomicCrt, creator,
                   cancelled, faults>>

Room == PartSize - Len(part)

\* MetaRequestWrite::poll, again and again until the slice is empty: the CRT
\* takes what fits, keeps the waker if nothing does, and fails a write to a
\* request that has finished.
WritePolls ==
    /\ call = "write"
    /\ ~parked
    /\ left # <<>>
    /\ \/ /\ Finished
          /\ call' = "idle"
          /\ UNCHANGED <<left, part, parked>>
       \/ /\ ~Finished
          /\ Room > 0
          /\ LET k == IF Len(left) < Room THEN Len(left) ELSE Room
             IN  /\ part' = part \o SubSeq(left, 1, k)
                 /\ left' = SubSeq(left, k + 1, Len(left))
          /\ UNCHANGED <<call, parked>>
       \/ /\ ~Finished
          /\ Room = 0
          /\ parked' = TRUE
          /\ UNCHANGED <<call, left, part>>
    /\ UNCHANGED <<data, offered, hasher, accepted, pendingWrite, slot, mpu, fin, review, crt, eof,
                   parts, object, creator, cancelled, faults>>

WriteReturns ==
    /\ call = "write"
    /\ left = <<>>
    /\ pendingWrite' = FALSE
    /\ accepted' = accepted \o data
    /\ call' = "idle"
    /\ UNCHANGED <<data, left, offered, hasher, atomicChannels, atomicCrt, creator, cancelled, faults>>

\* The future of a write is dropped while it waits.
WriteInterrupted ==
    /\ call \in {"get", "write"}
    /\ call' = "idle"
    /\ UNCHANGED <<data, left, offered, hasher, accepted, pendingWrite, atomicChannels, atomicCrt,
                   creator, cancelled, faults>>

\* UploadRequest::complete
AtomicComplete ==
    /\ call = "idle"
    /\ call' = "into"
    /\ UNCHANGED <<data, left, offered, hasher, accepted, pendingWrite, atomicChannels, atomicCrt,
                   creator, cancelled, faults>>

\* review_and_complete sets the callback, unless a write did not end.  When
\* it fails it drops the request, and that cancels the meta request.
IntoInner ==
    /\ call = "into"
    /\ Receive
    /\ IF slot' = "held" /\ ~pendingWrite
       THEN call' = "eof" /\ review' = "set" /\ UNCHANGED cancelled
       ELSE call' = "failed" /\ cancelled' = TRUE /\ UNCHANGED review
    /\ UNCHANGED <<data, left, offered, hasher, accepted, pendingWrite, mpu, fin, parked, atomicCrt,
                   creator, faults>>

EofPolls ==
    /\ call = "eof"
    /\ ~parked
    /\ \/ /\ Finished
          /\ call' = "failed"
          /\ UNCHANGED <<eof, parked>>
       \/ /\ ~Finished
          /\ Room > 0
          /\ eof' = TRUE
          /\ call' = "wait"
          /\ UNCHANGED parked
       \/ /\ ~Finished
          /\ Room = 0
          /\ parked' = TRUE
          /\ UNCHANGED <<call, eof>>
    /\ UNCHANGED <<data, left, offered, hasher, accepted, pendingWrite, slot, mpu, fin, review, crt,
                   part, parts, object, creator, cancelled, faults>>

\* The result of the meta request, then the headers, which may lack what
\* extract_result needs, and the settings of the encryption: a process whose
\* object was encrypted differently exits.
CompleteReturns ==
    /\ call = "wait"
    /\ fin # "unset"
    /\ \/ fin = "ok" /\ call' = "done" /\ UNCHANGED faults
       \/ fin = "ok" /\ call' \in {"failed", "exited"} /\ Fault
       \/ fin = "err" /\ call' = "failed" /\ UNCHANGED faults
    /\ UNCHANGED <<data, left, offered, hasher, accepted, pendingWrite, atomicChannels, atomicCrt,
                   creator, cancelled>>

\* The future of complete, which owns the request, is dropped.
CompleteInterrupted ==
    /\ call \in {"into", "eof", "wait"}
    /\ slot # "empty"
    /\ call' = "failed"
    /\ cancelled' = TRUE
    /\ UNCHANGED <<data, left, offered, hasher, accepted, pendingWrite, atomicChannels, atomicCrt,
                   creator, faults>>

\* Dropping the RemoteResult blocks until the task has sent its result, and
\* drops that.
AtomicDrop ==
    /\ call = "idle"
    /\ call' = "dropping"
    /\ UNCHANGED <<data, left, offered, hasher, accepted, pendingWrite, atomicChannels, atomicCrt,
                   creator, cancelled, faults>>

DropReturns ==
    /\ call = "dropping"
    /\ slot # "empty"
    /\ call' = "dropped"
    /\ slot' = "gone"
    /\ cancelled' = TRUE
    /\ UNCHANGED <<data, left, offered, hasher, accepted, pendingWrite, mpu, fin, review, parked,
                   atomicCrt, creator, faults>>

-----------------------------------------------------------------------------
\* The task that creates the request.

\* put_object makes the meta request, or fails to.
MakeRequest ==
    /\ creator = "make"
    /\ \/ crt' = "creating" /\ creator' = "await" /\ UNCHANGED <<slot, faults>>
       \/ slot' = "err" /\ creator' = "ended" /\ Fault /\ UNCHANGED crt
    /\ UNCHANGED <<atomicCaller, mpu, fin, review, parked, eof, part, parts, object, cancelled>>

\* Then it waits for the multi-part upload to be created.
MpuAwaited ==
    /\ creator = "await"
    /\ mpu # "unset"
    /\ slot' = mpu
    /\ creator' = "ended"
    /\ cancelled' = (cancelled \/ mpu = "err")
    /\ UNCHANGED <<atomicCaller, mpu, fin, review, parked, atomicCrt, faults>>

-----------------------------------------------------------------------------
\* The CRT and its callbacks.

\* The telemetry callback takes the sender of mpu_created ...
MpuCreated ==
    /\ crt = "creating"
    /\ crt' = "open"
    /\ mpu' = "ok"
    /\ UNCHANGED <<atomicCaller, slot, fin, review, parked, eof, part, parts, object, creator, cancelled,
                   faults>>

\* ... and the finish callback sends its result there if it is still unused.
FinishesWith(r) ==
    IF mpu = "unset"
    THEN mpu' = "err" /\ UNCHANGED fin
    ELSE fin' = r /\ UNCHANGED mpu

RequestFails ==
    /\ crt \in {"creating", "open", "completing"}
    /\ IF cancelled THEN UNCHANGED faults ELSE Fault
    /\ FinishesWith("err")
    /\ crt' = IF crt = "completing" THEN "lost" ELSE "finished"
    /\ UNCHANGED <<atomicCaller, slot, review, parked, eof, part, parts, object, creator, cancelled>>

\* The bytes that were taken may be damaged before the part is sent, and the
\* response to a part may lack the checksum.
PartUploaded ==
    /\ crt = "open"
    /\ part # <<>>
    /\ Room = 0 \/ eof
    /\ \/ parts' = Append(parts, [bytes |-> part, sum |-> TRUE]) /\ UNCHANGED faults
       \/ parts' = Append(parts, [bytes |-> part, sum |-> FALSE]) /\ Fault
       \/ parts' = Append(parts, [bytes |-> [part EXCEPT ![1] = Corrupt], sum |-> TRUE]) /\ Fault
    /\ part' = <<>>
    /\ UNCHANGED <<atomicCaller, atomicChannels, crt, eof, object, creator, cancelled>>

\* poll_write_waker_callback
WakerCalled ==
    /\ parked
    /\ Room > 0 \/ Finished
    /\ parked' = FALSE
    /\ UNCHANGED <<atomicCaller, slot, mpu, fin, review, atomicCrt, creator, cancelled, faults>>

Uploaded == FlattenSeq([i \in DOMAIN parts |-> parts[i].bytes])

\* Mutant: the combined checksum is not compared.
VerifySizeOnly ==
    /\ \A i \in DOMAIN parts : parts[i].sum
    /\ Len(Uploaded) = Len(accepted)

verify_checksums ==
    /\ \A i \in DOMAIN parts : parts[i].sum
    /\ Len(Uploaded) = Len(accepted)
    /\ Uploaded = hasher

\* ReviewCallbackBox::invoke, once all the parts are there.
UploadReviewed ==
    /\ crt = "open"
    /\ eof
    /\ part = <<>>
    /\ review' = "taken"
    /\ IF review = "set" /\ verify_checksums
       THEN crt' = "completing" /\ UNCHANGED <<mpu, fin>>
       ELSE crt' = "finished" /\ FinishesWith("err")
    /\ UNCHANGED <<atomicCaller, slot, parked, eof, part, parts, object, creator, cancelled, faults>>

\* CompleteMultipartUpload: S3 may perform it after the client has given up.
ObjectPublished ==
    /\ crt \in {"completing", "lost"}
    /\ object = {}
    /\ object' = {Uploaded}
    /\ UNCHANGED <<atomicCaller, atomicChannels, crt, eof, part, parts, creator, cancelled, faults>>

\* The callback for the headers of its response comes before the result.
RequestSucceeds ==
    /\ crt = "completing"
    /\ object # {}
    /\ crt' = "finished"
    /\ FinishesWith("ok")
    /\ UNCHANGED <<atomicCaller, slot, review, parked, eof, part, parts, object, creator, cancelled,
                   faults>>

-----------------------------------------------------------------------------

AtomicCaller ==
    GetMut \/ WritePolls \/ WriteReturns \/ IntoInner \/ EofPolls \/ CompleteReturns \/ DropReturns

Creator == MakeRequest \/ MpuAwaited

Crt ==
    \/ MpuCreated \/ RequestFails \/ PartUploaded \/ WakerCalled \/ UploadReviewed
    \/ ObjectPublished \/ RequestSucceeds

AtomicNext ==
    \/ AtomicCaller \/ Creator \/ Crt
    \/ \E n \in 1 .. MaxOffered : AtomicWrite(n)
    \/ WriteInterrupted \/ AtomicComplete \/ CompleteInterrupted \/ AtomicDrop

-----------------------------------------------------------------------------
\* Properties

Outcome ==
    CASE call \in {"idle", "get", "write"} -> "open"
      [] call \in {"into", "eof", "wait"} -> "completing"
      [] call = "done" -> "complete"
      [] call \in {"failed", "exited"} -> "uncertain"
      [] call \in {"dropping", "dropped"} -> "abandoned"

Promise == INSTANCE AtomicPut WITH outcome <- Outcome

\* The detailed upload does what AtomicPut promises: whatever is damaged,
\* lost, interrupted or retried, the only content ever published is the bytes
\* of the writes that returned Ok, never before complete nor after a drop, and
\* complete returns Ok only once it is there.
ImplementsAtomicPut == Promise!Spec

\* A write, a complete or a drop that has begun returns: no order of the
\* callbacks, the spawned task and the waker leaves the caller waiting.
AtomicReturns ==
    call \in {"get", "write", "into", "eof", "wait", "dropping"} ~>
        call \in {"idle", "done", "failed", "exited", "dropped"}

=============================================================================
