---------------------------- MODULE AppendUpload ----------------------------
(***************************************************************************)
(* One incremental upload (mountpoint-s3-fs/src/upload/incremental.rs).    *)
(* The caller, a request on the file handle, writes into a buffer and      *)
(* pushes full buffers to a bounded channel; a background task appends     *)
(* them to the object one PutObject at a time, and sends events back.      *)
(*                                                                         *)
(* A byte is its position in the stream written (1, 2, ...); Old and       *)
(* Foreign are bytes of the object before the upload and of another        *)
(* client.  `versions` holds the content of every version of the object,   *)
(* so that a version's index is its etag and 0 is no etag.                 *)
(***************************************************************************)
EXTENDS Integers, Sequences, SequencesExt, FiniteSets

CONSTANTS
    Capacity,     \* buffers the channel can hold
    BufferSize,   \* bytes in a buffer
    Starts,       \* values of initial_offset
    MayFail,      \* may HEAD and PUT requests fail, and writes be out of order?
    OtherClient,  \* may another client replace the object?
    MaxBytes,     \* bound: bytes written
    MaxVersions   \* bound: another client writes no version beyond this

ASSUME AppendAssumption ==
    /\ Capacity \in Nat \ {0}
    /\ BufferSize \in Nat \ {0}
    /\ Starts \subseteq Nat
    /\ {MayFail, OtherClient} \subseteq BOOLEAN
    /\ MaxBytes \in Nat
    /\ MaxVersions \in Nat

VARIABLES
    start,     \* initial_offset
    pc,        \* where the caller is, see TypeOK
    closing,   \* has complete been called?
    todo,      \* bytes of the current write that are not in a buffer yet
    offset,    \* AppendUploadRequest.offset
    buffer,    \* AppendUploadRequest.buffer, a sequence of bytes, or NoBuffer
    alg,       \* is checksum_algorithm known to the caller?
    inQueue,   \* requests_in_queue
    result,    \* last_known_result
    queue,     \* the channel of buffers
    closed,    \* is that channel closed?
    events,    \* the channel of events
    task,      \* where the background task is
    sending,   \* the buffer it is sending
    at,        \* its offset and etag
    versions

callerVars == <<pc, closing, todo, offset, buffer, alg, inQueue, result>>
channelVars == <<queue, closed, events>>
taskVars == <<task, sending, at>>
vars == <<start, callerVars, channelVars, taskVars, versions>>

Old == 0
Foreign == -1
NoBuffer == <<Foreign>>

Etag == Len(versions)
Event == [type : {"alg", "put", "err"}, etag : Nat]

TypeOK ==
    /\ start \in Starts
    /\ pc \in {"idle", "fill", "get", "wait", "push", "drain", "join", "joined", "terminated",
               "done", "failed"}
    /\ closing \in BOOLEAN
    /\ todo \in Nat /\ offset \in Nat /\ inQueue \in Nat /\ result \in Nat
    /\ buffer \in Seq(Int)
    /\ buffer # NoBuffer => Len(buffer) <= BufferSize
    /\ alg \in BOOLEAN
    /\ queue \in Seq(Seq(Int))
    /\ closed \in BOOLEAN
    /\ events \in Seq(Event)
    /\ task \in {"head", "recv", "put", "failing", "ended"}
    /\ sending \in Seq(Int)
    /\ at \in [offset : Nat, etag : Nat]
    /\ versions \in Seq(Seq(Int))

\* An append starts from the version the file handle knows; start = 0 makes a
\* new object or replaces one.
Base == [i \in 1 .. start |-> Old]

Init ==
    /\ start \in Starts
    /\ versions \in IF start = 0 THEN {<<>>, <<<<Old>>>>} ELSE {<<Base>>}
    /\ pc = "idle" /\ closing = FALSE /\ todo = 0 /\ offset = start
    /\ buffer = NoBuffer /\ alg = FALSE /\ inQueue = 0 /\ result = 0
    /\ queue = <<>> /\ closed = FALSE /\ events = <<>>
    /\ task = "head" /\ sending = <<>>
    /\ at = [offset |-> start, etag |-> IF start = 0 THEN 0 ELSE Etag]

-----------------------------------------------------------------------------
\* The caller.

Written == offset - start

\* AppendUploadRequest::write: verify, the check of the offset, ...
WriteBegins(n) ==
    /\ pc = "idle"
    /\ Written + n <= MaxBytes
    /\ IF closed
       THEN pc' = "drain" /\ UNCHANGED todo
       ELSE pc' = "fill" /\ todo' = n
    /\ UNCHANGED <<start, closing, offset, buffer, alg, inQueue, result, channelVars, taskVars,
                   versions>>

WriteOutOfOrder ==
    /\ MayFail
    /\ pc = "idle"
    /\ ~closed
    /\ pc' = "failed"
    /\ UNCHANGED <<start, closing, todo, offset, buffer, alg, inQueue, result, channelVars, taskVars,
                   versions>>

\* ... and the loop that fills buffers and pushes them when they are full.
Fill ==
    /\ pc = "fill"
    /\ IF todo = 0 \/ buffer = NoBuffer
       THEN /\ pc' = IF todo = 0 THEN "idle" ELSE "get"
            /\ UNCHANGED <<todo, offset, buffer>>
       ELSE LET k == IF todo < BufferSize - Len(buffer) THEN todo ELSE BufferSize - Len(buffer)
            IN  /\ buffer' = buffer \o [i \in 1 .. k |-> Written + i]
                /\ todo' = todo - k
                /\ offset' = offset + k
                /\ pc' = IF Len(buffer') = BufferSize THEN "push" ELSE "fill"
    /\ UNCHANGED <<start, closing, alg, inQueue, result, channelVars, taskVars, versions>>

\* complete: push what is left, or an empty buffer for an empty object.
\* Mutant: the last, partly filled buffer is not pushed.
CompleteDropsBuffer ==
    /\ pc = "idle"
    /\ closing' = TRUE
    /\ pc' = IF offset = 0 THEN "get" ELSE "join"
    /\ UNCHANGED <<start, todo, offset, buffer, alg, inQueue, result, channelVars, taskVars, versions>>

CompleteBegins ==
    /\ pc = "idle"
    /\ closing' = TRUE
    /\ pc' = IF buffer # NoBuffer THEN "push" ELSE IF offset = 0 THEN "get" ELSE "join"
    /\ UNCHANGED <<start, todo, offset, buffer, alg, inQueue, result, channelVars, taskVars, versions>>

HasBuffer ==
    /\ buffer' = <<>>
    /\ pc' = IF closing THEN "push" ELSE "fill"

\* recv returns an error: the channel is empty and the task, its sender, is gone.
EventsEnded == events = <<>> /\ task = "ended"

\* get_buffer first waits for the checksum algorithm.
GetAlgorithm ==
    /\ pc = "get"
    /\ ~alg
    /\ \/ /\ events # <<>>
          /\ events' = Tail(events)
          /\ IF Head(events).type = "alg"
             THEN alg' = TRUE /\ UNCHANGED pc
             ELSE pc' = "failed" /\ UNCHANGED alg
       \/ /\ EventsEnded
          /\ pc' = "failed"
          /\ UNCHANGED <<alg, events>>
    /\ UNCHANGED <<start, closing, todo, offset, buffer, inQueue, result, queue, closed, taskVars,
                   versions>>

\* Then it tries to reserve memory, which other users may have exhausted, and
\* only forces a reservation once none of its own requests is in the queue.
GetBuffer ==
    /\ pc = "get"
    /\ alg
    /\ \/ HasBuffer
       \/ inQueue > 0 /\ pc' = "wait" /\ UNCHANGED buffer
    /\ UNCHANGED <<start, closing, todo, offset, alg, inQueue, result, channelVars, taskVars, versions>>

\* consume_next_response, called by get_buffer, by join and to find the error
\* of a closed channel: the last event of a failed upload fails the call, and
\* the end of the channel ends the loop around it.
Consumed ==
    CASE pc = "wait" -> "get"
      [] pc # "wait" -> pc

Ended ==
    CASE pc \in {"wait", "drain", "terminated"} -> "failed"
      [] pc = "joined" -> "done"

ConsumeNextResponse ==
    /\ pc \in {"wait", "drain", "joined", "terminated"}
    /\ events # <<>>
    /\ events' = Tail(events)
    /\ LET e == Head(events)
       IN  /\ alg' = (alg \/ e.type = "alg")
           /\ inQueue' = IF e.type = "put" THEN inQueue - 1 ELSE inQueue
           /\ result' = IF e.type = "put" THEN e.etag ELSE result
           /\ pc' = CASE e.type = "alg" -> pc [] e.type = "put" -> Consumed [] e.type = "err" -> "failed"
    /\ UNCHANGED <<start, closing, todo, offset, buffer, queue, closed, taskVars, versions>>

ConsumeEnds ==
    /\ pc \in {"wait", "drain", "joined", "terminated"}
    /\ EventsEnded
    /\ pc' = Ended
    /\ UNCHANGED <<start, closing, todo, offset, buffer, alg, inQueue, result, channelVars, taskVars,
                   versions>>

\* push: waits while the channel is full, and fails when it is closed.
Push ==
    /\ pc = "push"
    /\ \/ /\ ~closed
          /\ Len(queue) < Capacity
          /\ queue' = Append(queue, buffer)
          /\ inQueue' = inQueue + 1
          /\ pc' = IF closing THEN "join" ELSE "fill"
       \/ /\ closed
          /\ pc' = "drain"
          /\ UNCHANGED <<queue, inQueue>>
    /\ buffer' = NoBuffer
    /\ UNCHANGED <<start, closing, todo, offset, alg, result, closed, events, taskVars, versions>>

\* join closes the channel first, and notes whether the task had done so.
JoinBegins ==
    /\ pc = "join"
    /\ closed' = TRUE
    /\ pc' = IF closed THEN "terminated" ELSE "joined"
    /\ UNCHANGED <<start, closing, todo, offset, buffer, alg, inQueue, result, queue, events, taskVars,
                   versions>>

-----------------------------------------------------------------------------
\* The background task.  A caller that fails drops the request and with it the
\* task; a PUT that is under way may still be performed.

Running == pc # "failed"

\* get_checksum_algorithm: an append asks S3, and fails early if the object
\* has changed.
TaskStarts ==
    /\ Running
    /\ task = "head"
    /\ start = 0 \/ at.etag = Etag
    /\ events' = Append(events, [type |-> "alg", etag |-> 0])
    /\ task' = "recv"
    /\ UNCHANGED <<start, callerVars, queue, closed, sending, at, versions>>

TaskHeadFails ==
    /\ Running
    /\ task = "head"
    /\ start > 0
    /\ MayFail \/ at.etag # Etag
    /\ task' = "failing"
    /\ UNCHANGED <<start, callerVars, channelVars, sending, at, versions>>

\* run_append_loop takes the next buffer, or ends when the channel is closed
\* and empty.
TaskReceives ==
    /\ Running
    /\ task = "recv"
    /\ \/ /\ queue # <<>>
          /\ sending' = Head(queue)
          /\ queue' = Tail(queue)
          /\ task' = "put"
       \/ /\ queue = <<>>
          /\ closed
          /\ task' = "ended"
          /\ UNCHANGED <<sending, queue>>
    /\ UNCHANGED <<start, callerVars, closed, events, at, versions>>

\* append: at offset 0 the PUT replaces the object, elsewhere it is
\* conditional on the etag; S3 also wants the offset to be the object's size.
\* Mutant: the PUT is not conditional on the etag.
AcceptedAnyEtag ==
    at.offset > 0 => Etag > 0 /\ Len(versions[Etag]) = at.offset

Accepted ==
    at.offset > 0 => at.etag = Etag /\ Etag > 0 /\ Len(versions[Etag]) = at.offset

Content == IF at.offset = 0 THEN sending ELSE versions[Etag] \o sending

PutSucceeds ==
    /\ task = "put"
    /\ Accepted
    /\ versions' = Append(versions, Content)
    /\ at' = [offset |-> at.offset + Len(sending), etag |-> Etag + 1]
    /\ events' = Append(events, [type |-> "put", etag |-> Etag + 1])
    /\ task' = "recv"
    /\ UNCHANGED <<start, callerVars, queue, closed, sending>>

\* The PUT fails, in S3 or on the way back.
PutFails ==
    /\ task = "put"
    /\ MayFail \/ ~Accepted
    /\ versions' \in {versions} \cup (IF Accepted THEN {Append(versions, Content)} ELSE {})
    /\ task' = "failing"
    /\ UNCHANGED <<start, callerVars, channelVars, sending, at>>

\* The error: close the channel, then send the event.
\* Mutant: the channel is left open.
TaskReportsOnly ==
    /\ Running
    /\ task = "failing"
    /\ events' = Append(events, [type |-> "err", etag |-> 0])
    /\ task' = "ended"
    /\ UNCHANGED <<start, callerVars, queue, closed, sending, at, versions>>

TaskReports ==
    /\ Running
    /\ task = "failing"
    /\ IF closed
       THEN /\ events' = Append(events, [type |-> "err", etag |-> 0])
            /\ task' = "ended"
       ELSE UNCHANGED <<events, task>>
    /\ closed' = TRUE
    /\ UNCHANGED <<start, callerVars, queue, sending, at, versions>>

\* Another client of the bucket replaces the object.
OtherClientPuts ==
    /\ OtherClient
    /\ Etag < MaxVersions
    /\ \E n \in {start, start + 1} : versions' = Append(versions, [i \in 1 .. n |-> Foreign])
    /\ UNCHANGED <<start, callerVars, channelVars, taskVars>>

Caller ==
    \/ Fill \/ GetAlgorithm \/ GetBuffer \/ ConsumeNextResponse \/ ConsumeEnds \/ Push \/ JoinBegins

Task == TaskStarts \/ TaskHeadFails \/ TaskReceives \/ PutSucceeds \/ PutFails \/ TaskReports

Next ==
    \/ Caller \/ Task \/ OtherClientPuts
    \/ \E n \in 1 .. MaxBytes : WriteBegins(n)
    \/ WriteOutOfOrder \/ CompleteBegins

Spec == Init /\ [][Next]_vars

-----------------------------------------------------------------------------
\* Properties

Expected(k) == Base \o [i \in 1 .. k |-> i]

\* Every version of the object that this upload makes is what was there, then
\* the bytes written so far in order: no version has a gap, a byte twice, or
\* our bytes after another client's.
ObjectIsPrefix ==
    \A v \in Range(versions) :
        \/ \A i \in DOMAIN v : v[i] \in {Old, Foreign}
        \/ \E k \in 0 .. Written : v = Expected(k)

\* When complete returns, the version whose etag it returns has all the bytes
\* that write accepted, whatever failed in the background before; it returns
\* none only if there was nothing to upload.
CompleteIsDurable ==
    pc = "done" =>
        IF result = 0 THEN start > 0 /\ Written = 0 ELSE versions[result] = Expected(Written)

\* A write or complete that has begun returns: the bounded channel, the wait
\* for memory and the wait for events never block each other for good.
CallerReturns == pc \notin {"idle", "done", "failed"} ~> pc \in {"idle", "done", "failed"}

=============================================================================
