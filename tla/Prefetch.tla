------------------------------- MODULE Prefetch -------------------------------
(***************************************************************************)
(* The prefetcher of one file handle: reads of an object through a         *)
(* PrefetchGetObject (the consumer), the task that streams two GetObject   *)
(* requests into its part queue (the producer), the read window that paces *)
(* the task, and the memory the handle has reserved on the limiter it      *)
(* shares with everyone else.                                              *)
(*                                                                         *)
(* A part is its range of the object; what its bytes are is not modelled.  *)
(***************************************************************************)
EXTENDS Integers, Sequences, SequencesExt

CONSTANTS
    Size,        \* of the object
    PartSize,    \* client.read_part_size(), the minimum read window
    InitialRequestSizes, \* the values of initial_request_size to consider
    MaxWindow,   \* max_read_window_size
    Multiplier,  \* read_window_size_multiplier
    SeekMax,     \* max_backward_seek_distance
    MaxForward,  \* max_forward_seek_wait_distance
    Chunk,       \* the initial preferred_part_size
    MaxChunk,    \* its upper bound, 1 MiB in the code
    ClientWindow,\* the S3 client's own initial read window
    Limit,       \* memory that can be reserved
    Others,      \* what the other users of the limiter may hold
    Lengths,     \* of reads
    MayFail      \* whether requests may fail and data be found corrupted

ASSUME SizesAssumption ==
    /\ {Size, PartSize, MaxWindow, SeekMax, Chunk, MaxChunk, ClientWindow} \subseteq Nat \ {0}
    /\ {MaxForward, Limit} \cup InitialRequestSizes \cup Others \subseteq Nat
    /\ Multiplier \in Nat \ {0, 1} /\ Lengths \subseteq Nat \ {0}
    /\ PartSize >= 2 /\ MaxWindow >= 2 /\ 1 \notin InitialRequestSizes
    /\ MayFail \in BOOLEAN

VARIABLES
    initial, \* initial_request_size: a setting, never changed
    handle,  \* the PrefetchGetObject: its next sequential offset and seek window
    req,     \* the read under way on the handle
    ctl,     \* the BackpressureController of the handle's task, if it has one
    queue,   \* the PartQueue of that task, and its counter of bytes sent
    incs,    \* the read window increments sent and not yet drained
    prod,    \* the task: BackpressureLimiter, client request and composer
    mem,     \* what this handle has reserved on the MemoryLimiter
    others,  \* what the others have reserved there
    faults   \* history: whether a request of this task failed

vars == <<initial, handle, req, ctl, queue, incs, prod, mem, others, faults>>

Least(a, b) == IF a < b THEN a ELSE b
Most(a, b) == IF a > b THEN a ELSE b
Minus(a, b) == Most(a - b, 0)

Part(off, len) == [off |-> off, len |-> len]
Failure == [off |-> 0, len |-> 0]      \* the queue's Err, or its end
Sums(parts) ==                         \* the bytes in the first n parts
    LET sum[n \in 0..Len(parts)] == IF n = 0 THEN 0 ELSE sum[n - 1] + parts[n].len
    IN  sum
Bytes(parts) == Sums(parts)[Len(parts)]

SeekReservation == ((SeekMax + PartSize - 1) \div PartSize) * PartSize
InitialWindow == IF initial > 0 THEN initial ELSE PartSize

NoTask == [active |-> FALSE, start |-> 0, wend |-> 0, pref |-> 0, next |-> 0]
NoQueue == [front |-> <<>>, recv |-> <<>>, sent |-> 0]
NoProducer == [pc |-> "none", lim |-> 0, off |-> 0, end |-> 0, win |-> 0, body |-> 0,
               chunk |-> 0, second |-> FALSE]
NewHandle == [open |-> TRUE, seq |-> 0, chunk |-> Chunk, window |-> <<>>]
NoRead == [pc |-> "idle", off |-> 0, left |-> 0, back |-> "idle"]

Init ==
    /\ initial \in InitialRequestSizes
    /\ handle = NewHandle
    /\ req = NoRead
    /\ ctl = NoTask
    /\ queue = NoQueue
    /\ incs = 0
    /\ prod = NoProducer
    /\ mem = SeekReservation
    /\ others \in Others
    /\ faults = FALSE

-----------------------------------------------------------------------------
\* The memory limiter

Available(reserved) == Minus(Limit, reserved + others)
CanReserve(n) == mem + n + others <= Limit

\* Other handles and uploads reserve and release.
OthersReserve ==
    /\ others' \in Others \ {others}
    /\ UNCHANGED <<initial, handle, req, ctl, queue, incs, prod, mem, faults>>

-----------------------------------------------------------------------------
\* The backward seek window

\* The parts that stay when room is made for n more bytes.
MakeRoom(window, n) ==
    LET keep(k) == SubSeq(window, k, Len(window))
        k0 == CHOOSE k \in 1..Len(window) + 1 :
                  /\ Bytes(keep(k)) + n <= SeekMax
                  /\ \A j \in 1..k - 1 : Bytes(keep(j)) + n > SeekMax
    IN  keep(k0)

PushWindow(window, part) ==
    IF part.len > SeekMax THEN <<>> ELSE Append(MakeRoom(window, part.len), part)

\* The last n bytes of the window, in object order, and what is left of it.
ReadBack(window, n) ==
    LET k == CHOOSE i \in 1..Len(window) :
                 /\ Bytes(SubSeq(window, i, Len(window))) >= n
                 /\ Bytes(SubSeq(window, i + 1, Len(window))) < n
        cut == window[k].len - (n - Bytes(SubSeq(window, k + 1, Len(window))))
        tail == Part(window[k].off + cut, window[k].len - cut)
        head == Part(window[k].off, cut)
    IN  [parts |-> <<tail>> \o SubSeq(window, k + 1, Len(window)),
         rest  |-> SubSeq(window, 1, k - 1) \o (IF cut > 0 THEN <<head>> ELSE <<>>)]

-----------------------------------------------------------------------------
\* Reading

\* Dropping the task cancels it and gives back the rest of its read window.
Released == IF ctl.active THEN Minus(ctl.wend, ctl.next) ELSE 0

DropTask ==
    /\ ctl' = NoTask
    /\ queue' = NoQueue
    /\ incs' = 0
    /\ prod' = NoProducer
    /\ faults' = FALSE

\* reset_prefetch_to_offset
ResetTo(off, chunk) ==
    /\ DropTask
    /\ mem' = mem - Released
    /\ handle' = [handle EXCEPT !.seq = off, !.window = <<>>, !.chunk = chunk]

AvailableOffset == ctl.start + queue.sent

CanSkipTo(off) ==
    /\ ctl.active
    /\ off < ctl.wend
    /\ off < AvailableOffset + MaxForward

CanGoBackTo(off) == ctl.active /\ handle.seq - off <= Bytes(handle.window)

\* Mutant: nothing is reserved for the parts.
PushFrontUnreserved(parts) ==
    /\ queue' = [queue EXCEPT !.front = parts \o @]
    /\ UNCHANGED mem

\* Mutant: the parts are pushed in object order, each before the last.
PushFrontInOrder(parts) ==
    /\ queue' = [queue EXCEPT !.front = Reverse(parts) \o @]
    /\ mem' = mem + Bytes(parts)

\* Put the parts of a backward seek in front of the queue, reserving their
\* memory: the window of the controller does not cover them.
PushFront(parts) ==
    /\ queue' = [queue EXCEPT !.front = parts \o @]
    /\ mem' = mem + Bytes(parts)

StartRead(off, len, pc) ==
    req' = [pc |-> pc, off |-> off, left |-> Least(len, Size - off), back |-> pc]

SeekForward(off, chunk) ==
    /\ off > handle.seq
    /\ CanSkipTo(off)
    /\ handle' = [handle EXCEPT !.chunk = chunk]
    /\ UNCHANGED <<ctl, queue, incs, prod, mem, faults>>

SeekBackward(off, chunk) ==
    /\ off < handle.seq
    /\ CanGoBackTo(off)
    /\ LET back == ReadBack(handle.window, handle.seq - off)
       IN  /\ PushFront(back.parts)
           /\ handle' = [handle EXCEPT !.seq = off, !.window = back.rest, !.chunk = chunk]
    /\ UNCHANGED <<ctl, incs, prod, faults>>

SeekFails(off) ==
    \/ off > handle.seq /\ ~CanSkipTo(off)
    \/ off < handle.seq /\ ~CanGoBackTo(off)

\* read(offset, length), up to its first wait.
Read(off, len) ==
    LET chunk == Least(Most(handle.chunk, len), MaxChunk)
    IN  /\ handle.open /\ req.pc = "idle"
        /\ \/ /\ off >= Size
              /\ handle' = [handle EXCEPT !.chunk = chunk]
              /\ UNCHANGED <<req, ctl, queue, incs, prod, mem, faults>>
           \/ /\ off < Size /\ off = handle.seq
              /\ handle' = [handle EXCEPT !.chunk = chunk]
              /\ StartRead(off, len, "read")
              /\ UNCHANGED <<ctl, queue, incs, prod, mem, faults>>
           \/ /\ off < Size /\ SeekForward(off, chunk)
              /\ StartRead(off, len, "seek")
           \/ /\ off < Size /\ SeekBackward(off, chunk)
              /\ StartRead(off, len, "read")
           \/ /\ off < Size /\ SeekFails(off) /\ ResetTo(off, chunk)
              /\ StartRead(off, len, "read")
        /\ UNCHANGED <<initial, others>>

\* spawn_read_backpressure_request: a task from here to the end of the object.
Spawn ==
    LET start == handle.seq
        wend == start + InitialWindow
    IN  /\ req.pc = "read" /\ ~ctl.active
        /\ ctl' = [active |-> TRUE, start |-> start, wend |-> wend, pref |-> InitialWindow,
                   next |-> start]
        /\ mem' = mem + InitialWindow
        /\ prod' = [NoProducer EXCEPT !.pc = IF initial > 0 THEN "request" ELSE "between",
                       !.lim = wend, !.off = start, !.end = Least(start + initial, Size),
                       !.chunk = handle.chunk]
        /\ UNCHANGED <<initial, handle, req, queue, incs, others, faults>>

Wanted == IF req.pc = "seek" THEN req.off - handle.seq ELSE req.left

\* RequestTask::read takes the next part, or as much of it as is wanted, and
\* reports it to the controller: DataRead releases its memory.
Take(front, recv) ==
    LET part == Head(front)
        n == Least(part.len, Wanted)
        tail == IF n < part.len THEN <<Part(part.off + n, part.len - n)>> ELSE <<>>
    IN  /\ part # Failure
        /\ queue' = [queue EXCEPT !.front = tail \o Tail(front), !.recv = recv]
        /\ ctl' = [ctl EXCEPT !.next = part.off + n]
        /\ mem' = mem - n
        /\ handle' = [handle EXCEPT !.seq = @ + n,
                                    !.window = PushWindow(@, Part(part.off, n))]
        /\ req' = [req EXCEPT !.back = req.pc, !.pc = "feedback",
                              !.left = IF req.pc = "seek" THEN @ ELSE @ - n]
        /\ UNCHANGED <<initial, incs, prod, others, faults>>

Taking == req.pc \in {"seek", "read", "more"} /\ ctl.active

TakeFront == Taking /\ queue.front # <<>> /\ Take(queue.front, queue.recv)

TakeReceived ==
    /\ Taking /\ queue.front = <<>> /\ queue.recv # <<>>
    /\ Take(<<Head(queue.recv)>>, Tail(queue.recv))

\* The producer sent an error, or went away before the data that is wanted.
FailureNext ==
    /\ Taking /\ queue.front = <<>>
    /\ \/ queue.recv # <<>> /\ Head(queue.recv) = Failure
       \/ queue.recv = <<>> /\ prod.pc = "done"

ReadFails ==
    /\ FailureNext
    /\ ResetTo(req.off, handle.chunk)
    /\ req' = NoRead
    /\ UNCHANGED <<initial, others>>

-----------------------------------------------------------------------------
\* Feedback: moving the read window

Align(end) ==
    LET from == ctl.start + initial
    IN  IF end > from
        THEN from + ((end - from + PartSize - 1) \div PartSize) * PartSize
        ELSE end

NewWindowEnd == Least(Align(ctl.next + ctl.pref), Size)

\* One more turn of the loop that moves the window.
MustGrow ==
    /\ Minus(ctl.wend, ctl.next) < ctl.pref \div 2
    /\ ctl.wend < Size
    /\ NewWindowEnd > ctl.wend

ScaledUp(pref) == Least(Most(pref * Multiplier, PartSize), MaxWindow)
ScaledDown(pref) == Least(Most(pref \div Multiplier, PartSize), MaxWindow)

\* Mutant: without memory the window does not move, however small it is.
NeverForced == FALSE

Forced == ctl.pref <= PartSize

\* Whether the queue has nothing left after the part just read.
Stalled == AvailableOffset <= ctl.next

AfterStall(c, reserved) ==
    IF /\ Stalled
       /\ c.pref < MaxWindow
       /\ Available(reserved) >= ScaledUp(c.pref) - c.pref
    THEN [c EXCEPT !.pref = ScaledUp(@)]
    ELSE c

\* The part has been accounted for: go on or return. A part joined to earlier
\* ones of the same read may be found corrupted then; the first is passed on as
\* it is, and one passed over by a seek is not looked at. The offset that
\* into_bytes asks for is the part's: QueueContinues.
Proceed ==
    \/ /\ req.back = "seek"
       /\ req' = [req EXCEPT !.pc = IF handle.seq = req.off THEN "read" ELSE "seek"]
    \/ /\ req.back \in {"read", "more"}
       /\ req' = IF req.left = 0 THEN NoRead ELSE [req EXCEPT !.pc = "more"]
    \/ /\ req.back = "more" /\ MayFail
       /\ req' = [req EXCEPT !.pc = "corrupt"]

\* Room for more data, reserved for sure or if there is memory for it.
Grow ==
    LET more == NewWindowEnd - ctl.wend
    IN  /\ req.pc = "feedback" /\ MustGrow
        /\ Forced \/ CanReserve(more)
        /\ mem' = mem + more
        /\ incs' = incs + more
        /\ ctl' = AfterStall([ctl EXCEPT !.wend = @ + more], mem + more)
        /\ Proceed
        /\ UNCHANGED <<initial, handle, queue, prod, others, faults>>

ScaleDown ==
    /\ req.pc = "feedback" /\ MustGrow
    /\ ~Forced /\ ~CanReserve(NewWindowEnd - ctl.wend)
    /\ ctl' = [ctl EXCEPT !.pref = ScaledDown(@)]
    /\ UNCHANGED <<initial, handle, req, queue, incs, prod, mem, others, faults>>

KeepWindow ==
    /\ req.pc = "feedback" /\ ~MustGrow
    /\ UNCHANGED mem
    /\ ctl' = AfterStall(ctl, mem)
    /\ Proceed
    /\ UNCHANGED <<initial, handle, queue, incs, prod, others, faults>>

\* ChecksummedBytes::extend found a checksum wrong.
ReadCorrupt ==
    /\ req.pc = "corrupt"
    /\ ResetTo(req.off, handle.chunk)
    /\ req' = NoRead
    /\ UNCHANGED <<initial, others>>

-----------------------------------------------------------------------------
\* Opening and closing the handle

Close ==
    /\ handle.open /\ req.pc = "idle"
    /\ DropTask
    /\ mem' = mem - Released - SeekReservation
    /\ handle' = [NewHandle EXCEPT !.open = FALSE]
    /\ req' = NoRead
    /\ UNCHANGED <<initial, others>>

Open ==
    /\ ~handle.open
    /\ handle' = NewHandle
    /\ mem' = mem + SeekReservation
    /\ UNCHANGED <<initial, req, ctl, queue, incs, prod, others, faults>>

-----------------------------------------------------------------------------
\* The producer task

SecondStart == Least(ctl.start + initial, Size)

Fault ==
    /\ MayFail
    /\ faults' = TRUE

\* The client's read window: where it ends for a new request, and after
\* ensure_read_window, which never moves it back.
InitialReadWindow(off) == off + ClientWindow

\* Mutant: the window of the client is not moved.
KeepReadWindow(end, desired) == end

EnsureReadWindow(end, desired) == Most(end, desired)

\* The client's request is under way, with a window no smaller than ours.
GetObject ==
    /\ prod.pc = "request"
    /\ prod' = [prod EXCEPT !.pc = "body",
                            !.win = EnsureReadWindow(InitialReadWindow(prod.off), prod.lim)]
    /\ UNCHANGED <<initial, handle, req, ctl, queue, incs, mem, others, faults>>

\* The client's body stream returns data in whole parts, with parts counted
\* from the start of the range or from that of the object, while its window is
\* not exhausted; then it returns the error EmptyReadWindow.
Deliver ==
    /\ prod.pc = "body"
    /\ IF prod.off < prod.win
       THEN /\ \E n \in {PartSize, PartSize - (prod.off % PartSize)} :
                   prod' = [prod EXCEPT !.pc = "compose", !.body = Least(n, prod.end - prod.off)]
            /\ UNCHANGED queue
       ELSE /\ queue' = [queue EXCEPT !.recv = Append(@, Failure)]
            /\ prod' = [prod EXCEPT !.pc = "done"]
    /\ UNCHANGED <<initial, handle, req, ctl, incs, mem, others, faults>>

\* The request fails, at once or later.
RequestFails ==
    /\ prod.pc \in {"request", "body"}
    /\ Fault
    /\ queue' = [queue EXCEPT !.recv = Append(@, Failure)]
    /\ prod' = [prod EXCEPT !.pc = "done"]
    /\ UNCHANGED <<initial, handle, req, ctl, incs, mem, others>>

\* The body ends before the range does.
BodyEndsEarly ==
    /\ prod.pc = "body"
    /\ Fault
    /\ prod' = [prod EXCEPT !.pc = IF prod.second THEN "done" ELSE "between"]
    /\ UNCHANGED <<initial, handle, req, ctl, queue, incs, mem, others>>

\* One chunk of the body goes to the queue, cut where chunks are aligned ...
Push ==
    LET n == Least(prod.chunk - (prod.off % prod.chunk), prod.body)
    IN  /\ prod.pc = "compose"
        /\ queue' = [queue EXCEPT !.recv = Append(@, Part(prod.off, n))]
        /\ prod' = [prod EXCEPT !.pc = "count", !.off = @ + n, !.body = @ - n]
        /\ UNCHANGED <<initial, handle, req, ctl, incs, mem, others, faults>>

\* ... and is counted after it was sent.
Count ==
    /\ prod.pc = "count"
    /\ queue' = [queue EXCEPT !.sent = prod.off - ctl.start]
    /\ prod' = [prod EXCEPT !.pc =
           CASE prod.body > 0 -> "compose"
             [] prod.body = 0 /\ prod.off < prod.end -> "window"
             [] prod.body = 0 /\ prod.off = prod.end ->
                    IF prod.second THEN "done" ELSE "between"]
    /\ UNCHANGED <<initial, handle, req, ctl, incs, mem, others, faults>>

\* Mutant: the task does not wait for the window.
WindowUnchecked(off) == TRUE

\* wait_for_read_window_increment(off): the window afterwards.
WindowPasses(off) ==
    \/ prod.lim > off
    \/ prod.lim + incs > off
    \/ prod.lim + incs >= Size

AwaitWindow ==
    /\ prod.pc = "window"
    /\ WindowPasses(prod.off)
    /\ incs' = 0
    /\ prod' = [prod EXCEPT !.pc = "body", !.lim = @ + incs,
                            !.win = EnsureReadWindow(@, prod.lim + incs)]
    /\ UNCHANGED <<initial, handle, req, ctl, queue, mem, others, faults>>

\* After the first request: nothing is left, too little came, or the second
\* request waits until the window covers some of its range.
FirstWasAll ==
    /\ prod.pc = "between"
    /\ SecondStart = Size
    /\ prod' = [prod EXCEPT !.pc = "done"]
    /\ UNCHANGED <<initial, handle, req, ctl, queue, incs, mem, others, faults>>

FirstWasShort ==
    /\ prod.pc = "between"
    /\ SecondStart < Size /\ prod.off < SecondStart
    /\ queue' = [queue EXCEPT !.recv = Append(@, Failure)]
    /\ prod' = [prod EXCEPT !.pc = "done"]
    /\ UNCHANGED <<initial, handle, req, ctl, incs, mem, others, faults>>

SecondRequest ==
    /\ prod.pc = "between"
    /\ SecondStart < Size /\ prod.off >= SecondStart
    /\ WindowPasses(SecondStart)
    /\ incs' = 0
    /\ prod' = [prod EXCEPT !.pc = "request", !.second = TRUE, !.lim = @ + incs, !.end = Size]
    /\ UNCHANGED <<initial, handle, req, ctl, queue, mem, others, faults>>

-----------------------------------------------------------------------------
Consume == Spawn \/ TakeFront \/ TakeReceived \/ ReadFails \/ Grow \/ ScaleDown \/ KeepWindow
           \/ ReadCorrupt

Produce == GetObject \/ Deliver \/ RequestFails \/ BodyEndsEarly \/ Push \/ Count
           \/ AwaitWindow \/ FirstWasAll \/ FirstWasShort \/ SecondRequest

Next ==
    \/ \E off \in 0..Size, len \in Lengths : Read(off, len)
    \/ Consume
    \/ Produce
    \/ Close \/ Open
    \/ OthersReserve

Spec == Init /\ [][Next]_vars

\* A read in progress is polled until it returns, and the task is polled by
\* the runtime; the client answers every request, if only with an error.
FairSpec == Spec /\ WF_vars(Consume) /\ WF_vars(Produce)

-----------------------------------------------------------------------------
\* Properties

Ranges == [off : Nat, len : Nat]

TypeOK ==
    /\ initial \in InitialRequestSizes
    /\ handle \in [open : BOOLEAN, seq : 0..Size, chunk : Nat \ {0}, window : Seq(Ranges)]
    /\ req \in [pc : {"idle", "seek", "read", "more", "feedback", "corrupt"}, off : 0..Size, left : 0..Size,
                back : {"idle", "seek", "read", "more"}]
    /\ ctl \in [active : BOOLEAN, start : 0..Size, wend : Nat, pref : Nat, next : 0..Size]
    /\ queue \in [front : Seq(Ranges), recv : Seq(Ranges), sent : 0..Size]
    /\ incs \in Nat
    /\ prod \in [pc : {"none", "request", "body", "compose", "count", "window", "between", "done"},
                 lim : Nat, off : 0..Size, end : 0..Size, win : Nat, body : 0..PartSize,
                 chunk : Nat, second : BOOLEAN]
    /\ mem \in Int /\ others \in Others /\ faults \in BOOLEAN

\* The parts, in their order, cover the object from one offset to another.
Covers(parts, from, to) ==
    /\ from + Bytes(parts) = to
    /\ \A i \in 1..Len(parts) : parts[i].off = from + Sums(parts)[i - 1]

\* The parts before a failure that ends the queue.
Data(parts) == IF parts # <<>> /\ Last(parts) = Failure THEN Front(parts) ELSE parts

\* The queue always continues where the last read ended, up to what the task
\* has produced, across partial reads, seeks in both directions and the change
\* from the first request to the second (PartQueue::read, push_front); and the
\* seek window ends there: "the offset of the last byte in this window is
\* always next_sequential_read_offset - 1".
QueueContinues ==
    /\ ctl.active => Covers(Data(queue.front \o queue.recv), handle.seq, prod.off)
    /\ Covers(handle.window, handle.seq - Bytes(handle.window), handle.seq)
    /\ Bytes(handle.window) <= SeekMax

\* Whenever no release is still to come, the handle has reserved exactly its
\* read window from the next offset on, and its seek window; nothing once it is
\* closed. Backward seeks reserve again what was released.  What the client
\* returned beyond the window is released before the window catches up, but
\* the handle's share of the unsigned counter never goes below zero.
MemoryAccounted ==
    /\ mem >= 0
    /\ mem = (IF handle.open THEN SeekReservation ELSE 0)
              + (IF ctl.active THEN ctl.wend - handle.seq ELSE 0)

\* The task is never ahead of the read window by a part or more, nor the
\* window ahead of the reader by more than the largest window and a part,
\* counting what a backward seek put back.
BufferBounded ==
    ctl.active =>
        /\ prod.off - prod.lim < PartSize
        /\ prod.lim + incs = ctl.wend
        /\ ctl.wend - handle.seq <= Most(MaxWindow, InitialWindow) + PartSize + SeekMax

\* A read finds the task failed or gone only if a request of the task failed:
\* it never outruns the task, and the task never polls the client's stream with
\* an empty window, whatever was sought, reset or scaled down.
ErrorsHaveCauses == FailureNext => faults

\* Every read returns: the reader waiting for data and the task waiting for
\* the window do not wait for each other, however little memory there is.
ReadReturns == (req.pc # "idle") ~> (req.pc = "idle")
=============================================================================
