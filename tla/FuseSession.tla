----------------------------- MODULE FuseSession -----------------------------
(***************************************************************************)
(* The FUSE session (mountpoint-s3-fs/src/fuse/session.rs) and the request *)
(* loop of its workers (mountpoint-s3-fuser/src/session.rs, request.rs):   *)
(* a pool that starts with one worker and adds another whenever its last   *)
(* idle worker takes a request, the thread that waits for the workers, and *)
(* join, which returns after an unmount or a signal.                       *)
(*                                                                         *)
(* Two atomic counters are all that the workers share, and a step is one   *)
(* access to one of them.  Worker 0 is the thread that starts the session  *)
(* and then joins it.                                                      *)
(***************************************************************************)
EXTENDS Integers, Sequences, FiniteSets

CONSTANTS
    MaxWorkers,  \* max_worker_threads
    Kinds,       \* the kinds of the requests the kernel sends, in order
    MaxFaults    \* bound: threads that cannot be spawned, panics, bad requests and errors

\* A "slow" request is an operation that S3 may keep waiting without end.
ASSUME FuseSessionAssumption ==
    /\ MaxWorkers \in Nat \ {0}
    /\ Kinds \in Seq({"init", "op", "slow", "forget"})
    /\ Kinds # <<>> => Kinds[1] = "init"
    /\ MaxFaults \in Nat

Main == 0
Workers == 1 .. MaxWorkers
Requests == DOMAIN Kinds
NoRequest == 0

VARIABLES
    pc,           \* where each thread is
    holds,        \* the request a worker has received
    child,        \* the thread that a thread has spawned last
    workerCount,  \* worker_count
    idleCount,    \* idle_worker_count
    handles,      \* the channel of join handles
    waiter,       \* the waiter: the worker it joins, 0 while it receives, -1 at its end
    messages,     \* the channel that join reads
    initialized,  \* initialized of the fuser session
    connected,    \* is there a connection to the kernel?
    request,      \* what became of each request, in the kernel
    replies,      \* history: how often each was replied to
    refused,      \* history: the requests refused because they came before init
    faults,       \* history: how many faults there were
    interrupted   \* history: was shutdown_fn called?

pool == <<workerCount, idleCount, child>>
channels == <<handles, waiter, messages, interrupted>>
kernel == <<connected, request>>
answers == <<initialized, replies, refused>>
vars == <<pc, holds, pool, channels, kernel, answers, faults>>

Init ==
    /\ pc = [w \in Workers \cup {Main} |-> IF w = Main THEN "count" ELSE "none"]
    /\ holds = [w \in Workers |-> NoRequest]
    /\ child = [w \in Workers \cup {Main} |-> Main]
    /\ workerCount = 0
    /\ idleCount = 0
    /\ handles = <<>>
    /\ waiter = 0
    /\ messages = <<>>
    /\ initialized = FALSE
    /\ connected = TRUE
    /\ request = [i \in Requests |-> "unsent"]
    /\ replies = [i \in Requests |-> 0]
    /\ refused = {}
    /\ faults = 0
    /\ interrupted = FALSE

Go(w, l) == pc' = [pc EXCEPT ![w] = l]
Fault == faults < MaxFaults /\ faults' = faults + 1
IsForget(w) == Kinds[holds[w]] = "forget"

-----------------------------------------------------------------------------
\* The kernel.  It sends nothing before the reply to the init request, its
\* first one.  The connection ends when the file system is unmounted and its
\* files are closed, or when it is aborted: requests that no worker has taken
\* are then aborted.

Send(i) ==
    /\ connected
    /\ request[i] = "unsent"
    /\ \A j \in 1 .. i - 1 : request[j] # "unsent"
    /\ i > 1 => replies[1] > 0
    /\ request' = [request EXCEPT ![i] = "queued"]
    /\ UNCHANGED <<pc, holds, pool, channels, connected, answers, faults>>

Aborted == [i \in Requests |-> IF request[i] = "queued" THEN "aborted" ELSE request[i]]

Hangup == connected' = FALSE /\ request' = Aborted

Disconnect ==
    /\ connected
    /\ Hangup
    /\ UNCHANGED <<pc, holds, pool, channels, answers, faults>>

-----------------------------------------------------------------------------
\* WorkerPool::try_add_worker, for the first worker and by a worker that has
\* taken a request: each access to a counter is a step.

AddDone(w) == IF w = Main THEN "join" ELSE "dispatch"

CountWorker(w) ==
    /\ pc[w] = "count"
    /\ IF workerCount < MaxWorkers
       THEN workerCount' = workerCount + 1 /\ Go(w, "idle")
       ELSE Go(w, AddDone(w)) /\ UNCHANGED workerCount
    /\ UNCHANGED <<holds, idleCount, child, channels, kernel, answers, faults>>

CountIdle(w) ==
    /\ pc[w] = "idle"
    /\ idleCount' = idleCount + 1
    /\ Go(w, "spawn")
    /\ UNCHANGED <<holds, workerCount, child, channels, kernel, answers, faults>>

\* Threads are named for the order in which they are spawned.
NextWorker == CHOOSE v \in Workers : pc[v] = "none" /\ \A u \in 1 .. v - 1 : pc[u] # "none"

Spawn(w) ==
    /\ pc[w] = "spawn"
    /\ pc' = [pc EXCEPT ![w] = "handle", ![NextWorker] = "receive"]
    /\ child' = [child EXCEPT ![w] = NextWorker]
    /\ UNCHANGED <<holds, workerCount, idleCount, channels, kernel, answers, faults>>

\* The pool, with the session in it and a sender of join handles, is shared
\* by the threads that are in it.  The last to leave drops the session, which
\* unmounts the file system and closes the connection.
InPool(w) ==
    IF w = Main
    THEN pc[w] \in {"count", "idle", "spawn", "handle"}
    ELSE pc[w] \notin {"none", "exited"}

\* Mutant: the connection stays open, as when something else keeps the session.
LeaveOpen(w) == UNCHANGED kernel

Leave(w) ==
    IF \E v \in Workers \cup {Main} : v # w /\ InPool(v)
    THEN UNCHANGED kernel
    ELSE Hangup

\* The handle of the new thread goes to the waiter.  WorkerPool::start then
\* returns, and drops the pool it made.
SendHandle(w) ==
    /\ pc[w] = "handle"
    /\ handles' = Append(handles, child[w])
    /\ Go(w, AddDone(w))
    /\ IF w = Main THEN Leave(w) ELSE UNCHANGED kernel
    /\ UNCHANGED <<holds, pool, waiter, messages, interrupted, answers, faults>>

\* Both counters keep a thread that could not be spawned; the session does
\* not start without a first one.
SpawnFails(w) ==
    /\ pc[w] = "spawn"
    /\ Fault
    /\ IF w = Main
       THEN Go(w, "failed") /\ Hangup
       ELSE Go(w, "dispatch") /\ UNCHANGED kernel
    /\ UNCHANGED <<holds, pool, channels, answers>>

-----------------------------------------------------------------------------
\* The loop of a worker: run_with_callbacks and process_requests.

Exit(w) == Go(w, "exited") /\ Leave(w)

\* A worker ends whose channel fails: when it is cloned, before the worker has
\* received anything, or in a receive.
ChannelFails(w) ==
    /\ pc[w] = "receive"
    /\ Fault
    /\ Exit(w)
    /\ UNCHANGED <<holds, pool, channels, answers>>

First(i) == request[i] = "queued" /\ \A j \in 1 .. i - 1 : request[j] # "queued"

\* Each request is received by one worker.  Forgets are not counted as work.
Receive(w, i) ==
    /\ pc[w] = "receive"
    /\ First(i)
    /\ request' = [request EXCEPT ![i] = "taken"]
    /\ holds' = [holds EXCEPT ![w] = i]
    /\ Go(w, IF Kinds[i] = "forget" THEN "dispatch" ELSE "before")
    /\ UNCHANGED <<pool, channels, connected, answers, faults>>

\* A request that cannot be parsed ends the worker, before any callback, and
\* gets no reply.
Malformed(w, i) ==
    /\ pc[w] = "receive"
    /\ First(i)
    /\ Fault
    /\ request' = [request EXCEPT ![i] = "unparsed"]
    /\ Go(w, "leaving")
    /\ UNCHANGED <<holds, pool, channels, connected, answers>>

ReceiveEnds(w) ==
    /\ pc[w] = "receive"
    /\ ~connected
    /\ Exit(w)
    /\ UNCHANGED <<holds, pool, channels, answers, faults>>

\* Mutant: the count after the decrement is taken for the one before.
BeforeLate(w) ==
    /\ pc[w] = "before"
    /\ idleCount' = idleCount - 1
    /\ Go(w, IF idleCount = 0 THEN "count" ELSE "dispatch")
    /\ UNCHANGED <<holds, workerCount, child, channels, kernel, answers, faults>>

\* The before callback: the last idle worker tries to add one.
Before(w) ==
    /\ pc[w] = "before"
    /\ idleCount' = idleCount - 1
    /\ Go(w, IF idleCount = 1 THEN "count" ELSE "dispatch")
    /\ UNCHANGED <<holds, workerCount, child, channels, kernel, answers, faults>>

IsInit(w) == Kinds[holds[w]] = "init"

\* Request::dispatch, up to the call of the handler: only init may come first.
Dispatch(w) ==
    /\ pc[w] = "dispatch"
    /\ refused' = IF initialized \/ IsInit(w) THEN refused ELSE refused \cup {holds[w]}
    /\ Go(w, "handler")
    /\ UNCHANGED <<holds, pool, channels, kernel, initialized, replies, faults>>

Becomes(w, outcome) == request' = [request EXCEPT ![holds[w]] = outcome]

Replied(w) == replies' = [replies EXCEPT ![holds[w]] = @ + 1]

\* The handler replies to all but a forget.  The kernel may no longer be
\* there to hear it.
Handle(w) ==
    /\ pc[w] = "handler"
    /\ initialized' = (initialized \/ IsInit(w))
    /\ Becomes(w, "done")
    /\ IF IsForget(w)
       THEN Go(w, "receive") /\ UNCHANGED replies
       ELSE Go(w, "after") /\ Replied(w)
    /\ UNCHANGED <<holds, pool, channels, connected, refused, faults>>

\* Mutant: a reply that is dropped sends nothing.
PanicUnanswered(w) ==
    /\ pc[w] = "handler"
    /\ Fault
    /\ Becomes(w, IF IsInit(w) THEN "dropped" ELSE "done")
    /\ Go(w, "leaving")
    /\ UNCHANGED <<holds, pool, channels, connected, answers>>

\* A panic in a handler drops the reply, which sends an error, and ends the
\* worker without the after callback.  The handler of init, which panics when
\* the kernel does not have what the configuration asks for, returns its answer
\* and has no reply to drop: nothing is sent, and the session stays as it was.
Panic(w) ==
    /\ pc[w] = "handler"
    /\ Fault
    /\ Becomes(w, IF IsInit(w) THEN "dropped" ELSE "done")
    /\ IF IsForget(w) \/ IsInit(w) THEN UNCHANGED replies ELSE Replied(w)
    /\ Go(w, "leaving")
    /\ UNCHANGED <<holds, pool, channels, connected, initialized, refused>>

\* The pool is left once the worker has returned or been unwound.
Unwound(w) ==
    /\ pc[w] = "leaving"
    /\ Exit(w)
    /\ UNCHANGED <<holds, pool, channels, answers, faults>>

After(w) ==
    /\ pc[w] = "after"
    /\ idleCount' = idleCount + 1
    /\ Go(w, "receive")
    /\ UNCHANGED <<holds, workerCount, child, channels, kernel, answers, faults>>

-----------------------------------------------------------------------------
\* The waiter thread joins the workers whose handles it gets.  When the last
\* sender of handles is gone it tells join.

WaiterReceives ==
    /\ waiter = 0
    /\ handles # <<>>
    /\ waiter' = Head(handles)
    /\ handles' = Tail(handles)
    /\ UNCHANGED <<pc, holds, pool, messages, interrupted, kernel, answers, faults>>

WaiterJoins ==
    /\ waiter > 0
    /\ pc[waiter] = "exited"
    /\ waiter' = 0
    /\ UNCHANGED <<pc, holds, pool, handles, messages, interrupted, kernel, answers, faults>>

WaiterEnds ==
    /\ waiter = 0
    /\ handles = <<>>
    /\ \A w \in Workers \cup {Main} : ~InPool(w)
    /\ waiter' = -1
    /\ messages' = Append(messages, "WorkersExited")
    /\ UNCHANGED <<pc, holds, pool, handles, interrupted, kernel, answers, faults>>

\* shutdown_fn, called by the signal handler.
Interrupt ==
    /\ pc[Main] = "join"
    /\ ~interrupted
    /\ interrupted' = TRUE
    /\ messages' = Append(messages, "Interrupted")
    /\ UNCHANGED <<pc, holds, pool, handles, waiter, kernel, answers, faults>>

\* Mutant: join waits for the workers whatever it is sent.
JoinWaits ==
    /\ pc[Main] = "join"
    /\ \E n \in DOMAIN messages : messages[n] = "WorkersExited"
    /\ Go(Main, "closing")
    /\ UNCHANGED <<holds, pool, channels, kernel, answers, faults>>

JoinReceives ==
    /\ pc[Main] = "join"
    /\ messages # <<>>
    /\ Go(Main, "closing")
    /\ UNCHANGED <<holds, pool, channels, kernel, answers, faults>>

\* The handlers of run_on_close, and the unmount: the connection may outlive
\* it while files are open.
Unmount ==
    /\ pc[Main] = "closing"
    /\ Go(Main, "returned")
    /\ \/ Hangup
       \/ UNCHANGED kernel
    /\ UNCHANGED <<holds, pool, channels, answers, faults>>

Ended ==
    /\ pc[Main] \in {"returned", "failed"}
    /\ waiter = -1
    /\ UNCHANGED vars

-----------------------------------------------------------------------------
Adds(w) == CountWorker(w) \/ CountIdle(w) \/ Spawn(w) \/ SendHandle(w)

\* The steps of a worker outside a slow handler.
Works(w) ==
    \/ \E i \in Requests : Receive(w, i)
    \/ ReceiveEnds(w)
    \/ Before(w)
    \/ Dispatch(w)
    \/ After(w)
    \/ Unwound(w)

Waits == WaiterReceives \/ WaiterJoins \/ WaiterEnds
Joins == JoinReceives \/ Unmount

Next ==
    \/ \E i \in Requests : Send(i)
    \/ Disconnect
    \/ Interrupt
    \/ \E w \in Workers \cup {Main} : Adds(w) \/ SpawnFails(w)
    \/ \E w \in Workers : Works(w) \/ Handle(w) \/ ChannelFails(w) \/ Panic(w)
    \/ \E w \in Workers, i \in Requests : Malformed(w, i)
    \/ Waits
    \/ Joins
    \/ Ended

\* Threads run; a handler returns, unless it waits for S3.
Fairness ==
    /\ \A w \in Workers \cup {Main} : WF_vars(Adds(w))
    /\ \A w \in Workers : WF_vars(Works(w))
    /\ \A w \in Workers : WF_vars(pc[w] = "handler" /\ Kinds[holds[w]] # "slow" /\ Handle(w))
    /\ WF_vars(Waits)
    /\ WF_vars(Joins)

Spec == Init /\ [][Next]_vars /\ Fairness

-----------------------------------------------------------------------------
\* Where a worker is while idle_worker_count counts it: the handling of a
\* forget does not change that.
CountedIdle(w) ==
    \/ pc[w] \in {"receive", "before"}
    \/ pc[w] \in {"dispatch", "handler"} /\ IsForget(w)

\* Each worker is in its place, and the first thread adds one worker.
TypeOK ==
    /\ pc \in [Workers \cup {Main} -> {"none", "receive", "before", "count", "idle",
                                       "spawn", "handle", "dispatch", "handler", "leaving", "after",
                                       "exited", "join", "closing", "returned", "failed"}]
    /\ holds \in [Workers -> Requests \cup {NoRequest}]
    /\ child \in [Workers \cup {Main} -> Workers \cup {Main}]
    /\ workerCount \in 0 .. MaxWorkers
    /\ idleCount \in 0 .. MaxWorkers
    /\ handles \in Seq(Workers)
    /\ waiter \in Workers \cup {0, -1}
    /\ messages \in Seq({"WorkersExited", "Interrupted"})
    /\ initialized \in BOOLEAN
    /\ connected \in BOOLEAN
    /\ request \in [Requests -> {"unsent", "queued", "taken", "done", "dropped", "unparsed", "aborted"}]
    /\ replies \in [Requests -> Nat]
    /\ refused \subseteq Requests
    /\ faults \in 0 .. MaxFaults
    /\ interrupted \in BOOLEAN

\* While nothing has failed, idle_worker_count is the number of workers that
\* are idle, and of those about to be: it never wraps below zero, and the
\* worker that takes it to zero really is the last.
IdleCounted ==
    faults = 0 /\ connected =>
        idleCount = Cardinality({w \in Workers : CountedIdle(w)})
                    + Cardinality({w \in Workers \cup {Main} : pc[w] = "spawn"})

\* The pool never stops short of its limit: while nothing has failed, the
\* workers are all at work only when as many run as may run, for the idle
\* workers are counted right.
PoolGrows ==
    /\ IdleCounted
    /\ faults = 0 /\ (\A w \in Workers : pc[w] \in {"none", "dispatch", "handler", "after"}
                                        /\ (pc[w] \in {"dispatch", "handler"} => ~IsForget(w)))
                  /\ pc[Main] = "join"
        => \A w \in Workers : pc[w] # "none"

\* A request that reaches its handler is replied to once, also by a handler that
\* panics, and a forget never; none is refused for having overtaken the init
\* request.  Two get no reply at all: a request that could not be parsed, and the
\* init request if its handler panics, after which no other is ever sent.
RepliedOnce ==
    /\ \A i \in Requests :
          /\ replies[i] = IF request[i] = "done" /\ Kinds[i] # "forget" THEN 1 ELSE 0
          /\ request[i] = "dropped" => Kinds[i] = "init"
    /\ \A i \in Requests : i > 1 /\ request[1] = "dropped" => request[i] = "unsent"
    /\ refused = {}

\* A request is taken by a worker, or aborted with the connection, unless
\* slow handlers keep as many workers as may run: after a spawn, a channel or
\* a handler has failed, unless they keep all the workers there are.
Kept(w) == pc[w] = "handler" /\ Kinds[holds[w]] = "slow"

RequestsTaken ==
    \A i \in Requests :
        request[i] = "queued" ~>
            \/ request[i] # "queued"
            \/ \A w \in Workers : Kept(w)
            \/ /\ faults > 0
               /\ {w \in Workers : Kept(w)} # {}
               /\ \A w \in Workers : InPool(w) => Kept(w)

\* Join returns after an interrupt whatever the workers do, and after the
\* connection has ended unless a worker is kept for ever.
JoinReturns ==
    /\ interrupted ~> pc[Main] = "returned"
    /\ \/ <>[](\E w \in Workers : Kept(w))
       \/ ~connected ~> pc[Main] \in {"returned", "failed"}
=============================================================================
