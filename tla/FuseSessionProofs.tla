------------------------- MODULE FuseSessionProofs -------------------------
(***************************************************************************)
(* Proofs about the FUSE session, for any number of workers and requests,  *)
(* and any failures: the counters of the worker pool never wrap and let it *)
(* grow to its limit, and a request that is handled is replied to once,    *)
(* unless it is an init whose handler panics.                              *)
(***************************************************************************)
EXTENDS FuseSession, FiniteSetTheorems, NaturalsInduction, WellFoundedInduction, TLAPS

-----------------------------------------------------------------------------
\* The inductive invariant: where threads are.

Threads == Workers \cup {Main}

\* The thread that starts the session and the workers do different things, and
\* the last thing a thread does before it sends a handle is to spawn a worker.
Places ==
    /\ pc[Main] \in {"count", "idle", "spawn", "handle", "join", "closing", "returned", "failed"}
    /\ \A w \in Workers : pc[w] \notin {"join", "closing", "returned", "failed"}
    /\ \A w \in Threads : pc[w] = "handle" => child[w] \in Workers

\* A worker ends in good order only when the connection has.
ExitsJustified ==
    /\ faults = 0 => \A w \in Workers : pc[w] # "leaving"
    /\ faults = 0 /\ connected => \A w \in Workers : pc[w] # "exited"

-----------------------------------------------------------------------------
\* The inductive invariant: the counters.

Spawned == {w \in Workers : pc[w] # "none"}
AtIdle == {w \in Threads : pc[w] = "idle"}
AtSpawn == {w \in Threads : pc[w] = "spawn"}
Idle == {w \in Workers : CountedIdle(w)}
IdleOrGone == {w \in Workers : CountedIdle(w) \/ pc[w] = "exited"}

\* The workers between the before and the after callback.
AtWork ==
    {w \in Workers : \/ pc[w] \in {"count", "idle", "spawn", "handle", "after"}
                     \/ pc[w] \in {"dispatch", "handler"} /\ ~IsForget(w)}

\* worker_count counts the workers there are and those that are being added, and
\* more of them only once one could not be.
WorkersCounted ==
    /\ workerCount >= Cardinality(Spawned) + Cardinality(AtIdle) + Cardinality(AtSpawn)
    /\ faults = 0 => workerCount = Cardinality(Spawned) + Cardinality(AtIdle) + Cardinality(AtSpawn)

\* idle_worker_count counts the idle workers, and more of them only once a worker
\* has ended or could not be spawned; it never exceeds those that do not work.
IdlersCounted ==
    /\ idleCount >= Cardinality(Idle) + Cardinality(AtSpawn)
    /\ faults = 0 => idleCount = Cardinality(IdleOrGone) + Cardinality(AtSpawn)
    /\ idleCount + Cardinality(AtIdle) + Cardinality(AtWork) <= workerCount

\* The worker that takes the count of idle workers to zero adds one.
SomeoneAdds ==
    idleCount = 0 =>
        workerCount = MaxWorkers \/ \E w \in Threads : pc[w] \in {"count", "idle"}

-----------------------------------------------------------------------------
\* The inductive invariant: the requests.

Busy == {"before", "count", "idle", "spawn", "handle", "dispatch", "handler"}

\* A request that is taken is held by one worker; only those that are not
\* forgets are counted.
HoldsTaken ==
    /\ \A w \in Workers :
          pc[w] \in Busy =>
             /\ holds[w] \in Requests
             /\ request[holds[w]] = "taken"
             /\ pc[w] \notin {"dispatch", "handler"} => ~IsForget(w)
    /\ \A v, w \in Workers : pc[v] \in Busy /\ pc[w] \in Busy /\ holds[v] = holds[w] => v = w

\* The init request is handled, and replied to, before any other is sent.
InitFirst ==
    /\ \A i \in Requests : i > 1 /\ request[i] # "unsent" => replies[1] > 0
    /\ 1 \in Requests /\ replies[1] > 0 => initialized

\* A request that is done has its reply, and no other has.
Answered ==
    /\ \A i \in Requests :
          /\ replies[i] = IF request[i] = "done" /\ Kinds[i] # "forget" THEN 1 ELSE 0
          /\ request[i] = "dropped" => Kinds[i] = "init"
    /\ refused = {}

SessionInv ==
    /\ TypeOK
    /\ Places
    /\ ExitsJustified
    /\ WorkersCounted
    /\ IdlersCounted
    /\ SomeoneAdds
    /\ HoldsTaken
    /\ InitFirst
    /\ Answered

-----------------------------------------------------------------------------
\* Threads and their number.

LEMMA Numbers ==
    /\ MaxWorkers \in Nat /\ MaxFaults \in Nat
    /\ Workers = 1 .. MaxWorkers /\ Workers \subseteq Nat /\ Main \notin Workers /\ Main = 0
    /\ Requests \subseteq Nat /\ NoRequest \notin Requests /\ NoRequest = 0
    /\ \A i \in Requests : i >= 1 /\ 1 \in Requests
    /\ 1 \in Requests => Kinds[1] = "init"
BY FuseSessionAssumption DEF Workers, Main, Requests, NoRequest

LEMMA ThreadsFinite ==
    /\ IsFiniteSet(Workers) /\ Cardinality(Workers) = MaxWorkers
    /\ IsFiniteSet(Threads)
<1>1. IsFiniteSet(Workers) /\ Cardinality(Workers) = MaxWorkers
  BY Numbers, FS_Interval
<1>2. IsFiniteSet(Threads)
  BY <1>1, FS_AddElement DEF Threads
<1> QED  BY <1>1, <1>2

N(b) == IF b THEN 1 ELSE 0

\* A set that changes at one element changes its number by that.
LEMMA CardStep ==
    ASSUME NEW S, NEW T, NEW x, IsFiniteSet(S), S \ {x} = T \ {x}
    PROVE  /\ IsFiniteSet(T)
           /\ Cardinality(S) \in Nat /\ Cardinality(T) \in Nat
           /\ Cardinality(T) + N(x \in S) = Cardinality(S) + N(x \in T)
<1>1. IsFiniteSet(S \ {x}) /\ Cardinality(S \ {x}) = Cardinality(S) - N(x \in S) /\ Cardinality(S) \in Nat
  <2>1. /\ IsFiniteSet(S \ {x})
        /\ Cardinality(S \ {x}) = IF x \in S THEN Cardinality(S) - 1 ELSE Cardinality(S)
    BY FS_RemoveElement
  <2>2. Cardinality(S) \in Nat
    BY FS_CardinalityType
  <2> QED  BY <2>1, <2>2 DEF N
<1>2. IsFiniteSet(T)
  <2>1. T \subseteq (S \ {x}) \cup {x}
    OBVIOUS
  <2>2. IsFiniteSet((S \ {x}) \cup {x})
    BY <1>1, FS_AddElement
  <2> QED  BY <2>1, <2>2, FS_Subset
<1>3. Cardinality(T \ {x}) = Cardinality(T) - N(x \in T) /\ Cardinality(T) \in Nat
  <2>1. Cardinality(T \ {x}) = IF x \in T THEN Cardinality(T) - 1 ELSE Cardinality(T)
    BY <1>2, FS_RemoveElement
  <2>2. Cardinality(T) \in Nat
    BY <1>2, FS_CardinalityType
  <2> QED  BY <2>1, <2>2 DEF N
<1>4. N(x \in S) \in Nat /\ N(x \in T) \in Nat
  BY DEF N
<1>5. Cardinality(S \ {x}) = Cardinality(T \ {x})
  OBVIOUS
<1> QED  BY <1>1, <1>2, <1>3, <1>4, <1>5

\* The sets of the counters are finite.
LEMMA CountedFinite ==
    /\ IsFiniteSet(Spawned) /\ Cardinality(Spawned) \in Nat
    /\ IsFiniteSet(AtIdle) /\ Cardinality(AtIdle) \in Nat
    /\ IsFiniteSet(AtSpawn) /\ Cardinality(AtSpawn) \in Nat
    /\ IsFiniteSet(Idle) /\ Cardinality(Idle) \in Nat
    /\ IsFiniteSet(IdleOrGone) /\ Cardinality(IdleOrGone) \in Nat
    /\ IsFiniteSet(AtWork) /\ Cardinality(AtWork) \in Nat
<1>1. \A S \in SUBSET Threads : IsFiniteSet(S) /\ Cardinality(S) \in Nat
  BY ThreadsFinite, FS_Subset, FS_CardinalityType
<1>2. /\ Spawned \in SUBSET Threads /\ AtIdle \in SUBSET Threads /\ AtSpawn \in SUBSET Threads
      /\ Idle \in SUBSET Threads /\ IdleOrGone \in SUBSET Threads /\ AtWork \in SUBSET Threads
  BY DEF Threads, Spawned, AtIdle, AtSpawn, Idle, IdleOrGone, AtWork
<1> QED  BY <1>1, <1>2

Working(w) ==
    \/ pc[w] \in {"count", "idle", "spawn", "handle", "after"}
    \/ pc[w] \in {"dispatch", "handler"} /\ ~IsForget(w)

\* What becomes of the numbers when one thread moves.
LEMMA OneMoves ==
    ASSUME NEW w \in Threads,
           \A v \in Threads : v # w => pc'[v] = pc[v],
           \A v \in Workers : v # w => holds'[v] = holds[v]
    PROVE  /\ Cardinality(Spawned') + N(w \in Workers /\ pc[w] # "none")
                = Cardinality(Spawned) + N(w \in Workers /\ pc'[w] # "none")
           /\ Cardinality(AtIdle') + N(pc[w] = "idle") = Cardinality(AtIdle) + N(pc'[w] = "idle")
           /\ Cardinality(AtSpawn') + N(pc[w] = "spawn") = Cardinality(AtSpawn) + N(pc'[w] = "spawn")
           /\ Cardinality(Idle') + N(w \in Workers /\ CountedIdle(w))
                = Cardinality(Idle) + N(w \in Workers /\ CountedIdle(w)')
           /\ Cardinality(IdleOrGone') + N(w \in Workers /\ (CountedIdle(w) \/ pc[w] = "exited"))
                = Cardinality(IdleOrGone) + N(w \in Workers /\ (CountedIdle(w)' \/ pc'[w] = "exited"))
           /\ Cardinality(AtWork') + N(w \in Workers /\ Working(w))
                = Cardinality(AtWork) + N(w \in Workers /\ Working(w)')
           /\ Cardinality(Spawned') \in Nat /\ Cardinality(AtIdle') \in Nat
           /\ Cardinality(AtSpawn') \in Nat /\ Cardinality(Idle') \in Nat
           /\ Cardinality(IdleOrGone') \in Nat /\ Cardinality(AtWork') \in Nat
<1>1. \A v \in Workers : v # w => pc'[v] = pc[v] /\ CountedIdle(v)' = CountedIdle(v) /\ Working(v)' = Working(v)
  BY DEF Threads, CountedIdle, Working, IsForget
<1>2. Spawned \ {w} = Spawned' \ {w}
  BY <1>1 DEF Spawned
<1>3. AtIdle \ {w} = AtIdle' \ {w} /\ AtSpawn \ {w} = AtSpawn' \ {w}
  BY DEF AtIdle, AtSpawn
<1>4. Idle \ {w} = Idle' \ {w} /\ IdleOrGone \ {w} = IdleOrGone' \ {w}
  BY <1>1 DEF Idle, IdleOrGone
<1>5. AtWork = {v \in Workers : Working(v)} /\ AtWork' = {v \in Workers : Working(v)'}
  BY DEF AtWork, Working
<1>6. AtWork \ {w} = AtWork' \ {w}
  BY <1>1, <1>5
<1>7. /\ w \in Spawned <=> w \in Workers /\ pc[w] # "none"
      /\ w \in Spawned' <=> w \in Workers /\ pc'[w] # "none"
      /\ w \in AtIdle <=> pc[w] = "idle"
      /\ w \in AtIdle' <=> pc'[w] = "idle"
      /\ w \in AtSpawn <=> pc[w] = "spawn"
      /\ w \in AtSpawn' <=> pc'[w] = "spawn"
      /\ w \in Idle <=> w \in Workers /\ CountedIdle(w)
      /\ w \in Idle' <=> w \in Workers /\ CountedIdle(w)'
      /\ w \in IdleOrGone <=> w \in Workers /\ (CountedIdle(w) \/ pc[w] = "exited")
      /\ w \in IdleOrGone' <=> w \in Workers /\ (CountedIdle(w)' \/ pc'[w] = "exited")
      /\ w \in AtWork <=> w \in Workers /\ Working(w)
      /\ w \in AtWork' <=> w \in Workers /\ Working(w)'
  BY <1>5 DEF Spawned, AtIdle, AtSpawn, Idle, IdleOrGone
<1>8. /\ Cardinality(Spawned') \in Nat
      /\ Cardinality(Spawned') + N(w \in Spawned) = Cardinality(Spawned) + N(w \in Spawned')
  BY <1>2, CountedFinite, CardStep
<1>9. /\ Cardinality(AtIdle') \in Nat
      /\ Cardinality(AtIdle') + N(w \in AtIdle) = Cardinality(AtIdle) + N(w \in AtIdle')
  BY <1>3, CountedFinite, CardStep
<1>10. /\ Cardinality(AtSpawn') \in Nat
       /\ Cardinality(AtSpawn') + N(w \in AtSpawn) = Cardinality(AtSpawn) + N(w \in AtSpawn')
  BY <1>3, CountedFinite, CardStep
<1>11. /\ Cardinality(Idle') \in Nat
       /\ Cardinality(Idle') + N(w \in Idle) = Cardinality(Idle) + N(w \in Idle')
  BY <1>4, CountedFinite, CardStep
<1>12. /\ Cardinality(IdleOrGone') \in Nat
       /\ Cardinality(IdleOrGone') + N(w \in IdleOrGone) = Cardinality(IdleOrGone) + N(w \in IdleOrGone')
  BY <1>4, CountedFinite, CardStep
<1>13. /\ Cardinality(AtWork') \in Nat
       /\ Cardinality(AtWork') + N(w \in AtWork) = Cardinality(AtWork) + N(w \in AtWork')
  BY <1>6, CountedFinite, CardStep
<1>14. /\ N(w \in Spawned) = N(w \in Workers /\ pc[w] # "none")
       /\ N(w \in Spawned') = N(w \in Workers /\ pc'[w] # "none")
       /\ N(w \in AtIdle) = N(pc[w] = "idle")
       /\ N(w \in AtIdle') = N(pc'[w] = "idle")
       /\ N(w \in AtSpawn) = N(pc[w] = "spawn")
       /\ N(w \in AtSpawn') = N(pc'[w] = "spawn")
       /\ N(w \in Idle) = N(w \in Workers /\ CountedIdle(w))
       /\ N(w \in Idle') = N(w \in Workers /\ CountedIdle(w)')
       /\ N(w \in IdleOrGone) = N(w \in Workers /\ (CountedIdle(w) \/ pc[w] = "exited"))
       /\ N(w \in IdleOrGone') = N(w \in Workers /\ (CountedIdle(w)' \/ pc'[w] = "exited"))
       /\ N(w \in AtWork) = N(w \in Workers /\ Working(w))
       /\ N(w \in AtWork') = N(w \in Workers /\ Working(w)')
  BY <1>7 DEF N
<1>15. /\ Cardinality(Spawned') + N(w \in Workers /\ pc[w] # "none")
            = Cardinality(Spawned) + N(w \in Workers /\ pc'[w] # "none")
       /\ Cardinality(AtIdle') + N(pc[w] = "idle") = Cardinality(AtIdle) + N(pc'[w] = "idle")
       /\ Cardinality(AtSpawn') + N(pc[w] = "spawn") = Cardinality(AtSpawn) + N(pc'[w] = "spawn")
  BY <1>8, <1>9, <1>10, <1>14
<1>16. /\ Cardinality(Idle') + N(w \in Workers /\ CountedIdle(w))
            = Cardinality(Idle) + N(w \in Workers /\ CountedIdle(w)')
       /\ Cardinality(IdleOrGone') + N(w \in Workers /\ (CountedIdle(w) \/ pc[w] = "exited"))
            = Cardinality(IdleOrGone) + N(w \in Workers /\ (CountedIdle(w)' \/ pc'[w] = "exited"))
       /\ Cardinality(AtWork') + N(w \in Workers /\ Working(w))
            = Cardinality(AtWork) + N(w \in Workers /\ Working(w)')
  BY <1>11, <1>12, <1>13, <1>14
<1> QED  BY <1>8, <1>9, <1>10, <1>11, <1>12, <1>13, <1>15, <1>16

\* A thread that is counted makes the count positive.
LEMMA CountedPositive ==
    ASSUME NEW w \in Threads
    PROVE  /\ pc[w] = "idle" => Cardinality(AtIdle) >= 1
           /\ pc[w] = "spawn" => Cardinality(AtSpawn) >= 1
           /\ w \in Workers /\ CountedIdle(w) => Cardinality(Idle) >= 1
           /\ w \in Workers /\ Working(w) => Cardinality(AtWork) >= 1
<1>1. ASSUME NEW S, IsFiniteSet(S), w \in S
      PROVE  Cardinality(S) >= 1
  <2>1. Cardinality(S) # 0 /\ Cardinality(S) \in Nat
    BY <1>1, FS_EmptySet, FS_CardinalityType
  <2> QED  BY <2>1
<1>2. /\ pc[w] = "idle" => w \in AtIdle
      /\ pc[w] = "spawn" => w \in AtSpawn
      /\ w \in Workers /\ CountedIdle(w) => w \in Idle
      /\ w \in Workers /\ Working(w) => w \in AtWork
  BY DEF AtIdle, AtSpawn, Idle, AtWork, Working
<1> QED  BY <1>1, <1>2, CountedFinite

\* What an end of the connection does to the requests.
LEMMA KernelEnds ==
    ASSUME TypeOK, Hangup \/ UNCHANGED kernel
    PROVE  /\ connected' \in BOOLEAN /\ (connected' => connected)
           /\ request' \in [Requests -> {"unsent", "queued", "taken", "done", "dropped", "unparsed", "aborted"}]
           /\ \A i \in Requests :
                 request'[i] = request[i] \/ (request[i] = "queued" /\ request'[i] = "aborted")
<1>1. CASE Hangup
  BY <1>1 DEF Hangup, Aborted, TypeOK
<1>2. CASE UNCHANGED kernel
  BY <1>2 DEF kernel, TypeOK
<1> QED  BY <1>1, <1>2

\* The numbers of the counters' sets after a step, by how much each has changed.
Change(spawned, atIdle, atSpawn, idle, idleOrGone, atWork) ==
    /\ Cardinality(Spawned') = Cardinality(Spawned) + spawned
    /\ Cardinality(AtIdle') = Cardinality(AtIdle) + atIdle
    /\ Cardinality(AtSpawn') = Cardinality(AtSpawn) + atSpawn
    /\ Cardinality(Idle') = Cardinality(Idle) + idle
    /\ Cardinality(IdleOrGone') = Cardinality(IdleOrGone) + idleOrGone
    /\ Cardinality(AtWork') = Cardinality(AtWork) + atWork

LEMMA NobodyMoves ==
    ASSUME UNCHANGED <<pc, holds>>
    PROVE  Change(0, 0, 0, 0, 0, 0)
<1>1. /\ Spawned' = Spawned /\ AtIdle' = AtIdle /\ AtSpawn' = AtSpawn
      /\ Idle' = Idle /\ IdleOrGone' = IdleOrGone /\ AtWork' = AtWork
  BY DEF Spawned, AtIdle, AtSpawn, Idle, IdleOrGone, AtWork, CountedIdle, IsForget
<1> QED  BY <1>1, CountedFinite DEF Change

\* A thread that adds a worker is the first one, or a worker that holds a request
\* that is not a forget.
LEMMA Adder ==
    ASSUME TypeOK, HoldsTaken, NEW w \in Threads, w # Main, pc[w] \in {"count", "idle", "spawn", "handle"},
           UNCHANGED holds
    PROVE  w \in Workers /\ ~IsForget(w) /\ ~IsForget(w)' /\ faults \in Nat
<1>1. w \in Workers
  BY DEF Threads
<1>2. ~IsForget(w)
  BY <1>1 DEF HoldsTaken, Busy
<1>3. faults \in Nat
  BY DEF TypeOK
<1> QED  BY <1>1, <1>2, <1>3 DEF IsForget

LEMMA PlacesMove ==
    ASSUME TypeOK, Places, NEW w \in Threads, NEW l, l # "handle", pc' = [pc EXCEPT ![w] = l],
           UNCHANGED child,
           w = Main => l \in {"count", "idle", "spawn", "join", "closing", "returned", "failed"},
           w \in Workers => l \notin {"join", "closing", "returned", "failed"}
    PROVE  Places'
<1>1. pc'[w] = l /\ \A v \in Threads : v # w => pc'[v] = pc[v]
  BY DEF TypeOK, Threads
<1>2. Main \in Threads /\ Workers \subseteq Threads /\ Main \notin Workers
  BY Numbers DEF Threads
<1> QED  BY <1>1, <1>2 DEF Places

\* Workers keep what they hold while they work.
LEMMA BusyStays ==
    ASSUME HoldsTaken, UNCHANGED holds,
           \A v \in Workers :
              pc'[v] \in Busy => pc[v] \in Busy /\ (pc[v] \in {"dispatch", "handler"} => pc'[v] \in {"dispatch", "handler"}),
           \A v \in Workers : pc'[v] \in Busy => request'[holds[v]] = request[holds[v]]
    PROVE  HoldsTaken'
BY DEF HoldsTaken, IsForget

\* A worker that is spawned has not been there.
LEMMA NextWorkerIsNew ==
    ASSUME TypeOK, WorkersCounted, NEW w \in Threads, pc[w] = "spawn"
    PROVE  NextWorker \in Workers /\ pc[NextWorker] = "none"
<1> DEFINE S == {v \in Workers : pc[v] = "none"}
           Less == {ss \in Nat \X Nat : ss[1] < ss[2]}
<1>1. S # {}
  <2> SUFFICES ASSUME S = {}
               PROVE  FALSE
    OBVIOUS
  <2>1. Spawned = Workers
    BY DEF Spawned
  <2>2. Cardinality(Spawned) = MaxWorkers
    BY <2>1, ThreadsFinite
  <2>3. Cardinality(AtSpawn) >= 1
    BY CountedPositive
  <2>4. Cardinality(AtIdle) \in Nat /\ Cardinality(AtSpawn) \in Nat
    BY CountedFinite
  <2> QED  BY <2>2, <2>3, <2>4, Numbers DEF WorkersCounted, TypeOK
<1>2. IsWellFoundedOn(Less, Nat)
  BY NatLessThanWellFounded DEF OpToRel
<1>3. S \subseteq Nat
  BY Numbers
<1>4. PICK x \in S : \A y \in S : ~(<<y, x>> \in Less)
  <2> HIDE DEF Less, S
  <2> QED  BY <1>1, <1>2, <1>3, WFMin
<1>5. \A u \in 1 .. x - 1 : pc[u] # "none"
  <2> SUFFICES ASSUME NEW u \in 1 .. x - 1, pc[u] = "none"
               PROVE  FALSE
    OBVIOUS
  <2>1. u \in S /\ u \in Nat /\ x \in Nat /\ u < x
    BY Numbers
  <2>2. <<u, x>> \in Less
    BY <2>1
  <2> QED  BY <1>4, <2>1, <2>2
<1> QED  BY <1>5 DEF NextWorker

-----------------------------------------------------------------------------
\* Every step preserves each part of the invariant.

LEMMA TypeStep ==
    TypeOK /\ Places /\ WorkersCounted /\ IdlersCounted /\ HoldsTaken /\ [Next]_vars => TypeOK'
<1> SUFFICES ASSUME TypeOK, Places, WorkersCounted, IdlersCounted, HoldsTaken, [Next]_vars
             PROVE  TypeOK'
  OBVIOUS
<1> USE DEF TypeOK, Threads, vars, pool, channels, kernel, answers, Go
<1>1. ASSUME NEW i \in Requests, Send(i)
      PROVE  TypeOK'
  BY <1>1 DEF Send
<1>2. ASSUME NEW w \in Threads, CountWorker(w)
      PROVE  TypeOK'
  <2>1. pc' \in {[pc EXCEPT ![w] = l] : l \in {"idle", "join", "dispatch"}}
    BY <1>2 DEF CountWorker, AddDone
  <2>2. workerCount' \in 0 .. MaxWorkers
    BY <1>2, Numbers DEF CountWorker
  <2> QED  BY <1>2, <2>1, <2>2 DEF CountWorker
<1>3. ASSUME NEW w \in Threads, CountIdle(w)
      PROVE  TypeOK'
  <2>1. idleCount' \in 0 .. MaxWorkers
    <3>1. Cardinality(AtIdle) >= 1 /\ Cardinality(AtIdle) \in Nat /\ Cardinality(AtWork) \in Nat
      BY <1>3, CountedPositive, CountedFinite DEF CountIdle
    <3>2. idleCount' = idleCount + 1
      BY <1>3 DEF CountIdle
    <3> QED  BY <3>1, <3>2, Numbers DEF IdlersCounted
  <2> QED  BY <1>3, <2>1 DEF CountIdle
<1>4. ASSUME NEW w \in Threads, Spawn(w)
      PROVE  TypeOK'
  BY <1>4, NextWorkerIsNew DEF Spawn
<1>5. ASSUME NEW w \in Threads, SendHandle(w)
      PROVE  TypeOK'
  <2>1. pc' \in {[pc EXCEPT ![w] = l] : l \in {"join", "dispatch"}}
    BY <1>5 DEF SendHandle, AddDone
  <2>2. handles' \in Seq(Workers)
    BY <1>5 DEF SendHandle, Places
  <2>3. connected' \in BOOLEAN /\ request' \in [Requests -> {"unsent", "queued", "taken", "done", "dropped", "unparsed", "aborted"}]
    BY <1>5, KernelEnds DEF SendHandle, Leave
  <2> QED  BY <1>5, <2>1, <2>2, <2>3 DEF SendHandle
<1>6. ASSUME NEW w \in Threads, SpawnFails(w)
      PROVE  TypeOK'
  <2>1. pc' \in {[pc EXCEPT ![w] = l] : l \in {"failed", "dispatch"}}
    BY <1>6 DEF SpawnFails
  <2>2. faults' \in 0 .. MaxFaults
    BY <1>6, Numbers DEF SpawnFails, Fault
  <2>3. connected' \in BOOLEAN /\ request' \in [Requests -> {"unsent", "queued", "taken", "done", "dropped", "unparsed", "aborted"}]
    BY <1>6, KernelEnds DEF SpawnFails
  <2> QED  BY <1>6, <2>1, <2>2, <2>3 DEF SpawnFails
<1>7. ASSUME NEW w \in Workers, NEW i \in Requests, Receive(w, i)
      PROVE  TypeOK'
  BY <1>7 DEF Receive, First
<1>8. ASSUME NEW w \in Workers, ReceiveEnds(w)
      PROVE  TypeOK'
  BY <1>8 DEF ReceiveEnds, Exit, Leave, Hangup, Aborted
<1>9. ASSUME NEW w \in Workers, Before(w)
      PROVE  TypeOK'
  <2>1. idleCount' \in 0 .. MaxWorkers
    <3>1. Cardinality(Idle) >= 1 /\ Cardinality(Idle) \in Nat /\ Cardinality(AtSpawn) \in Nat
      BY <1>9, CountedPositive, CountedFinite DEF Before, CountedIdle
    <3>2. idleCount' = idleCount - 1
      BY <1>9 DEF Before
    <3> QED  BY <3>1, <3>2, Numbers DEF IdlersCounted
  <2>2. pc' \in {[pc EXCEPT ![w] = l] : l \in {"count", "dispatch"}}
    BY <1>9 DEF Before
  <2> QED  BY <1>9, <2>1, <2>2 DEF Before
<1>10. ASSUME NEW w \in Workers, Dispatch(w)
      PROVE  TypeOK'
  <2>1. initialized' \in BOOLEAN
    BY <1>10 DEF Dispatch
  <2>2. refused' \subseteq Requests
    BY <1>10 DEF Dispatch, HoldsTaken, Busy
  <2> QED  BY <1>10, <2>1, <2>2 DEF Dispatch
<1>11. ASSUME NEW w \in Workers, After(w)
      PROVE  TypeOK'
  <2>1. idleCount' \in 0 .. MaxWorkers
    <3>1. Cardinality(AtWork) >= 1 /\ Cardinality(AtIdle) \in Nat /\ Cardinality(AtWork) \in Nat
      BY <1>11, CountedPositive, CountedFinite DEF After, Working
    <3>2. idleCount' = idleCount + 1
      BY <1>11 DEF After
    <3> QED  BY <3>1, <3>2, Numbers DEF IdlersCounted
  <2> QED  BY <1>11, <2>1 DEF After
<1>12. ASSUME NEW w \in Workers, Unwound(w)
      PROVE  TypeOK'
  BY <1>12 DEF Unwound, Exit, Leave, Hangup, Aborted
<1>13. ASSUME NEW w \in Workers, Handle(w)
      PROVE  TypeOK'
  <2>1. holds[w] \in Requests
    BY <1>13 DEF Handle, HoldsTaken, Busy
  <2>2. replies' \in [Requests -> Nat]
    <3>1. CASE replies' = replies
      BY <3>1
    <3>2. CASE replies' = [replies EXCEPT ![holds[w]] = @ + 1]
      BY <2>1, <3>2
    <3> QED  BY <1>13, <3>1, <3>2 DEF Handle, Replied
  <2>3. pc' \in {[pc EXCEPT ![w] = l] : l \in {"receive", "after"}}
    BY <1>13 DEF Handle
  <2>4. request' \in [Requests -> {"unsent", "queued", "taken", "done", "dropped", "unparsed", "aborted"}]
    BY <1>13, <2>1 DEF Handle, Becomes
  <2> QED  BY <1>13, <2>2, <2>3, <2>4 DEF Handle
<1>14. ASSUME NEW w \in Workers, ChannelFails(w)
      PROVE  TypeOK'
  <2>1. faults' \in 0 .. MaxFaults
    BY <1>14, Numbers DEF ChannelFails, Fault
  <2>2. connected' \in BOOLEAN /\ request' \in [Requests -> {"unsent", "queued", "taken", "done", "dropped", "unparsed", "aborted"}]
    BY <1>14, KernelEnds DEF ChannelFails, Exit, Leave
  <2> QED  BY <1>14, <2>1, <2>2 DEF ChannelFails, Exit
<1>15. ASSUME NEW w \in Workers, Panic(w)
      PROVE  TypeOK'
  <2>1. holds[w] \in Requests
    BY <1>15 DEF Panic, HoldsTaken, Busy
  <2>2. replies' \in [Requests -> Nat]
    <3>1. CASE replies' = replies
      BY <3>1
    <3>2. CASE replies' = [replies EXCEPT ![holds[w]] = @ + 1]
      BY <2>1, <3>2
    <3> QED  BY <1>15, <3>1, <3>2 DEF Panic, Replied
  <2>3. faults' \in 0 .. MaxFaults
    BY <1>15, Numbers DEF Panic, Fault
  <2>4. request' \in [Requests -> {"unsent", "queued", "taken", "done", "dropped", "unparsed", "aborted"}]
    BY <1>15, <2>1 DEF Panic, Becomes
  <2> QED  BY <1>15, <2>2, <2>3, <2>4 DEF Panic
<1>16. CASE Disconnect
  BY <1>16 DEF Disconnect, Hangup, Aborted
<1>17. CASE Interrupt
  BY <1>17 DEF Interrupt
<1>18. CASE WaiterReceives
  BY <1>18 DEF WaiterReceives
<1>19. CASE WaiterJoins
  BY <1>19 DEF WaiterJoins
<1>20. CASE WaiterEnds
  BY <1>20 DEF WaiterEnds
<1>21. CASE JoinReceives
  BY <1>21 DEF JoinReceives
<1>22. CASE Unmount
  BY <1>22 DEF Unmount, Hangup, Aborted
<1>23. CASE UNCHANGED vars
  BY <1>23 DEF vars
<1>24. ASSUME NEW w \in Workers, NEW i \in Requests, Malformed(w, i)
       PROVE  TypeOK'
  <2>1. faults' \in 0 .. MaxFaults
    BY <1>24, Numbers DEF Malformed, Fault
  <2> QED  BY <1>24, <2>1 DEF Malformed
<1> QED
  BY <1>1, <1>2, <1>3, <1>4, <1>5, <1>6, <1>7, <1>8, <1>9, <1>10, <1>11, <1>12, <1>13, <1>14, <1>15, <1>16, <1>17, <1>18, <1>19, <1>20, <1>21, <1>22, <1>23, <1>24
     DEF Next, Adds, Works, Waits, Joins, Ended, Threads

LEMMA PlacesStep ==
    TypeOK /\ Places /\ WorkersCounted /\ [Next]_vars => Places'
<1> SUFFICES ASSUME TypeOK, Places, WorkersCounted, [Next]_vars
             PROVE  Places'
  OBVIOUS
<1> USE DEF TypeOK, Places, Threads, vars, pool, channels, kernel, answers, Go
<1>1. ASSUME NEW i \in Requests, Send(i)
      PROVE  Places'
  BY <1>1 DEF Send
<1>2. ASSUME NEW w \in Threads, CountWorker(w)
      PROVE  Places'
  <2>1. PICK l \in {"idle", "join", "dispatch"} :
           /\ pc' = [pc EXCEPT ![w] = l]
           /\ w = Main => l # "dispatch"
           /\ w # Main => l \notin {"join", "failed"}
    BY <1>2 DEF CountWorker, AddDone
  <2>2. UNCHANGED child /\ Main \notin Workers
    BY <1>2, Numbers DEF CountWorker
  <2> HIDE DEF TypeOK, Places
  <2> QED  BY <2>1, <2>2, PlacesMove
<1>3. ASSUME NEW w \in Threads, CountIdle(w)
      PROVE  Places'
  BY <1>3 DEF CountIdle
<1>4. ASSUME NEW w \in Threads, Spawn(w)
      PROVE  Places'
  BY <1>4, NextWorkerIsNew DEF Spawn
<1>5. ASSUME NEW w \in Threads, SendHandle(w)
      PROVE  Places'
  <2>1. PICK l \in {"join", "dispatch"} :
           /\ pc' = [pc EXCEPT ![w] = l]
           /\ w = Main => l # "dispatch"
           /\ w # Main => l \notin {"join", "failed"}
    BY <1>5 DEF SendHandle, AddDone
  <2>2. UNCHANGED child /\ Main \notin Workers
    BY <1>5, Numbers DEF SendHandle
  <2> HIDE DEF TypeOK, Places
  <2> QED  BY <2>1, <2>2, PlacesMove
<1>6. ASSUME NEW w \in Threads, SpawnFails(w)
      PROVE  Places'
  <2>1. PICK l \in {"failed", "dispatch"} :
           /\ pc' = [pc EXCEPT ![w] = l]
           /\ w = Main => l # "dispatch"
           /\ w # Main => l \notin {"join", "failed"}
    BY <1>6 DEF SpawnFails, AddDone
  <2>2. UNCHANGED child /\ Main \notin Workers
    BY <1>6, Numbers DEF SpawnFails
  <2> HIDE DEF TypeOK, Places
  <2> QED  BY <2>1, <2>2, PlacesMove
<1>7. ASSUME NEW w \in Workers, NEW i \in Requests, Receive(w, i)
      PROVE  Places'
  BY <1>7 DEF Receive, First
<1>8. ASSUME NEW w \in Workers, ReceiveEnds(w)
      PROVE  Places'
  BY <1>8 DEF ReceiveEnds, Exit, Leave, Hangup, Aborted
<1>9. ASSUME NEW w \in Workers, Before(w)
      PROVE  Places'
  BY <1>9 DEF Before
<1>10. ASSUME NEW w \in Workers, Dispatch(w)
      PROVE  Places'
  BY <1>10 DEF Dispatch
<1>11. ASSUME NEW w \in Workers, After(w)
      PROVE  Places'
  BY <1>11 DEF After
<1>12. ASSUME NEW w \in Workers, Unwound(w)
      PROVE  Places'
  BY <1>12 DEF Unwound, Exit, Leave, Hangup, Aborted
<1>13. ASSUME NEW w \in Workers, Handle(w)
      PROVE  Places'
  BY <1>13 DEF Handle, Becomes, Replied
<1>14. ASSUME NEW w \in Workers, ChannelFails(w)
      PROVE  Places'
  BY <1>14 DEF ChannelFails, Fault, Exit, Leave, Hangup, Aborted
<1>15. ASSUME NEW w \in Workers, Panic(w)
      PROVE  Places'
  BY <1>15 DEF Panic, Fault, Becomes, Replied
<1>16. CASE Disconnect
  BY <1>16 DEF Disconnect, Hangup, Aborted
<1>17. CASE Interrupt
  BY <1>17 DEF Interrupt
<1>18. CASE WaiterReceives
  BY <1>18 DEF WaiterReceives
<1>19. CASE WaiterJoins
  BY <1>19 DEF WaiterJoins
<1>20. CASE WaiterEnds
  BY <1>20 DEF WaiterEnds
<1>21. CASE JoinReceives
  BY <1>21 DEF JoinReceives
<1>22. CASE Unmount
  BY <1>22 DEF Unmount, Hangup, Aborted
<1>23. CASE UNCHANGED vars
  BY <1>23 DEF vars
<1>24. ASSUME NEW w \in Workers, NEW i \in Requests, Malformed(w, i)
       PROVE  Places'
  BY <1>24 DEF Malformed, First, Fault
<1> QED
  BY <1>1, <1>2, <1>3, <1>4, <1>5, <1>6, <1>7, <1>8, <1>9, <1>10, <1>11, <1>12, <1>13, <1>14, <1>15, <1>16, <1>17, <1>18, <1>19, <1>20, <1>21, <1>22, <1>23, <1>24
     DEF Next, Adds, Works, Waits, Joins, Ended, Threads

LEMMA ExitsStep ==
    TypeOK /\ ExitsJustified /\ WorkersCounted /\ [Next]_vars => ExitsJustified'
<1> SUFFICES ASSUME TypeOK, ExitsJustified, WorkersCounted, [Next]_vars
             PROVE  ExitsJustified'
  OBVIOUS
<1> USE DEF TypeOK, ExitsJustified, Threads, vars, pool, channels, kernel, answers, Go
<1>1. ASSUME NEW i \in Requests, Send(i)
      PROVE  ExitsJustified'
  BY <1>1 DEF Send
<1>2. ASSUME NEW w \in Threads, CountWorker(w)
      PROVE  ExitsJustified'
  BY <1>2 DEF CountWorker, AddDone
<1>3. ASSUME NEW w \in Threads, CountIdle(w)
      PROVE  ExitsJustified'
  BY <1>3 DEF CountIdle
<1>4. ASSUME NEW w \in Threads, Spawn(w)
      PROVE  ExitsJustified'
  BY <1>4, NextWorkerIsNew DEF Spawn
<1>5. ASSUME NEW w \in Threads, SendHandle(w)
      PROVE  ExitsJustified'
  BY <1>5 DEF SendHandle, AddDone, Leave, Hangup, Aborted
<1>6. ASSUME NEW w \in Threads, SpawnFails(w)
      PROVE  ExitsJustified'
  BY <1>6 DEF SpawnFails, Fault, Hangup, Aborted
<1>7. ASSUME NEW w \in Workers, NEW i \in Requests, Receive(w, i)
      PROVE  ExitsJustified'
  BY <1>7 DEF Receive, First
<1>8. ASSUME NEW w \in Workers, ReceiveEnds(w)
      PROVE  ExitsJustified'
  BY <1>8 DEF ReceiveEnds, Exit, Leave, Hangup, Aborted
<1>9. ASSUME NEW w \in Workers, Before(w)
      PROVE  ExitsJustified'
  BY <1>9 DEF Before
<1>10. ASSUME NEW w \in Workers, Dispatch(w)
      PROVE  ExitsJustified'
  BY <1>10 DEF Dispatch
<1>11. ASSUME NEW w \in Workers, After(w)
      PROVE  ExitsJustified'
  BY <1>11 DEF After
<1>12. ASSUME NEW w \in Workers, Unwound(w)
      PROVE  ExitsJustified'
  BY <1>12 DEF Unwound, Exit, Leave, Hangup, Aborted
<1>13. ASSUME NEW w \in Workers, Handle(w)
      PROVE  ExitsJustified'
  BY <1>13 DEF Handle, Becomes, Replied
<1>14. ASSUME NEW w \in Workers, ChannelFails(w)
      PROVE  ExitsJustified'
  BY <1>14 DEF ChannelFails, Fault, Exit, Leave, Hangup, Aborted
<1>15. ASSUME NEW w \in Workers, Panic(w)
      PROVE  ExitsJustified'
  BY <1>15 DEF Panic, Fault, Becomes, Replied
<1>16. CASE Disconnect
  BY <1>16 DEF Disconnect, Hangup, Aborted
<1>17. CASE Interrupt
  BY <1>17 DEF Interrupt
<1>18. CASE WaiterReceives
  BY <1>18 DEF WaiterReceives
<1>19. CASE WaiterJoins
  BY <1>19 DEF WaiterJoins
<1>20. CASE WaiterEnds
  BY <1>20 DEF WaiterEnds
<1>21. CASE JoinReceives
  BY <1>21 DEF JoinReceives
<1>22. CASE Unmount
  BY <1>22 DEF Unmount, Hangup, Aborted
<1>23. CASE UNCHANGED vars
  BY <1>23 DEF vars
<1>24. ASSUME NEW w \in Workers, NEW i \in Requests, Malformed(w, i)
       PROVE  ExitsJustified'
  BY <1>24 DEF Malformed, First, Fault
<1> QED
  BY <1>1, <1>2, <1>3, <1>4, <1>5, <1>6, <1>7, <1>8, <1>9, <1>10, <1>11, <1>12, <1>13, <1>14, <1>15, <1>16, <1>17, <1>18, <1>19, <1>20, <1>21, <1>22, <1>23, <1>24
     DEF Next, Adds, Works, Waits, Joins, Ended, Threads

\* The counters follow the numbers of the sets.
LEMMA CountersChange ==
    ASSUME TypeOK, WorkersCounted, IdlersCounted,
           NEW a \in Int, NEW b \in Int, NEW c \in Int, NEW d \in Int, NEW e \in Int, NEW f \in Int,
           Change(a, b, c, d, e, f),
           NEW x \in Int, NEW y \in Int, NEW z \in Nat,
           workerCount' = workerCount + x, idleCount' = idleCount + y, faults' = faults + z,
           x >= a + b + c, y >= d + c, y + b + f <= x,
           faults + z = 0 => x = a + b + c /\ y = e + c
    PROVE  WorkersCounted' /\ IdlersCounted'
<1>1. workerCount \in Int /\ idleCount \in Int /\ faults \in Nat
  BY DEF TypeOK
<1>2. faults' = 0 => faults = 0 /\ x = a + b + c /\ y = e + c
  BY <1>1
<1>3. /\ Cardinality(Spawned) \in Nat /\ Cardinality(AtIdle) \in Nat /\ Cardinality(AtSpawn) \in Nat
      /\ Cardinality(Idle) \in Nat /\ Cardinality(IdleOrGone) \in Nat /\ Cardinality(AtWork) \in Nat
  BY CountedFinite
<1>4. WorkersCounted'
  BY <1>1, <1>2, <1>3 DEF WorkersCounted, Change
<1>5. IdlersCounted'
  BY <1>1, <1>2, <1>3 DEF IdlersCounted, Change
<1> QED  BY <1>4, <1>5

\* A thread that spawns a worker leaves its place to it.
LEMMA WorkerSpawned ==
    ASSUME TypeOK, NEW w \in Threads, NEW v \in Workers, v # w, pc[w] = "spawn", pc[v] = "none",
           pc' = [pc EXCEPT ![w] = "handle", ![v] = "receive"], UNCHANGED holds
    PROVE  Change(1, 0, -1, 1, 1, 0)
<1>1. pc'[w] = "handle" /\ pc'[v] = "receive" /\ \A u \in Threads : u # w /\ u # v => pc'[u] = pc[u]
  BY DEF TypeOK, Threads
<1>2. v \in Threads /\ Workers \subseteq Threads
  BY DEF Threads
<1>3. /\ Spawned \ {v} = Spawned' \ {v} /\ v \notin Spawned /\ v \in Spawned'
      /\ AtIdle = AtIdle'
      /\ AtSpawn \ {w} = AtSpawn' \ {w} /\ w \in AtSpawn /\ w \notin AtSpawn'
  BY <1>1, <1>2 DEF Spawned, AtIdle, AtSpawn
<1>4. \A u \in Workers : u # v => CountedIdle(u)' = CountedIdle(u)
  BY <1>1, <1>2 DEF CountedIdle, IsForget
<1>5. ~CountedIdle(v) /\ CountedIdle(v)'
  BY <1>1 DEF CountedIdle
<1>6. /\ Idle \ {v} = Idle' \ {v} /\ v \notin Idle /\ v \in Idle'
      /\ IdleOrGone \ {v} = IdleOrGone' \ {v} /\ v \notin IdleOrGone /\ v \in IdleOrGone'
  BY <1>1, <1>2, <1>4, <1>5 DEF Idle, IdleOrGone
<1>7. AtWork' = AtWork
  BY <1>1, <1>2 DEF AtWork, IsForget
<1>8. /\ Cardinality(Spawned') + N(v \in Spawned) = Cardinality(Spawned) + N(v \in Spawned')
      /\ Cardinality(Spawned') \in Nat
  BY <1>3, CardStep, CountedFinite
<1>9. /\ Cardinality(AtSpawn') + N(w \in AtSpawn) = Cardinality(AtSpawn) + N(w \in AtSpawn')
      /\ Cardinality(AtSpawn') \in Nat
  BY <1>3, CardStep, CountedFinite
<1>10. /\ Cardinality(Idle') + N(v \in Idle) = Cardinality(Idle) + N(v \in Idle')
       /\ Cardinality(Idle') \in Nat
  BY <1>6, CardStep, CountedFinite
<1>11. /\ Cardinality(IdleOrGone') + N(v \in IdleOrGone) = Cardinality(IdleOrGone) + N(v \in IdleOrGone')
       /\ Cardinality(IdleOrGone') \in Nat
  BY <1>6, CardStep, CountedFinite
<1>12. /\ N(v \in Spawned) = 0 /\ N(v \in Spawned') = 1
       /\ N(w \in AtSpawn) = 1 /\ N(w \in AtSpawn') = 0
       /\ N(v \in Idle) = 0 /\ N(v \in Idle') = 1
       /\ N(v \in IdleOrGone) = 0 /\ N(v \in IdleOrGone') = 1
  BY <1>3, <1>6 DEF N
<1> QED  BY <1>3, <1>7, <1>8, <1>9, <1>10, <1>11, <1>12, CountedFinite DEF Change

LEMMA CountersStep ==
    TypeOK /\ Places /\ ExitsJustified /\ HoldsTaken /\ WorkersCounted /\ IdlersCounted /\ [Next]_vars => WorkersCounted' /\ IdlersCounted'
<1> SUFFICES ASSUME TypeOK, Places, ExitsJustified, HoldsTaken, WorkersCounted, IdlersCounted, [Next]_vars
             PROVE  WorkersCounted' /\ IdlersCounted'
  OBVIOUS
<1> USE DEF vars, pool, channels, kernel, answers, Go
<1>1. ASSUME NEW i \in Requests, Send(i)
      PROVE  WorkersCounted' /\ IdlersCounted'
  BY <1>1, NobodyMoves, CountedFinite, SMTT(30) DEF Send, Change, WorkersCounted, IdlersCounted, TypeOK
<1>2. ASSUME NEW w \in Threads, CountWorker(w)
      PROVE  WorkersCounted' /\ IdlersCounted'
  <2>1. CASE workerCount < MaxWorkers
    <3>1. CASE w = Main
      <4>1. /\ pc[Main] = "count" /\ pc' = [pc EXCEPT ![Main] = "idle"] /\ UNCHANGED holds
            /\ workerCount' = workerCount + 1 /\ idleCount' = idleCount + 0 /\ faults' = faults + 0
        BY <1>2, <3>1, <2>1 DEF TypeOK, CountWorker, AddDone
      <4>2. Main \notin Workers /\ faults \in Nat
        BY <4>1, Numbers DEF TypeOK
      <4>3. /\ \A v \in Threads : v # Main => pc'[v] = pc[v]
            /\ \A v \in Workers : v # Main => holds'[v] = holds[v]
            /\ pc'[Main] = "idle" /\ Main \in Threads
        BY <1>2, <3>1, <2>1, <4>1 DEF TypeOK, Threads
      <4>5. Change(0, 1, 0, 0, 0, 0)
        BY <4>1, <4>2, <4>3, OneMoves, CountedFinite DEF Change, N
      <4> QED  BY <4>1, <4>2, <4>5, CountersChange
    <3>2. CASE ~(w = Main)
      <4>1. /\ pc[w] = "count" /\ pc' = [pc EXCEPT ![w] = "idle"] /\ UNCHANGED holds
            /\ workerCount' = workerCount + 1 /\ idleCount' = idleCount + 0 /\ faults' = faults + 0
        BY <1>2, <3>2, <2>1 DEF TypeOK, CountWorker, AddDone
      <4>2. w \in Workers /\ ~IsForget(w) /\ ~IsForget(w)' /\ faults \in Nat
        BY <3>2, <4>1, Adder
      <4>3. /\ \A v \in Threads : v # w => pc'[v] = pc[v]
            /\ \A v \in Workers : v # w => holds'[v] = holds[v]
            /\ pc'[w] = "idle" /\ w \in Threads
        BY <1>2, <3>2, <2>1, <4>1 DEF TypeOK, Threads
      <4>4. /\ ~CountedIdle(w) /\ ~CountedIdle(w)' /\ Working(w) /\ Working(w)'
        BY <4>1, <4>2, <4>3 DEF TypeOK, CountedIdle, Working, IsForget
      <4>5. Change(0, 1, 0, 0, 0, 0)
        BY <4>1, <4>2, <4>3, <4>4, OneMoves, CountedFinite DEF Change, N
      <4> QED  BY <4>1, <4>2, <4>5, CountersChange
    <3> QED  BY <3>1, <3>2
  <2>2. CASE ~(workerCount < MaxWorkers)
    <3>1. CASE w = Main
      <4>1. /\ pc[Main] = "count" /\ pc' = [pc EXCEPT ![Main] = "join"] /\ UNCHANGED holds
            /\ workerCount' = workerCount + 0 /\ idleCount' = idleCount + 0 /\ faults' = faults + 0
        BY <1>2, <3>1, <2>2 DEF TypeOK, CountWorker, AddDone
      <4>2. Main \notin Workers /\ faults \in Nat
        BY <4>1, Numbers DEF TypeOK
      <4>3. /\ \A v \in Threads : v # Main => pc'[v] = pc[v]
            /\ \A v \in Workers : v # Main => holds'[v] = holds[v]
            /\ pc'[Main] = "join" /\ Main \in Threads
        BY <1>2, <3>1, <2>2, <4>1 DEF TypeOK, Threads
      <4>5. Change(0, 0, 0, 0, 0, 0)
        BY <4>1, <4>2, <4>3, OneMoves, CountedFinite DEF Change, N
      <4> QED  BY <4>1, <4>2, <4>5, CountersChange
    <3>2. CASE ~(w = Main)
      <4>1. /\ pc[w] = "count" /\ pc' = [pc EXCEPT ![w] = "dispatch"] /\ UNCHANGED holds
            /\ workerCount' = workerCount + 0 /\ idleCount' = idleCount + 0 /\ faults' = faults + 0
        BY <1>2, <3>2, <2>2 DEF TypeOK, CountWorker, AddDone
      <4>2. w \in Workers /\ ~IsForget(w) /\ ~IsForget(w)' /\ faults \in Nat
        BY <3>2, <4>1, Adder
      <4>3. /\ \A v \in Threads : v # w => pc'[v] = pc[v]
            /\ \A v \in Workers : v # w => holds'[v] = holds[v]
            /\ pc'[w] = "dispatch" /\ w \in Threads
        BY <1>2, <3>2, <2>2, <4>1 DEF TypeOK, Threads
      <4>4. /\ ~CountedIdle(w) /\ ~CountedIdle(w)' /\ Working(w) /\ Working(w)'
        BY <4>1, <4>2, <4>3 DEF TypeOK, CountedIdle, Working, IsForget
      <4>5. Change(0, 0, 0, 0, 0, 0)
        BY <4>1, <4>2, <4>3, <4>4, OneMoves, CountedFinite DEF Change, N
      <4> QED  BY <4>1, <4>2, <4>5, CountersChange
    <3> QED  BY <3>1, <3>2
  <2> QED  BY <2>1, <2>2
<1>3. ASSUME NEW w \in Threads, CountIdle(w)
      PROVE  WorkersCounted' /\ IdlersCounted'
  <2>1. CASE w = Main
    <3>1. /\ pc[Main] = "idle" /\ pc' = [pc EXCEPT ![Main] = "spawn"] /\ UNCHANGED holds
          /\ workerCount' = workerCount + 0 /\ idleCount' = idleCount + 1 /\ faults' = faults + 0
      BY <1>3, <2>1 DEF TypeOK, CountIdle
    <3>2. Main \notin Workers /\ faults \in Nat
      BY <3>1, Numbers DEF TypeOK
    <3>3. /\ \A v \in Threads : v # Main => pc'[v] = pc[v]
          /\ \A v \in Workers : v # Main => holds'[v] = holds[v]
          /\ pc'[Main] = "spawn" /\ Main \in Threads
      BY <1>3, <2>1, <3>1 DEF TypeOK, Threads
    <3>5. Change(0, -1, 1, 0, 0, 0)
      BY <3>1, <3>2, <3>3, OneMoves, CountedFinite DEF Change, N
    <3> QED  BY <3>1, <3>2, <3>5, CountersChange
  <2>2. CASE ~(w = Main)
    <3>1. /\ pc[w] = "idle" /\ pc' = [pc EXCEPT ![w] = "spawn"] /\ UNCHANGED holds
          /\ workerCount' = workerCount + 0 /\ idleCount' = idleCount + 1 /\ faults' = faults + 0
      BY <1>3, <2>2 DEF TypeOK, CountIdle
    <3>2. w \in Workers /\ ~IsForget(w) /\ ~IsForget(w)' /\ faults \in Nat
      BY <2>2, <3>1, Adder
    <3>3. /\ \A v \in Threads : v # w => pc'[v] = pc[v]
          /\ \A v \in Workers : v # w => holds'[v] = holds[v]
          /\ pc'[w] = "spawn" /\ w \in Threads
      BY <1>3, <2>2, <3>1 DEF TypeOK, Threads
    <3>4. /\ ~CountedIdle(w) /\ ~CountedIdle(w)' /\ Working(w) /\ Working(w)'
      BY <3>1, <3>2, <3>3 DEF TypeOK, CountedIdle, Working, IsForget
    <3>5. /\ N(w \in Workers /\ pc[w] # "none") = 1 /\ N(w \in Workers /\ pc'[w] # "none") = 1
          /\ N(pc[w] = "idle") = 1 /\ N(pc'[w] = "idle") = 0
          /\ N(pc[w] = "spawn") = 0 /\ N(pc'[w] = "spawn") = 1
          /\ N(w \in Workers /\ CountedIdle(w)) = 0 /\ N(w \in Workers /\ CountedIdle(w)') = 0
          /\ N(w \in Workers /\ (CountedIdle(w) \/ pc[w] = "exited")) = 0
          /\ N(w \in Workers /\ (CountedIdle(w)' \/ pc'[w] = "exited")) = 0
          /\ N(w \in Workers /\ Working(w)) = 1 /\ N(w \in Workers /\ Working(w)') = 1
      BY <3>1, <3>2, <3>3, <3>4 DEF N
    <3>6. Change(0, -1, 1, 0, 0, 0)
      BY <3>3, <3>5, OneMoves, CountedFinite DEF Change
    <3> QED  BY <3>1, <3>2, <3>6, CountersChange, SMTT(30)
  <2> QED  BY <2>1, <2>2
<1>4. ASSUME NEW w \in Threads, Spawn(w)
      PROVE  WorkersCounted' /\ IdlersCounted'
  <2>1. NextWorker \in Workers /\ pc[NextWorker] = "none"
    BY <1>4, NextWorkerIsNew DEF Spawn
  <2>2. PICK v \in Workers : v = NextWorker
    BY <2>1
  <2>3. /\ pc[w] = "spawn" /\ pc[v] = "none" /\ v # w
        /\ pc' = [pc EXCEPT ![w] = "handle", ![v] = "receive"] /\ UNCHANGED holds
        /\ workerCount' = workerCount + 0 /\ idleCount' = idleCount + 0 /\ faults' = faults + 0
    BY <1>4, <2>1, <2>2 DEF Spawn, TypeOK
  <2>4. Change(1, 0, -1, 1, 1, 0)
    BY <2>3, WorkerSpawned DEF Threads
  <2> QED  BY <2>3, <2>4, CountersChange, SMTT(30)
<1>5. ASSUME NEW w \in Threads, SendHandle(w)
      PROVE  WorkersCounted' /\ IdlersCounted'
  <2>1. CASE w = Main
    <3>1. /\ pc[Main] = "handle" /\ pc' = [pc EXCEPT ![Main] = "join"] /\ UNCHANGED holds
          /\ workerCount' = workerCount + 0 /\ idleCount' = idleCount + 0 /\ faults' = faults + 0
      BY <1>5, <2>1 DEF TypeOK, SendHandle, AddDone, Leave, Hangup, Aborted
    <3>2. Main \notin Workers /\ faults \in Nat
      BY <3>1, Numbers DEF TypeOK
    <3>3. /\ \A v \in Threads : v # Main => pc'[v] = pc[v]
          /\ \A v \in Workers : v # Main => holds'[v] = holds[v]
          /\ pc'[Main] = "join" /\ Main \in Threads
      BY <1>5, <2>1, <3>1 DEF TypeOK, Threads
    <3>5. Change(0, 0, 0, 0, 0, 0)
      BY <3>1, <3>2, <3>3, OneMoves, CountedFinite DEF Change, N
    <3> QED  BY <3>1, <3>2, <3>5, CountersChange
  <2>2. CASE ~(w = Main)
    <3>1. /\ pc[w] = "handle" /\ pc' = [pc EXCEPT ![w] = "dispatch"] /\ UNCHANGED holds
          /\ workerCount' = workerCount + 0 /\ idleCount' = idleCount + 0 /\ faults' = faults + 0
      BY <1>5, <2>2 DEF TypeOK, SendHandle, AddDone, Leave, Hangup, Aborted
    <3>2. w \in Workers /\ ~IsForget(w) /\ ~IsForget(w)' /\ faults \in Nat
      BY <2>2, <3>1, Adder
    <3>3. /\ \A v \in Threads : v # w => pc'[v] = pc[v]
          /\ \A v \in Workers : v # w => holds'[v] = holds[v]
          /\ pc'[w] = "dispatch" /\ w \in Threads
      BY <1>5, <2>2, <3>1 DEF TypeOK, Threads
    <3>4. /\ ~CountedIdle(w) /\ ~CountedIdle(w)' /\ Working(w) /\ Working(w)'
      BY <3>1, <3>2, <3>3 DEF TypeOK, CountedIdle, Working, IsForget
    <3>5. Change(0, 0, 0, 0, 0, 0)
      BY <3>1, <3>2, <3>3, <3>4, OneMoves, CountedFinite DEF Change, N
    <3> QED  BY <3>1, <3>2, <3>5, CountersChange
  <2> QED  BY <2>1, <2>2
<1>6. ASSUME NEW w \in Threads, SpawnFails(w)
      PROVE  WorkersCounted' /\ IdlersCounted'
  <2>1. CASE w = Main
    <3>1. /\ pc[Main] = "spawn" /\ pc' = [pc EXCEPT ![Main] = "failed"] /\ UNCHANGED holds
          /\ workerCount' = workerCount + 0 /\ idleCount' = idleCount + 0 /\ faults' = faults + 1
      BY <1>6, <2>1 DEF TypeOK, SpawnFails, Fault, Hangup, Aborted
    <3>2. Main \notin Workers /\ faults \in Nat
      BY <3>1, Numbers DEF TypeOK
    <3>3. /\ \A v \in Threads : v # Main => pc'[v] = pc[v]
          /\ \A v \in Workers : v # Main => holds'[v] = holds[v]
          /\ pc'[Main] = "failed" /\ Main \in Threads
      BY <1>6, <2>1, <3>1 DEF TypeOK, Threads
    <3>5. Change(0, 0, -1, 0, 0, 0)
      BY <3>1, <3>2, <3>3, OneMoves, CountedFinite DEF Change, N
    <3> QED  BY <3>1, <3>2, <3>5, CountersChange
  <2>2. CASE ~(w = Main)
    <3>1. /\ pc[w] = "spawn" /\ pc' = [pc EXCEPT ![w] = "dispatch"] /\ UNCHANGED holds
          /\ workerCount' = workerCount + 0 /\ idleCount' = idleCount + 0 /\ faults' = faults + 1
      BY <1>6, <2>2 DEF TypeOK, SpawnFails, Fault, Hangup, Aborted
    <3>2. w \in Workers /\ ~IsForget(w) /\ ~IsForget(w)' /\ faults \in Nat
      BY <2>2, <3>1, Adder
    <3>3. /\ \A v \in Threads : v # w => pc'[v] = pc[v]
          /\ \A v \in Workers : v # w => holds'[v] = holds[v]
          /\ pc'[w] = "dispatch" /\ w \in Threads
      BY <1>6, <2>2, <3>1 DEF TypeOK, Threads
    <3>4. /\ ~CountedIdle(w) /\ ~CountedIdle(w)' /\ Working(w) /\ Working(w)'
      BY <3>1, <3>2, <3>3 DEF TypeOK, CountedIdle, Working, IsForget
    <3>5. Change(0, 0, -1, 0, 0, 0)
      BY <3>1, <3>2, <3>3, <3>4, OneMoves, CountedFinite DEF Change, N
    <3> QED  BY <3>1, <3>2, <3>5, CountersChange
  <2> QED  BY <2>1, <2>2
<1>7. ASSUME NEW w \in Workers, NEW i \in Requests, Receive(w, i)
      PROVE  WorkersCounted' /\ IdlersCounted'
  <2>1. CASE Kinds[i] = "forget"
    <3>1. /\ pc[w] = "receive" /\ pc' = [pc EXCEPT ![w] = "dispatch"] /\ holds' = [holds EXCEPT ![w] = i]
          /\ workerCount' = workerCount + 0 /\ idleCount' = idleCount + 0 /\ faults' = faults + 0
      BY <1>7, <2>1 DEF TypeOK, Receive
    <3>2. holds'[w] = i
      BY <3>1, Numbers DEF TypeOK
    <3>3. /\ \A v \in Threads : v # w => pc'[v] = pc[v]
          /\ \A v \in Workers : v # w => holds'[v] = holds[v]
          /\ pc'[w] = "dispatch" /\ w \in Threads
      BY <1>7, <2>1, <3>1 DEF TypeOK, Threads
    <3>4. /\ CountedIdle(w) /\ CountedIdle(w)' /\ ~Working(w) /\ ~Working(w)'
      BY <2>1, <3>1, <3>2, <3>3 DEF TypeOK, CountedIdle, Working, IsForget
    <3>5. Change(0, 0, 0, 0, 0, 0)
      BY <3>1, <3>2, <3>3, <3>4, OneMoves, CountedFinite DEF Change, N
    <3> QED  BY <3>1, <3>2, <3>5, CountersChange
  <2>2. CASE ~(Kinds[i] = "forget")
    <3>1. /\ pc[w] = "receive" /\ pc' = [pc EXCEPT ![w] = "before"] /\ holds' = [holds EXCEPT ![w] = i]
          /\ workerCount' = workerCount + 0 /\ idleCount' = idleCount + 0 /\ faults' = faults + 0
      BY <1>7, <2>2 DEF TypeOK, Receive
    <3>2. holds'[w] = i
      BY <3>1, Numbers DEF TypeOK
    <3>3. /\ \A v \in Threads : v # w => pc'[v] = pc[v]
          /\ \A v \in Workers : v # w => holds'[v] = holds[v]
          /\ pc'[w] = "before" /\ w \in Threads
      BY <1>7, <2>2, <3>1 DEF TypeOK, Threads
    <3>4. /\ CountedIdle(w) /\ CountedIdle(w)' /\ ~Working(w) /\ ~Working(w)'
      BY <2>2, <3>1, <3>2, <3>3 DEF TypeOK, CountedIdle, Working, IsForget
    <3>5. Change(0, 0, 0, 0, 0, 0)
      BY <3>1, <3>2, <3>3, <3>4, OneMoves, CountedFinite DEF Change, N
    <3> QED  BY <3>1, <3>2, <3>5, CountersChange
  <2> QED  BY <2>1, <2>2
<1>8. ASSUME NEW w \in Workers, ReceiveEnds(w)
      PROVE  WorkersCounted' /\ IdlersCounted'
  <2>1. /\ pc[w] = "receive" /\ pc' = [pc EXCEPT ![w] = "exited"] /\ UNCHANGED holds
        /\ workerCount' = workerCount + 0 /\ idleCount' = idleCount + 0 /\ faults' = faults + 0
    BY <1>8 DEF TypeOK, ReceiveEnds, Exit, Leave, Hangup, Aborted
  <2>3. /\ \A v \in Threads : v # w => pc'[v] = pc[v]
        /\ \A v \in Workers : v # w => holds'[v] = holds[v]
        /\ pc'[w] = "exited" /\ w \in Threads
    BY <1>8, <2>1 DEF TypeOK, Threads
  <2>4. /\ CountedIdle(w) /\ ~CountedIdle(w)' /\ ~Working(w) /\ ~Working(w)'
    BY <2>1, <2>3 DEF TypeOK, CountedIdle, Working, IsForget
  <2>5. Change(0, 0, 0, -1, 0, 0)
    BY <2>1, <2>3, <2>4, OneMoves, CountedFinite DEF Change, N
  <2> QED  BY <2>1, <2>5, CountersChange
<1>9. ASSUME NEW w \in Workers, Before(w)
      PROVE  WorkersCounted' /\ IdlersCounted'
  <2>1. CASE idleCount = 1
    <3>1. /\ pc[w] = "before" /\ pc' = [pc EXCEPT ![w] = "count"] /\ UNCHANGED holds
          /\ workerCount' = workerCount + 0 /\ idleCount' = idleCount + (-1) /\ faults' = faults + 0
      BY <1>9, <2>1 DEF TypeOK, Before
    <3>2. w \in Workers /\ ~IsForget(w) /\ ~IsForget(w)'
      BY <3>1, Numbers DEF HoldsTaken, Busy, IsForget
    <3>3. /\ \A v \in Threads : v # w => pc'[v] = pc[v]
          /\ \A v \in Workers : v # w => holds'[v] = holds[v]
          /\ pc'[w] = "count" /\ w \in Threads
      BY <1>9, <2>1, <3>1 DEF TypeOK, Threads
    <3>4. /\ CountedIdle(w) /\ ~CountedIdle(w)' /\ ~Working(w) /\ Working(w)'
      BY <3>1, <3>2, <3>3 DEF TypeOK, CountedIdle, Working, IsForget
    <3>5. Change(0, 0, 0, -1, -1, 1)
      BY <3>1, <3>2, <3>3, <3>4, OneMoves, CountedFinite DEF Change, N
    <3> QED  BY <3>1, <3>2, <3>5, CountersChange, SMTT(30)
  <2>2. CASE ~(idleCount = 1)
    <3>1. /\ pc[w] = "before" /\ pc' = [pc EXCEPT ![w] = "dispatch"] /\ UNCHANGED holds
          /\ workerCount' = workerCount + 0 /\ idleCount' = idleCount + (-1) /\ faults' = faults + 0
      BY <1>9, <2>2 DEF TypeOK, Before
    <3>2. w \in Workers /\ ~IsForget(w) /\ ~IsForget(w)'
      BY <3>1, Numbers DEF HoldsTaken, Busy, IsForget
    <3>3. /\ \A v \in Threads : v # w => pc'[v] = pc[v]
          /\ \A v \in Workers : v # w => holds'[v] = holds[v]
          /\ pc'[w] = "dispatch" /\ w \in Threads
      BY <1>9, <2>2, <3>1 DEF TypeOK, Threads
    <3>4. /\ CountedIdle(w) /\ ~CountedIdle(w)' /\ ~Working(w) /\ Working(w)'
      BY <3>1, <3>2, <3>3 DEF TypeOK, CountedIdle, Working, IsForget
    <3>5. Change(0, 0, 0, -1, -1, 1)
      BY <3>1, <3>2, <3>3, <3>4, OneMoves, CountedFinite DEF Change, N
    <3> QED  BY <3>1, <3>2, <3>5, CountersChange, SMTT(30)
  <2> QED  BY <2>1, <2>2
<1>10. ASSUME NEW w \in Workers, Dispatch(w)
      PROVE  WorkersCounted' /\ IdlersCounted'
  <2>1. CASE IsForget(w)
    <3>1. /\ pc[w] = "dispatch" /\ pc' = [pc EXCEPT ![w] = "handler"] /\ UNCHANGED holds
          /\ workerCount' = workerCount + 0 /\ idleCount' = idleCount + 0 /\ faults' = faults + 0
      BY <1>10, <2>1 DEF TypeOK, Dispatch
    <3>2. IsForget(w) /\ IsForget(w)'
      BY <2>1, <3>1 DEF IsForget, TypeOK
    <3>3. /\ \A v \in Threads : v # w => pc'[v] = pc[v]
          /\ \A v \in Workers : v # w => holds'[v] = holds[v]
          /\ pc'[w] = "handler" /\ w \in Threads
      BY <1>10, <2>1, <3>1 DEF TypeOK, Threads
    <3>4. /\ CountedIdle(w) /\ CountedIdle(w)' /\ ~Working(w) /\ ~Working(w)'
      BY <3>1, <3>2, <3>3 DEF TypeOK, CountedIdle, Working, IsForget
    <3>5. Change(0, 0, 0, 0, 0, 0)
      BY <3>1, <3>2, <3>3, <3>4, OneMoves, CountedFinite DEF Change, N
    <3> QED  BY <3>1, <3>2, <3>5, CountersChange
  <2>2. CASE ~(IsForget(w))
    <3>1. /\ pc[w] = "dispatch" /\ pc' = [pc EXCEPT ![w] = "handler"] /\ UNCHANGED holds
          /\ workerCount' = workerCount + 0 /\ idleCount' = idleCount + 0 /\ faults' = faults + 0
      BY <1>10, <2>2 DEF TypeOK, Dispatch
    <3>2. ~IsForget(w) /\ ~IsForget(w)'
      BY <2>2, <3>1 DEF IsForget, TypeOK
    <3>3. /\ \A v \in Threads : v # w => pc'[v] = pc[v]
          /\ \A v \in Workers : v # w => holds'[v] = holds[v]
          /\ pc'[w] = "handler" /\ w \in Threads
      BY <1>10, <2>2, <3>1 DEF TypeOK, Threads
    <3>4. /\ ~CountedIdle(w) /\ ~CountedIdle(w)' /\ Working(w) /\ Working(w)'
      BY <3>1, <3>2, <3>3 DEF TypeOK, CountedIdle, Working, IsForget
    <3>5. Change(0, 0, 0, 0, 0, 0)
      BY <3>1, <3>2, <3>3, <3>4, OneMoves, CountedFinite DEF Change, N
    <3> QED  BY <3>1, <3>2, <3>5, CountersChange
  <2> QED  BY <2>1, <2>2
<1>11. ASSUME NEW w \in Workers, After(w)
      PROVE  WorkersCounted' /\ IdlersCounted'
  <2>1. /\ pc[w] = "after" /\ pc' = [pc EXCEPT ![w] = "receive"] /\ UNCHANGED holds
        /\ workerCount' = workerCount + 0 /\ idleCount' = idleCount + 1 /\ faults' = faults + 0
    BY <1>11 DEF TypeOK, After
  <2>3. /\ \A v \in Threads : v # w => pc'[v] = pc[v]
        /\ \A v \in Workers : v # w => holds'[v] = holds[v]
        /\ pc'[w] = "receive" /\ w \in Threads
    BY <1>11, <2>1 DEF TypeOK, Threads
  <2>4. /\ ~CountedIdle(w) /\ CountedIdle(w)' /\ Working(w) /\ ~Working(w)'
    BY <2>1, <2>3 DEF TypeOK, CountedIdle, Working, IsForget
  <2>5. Change(0, 0, 0, 1, 1, -1)
    BY <2>1, <2>3, <2>4, OneMoves, CountedFinite DEF Change, N
  <2> QED  BY <2>1, <2>5, CountersChange, SMTT(30)
<1>12. ASSUME NEW w \in Workers, Unwound(w)
      PROVE  WorkersCounted' /\ IdlersCounted'
  <2>1. /\ pc[w] = "leaving" /\ pc' = [pc EXCEPT ![w] = "exited"] /\ UNCHANGED holds
        /\ workerCount' = workerCount + 0 /\ idleCount' = idleCount + 0 /\ faults' = faults + 0
    BY <1>12 DEF TypeOK, Unwound, Exit, Leave, Hangup, Aborted
  <2>2. faults # 0 /\ faults \in Nat
    BY <2>1, Numbers DEF ExitsJustified, TypeOK
  <2>3. /\ \A v \in Threads : v # w => pc'[v] = pc[v]
        /\ \A v \in Workers : v # w => holds'[v] = holds[v]
        /\ pc'[w] = "exited" /\ w \in Threads
    BY <1>12, <2>1 DEF TypeOK, Threads
  <2>4. /\ ~CountedIdle(w) /\ ~CountedIdle(w)' /\ ~Working(w) /\ ~Working(w)'
    BY <2>1, <2>2, <2>3 DEF TypeOK, CountedIdle, Working, IsForget
  <2>5. Change(0, 0, 0, 0, 1, 0)
    BY <2>1, <2>2, <2>3, <2>4, OneMoves, CountedFinite DEF Change, N
  <2> QED  BY <2>1, <2>2, <2>5, CountersChange
<1>13. ASSUME NEW w \in Workers, Handle(w)
      PROVE  WorkersCounted' /\ IdlersCounted'
  <2>1. CASE IsForget(w)
    <3>1. /\ pc[w] = "handler" /\ pc' = [pc EXCEPT ![w] = "receive"] /\ UNCHANGED holds
          /\ workerCount' = workerCount + 0 /\ idleCount' = idleCount + 0 /\ faults' = faults + 0
      BY <1>13, <2>1 DEF TypeOK, Handle, Becomes, Replied
    <3>2. IsForget(w) /\ IsForget(w)'
      BY <2>1, <3>1 DEF IsForget, TypeOK
    <3>3. /\ \A v \in Threads : v # w => pc'[v] = pc[v]
          /\ \A v \in Workers : v # w => holds'[v] = holds[v]
          /\ pc'[w] = "receive" /\ w \in Threads
      BY <1>13, <2>1, <3>1 DEF TypeOK, Threads
    <3>4. /\ CountedIdle(w) /\ CountedIdle(w)' /\ ~Working(w) /\ ~Working(w)'
      BY <3>1, <3>2, <3>3 DEF TypeOK, CountedIdle, Working, IsForget
    <3>5. Change(0, 0, 0, 0, 0, 0)
      BY <3>1, <3>2, <3>3, <3>4, OneMoves, CountedFinite DEF Change, N
    <3> QED  BY <3>1, <3>2, <3>5, CountersChange
  <2>2. CASE ~(IsForget(w))
    <3>1. /\ pc[w] = "handler" /\ pc' = [pc EXCEPT ![w] = "after"] /\ UNCHANGED holds
          /\ workerCount' = workerCount + 0 /\ idleCount' = idleCount + 0 /\ faults' = faults + 0
      BY <1>13, <2>2 DEF TypeOK, Handle, Becomes, Replied
    <3>2. ~IsForget(w) /\ ~IsForget(w)'
      BY <2>2, <3>1 DEF IsForget, TypeOK
    <3>3. /\ \A v \in Threads : v # w => pc'[v] = pc[v]
          /\ \A v \in Workers : v # w => holds'[v] = holds[v]
          /\ pc'[w] = "after" /\ w \in Threads
      BY <1>13, <2>2, <3>1 DEF TypeOK, Threads
    <3>4. /\ ~CountedIdle(w) /\ ~CountedIdle(w)' /\ Working(w) /\ Working(w)'
      BY <3>1, <3>2, <3>3 DEF TypeOK, CountedIdle, Working, IsForget
    <3>5. Change(0, 0, 0, 0, 0, 0)
      BY <3>1, <3>2, <3>3, <3>4, OneMoves, CountedFinite DEF Change, N
    <3> QED  BY <3>1, <3>2, <3>5, CountersChange
  <2> QED  BY <2>1, <2>2
<1>14. ASSUME NEW w \in Workers, ChannelFails(w)
      PROVE  WorkersCounted' /\ IdlersCounted'
  <2>1. /\ pc[w] = "receive" /\ pc' = [pc EXCEPT ![w] = "exited"] /\ UNCHANGED holds
        /\ workerCount' = workerCount + 0 /\ idleCount' = idleCount + 0 /\ faults' = faults + 1
    BY <1>14 DEF TypeOK, ChannelFails, Fault, Exit, Leave, Hangup, Aborted
  <2>2. faults \in Nat
    BY <2>1, Numbers DEF TypeOK
  <2>3. /\ \A v \in Threads : v # w => pc'[v] = pc[v]
        /\ \A v \in Workers : v # w => holds'[v] = holds[v]
        /\ pc'[w] = "exited" /\ w \in Threads
    BY <1>14, <2>1 DEF TypeOK, Threads
  <2>4. /\ CountedIdle(w) /\ ~CountedIdle(w)' /\ ~Working(w) /\ ~Working(w)'
    BY <2>1, <2>2, <2>3 DEF TypeOK, CountedIdle, Working, IsForget
  <2>5. Change(0, 0, 0, -1, 0, 0)
    BY <2>1, <2>2, <2>3, <2>4, OneMoves, CountedFinite DEF Change, N
  <2> QED  BY <2>1, <2>2, <2>5, CountersChange
<1>15. ASSUME NEW w \in Workers, Panic(w)
      PROVE  WorkersCounted' /\ IdlersCounted'
  <2>1. CASE IsForget(w)
    <3>1. /\ pc[w] = "handler" /\ pc' = [pc EXCEPT ![w] = "leaving"] /\ UNCHANGED holds
          /\ workerCount' = workerCount + 0 /\ idleCount' = idleCount + 0 /\ faults' = faults + 1
      BY <1>15, <2>1 DEF TypeOK, Panic, Fault, Becomes, Replied
    <3>2. IsForget(w) /\ IsForget(w)' /\ faults \in Nat
      BY <2>1, <3>1 DEF IsForget, TypeOK
    <3>3. /\ \A v \in Threads : v # w => pc'[v] = pc[v]
          /\ \A v \in Workers : v # w => holds'[v] = holds[v]
          /\ pc'[w] = "leaving" /\ w \in Threads
      BY <1>15, <2>1, <3>1 DEF TypeOK, Threads
    <3>4. /\ CountedIdle(w) /\ ~CountedIdle(w)' /\ ~Working(w) /\ ~Working(w)'
      BY <3>1, <3>2, <3>3 DEF TypeOK, CountedIdle, Working, IsForget
    <3>5. Change(0, 0, 0, -1, -1, 0)
      BY <3>1, <3>2, <3>3, <3>4, OneMoves, CountedFinite DEF Change, N
    <3> QED  BY <3>1, <3>2, <3>5, CountersChange
  <2>2. CASE ~(IsForget(w))
    <3>1. /\ pc[w] = "handler" /\ pc' = [pc EXCEPT ![w] = "leaving"] /\ UNCHANGED holds
          /\ workerCount' = workerCount + 0 /\ idleCount' = idleCount + 0 /\ faults' = faults + 1
      BY <1>15, <2>2 DEF TypeOK, Panic, Fault, Becomes, Replied
    <3>2. ~IsForget(w) /\ ~IsForget(w)' /\ faults \in Nat
      BY <2>2, <3>1 DEF IsForget, TypeOK
    <3>3. /\ \A v \in Threads : v # w => pc'[v] = pc[v]
          /\ \A v \in Workers : v # w => holds'[v] = holds[v]
          /\ pc'[w] = "leaving" /\ w \in Threads
      BY <1>15, <2>2, <3>1 DEF TypeOK, Threads
    <3>4. /\ ~CountedIdle(w) /\ ~CountedIdle(w)' /\ Working(w) /\ ~Working(w)'
      BY <3>1, <3>2, <3>3 DEF TypeOK, CountedIdle, Working, IsForget
    <3>5. Change(0, 0, 0, 0, 0, -1)
      BY <3>1, <3>2, <3>3, <3>4, OneMoves, CountedFinite DEF Change, N
    <3> QED  BY <3>1, <3>2, <3>5, CountersChange
  <2> QED  BY <2>1, <2>2
<1>16. CASE Disconnect
  BY <1>16, NobodyMoves, CountedFinite, SMTT(30) DEF Disconnect, Change, WorkersCounted, IdlersCounted, TypeOK
<1>17. CASE Interrupt
  BY <1>17, NobodyMoves, CountedFinite, SMTT(30) DEF Interrupt, Change, WorkersCounted, IdlersCounted, TypeOK
<1>18. CASE WaiterReceives
  BY <1>18, NobodyMoves, CountedFinite, SMTT(30) DEF WaiterReceives, Change, WorkersCounted, IdlersCounted, TypeOK
<1>19. CASE WaiterJoins
  BY <1>19, NobodyMoves, CountedFinite, SMTT(30) DEF WaiterJoins, Change, WorkersCounted, IdlersCounted, TypeOK
<1>20. CASE WaiterEnds
  BY <1>20, NobodyMoves, CountedFinite, SMTT(30) DEF WaiterEnds, Change, WorkersCounted, IdlersCounted, TypeOK
<1>21. CASE JoinReceives
  <2>1. /\ pc[Main] = "join" /\ pc' = [pc EXCEPT ![Main] = "closing"] /\ UNCHANGED holds
        /\ workerCount' = workerCount + 0 /\ idleCount' = idleCount + 0 /\ faults' = faults + 0
    BY <1>21 DEF TypeOK, JoinReceives
  <2>2. Main \notin Workers
    BY <2>1, Numbers DEF Threads
  <2>3. /\ \A v \in Threads : v # Main => pc'[v] = pc[v]
        /\ \A v \in Workers : v # Main => holds'[v] = holds[v]
        /\ pc'[Main] = "closing" /\ Main \in Threads
    BY <1>21, <2>1 DEF TypeOK, Threads
  <2>4. /\ ~CountedIdle(Main) /\ ~CountedIdle(Main)' /\ ~Working(Main) /\ ~Working(Main)'
    BY <2>1, <2>2, <2>3 DEF TypeOK, CountedIdle, Working, IsForget
  <2>5. Change(0, 0, 0, 0, 0, 0)
    BY <2>1, <2>2, <2>3, <2>4, OneMoves, CountedFinite DEF Change, N
  <2> QED  BY <2>1, <2>2, <2>5, CountersChange
<1>22. CASE Unmount
  <2>1. /\ pc[Main] = "closing" /\ pc' = [pc EXCEPT ![Main] = "returned"] /\ UNCHANGED holds
        /\ workerCount' = workerCount + 0 /\ idleCount' = idleCount + 0 /\ faults' = faults + 0
    BY <1>22 DEF TypeOK, Unmount, Hangup, Aborted
  <2>2. Main \notin Workers
    BY <2>1, Numbers DEF Threads
  <2>3. /\ \A v \in Threads : v # Main => pc'[v] = pc[v]
        /\ \A v \in Workers : v # Main => holds'[v] = holds[v]
        /\ pc'[Main] = "returned" /\ Main \in Threads
    BY <1>22, <2>1 DEF TypeOK, Threads
  <2>4. /\ ~CountedIdle(Main) /\ ~CountedIdle(Main)' /\ ~Working(Main) /\ ~Working(Main)'
    BY <2>1, <2>2, <2>3 DEF TypeOK, CountedIdle, Working, IsForget
  <2>5. Change(0, 0, 0, 0, 0, 0)
    BY <2>1, <2>2, <2>3, <2>4, OneMoves, CountedFinite DEF Change, N
  <2> QED  BY <2>1, <2>2, <2>5, CountersChange
<1>23. CASE UNCHANGED vars
  BY <1>23, NobodyMoves, CountedFinite, SMTT(30) DEF vars, Change, WorkersCounted, IdlersCounted, TypeOK
<1>24. ASSUME NEW w \in Workers, NEW i \in Requests, Malformed(w, i)
       PROVE  WorkersCounted' /\ IdlersCounted'
  <2>1. /\ pc[w] = "receive" /\ pc' = [pc EXCEPT ![w] = "leaving"] /\ UNCHANGED holds
        /\ workerCount' = workerCount + 0 /\ idleCount' = idleCount + 0 /\ faults' = faults + 1
    BY <1>24 DEF TypeOK, Malformed, Fault
  <2>2. faults \in Nat
    BY <2>1, Numbers DEF TypeOK
  <2>3. /\ \A v \in Threads : v # w => pc'[v] = pc[v]
        /\ \A v \in Workers : v # w => holds'[v] = holds[v]
        /\ pc'[w] = "leaving" /\ w \in Threads
    BY <1>24, <2>1 DEF TypeOK, Threads
  <2>4. /\ CountedIdle(w) /\ ~CountedIdle(w)' /\ ~Working(w) /\ ~Working(w)'
    BY <2>1, <2>2, <2>3 DEF TypeOK, CountedIdle, Working, IsForget
  <2>5. Change(0, 0, 0, -1, -1, 0)
    BY <2>1, <2>2, <2>3, <2>4, OneMoves, CountedFinite DEF Change, N
  <2> QED  BY <2>1, <2>2, <2>5, CountersChange
<1> QED
  BY <1>1, <1>2, <1>3, <1>4, <1>5, <1>6, <1>7, <1>8, <1>9, <1>10, <1>11, <1>12, <1>13, <1>14, <1>15, <1>16, <1>17, <1>18, <1>19, <1>20, <1>21, <1>22, <1>23, <1>24
     DEF Next, Adds, Works, Waits, Joins, Ended, Threads

\* A request is dispatched once the init request has been handled, or is that one.
LEMMA DispatchInitialized ==
    ASSUME TypeOK, HoldsTaken, InitFirst, NEW w \in Workers, Dispatch(w)
    PROVE  initialized \/ IsInit(w)
<1>1. holds[w] \in Requests /\ request[holds[w]] = "taken" /\ pc[w] = "dispatch"
  BY DEF Dispatch, HoldsTaken, Busy
<1>2. CASE holds[w] = 1
  BY <1>1, <1>2, Numbers DEF IsInit
<1>3. CASE holds[w] # 1
  <2>1. holds[w] > 1 /\ 1 \in Requests
    <3>1. \A i \in Requests : i \in Nat /\ i >= 1 /\ 1 \in Requests
      BY Numbers
    <3> QED  BY <1>1, <1>3, <3>1
  <2> QED  BY <1>1, <2>1 DEF InitFirst
<1> QED  BY <1>2, <1>3

LEMMA SomeoneStep ==
    TypeOK /\ WorkersCounted /\ SomeoneAdds /\ [Next]_vars => SomeoneAdds'
<1> SUFFICES ASSUME TypeOK, WorkersCounted, SomeoneAdds, [Next]_vars
             PROVE  SomeoneAdds'
  OBVIOUS
<1> USE DEF TypeOK, SomeoneAdds, Threads, vars, pool, channels, kernel, answers, Go
<1>1. ASSUME NEW i \in Requests, Send(i)
      PROVE  SomeoneAdds'
  BY <1>1 DEF Send
<1>2. ASSUME NEW w \in Threads, CountWorker(w)
      PROVE  SomeoneAdds'
  <2>1. CASE workerCount < MaxWorkers
    <3>1. pc'[w] = "idle"
      BY <1>2, <2>1 DEF CountWorker
    <3> QED  BY <3>1
  <2>2. CASE ~(workerCount < MaxWorkers)
    <3>1. workerCount' = workerCount /\ workerCount = MaxWorkers
      BY <1>2, <2>2, Numbers DEF CountWorker
    <3> QED  BY <3>1
  <2> QED  BY <2>1, <2>2
<1>3. ASSUME NEW w \in Threads, CountIdle(w)
      PROVE  SomeoneAdds'
  BY <1>3 DEF CountIdle
<1>4. ASSUME NEW w \in Threads, Spawn(w)
      PROVE  SomeoneAdds'
  BY <1>4, NextWorkerIsNew DEF Spawn
<1>5. ASSUME NEW w \in Threads, SendHandle(w)
      PROVE  SomeoneAdds'
  BY <1>5 DEF SendHandle, AddDone, Leave, Hangup, Aborted
<1>6. ASSUME NEW w \in Threads, SpawnFails(w)
      PROVE  SomeoneAdds'
  BY <1>6 DEF SpawnFails, Fault, Hangup, Aborted
<1>7. ASSUME NEW w \in Workers, NEW i \in Requests, Receive(w, i)
      PROVE  SomeoneAdds'
  BY <1>7 DEF Receive, First
<1>8. ASSUME NEW w \in Workers, ReceiveEnds(w)
      PROVE  SomeoneAdds'
  BY <1>8 DEF ReceiveEnds, Exit, Leave, Hangup, Aborted
<1>9. ASSUME NEW w \in Workers, Before(w)
      PROVE  SomeoneAdds'
  BY <1>9 DEF Before
<1>10. ASSUME NEW w \in Workers, Dispatch(w)
      PROVE  SomeoneAdds'
  BY <1>10 DEF Dispatch
<1>11. ASSUME NEW w \in Workers, After(w)
      PROVE  SomeoneAdds'
  BY <1>11 DEF After
<1>12. ASSUME NEW w \in Workers, Unwound(w)
      PROVE  SomeoneAdds'
  BY <1>12 DEF Unwound, Exit, Leave, Hangup, Aborted
<1>13. ASSUME NEW w \in Workers, Handle(w)
      PROVE  SomeoneAdds'
  BY <1>13 DEF Handle, Becomes, Replied
<1>14. ASSUME NEW w \in Workers, ChannelFails(w)
      PROVE  SomeoneAdds'
  BY <1>14 DEF ChannelFails, Fault, Exit, Leave, Hangup, Aborted
<1>15. ASSUME NEW w \in Workers, Panic(w)
      PROVE  SomeoneAdds'
  BY <1>15 DEF Panic, Fault, Becomes, Replied
<1>16. CASE Disconnect
  BY <1>16 DEF Disconnect, Hangup, Aborted
<1>17. CASE Interrupt
  BY <1>17 DEF Interrupt
<1>18. CASE WaiterReceives
  BY <1>18 DEF WaiterReceives
<1>19. CASE WaiterJoins
  BY <1>19 DEF WaiterJoins
<1>20. CASE WaiterEnds
  BY <1>20 DEF WaiterEnds
<1>21. CASE JoinReceives
  BY <1>21 DEF JoinReceives
<1>22. CASE Unmount
  BY <1>22 DEF Unmount, Hangup, Aborted
<1>23. CASE UNCHANGED vars
  BY <1>23 DEF vars
<1>24. ASSUME NEW w \in Workers, NEW i \in Requests, Malformed(w, i)
       PROVE  SomeoneAdds'
  BY <1>24 DEF Malformed, First, Fault
<1> QED
  BY <1>1, <1>2, <1>3, <1>4, <1>5, <1>6, <1>7, <1>8, <1>9, <1>10, <1>11, <1>12, <1>13, <1>14, <1>15, <1>16, <1>17, <1>18, <1>19, <1>20, <1>21, <1>22, <1>23, <1>24
     DEF Next, Adds, Works, Waits, Joins, Ended, Threads

LEMMA HoldsStep ==
    TypeOK /\ Places /\ WorkersCounted /\ HoldsTaken /\ [Next]_vars => HoldsTaken'
<1> SUFFICES ASSUME TypeOK, Places, WorkersCounted, HoldsTaken, [Next]_vars
             PROVE  HoldsTaken'
  OBVIOUS
<1> USE DEF TypeOK, HoldsTaken, Busy, IsForget, Threads, vars, pool, channels, kernel, answers, Go
<1>1. ASSUME NEW i \in Requests, Send(i)
      PROVE  HoldsTaken'
  BY <1>1 DEF Send
<1>2. ASSUME NEW w \in Threads, CountWorker(w)
      PROVE  HoldsTaken'
  <2>1. PICK l \in {"idle", "join", "dispatch"} : pc' = [pc EXCEPT ![w] = l] /\ (w # Main => l # "join")
    BY <1>2 DEF CountWorker, AddDone
  <2>2. pc[w] = "count" /\ UNCHANGED holds
    BY <1>2 DEF CountWorker
  <2>3. \A v \in Workers : pc'[v] \in Busy => request'[holds[v]] = request[holds[v]]
    BY <1>2 DEF CountWorker
  <2>4. \A v \in Workers :
           pc'[v] \in Busy => pc[v] \in Busy /\ (pc[v] \in {"dispatch", "handler"} => pc'[v] \in {"dispatch", "handler"})
    BY <2>1, <2>2
  <2> HIDE DEF TypeOK, HoldsTaken, Busy
  <2> QED  BY <2>2, <2>3, <2>4, BusyStays
<1>3. ASSUME NEW w \in Threads, CountIdle(w)
      PROVE  HoldsTaken'
  BY <1>3 DEF CountIdle
<1>4. ASSUME NEW w \in Threads, Spawn(w)
      PROVE  HoldsTaken'
  BY <1>4, NextWorkerIsNew DEF Spawn
<1>5. ASSUME NEW w \in Threads, SendHandle(w)
      PROVE  HoldsTaken'
  BY <1>5 DEF SendHandle, AddDone, Leave, Hangup, Aborted
<1>6. ASSUME NEW w \in Threads, SpawnFails(w)
      PROVE  HoldsTaken'
  <2>1. PICK l \in {"failed", "dispatch"} : pc' = [pc EXCEPT ![w] = l] /\ (w # Main => l # "failed")
    BY <1>6 DEF SpawnFails, AddDone
  <2>2. pc[w] = "spawn" /\ UNCHANGED holds
    BY <1>6 DEF SpawnFails
  <2>3. \A v \in Workers : pc'[v] \in Busy => request'[holds[v]] = request[holds[v]]
    <3>1. Hangup \/ UNCHANGED kernel
      BY <1>6 DEF SpawnFails
    <3>2. \A i \in Requests : request[i] = "taken" => request'[i] = "taken"
      BY <3>1, KernelEnds
    <3>3. \A v \in Workers : pc'[v] \in Busy => pc[v] \in Busy
      BY <2>1, <2>2
    <3> QED  BY <3>2, <3>3
  <2>4. \A v \in Workers :
           pc'[v] \in Busy => pc[v] \in Busy /\ (pc[v] \in {"dispatch", "handler"} => pc'[v] \in {"dispatch", "handler"})
    BY <2>1, <2>2
  <2> HIDE DEF TypeOK, HoldsTaken, Busy
  <2> QED  BY <2>2, <2>3, <2>4, BusyStays
<1>7. ASSUME NEW w \in Workers, NEW i \in Requests, Receive(w, i)
      PROVE  HoldsTaken'
  BY <1>7 DEF Receive, First
<1>8. ASSUME NEW w \in Workers, ReceiveEnds(w)
      PROVE  HoldsTaken'
  BY <1>8 DEF ReceiveEnds, Exit, Leave, Hangup, Aborted
<1>9. ASSUME NEW w \in Workers, Before(w)
      PROVE  HoldsTaken'
  BY <1>9 DEF Before
<1>10. ASSUME NEW w \in Workers, Dispatch(w)
      PROVE  HoldsTaken'
  BY <1>10 DEF Dispatch
<1>11. ASSUME NEW w \in Workers, After(w)
      PROVE  HoldsTaken'
  BY <1>11 DEF After
<1>12. ASSUME NEW w \in Workers, Unwound(w)
      PROVE  HoldsTaken'
  BY <1>12 DEF Unwound, Exit, Leave, Hangup, Aborted
<1>13. ASSUME NEW w \in Workers, Handle(w)
      PROVE  HoldsTaken'
  <2>1. PICK l \in {"receive", "after"} : pc' = [pc EXCEPT ![w] = l]
    BY <1>13 DEF Handle
  <2>2. pc[w] = "handler" /\ UNCHANGED holds /\ request' = [request EXCEPT ![holds[w]] = "done"]
    BY <1>13 DEF Handle, Becomes
  <2>3. \A v \in Workers : pc'[v] \in Busy => v # w /\ pc[v] = pc'[v]
    BY <2>1
  <2>4. \A v \in Workers : pc'[v] \in Busy => request'[holds[v]] = request[holds[v]]
    BY <2>2, <2>3
  <2> HIDE DEF TypeOK, HoldsTaken, Busy
  <2> QED  BY <2>2, <2>3, <2>4, BusyStays
<1>14. ASSUME NEW w \in Workers, ChannelFails(w)
      PROVE  HoldsTaken'
  BY <1>14 DEF ChannelFails, Fault, Exit, Leave, Hangup, Aborted
<1>15. ASSUME NEW w \in Workers, Panic(w)
      PROVE  HoldsTaken'
  BY <1>15 DEF Panic, Fault, Becomes, Replied
<1>16. CASE Disconnect
  BY <1>16 DEF Disconnect, Hangup, Aborted
<1>17. CASE Interrupt
  BY <1>17 DEF Interrupt
<1>18. CASE WaiterReceives
  BY <1>18 DEF WaiterReceives
<1>19. CASE WaiterJoins
  BY <1>19 DEF WaiterJoins
<1>20. CASE WaiterEnds
  BY <1>20 DEF WaiterEnds
<1>21. CASE JoinReceives
  BY <1>21 DEF JoinReceives
<1>22. CASE Unmount
  BY <1>22 DEF Unmount, Hangup, Aborted
<1>23. CASE UNCHANGED vars
  BY <1>23 DEF vars
<1>24. ASSUME NEW w \in Workers, NEW i \in Requests, Malformed(w, i)
       PROVE  HoldsTaken'
  BY <1>24 DEF Malformed, First, Fault
<1> QED
  BY <1>1, <1>2, <1>3, <1>4, <1>5, <1>6, <1>7, <1>8, <1>9, <1>10, <1>11, <1>12, <1>13, <1>14, <1>15, <1>16, <1>17, <1>18, <1>19, <1>20, <1>21, <1>22, <1>23, <1>24
     DEF Next, Adds, Works, Waits, Joins, Ended, Threads

LEMMA InitStep ==
    TypeOK /\ WorkersCounted /\ HoldsTaken /\ InitFirst /\ Answered /\ [Next]_vars => InitFirst'
<1> SUFFICES ASSUME TypeOK, WorkersCounted, HoldsTaken, InitFirst, Answered, [Next]_vars
             PROVE  InitFirst'
  OBVIOUS
<1> USE DEF TypeOK, HoldsTaken, Busy, InitFirst, Threads, vars, pool, channels, kernel, answers, Go
<1>1. ASSUME NEW i \in Requests, Send(i)
      PROVE  InitFirst'
  BY <1>1 DEF Send
<1>2. ASSUME NEW w \in Threads, CountWorker(w)
      PROVE  InitFirst'
  BY <1>2 DEF CountWorker, AddDone
<1>3. ASSUME NEW w \in Threads, CountIdle(w)
      PROVE  InitFirst'
  BY <1>3 DEF CountIdle
<1>4. ASSUME NEW w \in Threads, Spawn(w)
      PROVE  InitFirst'
  BY <1>4, NextWorkerIsNew DEF Spawn
<1>5. ASSUME NEW w \in Threads, SendHandle(w)
      PROVE  InitFirst'
  BY <1>5 DEF SendHandle, AddDone, Leave, Hangup, Aborted
<1>6. ASSUME NEW w \in Threads, SpawnFails(w)
      PROVE  InitFirst'
  BY <1>6 DEF SpawnFails, Fault, Hangup, Aborted
<1>7. ASSUME NEW w \in Workers, NEW i \in Requests, Receive(w, i)
      PROVE  InitFirst'
  BY <1>7 DEF Receive, First
<1>8. ASSUME NEW w \in Workers, ReceiveEnds(w)
      PROVE  InitFirst'
  BY <1>8 DEF ReceiveEnds, Exit, Leave, Hangup, Aborted
<1>9. ASSUME NEW w \in Workers, Before(w)
      PROVE  InitFirst'
  BY <1>9 DEF Before
<1>10. ASSUME NEW w \in Workers, Dispatch(w)
      PROVE  InitFirst'
  BY <1>10 DEF Dispatch
<1>11. ASSUME NEW w \in Workers, After(w)
      PROVE  InitFirst'
  BY <1>11 DEF After
<1>12. ASSUME NEW w \in Workers, Unwound(w)
      PROVE  InitFirst'
  BY <1>12 DEF Unwound, Exit, Leave, Hangup, Aborted
<1>13. ASSUME NEW w \in Workers, Handle(w)
      PROVE  InitFirst'
  <2>1. holds[w] \in Requests /\ request[holds[w]] = "taken" /\ pc[w] = "handler"
    BY <1>13 DEF Handle
  <2>2. \A i \in Requests : request'[i] = "unsent" <=> request[i] = "unsent"
    BY <1>13, <2>1 DEF Handle, Becomes
  <2>3. \A i \in Requests : replies'[i] >= replies[i] /\ replies'[i] \in Nat /\ replies[i] \in Nat
    <3>1. CASE replies' = replies
      BY <3>1
    <3>2. CASE replies' = [replies EXCEPT ![holds[w]] = @ + 1]
      BY <2>1, <3>2
    <3> QED  BY <1>13, <3>1, <3>2 DEF Handle, Replied
  <2>4. 1 \in Requests /\ replies'[1] > 0 => replies[1] > 0 \/ holds[w] = 1
    <3>1. CASE replies' = replies
      BY <3>1
    <3>2. CASE replies' = [replies EXCEPT ![holds[w]] = @ + 1]
      BY <2>1, <3>2
    <3> QED  BY <1>13, <3>1, <3>2 DEF Handle, Replied
  <2>5. initialized => initialized'
    BY <1>13, Zenon DEF Handle
  <2>6. \A i \in Requests : 1 \in Requests
    BY Numbers
  <2>7. holds[w] = 1 => initialized'
    <3>1. holds[w] = 1 => IsInit(w)
      BY <2>1, Numbers DEF IsInit
    <3> QED  BY <1>13, <3>1, Zenon DEF Handle
  <2> HIDE DEF TypeOK, HoldsTaken, Busy
  <2> QED  BY <2>1, <2>2, <2>3, <2>4, <2>5, <2>6, <2>7
<1>14. ASSUME NEW w \in Workers, ChannelFails(w)
      PROVE  InitFirst'
  BY <1>14 DEF ChannelFails, Fault, Exit, Leave, Hangup, Aborted
<1>15. ASSUME NEW w \in Workers, Panic(w)
      PROVE  InitFirst'
  <2>1. holds[w] \in Requests /\ request[holds[w]] = "taken" /\ pc[w] = "handler"
    BY <1>15 DEF Panic
  <2>2. \A i \in Requests : request'[i] = "unsent" <=> request[i] = "unsent"
    BY <1>15, <2>1 DEF Panic, Becomes
  <2>3. \A i \in Requests : replies'[i] >= replies[i] /\ replies'[i] \in Nat /\ replies[i] \in Nat
    <3>1. CASE replies' = replies
      BY <3>1
    <3>2. CASE replies' = [replies EXCEPT ![holds[w]] = @ + 1]
      BY <2>1, <3>2
    <3> QED  BY <1>15, <3>1, <3>2 DEF Panic, Replied
  <2>4. 1 \in Requests /\ replies'[1] > 0 => replies[1] > 0
    <3>1. CASE replies' = replies
      BY <3>1
    <3>2. CASE replies' = [replies EXCEPT ![holds[w]] = @ + 1] /\ ~IsInit(w)
      <4>1. 1 \in Requests => holds[w] # 1
        BY <3>2, Numbers DEF IsInit
      <4> QED  BY <2>1, <3>2, <4>1
    <3> QED  BY <1>15, <3>1, <3>2 DEF Panic, Replied
  <2>5. UNCHANGED initialized
    BY <1>15 DEF Panic
  <2>6. \A i \in Requests : 1 \in Requests
    BY Numbers
  <2> HIDE DEF TypeOK, HoldsTaken, Busy
  <2> QED  BY <2>1, <2>2, <2>3, <2>4, <2>5, <2>6
<1>16. CASE Disconnect
  BY <1>16 DEF Disconnect, Hangup, Aborted
<1>17. CASE Interrupt
  BY <1>17 DEF Interrupt
<1>18. CASE WaiterReceives
  BY <1>18 DEF WaiterReceives
<1>19. CASE WaiterJoins
  BY <1>19 DEF WaiterJoins
<1>20. CASE WaiterEnds
  BY <1>20 DEF WaiterEnds
<1>21. CASE JoinReceives
  BY <1>21 DEF JoinReceives
<1>22. CASE Unmount
  BY <1>22 DEF Unmount, Hangup, Aborted
<1>23. CASE UNCHANGED vars
  BY <1>23 DEF vars
<1>24. ASSUME NEW w \in Workers, NEW i \in Requests, Malformed(w, i)
       PROVE  InitFirst'
  BY <1>24 DEF Malformed, First, Fault
<1> QED
  BY <1>1, <1>2, <1>3, <1>4, <1>5, <1>6, <1>7, <1>8, <1>9, <1>10, <1>11, <1>12, <1>13, <1>14, <1>15, <1>16, <1>17, <1>18, <1>19, <1>20, <1>21, <1>22, <1>23, <1>24
     DEF Next, Adds, Works, Waits, Joins, Ended, Threads

LEMMA RepliesStep ==
    TypeOK /\ WorkersCounted /\ HoldsTaken /\ InitFirst /\ Answered /\ [Next]_vars => Answered'
<1> SUFFICES ASSUME TypeOK, WorkersCounted, HoldsTaken, InitFirst, Answered, [Next]_vars
             PROVE  Answered'
  OBVIOUS
<1> USE DEF TypeOK, HoldsTaken, Busy, Answered, Threads, vars, pool, channels, kernel, answers, Go
<1>1. ASSUME NEW i \in Requests, Send(i)
      PROVE  Answered'
  BY <1>1 DEF Send
<1>2. ASSUME NEW w \in Threads, CountWorker(w)
      PROVE  Answered'
  BY <1>2 DEF CountWorker, AddDone
<1>3. ASSUME NEW w \in Threads, CountIdle(w)
      PROVE  Answered'
  BY <1>3 DEF CountIdle
<1>4. ASSUME NEW w \in Threads, Spawn(w)
      PROVE  Answered'
  BY <1>4, NextWorkerIsNew DEF Spawn
<1>5. ASSUME NEW w \in Threads, SendHandle(w)
      PROVE  Answered'
  BY <1>5 DEF SendHandle, AddDone, Leave, Hangup, Aborted
<1>6. ASSUME NEW w \in Threads, SpawnFails(w)
      PROVE  Answered'
  BY <1>6 DEF SpawnFails, Fault, Hangup, Aborted
<1>7. ASSUME NEW w \in Workers, NEW i \in Requests, Receive(w, i)
      PROVE  Answered'
  BY <1>7 DEF Receive, First
<1>8. ASSUME NEW w \in Workers, ReceiveEnds(w)
      PROVE  Answered'
  BY <1>8 DEF ReceiveEnds, Exit, Leave, Hangup, Aborted
<1>9. ASSUME NEW w \in Workers, Before(w)
      PROVE  Answered'
  BY <1>9 DEF Before
<1>10. ASSUME NEW w \in Workers, Dispatch(w)
      PROVE  Answered'
  <2>1. refused' = refused
    BY <1>10, DispatchInitialized DEF Dispatch
  <2> QED  BY <1>10, <2>1 DEF Dispatch
<1>11. ASSUME NEW w \in Workers, After(w)
      PROVE  Answered'
  BY <1>11 DEF After
<1>12. ASSUME NEW w \in Workers, Unwound(w)
      PROVE  Answered'
  BY <1>12 DEF Unwound, Exit, Leave, Hangup, Aborted
<1>13. ASSUME NEW w \in Workers, Handle(w)
      PROVE  Answered'
  <2>1. holds[w] \in Requests /\ request[holds[w]] = "taken"
    BY <1>13 DEF Handle
  <2>2. replies[holds[w]] = 0
    BY <2>1
  <2>3. request' = [request EXCEPT ![holds[w]] = "done"] /\ UNCHANGED refused
    BY <1>13 DEF Handle, Becomes
  <2>4. replies' = IF Kinds[holds[w]] = "forget" THEN replies ELSE [replies EXCEPT ![holds[w]] = @ + 1]
    BY <1>13 DEF Handle, Replied, IsForget
  <2>5. ASSUME NEW i \in Requests
        PROVE  /\ replies'[i] = IF request'[i] = "done" /\ Kinds[i] # "forget" THEN 1 ELSE 0
               /\ request'[i] = "dropped" => Kinds[i] = "init"
    <3>1. CASE i = holds[w]
      BY <2>1, <2>2, <2>3, <2>4, <3>1
    <3>2. CASE i # holds[w]
      BY <2>1, <2>3, <2>4, <3>2
    <3> QED  BY <3>1, <3>2
  <2> QED  BY <2>3, <2>5
<1>14. ASSUME NEW w \in Workers, ChannelFails(w)
      PROVE  Answered'
  BY <1>14 DEF ChannelFails, Fault, Exit, Leave, Hangup, Aborted
<1>15. ASSUME NEW w \in Workers, Panic(w)
      PROVE  Answered'
  <2> DEFINE outcome == IF IsInit(w) THEN "dropped" ELSE "done"
  <2>1. holds[w] \in Requests /\ request[holds[w]] = "taken"
    BY <1>15 DEF Panic
  <2>2. replies[holds[w]] = 0
    BY <2>1
  <2>3. request' = [request EXCEPT ![holds[w]] = outcome] /\ UNCHANGED refused
    BY <1>15 DEF Panic, Becomes
  <2>4. replies' = IF Kinds[holds[w]] \in {"forget", "init"} THEN replies ELSE [replies EXCEPT ![holds[w]] = @ + 1]
    BY <1>15 DEF Panic, Replied, IsForget, IsInit
  <2>5. outcome = IF Kinds[holds[w]] = "init" THEN "dropped" ELSE "done"
    BY DEF IsInit
  <2> HIDE DEF outcome
  <2>6. ASSUME NEW i \in Requests
        PROVE  /\ replies'[i] = IF request'[i] = "done" /\ Kinds[i] # "forget" THEN 1 ELSE 0
               /\ request'[i] = "dropped" => Kinds[i] = "init"
    <3>1. CASE i = holds[w]
      BY <2>1, <2>2, <2>3, <2>4, <2>5, <3>1
    <3>2. CASE i # holds[w]
      BY <2>1, <2>3, <2>4, <3>2
    <3> QED  BY <3>1, <3>2
  <2> QED  BY <2>3, <2>6
<1>16. CASE Disconnect
  BY <1>16 DEF Disconnect, Hangup, Aborted
<1>17. CASE Interrupt
  BY <1>17 DEF Interrupt
<1>18. CASE WaiterReceives
  BY <1>18 DEF WaiterReceives
<1>19. CASE WaiterJoins
  BY <1>19 DEF WaiterJoins
<1>20. CASE WaiterEnds
  BY <1>20 DEF WaiterEnds
<1>21. CASE JoinReceives
  BY <1>21 DEF JoinReceives
<1>22. CASE Unmount
  BY <1>22 DEF Unmount, Hangup, Aborted
<1>23. CASE UNCHANGED vars
  BY <1>23 DEF vars
<1>24. ASSUME NEW w \in Workers, NEW i \in Requests, Malformed(w, i)
       PROVE  Answered'
  BY <1>24 DEF Malformed, First, Fault
<1> QED
  BY <1>1, <1>2, <1>3, <1>4, <1>5, <1>6, <1>7, <1>8, <1>9, <1>10, <1>11, <1>12, <1>13, <1>14, <1>15, <1>16, <1>17, <1>18, <1>19, <1>20, <1>21, <1>22, <1>23, <1>24
     DEF Next, Adds, Works, Waits, Joins, Ended, Threads

-----------------------------------------------------------------------------
\* The theorems.

LEMMA SessionInit == Init => SessionInv
<1> SUFFICES ASSUME Init
             PROVE  SessionInv
  OBVIOUS
<1>1. TypeOK
  <2>1. <<>> \in Seq(Workers) /\ <<>> \in Seq({"WorkersExited", "Interrupted"})
    OBVIOUS
  <2> QED  BY <2>1, Numbers DEF Init, TypeOK
<1>2. Places /\ ExitsJustified /\ HoldsTaken /\ InitFirst /\ Answered
  BY Numbers DEF Init, Places, Threads, ExitsJustified, HoldsTaken, Busy, InitFirst, Answered
<1>3. Spawned = {} /\ AtIdle = {} /\ AtSpawn = {} /\ Idle = {} /\ IdleOrGone = {} /\ AtWork = {}
  BY Numbers DEF Init, Threads, Spawned, AtIdle, AtSpawn, Idle, IdleOrGone, AtWork, CountedIdle
<1>4. Cardinality({}) = 0
  BY FS_EmptySet
<1>5. workerCount = 0 /\ idleCount = 0 /\ pc[Main] = "count" /\ Main \in Threads
  BY DEF Init, Threads
<1>6. WorkersCounted /\ IdlersCounted /\ SomeoneAdds
  BY <1>3, <1>4, <1>5 DEF WorkersCounted, IdlersCounted, SomeoneAdds
<1> QED  BY <1>1, <1>2, <1>6 DEF SessionInv

LEMMA SessionStep == SessionInv /\ [Next]_vars => SessionInv'
BY TypeStep, PlacesStep, ExitsStep, CountersStep, SomeoneStep, HoldsStep, InitStep, RepliesStep
   DEF SessionInv

LEMMA SessionInvariant == Spec => []SessionInv
BY SessionInit, SessionStep, PTL DEF Spec

\* With every worker at work, none is idle and none is being added, so that the
\* count of workers is at its limit and counts workers that are there.
LEMMA GrowsByCounting == SessionInv => PoolGrows
<1> DEFINE AllAtWork == \A w \in Workers :
                          /\ pc[w] \in {"none", "dispatch", "handler", "after"}
                          /\ pc[w] \in {"dispatch", "handler"} => ~IsForget(w)
<1> SUFFICES ASSUME SessionInv
             PROVE  PoolGrows
  OBVIOUS
<1>1. IdleCounted
  <2> SUFFICES ASSUME faults = 0, connected
               PROVE  idleCount = Cardinality({w \in Workers : CountedIdle(w)})
                                  + Cardinality({w \in Workers \cup {Main} : pc[w] = "spawn"})
    BY DEF IdleCounted
  <2>1. IdleOrGone = {w \in Workers : CountedIdle(w)}
    BY DEF IdleOrGone, SessionInv, ExitsJustified
  <2>2. AtSpawn = {w \in Workers \cup {Main} : pc[w] = "spawn"}
    BY DEF AtSpawn, Threads
  <2> QED  BY <2>1, <2>2 DEF SessionInv, IdlersCounted
<1>2. AllAtWork /\ faults = 0 /\ pc[Main] = "join" => \A w \in Workers : pc[w] # "none"
  <2> SUFFICES ASSUME AllAtWork, faults = 0, pc[Main] = "join"
               PROVE  \A w \in Workers : pc[w] # "none"
    OBVIOUS
  <2>1. AtSpawn = {} /\ AtIdle = {} /\ IdleOrGone = {} /\ \A w \in Threads : pc[w] \notin {"count", "idle"}
    <3>1. \A w \in Threads : pc[w] \notin {"spawn", "idle", "count"}
      BY DEF Threads
    <3>2. \A w \in Workers : ~CountedIdle(w) /\ pc[w] # "exited"
      BY DEF CountedIdle
    <3> QED  BY <3>1, <3>2 DEF AtSpawn, AtIdle, IdleOrGone
  <2>2. Cardinality({}) = 0
    BY FS_EmptySet
  <2>3. idleCount = 0
    BY <2>1, <2>2 DEF SessionInv, IdlersCounted
  <2>4. workerCount = MaxWorkers
    BY <2>1, <2>3 DEF SessionInv, SomeoneAdds
  <2>5. Cardinality(Spawned) = Cardinality(Workers)
    BY <2>1, <2>2, <2>4, ThreadsFinite, CountedFinite DEF SessionInv, WorkersCounted
  <2>6. Spawned = Workers
    <3>1. Spawned \subseteq Workers
      BY DEF Spawned
    <3> QED  BY <2>5, <3>1, ThreadsFinite, FS_Subset
  <2> QED  BY <2>6 DEF Spawned
<1> QED  BY <1>1, <1>2 DEF PoolGrows

\* Each thread is where it can be, a request is held by a worker that exists, and
\* neither worker_count nor idle_worker_count wraps or passes the number of
\* workers, whatever is spawned, fails or panics.
THEOREM SessionTypeCorrect == Spec => []TypeOK
BY SessionInvariant, PTL DEF SessionInv

\* The pool of WorkerPool::try_add_worker never stops short of its limit while
\* nothing has failed, however the accesses to its two counters interleave.
THEOREM SessionPoolGrows == Spec => []PoolGrows
BY SessionInvariant, GrowsByCounting, PTL

\* A request that is handled is replied to once and a forget never, also when the
\* handler panics, and none is refused for having come before init, whatever else
\* fails.  Without a reply stay a request that Request::new cannot parse, and the
\* init request if its handler panics, after which the kernel sends no other.
THEOREM SessionRepliedOnce == Spec => []RepliedOnce
<1>1. SessionInv => RepliedOnce
  <2> SUFFICES ASSUME SessionInv
               PROVE  RepliedOnce
    OBVIOUS
  <2>1. ASSUME NEW i \in Requests, i > 1, request[1] = "dropped"
        PROVE  request[i] = "unsent"
    <3>1. 1 \in Requests
      BY <2>1, Numbers
    <3>2. replies[1] = 0
      BY <2>1, <3>1 DEF SessionInv, Answered
    <3> QED  BY <2>1, <3>2 DEF SessionInv, InitFirst
  <2> QED  BY <2>1 DEF SessionInv, Answered, RepliedOnce
<1> QED  BY <1>1, SessionInvariant, PTL
=============================================================================
