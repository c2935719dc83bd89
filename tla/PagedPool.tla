------------------------------ MODULE PagedPool ------------------------------
(***************************************************************************)
(* The pool of buffers (mountpoint-s3-fs/src/memory): for each buffer size *)
(* a vector of pages behind a reader-writer lock, on each page a mask of   *)
(* its reserved slots behind a mutex, and counters that every thread reads *)
(* and writes without a lock.  Threads reserve and drop one buffer at a    *)
(* time, and trim frees the pages that are empty.                          *)
(*                                                                         *)
(* A step is one access to a mask or to a counter.                         *)
(***************************************************************************)
EXTENDS Integers, Sequences, FiniteSets, FiniteSetsExt, SequencesExt

CONSTANTS
    Threads,   \* threads that use buffers
    Pages,     \* addresses at which a page may be allocated
    Sizes,     \* the buffer sizes, in order
    PerPage,   \* BUFFERS_PER_PAGE
    Kinds,     \* the kinds of buffer
    Requests   \* the sizes asked for, and their kinds

ASSUME PagedPoolAssumption ==
    /\ IsFiniteSet(Threads)
    /\ Cardinality(Pages) >= Cardinality(Threads) * Len(Sizes)
    /\ Sizes \in Seq(Nat \ {0})
    /\ Sizes # <<>>   \* new_with_candidate_sizes falls back on a default size
    /\ \A i, j \in DOMAIN Sizes : i < j => Sizes[i] <= Sizes[j]
    /\ PerPage \in Nat \ {0}
    /\ Requests \subseteq Nat \X Kinds

Pools == DOMAIN Sizes
Slots == 1 .. PerPage
Secondary == 0   \* the pool of a buffer that is on no page
Trimmer == "trimmer"
Nobody == "nobody"
NoBuffer == <<>>
NoRequest == [size |-> 0, kind |-> "none", pool |-> Secondary]

ASSUME ThreadsAssumption == Trimmer \notin Threads /\ Nobody \notin Threads

VARIABLES
    pages,     \* the pages of each pool
    mask,      \* reserved_bitmask of each page
    owner,     \* the thread that has locked the mask
    readers,   \* the threads with a read lock on the pages of a pool
    writer,    \* the thread with the write lock
    empty,     \* empty_pages of each pool
    reserved,  \* reserved_bytes of each kind
    pc,        \* where each thread is
    want,      \* the buffer it asks for: its size, kind and pool
    at,        \* how far it has searched the pages
    buffer,    \* the page and the slot it has been given
    trim       \* where trim is: its step, its pool and its page

locks == <<owner, readers, writer>>
vars == <<pages, mask, locks, empty, reserved, pc, want, at, buffer, trim>>

TypeOK ==
    /\ pages \in [Pools -> Seq(Pages)]
    /\ mask \in [Pages -> SUBSET Slots]
    /\ owner \in [Pages -> Threads \cup {Nobody}]
    /\ readers \in [Pools -> SUBSET Threads]
    /\ writer \in [Pools -> Threads \cup {Trimmer, Nobody}]
    /\ empty \in [Pools -> Int]
    /\ reserved \in [Kinds -> Int]
    /\ pc \in [Threads -> {"idle", "read", "scan", "write", "rescan", "empty", "count",
                           "held", "drop", "dropped"}]
    /\ want \in [Threads -> [size : Nat, kind : Kinds, pool : Pools \cup {Secondary}] \cup {NoRequest}]
    /\ at \in [Threads -> Nat]
    /\ buffer \in [Threads -> (Pages \X Slots) \cup {NoBuffer}]
    /\ trim \in [step : {"check", "lock", "retain"}, pool : Pools, page : Nat]

Init ==
    /\ pages = [p \in Pools |-> <<>>]
    /\ mask = [g \in Pages |-> Slots]
    /\ owner = [g \in Pages |-> Nobody]
    /\ readers = [p \in Pools |-> {}]
    /\ writer = [p \in Pools |-> Nobody]
    /\ empty = [p \in Pools |-> 0]
    /\ reserved = [k \in Kinds |-> 0]
    /\ pc = [t \in Threads |-> "idle"]
    /\ want = [t \in Threads |-> NoRequest]
    /\ at = [t \in Threads |-> 0]
    /\ buffer = [t \in Threads |-> NoBuffer]
    /\ trim = [step |-> "check", pool |-> 1, page |-> 0]

Go(t, l) == pc' = [pc EXCEPT ![t] = l]
Pool(t) == want[t].pool

-----------------------------------------------------------------------------
\* PagedPool::get_buffer.

\* The first pool whose buffers are large enough.
GetPoolForSize(s) ==
    LET fit == {p \in Pools : Sizes[p] >= s}
    IN  IF s = 0 \/ fit = {} THEN Secondary ELSE Min(fit)

\* What a buffer counts for: all of its slot.
Bytes(t) == IF Pool(t) = Secondary THEN want[t].size ELSE Sizes[Pool(t)]

Reserve(t, n) == reserved' = [reserved EXCEPT ![want[t].kind] = @ + n]

GetPrimary(t, s, k) ==
    /\ pc[t] = "idle"
    /\ GetPoolForSize(s) # Secondary
    /\ want' = [want EXCEPT ![t] = [size |-> s, kind |-> k, pool |-> GetPoolForSize(s)]]
    /\ Go(t, "read")
    /\ UNCHANGED <<pages, mask, locks, empty, reserved, at, buffer, trim>>

\* A buffer of its own, which only counts the bytes.
GetSecondary(t, s, k) ==
    /\ pc[t] = "idle"
    /\ GetPoolForSize(s) = Secondary
    /\ want' = [want EXCEPT ![t] = [size |-> s, kind |-> k, pool |-> Secondary]]
    /\ reserved' = [reserved EXCEPT ![k] = @ + s]
    /\ Go(t, "held")
    /\ UNCHANGED <<pages, mask, locks, empty, at, buffer, trim>>

-----------------------------------------------------------------------------
\* SizePool::reserve.

ReadLock(t) ==
    /\ pc[t] = "read"
    /\ writer[Pool(t)] = Nobody
    /\ readers' = [readers EXCEPT ![Pool(t)] = @ \cup {t}]
    /\ at' = [at EXCEPT ![t] = 1]
    /\ Go(t, "scan")
    /\ UNCHANGED <<pages, mask, owner, writer, empty, reserved, want, buffer, trim>>

WriteLock(t) ==
    /\ pc[t] = "write"
    /\ writer[Pool(t)] = Nobody
    /\ readers[Pool(t)] = {}
    /\ writer' = [writer EXCEPT ![Pool(t)] = t]
    /\ at' = [at EXCEPT ![t] = 1]
    /\ Go(t, "rescan")
    /\ UNCHANGED <<pages, mask, owner, readers, empty, reserved, want, buffer, trim>>

Stop(t) == at' = [at EXCEPT ![t] = 0]
Searching(t) == pc[t] \in {"scan", "rescan"}
Here(t) == pages[Pool(t)][at[t]]

\* Page::try_reserve: the first free slot of the page.  The mask is unlocked
\* before the counters are changed.
Take(t, g) ==
    LET slot == Min(Slots \ mask[g])
    IN  /\ mask' = [mask EXCEPT ![g] = @ \cup {slot}]
        /\ buffer' = [buffer EXCEPT ![t] = <<g, slot>>]

\* Mutant: the page is looked at after the slot has been taken.
TryReserveLate(t) ==
    /\ Searching(t)
    /\ at[t] <= Len(pages[Pool(t)])
    /\ owner[Here(t)] = Nobody
    /\ mask[Here(t)] # Slots
    /\ Take(t, Here(t))
    /\ Go(t, IF mask'[Here(t)] = {} THEN "empty" ELSE "count")
    /\ Stop(t)
    /\ UNCHANGED <<pages, locks, empty, reserved, want, trim>>

TryReserve(t) ==
    /\ Searching(t)
    /\ at[t] <= Len(pages[Pool(t)])
    /\ owner[Here(t)] = Nobody
    /\ mask[Here(t)] # Slots
    /\ Take(t, Here(t))
    /\ Go(t, IF mask[Here(t)] = {} THEN "empty" ELSE "count")
    /\ Stop(t)
    /\ UNCHANGED <<pages, locks, empty, reserved, want, trim>>

PageFull(t) ==
    /\ Searching(t)
    /\ at[t] <= Len(pages[Pool(t)])
    /\ owner[Here(t)] = Nobody
    /\ mask[Here(t)] = Slots
    /\ at' = [at EXCEPT ![t] = @ + 1]
    /\ UNCHANGED <<pages, mask, locks, empty, reserved, pc, want, buffer, trim>>

\* The fast path has found nothing: the read lock is dropped.
SlowPath(t) ==
    /\ pc[t] = "scan"
    /\ at[t] > Len(pages[Pool(t)])
    /\ readers' = [readers EXCEPT ![Pool(t)] = @ \ {t}]
    /\ Go(t, "write")
    /\ Stop(t)
    /\ UNCHANGED <<pages, mask, owner, writer, empty, reserved, want, buffer, trim>>

\* An address is free when no pool and no buffer has its page.
InPool(g) == \E p \in Pools : g \in Range(pages[p])
Held(g) == \E t \in Threads : buffer[t] # NoBuffer /\ buffer[t][1] = g
FreePages == {g \in Pages : ~InPool(g) /\ ~Held(g)}

\* Page::new counts the page as empty until a slot of it is reserved.  One free
\* address is as good as another: it is given the first.
NewPage(t) ==
    /\ pc[t] = "rescan"
    /\ at[t] > Len(pages[Pool(t)])
    /\ \E g \in FreePages :
           /\ \A h \in FreePages : g <= h
           /\ pages' = [pages EXCEPT ![Pool(t)] = Append(@, g)]
           /\ mask' = [mask EXCEPT ![g] = {1}]
           /\ buffer' = [buffer EXCEPT ![t] = <<g, 1>>]
    /\ empty' = [empty EXCEPT ![Pool(t)] = @ + 1]
    /\ Go(t, "empty")
    /\ Stop(t)
    /\ UNCHANGED <<locks, reserved, want, trim>>

RemoveEmptyPage(t) ==
    /\ pc[t] = "empty"
    /\ empty' = [empty EXCEPT ![Pool(t)] = @ - 1]
    /\ Go(t, "count")
    /\ UNCHANGED <<pages, mask, locks, reserved, want, at, buffer, trim>>

\* The buffer is returned and the pages are unlocked.
AddReservedBuffer(t) ==
    /\ pc[t] = "count"
    /\ Reserve(t, Bytes(t))
    /\ readers' = [readers EXCEPT ![Pool(t)] = @ \ {t}]
    /\ writer' = [writer EXCEPT ![Pool(t)] = IF @ = t THEN Nobody ELSE @]
    /\ Go(t, "held")
    /\ UNCHANGED <<pages, mask, owner, empty, want, at, buffer, trim>>

-----------------------------------------------------------------------------
\* A buffer is dropped: Page::release, with the mask locked until the
\* counters are right.

DropSecondary(t) ==
    /\ pc[t] = "held"
    /\ Pool(t) = Secondary
    /\ Reserve(t, -want[t].size)
    /\ want' = [want EXCEPT ![t] = NoRequest]
    /\ Go(t, "idle")
    /\ UNCHANGED <<pages, mask, locks, empty, at, buffer, trim>>

Release(t) ==
    /\ pc[t] = "held"
    /\ Pool(t) # Secondary
    /\ owner[buffer[t][1]] = Nobody
    /\ owner' = [owner EXCEPT ![buffer[t][1]] = t]
    /\ mask' = [mask EXCEPT ![buffer[t][1]] = @ \ {buffer[t][2]}]
    /\ Go(t, "drop")
    /\ UNCHANGED <<pages, readers, writer, empty, reserved, want, at, buffer, trim>>

\* Mutant: the size that was asked for is released, not that of the slot.
RemoveRequested(t) ==
    /\ pc[t] = "drop"
    /\ Reserve(t, -want[t].size)
    /\ Go(t, "dropped")
    /\ UNCHANGED <<pages, mask, locks, empty, want, at, buffer, trim>>

RemoveReservedBuffer(t) ==
    /\ pc[t] = "drop"
    /\ Reserve(t, -Bytes(t))
    /\ Go(t, "dropped")
    /\ UNCHANGED <<pages, mask, locks, empty, want, at, buffer, trim>>

AddEmptyPage(t) ==
    /\ pc[t] = "dropped"
    /\ LET g == buffer[t][1]
       IN  /\ empty' = [empty EXCEPT ![Pool(t)] = IF mask[g] = {} THEN @ + 1 ELSE @]
           /\ owner' = [owner EXCEPT ![g] = Nobody]
    /\ buffer' = [buffer EXCEPT ![t] = NoBuffer]
    /\ want' = [want EXCEPT ![t] = NoRequest]
    /\ Go(t, "idle")
    /\ UNCHANGED <<pages, mask, readers, writer, reserved, at, trim>>

-----------------------------------------------------------------------------
\* PagedPoolInner::trim, one pool after the other, for ever.

NextPool == IF trim.pool = Len(Sizes) THEN 1 ELSE trim.pool + 1

\* The counter is read without a lock: a pool that looks as if it had no
\* empty page is skipped.
TrimCheck ==
    /\ trim.step = "check"
    /\ trim' = IF empty[trim.pool] = 0
               THEN [trim EXCEPT !.pool = NextPool]
               ELSE [trim EXCEPT !.step = "lock"]
    /\ UNCHANGED <<pages, mask, locks, empty, reserved, pc, want, at, buffer>>

TrimLock ==
    /\ trim.step = "lock"
    /\ writer[trim.pool] = Nobody
    /\ readers[trim.pool] = {}
    /\ writer' = [writer EXCEPT ![trim.pool] = Trimmer]
    /\ trim' = [trim EXCEPT !.step = "retain", !.page = 1]
    /\ UNCHANGED <<pages, mask, owner, readers, empty, reserved, pc, want, at, buffer>>

\* Mutant: any page that is not full is freed.
TrimAny ==
    /\ trim.step = "retain"
    /\ trim.page <= Len(pages[trim.pool])
    /\ LET g == pages[trim.pool][trim.page]
       IN  /\ owner[g] = Nobody
           /\ mask[g] # Slots
           /\ mask' = [mask EXCEPT ![g] = Slots]
    /\ empty' = [empty EXCEPT ![trim.pool] = @ - 1]
    /\ pages' = [pages EXCEPT ![trim.pool] = RemoveAt(@, trim.page)]
    /\ UNCHANGED <<locks, reserved, pc, want, at, buffer, trim>>

\* Page::invalidate_if_empty, and the page leaves the vector.
TrimPage ==
    /\ trim.step = "retain"
    /\ trim.page <= Len(pages[trim.pool])
    /\ LET g == pages[trim.pool][trim.page]
       IN  /\ owner[g] = Nobody
           /\ mask[g] = {}
           /\ mask' = [mask EXCEPT ![g] = Slots]
    /\ empty' = [empty EXCEPT ![trim.pool] = @ - 1]
    /\ pages' = [pages EXCEPT ![trim.pool] = RemoveAt(@, trim.page)]
    /\ UNCHANGED <<locks, reserved, pc, want, at, buffer, trim>>

KeepPage ==
    /\ trim.step = "retain"
    /\ trim.page <= Len(pages[trim.pool])
    /\ LET g == pages[trim.pool][trim.page]
       IN  owner[g] = Nobody /\ mask[g] # {}
    /\ trim' = [trim EXCEPT !.page = @ + 1]
    /\ UNCHANGED <<pages, mask, locks, empty, reserved, pc, want, at, buffer>>

TrimDone ==
    /\ trim.step = "retain"
    /\ trim.page > Len(pages[trim.pool])
    /\ writer' = [writer EXCEPT ![trim.pool] = Nobody]
    /\ trim' = [step |-> "check", pool |-> NextPool, page |-> 0]
    /\ UNCHANGED <<pages, mask, owner, readers, empty, reserved, pc, want, at, buffer>>

-----------------------------------------------------------------------------
Next ==
    \/ \E t \in Threads, r \in Requests : GetPrimary(t, r[1], r[2]) \/ GetSecondary(t, r[1], r[2])
    \/ \E t \in Threads :
          \/ ReadLock(t) \/ WriteLock(t) \/ TryReserve(t) \/ PageFull(t) \/ SlowPath(t)
          \/ NewPage(t) \/ RemoveEmptyPage(t) \/ AddReservedBuffer(t)
          \/ DropSecondary(t) \/ Release(t) \/ RemoveReservedBuffer(t) \/ AddEmptyPage(t)
    \/ TrimCheck \/ TrimLock \/ TrimPage \/ KeepPage \/ TrimDone

Spec == Init /\ [][Next]_vars

-----------------------------------------------------------------------------
\* A thread owns a slot from the step that reserves it to its release.
Owns(t) == buffer[t] # NoBuffer /\ pc[t] \notin {"drop", "dropped"}

\* No two buffers are the same memory, the slot of each stays marked as long
\* as the buffer is in use, and trim takes no page with a buffer out of its
\* pool.  The memory of such a page would not be freed, since the buffer keeps
\* the page alive (pages.rs:94), but the pool would have lost sight of it.
BuffersSafe ==
    /\ \A t \in Threads : Owns(t) =>
           /\ buffer[t][2] \in mask[buffer[t][1]]
           /\ \A u \in Threads \ {t} : Owns(u) => buffer[u] # buffer[t]
    /\ \A t \in Threads : buffer[t] # NoBuffer => buffer[t][1] \in Range(pages[Pool(t)])

\* Empty pages of a pool that are counted, and threads that have yet to take
\* the page they reserved first out of the count.
CountedEmpty(p) ==
    {g \in Range(pages[p]) : mask[g] = {} /\ owner[g] = Nobody}
StillCounted(p) == {t \in Threads : Pool(t) = p /\ pc[t] = "empty"}

\* The number of empty pages, which trim trusts and which is never corrected,
\* is exact once every thread is done: it neither hides an empty page for ever
\* nor falls below zero.
EmptyExact ==
    \A p \in Pools : empty[p] = Cardinality(CountedEmpty(p)) + Cardinality(StillCounted(p))

\* The reserved bytes of a kind, which the memory limiter reads, are those of
\* the buffers of that kind: of their slots for buffers on pages.
ReservedExact ==
    \A k \in Kinds :
        reserved[k] =
            LET holders == {t \in Threads : want[t].kind = k /\ pc[t] \in {"held", "drop"}}
            IN  MapThenSumSet(Bytes, holders)
=============================================================================
