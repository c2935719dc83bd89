--------------------------- MODULE PagedPoolProofs ---------------------------
(***************************************************************************)
(* Proofs about PagedPool, for any set of threads, any sizes of buffers,   *)
(* any number of buffers on a page and any requests: the memory given out  *)
(* is safe, pages change only under the write lock, and the count of empty *)
(* pages and the reserved bytes are exact.                                 *)
(***************************************************************************)
EXTENDS PagedPool, FiniteSetTheorems, SequenceTheorems, TLAPS

-----------------------------------------------------------------------------
\* Facts about the operators.

\* Min returns a member of a set of numbers.
LEMMA MinIsMember ==
    ASSUME NEW S \in SUBSET Nat, S # {}
    PROVE  Min(S) \in S
<1> DEFINE Less == {ss \in Nat \X Nat : ss[1] < ss[2]}
<1>1. IsWellFoundedOn(Less, Nat)
  BY NatLessThanWellFounded DEF OpToRel
<1>2. PICK x \in S : \A y \in S : ~(<<y, x>> \in Less)
  <2> HIDE DEF Less
  <2> QED  BY <1>1, WFMin
<1>3. ASSUME NEW y \in S
      PROVE  x =< y
  <2>1. ~(<<y, x>> \in Less)
    BY <1>2
  <2>2. ~(y < x)
    BY <2>1
  <2> QED  BY <2>2
<1> QED  BY <1>3 DEF Min

LEMMA Minus ==
    ASSUME NEW S, NEW f \in [S -> Int], NEW x
    PROVE  [f EXCEPT ![x] = @ - 1] = [f EXCEPT ![x] = @ + (-1)]
<1>1. CASE x \in S
  <2>1. f[x] - 1 = f[x] + (-1)
    BY <1>1
  <2> QED  BY <2>1
<1>2. CASE x \notin S
  BY <1>2
<1> QED  BY <1>1, <1>2

\* The pool chosen for a buffer is one of the pools or the secondary one.
LEMMA PoolForSizeType ==
    ASSUME NEW s \in Nat
    PROVE  GetPoolForSize(s) \in Pools \cup {Secondary}
<1> DEFINE fit == {p \in Pools : Sizes[p] >= s}
<1>1. fit \in SUBSET Nat
  BY PagedPoolAssumption DEF Pools
<1>2. fit # {} => Min(fit) \in fit
  BY <1>1, MinIsMember
<1> QED  BY <1>2 DEF GetPoolForSize

\* No pool has the number of the secondary one.
LEMMA SecondaryIsNoPool ==
    /\ Secondary \notin Pools
    /\ Pools = 1 .. Len(Sizes)
    /\ Len(Sizes) \in Nat \ {0}
BY PagedPoolAssumption DEF Secondary, Pools

\* The slot that is taken is a free one of the page.
LEMMA FreeSlot ==
    ASSUME NEW m \in SUBSET Slots, m # Slots
    PROVE  Min(Slots \ m) \in Slots \ m
<1>1. Slots \in SUBSET Nat
  BY PagedPoolAssumption DEF Slots
<1>2. Slots \ m \in SUBSET Nat /\ Slots \ m # {}
  BY <1>1
<1> QED  BY <1>2, MinIsMember

\* Removing a page leaves the others, in their order.
LEMMA RemoveAtFacts ==
    ASSUME NEW S, NEW s \in Seq(S), NEW i \in 1 .. Len(s)
    PROVE  /\ RemoveAt(s, i) \in Seq(S)
           /\ Len(RemoveAt(s, i)) = Len(s) - 1
           /\ \A j \in 1 .. Len(s) - 1 : RemoveAt(s, i)[j] = s[IF j < i THEN j ELSE j + 1]
<1> DEFINE a == SubSeq(s, 1, i - 1)
           b == SubSeq(s, i + 1, Len(s))
<1>1. /\ a \in Seq(S) /\ Len(a) = i - 1
      /\ \A j \in 1 .. i - 1 : a[j] = s[j]
  BY SubSeqProperties
<1>2. /\ b \in Seq(S) /\ Len(b) = Len(s) - i
      /\ \A j \in 1 .. Len(s) - i : b[j] = s[i + j]
  BY SubSeqProperties
<1>3. RemoveAt(s, i) = a \o b
  BY DEF RemoveAt
<1> HIDE DEF a, b
<1>4. /\ a \o b \in Seq(S)
      /\ Len(a \o b) = Len(s) - 1
      /\ \A j \in 1 .. Len(s) - 1 : (a \o b)[j] = IF j <= i - 1 THEN a[j] ELSE b[j - (i - 1)]
  <2>1. /\ a \o b \in Seq(S)
        /\ Len(a \o b) = Len(a) + Len(b)
        /\ \A j \in 1 .. Len(a) + Len(b) :
               (a \o b)[j] = IF j <= Len(a) THEN a[j] ELSE b[j - Len(a)]
    BY <1>1, <1>2, ConcatProperties
  <2> QED  BY <1>1, <1>2, <2>1
<1>5. ASSUME NEW j \in 1 .. Len(s) - 1
      PROVE  (a \o b)[j] = s[IF j < i THEN j ELSE j + 1]
  BY <1>1, <1>2, <1>4
<1> QED  BY <1>3, <1>4, <1>5

\* A page that is removed is gone from the pool, if it was there once.
LEMMA RemoveAtRange ==
    ASSUME NEW S, NEW s \in Seq(S), NEW i \in 1 .. Len(s),
           \A j, k \in 1 .. Len(s) : s[j] = s[k] => j = k
    PROVE  Range(RemoveAt(s, i)) = Range(s) \ {s[i]}
<1> DEFINE r == RemoveAt(s, i)
<1>1. /\ r \in Seq(S) /\ Len(r) = Len(s) - 1
      /\ \A j \in 1 .. Len(s) - 1 : r[j] = s[IF j < i THEN j ELSE j + 1]
  BY RemoveAtFacts
<1> HIDE DEF r
<1>2. DOMAIN r = 1 .. Len(s) - 1 /\ DOMAIN s = 1 .. Len(s)
  BY <1>1
<1>3. ASSUME NEW x \in Range(r)
      PROVE  x \in Range(s) /\ x # s[i]
  <2>1. PICK j \in 1 .. Len(s) - 1 : x = r[j]
    BY <1>2 DEF Range
  <2>2. PICK k \in 1 .. Len(s) : k # i /\ x = s[k]
    BY <1>1, <2>1, SMTT(30)
  <2> QED  BY <1>2, <2>2 DEF Range
<1>4. ASSUME NEW x \in Range(s), x # s[i]
      PROVE  x \in Range(r)
  <2>1. PICK k \in 1 .. Len(s) : k # i /\ x = s[k]
    BY <1>2, <1>4 DEF Range
  <2>2. PICK j \in 1 .. Len(s) - 1 : k = IF j < i THEN j ELSE j + 1
    <3>1. CASE k < i
      BY <3>1, SMTT(30)
    <3>2. CASE k > i
      <4>1. k - 1 \in 1 .. Len(s) - 1 /\ ~(k - 1 < i) /\ k = (k - 1) + 1
        BY <3>2
      <4> QED  BY <4>1
    <3> QED  BY <2>1, <3>1, <3>2
  <2>3. x = r[j]
    BY <1>1, <2>1, <2>2
  <2> QED  BY <1>2, <2>3 DEF Range
<1> QED  BY <1>3, <1>4 DEF r

\* A counter that is changed stays a function to the integers.
LEMMA CounterType ==
    ASSUME NEW S, NEW f \in [S -> Int], NEW x, NEW n \in Int
    PROVE  [f EXCEPT ![x] = @ + n] \in [S -> Int]
<1>1. CASE x \in S
  <2>1. f[x] + n \in Int
    BY <1>1
  <2> QED  BY <2>1
<1>2. CASE x \notin S
  BY <1>2
<1> QED  BY <1>1, <1>2

-----------------------------------------------------------------------------
\* What the threads hold, by where they are: the inductive invariant.

\* A thread that searches the pages has begun at the first, and so has trim.
AtPositive ==
    /\ \A t \in Threads : Searching(t) => at[t] >= 1
    /\ trim.step = "retain" => trim.page >= 1

\* A thread that asks for a page of a pool has one of the pools in mind.
PoolKnown ==
    \A t \in Threads : pc[t] \notin {"idle", "held"} => Pool(t) \in Pools

\* A thread has a buffer on a page from its reservation to the end of its
\* release.
BufferMatches ==
    \A t \in Threads :
        buffer[t] # NoBuffer <=>
            \/ pc[t] \in {"empty", "count", "drop", "dropped"}
            \/ pc[t] = "held" /\ Pool(t) # Secondary

\* A mask is locked by the thread that releases a slot of it.
OwnerMatches ==
    \A g \in Pages, t \in Threads :
        owner[g] = t <=> pc[t] \in {"drop", "dropped"} /\ buffer[t][1] = g

\* No page is in two places.
PagesDistinct ==
    \A p, q \in Pools : \A i \in DOMAIN pages[p], j \in DOMAIN pages[q] :
        pages[p][i] = pages[q][j] => p = q /\ i = j

Inv ==
    /\ TypeOK
    /\ AtPositive
    /\ PoolKnown
    /\ BufferMatches
    /\ OwnerMatches
    /\ PagesDistinct
    /\ BuffersSafe

-----------------------------------------------------------------------------
\* Type correctness.

LEMMA InitType == Init => TypeOK
BY PagedPoolAssumption, SecondaryIsNoPool
   DEF Init, TypeOK, Slots, NoBuffer

\* What a buffer counts for is a number, and so is the size asked for.
LEMMA BytesType ==
    ASSUME TypeOK, NEW t \in Threads
    PROVE  /\ Bytes(t) \in Nat
           /\ want[t].size \in Nat
           /\ -Bytes(t) \in Int
           /\ -want[t].size \in Int
<1>1. want[t].size \in Nat /\ want[t].pool \in Pools \cup {Secondary}
  BY DEF TypeOK, NoRequest
<1>2. \A p \in Pools : Sizes[p] \in Nat
  BY PagedPoolAssumption DEF Pools
<1>3. Bytes(t) \in Nat
  BY <1>1, <1>2 DEF Bytes, Pool
<1> QED  BY <1>1, <1>3

\* The page that a thread looks at is one of its pool.
LEMMA SearchedPage ==
    ASSUME TypeOK, AtPositive, NEW t \in Threads, Searching(t), Pool(t) \in Pools,
           at[t] <= Len(pages[Pool(t)])
    PROVE  /\ at[t] \in DOMAIN pages[Pool(t)]
           /\ Here(t) \in Pages
           /\ Here(t) \in Range(pages[Pool(t)])
BY DEF TypeOK, AtPositive, Here, Range

LEMMA NextPoolType ==
    ASSUME TypeOK
    PROVE  NextPool \in Pools
BY SecondaryIsNoPool DEF TypeOK, NextPool

\* Every step keeps the state well-typed.
LEMMA NextType == TypeOK /\ AtPositive /\ PoolKnown /\ [Next]_vars => TypeOK'
<1> SUFFICES ASSUME TypeOK, AtPositive, PoolKnown, [Next]_vars
             PROVE  TypeOK'
  OBVIOUS
<1> USE DEF TypeOK, locks, Go, Stop
<1>1. ASSUME NEW t \in Threads, NEW r \in Requests, GetPrimary(t, r[1], r[2])
      PROVE  TypeOK'
  <2>1. r[1] \in Nat /\ r[2] \in Kinds
    BY PagedPoolAssumption
  <2>2. want' \in [Threads -> [size : Nat, kind : Kinds, pool : Pools \cup {Secondary}] \cup {NoRequest}]
    BY <1>1, <2>1, PoolForSizeType DEF GetPrimary
  <2> QED  BY <1>1, <2>2 DEF GetPrimary
<1>2. ASSUME NEW t \in Threads, NEW r \in Requests, GetSecondary(t, r[1], r[2])
      PROVE  TypeOK'
  <2>1. r[1] \in Nat /\ r[2] \in Kinds
    BY PagedPoolAssumption
  <2>2. want' \in [Threads -> [size : Nat, kind : Kinds, pool : Pools \cup {Secondary}] \cup {NoRequest}]
    BY <1>2, <2>1, PoolForSizeType DEF GetSecondary
  <2>3. reserved' \in [Kinds -> Int]
    BY <1>2, <2>1 DEF GetSecondary
  <2> QED  BY <1>2, <2>2, <2>3 DEF GetSecondary
<1>3. ASSUME NEW t \in Threads, ReadLock(t)
      PROVE  TypeOK'
  BY <1>3 DEF ReadLock
<1>4. ASSUME NEW t \in Threads, WriteLock(t)
      PROVE  TypeOK'
  BY <1>4 DEF WriteLock
<1>5. ASSUME NEW t \in Threads, TryReserve(t)
      PROVE  TypeOK'
  <2>1. Here(t) \in Pages
    BY <1>5, SearchedPage DEF TryReserve, PoolKnown, Searching
  <2>2. Min(Slots \ mask[Here(t)]) \in Slots
    <3>1. mask[Here(t)] \in SUBSET Slots /\ mask[Here(t)] # Slots
      BY <1>5, <2>1 DEF TryReserve
    <3> QED  BY <3>1, FreeSlot
  <2>3. mask' \in [Pages -> SUBSET Slots]
    BY <1>5, <2>1, <2>2 DEF TryReserve, Take
  <2>4. buffer' \in [Threads -> (Pages \X Slots) \cup {NoBuffer}]
    BY <1>5, <2>1, <2>2 DEF TryReserve, Take
  <2> QED  BY <1>5, <2>3, <2>4 DEF TryReserve
<1>6. ASSUME NEW t \in Threads, PageFull(t)
      PROVE  TypeOK'
  BY <1>6 DEF PageFull
<1>7. ASSUME NEW t \in Threads, SlowPath(t)
      PROVE  TypeOK'
  BY <1>7 DEF SlowPath
<1>8. ASSUME NEW t \in Threads, NewPage(t)
      PROVE  TypeOK'
  <2>1. PICK g \in FreePages :
           /\ pages' = [pages EXCEPT ![Pool(t)] = Append(@, g)]
           /\ mask' = [mask EXCEPT ![g] = {1}]
           /\ buffer' = [buffer EXCEPT ![t] = <<g, 1>>]
    BY <1>8 DEF NewPage
  <2>2. g \in Pages /\ 1 \in Slots
    BY PagedPoolAssumption DEF FreePages, Slots
  <2>3. pages' \in [Pools -> Seq(Pages)]
    <3>1. Append(pages[Pool(t)], g) \in Seq(Pages)
      <4>1. pages[Pool(t)] \in Seq(Pages)
        BY <1>8 DEF NewPage, PoolKnown
      <4> QED  BY <2>2, <4>1
    <3> QED  BY <2>1, <3>1
  <2>4. mask' \in [Pages -> SUBSET Slots]
    BY <2>1, <2>2
  <2>5. buffer' \in [Threads -> (Pages \X Slots) \cup {NoBuffer}]
    BY <2>1, <2>2
  <2>6. empty' \in [Pools -> Int]
    <3>1. empty \in [Pools -> Int] /\ empty' = [empty EXCEPT ![Pool(t)] = @ + 1] /\ 1 \in Int
      BY <1>8 DEF NewPage
    <3> QED  BY <3>1, CounterType
  <2> QED  BY <1>8, <2>3, <2>4, <2>5, <2>6 DEF NewPage
<1>9. ASSUME NEW t \in Threads, RemoveEmptyPage(t)
      PROVE  TypeOK'
  <2>1. empty' = [empty EXCEPT ![Pool(t)] = @ + (-1)]
    BY <1>9, Minus DEF RemoveEmptyPage
  <2>2. empty' \in [Pools -> Int]
    <3>1. empty \in [Pools -> Int] /\ -1 \in Int
      OBVIOUS
    <3> QED  BY <2>1, <3>1, CounterType
  <2> QED  BY <1>9, <2>2 DEF RemoveEmptyPage
<1>10. ASSUME NEW t \in Threads, AddReservedBuffer(t)
       PROVE  TypeOK'
  <2>1. reserved' \in [Kinds -> Int]
    <3>1. /\ reserved \in [Kinds -> Int] /\ Bytes(t) \in Int
          /\ reserved' = [reserved EXCEPT ![want[t].kind] = @ + Bytes(t)]
      BY <1>10, BytesType DEF AddReservedBuffer, Reserve
    <3> QED  BY <3>1, CounterType
  <2>2. writer' \in [Pools -> Threads \cup {Trimmer, Nobody}]
    BY <1>10 DEF AddReservedBuffer
  <2> QED  BY <1>10, <2>1, <2>2 DEF AddReservedBuffer
<1>11. ASSUME NEW t \in Threads, DropSecondary(t)
       PROVE  TypeOK'
  <2>1. reserved' \in [Kinds -> Int]
    BY <1>11, CounterType, BytesType DEF DropSecondary, Reserve
  <2> QED  BY <1>11, <2>1 DEF DropSecondary
<1>12. ASSUME NEW t \in Threads, Release(t)
       PROVE  TypeOK'
  BY <1>12 DEF Release
<1>13. ASSUME NEW t \in Threads, RemoveReservedBuffer(t)
       PROVE  TypeOK'
  <2>1. reserved' \in [Kinds -> Int]
    BY <1>13, CounterType, BytesType DEF RemoveReservedBuffer, Reserve
  <2> QED  BY <1>13, <2>1 DEF RemoveReservedBuffer
<1>14. ASSUME NEW t \in Threads, AddEmptyPage(t)
       PROVE  TypeOK'
  <2>1. \/ empty' = [empty EXCEPT ![Pool(t)] = @ + 1]
        \/ empty' = empty
    BY <1>14 DEF AddEmptyPage
  <2>2. empty' \in [Pools -> Int]
    BY <2>1, CounterType
  <2> QED  BY <1>14, <2>2 DEF AddEmptyPage
<1>15. CASE TrimCheck
  <2>1. \/ trim' = [trim EXCEPT !.pool = NextPool]
        \/ trim' = [trim EXCEPT !.step = "lock"]
    BY <1>15 DEF TrimCheck
  <2> QED  BY <1>15, <2>1, NextPoolType DEF TrimCheck
<1>16. CASE TrimLock
  BY <1>16 DEF TrimLock
<1>17. CASE TrimPage
  <2>1. empty' = [empty EXCEPT ![trim.pool] = @ + (-1)]
    BY <1>17, Minus DEF TrimPage
  <2>2. empty' \in [Pools -> Int]
    BY <2>1, CounterType
  <2>3. trim.page \in 1 .. Len(pages[trim.pool])
    BY <1>17 DEF TrimPage, AtPositive
  <2>4. RemoveAt(pages[trim.pool], trim.page) \in Seq(Pages)
    BY <2>3, RemoveAtFacts
  <2>5. pages' \in [Pools -> Seq(Pages)]
    BY <1>17, <2>4 DEF TrimPage
  <2> QED  BY <1>17, <2>2, <2>5 DEF TrimPage
<1>18. CASE KeepPage
  <2>1. trim.page + 1 \in Nat
    OBVIOUS
  <2> QED  BY <1>18, <2>1 DEF KeepPage
<1>19. CASE TrimDone
  BY <1>19, NextPoolType DEF TrimDone
<1>20. CASE UNCHANGED vars
  BY <1>20 DEF vars
<1> QED
  BY <1>1, <1>2, <1>3, <1>4, <1>5, <1>6, <1>7, <1>8, <1>9, <1>10, <1>11, <1>12, <1>13, <1>14,
     <1>15, <1>16, <1>17, <1>18, <1>19, <1>20 DEF Next

-----------------------------------------------------------------------------
\* The invariant is inductive.

\* A buffer is on a page of one of the pools.
LEMMA BufferPool ==
    ASSUME TypeOK, PoolKnown, BufferMatches, NEW u \in Threads, buffer[u] # NoBuffer
    PROVE  Pool(u) \in Pools /\ buffer[u] \in Pages \X Slots /\ buffer[u][1] \in Pages
<1>1. want[u].pool \in Pools \cup {Secondary}
  BY DEF TypeOK, NoRequest
<1>2. Pool(u) \in Pools
  BY <1>1 DEF PoolKnown, BufferMatches, Pool
<1>3. buffer[u] \in Pages \X Slots
  BY DEF TypeOK
<1> QED  BY <1>2, <1>3

LEMMA InitInv == Init => Inv
<1> SUFFICES ASSUME Init
             PROVE  Inv
  OBVIOUS
<1>1. TypeOK
  BY InitType
<1>2. AtPositive /\ PoolKnown /\ BufferMatches
  BY DEF Init, AtPositive, PoolKnown, BufferMatches, Searching
<1>3. OwnerMatches
  BY ThreadsAssumption DEF Init, OwnerMatches
<1>4. PagesDistinct /\ BuffersSafe
  BY DEF Init, PagesDistinct, BuffersSafe, Owns
<1> QED  BY <1>1, <1>2, <1>3, <1>4 DEF Inv

\* A step of a thread that has no buffer and leaves the pages alone disturbs no
\* buffer.
LEMMA BuffersUndisturbed ==
    ASSUME BuffersSafe, NEW t \in Threads, buffer[t] = NoBuffer,
           UNCHANGED <<pages, mask, buffer>>,
           \A u \in Threads \ {t} : pc'[u] = pc[u] /\ want'[u] = want[u]
    PROVE  BuffersSafe'
BY DEF BuffersSafe, Owns, Pool

\* A thread that is given a slot nobody owns, on a page of its pool, disturbs no
\* buffer either.
LEMMA BufferGained ==
    ASSUME TypeOK, BuffersSafe, NEW t \in Threads, NEW g \in Pages, NEW s \in Slots,
           buffer[t] = NoBuffer,
           buffer' = [buffer EXCEPT ![t] = <<g, s>>],
           want' = want,
           \A u \in Threads \ {t} : pc'[u] = pc[u],
           \A u \in Threads : Owns(u) => buffer[u] # <<g, s>>,
           s \in mask'[g],
           \A u \in Threads : Owns(u) => mask[buffer[u][1]] \subseteq mask'[buffer[u][1]],
           \A u \in Threads : buffer[u] # NoBuffer =>
               Range(pages[Pool(u)]) \subseteq Range(pages'[Pool(u)]),
           g \in Range(pages'[Pool(t)])
    PROVE  BuffersSafe'
<1>1. /\ buffer'[t] = <<g, s>> /\ buffer'[t][1] = g /\ buffer'[t][2] = s
      /\ \A u \in Threads \ {t} : buffer'[u] = buffer[u]
  BY DEF TypeOK
<1>2. \A u \in Threads \ {t} : Owns(u)' <=> Owns(u)
  BY <1>1 DEF Owns
<1>3. ASSUME NEW u \in Threads, Owns(u)'
      PROVE  buffer'[u][2] \in mask'[buffer'[u][1]]
  BY <1>1, <1>2, <1>3 DEF BuffersSafe
<1>4. ASSUME NEW u \in Threads, NEW v \in Threads \ {u}, Owns(u)', Owns(v)'
      PROVE  buffer'[v] # buffer'[u]
  BY <1>1, <1>2, <1>4 DEF BuffersSafe
<1>5. ASSUME NEW u \in Threads, buffer'[u] # NoBuffer
      PROVE  buffer'[u][1] \in Range(pages'[Pool(u)'])
  BY <1>1, <1>5 DEF BuffersSafe, Pool
<1> QED  BY <1>3, <1>4, <1>5 DEF BuffersSafe

\* Trim takes a page out of its pool and out of no other.
LEMMA TrimmedPage ==
    ASSUME TypeOK, AtPositive, PagesDistinct, TrimPage
    PROVE  LET p == trim.pool
               g == pages[p][trim.page]
           IN  /\ p \in Pools /\ g \in Pages
               /\ g \in Range(pages[p])
               /\ Range(pages'[p]) = Range(pages[p]) \ {g}
               /\ \A q \in Pools \ {p} : pages'[q] = pages[q]
<1> DEFINE p == trim.pool
           s == pages[p]
<1>1. /\ p \in Pools /\ s \in Seq(Pages) /\ trim.page \in 1 .. Len(s)
  BY DEF TrimPage, AtPositive, TypeOK
<1>2. \A j, k \in 1 .. Len(s) : s[j] = s[k] => j = k
  BY <1>1 DEF PagesDistinct
<1>3. pages'[p] = RemoveAt(s, trim.page) /\ \A q \in Pools \ {p} : pages'[q] = pages[q]
  BY <1>1 DEF TrimPage, TypeOK
<1>4. Range(RemoveAt(s, trim.page)) = Range(s) \ {s[trim.page]}
  <2> HIDE DEF p, s
  <2> QED  BY <1>1, <1>2, RemoveAtRange
<1>5. s[trim.page] \in Range(s) /\ s[trim.page] \in Pages
  BY <1>1 DEF Range
<1> QED  BY <1>1, <1>3, <1>4, <1>5

LEMMA NextInv == Inv /\ [Next]_vars => Inv'
<1> SUFFICES ASSUME Inv, [Next]_vars
             PROVE  Inv'
  OBVIOUS
<1> DEFINE Rest == AtPositive /\ PoolKnown /\ BufferMatches /\ OwnerMatches /\ PagesDistinct /\ BuffersSafe
<1>0. TypeOK'
  BY NextType DEF Inv
<1> USE DEF Inv, TypeOK, locks, Go, Stop, Pool
<1>1. ASSUME NEW t \in Threads, NEW r \in Requests, GetPrimary(t, r[1], r[2])
      PROVE  Rest'
  <2>1. AtPositive'
    BY <1>1 DEF GetPrimary, AtPositive, Searching
  <2>2. PoolKnown'
    <3>1. GetPoolForSize(r[1]) \in Pools
      BY <1>1, PoolForSizeType, PagedPoolAssumption DEF GetPrimary
    <3> QED  BY <1>1, <3>1 DEF GetPrimary, PoolKnown
  <2>3. BufferMatches'
    BY <1>1 DEF GetPrimary, BufferMatches
  <2>4. OwnerMatches'
    BY <1>1 DEF GetPrimary, OwnerMatches, BufferMatches
  <2>5. PagesDistinct'
    BY <1>1 DEF GetPrimary, PagesDistinct
  <2>6. BuffersSafe'
    BY <1>1, BuffersUndisturbed DEF GetPrimary, BufferMatches
  <2> QED  BY <2>1, <2>2, <2>3, <2>4, <2>5, <2>6
<1>2. ASSUME NEW t \in Threads, NEW r \in Requests, GetSecondary(t, r[1], r[2])
      PROVE  Rest'
  <2>1. AtPositive'
    BY <1>2 DEF GetSecondary, AtPositive, Searching
  <2>2. PoolKnown'
    BY <1>2 DEF GetSecondary, PoolKnown
  <2>3. BufferMatches'
    BY <1>2 DEF GetSecondary, BufferMatches
  <2>4. OwnerMatches'
    BY <1>2 DEF GetSecondary, OwnerMatches, BufferMatches
  <2>5. PagesDistinct'
    BY <1>2 DEF GetSecondary, PagesDistinct
  <2>6. BuffersSafe'
    BY <1>2, BuffersUndisturbed DEF GetSecondary, BufferMatches
  <2> QED  BY <2>1, <2>2, <2>3, <2>4, <2>5, <2>6
<1>3. ASSUME NEW t \in Threads, ReadLock(t)
      PROVE  Rest'
  BY <1>3 DEF ReadLock, AtPositive, Searching, PoolKnown, BufferMatches, OwnerMatches,
         PagesDistinct, BuffersSafe, Owns
<1>4. ASSUME NEW t \in Threads, WriteLock(t)
      PROVE  Rest'
  BY <1>4 DEF WriteLock, AtPositive, Searching, PoolKnown, BufferMatches, OwnerMatches,
         PagesDistinct, BuffersSafe, Owns
<1>5. ASSUME NEW t \in Threads, TryReserve(t)
      PROVE  Rest'
  <2> DEFINE g == Here(t)
             slot == Min(Slots \ mask[g])
  <2>a. g \in Pages /\ g \in Range(pages[Pool(t)]) /\ Pool(t) \in Pools
    BY <1>5, SearchedPage DEF TryReserve, PoolKnown, Searching
  <2>b. slot \in Slots /\ slot \notin mask[g]
    <3>1. mask[g] \in SUBSET Slots /\ mask[g] # Slots
      BY <1>5, <2>a DEF TryReserve
    <3> QED  BY <3>1, FreeSlot
  <2>c. /\ mask' = [mask EXCEPT ![g] = @ \cup {slot}]
        /\ buffer' = [buffer EXCEPT ![t] = <<g, slot>>]
        /\ pc'[t] \in {"empty", "count"}
        /\ \A u \in Threads \ {t} : pc'[u] = pc[u]
        /\ UNCHANGED <<pages, owner, want, trim>>
        /\ buffer[t] = NoBuffer /\ pc[t] \notin {"drop", "dropped"}
        /\ <<g, slot>> # NoBuffer
    BY <1>5, <2>a DEF TryReserve, Take, Searching, BufferMatches, NoBuffer
  <2> HIDE DEF g, slot
  <2>1. AtPositive'
    BY <1>5 DEF TryReserve, AtPositive, Searching
  <2>2. PoolKnown'
    BY <2>a, <2>c DEF PoolKnown
  <2>3. BufferMatches'
    BY <2>a, <2>c DEF BufferMatches
  <2>4. OwnerMatches'
    BY <2>c DEF OwnerMatches
  <2>5. PagesDistinct'
    BY <1>5 DEF TryReserve, PagesDistinct
  <2>6. BuffersSafe'
    <3>1. \A u \in Threads : Owns(u) => buffer[u] # <<g, slot>>
      BY <2>b DEF BuffersSafe
    <3>2. \A h \in Pages : mask[h] \subseteq mask'[h]
      BY <2>a, <2>c
    <3>3. \A u \in Threads : Owns(u) => buffer[u][1] \in Pages
      BY DEF Owns
    <3>4. slot \in mask'[g]
      BY <2>a, <2>c
    <3>5. \A u \in Threads : Owns(u) => mask[buffer[u][1]] \subseteq mask'[buffer[u][1]]
      BY <3>2, <3>3
    <3>6. \A u \in Threads : Range(pages[Pool(u)]) \subseteq Range(pages'[Pool(u)])
      BY <2>c
    <3>7. TypeOK /\ BuffersSafe /\ want' = want /\ g \in Range(pages'[Pool(t)])
      BY <2>a, <2>c
    <3> HIDE DEF Inv, TypeOK, Pool, locks, Go, Stop
    <3> QED  BY <2>a, <2>b, <2>c, <3>1, <3>4, <3>5, <3>6, <3>7, BufferGained
  <2> QED  BY <2>1, <2>2, <2>3, <2>4, <2>5, <2>6
<1>6. ASSUME NEW t \in Threads, PageFull(t)
      PROVE  Rest'
  BY <1>6 DEF PageFull, AtPositive, Searching, PoolKnown, BufferMatches, OwnerMatches,
         PagesDistinct, BuffersSafe, Owns
<1>7. ASSUME NEW t \in Threads, SlowPath(t)
      PROVE  Rest'
  BY <1>7 DEF SlowPath, AtPositive, Searching, PoolKnown, BufferMatches, OwnerMatches,
         PagesDistinct, BuffersSafe, Owns
<1>8. ASSUME NEW t \in Threads, NewPage(t)
      PROVE  Rest'
  <2>a. PICK g \in FreePages :
           /\ pages' = [pages EXCEPT ![Pool(t)] = Append(@, g)]
           /\ mask' = [mask EXCEPT ![g] = {1}]
           /\ buffer' = [buffer EXCEPT ![t] = <<g, 1>>]
    BY <1>8 DEF NewPage
  <2>b. g \in Pages /\ 1 \in Slots
    BY PagedPoolAssumption DEF FreePages, Slots
  <2>c. Pool(t) \in Pools /\ pages[Pool(t)] \in Seq(Pages)
    BY <1>8 DEF NewPage, PoolKnown
  <2>d. /\ \A p \in Pools : \A i \in DOMAIN pages[p] : pages[p][i] # g
        /\ \A u \in Threads : buffer[u] # NoBuffer => buffer[u][1] # g
    BY DEF FreePages, InPool, Held, Range
  <2>e. /\ DOMAIN pages'[Pool(t)] = DOMAIN pages[Pool(t)] \cup {Len(pages[Pool(t)]) + 1}
        /\ pages'[Pool(t)][Len(pages[Pool(t)]) + 1] = g
        /\ \A i \in DOMAIN pages[Pool(t)] : pages'[Pool(t)][i] = pages[Pool(t)][i]
        /\ \A p \in Pools \ {Pool(t)} : pages'[p] = pages[p]
    BY <2>a, <2>b, <2>c, SMTT(30)
  <2>1. AtPositive'
    BY <1>8 DEF NewPage, AtPositive, Searching
  <2>2. PoolKnown'
    BY <1>8 DEF NewPage, PoolKnown
  <2>3. BufferMatches'
    <3>1. <<g, 1>> # NoBuffer
      BY DEF NoBuffer
    <3> QED  BY <1>8, <2>a, <3>1 DEF NewPage, BufferMatches
  <2>4. OwnerMatches'
    BY <1>8 DEF NewPage, OwnerMatches, BufferMatches
  <2>5. PagesDistinct'
    <3> SUFFICES ASSUME NEW p \in Pools, NEW q \in Pools,
                        NEW i \in DOMAIN pages'[p], NEW j \in DOMAIN pages'[q],
                        pages'[p][i] = pages'[q][j]
                 PROVE  p = q /\ i = j
      BY DEF PagesDistinct
    <3>1. \/ i \in DOMAIN pages[p] /\ pages'[p][i] = pages[p][i]
          \/ p = Pool(t) /\ i = Len(pages[Pool(t)]) + 1 /\ pages'[p][i] = g
      BY <2>e
    <3>2. \/ j \in DOMAIN pages[q] /\ pages'[q][j] = pages[q][j]
          \/ q = Pool(t) /\ j = Len(pages[Pool(t)]) + 1 /\ pages'[q][j] = g
      BY <2>e
    <3> QED  BY <2>d, <3>1, <3>2 DEF PagesDistinct
  <2>6. BuffersSafe'
    <3>1. buffer[t] = NoBuffer
      BY <1>8 DEF NewPage, BufferMatches
    <3>2. \A u \in Threads : Owns(u) => buffer[u] # <<g, 1>> /\ buffer[u][1] # g
      BY <2>d DEF Owns
    <3>3. 1 \in mask'[g] /\ \A h \in Pages \ {g} : mask'[h] = mask[h]
      BY <2>a, <2>b
    <3>4. \A u \in Threads : Owns(u) => mask[buffer[u][1]] \subseteq mask'[buffer[u][1]]
      BY <3>2, <3>3 DEF Owns
    <3>5. g \in Range(pages'[Pool(t)]) /\ \A p \in Pools : Range(pages[p]) \subseteq Range(pages'[p])
      <4>1. g \in Range(pages'[Pool(t)])
        BY <2>e DEF Range
      <4>2. Range(pages[Pool(t)]) \subseteq Range(pages'[Pool(t)])
        BY <2>e DEF Range
      <4> QED  BY <2>e, <4>1, <4>2
    <3>6. \A u \in Threads : buffer[u] # NoBuffer => Pool(u) \in Pools
      BY BufferPool
    <3>7. /\ TypeOK /\ BuffersSafe /\ want' = want
          /\ \A u \in Threads \ {t} : pc'[u] = pc[u]
      BY <1>8 DEF NewPage
    <3> HIDE DEF Inv, TypeOK, Pool, locks, Go, Stop
    <3> QED  BY <2>a, <2>b, <3>1, <3>2, <3>3, <3>4, <3>5, <3>6, <3>7, BufferGained, ZenonT(30)
  <2> QED  BY <2>1, <2>2, <2>3, <2>4, <2>5, <2>6
<1>9. ASSUME NEW t \in Threads, RemoveEmptyPage(t)
      PROVE  Rest'
  BY <1>9 DEF RemoveEmptyPage, AtPositive, Searching, PoolKnown, BufferMatches, OwnerMatches,
         PagesDistinct, BuffersSafe, Owns
<1>10. ASSUME NEW t \in Threads, AddReservedBuffer(t)
      PROVE  Rest'
  <2>1. AtPositive' /\ PoolKnown' /\ OwnerMatches' /\ PagesDistinct'
    BY <1>10 DEF AddReservedBuffer, AtPositive, Searching, PoolKnown, OwnerMatches, PagesDistinct
  <2>2. BufferMatches'
    BY <1>10, SecondaryIsNoPool DEF AddReservedBuffer, PoolKnown, BufferMatches
  <2>3. BuffersSafe'
    BY <1>10 DEF AddReservedBuffer, BuffersSafe, Owns
  <2> QED  BY <2>1, <2>2, <2>3
<1>11. ASSUME NEW t \in Threads, DropSecondary(t)
      PROVE  Rest'
  <2>1. AtPositive'
    BY <1>11 DEF DropSecondary, AtPositive, Searching
  <2>2. PoolKnown'
    BY <1>11 DEF DropSecondary, PoolKnown
  <2>3. BufferMatches'
    BY <1>11 DEF DropSecondary, BufferMatches
  <2>4. OwnerMatches'
    BY <1>11 DEF DropSecondary, OwnerMatches, BufferMatches
  <2>5. PagesDistinct'
    BY <1>11 DEF DropSecondary, PagesDistinct
  <2>6. BuffersSafe'
    BY <1>11, BuffersUndisturbed DEF DropSecondary, BufferMatches
  <2> QED  BY <2>1, <2>2, <2>3, <2>4, <2>5, <2>6
<1>12. ASSUME NEW t \in Threads, Release(t)
      PROVE  Rest'
  <2> DEFINE g == buffer[t][1]
             s == buffer[t][2]
  <2>a. /\ buffer[t] # NoBuffer /\ g \in Pages /\ s \in Slots /\ buffer[t] = <<g, s>>
        /\ Pool(t) \in Pools
    BY <1>12 DEF Release, BufferMatches, NoRequest
  <2>b. /\ owner[g] = Nobody /\ owner' = [owner EXCEPT ![g] = t]
        /\ mask' = [mask EXCEPT ![g] = @ \ {s}]
        /\ pc' = [pc EXCEPT ![t] = "drop"] /\ pc[t] = "held"
        /\ UNCHANGED <<pages, want, at, buffer, trim>>
    BY <1>12 DEF Release
  <2> HIDE DEF g, s
  <2>1. AtPositive'
    BY <1>12 DEF Release, AtPositive, Searching
  <2>2. PoolKnown'
    BY <2>a, <2>b DEF PoolKnown
  <2>3. BufferMatches'
    BY <1>12 DEF Release, BufferMatches
  <2>4. OwnerMatches'
    <3>1. \A u \in Threads \ {t} : ~(pc[u] \in {"drop", "dropped"} /\ buffer[u][1] = g)
      BY <2>a, <2>b, ThreadsAssumption DEF OwnerMatches
    <3>2. \A h \in Pages \ {g}, u \in Threads : owner'[h] = u <=> owner[h] = u
      BY <2>b
    <3>3. owner'[g] = t /\ buffer[t][1] = g
      BY <2>a, <2>b DEF g
    <3>4. pc'[t] = "drop" /\ \A u \in Threads \ {t} : pc'[u] = pc[u]
      BY <2>b
    <3> QED  BY <2>a, <2>b, <3>1, <3>2, <3>3, <3>4 DEF OwnerMatches
  <2>5. PagesDistinct'
    BY <1>12 DEF Release, PagesDistinct
  <2>6. BuffersSafe'
    <3>1. ~Owns(t)' /\ \A u \in Threads \ {t} : Owns(u)' <=> Owns(u)
      BY <2>b DEF Owns
    <3>2. Owns(t)
      BY <2>a, <2>b DEF Owns
    <3>3. \A u \in Threads \ {t} : Owns(u) => buffer[u][2] \in mask'[buffer[u][1]]
      <4> SUFFICES ASSUME NEW u \in Threads \ {t}, Owns(u)
                   PROVE  buffer[u][2] \in mask'[buffer[u][1]]
        OBVIOUS
      <4>1. buffer[u] \in Pages \X Slots /\ buffer[u] # buffer[t] /\ buffer[u][2] \in mask[buffer[u][1]]
        BY <3>2 DEF BuffersSafe, Owns
      <4>2. buffer[u][1] = g => buffer[u][2] # s
        BY <2>a, <4>1
      <4> QED  BY <2>a, <2>b, <4>1, <4>2
    <3> QED  BY <2>b, <3>1, <3>3 DEF BuffersSafe
  <2> QED  BY <2>1, <2>2, <2>3, <2>4, <2>5, <2>6
<1>13. ASSUME NEW t \in Threads, RemoveReservedBuffer(t)
      PROVE  Rest'
  BY <1>13 DEF RemoveReservedBuffer, AtPositive, Searching, PoolKnown, BufferMatches, OwnerMatches,
         PagesDistinct, BuffersSafe, Owns
<1>14. ASSUME NEW t \in Threads, AddEmptyPage(t)
      PROVE  Rest'
  <2>1. AtPositive'
    BY <1>14 DEF AddEmptyPage, AtPositive, Searching
  <2>2. PoolKnown'
    BY <1>14 DEF AddEmptyPage, PoolKnown
  <2>3. BufferMatches'
    BY <1>14 DEF AddEmptyPage, BufferMatches
  <2>4. OwnerMatches'
    <3>1. buffer[t] # NoBuffer /\ buffer[t][1] \in Pages
      BY <1>14 DEF AddEmptyPage, BufferMatches
    <3>2. \A h \in Pages, u \in Threads : h # buffer[t][1] => (owner'[h] = u <=> owner[h] = u)
      BY <1>14 DEF AddEmptyPage
    <3>3. owner'[buffer[t][1]] = Nobody
      BY <1>14, <3>1 DEF AddEmptyPage
    <3>4. owner[buffer[t][1]] = t
      BY <1>14, <3>1 DEF AddEmptyPage, OwnerMatches
    <3>5. \A u \in Threads \ {t} : ~(pc[u] \in {"drop", "dropped"} /\ buffer[u][1] = buffer[t][1])
      BY <3>1, <3>4 DEF OwnerMatches
    <3>6. /\ pc'[t] = "idle"
          /\ \A u \in Threads \ {t} : pc'[u] = pc[u] /\ buffer'[u] = buffer[u]
      BY <1>14 DEF AddEmptyPage
    <3>7. \A h \in Pages : owner[h] = t => h = buffer[t][1]
      BY DEF OwnerMatches
    <3> SUFFICES ASSUME NEW h \in Pages, NEW u \in Threads
                 PROVE  owner'[h] = u <=> pc'[u] \in {"drop", "dropped"} /\ buffer'[u][1] = h
      BY DEF OwnerMatches
    <3>8. CASE h = buffer[t][1]
      BY <3>3, <3>5, <3>6, <3>8, ThreadsAssumption
    <3>9. CASE h # buffer[t][1]
      <4>1. CASE u = t
        BY <3>2, <3>6, <3>7, <3>9, <4>1
      <4>2. CASE u # t
        BY <3>2, <3>6, <3>9, <4>2 DEF OwnerMatches
      <4> QED  BY <4>1, <4>2
    <3> QED  BY <3>8, <3>9
  <2>5. PagesDistinct'
    BY <1>14 DEF AddEmptyPage, PagesDistinct
  <2>6. BuffersSafe'
    BY <1>14 DEF AddEmptyPage, BuffersSafe, Owns, BufferMatches
  <2> QED  BY <2>1, <2>2, <2>3, <2>4, <2>5, <2>6
<1>15. ASSUME TrimCheck
       PROVE  Rest'
  BY <1>15 DEF TrimCheck, AtPositive, Searching, PoolKnown, BufferMatches, OwnerMatches,
         PagesDistinct, BuffersSafe, Owns
<1>16. ASSUME TrimLock
       PROVE  Rest'
  BY <1>16 DEF TrimLock, AtPositive, Searching, PoolKnown, BufferMatches, OwnerMatches,
         PagesDistinct, BuffersSafe, Owns
<1>17. ASSUME TrimPage
       PROVE  Rest'
  <2> DEFINE p == trim.pool
             s == pages[p]
             g == s[trim.page]
  <2>a. /\ p \in Pools /\ s \in Seq(Pages) /\ trim.page \in 1 .. Len(s)
        /\ g \in Pages
    BY <1>17 DEF TrimPage, AtPositive
  <2>b. /\ owner[g] = Nobody /\ mask[g] = {} /\ mask' = [mask EXCEPT ![g] = Slots]
        /\ pages' = [pages EXCEPT ![p] = RemoveAt(s, trim.page)]
        /\ UNCHANGED <<owner, pc, want, at, buffer, trim>>
    BY <1>17 DEF TrimPage
  <2>c. /\ pages'[p] \in Seq(Pages)
        /\ DOMAIN pages'[p] = 1 .. Len(s) - 1
        /\ \A j \in 1 .. Len(s) - 1 : pages'[p][j] = s[IF j < trim.page THEN j ELSE j + 1]
    <3> HIDE DEF p, s, g, Inv, TypeOK
    <3>1. /\ RemoveAt(s, trim.page) \in Seq(Pages)
          /\ Len(RemoveAt(s, trim.page)) = Len(s) - 1
          /\ \A j \in 1 .. Len(s) - 1 :
                 RemoveAt(s, trim.page)[j] = s[IF j < trim.page THEN j ELSE j + 1]
      BY <2>a, RemoveAtFacts
    <3>2. pages'[p] = RemoveAt(s, trim.page)
      BY <2>a, <2>b DEF Inv, TypeOK
    <3> QED  BY <3>1, <3>2
  <2>d. \A u \in Threads : buffer[u] # NoBuffer => buffer[u][1] # g
    BY <2>a, <2>b, ThreadsAssumption DEF BuffersSafe, Owns, OwnerMatches
  <2>1. AtPositive'
    BY <1>17 DEF TrimPage, AtPositive, Searching
  <2>2. PoolKnown'
    BY <1>17 DEF TrimPage, PoolKnown
  <2>3. BufferMatches'
    BY <1>17 DEF TrimPage, BufferMatches
  <2>4. OwnerMatches'
    BY <1>17 DEF TrimPage, OwnerMatches, BufferMatches
  <2>5. PagesDistinct'
    <3>1. \A q \in Pools : q # p => pages'[q] = pages[q]
      BY <2>b
    <3> DEFINE Old(q, i) == IF q # p \/ i < trim.page THEN i ELSE i + 1
    <3>4. \A i \in DOMAIN pages'[p] :
             Old(p, i) \in DOMAIN pages[p] /\ pages'[p][i] = pages[p][Old(p, i)]
      <4> SUFFICES ASSUME NEW i \in 1 .. Len(s) - 1
                   PROVE  Old(p, i) \in 1 .. Len(s) /\ pages'[p][i] = s[Old(p, i)]
        <5>1. DOMAIN pages[p] = 1 .. Len(s)
          BY <2>a
        <5> HIDE DEF p, Old
        <5> QED  BY <2>c, <5>1
      <4>1. Old(p, i) = IF i < trim.page THEN i ELSE i + 1
        OBVIOUS
      <4> HIDE DEF p, s, g, Old
      <4> QED  BY <2>a, <2>c, <4>1
    <3>5. \A q \in Pools : \A i \in DOMAIN pages'[q] :
             Old(q, i) \in DOMAIN pages[q] /\ pages'[q][i] = pages[q][Old(q, i)]
      BY <3>1, <3>4
    <3>6. \A q \in Pools : \A i, j \in DOMAIN pages'[q] : Old(q, i) = Old(q, j) => i = j
      BY <2>a, <2>c, <3>1
    <3> HIDE DEF Old, p, s, g
    <3> QED  BY <3>5, <3>6 DEF PagesDistinct
  <2>6. BuffersSafe'
    <3>1. \A h \in Range(pages[p]) : h # g => h \in Range(pages'[p])
      BY <1>17, TrimmedPage
    <3>2. \A q \in Pools : q # p => pages'[q] = pages[q]
      BY <2>b
    <3>3. \A u \in Threads : buffer[u] # NoBuffer => Pool(u) \in Pools /\ buffer[u][1] \in Pages
      BY BufferPool
    <3>4. \A h \in Pages : h # g => mask'[h] = mask[h]
      BY <2>b
    <3>5. \A u \in Threads : Owns(u)' <=> Owns(u)
      BY <2>b DEF Owns
    <3>6. \A u \in Threads : buffer[u] # NoBuffer => buffer[u][1] \in Range(pages'[Pool(u)])
      BY <2>d, <3>1, <3>2, <3>3 DEF BuffersSafe
    <3>7. \A u \in Threads : Owns(u) => buffer[u][2] \in mask'[buffer[u][1]]
      BY <2>d, <3>3, <3>4 DEF BuffersSafe, Owns
    <3> QED  BY <2>b, <3>5, <3>6, <3>7 DEF BuffersSafe
  <2> QED  BY <2>1, <2>2, <2>3, <2>4, <2>5, <2>6
<1>18. ASSUME KeepPage
       PROVE  Rest'
  BY <1>18 DEF KeepPage, AtPositive, Searching, PoolKnown, BufferMatches, OwnerMatches,
         PagesDistinct, BuffersSafe, Owns
<1>19. ASSUME TrimDone
       PROVE  Rest'
  BY <1>19 DEF TrimDone, AtPositive, Searching, PoolKnown, BufferMatches, OwnerMatches,
         PagesDistinct, BuffersSafe, Owns
<1>20. ASSUME UNCHANGED vars
       PROVE  Rest'
  BY <1>20 DEF vars, AtPositive, Searching, PoolKnown, BufferMatches, OwnerMatches,
         PagesDistinct, BuffersSafe, Owns
<1> QED
  BY <1>0, <1>1, <1>2, <1>3, <1>4, <1>5, <1>6, <1>7, <1>8, <1>9, <1>10, <1>11, <1>12, <1>13, <1>14, <1>15, <1>16, <1>17, <1>18, <1>19, <1>20 DEF Next

\* The state is well-typed: no counter, lock or buffer is ever out of its range.
THEOREM PoolTypeCorrect == Spec => []TypeOK
<1>1. Inv => TypeOK
  BY DEF Inv
<1> QED  BY <1>1, InitInv, NextInv, PTL DEF Spec

\* No memory is given out twice, and none is freed in use: PagedPool.BuffersSafe
\* for any number of threads, sizes and buffers on a page.
THEOREM PoolBuffersSafe == Spec => []BuffersSafe
<1>1. Inv => BuffersSafe
  BY DEF Inv
<1> QED  BY <1>1, InitInv, NextInv, PTL DEF Spec

-----------------------------------------------------------------------------
\* The reader-writer lock of a pool.

\* A writer is alone.
WriterAlone == \A p \in Pools : writer[p] # Nobody => readers[p] = {}

\* The holders of the lock of a pool, by where they are.
TrimmerMatches ==
    \A p \in Pools : writer[p] = Trimmer <=> trim.step = "retain" /\ trim.pool = p

HoldersMatch ==
    \A p \in Pools, t \in Threads :
        /\ t \in readers[p] => Pool(t) = p /\ pc[t] \in {"scan", "empty", "count"}
        /\ writer[p] = t => Pool(t) = p /\ pc[t] \in {"rescan", "empty", "count"}

\* A thread that searches the pages holds the lock.
SearchersHold ==
    \A t \in Threads :
        /\ pc[t] = "scan" => t \in readers[Pool(t)]
        /\ pc[t] = "rescan" => writer[Pool(t)] = t

LocksMatch == WriterAlone /\ TrimmerMatches /\ HoldersMatch /\ SearchersHold

LEMMA LocksInductive == Inv /\ LocksMatch /\ [Next]_vars => LocksMatch'
<1> SUFFICES ASSUME Inv, LocksMatch, [Next]_vars
             PROVE  LocksMatch'
  OBVIOUS
<1> USE ThreadsAssumption DEF Inv, TypeOK, locks, Go, Stop, Pool, LocksMatch,
       WriterAlone, TrimmerMatches, HoldersMatch, SearchersHold
<1>1. ASSUME NEW t \in Threads, NEW r \in Requests, GetPrimary(t, r[1], r[2])
      PROVE  LocksMatch'
  BY <1>1 DEF GetPrimary, PoolKnown
<1>2. ASSUME NEW t \in Threads, NEW r \in Requests, GetSecondary(t, r[1], r[2])
      PROVE  LocksMatch'
  BY <1>2 DEF GetSecondary, PoolKnown
<1>3. ASSUME NEW t \in Threads, ReadLock(t)
      PROVE  LocksMatch'
  <2>0. Pool(t) \in Pools
    BY <1>3 DEF ReadLock, PoolKnown
  <2>1. pc'[t] = "scan" /\ \A u \in Threads \ {t} : pc'[u] = pc[u]
    BY <1>3 DEF ReadLock
  <2>2. WriterAlone'
    BY <1>3, <2>0, <2>1 DEF ReadLock
  <2>3. TrimmerMatches'
    BY <1>3, <2>0, <2>1 DEF ReadLock
  <2>4. HoldersMatch'
    BY <1>3, <2>0, <2>1 DEF ReadLock
  <2>5. SearchersHold'
    BY <1>3, <2>0, <2>1 DEF ReadLock
  <2> QED  BY <2>2, <2>3, <2>4, <2>5
<1>4. ASSUME NEW t \in Threads, WriteLock(t)
      PROVE  LocksMatch'
  <2>0. Pool(t) \in Pools
    BY <1>4 DEF WriteLock, PoolKnown
  <2>1. pc'[t] = "rescan" /\ \A u \in Threads \ {t} : pc'[u] = pc[u]
    BY <1>4 DEF WriteLock
  <2>2. WriterAlone'
    BY <1>4, <2>0, <2>1 DEF WriteLock
  <2>3. TrimmerMatches'
    BY <1>4, <2>0, <2>1 DEF WriteLock, Trimmer, Nobody
  <2>4. HoldersMatch'
    BY <1>4, <2>0, <2>1 DEF WriteLock
  <2>5. SearchersHold'
    BY <1>4, <2>0, <2>1 DEF WriteLock
  <2> QED  BY <2>2, <2>3, <2>4, <2>5
<1>5. ASSUME NEW t \in Threads, TryReserve(t)
      PROVE  LocksMatch'
  BY <1>5 DEF TryReserve, PoolKnown
<1>6. ASSUME NEW t \in Threads, PageFull(t)
      PROVE  LocksMatch'
  BY <1>6 DEF PageFull, PoolKnown
<1>7. ASSUME NEW t \in Threads, SlowPath(t)
      PROVE  LocksMatch'
  BY <1>7 DEF SlowPath, PoolKnown
<1>8. ASSUME NEW t \in Threads, NewPage(t)
      PROVE  LocksMatch'
  BY <1>8 DEF NewPage, PoolKnown
<1>9. ASSUME NEW t \in Threads, RemoveEmptyPage(t)
      PROVE  LocksMatch'
  BY <1>9 DEF RemoveEmptyPage, PoolKnown
<1>10. ASSUME NEW t \in Threads, AddReservedBuffer(t)
      PROVE  LocksMatch'
  <2>0. Pool(t) \in Pools
    BY <1>10 DEF AddReservedBuffer, PoolKnown
  <2>1. pc'[t] = "held" /\ \A u \in Threads \ {t} : pc'[u] = pc[u]
    BY <1>10 DEF AddReservedBuffer
  <2>2. WriterAlone'
    BY <1>10, <2>0, <2>1 DEF AddReservedBuffer
  <2>3. TrimmerMatches'
    BY <1>10, <2>0, <2>1 DEF AddReservedBuffer, Trimmer, Nobody
  <2>4. HoldersMatch'
    BY <1>10, <2>0, <2>1 DEF AddReservedBuffer
  <2>5. SearchersHold'
    BY <1>10, <2>0, <2>1 DEF AddReservedBuffer
  <2> QED  BY <2>2, <2>3, <2>4, <2>5
<1>11. ASSUME NEW t \in Threads, DropSecondary(t)
      PROVE  LocksMatch'
  BY <1>11 DEF DropSecondary, PoolKnown
<1>12. ASSUME NEW t \in Threads, Release(t)
      PROVE  LocksMatch'
  BY <1>12 DEF Release, PoolKnown
<1>13. ASSUME NEW t \in Threads, RemoveReservedBuffer(t)
      PROVE  LocksMatch'
  BY <1>13 DEF RemoveReservedBuffer, PoolKnown
<1>14. ASSUME NEW t \in Threads, AddEmptyPage(t)
      PROVE  LocksMatch'
  BY <1>14 DEF AddEmptyPage, PoolKnown
<1>15. CASE TrimCheck
  BY <1>15 DEF TrimCheck
<1>16. CASE TrimLock
  BY <1>16 DEF TrimLock
<1>17. CASE TrimPage
  BY <1>17 DEF TrimPage
<1>18. CASE KeepPage
  BY <1>18 DEF KeepPage
<1>19. CASE TrimDone
  <2>1. trim'.step = "check" /\ writer[trim.pool] = Trimmer /\ Trimmer # Nobody
    BY <1>19 DEF TrimDone, Trimmer, Nobody
  <2>2. WriterAlone'
    BY <1>19, <2>1 DEF TrimDone
  <2>3. TrimmerMatches'
    BY <1>19, <2>1 DEF TrimDone
  <2>4. HoldersMatch'
    BY <1>19, <2>1 DEF TrimDone
  <2>5. SearchersHold'
    BY <1>19, <2>1 DEF TrimDone
  <2> QED  BY <2>2, <2>3, <2>4, <2>5
<1>20. CASE UNCHANGED vars
  BY <1>20 DEF vars
<1> QED
  BY <1>1, <1>2, <1>3, <1>4, <1>5, <1>6, <1>7, <1>8, <1>9, <1>10, <1>11, <1>12, <1>13, <1>14, <1>15, <1>16, <1>17, <1>18, <1>19, <1>20 DEF Next

\* The pages of a pool do not change under a thread that searches them: its
\* place among them stays good from one page to the next.
SearchUndisturbed ==
    \A t \in Threads : Searching(t) /\ Searching(t)' => pages'[Pool(t)] = pages[Pool(t)]

LEMMA SearchStep == Inv /\ LocksMatch /\ [Next]_vars => SearchUndisturbed
<1> SUFFICES ASSUME Inv, LocksMatch, [Next]_vars, NEW t \in Threads, Searching(t), Searching(t)'
             PROVE  pages'[Pool(t)] = pages[Pool(t)]
  BY DEF SearchUndisturbed
<1>1. /\ Pool(t) \in Pools
      /\ t \in readers[Pool(t)] \/ writer[Pool(t)] = t
  BY DEF Searching, LocksMatch, SearchersHold, Inv, PoolKnown
<1>2. ASSUME NEW u \in Threads, NewPage(u)
      PROVE  pages'[Pool(t)] = pages[Pool(t)]
  <2>1. u # t
    BY <1>2 DEF NewPage, Go, Searching, Inv, TypeOK
  <2>2. writer[Pool(u)] = u /\ Pool(u) \in Pools
    BY <1>2 DEF NewPage, LocksMatch, SearchersHold, Inv, PoolKnown
  <2>3. Pool(u) # Pool(t)
    BY <1>1, <2>1, <2>2, ThreadsAssumption DEF LocksMatch, WriterAlone
  <2> QED  BY <1>1, <1>2, <2>3 DEF NewPage, Inv, TypeOK
<1>3. CASE TrimPage
  <2>1. writer[trim.pool] = Trimmer /\ trim.pool \in Pools
    BY <1>3 DEF TrimPage, LocksMatch, TrimmerMatches, Inv, TypeOK
  <2>2. Pool(t) # trim.pool
    BY <1>1, <2>1, ThreadsAssumption DEF LocksMatch, WriterAlone, Trimmer, Nobody
  <2> QED  BY <1>1, <1>3, <2>2 DEF TrimPage, Inv, TypeOK
<1>4. CASE pages' = pages
  BY <1>4
<1> QED
  BY <1>2, <1>3, <1>4
     DEF Next, vars, GetPrimary, GetSecondary, ReadLock, WriteLock, TryReserve, PageFull, SlowPath,
         RemoveEmptyPage, AddReservedBuffer, DropSecondary, Release, RemoveReservedBuffer,
         AddEmptyPage, TrimCheck, TrimLock, KeepPage, TrimDone

\* No page is added to or taken out of a pool while a thread searches it: the
\* read lock of reserve's fast path and the write lock of its slow path and of
\* trim exclude each other.
THEOREM PoolSearchUndisturbed == Spec => [][SearchUndisturbed]_vars
<1>1. Init => LocksMatch
  BY ThreadsAssumption
     DEF Init, LocksMatch, WriterAlone, TrimmerMatches, HoldersMatch, SearchersHold, Nobody, Trimmer
<1> QED  BY <1>1, InitInv, NextInv, LocksInductive, SearchStep, PTL DEF Spec

-----------------------------------------------------------------------------
\* The count of empty pages.

LEMMA CountsFinite ==
    ASSUME TypeOK, NEW p \in Pools
    PROVE  IsFiniteSet(CountedEmpty(p)) /\ IsFiniteSet(StillCounted(p))
<1>1. pages[p] \in Surjection(1 .. Len(pages[p]), Range(pages[p])) /\ Len(pages[p]) \in Nat
  <2>1. pages[p] \in Seq(Pages)
    BY DEF TypeOK
  <2> QED  BY <2>1 DEF Surjection, Range
<1>2. IsFiniteSet(1 .. Len(pages[p]))
  BY <1>1, FS_Interval
<1>3. IsFiniteSet(Range(pages[p]))
  BY <1>1, <1>2, FS_Surjection
<1>4. CountedEmpty(p) \in SUBSET Range(pages[p]) /\ StillCounted(p) \in SUBSET Threads
  BY DEF CountedEmpty, StillCounted
<1> QED  BY <1>3, <1>4, FS_Subset, PagedPoolAssumption

\* A page of a pool is in no other.
LEMMA InOnePool ==
    ASSUME PagesDistinct, NEW p \in Pools, NEW g \in Range(pages[p]), NEW q \in Pools \ {p}
    PROVE  g \notin Range(pages[q])
BY DEF PagesDistinct, Range

\* The steps of a thread that change no page and no count.
LEMMA CountKept ==
    ASSUME EmptyExact, UNCHANGED <<pages, mask, owner, empty>>, NEW t \in Threads,
           pc[t] # "empty", pc'[t] # "empty",
           \A u \in Threads \ {t} : pc'[u] = pc[u] /\ want'[u] = want[u]
    PROVE  EmptyExact'
<1>1. \A p \in Pools : CountedEmpty(p)' = CountedEmpty(p)
  BY DEF CountedEmpty
<1>2. \A p \in Pools : StillCounted(p)' = StillCounted(p)
  BY DEF StillCounted, Pool
<1> QED  BY <1>1, <1>2 DEF EmptyExact

\* The count of one pool, and the ways in which a step may change it: the count
\* changes by as much as the pages and the threads that it stands for.
Exact(p) == empty[p] = Cardinality(CountedEmpty(p)) + Cardinality(StillCounted(p))

LEMMA CountStep ==
    ASSUME TypeOK, NEW p \in Pools, Exact(p)
    PROVE  /\ /\ CountedEmpty(p)' = CountedEmpty(p)
              /\ StillCounted(p)' = StillCounted(p)
              /\ empty'[p] = empty[p]
              => Exact(p)'
           /\ \A g \in CountedEmpty(p), t \in Threads \ StillCounted(p) :
                  /\ CountedEmpty(p)' = CountedEmpty(p) \ {g}
                  /\ StillCounted(p)' = StillCounted(p) \cup {t}
                  /\ empty'[p] = empty[p]
                  => Exact(p)'
           /\ \A g \in CountedEmpty(p) :
                  /\ CountedEmpty(p)' = CountedEmpty(p) \ {g}
                  /\ StillCounted(p)' = StillCounted(p)
                  /\ empty'[p] = empty[p] - 1
                  => Exact(p)'
           /\ \A g \in Pages \ CountedEmpty(p) :
                  /\ CountedEmpty(p)' = CountedEmpty(p) \cup {g}
                  /\ StillCounted(p)' = StillCounted(p)
                  /\ empty'[p] = empty[p] + 1
                  => Exact(p)'
           /\ \A t \in Threads \ StillCounted(p) :
                  /\ CountedEmpty(p)' = CountedEmpty(p)
                  /\ StillCounted(p)' = StillCounted(p) \cup {t}
                  /\ empty'[p] = empty[p] + 1
                  => Exact(p)'
           /\ \A t \in StillCounted(p) :
                  /\ CountedEmpty(p)' = CountedEmpty(p)
                  /\ StillCounted(p)' = StillCounted(p) \ {t}
                  /\ empty'[p] = empty[p] - 1
                  => Exact(p)'
<1> DEFINE c == CountedEmpty(p)
           s == StillCounted(p)
<1>1. /\ IsFiniteSet(c) /\ Cardinality(c) \in Nat
      /\ IsFiniteSet(s) /\ Cardinality(s) \in Nat
  BY CountsFinite, FS_CardinalityType
<1>2. /\ \A g \in c : Cardinality(c \ {g}) = Cardinality(c) - 1
      /\ \A g : g \notin c => Cardinality(c \cup {g}) = Cardinality(c) + 1
      /\ \A t \in s : Cardinality(s \ {t}) = Cardinality(s) - 1
      /\ \A t : t \notin s => Cardinality(s \cup {t}) = Cardinality(s) + 1
  BY <1>1, FS_AddElement, FS_RemoveElement
<1> QED  BY <1>1, <1>2 DEF Exact

LEMMA CountInductive == Inv /\ EmptyExact /\ [Next]_vars => EmptyExact'
<1> SUFFICES ASSUME Inv, EmptyExact, [Next]_vars
             PROVE  EmptyExact'
  OBVIOUS
<1> USE DEF Inv, TypeOK, locks, Go, Stop
<1>1. ASSUME NEW t \in Threads, NEW r \in Requests, GetPrimary(t, r[1], r[2])
      PROVE  EmptyExact'
  BY <1>1, CountKept DEF GetPrimary
<1>2. ASSUME NEW t \in Threads, NEW r \in Requests, GetSecondary(t, r[1], r[2])
      PROVE  EmptyExact'
  BY <1>2, CountKept DEF GetSecondary
<1>3. ASSUME NEW t \in Threads, ReadLock(t)
      PROVE  EmptyExact'
  BY <1>3, CountKept DEF ReadLock
<1>4. ASSUME NEW t \in Threads, WriteLock(t)
      PROVE  EmptyExact'
  BY <1>4, CountKept DEF WriteLock
<1>5. ASSUME NEW t \in Threads, PageFull(t)
      PROVE  EmptyExact'
  BY <1>5, CountKept DEF PageFull, Searching
<1>6. ASSUME NEW t \in Threads, SlowPath(t)
      PROVE  EmptyExact'
  BY <1>6, CountKept DEF SlowPath
<1>7. ASSUME NEW t \in Threads, AddReservedBuffer(t)
      PROVE  EmptyExact'
  BY <1>7, CountKept DEF AddReservedBuffer
<1>8. ASSUME NEW t \in Threads, DropSecondary(t)
      PROVE  EmptyExact'
  BY <1>8, CountKept DEF DropSecondary
<1>9. ASSUME NEW t \in Threads, RemoveReservedBuffer(t)
      PROVE  EmptyExact'
  BY <1>9, CountKept DEF RemoveReservedBuffer
<1>e. \A q \in Pools : Exact(q)
  BY DEF EmptyExact, Exact
<1>10. ASSUME NEW t \in Threads, TryReserve(t)
       PROVE  EmptyExact'
  <2> DEFINE g == Here(t)
             slot == Min(Slots \ mask[g])
  <2>p. PICK p \in Pools : p = Pool(t)
    BY <1>10 DEF TryReserve, PoolKnown, Searching
  <2>a. g \in Pages /\ g \in Range(pages[p])
    BY <1>10, <2>p, SearchedPage DEF TryReserve
  <2>b. /\ mask' = [mask EXCEPT ![g] = @ \cup {slot}] /\ owner[g] = Nobody
        /\ pc'[t] = IF mask[g] = {} THEN "empty" ELSE "count"
        /\ \A u \in Threads \ {t} : pc'[u] = pc[u]
        /\ UNCHANGED <<pages, owner, want, empty>>
        /\ pc[t] # "empty"
    BY <1>10 DEF TryReserve, Take, Searching
  <2> HIDE DEF g, slot
  <2>1. ASSUME NEW q \in Pools \ {p}
        PROVE  Exact(q)'
    <3>1. g \notin Range(pages[q])
      BY <2>a, InOnePool
    <3>2. CountedEmpty(q)' = CountedEmpty(q) /\ StillCounted(q)' = StillCounted(q)
      BY <2>b, <2>p, <3>1 DEF CountedEmpty, StillCounted, Pool
    <3> QED  BY <1>e, <2>b, <3>2, CountStep
  <2>2. CASE mask[g] = {}
    <3>1. CountedEmpty(p)' = CountedEmpty(p) \ {g} /\ g \in CountedEmpty(p)
      <4>1. mask'[g] # {} /\ \A h \in Pages \ {g} : mask'[h] = mask[h]
        BY <2>a, <2>b
      <4>2. \A h \in Range(pages[p]) : h \in Pages
        BY DEF Range
      <4> QED  BY <2>a, <2>b, <2>2, <4>1, <4>2 DEF CountedEmpty
    <3>2. StillCounted(p)' = StillCounted(p) \cup {t} /\ t \notin StillCounted(p)
      BY <2>b, <2>p, <2>2 DEF StillCounted, Pool
    <3>3. Exact(p)'
      BY <1>e, <2>b, <3>1, <3>2, CountStep
    <3> QED  BY <2>1, <3>3 DEF EmptyExact, Exact
  <2>3. CASE mask[g] # {}
    <3>1. CountedEmpty(p)' = CountedEmpty(p)
      BY <2>a, <2>b, <2>3 DEF CountedEmpty
    <3>2. StillCounted(p)' = StillCounted(p)
      BY <2>b, <2>3 DEF StillCounted, Pool
    <3>3. Exact(p)'
      BY <1>e, <2>b, <3>1, <3>2, CountStep
    <3> QED  BY <2>1, <3>3 DEF EmptyExact, Exact
  <2> QED  BY <2>2, <2>3
<1>11. ASSUME NEW t \in Threads, NewPage(t)
       PROVE  EmptyExact'
  <2>p. PICK p \in Pools : p = Pool(t)
    BY <1>11 DEF NewPage, PoolKnown
  <2>1. PICK g \in FreePages :
           /\ pages' = [pages EXCEPT ![p] = Append(@, g)]
           /\ mask' = [mask EXCEPT ![g] = {1}]
    BY <1>11, <2>p DEF NewPage
  <2>2. pages[p] \in Seq(Pages) /\ g \in Pages
    BY DEF FreePages
  <2>3. \A q \in Pools : g \notin Range(pages[q])
    BY DEF FreePages, InPool
  <2>4. Range(pages'[p]) = Range(pages[p]) \cup {g}
    <3>1. /\ DOMAIN pages'[p] = DOMAIN pages[p] \cup {Len(pages[p]) + 1}
          /\ pages'[p][Len(pages[p]) + 1] = g
          /\ \A i \in DOMAIN pages[p] : pages'[p][i] = pages[p][i]
      BY <2>1, <2>2
    <3> QED  BY <3>1 DEF Range
  <2>5. \A q \in Pools \ {p} : pages'[q] = pages[q]
    BY <2>1
  <2>6. mask'[g] # {} /\ \A h \in Pages \ {g} : mask'[h] = mask[h]
    BY <2>1, <2>2
  <2>7. \A q \in Pools : \A h \in Range(pages[q]) : h \in Pages
    BY DEF Range
  <2>8. \A q \in Pools : CountedEmpty(q)' = CountedEmpty(q)
    <3>1. owner' = owner
      BY <1>11 DEF NewPage
    <3>2. CountedEmpty(p)' = CountedEmpty(p)
      BY <2>3, <2>4, <2>6, <2>7, <3>1 DEF CountedEmpty
    <3>3. \A q \in Pools \ {p} : CountedEmpty(q)' = CountedEmpty(q)
      BY <2>3, <2>5, <2>6, <2>7, <3>1 DEF CountedEmpty
    <3> QED  BY <3>2, <3>3
  <2>9. /\ StillCounted(p)' = StillCounted(p) \cup {t} /\ t \notin StillCounted(p)
        /\ \A q \in Pools \ {p} : StillCounted(q)' = StillCounted(q)
    BY <1>11, <2>p DEF NewPage, StillCounted, Pool
  <2>10. /\ empty'[p] = empty[p] + 1
         /\ \A q \in Pools \ {p} : empty'[q] = empty[q]
    BY <1>11, <2>p DEF NewPage
  <2>11. Exact(p)'
    BY <1>e, <2>8, <2>9, <2>10, CountStep
  <2>12. \A q \in Pools \ {p} : Exact(q)'
    BY <1>e, <2>8, <2>9, <2>10, CountStep
  <2> QED  BY <2>11, <2>12 DEF EmptyExact, Exact
<1>12. ASSUME NEW t \in Threads, RemoveEmptyPage(t)
       PROVE  EmptyExact'
  <2>p. PICK p \in Pools : p = Pool(t)
    BY <1>12 DEF RemoveEmptyPage, PoolKnown
  <2>1. \A q \in Pools : CountedEmpty(q)' = CountedEmpty(q)
    BY <1>12 DEF RemoveEmptyPage, CountedEmpty
  <2>2. /\ StillCounted(p)' = StillCounted(p) \ {t} /\ t \in StillCounted(p)
        /\ \A q \in Pools \ {p} : StillCounted(q)' = StillCounted(q)
    BY <1>12, <2>p DEF RemoveEmptyPage, StillCounted, Pool
  <2>3. /\ empty'[p] = empty[p] - 1
        /\ \A q \in Pools \ {p} : empty'[q] = empty[q]
    BY <1>12, <2>p DEF RemoveEmptyPage
  <2>4. Exact(p)'
    BY <1>e, <2>1, <2>2, <2>3, CountStep
  <2>5. \A q \in Pools \ {p} : Exact(q)'
    BY <1>e, <2>1, <2>2, <2>3, CountStep
  <2> QED  BY <2>4, <2>5 DEF EmptyExact, Exact
<1>13. ASSUME NEW t \in Threads, Release(t)
       PROVE  EmptyExact'
  <2> DEFINE g == buffer[t][1]
             s == buffer[t][2]
  <2>1. g \in Pages /\ s \in mask[g]
    BY <1>13, BufferPool DEF Release, BufferMatches, BuffersSafe, Owns
  <2>2. \A q \in Pools : CountedEmpty(q)' = CountedEmpty(q)
    BY <1>13, <2>1, ThreadsAssumption DEF Release, CountedEmpty
  <2>3. \A q \in Pools : StillCounted(q)' = StillCounted(q)
    BY <1>13 DEF Release, StillCounted, Pool
  <2>4. \A q \in Pools : Exact(q)'
    BY <1>e, <1>13, <2>2, <2>3, CountStep DEF Release
  <2> QED  BY <2>4 DEF EmptyExact, Exact
<1>14. ASSUME NEW t \in Threads, AddEmptyPage(t)
       PROVE  EmptyExact'
  <2> DEFINE g == buffer[t][1]
  <2>p. PICK p \in Pools : p = Pool(t)
    BY <1>14 DEF AddEmptyPage, PoolKnown
  <2>1. g \in Pages /\ owner[g] = t /\ t # Nobody /\ g \in Range(pages[p])
    BY <1>14, <2>p, BufferPool, ThreadsAssumption
       DEF AddEmptyPage, BufferMatches, OwnerMatches, BuffersSafe
  <2>2. /\ owner' = [owner EXCEPT ![g] = Nobody]
        /\ UNCHANGED <<pages, mask>>
        /\ empty' = [empty EXCEPT ![p] = IF mask[g] = {} THEN @ + 1 ELSE @]
    BY <1>14, <2>p DEF AddEmptyPage
  <2>3. \A q \in Pools : StillCounted(q)' = StillCounted(q)
    BY <1>14 DEF AddEmptyPage, StillCounted, Pool
  <2> HIDE DEF g
  <2>4. ASSUME NEW q \in Pools \ {p}
        PROVE  Exact(q)'
    <3>1. g \notin Range(pages[q])
      BY <2>1, InOnePool
    <3>2. CountedEmpty(q)' = CountedEmpty(q) /\ empty'[q] = empty[q]
      BY <2>2, <3>1 DEF CountedEmpty
    <3> QED  BY <1>e, <2>3, <3>2, CountStep
  <2>5. CASE mask[g] = {}
    <3>1. CountedEmpty(p)' = CountedEmpty(p) \cup {g} /\ g \notin CountedEmpty(p)
      BY <2>1, <2>2, <2>5 DEF CountedEmpty
    <3>2. empty'[p] = empty[p] + 1
      BY <2>2, <2>5
    <3>3. Exact(p)'
      BY <1>e, <2>1, <2>3, <3>1, <3>2, CountStep
    <3> QED  BY <2>4, <3>3 DEF EmptyExact, Exact
  <2>6. CASE mask[g] # {}
    <3>1. CountedEmpty(p)' = CountedEmpty(p)
      BY <2>1, <2>2, <2>6 DEF CountedEmpty
    <3>2. empty'[p] = empty[p]
      BY <2>2, <2>6
    <3>3. Exact(p)'
      BY <1>e, <2>3, <3>1, <3>2, CountStep
    <3> QED  BY <2>4, <3>3 DEF EmptyExact, Exact
  <2> QED  BY <2>5, <2>6
<1>15. CASE TrimPage
  <2> DEFINE g == pages[trim.pool][trim.page]
  <2>p. PICK p \in Pools : p = trim.pool
    OBVIOUS
  <2>1. /\ g \in Pages /\ g \in Range(pages[p])
        /\ Range(pages'[p]) = Range(pages[p]) \ {g}
        /\ \A q \in Pools \ {p} : pages'[q] = pages[q]
    BY <1>15, <2>p, TrimmedPage
  <2>2. /\ mask[g] = {} /\ owner[g] = Nobody
        /\ mask' = [mask EXCEPT ![g] = Slots]
        /\ empty' = [empty EXCEPT ![p] = @ - 1]
        /\ UNCHANGED <<owner, pc, want>>
    BY <1>15, <2>p DEF TrimPage
  <2> HIDE DEF g
  <2>3. \A q \in Pools : StillCounted(q)' = StillCounted(q)
    BY <2>2 DEF StillCounted, Pool
  <2>4. ASSUME NEW q \in Pools \ {p}
        PROVE  Exact(q)'
    <3>1. g \notin Range(pages[q]) /\ empty'[q] = empty[q]
      BY <2>1, <2>2, InOnePool
    <3>2. CountedEmpty(q)' = CountedEmpty(q)
      BY <2>1, <2>2, <3>1 DEF CountedEmpty
    <3> QED  BY <1>e, <2>3, <3>1, <3>2, CountStep
  <2>5. CountedEmpty(p)' = CountedEmpty(p) \ {g} /\ g \in CountedEmpty(p)
    <3>1. \A h \in Range(pages'[p]) : h # g /\ mask'[h] = mask[h]
      BY <2>1, <2>2
    <3> QED  BY <2>1, <2>2, <3>1 DEF CountedEmpty
  <2>6. empty'[p] = empty[p] - 1
    BY <2>2
  <2>7. Exact(p)'
    BY <1>e, <2>3, <2>5, <2>6, CountStep
  <2> QED  BY <2>4, <2>7 DEF EmptyExact, Exact
<1>16. CASE TrimCheck \/ TrimLock \/ KeepPage \/ TrimDone \/ UNCHANGED vars
  <2>1. UNCHANGED <<pages, mask, owner, empty, pc, want>>
    BY <1>16 DEF TrimCheck, TrimLock, KeepPage, TrimDone, vars
  <2>2. \A q \in Pools : CountedEmpty(q)' = CountedEmpty(q) /\ StillCounted(q)' = StillCounted(q)
    BY <2>1 DEF CountedEmpty, StillCounted, Pool
  <2> QED  BY <2>1, <2>2 DEF EmptyExact
<1> QED
  BY <1>1, <1>2, <1>3, <1>4, <1>5, <1>6, <1>7, <1>8, <1>9, <1>10, <1>11, <1>12, <1>13, <1>14,
     <1>15, <1>16 DEF Next

\* The number of empty pages that trim trusts is that of the pages it may free:
\* PagedPool.EmptyExact, whatever the order in which threads change it with no
\* lock.
THEOREM PoolEmptyExact == Spec => []EmptyExact
<1>1. Init => EmptyExact
  <2> SUFFICES ASSUME Init, NEW p \in Pools
               PROVE  empty[p] = Cardinality(CountedEmpty(p)) + Cardinality(StillCounted(p))
    BY DEF EmptyExact
  <2>1. CountedEmpty(p) = {} /\ StillCounted(p) = {}
    BY DEF Init, CountedEmpty, StillCounted, Range
  <2> QED  BY <2>1, FS_EmptySet DEF Init
<1> QED  BY <1>1, InitInv, NextInv, CountInductive, PTL DEF Spec
-----------------------------------------------------------------------------
\* Sums over a set, as MapThenSumSet computes them: one element after the
\* other, in an order that nobody knows.  What is proved of them by induction
\* uses the set of the numbers for which it holds.

LEMMA SetInduction ==
    ASSUME NEW S, 0 \in S, \A n \in Nat : n \in S => n + 1 \in S
    PROVE  Nat \subseteq S
<1> DEFINE Less == {ss \in Nat \X Nat : ss[1] < ss[2]}
           Bad == Nat \ S
<1>1. IsWellFoundedOn(Less, Nat)
  BY NatLessThanWellFounded DEF OpToRel
<1>2. SUFFICES ASSUME Bad # {} PROVE FALSE
  OBVIOUS
<1>3. PICK x \in Bad : \A y \in Bad : ~(<<y, x>> \in Less)
  <2> HIDE DEF Less
  <2>1. Bad \subseteq Nat
    OBVIOUS
  <2> HIDE DEF Bad
  <2> QED  BY <1>1, <1>2, <2>1, WFMin
<1>4. x \in Nat /\ x \notin S /\ x # 0
  BY <1>3
<1>5. x - 1 \in Nat /\ x - 1 < x
  BY <1>4
<1>6. x - 1 \in S
  BY <1>3, <1>4, <1>5
<1> QED  BY <1>4, <1>5, <1>6

\* The element that is counted first.
First(s) == CHOOSE x \in s : TRUE

\* W gives every subset of T the sum of f over it.
SumsOver(W, T, f) ==
    W = [s \in SUBSET T |-> IF s = {} THEN 0 ELSE f[First(s)] + W[s \ {First(s)}]]

\* A set without one of its elements is smaller by one.
LEMMA Smaller ==
    ASSUME NEW T, IsFiniteSet(T), NEW s \in SUBSET T
    PROVE  /\ IsFiniteSet(s) /\ Cardinality(s) \in Nat
           /\ Cardinality(s) = 0 <=> s = {}
           /\ s # {} => First(s) \in s
           /\ \A x \in s : Cardinality(s \ {x}) = Cardinality(s) - 1
<1>1. IsFiniteSet(s)
  BY FS_Subset
<1>2. Cardinality(s) \in Nat
  BY <1>1, FS_CardinalityType
<1>3. Cardinality(s) = 0 <=> s = {}
  BY <1>1, FS_EmptySet
<1>4. s # {} => First(s) \in s
  BY DEF First
<1>5. \A x \in s : Cardinality(s \ {x}) = Cardinality(s) - 1
  BY <1>1, FS_RemoveElement
<1> QED  BY <1>1, <1>2, <1>3, <1>4, <1>5

\* Such a function exists: it is built for larger and larger sets.
LEMMA SumsExist ==
    ASSUME NEW T, IsFiniteSet(T), NEW f
    PROVE  \E W : SumsOver(W, T, f)
<1> DEFINE Def(W, s) == W[s] = IF s = {} THEN 0 ELSE f[First(s)] + W[s \ {First(s)}]
           Upto(W, n) == \A s \in SUBSET T : Cardinality(s) <= n => Def(W, s)
           S == {n \in Nat : \E W : W = [s \in SUBSET T |-> W[s]] /\ Upto(W, n)}
<1>1. 0 \in S
  <2> DEFINE W0 == [s \in SUBSET T |-> 0]
  <2>1. Upto(W0, 0)
    <3> SUFFICES ASSUME NEW s \in SUBSET T, Cardinality(s) <= 0
                 PROVE  Def(W0, s)
      OBVIOUS
    <3>1. s = {}
      BY Smaller
    <3> QED  BY <3>1
  <2> QED  BY <2>1
<1>2. ASSUME NEW n \in Nat, n \in S
      PROVE  n + 1 \in S
  <2>1. PICK W : W = [s \in SUBSET T |-> W[s]] /\ Upto(W, n)
    BY <1>2
  <2> DEFINE V == [s \in SUBSET T |->
                      IF Cardinality(s) = n + 1 THEN f[First(s)] + W[s \ {First(s)}] ELSE W[s]]
  <2>2. Upto(V, n + 1)
    <3> SUFFICES ASSUME NEW s \in SUBSET T, Cardinality(s) <= n + 1
                 PROVE  Def(V, s)
      OBVIOUS
    <3>1. CASE s = {}
      <4>1. Cardinality(s) = 0
        BY <3>1, Smaller
      <4>2. V[s] = W[s]
        <5>1. Cardinality(s) # n + 1
          BY <4>1
        <5> QED  BY <5>1
      <4>3. Def(W, s)
        <5>1. Cardinality(s) <= n
          BY <4>1
        <5> QED  BY <5>1, <2>1
      <4> HIDE DEF V
      <4> QED  BY <4>2, <4>3, <3>1
    <3>2. CASE s # {}
      <4> DEFINE r == s \ {First(s)}
      <4>1. /\ First(s) \in s /\ Cardinality(s) \in Nat
            /\ r \in SUBSET T /\ Cardinality(r) = Cardinality(s) - 1
        BY <3>2, Smaller
      <4>2. V[r] = W[r]
        <5>1. Cardinality(r) # n + 1
          BY <4>1
        <5> HIDE DEF r
        <5> QED  BY <5>1, <4>1
      <4>3. V[s] = f[First(s)] + W[r]
        <5>1. CASE Cardinality(s) = n + 1
          BY <5>1
        <5>2. CASE Cardinality(s) # n + 1
          <6>1. V[s] = W[s]
            BY <5>2
          <6>2. Cardinality(s) <= n
            BY <5>2, <4>1
          <6>3. Def(W, s)
            BY <6>2, <2>1
          <6> HIDE DEF V
          <6> QED  BY <6>1, <6>3, <3>2
        <5> QED  BY <5>1, <5>2
      <4>4. V[s] = f[First(s)] + V[r]
        BY <4>2, <4>3
      <4> HIDE DEF V
      <4> QED  BY <4>4, <3>2
    <3> QED  BY <3>1, <3>2
  <2>3. V = [s \in SUBSET T |-> V[s]]
    OBVIOUS
  <2> HIDE DEF V, Upto
  <2> QED  BY <2>2, <2>3
<1>3. Nat \subseteq S
  <2> HIDE DEF S
  <2> QED  BY <1>1, <1>2, SetInduction
<1>4. PICK W : W = [s \in SUBSET T |-> W[s]] /\ Upto(W, Cardinality(T))
  <2>1. Cardinality(T) \in S
    BY <1>3, FS_CardinalityType
  <2> HIDE DEF Upto
  <2> QED  BY <2>1
<1>5. ASSUME NEW s \in SUBSET T
      PROVE  Def(W, s)
  <2>1. Cardinality(s) <= Cardinality(T)
    BY FS_Subset
  <2> QED  BY <1>4, <2>1
<1>6. SumsOver(W, T, f)
  <2>1. W = [s \in SUBSET T |-> IF s = {} THEN 0 ELSE f[First(s)] + W[s \ {First(s)}]]
    BY <1>4, <1>5
  <2> QED  BY <2>1 DEF SumsOver
<1> QED  BY <1>6

\* The order does not matter: any element may be counted first.
Additive(W, T, f) ==
    /\ W[{}] = 0
    /\ \A s \in SUBSET T : W[s] \in Int
    /\ \A s \in SUBSET T : \A x \in s : W[s] = f[x] + W[s \ {x}]

LEMMA AnyFirst ==
    ASSUME NEW T, IsFiniteSet(T), NEW f, \A x \in T : f[x] \in Int,
           NEW W, SumsOver(W, T, f)
    PROVE  Additive(W, T, f)
<1>1. /\ W[{}] = 0
      /\ \A s \in SUBSET T : s # {} => W[s] = f[First(s)] + W[s \ {First(s)}]
  BY DEF SumsOver
<1> DEFINE Right(s) == W[s] \in Int /\ \A x \in s : W[s] = f[x] + W[s \ {x}]
           S == {n \in Nat : \A s \in SUBSET T : Cardinality(s) <= n => Right(s)}
<1>2. 0 \in S
  <2> SUFFICES ASSUME NEW s \in SUBSET T, Cardinality(s) <= 0
               PROVE  Right(s)
    OBVIOUS
  <2>1. s = {}
    BY Smaller
  <2> QED  BY <2>1, <1>1
<1>3. ASSUME NEW n \in Nat, n \in S
      PROVE  n + 1 \in S
  <2>0. \A r \in SUBSET T : Cardinality(r) <= n => Right(r)
    BY <1>3
  <2> SUFFICES ASSUME NEW s \in SUBSET T, Cardinality(s) <= n + 1, Cardinality(s) > n
               PROVE  Right(s)
    <3> HIDE DEF Right
    <3>1. \A s \in SUBSET T : Cardinality(s) \in Nat
      BY Smaller
    <3>2. \A s \in SUBSET T : Cardinality(s) <= n + 1 => Right(s)
      BY <2>0, <3>1
    <3> QED  BY <3>2
  <2> DEFINE c == First(s)
  <2>1. s # {} /\ c \in s /\ \A x \in s : s \ {x} \in SUBSET T /\ Cardinality(s \ {x}) = n
    <3>0. Cardinality(s) = n + 1
      BY Smaller
    <3>1. s # {} => First(s) \in s
      BY Smaller
    <3>2. s # {}
      BY <3>0, Smaller
    <3>3. \A x \in s : Cardinality(s \ {x}) = Cardinality(s) - 1
      BY Smaller
    <3> QED  BY <3>0, <3>1, <3>2, <3>3
  <2>2. W[s] = f[c] + W[s \ {c}]
    BY <2>1, <1>1
  <2>3. W[s \ {c}] \in Int /\ f[c] \in Int
    BY <2>0, <2>1
  <2> HIDE DEF c
  <2>4. W[s] \in Int
    BY <2>2, <2>3
  <2>5. ASSUME NEW x \in s
        PROVE  W[s] = f[x] + W[s \ {x}]
    <3>1. CASE x = c
      BY <3>1, <2>2
    <3>2. CASE x # c
      <4> DEFINE r == (s \ {c}) \ {x}
      <4>1. r = (s \ {x}) \ {c} /\ x \in s \ {c} /\ c \in s \ {x}
        BY <3>2, <2>1
      <4>2. Right(s \ {c}) /\ Right(s \ {x})
        <5>1. n <= n
          OBVIOUS
        <5> HIDE DEF Right
        <5> QED  BY <5>1, <2>0, <2>1
      <4>3. W[s \ {c}] = f[x] + W[r]
        BY <4>1, <4>2
      <4>4. W[s \ {x}] = f[c] + W[(s \ {x}) \ {c}]
        BY <4>1, <4>2
      <4>5. W[s \ {x}] = f[c] + W[r]
        BY <4>1, <4>4
      <4>6. r \in SUBSET T /\ Cardinality(r) = n - 1
        <5>1. s \ {c} \in SUBSET T /\ Cardinality(s \ {c}) = n
          BY <2>1
        <5>2. \A y \in s \ {c} : Cardinality((s \ {c}) \ {y}) = Cardinality(s \ {c}) - 1
          BY <5>1, Smaller
        <5> QED  BY <5>1, <5>2, <4>1
      <4>7. W[r] \in Int
        <5>1. Cardinality(r) <= n
          BY <4>6
        <5> HIDE DEF r
        <5> QED  BY <5>1, <4>6, <2>0
      <4> HIDE DEF r
      <4>8. f[x] \in Int
        OBVIOUS
      <4> QED  BY <2>2, <2>3, <4>3, <4>5, <4>7, <4>8
    <3> QED  BY <3>1, <3>2
  <2> QED  BY <2>4, <2>5
<1>4. Nat \subseteq S
  <2> HIDE DEF S
  <2> QED  BY <1>2, <1>3, SetInduction
<1>5. ASSUME NEW s \in SUBSET T
      PROVE  Right(s)
  <2>1. Cardinality(s) \in Nat
    BY Smaller
  <2>2. Cardinality(s) \in S
    BY <2>1, <1>4
  <2>3. Cardinality(s) <= Cardinality(s)
    BY <2>1
  <2> HIDE DEF Right
  <2> QED  BY <2>2, <2>3
<1> QED  BY <1>1, <1>5 DEF Additive

\* Two such functions agree where what they sum is the same.
LEMMA SumsAgree ==
    ASSUME NEW T, IsFiniteSet(T), NEW f, \A x \in T : f[x] \in Int,
           NEW W, SumsOver(W, T, f),
           NEW U, IsFiniteSet(U), NEW g, \A x \in U : g[x] \in Int,
           NEW V, SumsOver(V, U, g),
           NEW H, H \subseteq T, H \subseteq U, \A x \in H : f[x] = g[x]
    PROVE  W[H] = V[H]
<1> DEFINE S == {n \in Nat : \A s \in SUBSET H : Cardinality(s) = n => W[s] = V[s]}
<1>1. /\ W[{}] = 0
      /\ \A s \in SUBSET T : \A x \in s : W[s] = f[x] + W[s \ {x}]
  <2>1. Additive(W, T, f)
    BY AnyFirst
  <2> QED  BY <2>1 DEF Additive
<1>2. /\ V[{}] = 0
      /\ \A s \in SUBSET U : \A x \in s : V[s] = g[x] + V[s \ {x}]
  <2>1. Additive(V, U, g)
    BY AnyFirst
  <2> QED  BY <2>1 DEF Additive
<1>3. IsFiniteSet(H)
  BY FS_Subset
<1>4. 0 \in S
  <2> SUFFICES ASSUME NEW s \in SUBSET H, Cardinality(s) = 0
               PROVE  W[s] = V[s]
    OBVIOUS
  <2>1. s = {}
    BY <1>3, Smaller
  <2> QED  BY <2>1, <1>1, <1>2
<1>5. ASSUME NEW n \in Nat, n \in S
      PROVE  n + 1 \in S
  <2> SUFFICES ASSUME NEW s \in SUBSET H, Cardinality(s) = n + 1
               PROVE  W[s] = V[s]
    OBVIOUS
  <2>1. s # {}
    BY <1>3, Smaller
  <2>2. PICK x : x \in s
    BY <2>1
  <2>3. s \ {x} \in SUBSET H /\ Cardinality(s \ {x}) = n
    <3>1. \A y \in s : Cardinality(s \ {y}) = Cardinality(s) - 1
      BY <1>3, Smaller
    <3> QED  BY <3>1, <2>2
  <2>4. W[s \ {x}] = V[s \ {x}]
    BY <2>3, <1>5
  <2>5. W[s] = f[x] + W[s \ {x}]
    BY <2>2, <1>1
  <2>6. V[s] = g[x] + V[s \ {x}]
    BY <2>2, <1>2
  <2>7. f[x] = g[x]
    BY <2>2
  <2> QED  BY <2>4, <2>5, <2>6, <2>7
<1>6. Nat \subseteq S
  <2> HIDE DEF S
  <2> QED  BY <1>4, <1>5, SetInduction
<1>7. Cardinality(H) \in S
  BY <1>6, <1>3, FS_CardinalityType
<1> QED  BY <1>7

\* The sum of f over a finite set.
Total(H, f) == (CHOOSE W : SumsOver(W, H, f))[H]

\* What follows of sums: the sum over no element is zero, a set whose elements
\* keep their values keeps its sum, and an element adds its value.
LEMMA TotalOf ==
    ASSUME NEW H, IsFiniteSet(H), NEW f, \A x \in H : f[x] \in Int
    PROVE  /\ Total(H, f) \in Int
           /\ H = {} => Total(H, f) = 0
<1>1. SumsOver(CHOOSE W : SumsOver(W, H, f), H, f)
  BY SumsExist
<1>2. Additive(CHOOSE W : SumsOver(W, H, f), H, f)
  BY <1>1, AnyFirst
<1> QED  BY <1>2 DEF Total, Additive

LEMMA TotalSame ==
    ASSUME NEW H, IsFiniteSet(H), NEW f, \A x \in H : f[x] \in Int,
           NEW g, \A x \in H : g[x] = f[x]
    PROVE  Total(H, g) = Total(H, f)
<1> DEFINE W == CHOOSE W : SumsOver(W, H, f)
           V == CHOOSE V : SumsOver(V, H, g)
<1>1. SumsOver(W, H, f) /\ SumsOver(V, H, g)
  BY SumsExist
<1>2. \A x \in H : g[x] \in Int
  OBVIOUS
<1>3. Total(H, f) = W[H] /\ Total(H, g) = V[H]
  BY DEF Total
<1> HIDE DEF W, V
<1>4. W[H] = V[H]
  BY <1>1, <1>2, SumsAgree
<1> QED  BY <1>3, <1>4

LEMMA TotalAdd ==
    ASSUME NEW H, IsFiniteSet(H), NEW f, \A x \in H : f[x] \in Int, NEW y \in H
    PROVE  Total(H, f) = f[y] + Total(H \ {y}, f)
<1> DEFINE r == H \ {y}
           W == CHOOSE W : SumsOver(W, H, f)
           V == CHOOSE V : SumsOver(V, r, f)
<1>1. IsFiniteSet(r) /\ r \subseteq H
  BY FS_Subset
<1>2. SumsOver(W, H, f) /\ SumsOver(V, r, f)
  <2> HIDE DEF r
  <2> QED  BY <1>1, SumsExist
<1>3. Total(H, f) = W[H] /\ Total(r, f) = V[r]
  BY DEF Total
<1>4. \A x \in r : f[x] \in Int
  OBVIOUS
<1> HIDE DEF W, V
<1>5. W[H] = f[y] + W[r]
  <2>1. Additive(W, H, f)
    BY <1>2, AnyFirst
  <2> QED  BY <2>1 DEF Additive
<1> HIDE DEF r
<1>6. W[r] = V[r]
  BY <1>1, <1>2, <1>4, SumsAgree
<1> QED  BY <1>3, <1>5, <1>6 DEF r

-----------------------------------------------------------------------------
\* The reserved bytes.

\* What each thread's buffer counts for, and the threads whose buffers are
\* counted for a kind.
Counted == [t \in Threads |-> Bytes(t)]
Holders(k) == {t \in Threads : want[t].kind = k /\ pc[t] \in {"held", "drop"}}

\* A sum of MapThenSumSet is a Total.
LEMMA SumIsTotal ==
    ASSUME TypeOK, NEW H \in SUBSET Threads
    PROVE  MapThenSumSet(Bytes, H) = Total(H, Counted)
<1> DEFINE Def(W) == [s \in SUBSET H |-> IF s = {} THEN 0
                          ELSE Bytes(CHOOSE x \in s : TRUE) + W[s \ {CHOOSE x \in s : TRUE}]]
<1>1. IsFiniteSet(H)
  BY PagedPoolAssumption, FS_Subset
<1>2. \A x \in H : Counted[x] \in Int
  BY BytesType DEF Counted
<1>3. ASSUME NEW W
      PROVE  SumsOver(W, H, Counted) <=> W = Def(W)
  <2>1. ASSUME NEW s \in SUBSET H, s # {}
        PROVE  Counted[First(s)] = Bytes(First(s))
    <3>1. First(s) \in Threads
      BY <2>1 DEF First
    <3> QED  BY <3>1 DEF Counted
  <2>2. [s \in SUBSET H |-> IF s = {} THEN 0 ELSE Counted[First(s)] + W[s \ {First(s)}]]
        = [s \in SUBSET H |-> IF s = {} THEN 0 ELSE Bytes(First(s)) + W[s \ {First(s)}]]
    BY <2>1
  <2> QED  BY <2>2 DEF SumsOver, First
<1>4. MapThenSumSet(Bytes, H) = (CHOOSE W : W = Def(W))[H]
  BY DEF MapThenSumSet, MapThenFoldSet
<1> HIDE DEF Def
<1>5. \E W : W = Def(W)
  BY <1>1, <1>3, SumsExist
<1>6. PICK W : W = Def(W) /\ MapThenSumSet(Bytes, H) = W[H]
  BY <1>4, <1>5
<1>7. PICK V : SumsOver(V, H, Counted) /\ Total(H, Counted) = V[H]
  BY <1>1, SumsExist DEF Total
<1>8. SumsOver(W, H, Counted)
  BY <1>3, <1>6
<1>9. W[H] = V[H]
  BY <1>1, <1>2, <1>7, <1>8, SumsAgree
<1> QED  BY <1>6, <1>7, <1>9

\* The reserved bytes of one kind.
Exactly(k) == reserved[k] = Total(Holders(k), Counted)

LEMMA ReservedForm ==
    TypeOK => (ReservedExact <=> \A k \in Kinds : Exactly(k))
<1> SUFFICES ASSUME TypeOK
             PROVE  ReservedExact <=> \A k \in Kinds : Exactly(k)
  OBVIOUS
<1>1. ASSUME NEW k \in Kinds
      PROVE  MapThenSumSet(Bytes, {t \in Threads : want[t].kind = k /\ pc[t] \in {"held", "drop"}})
             = Total(Holders(k), Counted)
  <2>1. MapThenSumSet(Bytes, Holders(k)) = Total(Holders(k), Counted)
    BY SumIsTotal DEF Holders
  <2> QED  BY <2>1 DEF Holders
<1> QED  BY <1>1 DEF ReservedExact, Exactly

\* The ways in which a step may change the reserved bytes of a kind.
LEMMA ReservedStep ==
    ASSUME TypeOK, TypeOK', NEW k \in Kinds, Exactly(k)
    PROVE  /\ /\ Holders(k)' = Holders(k)
              /\ \A u \in Holders(k) : Bytes(u)' = Bytes(u)
              /\ reserved'[k] = reserved[k]
              => Exactly(k)'
           /\ \A t \in Threads \ Holders(k) :
                  /\ Holders(k)' = Holders(k) \cup {t}
                  /\ \A u \in Holders(k) : Bytes(u)' = Bytes(u)
                  /\ reserved'[k] = reserved[k] + Bytes(t)'
                  => Exactly(k)'
           /\ \A t \in Holders(k) :
                  /\ Holders(k)' = Holders(k) \ {t}
                  /\ \A u \in Holders(k) \ {t} : Bytes(u)' = Bytes(u)
                  /\ reserved'[k] = reserved[k] - Bytes(t)
                  => Exactly(k)'
<1> DEFINE h == Holders(k)
           g == Holders(k)'
           f == Counted
           e == Counted'
<1>1. /\ IsFiniteSet(h) /\ h \subseteq Threads
      /\ IsFiniteSet(g) /\ g \subseteq Threads
  <2>1. h \subseteq Threads /\ g \subseteq Threads
    BY DEF Holders
  <2> QED  BY <2>1, PagedPoolAssumption, FS_Subset
<1>2. /\ \A t \in Threads : f[t] = Bytes(t) /\ f[t] \in Int
      /\ \A t \in Threads : e[t] = Bytes(t)'
  <2>1. \A t \in Threads : Bytes(t) \in Int
    BY BytesType
  <2> QED  BY <2>1 DEF Counted
<1>3. \A t \in Threads : e[t] \in Int
  <2>1. ASSUME NEW t \in Threads
        PROVE  Bytes(t)' \in Int
    <3>1. want'[t].size \in Nat /\ want'[t].pool \in Pools \cup {Secondary}
      <4>1. want' \in [Threads -> [size : Nat, kind : Kinds, pool : Pools \cup {Secondary}] \cup {NoRequest}]
        BY DEF TypeOK
      <4>2. \/ want'[t] \in [size : Nat, kind : Kinds, pool : Pools \cup {Secondary}]
            \/ want'[t] = NoRequest
        BY <4>1
      <4> QED  BY <4>2 DEF NoRequest
    <3>2. \A p \in Pools : Sizes[p] \in Nat
      BY PagedPoolAssumption DEF Pools
    <3> QED  BY <3>1, <3>2 DEF Bytes, Pool
  <2> QED  BY <2>1, <1>2
<1>4. /\ reserved[k] = Total(h, f)
      /\ Exactly(k)' <=> reserved'[k] = Total(g, e)
  BY DEF Exactly
<1> SUFFICES /\ /\ g = h
                /\ \A u \in h : e[u] = f[u]
                => Total(g, e) = Total(h, f)
             /\ \A t \in Threads \ h :
                    /\ g = h \cup {t}
                    /\ \A u \in h : e[u] = f[u]
                    => Total(g, e) = Total(h, f) + e[t]
             /\ \A t \in h :
                    /\ g = h \ {t}
                    /\ \A u \in h \ {t} : e[u] = f[u]
                    => Total(g, e) = Total(h, f) - f[t]
  <2> HIDE DEF h, g, f, e
  <2> QED  BY <1>1, <1>2, <1>4 DEF h, g
<1> HIDE DEF h, g, f, e
<1>5. ASSUME g = h, \A u \in h : e[u] = f[u]
      PROVE  Total(g, e) = Total(h, f)
  <2>1. \A u \in h : f[u] \in Int
    BY <1>1, <1>2
  <2>2. Total(h, e) = Total(h, f)
    BY <1>1, <1>5, <2>1, TotalSame
  <2> QED  BY <1>5, <2>2
<1>6. ASSUME NEW t \in Threads \ h, g = h \cup {t}, \A u \in h : e[u] = f[u]
      PROVE  Total(g, e) = Total(h, f) + e[t]
  <2>1. \A u \in g : e[u] \in Int
    BY <1>1, <1>3
  <2>2. \A u \in h : f[u] \in Int
    BY <1>1, <1>2
  <2>3. t \in g /\ g \ {t} = h
    BY <1>6
  <2>4. Total(g, e) = e[t] + Total(g \ {t}, e)
    BY <1>1, <2>1, <2>3, TotalAdd
  <2>5. Total(h, e) = Total(h, f)
    BY <1>1, <1>6, <2>2, TotalSame
  <2>6. Total(h, f) \in Int /\ e[t] \in Int
    BY <1>1, <1>3, <2>2, TotalOf
  <2>7. Total(g \ {t}, e) = Total(h, e)
    BY <2>3
  <2> QED  BY <2>4, <2>5, <2>6, <2>7
<1>7. ASSUME NEW t \in h, g = h \ {t}, \A u \in h \ {t} : e[u] = f[u]
      PROVE  Total(g, e) = Total(h, f) - f[t]
  <2>1. \A u \in h : f[u] \in Int
    BY <1>1, <1>2
  <2>2. \A u \in g : f[u] \in Int /\ e[u] = f[u]
    BY <1>7, <2>1
  <2>3. Total(h, f) = f[t] + Total(h \ {t}, f)
    BY <1>1, <2>1, TotalAdd
  <2>4. Total(g, e) = Total(g, f)
    BY <1>1, <2>2, TotalSame
  <2>5. Total(g, f) \in Int /\ f[t] \in Int
    BY <1>1, <2>1, <2>2, TotalOf
  <2> QED  BY <1>7, <2>3, <2>4, <2>5
<1> QED  BY <1>5, <1>6, <1>7

\* A step of a thread whose buffer is not counted and that counts none.
LEMMA ReservedKept ==
    ASSUME TypeOK, TypeOK', \A k \in Kinds : Exactly(k), reserved' = reserved, NEW t \in Threads,
           pc[t] \notin {"held", "drop"}, pc'[t] \notin {"held", "drop"},
           \A u \in Threads \ {t} : pc'[u] = pc[u] /\ want'[u] = want[u]
    PROVE  \A k \in Kinds : Exactly(k)'
<1> SUFFICES ASSUME NEW k \in Kinds
             PROVE  Exactly(k)'
  OBVIOUS
<1>1. Holders(k)' = Holders(k)
  BY DEF Holders
<1>2. \A u \in Holders(k) : u \in Threads \ {t}
  BY DEF Holders
<1>3. \A u \in Holders(k) : Bytes(u)' = Bytes(u)
  BY <1>2 DEF Bytes, Pool
<1> QED  BY <1>1, <1>3, ReservedStep

\* A step that counts the buffer of a thread, and one that no longer counts it.
LEMMA ReservedGained ==
    ASSUME TypeOK, TypeOK', \A k \in Kinds : Exactly(k), NEW t \in Threads,
           pc[t] \notin {"held", "drop"}, pc'[t] \in {"held", "drop"},
           \A u \in Threads \ {t} : pc'[u] = pc[u] /\ want'[u] = want[u],
           reserved' = [reserved EXCEPT ![want'[t].kind] = @ + Bytes(t)']
    PROVE  \A k \in Kinds : Exactly(k)'
<1> SUFFICES ASSUME NEW k \in Kinds
             PROVE  Exactly(k)'
  OBVIOUS
<1>0. t \notin Holders(k) /\ \A u \in Holders(k) : u \in Threads \ {t}
  BY DEF Holders
<1>1. \A u \in Holders(k) : Bytes(u)' = Bytes(u)
  BY <1>0 DEF Bytes, Pool
<1>2. CASE want'[t].kind = k
  <2>1. Holders(k)' = Holders(k) \cup {t}
    BY <1>2 DEF Holders
  <2>2. reserved'[k] = reserved[k] + Bytes(t)'
    BY <1>2 DEF TypeOK
  <2> QED  BY <1>0, <1>1, <2>1, <2>2, ReservedStep
<1>3. CASE want'[t].kind # k
  <2>1. Holders(k)' = Holders(k)
    BY <1>3 DEF Holders
  <2>2. reserved'[k] = reserved[k]
    BY <1>3 DEF TypeOK
  <2> QED  BY <1>1, <2>1, <2>2, ReservedStep
<1> QED  BY <1>2, <1>3

LEMMA ReservedLost ==
    ASSUME TypeOK, TypeOK', \A k \in Kinds : Exactly(k), NEW t \in Threads,
           pc[t] \in {"held", "drop"}, pc'[t] \notin {"held", "drop"},
           \A u \in Threads \ {t} : pc'[u] = pc[u] /\ want'[u] = want[u],
           reserved' = [reserved EXCEPT ![want[t].kind] = @ + (-Bytes(t))]
    PROVE  \A k \in Kinds : Exactly(k)'
<1> SUFFICES ASSUME NEW k \in Kinds
             PROVE  Exactly(k)'
  OBVIOUS
<1>1. \A u \in Holders(k) \ {t} : Bytes(u)' = Bytes(u)
  <2>1. \A u \in Holders(k) \ {t} : u \in Threads \ {t}
    BY DEF Holders
  <2> QED  BY <2>1 DEF Bytes, Pool
<1>2. CASE want[t].kind = k
  <2>1. t \in Holders(k) /\ Holders(k)' = Holders(k) \ {t}
    BY <1>2 DEF Holders
  <2>2. reserved'[k] = reserved[k] - Bytes(t)
    <3>1. reserved'[k] = reserved[k] + (-Bytes(t)) /\ reserved[k] \in Int
      BY <1>2 DEF TypeOK
    <3>2. Bytes(t) \in Int
      BY BytesType
    <3> QED  BY <3>1, <3>2
  <2> QED  BY <1>1, <2>1, <2>2, ReservedStep
<1>3. CASE want[t].kind # k
  <2>1. t \notin Holders(k) /\ Holders(k)' = Holders(k)
    BY <1>3 DEF Holders
  <2>2. reserved'[k] = reserved[k]
    BY <1>3 DEF TypeOK
  <2>3. \A u \in Holders(k) : Bytes(u)' = Bytes(u)
    BY <1>1, <2>1
  <2> QED  BY <2>1, <2>2, <2>3, ReservedStep
<1> QED  BY <1>2, <1>3

LEMMA ReservedInductive ==
    Inv /\ (\A k \in Kinds : Exactly(k)) /\ [Next]_vars => \A k \in Kinds : Exactly(k)'
<1> SUFFICES ASSUME Inv, \A k \in Kinds : Exactly(k), [Next]_vars
             PROVE  \A k \in Kinds : Exactly(k)'
  OBVIOUS
<1>0. TypeOK /\ TypeOK' /\ pc = [t \in Threads |-> pc[t]] /\ want = [t \in Threads |-> want[t]]
  <2>1. TypeOK /\ TypeOK'
    BY NextInv DEF Inv
  <2>2. pc = [t \in Threads |-> pc[t]] /\ want = [t \in Threads |-> want[t]]
    BY <2>1 DEF TypeOK
  <2> QED  BY <2>1, <2>2
<1> USE DEF locks, Go, Stop
<1>1. ASSUME NEW t \in Threads, NEW r \in Requests, GetPrimary(t, r[1], r[2])
      PROVE  \A k \in Kinds : Exactly(k)'
  BY <1>0, <1>1, ReservedKept DEF GetPrimary
<1>2. ASSUME NEW t \in Threads, NEW r \in Requests, GetSecondary(t, r[1], r[2])
      PROVE  \A k \in Kinds : Exactly(k)'
  <2>1. /\ want'[t] = [size |-> r[1], kind |-> r[2], pool |-> Secondary]
        /\ \A u \in Threads \ {t} : pc'[u] = pc[u] /\ want'[u] = want[u]
        /\ pc[t] \notin {"held", "drop"} /\ pc'[t] \in {"held", "drop"}
    BY <1>0, <1>2 DEF GetSecondary
  <2>2. Bytes(t)' = r[1] /\ want'[t].kind = r[2]
    BY <2>1 DEF Bytes, Pool
  <2>3. reserved' = [reserved EXCEPT ![want'[t].kind] = @ + Bytes(t)']
    BY <1>2, <2>2 DEF GetSecondary
  <2> QED  BY <1>0, <2>1, <2>3, ReservedGained
<1>3. ASSUME NEW t \in Threads,
             \/ ReadLock(t) \/ WriteLock(t) \/ TryReserve(t) \/ PageFull(t) \/ SlowPath(t)
             \/ NewPage(t) \/ RemoveEmptyPage(t) \/ AddEmptyPage(t)
      PROVE  \A k \in Kinds : Exactly(k)'
  <2>1. /\ reserved' = reserved /\ pc[t] \notin {"held", "drop"} /\ pc'[t] \notin {"held", "drop"}
        /\ \A u \in Threads \ {t} : pc'[u] = pc[u] /\ want'[u] = want[u]
    <3>1. CASE ReadLock(t)
      BY <1>0, <3>1 DEF ReadLock
    <3>2. CASE WriteLock(t)
      BY <1>0, <3>2 DEF WriteLock
    <3>3. CASE TryReserve(t)
      BY <1>0, <3>3 DEF TryReserve, Searching
    <3>4. CASE PageFull(t)
      BY <1>0, <3>4 DEF PageFull, Searching
    <3>5. CASE SlowPath(t)
      BY <1>0, <3>5 DEF SlowPath
    <3>6. CASE NewPage(t)
      BY <1>0, <3>6 DEF NewPage
    <3>7. CASE RemoveEmptyPage(t)
      BY <1>0, <3>7 DEF RemoveEmptyPage
    <3>8. CASE AddEmptyPage(t)
      BY <1>0, <3>8 DEF AddEmptyPage
    <3> QED  BY <1>3, <3>1, <3>2, <3>3, <3>4, <3>5, <3>6, <3>7, <3>8
  <2> QED  BY <1>0, <2>1, ReservedKept
<1>4. ASSUME NEW t \in Threads, AddReservedBuffer(t)
      PROVE  \A k \in Kinds : Exactly(k)'
  <2>1. /\ want' = want
        /\ \A u \in Threads \ {t} : pc'[u] = pc[u] /\ want'[u] = want[u]
        /\ pc[t] \notin {"held", "drop"} /\ pc'[t] \in {"held", "drop"}
    BY <1>0, <1>4 DEF AddReservedBuffer
  <2>2. Bytes(t)' = Bytes(t)
    BY <2>1 DEF Bytes, Pool
  <2>3. reserved' = [reserved EXCEPT ![want'[t].kind] = @ + Bytes(t)']
    BY <1>4, <2>1, <2>2 DEF AddReservedBuffer, Reserve
  <2> QED  BY <1>0, <2>1, <2>3, ReservedGained
<1>5. ASSUME NEW t \in Threads, DropSecondary(t)
      PROVE  \A k \in Kinds : Exactly(k)'
  <2>1. /\ \A u \in Threads \ {t} : pc'[u] = pc[u] /\ want'[u] = want[u]
        /\ pc[t] \in {"held", "drop"} /\ pc'[t] \notin {"held", "drop"}
    BY <1>0, <1>5 DEF DropSecondary
  <2>2. reserved' = [reserved EXCEPT ![want[t].kind] = @ + (-Bytes(t))]
    BY <1>5 DEF DropSecondary, Reserve, Bytes
  <2> QED  BY <1>0, <2>1, <2>2, ReservedLost
<1>6. ASSUME NEW t \in Threads, RemoveReservedBuffer(t)
      PROVE  \A k \in Kinds : Exactly(k)'
  <2>1. /\ \A u \in Threads \ {t} : pc'[u] = pc[u] /\ want'[u] = want[u]
        /\ pc[t] \in {"held", "drop"} /\ pc'[t] \notin {"held", "drop"}
    BY <1>0, <1>6 DEF RemoveReservedBuffer
  <2>2. reserved' = [reserved EXCEPT ![want[t].kind] = @ + (-Bytes(t))]
    BY <1>6 DEF RemoveReservedBuffer, Reserve
  <2> QED  BY <1>0, <2>1, <2>2, ReservedLost
<1>7. ASSUME NEW t \in Threads,
             Release(t) \/ TrimCheck \/ TrimLock \/ TrimPage \/ KeepPage \/ TrimDone \/ UNCHANGED vars
      PROVE  \A k \in Kinds : Exactly(k)'
  <2> SUFFICES ASSUME NEW k \in Kinds
               PROVE  Exactly(k)'
    OBVIOUS
  <2>1. /\ want' = want /\ reserved' = reserved
        /\ \A u \in Threads : pc'[u] \in {"held", "drop"} <=> pc[u] \in {"held", "drop"}
    <3>1. CASE Release(t)
      BY <1>0, <3>1 DEF Release
    <3>2. CASE TrimCheck \/ TrimLock \/ TrimPage \/ KeepPage \/ TrimDone \/ UNCHANGED vars
      BY <3>2 DEF TrimCheck, TrimLock, TrimPage, KeepPage, TrimDone, vars
    <3> QED  BY <1>7, <3>1, <3>2
  <2>2. Holders(k)' = Holders(k) /\ \A u \in Holders(k) : Bytes(u)' = Bytes(u)
    BY <2>1 DEF Holders, Bytes, Pool
  <2> QED  BY <1>0, <2>1, <2>2, ReservedStep
<1>8. ASSUME Threads = {}, TrimCheck \/ TrimLock \/ TrimPage \/ KeepPage \/ TrimDone \/ UNCHANGED vars
      PROVE  \A k \in Kinds : Exactly(k)'
  <2>1. want' = want /\ reserved' = reserved /\ pc' = pc
    BY <1>8 DEF TrimCheck, TrimLock, TrimPage, KeepPage, TrimDone, vars
  <2>2. ASSUME NEW k \in Kinds
        PROVE  Exactly(k)'
    <3>1. Holders(k)' = Holders(k) /\ \A u \in Holders(k) : Bytes(u)' = Bytes(u)
      BY <2>1 DEF Holders, Bytes, Pool
    <3> QED  BY <1>0, <2>1, <3>1, ReservedStep
  <2> QED  BY <2>2
<1> QED
  BY <1>1, <1>2, <1>3, <1>4, <1>5, <1>6, <1>7, <1>8 DEF Next

\* The bytes that the memory limiter reads as reserved are those of the buffers
\* in use, of each kind, whatever the order in which threads count and uncount
\* them with no lock: PagedPool.ReservedExact.
THEOREM PoolReservedExact == Spec => []ReservedExact
<1>1. Init => \A k \in Kinds : Exactly(k)
  <2> SUFFICES ASSUME Init, NEW k \in Kinds
               PROVE  Exactly(k)
    OBVIOUS
  <2>1. Holders(k) = {}
    BY DEF Init, Holders
  <2>2. IsFiniteSet(Holders(k)) /\ \A x \in Holders(k) : Counted[x] \in Int
    BY <2>1, FS_EmptySet
  <2>3. Total(Holders(k), Counted) = 0
    BY <2>1, <2>2, TotalOf
  <2> QED  BY <2>3 DEF Init, Exactly
<1>2. Inv => TypeOK
  BY DEF Inv
<1> DEFINE All == \A k \in Kinds : Exactly(k)
<1>3. Inv /\ All => ReservedExact
  BY <1>2, ReservedForm
<1>4. Init => All
  BY <1>1
<1>5. Inv /\ All /\ [Next]_vars => All'
  BY ReservedInductive
<1> HIDE DEF All
<1> QED  BY <1>3, <1>4, <1>5, InitInv, NextInv, PTL DEF Spec
=============================================================================
