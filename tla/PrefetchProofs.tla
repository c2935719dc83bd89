---------------------------- MODULE PrefetchProofs ----------------------------
(***************************************************************************)
(* Proofs about Prefetch: the part queue always continues where the last   *)
(* read ended, the memory the handle has reserved is exactly accounted     *)
(* for, the task and its window are bounded, and a read fails only if a    *)
(* request did.                                                            *)
(*                                                                         *)
(* The lemmas on sequences of parts come first: what Bytes, MakeRoom,      *)
(* ReadBack and the queue's operations do to parts that continue each      *)
(* other.  Then the inductive invariant PrefetchInv, action by action.     *)
(***************************************************************************)
EXTENDS Prefetch, SequenceTheorems, NaturalsInduction, WellFoundedInduction, TLAPS

-----------------------------------------------------------------------------
\* Sums of lengths

\* Induction over the natural numbers, with a set in the place of a predicate.
LEMMA SetInduction ==
    ASSUME NEW S, 0 \in S, \A n \in Nat : n \in S => n + 1 \in S
    PROVE  Nat \subseteq S
<1> DEFINE Less == {ss \in Nat \X Nat : ss[1] < ss[2]}
           Bad == Nat \ S
<1>1. IsWellFoundedOn(Less, Nat)
  BY NatLessThanWellFounded DEF OpToRel
<1>2. SUFFICES ASSUME Bad # {} PROVE FALSE
  OBVIOUS
<1>3. PICK x \in Bad : \A y \in Bad : ~(<<y, x>> \in Less)
  <2> HIDE DEF Less
  <2>1. Bad \subseteq Nat
    OBVIOUS
  <2> HIDE DEF Bad
  <2> QED  BY <1>1, <1>2, <2>1, WFMin
<1>4. x \in Nat /\ x \notin S /\ x # 0
  BY <1>3
<1>5. x - 1 \in Nat /\ x - 1 < x
  BY <1>4
<1>6. x - 1 \in S
  BY <1>3, <1>4, <1>5
<1> QED  BY <1>4, <1>5, <1>6

\* The function that Sums chooses exists.
LEMMA SumsExist ==
    ASSUME NEW parts, NEW N \in Nat
    PROVE  \E f : f = [n \in 0..N |-> IF n = 0 THEN 0 ELSE f[n - 1] + parts[n].len]
<1> DEFINE S == {k \in Nat : \E f : f = [n \in 0..k |-> IF n = 0 THEN 0 ELSE f[n - 1] + parts[n].len]}
<1>1. 0 \in S
  <2> DEFINE f == [n \in 0..0 |-> 0]
  <2>1. f = [n \in 0..0 |-> IF n = 0 THEN 0 ELSE f[n - 1] + parts[n].len]
    OBVIOUS
  <2> QED BY <2>1
<1>2. ASSUME NEW k \in Nat, k \in S PROVE k + 1 \in S
  <2>1. PICK f : f = [n \in 0..k |-> IF n = 0 THEN 0 ELSE f[n - 1] + parts[n].len]
    BY <1>2
  <2> DEFINE g == [n \in 0..k + 1 |-> IF n = k + 1 THEN f[k] + parts[k + 1].len ELSE f[n]]
  <2>2. \A n \in 0 .. k : f[n] = IF n = 0 THEN 0 ELSE f[n - 1] + parts[n].len
    BY <2>1
  <2>3. ASSUME NEW n \in 0..k + 1 PROVE g[n] = IF n = 0 THEN 0 ELSE g[n - 1] + parts[n].len
    <3>1. CASE n = k + 1
      <4>1. n - 1 = k /\ k \in 0..k+1 /\ k # k + 1 /\ n # 0
        BY <3>1
      <4>2. g[n] = f[k] + parts[k+1].len /\ g[k] = f[k]
        BY <3>1, <4>1
      <4> QED BY <3>1, <4>1, <4>2
    <3>2. CASE n # k + 1
      <4>1. n \in 0..k /\ (n # 0 => n - 1 \in 0..k+1 /\ n - 1 # k + 1)
        BY <3>2
      <4> QED BY <2>2, <3>2, <4>1
    <3> QED BY <3>1, <3>2
  <2>4. g = [n \in 0..k + 1 |-> IF n = 0 THEN 0 ELSE g[n - 1] + parts[n].len]
    <3>1. DOMAIN g = 0..k+1 
      OBVIOUS
    <3>2. g = [n \in 0..k+1 |-> g[n]]
      OBVIOUS
    <3> HIDE DEF g
    <3> QED BY <2>3, <3>2
  <2>5. k + 1 \in Nat
    OBVIOUS
  <2> HIDE DEF g
  <2> QED BY <2>4, <2>5
<1> HIDE DEF S
<1>3. Nat \subseteq S
  BY <1>1, <1>2, SetInduction
<1>4. N \in S
  BY <1>3
<1> QED BY <1>4 DEF S

\* What Sums computes.
LEMMA SumsDef ==
    ASSUME NEW parts, Len(parts) \in Nat
    PROVE  /\ Sums(parts)[0] = 0
           /\ \A n \in 1..Len(parts) : Sums(parts)[n] = Sums(parts)[n - 1] + parts[n].len
<1>1. \E f : f = [n \in 0..Len(parts) |-> IF n = 0 THEN 0 ELSE f[n - 1] + parts[n].len]
  BY SumsExist
<1>2. Sums(parts) = [n \in 0..Len(parts) |-> IF n = 0 THEN 0 ELSE Sums(parts)[n - 1] + parts[n].len]
  BY <1>1 DEF Sums
<1> QED BY <1>2

\* A set of natural numbers that is not empty has a least element.
LEMMA LeastElement ==
    ASSUME NEW S, S \subseteq Nat, S # {}
    PROVE  \E x \in S : \A y \in S : x <= y
<1> DEFINE Less == {ss \in Nat \X Nat : ss[1] < ss[2]}
<1>1. IsWellFoundedOn(Less, Nat)
  BY NatLessThanWellFounded DEF OpToRel
<1>2. PICK x \in S : \A y \in S : ~(<<y, x>> \in Less)
  <2> HIDE DEF Less
  <2> QED  BY <1>1, WFMin
<1>3. ASSUME NEW y \in S, ~(x <= y) PROVE FALSE
  <2>1. x \in Nat /\ y \in Nat /\ y < x
    BY <1>2, <1>3
  <2>2. <<y, x>> \in Less
    BY <2>1
  <2> QED  BY <1>2, <2>2
<1> QED  BY <1>3

-----------------------------------------------------------------------------
\* Parts that continue each other

\* Where the first i parts end.
At(parts, from, i) == IF i = 0 THEN from ELSE parts[i].off + parts[i].len

\* The first k parts are not empty, and lead from one offset to another.
Chain(parts, k, from, to) ==
    /\ k \in 0..Len(parts)
    /\ \A i \in 1..k : parts[i].len > 0 /\ parts[i].off = At(parts, from, i - 1)
    /\ At(parts, from, k) = to

WholeChain(parts, from, to) == Chain(parts, Len(parts), from, to)

LEMMA RangesType ==
    ASSUME NEW parts \in Seq(Ranges)
    PROVE  /\ Len(parts) \in Nat
           /\ DOMAIN parts = 1..Len(parts)
           /\ \A i \in 1..Len(parts) : /\ parts[i] \in Ranges
                                       /\ parts[i].off \in Nat /\ parts[i].len \in Nat
<1>1. Len(parts) \in Nat /\ DOMAIN parts = 1..Len(parts)
  OBVIOUS
<1>2. \A i \in 1..Len(parts) : parts[i] \in Ranges
  BY <1>1, ElementOfSeq
<1> QED  BY <1>1, <1>2 DEF Ranges

LEMMA AtType ==
    ASSUME NEW parts \in Seq(Ranges), NEW from \in Int, NEW i \in 0..Len(parts)
    PROVE  At(parts, from, i) \in Int
BY RangesType DEF At

\* The parts of a chain never go back.
LEMMA ChainMonotone ==
    ASSUME NEW parts \in Seq(Ranges), NEW from \in Int, NEW to \in Int, NEW k,
           Chain(parts, k, from, to)
    PROVE  /\ \A i \in 0..k : from <= At(parts, from, i)
           /\ \A i \in 0..k : At(parts, from, i) <= to
           /\ from <= to
<1> DEFINE S == {n \in Nat : n <= k => from <= At(parts, from, n)}
           R == {n \in Nat : n <= k => At(parts, from, k - n) <= to}
<1>0. k \in Nat /\ k <= Len(parts) /\ Len(parts) \in Nat
  BY RangesType DEF Chain
<1>1. \A i \in 1..k : /\ At(parts, from, i) = At(parts, from, i - 1) + parts[i].len
                      /\ parts[i].len \in Nat
                      /\ At(parts, from, i - 1) \in Int
  <2> TAKE i \in 1..k
  <2>1. i \in 1..Len(parts) /\ i - 1 \in 0..Len(parts) /\ i # 0
    BY <1>0
  <2> QED  BY <2>1, RangesType, AtType DEF Chain, At
<1>2. 0 \in S
  BY DEF At
<1>3. ASSUME NEW n \in Nat, n \in S PROVE n + 1 \in S
  <2>1. SUFFICES ASSUME n + 1 <= k PROVE from <= At(parts, from, n + 1)
    OBVIOUS
  <2>2. n + 1 \in 1..k /\ n <= k /\ (n + 1) - 1 = n
    BY <1>0, <2>1
  <2> HIDE DEF S
  <2>3. from <= At(parts, from, n)
    BY <1>3, <2>2 DEF S
  <2>4. /\ At(parts, from, n + 1) = At(parts, from, n) + parts[n + 1].len
        /\ parts[n + 1].len \in Nat /\ At(parts, from, n) \in Int
    BY <1>1, <2>2
  <2> QED  BY <2>3, <2>4
<1>4. Nat \subseteq S
  <2> HIDE DEF S
  <2> QED  BY <1>2, <1>3, SetInduction
<1>5. 0 \in R
  BY <1>0 DEF Chain
<1>6. ASSUME NEW n \in Nat, n \in R PROVE n + 1 \in R
  <2>1. SUFFICES ASSUME n + 1 <= k PROVE At(parts, from, k - (n + 1)) <= to
    OBVIOUS
  <2>2. k - n \in 1..k /\ n <= k /\ (k - n) - 1 = k - (n + 1)
    BY <1>0, <2>1
  <2> HIDE DEF R
  <2>3. At(parts, from, k - n) <= to
    BY <1>6, <2>2 DEF R
  <2>4. /\ At(parts, from, k - n) = At(parts, from, k - (n + 1)) + parts[k - n].len
        /\ parts[k - n].len \in Nat /\ At(parts, from, k - (n + 1)) \in Int
    BY <1>1, <2>2
  <2> QED  BY <2>3, <2>4
<1>7. Nat \subseteq R
  <2> HIDE DEF R
  <2> QED  BY <1>5, <1>6, SetInduction
<1>8. ASSUME NEW i \in 0..k PROVE from <= At(parts, from, i) /\ At(parts, from, i) <= to
  <2>1. i \in Nat /\ i <= k /\ k - i \in Nat /\ k - (k - i) = i /\ k - i <= k
    BY <1>0
  <2> HIDE DEF S, R
  <2>2. i \in S /\ k - i \in R
    BY <1>4, <1>7, <2>1
  <2> QED  BY <2>1, <2>2 DEF S, R
<1>9. 0 \in 0..k /\ At(parts, from, 0) = from
  BY <1>0 DEF At
<1> HIDE DEF S, R
<1> QED  BY <1>8, <1>9

\* The bytes of a chain's parts are those between its ends.
LEMMA Telescope ==
    ASSUME NEW parts \in Seq(Ranges), NEW from \in Int, NEW to \in Int,
           WholeChain(parts, from, to)
    PROVE  /\ \A i \in 0..Len(parts) : Sums(parts)[i] = At(parts, from, i) - from
           /\ Bytes(parts) = to - from
           /\ Bytes(parts) \in Nat
<1> DEFINE S == {n \in Nat : n <= Len(parts) => Sums(parts)[n] = At(parts, from, n) - from}
<1>0. Len(parts) \in Nat
  BY RangesType
<1>1. 0 \in S
  BY <1>0, SumsDef DEF At
<1>2. ASSUME NEW n \in Nat, n \in S PROVE n + 1 \in S
  <2>1. SUFFICES ASSUME n + 1 <= Len(parts)
                 PROVE  Sums(parts)[n + 1] = At(parts, from, n + 1) - from
    OBVIOUS
  <2>2. n + 1 \in 1..Len(parts) /\ (n + 1) - 1 = n /\ n \in 0..Len(parts) /\ n + 1 # 0
    BY <1>0, <2>1
  <2>3. Sums(parts)[n] = At(parts, from, n) - from
    BY <1>2, <2>2
  <2>4. Sums(parts)[n + 1] = Sums(parts)[n] + parts[n + 1].len
    BY <1>0, <2>2, SumsDef
  <2>5. At(parts, from, n + 1) = At(parts, from, n) + parts[n + 1].len
    BY <2>2 DEF At, WholeChain, Chain
  <2>6. At(parts, from, n) \in Int /\ parts[n + 1].len \in Int
    BY <2>2, AtType, RangesType
  <2> QED  BY <2>3, <2>4, <2>5, <2>6
<1>3. Nat \subseteq S
  <2> HIDE DEF S
  <2> QED  BY <1>1, <1>2, SetInduction
<1>4. \A i \in 0..Len(parts) : Sums(parts)[i] = At(parts, from, i) - from
  BY <1>0, <1>3
<1>5. Bytes(parts) = to - from
  <2>1. Len(parts) \in 0..Len(parts)
    BY <1>0
  <2> QED  BY <1>4, <2>1 DEF Bytes, WholeChain, Chain
<1>6. from <= to
  BY ChainMonotone DEF WholeChain
<1> QED  BY <1>4, <1>5, <1>6

LEMMA ChainEmpty ==
    /\ <<>> \in Seq(Ranges)
    /\ Bytes(<<>>) = 0
    /\ \A from, to \in Int : WholeChain(<<>>, from, to) <=> from = to
<1>1. <<>> \in Seq(Ranges) /\ Len(<<>>) = 0
  OBVIOUS
<1>2. \A from, to : WholeChain(<<>>, from, to) <=> from = to
  BY <1>1 DEF WholeChain, Chain, At
<1>3. Bytes(<<>>) = 0
  BY <1>1, SumsDef DEF Bytes
<1> QED  BY <1>1, <1>2, <1>3

LEMMA ChainOne ==
    ASSUME NEW part \in Ranges, part.len > 0
    PROVE  /\ <<part>> \in Seq(Ranges)
           /\ WholeChain(<<part>>, part.off, part.off + part.len)
<1>1. <<part>> \in Seq(Ranges) /\ Len(<<part>>) = 1 /\ <<part>>[1] = part
  OBVIOUS
<1>2. \A i \in 1..1 : i = 1 /\ i - 1 = 0
  OBVIOUS
<1> QED  BY <1>1, <1>2 DEF WholeChain, Chain, At

\* What comes after the chain does not matter to it.
LEMMA ChainAppendKeep ==
    ASSUME NEW parts \in Seq(Ranges), NEW part \in Ranges, NEW from \in Int, NEW to \in Int,
           NEW k, Chain(parts, k, from, to)
    PROVE  /\ Append(parts, part) \in Seq(Ranges)
           /\ Chain(Append(parts, part), k, from, to)
<1> DEFINE q == Append(parts, part)
<1>1. Len(parts) \in Nat /\ q \in Seq(Ranges) /\ Len(q) = Len(parts) + 1
  BY RangesType, AppendProperties
<1>2. \A i \in 1..Len(parts) : q[i] = parts[i]
  BY AppendProperties
<1>3. k \in 0..Len(parts) /\ k \in 0..Len(q)
  BY <1>1 DEF Chain
<1> HIDE DEF q
<1>4. \A i \in 0..k : At(q, from, i) = At(parts, from, i)
  BY <1>1, <1>2, <1>3 DEF At
<1>5. \A i \in 1..k : i \in 1..Len(parts) /\ i - 1 \in 0..k
  BY <1>1, <1>3
<1>6. k \in 0..k
  BY <1>3
<1>7. Chain(q, k, from, to)
  BY <1>2, <1>3, <1>4, <1>5, <1>6 DEF Chain
<1> QED  BY <1>1, <1>7 DEF q

LEMMA ChainAppend ==
    ASSUME NEW parts \in Seq(Ranges), NEW part \in Ranges, NEW from \in Int, NEW to \in Int,
           WholeChain(parts, from, to), part.off = to, part.len > 0
    PROVE  /\ Append(parts, part) \in Seq(Ranges)
           /\ Len(Append(parts, part)) = Len(parts) + 1
           /\ WholeChain(Append(parts, part), from, to + part.len)
<1> DEFINE q == Append(parts, part)
           n == Len(parts)
<1>1. n \in Nat /\ q \in Seq(Ranges) /\ Len(q) = n + 1 /\ q[n + 1] = part
  BY RangesType, AppendProperties
<1>2. Chain(q, n, from, to)
  BY ChainAppendKeep DEF WholeChain
<1> HIDE DEF q, n
<1>3. At(q, from, n + 1) = to + part.len /\ At(q, from, n) = to
  BY <1>1, <1>2 DEF At, Chain
<1>4. ASSUME NEW i \in 1..n + 1 PROVE q[i].len > 0 /\ q[i].off = At(q, from, i - 1)
  <2>1. CASE i \in 1..n
    BY <1>2, <2>1 DEF Chain
  <2>2. CASE i = n + 1
    <3>1. i - 1 = n
      BY <1>1, <2>2
    <3> QED  BY <1>1, <1>3, <2>2, <3>1
  <2> QED  BY <1>1, <2>1, <2>2
<1>5. n + 1 \in 0..Len(q)
  BY <1>1
<1>6. WholeChain(q, from, to + part.len)
  BY <1>1, <1>3, <1>4, <1>5 DEF WholeChain, Chain
<1> QED  BY <1>1, <1>6 DEF q, n

LEMMA ChainConcat ==
    ASSUME NEW parts \in Seq(Ranges), NEW more \in Seq(Ranges), NEW k,
           NEW from \in Int, NEW mid \in Int, NEW to \in Int,
           WholeChain(parts, from, mid), Chain(more, k, mid, to)
    PROVE  /\ parts \o more \in Seq(Ranges)
           /\ Len(parts \o more) = Len(parts) + Len(more)
           /\ Chain(parts \o more, Len(parts) + k, from, to)
<1> DEFINE q == parts \o more
           n == Len(parts)
<1>1. /\ n \in Nat /\ Len(more) \in Nat /\ q \in Seq(Ranges) /\ Len(q) = n + Len(more)
      /\ k \in 0..Len(more)
  BY RangesType, ConcatProperties DEF Chain
<1>2. \A i \in 1..n : q[i] = parts[i]
  BY <1>1, ConcatProperties
<1>3. \A i \in 1..k : q[n + i] = more[i]
  <2> TAKE i \in 1..k
  <2>1. n + i \in 1..(n + Len(more)) /\ ~(n + i <= n) /\ (n + i) - n = i
    BY <1>1
  <2> QED  BY <2>1, ConcatProperties
<1> HIDE DEF q
<1>4. \A i \in 0..n : At(q, from, i) = At(parts, from, i)
  BY <1>1, <1>2 DEF At
<1>5. At(q, from, n) = mid
  BY <1>1, <1>4 DEF WholeChain, Chain
<1>6. \A i \in 0..k : At(q, from, n + i) = At(more, mid, i)
  <2> TAKE i \in 0..k
  <2>1. CASE i = 0
    BY <1>1, <1>5, <2>1 DEF At
  <2>2. CASE i # 0
    <3>1. i \in 1..k /\ n + i # 0
      BY <1>1, <2>2
    <3> QED  BY <1>3, <2>2, <3>1 DEF At
  <2> QED  BY <2>1, <2>2
<1>7. ASSUME NEW i \in 1..n + k PROVE q[i].len > 0 /\ q[i].off = At(q, from, i - 1)
  <2>1. CASE i \in 1..n
    <3>1. i - 1 \in 0..n /\ n = Len(parts)
      BY <1>1, <2>1
    <3> QED  BY <1>2, <1>4, <2>1, <3>1 DEF WholeChain, Chain
  <2>2. CASE i \notin 1..n
    <3>1. PICK j \in 1..k : i = n + j
      <4>1. i - n \in 1..k /\ i = n + (i - n)
        BY <1>1, <2>2
      <4> QED  BY <4>1
    <3>2. i - 1 = n + (j - 1) /\ j - 1 \in 0..k
      BY <1>1, <3>1
    <3>3. more[j].len > 0 /\ more[j].off = At(more, mid, j - 1)
      BY <3>1 DEF Chain
    <3>4. At(q, from, n + (j - 1)) = At(more, mid, j - 1)
      BY <1>6, <3>2
    <3> QED  BY <1>3, <3>1, <3>2, <3>3, <3>4
  <2> QED  BY <2>1, <2>2
<1>8. n + k \in 0..Len(q) /\ k \in 0..k
  BY <1>1
<1>9. At(q, from, n + k) = to
  BY <1>6, <1>8 DEF Chain
<1>10. Chain(q, n + k, from, to)
  BY <1>7, <1>8, <1>9 DEF Chain
<1> QED  BY <1>1, <1>10 DEF q

\* From the k-th part on, and up to it.
LEMMA ChainSuffix ==
    ASSUME NEW parts \in Seq(Ranges), NEW from \in Int, NEW to \in Int,
           WholeChain(parts, from, to), NEW k \in 1..Len(parts) + 1
    PROVE  LET q == SubSeq(parts, k, Len(parts))
           IN  /\ q \in Seq(Ranges)
               /\ At(parts, from, k - 1) \in Int
               /\ from <= At(parts, from, k - 1)
               /\ WholeChain(q, At(parts, from, k - 1), to)
               /\ Bytes(q) = to - At(parts, from, k - 1)
<1> DEFINE n == Len(parts)
           q == SubSeq(parts, k, n)
<1> PICK mid : mid = At(parts, from, k - 1)
  OBVIOUS
<1>1. n \in Nat /\ k \in 1..n + 1 /\ k - 1 \in 0..n
  BY RangesType
<1>2. mid \in Int /\ from <= mid
  BY <1>1, AtType, ChainMonotone DEF WholeChain
<1>3. q \in Seq(Ranges) /\ Len(q) = n - k + 1 /\ \A i \in 1..n - k + 1 : q[i] = parts[k + i - 1]
  <2>1. \A i \in k..n : parts[i] \in Ranges
    BY <1>1, RangesType
  <2>2. Len(q) = n - k + 1 /\ \A i \in 1..n - k + 1 : q[i] = parts[k + i - 1]
    BY <1>1, SubSeqProperties
  <2>3. q \in Seq(Ranges)
    BY <1>1, <2>1, SubSeqProperties
  <2> QED  BY <2>2, <2>3
<1> HIDE DEF q, n
<1>4. \A i \in 0..Len(q) : At(q, mid, i) = At(parts, from, k + i - 1)
  <2> TAKE i \in 0..Len(q)
  <2>1. CASE i = 0
    <3>1. k + i - 1 = k - 1
      BY <1>1, <2>1
    <3> QED  BY <2>1, <3>1 DEF At
  <2>2. CASE i # 0
    <3>1. i \in 1..n - k + 1 /\ k + i - 1 # 0
      BY <1>1, <1>3, <2>2
    <3> QED  BY <1>3, <2>2, <3>1 DEF At
  <2> QED  BY <2>1, <2>2
<1>5. ASSUME NEW i \in 1..Len(q) PROVE q[i].len > 0 /\ q[i].off = At(q, mid, i - 1)
  <2>1. i \in 1..n - k + 1 /\ i - 1 \in 0..Len(q) /\ k + i - 1 \in 1..n
    BY <1>1, <1>3
  <2>2. k + (i - 1) - 1 = (k + i - 1) - 1
    BY <1>1, <2>1
  <2>3. At(q, mid, i - 1) = At(parts, from, k + (i - 1) - 1)
    BY <1>4, <2>1
  <2>4. /\ parts[k + i - 1].len > 0
        /\ parts[k + i - 1].off = At(parts, from, (k + i - 1) - 1)
    BY <2>1 DEF WholeChain, Chain, n
  <2> QED  BY <1>3, <2>1, <2>2, <2>3, <2>4
<1>6. At(q, mid, Len(q)) = to
  <2>1. Len(q) \in 0..Len(q) /\ k + Len(q) - 1 = n
    BY <1>1, <1>3
  <2> QED  BY <1>4, <2>1 DEF WholeChain, Chain, n
<1>7. WholeChain(q, mid, to)
  <2>1. Len(q) \in 0..Len(q)
    BY <1>1, <1>3
  <2> QED  BY <1>5, <1>6, <2>1 DEF WholeChain, Chain
<1>8. Bytes(q) = to - mid
  BY <1>2, <1>3, <1>7, Telescope
<1> QED  BY <1>2, <1>3, <1>7, <1>8 DEF q, n

LEMMA ChainPrefix ==
    ASSUME NEW parts \in Seq(Ranges), NEW from \in Int, NEW to \in Int, NEW m,
           Chain(parts, m, from, to), NEW k \in 0..m
    PROVE  /\ SubSeq(parts, 1, k) \in Seq(Ranges)
           /\ Len(SubSeq(parts, 1, k)) = k
           /\ WholeChain(SubSeq(parts, 1, k), from, At(parts, from, k))
<1> DEFINE q == SubSeq(parts, 1, k)
<1>1. Len(parts) \in Nat /\ m \in 0..Len(parts) /\ k \in 0..Len(parts)
  BY RangesType DEF Chain
<1>2. q \in Seq(Ranges) /\ Len(q) = k /\ \A i \in 1..k : q[i] = parts[i]
  <2>1. \A i \in 1..k : parts[i] \in Ranges
    BY <1>1, RangesType
  <2>2. Len(q) = k /\ \A i \in 1..k : q[i] = parts[1 + i - 1]
    BY <1>1, SubSeqProperties
  <2>3. q \in Seq(Ranges)
    BY <1>1, <2>1, SubSeqProperties
  <2>4. \A i \in 1..k : 1 + i - 1 = i
    OBVIOUS
  <2> QED  BY <2>2, <2>3, <2>4
<1> HIDE DEF q
<1>3. \A i \in 0..k : At(q, from, i) = At(parts, from, i)
  BY <1>1, <1>2 DEF At
<1>4. \A i \in 1..k : i \in 1..m /\ i - 1 \in 0..k
  BY <1>1
<1>5. WholeChain(q, from, At(parts, from, k))
  <2>1. k \in 0..k /\ At(q, from, k) = At(parts, from, k)
    BY <1>1, <1>3
  <2>2. ASSUME NEW i \in 1..k PROVE q[i].len > 0 /\ q[i].off = At(q, from, i - 1)
    <3>1. i \in 1..m /\ i - 1 \in 0..k
      BY <1>4
    <3>2. parts[i].len > 0 /\ parts[i].off = At(parts, from, i - 1)
      BY <3>1 DEF Chain
    <3> QED  BY <1>2, <1>3, <3>1, <3>2
  <2> QED  BY <1>2, <2>1, <2>2 DEF WholeChain, Chain
<1> QED  BY <1>2, <1>5 DEF q

\* The first part of a chain, and the others.
LEMMA ChainTail ==
    ASSUME NEW parts \in Seq(Ranges), NEW from \in Int, NEW to \in Int, NEW k,
           Chain(parts, k, from, to), k # 0
    PROVE  /\ parts # <<>> /\ Head(parts) \in Ranges /\ Tail(parts) \in Seq(Ranges)
           /\ Head(parts).off = from /\ Head(parts).len > 0
           /\ Len(Tail(parts)) = Len(parts) - 1
           /\ from + Head(parts).len <= to
           /\ Chain(Tail(parts), k - 1, from + Head(parts).len, to)
<1> DEFINE q == Tail(parts)
<1>1. Len(parts) \in Nat /\ k \in 1..Len(parts) /\ parts # <<>>
  BY RangesType DEF Chain
<1>2. /\ Head(parts) = parts[1] /\ q \in Seq(Ranges) /\ Len(q) = Len(parts) - 1
      /\ \A i \in 1..Len(q) : q[i] = parts[i + 1]
  BY <1>1, HeadTailProperties
<1>3. /\ parts[1] \in Ranges /\ parts[1].off = from /\ parts[1].len > 0
      /\ At(parts, from, 1) = from + parts[1].len
  <2>1. 1 \in 1..k /\ 1 \in 1..Len(parts) /\ 1 - 1 = 0
    BY <1>1
  <2> QED  BY <2>1, RangesType DEF Chain, At
<1>4. At(parts, from, 1) <= to
  BY <1>1, ChainMonotone
<1> PICK mid : mid = from + parts[1].len
  OBVIOUS
<1> HIDE DEF q
<1>5. \A i \in 0..k - 1 : At(q, mid, i) = At(parts, from, i + 1)
  <2> TAKE i \in 0..k - 1
  <2>1. CASE i = 0
    BY <1>3, <2>1 DEF At
  <2>2. CASE i # 0
    <3>1. i \in 1..Len(q) /\ i + 1 # 0
      BY <1>1, <1>2, <2>2
    <3> QED  BY <1>2, <2>2, <3>1 DEF At
  <2> QED  BY <2>1, <2>2
<1>6. ASSUME NEW i \in 1..k - 1 PROVE q[i].len > 0 /\ q[i].off = At(q, mid, i - 1)
  <2>1. i \in 1..Len(q) /\ i - 1 \in 0..k - 1 /\ i + 1 \in 1..k /\ (i - 1) + 1 = (i + 1) - 1
    BY <1>1, <1>2
  <2>2. At(q, mid, i - 1) = At(parts, from, (i - 1) + 1)
    BY <1>5, <2>1
  <2>3. parts[i + 1].len > 0 /\ parts[i + 1].off = At(parts, from, (i + 1) - 1)
    BY <2>1 DEF Chain
  <2> QED  BY <1>2, <2>1, <2>2, <2>3
<1>7. k - 1 \in 0..Len(q) /\ k - 1 \in 0..k - 1 /\ (k - 1) + 1 = k
  BY <1>1, <1>2
<1>8. At(q, mid, k - 1) = to
  BY <1>5, <1>7 DEF Chain
<1>9. Chain(q, k - 1, mid, to)
  BY <1>6, <1>7, <1>8 DEF Chain
<1> QED  BY <1>1, <1>2, <1>3, <1>4, <1>9 DEF q

-----------------------------------------------------------------------------
\* The backward seek window

\* Room is made by dropping parts from the front.
LEMMA MakeRoomKeepsSuffix ==
    ASSUME NEW window \in Seq(Ranges), NEW from \in Int, NEW to \in Int,
           WholeChain(window, from, to), NEW n \in Nat, n <= SeekMax
    PROVE  \E mid \in Int :
               /\ from <= mid /\ to - mid + n <= SeekMax
               /\ MakeRoom(window, n) \in Seq(Ranges)
               /\ WholeChain(MakeRoom(window, n), mid, to)
<1> DEFINE keep(k) == SubSeq(window, k, Len(window))
           P(k) == /\ Bytes(keep(k)) + n <= SeekMax
                   /\ \A j \in 1..k - 1 : Bytes(keep(j)) + n > SeekMax
           S == {k \in 1..Len(window) + 1 : Bytes(keep(k)) + n <= SeekMax}
<1>1. Len(window) \in Nat /\ SeekMax \in Nat
  BY RangesType, SizesAssumption
<1>2. \A k \in 1..Len(window) + 1 :
          /\ keep(k) \in Seq(Ranges)
          /\ At(window, from, k - 1) \in Int
          /\ from <= At(window, from, k - 1)
          /\ WholeChain(keep(k), At(window, from, k - 1), to)
          /\ Bytes(keep(k)) = to - At(window, from, k - 1)
  BY ChainSuffix
<1>3. Len(window) + 1 \in S
  <2>1. Len(window) + 1 \in 1..Len(window) + 1 /\ (Len(window) + 1) - 1 = Len(window)
    BY <1>1
  <2>2. At(window, from, Len(window)) = to
    BY DEF WholeChain, Chain
  <2>3. Bytes(keep(Len(window) + 1)) = 0
    BY <1>2, <2>1, <2>2
  <2> HIDE DEF keep
  <2> QED  BY <2>1, <2>3
<1> HIDE DEF keep
<1>4. \E k \in 1..Len(window) + 1 : P(k)
  <2>1. S \subseteq Nat /\ S # {}
    BY <1>1, <1>3
  <2>2. PICK k \in S : \A y \in S : k <= y
    <3> HIDE DEF S
    <3> QED  BY <2>1, LeastElement
  <2>3. ASSUME NEW j \in 1..k - 1 PROVE Bytes(keep(j)) + n > SeekMax
    <3>1. j \in 1..Len(window) + 1 /\ ~(k <= j)
      BY <1>1, <2>2
    <3>2. j \notin S
      BY <2>2, <3>1
    <3>3. ~(Bytes(keep(j)) + n <= SeekMax)
      BY <3>1, <3>2
    <3>4. Bytes(keep(j)) \in Int
      BY <1>2, <3>1
    <3> QED  BY <1>1, <3>3, <3>4
  <2> QED  BY <2>2, <2>3
<1>5. PICK k \in 1..Len(window) + 1 :
          P(k) /\ k = CHOOSE i \in 1..Len(window) + 1 : P(i)
  <2> HIDE DEF P
  <2> QED  BY <1>4
<1>6. MakeRoom(window, n) = keep(k)
  BY <1>5 DEF MakeRoom, keep
<1>7. Bytes(keep(k)) + n <= SeekMax
  BY <1>5
<1> QED  BY <1>2, <1>5, <1>6, <1>7

\* The window after a part that continues it, with its start not earlier.
LEMMA PushWindowChain ==
    ASSUME NEW window \in Seq(Ranges), NEW from \in Int, NEW to \in Int,
           WholeChain(window, from, to), NEW part \in Ranges, part.len > 0, part.off = to
    PROVE  /\ PushWindow(window, part) \in Seq(Ranges)
           /\ Bytes(PushWindow(window, part)) \in Nat
           /\ Bytes(PushWindow(window, part)) <= SeekMax
           /\ from <= to + part.len - Bytes(PushWindow(window, part))
           /\ WholeChain(PushWindow(window, part),
                         to + part.len - Bytes(PushWindow(window, part)), to + part.len)
<1> PICK q : q = PushWindow(window, part)
  OBVIOUS
<1>1. part.len \in Nat /\ part.off \in Nat /\ SeekMax \in Nat /\ from <= to
  BY SizesAssumption, ChainMonotone DEF Ranges, WholeChain
<1>2. CASE part.len > SeekMax
  <2>1. q = <<>>
    BY <1>2 DEF PushWindow
  <2> QED  BY <1>1, <2>1, ChainEmpty
<1>3. CASE ~(part.len > SeekMax)
  <2>1. q = Append(MakeRoom(window, part.len), part)
    BY <1>3 DEF PushWindow
  <2>2. part.len <= SeekMax
    BY <1>1, <1>3
  <2>3. PICK mid \in Int : /\ from <= mid /\ to - mid + part.len <= SeekMax
                           /\ MakeRoom(window, part.len) \in Seq(Ranges)
                           /\ WholeChain(MakeRoom(window, part.len), mid, to)
    BY <1>1, <2>2, MakeRoomKeepsSuffix
  <2>4. q \in Seq(Ranges) /\ WholeChain(q, mid, to + part.len)
    BY <2>1, <2>3, ChainAppend
  <2>5. Bytes(q) = to + part.len - mid /\ Bytes(q) \in Nat
    BY <1>1, <2>4, Telescope
  <2>6. to + part.len - Bytes(q) = mid
    BY <1>1, <2>5
  <2>7. Bytes(q) <= SeekMax
    BY <1>1, <2>3, <2>5
  <2> QED  BY <2>3, <2>4, <2>5, <2>6, <2>7
<1> QED  BY <1>2, <1>3

\* A backward seek takes the last n bytes, and leaves the others.
LEMMA ReadBackSplits ==
    ASSUME NEW window \in Seq(Ranges), NEW from \in Int, NEW to \in Int,
           WholeChain(window, from, to), NEW n \in Nat \ {0}, n <= Bytes(window)
    PROVE  LET back == ReadBack(window, n)
           IN  /\ back.parts \in Seq(Ranges) /\ back.rest \in Seq(Ranges)
               /\ back.parts # <<>>
               /\ WholeChain(back.parts, to - n, to)
               /\ WholeChain(back.rest, from, to - n)
               /\ Bytes(back.parts) = n /\ Bytes(back.rest) = Bytes(window) - n
<1> DEFINE L == Len(window)
           suf(i) == SubSeq(window, i, L)
           P(i) == Bytes(suf(i)) >= n /\ Bytes(suf(i + 1)) < n
           S == {i \in 1..L : Bytes(suf(i + 1)) < n}
<1>1. L \in Nat /\ Bytes(window) = to - from /\ Bytes(window) \in Nat
  BY RangesType, Telescope
<1>2. \A k \in 1..L + 1 :
          /\ suf(k) \in Seq(Ranges)
          /\ At(window, from, k - 1) \in Int
          /\ from <= At(window, from, k - 1)
          /\ WholeChain(suf(k), At(window, from, k - 1), to)
          /\ Bytes(suf(k)) = to - At(window, from, k - 1)
  BY ChainSuffix
<1>3. L \in 1..L
  <2>1. L # 0
    <3>1. L = 0 => from = to
      BY DEF WholeChain, Chain, At
    <3> QED  BY <1>1, <3>1
  <2> QED  BY <1>1, <2>1
<1> HIDE DEF suf, L
<1>4. L \in S
  <2>1. At(window, from, L) = to /\ (L + 1) - 1 = L /\ L + 1 \in 1..L + 1
    BY <1>1, <1>3 DEF WholeChain, Chain, L
  <2>2. Bytes(suf(L + 1)) = 0
    BY <1>2, <2>1
  <2> QED  BY <1>3, <2>2
<1>5. \E i \in 1..L : P(i)
  <2>1. S \subseteq Nat /\ S # {}
    <3>1. 1..L \subseteq Nat
      OBVIOUS
    <3> QED  BY <1>4, <3>1
  <2>2. PICK k \in S : \A y \in S : k <= y
    <3> HIDE DEF S
    <3> QED  BY <2>1, LeastElement
  <2>3. k \in 1..L /\ Bytes(suf(k + 1)) < n
    BY <2>2
  <2>4. Bytes(suf(k)) >= n
    <3>1. CASE k = 1
      <4>1. 1 \in 1..L + 1 /\ At(window, from, 1 - 1) = from
        BY <1>1, <1>3 DEF At
      <4> QED  BY <1>1, <1>2, <3>1, <4>1
    <3>2. CASE k # 1
      <4>1. k - 1 \in 1..L /\ ~(k <= k - 1) /\ (k - 1) + 1 = k /\ k \in 1..L + 1
        BY <1>1, <2>3, <3>2
      <4>2. k - 1 \notin S
        BY <2>2, <4>1
      <4>3. ~(Bytes(suf(k)) < n)
        BY <4>1, <4>2
      <4>4. Bytes(suf(k)) \in Int
        BY <1>2, <4>1
      <4> QED  BY <4>3, <4>4
    <3> QED  BY <3>1, <3>2
  <2> QED  BY <2>3, <2>4
<1>6. PICK k \in 1..L : P(k) /\ k = CHOOSE i \in 1..L : P(i)
  <2> HIDE DEF P
  <2> QED  BY <1>5
<1>k. k \in 1..L /\ Bytes(suf(k)) >= n /\ Bytes(suf(k + 1)) < n
  BY <1>6
<1> PICK part : part = window[k]
  OBVIOUS
<1> DEFINE cut == part.len - (n - Bytes(suf(k + 1)))
           tail == Part(part.off + cut, part.len - cut)
           head == Part(part.off, cut)
           front == SubSeq(window, 1, k - 1)
           back == [parts |-> <<tail>> \o suf(k + 1),
                    rest  |-> front \o (IF cut > 0 THEN <<head>> ELSE <<>>)]
<1>7. ReadBack(window, n) = back
  BY <1>6 DEF ReadBack, suf, L
<1>8. k \in 1..L + 1 /\ k + 1 \in 1..L + 1 /\ (k + 1) - 1 = k /\ k # 0 /\ k - 1 \in 0..L
  BY <1>1, <1>k
<1>9. /\ part \in Ranges /\ part.off \in Nat /\ part.len \in Nat
      /\ part.len > 0 /\ part.off = At(window, from, k - 1)
      /\ At(window, from, k) = part.off + part.len
  BY <1>k, <1>8, RangesType DEF WholeChain, Chain, At, L
<1>10. /\ Bytes(suf(k)) = to - part.off
       /\ Bytes(suf(k + 1)) = to - (part.off + part.len)
       /\ suf(k + 1) \in Seq(Ranges)
       /\ WholeChain(suf(k + 1), part.off + part.len, to)
       /\ from <= part.off
  <2>1. Bytes(suf(k)) = to - part.off /\ from <= part.off
    BY <1>2, <1>8, <1>9
  <2>2. At(window, from, (k + 1) - 1) = part.off + part.len
    BY <1>8, <1>9
  <2>3. /\ suf(k + 1) \in Seq(Ranges)
        /\ WholeChain(suf(k + 1), At(window, from, (k + 1) - 1), to)
        /\ Bytes(suf(k + 1)) = to - At(window, from, (k + 1) - 1)
    BY <1>2, <1>8
  <2> QED  BY <2>1, <2>2, <2>3
<1>11. /\ cut \in Nat /\ cut < part.len /\ part.off + cut = to - n
       /\ (part.off + cut) + (part.len - cut) = part.off + part.len
       /\ part.len - cut > 0 /\ part.len - cut \in Nat /\ part.off + cut \in Nat
  <2>1. PICK b : b = Bytes(suf(k + 1))
    OBVIOUS
  <2>2. b = to - (part.off + part.len) /\ b < n /\ to - part.off >= n
    BY <1>k, <1>10, <2>1
  <2>3. cut = part.len - (n - b)
    BY <2>1
  <2>4. cut = to - n - part.off
    BY <1>9, <2>2, <2>3, SMTT(30)
  <2>5. PICK o, l : o = part.off /\ l = part.len
    OBVIOUS
  <2>6. /\ o \in Nat /\ l \in Nat /\ to \in Int /\ n \in Nat
        /\ to - (o + l) < n /\ to - o >= n /\ cut = to - n - o
    BY <1>9, <2>2, <2>4, <2>5
  <2> HIDE DEF cut
  <2>7. /\ cut \in Nat /\ cut < l /\ o + cut = to - n /\ (o + cut) + (l - cut) = o + l
        /\ l - cut > 0 /\ l - cut \in Nat /\ o + cut \in Nat
    BY <2>6
  <2> QED  BY <2>5, <2>7
<1>12. /\ <<tail>> \o suf(k + 1) \in Seq(Ranges)
       /\ <<tail>> \o suf(k + 1) # <<>>
       /\ WholeChain(<<tail>> \o suf(k + 1), to - n, to)
  <2>1. tail \in Ranges /\ tail.off = to - n /\ tail.len > 0
        /\ tail.off + tail.len = part.off + part.len
    <3>1. tail = [off |-> part.off + cut, len |-> part.len - cut]
      BY DEF Part
    <3> HIDE DEF cut, tail
    <3>2. tail \in Ranges /\ tail.off = part.off + cut /\ tail.len = part.len - cut
      BY <1>11, <3>1 DEF Ranges
    <3> QED  BY <1>11, <3>2
  <2> HIDE DEF tail
  <2>2. <<tail>> \in Seq(Ranges) /\ WholeChain(<<tail>>, to - n, part.off + part.len)
        /\ Len(<<tail>>) = 1
    BY <2>1, ChainOne
  <2>3. Chain(suf(k + 1), Len(suf(k + 1)), part.off + part.len, to)
    BY <1>10 DEF WholeChain
  <2>4. to - n \in Int /\ part.off + part.len \in Int
    BY <1>9
  <2>5. /\ <<tail>> \o suf(k + 1) \in Seq(Ranges)
        /\ Len(<<tail>> \o suf(k + 1)) = 1 + Len(suf(k + 1))
        /\ Chain(<<tail>> \o suf(k + 1), 1 + Len(suf(k + 1)), to - n, to)
    BY <1>10, <2>2, <2>3, <2>4, ChainConcat
  <2>6. Len(suf(k + 1)) \in Nat /\ Len(<<tail>> \o suf(k + 1)) # 0
    BY <1>10, <2>5, RangesType
  <2>7. <<tail>> \o suf(k + 1) # <<>>
    BY <2>5, <2>6
  <2> QED  BY <2>5, <2>7 DEF WholeChain
<1>13. front \in Seq(Ranges) /\ WholeChain(front, from, part.off)
  <2>1. Chain(window, L, from, to) /\ k - 1 \in 0..L
    BY <1>8 DEF WholeChain, L
  <2> QED  BY <1>9, <2>1, ChainPrefix
<1>14. /\ back.rest \in Seq(Ranges)
       /\ WholeChain(back.rest, from, to - n)
  <2> HIDE DEF front
  <2>1. CASE cut > 0
    <3>1. head \in Ranges /\ head.off = part.off /\ head.len > 0
          /\ head.off + head.len = to - n
      <4> HIDE DEF cut
      <4> QED  BY <1>9, <1>11, <2>1 DEF Part, Ranges
    <3> HIDE DEF head
    <3>2. <<head>> \in Seq(Ranges) /\ WholeChain(<<head>>, part.off, to - n)
      BY <3>1, ChainOne
    <3>3. Chain(<<head>>, Len(<<head>>), part.off, to - n) /\ to - n \in Int
      BY <3>2 DEF WholeChain
    <3>4. /\ front \o <<head>> \in Seq(Ranges)
          /\ Len(front \o <<head>>) = Len(front) + Len(<<head>>)
          /\ Chain(front \o <<head>>, Len(front) + Len(<<head>>), from, to - n)
      <4>1. part.off \in Int
        BY <1>9
      <4> QED  BY <1>13, <3>2, <3>3, <4>1, ChainConcat
    <3>5. back.rest = front \o <<head>>
      BY <2>1 DEF head
    <3> QED  BY <3>4, <3>5 DEF WholeChain
  <2>2. CASE ~(cut > 0)
    <3>1. cut = 0 /\ to - n = part.off
      BY <1>9, <1>11, <2>2
    <3>2. back.rest = front \o <<>>
      BY <2>2
    <3>3. front \o <<>> = front
      BY <1>13, ConcatEmptySeq
    <3> QED  BY <1>13, <3>1, <3>2, <3>3
  <2> QED  BY <2>1, <2>2
<1>15. back.parts = <<tail>> \o suf(k + 1)
  OBVIOUS
<1> HIDE DEF back, tail
<1>16. Bytes(back.parts) = n /\ Bytes(back.rest) = Bytes(window) - n
  <2>1. to - n \in Int
    OBVIOUS
  <2>2. Bytes(back.parts) = to - (to - n)
    BY <1>12, <1>15, <2>1, Telescope
  <2>3. Bytes(back.rest) = to - n - from
    BY <1>14, <2>1, Telescope
  <2> QED  BY <1>1, <2>2, <2>3
<1> QED  BY <1>7, <1>12, <1>14, <1>15, <1>16

-----------------------------------------------------------------------------
\* Taking from the queue

\* A part is taken as a whole, or cut: what is left continues after it.
LEMMA FrontTaken ==
    ASSUME NEW front \in Seq(Ranges), front # <<>>, NEW from \in Int, NEW to \in Int,
           WholeChain(front, from, to), NEW n \in Nat \ {0}, n <= Head(front).len
    PROVE  LET part == Head(front)
               left == (IF n < part.len THEN <<Part(part.off + n, part.len - n)>> ELSE <<>>)
                           \o Tail(front)
           IN  /\ part.off = from /\ part.off \in Nat /\ part.len \in Nat
               /\ from + n <= to
               /\ left \in Seq(Ranges)
               /\ WholeChain(left, from + n, to)
<1> PICK part : part = Head(front)
  OBVIOUS
<1>1. Len(front) # 0 /\ Chain(front, Len(front), from, to)
  BY RangesType DEF WholeChain
<1>2. /\ part \in Ranges /\ Tail(front) \in Seq(Ranges)
      /\ part.off = from /\ part.len > 0
      /\ Len(Tail(front)) = Len(front) - 1
      /\ from + part.len <= to
      /\ Chain(Tail(front), Len(front) - 1, from + part.len, to)
  BY <1>1, ChainTail
<1>3. part.off \in Nat /\ part.len \in Nat /\ n <= part.len
  BY <1>2 DEF Ranges
<1>4. WholeChain(Tail(front), from + part.len, to)
  BY <1>2 DEF WholeChain
<1>5. from + n <= to
  BY <1>2, <1>3
<1>6. CASE n < part.len
  <2> DEFINE rest == Part(part.off + n, part.len - n)
  <2>1. /\ rest \in Ranges /\ rest.len > 0 /\ rest.off = from + n
        /\ rest.off + rest.len = from + part.len
    <3>1. rest = [off |-> part.off + n, len |-> part.len - n]
      BY DEF Part
    <3>2. /\ part.off + n \in Nat /\ part.len - n \in Nat /\ part.len - n > 0
          /\ part.off + n = from + n /\ (part.off + n) + (part.len - n) = from + part.len
      BY <1>2, <1>3, <1>6, SMTT(30)
    <3> HIDE DEF rest
    <3> QED  BY <3>1, <3>2 DEF Ranges
  <2> HIDE DEF rest
  <2>2. <<rest>> \in Seq(Ranges) /\ WholeChain(<<rest>>, from + n, from + part.len)
    BY <2>1, ChainOne
  <2>3. from + n \in Int /\ from + part.len \in Int
    BY <1>3
  <2>4. /\ <<rest>> \o Tail(front) \in Seq(Ranges)
        /\ Len(<<rest>> \o Tail(front)) = Len(<<rest>>) + Len(Tail(front))
        /\ Chain(<<rest>> \o Tail(front), Len(<<rest>>) + Len(Tail(front)), from + n, to)
    BY <1>2, <1>4, <2>2, <2>3, ChainConcat DEF WholeChain
  <2> QED  BY <1>2, <1>3, <1>5, <1>6, <2>4 DEF WholeChain, rest
<1>7. CASE ~(n < part.len)
  <2>1. n = part.len
    BY <1>3, <1>7
  <2>2. <<>> \o Tail(front) = Tail(front)
    BY <1>2, ConcatEmptySeq
  <2> QED  BY <1>2, <1>3, <1>4, <1>5, <1>7, <2>1, <2>2
<1> QED  BY <1>6, <1>7

-----------------------------------------------------------------------------
\* Sizes

LEMMA Sizes ==
    /\ Size \in Nat \ {0} /\ PartSize \in Nat /\ PartSize >= 2
    /\ MaxWindow \in Nat /\ MaxWindow >= 2 /\ SeekMax \in Nat \ {0}
    /\ Chunk \in Nat \ {0} /\ MaxChunk \in Nat \ {0} /\ ClientWindow \in Nat
    /\ Multiplier \in Nat /\ Multiplier >= 2
    /\ Lengths \subseteq Nat \ {0} /\ Others \subseteq Nat
    /\ \A i \in InitialRequestSizes : i \in Nat /\ i # 1
BY SizesAssumption

LEMMA Division ==
    ASSUME NEW a \in Nat, NEW d \in Nat, d > 0
    PROVE  /\ a \div d \in Nat /\ (a \div d) * d \in Nat
           /\ (a \div d) * d <= a /\ a < (a \div d) * d + d
           /\ a % d \in Nat /\ a % d < d
<1>1. a \div d \in Nat /\ a % d \in Nat /\ a % d < d
  BY Z3
<1>2. (a \div d) * d \in Nat
  BY <1>1, Z3
<1>3. (a \div d) * d <= a
  BY Z3
<1>4. a < (a \div d) * d + d
  BY Z3
<1> QED  BY <1>1, <1>2, <1>3, <1>4

LEMMA SeekReservationHoldsAPart ==
    SeekReservation \in Nat /\ SeekReservation >= PartSize
<1> PICK a, q : a = SeekMax + PartSize - 1 /\ q = a \div PartSize
  OBVIOUS
<1>1. a \in Nat /\ PartSize \in Nat /\ PartSize > 0 /\ a >= PartSize
  BY Sizes
<1>2. q \in Nat /\ q * PartSize \in Nat /\ a < q * PartSize + PartSize
  BY <1>1, Division
<1>3. q # 0
  BY <1>1, <1>2
<1>4. q * PartSize >= PartSize
  BY <1>1, <1>2, <1>3, Z3
<1> QED  BY <1>2, <1>4 DEF SeekReservation

\* Aligning a window's end moves it on by less than a part.
LEMMA AlignBounds ==
    ASSUME NEW end \in Nat, ctl.start \in Nat, initial \in Nat
    PROVE  Align(end) \in Nat /\ end <= Align(end) /\ Align(end) < end + PartSize
<1> PICK from : from = ctl.start + initial
  OBVIOUS
<1>1. from \in Nat /\ PartSize \in Nat /\ PartSize > 0
  BY Sizes
<1>2. CASE end > from
  <2> PICK a, q : a = end - from + PartSize - 1 /\ q = a \div PartSize
    OBVIOUS
  <2>1. a \in Nat
    BY <1>1, <1>2
  <2>2. q * PartSize \in Nat /\ q * PartSize <= a /\ a < q * PartSize + PartSize
    BY <1>1, <2>1, Division
  <2>3. Align(end) = from + q * PartSize
    BY <1>2 DEF Align
  <2> PICK r : r = q * PartSize
    OBVIOUS
  <2> QED  BY <1>1, <2>1, <2>2, <2>3
<1>3. CASE ~(end > from)
  <2>1. Align(end) = end
    BY <1>3 DEF Align
  <2> QED  BY <1>1, <2>1
<1> QED  BY <1>2, <1>3

-----------------------------------------------------------------------------
\* The inductive invariant

\* Without a task nothing is left of one; with one, the handle is open.
NoTaskState ==
    /\ ~ctl.active => /\ ctl = NoTask /\ queue = NoQueue /\ incs = 0 /\ prod = NoProducer
                      /\ ~faults /\ handle.window = <<>> /\ req.pc \in {"idle", "read"}
    /\ ctl.active => prod.pc # "none" /\ handle.open
    /\ req.pc # "idle" => handle.open

\* What is still to be read lies in the object, and what is still to be passed
\* over lies before it.
Reading ==
    /\ req.pc = "seek" => handle.seq < req.off /\ req.off + req.left <= Size /\ req.left > 0
    /\ req.pc \in {"read", "more"} => handle.seq + req.left <= Size /\ req.left > 0
    /\ req.pc = "feedback" =>
          /\ req.back # "idle"
          /\ req.back = "seek" =>
                 handle.seq <= req.off /\ req.off + req.left <= Size /\ req.left > 0
          /\ req.back \in {"read", "more"} => handle.seq + req.left <= Size

\* The controller knows where the reader is, but for a backward seek before
\* its first part; outside of feedback the reader is within the window.
Position == ctl.active =>
    /\ ctl.next = handle.seq \/ (req.pc = "read" /\ queue.front # <<>>)
    /\ req.pc # "feedback" => ctl.next <= ctl.wend

LargestWindow == Most(MaxWindow, InitialWindow)

\* The two ends of the window agree, and it ends not too far after the start
\* of the seek window: how far, a backward seek does not change.
Windows == ctl.active =>
    /\ prod.lim + incs = ctl.wend
    /\ ctl.pref \in 2..LargestWindow
    /\ ctl.wend - (handle.seq - Bytes(handle.window)) <= LargestWindow + PartSize + SeekMax

\* What the task has produced, at each of its places.
Task == ctl.active =>
    /\ ctl.start <= prod.off /\ prod.off <= prod.end /\ prod.chunk > 0
    /\ prod.end = IF prod.second THEN Size ELSE SecondStart
    /\ prod.pc \in {"request", "body", "window"} => prod.off < prod.end
    /\ prod.pc \in {"request", "body"} => prod.off < prod.lim \/ prod.lim >= Size
    /\ prod.pc = "body" => prod.win >= prod.lim
    /\ prod.pc = "compose" => prod.body > 0
    /\ prod.pc \in {"compose", "count"} =>
           /\ prod.off + prod.body <= prod.end
           /\ prod.off + prod.body - prod.lim < PartSize
    /\ prod.off - prod.lim < PartSize
    /\ prod.pc = "between" => ~prod.second /\ (~faults => prod.off = prod.end)
    /\ prod.pc = "done" /\ ~faults => prod.off = Size

\* The queue leads from the reader to the task, with an error after it at most.
Stream == ctl.active =>
    \E m \in 0..Size, k \in 0..Len(queue.recv) :
        /\ WholeChain(queue.front, handle.seq, m)
        /\ Chain(queue.recv, k, m, prod.off)
        /\ \/ k = Len(queue.recv)
           \/ /\ k + 1 = Len(queue.recv) /\ queue.recv[Len(queue.recv)] = Failure
              /\ prod.pc = "done" /\ faults

SeekWindow ==
    /\ WholeChain(handle.window, handle.seq - Bytes(handle.window), handle.seq)
    /\ Bytes(handle.window) \in Nat /\ Bytes(handle.window) <= SeekMax

MemoryExact ==
    mem = (IF handle.open THEN SeekReservation ELSE 0)
           + (IF ctl.active THEN ctl.wend - handle.seq ELSE 0)

PrefetchInv ==
    /\ TypeOK /\ NoTaskState /\ Reading /\ Position /\ Windows /\ Task /\ Stream /\ SeekWindow
    /\ MemoryExact

LEMMA WindowSizes ==
    ASSUME TypeOK
    PROVE  /\ initial \in Nat /\ initial # 1
           /\ InitialWindow \in Nat /\ InitialWindow >= 2
           /\ LargestWindow \in Nat /\ LargestWindow >= 2
           /\ InitialWindow <= LargestWindow /\ MaxWindow <= LargestWindow
<1>1. initial \in Nat /\ initial # 1
  BY Sizes DEF TypeOK
<1>2. InitialWindow \in Nat /\ InitialWindow >= 2
  BY <1>1, Sizes DEF InitialWindow
<1> QED  BY <1>1, <1>2, Sizes DEF LargestWindow, Most

LEMMA NothingLeft ==
    /\ NoQueue \in [front : Seq(Ranges), recv : Seq(Ranges), sent : 0..Size]
    /\ NoTask \in [active : BOOLEAN, start : 0..Size, wend : Nat, pref : Nat, next : 0..Size]
    /\ ~NoTask.active
    /\ NoProducer \in [pc : {"none", "request", "body", "compose", "count", "window", "between",
                             "done"},
                       lim : Nat, off : 0..Size, end : 0..Size, win : Nat, body : 0..PartSize,
                       chunk : Nat, second : BOOLEAN]
    /\ NoRead \in [pc : {"idle", "seek", "read", "more", "feedback", "corrupt"},
                   off : 0..Size, left : 0..Size, back : {"idle", "seek", "read", "more"}]
    /\ NoRead.pc = "idle"
<1>1. <<>> \in Seq(Ranges) /\ 0 \in 0..Size /\ 0 \in 0..PartSize
  BY Sizes
<1>2. NoQueue \in [front : Seq(Ranges), recv : Seq(Ranges), sent : 0..Size]
  BY <1>1 DEF NoQueue
<1>3. NoTask \in [active : BOOLEAN, start : 0..Size, wend : Nat, pref : Nat, next : 0..Size]
      /\ ~NoTask.active
  BY <1>1 DEF NoTask
<1>4. NoProducer \in [pc : {"none", "request", "body", "compose", "count", "window", "between",
                            "done"},
                      lim : Nat, off : 0..Size, end : 0..Size, win : Nat, body : 0..PartSize,
                      chunk : Nat, second : BOOLEAN]
  BY <1>1 DEF NoProducer
<1>5. NoRead \in [pc : {"idle", "seek", "read", "more", "feedback", "corrupt"},
                  off : 0..Size, left : 0..Size, back : {"idle", "seek", "read", "more"}]
      /\ NoRead.pc = "idle"
  BY <1>1 DEF NoRead
<1> QED  BY <1>2, <1>3, <1>4, <1>5

\* A seek window that is empty.
LEMMA EmptySeekWindow ==
    ASSUME handle.window = <<>>, handle.seq \in Nat
    PROVE  SeekWindow
<1>1. handle.seq - Bytes(handle.window) = handle.seq /\ Bytes(handle.window) = 0
  BY ChainEmpty
<1> QED  BY <1>1, ChainEmpty, Sizes DEF SeekWindow

LEMMA InitInv ==
    ASSUME Init
    PROVE  PrefetchInv
<1>1. handle = [open |-> TRUE, seq |-> 0, chunk |-> Chunk, window |-> <<>>]
  BY DEF Init, NewHandle
<1>2. handle \in [open : BOOLEAN, seq : 0..Size, chunk : Nat \ {0}, window : Seq(Ranges)]
      /\ handle.window = <<>> /\ handle.open /\ handle.seq = 0
  <2>1. <<>> \in Seq(Ranges) /\ 0 \in 0..Size /\ Chunk \in Nat \ {0}
    BY Sizes
  <2> QED  BY <1>1, <2>1
<1>3. mem = SeekReservation /\ mem \in Int
  BY SeekReservationHoldsAPart DEF Init
<1>4. TypeOK
  BY <1>2, <1>3, NothingLeft DEF Init, TypeOK
<1>5. ~ctl.active /\ req.pc = "idle"
  BY NothingLeft DEF Init
<1>6. NoTaskState
  BY <1>2, <1>5 DEF Init, NoTaskState
<1>7. SeekWindow
  BY <1>2, EmptySeekWindow
<1> QED  BY <1>2, <1>3, <1>4, <1>5, <1>6, <1>7, SeekReservationHoldsAPart
         DEF PrefetchInv, Reading, Position, Windows, Task, Stream, MemoryExact

\* While the task is at work the whole queue is data.
LEMMA Producing ==
    ASSUME PrefetchInv, ctl.active, prod.pc # "done"
    PROVE  \E m \in 0..Size : /\ WholeChain(queue.front, handle.seq, m)
                              /\ WholeChain(queue.recv, m, prod.off)
BY DEF PrefetchInv, Stream, WholeChain

\* The reader is not ahead of the task.
LEMMA ReaderBehind ==
    ASSUME PrefetchInv, ctl.active
    PROVE  handle.seq <= prod.off /\ handle.seq \in 0..Size /\ prod.off \in 0..Size
<1>1. PICK m \in 0..Size, k \in 0..Len(queue.recv) :
          /\ WholeChain(queue.front, handle.seq, m)
          /\ Chain(queue.recv, k, m, prod.off)
  BY DEF PrefetchInv, Stream
<1>2. /\ handle.seq \in 0..Size /\ prod.off \in 0..Size
      /\ queue.front \in Seq(Ranges) /\ queue.recv \in Seq(Ranges)
  BY DEF PrefetchInv, TypeOK
<1>3. handle.seq <= m
  BY <1>1, <1>2, ChainMonotone DEF WholeChain
<1>4. m <= prod.off
  BY <1>1, <1>2, ChainMonotone
<1> QED  BY <1>2, <1>3, <1>4

\* What a step of the task leaves alone.
LEMMA ProducerFrame ==
    ASSUME PrefetchInv, ctl.active, UNCHANGED <<initial, handle, req, ctl, mem, others>>,
           prod'.pc # "none", queue'.front = queue.front, prod'.lim + incs' = prod.lim + incs
    PROVE  NoTaskState' /\ Reading' /\ Position' /\ Windows' /\ SeekWindow' /\ MemoryExact'
<1>1. NoTaskState'
  BY DEF PrefetchInv, NoTaskState
<1>2. Reading'
  BY DEF PrefetchInv, Reading
<1>3. Position'
  BY DEF PrefetchInv, Position
<1>4. Windows'
  BY DEF PrefetchInv, Windows, LargestWindow, InitialWindow
<1>5. SeekWindow'
  BY DEF PrefetchInv, SeekWindow
<1>6. MemoryExact'
  BY DEF PrefetchInv, MemoryExact
<1> QED  BY <1>1, <1>2, <1>3, <1>4, <1>5, <1>6

LEMMA TaskActive ==
    ASSUME PrefetchInv, prod.pc # "none"
    PROVE  ctl.active
BY DEF PrefetchInv, NoTaskState, NoProducer

-----------------------------------------------------------------------------
\* The steps of the task

LEMMA StreamSame ==
    ASSUME PrefetchInv, ctl.active, prod.pc # "done", UNCHANGED <<handle, ctl>>,
           queue'.front = queue.front, queue'.recv = queue.recv, prod'.off = prod.off
    PROVE  Stream'
<1>1. PICK m \in 0..Size : /\ WholeChain(queue.front, handle.seq, m)
                           /\ Chain(queue.recv, Len(queue.recv), m, prod.off)
  BY Producing DEF WholeChain
<1>2. Len(queue.recv) \in 0..Len(queue.recv)
  BY RangesType DEF PrefetchInv, TypeOK
<1> QED  BY <1>1, <1>2 DEF Stream

LEMMA StreamPushed ==
    ASSUME PrefetchInv, ctl.active, prod.pc # "done", UNCHANGED <<handle, ctl>>,
           NEW part \in Ranges, part.off = prod.off, part.len > 0,
           queue'.front = queue.front, queue'.recv = Append(queue.recv, part),
           prod'.off = prod.off + part.len
    PROVE  Stream'
<1>1. PICK m \in 0..Size : /\ WholeChain(queue.front, handle.seq, m)
                           /\ WholeChain(queue.recv, m, prod.off)
  BY Producing
<1>2. queue.recv \in Seq(Ranges) /\ prod.off \in Int
  BY DEF PrefetchInv, TypeOK
<1>3. /\ Append(queue.recv, part) \in Seq(Ranges)
      /\ WholeChain(Append(queue.recv, part), m, prod.off + part.len)
  BY <1>1, <1>2, ChainAppend
<1>4. Len(queue'.recv) \in 0..Len(queue'.recv)
  BY <1>3, RangesType
<1> QED  BY <1>1, <1>3, <1>4 DEF Stream, WholeChain

LEMMA FailureType == Failure \in Ranges
BY DEF Failure, Ranges

LEMMA StreamFailed ==
    ASSUME PrefetchInv, ctl.active, prod.pc # "done", UNCHANGED <<handle, ctl>>,
           queue'.front = queue.front, queue'.recv = Append(queue.recv, Failure),
           prod'.off = prod.off, prod'.pc = "done", faults'
    PROVE  Stream'
<1>1. PICK m \in 0..Size : /\ WholeChain(queue.front, handle.seq, m)
                           /\ Chain(queue.recv, Len(queue.recv), m, prod.off)
  BY Producing DEF WholeChain
<1>2. queue.recv \in Seq(Ranges) /\ prod.off \in Int /\ Len(queue.recv) \in Nat
  BY RangesType DEF PrefetchInv, TypeOK
<1>3. /\ Append(queue.recv, Failure) \in Seq(Ranges)
      /\ Chain(Append(queue.recv, Failure), Len(queue.recv), m, prod.off)
  BY <1>1, <1>2, FailureType, ChainAppendKeep
<1>4. /\ Len(queue'.recv) = Len(queue.recv) + 1
      /\ queue'.recv[Len(queue'.recv)] = Failure
      /\ Len(queue.recv) \in 0..Len(queue'.recv)
  BY <1>2
<1> QED  BY <1>1, <1>3, <1>4 DEF Stream

LEMMA GetObjectInv ==
    ASSUME PrefetchInv, GetObject
    PROVE  PrefetchInv'
<1>1. ctl.active
  BY TaskActive DEF GetObject
<1> PICK w : w = EnsureReadWindow(InitialReadWindow(prod.off), prod.lim)
  OBVIOUS
<1>2. /\ prod' = [prod EXCEPT !.pc = "body", !.win = w]
      /\ w \in Nat /\ w >= prod.lim
  <2>1. prod.off \in Nat /\ prod.lim \in Nat
    BY DEF PrefetchInv, TypeOK
  <2>2. w \in Nat /\ w >= prod.lim
    BY <2>1, Sizes DEF EnsureReadWindow, InitialReadWindow, Most
  <2> QED  BY <2>2 DEF GetObject
<1>3. TypeOK'
  BY <1>2 DEF GetObject, PrefetchInv, TypeOK
<1>4. Task'
  BY <1>1, <1>2 DEF GetObject, PrefetchInv, TypeOK, Task, SecondStart
<1>5. Stream'
  BY <1>1, <1>2, StreamSame DEF GetObject, PrefetchInv, TypeOK
<1>6. NoTaskState' /\ Reading' /\ Position' /\ Windows' /\ SeekWindow' /\ MemoryExact'
  BY <1>1, <1>2, ProducerFrame DEF GetObject, PrefetchInv, TypeOK
<1> QED  BY <1>3, <1>4, <1>5, <1>6 DEF PrefetchInv

LEMMA DeliverInv ==
    ASSUME PrefetchInv, Deliver
    PROVE  PrefetchInv'
<1>1. ctl.active
  BY TaskActive DEF Deliver
<1>2. /\ prod.off \in 0..Size /\ prod.lim \in Nat /\ prod.win \in Nat /\ prod.end \in 0..Size
      /\ prod.off < prod.end /\ prod.win >= prod.lim
      /\ prod.off < prod.lim \/ prod.lim >= Size
  BY <1>1 DEF Deliver, PrefetchInv, TypeOK, Task
<1>3. prod.off < prod.lim /\ prod.off < prod.win
  BY <1>2, Sizes
<1>4. PICK n \in {PartSize, PartSize - (prod.off % PartSize)} :
          /\ prod' = [prod EXCEPT !.pc = "compose", !.body = Least(n, prod.end - prod.off)]
          /\ UNCHANGED queue
  BY <1>3 DEF Deliver
<1>5. n \in Nat /\ n > 0 /\ n <= PartSize
  <2>1. prod.off % PartSize \in Nat /\ prod.off % PartSize < PartSize
    BY <1>2, Sizes, Division
  <2> QED  BY <1>4, <2>1, Sizes
<1> PICK b : b = Least(n, prod.end - prod.off)
  OBVIOUS
<1>6. b \in Nat /\ b > 0 /\ b <= PartSize /\ prod.off + b <= prod.end
  BY <1>2, <1>5, Sizes DEF Least
<1>7. prod' = [prod EXCEPT !.pc = "compose", !.body = b]
  BY <1>4
<1>8. prod.off + b - prod.lim < PartSize
  BY <1>2, <1>3, <1>6, Sizes
<1>9. TypeOK'
  <2>1. b \in 0..PartSize
    BY <1>6, Sizes
  <2> QED  BY <1>4, <1>7, <2>1 DEF Deliver, PrefetchInv, TypeOK
<1>10. Task'
  BY <1>1, <1>6, <1>7, <1>8 DEF Deliver, PrefetchInv, TypeOK, Task, SecondStart
<1>11. Stream'
  BY <1>1, <1>4, <1>7, StreamSame DEF Deliver, PrefetchInv, TypeOK
<1>12. NoTaskState' /\ Reading' /\ Position' /\ Windows' /\ SeekWindow' /\ MemoryExact'
  BY <1>1, <1>4, <1>7, ProducerFrame DEF Deliver, PrefetchInv, TypeOK
<1> QED  BY <1>9, <1>10, <1>11, <1>12 DEF PrefetchInv

LEMMA RequestFailsInv ==
    ASSUME PrefetchInv, RequestFails
    PROVE  PrefetchInv'
<1>1. ctl.active
  BY TaskActive DEF RequestFails
<1>2. Append(queue.recv, Failure) \in Seq(Ranges)
  BY FailureType, AppendProperties DEF PrefetchInv, TypeOK
<1>3. TypeOK'
  BY <1>2 DEF RequestFails, Fault, PrefetchInv, TypeOK
<1>4. Task'
  BY <1>1 DEF RequestFails, Fault, PrefetchInv, TypeOK, Task, SecondStart
<1>5. Stream'
  BY <1>1, StreamFailed DEF RequestFails, Fault, PrefetchInv, TypeOK
<1>6. NoTaskState' /\ Reading' /\ Position' /\ Windows' /\ SeekWindow' /\ MemoryExact'
  BY <1>1, ProducerFrame DEF RequestFails, PrefetchInv, TypeOK
<1> QED  BY <1>3, <1>4, <1>5, <1>6 DEF PrefetchInv

LEMMA BodyEndsEarlyInv ==
    ASSUME PrefetchInv, BodyEndsEarly
    PROVE  PrefetchInv'
<1>1. ctl.active
  BY TaskActive DEF BodyEndsEarly
<1>2. TypeOK'
  BY DEF BodyEndsEarly, Fault, PrefetchInv, TypeOK
<1>3. Task'
  BY <1>1 DEF BodyEndsEarly, Fault, PrefetchInv, TypeOK, Task, SecondStart
<1>4. Stream'
  BY <1>1, StreamSame DEF BodyEndsEarly, PrefetchInv, TypeOK
<1>5. NoTaskState' /\ Reading' /\ Position' /\ Windows' /\ SeekWindow' /\ MemoryExact'
  BY <1>1, ProducerFrame DEF BodyEndsEarly, PrefetchInv, TypeOK
<1> QED  BY <1>2, <1>3, <1>4, <1>5 DEF PrefetchInv

\* The types of the records of the state.
HandleType == [open : BOOLEAN, seq : 0..Size, chunk : Nat \ {0}, window : Seq(Ranges)]
ReqType == [pc : {"idle", "seek", "read", "more", "feedback", "corrupt"}, off : 0..Size,
            left : 0..Size, back : {"idle", "seek", "read", "more"}]
CtlType == [active : BOOLEAN, start : 0..Size, wend : Nat, pref : Nat, next : 0..Size]
QueueType == [front : Seq(Ranges), recv : Seq(Ranges), sent : 0..Size]
ProdType == [pc : {"none", "request", "body", "compose", "count", "window", "between", "done"},
             lim : Nat, off : 0..Size, end : 0..Size, win : Nat, body : 0..PartSize,
             chunk : Nat, second : BOOLEAN]

LEMMA PushInv ==
    ASSUME PrefetchInv, Push
    PROVE  PrefetchInv'
<1>1. ctl.active
  BY TaskActive DEF Push
<1>n. PICK n : n = Least(prod.chunk - (prod.off % prod.chunk), prod.body)
  OBVIOUS
<1>2. /\ prod.off \in 0..Size /\ prod.chunk \in Nat /\ prod.chunk > 0 /\ prod.body \in 0..PartSize
      /\ prod.body > 0 /\ prod.lim \in Nat /\ prod.end \in 0..Size
      /\ prod.off + prod.body <= prod.end /\ prod.off + prod.body - prod.lim < PartSize
      /\ ctl.start \in Nat /\ ctl.start <= prod.off
  BY <1>1 DEF Push, PrefetchInv, TypeOK, Task
<1>3. prod.off % prod.chunk \in Nat /\ prod.off % prod.chunk < prod.chunk
  BY <1>2, Division
<1>4. n \in Nat /\ n > 0 /\ n <= prod.body
  BY <1>n, <1>2, <1>3 DEF Least
<1>5. /\ prod' = [prod EXCEPT !.pc = "count", !.off = @ + n, !.body = @ - n]
      /\ queue' = [queue EXCEPT !.recv = Append(@, Part(prod.off, n))]
  BY <1>n DEF Push
<1>6. Part(prod.off, n) \in Ranges /\ Part(prod.off, n).off = prod.off /\ Part(prod.off, n).len = n
  BY <1>2, <1>4 DEF Part, Ranges
<1>7. /\ prod.off + n \in 0..Size /\ prod.body - n \in 0..PartSize
      /\ prod.off + n <= prod.end /\ prod.off + n - prod.lim < PartSize
      /\ (prod.off + n) + (prod.body - n) = prod.off + prod.body
      /\ ctl.start <= prod.off + n
  BY <1>2, <1>4, Sizes
<1>8. TypeOK'
  <2>1. Append(queue.recv, Part(prod.off, n)) \in Seq(Ranges)
    BY <1>6, AppendProperties DEF PrefetchInv, TypeOK
  <2>2. prod \in ProdType /\ queue \in QueueType
    BY DEF PrefetchInv, TypeOK, ProdType, QueueType
  <2>3. prod' \in ProdType
    BY <1>5, <1>7, <2>2 DEF ProdType
  <2>4. queue' \in QueueType
    BY <1>5, <2>1, <2>2 DEF QueueType
  <2> QED  BY <2>3, <2>4 DEF Push, PrefetchInv, TypeOK, ProdType, QueueType
<1>p. /\ prod'.pc = "count" /\ prod'.off = prod.off + n /\ prod'.body = prod.body - n
      /\ prod'.chunk = prod.chunk /\ prod'.end = prod.end /\ prod'.second = prod.second
      /\ prod'.lim = prod.lim
      /\ queue'.front = queue.front /\ queue'.recv = Append(queue.recv, Part(prod.off, n))
  BY <1>5 DEF PrefetchInv, TypeOK
<1>u. UNCHANGED <<initial, handle, ctl>> /\ prod.pc # "done"
  BY DEF Push
<1>9. Task'
  <2>1. /\ prod.chunk > 0 /\ prod.end = IF prod.second THEN Size ELSE SecondStart
    BY <1>1 DEF PrefetchInv, Task
  <2>2. SecondStart' = SecondStart
    BY <1>u DEF SecondStart
  <2>3. /\ prod'.off + prod'.body <= prod'.end /\ prod'.off + prod'.body - prod'.lim < PartSize
        /\ prod'.off <= prod'.end /\ prod'.off - prod'.lim < PartSize
        /\ ctl'.start <= prod'.off
    <3>0. /\ prod'.off \in Int /\ prod'.body \in Int /\ prod'.lim \in Int /\ prod'.end \in Int
          /\ PartSize \in Int
      BY <1>8, Sizes DEF TypeOK
    <3>1. prod'.off + prod'.body = prod.off + prod.body
      BY <1>7, <1>p
    <3>2. prod'.off + prod'.body <= prod'.end
      BY <1>2, <1>p, <3>1
    <3>3. prod'.off + prod'.body - prod'.lim < PartSize
      BY <1>2, <1>p, <3>0, <3>1, SMTT(30)
    <3>4. prod'.off <= prod'.end /\ prod'.off - prod'.lim < PartSize
      BY <1>2, <1>7, <1>p, <3>0, SMTT(30)
    <3>5. ctl'.start <= prod'.off
      BY <1>7, <1>p, <1>u
    <3> QED  BY <3>2, <3>3, <3>4, <3>5
  <2> QED  BY <1>p, <1>u, <2>1, <2>2, <2>3 DEF Task
<1>10. Stream'
  <2>1. prod'.off = prod.off + Part(prod.off, n).len /\ Part(prod.off, n).len > 0
    BY <1>4, <1>6, <1>p
  <2> QED  BY <1>1, <1>6, <1>p, <1>u, <2>1, StreamPushed
<1>11. NoTaskState' /\ Reading' /\ Position' /\ Windows' /\ SeekWindow' /\ MemoryExact'
  BY <1>1, <1>5, ProducerFrame DEF Push, PrefetchInv, TypeOK
<1> QED  BY <1>8, <1>9, <1>10, <1>11 DEF PrefetchInv

LEMMA CountInv ==
    ASSUME PrefetchInv, Count
    PROVE  PrefetchInv'
<1>1. ctl.active
  BY TaskActive DEF Count
<1>2. /\ prod.off \in 0..Size /\ prod.end \in 0..Size /\ prod.body \in 0..PartSize
      /\ ctl.start \in 0..Size /\ ctl.start <= prod.off /\ prod.off <= prod.end
      /\ prod.second \in BOOLEAN
  BY <1>1 DEF Count, PrefetchInv, TypeOK, Task
<1> PICK pc : pc = prod'.pc
  OBVIOUS
<1>3. /\ prod' = [prod EXCEPT !.pc = pc]
      /\ \/ prod.body > 0 /\ pc = "compose"
         \/ prod.off < prod.end /\ pc = "window"
         \/ prod.off = prod.end /\ prod.second /\ pc = "done"
         \/ prod.off = prod.end /\ ~prod.second /\ pc = "between"
  <2> PICK q : q = CASE prod.body > 0 -> "compose"
                     [] prod.body = 0 /\ prod.off < prod.end -> "window"
                     [] prod.body = 0 /\ prod.off = prod.end ->
                            IF prod.second THEN "done" ELSE "between"
    OBVIOUS
  <2>1. prod' = [prod EXCEPT !.pc = q] /\ pc = q
    BY DEF Count, PrefetchInv, TypeOK
  <2>2. CASE prod.body > 0
    <3>1. q = "compose"
      BY <1>2, <2>2
    <3> QED  BY <2>1, <2>2, <3>1
  <2>3. CASE ~(prod.body > 0) /\ prod.off < prod.end
    <3>1. q = "window"
      BY <1>2, <2>3
    <3> QED  BY <2>1, <2>3, <3>1
  <2>4. CASE ~(prod.body > 0) /\ ~(prod.off < prod.end)
    <3>1. q = (IF prod.second THEN "done" ELSE "between") /\ prod.off = prod.end
      BY <1>2, <2>4
    <3> QED  BY <2>1, <3>1
  <2> QED  BY <2>2, <2>3, <2>4
<1>4. TypeOK'
  <2>1. prod.off - ctl.start \in 0..Size
    BY <1>2, Sizes
  <2>2. prod \in ProdType /\ queue \in QueueType
    BY DEF PrefetchInv, TypeOK, ProdType, QueueType
  <2>3. prod' \in ProdType
    BY <1>3, <2>2 DEF ProdType
  <2>4. queue' \in QueueType
    BY <2>1, <2>2 DEF Count, QueueType
  <2> QED  BY <2>3, <2>4 DEF Count, PrefetchInv, TypeOK, ProdType, QueueType
<1>5. Task'
  BY <1>1, <1>2, <1>3 DEF Count, PrefetchInv, TypeOK, Task, SecondStart
<1>6. Stream'
  BY <1>1, <1>3, StreamSame DEF Count, PrefetchInv, TypeOK
<1>7. NoTaskState' /\ Reading' /\ Position' /\ Windows' /\ SeekWindow' /\ MemoryExact'
  BY <1>1, <1>3, ProducerFrame DEF Count, PrefetchInv, TypeOK
<1> QED  BY <1>4, <1>5, <1>6, <1>7 DEF PrefetchInv

LEMMA AwaitWindowInv ==
    ASSUME PrefetchInv, AwaitWindow
    PROVE  PrefetchInv'
<1>1. ctl.active
  BY TaskActive DEF AwaitWindow
<1> PICK w : w = EnsureReadWindow(prod.win, prod.lim + incs)
  OBVIOUS
<1>2. /\ prod' = [prod EXCEPT !.pc = "body", !.lim = @ + incs, !.win = w]
      /\ incs' = 0
      /\ prod.lim \in Nat /\ incs \in Nat /\ w \in Nat /\ w >= prod.lim + incs
  <2>1. prod.win \in Nat /\ prod.lim \in Nat /\ incs \in Nat
    BY DEF PrefetchInv, TypeOK
  <2>2. w \in Nat /\ w >= prod.lim + incs
    BY <2>1 DEF EnsureReadWindow, Most
  <2> QED  BY <2>1, <2>2 DEF AwaitWindow
<1>3. prod.off < prod.lim + incs \/ prod.lim + incs >= Size
  <2>1. WindowPasses(prod.off) /\ prod.off \in Nat
    BY DEF AwaitWindow, PrefetchInv, TypeOK
  <2> QED  BY <1>2, <2>1, Sizes DEF WindowPasses
<1>4. TypeOK'
  <2>1. PICK l \in Nat : l = prod.lim + incs
    BY <1>2
  <2>2. prod' = [prod EXCEPT !.pc = "body", !.lim = l, !.win = w]
    BY <1>2, <2>1
  <2>3. prod \in [pc : {"none", "request", "body", "compose", "count", "window", "between", "done"},
                   lim : Nat, off : 0..Size, end : 0..Size, win : Nat, body : 0..PartSize,
                   chunk : Nat, second : BOOLEAN]
    BY DEF PrefetchInv, TypeOK
  <2>4. prod' \in [pc : {"none", "request", "body", "compose", "count", "window", "between", "done"},
                   lim : Nat, off : 0..Size, end : 0..Size, win : Nat, body : 0..PartSize,
                   chunk : Nat, second : BOOLEAN]
    BY <1>2, <2>1, <2>2, <2>3
  <2>5. UNCHANGED <<initial, handle, req, ctl, queue, mem, others, faults>>
    BY DEF AwaitWindow
  <2> QED  BY <1>2, <2>4, <2>5 DEF PrefetchInv, TypeOK
<1>5. Task'
  <2>1. /\ prod'.pc = "body" /\ prod'.off = prod.off /\ prod'.lim = prod.lim + incs
        /\ prod'.win = w /\ prod'.chunk = prod.chunk /\ prod'.end = prod.end
        /\ prod'.second = prod.second
    BY <1>2 DEF PrefetchInv, TypeOK
  <2>2. /\ ctl.start <= prod.off /\ prod.off <= prod.end /\ prod.chunk > 0
        /\ prod.end = IF prod.second THEN Size ELSE SecondStart
        /\ prod.off < prod.end /\ prod.off - prod.lim < PartSize /\ prod.off \in Nat
    BY <1>1 DEF AwaitWindow, PrefetchInv, TypeOK, Task
  <2>3. prod.off - (prod.lim + incs) < PartSize
    BY <1>2, <2>2, Sizes
  <2>4. SecondStart' = SecondStart /\ ctl' = ctl
    BY DEF AwaitWindow, SecondStart
  <2> QED  BY <1>2, <1>3, <2>1, <2>2, <2>3, <2>4 DEF Task
<1>6. Stream'
  BY <1>1, <1>2, StreamSame DEF AwaitWindow, PrefetchInv, TypeOK
<1>7. NoTaskState' /\ Reading' /\ Position' /\ Windows' /\ SeekWindow' /\ MemoryExact'
  BY <1>1, <1>2, ProducerFrame, SMTT(30) DEF AwaitWindow, PrefetchInv, TypeOK
<1> QED  BY <1>4, <1>5, <1>6, <1>7 DEF PrefetchInv

LEMMA FirstWasAllInv ==
    ASSUME PrefetchInv, FirstWasAll
    PROVE  PrefetchInv'
<1>1. ctl.active
  BY TaskActive DEF FirstWasAll
<1>2. TypeOK'
  BY DEF FirstWasAll, PrefetchInv, TypeOK
<1>3. Task'
  BY <1>1 DEF FirstWasAll, PrefetchInv, TypeOK, Task, SecondStart
<1>4. Stream'
  BY <1>1, StreamSame DEF FirstWasAll, PrefetchInv, TypeOK
<1>5. NoTaskState' /\ Reading' /\ Position' /\ Windows' /\ SeekWindow' /\ MemoryExact'
  BY <1>1, ProducerFrame DEF FirstWasAll, PrefetchInv, TypeOK
<1> QED  BY <1>2, <1>3, <1>4, <1>5 DEF PrefetchInv

LEMMA FirstWasShortInv ==
    ASSUME PrefetchInv, FirstWasShort
    PROVE  PrefetchInv'
<1>1. ctl.active
  BY TaskActive DEF FirstWasShort
<1>2. Append(queue.recv, Failure) \in Seq(Ranges)
  BY FailureType, AppendProperties DEF PrefetchInv, TypeOK
<1>3. faults
  BY <1>1 DEF FirstWasShort, PrefetchInv, TypeOK, Task
<1>4. TypeOK'
  BY <1>2 DEF FirstWasShort, PrefetchInv, TypeOK
<1>5. Task'
  BY <1>1, <1>3 DEF FirstWasShort, PrefetchInv, TypeOK, Task, SecondStart
<1>6. Stream'
  BY <1>1, <1>3, StreamFailed DEF FirstWasShort, PrefetchInv, TypeOK
<1>7. NoTaskState' /\ Reading' /\ Position' /\ Windows' /\ SeekWindow' /\ MemoryExact'
  BY <1>1, ProducerFrame DEF FirstWasShort, PrefetchInv, TypeOK
<1> QED  BY <1>4, <1>5, <1>6, <1>7 DEF PrefetchInv

LEMMA SecondRequestInv ==
    ASSUME PrefetchInv, SecondRequest
    PROVE  PrefetchInv'
<1>1. ctl.active
  BY TaskActive DEF SecondRequest
<1>2. /\ prod' = [prod EXCEPT !.pc = "request", !.second = TRUE, !.lim = @ + incs, !.end = Size]
      /\ incs' = 0
      /\ prod.lim \in Nat /\ incs \in Nat /\ prod.off \in 0..Size
  BY DEF SecondRequest, PrefetchInv, TypeOK
<1>3. /\ prod.off = SecondStart /\ prod.off < Size
      /\ prod.off < prod.lim + incs \/ prod.lim + incs >= Size
  <2>1. /\ prod.off <= prod.end /\ prod.end = SecondStart /\ SecondStart \in 0..Size
        /\ prod.off >= SecondStart /\ SecondStart < Size
    BY <1>1 DEF SecondRequest, PrefetchInv, TypeOK, Task
  <2>2. prod.off = SecondStart
    BY <1>2, <2>1
  <2>3. prod.off < prod.lim + incs \/ prod.lim + incs >= Size
    BY <1>2, <2>2, Sizes DEF SecondRequest, WindowPasses
  <2> QED  BY <2>1, <2>2, <2>3
<1>4. TypeOK'
  <2>1. Size \in 0..Size
    BY Sizes
  <2>2. PICK l \in Nat : l = prod.lim + incs
    BY <1>2
  <2>3. prod' = [prod EXCEPT !.pc = "request", !.second = TRUE, !.lim = l, !.end = Size]
    BY <1>2, <2>2
  <2>4. prod \in [pc : {"none", "request", "body", "compose", "count", "window", "between", "done"},
                   lim : Nat, off : 0..Size, end : 0..Size, win : Nat, body : 0..PartSize,
                   chunk : Nat, second : BOOLEAN]
    BY DEF PrefetchInv, TypeOK
  <2>5. prod' \in [pc : {"none", "request", "body", "compose", "count", "window", "between", "done"},
                   lim : Nat, off : 0..Size, end : 0..Size, win : Nat, body : 0..PartSize,
                   chunk : Nat, second : BOOLEAN]
    BY <2>1, <2>2, <2>3, <2>4
  <2>6. UNCHANGED <<initial, handle, req, ctl, queue, mem, others, faults>>
    BY DEF SecondRequest
  <2> QED  BY <1>2, <2>5, <2>6 DEF PrefetchInv, TypeOK
<1>5. Task'
  <2>1. /\ prod'.pc = "request" /\ prod'.off = prod.off /\ prod'.lim = prod.lim + incs
        /\ prod'.chunk = prod.chunk /\ prod'.end = Size /\ prod'.second = TRUE
    BY <1>2 DEF PrefetchInv, TypeOK
  <2>2. /\ ctl.start <= prod.off /\ prod.chunk > 0 /\ prod.off - prod.lim < PartSize
    BY <1>1 DEF PrefetchInv, Task
  <2>3. prod.off - (prod.lim + incs) < PartSize /\ prod.off <= Size
    BY <1>2, <2>2, Sizes
  <2>4. ctl' = ctl
    BY DEF SecondRequest
  <2> QED  BY <1>3, <2>1, <2>2, <2>3, <2>4 DEF Task
<1>6. Stream'
  BY <1>1, <1>2, StreamSame DEF SecondRequest, PrefetchInv, TypeOK
<1>7. NoTaskState' /\ Reading' /\ Position' /\ Windows' /\ SeekWindow' /\ MemoryExact'
  BY <1>1, <1>2, ProducerFrame, SMTT(30) DEF SecondRequest, PrefetchInv, TypeOK
<1> QED  BY <1>4, <1>5, <1>6, <1>7 DEF PrefetchInv

-----------------------------------------------------------------------------
\* The steps of the reader

LEMMA ReaderTypes ==
    ASSUME TypeOK
    PROVE  handle \in HandleType /\ req \in ReqType /\ ctl \in CtlType /\ queue \in QueueType
BY DEF TypeOK, HandleType, ReqType, CtlType, QueueType

\* Dropping the task where the reader and the controller agree.
LEMMA ResetInv ==
    ASSUME PrefetchInv, handle.open, ctl.active => ctl.next = handle.seq /\ ctl.next <= ctl.wend,
           NEW off \in 0..Size, NEW chunk \in Nat \ {0}, ResetTo(off, chunk),
           UNCHANGED <<initial, others>>,
           req' \in ReqType, req'.pc \in {"idle", "read"},
           req'.pc = "read" => off + req'.left <= Size /\ req'.left > 0
    PROVE  PrefetchInv'
<1>1. handle \in HandleType /\ ctl \in CtlType
  BY ReaderTypes DEF PrefetchInv
<1>2. /\ handle' = [handle EXCEPT !.seq = off, !.window = <<>>, !.chunk = chunk]
      /\ ctl' = NoTask /\ queue' = NoQueue /\ incs' = 0 /\ prod' = NoProducer /\ faults' = FALSE
      /\ mem' = mem - Released
  BY DEF ResetTo, DropTask
<1>3. /\ handle' \in HandleType /\ handle'.seq = off /\ handle'.window = <<>> /\ handle'.open
  <2>1. <<>> \in Seq(Ranges)
    BY ChainEmpty
  <2> QED  BY <1>1, <1>2, <2>1 DEF HandleType
<1>4. mem' = SeekReservation
  <2>1. SeekReservation \in Nat
    BY SeekReservationHoldsAPart
  <2>2. CASE ctl.active
    <3>1. mem = SeekReservation + (ctl.wend - handle.seq)
      BY <2>2 DEF PrefetchInv, MemoryExact
    <3>2. Released = ctl.wend - handle.seq
      BY <1>1, <2>2 DEF Released, Minus, Most, CtlType
    <3>3. ctl.wend \in Int /\ handle.seq \in Int
      BY <1>1 DEF CtlType, HandleType
    <3> QED  BY <1>2, <2>1, <3>1, <3>2, <3>3
  <2>3. CASE ~ctl.active
    <3>1. mem = SeekReservation + 0 /\ Released = 0
      BY <2>3 DEF PrefetchInv, MemoryExact, Released
    <3> QED  BY <1>2, <2>1, <3>1
  <2> QED  BY <2>2, <2>3
<1>5. ~ctl'.active
  BY <1>2, NothingLeft
<1>6. TypeOK'
  <2>1. mem' \in Int
    BY <1>4, SeekReservationHoldsAPart
  <2> QED  BY <1>2, <1>3, <2>1, NothingLeft DEF PrefetchInv, TypeOK, HandleType, ReqType
<1>7. NoTaskState'
  BY <1>2, <1>3, <1>5 DEF NoTaskState, NoQueue, NoProducer
<1>8. Reading'
  BY <1>3 DEF Reading
<1>9. SeekWindow'
  <2>1. handle'.seq \in Nat
    BY <1>3
  <2>2. handle'.seq - Bytes(handle'.window) = handle'.seq /\ Bytes(handle'.window) = 0
    BY <1>3, <2>1, ChainEmpty
  <2> QED  BY <1>3, <2>1, <2>2, ChainEmpty, Sizes DEF SeekWindow
<1>10. MemoryExact'
  BY <1>3, <1>4, <1>5, SeekReservationHoldsAPart DEF MemoryExact, SeekReservation
<1> QED  BY <1>5, <1>6, <1>7, <1>8, <1>9, <1>10
         DEF PrefetchInv, Position, Windows, Task, Stream

\* A read starts without moving the handle.
LEMMA OnlyChunkInv ==
    ASSUME PrefetchInv, req.pc = "idle", handle.open, NEW chunk \in Nat \ {0},
           handle' = [handle EXCEPT !.chunk = chunk],
           UNCHANGED <<initial, ctl, queue, incs, prod, mem, others, faults>>,
           req' \in ReqType, req'.pc \in {"idle", "read", "seek"}, Reading',
           req'.pc = "seek" => ctl.active
    PROVE  PrefetchInv'
<1>1. handle \in HandleType /\ ctl \in CtlType
  BY ReaderTypes DEF PrefetchInv
<1>2. /\ handle' \in HandleType /\ handle'.seq = handle.seq /\ handle'.window = handle.window
      /\ handle'.open = handle.open
  BY <1>1 DEF HandleType
<1>3. TypeOK'
  BY <1>2 DEF PrefetchInv, TypeOK, HandleType, ReqType
<1>4. NoTaskState'
  BY <1>1, <1>2 DEF PrefetchInv, NoTaskState, CtlType
<1>5. Position'
  BY <1>2 DEF PrefetchInv, Position
<1>6. Windows'
  BY <1>2 DEF PrefetchInv, Windows, LargestWindow, InitialWindow
<1>7. Task' /\ Stream'
  BY <1>2 DEF PrefetchInv, Task, Stream, SecondStart
<1>8. SeekWindow' /\ MemoryExact'
  BY <1>2 DEF PrefetchInv, SeekWindow, MemoryExact
<1> QED  BY <1>3, <1>4, <1>5, <1>6, <1>7, <1>8 DEF PrefetchInv

LEMMA StartReadFacts ==
    ASSUME NEW off \in 0..Size, off < Size, NEW len \in Nat \ {0},
           NEW pc \in {"read", "seek"}, StartRead(off, len, pc)
    PROVE  /\ req' \in ReqType /\ req'.pc = pc /\ req'.off = off
           /\ req'.left > 0 /\ off + req'.left <= Size
<1>1. PICK left : left = Least(len, Size - off)
  OBVIOUS
<1>2. left \in 0..Size /\ left > 0 /\ off + left <= Size
  BY <1>1, Sizes DEF Least
<1>3. req' = [pc |-> pc, off |-> off, left |-> left, back |-> pc]
  BY <1>1 DEF StartRead
<1> QED  BY <1>2, <1>3 DEF ReqType

LEMMA SeekBackwardInv ==
    ASSUME PrefetchInv, handle.open, req.pc = "idle",
           NEW off \in 0..Size, off < Size, NEW len \in Nat \ {0}, NEW chunk \in Nat \ {0},
           SeekBackward(off, chunk), StartRead(off, len, "read"), UNCHANGED <<initial, others>>
    PROVE  PrefetchInv'
<1>1. handle \in HandleType /\ ctl \in CtlType /\ queue \in QueueType
  BY ReaderTypes DEF PrefetchInv
<1>2. /\ req' \in ReqType /\ req'.pc = "read" /\ req'.off = off
      /\ req'.left > 0 /\ off + req'.left <= Size
  BY StartReadFacts
<1>0. PICK seq, win, n, back :
        /\ seq = handle.seq /\ win = handle.window /\ n = handle.seq - off
        /\ back = ReadBack(handle.window, handle.seq - off)
  OBVIOUS
<1>3. /\ ctl.active /\ off < seq /\ n <= Bytes(win)
      /\ queue' = [queue EXCEPT !.front = back.parts \o @]
      /\ mem' = mem + Bytes(back.parts)
      /\ handle' = [handle EXCEPT !.seq = off, !.window = back.rest, !.chunk = chunk]
      /\ UNCHANGED <<ctl, incs, prod, faults>>
  BY <1>0 DEF SeekBackward, CanGoBackTo, PushFront
<1>4. /\ seq \in 0..Size /\ n \in Nat \ {0} /\ win \in Seq(Ranges)
      /\ Bytes(win) \in Nat /\ Bytes(win) <= SeekMax
      /\ seq - Bytes(win) \in Int /\ seq \in Int /\ seq - n = off
      /\ WholeChain(win, seq - Bytes(win), seq)
  <2>1. seq \in 0..Size /\ win \in Seq(Ranges)
    BY <1>0, <1>1 DEF HandleType
  <2>2. /\ WholeChain(win, seq - Bytes(win), seq)
        /\ Bytes(win) \in Nat /\ Bytes(win) <= SeekMax
    BY <1>0 DEF PrefetchInv, SeekWindow
  <2>3. n = seq - off /\ off < seq
    BY <1>0, <1>3
  <2>4. seq \in Int /\ off \in Int /\ Bytes(win) \in Int
    BY <2>1, <2>2
  <2>5. n \in Nat \ {0} /\ seq - Bytes(win) \in Int /\ seq - n = off
    BY <2>3, <2>4
  <2> QED  BY <2>1, <2>2, <2>4, <2>5
<1>5. /\ back.parts \in Seq(Ranges) /\ back.rest \in Seq(Ranges)
      /\ back.parts # <<>>
      /\ WholeChain(back.parts, off, seq)
      /\ WholeChain(back.rest, seq - Bytes(win), off)
      /\ Bytes(back.parts) = n /\ Bytes(back.rest) = Bytes(win) - n
  <2>1. back = ReadBack(win, n)
    BY <1>0
  <2>2. PICK from \in Int : from = seq - Bytes(win)
    BY <1>4
  <2>3. /\ back.parts \in Seq(Ranges) /\ back.rest \in Seq(Ranges)
        /\ back.parts # <<>>
        /\ WholeChain(back.parts, seq - n, seq)
        /\ WholeChain(back.rest, from, seq - n)
        /\ Bytes(back.parts) = n /\ Bytes(back.rest) = Bytes(win) - n
    BY <1>3, <1>4, <2>1, <2>2, ReadBackSplits
  <2> QED  BY <1>4, <2>2, <2>3
<1>6. /\ handle' \in HandleType /\ handle'.seq = off /\ handle'.window = back.rest /\ handle'.open
  BY <1>1, <1>3, <1>5 DEF HandleType
<1>7. PICK m \in 0..Size, k \in 0..Len(queue.recv) :
        /\ WholeChain(queue.front, seq, m)
        /\ Chain(queue.recv, k, m, prod.off)
        /\ \/ k = Len(queue.recv)
           \/ /\ k + 1 = Len(queue.recv) /\ queue.recv[Len(queue.recv)] = Failure
              /\ prod.pc = "done" /\ faults
  BY <1>0, <1>3 DEF PrefetchInv, Stream
<1>8. queue.front \in Seq(Ranges) /\ queue.recv \in Seq(Ranges)
  BY <1>1 DEF QueueType
<1>9. /\ back.parts \o queue.front \in Seq(Ranges)
      /\ back.parts \o queue.front # <<>>
      /\ WholeChain(back.parts \o queue.front, off, m)
  <2>1. off \in Int /\ m \in Int /\ Chain(queue.front, Len(queue.front), seq, m)
    BY <1>7 DEF WholeChain
  <2>2. /\ back.parts \o queue.front \in Seq(Ranges)
        /\ Len(back.parts \o queue.front) = Len(back.parts) + Len(queue.front)
        /\ Chain(back.parts \o queue.front, Len(back.parts) + Len(queue.front), off, m)
    BY <1>4, <1>5, <1>8, <2>1, ChainConcat
  <2>3. Len(back.parts) \in Nat /\ Len(back.parts) # 0 /\ Len(queue.front) \in Nat
    BY <1>5, <1>8, RangesType
  <2>4. Len(back.parts) + Len(queue.front) # 0
    <3>1. PICK a \in Nat \ {0}, b \in Nat : a = Len(back.parts) /\ b = Len(queue.front)
      BY <2>3
    <3>2. a + b # 0
      OBVIOUS
    <3> QED  BY <3>1, <3>2
  <2>5. back.parts \o queue.front # <<>>
    <3>1. PICK q : q = back.parts \o queue.front
      OBVIOUS
    <3>2. Len(q) # 0
      BY <2>2, <2>4, <3>1
    <3>3. q # <<>>
      BY <3>2
    <3> QED  BY <3>1, <3>3
  <2> QED  BY <2>2, <2>5 DEF WholeChain
<1>10. /\ queue' \in QueueType /\ queue'.front = back.parts \o queue.front
       /\ queue'.recv = queue.recv
  BY <1>1, <1>3, <1>9 DEF QueueType
<1>11. mem' = mem + n /\ mem \in Int
  BY <1>3, <1>5 DEF PrefetchInv, TypeOK
<1>12. TypeOK'
  <2>1. mem' \in Int
    BY <1>4, <1>11
  <2> QED  BY <1>2, <1>3, <1>6, <1>10, <2>1
           DEF PrefetchInv, TypeOK, HandleType, ReqType, QueueType
<1>13. NoTaskState'
  BY <1>3, <1>6 DEF PrefetchInv, NoTaskState
<1>14. Reading'
  BY <1>2, <1>6 DEF Reading
<1>15. Position'
  BY <1>2, <1>3, <1>9, <1>10 DEF PrefetchInv, Position
<1>16. Windows'
  <2>1. off - Bytes(back.rest) = seq - Bytes(win)
    BY <1>4, <1>5
  <2> QED  BY <1>0, <1>3, <1>6, <2>1 DEF PrefetchInv, Windows, LargestWindow, InitialWindow
<1>17. Task'
  BY <1>3 DEF PrefetchInv, Task, SecondStart
<1>18. Stream'
  BY <1>3, <1>6, <1>7, <1>9, <1>10 DEF Stream
<1>19. SeekWindow'
  <2>1. off - Bytes(back.rest) = seq - Bytes(win) /\ Bytes(back.rest) <= SeekMax
    BY <1>4, <1>5, Sizes
  <2>2. Bytes(back.rest) \in Nat
    <3>1. off \in Int /\ seq - Bytes(win) \in Int
      BY <1>3, <1>4
    <3> QED  BY <1>5, <3>1, Telescope
  <2> QED  BY <1>5, <1>6, <2>1, <2>2 DEF SeekWindow
<1>20. MemoryExact'
  <2>1. mem = SeekReservation + (ctl.wend - seq)
    BY <1>0, <1>3 DEF PrefetchInv, MemoryExact
  <2>2. SeekReservation \in Nat /\ ctl.wend \in Nat
    BY <1>1, SeekReservationHoldsAPart DEF CtlType
  <2>3. mem' = SeekReservation + (ctl.wend - off)
    <3>1. mem' = mem + n /\ n \in Int /\ seq \in Int /\ seq - n = off
      BY <1>4, <1>11
    <3>2. mem' = SeekReservation + (ctl.wend - seq) + n
      BY <2>1, <3>1
    <3>3. PICK r \in Int, w \in Int : r = SeekReservation /\ w = ctl.wend
      BY <2>2
    <3>4. r + (w - seq) + n = r + (w - off)
      BY <3>1, <3>3
    <3> QED  BY <3>2, <3>3, <3>4
  <2> QED  BY <1>3, <1>6, <2>3 DEF MemoryExact, SeekReservation
<1> QED  BY <1>12, <1>13, <1>14, <1>15, <1>16, <1>17, <1>18, <1>19, <1>20 DEF PrefetchInv

LEMMA ReadInv ==
    ASSUME PrefetchInv, NEW off \in 0..Size, NEW len \in Lengths, Read(off, len)
    PROVE  PrefetchInv'
<1> PICK chunk : chunk = Least(Most(handle.chunk, len), MaxChunk)
  OBVIOUS
<1>1. handle \in HandleType /\ ctl \in CtlType /\ req \in ReqType
  BY ReaderTypes DEF PrefetchInv
<1>2. len \in Nat \ {0} /\ chunk \in Nat \ {0}
  BY <1>1, Sizes DEF Least, Most, HandleType
<1>3. handle.open /\ req.pc = "idle" /\ UNCHANGED <<initial, others>>
  BY DEF Read
<1>4. CASE /\ off >= Size
           /\ handle' = [handle EXCEPT !.chunk = chunk]
           /\ UNCHANGED <<req, ctl, queue, incs, prod, mem, faults>>
  <2>1. Reading'
    BY <1>3, <1>4 DEF Reading
  <2> QED  BY <1>1, <1>2, <1>3, <1>4, <2>1, OnlyChunkInv
<1>5. CASE /\ off < Size /\ off = handle.seq
           /\ handle' = [handle EXCEPT !.chunk = chunk]
           /\ StartRead(off, len, "read")
           /\ UNCHANGED <<ctl, queue, incs, prod, mem, faults>>
  <2>1. /\ req' \in ReqType /\ req'.pc = "read" /\ req'.off = off
        /\ req'.left > 0 /\ off + req'.left <= Size
    BY <1>2, <1>5, StartReadFacts
  <2>2. handle'.seq = off
    BY <1>1, <1>5 DEF HandleType
  <2>3. Reading'
    BY <2>1, <2>2 DEF Reading
  <2> QED  BY <1>2, <1>3, <1>5, <2>1, <2>3, OnlyChunkInv
<1>6. CASE /\ off < Size /\ SeekForward(off, chunk) /\ StartRead(off, len, "seek")
  <2>1. /\ req' \in ReqType /\ req'.pc = "seek" /\ req'.off = off
        /\ req'.left > 0 /\ off + req'.left <= Size
    BY <1>2, <1>6, StartReadFacts
  <2>2. /\ handle' = [handle EXCEPT !.chunk = chunk] /\ off > handle.seq /\ ctl.active
        /\ UNCHANGED <<ctl, queue, incs, prod, mem, faults>>
    BY <1>6 DEF SeekForward, CanSkipTo
  <2>3. handle'.seq = handle.seq /\ handle.seq \in Nat
    BY <1>1, <2>2 DEF HandleType
  <2>4. Reading'
    BY <2>1, <2>2, <2>3 DEF Reading
  <2> QED  BY <1>2, <1>3, <2>1, <2>2, <2>4, OnlyChunkInv
<1>7. CASE /\ off < Size /\ SeekBackward(off, chunk) /\ StartRead(off, len, "read")
  BY <1>2, <1>3, <1>7, SeekBackwardInv
<1>8. CASE /\ off < Size /\ SeekFails(off) /\ ResetTo(off, chunk) /\ StartRead(off, len, "read")
  <2>1. /\ req' \in ReqType /\ req'.pc = "read" /\ req'.off = off
        /\ req'.left > 0 /\ off + req'.left <= Size
    BY <1>2, <1>8, StartReadFacts
  <2>2. ctl.active => ctl.next = handle.seq /\ ctl.next <= ctl.wend
    BY <1>3 DEF PrefetchInv, Position
  <2> QED  BY <1>2, <1>3, <1>8, <2>1, <2>2, ResetInv
<1> QED  BY <1>4, <1>5, <1>6, <1>7, <1>8 DEF Read

LEMMA SpawnInv ==
    ASSUME PrefetchInv, Spawn
    PROVE  PrefetchInv'
<1>1. handle \in HandleType /\ req \in ReqType
  BY ReaderTypes DEF PrefetchInv
<1>2. PICK seq, w, end :
          seq = handle.seq /\ w = InitialWindow /\ end = Least(handle.seq + initial, Size)
  OBVIOUS
<1>3. /\ req.pc = "read" /\ ~ctl.active
      /\ ctl' = [active |-> TRUE, start |-> seq, wend |-> seq + w, pref |-> w, next |-> seq]
      /\ mem' = mem + w
      /\ prod' = [NoProducer EXCEPT !.pc = IF initial > 0 THEN "request" ELSE "between",
                       !.lim = seq + w, !.off = seq, !.end = end, !.chunk = handle.chunk]
      /\ UNCHANGED <<initial, handle, req, queue, incs, others, faults>>
  BY <1>2 DEF Spawn
<1>4. /\ queue = NoQueue /\ incs = 0 /\ ~faults /\ handle.window = <<>> /\ handle.open
  BY <1>3 DEF PrefetchInv, NoTaskState
<1>5. /\ initial \in Nat /\ w \in Nat /\ w >= 2 /\ LargestWindow \in Nat /\ w <= LargestWindow
  BY <1>2, WindowSizes DEF PrefetchInv
<1>6. seq \in 0..Size /\ seq < Size
  <2>1. /\ handle.seq \in 0..Size /\ req.left \in 0..Size
        /\ handle.seq + req.left <= Size /\ req.left > 0
    BY <1>1, <1>3 DEF HandleType, ReqType, PrefetchInv, Reading
  <2> QED  BY <1>2, <2>1, Sizes
<1>7. /\ end \in 0..Size /\ seq <= end /\ (initial > 0 => seq < end) /\ (initial = 0 => seq = end)
  BY <1>2, <1>5, <1>6, Sizes DEF Least
<1>8. /\ prod'.pc = (IF initial > 0 THEN "request" ELSE "between") /\ prod'.lim = seq + w
      /\ prod'.off = seq /\ prod'.end = end /\ prod'.chunk = handle.chunk
      /\ prod'.second = FALSE /\ prod'.body = 0
  BY <1>3 DEF NoProducer
<1>9. /\ ctl'.active /\ ctl'.start = seq /\ ctl'.wend = seq + w /\ ctl'.pref = w
      /\ ctl'.next = seq
  BY <1>3
<1>10. seq + w \in Nat /\ seq <= seq + w /\ seq < seq + w /\ seq - (seq + w) < PartSize
  BY <1>5, <1>6, Sizes
<1>11. TypeOK'
  <2>1. ctl' \in CtlType
    BY <1>3, <1>5, <1>6, <1>10 DEF CtlType
  <2>2. prod' \in [pc : {"none", "request", "body", "compose", "count", "window", "between", "done"},
                   lim : Nat, off : 0..Size, end : 0..Size, win : Nat, body : 0..PartSize,
                   chunk : Nat, second : BOOLEAN]
    <3>1. handle.chunk \in Nat /\ 0 \in 0..PartSize
      BY <1>1, Sizes DEF HandleType
    <3> QED  BY <1>3, <1>6, <1>7, <1>10, <3>1 DEF NoProducer
  <2>3. mem' \in Int
    <3>1. mem \in Int
      BY DEF PrefetchInv, TypeOK
    <3> QED  BY <1>3, <1>5, <3>1
  <2> QED  BY <1>3, <2>1, <2>2, <2>3 DEF PrefetchInv, TypeOK, CtlType
<1>12. NoTaskState'
  BY <1>3, <1>4, <1>8, <1>9 DEF NoTaskState
<1>13. Reading'
  BY <1>3 DEF PrefetchInv, Reading
<1>14. Position'
  BY <1>2, <1>3, <1>9, <1>10 DEF Position
<1>15. Windows'
  <2>1. Bytes(handle'.window) = 0 /\ handle'.seq = seq
    BY <1>2, <1>3, <1>4, ChainEmpty
  <2>2. (seq + w) - (seq - 0) <= LargestWindow + PartSize + SeekMax
    BY <1>5, <1>6, Sizes
  <2>3. w \in 2..LargestWindow /\ (seq + w) + 0 = seq + w
    BY <1>5, <1>10
  <2>4. LargestWindow' = LargestWindow
    BY <1>3 DEF LargestWindow, InitialWindow
  <2>5. incs' = 0
    BY <1>3, <1>4
  <2> QED  BY <1>8, <1>9, <2>1, <2>2, <2>3, <2>4, <2>5 DEF Windows
<1>16. Task'
  <2>1. SecondStart' = end
    BY <1>2, <1>3, <1>9 DEF SecondStart
  <2>2. handle.chunk > 0
    BY <1>1 DEF HandleType
  <2>3. prod'.pc \in {"request", "between"}
    BY <1>8
  <2>4. seq <= seq
    BY <1>6
  <2>5. prod'.pc = "request" => initial > 0
    BY <1>8
  <2>6. prod'.pc = "between" => initial = 0
    BY <1>5, <1>8
  <2> QED  BY <1>7, <1>8, <1>9, <1>10, <2>1, <2>2, <2>3, <2>4, <2>5, <2>6 DEF Task
<1>17. Stream'
  <2>1. queue'.front = <<>> /\ queue'.recv = <<>> /\ handle'.seq = seq
    BY <1>2, <1>3, <1>4 DEF NoQueue
  <2>2. WholeChain(<<>>, seq, seq) /\ Len(<<>>) = 0
    BY <1>6, ChainEmpty
  <2>3. Chain(<<>>, 0, seq, seq) /\ 0 \in 0..0
    BY <2>2 DEF WholeChain
  <2> QED  BY <1>6, <1>8, <2>1, <2>2, <2>3 DEF Stream
<1>18. SeekWindow'
  BY <1>3 DEF PrefetchInv, SeekWindow
<1>19. MemoryExact'
  <2>1. mem = SeekReservation + 0 /\ SeekReservation \in Nat
    BY <1>3, <1>4, SeekReservationHoldsAPart DEF PrefetchInv, MemoryExact
  <2>2. (seq + w) - seq = w
    BY <1>5, <1>6
  <2>3. mem' = SeekReservation + (ctl'.wend - handle'.seq)
    BY <1>2, <1>3, <1>9, <2>1, <2>2
  <2>4. SeekReservation' = SeekReservation
    BY DEF SeekReservation
  <2> QED  BY <1>3, <1>4, <1>9, <2>3, <2>4 DEF MemoryExact
<1> QED  BY <1>11, <1>12, <1>13, <1>14, <1>15, <1>16, <1>17, <1>18, <1>19 DEF PrefetchInv

\* A part, or some of it, is taken from the front of the queue, given what is
\* behind it.
LEMMA TakeInv ==
    ASSUME PrefetchInv, Taking,
           NEW front \in Seq(Ranges), front # <<>>, NEW recv \in Seq(Ranges),
           NEW m \in 0..Size, NEW k \in 0..Len(recv),
           WholeChain(front, handle.seq, m), Chain(recv, k, m, prod.off),
           \/ k = Len(recv)
           \/ /\ k + 1 = Len(recv) /\ recv[Len(recv)] = Failure
              /\ prod.pc = "done" /\ faults,
           Take(front, recv)
    PROVE  PrefetchInv'
<1>1. handle \in HandleType /\ req \in ReqType /\ ctl \in CtlType /\ queue \in QueueType
  BY ReaderTypes DEF PrefetchInv
<1>2. PICK seq, part, n, left, pushed :
          /\ seq = handle.seq /\ part = Head(front) /\ n = Least(Head(front).len, Wanted)
          /\ left = (IF n < part.len THEN <<Part(part.off + n, part.len - n)>> ELSE <<>>)
                         \o Tail(front)
          /\ pushed = PushWindow(handle.window, Part(part.off, n))
  OBVIOUS
<1>3. /\ queue' = [queue EXCEPT !.front = left, !.recv = recv]
      /\ ctl' = [ctl EXCEPT !.next = part.off + n]
      /\ mem' = mem - n
      /\ handle' = [handle EXCEPT !.seq = seq + n, !.window = pushed]
      /\ req' = [req EXCEPT !.back = req.pc, !.pc = "feedback",
                            !.left = IF req.pc = "seek" THEN @ ELSE @ - n]
      /\ UNCHANGED <<initial, incs, prod, others, faults>>
  BY <1>2 DEF Take
<1>4. /\ ctl.active /\ req.pc \in {"seek", "read", "more"}
      /\ seq \in 0..Size /\ req.left \in 0..Size /\ req.off \in 0..Size /\ Size \in Nat
  BY <1>1, <1>2, Sizes DEF Taking, HandleType, ReqType
<1>5. /\ req.pc = "seek" => seq < req.off /\ req.off + req.left <= Size /\ req.left > 0
      /\ req.pc \in {"read", "more"} => seq + req.left <= Size /\ req.left > 0
  BY <1>2 DEF PrefetchInv, Reading
<1>6. /\ part.len \in Nat /\ part.len > 0
  <2>1. Len(front) # 0 /\ Chain(front, Len(front), handle.seq, m)
    BY RangesType DEF WholeChain
  <2>2. handle.seq \in Int /\ m \in Int
    BY <1>2, <1>4
  <2>3. Head(front) \in Ranges /\ Head(front).len > 0
    BY <2>1, <2>2, ChainTail
  <2> QED  BY <1>2, <2>3 DEF Ranges
<1>7. /\ n \in Nat \ {0} /\ n <= part.len
      /\ req.pc = "seek" => seq + n <= req.off
      /\ req.pc \in {"read", "more"} => n <= req.left
  <2>1. CASE req.pc = "seek"
    <3>1. Wanted = req.off - seq
      BY <1>2, <2>1 DEF Wanted
    <3>2. PICK w \in Nat \ {0} : w = req.off - seq
      BY <1>4, <1>5, <2>1
    <3>3. n = Least(part.len, w)
      BY <1>2, <3>1, <3>2
    <3>4. n \in Nat \ {0} /\ n <= part.len /\ n <= w
      BY <1>6, <3>3 DEF Least
    <3>5. seq + n <= req.off
      BY <1>4, <3>2, <3>4
    <3> QED  BY <2>1, <3>4, <3>5
  <2>2. CASE req.pc \in {"read", "more"}
    <3>1. Wanted = req.left
      BY <2>2 DEF Wanted
    <3> QED  BY <1>2, <1>4, <1>5, <1>6, <2>2, <3>1, SMTT(30) DEF Least
  <2> QED  BY <1>4, <2>1, <2>2
<1>8. /\ part.off = seq /\ seq + n <= m
      /\ left \in Seq(Ranges) /\ WholeChain(left, seq + n, m)
  <2>1. seq \in Int /\ m \in Int /\ WholeChain(front, seq, m)
    BY <1>2, <1>4
  <2> QED  BY <1>2, <1>7, <2>1, FrontTaken
<1>9. seq + n \in 0..Size
  BY <1>4, <1>7, <1>8
<1>10. /\ handle.window \in Seq(Ranges)
       /\ WholeChain(handle.window, seq - Bytes(handle.window), seq)
       /\ Bytes(handle.window) \in Nat
  BY <1>1, <1>2 DEF HandleType, PrefetchInv, SeekWindow
<1>11. /\ pushed \in Seq(Ranges) /\ Bytes(pushed) \in Nat /\ Bytes(pushed) <= SeekMax
       /\ seq - Bytes(handle.window) <= seq + n - Bytes(pushed)
       /\ WholeChain(pushed, seq + n - Bytes(pushed), seq + n)
  <2>1. PICK p : p = Part(part.off, n)
    OBVIOUS
  <2>2. p \in Ranges /\ p.off = seq /\ p.len = n /\ p.len > 0
    BY <1>4, <1>7, <1>8, <2>1 DEF Part, Ranges
  <2>3. PICK from \in Int : from = seq - Bytes(handle.window)
    BY <1>4, <1>10
  <2>4. /\ pushed = PushWindow(handle.window, p) /\ seq \in Int
    BY <1>2, <1>4, <2>1
  <2>5. WholeChain(handle.window, from, seq)
    BY <1>10, <2>3
  <2>6. /\ PushWindow(handle.window, p) \in Seq(Ranges)
        /\ Bytes(PushWindow(handle.window, p)) \in Nat
        /\ Bytes(PushWindow(handle.window, p)) <= SeekMax
        /\ from <= seq + p.len - Bytes(PushWindow(handle.window, p))
        /\ WholeChain(PushWindow(handle.window, p),
                      seq + p.len - Bytes(PushWindow(handle.window, p)), seq + p.len)
    BY <1>10, <2>2, <2>4, <2>5, PushWindowChain
  <2> QED  BY <2>2, <2>3, <2>4, <2>6
<1>12. handle' \in HandleType /\ handle'.seq = seq + n /\ handle'.window = pushed
       /\ handle'.open = handle.open
  BY <1>1, <1>3, <1>9, <1>11 DEF HandleType
<1>w. handle'.seq - Bytes(handle'.window) = seq + n - Bytes(pushed)
  <2>1. PICK a \in Int, b \in Int : a = seq + n /\ b = Bytes(pushed)
    BY <1>4, <1>7, <1>11
  <2>2. handle'.seq = a /\ Bytes(handle'.window) = b
    BY <1>12, <2>1
  <2>3. handle'.seq - Bytes(handle'.window) = a - b
    BY <2>2
  <2>4. seq + n - Bytes(pushed) = a - b
    BY <1>4, <1>7, <1>11, <2>1
  <2> QED  BY <2>3, <2>4
<1>13. ctl' \in CtlType /\ ctl'.next = seq + n /\ ctl'.active /\ ctl'.wend = ctl.wend
       /\ ctl'.start = ctl.start /\ ctl'.pref = ctl.pref
  BY <1>1, <1>3, <1>4, <1>8, <1>9 DEF CtlType
<1>14. queue' \in QueueType /\ queue'.front = left /\ queue'.recv = recv
  BY <1>1, <1>3, <1>8 DEF QueueType
<1>15. /\ req' \in ReqType /\ req'.pc = "feedback" /\ req'.back = req.pc /\ req'.off = req.off
       /\ req'.left = IF req.pc = "seek" THEN req.left ELSE req.left - n
  <2>1. PICK l : l = IF req.pc = "seek" THEN req.left ELSE req.left - n
    OBVIOUS
  <2>2. l \in 0..Size
    BY <1>4, <1>7, <2>1
  <2>3. req' = [req EXCEPT !.back = req.pc, !.pc = "feedback", !.left = l]
    BY <1>3, <2>1
  <2> QED  BY <1>1, <1>4, <2>1, <2>2, <2>3 DEF ReqType
<1>16. mem \in Int /\ mem' \in Int
  <2>1. mem \in Int
    BY DEF PrefetchInv, TypeOK
  <2> QED  BY <1>3, <1>7, <2>1
<1>17. TypeOK'
  BY <1>3, <1>12, <1>13, <1>14, <1>15, <1>16
     DEF PrefetchInv, TypeOK, HandleType, CtlType, QueueType, ReqType
<1>18. NoTaskState'
  BY <1>3, <1>4, <1>12, <1>13 DEF PrefetchInv, NoTaskState
<1>19. Reading'
  <2>1. CASE req.pc = "seek"
    BY <1>5, <1>7, <1>12, <1>15, <2>1 DEF Reading
  <2>2. CASE req.pc \in {"read", "more"}
    <3>1. req'.left = req.left - n /\ (seq + n) + (req.left - n) <= Size
      BY <1>4, <1>5, <1>7, <1>15, <2>2
    <3> QED  BY <1>12, <1>15, <2>2, <3>1 DEF Reading
  <2> QED  BY <1>4, <2>1, <2>2
<1>20. Position'
  BY <1>12, <1>13, <1>15 DEF Position
<1>21. Windows'
  <2>1. /\ prod.lim + incs = ctl.wend /\ ctl.pref \in 2..LargestWindow
        /\ ctl.wend - (seq - Bytes(handle.window)) <= LargestWindow + PartSize + SeekMax
    BY <1>2, <1>4 DEF PrefetchInv, Windows
  <2>2. LargestWindow' = LargestWindow
    BY <1>3 DEF LargestWindow, InitialWindow
  <2>3. LargestWindow \in Nat /\ ctl.wend \in Nat
    BY <1>1, WindowSizes DEF PrefetchInv, CtlType
  <2>4. PICK a \in Int, b \in Int, l \in Int :
            /\ a = seq - Bytes(handle.window) /\ b = seq + n - Bytes(pushed)
            /\ l = LargestWindow + PartSize + SeekMax
    BY <1>4, <1>7, <1>10, <1>11, <2>3, Sizes
  <2>5. ctl.wend - b <= l
    BY <1>11, <2>1, <2>3, <2>4
  <2>6. handle'.seq - Bytes(handle'.window) = b
    BY <1>w, <2>4
  <2>7. prod' = prod /\ incs' = incs
    BY <1>3
  <2> QED  BY <1>13, <2>1, <2>2, <2>4, <2>5, <2>6, <2>7 DEF Windows
<1>22. Task'
  BY <1>3, <1>4, <1>13 DEF PrefetchInv, Task, SecondStart
<1>23. Stream'
  BY <1>3, <1>8, <1>12, <1>14 DEF Stream
<1>24. SeekWindow'
  <2>1. Bytes(handle'.window) = Bytes(pushed)
    BY <1>12
  <2> QED  BY <1>11, <1>12, <1>w, <2>1 DEF SeekWindow
<1>25. MemoryExact'
  <2>1. mem = (IF handle.open THEN SeekReservation ELSE 0) + (ctl.wend - seq)
    BY <1>2, <1>4 DEF PrefetchInv, MemoryExact
  <2>2. PICK r \in Int, w \in Int :
            r = (IF handle.open THEN SeekReservation ELSE 0) /\ w = ctl.wend
    BY <1>1, SeekReservationHoldsAPart DEF CtlType
  <2>3. mem = r + (w - seq) /\ mem' = mem - n
    BY <1>3, <2>1, <2>2
  <2>4. mem' = r + (w - (seq + n))
    BY <1>4, <1>7, <2>3
  <2>5. SeekReservation' = SeekReservation
    BY DEF SeekReservation
  <2> QED  BY <1>12, <1>13, <2>2, <2>4, <2>5 DEF MemoryExact
<1> QED  BY <1>17, <1>18, <1>19, <1>20, <1>21, <1>22, <1>23, <1>24, <1>25 DEF PrefetchInv

LEMMA TakeFrontInv ==
    ASSUME PrefetchInv, TakeFront
    PROVE  PrefetchInv'
<1>1. Taking /\ ctl.active /\ queue.front # <<>> /\ Take(queue.front, queue.recv)
  BY DEF TakeFront, Taking
<1>2. queue.front \in Seq(Ranges) /\ queue.recv \in Seq(Ranges)
  BY DEF PrefetchInv, TypeOK
<1>3. PICK m \in 0..Size, k \in 0..Len(queue.recv) :
        /\ WholeChain(queue.front, handle.seq, m)
        /\ Chain(queue.recv, k, m, prod.off)
        /\ \/ k = Len(queue.recv)
           \/ /\ k + 1 = Len(queue.recv) /\ queue.recv[Len(queue.recv)] = Failure
              /\ prod.pc = "done" /\ faults
  BY <1>1 DEF PrefetchInv, Stream
<1> QED  BY <1>1, <1>2, <1>3, TakeInv

LEMMA TakeReceivedInv ==
    ASSUME PrefetchInv, TakeReceived
    PROVE  PrefetchInv'
<1>0. PICK recv : recv = queue.recv
  OBVIOUS
<1>1. /\ Taking /\ ctl.active /\ queue.front = <<>> /\ recv # <<>>
      /\ Take(<<Head(recv)>>, Tail(recv))
  BY <1>0 DEF TakeReceived, Taking
<1>2. recv \in Seq(Ranges) /\ handle.seq \in Int /\ prod.off \in Int /\ prod.off <= Size
  BY <1>0, Sizes DEF PrefetchInv, TypeOK
<1>3. PICK m \in 0..Size, k \in 0..Len(recv) :
        /\ WholeChain(queue.front, handle.seq, m)
        /\ Chain(recv, k, m, prod.off)
        /\ \/ k = Len(recv)
           \/ /\ k + 1 = Len(recv) /\ recv[Len(recv)] = Failure
              /\ prod.pc = "done" /\ faults
  BY <1>0, <1>1 DEF PrefetchInv, Stream
<1>4. m = handle.seq
  BY <1>1, <1>2, <1>3, ChainEmpty
<1>5. Len(recv) \in Nat \ {0} /\ Head(recv) = recv[1]
  BY <1>1, <1>2
<1>6. Head(recv) # Failure
  <2>1. Head(<<Head(recv)>>) = Head(recv)
    OBVIOUS
  <2> QED  BY <1>1, <2>1 DEF Take
<1>7. k # 0
  BY <1>3, <1>5, <1>6
<1>8. /\ Head(recv) \in Ranges /\ Tail(recv) \in Seq(Ranges)
      /\ Head(recv).off = m /\ Head(recv).len > 0
      /\ Len(Tail(recv)) = Len(recv) - 1
      /\ m + Head(recv).len <= prod.off
      /\ Chain(Tail(recv), k - 1, m + Head(recv).len, prod.off)
  <2>1. m \in Int
    OBVIOUS
  <2> QED  BY <1>2, <1>3, <1>7, <2>1, ChainTail
<1>9. /\ <<Head(recv)>> \in Seq(Ranges) /\ <<Head(recv)>> # <<>>
      /\ WholeChain(<<Head(recv)>>, handle.seq, m + Head(recv).len)
  BY <1>4, <1>8, ChainOne
<1>10. m + Head(recv).len \in 0..Size
  <2>1. Head(recv).len \in Nat
    BY <1>8 DEF Ranges
  <2> QED  BY <1>2, <1>8, <2>1, Sizes
<1>11. k - 1 \in 0..Len(Tail(recv))
  BY <1>5, <1>7, <1>8
<1>12. \/ k - 1 = Len(Tail(recv))
       \/ /\ (k - 1) + 1 = Len(Tail(recv)) /\ Tail(recv)[Len(Tail(recv))] = Failure
          /\ prod.pc = "done" /\ faults
  <2>1. CASE k = Len(recv)
    BY <1>8, <2>1
  <2>2. CASE /\ k + 1 = Len(recv) /\ recv[Len(recv)] = Failure
             /\ prod.pc = "done" /\ faults
    <3>1. (k - 1) + 1 = Len(Tail(recv)) /\ Len(Tail(recv)) \in 1..Len(Tail(recv))
          /\ Len(Tail(recv)) + 1 = Len(recv)
      <4>1. PICK a, b : a = Len(Tail(recv)) /\ b = Len(recv)
        OBVIOUS
      <4>2. a = b - 1 /\ k + 1 = b /\ k \in Nat \ {0}
        <5>1. a = b - 1
          BY <1>8, <4>1
        <5>2. k \in Nat /\ k # 0
          BY <1>7
        <5> QED  BY <2>2, <4>1, <5>1, <5>2
      <4>3. (k - 1) + 1 = a /\ a \in 1..a /\ a + 1 = b
        BY <4>2
      <4> QED  BY <4>1, <4>3
    <3>2. Tail(recv)[Len(Tail(recv))] = recv[Len(Tail(recv)) + 1]
      BY <1>1, <1>2, <3>1, HeadTailProperties
    <3> QED  BY <2>2, <3>1, <3>2
  <2> QED  BY <1>3, <2>1, <2>2
<1> QED  BY <1>1, <1>8, <1>9, <1>10, <1>11, <1>12, TakeInv

\* Without a failed request the data does not end before what is wanted.
LEMMA FailureHasCause ==
    ASSUME PrefetchInv
    PROVE  ErrorsHaveCauses
<1>1. SUFFICES ASSUME FailureNext, ~faults PROVE FALSE
  BY DEF ErrorsHaveCauses, PrefetchInv, TypeOK
<1>2. ctl.active /\ req.pc \in {"seek", "read", "more"} /\ queue.front = <<>>
  BY <1>1 DEF FailureNext, Taking
<1>3. /\ queue.recv \in Seq(Ranges) /\ handle.seq \in 0..Size /\ prod.off \in 0..Size
      /\ req.off \in 0..Size /\ req.left \in 0..Size /\ Size \in Nat
  BY Sizes DEF PrefetchInv, TypeOK
<1>4. PICK m \in 0..Size : /\ WholeChain(queue.front, handle.seq, m)
                           /\ Chain(queue.recv, Len(queue.recv), m, prod.off)
  BY <1>1, <1>2 DEF PrefetchInv, Stream
<1>5. m = handle.seq
  BY <1>2, <1>3, <1>4, ChainEmpty
<1>6. CASE queue.recv # <<>> /\ Head(queue.recv) = Failure
  <2>1. Len(queue.recv) # 0 /\ m \in Int /\ prod.off \in Int
    BY <1>3, <1>6
  <2>2. Head(queue.recv).len > 0
    BY <1>3, <1>4, <2>1, ChainTail
  <2> QED  BY <1>6, <2>2 DEF Failure
<1>7. CASE queue.recv = <<>> /\ prod.pc = "done"
  <2>1. WholeChain(<<>>, m, prod.off)
    BY <1>4, <1>7 DEF WholeChain
  <2>2. m = prod.off
    BY <1>3, <2>1, ChainEmpty
  <2>3. prod.off = Size
    BY <1>1, <1>2, <1>7 DEF PrefetchInv, Task
  <2>4. handle.seq = Size
    BY <1>5, <2>2, <2>3
  <2>5. \/ handle.seq < req.off
        \/ handle.seq + req.left <= Size /\ req.left > 0
    BY <1>2 DEF PrefetchInv, Reading
  <2> QED  BY <1>3, <2>4, <2>5
<1> QED  BY <1>1, <1>6, <1>7 DEF FailureNext

LEMMA ReadFailsInv ==
    ASSUME PrefetchInv, ReadFails
    PROVE  PrefetchInv'
<1>1. /\ ctl.active /\ queue.front = <<>> /\ req.pc \in {"seek", "read", "more"}
      /\ ResetTo(req.off, handle.chunk) /\ req' = NoRead /\ UNCHANGED <<initial, others>>
  BY DEF ReadFails, FailureNext, Taking
<1>2. handle.open /\ ctl.next = handle.seq /\ ctl.next <= ctl.wend
  BY <1>1 DEF PrefetchInv, NoTaskState, Position
<1>3. req.off \in 0..Size /\ handle.chunk \in Nat \ {0}
  BY DEF PrefetchInv, TypeOK
<1>4. req' \in ReqType /\ req'.pc = "idle"
  BY <1>1, NothingLeft DEF ReqType
<1> QED  BY <1>1, <1>2, <1>3, <1>4, ResetInv

LEMMA ReadCorruptInv ==
    ASSUME PrefetchInv, ReadCorrupt
    PROVE  PrefetchInv'
<1>1. /\ req.pc = "corrupt"
      /\ ResetTo(req.off, handle.chunk) /\ req' = NoRead /\ UNCHANGED <<initial, others>>
  BY DEF ReadCorrupt
<1>2. handle.open /\ (ctl.active => ctl.next = handle.seq /\ ctl.next <= ctl.wend)
  BY <1>1 DEF PrefetchInv, NoTaskState, Position
<1>3. req.off \in 0..Size /\ handle.chunk \in Nat \ {0}
  BY DEF PrefetchInv, TypeOK
<1>4. req' \in ReqType /\ req'.pc = "idle"
  BY <1>1, NothingLeft DEF ReqType
<1> QED  BY <1>1, <1>2, <1>3, <1>4, ResetInv

-----------------------------------------------------------------------------
\* Feedback

LEMMA FeedbackState ==
    ASSUME PrefetchInv, req.pc = "feedback"
    PROVE  /\ ctl.active /\ handle.open /\ prod.pc # "none"
           /\ ctl.next = handle.seq /\ ctl.next \in 0..Size /\ ctl.wend \in Nat
           /\ ctl.pref \in Nat /\ ctl.pref >= 2 /\ ctl.pref <= LargestWindow
           /\ ctl.start \in Nat
<1>1. ctl.active /\ handle.open /\ prod.pc # "none"
  BY DEF PrefetchInv, NoTaskState
<1>2. ctl.next = handle.seq
  BY <1>1 DEF PrefetchInv, Position
<1>3. ctl.next \in 0..Size /\ ctl.wend \in Nat /\ ctl.pref \in Nat /\ ctl.start \in Nat
  BY DEF PrefetchInv, TypeOK
<1>4. ctl.pref \in 2..LargestWindow
  BY <1>1 DEF PrefetchInv, Windows
<1> QED  BY <1>1, <1>2, <1>3, <1>4

\* Where the window is to end: not before the reader, and not too far.
LEMMA NewWindowEndBounds ==
    ASSUME PrefetchInv, req.pc = "feedback"
    PROVE  /\ NewWindowEnd \in Nat /\ NewWindowEnd >= ctl.next
           /\ ctl.next < Size => NewWindowEnd > ctl.next
           /\ NewWindowEnd - ctl.next <= LargestWindow + PartSize
<1>1. PICK x, l : x = ctl.next + ctl.pref /\ l = LargestWindow
  OBVIOUS
<1>2. /\ ctl.next \in 0..Size /\ ctl.pref \in Nat /\ ctl.pref >= 2 /\ ctl.pref <= l
      /\ ctl.start \in Nat /\ l \in Nat /\ initial \in Nat
  BY <1>1, FeedbackState, WindowSizes DEF PrefetchInv
<1>3. x \in Nat /\ x > ctl.next /\ x - ctl.next <= l
  BY <1>1, <1>2
<1>4. Align(x) \in Nat /\ x <= Align(x) /\ Align(x) < x + PartSize
  BY <1>2, <1>3, AlignBounds
<1>5. PICK a \in Nat : a = Align(x) /\ NewWindowEnd = Least(a, Size)
  BY <1>1, <1>4 DEF NewWindowEnd
<1>6. a > ctl.next /\ a - ctl.next <= l + PartSize
  BY <1>2, <1>3, <1>4, <1>5, Sizes
<1> QED  BY <1>1, <1>2, <1>5, <1>6, Sizes DEF Least

LEMMA ProceedFacts ==
    ASSUME PrefetchInv, req.pc = "feedback", Proceed, UNCHANGED handle
    PROVE  req' \in ReqType /\ req'.pc # "feedback" /\ Reading'
<1>1. req \in ReqType /\ handle.seq \in Nat
  BY ReaderTypes DEF PrefetchInv, TypeOK
<1>2. /\ req.back # "idle"
      /\ req.back = "seek" =>
                 handle.seq <= req.off /\ req.off + req.left <= Size /\ req.left > 0
      /\ req.back \in {"read", "more"} => handle.seq + req.left <= Size
  BY DEF PrefetchInv, Reading
<1>3. CASE /\ req.back = "seek"
           /\ req' = [req EXCEPT !.pc = IF handle.seq = req.off THEN "read" ELSE "seek"]
  <2>1. CASE handle.seq = req.off
    <3>1. req' \in ReqType /\ req'.pc = "read" /\ req'.left = req.left
      BY <1>1, <1>3, <2>1 DEF ReqType
    <3> QED  BY <1>2, <1>3, <2>1, <3>1 DEF Reading
  <2>2. CASE handle.seq # req.off
    <3>1. req' \in ReqType /\ req'.pc = "seek" /\ req'.left = req.left /\ req'.off = req.off
      BY <1>1, <1>3, <2>2 DEF ReqType
    <3>2. handle.seq < req.off
      BY <1>1, <1>2, <1>3, <2>2 DEF ReqType
    <3> QED  BY <1>2, <1>3, <3>1, <3>2 DEF Reading
  <2> QED  BY <2>1, <2>2
<1>4. CASE /\ req.back \in {"read", "more"}
           /\ req' = IF req.left = 0 THEN NoRead ELSE [req EXCEPT !.pc = "more"]
  <2>1. CASE req.left = 0
    <3>1. req' \in ReqType /\ req'.pc = "idle"
      BY <1>4, <2>1, NothingLeft DEF ReqType
    <3> QED  BY <3>1 DEF Reading
  <2>2. CASE req.left # 0
    <3>1. req' \in ReqType /\ req'.pc = "more" /\ req'.left = req.left
      BY <1>1, <1>4, <2>2 DEF ReqType
    <3>2. req.left > 0
      BY <1>1, <2>2 DEF ReqType
    <3> QED  BY <1>2, <1>4, <3>1, <3>2 DEF Reading
  <2> QED  BY <2>1, <2>2
<1>5. CASE req.back = "more" /\ MayFail /\ req' = [req EXCEPT !.pc = "corrupt"]
  <2>1. req' \in ReqType /\ req'.pc = "corrupt"
    BY <1>1, <1>5 DEF ReqType
  <2> QED  BY <2>1 DEF Reading
<1> QED  BY <1>3, <1>4, <1>5 DEF Proceed

\* The preferred size of the window stays in its bounds.
LEMMA ScaledBounds ==
    ASSUME TypeOK, NEW p \in Nat
    PROVE  /\ ScaledUp(p) \in 2..LargestWindow
           /\ ScaledDown(p) \in 2..LargestWindow
<1>1. PICK u, d : u = p * Multiplier /\ d = p \div Multiplier
  OBVIOUS
<1>2. u \in Nat
  BY <1>1, Sizes
<1>3. d \in Nat
  BY <1>1, Sizes, Division
<1>4. LargestWindow \in Nat /\ MaxWindow <= LargestWindow
  BY WindowSizes
<1>5. \A x \in Nat : Least(Most(x, PartSize), MaxWindow) \in 2..LargestWindow
  BY <1>4, Sizes DEF Least, Most
<1> QED  BY <1>1, <1>2, <1>3, <1>5 DEF ScaledUp, ScaledDown

LEMMA AfterStallFacts ==
    ASSUME TypeOK, NEW c \in CtlType, c.pref \in 2..LargestWindow, NEW reserved
    PROVE  \E p \in 2..LargestWindow : AfterStall(c, reserved) = [c EXCEPT !.pref = p]
<1>1. CASE AfterStall(c, reserved) = [c EXCEPT !.pref = ScaledUp(@)]
  <2>1. c.pref \in Nat
    BY DEF CtlType
  <2> QED  BY <1>1, <2>1, ScaledBounds
<1>2. CASE AfterStall(c, reserved) = c
  <2>1. c = [c EXCEPT !.pref = c.pref]
    BY DEF CtlType
  <2> QED  BY <1>2, <2>1
<1> QED  BY <1>1, <1>2 DEF AfterStall

\* The window ends at wend, and the reader goes on.
LEMMA FeedbackInv ==
    ASSUME PrefetchInv, req.pc = "feedback", Proceed,
           NEW wend \in Nat, ctl.next <= wend, NEW p \in 2..LargestWindow,
           ctl' = [ctl EXCEPT !.wend = wend, !.pref = p],
           mem' = mem + (wend - ctl.wend), incs' = incs + (wend - ctl.wend),
           ctl.wend <= wend,
           \/ wend = ctl.wend
           \/ wend - ctl.next <= LargestWindow + PartSize,
           UNCHANGED <<initial, handle, queue, prod, others, faults>>
    PROVE  PrefetchInv'
<1>1. /\ ctl.active /\ handle.open /\ prod.pc # "none"
      /\ ctl.next = handle.seq /\ ctl.next \in 0..Size /\ ctl.wend \in Nat
  BY FeedbackState
<1>2. req' \in ReqType /\ req'.pc # "feedback" /\ Reading'
  BY ProceedFacts
<1>3. ctl \in CtlType /\ mem \in Int /\ incs \in Nat /\ prod.lim \in Nat
  BY ReaderTypes DEF PrefetchInv, TypeOK
<1>4. LargestWindow \in Nat /\ LargestWindow' = LargestWindow /\ SeekMax \in Nat /\ PartSize \in Nat
  BY WindowSizes, Sizes DEF PrefetchInv, LargestWindow, InitialWindow
<1>5. /\ ctl' \in CtlType /\ ctl'.active /\ ctl'.wend = wend /\ ctl'.pref = p
      /\ ctl'.next = ctl.next /\ ctl'.start = ctl.start
  <2>1. p \in Nat
    BY <1>4
  <2> QED  BY <1>1, <1>3, <2>1 DEF CtlType
<1>6. PICK more \in Nat : more = wend - ctl.wend /\ mem' = mem + more /\ incs' = incs + more
  BY <1>1
<1>7. TypeOK'
  <2>1. mem' \in Int /\ incs' \in Nat
    BY <1>3, <1>6
  <2> QED  BY <1>2, <1>5, <2>1 DEF PrefetchInv, TypeOK, ReqType, CtlType
<1>8. NoTaskState'
  BY <1>1, <1>5 DEF NoTaskState
<1>9. Position'
  BY <1>1, <1>5 DEF Position
<1>10. Windows'
  <2>1. /\ prod.lim + incs = ctl.wend
        /\ ctl.wend - (handle.seq - Bytes(handle.window)) <= LargestWindow + PartSize + SeekMax
    BY <1>1 DEF PrefetchInv, Windows
  <2>2. prod.lim + incs' = wend
    BY <1>1, <1>3, <1>6, <2>1
  <2>3. PICK b \in Nat : b = Bytes(handle.window) /\ b <= SeekMax
    BY DEF PrefetchInv, SeekWindow
  <2>4. wend - (handle.seq - b) <= LargestWindow + PartSize + SeekMax
    <3>1. CASE wend = ctl.wend
      BY <2>1, <2>3, <3>1
    <3>2. CASE wend - ctl.next <= LargestWindow + PartSize
      BY <1>1, <1>4, <2>3, <3>2
    <3> QED  BY <3>1, <3>2
  <2> QED  BY <1>4, <1>5, <2>2, <2>3, <2>4 DEF Windows
<1>11. Task'
  BY <1>1, <1>5 DEF PrefetchInv, Task, SecondStart
<1>12. Stream'
  BY <1>1 DEF PrefetchInv, Stream
<1>13. SeekWindow'
  BY DEF PrefetchInv, SeekWindow
<1>14. MemoryExact'
  <2>1. mem = SeekReservation + (ctl.wend - handle.seq)
    BY <1>1 DEF PrefetchInv, MemoryExact
  <2>2. PICK r \in Nat : r = SeekReservation
    BY SeekReservationHoldsAPart
  <2>3. mem' = r + (wend - handle.seq)
    BY <1>1, <1>6, <2>1, <2>2
  <2>4. SeekReservation' = SeekReservation
    BY DEF SeekReservation
  <2> QED  BY <1>1, <1>5, <2>2, <2>3, <2>4 DEF MemoryExact
<1> QED  BY <1>2, <1>7, <1>8, <1>9, <1>10, <1>11, <1>12, <1>13, <1>14 DEF PrefetchInv

LEMMA GrowInv ==
    ASSUME PrefetchInv, Grow
    PROVE  PrefetchInv'
<1>1. PICK w : w = NewWindowEnd
  OBVIOUS
<1>2. /\ req.pc = "feedback" /\ Proceed /\ w > ctl.wend
      /\ mem' = mem + (w - ctl.wend) /\ incs' = incs + (w - ctl.wend)
      /\ ctl' = AfterStall([ctl EXCEPT !.wend = @ + (w - ctl.wend)], mem + (w - ctl.wend))
      /\ UNCHANGED <<initial, handle, queue, prod, others, faults>>
  BY <1>1 DEF Grow, MustGrow
<1>3. /\ w \in Nat /\ ctl.next <= w /\ w - ctl.next <= LargestWindow + PartSize
      /\ ctl.wend \in Nat /\ ctl.next \in Nat
  BY <1>1, <1>2, NewWindowEndBounds, FeedbackState
<1>4. ctl.wend + (w - ctl.wend) = w /\ ctl.wend <= w
  BY <1>2, <1>3
<1>5. TypeOK /\ ctl \in CtlType /\ ctl.pref \in 2..LargestWindow
  BY <1>2, ReaderTypes, FeedbackState DEF PrefetchInv, Windows
<1>6. PICK c : c = [ctl EXCEPT !.wend = w]
  OBVIOUS
<1>7. c \in CtlType /\ c.pref = ctl.pref
  BY <1>3, <1>5, <1>6 DEF CtlType
<1>8. ctl' = AfterStall(c, mem + (w - ctl.wend))
  BY <1>2, <1>4, <1>6
<1>9. PICK p \in 2..LargestWindow : ctl' = [c EXCEPT !.pref = p]
  BY <1>5, <1>7, <1>8, AfterStallFacts
<1>10. ctl' = [ctl EXCEPT !.wend = w, !.pref = p]
  BY <1>6, <1>9
<1> QED  BY <1>2, <1>3, <1>4, <1>10, FeedbackInv

LEMMA KeepWindowInv ==
    ASSUME PrefetchInv, KeepWindow
    PROVE  PrefetchInv'
<1>1. /\ req.pc = "feedback" /\ ~MustGrow /\ Proceed /\ mem' = mem /\ incs' = incs
      /\ ctl' = AfterStall(ctl, mem)
      /\ UNCHANGED <<initial, handle, queue, prod, others, faults>>
  BY DEF KeepWindow
<1>2. /\ ctl.next \in 0..Size /\ ctl.wend \in Nat /\ ctl.pref \in Nat /\ ctl.pref >= 2
      /\ NewWindowEnd \in Nat /\ NewWindowEnd >= ctl.next /\ Size \in Nat
  BY <1>1, FeedbackState, NewWindowEndBounds, Sizes
<1>3. ctl.next <= ctl.wend
  <2>1. SUFFICES ASSUME ctl.wend < ctl.next PROVE MustGrow
    BY <1>1, <1>2
  <2>2. Minus(ctl.wend, ctl.next) = 0
    BY <1>2, <2>1 DEF Minus, Most
  <2>3. 0 < ctl.pref \div 2
    BY <1>2
  <2>4. ctl.wend < Size /\ NewWindowEnd > ctl.wend
    BY <1>2, <2>1
  <2> QED  BY <2>2, <2>3, <2>4 DEF MustGrow
<1>4. TypeOK /\ ctl \in CtlType /\ ctl.pref \in 2..LargestWindow
  BY <1>1, ReaderTypes, FeedbackState DEF PrefetchInv, Windows
<1>5. PICK p \in 2..LargestWindow : ctl' = [ctl EXCEPT !.pref = p]
  BY <1>1, <1>4, AfterStallFacts
<1>6. ctl' = [ctl EXCEPT !.wend = ctl.wend, !.pref = p]
  BY <1>4, <1>5 DEF CtlType
<1>7. mem' = mem + (ctl.wend - ctl.wend) /\ incs' = incs + (ctl.wend - ctl.wend)
  <2>1. mem \in Int /\ incs \in Int
    BY DEF PrefetchInv, TypeOK
  <2> QED  BY <1>1, <1>2, <2>1
<1>8. ctl.wend <= ctl.wend
  BY <1>2
<1> QED  BY <1>1, <1>2, <1>3, <1>6, <1>7, <1>8, FeedbackInv

LEMMA ScaleDownInv ==
    ASSUME PrefetchInv, ScaleDown
    PROVE  PrefetchInv'
<1>1. PICK p : p = ScaledDown(ctl.pref)
  OBVIOUS
<1>2. /\ req.pc = "feedback" /\ ctl' = [ctl EXCEPT !.pref = p]
      /\ UNCHANGED <<initial, handle, req, queue, incs, prod, mem, others, faults>>
  BY <1>1 DEF ScaleDown
<1>3. ctl.active /\ ctl.pref \in Nat /\ ctl \in CtlType
  BY <1>2, FeedbackState, ReaderTypes DEF PrefetchInv
<1>4. p \in 2..LargestWindow /\ LargestWindow' = LargestWindow /\ p \in Nat
  <2>1. p \in 2..LargestWindow
    BY <1>1, <1>3, ScaledBounds DEF PrefetchInv
  <2> QED  BY <1>2, <2>1, WindowSizes DEF PrefetchInv, LargestWindow, InitialWindow
<1>5. /\ ctl' \in CtlType /\ ctl'.active /\ ctl'.wend = ctl.wend /\ ctl'.pref = p
      /\ ctl'.next = ctl.next /\ ctl'.start = ctl.start
  BY <1>2, <1>3, <1>4 DEF CtlType
<1>6. TypeOK'
  BY <1>2, <1>5 DEF PrefetchInv, TypeOK, CtlType
<1>7. NoTaskState' /\ Reading' /\ Position'
  BY <1>2, <1>3, <1>5 DEF PrefetchInv, NoTaskState, Reading, Position
<1>8. Windows'
  BY <1>2, <1>3, <1>4, <1>5 DEF PrefetchInv, Windows
<1>9. Task' /\ Stream'
  BY <1>2, <1>3, <1>5 DEF PrefetchInv, Task, Stream, SecondStart
<1>10. SeekWindow' /\ MemoryExact'
  BY <1>2, <1>3, <1>5 DEF PrefetchInv, SeekWindow, MemoryExact
<1> QED  BY <1>6, <1>7, <1>8, <1>9, <1>10 DEF PrefetchInv

-----------------------------------------------------------------------------
\* Opening and closing

LEMMA CloseInv ==
    ASSUME PrefetchInv, Close
    PROVE  PrefetchInv'
<1>1. /\ handle.open /\ req.pc = "idle"
      /\ ctl' = NoTask /\ queue' = NoQueue /\ incs' = 0 /\ prod' = NoProducer /\ faults' = FALSE
      /\ mem' = mem - Released - SeekReservation
      /\ handle' = [NewHandle EXCEPT !.open = FALSE]
      /\ req' = NoRead /\ UNCHANGED <<initial, others>>
  BY DEF Close, DropTask
<1>2. ctl \in CtlType /\ handle \in HandleType /\ SeekReservation \in Nat
  BY ReaderTypes, SeekReservationHoldsAPart DEF PrefetchInv
<1>3. /\ handle' \in HandleType /\ handle'.seq = 0 /\ handle'.window = <<>> /\ ~handle'.open
  <2>1. <<>> \in Seq(Ranges) /\ 0 \in 0..Size /\ Chunk \in Nat \ {0}
    BY ChainEmpty, Sizes
  <2> QED  BY <1>1, <2>1 DEF NewHandle, HandleType
<1>4. mem' = 0
  <2>1. CASE ctl.active
    <3>1. mem = SeekReservation + (ctl.wend - handle.seq)
      BY <1>1, <2>1 DEF PrefetchInv, MemoryExact
    <3>2. ctl.next = handle.seq /\ ctl.next <= ctl.wend
      BY <1>1, <2>1 DEF PrefetchInv, Position
    <3>3. ctl.wend \in Int /\ handle.seq \in Int
      BY <1>2 DEF CtlType, HandleType
    <3>4. Released = ctl.wend - handle.seq
      BY <2>1, <3>2, <3>3 DEF Released, Minus, Most
    <3> QED  BY <1>1, <1>2, <3>1, <3>3, <3>4
  <2>2. CASE ~ctl.active
    <3>1. mem = SeekReservation + 0 /\ Released = 0
      BY <1>1, <2>2 DEF PrefetchInv, MemoryExact, Released
    <3> QED  BY <1>1, <1>2, <3>1
  <2> QED  BY <2>1, <2>2
<1>5. ~ctl'.active /\ req'.pc = "idle"
  BY <1>1, NothingLeft
<1>6. TypeOK'
  <2>1. initial' \in InitialRequestSizes /\ others' \in Others
    BY <1>1 DEF PrefetchInv, TypeOK
  <2>2. req' \in ReqType /\ ctl' \in CtlType /\ queue' \in QueueType
    BY <1>1, NothingLeft DEF ReqType, CtlType, QueueType
  <2>3. mem' \in Int /\ incs' \in Nat /\ faults' \in BOOLEAN
    <3>1. mem' \in Int
      BY <1>4
    <3>2. incs' \in Nat
      BY <1>1
    <3>3. faults' \in BOOLEAN
      BY <1>1
    <3> QED  BY <3>1, <3>2, <3>3
  <2> QED  BY <1>1, <1>3, <2>1, <2>2, <2>3, NothingLeft
           DEF TypeOK, HandleType, ReqType, CtlType, QueueType
<1>7. NoTaskState'
  BY <1>1, <1>3, <1>5 DEF NoTaskState
<1>8. SeekWindow'
  <2>1. handle'.seq - Bytes(handle'.window) = handle'.seq /\ Bytes(handle'.window) = 0
    BY <1>3, ChainEmpty
  <2> QED  BY <1>3, <2>1, ChainEmpty, Sizes DEF SeekWindow
<1>9. MemoryExact'
  BY <1>3, <1>4, <1>5 DEF MemoryExact
<1> QED  BY <1>5, <1>6, <1>7, <1>8, <1>9
         DEF PrefetchInv, Reading, Position, Windows, Task, Stream

LEMMA OpenInv ==
    ASSUME PrefetchInv, Open
    PROVE  PrefetchInv'
<1>1. /\ ~handle.open /\ handle' = NewHandle /\ mem' = mem + SeekReservation
      /\ UNCHANGED <<initial, req, ctl, queue, incs, prod, others, faults>>
  BY DEF Open
<1>2. ~ctl.active /\ req.pc = "idle" /\ ctl = NoTask
  BY <1>1 DEF PrefetchInv, NoTaskState, TypeOK
<1>3. /\ handle' \in HandleType /\ handle'.seq = 0 /\ handle'.window = <<>> /\ handle'.open
  <2>1. <<>> \in Seq(Ranges) /\ 0 \in 0..Size /\ Chunk \in Nat \ {0}
    BY ChainEmpty, Sizes
  <2> QED  BY <1>1, <2>1 DEF NewHandle, HandleType
<1>4. mem' = SeekReservation /\ SeekReservation \in Nat
  BY <1>1, <1>2, SeekReservationHoldsAPart DEF PrefetchInv, MemoryExact
<1>5. TypeOK'
  BY <1>1, <1>3, <1>4 DEF PrefetchInv, TypeOK, HandleType
<1>6. NoTaskState'
  BY <1>1, <1>2, <1>3 DEF PrefetchInv, NoTaskState
<1>7. SeekWindow'
  <2>1. handle'.seq - Bytes(handle'.window) = handle'.seq /\ Bytes(handle'.window) = 0
    BY <1>3, ChainEmpty
  <2> QED  BY <1>3, <2>1, ChainEmpty, Sizes DEF SeekWindow
<1>8. MemoryExact'
  <2>1. SeekReservation' = SeekReservation
    BY DEF SeekReservation
  <2> QED  BY <1>1, <1>2, <1>3, <1>4, <2>1 DEF MemoryExact
<1> QED  BY <1>1, <1>2, <1>5, <1>6, <1>7, <1>8
         DEF PrefetchInv, Reading, Position, Windows, Task, Stream

LEMMA UnchangedInv ==
    ASSUME PrefetchInv, others' \in Others,
           UNCHANGED <<initial, handle, req, ctl, queue, incs, prod, mem, faults>>
    PROVE  PrefetchInv'
<1>1. TypeOK'
  BY DEF PrefetchInv, TypeOK
<1>2. NoTaskState' /\ Reading' /\ Position'
  BY DEF PrefetchInv, NoTaskState, Reading, Position
<1>3. Windows'
  BY DEF PrefetchInv, Windows, LargestWindow, InitialWindow
<1>4. Task' /\ Stream'
  BY DEF PrefetchInv, Task, Stream, SecondStart
<1>5. SeekWindow' /\ MemoryExact'
  BY DEF PrefetchInv, SeekWindow, MemoryExact
<1> QED  BY <1>1, <1>2, <1>3, <1>4, <1>5 DEF PrefetchInv

LEMMA NextInv ==
    ASSUME PrefetchInv, [Next]_vars
    PROVE  PrefetchInv'
<1>1. CASE Consume
  BY <1>1, SpawnInv, TakeFrontInv, TakeReceivedInv, ReadFailsInv, GrowInv, ScaleDownInv,
     KeepWindowInv, ReadCorruptInv DEF Consume
<1>2. CASE Produce
  BY <1>2, GetObjectInv, DeliverInv, RequestFailsInv, BodyEndsEarlyInv, PushInv, CountInv,
     AwaitWindowInv, FirstWasAllInv, FirstWasShortInv, SecondRequestInv DEF Produce
<1>3. CASE \E off \in 0..Size, len \in Lengths : Read(off, len)
  BY <1>3, ReadInv
<1>4. CASE Close \/ Open
  BY <1>4, CloseInv, OpenInv
<1>5. CASE OthersReserve
  BY <1>5, UnchangedInv DEF OthersReserve
<1>6. CASE UNCHANGED vars
  BY <1>6, UnchangedInv DEF vars, PrefetchInv, TypeOK
<1> QED  BY <1>1, <1>2, <1>3, <1>4, <1>5, <1>6 DEF Next

LEMMA PrefetchInvariant == Spec => []PrefetchInv
<1>1. Init => PrefetchInv
  BY InitInv
<1>2. PrefetchInv /\ [Next]_vars => PrefetchInv'
  BY NextInv
<1> QED  BY <1>1, <1>2, PTL DEF Spec

-----------------------------------------------------------------------------
\* What the invariant shows

LEMMA ChainCovers ==
    ASSUME NEW parts \in Seq(Ranges), NEW from \in Int, NEW to \in Int,
           WholeChain(parts, from, to)
    PROVE  Covers(parts, from, to)
<1>1. /\ \A i \in 0..Len(parts) : Sums(parts)[i] = At(parts, from, i) - from
      /\ Bytes(parts) = to - from
  BY Telescope
<1>2. from + Bytes(parts) = to
  BY <1>1
<1>3. ASSUME NEW i \in 1..Len(parts) PROVE parts[i].off = from + Sums(parts)[i - 1]
  <2>1. Len(parts) \in Nat
    BY RangesType
  <2>2. i - 1 \in 0..Len(parts)
    BY <2>1
  <2>3. At(parts, from, i - 1) \in Int
    BY <2>2, AtType
  <2>4. Sums(parts)[i - 1] = At(parts, from, i - 1) - from
    BY <1>1, <2>2
  <2>5. parts[i].off = At(parts, from, i - 1)
    BY DEF WholeChain, Chain
  <2> QED  BY <2>3, <2>4, <2>5
<1> QED  BY <1>2, <1>3 DEF Covers

LEMMA QueueFromInv ==
    ASSUME PrefetchInv
    PROVE  QueueContinues
<1>1. /\ queue.front \in Seq(Ranges) /\ queue.recv \in Seq(Ranges) /\ handle.window \in Seq(Ranges)
      /\ handle.seq \in Int /\ prod.off \in Int
  BY DEF PrefetchInv, TypeOK
<1>2. ASSUME ctl.active PROVE Covers(Data(queue.front \o queue.recv), handle.seq, prod.off)
  <2>1. PICK m \in 0..Size, k \in 0..Len(queue.recv) :
            /\ WholeChain(queue.front, handle.seq, m)
            /\ Chain(queue.recv, k, m, prod.off)
            /\ \/ k = Len(queue.recv)
               \/ k + 1 = Len(queue.recv) /\ queue.recv[Len(queue.recv)] = Failure
    BY <1>2 DEF PrefetchInv, Stream
  <2>2. PICK parts, n : parts = queue.front \o queue.recv /\ n = Len(queue.front)
    OBVIOUS
  <2>3. /\ parts \in Seq(Ranges) /\ Len(parts) = n + Len(queue.recv)
        /\ Chain(parts, n + k, handle.seq, prod.off)
    <3>1. m \in Int
      OBVIOUS
    <3> QED  BY <1>1, <2>1, <2>2, <3>1, ChainConcat
  <2>4. n \in Nat /\ Len(queue.recv) \in Nat /\ Len(parts) \in Nat /\ k \in Nat
    <3>1. n \in Nat /\ Len(queue.recv) \in Nat
      BY <1>1, <2>2, RangesType
    <3>2. Len(parts) \in Nat
      BY <2>3, RangesType
    <3>3. k \in Nat
      BY <3>1
    <3> QED  BY <3>1, <3>2, <3>3
  <2>5. CASE k = Len(queue.recv)
    <3>1. WholeChain(parts, handle.seq, prod.off)
      BY <2>3, <2>5 DEF WholeChain
    <3>2. ASSUME parts # <<>> PROVE Last(parts) # Failure
      <4>1. Len(parts) \in 1..Len(parts)
        BY <2>3, <2>4, <3>2
      <4>2. parts[Len(parts)].len > 0
        BY <3>1, <4>1 DEF WholeChain, Chain
      <4> QED  BY <4>2 DEF Last, Failure
    <3>3. Data(parts) = parts
      BY <3>2 DEF Data
    <3> QED  BY <1>1, <2>2, <2>3, <3>1, <3>3, ChainCovers
  <2>6. CASE k + 1 = Len(queue.recv) /\ queue.recv[Len(queue.recv)] = Failure
    <3>1. /\ Len(parts) = n + k + 1 /\ Len(parts) - 1 = n + k /\ n + k \in Nat
          /\ Len(parts) \in 1..n + Len(queue.recv)
          /\ ~(Len(parts) <= n) /\ Len(parts) - n = Len(queue.recv)
      BY <2>3, <2>4, <2>6
    <3>2. parts[Len(parts)] = queue.recv[Len(parts) - n]
      BY <1>1, <2>2, <3>1, ConcatProperties
    <3>3. parts # <<>> /\ Last(parts) = Failure
      BY <2>3, <2>6, <3>1, <3>2 DEF Last
    <3>4. Data(parts) = SubSeq(parts, 1, n + k)
      BY <3>1, <3>3 DEF Data, Front
    <3>5. n + k \in 0..n + k
      BY <3>1
    <3>6. /\ SubSeq(parts, 1, n + k) \in Seq(Ranges)
          /\ WholeChain(SubSeq(parts, 1, n + k), handle.seq, At(parts, handle.seq, n + k))
      BY <1>1, <2>3, <3>5, ChainPrefix
    <3>7. At(parts, handle.seq, n + k) = prod.off
      BY <2>3 DEF Chain
    <3> QED  BY <1>1, <2>2, <3>4, <3>6, <3>7, ChainCovers
  <2> QED  BY <2>1, <2>5, <2>6
<1>3. /\ Covers(handle.window, handle.seq - Bytes(handle.window), handle.seq)
      /\ Bytes(handle.window) <= SeekMax
  <2>1. /\ WholeChain(handle.window, handle.seq - Bytes(handle.window), handle.seq)
        /\ Bytes(handle.window) \in Nat /\ Bytes(handle.window) <= SeekMax
    BY DEF PrefetchInv, SeekWindow
  <2>2. handle.seq - Bytes(handle.window) \in Int
    BY <1>1, <2>1
  <2> QED  BY <1>1, <2>1, <2>2, ChainCovers
<1> QED  BY <1>2, <1>3 DEF QueueContinues

LEMMA MemoryFromInv ==
    ASSUME PrefetchInv
    PROVE  MemoryAccounted
<1>1. SeekReservation \in Nat /\ SeekReservation >= PartSize /\ PartSize \in Nat
  BY SeekReservationHoldsAPart, Sizes
<1>2. CASE ctl.active
  <2>1. mem = SeekReservation + (ctl.wend - handle.seq)
    BY <1>2 DEF PrefetchInv, NoTaskState, MemoryExact
  <2>2. /\ prod.off - prod.lim < PartSize /\ prod.lim + incs = ctl.wend
        /\ prod.lim \in Nat /\ incs \in Nat /\ ctl.wend \in Nat
    BY <1>2 DEF PrefetchInv, TypeOK, Task, Windows
  <2>3. handle.seq <= prod.off /\ handle.seq \in Nat /\ prod.off \in Nat
    BY <1>2, ReaderBehind
  <2>4. handle.seq - ctl.wend < PartSize
    BY <1>1, <2>2, <2>3
  <2>5. mem >= 0
    BY <1>1, <2>1, <2>2, <2>3, <2>4
  <2> QED  BY <2>5 DEF PrefetchInv, MemoryExact, MemoryAccounted
<1>3. CASE ~ctl.active
  <2>1. mem = (IF handle.open THEN SeekReservation ELSE 0) + 0
    BY <1>3 DEF PrefetchInv, MemoryExact
  <2>2. mem >= 0
    BY <1>1, <2>1
  <2> QED  BY <2>2 DEF PrefetchInv, MemoryExact, MemoryAccounted
<1> QED  BY <1>2, <1>3

LEMMA BoundsFromInv ==
    ASSUME PrefetchInv
    PROVE  BufferBounded
<1>1. SUFFICES ASSUME ctl.active PROVE /\ prod.off - prod.lim < PartSize
                                       /\ prod.lim + incs = ctl.wend
                                       /\ ctl.wend - handle.seq <= LargestWindow + PartSize + SeekMax
  BY DEF BufferBounded, LargestWindow
<1>2. prod.off - prod.lim < PartSize
  BY <1>1 DEF PrefetchInv, Task
<1>3. /\ prod.lim + incs = ctl.wend
      /\ ctl.wend - (handle.seq - Bytes(handle.window)) <= LargestWindow + PartSize + SeekMax
  BY <1>1 DEF PrefetchInv, Windows
<1>4. PICK b \in Nat : b = Bytes(handle.window)
  BY DEF PrefetchInv, SeekWindow
<1>5. ctl.wend \in Nat /\ handle.seq \in Nat /\ LargestWindow \in Nat
      /\ PartSize \in Nat /\ SeekMax \in Nat
  BY WindowSizes, Sizes DEF PrefetchInv, TypeOK
<1>6. ctl.wend - (handle.seq - b) <= LargestWindow + PartSize + SeekMax
  BY <1>3, <1>4
<1>7. ctl.wend - handle.seq <= LargestWindow + PartSize + SeekMax
  BY <1>5, <1>6
<1> QED  BY <1>2, <1>3, <1>7

\* The variables of the prefetcher keep their types: no offset leaves the
\* object, no part taken is larger than what is wanted.
THEOREM PrefetchTypeCorrect == Spec => []TypeOK
<1>1. PrefetchInv => TypeOK
  BY DEF PrefetchInv
<1> QED  BY <1>1, PrefetchInvariant, PTL

\* For every object, part size, window and sequence of reads, the part queue
\* continues where the last read ended, up to what the task has produced
\* (PartQueue::read, push_front), and the seek window ends there.
THEOREM ReadsAreContiguous == Spec => []QueueContinues
<1>1. PrefetchInv => QueueContinues
  BY QueueFromInv
<1> QED  BY <1>1, PrefetchInvariant, PTL

\* The memory reserved for a handle is exactly its read window and its seek
\* window, never negative, and nothing once it is closed
\* (BackpressureController::drop, DataRead, push_front's reservation).
THEOREM MemoryIsExact == Spec => []MemoryAccounted
<1>1. PrefetchInv => MemoryAccounted
  BY MemoryFromInv
<1> QED  BY <1>1, PrefetchInvariant, PTL

\* The task is less than a part ahead of its window, and the window not more
\* than the largest one, a part and the seek window ahead of the reader.
THEOREM BuffersAreBounded == Spec => []BufferBounded
<1>1. PrefetchInv => BufferBounded
  BY BoundsFromInv
<1> QED  BY <1>1, PrefetchInvariant, PTL

\* A read fails only if a request of its task did: without one the task has
\* always produced, or goes on to produce, what the read wants.
THEOREM FailuresHaveCauses == Spec => []ErrorsHaveCauses
<1>1. PrefetchInv => ErrorsHaveCauses
  BY FailureHasCause
<1> QED  BY <1>1, PrefetchInvariant, PTL
=============================================================================
