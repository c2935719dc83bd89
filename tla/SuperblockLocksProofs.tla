------------------------ MODULE SuperblockLocksProofs -----------------------
(***************************************************************************)
(* The operations of the Superblock never wait for each other in a circle, *)
(* for any tree, any number of threads and any operations, except forget   *)
(* together with rename or opendir: these take the lock of the inode map   *)
(* and that of a directory in opposite orders.                             *)
(***************************************************************************)
EXTENDS SuperblockLocks, TLAPS, FiniteSetTheorems, SequenceTheorems, WellFoundedInduction

-----------------------------------------------------------------------------
\* The order in which locks are taken.  Directories from the root down, then
\* a file; the inode map last or, when forget is among the operations, first.
MapLast == "forget" \notin Ops

Before(a, b) ==
    \/ a \in Dirs /\ b \in Dirs /\ a < b
    \/ a \in Dirs /\ b \in Files
    \/ MapLast /\ a \in Dirs \cup Files /\ b = Inodes
    \/ ~MapLast /\ a = Inodes /\ b \in Dirs \cup Files

\* forget runs with neither of the operations that it can deadlock with.
OneOrder == MapLast \/ ("rename" \notin Ops /\ "opendir" \notin Ops)

Steps == [do : {"read", "write", "drop"}, lock : Lock]

\* p drops lock l between its steps k and i.
DropsBetween(p, l, k, i) == \E j \in DOMAIN p : k < j /\ j < i /\ p[j] = Drop(l)

\* A program that has locked H takes a lock only after those that it still
\* holds, in the order.
AfterHeld(H, p) ==
    \A i \in DOMAIN p : p[i].do # "drop" =>
        \A l \in H : DropsBetween(p, l, 0, i) \/ Before(l, p[i].lock)

AfterTaken(p) ==
    \A k, i \in DOMAIN p : k < i /\ p[k].do # "drop" /\ p[i].do # "drop" =>
        DropsBetween(p, p[k].lock, k, i) \/ Before(p[k].lock, p[i].lock)

\* It drops in the end what it holds and what it takes.
DropsHeld(H, p) == \A l \in H : DropsBetween(p, l, 0, Len(p) + 1)

DropsTaken(p) == \A k \in DOMAIN p : p[k].do # "drop" => DropsBetween(p, p[k].lock, k, Len(p) + 1)

Locks(H) == {h.lock : h \in H}

\* The inductive invariant: what a thread still does is in the order, given
\* what it holds; between two programs a thread holds nothing.
TodoType == todo \in [Threads -> Seq(Steps)]
HeldType == held \in [Threads -> SUBSET Steps]
ThreadOrdered(t) ==
    /\ AfterHeld(Locks(held[t]), todo[t]) /\ DropsHeld(Locks(held[t]), todo[t])
    /\ AfterTaken(todo[t]) /\ DropsTaken(todo[t])

OrderInv == TodoType /\ HeldType /\ \A t \in Threads : ThreadOrdered(t)

-----------------------------------------------------------------------------
\* The order of the locks is a strict order.
LEMMA BeforeStrict ==
    /\ \A a \in Lock : ~Before(a, a)
    /\ \A a, b, c \in Lock : Before(a, b) /\ Before(b, c) => Before(a, c)
  BY LocksAssumption DEF Before, Lock, Inodes

\* A directory or file comes after the directory it is in.
LEMMA ParentBefore ==
    ASSUME NEW c \in Entries
    PROVE  /\ Parent[c] \in Dirs /\ c \in Lock /\ Parent[c] \in Lock
           /\ Before(Parent[c], c)
  BY LocksAssumption DEF Entries, Before, Lock, Inodes

\* There is no set of locks of which each comes before another one.
LEMMA OrderFinite ==
    ASSUME NEW L \in SUBSET Lock, \A l \in L : \E m \in L : Before(l, m)
    PROVE  L = {}
  <1> DEFINE Later(l) == {m \in L : Before(l, m)}
             N == {Cardinality(Later(l)) : l \in L}
             Less == OpToRel(<, Nat)
  <1>1. IsFiniteSet(L)
    <2>1. IsFiniteSet({Inodes})
      BY FS_Singleton
    <2>2. IsFiniteSet({Inodes} \cup (Dirs \cup Files))
      BY <2>1, LocksAssumption, FS_Union
    <2>3. L \subseteq {Inodes} \cup (Dirs \cup Files)
      BY DEF Lock
    <2> QED BY <2>2, <2>3, FS_Subset
  <1>2. \A l \in L : IsFiniteSet(Later(l))
    BY <1>1, FS_Subset
  <1>3. \A l \in L : Cardinality(Later(l)) \in Nat
    BY <1>2, FS_CardinalityType
  <1>4. ASSUME NEW l \in L PROVE \E m \in L : Cardinality(Later(m)) < Cardinality(Later(l))
    <2>1. PICK m \in L : Before(l, m)
      OBVIOUS
    <2>2. Later(m) \subseteq Later(l)
      BY <2>1, BeforeStrict
    <2>3. m \in Later(l) /\ m \notin Later(m)
      BY <2>1, BeforeStrict
    <2> HIDE DEF Later
    <2>4. Cardinality(Later(m)) <= Cardinality(Later(l)) /\ Cardinality(Later(m)) # Cardinality(Later(l))
      BY <1>2, <2>2, <2>3, FS_Subset
    <2> QED BY <2>4, <1>3
  <1> HIDE DEF Later
  <1>5. SUFFICES ASSUME L # {} PROVE FALSE
    OBVIOUS
  <1>6. N # {} /\ N \subseteq Nat
    BY <1>3, <1>5
  <1>7. PICK n \in N : \A x \in N : <<x, n>> \notin Less
    <2> HIDE DEF N
    <2>1. IsWellFoundedOn(Less, Nat)
      BY NatLessThanWellFounded
    <2> HIDE DEF Less
    <2> QED BY <1>6, <2>1, WFMin
  <1>8. PICK l \in L : n = Cardinality(Later(l))
    OBVIOUS
  <1>9. PICK m \in L : Cardinality(Later(m)) < n
    BY <1>4, <1>8
  <1> QED BY <1>3, <1>7, <1>8, <1>9 DEF OpToRel

-----------------------------------------------------------------------------
\* A program is a legal one: steps, in the order.
Legal(p) == p \in Seq(Steps) /\ AfterTaken(p) /\ DropsTaken(p)

LEMMA StepType ==
    ASSUME NEW l \in Lock
    PROVE  /\ Read(l) \in Steps /\ Write(l) \in Steps /\ Drop(l) \in Steps
           /\ Read(l).do = "read" /\ Write(l).do = "write" /\ Drop(l).do = "drop"
           /\ Read(l).lock = l /\ Write(l).lock = l /\ Drop(l).lock = l
  BY DEF Read, Write, Drop, Steps

LEMMA AloneLegal ==
    ASSUME NEW l \in Lock, NEW p \in Alone(l)
    PROVE  Legal(p)
  <1>1. PICK s \in {Read(l), Write(l)} : p = <<s, Drop(l)>>
    BY DEF Alone
  <1>2. s \in Steps /\ s.lock = l /\ Drop(l) \in Steps /\ Drop(l).do = "drop"
    BY StepType
  <1>3. p \in Seq(Steps) /\ DOMAIN p = 1 .. 2 /\ Len(p) = 2 /\ p[1] = s /\ p[2] = Drop(l)
    BY <1>1, <1>2
  <1> QED BY <1>2, <1>3 DEF Legal, AfterTaken, DropsTaken, DropsBetween

\* One lock under another.
LEMMA NestedLegal ==
    ASSUME NEW a \in Lock, NEW b \in Lock, Before(a, b),
           NEW s \in Steps, s.do # "drop", s.lock = a,
           NEW r \in Steps, r.do # "drop", r.lock = b
    PROVE  Legal(<<s, r, Drop(b), Drop(a)>>)
  <1> DEFINE p == <<s, r, Drop(b), Drop(a)>>
  <1>1. /\ p \in Seq(Steps) /\ DOMAIN p = 1 .. 4 /\ Len(p) = 4
        /\ p[1] = s /\ p[2] = r /\ p[3] = Drop(b) /\ p[4] = Drop(a)
    BY StepType
  <1> HIDE DEF p
  <1>2. \A i \in DOMAIN p : p[i].do # "drop" => i \in {1, 2}
    BY <1>1, StepType
  <1>3. AfterTaken(p)
    BY <1>1, <1>2 DEF AfterTaken
  <1>4. DropsBetween(p, a, 1, 5) /\ DropsBetween(p, b, 2, 5)
    BY <1>1 DEF DropsBetween
  <1>5. DropsTaken(p)
    BY <1>1, <1>2, <1>4 DEF DropsTaken
  <1> QED BY <1>1, <1>3, <1>5 DEF Legal, p

LEMMA LookupLegal ==
    ASSUME NEW c \in Entries, NEW p \in {CacheLookup(c), FastPath(c), SlowPath(c)}
    PROVE  Legal(p)
  <1>1. /\ Parent[c] \in Lock /\ c \in Lock /\ Before(Parent[c], c)
    BY ParentBefore
  <1> QED BY <1>1, StepType, NestedLegal DEF CacheLookup, FastPath, SlowPath

LEMMA ForgetLegal ==
    ASSUME NEW c \in Entries, "forget" \in Ops
    PROVE  Legal(Forget(c))
  <1>1. /\ Parent[c] \in Lock /\ Inodes \in Lock /\ Before(Inodes, Parent[c])
    BY ParentBefore DEF Before, MapLast, Lock
  <1> QED BY <1>1, StepType, NestedLegal DEF Forget

LEMMA OpendirLegal ==
    ASSUME NEW c \in Entries, MapLast
    PROVE  Legal(Opendir(c))
  <1>1. /\ Parent[c] \in Lock /\ c \in Lock /\ Inodes \in Lock
        /\ Before(Parent[c], c) /\ Before(Parent[c], Inodes)
    BY ParentBefore DEF Before, Lock
  <1> DEFINE p == Opendir(c)
  <1>2. /\ p \in Seq(Steps) /\ DOMAIN p = 1 .. 6 /\ Len(p) = 6
        /\ p[1] = Read(Parent[c]) /\ p[2] = Read(Inodes) /\ p[3] = Drop(Inodes)
        /\ p[4] = Read(c) /\ p[5] = Drop(c) /\ p[6] = Drop(Parent[c])
    BY <1>1, StepType DEF Opendir
  <1> HIDE DEF p
  <1>3. \A i \in DOMAIN p : p[i].do # "drop" => i \in {1, 2, 4}
    BY <1>1, <1>2, StepType
  <1>4. p[1].lock = Parent[c] /\ p[2].lock = Inodes /\ p[4].lock = c
    BY <1>1, <1>2, StepType
  <1>5. DropsBetween(p, Parent[c], 1, 7) /\ DropsBetween(p, Inodes, 2, 4) /\ DropsBetween(p, Inodes, 2, 7)
        /\ DropsBetween(p, c, 4, 7)
    BY <1>2 DEF DropsBetween
  <1>6. AfterTaken(p)
    BY <1>1, <1>3, <1>4, <1>5 DEF AfterTaken
  <1>7. DropsTaken(p)
    BY <1>2, <1>3, <1>4, <1>5 DEF DropsTaken
  <1> QED BY <1>2, <1>6, <1>7 DEF Legal, p

LEMMA RenameLegal ==
    ASSUME NEW c \in Files, NEW q \in Dirs, MapLast
    PROVE  Legal(Rename(c, q))
  <1> DEFINE d == Parent[c]
             first == IF d > q THEN q ELSE d
             second == IF d > q THEN d ELSE q
             p == Rename(c, q)
  <1>1. /\ c \in Entries /\ d \in Dirs /\ d \in Lock /\ q \in Lock /\ c \in Lock /\ Inodes \in Lock
    BY ParentBefore, LocksAssumption DEF Entries, Lock
  <1>2. \A e \in Dirs : Before(e, c) /\ Before(e, Inodes)
    BY DEF Before
  <1>3. CASE d = q
    <2>1. /\ p \in Seq(Steps) /\ DOMAIN p = 1 .. 6 /\ Len(p) = 6
          /\ p[1] = Write(d) /\ p[2] = Read(c) /\ p[3] = Drop(c)
          /\ p[4] = Write(Inodes) /\ p[5] = Drop(Inodes) /\ p[6] = Drop(d)
      BY <1>1, <1>3, StepType DEF Rename
    <2> HIDE DEF p, d
    <2>2. \A i \in DOMAIN p : p[i].do # "drop" => i \in {1, 2, 4}
      BY <1>1, <2>1, StepType
    <2>3. p[1].lock = d /\ p[2].lock = c /\ p[4].lock = Inodes
      BY <1>1, <2>1, StepType
    <2>4. /\ DropsBetween(p, d, 1, 7) /\ DropsBetween(p, c, 2, 4) /\ DropsBetween(p, c, 2, 7)
          /\ DropsBetween(p, Inodes, 4, 7)
      BY <2>1 DEF DropsBetween
    <2>5. AfterTaken(p)
      BY <1>1, <1>2, <2>2, <2>3, <2>4 DEF AfterTaken
    <2>6. DropsTaken(p)
      BY <2>1, <2>2, <2>3, <2>4 DEF DropsTaken
    <2> QED BY <2>1, <2>5, <2>6 DEF Legal, p
  <1>4. CASE d # q
    <2>1. first \in Dirs /\ second \in Dirs /\ first \in Lock /\ second \in Lock /\ Before(first, second)
      BY <1>1, <1>4, LocksAssumption DEF Before
    <2>2. Parents(d, q) = <<first, second>>
      BY DEF Parents
    <2>3. /\ p \in Seq(Steps) /\ DOMAIN p = 1 .. 8 /\ Len(p) = 8
          /\ p[1] = Write(first) /\ p[2] = Write(second) /\ p[3] = Read(c) /\ p[4] = Drop(c)
          /\ p[5] = Write(Inodes) /\ p[6] = Drop(Inodes) /\ p[7] = Drop(d) /\ p[8] = Drop(q)
      <3> HIDE DEF first, second
      <3> QED BY <1>1, <1>4, <2>1, <2>2, StepType DEF Rename
    <2>4. {first, second} = {d, q}
      OBVIOUS
    <2> HIDE DEF p, d, first, second
    <2>5. \A i \in DOMAIN p : p[i].do # "drop" => i \in {1, 2, 3, 5}
      BY <1>1, <2>3, StepType
    <2>6. p[1].lock = first /\ p[2].lock = second /\ p[3].lock = c /\ p[5].lock = Inodes
      BY <1>1, <2>1, <2>3, StepType
    <2>7. /\ DropsBetween(p, c, 3, 5) /\ DropsBetween(p, c, 3, 9) /\ DropsBetween(p, Inodes, 5, 9)
      BY <2>3 DEF DropsBetween
    <2>8. \A l \in {d, q}, k \in {1, 2} : DropsBetween(p, l, k, 9)
      BY <2>3 DEF DropsBetween
    <2>9. AfterTaken(p)
      BY <1>1, <1>2, <2>1, <2>5, <2>6, <2>7 DEF AfterTaken
    <2>10. DropsTaken(p)
      <3>1. DropsBetween(p, first, 1, 9) /\ DropsBetween(p, second, 2, 9)
        BY <2>4, <2>8
      <3> QED BY <2>3, <2>5, <2>6, <2>7, <3>1 DEF DropsTaken
    <2> QED BY <2>3, <2>9, <2>10 DEF Legal, p
  <1> QED BY <1>3, <1>4

\* The entries of a concatenation of programs.
LEMMA ConcatEntries ==
    ASSUME NEW a \in Seq(Steps), NEW b \in Seq(Steps)
    PROVE  /\ a \o b \in Seq(Steps) /\ Len(a \o b) = Len(a) + Len(b)
           /\ \A i \in 1 .. Len(a) : (a \o b)[i] = a[i]
           /\ \A i \in 1 .. Len(b) : (a \o b)[Len(a) + i] = b[i]
  OBVIOUS

LEMMA FinishLegal ==
    ASSUME NEW c \in Files, NEW top, NEW p \in FinishWriting(c, top)
    PROVE  Legal(p)
  <1> DEFINE S == {d \in Dirs : d \in Ancestors[Parent[c]] /\ d >= top}
  <1>1. PICK dirs \in Ascending(S) :
            p = [i \in DOMAIN dirs |-> Write(dirs[i])] \o <<Write(c), Drop(c)>> \o [i \in DOMAIN dirs |-> Drop(dirs[i])]
    BY DEF FinishWriting
  <1> DEFINE n == Cardinality(S)
             A == [i \in DOMAIN dirs |-> Write(dirs[i])]
             B == <<Write(c), Drop(c)>>
             C == [i \in DOMAIN dirs |-> Drop(dirs[i])]
  <1>2. n \in Nat /\ S \subseteq Dirs
    <2>1. S \subseteq Dirs \cup Files
      OBVIOUS
    <2> HIDE DEF S
    <2>2. IsFiniteSet(S)
      BY <2>1, LocksAssumption, FS_Subset
    <2> QED BY <2>2, FS_CardinalityType DEF S
  <1>3. /\ dirs \in [1 .. n -> Dirs] /\ DOMAIN dirs = 1 .. n
        /\ \A i, j \in 1 .. n : i < j => dirs[i] < dirs[j]
    BY <1>2 DEF Ascending
  <1> HIDE DEF n, S
  <1>4. c \in Lock /\ \A i \in 1 .. n : dirs[i] \in Lock /\ dirs[i] \in Dirs
    BY <1>3 DEF Lock
  <1>5. /\ A \in Seq(Steps) /\ Len(A) = n /\ \A i \in 1 .. n : A[i] = Write(dirs[i])
        /\ C \in Seq(Steps) /\ Len(C) = n /\ \A i \in 1 .. n : C[i] = Drop(dirs[i])
    BY <1>2, <1>3, <1>4, StepType
  <1>6. B \in Seq(Steps) /\ Len(B) = 2 /\ B[1] = Write(c) /\ B[2] = Drop(c)
    BY <1>4, StepType
  <1> HIDE DEF A, B, C
  <1>7. p = (A \o B) \o C
    BY <1>1 DEF A, B, C
  <1> DEFINE D == A \o B
  <1>8. /\ D \in Seq(Steps) /\ Len(D) = n + 2
        /\ \A i \in 1 .. n : D[i] = Write(dirs[i])
        /\ D[n + 1] = Write(c) /\ D[n + 2] = Drop(c)
    <2>1. D \in Seq(Steps) /\ Len(D) = n + 2
      <3>1. D \in Seq(Steps)
        BY <1>5, <1>6, ConcatEntries
      <3>2. Len(D) = Len(A) + Len(B)
        BY <1>5, <1>6, ConcatEntries
      <3> HIDE DEF D
      <3> QED BY <1>5, <1>6, <3>1, <3>2
    <2>2. \A i \in 1 .. Len(A) : D[i] = A[i]
      BY <1>5, <1>6, ConcatEntries
    <2>3. \A i \in 1 .. Len(B) : D[Len(A) + i] = B[i]
      BY <1>5, <1>6, ConcatEntries
    <2> HIDE DEF D
    <2>4. D[n + 1] = B[1] /\ D[n + 2] = B[2]
      BY <1>5, <1>6, <2>3
    <2> QED BY <1>5, <1>6, <2>1, <2>2, <2>4
  <1> HIDE DEF D
  <1>9. p = D \o C
    BY <1>7 DEF D
  <1>10. /\ p \in Seq(Steps) /\ DOMAIN p = 1 .. (n + 2 + n) /\ Len(p) = n + 2 + n
         /\ \A i \in 1 .. n : p[i] = Write(dirs[i])
         /\ p[n + 1] = Write(c) /\ p[n + 2] = Drop(c)
         /\ \A i \in 1 .. n : p[n + 2 + i] = Drop(dirs[i])
    <2>1. p \in Seq(Steps) /\ Len(p) = n + 2 + n
      <3>1. p \in Seq(Steps)
        BY <1>5, <1>8, <1>9, ConcatEntries
      <3>2. Len(p) = Len(D) + Len(C)
        BY <1>5, <1>8, <1>9, ConcatEntries
      <3> QED BY <1>5, <1>8, <3>1, <3>2
    <2>2. DOMAIN p = 1 .. (n + 2 + n)
      BY <2>1
    <2>3. \A i \in 1 .. (n + 2) : p[i] = D[i]
      BY <1>5, <1>8, <1>9, ConcatEntries
    <2>4. \A i \in 1 .. n : p[n + 2 + i] = C[i]
      <3>1. \A i \in 1 .. Len(C) : p[Len(D) + i] = C[i]
        BY <1>5, <1>8, <1>9, ConcatEntries, ZenonT(30)
      <3> QED BY <1>5, <1>8, <3>1
    <2>5. n + 1 \in 1 .. (n + 2) /\ n + 2 \in 1 .. (n + 2) /\ \A i \in 1 .. n : i \in 1 .. (n + 2)
      BY <1>2
    <2> QED BY <1>5, <1>8, <2>1, <2>2, <2>3, <2>4, <2>5
  <1>11. \A i \in DOMAIN p : p[i].do # "drop" => i \in 1 .. (n + 1)
    <2> SUFFICES ASSUME NEW i \in DOMAIN p, i > n + 1 PROVE p[i].do = "drop"
      BY <1>2, <1>10
    <2>1. CASE i = n + 2
      BY <1>4, <1>10, <2>1, StepType
    <2>2. CASE i > n + 2
      <3>1. (i - (n + 2)) \in 1 .. n /\ i = n + 2 + (i - (n + 2))
        BY <1>2, <1>10, <2>2
      <3> QED BY <1>4, <1>10, <3>1, StepType
    <2> QED BY <2>1, <2>2, <1>2, <1>10
  <1>12. ASSUME NEW k \in DOMAIN p, NEW i \in DOMAIN p, k < i, p[k].do # "drop", p[i].do # "drop"
         PROVE  Before(p[k].lock, p[i].lock)
    <2>1. k \in 1 .. n /\ i \in 1 .. (n + 1)
      BY <1>2, <1>11, <1>12, <1>10
    <2>2. p[k].lock = dirs[k] /\ dirs[k] \in Dirs
      BY <1>4, <1>10, <2>1, StepType
    <2>3. CASE i = n + 1
      <3>1. p[i].lock = c
        BY <1>4, <1>10, <2>3, StepType
      <3> QED BY <2>2, <3>1 DEF Before
    <2>4. CASE i \in 1 .. n
      <3>1. p[i].lock = dirs[i] /\ dirs[i] \in Dirs
        BY <1>4, <1>10, <2>4, StepType
      <3> QED BY <1>3, <1>12, <2>1, <2>2, <2>4, <3>1 DEF Before
    <2> QED BY <1>2, <2>1, <2>3, <2>4
  <1>13. ASSUME NEW k \in DOMAIN p, p[k].do # "drop"
         PROVE  DropsBetween(p, p[k].lock, k, Len(p) + 1)
    <2>1. k \in 1 .. n \/ k = n + 1
      BY <1>2, <1>11, <1>13
    <2>2. CASE k = n + 1
      <3>1. p[k].lock = c /\ n + 2 \in DOMAIN p
        BY <1>2, <1>4, <1>10, <2>2, StepType
      <3> QED BY <1>2, <1>10, <2>2, <3>1 DEF DropsBetween
    <2>3. CASE k \in 1 .. n
      <3>1. p[k].lock = dirs[k] /\ n + 2 + k \in DOMAIN p /\ p[n + 2 + k] = Drop(dirs[k])
        BY <1>2, <1>4, <1>10, <2>3, StepType
      <3> QED BY <1>2, <1>10, <2>3, <3>1 DEF DropsBetween
    <2> QED BY <2>1, <2>2, <2>3
  <1> QED BY <1>10, <1>12, <1>13 DEF Legal, AfterTaken, DropsTaken

LEMMA ProgramsLegal ==
    ASSUME OneOrder, NEW p \in Programs
    PROVE  Legal(p)
  <1>1. \/ \E l \in Lock : p \in Alone(l)
        \/ \E c \in Entries : p \in {CacheLookup(c), FastPath(c), SlowPath(c)}
        \/ "rename" \in Ops /\ \E c \in Files, q \in Dirs : p = Rename(c, q)
        \/ \E c \in Files, d \in Tops : p \in FinishWriting(c, d)
        \/ "forget" \in Ops /\ \E c \in Entries : p = Forget(c)
        \/ "opendir" \in Ops /\ \E c \in Entries : p = Opendir(c)
    BY DEF Programs
  <1> QED BY <1>1, AloneLegal, LookupLegal, RenameLegal, FinishLegal, ForgetLegal, OpendirLegal DEF OneOrder

-----------------------------------------------------------------------------
\* A step of a program keeps it in the order.
LEMMA TailOrdered ==
    ASSUME NEW p \in Seq(Steps), p # <<>>, NEW H \in SUBSET Lock,
           AfterHeld(H, p), DropsHeld(H, p), AfterTaken(p), DropsTaken(p)
    PROVE  /\ Tail(p) \in Seq(Steps)
           /\ AfterTaken(Tail(p)) /\ DropsTaken(Tail(p))
           /\ Head(p).do # "drop" => /\ AfterHeld(H \cup {Head(p).lock}, Tail(p))
                                     /\ DropsHeld(H \cup {Head(p).lock}, Tail(p))
           /\ Head(p).do = "drop" => /\ AfterHeld(H \ {Head(p).lock}, Tail(p))
                                     /\ DropsHeld(H \ {Head(p).lock}, Tail(p))
  <1> DEFINE r == Tail(p)
  <1>1. /\ r \in Seq(Steps) /\ Head(p) = p[1] /\ p[1] \in Steps /\ 1 \in DOMAIN p /\ Len(r) \in Nat /\ Len(p) = Len(r) + 1
        /\ \A i \in DOMAIN r : i \in Nat /\ i >= 1 /\ i + 1 \in DOMAIN p /\ r[i] = p[i + 1]
        /\ \A i \in DOMAIN p : i \in Nat /\ i >= 1 /\ (i > 1 => i - 1 \in DOMAIN r /\ r[i - 1] = p[i])
    OBVIOUS
  <1> HIDE DEF r
  <1>2. ASSUME NEW l, NEW k \in Nat, NEW i \in Nat, DropsBetween(p, l, k + 1, i + 1)
        PROVE  DropsBetween(r, l, k, i)
    <2>1. PICK j \in DOMAIN p : k + 1 < j /\ j < i + 1 /\ p[j] = Drop(l)
      BY <1>2 DEF DropsBetween
    <2>2. j - 1 \in DOMAIN r /\ r[j - 1] = Drop(l) /\ k < j - 1 /\ j - 1 < i
      BY <1>1, <2>1
    <2> QED BY <2>2 DEF DropsBetween
  <1>3. ASSUME NEW l, NEW i \in Nat, p[1] # Drop(l), DropsBetween(p, l, 0, i + 1)
        PROVE  DropsBetween(r, l, 0, i)
    <2>1. PICK j \in DOMAIN p : 0 < j /\ j < i + 1 /\ p[j] = Drop(l)
      BY <1>3 DEF DropsBetween
    <2>2. j - 1 \in DOMAIN r /\ r[j - 1] = Drop(l) /\ 0 < j - 1 /\ j - 1 < i
      BY <1>1, <1>3, <2>1
    <2> QED BY <2>2 DEF DropsBetween
  <1>4. AfterTaken(r)
    <2> SUFFICES ASSUME NEW k \in DOMAIN r, NEW i \in DOMAIN r, k < i, r[k].do # "drop", r[i].do # "drop"
                 PROVE  DropsBetween(r, r[k].lock, k, i) \/ Before(r[k].lock, r[i].lock)
      BY DEF AfterTaken
    <2>1. DropsBetween(p, p[k + 1].lock, k + 1, i + 1) \/ Before(p[k + 1].lock, p[i + 1].lock)
      <3>1. /\ k + 1 \in DOMAIN p /\ i + 1 \in DOMAIN p /\ k + 1 < i + 1
            /\ p[k + 1].do # "drop" /\ p[i + 1].do # "drop"
        BY <1>1
      <3> QED BY <3>1 DEF AfterTaken
    <2>2. k \in Nat /\ i \in Nat /\ r[k] = p[k + 1] /\ r[i] = p[i + 1]
      BY <1>1
    <2> QED BY <1>2, <2>1, <2>2
  <1>5. ASSUME NEW l \in H, NEW i \in DOMAIN r, r[i].do # "drop", p[1] # Drop(l)
        PROVE  DropsBetween(r, l, 0, i) \/ Before(l, r[i].lock)
    <2>1. DropsBetween(p, l, 0, i + 1) \/ Before(l, p[i + 1].lock)
      BY <1>1, <1>5 DEF AfterHeld
    <2> QED BY <1>1, <1>3, <1>5, <2>1
  <1>6. ASSUME p[1].do # "drop" PROVE AfterHeld(H \cup {p[1].lock}, r)
    <2> SUFFICES ASSUME NEW i \in DOMAIN r, r[i].do # "drop", NEW l \in H \cup {p[1].lock}
                 PROVE  DropsBetween(r, l, 0, i) \/ Before(l, r[i].lock)
      BY DEF AfterHeld
    <2>1. p[1] # Drop(l)
      BY <1>6 DEF Drop
    <2>2. CASE l \in H
      BY <1>5, <2>1, <2>2
    <2>3. CASE l = p[1].lock
      <3>1. DropsBetween(p, l, 0 + 1, i + 1) \/ Before(l, p[i + 1].lock)
        <4>1. /\ 1 \in DOMAIN p /\ i + 1 \in DOMAIN p /\ 1 < i + 1 /\ p[i + 1].do # "drop" /\ 0 + 1 = 1
          BY <1>1
        <4> QED BY <1>6, <2>3, <4>1 DEF AfterTaken
      <3>2. i \in Nat /\ 0 \in Nat /\ r[i] = p[i + 1]
        BY <1>1
      <3> QED BY <1>2, <3>1, <3>2
    <2> QED BY <2>2, <2>3
  <1>7. ASSUME p[1].do = "drop" PROVE AfterHeld(H \ {p[1].lock}, r)
    <2> SUFFICES ASSUME NEW i \in DOMAIN r, r[i].do # "drop", NEW l \in H \ {p[1].lock}
                 PROVE  DropsBetween(r, l, 0, i) \/ Before(l, r[i].lock)
      BY DEF AfterHeld
    <2>1. p[1] # Drop(l)
      BY DEF Drop
    <2> QED BY <1>5, <2>1
  <1>8. DropsTaken(r)
    <2> SUFFICES ASSUME NEW k \in DOMAIN r, r[k].do # "drop"
                 PROVE  DropsBetween(r, r[k].lock, k, Len(r) + 1)
      BY DEF DropsTaken
    <2>1. DropsBetween(p, p[k + 1].lock, k + 1, Len(p) + 1)
      BY <1>1 DEF DropsTaken
    <2>2. k \in Nat /\ Len(r) + 1 \in Nat /\ r[k] = p[k + 1] /\ Len(p) + 1 = (Len(r) + 1) + 1
      BY <1>1
    <2> QED BY <1>2, <2>1, <2>2
  <1>9. ASSUME NEW l \in H, p[1] # Drop(l) PROVE DropsBetween(r, l, 0, Len(r) + 1)
    BY <1>1, <1>3, <1>9 DEF DropsHeld
  <1>10. ASSUME p[1].do # "drop" PROVE DropsHeld(H \cup {p[1].lock}, r)
    <2> SUFFICES ASSUME NEW l \in H \cup {p[1].lock} PROVE DropsBetween(r, l, 0, Len(r) + 1)
      BY DEF DropsHeld
    <2>1. p[1] # Drop(l)
      BY <1>10 DEF Drop
    <2>2. CASE l = p[1].lock
      <3>1. DropsBetween(p, l, 0 + 1, Len(p) + 1)
        BY <1>1, <1>10, <2>2 DEF DropsTaken
      <3> QED BY <1>1, <1>2, <3>1
    <2> QED BY <1>9, <2>1, <2>2
  <1>11. DropsHeld(H \ {p[1].lock}, r)
    <2> SUFFICES ASSUME NEW l \in H \ {p[1].lock} PROVE DropsBetween(r, l, 0, Len(r) + 1)
      BY DEF DropsHeld
    <2>1. p[1] # Drop(l)
      BY DEF Drop
    <2> QED BY <1>9, <2>1
  <1> QED BY <1>1, <1>4, <1>6, <1>7, <1>8, <1>10, <1>11 DEF r

LEMMA InitOrder == Init => OrderInv
  BY DEF Init, OrderInv, TodoType, HeldType, ThreadOrdered, Locks, AfterHeld, AfterTaken, DropsHeld, DropsTaken

LEMMA StartOrder ==
    ASSUME OneOrder, OrderInv, NEW t \in Threads, Start(t)
    PROVE  OrderInv'
  <1>1. PICK p \in Programs : todo' = [todo EXCEPT ![t] = p]
    BY DEF Start
  <1>2. p \in Seq(Steps) /\ AfterTaken(p) /\ DropsTaken(p)
    BY ProgramsLegal DEF Legal
  <1>3. held' = held /\ todo[t] = <<>>
    BY DEF Start
  <1>4. TodoType' /\ HeldType'
    BY <1>1, <1>2, <1>3 DEF OrderInv, TodoType, HeldType
  <1>5. Locks(held[t]) = {}
    <2>1. DropsHeld(Locks(held[t]), <<>>)
      BY <1>3 DEF OrderInv, ThreadOrdered
    <2> QED BY <2>1 DEF DropsHeld, DropsBetween
  <1>6. ASSUME NEW u \in Threads PROVE ThreadOrdered(u)'
    <2>1. CASE u = t
      <3>1. todo'[u] = p /\ held'[u] = held[t]
        BY <1>1, <1>3, <2>1 DEF OrderInv, TodoType
      <3>2. AfterHeld({}, p) /\ DropsHeld({}, p)
        BY DEF AfterHeld, DropsHeld
      <3> QED BY <1>2, <1>5, <3>1, <3>2 DEF ThreadOrdered
    <2>2. CASE u # t
      <3>1. todo'[u] = todo[u] /\ held'[u] = held[u]
        BY <1>1, <1>3, <2>2 DEF OrderInv, TodoType
      <3> QED BY <3>1 DEF ThreadOrdered, OrderInv
    <2> QED BY <2>1, <2>2
  <1> QED BY <1>4, <1>6 DEF OrderInv

LEMMA TakeOrder ==
    ASSUME OrderInv, NEW t \in Threads, Take(t)
    PROVE  OrderInv'
  <1> DEFINE s == Head(todo[t])
  <1>1. /\ todo[t] # <<>> /\ s.do # "drop"
        /\ held' = [held EXCEPT ![t] = @ \cup {s}]
        /\ todo' = [todo EXCEPT ![t] = Tail(@)]
    BY DEF Take, Wants
  <1>2. todo[t] \in Seq(Steps) /\ s \in Steps /\ held[t] \subseteq Steps
    BY <1>1 DEF OrderInv, TodoType, HeldType
  <1>3. Locks(held[t]) \in SUBSET Lock /\ Locks(held[t] \cup {s}) = Locks(held[t]) \cup {s.lock}
    BY <1>2 DEF Locks, Steps
  <1>4. /\ AfterHeld(Locks(held[t]), todo[t]) /\ DropsHeld(Locks(held[t]), todo[t])
        /\ AfterTaken(todo[t]) /\ DropsTaken(todo[t])
    BY DEF OrderInv, ThreadOrdered
  <1>5. /\ Tail(todo[t]) \in Seq(Steps)
        /\ AfterTaken(Tail(todo[t])) /\ DropsTaken(Tail(todo[t]))
        /\ AfterHeld(Locks(held[t]) \cup {s.lock}, Tail(todo[t]))
        /\ DropsHeld(Locks(held[t]) \cup {s.lock}, Tail(todo[t]))
    BY <1>1, <1>2, <1>3, <1>4, TailOrdered
  <1> HIDE DEF s
  <1>6. TodoType' /\ HeldType'
    BY <1>1, <1>2, <1>5 DEF OrderInv, TodoType, HeldType
  <1>7. ASSUME NEW u \in Threads PROVE ThreadOrdered(u)'
    <2>1. CASE u = t
      <3>1. todo'[u] = Tail(todo[t]) /\ held'[u] = held[t] \cup {s}
        BY <1>1, <2>1 DEF OrderInv, TodoType, HeldType
      <3> QED BY <1>3, <1>5, <3>1 DEF ThreadOrdered
    <2>2. CASE u # t
      <3>1. todo'[u] = todo[u] /\ held'[u] = held[u]
        BY <1>1, <2>2 DEF OrderInv, TodoType, HeldType
      <3> QED BY <3>1 DEF ThreadOrdered, OrderInv
    <2> QED BY <2>1, <2>2
  <1> QED BY <1>6, <1>7 DEF OrderInv

LEMMA ReleaseOrder ==
    ASSUME OrderInv, NEW t \in Threads, Release(t)
    PROVE  OrderInv'
  <1> DEFINE s == Head(todo[t])
             kept == {h \in held[t] : h.lock # s.lock}
  <1>1. /\ todo[t] # <<>> /\ s.do = "drop"
        /\ held' = [held EXCEPT ![t] = {h \in @ : h.lock # s.lock}]
        /\ todo' = [todo EXCEPT ![t] = Tail(@)]
    BY DEF Release
  <1>2. todo[t] \in Seq(Steps) /\ s \in Steps /\ held[t] \subseteq Steps
    BY <1>1 DEF OrderInv, TodoType, HeldType
  <1>3. Locks(held[t]) \in SUBSET Lock /\ Locks(kept) = Locks(held[t]) \ {s.lock}
    BY <1>2 DEF Locks, Steps
  <1>4. /\ AfterHeld(Locks(held[t]), todo[t]) /\ DropsHeld(Locks(held[t]), todo[t])
        /\ AfterTaken(todo[t]) /\ DropsTaken(todo[t])
    BY DEF OrderInv, ThreadOrdered
  <1>5. /\ Tail(todo[t]) \in Seq(Steps)
        /\ AfterTaken(Tail(todo[t])) /\ DropsTaken(Tail(todo[t]))
        /\ AfterHeld(Locks(held[t]) \ {s.lock}, Tail(todo[t]))
        /\ DropsHeld(Locks(held[t]) \ {s.lock}, Tail(todo[t]))
    BY <1>1, <1>2, <1>3, <1>4, TailOrdered
  <1> HIDE DEF s
  <1>6. TodoType' /\ HeldType'
    BY <1>1, <1>2, <1>5 DEF OrderInv, TodoType, HeldType
  <1>7. ASSUME NEW u \in Threads PROVE ThreadOrdered(u)'
    <2>1. CASE u = t
      <3>1. todo'[u] = Tail(todo[t]) /\ held'[u] = kept
        BY <1>1, <2>1 DEF OrderInv, TodoType, HeldType
      <3> HIDE DEF kept
      <3> QED BY <1>3, <1>5, <3>1 DEF ThreadOrdered
    <2>2. CASE u # t
      <3>1. todo'[u] = todo[u] /\ held'[u] = held[u]
        BY <1>1, <2>2 DEF OrderInv, TodoType, HeldType
      <3> QED BY <3>1 DEF ThreadOrdered, OrderInv
    <2> QED BY <2>1, <2>2
  <1> QED BY <1>6, <1>7 DEF OrderInv

-----------------------------------------------------------------------------
\* A thread that wants a lock holds only locks that come before it.
LEMMA HeldBeforeWanted ==
    ASSUME OrderInv, NEW t \in Threads, NEW s \in Wants(t), NEW h \in held[t]
    PROVE  Before(h.lock, s.lock)
  <1>1. todo[t] # <<>> /\ s = Head(todo[t]) /\ s.do # "drop" /\ todo[t] \in Seq(Steps)
    BY DEF Wants, OrderInv, TodoType
  <1>2. 1 \in DOMAIN todo[t] /\ s = todo[t][1] /\ DOMAIN todo[t] \subseteq Nat
    BY <1>1
  <1>3. h.lock \in Locks(held[t])
    BY DEF Locks
  <1>4. DropsBetween(todo[t], h.lock, 0, 1) \/ Before(h.lock, s.lock)
    BY <1>1, <1>2, <1>3 DEF OrderInv, ThreadOrdered, AfterHeld
  <1>5. ~DropsBetween(todo[t], h.lock, 0, 1)
    BY <1>2 DEF DropsBetween
  <1> QED BY <1>4, <1>5

\* The order leaves no circle of waiting threads.  A thread in one waits for
\* a later lock of the next or, as a reader behind a waiting writer, of the
\* next but one.
LEMMA OrderedNoDeadlock == OrderInv => NoDeadlock
  <1> SUFFICES ASSUME OrderInv, NEW S \in SUBSET Threads,
                      \A t \in S : \E u \in S : WaitsFor(t, u)
               PROVE  S = {}
    BY DEF NoDeadlock
  <1> DEFINE L == {l \in Lock : \E t \in S : \E s \in Wants(t) : s.lock = l}
  <1>1. ASSUME NEW t \in S
        PROVE  /\ \E s \in Wants(t) : s \in Steps /\ s.lock \in Lock
               /\ \A s \in Wants(t) : Wants(t) = {s} /\ s.do \in {"read", "write"}
    <2>1. PICK s \in Wants(t) : TRUE
      BY DEF WaitsFor
    <2>2. todo[t] # <<>> /\ s = Head(todo[t]) /\ s.do # "drop" /\ Wants(t) = {s} /\ todo[t] \in Seq(Steps)
      BY DEF Wants, OrderInv, TodoType
    <2>3. s \in Steps
      BY <2>2
    <2>4. s.lock \in Lock /\ s.do \in {"read", "write"}
      BY <2>2, <2>3 DEF Steps
    <2> QED BY <2>2, <2>3, <2>4
  <1>2. ASSUME NEW t \in S, NEW s \in Wants(t), NEW u \in S, NEW h \in held[u], Conflict(s, h)
        PROVE  \E m \in L : Before(s.lock, m)
    <2>1. PICK r \in Wants(u) : r.lock \in Lock
      BY <1>1
    <2>2. Before(h.lock, r.lock)
      BY HeldBeforeWanted
    <2>3. h.lock = s.lock
      BY <1>2 DEF Conflict
    <2> QED BY <2>1, <2>2, <2>3
  <1>3. ASSUME NEW t \in S, NEW s \in Wants(t), s.do = "write"
        PROVE  \E m \in L : Before(s.lock, m)
    <2>1. PICK u \in S : WaitsFor(t, u)
      OBVIOUS
    <2>2. PICK h \in held[u] : Conflict(s, h)
      BY <1>1, <1>3, <2>1 DEF WaitsFor
    <2> QED BY <1>2, <2>2
  <1>4. ASSUME NEW t \in S, NEW s \in Wants(t), s.do = "read"
        PROVE  \E m \in L : Before(s.lock, m)
    <2>1. PICK u \in S : WaitsFor(t, u)
      OBVIOUS
    <2>2. CASE \E h \in held[u] : Conflict(s, h)
      BY <1>2, <2>2
    <2>3. CASE \E w \in Wants(u) : Conflict(s, w)
      <3>1. PICK w \in Wants(u) : Conflict(s, w)
        BY <2>3
      <3>2. w.lock = s.lock /\ w.do = "write"
        BY <1>4, <3>1 DEF Conflict
      <3>3. \E m \in L : Before(w.lock, m)
        BY <1>3, <3>2
      <3> QED BY <3>2, <3>3
    <2> QED BY <1>1, <2>1, <2>2, <2>3 DEF WaitsFor
  <1>5. \A l \in L : \E m \in L : Before(l, m)
    BY <1>1, <1>3, <1>4
  <1>6. L \in SUBSET Lock
    OBVIOUS
  <1>7. L = {}
    <2> HIDE DEF L
    <2> QED BY <1>5, <1>6, OrderFinite
  <1> QED BY <1>1, <1>7

\* "We must always acquire the locks in the following order to avoid
\* deadlock" (superblock/inode.rs): for any tree and any threads, the
\* operations of the Superblock never wait for each other in a circle, as
\* long as forget does not run together with rename or opendir.
THEOREM LocksNoDeadlock == OneOrder => (Spec => []NoDeadlock)
  <1> SUFFICES ASSUME OneOrder PROVE Spec => []NoDeadlock
    OBVIOUS
  <1>1. Init => OrderInv
    BY InitOrder
  <1>2. OrderInv /\ [Next]_vars => OrderInv'
    <2> SUFFICES ASSUME OrderInv, [Next]_vars PROVE OrderInv'
      OBVIOUS
    <2>1. CASE UNCHANGED vars
      BY <2>1 DEF vars, OrderInv, TodoType, HeldType, ThreadOrdered
    <2>2. CASE Next
      BY <2>2, StartOrder, TakeOrder, ReleaseOrder DEF Next
    <2> QED BY <2>1, <2>2
  <1>3. OrderInv => NoDeadlock
    BY OrderedNoDeadlock
  <1> QED BY <1>1, <1>2, <1>3, PTL DEF Spec
=============================================================================
