-------------------------- MODULE CachedReadProofs ---------------------------
(***************************************************************************)
(* Proofs about CachedRead for all objects, block sizes, limits, readers   *)
(* and put tasks: whatever is damaged, replaced, evicted or left by an     *)
(* earlier process, the caches keep the promise of DataCache, streams have *)
(* no gap, and the disk cache passes its limit by its puts under way only. *)
(***************************************************************************)
EXTENDS CachedRead, FiniteSetTheorems, SequenceTheorems, TLAPS

\* The states of a stream, of a file and of a put task.
Answers ==
    [kind : {"none", "damaged", "miss", "error"}] \cup [kind : {"asked", "hit"}, block : Blocks]
StoredFiles ==
    {f \in [state : {"good", "damaged", "unreadable"}, block : Blocks, len : 0 .. BlockSize] :
        f.len = BlockLen(f.block)}
FileStates == {NoFile} \cup StoredFiles
Streams ==
    [pc : {"open", "read", "express", "push", "client", "done"}, obj : Objects, from : Nat, to : Nat,
     idx : Nat, parts : Seq([from : Nat, to : Nat]), file : FileStates, len : Nat,
     buffer : Nat, answer : Answers]
Puts ==
    {n \in [pc : {"evict", "write", "persist", "express"}, block : Blocks, len : 0 .. BlockSize,
            state : {"good", "damaged"}, level : {"disk", "all"}] :
        n.len = BlockLen(n.block)}
Entries == [path : Paths, size : 0 .. LargestFile]

TypeOK ==
    /\ config \in [levels : SUBSET {"disk", "express"}, limit : Limits, cleanup : BOOLEAN, expressMax : ExpressMax]
    /\ files \in [Paths -> FileStates]
    /\ usage \in [entries : Seq(Entries), size : Nat]
    /\ task \in [Tasks -> {Free} \cup Puts]
    /\ express \in [Paths -> FileStates]
    /\ reader \in [Readers -> {Idle} \cup Streams]
    /\ known \subseteq Blocks

\* What is in a cache, on its way into one or open for reading, and has its
\* checksum, was put.
GoodKnown ==
    /\ \A p \in Paths : files[p].state = "good" => files[p].block \in known
    /\ \A p \in Paths : express[p].state = "good" => express[p].block \in known
    /\ \A t \in Tasks : task[t] # Free /\ task[t].state = "good" => task[t].block \in known
    /\ \A r \in Readers : reader[r] # Idle /\ reader[r].file.state = "good" => reader[r].file.block \in known

\* While the caches are asked, what is asked for is the block that the stream
\* is at.
AskedFor(s) ==
    s.pc \in {"open", "read", "express"} =>
        s.answer = [kind |-> "asked", block |-> [obj |-> s.obj, idx |-> s.idx]]

\* The parts of a stream that starts somewhere: they follow each other, and
\* where they end.  Where a stream is in its object.
Consecutive(parts, from) ==
    \A k \in DOMAIN parts : parts[k].from = IF k = 1 THEN from ELSE parts[k - 1].to
EndOf(parts, from) == IF parts = <<>> THEN from ELSE parts[Len(parts)].to
BlockStart(s) == s.idx * BlockSize
At(s) == BlockStart(s) + s.buffer
EndOfRequest(s) == Least(Ceiling(s.to) * BlockSize, Size[s.obj])

\* The range of a stream is in its object, and the stream is in its range.
InRange(s) ==
    /\ s.from < s.to /\ s.to <= Size[s.obj]
    /\ s.buffer < BlockSize
    /\ s.from < At(s) + BlockSize
    /\ s.pc \in {"open", "read", "express", "push"} => s.buffer = 0 /\ s.idx < Ceiling(s.to)
    /\ s.pc = "push" => s.len = BlockLen([obj |-> s.obj, idx |-> s.idx])
    /\ s.pc = "client" => At(s) <= EndOfRequest(s)
    /\ s.pc = "done" => s.to <= At(s)

\* What it has delivered is what there is of its range before where it is.
Delivered(s) ==
    /\ Consecutive(s.parts, s.from)
    /\ EndOf(s.parts, s.from) = Most(s.from, Least(s.to, At(s)))

StreamOK(s) == s \in Streams /\ InRange(s) /\ Delivered(s) /\ AskedFor(s)
StreamsOK == \A r \in Readers : reader[r] = Idle \/ StreamOK(reader[r])

\* Without a limit nothing is counted.
UsageIfLimited == config.limit = "none" => usage = Unused

CacheInv == TypeOK /\ StreamsOK /\ GoodKnown /\ UsageIfLimited /\ EntriesMatchFiles /\ SizeBounded

-----------------------------------------------------------------------------
\* Arithmetic of blocks

LEMMA DivBounds ==
    ASSUME NEW n \in Nat, NEW d \in Nat \ {0}
    PROVE  n \div d \in Nat /\ (n \div d) * d <= n /\ n < (n \div d) * d + d
OBVIOUS

LEMMA Distributes ==
    ASSUME NEW i \in Int, NEW d \in Int
    PROVE  (i + 1) * d = i * d + d /\ (i - 1) * d = i * d - d /\ i * d \in Int
OBVIOUS

LEMMA Monotone ==
    ASSUME NEW i \in Nat, NEW j \in Nat, NEW d \in Nat
    PROVE  /\ i <= j => i * d <= j * d
           /\ i * d < j * d => i < j
OBVIOUS

\* A range ends in its last block.
LEMMA CeilingBounds ==
    ASSUME NEW n \in Nat \ {0}
    PROVE  /\ Ceiling(n) \in Nat \ {0}
           /\ n <= Ceiling(n) * BlockSize
           /\ Ceiling(n) * BlockSize < n + BlockSize
<1> DEFINE c == (n + BlockSize - 1) \div BlockSize
<1>1. n + BlockSize - 1 \in Nat /\ BlockSize \in Nat \ {0}
  BY CachedReadAssumption
<1>2. c \in Nat /\ c * BlockSize <= n + BlockSize - 1 /\ n + BlockSize - 1 < c * BlockSize + BlockSize
  BY <1>1, DivBounds
<1>3. c # 0
  <2> SUFFICES ASSUME c = 0 PROVE FALSE
    OBVIOUS
  <2>1. c * BlockSize = 0
    BY <1>1
  <2> QED  BY <1>1, <1>2, <2>1
<1>4. c * BlockSize \in Nat
  BY <1>1, <1>2
<1> HIDE DEF c
<1>5. Ceiling(n) = c
  BY DEF Ceiling, c
<1> QED  BY <1>1, <1>2, <1>3, <1>4, <1>5

LEMMA CeilingMonotone ==
    ASSUME NEW n \in Nat \ {0}, NEW m \in Nat \ {0}, n <= m
    PROVE  Ceiling(n) <= Ceiling(m)
<1>1. BlockSize \in Nat \ {0}
  BY CachedReadAssumption
<1>2. /\ Ceiling(n) \in Nat /\ Ceiling(n) * BlockSize < n + BlockSize
      /\ Ceiling(m) \in Nat /\ m <= Ceiling(m) * BlockSize
  BY CeilingBounds
<1>3. (Ceiling(m) + 1) * BlockSize = Ceiling(m) * BlockSize + BlockSize
  BY <1>1, <1>2, Distributes
<1>4. Ceiling(n) * BlockSize \in Nat /\ Ceiling(m) * BlockSize \in Nat
  BY <1>1, <1>2
<1>5. Ceiling(n) * BlockSize < (Ceiling(m) + 1) * BlockSize
  BY <1>1, <1>2, <1>3, <1>4
<1>6. Ceiling(n) < Ceiling(m) + 1
  BY <1>1, <1>2, <1>5, Monotone
<1> QED  BY <1>2, <1>6

\* A block before the end of a range that is in an object is one of its blocks.
LEMMA BlockInObject ==
    ASSUME NEW o \in Objects, NEW i \in Nat, NEW to \in Nat \ {0}, to <= Size[o], i < Ceiling(to)
    PROVE  [obj |-> o, idx |-> i] \in Blocks
<1>1. Size[o] \in Nat \ {0}
  BY CachedReadAssumption
<1>2. Ceiling(to) \in Nat /\ Ceiling(Size[o]) \in Nat /\ Ceiling(to) <= Ceiling(Size[o])
  BY <1>1, CeilingBounds, CeilingMonotone
<1>3. i \in 0 .. Ceiling(Size[o]) - 1
  BY <1>2
<1> QED  BY <1>3 DEF Blocks

LEMMA BlockParts ==
    ASSUME NEW b \in Blocks
    PROVE  /\ b.obj \in Objects /\ b.idx \in Nat /\ b = [obj |-> b.obj, idx |-> b.idx]
           /\ b.idx < Ceiling(Size[b.obj])
           /\ BlockLen(b) \in 1 .. BlockSize
<1> PICK o \in Objects : b \in {[obj |-> o, idx |-> i] : i \in 0 .. Ceiling(Size[o]) - 1}
  BY DEF Blocks
<1> PICK i \in 0 .. Ceiling(Size[o]) - 1 : b = [obj |-> o, idx |-> i]
  OBVIOUS
<1>1. Size[o] \in Nat \ {0} /\ BlockSize \in Nat \ {0}
  BY CachedReadAssumption
<1>2. Ceiling(Size[o]) \in Nat \ {0} /\ Ceiling(Size[o]) * BlockSize < Size[o] + BlockSize
  BY <1>1, CeilingBounds
<1>3. (i + 1) * BlockSize = i * BlockSize + BlockSize /\ i * BlockSize \in Nat
  BY <1>1, <1>2, Distributes
<1>4. (i + 1) * BlockSize <= Ceiling(Size[o]) * BlockSize
  BY <1>1, <1>2, Monotone
<1>5. Ceiling(Size[o]) * BlockSize \in Nat /\ (i + 1) * BlockSize \in Nat
  BY <1>1, <1>2
<1>6. i * BlockSize < Size[o]
  BY <1>1, <1>2, <1>3, <1>4, <1>5
<1>7. BlockLen(b) = Least(BlockSize, Size[o] - i * BlockSize)
  BY DEF BlockLen
<1> QED  BY <1>1, <1>2, <1>3, <1>6, <1>7 DEF Least

-----------------------------------------------------------------------------
\* The parts of a stream

\* Where the parts of a range end before some place in the object.
LEMMA EndsMeet ==
    ASSUME NEW from \in Nat, NEW to \in Nat, NEW at \in Nat, NEW next \in Nat, from < to, at <= next
    PROVE  IF Most(from, at) < Least(to, next)
           THEN /\ Most(from, Least(to, at)) = Most(from, at)
                /\ Most(from, Least(to, next)) = Least(to, next)
           ELSE Most(from, Least(to, at)) = Most(from, Least(to, next))
BY DEF Most, Least

LEMMA PartsAppend ==
    ASSUME NEW from \in Nat, NEW lo \in Nat, NEW hi \in Nat, NEW parts \in Seq([from : Nat, to : Nat]),
           Consecutive(parts, from), EndOf(parts, from) = lo
    PROVE  /\ Consecutive(Append(parts, [from |-> lo, to |-> hi]), from)
           /\ EndOf(Append(parts, [from |-> lo, to |-> hi]), from) = hi
<1> DEFINE part == [from |-> lo, to |-> hi]
           new == Append(parts, part)
<1>1. part \in [from : Nat, to : Nat] /\ part.from = lo /\ part.to = hi
  OBVIOUS
<1> HIDE DEF part
<1>2. new \in Seq([from : Nat, to : Nat]) /\ Len(new) = Len(parts) + 1 /\ new[Len(new)] = part /\ new # <<>>
  BY <1>1
<1>3. \A k \in 1 .. Len(parts) : new[k] = parts[k]
  BY <1>1
<1>4. DOMAIN new = 1 .. Len(new) /\ DOMAIN parts = 1 .. Len(parts) /\ Len(parts) \in Nat
  BY <1>2
<1> HIDE DEF new
<1>5. Consecutive(new, from)
  <2> SUFFICES ASSUME NEW k \in DOMAIN new
               PROVE  new[k].from = IF k = 1 THEN from ELSE new[k - 1].to
    BY DEF Consecutive
  <2>1. CASE k \in 1 .. Len(parts)
    <3>1. parts[k].from = IF k = 1 THEN from ELSE parts[k - 1].to
      BY <1>4, <2>1 DEF Consecutive
    <3>2. k # 1 => k - 1 \in 1 .. Len(parts)
      BY <1>4, <2>1
    <3> QED  BY <1>3, <2>1, <3>1, <3>2
  <2>2. CASE k = Len(parts) + 1
    <3>1. parts = <<>> <=> Len(parts) = 0
      OBVIOUS
    <3>2. new[k].from = lo
      BY <1>1, <1>2, <2>2
    <3>3. CASE k = 1
      <4>1. parts = <<>>
        BY <1>4, <2>2, <3>1, <3>3
      <4> QED  BY <3>2, <3>3, <4>1 DEF EndOf
    <3>4. CASE k # 1
      <4>1. k - 1 = Len(parts) /\ k - 1 \in 1 .. Len(parts)
        BY <1>4, <2>2, <3>4
      <4>2. parts[k - 1].to = lo
        BY <1>4, <3>1, <4>1 DEF EndOf
      <4> QED  BY <1>3, <3>2, <3>4, <4>1, <4>2
    <3> QED  BY <3>3, <3>4
  <2> QED  BY <1>2, <1>4, <2>1, <2>2
<1>6. EndOf(new, from) = hi
  BY <1>1, <1>2 DEF EndOf
<1> QED  BY <1>5, <1>6 DEF part, new

LEMMA PartsContinue ==
    ASSUME NEW from \in Nat, NEW to \in Nat, NEW at \in Nat, NEW next \in Nat, from < to, at <= next,
           NEW parts \in Seq([from : Nat, to : Nat]),
           Consecutive(parts, from),
           EndOf(parts, from) = Most(from, Least(to, at))
    PROVE  IF Most(from, at) < Least(to, next)
           THEN /\ Consecutive(Append(parts, [from |-> Most(from, at), to |-> Least(to, next)]), from)
                /\ EndOf(Append(parts, [from |-> Most(from, at), to |-> Least(to, next)]), from)
                       = Most(from, Least(to, next))
           ELSE EndOf(parts, from) = Most(from, Least(to, next))
<1>1. Most(from, at) \in Nat /\ Least(to, next) \in Nat
  BY DEF Most, Least
<1>2. CASE Most(from, at) < Least(to, next)
  BY <1>1, <1>2, EndsMeet, PartsAppend
<1>3. CASE ~(Most(from, at) < Least(to, next))
  BY <1>3, EndsMeet
<1> QED  BY <1>2, <1>3

-----------------------------------------------------------------------------
\* The steps of a stream

LEMMA StartOfBlock ==
    ASSUME NEW s \in Streams
    PROVE  BlockStart(s) \in Nat /\ (s.idx + 1) * BlockSize = BlockStart(s) + BlockSize
<1>1. s.idx \in Nat /\ BlockSize \in Nat
  BY CachedReadAssumption DEF Streams
<1> QED  BY <1>1, Distributes DEF BlockStart

\* A stream that asks for a block is before the end of its range.
LEMMA BeforeEnd ==
    ASSUME NEW s \in Streams, s.from < s.to, s.idx < Ceiling(s.to)
    PROVE  /\ Ceiling(s.to) \in Nat /\ Ceiling(s.to) * BlockSize \in Nat
           /\ s.to <= Ceiling(s.to) * BlockSize
           /\ BlockStart(s) < s.to
           /\ BlockStart(s) + BlockSize <= Ceiling(s.to) * BlockSize
<1>1. s.to \in Nat \ {0} /\ s.idx \in Nat /\ BlockSize \in Nat \ {0}
  BY CachedReadAssumption DEF Streams
<1>2. Ceiling(s.to) \in Nat /\ s.to <= Ceiling(s.to) * BlockSize /\ Ceiling(s.to) * BlockSize < s.to + BlockSize
  BY <1>1, CeilingBounds
<1>3. (s.idx + 1) * BlockSize <= Ceiling(s.to) * BlockSize
  BY <1>1, <1>2, Monotone
<1>4. Ceiling(s.to) * BlockSize \in Nat
  BY <1>1, <1>2
<1> QED  BY <1>1, <1>2, <1>3, <1>4, StartOfBlock

LEMMA AskOK ==
    ASSUME NEW s \in Streams, s.from < s.to, s.to <= Size[s.obj], s.buffer = 0, s.idx < Ceiling(s.to),
           s.from < At(s) + BlockSize, Delivered(s)
    PROVE  StreamOK(Ask(s))
<1> DEFINE b == [obj |-> s.obj, idx |-> s.idx]
           a == [kind |-> "asked", block |-> b]
           pc == IF OnDisk THEN "open" ELSE "express"
<1>1. b \in Blocks
  BY BlockInObject DEF Streams
<1>2. a \in Answers /\ pc \in {"open", "express"}
  BY <1>1 DEF Answers
<1>3. Ask(s) = [s EXCEPT !.pc = pc, !.answer = a]
  BY DEF Ask
<1> HIDE DEF a, pc
<1>4. /\ Ask(s) \in Streams /\ Ask(s).pc = pc /\ Ask(s).answer = a
      /\ Ask(s).obj = s.obj /\ Ask(s).from = s.from /\ Ask(s).to = s.to /\ Ask(s).idx = s.idx
      /\ Ask(s).parts = s.parts /\ Ask(s).buffer = s.buffer
  BY <1>2, <1>3 DEF Streams
<1>5. InRange(Ask(s)) /\ Delivered(Ask(s))
  BY <1>2, <1>4, CachedReadAssumption DEF InRange, Delivered, At, BlockStart
<1>6. AskedFor(Ask(s))
  BY <1>4 DEF AskedFor, a
<1> QED  BY <1>4, <1>5, <1>6 DEF StreamOK

LEMMA AnswerOK ==
    ASSUME NEW s, StreamOK(s), s.pc \in {"open", "read", "express"}, NEW a \in Answers
    PROVE  StreamOK([s EXCEPT !.pc = "client", !.answer = a])
<1> DEFINE n == [s EXCEPT !.pc = "client", !.answer = a]
<1>1. /\ n \in Streams /\ n.pc = "client"
      /\ n.obj = s.obj /\ n.from = s.from /\ n.to = s.to /\ n.idx = s.idx
      /\ n.parts = s.parts /\ n.buffer = s.buffer
  BY DEF StreamOK, Streams
<1> HIDE DEF n
<1>2. s \in Streams /\ s.from < s.to /\ s.idx < Ceiling(s.to) /\ s.buffer = 0 /\ s.to <= Size[s.obj] /\ s.obj \in Objects
  BY DEF StreamOK, InRange, Streams
<1>3. At(n) = At(s) /\ At(s) = BlockStart(s)
  BY <1>1, <1>2, StartOfBlock DEF At, BlockStart
<1>4. At(s) <= EndOfRequest(s)
  <2>1. Size[s.obj] \in Nat /\ s.to \in Nat
    BY <1>2, CachedReadAssumption DEF Streams
  <2>2. /\ BlockStart(s) \in Nat /\ Ceiling(s.to) * BlockSize \in Nat
        /\ BlockStart(s) < s.to /\ s.to <= Ceiling(s.to) * BlockSize
    BY <1>2, BeforeEnd, StartOfBlock
  <2> QED  BY <1>2, <1>3, <2>1, <2>2 DEF Least, EndOfRequest
<1>5. InRange(n) /\ Delivered(n) /\ AskedFor(n)
  BY <1>1, <1>2, <1>3, <1>4 DEF StreamOK, InRange, Delivered, AskedFor, EndOfRequest
<1> QED  BY <1>1, <1>5 DEF StreamOK, n

\* A hit has the length of the block.
LEMMA HitOK ==
    ASSUME NEW s, StreamOK(s), s.pc \in {"open", "read", "express"}, NEW a \in Answers,
           NEW len \in Nat, len = BlockLen([obj |-> s.obj, idx |-> s.idx])
    PROVE  StreamOK([s EXCEPT !.pc = "push", !.answer = a, !.len = len])
<1> DEFINE n == [s EXCEPT !.pc = "push", !.answer = a, !.len = len]
<1>1. /\ n \in Streams /\ n.pc = "push" /\ n.len = len
      /\ n.obj = s.obj /\ n.from = s.from /\ n.to = s.to /\ n.idx = s.idx
      /\ n.parts = s.parts /\ n.buffer = s.buffer
  BY DEF StreamOK, Streams
<1> HIDE DEF n
<1>2. At(n) = At(s)
  BY <1>1 DEF At, BlockStart
<1>3. InRange(n) /\ Delivered(n) /\ AskedFor(n)
  BY <1>1, <1>2 DEF StreamOK, InRange, Delivered, AskedFor
<1> QED  BY <1>1, <1>3 DEF StreamOK, n

LEMMA PartFields ==
    ASSUME NEW s \in Streams, NEW part \in [from : Nat, to : Nat]
    PROVE  LET n == WithPart(s, part)
           IN  /\ n \in Streams
               /\ n.parts = IF part.from < part.to THEN Append(s.parts, part) ELSE s.parts
               /\ n.pc = s.pc /\ n.obj = s.obj /\ n.from = s.from /\ n.to = s.to /\ n.idx = s.idx
               /\ n.file = s.file /\ n.buffer = s.buffer /\ n.answer = s.answer
<1> DEFINE new == Append(s.parts, part)
<1>1. new \in Seq([from : Nat, to : Nat])
  BY DEF Streams
<1> HIDE DEF new
<1>2. CASE part.from < part.to
  <2>1. WithPart(s, part) = [s EXCEPT !.parts = new]
    BY <1>2 DEF WithPart, new
  <2> QED  BY <1>1, <1>2, <2>1 DEF Streams, new
<1>3. CASE ~(part.from < part.to)
  BY <1>3 DEF WithPart, Streams
<1> QED  BY <1>2, <1>3

LEMMA StartOK ==
    ASSUME NEW o \in Objects, NEW from \in 0 .. Size[o] - 1, NEW to \in from + 1 .. Size[o]
    PROVE  StreamOK(Ask([pc |-> "open", obj |-> o, from |-> from, to |-> to, idx |-> from \div BlockSize,
                         parts |-> <<>>, file |-> NoFile, len |-> 0, buffer |-> 0, answer |-> [kind |-> "none"]]))
<1> DEFINE i == from \div BlockSize
           s == [pc |-> "open", obj |-> o, from |-> from, to |-> to, idx |-> i,
                 parts |-> <<>>, file |-> NoFile, len |-> 0, buffer |-> 0, answer |-> [kind |-> "none"]]
<1>1. Size[o] \in Nat /\ from \in Nat /\ to \in Nat \ {0} /\ BlockSize \in Nat \ {0}
  BY CachedReadAssumption
<1>2. i \in Nat /\ i * BlockSize <= from /\ from < i * BlockSize + BlockSize
  BY <1>1, DivBounds
<1>3. Ceiling(to) \in Nat /\ to <= Ceiling(to) * BlockSize
  BY <1>1, CeilingBounds
<1>4. i * BlockSize \in Nat /\ Ceiling(to) * BlockSize \in Nat
  BY <1>1, <1>2, <1>3
<1> HIDE DEF i
<1>5. i * BlockSize < Ceiling(to) * BlockSize
  BY <1>1, <1>2, <1>3, <1>4
<1>6. i < Ceiling(to)
  BY <1>1, <1>2, <1>3, <1>5, Monotone
<1>7. s \in Streams
  <2>1. [kind |-> "none"] \in Answers /\ NoFile \in FileStates
    BY DEF Answers, FileStates
  <2> QED  BY <1>1, <1>2, <2>1 DEF Streams
<1>8. At(s) = i * BlockSize
  BY <1>4 DEF At, BlockStart
<1>9. Delivered(s)
  BY <1>1, <1>2, <1>4, <1>8 DEF Delivered, Consecutive, EndOf, Most, Least
<1>10. /\ s.from < s.to /\ s.to <= Size[s.obj] /\ s.buffer = 0 /\ s.idx < Ceiling(s.to)
       /\ s.from < At(s) + BlockSize
  BY <1>1, <1>2, <1>6, <1>8
<1> HIDE DEF s
<1>11. StreamOK(Ask(s))
  BY <1>7, <1>9, <1>10, AskOK
<1> QED  BY <1>11 DEF s, i

\* PushBlock: a block from a cache, trimmed to the range.
LEMMA PushOK ==
    ASSUME NEW s, StreamOK(s), s.pc = "push",
           NEW pushed, pushed = WithPart([s EXCEPT !.idx = @ + 1],
                                         PartOf(s, BlockStart(s), BlockStart(s) + s.len))
    PROVE  /\ s.idx + 1 = Ceiling(s.to) => StreamOK([pushed EXCEPT !.pc = "done"])
           /\ s.idx + 1 # Ceiling(s.to) => StreamOK(Ask(pushed))
           /\ pushed \in Streams /\ pushed.obj = s.obj /\ pushed.file = s.file
           /\ pushed.answer = s.answer
<1>1. /\ s \in Streams /\ s.from < s.to /\ s.idx < Ceiling(s.to) /\ s.buffer = 0 /\ s.to <= Size[s.obj]
      /\ s.obj \in Objects /\ s.from \in Nat /\ s.to \in Nat /\ s.idx \in Nat
      /\ s.parts \in Seq([from : Nat, to : Nat]) /\ s.from < At(s) + BlockSize
  BY DEF StreamOK, InRange, Streams
<1>2. Size[s.obj] \in Nat /\ BlockSize \in Nat \ {0}
  BY <1>1, CachedReadAssumption
<1> DEFINE at == BlockStart(s)
           next == at + BlockSize
           limit == Ceiling(s.to) * BlockSize
           i == [s EXCEPT !.idx = @ + 1]
           part == PartOf(s, at, at + s.len)
<1>3. /\ Ceiling(s.to) \in Nat /\ limit \in Nat /\ s.to <= limit /\ at < s.to /\ next <= limit
      /\ at \in Nat /\ next \in Nat /\ at <= next
  <2>1. Ceiling(s.to) \in Nat /\ limit \in Nat /\ s.to <= limit /\ at < s.to /\ next <= limit
    BY <1>1, BeforeEnd
  <2>2. at \in Nat
    BY <1>1, StartOfBlock
  <2> QED  BY <1>2, <2>1, <2>2
<1>4. At(s) = at
  BY <1>1, <1>3 DEF At
<1>5. At(s) = at /\ s.len = Least(BlockSize, Size[s.obj] - at)
  BY <1>4 DEF BlockLen, BlockStart, StreamOK, InRange
<1> HIDE DEF at, limit
<1>6. part = [from |-> Most(s.from, at), to |-> Least(s.to, next)]
  BY <1>1, <1>2, <1>3, <1>5, SMTT(30) DEF PartOf, Least
<1>7. part \in [from : Nat, to : Nat]
  BY <1>1, <1>3, <1>6 DEF Most, Least
<1>8. /\ i \in Streams /\ i.idx = s.idx + 1 /\ i.pc = s.pc /\ i.obj = s.obj /\ i.from = s.from /\ i.to = s.to
      /\ i.parts = s.parts /\ i.file = s.file /\ i.buffer = s.buffer /\ i.answer = s.answer
  <2> DEFINE j == s.idx + 1
  <2>1. j \in Nat
    BY <1>1
  <2> HIDE DEF j
  <2>2. i = [s EXCEPT !.idx = j]
    BY DEF j
  <2> HIDE DEF i
  <2>3. /\ i \in Streams /\ i.idx = j /\ i.pc = s.pc /\ i.obj = s.obj /\ i.from = s.from /\ i.to = s.to
        /\ i.parts = s.parts /\ i.file = s.file /\ i.buffer = s.buffer /\ i.answer = s.answer
    BY <1>1, <2>1, <2>2 DEF Streams
  <2> QED  BY <2>3 DEF j
<1>9. pushed = WithPart(i, part)
  BY DEF at
<1> HIDE DEF part, i
<1>10. /\ pushed \in Streams /\ pushed.idx = s.idx + 1 /\ pushed.obj = s.obj
       /\ pushed.from = s.from /\ pushed.to = s.to /\ pushed.file = s.file /\ pushed.buffer = 0
       /\ pushed.answer = s.answer
       /\ pushed.parts = IF part.from < part.to THEN Append(s.parts, part) ELSE s.parts
  BY <1>1, <1>7, <1>8, <1>9, PartFields
<1>11. Consecutive(pushed.parts, s.from) /\ EndOf(pushed.parts, s.from) = Most(s.from, Least(s.to, next))
  <2>1. Consecutive(s.parts, s.from) /\ EndOf(s.parts, s.from) = Most(s.from, Least(s.to, at))
    BY <1>4 DEF StreamOK, Delivered
  <2> HIDE DEF next
  <2>2. pushed.parts = IF Most(s.from, at) < Least(s.to, next)
                       THEN Append(s.parts, [from |-> Most(s.from, at), to |-> Least(s.to, next)]) ELSE s.parts
    BY <1>6, <1>10
  <2>3. s.from \in Nat /\ s.to \in Nat /\ at \in Nat /\ next \in Nat /\ s.from < s.to /\ at <= next
        /\ s.parts \in Seq([from : Nat, to : Nat])
    BY <1>1, <1>3
  <2> QED  BY <2>1, <2>2, <2>3, PartsContinue
<1>12. At(pushed) = next
  BY <1>1, <1>2, <1>3, <1>10, StartOfBlock DEF At, BlockStart, at
<1>13. Delivered(pushed)
  BY <1>10, <1>11, <1>12 DEF Delivered
<1>14. ASSUME s.idx + 1 = Ceiling(s.to)
       PROVE  StreamOK([pushed EXCEPT !.pc = "done"])
  <2> DEFINE n == [pushed EXCEPT !.pc = "done"]
  <2>1. /\ n \in Streams /\ n.pc = "done" /\ n.parts = pushed.parts /\ n.idx = pushed.idx /\ n.obj = s.obj
        /\ n.from = s.from /\ n.to = s.to /\ n.buffer = 0
    BY <1>10 DEF Streams
  <2> HIDE DEF n
  <2>2. At(n) = next
    BY <1>10, <1>12, <2>1 DEF At, BlockStart
  <2>3. s.to <= next
    BY <1>1, <1>3, <1>14, StartOfBlock DEF limit, at
  <2>4. InRange(n)
    BY <1>1, <1>2, <1>3, <1>4, <2>1, <2>2, <2>3 DEF InRange
  <2>5. Delivered(n) /\ AskedFor(n)
    BY <1>11, <2>1, <2>2 DEF Delivered, AskedFor
  <2> QED  BY <2>1, <2>4, <2>5 DEF StreamOK, n
<1>15. ASSUME s.idx + 1 # Ceiling(s.to)
       PROVE  StreamOK(Ask(pushed))
  <2>1. pushed.idx < Ceiling(pushed.to)
    BY <1>1, <1>3, <1>10, <1>15
  <2>2. pushed.from < At(pushed) + BlockSize /\ pushed.from < pushed.to /\ pushed.to <= Size[pushed.obj]
    BY <1>1, <1>2, <1>3, <1>4, <1>10, <1>12, SMTT(30)
  <2> QED  BY <1>10, <1>13, <2>1, <2>2, AskOK
<1> QED  BY <1>10, <1>14, <1>15

\* Piece: a piece of the body of the request, which ends in a block or ends it.
LEMMA PieceOK ==
    ASSUME NEW s, StreamOK(s), s.pc = "client", NEW n \in 1 .. BlockSize,
           s.buffer + n <= BlockSize, At(s) + n <= EndOfRequest(s),
           NEW pushed, pushed = WithPart(s, PartOf(s, At(s), At(s) + n))
    PROVE  /\ s.buffer + n < BlockSize => StreamOK([pushed EXCEPT !.buffer = @ + n])
           /\ ~(s.buffer + n < BlockSize) => StreamOK([pushed EXCEPT !.buffer = 0, !.idx = @ + 1])
           /\ pushed \in Streams /\ pushed.file = s.file /\ pushed.answer = s.answer
<1> DEFINE at == At(s)
           next == At(s) + n
           part == PartOf(s, at, next)
<1>1. /\ s \in Streams /\ s.from < s.to /\ s.to <= Size[s.obj]
      /\ s.obj \in Objects /\ s.from \in Nat /\ s.to \in Nat \ {0} /\ s.idx \in Nat /\ s.buffer \in Nat
      /\ s.parts \in Seq([from : Nat, to : Nat]) /\ s.from < at + BlockSize
  BY DEF StreamOK, InRange, Streams
<1>2. BlockSize \in Nat \ {0} /\ BlockStart(s) \in Nat
  BY <1>1, CachedReadAssumption, StartOfBlock
<1>3. at \in Nat /\ next \in Nat /\ at <= next /\ at = BlockStart(s) + s.buffer
  BY <1>1, <1>2, SMTT(30) DEF At
<1>4. next <= EndOfRequest(s)
  OBVIOUS
<1> HIDE DEF at, next
<1>5. part = [from |-> Most(s.from, at), to |-> Least(s.to, next)]
  BY DEF PartOf
<1>6. part \in [from : Nat, to : Nat]
  BY <1>1, <1>3, <1>5 DEF Most, Least
<1>7. pushed = WithPart(s, part)
  BY DEF at, next
<1> HIDE DEF part
<1>8. /\ pushed \in Streams /\ pushed.idx = s.idx /\ pushed.obj = s.obj /\ pushed.pc = s.pc
      /\ pushed.from = s.from /\ pushed.to = s.to /\ pushed.file = s.file /\ pushed.buffer = s.buffer
      /\ pushed.answer = s.answer
      /\ pushed.parts = IF part.from < part.to THEN Append(s.parts, part) ELSE s.parts
  BY <1>1, <1>6, <1>7, PartFields
<1>9. Consecutive(pushed.parts, s.from) /\ EndOf(pushed.parts, s.from) = Most(s.from, Least(s.to, next))
  <2>1. Consecutive(s.parts, s.from) /\ EndOf(s.parts, s.from) = Most(s.from, Least(s.to, at))
    BY DEF StreamOK, Delivered, at
  <2>2. pushed.parts = IF Most(s.from, at) < Least(s.to, next)
                       THEN Append(s.parts, [from |-> Most(s.from, at), to |-> Least(s.to, next)]) ELSE s.parts
    BY <1>5, <1>8
  <2>3. s.from \in Nat /\ s.to \in Nat /\ at \in Nat /\ next \in Nat /\ s.from < s.to /\ at <= next
        /\ s.parts \in Seq([from : Nat, to : Nat])
    BY <1>1, <1>3
  <2> QED  BY <2>1, <2>2, <2>3, PartsContinue
<1>10. ASSUME NEW m \in Streams, m.pc = "client", m.parts = pushed.parts, m.obj = s.obj, m.from = s.from,
              m.to = s.to, m.buffer < BlockSize, At(m) = next
       PROVE  StreamOK(m)
  <2>1. EndOfRequest(m) = EndOfRequest(s)
    BY <1>10 DEF EndOfRequest
  <2>2. InRange(m)
    BY <1>1, <1>2, <1>3, <1>4, <1>10, <2>1, SMTT(30) DEF InRange
  <2>3. Delivered(m) /\ AskedFor(m)
    BY <1>9, <1>10 DEF Delivered, AskedFor
  <2> QED  BY <2>2, <2>3 DEF StreamOK
<1>11. ASSUME s.buffer + n < BlockSize
       PROVE  StreamOK([pushed EXCEPT !.buffer = @ + n])
  <2> DEFINE k == s.buffer + n
             m == [pushed EXCEPT !.buffer = @ + n]
  <2>0. k \in Nat /\ m = [pushed EXCEPT !.buffer = k]
    <3>1. s.buffer \in Nat /\ n \in Nat /\ pushed.buffer = s.buffer
      BY <1>1, <1>2, <1>8
    <3> QED  BY <3>1
  <2> HIDE DEF k, m
  <2>1. /\ m \in Streams /\ m.pc = "client" /\ m.parts = pushed.parts /\ m.obj = s.obj /\ m.from = s.from
        /\ m.to = s.to /\ m.buffer = k /\ m.idx = s.idx
    BY <1>8, <2>0 DEF Streams
  <2>2. At(m) = next
    BY <1>1, <1>2, <1>3, <2>1 DEF At, BlockStart, next, at, k
  <2>3. m.buffer < BlockSize
    BY <1>11, <2>1 DEF k
  <2> QED  BY <1>10, <2>1, <2>2, <2>3 DEF m
<1>12. ASSUME ~(s.buffer + n < BlockSize)
       PROVE  StreamOK([pushed EXCEPT !.buffer = 0, !.idx = @ + 1])
  <2> DEFINE k == s.idx + 1
             m == [pushed EXCEPT !.buffer = 0, !.idx = @ + 1]
             e == [pushed EXCEPT !.buffer = 0]
  <2>0. /\ e \in Streams /\ e.pc = "client" /\ e.parts = pushed.parts /\ e.obj = s.obj /\ e.from = s.from
        /\ e.to = s.to /\ e.buffer = 0 /\ e.idx = s.idx
    BY <1>8 DEF Streams
  <2>1. /\ m \in Streams /\ m.pc = "client" /\ m.parts = pushed.parts /\ m.obj = s.obj /\ m.from = s.from
        /\ m.to = s.to /\ m.buffer = 0 /\ m.idx = k
    <3>1. m = [e EXCEPT !.idx = e.idx + 1]
      OBVIOUS
    <3>2. k \in Nat /\ e.idx + 1 = k
      BY <1>1, <2>0
    <3> HIDE DEF m, e, k
    <3>3. m = [e EXCEPT !.idx = k]
      BY <3>1, <3>2
    <3> QED  BY <2>0, <3>2, <3>3 DEF Streams
  <2> HIDE DEF k, m, e
  <2>2. s.buffer + n = BlockSize
    <3>1. s.buffer \in Nat /\ n \in Nat /\ BlockSize \in Nat /\ s.buffer + n <= BlockSize
      BY <1>1, <1>2
    <3> QED  BY <3>1, <1>12
  <2>3. At(m) = BlockStart(s) + BlockSize
    BY <1>1, <1>2, <2>1, StartOfBlock DEF At, BlockStart, k
  <2>4. At(m) = next
    BY <1>1, <1>2, <1>3, <2>2, <2>3 DEF next, at
  <2>5. m.buffer < BlockSize
    BY <1>2, <2>1
  <2> QED  BY <1>10, <2>1, <2>4, <2>5 DEF m
<1> QED  BY <1>8, <1>11, <1>12

\* The end of the body is at or after the end of the range.
LEMMA EndOK ==
    ASSUME NEW s, StreamOK(s), s.pc = "client", At(s) = EndOfRequest(s)
    PROVE  StreamOK([s EXCEPT !.pc = "done"])
<1> DEFINE n == [s EXCEPT !.pc = "done"]
<1>1. /\ n \in Streams /\ n.pc = "done"
      /\ n.obj = s.obj /\ n.from = s.from /\ n.to = s.to /\ n.idx = s.idx
      /\ n.parts = s.parts /\ n.buffer = s.buffer
  BY DEF StreamOK, Streams
<1> HIDE DEF n
<1>2. s \in Streams /\ s.from < s.to /\ s.to \in Nat \ {0} /\ s.to <= Size[s.obj]
  BY DEF StreamOK, InRange, Streams
<1>3. s.to <= At(s)
  BY <1>2, CeilingBounds DEF Least, EndOfRequest
<1>4. At(n) = At(s)
  BY <1>1 DEF At, BlockStart
<1>5. InRange(n) /\ Delivered(n) /\ AskedFor(n)
  BY <1>1, <1>3, <1>4 DEF StreamOK, InRange, Delivered, AskedFor
<1> QED  BY <1>1, <1>5 DEF StreamOK, n

\* What is cut from the body is a block.
LEMMA BlockOfBody ==
    ASSUME NEW s, StreamOK(s), s.pc = "client", BlockStart(s) < EndOfRequest(s)
    PROVE  [obj |-> s.obj, idx |-> s.idx] \in Blocks
<1>1. s.obj \in Objects /\ s.idx \in Nat /\ s.to \in Nat \ {0} /\ s.to <= Size[s.obj] /\ BlockSize \in Nat
      /\ Size[s.obj] \in Nat
  BY CachedReadAssumption DEF StreamOK, InRange, Streams
<1>2. Ceiling(s.to) \in Nat
  BY <1>1, CeilingBounds
<1>3. s.idx * BlockSize \in Nat /\ Ceiling(s.to) * BlockSize \in Nat
  BY <1>1, <1>2
<1>4. s.idx * BlockSize < Ceiling(s.to) * BlockSize
  BY <1>1, <1>3 DEF EndOfRequest, Least, BlockStart
<1>5. s.idx < Ceiling(s.to)
  BY <1>1, <1>2, <1>4, Monotone
<1> QED  BY <1>1, <1>5, BlockInObject

\* It has the length of the block, at the end of a block and at that of the body.
LEMMA LengthOfBody ==
    ASSUME NEW s, StreamOK(s), s.pc = "client", NEW len \in 1 .. BlockSize,
           BlockStart(s) + len <= EndOfRequest(s), len = BlockSize \/ BlockStart(s) + len = EndOfRequest(s)
    PROVE  len = BlockLen([obj |-> s.obj, idx |-> s.idx])
<1>1. /\ s \in Streams /\ s.obj \in Objects /\ s.idx \in Nat /\ s.to \in Nat \ {0} /\ BlockSize \in Nat \ {0}
      /\ Size[s.obj] \in Nat
  BY CachedReadAssumption DEF StreamOK, InRange, Streams
<1>2. Ceiling(s.to) \in Nat
  BY <1>1, CeilingBounds
<1> DEFINE at == BlockStart(s)
           last == Ceiling(s.to) * BlockSize
<1>3. at \in Nat /\ last \in Nat /\ (s.idx + 1) * BlockSize = at + BlockSize
  BY <1>1, <1>2, StartOfBlock
<1>4. EndOfRequest(s) = Least(last, Size[s.obj])
  BY DEF EndOfRequest
<1>5. BlockLen([obj |-> s.obj, idx |-> s.idx]) = Least(BlockSize, Size[s.obj] - at)
  BY DEF BlockLen, BlockStart
<1>6. at < last => at + BlockSize <= last
  <2> SUFFICES ASSUME at < last
               PROVE  at + BlockSize <= last
    OBVIOUS
  <2>1. s.idx * BlockSize < Ceiling(s.to) * BlockSize
    BY DEF BlockStart
  <2>2. s.idx < Ceiling(s.to)
    BY <1>1, <1>2, <2>1, Monotone
  <2>3. (s.idx + 1) * BlockSize <= Ceiling(s.to) * BlockSize
    BY <1>1, <1>2, <2>2, Monotone
  <2> QED  BY <1>3, <2>3
<1> HIDE DEF at, last
<1>7. len \in Nat /\ 1 <= len /\ len <= BlockSize
      /\ at + len <= Least(last, Size[s.obj]) /\ (len = BlockSize \/ at + len = Least(last, Size[s.obj]))
  BY <1>1, <1>4 DEF at
<1> QED  BY <1>1, <1>3, <1>5, <1>6, <1>7, SMTT(30) DEF Least

\* The steps that only look.
LEMMA OpenOK ==
    ASSUME NEW s, StreamOK(s), s.pc = "open", NEW f \in FileStates
    PROVE  StreamOK([s EXCEPT !.pc = "read", !.file = f])
<1> DEFINE n == [s EXCEPT !.pc = "read", !.file = f]
<1>1. /\ n \in Streams /\ n.pc = "read" /\ n.answer = s.answer
      /\ n.obj = s.obj /\ n.from = s.from /\ n.to = s.to /\ n.idx = s.idx
      /\ n.parts = s.parts /\ n.buffer = s.buffer
  BY DEF StreamOK, Streams
<1> HIDE DEF n
<1>2. At(n) = At(s)
  BY <1>1 DEF At, BlockStart
<1>3. InRange(n) /\ Delivered(n) /\ AskedFor(n)
  BY <1>1, <1>2 DEF StreamOK, InRange, Delivered, AskedFor
<1> QED  BY <1>1, <1>3 DEF StreamOK, n

LEMMA AskNextOK ==
    ASSUME NEW s, StreamOK(s), s.pc = "read"
    PROVE  StreamOK([s EXCEPT !.pc = "express"])
<1> DEFINE n == [s EXCEPT !.pc = "express"]
<1>1. /\ n \in Streams /\ n.pc = "express" /\ n.answer = s.answer
      /\ n.obj = s.obj /\ n.from = s.from /\ n.to = s.to /\ n.idx = s.idx
      /\ n.parts = s.parts /\ n.buffer = s.buffer
  BY DEF StreamOK, Streams
<1> HIDE DEF n
<1>2. At(n) = At(s)
  BY <1>1 DEF At, BlockStart
<1>3. InRange(n) /\ Delivered(n) /\ AskedFor(n)
  BY <1>1, <1>2 DEF StreamOK, InRange, Delivered, AskedFor
<1> QED  BY <1>1, <1>3 DEF StreamOK, n

-----------------------------------------------------------------------------
\* Streams among the others

LEMMA Running ==
    ASSUME StreamsOK, NEW r \in Readers, reader[r].pc # "idle"
    PROVE  /\ StreamOK(reader[r]) /\ reader[r] \in Streams
           /\ reader[r].pc \in {"open", "read", "express", "push"} => Block(r) \in Blocks
<1>1. StreamOK(reader[r]) /\ reader[r] \in Streams
  BY DEF StreamsOK, Idle, StreamOK
<1>2. ASSUME reader[r].pc \in {"open", "read", "express", "push"}
      PROVE  Block(r) \in Blocks
  <2>1. /\ reader[r].idx < Ceiling(reader[r].to) /\ reader[r].obj \in Objects /\ reader[r].idx \in Nat
        /\ reader[r].to \in Nat \ {0} /\ reader[r].to <= Size[reader[r].obj]
    BY <1>1, <1>2 DEF StreamOK, InRange, Streams
  <2> QED  BY <2>1, BlockInObject DEF Block
<1> QED  BY <1>1, <1>2

LEMMA OneStream ==
    ASSUME TypeOK, StreamsOK, NEW r \in Readers, NEW n, n = Idle \/ StreamOK(n),
           reader' = [reader EXCEPT ![r] = n]
    PROVE  StreamsOK' /\ reader' \in [Readers -> {Idle} \cup Streams]
<1>1. \A q \in Readers : reader'[q] = IF q = r THEN n ELSE reader[q]
  BY DEF TypeOK
<1>2. StreamsOK'
  BY <1>1 DEF StreamsOK
<1>3. n \in {Idle} \cup Streams
  BY DEF StreamOK
<1> QED  BY <1>2, <1>3 DEF TypeOK

\* A stream has its range and continues, whatever it is answered.
LEMMA StreamsStep ==
    ASSUME TypeOK, StreamsOK, [Next]_vars
    PROVE  StreamsOK' /\ reader' \in [Readers -> {Idle} \cup Streams]
<1>0. ASSUME UNCHANGED reader
      PROVE  StreamsOK' /\ reader' \in [Readers -> {Idle} \cup Streams]
  BY <1>0 DEF StreamsOK, TypeOK
<1>1. ASSUME NEW r \in Readers, NEW o \in Objects, NEW from \in 0 .. Size[o] - 1, NEW to \in from + 1 .. Size[o],
             StartRead(r, o, from, to)
      PROVE  StreamsOK' /\ reader' \in [Readers -> {Idle} \cup Streams]
  <2> DEFINE n == Ask([pc |-> "open", obj |-> o, from |-> from, to |-> to, idx |-> from \div BlockSize,
                       parts |-> <<>>, file |-> NoFile, len |-> 0, buffer |-> 0, answer |-> [kind |-> "none"]])
  <2>1. reader' = [reader EXCEPT ![r] = n]
    BY <1>1 DEF StartRead
  <2>2. StreamOK(n)
    BY StartOK
  <2> HIDE DEF n
  <2> QED  BY <2>1, <2>2, OneStream
<1>2. ASSUME NEW r \in Readers, OpenFile(r)
      PROVE  StreamsOK' /\ reader' \in [Readers -> {Idle} \cup Streams]
  <2> DEFINE f == files[Path(Block(r))]
  <2>1. StreamOK(reader[r]) /\ reader[r].pc = "open" /\ Block(r) \in Blocks
    BY <1>2, Running DEF OpenFile
  <2>2. f \in FileStates
    BY <2>1 DEF TypeOK, Paths
  <2>3. reader' = [reader EXCEPT ![r] = [reader[r] EXCEPT !.pc = "read", !.file = f]]
    BY <1>2, <2>1 DEF OpenFile, TypeOK
  <2> HIDE DEF f
  <2>4. StreamOK([reader[r] EXCEPT !.pc = "read", !.file = f])
    BY <2>1, <2>2, OpenOK
  <2> QED  BY <2>3, <2>4, OneStream
<1>3. ASSUME NEW r \in Readers, reader[r].pc \in {"open", "read", "express"},
             NEW a \in Answers, reader' = Answered(r, "client", a)
      PROVE  StreamsOK' /\ reader' \in [Readers -> {Idle} \cup Streams]
  <2>1. StreamOK(reader[r])
    BY <1>3, Running
  <2>2. reader' = [reader EXCEPT ![r] = [reader[r] EXCEPT !.pc = "client", !.answer = a]]
    BY <1>3 DEF Answered, TypeOK
  <2>3. StreamOK([reader[r] EXCEPT !.pc = "client", !.answer = a])
    BY <1>3, <2>1, AnswerOK
  <2> QED  BY <2>2, <2>3, OneStream
<1>14. ASSUME NEW r \in Readers, reader[r].pc \in {"open", "read", "express"},
              NEW f \in StoredFiles, f.block = Block(r), reader' = HitBy(r, f)
       PROVE  StreamsOK' /\ reader' \in [Readers -> {Idle} \cup Streams]
  <2>1. StreamOK(reader[r])
    BY <1>14, Running
  <2>2. f.len \in Nat /\ f.len = BlockLen([obj |-> reader[r].obj, idx |-> reader[r].idx])
    BY <1>14, CachedReadAssumption DEF StoredFiles, Block
  <2>3. HitOn(f) \in Answers
    BY DEF HitOn, StoredFiles, Answers
  <2> DEFINE a == HitOn(f)
  <2> HIDE DEF a
  <2>4. reader' = [reader EXCEPT ![r] = [reader[r] EXCEPT !.pc = "push", !.answer = a, !.len = f.len]]
    BY <1>14 DEF HitBy, TypeOK, a
  <2>5. StreamOK([reader[r] EXCEPT !.pc = "push", !.answer = a, !.len = f.len])
    BY <1>14, <2>1, <2>2, <2>3, HitOK DEF a
  <2> QED  BY <2>4, <2>5, OneStream
<1>4. ASSUME NEW r \in Readers, ReadFile(r)
      PROVE  StreamsOK' /\ reader' \in [Readers -> {Idle} \cup Streams]
  <2>1. StreamOK(reader[r]) /\ reader[r].pc = "read" /\ reader[r].file \in FileStates
    BY <1>4, Running DEF ReadFile, Streams
  <2>2. CASE Valid(reader[r].file, Block(r))
    <3>1. reader[r].file \in StoredFiles /\ reader[r].file.block = Block(r)
      BY <2>1, <2>2 DEF Valid, FileStates, NoFile
    <3>2. reader' = HitBy(r, reader[r].file)
      BY <1>4, <2>2 DEF ReadFile
    <3> QED  BY <1>14, <2>1, <3>1, <3>2
  <2>3. CASE ~Valid(reader[r].file, Block(r)) /\ InExpress
    <3>1. reader' = [reader EXCEPT ![r] = [reader[r] EXCEPT !.pc = "express"]]
      BY <1>4, <2>3 DEF ReadFile, TypeOK
    <3>2. StreamOK([reader[r] EXCEPT !.pc = "express"])
      BY <2>1, AskNextOK
    <3> QED  BY <3>1, <3>2, OneStream
  <2>4. CASE ~Valid(reader[r].file, Block(r)) /\ ~InExpress
    <3>1. PICK a \in {[kind |-> "miss"], [kind |-> "error"]} : reader' = Answered(r, "client", a)
      BY <1>4, <2>4 DEF ReadFile
    <3>2. a \in Answers
      BY <3>1 DEF Answers
    <3> QED  BY <1>3, <2>1, <3>1, <3>2
  <2> QED  BY <2>2, <2>3, <2>4
<1>5. ASSUME NEW r \in Readers, GetExpress(r)
      PROVE  StreamsOK' /\ reader' \in [Readers -> {Idle} \cup Streams]
  <2> DEFINE object == express[Path(Block(r))]
  <2>1. reader[r].pc = "express" /\ Block(r) \in Blocks
    BY <1>5, Running DEF GetExpress
  <2>2. \/ ValidMetadata(object, Block(r)) /\ reader' = HitBy(r, object)
        \/ \E a \in {[kind |-> "miss"], [kind |-> "error"]} : reader' = Answered(r, "client", a)
    BY <1>5 DEF GetExpress
  <2>3. ValidMetadata(object, Block(r)) => object \in StoredFiles /\ object.block = Block(r)
    BY <2>1 DEF ValidMetadata, TypeOK, Paths, FileStates, NoFile
  <2> HIDE DEF object
  <2>4. \A a \in {[kind |-> "miss"], [kind |-> "error"]} : a \in Answers
    BY DEF Answers
  <2> QED  BY <1>3, <1>14, <2>1, <2>2, <2>3, <2>4
<1>6. ASSUME NEW r \in Readers, PushBlock(r)
      PROVE  StreamsOK' /\ reader' \in [Readers -> {Idle} \cup Streams]
  <2> DEFINE s == reader[r]
             pushed == WithPart([s EXCEPT !.idx = @ + 1],
                                PartOf(s, BlockStart(s), BlockStart(s) + s.len))
  <2>1. StreamOK(s) /\ s.pc = "push"
    BY <1>6, Running DEF PushBlock
  <2>2. reader' = [reader EXCEPT ![r] = IF s.idx + 1 = Ceiling(s.to)
                                        THEN [pushed EXCEPT !.pc = "done"] ELSE Ask(pushed)]
    BY <1>6 DEF PushBlock, BlockStart, Block, EndBlock
  <2> HIDE DEF s
  <2>3. PICK u : u = pushed
    OBVIOUS
  <2>4. /\ s.idx + 1 = Ceiling(s.to) => StreamOK([u EXCEPT !.pc = "done"])
        /\ s.idx + 1 # Ceiling(s.to) => StreamOK(Ask(u))
    BY <2>1, <2>3, PushOK
  <2>5. reader' = [reader EXCEPT ![r] = IF s.idx + 1 = Ceiling(s.to) THEN [u EXCEPT !.pc = "done"] ELSE Ask(u)]
    BY <2>2, <2>3
  <2> HIDE DEF pushed
  <2>6. PICK n : n = IF s.idx + 1 = Ceiling(s.to) THEN [u EXCEPT !.pc = "done"] ELSE Ask(u)
    OBVIOUS
  <2>7. StreamOK(n) /\ reader' = [reader EXCEPT ![r] = n]
    BY <2>4, <2>5, <2>6
  <2> QED  BY <2>7, OneStream
<1>7. ASSUME NEW r \in Readers, NEW n \in 1 .. BlockSize, Piece(r, n)
      PROVE  StreamsOK' /\ reader' \in [Readers -> {Idle} \cup Streams]
  <2> DEFINE s == reader[r]
  <2>1. StreamOK(s) /\ s.pc = "client"
    BY <1>7, Running DEF Piece
  <2>2. PICK pushed : pushed = WithPart(s, PartOf(s, At(s), At(s) + n))
    OBVIOUS
  <2>3. /\ s.buffer + n <= BlockSize /\ At(s) + n <= EndOfRequest(s)
        /\ reader' = [reader EXCEPT ![r] = IF s.buffer + n < BlockSize THEN [pushed EXCEPT !.buffer = @ + n]
                                           ELSE [pushed EXCEPT !.buffer = 0, !.idx = @ + 1]]
    BY <1>7, <2>2 DEF Piece, Position, RequestEnd, EndBlock, At, BlockStart, EndOfRequest
  <2> HIDE DEF s
  <2>4. /\ s.buffer + n < BlockSize => StreamOK([pushed EXCEPT !.buffer = @ + n])
        /\ ~(s.buffer + n < BlockSize) => StreamOK([pushed EXCEPT !.buffer = 0, !.idx = @ + 1])
    BY <2>1, <2>2, <2>3, PieceOK
  <2>5. PICK m : m = IF s.buffer + n < BlockSize THEN [pushed EXCEPT !.buffer = @ + n]
                     ELSE [pushed EXCEPT !.buffer = 0, !.idx = @ + 1]
    OBVIOUS
  <2>6. StreamOK(m) /\ reader' = [reader EXCEPT ![r] = m]
    BY <2>3, <2>4, <2>5
  <2> QED  BY <2>6, OneStream
<1>8. ASSUME NEW r \in Readers, EndOfBody(r)
      PROVE  StreamsOK' /\ reader' \in [Readers -> {Idle} \cup Streams]
  <2>1. /\ StreamOK(reader[r]) /\ reader[r].pc = "client"
    BY <1>8, Running DEF EndOfBody
  <2>2. At(reader[r]) = EndOfRequest(reader[r])
    BY <1>8 DEF EndOfBody, Position, RequestEnd, EndBlock, At, BlockStart, EndOfRequest
  <2>3. reader' = [reader EXCEPT ![r] = [reader[r] EXCEPT !.pc = "done"]]
    BY <1>8 DEF EndOfBody, TypeOK
  <2> QED  BY <2>1, <2>2, <2>3, EndOK, OneStream
<1>9. ASSUME NEW r \in Readers, StopRead(r)
      PROVE  StreamsOK' /\ reader' \in [Readers -> {Idle} \cup Streams]
  BY <1>9, OneStream DEF StopRead
<1>10. ASSUME Restart
       PROVE  StreamsOK' /\ reader' \in [Readers -> {Idle} \cup Streams]
  BY <1>10 DEF Restart, StreamsOK
<1>11. ASSUME NEW t \in Tasks, TaskStep(t)
       PROVE  UNCHANGED reader
  BY <1>11 DEF TaskStep, PutEvict, PutWrite, PutPersist, PutExpress
<1>12. ASSUME (\E p \in Paths : DamageFile(p) \/ DamageExpress(p)) \/ (\E b \in Blocks : OtherInstance(b))
       PROVE  UNCHANGED reader
  BY <1>12 DEF DamageFile, DamageExpress, OtherInstance
<1>13. ASSUME UNCHANGED vars PROVE UNCHANGED reader
  BY <1>13 DEF vars
<1> QED
  BY <1>0, <1>1, <1>2, <1>4, <1>5, <1>6, <1>7, <1>8, <1>9, <1>10, <1>11, <1>12, <1>13 DEF Next, StreamStep

-----------------------------------------------------------------------------
\* The tasks

LEMMA Putting ==
    ASSUME TypeOK, NEW t \in Tasks, task[t] # Free
    PROVE  /\ task[t] \in Puts /\ task[t].block \in Blocks /\ task[t].len \in 0 .. BlockSize
           /\ task[t].state \in {"good", "damaged"} /\ task[t].pc \in {"evict", "write", "persist", "express"}
           /\ File(task[t].block, task[t].len, task[t].state) \in FileStates
BY DEF TypeOK, Puts, File, FileStates, StoredFiles

LEMMA AfterDiskEffect ==
    ASSUME TypeOK, NEW t \in Tasks, task[t] # Free, AfterDisk(t)
    PROVE  \E n \in {Free} \cup Puts :
              /\ task' = [task EXCEPT ![t] = n]
              /\ n # Free => n.pc = "express" /\ n.block = task[t].block /\ n.state = task[t].state
<1>1. task[t] \in Puts
  BY Putting
<1>2. [task[t] EXCEPT !.pc = "express"] \in Puts
  BY <1>1 DEF Puts
<1>3. CASE InExpress /\ task[t].level = "all"
  <2>1. task' = [task EXCEPT ![t] = [task[t] EXCEPT !.pc = "express"]]
    BY <1>3 DEF AfterDisk, TypeOK
  <2> QED  BY <1>1, <1>2, <2>1 DEF Puts
<1>4. CASE ~(InExpress /\ task[t].level = "all")
  BY <1>4 DEF AfterDisk, TypeOK
<1> QED  BY <1>3, <1>4

\* A task keeps its block.
LEMMA TaskEffect ==
    ASSUME TypeOK, NEW t \in Tasks, TaskStep(t)
    PROVE  /\ task[t] # Free
           /\ \E n \in {Free} \cup Puts :
                 /\ task' = [task EXCEPT ![t] = n]
                 /\ n # Free => n.block = task[t].block /\ n.state = task[t].state
<1>1. task[t] # Free
  <2>1. task[t].pc \in {"evict", "write", "persist", "express"}
    BY DEF TaskStep, PutEvict, PutWrite, PutPersist, PutExpress
  <2> QED  BY <2>1 DEF Free
<1>2. task[t] \in Puts
  BY <1>1, Putting
<1>3. ASSUME NEW pc \in {"write", "persist"}, task' = [task EXCEPT ![t].pc = pc]
      PROVE  \E n \in {Free} \cup Puts :
                /\ task' = [task EXCEPT ![t] = n]
                /\ n # Free => n.block = task[t].block /\ n.state = task[t].state
  <2>1. task' = [task EXCEPT ![t] = [task[t] EXCEPT !.pc = pc]]
    BY <1>3 DEF TypeOK
  <2>2. [task[t] EXCEPT !.pc = pc] \in Puts
    BY <1>2, <1>3 DEF Puts
  <2> QED  BY <1>2, <2>1, <2>2 DEF Puts
<1>4. ASSUME UNCHANGED task
      PROVE  \E n \in {Free} \cup Puts :
                /\ task' = [task EXCEPT ![t] = n]
                /\ n # Free => n.block = task[t].block /\ n.state = task[t].state
  BY <1>2, <1>4 DEF TypeOK
<1>5. ASSUME task' = [task EXCEPT ![t] = Free]
      PROVE  \E n \in {Free} \cup Puts :
                /\ task' = [task EXCEPT ![t] = n]
                /\ n # Free => n.block = task[t].block /\ n.state = task[t].state
  BY <1>5
<1>6. AfterDisk(t) => \E n \in {Free} \cup Puts :
                         /\ task' = [task EXCEPT ![t] = n]
                         /\ n # Free => n.block = task[t].block /\ n.state = task[t].state
  BY <1>1, AfterDiskEffect
<1>7. \/ \E pc \in {"write", "persist"} : task' = [task EXCEPT ![t].pc = pc]
      \/ UNCHANGED task
      \/ task' = [task EXCEPT ![t] = Free]
      \/ AfterDisk(t)
  BY DEF TaskStep, PutEvict, PutWrite, PutPersist, PutExpress
<1> QED  BY <1>1, <1>3, <1>4, <1>5, <1>6, <1>7

LEMMA SpawnedEffect ==
    ASSUME TypeOK, NEW b \in Blocks, NEW len \in 0 .. BlockSize, NEW state \in {"good", "damaged"},
           NEW level \in {"disk", "all"}, len = BlockLen(b), Spawned(b, len, state, level)
    PROVE  \E t \in Tasks, n \in Puts :
              /\ task[t] = Free /\ task' = [task EXCEPT ![t] = n]
              /\ n.pc \in {"evict", "express"} /\ n.block = b /\ n.state = state
<1>1. PICK t \in Tasks :
         /\ task[t] = Free
         /\ task' = [task EXCEPT ![t] =
               [pc |-> IF OnDisk THEN "evict" ELSE "express", block |-> b, len |-> len, state |-> state, level |-> level]]
  BY DEF Spawned
<1>2. PICK pc \in {"evict", "express"} :
         task' = [task EXCEPT ![t] = [pc |-> pc, block |-> b, len |-> len, state |-> state, level |-> level]]
  BY <1>1
<1>3. [pc |-> pc, block |-> b, len |-> len, state |-> state, level |-> level] \in Puts
  BY DEF Puts
<1> QED  BY <1>1, <1>2, <1>3

\* What the steps of a stream change beside the stream.
LEMMA StreamEffect ==
    ASSUME TypeOK, StreamsOK, GoodKnown, NEW r \in Readers, StreamStep(r) \/ StopRead(r)
    PROVE  /\ UNCHANGED <<config, files, express>>
           /\ known \subseteq known' /\ known' \subseteq Blocks
           /\ \/ UNCHANGED task
              \/ \E t \in Tasks, n \in Puts :
                    /\ task[t] = Free /\ task' = [task EXCEPT ![t] = n]
                    /\ n.pc \in {"evict", "express"} /\ (n.state = "good" => n.block \in known')
           /\ usage' = usage \/ \E p \in Paths : usage' = Refresh(p)
<1>1. CASE OpenFile(r) \/ PushBlock(r) \/ StopRead(r)
  BY <1>1 DEF OpenFile, PushBlock, StopRead, TypeOK
<1>2. CASE ReadFile(r)
  <2>1. Block(r) \in Blocks
    BY <1>2, Running DEF ReadFile
  <2> QED  BY <1>2, <2>1 DEF ReadFile, TypeOK, Paths
<1>3. CASE GetExpress(r)
  <2> DEFINE object == express[Path(Block(r))]
  <2>1. Block(r) \in Blocks
    BY <1>3, Running DEF GetExpress
  <2>2. \/ UNCHANGED task
        \/ ValidMetadata(object, Block(r)) /\ Spawned(Block(r), object.len, object.state, "disk")
    BY <1>3 DEF GetExpress
  <2>3. CASE ValidMetadata(object, Block(r)) /\ Spawned(Block(r), object.len, object.state, "disk")
    <3>1. /\ object \in StoredFiles /\ object.block = Block(r) /\ object.state \in {"good", "damaged"}
          /\ object.state = "good" => object.block \in known
      BY <2>1, <2>3 DEF ValidMetadata, TypeOK, Paths, FileStates, NoFile, GoodKnown
    <3> HIDE DEF object
    <3>2. object.len \in 0 .. BlockSize /\ object.len = BlockLen(Block(r))
      BY <3>1 DEF StoredFiles
    <3>3. PICK t \in Tasks, n \in Puts :
              /\ task[t] = Free /\ task' = [task EXCEPT ![t] = n]
              /\ n.pc \in {"evict", "express"} /\ n.block = Block(r) /\ n.state = object.state
      BY <2>1, <2>3, <3>1, <3>2, SpawnedEffect
    <3>4. n.state = "good" => n.block \in known
      BY <3>1, <3>3
    <3> QED  BY <1>3, <3>3, <3>4 DEF GetExpress, TypeOK
  <2> QED  BY <1>3, <2>2, <2>3 DEF GetExpress, TypeOK
<1>4. ASSUME NEW len \in 1 .. BlockSize, Block(r) \in Blocks, len = BlockLen(Block(r)), Spawned(Block(r), len, "good", "all"),
             known' = known \cup {Block(r)}, UNCHANGED <<config, files, usage, express>>
      PROVE  /\ UNCHANGED <<config, files, express>>
             /\ known \subseteq known' /\ known' \subseteq Blocks
             /\ \E t \in Tasks, n \in Puts :
                    /\ task[t] = Free /\ task' = [task EXCEPT ![t] = n]
                    /\ n.pc \in {"evict", "express"} /\ (n.state = "good" => n.block \in known')
             /\ usage' = usage
  <2>1. len \in 0 .. BlockSize
    BY CachedReadAssumption
  <2>2. PICK t \in Tasks, n \in Puts :
            /\ task[t] = Free /\ task' = [task EXCEPT ![t] = n]
            /\ n.pc \in {"evict", "express"} /\ n.block = Block(r) /\ n.state = "good"
    BY <1>4, <2>1, SpawnedEffect
  <2> QED  BY <1>4, <2>2 DEF TypeOK
<1>5. ASSUME NEW k \in 1 .. BlockSize, Piece(r, k)
      PROVE  /\ Block(r) \in Blocks
             /\ reader[r].buffer + k = BlockSize => BlockSize = BlockLen(Block(r))
  <2> DEFINE s == reader[r]
  <2>1. StreamOK(s) /\ s \in Streams /\ s.pc = "client" /\ s.buffer \in Nat
    BY <1>5, Running DEF Piece, Streams
  <2>2. At(s) + k <= EndOfRequest(s) /\ BlockStart(s) \in Nat /\ EndOfRequest(s) \in Int
    <3>0. s.obj \in Objects /\ s.to \in Nat \ {0} /\ BlockSize \in Nat
      BY <2>1, CachedReadAssumption DEF Streams, StreamOK, InRange
    <3>1. Ceiling(s.to) \in Nat
      BY <3>0, CeilingBounds
    <3>2. EndOfRequest(s) \in Int
      BY <3>0, <3>1, CachedReadAssumption DEF EndOfRequest, Least
    <3> QED  BY <1>5, <2>1, <3>2, StartOfBlock DEF Piece, Position, RequestEnd, EndBlock, At, BlockStart, EndOfRequest
  <2>3. BlockStart(s) < EndOfRequest(s) /\ BlockStart(s) + (s.buffer + k) <= EndOfRequest(s)
    BY <2>1, <2>2 DEF At
  <2>4. BlockSize \in 1 .. BlockSize
    BY CachedReadAssumption
  <2> HIDE DEF s
  <2>5. s.buffer + k = BlockSize => BlockSize = BlockLen([obj |-> s.obj, idx |-> s.idx])
    BY <2>1, <2>3, <2>4, LengthOfBody
  <2> QED  BY <2>1, <2>3, <2>5, BlockOfBody DEF Block, s
<1>6. ASSUME NEW k \in 1 .. BlockSize, Piece(r, k)
      PROVE  /\ UNCHANGED <<config, files, express>>
             /\ known \subseteq known' /\ known' \subseteq Blocks
             /\ \/ UNCHANGED task
                \/ \E t \in Tasks, n \in Puts :
                      /\ task[t] = Free /\ task' = [task EXCEPT ![t] = n]
                      /\ n.pc \in {"evict", "express"} /\ (n.state = "good" => n.block \in known')
             /\ usage' = usage
  <2>1. reader[r].buffer \in Nat /\ reader[r].buffer + k <= BlockSize
    BY <1>6, Running DEF Piece, Streams
  <2>2. reader[r].buffer + k \in 1 .. BlockSize
    BY <2>1, CachedReadAssumption
  <2>3. Block(r) \in Blocks /\ (reader[r].buffer + k = BlockSize => BlockSize = BlockLen(Block(r)))
    BY <1>5, <1>6
  <2>4. CASE reader[r].buffer + k < BlockSize
    BY <1>6, <2>4 DEF Piece, TypeOK
  <2>5. CASE ~(reader[r].buffer + k < BlockSize)
    <3>1. reader[r].buffer + k = BlockSize
      BY <2>2, <2>5, CachedReadAssumption
    <3>2. Spawned(Block(r), BlockSize, "good", "all") /\ known' = known \cup {Block(r)}
          /\ UNCHANGED <<config, files, usage, express>>
      BY <1>6, <2>5, <3>1 DEF Piece
    <3> QED  BY <1>4, <2>2, <2>3, <3>1, <3>2
  <2> QED  BY <2>4, <2>5
<1>7. CASE EndOfBody(r)
  <2> DEFINE s == reader[r]
  <2>1. StreamOK(s) /\ s \in Streams /\ s.pc = "client" /\ s.buffer \in Nat /\ s.buffer < BlockSize
    BY <1>7, Running DEF EndOfBody, Streams, StreamOK, InRange
  <2>2. CASE s.buffer > 0
    <3>1. s.buffer \in 1 .. BlockSize
      BY <2>1, <2>2, CachedReadAssumption
    <3>2. At(s) = EndOfRequest(s)
      BY <1>7 DEF EndOfBody, Position, RequestEnd, EndBlock, At, BlockStart, EndOfRequest
    <3>3. BlockStart(s) < EndOfRequest(s)
      BY <2>1, <2>2, <3>2, StartOfBlock DEF At
    <3>4. Block(r) \in Blocks
      BY <2>1, <3>3, BlockOfBody DEF Block
    <3>5. s.buffer = BlockLen(Block(r))
      <4>1. BlockStart(s) + s.buffer <= EndOfRequest(s) /\ BlockStart(s) + s.buffer = EndOfRequest(s)
        BY <2>1, <3>2, StartOfBlock DEF At
      <4> QED  BY <2>1, <3>1, <4>1, LengthOfBody DEF Block
    <3> QED  BY <1>4, <1>7, <2>2, <3>1, <3>4, <3>5 DEF EndOfBody
  <2>3. CASE ~(s.buffer > 0)
    BY <1>7, <2>3 DEF EndOfBody, TypeOK
  <2> QED  BY <2>2, <2>3
<1> QED  BY <1>1, <1>2, <1>3, <1>6, <1>7 DEF StreamStep

-----------------------------------------------------------------------------
\* The entries of the usage

LEMMA FileSizes ==
    /\ LargestFile \in Nat
    /\ \A b \in Blocks, len \in 0 .. BlockSize : FileSize(b, len) \in 0 .. LargestFile
<1>1. MaxHeader \in Nat /\ BlockSize \in Nat
  BY CachedReadAssumption
<1>2. ASSUME NEW b \in Blocks, NEW len \in 0 .. BlockSize
      PROVE  FileSize(b, len) \in 0 .. LargestFile
  <2>1. Header[b.obj] \in 0 .. MaxHeader
    BY BlockParts, CachedReadAssumption
  <2> QED  BY <1>1, <2>1 DEF FileSize, LargestFile
<1> QED  BY <1>1, <1>2 DEF LargestFile

LEMMA RemoveAtFacts ==
    ASSUME NEW S, NEW s \in Seq(S), NEW j \in 1 .. Len(s)
    PROVE  /\ RemoveAt(s, j) \in Seq(S)
           /\ Len(RemoveAt(s, j)) = Len(s) - 1
           /\ \A k \in 1 .. Len(s) - 1 : RemoveAt(s, j)[k] = IF k < j THEN s[k] ELSE s[k + 1]
<1>1. Len(s) \in Nat
  OBVIOUS
<1> DEFINE a == SubSeq(s, 1, j - 1)
           b == SubSeq(s, j + 1, Len(s))
<1>2. a \in Seq(S) /\ Len(a) = j - 1 /\ \A k \in 1 .. j - 1 : a[k] = s[k]
  BY <1>1
<1>3. b \in Seq(S) /\ Len(b) = Len(s) - j /\ \A k \in 1 .. Len(s) - j : b[k] = s[j + k]
  BY <1>1
<1> HIDE DEF a, b
<1>4. a \o b \in Seq(S) /\ Len(a \o b) = Len(s) - 1
  <2>1. a \o b \in Seq(S) /\ Len(a \o b) = Len(a) + Len(b)
    BY <1>2, <1>3, ConcatProperties
  <2> QED  BY <1>1, <1>2, <1>3, <2>1
<1>5. \A k \in 1 .. Len(s) - 1 : (a \o b)[k] = IF k < j THEN a[k] ELSE b[k - (j - 1)]
  <2>1. \A k \in 1 .. Len(a) + Len(b) : (a \o b)[k] = IF k <= Len(a) THEN a[k] ELSE b[k - Len(a)]
    BY <1>2, <1>3, ConcatProperties
  <2>2. Len(a) + Len(b) = Len(s) - 1
    BY <1>1, <1>2, <1>3
  <2>3. \A k \in 1 .. Len(s) - 1 : (a \o b)[k] = IF k <= j - 1 THEN a[k] ELSE b[k - (j - 1)]
    BY <1>2, <2>1, <2>2
  <2>4. \A k \in 1 .. Len(s) - 1 : k <= j - 1 <=> k < j
    BY <1>1
  <2> QED  BY <2>3, <2>4
<1>6. \A k \in 1 .. Len(s) - 1 : (a \o b)[k] = IF k < j THEN s[k] ELSE s[k + 1]
  <2> SUFFICES ASSUME NEW k \in 1 .. Len(s) - 1
               PROVE  (a \o b)[k] = IF k < j THEN s[k] ELSE s[k + 1]
    OBVIOUS
  <2>1. CASE k < j
    BY <1>1, <1>2, <1>5, <2>1
  <2>2. CASE ~(k < j)
    <3>1. k - (j - 1) \in 1 .. Len(s) - j /\ j + (k - (j - 1)) = k + 1
      BY <1>1, <2>2
    <3> QED  BY <1>3, <1>5, <2>2, <3>1
  <2> QED  BY <2>1, <2>2
<1> QED  BY <1>4, <1>6 DEF RemoveAt, a, b

Distinct(e) == \A j, k \in DOMAIN e : e[j].path = e[k].path => j = k

\* What is left without a file are the entries of the others, each once.
LEMMA WithoutFacts ==
    ASSUME TypeOK, EntriesMatchFiles, NEW p \in Paths
    PROVE  /\ Without(p) \in Seq(Entries) /\ Distinct(Without(p))
           /\ \A k \in DOMAIN Without(p) :
                 /\ Without(p)[k].path # p
                 /\ \E j \in DOMAIN usage.entries : Without(p)[k] = usage.entries[j]
           /\ SizeOf(p) \in 0 .. LargestFile
           /\ Entry(p) # {} => \E j \in DOMAIN usage.entries : usage.entries[j] = [path |-> p, size |-> SizeOf(p)]
<1> DEFINE e == usage.entries
<1>1. e \in Seq(Entries) /\ Distinct(e) /\ LargestFile \in Nat
  BY FileSizes DEF TypeOK, EntriesMatchFiles, Distinct
<1>2. DOMAIN e = 1 .. Len(e) /\ Len(e) \in Nat /\ \A j \in DOMAIN e : e[j] \in Entries
  BY <1>1
<1>3. CASE Entry(p) = {}
  <2>1. Without(p) = e /\ SizeOf(p) = 0
    BY <1>3 DEF Without, SizeOf
  <2>2. \A k \in DOMAIN e : e[k].path # p
    BY <1>3 DEF Entry
  <2> QED  BY <1>1, <1>3, <2>1, <2>2
<1>4. CASE Entry(p) # {}
  <2>1. PICK i : i = CHOOSE j \in Entry(p) : TRUE
    OBVIOUS
  <2>2. i \in DOMAIN e /\ e[i].path = p
    BY <1>4, <2>1 DEF Entry
  <2>3. Without(p) = RemoveAt(e, i) /\ SizeOf(p) = e[i].size
    BY <1>4, <2>1 DEF Without, SizeOf
  <2>4. e[i] \in Entries /\ i \in 1 .. Len(e)
    BY <1>2, <2>2
  <2>5. e[i] = [path |-> p, size |-> SizeOf(p)] /\ SizeOf(p) \in 0 .. LargestFile
    BY <2>2, <2>3, <2>4 DEF Entries
  <2> DEFINE w == Without(p)
  <2> HIDE DEF e, w
  <2>6. /\ w \in Seq(Entries) /\ Len(w) = Len(e) - 1
        /\ \A k \in 1 .. Len(e) - 1 : w[k] = IF k < i THEN e[k] ELSE e[k + 1]
    BY <1>1, <2>3, <2>4, RemoveAtFacts DEF w
  <2>7. DOMAIN w = 1 .. Len(e) - 1
    BY <2>6
  <2>8. \A k \in DOMAIN w : \E j \in DOMAIN e : j # i /\ w[k] = e[j]
    <3> SUFFICES ASSUME NEW k \in DOMAIN w
                 PROVE  \E j \in DOMAIN e : j # i /\ w[k] = e[j]
      OBVIOUS
    <3>1. k \in 1 .. Len(e) - 1 /\ k \in DOMAIN e /\ k + 1 \in DOMAIN e
      BY <1>2, <2>7
    <3> QED  BY <2>4, <2>6, <3>1
  <2>9. \A k \in DOMAIN w : w[k].path # p
    BY <1>1, <2>2, <2>8 DEF Distinct
  <2>10. Distinct(w)
    <3> SUFFICES ASSUME NEW k \in DOMAIN w, NEW l \in DOMAIN w, w[k].path = w[l].path
                 PROVE  k = l
      BY DEF Distinct
    <3> DEFINE kk == IF k < i THEN k ELSE k + 1
               ll == IF l < i THEN l ELSE l + 1
    <3>1. k \in 1 .. Len(e) - 1 /\ l \in 1 .. Len(e) - 1
      BY <2>7
    <3>2. kk \in DOMAIN e /\ ll \in DOMAIN e
      BY <1>2, <2>4, <3>1
    <3>3. w[k] = e[kk] /\ w[l] = e[ll]
      BY <2>6, <3>1
    <3>4. kk = ll
      BY <1>1, <3>2, <3>3 DEF Distinct
    <3> QED  BY <1>2, <2>4, <3>1, <3>4
  <2> QED  BY <2>2, <2>5, <2>6, <2>8, <2>9, <2>10 DEF w, e
<1> QED  BY <1>3, <1>4

\* The file that was used last is the last entry.
LEMMA LastFacts ==
    ASSUME TypeOK, EntriesMatchFiles, NEW p \in Paths, NEW size \in 0 .. LargestFile
    PROVE  LET new == Append(Without(p), [path |-> p, size |-> size])
           IN  /\ new \in Seq(Entries) /\ Distinct(new)
               /\ \A k \in DOMAIN new :
                     \/ new[k] = [path |-> p, size |-> size]
                     \/ new[k].path # p /\ \E j \in DOMAIN usage.entries : new[k] = usage.entries[j]
<1> DEFINE w == Without(p)
           x == [path |-> p, size |-> size]
           new == Append(w, x)
<1>1. /\ w \in Seq(Entries) /\ Distinct(w)
      /\ \A k \in DOMAIN w : w[k].path # p /\ \E j \in DOMAIN usage.entries : w[k] = usage.entries[j]
  BY WithoutFacts
<1>2. x \in Entries /\ x.path = p
  BY DEF Entries
<1> HIDE DEF w, x
<1>3. /\ new \in Seq(Entries) /\ Len(new) = Len(w) + 1 /\ new[Len(w) + 1] = x
      /\ \A k \in 1 .. Len(w) : new[k] = w[k]
  BY <1>1, <1>2
<1>4. DOMAIN new = 1 .. Len(w) + 1 /\ DOMAIN w = 1 .. Len(w) /\ Len(w) \in Nat
  BY <1>1, <1>3
<1> HIDE DEF new
<1>5. \A k \in DOMAIN new : (k = Len(w) + 1 /\ new[k] = x) \/ (k \in DOMAIN w /\ new[k] = w[k])
  BY <1>3, <1>4
<1>6. Distinct(new)
  BY <1>1, <1>2, <1>5 DEF Distinct
<1>7. \A k \in DOMAIN new :
         \/ new[k] = x
         \/ new[k].path # p /\ \E j \in DOMAIN usage.entries : new[k] = usage.entries[j]
  BY <1>1, <1>5
<1> QED  BY <1>3, <1>6, <1>7 DEF new, w, x

\* The step of UsageInfo::refresh.
LEMMA RefreshFacts ==
    ASSUME TypeOK, EntriesMatchFiles, NEW p \in Paths, usage' = Refresh(p)
    PROVE  /\ usage' \in [entries : Seq(Entries), size : Nat] /\ usage'.size = usage.size
           /\ Distinct(usage'.entries)
           /\ \A k \in DOMAIN usage'.entries : \E j \in DOMAIN usage.entries : usage'.entries[k] = usage.entries[j]
           /\ usage = Unused => usage' = Unused
<1>1. CASE Entry(p) = {}
  BY <1>1 DEF Refresh, TypeOK, EntriesMatchFiles, Distinct
<1>2. CASE Entry(p) # {}
  <2> DEFINE new == Append(Without(p), [path |-> p, size |-> SizeOf(p)])
  <2>1. /\ SizeOf(p) \in 0 .. LargestFile
        /\ \E j \in DOMAIN usage.entries : usage.entries[j] = [path |-> p, size |-> SizeOf(p)]
    BY <1>2, WithoutFacts
  <2>2. /\ new \in Seq(Entries) /\ Distinct(new)
        /\ \A k \in DOMAIN new : \E j \in DOMAIN usage.entries : new[k] = usage.entries[j]
    BY <2>1, LastFacts
  <2>3. usage' = [usage EXCEPT !.entries = new]
    BY <1>2 DEF Refresh
  <2> HIDE DEF new
  <2>4. usage'.entries = new /\ usage'.size = usage.size /\ usage' \in [entries : Seq(Entries), size : Nat]
    BY <2>2, <2>3 DEF TypeOK
  <2>5. usage # Unused
    BY <2>1 DEF Unused
  <2> QED  BY <2>2, <2>4, <2>5
<1> QED  BY <1>1, <1>2

-----------------------------------------------------------------------------
\* The sizes of entries, added up.  What is proved by induction uses the set of
\* the numbers for which it holds.

LEMMA SetInduction ==
    ASSUME NEW S, 0 \in S, \A n \in Nat : n \in S => n + 1 \in S
    PROVE  Nat \subseteq S
<1> DEFINE Less == {ss \in Nat \X Nat : ss[1] < ss[2]}
           Bad == Nat \ S
<1>1. IsWellFoundedOn(Less, Nat)
  BY NatLessThanWellFounded DEF OpToRel
<1>2. SUFFICES ASSUME Bad # {} PROVE FALSE
  OBVIOUS
<1>3. PICK x \in Bad : \A y \in Bad : ~(<<y, x>> \in Less)
  <2> HIDE DEF Less
  <2>1. Bad \subseteq Nat
    OBVIOUS
  <2> HIDE DEF Bad
  <2> QED  BY <1>1, <1>2, <2>1, WFMin
<1>4. x \in Nat /\ x \notin S /\ x # 0
  BY <1>3
<1>5. x - 1 \in Nat /\ x - 1 < x
  BY <1>4
<1>6. x - 1 \in S
  BY <1>3, <1>4, <1>5
<1> QED  BY <1>4, <1>5, <1>6

\* The function that Sums chooses exists.
LEMMA SumsExist ==
    ASSUME NEW e, NEW N \in Nat
    PROVE  \E f : f = [n \in 0 .. N |-> IF n = 0 THEN 0 ELSE f[n - 1] + e[n].size]
<1> DEFINE S == {k \in Nat : \E f : f = [n \in 0 .. k |-> IF n = 0 THEN 0 ELSE f[n - 1] + e[n].size]}
<1>1. 0 \in S
  <2> DEFINE f == [n \in 0 .. 0 |-> 0]
  <2>1. f = [n \in 0 .. 0 |-> IF n = 0 THEN 0 ELSE f[n - 1] + e[n].size]
    OBVIOUS
  <2> QED  BY <2>1
<1>2. ASSUME NEW k \in Nat, k \in S PROVE k + 1 \in S
  <2>1. PICK f : f = [n \in 0 .. k |-> IF n = 0 THEN 0 ELSE f[n - 1] + e[n].size]
    BY <1>2
  <2> DEFINE g == [n \in 0 .. k + 1 |-> IF n = k + 1 THEN f[k] + e[k + 1].size ELSE f[n]]
  <2>2. \A n \in 0 .. k : f[n] = IF n = 0 THEN 0 ELSE f[n - 1] + e[n].size
    BY <2>1
  <2>3. ASSUME NEW n \in 0 .. k + 1 PROVE g[n] = IF n = 0 THEN 0 ELSE g[n - 1] + e[n].size
    <3>1. CASE n = k + 1
      <4>1. n - 1 = k /\ k \in 0 .. k + 1 /\ k # k + 1 /\ n # 0
        BY <3>1
      <4>2. g[n] = f[k] + e[k + 1].size /\ g[k] = f[k]
        BY <3>1, <4>1
      <4> QED  BY <3>1, <4>1, <4>2
    <3>2. CASE n # k + 1
      <4>1. n \in 0 .. k /\ (n # 0 => n - 1 \in 0 .. k + 1 /\ n - 1 # k + 1)
        BY <3>2
      <4> QED  BY <2>2, <3>2, <4>1
    <3> QED  BY <3>1, <3>2
  <2>4. g = [n \in 0 .. k + 1 |-> IF n = 0 THEN 0 ELSE g[n - 1] + e[n].size]
    <3>1. DOMAIN g = 0 .. k + 1
      OBVIOUS
    <3>2. g = [n \in 0 .. k + 1 |-> g[n]]
      OBVIOUS
    <3> HIDE DEF g
    <3> QED  BY <2>3, <3>2
  <2>5. k + 1 \in Nat
    OBVIOUS
  <2> HIDE DEF g
  <2> QED  BY <2>4, <2>5
<1> HIDE DEF S
<1>3. Nat \subseteq S
  BY <1>1, <1>2, SetInduction
<1>4. N \in S
  BY <1>3
<1> QED  BY <1>4 DEF S

\* What Sums computes.
LEMMA SumsDef ==
    ASSUME NEW e, Len(e) \in Nat
    PROVE  /\ Sums(e)[0] = 0
           /\ \A n \in 1 .. Len(e) : Sums(e)[n] = Sums(e)[n - 1] + e[n].size
<1>1. \E f : f = [n \in 0 .. Len(e) |-> IF n = 0 THEN 0 ELSE f[n - 1] + e[n].size]
  BY SumsExist
<1>2. Sums(e) = [n \in 0 .. Len(e) |-> IF n = 0 THEN 0 ELSE Sums(e)[n - 1] + e[n].size]
  BY <1>1 DEF Sums
<1> QED  BY <1>2


LEMMA SumsType ==
    ASSUME NEW e \in Seq(Entries)
    PROVE  \A n \in 0 .. Len(e) : Sums(e)[n] \in Nat
<1> DEFINE S == {n \in Nat : n <= Len(e) => Sums(e)[n] \in Nat}
<1>0. Len(e) \in Nat /\ \A n \in 1 .. Len(e) : e[n].size \in Nat
  <2>1. Len(e) \in Nat /\ \A n \in 1 .. Len(e) : e[n] \in Entries
    OBVIOUS
  <2> QED  BY <2>1, FileSizes DEF Entries
<1>1. 0 \in S
  BY <1>0, SumsDef
<1>2. ASSUME NEW n \in Nat, n \in S
      PROVE  n + 1 \in S
  <2> SUFFICES ASSUME n + 1 <= Len(e)
               PROVE  Sums(e)[n + 1] \in Nat
    OBVIOUS
  <2>1. n + 1 \in 1 .. Len(e) /\ (n + 1) - 1 = n /\ n <= Len(e)
    BY <1>0
  <2>2. Sums(e)[n + 1] = Sums(e)[n] + e[n + 1].size
    BY <1>0, <2>1, SumsDef
  <2>3. Sums(e)[n] \in Nat /\ e[n + 1].size \in Nat
    BY <1>0, <1>2, <2>1
  <2> QED  BY <2>2, <2>3
<1> HIDE DEF S
<1>3. Nat \subseteq S
  BY <1>1, <1>2, SetInduction
<1> QED  BY <1>0, <1>3 DEF S

\* The entries of e after the first i and those of w after the first j have the
\* same sums as long as they have the same sizes.
Shifted(e, w, i, j, k) ==
    /\ i + k <= Len(e) /\ j + k <= Len(w)
    /\ \A n \in 1 .. k : e[i + n] = w[j + n]
SameSums(e, w, i, j, k) == Sums(e)[i + k] - Sums(e)[i] = Sums(w)[j + k] - Sums(w)[j]

LEMMA SumsShift ==
    ASSUME NEW e \in Seq(Entries), NEW w \in Seq(Entries), NEW i \in Nat, NEW j \in Nat, NEW k \in Nat,
           Shifted(e, w, i, j, k)
    PROVE  SameSums(e, w, i, j, k)
<1> DEFINE S == {n \in Nat : n <= k => Sums(e)[i + n] - Sums(e)[i] = Sums(w)[j + n] - Sums(w)[j]}
<1>0. /\ Len(e) \in Nat /\ Len(w) \in Nat
      /\ i + k <= Len(e) /\ j + k <= Len(w)
      /\ \A n \in 1 .. k : e[i + n] = w[j + n]
  BY DEF Shifted
<1>1. /\ \A n \in 0 .. Len(e) : Sums(e)[n] \in Nat
      /\ \A n \in 0 .. Len(w) : Sums(w)[n] \in Nat
  BY SumsType
<1>2. 0 \in S
  <2>1. i + 0 = i /\ j + 0 = j /\ i \in 0 .. Len(e) /\ j \in 0 .. Len(w)
    BY <1>0
  <2>2. Sums(e)[i] \in Nat /\ Sums(w)[j] \in Nat
    BY <1>1, <2>1
  <2>3. Sums(e)[i] - Sums(e)[i] = 0 /\ Sums(w)[j] - Sums(w)[j] = 0
    BY <2>2
  <2> QED  BY <2>1, <2>3
<1>3. ASSUME NEW n \in Nat, n \in S
      PROVE  n + 1 \in S
  <2> SUFFICES ASSUME n + 1 <= k
               PROVE  Sums(e)[i + (n + 1)] - Sums(e)[i] = Sums(w)[j + (n + 1)] - Sums(w)[j]
    OBVIOUS
  <2>1. /\ n + 1 \in 1 .. k /\ n <= k
        /\ i + (n + 1) \in 1 .. Len(e) /\ (i + (n + 1)) - 1 = i + n
        /\ j + (n + 1) \in 1 .. Len(w) /\ (j + (n + 1)) - 1 = j + n
        /\ i \in 0 .. Len(e) /\ i + n \in 0 .. Len(e)
        /\ j \in 0 .. Len(w) /\ j + n \in 0 .. Len(w)
    BY <1>0
  <2>2. /\ Sums(e)[i + (n + 1)] = Sums(e)[i + n] + e[i + (n + 1)].size
        /\ Sums(w)[j + (n + 1)] = Sums(w)[j + n] + w[j + (n + 1)].size
    BY <1>0, <2>1, SumsDef
  <2>3. e[i + (n + 1)] = w[j + (n + 1)]
    BY <1>0, <2>1
  <2>4. e[i + (n + 1)].size \in Nat
    <3>1. e[i + (n + 1)] \in Entries /\ LargestFile \in Nat
      BY <2>1, FileSizes
    <3> QED  BY <3>1 DEF Entries
  <2>5. Sums(e)[i + n] - Sums(e)[i] = Sums(w)[j + n] - Sums(w)[j]
    BY <1>3, <2>1
  <2>6. PICK a \in Nat, b \in Nat, c \in Nat, d \in Nat :
           a = Sums(e)[i + n] /\ b = Sums(e)[i] /\ c = Sums(w)[j + n] /\ d = Sums(w)[j]
    BY <1>1, <2>1
  <2>7. PICK x \in Nat : x = e[i + (n + 1)].size /\ x = w[j + (n + 1)].size
    BY <2>3, <2>4
  <2>8. a - b = c - d
    BY <2>5, <2>6
  <2>9. (a + x) - b = (c + x) - d
    BY <2>8
  <2> QED  BY <2>2, <2>6, <2>7, <2>9
<1> HIDE DEF S
<1>4. Nat \subseteq S
  BY <1>2, <1>3, SetInduction
<1>5. k \in S /\ k <= k
  BY <1>4
<1> QED  BY <1>5 DEF S, SameSums

\* An entry that is appended is counted ...
LEMMA TotalAppended ==
    ASSUME NEW e \in Seq(Entries), NEW x \in Entries
    PROVE  /\ TotalSize(Append(e, x)) = TotalSize(e) + x.size
           /\ TotalSize(e) \in Nat
<1> DEFINE w == Append(e, x)
           n == Len(e)
<1>1. /\ w \in Seq(Entries) /\ Len(w) = n + 1 /\ w[n + 1] = x
      /\ \A k \in 1 .. n : w[k] = e[k]
      /\ n \in Nat
  OBVIOUS
<1> HIDE DEF w, n
<1>2. n = Len(e)
  BY DEF n
<1>3. 0 + n <= Len(e) /\ 0 + n <= Len(w) /\ 0 + n = n /\ \A k \in 1 .. n : e[0 + k] = w[0 + k]
  BY <1>1, <1>2
<1>4. Sums(e)[n] - Sums(e)[0] = Sums(w)[n] - Sums(w)[0]
  <2>1. Shifted(e, w, 0, 0, n)
    BY <1>3 DEF Shifted
  <2>2. SameSums(e, w, 0, 0, n)
    BY <1>1, <2>1, SumsShift
  <2> QED  BY <1>3, <2>2 DEF SameSums
<1>5. Sums(e)[0] = 0 /\ Sums(w)[0] = 0 /\ Sums(w)[n + 1] = Sums(w)[n] + x.size
  <2>1. n + 1 \in 1 .. Len(w) /\ (n + 1) - 1 = n /\ Len(w) \in Nat
    BY <1>1
  <2>2. Sums(w)[0] = 0 /\ Sums(w)[n + 1] = Sums(w)[n] + w[n + 1].size
    BY <2>1, SumsDef
  <2>3. Sums(e)[0] = 0
    BY <1>1, <1>2, SumsDef
  <2> QED  BY <1>1, <2>2, <2>3
<1>6. Sums(e)[n] \in Nat /\ Sums(w)[n] \in Nat
  <2>1. n \in 0 .. Len(e) /\ n \in 0 .. Len(w)
    BY <1>1, <1>2
  <2> QED  BY <1>1, <2>1, SumsType
<1>7. Sums(w)[n] = Sums(e)[n]
  BY <1>4, <1>5, <1>6
<1>8. TotalSize(w) = TotalSize(e) + x.size /\ TotalSize(e) \in Nat
  BY <1>1, <1>2, <1>5, <1>6, <1>7 DEF TotalSize
<1> QED  BY <1>8 DEF w

\* ... and one that is taken out, wherever it is, no longer.
LEMMA TotalRemoved ==
    ASSUME NEW e \in Seq(Entries), NEW w \in Seq(Entries), NEW i \in 1 .. Len(e),
           Len(w) = Len(e) - 1,
           \A k \in 1 .. Len(e) - 1 : w[k] = IF k < i THEN e[k] ELSE e[k + 1]
    PROVE  /\ TotalSize(e) = TotalSize(w) + e[i].size
           /\ TotalSize(w) \in Nat /\ e[i].size \in Nat
<1> DEFINE n == Len(e)
           h == i - 1
           r == n - i
<1>1. n \in Nat /\ h \in Nat /\ r \in Nat /\ h + r = n - 1 /\ i + r = n /\ i = h + 1 /\ h <= n - 1 /\ Len(w) = n - 1
  OBVIOUS
<1>2. /\ 0 + h <= Len(e) /\ 0 + h <= Len(w) /\ 0 + h = h
      /\ \A k \in 1 .. h : e[0 + k] = w[0 + k]
  BY <1>1
<1>3. /\ i + r <= Len(e) /\ h + r <= Len(w) /\ i \in Nat
      /\ \A k \in 1 .. r : e[i + k] = w[h + k]
  <2>1. ASSUME NEW k \in 1 .. r
        PROVE  e[i + k] = w[h + k]
    <3>1. h + k \in 1 .. Len(e) - 1 /\ ~(h + k < i) /\ (h + k) + 1 = i + k
      BY <1>1
    <3> QED  BY <3>1
  <2> QED  BY <1>1, <2>1
<1>4. e[i].size \in Nat
  <2>1. e[i] \in Entries /\ LargestFile \in Nat
    BY FileSizes
  <2> QED  BY <2>1 DEF Entries
<1> HIDE DEF n, h, r
<1>5. Sums(e)[h] - Sums(e)[0] = Sums(w)[h] - Sums(w)[0]
  <2>1. Shifted(e, w, 0, 0, h)
    BY <1>2 DEF Shifted
  <2>2. SameSums(e, w, 0, 0, h)
    BY <1>1, <2>1, SumsShift
  <2> QED  BY <1>2, <2>2 DEF SameSums
<1>6. Sums(e)[i + r] - Sums(e)[i] = Sums(w)[h + r] - Sums(w)[h]
  <2>1. Shifted(e, w, i, h, r)
    BY <1>3 DEF Shifted
  <2>2. SameSums(e, w, i, h, r)
    BY <1>1, <1>3, <2>1, SumsShift
  <2> QED  BY <2>2 DEF SameSums
<1>7. Sums(e)[0] = 0 /\ Sums(w)[0] = 0 /\ Sums(e)[i] = Sums(e)[h] + e[i].size
  <2>1. Len(e) \in Nat /\ Len(w) \in Nat /\ i - 1 = h
    BY <1>1
  <2> QED  BY <2>1, SumsDef
<1>8. PICK a \in Nat, b \in Nat, c \in Nat, d \in Nat, f \in Nat :
         /\ a = Sums(e)[h] /\ b = Sums(e)[i] /\ c = Sums(e)[i + r]
         /\ d = Sums(w)[h] /\ f = Sums(w)[h + r]
  <2>1. h \in 0 .. Len(e) /\ i \in 0 .. Len(e) /\ i + r \in 0 .. Len(e)
    BY <1>1, <1>3
  <2>2. h \in 0 .. Len(w) /\ h + r \in 0 .. Len(w)
    BY <1>1, <1>3
  <2> QED  BY <2>1, <2>2, SumsType
<1>9. TotalSize(e) = c /\ TotalSize(w) = f
  BY <1>1, <1>8 DEF TotalSize, n
<1>10. PICK x \in Nat : x = e[i].size
  BY <1>4
<1>11. a - 0 = d - 0 /\ c - b = f - d /\ b = a + x
  BY <1>5, <1>6, <1>7, <1>8, <1>10
<1>12. c = f + x
  BY <1>11
<1> QED  BY <1>9, <1>10, <1>12

\* What is left without a file.
LEMMA TotalWithout ==
    ASSUME TypeOK, EntriesMatchFiles, NEW p \in Paths
    PROVE  /\ TotalSize(usage.entries) = TotalSize(Without(p)) + SizeOf(p)
           /\ TotalSize(Without(p)) \in Nat /\ SizeOf(p) \in Nat
<1>1. usage.entries \in Seq(Entries)
  BY DEF TypeOK
<1>2. CASE Entry(p) = {}
  <2>1. Without(p) = usage.entries /\ SizeOf(p) = 0
    BY <1>2 DEF Without, SizeOf
  <2>2. TotalSize(usage.entries) \in Nat
    <3>1. Len(usage.entries) \in 0 .. Len(usage.entries)
      BY <1>1
    <3> QED  BY <1>1, <3>1, SumsType DEF TotalSize
  <2> QED  BY <2>1, <2>2
<1>3. CASE Entry(p) # {}
  <2>1. PICK i : i = CHOOSE j \in Entry(p) : TRUE
    OBVIOUS
  <2>2. i \in DOMAIN usage.entries
    BY <1>3, <2>1 DEF Entry
  <2>3. i \in 1 .. Len(usage.entries)
    BY <1>1, <2>2
  <2>4. Without(p) = RemoveAt(usage.entries, i) /\ SizeOf(p) = usage.entries[i].size
    BY <1>3, <2>1 DEF Without, SizeOf
  <2> DEFINE e == usage.entries
             w == RemoveAt(usage.entries, i)
  <2>5. /\ w \in Seq(Entries) /\ Len(w) = Len(e) - 1
        /\ \A k \in 1 .. Len(e) - 1 : w[k] = IF k < i THEN e[k] ELSE e[k + 1]
    BY <1>1, <2>3, RemoveAtFacts
  <2> HIDE DEF e, w
  <2>6. /\ TotalSize(e) = TotalSize(w) + e[i].size
        /\ TotalSize(w) \in Nat /\ e[i].size \in Nat
    BY <1>1, <2>3, <2>5, TotalRemoved DEF e
  <2> QED  BY <2>4, <2>6 DEF e, w
<1> QED  BY <1>2, <1>3

-----------------------------------------------------------------------------
\* Types, limits and what is known

LEMMA PathOf ==
    ASSUME NEW b \in Blocks
    PROVE  Path(b) \in Paths
BY DEF Paths

\* PutPersist and PutEvict: what becomes of the files and of the usage.
LEMMA EvictEffect ==
    ASSUME TypeOK, EntriesMatchFiles, NEW t \in Tasks, PutEvict(t), UNCHANGED task
    PROVE  LET e == Head(usage.entries)
           IN  /\ usage.entries # <<>> /\ e \in Entries
               /\ usage' = [entries |-> Tail(usage.entries), size |-> Most(usage.size - e.size, 0)]
               /\ files' = files \/ files' = [files EXCEPT ![e.path] = NoFile]
               /\ TRUE \in Exceeded
<1>1. task[t].pc = "evict" /\ task[t] # Free
  BY DEF PutEvict, Free
<1>2. task[t] \in Puts
  BY <1>1, Putting
<1>3. task' # [task EXCEPT ![t].pc = "write"]
  <2> SUFFICES ASSUME task' = [task EXCEPT ![t].pc = "write"] PROVE FALSE
    OBVIOUS
  <2>1. task'[t].pc = "write"
    BY <1>2 DEF TypeOK, Puts
  <2> QED  BY <1>1, <2>1
<1>4. ~AfterDisk(t)
  <2> SUFFICES ASSUME AfterDisk(t) PROVE FALSE
    OBVIOUS
  <2>1. PICK n \in {Free} \cup Puts : task' = [task EXCEPT ![t] = n] /\ (n # Free => n.pc = "express")
    BY <1>1, AfterDiskEffect
  <2>2. task'[t] = n
    BY <2>1 DEF TypeOK
  <2> QED  BY <1>1, <2>1, <2>2 DEF Free
<1>5. usage.entries # <<>> => Head(usage.entries) \in Entries
  BY DEF TypeOK
<1> QED  BY <1>3, <1>4, <1>5 DEF PutEvict

LEMMA PersistEffect ==
    ASSUME TypeOK, NEW t \in Tasks, PutPersist(t)
    PROVE  LET p == Path(task[t].block)  f == File(task[t].block, task[t].len, task[t].state)
           IN  /\ task[t].pc = "persist" /\ task[t] # Free /\ p \in Paths /\ f \in FileStates
               /\ \/ UNCHANGED <<files, usage>>
                  \/ /\ files' = [files EXCEPT ![p] = f]
                     /\ usage' = IF config.limit = "none" THEN usage ELSE Add(p, FileSize(task[t].block, task[t].len))
               /\ FileSize(task[t].block, task[t].len) \in 0 .. LargestFile
               /\ AfterDisk(t)
<1>1. task[t].pc = "persist" /\ task[t] # Free
  BY DEF PutPersist, Free
<1>2. /\ task[t].block \in Blocks /\ task[t].len \in 0 .. BlockSize /\ task[t].state \in {"good", "damaged"}
      /\ File(task[t].block, task[t].len, task[t].state) \in FileStates
  BY <1>1, Putting
<1>3. FileSize(task[t].block, task[t].len) \in 0 .. LargestFile
  BY <1>2, FileSizes
<1> QED  BY <1>1, <1>2, <1>3, PathOf DEF PutPersist

LEMMA AddFacts ==
    ASSUME TypeOK, EntriesMatchFiles, NEW p \in Paths, NEW len \in 0 .. LargestFile, usage' = Add(p, len)
    PROVE  /\ usage' \in [entries : Seq(Entries), size : Nat]
           /\ usage'.size <= usage.size + len
           /\ Distinct(usage'.entries)
           /\ \A k \in DOMAIN usage'.entries :
                 \/ usage'.entries[k] = [path |-> p, size |-> len]
                 \/ usage'.entries[k].path # p /\ \E j \in DOMAIN usage.entries : usage'.entries[k] = usage.entries[j]
<1> DEFINE new == Append(Without(p), [path |-> p, size |-> len])
           size == Most(usage.size - SizeOf(p), 0) + len
<1>1. /\ new \in Seq(Entries) /\ Distinct(new)
      /\ \A k \in DOMAIN new :
             \/ new[k] = [path |-> p, size |-> len]
             \/ new[k].path # p /\ \E j \in DOMAIN usage.entries : new[k] = usage.entries[j]
  BY LastFacts
<1>2. SizeOf(p) \in 0 .. LargestFile /\ usage.size \in Nat /\ LargestFile \in Nat
  BY WithoutFacts, FileSizes DEF TypeOK
<1>3. size \in Nat /\ size <= usage.size + len
  BY <1>2 DEF Most
<1>4. usage' = [entries |-> new, size |-> size]
  BY DEF Add
<1> HIDE DEF new, size
<1> QED  BY <1>1, <1>3, <1>4

\* Everything stays what it is.
LEMMA TypeStep ==
    ASSUME TypeOK, StreamsOK, GoodKnown, EntriesMatchFiles, [Next]_vars
    PROVE  TypeOK'
<1> SUFFICES /\ config' \in [levels : SUBSET {"disk", "express"}, limit : Limits, cleanup : BOOLEAN, expressMax : ExpressMax]
             /\ files' \in [Paths -> FileStates]
             /\ usage' \in [entries : Seq(Entries), size : Nat]
             /\ task' \in [Tasks -> {Free} \cup Puts]
             /\ express' \in [Paths -> FileStates]
             /\ known' \subseteq Blocks
  BY StreamsStep DEF TypeOK
<1>1. ASSUME NEW r \in Readers, NEW o \in Objects, NEW from, NEW to, StartRead(r, o, from, to)
      PROVE  UNCHANGED <<config, files, usage, task, express, known>>
  BY <1>1 DEF StartRead
<1>2. ASSUME NEW r \in Readers, StreamStep(r) \/ StopRead(r)
      PROVE  /\ UNCHANGED <<config, files, express>> /\ known' \subseteq Blocks
             /\ usage' \in [entries : Seq(Entries), size : Nat]
             /\ task' \in [Tasks -> {Free} \cup Puts]
  <2>1. /\ UNCHANGED <<config, files, express>> /\ known' \subseteq Blocks
        /\ UNCHANGED task \/ \E t \in Tasks, n \in Puts : task' = [task EXCEPT ![t] = n]
        /\ usage' = usage \/ \E p \in Paths : usage' = Refresh(p)
    BY <1>2, StreamEffect
  <2>2. usage' \in [entries : Seq(Entries), size : Nat]
    BY <2>1, RefreshFacts DEF TypeOK
  <2>3. task' \in [Tasks -> {Free} \cup Puts]
    BY <2>1, SMTT(30) DEF TypeOK
  <2> QED  BY <2>1, <2>2, <2>3
<1>3. ASSUME NEW t \in Tasks, TaskStep(t)
      PROVE  /\ UNCHANGED <<config, known>>
             /\ files' \in [Paths -> FileStates]
             /\ usage' \in [entries : Seq(Entries), size : Nat]
             /\ task' \in [Tasks -> {Free} \cup Puts]
             /\ express' \in [Paths -> FileStates]
  <2>1. UNCHANGED <<config, known>>
    BY <1>3 DEF TaskStep, PutEvict, PutWrite, PutPersist, PutExpress
  <2>2. task' \in [Tasks -> {Free} \cup Puts]
    BY <1>3, TaskEffect DEF TypeOK
  <2>3. NoFile \in FileStates
    BY DEF FileStates
  <2>4. CASE PutEvict(t)
    <3>1. UNCHANGED express /\ (UNCHANGED task \/ UNCHANGED <<files, usage>>)
      BY <2>4 DEF PutEvict
    <3>2. CASE UNCHANGED task
      <4> DEFINE e == Head(usage.entries)
      <4>1. /\ usage.entries # <<>> /\ e \in Entries
            /\ usage' = [entries |-> Tail(usage.entries), size |-> Most(usage.size - e.size, 0)]
            /\ files' = files \/ files' = [files EXCEPT ![e.path] = NoFile]
        BY <2>4, <3>2, EvictEffect
      <4>2. e.path \in Paths /\ e.size \in Nat
        BY <4>1, FileSizes DEF Entries
      <4>3. Tail(usage.entries) \in Seq(Entries) /\ Most(usage.size - e.size, 0) \in Nat
        BY <4>1, <4>2 DEF TypeOK, Most
      <4>4. usage' \in [entries : Seq(Entries), size : Nat]
        BY <4>1, <4>3
      <4>5. files' \in [Paths -> FileStates]
        BY <2>3, <4>1, <4>2 DEF TypeOK
      <4> QED  BY <2>1, <2>2, <3>1, <4>4, <4>5 DEF TypeOK
    <3> QED  BY <2>1, <2>2, <3>1, <3>2 DEF TypeOK
  <2>5. CASE PutWrite(t)
    BY <2>1, <2>2, <2>5 DEF PutWrite, TypeOK
  <2>6. CASE PutPersist(t)
    <3> DEFINE p == Path(task[t].block)
               f == File(task[t].block, task[t].len, task[t].state)
               size == FileSize(task[t].block, task[t].len)
    <3>1. /\ task[t] # Free /\ p \in Paths /\ f \in FileStates
          /\ size \in 0 .. LargestFile
          /\ \/ UNCHANGED <<files, usage>>
             \/ /\ files' = [files EXCEPT ![p] = f]
                /\ usage' = IF config.limit = "none" THEN usage ELSE Add(p, size)
      BY <2>6, PersistEffect
    <3> HIDE DEF p, f, size
    <3>3. usage' \in [entries : Seq(Entries), size : Nat]
      BY <3>1, AddFacts DEF TypeOK
    <3>4. files' \in [Paths -> FileStates]
      BY <3>1 DEF TypeOK
    <3> QED  BY <2>1, <2>2, <2>6, <3>3, <3>4 DEF PutPersist, TypeOK
  <2>7. CASE PutExpress(t)
    <3>1. task[t] # Free
      BY <2>7 DEF PutExpress, Free
    <3> DEFINE p == Path(task[t].block)
               f == File(task[t].block, task[t].len, task[t].state)
    <3>2. p \in Paths /\ f \in FileStates
      BY <3>1, Putting, PathOf
    <3>3. express' = express \/ express' = [express EXCEPT ![p] = f]
      BY <2>7 DEF PutExpress
    <3> HIDE DEF p, f
    <3>4. express' \in [Paths -> FileStates]
      BY <3>2, <3>3 DEF TypeOK
    <3> QED  BY <2>1, <2>2, <2>7, <3>4 DEF PutExpress, TypeOK
  <2> QED  BY <1>3, <2>4, <2>5, <2>6, <2>7 DEF TaskStep
<1>4. ASSUME NEW p \in Paths, DamageFile(p)
      PROVE  files' \in [Paths -> FileStates] /\ UNCHANGED <<config, usage, task, express, known>>
  <2>1. PICK x \in {"damaged", "unreadable"} : files' = [files EXCEPT ![p].state = x]
    BY <1>4 DEF DamageFile
  <2>2. files[p] \in FileStates /\ files[p].state = "good"
    BY <1>4 DEF DamageFile, TypeOK
  <2>3. [files[p] EXCEPT !.state = x] \in FileStates
    BY <2>2 DEF FileStates, StoredFiles, NoFile
  <2>4. files' = [files EXCEPT ![p] = [files[p] EXCEPT !.state = x]]
    BY <2>1 DEF TypeOK
  <2> QED  BY <1>4, <2>3, <2>4 DEF DamageFile, TypeOK
<1>5. ASSUME NEW p \in Paths, DamageExpress(p)
      PROVE  express' \in [Paths -> FileStates] /\ UNCHANGED <<config, files, usage, task, known>>
  <2>1. PICK x \in {"damaged", "unreadable"} : express' = [express EXCEPT ![p].state = x]
    BY <1>5 DEF DamageExpress
  <2>2. express[p] \in FileStates /\ express[p].state = "good"
    BY <1>5 DEF DamageExpress, TypeOK
  <2>3. [express[p] EXCEPT !.state = x] \in FileStates
    BY <2>2 DEF FileStates, StoredFiles, NoFile
  <2>4. express' = [express EXCEPT ![p] = [express[p] EXCEPT !.state = x]]
    BY <2>1 DEF TypeOK
  <2> QED  BY <1>5, <2>3, <2>4 DEF DamageExpress, TypeOK
<1>8. ASSUME NEW b \in Blocks, OtherInstance(b)
      PROVE  /\ express' \in [Paths -> FileStates] /\ UNCHANGED <<config, files, usage, task>>
             /\ known' \subseteq Blocks
  <2>1. PICK f \in {File(b, BlockLen(b), "good"), NoFile} : express' = [express EXCEPT ![Path(b)] = f]
    BY <1>8 DEF OtherInstance
  <2>2. f \in FileStates
    <3>1. BlockLen(b) \in 0 .. BlockSize
      BY BlockParts, CachedReadAssumption
    <3> QED  BY <2>1, <3>1 DEF File, FileStates, StoredFiles
  <2>3. express' \in [Paths -> FileStates]
    BY <2>1, <2>2, PathOf DEF TypeOK
  <2> QED  BY <1>8, <2>3 DEF OtherInstance, TypeOK
<1>6. ASSUME Restart
      PROVE  /\ files' \in [Paths -> FileStates] /\ UNCHANGED <<config, express, known>>
             /\ usage' \in [entries : Seq(Entries), size : Nat] /\ task' \in [Tasks -> {Free} \cup Puts]
  <2>1. \A p \in Paths : files'[p] \in FileStates
    <3>1. PICK cut \in SUBSET {p \in Paths : files[p] # NoFile} :
             files' = [p \in Paths |-> IF config.cleanup THEN NoFile
                                       ELSE IF p \in cut THEN [files[p] EXCEPT !.state = "unreadable"] ELSE files[p]]
      BY <1>6 DEF Restart
    <3>2. \A p \in cut : [files[p] EXCEPT !.state = "unreadable"] \in FileStates
      BY <3>1 DEF TypeOK, FileStates, StoredFiles
    <3> QED  BY <3>1, <3>2 DEF TypeOK, FileStates
  <2>2. files' \in [Paths -> FileStates]
    BY <1>6, <2>1 DEF Restart
  <2> QED  BY <1>6, <2>2 DEF Restart, Unused
<1>7. ASSUME UNCHANGED vars
      PROVE  UNCHANGED <<config, files, usage, task, express, known>>
  BY <1>7 DEF vars
<1> QED
  BY <1>1, <1>2, <1>3, <1>4, <1>5, <1>6, <1>7, <1>8 DEF Next, TypeOK

LEMMA KnownStep ==
    ASSUME TypeOK, StreamsOK, GoodKnown, EntriesMatchFiles, [Next]_vars
    PROVE  GoodKnown'
<1> DEFINE FilesKnown == \A p \in Paths : files[p].state = "good" => files[p].block \in known
           ExpressKnown == \A p \in Paths : express[p].state = "good" => express[p].block \in known
           TasksKnown == \A t \in Tasks : task[t] # Free /\ task[t].state = "good" => task[t].block \in known
           OpenKnown == \A r \in Readers :
                           reader[r] # Idle /\ reader[r].file.state = "good" => reader[r].file.block \in known
<1>0. FilesKnown /\ ExpressKnown /\ TasksKnown /\ OpenKnown
  BY DEF GoodKnown
<1>1. known \subseteq known'
  <2>1. ASSUME NEW r \in Readers, StreamStep(r) \/ StopRead(r)
        PROVE  known \subseteq known'
    BY <2>1, StreamEffect
  <2>2. ASSUME NEW t \in Tasks, TaskStep(t)
        PROVE  UNCHANGED known
    BY <2>2 DEF TaskStep, PutEvict, PutWrite, PutPersist, PutExpress
  <2> QED  BY <2>1, <2>2 DEF Next, StartRead, DamageFile, DamageExpress, OtherInstance, Restart, vars
<1>2. TasksKnown'
  <2>1. ASSUME NEW r \in Readers, StreamStep(r) \/ StopRead(r)
        PROVE  TasksKnown'
    <3>1. \/ UNCHANGED task
          \/ \E t \in Tasks, n \in Puts :
                 task' = [task EXCEPT ![t] = n] /\ (n.state = "good" => n.block \in known')
      BY <2>1, StreamEffect
    <3> QED  BY <1>0, <1>1, <3>1 DEF TypeOK
  <2>2. ASSUME NEW t \in Tasks, TaskStep(t)
        PROVE  TasksKnown'
    <3>1. PICK n \in {Free} \cup Puts :
             /\ task' = [task EXCEPT ![t] = n]
             /\ n # Free => n.block = task[t].block /\ n.state = task[t].state
      BY <2>2, TaskEffect
    <3>2. task[t] # Free
      BY <2>2, TaskEffect
    <3> QED  BY <1>0, <1>1, <3>1, <3>2 DEF TypeOK
  <2>3. Restart => TasksKnown'
    BY DEF Restart
  <2>4. UNCHANGED task => TasksKnown'
    BY <1>0, <1>1
  <2> QED  BY <2>1, <2>2, <2>3, <2>4 DEF Next, StartRead, DamageFile, DamageExpress, OtherInstance, vars
<1>3. ExpressKnown'
  <2>1. ASSUME NEW t \in Tasks, TaskStep(t)
        PROVE  ExpressKnown'
    <3>1. UNCHANGED express \/ PutExpress(t)
      BY <2>1 DEF TaskStep, PutEvict, PutWrite, PutPersist
    <3>2. CASE PutExpress(t)
      <4>1. task[t] # Free
        BY <3>2 DEF PutExpress, Free
      <4> DEFINE p == Path(task[t].block)
                 f == File(task[t].block, task[t].len, task[t].state)
      <4>2. express' = express \/ express' = [express EXCEPT ![p] = f]
        BY <3>2 DEF PutExpress
      <4>3. f.state = "good" => f.block \in known
        BY <1>0, <4>1 DEF File
      <4> HIDE DEF p, f
      <4> QED  BY <1>0, <1>1, <4>2, <4>3 DEF TypeOK
    <3> QED  BY <1>0, <1>1, <3>1, <3>2
  <2>2. ASSUME NEW q \in Paths, DamageExpress(q)
        PROVE  ExpressKnown'
    <3>1. PICK x \in {"damaged", "unreadable"} : express' = [express EXCEPT ![q].state = x]
      BY <2>2 DEF DamageExpress
    <3>2. express[q] \in FileStates /\ express[q].state = "good"
      BY <2>2 DEF DamageExpress, TypeOK
    <3>3. express'[q].state # "good" /\ \A p \in Paths : p # q => express'[p] = express[p]
      BY <3>1, <3>2 DEF TypeOK, FileStates, StoredFiles, NoFile
    <3> QED  BY <1>0, <1>1, <3>3
  <2>5. ASSUME NEW b \in Blocks, OtherInstance(b)
        PROVE  ExpressKnown'
    <3>1. PICK f \in {File(b, BlockLen(b), "good"), NoFile} :
             express' = [express EXCEPT ![Path(b)] = f] /\ (f # NoFile => b \in known')
      BY <2>5 DEF OtherInstance
    <3>2. f.state = "good" => f.block \in known'
      BY <3>1 DEF File, NoFile
    <3> QED  BY <1>0, <1>1, <3>1, <3>2 DEF TypeOK
  <2>3. UNCHANGED express => ExpressKnown'
    BY <1>0, <1>1
  <2>4. ASSUME NEW r \in Readers, StreamStep(r) \/ StopRead(r)
        PROVE  UNCHANGED express
    BY <2>4, StreamEffect
  <2> QED  BY <2>1, <2>2, <2>3, <2>4, <2>5 DEF Next, StartRead, DamageFile, Restart, vars
<1>4. FilesKnown'
  <2>1. ASSUME NEW t \in Tasks, TaskStep(t)
        PROVE  FilesKnown'
    <3>1. CASE PutEvict(t)
      <4>1. UNCHANGED files \/ \E p : files' = [files EXCEPT ![p] = NoFile]
        BY <3>1 DEF PutEvict
      <4>2. ASSUME NEW p, files' = [files EXCEPT ![p] = NoFile]
            PROVE  FilesKnown'
        <5>1. NoFile.state # "good"
          BY DEF NoFile
        <5>2. \A q \in Paths : files'[q] = files[q] \/ files'[q] = NoFile
          BY <4>2 DEF TypeOK
        <5> QED  BY <1>0, <1>1, <5>1, <5>2
      <4> QED  BY <1>0, <1>1, <4>1, <4>2
    <3>2. CASE PutPersist(t)
      <4> DEFINE p == Path(task[t].block)
                 f == File(task[t].block, task[t].len, task[t].state)
      <4>1. task[t] # Free /\ (UNCHANGED files \/ files' = [files EXCEPT ![p] = f])
        BY <3>2, PersistEffect
      <4>2. f.state = "good" => f.block \in known
        BY <1>0, <4>1 DEF File
      <4> HIDE DEF p, f
      <4> QED  BY <1>0, <1>1, <4>1, <4>2 DEF TypeOK
    <3>3. CASE PutWrite(t) \/ PutExpress(t)
      BY <1>0, <1>1, <3>3 DEF PutWrite, PutExpress
    <3> QED  BY <2>1, <3>1, <3>2, <3>3 DEF TaskStep
  <2>2. ASSUME NEW q \in Paths, DamageFile(q)
        PROVE  FilesKnown'
    <3>1. PICK x \in {"damaged", "unreadable"} : files' = [files EXCEPT ![q].state = x]
      BY <2>2 DEF DamageFile
    <3>2. files[q] \in FileStates /\ files[q].state = "good"
      BY <2>2 DEF DamageFile, TypeOK
    <3>3. files'[q].state # "good" /\ \A p \in Paths : p # q => files'[p] = files[p]
      BY <3>1, <3>2 DEF TypeOK, FileStates, StoredFiles, NoFile
    <3> QED  BY <1>0, <1>1, <3>3
  <2>3. ASSUME Restart
        PROVE  FilesKnown'
    <3>1. PICK cut \in SUBSET {p \in Paths : files[p] # NoFile} :
             files' = [p \in Paths |-> IF config.cleanup THEN NoFile
                                       ELSE IF p \in cut THEN [files[p] EXCEPT !.state = "unreadable"] ELSE files[p]]
      BY <2>3 DEF Restart
    <3>2. \A p \in cut : [files[p] EXCEPT !.state = "unreadable"].state # "good"
      BY <3>1 DEF TypeOK, FileStates, StoredFiles
    <3>3. NoFile.state # "good"
      BY DEF NoFile
    <3>4. \A p \in Paths : files'[p].state # "good" \/ files'[p] = files[p]
      BY <3>1, <3>2, <3>3
    <3> QED  BY <1>0, <1>1, <3>4
  <2>4. UNCHANGED files => FilesKnown'
    BY <1>0, <1>1
  <2>5. ASSUME NEW r \in Readers, StreamStep(r) \/ StopRead(r)
        PROVE  UNCHANGED files
    BY <2>5, StreamEffect
  <2> QED  BY <2>1, <2>2, <2>3, <2>4, <2>5 DEF Next, StartRead, DamageExpress, OtherInstance, vars
<1>5. OpenKnown'
  <2>1. ASSUME NEW r \in Readers, NEW n, reader' = [reader EXCEPT ![r] = n],
               n # Idle /\ n.file.state = "good" => n.file.block \in known'
        PROVE  OpenKnown'
    BY <1>0, <1>1, <2>1 DEF TypeOK
  <2>2. ASSUME NEW r \in Readers, NEW n, reader' = [reader EXCEPT ![r] = n], n.file = reader[r].file,
               reader[r] # Idle
        PROVE  OpenKnown'
    BY <1>0, <1>1, <2>1, <2>2
  <2>3. ASSUME NEW r \in Readers, NEW o, NEW from, NEW to, StartRead(r, o, from, to)
        PROVE  OpenKnown'
    <3> DEFINE n == Ask([pc |-> "open", obj |-> o, from |-> from, to |-> to, idx |-> from \div BlockSize,
                         parts |-> <<>>, file |-> NoFile, len |-> 0, buffer |-> 0, answer |-> [kind |-> "none"]])
    <3>1. reader' = [reader EXCEPT ![r] = n]
      BY <2>3 DEF StartRead
    <3>2. n.file.state # "good"
      BY DEF Ask, NoFile
    <3> HIDE DEF n
    <3> QED  BY <2>1, <3>1, <3>2
  <2>4. ASSUME NEW r \in Readers, OpenFile(r)
        PROVE  OpenKnown'
    <3> DEFINE f == files[Path(Block(r))]
    <3>1. reader[r] \in Streams /\ Block(r) \in Blocks
      BY <2>4, Running DEF OpenFile
    <3>2. f.state = "good" => f.block \in known
      BY <1>0, <3>1, PathOf
    <3>3. reader' = [reader EXCEPT ![r] = [reader[r] EXCEPT !.pc = "read", !.file = f]]
      BY <2>4, <3>1 DEF OpenFile, TypeOK
    <3> HIDE DEF f
    <3>4. [reader[r] EXCEPT !.pc = "read", !.file = f].file = f
      BY <3>1 DEF Streams
    <3> QED  BY <1>1, <2>1, <3>2, <3>3, <3>4
  <2>5. ASSUME NEW r \in Readers, ReadFile(r) \/ GetExpress(r) \/ EndOfBody(r)
        PROVE  OpenKnown'
    <3>1. reader[r] \in Streams /\ reader[r] # Idle
      BY <2>5, Running DEF ReadFile, GetExpress, EndOfBody, Idle
    <3>2. \/ \E pc, a : reader' = Answered(r, pc, a)
          \/ \E f : reader' = HitBy(r, f)
          \/ \E pc : reader' = [reader EXCEPT ![r].pc = pc]
      BY <2>5 DEF ReadFile, GetExpress, EndOfBody
    <3>3. ASSUME NEW pc, NEW a, reader' = Answered(r, pc, a)
          PROVE  OpenKnown'
      <4>1. reader' = [reader EXCEPT ![r] = [reader[r] EXCEPT !.pc = pc, !.answer = a]]
        BY <3>3 DEF Answered, TypeOK
      <4>2. [reader[r] EXCEPT !.pc = pc, !.answer = a].file = reader[r].file
        BY <3>1 DEF Streams
      <4> QED  BY <2>2, <3>1, <4>1, <4>2
    <3>4. ASSUME NEW pc, reader' = [reader EXCEPT ![r].pc = pc]
          PROVE  OpenKnown'
      <4>1. reader' = [reader EXCEPT ![r] = [reader[r] EXCEPT !.pc = pc]]
        BY <3>4 DEF TypeOK
      <4>2. [reader[r] EXCEPT !.pc = pc].file = reader[r].file
        BY <3>1 DEF Streams
      <4> QED  BY <2>2, <3>1, <4>1, <4>2
    <3>5. ASSUME NEW f, reader' = HitBy(r, f)
          PROVE  OpenKnown'
      <4>1. PICK a, len : reader' = [reader EXCEPT ![r] = [reader[r] EXCEPT !.pc = "push", !.answer = a, !.len = len]]
        BY <3>5 DEF HitBy, TypeOK
      <4>2. [reader[r] EXCEPT !.pc = "push", !.answer = a, !.len = len].file = reader[r].file
        BY <3>1 DEF Streams
      <4> QED  BY <2>2, <3>1, <4>1, <4>2
    <3> QED  BY <3>2, <3>3, <3>4, <3>5
  <2>6. ASSUME NEW r \in Readers, PushBlock(r)
        PROVE  OpenKnown'
    <3> DEFINE s == reader[r]
    <3>1. StreamOK(s) /\ s.pc = "push" /\ s # Idle
      BY <2>6, Running DEF PushBlock, Idle
    <3>2. PICK u : u = WithPart([s EXCEPT !.idx = @ + 1],
                       PartOf(s, BlockStart(s), BlockStart(s) + s.len))
      OBVIOUS
    <3>3. reader' = [reader EXCEPT ![r] = IF s.idx + 1 = Ceiling(s.to) THEN [u EXCEPT !.pc = "done"] ELSE Ask(u)]
      BY <2>6, <3>2 DEF PushBlock, BlockStart, Block, EndBlock
    <3>4. u \in Streams /\ u.file = s.file
      BY <3>1, <3>2, PushOK
    <3>5. [u EXCEPT !.pc = "done"].file = s.file /\ Ask(u).file = s.file
      BY <3>4 DEF Streams, Ask
    <3>6. PICK n : n = IF s.idx + 1 = Ceiling(s.to) THEN [u EXCEPT !.pc = "done"] ELSE Ask(u)
      OBVIOUS
    <3>7. reader' = [reader EXCEPT ![r] = n] /\ n.file = s.file
      BY <3>3, <3>5, <3>6
    <3> QED  BY <2>2, <3>1, <3>7
  <2>7. ASSUME NEW r \in Readers, NEW k \in 1 .. BlockSize, Piece(r, k)
        PROVE  OpenKnown'
    <3> DEFINE s == reader[r]
    <3>1. StreamOK(s) /\ s.pc = "client" /\ s # Idle
      BY <2>7, Running DEF Piece, Idle
    <3>2. PICK u : u = WithPart(s, PartOf(s, At(s), At(s) + k))
      OBVIOUS
    <3>3. /\ s.buffer + k <= BlockSize /\ At(s) + k <= EndOfRequest(s)
          /\ reader' = [reader EXCEPT ![r] = IF s.buffer + k < BlockSize THEN [u EXCEPT !.buffer = @ + k]
                                             ELSE [u EXCEPT !.buffer = 0, !.idx = @ + 1]]
      BY <2>7, <3>2 DEF Piece, Position, RequestEnd, EndBlock, At, BlockStart, EndOfRequest
    <3>4. u \in Streams /\ u.file = s.file
      BY <3>1, <3>2, <3>3, PieceOK
    <3>5. [u EXCEPT !.buffer = @ + k].file = s.file /\ [u EXCEPT !.buffer = 0, !.idx = @ + 1].file = s.file
      BY <3>4 DEF Streams
    <3>6. PICK n : n = IF s.buffer + k < BlockSize THEN [u EXCEPT !.buffer = @ + k]
                       ELSE [u EXCEPT !.buffer = 0, !.idx = @ + 1]
      OBVIOUS
    <3>7. reader' = [reader EXCEPT ![r] = n] /\ n.file = s.file
      BY <3>3, <3>5, <3>6
    <3> QED  BY <2>2, <3>1, <3>7
  <2>8. ASSUME NEW r \in Readers, StopRead(r)
        PROVE  OpenKnown'
    BY <2>1, <2>8 DEF StopRead
  <2>9. Restart => OpenKnown'
    BY DEF Restart
  <2>10. UNCHANGED reader => OpenKnown'
    BY <1>0, <1>1
  <2>11. ASSUME NEW t \in Tasks, TaskStep(t)
         PROVE  UNCHANGED reader
    BY <2>11 DEF TaskStep, PutEvict, PutWrite, PutPersist, PutExpress
  <2> QED
    BY <2>3, <2>4, <2>5, <2>6, <2>7, <2>8, <2>9, <2>10, <2>11
       DEF Next, StreamStep, DamageFile, DamageExpress, OtherInstance, vars
<1> QED  BY <1>2, <1>3, <1>4, <1>5 DEF GoodKnown

-----------------------------------------------------------------------------
\* The usage and its limit

LEMMA EntriesStep ==
    ASSUME TypeOK, StreamsOK, GoodKnown, UsageIfLimited, EntriesMatchFiles, [Next]_vars
    PROVE  EntriesMatchFiles' /\ UsageIfLimited'
<1>0. UNCHANGED config /\ TypeOK'
  <2>1. TypeOK'
    BY TypeStep
  <2>2. ASSUME NEW r \in Readers, StreamStep(r) \/ StopRead(r)
        PROVE  UNCHANGED config
    BY <2>2, StreamEffect
  <2>3. ASSUME NEW t \in Tasks, TaskStep(t)
        PROVE  UNCHANGED config
    BY <2>3 DEF TaskStep, PutEvict, PutWrite, PutPersist, PutExpress
  <2> QED  BY <2>1, <2>2, <2>3 DEF Next, StartRead, DamageFile, DamageExpress, OtherInstance, Restart, vars
<1>1. ASSUME UNCHANGED <<files, usage>>
      PROVE  EntriesMatchFiles' /\ UsageIfLimited'
  BY <1>0, <1>1 DEF EntriesMatchFiles, UsageIfLimited
<1>2. ASSUME NEW r \in Readers, StreamStep(r) \/ StopRead(r)
      PROVE  EntriesMatchFiles' /\ UsageIfLimited'
  <2>1. UNCHANGED files /\ (usage' = usage \/ \E p \in Paths : usage' = Refresh(p))
    BY <1>2, StreamEffect
  <2>2. ASSUME NEW p \in Paths, usage' = Refresh(p)
        PROVE  EntriesMatchFiles' /\ UsageIfLimited'
    <3>1. /\ Distinct(usage'.entries)
          /\ \A k \in DOMAIN usage'.entries : \E j \in DOMAIN usage.entries : usage'.entries[k] = usage.entries[j]
          /\ usage = Unused => usage' = Unused
      BY <2>2, RefreshFacts
    <3>2. EntriesMatchFiles'
      BY <2>1, <3>1 DEF EntriesMatchFiles, Distinct
    <3> QED  BY <1>0, <3>1, <3>2 DEF UsageIfLimited
  <2> QED  BY <1>1, <2>1, <2>2
<1>3. ASSUME NEW t \in Tasks, PutEvict(t)
      PROVE  EntriesMatchFiles' /\ UsageIfLimited'
  <2>1. UNCHANGED task \/ UNCHANGED <<files, usage>>
    BY <1>3 DEF PutEvict
  <2>2. CASE UNCHANGED task
    <3> DEFINE u == usage.entries
               e == Head(u)
    <3>1. /\ u # <<>> /\ e \in Entries
          /\ usage' = [entries |-> Tail(u), size |-> Most(usage.size - e.size, 0)]
          /\ files' = files \/ files' = [files EXCEPT ![e.path] = NoFile]
          /\ TRUE \in Exceeded
      BY <1>3, <2>2, EvictEffect
    <3>2. usage'.entries = Tail(u) /\ u \in Seq(Entries)
      BY <3>1 DEF TypeOK
    <3>3. /\ Len(u) \in Nat \ {0} /\ DOMAIN u = 1 .. Len(u)
          /\ DOMAIN Tail(u) = 1 .. Len(u) - 1 /\ \A k \in 1 .. Len(u) - 1 : Tail(u)[k] = u[k + 1]
          /\ e = u[1]
      BY <3>1, <3>2
    <3>4. \A k \in 1 .. Len(u) - 1 : k + 1 \in DOMAIN u /\ k + 1 # 1 /\ u[k + 1].path \in Paths
      <4>1. \A k \in DOMAIN u : u[k] \in Entries
        BY <3>2
      <4> QED  BY <3>3, <4>1 DEF Entries
    <3>5. 1 \in DOMAIN u
      BY <3>3
    <3>6. \A k \in 1 .. Len(u) - 1 : u[k + 1].path # e.path
      BY <3>3, <3>4, <3>5 DEF EntriesMatchFiles
    <3>7. \A k \in 1 .. Len(u) - 1 : files'[u[k + 1].path] = files[u[k + 1].path]
      BY <3>1, <3>4, <3>6 DEF TypeOK
    <3> HIDE DEF u, e
    <3>8. \A k \in DOMAIN usage'.entries :
             /\ k + 1 \in DOMAIN u /\ usage'.entries[k] = u[k + 1] /\ files'[u[k + 1].path] = files[u[k + 1].path]
      BY <3>2, <3>3, <3>4, <3>7
    <3>9. \A k, l \in DOMAIN usage'.entries : usage'.entries[k].path = usage'.entries[l].path => k = l
      <4> SUFFICES ASSUME NEW k \in DOMAIN usage'.entries, NEW l \in DOMAIN usage'.entries,
                          usage'.entries[k].path = usage'.entries[l].path
                   PROVE  k = l
        OBVIOUS
      <4>1. k + 1 = l + 1
        BY <3>8 DEF EntriesMatchFiles, u
      <4>2. k \in Nat /\ l \in Nat
        BY <3>2, <3>3
      <4> QED  BY <4>1, <4>2
    <3>10. \A k \in DOMAIN usage'.entries :
              /\ files'[usage'.entries[k].path].state # "none"
              /\ FileSize(files'[usage'.entries[k].path].block, files'[usage'.entries[k].path].len)
                     = usage'.entries[k].size
      BY <3>8 DEF EntriesMatchFiles, u
    <3>11. config.limit # "none"
      BY <3>1 DEF Exceeded
    <3> QED  BY <1>0, <3>9, <3>10, <3>11 DEF EntriesMatchFiles, UsageIfLimited
  <2> QED  BY <1>1, <2>1, <2>2
<1>4. ASSUME NEW t \in Tasks, PutPersist(t)
      PROVE  EntriesMatchFiles' /\ UsageIfLimited'
  <2> DEFINE p == Path(task[t].block)
             f == File(task[t].block, task[t].len, task[t].state)
             len == FileSize(task[t].block, task[t].len)
  <2>1. /\ task[t] # Free /\ p \in Paths /\ len \in 0 .. LargestFile
        /\ \/ UNCHANGED <<files, usage>>
           \/ /\ files' = [files EXCEPT ![p] = f]
              /\ usage' = IF config.limit = "none" THEN usage ELSE Add(p, len)
    BY <1>4, PersistEffect
  <2>2. FileSize(f.block, f.len) = len /\ f.state # "none"
    BY <2>1, Putting DEF File
  <2> HIDE DEF p, f, len
  <2>3. CASE files' = [files EXCEPT ![p] = f] /\ config.limit = "none" /\ usage' = usage
    BY <1>0, <2>3 DEF EntriesMatchFiles, UsageIfLimited, Unused
  <2>4. CASE files' = [files EXCEPT ![p] = f] /\ config.limit # "none" /\ usage' = Add(p, len)
    <3>1. /\ usage' \in [entries : Seq(Entries), size : Nat]
          /\ Distinct(usage'.entries)
          /\ \A k \in DOMAIN usage'.entries :
                \/ usage'.entries[k] = [path |-> p, size |-> len]
                \/ usage'.entries[k].path # p /\ \E j \in DOMAIN usage.entries : usage'.entries[k] = usage.entries[j]
      BY <2>1, <2>2, <2>4, AddFacts
    <3>2. files'[p] = f /\ \A q \in Paths : q # p => files'[q] = files[q]
      BY <2>1, <2>4 DEF TypeOK
    <3>3. \A k \in DOMAIN usage'.entries : usage'.entries[k].path \in Paths
      <4>1. \A k \in DOMAIN usage'.entries : usage'.entries[k] \in Entries
        BY <3>1
      <4> QED  BY <4>1 DEF Entries
    <3>4. \A k \in DOMAIN usage'.entries :
             /\ files'[usage'.entries[k].path].state # "none"
             /\ FileSize(files'[usage'.entries[k].path].block, files'[usage'.entries[k].path].len)
                    = usage'.entries[k].size
      <4> SUFFICES ASSUME NEW k \in DOMAIN usage'.entries
                   PROVE  /\ files'[usage'.entries[k].path].state # "none"
                          /\ FileSize(files'[usage'.entries[k].path].block, files'[usage'.entries[k].path].len)
                                 = usage'.entries[k].size
        OBVIOUS
      <4>1. CASE usage'.entries[k] = [path |-> p, size |-> len]
        BY <2>2, <3>2, <4>1
      <4>2. CASE usage'.entries[k].path # p /\ \E j \in DOMAIN usage.entries : usage'.entries[k] = usage.entries[j]
        BY <3>2, <3>3, <4>2 DEF EntriesMatchFiles
      <4> QED  BY <3>1, <4>1, <4>2
    <3> QED  BY <1>0, <2>4, <3>1, <3>4 DEF EntriesMatchFiles, UsageIfLimited, Distinct
  <2> QED  BY <1>1, <2>1, <2>3, <2>4
<1>5. ASSUME NEW q \in Paths, DamageFile(q)
      PROVE  EntriesMatchFiles' /\ UsageIfLimited'
  <2>1. UNCHANGED usage
    BY <1>5 DEF DamageFile
  <2>2. PICK x \in {"damaged", "unreadable"} : files' = [files EXCEPT ![q].state = x]
    BY <1>5 DEF DamageFile
  <2>3. files[q] \in FileStates /\ files[q].state = "good"
    BY <1>5 DEF DamageFile, TypeOK
  <2>4. /\ files'[q].state # "none" /\ files'[q].len = files[q].len /\ files'[q].block = files[q].block
        /\ \A p \in Paths : p # q => files'[p] = files[p]
    BY <2>2, <2>3 DEF TypeOK, FileStates, StoredFiles, NoFile
  <2>5. \A k \in DOMAIN usage.entries : usage.entries[k].path \in Paths
    <3>1. \A k \in DOMAIN usage.entries : usage.entries[k] \in Entries
      BY DEF TypeOK
    <3> QED  BY <3>1 DEF Entries
  <2> QED  BY <1>0, <2>1, <2>4, <2>5 DEF EntriesMatchFiles, UsageIfLimited
<1>6. ASSUME Restart
      PROVE  EntriesMatchFiles' /\ UsageIfLimited'
  <2>1. usage' = Unused
    BY <1>6 DEF Restart
  <2> QED  BY <2>1 DEF EntriesMatchFiles, UsageIfLimited, Unused
<1> QED
  BY <1>1, <1>2, <1>3, <1>4, <1>5, <1>6
     DEF Next, TaskStep, StartRead, PutWrite, PutExpress, DamageExpress, OtherInstance, vars

Writing == {t \in Tasks : task[t].pc \in {"write", "persist"}}

\* The bound of the tasks that write, and what a step may do to it.
LEMMA WritingFinite ==
    /\ IsFiniteSet(Writing) /\ Cardinality(Writing) \in Nat /\ Cardinality(Tasks) \in Nat
    /\ Cardinality(Writing) <= Cardinality(Tasks)
BY FS_Subset, FS_CardinalityType, CachedReadAssumption DEF Writing

LEMMA BoundKept ==
    ASSUME TypeOK, TypeOK', SizeBounded, UNCHANGED config, usage'.size <= usage.size, Writing' \subseteq Writing
    PROVE  SizeBounded'
<1>1. Cardinality(Writing') \in Nat /\ Cardinality(Writing) \in Nat /\ Cardinality(Writing') <= Cardinality(Writing)
  BY WritingFinite, FS_Subset, FS_CardinalityType
<1>2. LargestFile \in Nat /\ MaxSize \in Nat /\ Cardinality(Tasks) \in Nat /\ usage.size \in Nat /\ usage'.size \in Nat
  BY CachedReadAssumption, FileSizes, WritingFinite DEF TypeOK
<1> DEFINE w == Cardinality(Writing)  ww == Cardinality(Writing')
<1>3. LargestFile * ww <= LargestFile * w /\ LargestFile * ww \in Nat /\ LargestFile * w \in Nat
      /\ LargestFile * Cardinality(Tasks) \in Nat
  <2> HIDE DEF w, ww
  <2>1. ww \in Nat /\ w \in Nat /\ ww <= w
    BY <1>1 DEF w, ww
  <2>2. ww * LargestFile <= w * LargestFile
    BY <1>2, <2>1, Monotone
  <2> QED  BY <1>2, <2>1, <2>2
<1>4. config.limit = "total" => usage.size + LargestFile * w <= MaxSize + LargestFile * Cardinality(Tasks)
  BY DEF SizeBounded, Writing
<1>5. config.limit = "total" => usage'.size + LargestFile * ww <= MaxSize + LargestFile * Cardinality(Tasks)
  <2> HIDE DEF w, ww
  <2> QED  BY <1>2, <1>3, <1>4
<1> QED  BY <1>5 DEF SizeBounded, Writing

\* A task that starts to write has seen that there is room.
LEMMA BoundChecked ==
    ASSUME TypeOK', config'.limit = "total" => usage'.size <= MaxSize
    PROVE  SizeBounded'
<1>1. Cardinality(Writing') \in Nat /\ Cardinality(Tasks) \in Nat /\ Cardinality(Writing') <= Cardinality(Tasks)
  BY WritingFinite, FS_Subset, FS_CardinalityType, CachedReadAssumption, FileSizes DEF Writing
<1> DEFINE w == Cardinality(Writing')  n == Cardinality(Tasks)
<1>2. LargestFile \in Nat /\ MaxSize \in Nat /\ usage'.size \in Nat /\ w \in Nat /\ n \in Nat /\ w <= n
  BY <1>1, CachedReadAssumption, FileSizes DEF TypeOK
<1> HIDE DEF w, n
<1>3. LargestFile * w <= LargestFile * n /\ LargestFile * w \in Nat /\ LargestFile * n \in Nat
  <2>1. w * LargestFile <= n * LargestFile
    BY <1>2, Monotone
  <2> QED  BY <1>2, <2>1
<1>4. config'.limit = "total" => usage'.size + LargestFile * w <= MaxSize + LargestFile * n
  BY <1>2, <1>3
<1> QED  BY <1>4 DEF SizeBounded, Writing, w, n

\* A task that has written leaves its room to its file.
LEMMA BoundUsed ==
    ASSUME TypeOK, TypeOK', SizeBounded, UNCHANGED config, NEW t \in Writing, Writing' = Writing \ {t},
           usage'.size <= usage.size + LargestFile
    PROVE  SizeBounded'
<1> DEFINE w == Cardinality(Writing)  ww == Cardinality(Writing')  n == Cardinality(Tasks)
<1>1. ww = w - 1 /\ w \in Nat
  BY WritingFinite, FS_RemoveElement
<1>2. LargestFile \in Nat /\ MaxSize \in Nat /\ n \in Nat /\ usage.size \in Nat /\ usage'.size \in Nat
  BY CachedReadAssumption, FileSizes, WritingFinite DEF TypeOK
<1>3. config.limit = "total" => usage.size + LargestFile * w <= MaxSize + LargestFile * n
  BY DEF SizeBounded, Writing
<1> HIDE DEF w, ww, n
<1>4. LargestFile * ww = LargestFile * w - LargestFile /\ LargestFile * w \in Nat /\ LargestFile * n \in Nat
  <2>1. (w - 1) * LargestFile = w * LargestFile - LargestFile
    BY <1>1, <1>2, Distributes
  <2> QED  BY <1>1, <1>2, <2>1
<1>5. config.limit = "total" => usage'.size + LargestFile * ww <= MaxSize + LargestFile * n
  BY <1>2, <1>3, <1>4
<1> QED  BY <1>5 DEF SizeBounded, Writing, ww, n

LEMMA WritingChange ==
    ASSUME TypeOK, NEW t \in Tasks, NEW n, task' = [task EXCEPT ![t] = n]
    PROVE  /\ n.pc \notin {"write", "persist"} => Writing' = Writing \ {t}
           /\ t \in Writing => Writing' \subseteq Writing
BY DEF Writing, TypeOK

LEMMA AfterDiskLeaves ==
    ASSUME TypeOK, NEW t \in Tasks, task[t] # Free, AfterDisk(t)
    PROVE  Writing' = Writing \ {t}
<1>1. PICK n \in {Free} \cup Puts : task' = [task EXCEPT ![t] = n] /\ (n # Free => n.pc = "express")
  BY AfterDiskEffect
<1>2. n.pc \notin {"write", "persist"}
  BY <1>1 DEF Free
<1> QED  BY <1>1, <1>2, WritingChange

LEMMA SizeStep ==
    ASSUME TypeOK, TypeOK', StreamsOK, GoodKnown, EntriesMatchFiles, SizeBounded, [Next]_vars
    PROVE  SizeBounded'
<1>0. usage.size \in Nat /\ LargestFile \in Nat
  BY FileSizes DEF TypeOK
<1>1. ASSUME UNCHANGED <<config, usage, task>>
      PROVE  SizeBounded'
  BY <1>1 DEF SizeBounded
<1>2. ASSUME NEW r \in Readers, StreamStep(r) \/ StopRead(r)
      PROVE  SizeBounded'
  <2>1. /\ UNCHANGED config
        /\ \/ UNCHANGED task
           \/ \E t \in Tasks, n \in Puts : task' = [task EXCEPT ![t] = n] /\ n.pc \in {"evict", "express"}
        /\ usage' = usage \/ \E p \in Paths : usage' = Refresh(p)
    BY <1>2, StreamEffect
  <2>2. usage'.size <= usage.size
    BY <1>0, <2>1, RefreshFacts
  <2>3. Writing' \subseteq Writing
    <3>1. CASE UNCHANGED task
      BY <3>1 DEF Writing
    <3>2. ASSUME NEW t \in Tasks, NEW n \in Puts, task' = [task EXCEPT ![t] = n], n.pc \in {"evict", "express"}
          PROVE  Writing' \subseteq Writing
      BY <3>2, WritingChange
    <3> QED  BY <2>1, <3>1, <3>2
  <2> QED  BY <2>1, <2>2, <2>3, BoundKept
<1>3. ASSUME NEW t \in Tasks, PutEvict(t)
      PROVE  SizeBounded'
  <2>0. UNCHANGED config /\ task[t] # Free
    BY <1>3 DEF PutEvict, Free
  <2>1. CASE FALSE \in Exceeded /\ UNCHANGED usage
    <3>1. config.limit = "total" => usage.size <= MaxSize
      <4> SUFFICES ASSUME config.limit = "total"
                   PROVE  usage.size <= MaxSize
        OBVIOUS
      <4>1. Exceeded = {usage.size > MaxSize}
        BY DEF Exceeded
      <4>2. ~(usage.size > MaxSize)
        BY <2>1, <4>1, Zenon
      <4> QED  BY <1>0, <4>2, CachedReadAssumption
    <3> QED  BY <2>0, <2>1, <3>1, BoundChecked
  <2>2. CASE UNCHANGED task
    <3> DEFINE e == Head(usage.entries)
    <3>1. e \in Entries /\ usage' = [entries |-> Tail(usage.entries), size |-> Most(usage.size - e.size, 0)]
      BY <1>3, <2>2, EvictEffect
    <3>2. e.size \in 0 .. LargestFile
      BY <3>1 DEF Entries
    <3> HIDE DEF e
    <3>3. usage'.size <= usage.size
      BY <1>0, <3>1, <3>2 DEF Most
    <3>4. Writing' = Writing
      BY <2>2 DEF Writing
    <3> QED  BY <2>0, <3>3, <3>4, BoundKept
  <2>3. CASE AfterDisk(t) /\ UNCHANGED usage
    BY <1>0, <2>0, <2>3, AfterDiskLeaves, BoundKept
  <2> QED  BY <1>3, <2>1, <2>2, <2>3 DEF PutEvict
<1>4. ASSUME NEW t \in Tasks, PutWrite(t)
      PROVE  SizeBounded'
  <2>1. UNCHANGED <<config, usage>> /\ task[t] # Free /\ task[t].pc = "write"
    BY <1>4 DEF PutWrite, Free
  <2>2. Writing' \subseteq Writing
    <3>1. CASE AfterDisk(t)
      BY <2>1, <3>1, AfterDiskLeaves
    <3>2. CASE task' = [task EXCEPT ![t].pc = "persist"]
      <4>1. task' = [task EXCEPT ![t] = [task[t] EXCEPT !.pc = "persist"]]
        BY <3>2 DEF TypeOK
      <4>2. t \in Writing
        BY <2>1 DEF Writing
      <4> QED  BY <4>1, <4>2, WritingChange
    <3> QED  BY <1>4, <3>1, <3>2 DEF PutWrite
  <2> QED  BY <1>0, <2>1, <2>2, BoundKept
<1>5. ASSUME NEW t \in Tasks, PutPersist(t)
      PROVE  SizeBounded'
  <2> DEFINE p == Path(task[t].block)
             len == FileSize(task[t].block, task[t].len)
  <2>1. /\ task[t].pc = "persist" /\ task[t] # Free /\ p \in Paths /\ AfterDisk(t)
        /\ len \in 0 .. LargestFile
        /\ UNCHANGED usage \/ usage' = IF config.limit = "none" THEN usage ELSE Add(p, len)
    BY <1>5, PersistEffect
  <2> HIDE DEF p, len
  <2>3. usage'.size <= usage.size + LargestFile
    <3>1. CASE usage' = usage
      BY <1>0, <3>1
    <3>2. CASE usage' = Add(p, len)
      <4>1. usage'.size <= usage.size + len /\ usage'.size \in Nat
        BY <2>1, <3>2, AddFacts
      <4> QED  BY <1>0, <2>1, <4>1
    <3> QED  BY <2>1, <3>1, <3>2
  <2>4. t \in Writing /\ Writing' = Writing \ {t}
    BY <2>1, AfterDiskLeaves DEF Writing
  <2>5. UNCHANGED config
    BY <1>5 DEF PutPersist
  <2> QED  BY <2>3, <2>4, <2>5, BoundUsed
<1>6. ASSUME NEW t \in Tasks, PutExpress(t)
      PROVE  SizeBounded'
  <2>1. UNCHANGED <<config, usage>> /\ task' = [task EXCEPT ![t] = Free]
    BY <1>6 DEF PutExpress
  <2>2. Writing' \subseteq Writing
    <3>1. Free.pc \notin {"write", "persist"}
      BY DEF Free
    <3> QED  BY <2>1, <3>1, WritingChange
  <2> QED  BY <1>0, <2>1, <2>2, BoundKept
<1>7. ASSUME Restart
      PROVE  SizeBounded'
  BY <1>7, BoundChecked, CachedReadAssumption DEF Restart, Unused
<1> QED
  BY <1>1, <1>2, <1>3, <1>4, <1>5, <1>6, <1>7
     DEF Next, TaskStep, StartRead, DamageFile, DamageExpress, OtherInstance, vars

-----------------------------------------------------------------------------
\* The size that is counted

UsageExact == usage.size = TotalSize(usage.entries)

LEMMA UsageStep ==
    ASSUME TypeOK, StreamsOK, GoodKnown, EntriesMatchFiles, UsageExact, [Next]_vars
    PROVE  UsageExact'
<1>0. usage.entries \in Seq(Entries) /\ usage.size \in Nat /\ LargestFile \in Nat
  BY FileSizes DEF TypeOK
<1>1. ASSUME UNCHANGED usage
      PROVE  UsageExact'
  BY <1>1 DEF UsageExact
<1>2. ASSUME NEW p \in Paths, usage' = Refresh(p)
      PROVE  UsageExact'
  <2>1. CASE Entry(p) = {}
    BY <1>1, <1>2, <2>1 DEF Refresh
  <2>2. CASE Entry(p) # {}
    <3> DEFINE x == [path |-> p, size |-> SizeOf(p)]
               w == Without(p)
    <3>1. usage' = [usage EXCEPT !.entries = Append(w, x)]
      BY <1>2, <2>2 DEF Refresh
    <3>2. usage'.entries = Append(w, x) /\ usage'.size = usage.size
      BY <3>1 DEF TypeOK
    <3>3. w \in Seq(Entries) /\ x \in Entries /\ x.size = SizeOf(p)
      BY WithoutFacts DEF Entries
    <3>4. TotalSize(usage.entries) = TotalSize(w) + SizeOf(p)
      BY TotalWithout
    <3> HIDE DEF x, w
    <3>5. TotalSize(Append(w, x)) = TotalSize(w) + x.size
      BY <3>3, TotalAppended
    <3> QED  BY <3>2, <3>3, <3>4, <3>5 DEF UsageExact
  <2> QED  BY <2>1, <2>2
<1>3. ASSUME NEW t \in Tasks, PutEvict(t)
      PROVE  UsageExact'
  <2>1. UNCHANGED task \/ UNCHANGED usage
    BY <1>3 DEF PutEvict
  <2>2. CASE UNCHANGED task
    <3> DEFINE u == usage.entries
               e == Head(u)
               w == Tail(u)
    <3>1. u # <<>> /\ usage' = [entries |-> w, size |-> Most(usage.size - e.size, 0)]
      BY <1>3, <2>2, EvictEffect
    <3>2. usage'.entries = w /\ usage'.size = Most(usage.size - e.size, 0)
      BY <3>1
    <3>3. /\ 1 \in 1 .. Len(u) /\ e = u[1]
          /\ w \in Seq(Entries) /\ Len(w) = Len(u) - 1
          /\ \A k \in 1 .. Len(u) - 1 : w[k] = u[k + 1]
      BY <1>0, <3>1
    <3>4. \A k \in 1 .. Len(u) - 1 : w[k] = IF k < 1 THEN u[k] ELSE u[k + 1]
      BY <3>3
    <3>5. u \in Seq(Entries) /\ usage.size = TotalSize(u)
      BY <1>0 DEF UsageExact
    <3> HIDE DEF u, e, w
    <3>6. /\ TotalSize(u) = TotalSize(w) + u[1].size
          /\ TotalSize(w) \in Nat /\ u[1].size \in Nat
      BY <3>3, <3>4, <3>5, TotalRemoved
    <3>7. Most(usage.size - e.size, 0) = TotalSize(w)
      BY <3>3, <3>5, <3>6 DEF Most
    <3> QED  BY <3>2, <3>7 DEF UsageExact
  <2> QED  BY <1>1, <2>1, <2>2
<1>4. ASSUME NEW t \in Tasks, PutPersist(t)
      PROVE  UsageExact'
  <2> DEFINE p == Path(task[t].block)
             len == FileSize(task[t].block, task[t].len)
  <2>1. /\ task[t] # Free /\ p \in Paths /\ len \in 0 .. LargestFile
        /\ UNCHANGED usage \/ usage' = Add(p, len)
    BY <1>4, PersistEffect
  <2> HIDE DEF p, len
  <2>3. CASE usage' = Add(p, len)
    <3> DEFINE x == [path |-> p, size |-> len]
               w == Without(p)
    <3>1. usage' = [entries |-> Append(w, x), size |-> Most(usage.size - SizeOf(p), 0) + len]
      BY <2>3 DEF Add
    <3>2. usage'.entries = Append(w, x) /\ usage'.size = Most(usage.size - SizeOf(p), 0) + len
      BY <3>1
    <3>3. w \in Seq(Entries) /\ x \in Entries /\ x.size = len
      BY <2>1, WithoutFacts DEF Entries
    <3>4. /\ TotalSize(usage.entries) = TotalSize(w) + SizeOf(p)
          /\ TotalSize(w) \in Nat /\ SizeOf(p) \in Nat
      BY <2>1, TotalWithout
    <3> HIDE DEF x, w
    <3>5. TotalSize(Append(w, x)) = TotalSize(w) + x.size
      BY <3>3, TotalAppended
    <3>6. Most(usage.size - SizeOf(p), 0) = TotalSize(w)
      BY <3>4 DEF Most, UsageExact
    <3> QED  BY <3>2, <3>3, <3>5, <3>6 DEF UsageExact
  <2> QED  BY <1>1, <2>1, <2>3
<1>5. ASSUME Restart
      PROVE  UsageExact'
  <2>1. usage'.size = 0 /\ usage'.entries = <<>>
    BY <1>5 DEF Restart, Unused
  <2>2. Len(<<>>) = 0 /\ TotalSize(<<>>) = 0
    BY SumsDef DEF TotalSize
  <2> QED  BY <2>1, <2>2 DEF UsageExact
<1>6. ASSUME NEW r \in Readers, StreamStep(r) \/ StopRead(r)
      PROVE  UsageExact'
  <2>1. usage' = usage \/ \E p \in Paths : usage' = Refresh(p)
    BY <1>6, StreamEffect
  <2> QED  BY <1>1, <1>2, <2>1
<1> QED
  BY <1>1, <1>3, <1>4, <1>5, <1>6
     DEF Next, TaskStep, StartRead, PutWrite, PutExpress, DamageFile, DamageExpress, OtherInstance, vars

-----------------------------------------------------------------------------
\* The inductive invariant

LEMMA CacheInit == Init => CacheInv
<1> SUFFICES ASSUME Init
             PROVE  CacheInv
  OBVIOUS
<1>1. TypeOK
  BY DEF Init, TypeOK, Unused, FileStates
<1>2. StreamsOK /\ GoodKnown
  BY DEF Init, StreamsOK, GoodKnown, NoFile
<1>3. UsageIfLimited /\ EntriesMatchFiles
  BY DEF Init, UsageIfLimited, EntriesMatchFiles, Unused
<1>4. SizeBounded
  <2>1. usage.size = 0 /\ Cardinality(Writing) = 0
    <3>1. Writing = {}
      BY DEF Init, Writing, Free
    <3> QED  BY <3>1, FS_EmptySet DEF Init, Unused
  <2>2. MaxSize \in Nat /\ LargestFile \in Nat /\ Cardinality(Tasks) \in Nat
    BY CachedReadAssumption, FileSizes, FS_CardinalityType
  <2>3. LargestFile * 0 = 0 /\ LargestFile * Cardinality(Tasks) \in Nat
    BY <2>2
  <2> QED  BY <2>1, <2>2, <2>3 DEF SizeBounded, Writing
<1> QED  BY <1>1, <1>2, <1>3, <1>4 DEF CacheInv

LEMMA CacheStep == CacheInv /\ [Next]_vars => CacheInv'
BY StreamsStep, TypeStep, KnownStep, EntriesStep, SizeStep DEF CacheInv

LEMMA CacheInvariant == Spec => []CacheInv
BY CacheInit, CacheStep, PTL DEF Spec

LEMMA ContinuesByPlace == StreamsOK => StreamContinues
<1> SUFFICES ASSUME StreamsOK, NEW r \in Readers, reader[r].pc # "idle"
             PROVE  LET s == reader[r]
                        end(k) == IF k = 0 THEN s.from ELSE s.parts[k].to
                    IN  /\ \A k \in DOMAIN s.parts : s.parts[k].from = end(k - 1)
                        /\ s.pc = "done" => end(Len(s.parts)) = s.to
  BY DEF StreamContinues
<1> DEFINE s == reader[r]
<1>1. StreamOK(s) /\ s \in Streams
  BY Running
<1>2. s.parts \in Seq([from : Nat, to : Nat]) /\ s.from \in Nat /\ s.to \in Nat /\ s.from < s.to
  BY <1>1 DEF Streams, StreamOK, InRange
<1>3. DOMAIN s.parts = 1 .. Len(s.parts) /\ Len(s.parts) \in Nat /\ (s.parts = <<>> <=> Len(s.parts) = 0)
  BY <1>2
<1>4. \A k \in DOMAIN s.parts : s.parts[k].from = IF k - 1 = 0 THEN s.from ELSE s.parts[k - 1].to
  BY <1>1, <1>3 DEF StreamOK, Delivered, Consecutive
<1>5. s.pc = "done" => (IF Len(s.parts) = 0 THEN s.from ELSE s.parts[Len(s.parts)].to) = s.to
  <2> SUFFICES ASSUME s.pc = "done"
               PROVE  (IF Len(s.parts) = 0 THEN s.from ELSE s.parts[Len(s.parts)].to) = s.to
    OBVIOUS
  <2>1. s.to <= At(s) /\ EndOf(s.parts, s.from) = Most(s.from, Least(s.to, At(s))) /\ At(s) \in Nat
    BY <1>1, StartOfBlock DEF StreamOK, InRange, Delivered, At, Streams
  <2>2. EndOf(s.parts, s.from) = s.to
    BY <1>2, <2>1 DEF Most, Least
  <2> QED  BY <1>3, <2>2 DEF EndOf
<1> HIDE DEF s
<1> QED  BY <1>4, <1>5 DEF s

\* Every stream, file, entry and task is what it should be: what is stored of a
\* block is all of it, no entry is larger than a block with its header, and the
\* size never wraps.
THEOREM CacheTypeCorrect == Spec => []TypeOK
BY CacheInvariant, PTL DEF CacheInv

\* The parts that CachingRequest sends follow each other without gap or overlap,
\* through get_from_cache, get_from_client and compose_parts, up to the end of
\* the range, for every range, block size and split of the body into pieces.
THEOREM CacheStreamContinues == Spec => []StreamContinues
BY CacheInvariant, ContinuesByPlace, PTL DEF CacheInv

\* However many puts run at the same time, DiskDataCache::evict_if_needed lets
\* the counted size pass the limit by no more than one block with its header for each of them.
THEOREM CacheSizeBounded == Spec => []SizeBounded
BY CacheInvariant, PTL DEF CacheInv

\* UsageInfo counts what is there: every entry is of a file of its own, with
\* the size of that file, and the size is that of the entries together, after
\* any order of add, refresh and evict_lru.
THEOREM CacheUsageMatches == Spec => []UsageMatchesFiles
<1>1. Init => UsageExact
  <2>1. Len(<<>>) = 0 /\ TotalSize(<<>>) = 0
    BY SumsDef DEF TotalSize
  <2> QED  BY <2>1 DEF Init, Unused, UsageExact
<1>2. CacheInv /\ UsageExact /\ [Next]_vars => UsageExact'
  BY UsageStep DEF CacheInv
<1>3. CacheInv /\ UsageExact => UsageMatchesFiles
  BY DEF CacheInv, UsageExact, UsageMatchesFiles
<1> QED  BY <1>1, <1>2, <1>3, CacheInvariant, PTL DEF Spec

-----------------------------------------------------------------------------
\* The refinement of DataCache

Replies == [r \in Readers |-> reader[r].answer]

\* A hit is the block that was asked for, and it is known.
AllowedReply(r, a) ==
    \/ a \in {[kind |-> "miss"], [kind |-> "error"], [kind |-> "damaged"]}
    \/ a = [kind |-> "hit", block |-> Block(r)] /\ Block(r) \in known

LEMMA ReplyRefines ==
    ASSUME CacheInv, NEW r \in Readers, reader[r].pc \in {"open", "read", "express"}, Block(r) \in Blocks,
           NEW n, reader' = [reader EXCEPT ![r] = n], UNCHANGED known, AllowedReply(r, n.answer)
    PROVE  \E b \in Blocks : Cache!Reply(r, b)
<1> PICK b \in Blocks : b = Block(r)
  OBVIOUS
<1>1. reader[r] \in Streams /\ StreamOK(reader[r])
  BY Running DEF CacheInv
<1>2. reader[r].answer = [kind |-> "asked", block |-> Block(r)]
  BY <1>1 DEF StreamOK, AskedFor, Block
<1> DEFINE a == n.answer
<1> HIDE DEF a
<1>3. Replies' = [Replies EXCEPT ![r] = a]
  BY DEF Replies, CacheInv, TypeOK, a
<1>4. \E x \in {Cache!Miss, Cache!Error, Cache!Damaged} \cup {Cache!Hit(c) : c \in {b} \cap known} : x = a
  BY DEF AllowedReply, Cache!Miss, Cache!Error, Cache!Damaged, Cache!Hit, a
<1>5. Replies[r] = Cache!Asked(b)
  BY <1>2 DEF Replies, Cache!Asked
<1> QED  BY <1>3, <1>4, <1>5 DEF Cache!Reply, Replies

\* The answer of a cache that misses, and that of one that has the block.
LEMMA MissRefines ==
    ASSUME CacheInv, NEW r \in Readers, reader[r].pc \in {"open", "read", "express"}, Block(r) \in Blocks,
           NEW a \in {[kind |-> "miss"], [kind |-> "error"]}, reader' = Answered(r, "client", a), UNCHANGED known
    PROVE  \E b \in Blocks : Cache!Reply(r, b)
<1> PICK n : n = [reader[r] EXCEPT !.pc = "client", !.answer = a]
  OBVIOUS
<1>1. reader[r] \in Streams
  BY Running DEF CacheInv
<1>2. n.answer = a /\ reader' = [reader EXCEPT ![r] = n]
  BY <1>1 DEF Streams, Answered, CacheInv, TypeOK
<1>3. AllowedReply(r, n.answer)
  BY <1>2 DEF AllowedReply
<1> QED  BY <1>2, <1>3, ReplyRefines

LEMMA HitRefines ==
    ASSUME CacheInv, NEW r \in Readers, reader[r].pc \in {"open", "read", "express"}, Block(r) \in Blocks,
           NEW f, f.block = Block(r), f.state = "good" => f.block \in known, reader' = HitBy(r, f), UNCHANGED known
    PROVE  \E b \in Blocks : Cache!Reply(r, b)
<1> PICK a : a = HitOn(f)
  OBVIOUS
<1> PICK n : n = [reader[r] EXCEPT !.pc = "push", !.answer = a, !.len = f.len]
  OBVIOUS
<1>1. reader[r] \in Streams
  BY Running DEF CacheInv
<1>2. n.answer = a /\ reader' = [reader EXCEPT ![r] = n]
  BY <1>1 DEF Streams, HitBy, CacheInv, TypeOK
<1>3. AllowedReply(r, a)
  BY DEF AllowedReply, HitOn
<1> QED  BY <1>2, <1>3, ReplyRefines

\* A stream that keeps its answer.
LEMMA KeepsAnswer ==
    ASSUME CacheInv, NEW r \in Readers, NEW n, reader' = [reader EXCEPT ![r] = n], n.answer = reader[r].answer
    PROVE  UNCHANGED Replies
BY DEF Replies, CacheInv, TypeOK

LEMMA AskRefines ==
    ASSUME CacheInv, NEW r \in Readers, NEW n, reader' = [reader EXCEPT ![r] = n], StreamOK(n),
           n.pc \in {"open", "express"}, UNCHANGED known
    PROVE  \E b \in Blocks : Cache!Ask(r, b)
<1> DEFINE b == [obj |-> n.obj, idx |-> n.idx]
<1>1. n.answer = [kind |-> "asked", block |-> b]
  BY DEF StreamOK, AskedFor
<1>2. /\ n.idx < Ceiling(n.to) /\ n.obj \in Objects /\ n.idx \in Nat /\ n.to \in Nat \ {0} /\ n.to <= Size[n.obj]
  BY DEF StreamOK, InRange, Streams
<1>3. b \in Blocks
  BY <1>2, BlockInObject
<1> HIDE DEF b
<1>4. Replies' = [Replies EXCEPT ![r] = Cache!Asked(b)]
  BY <1>1 DEF Replies, CacheInv, TypeOK, Cache!Asked
<1> QED  BY <1>3, <1>4 DEF Cache!Ask, Replies

\* Every step of the caches and the streams is one of DataCache, or none.
LEMMA CacheStepRefines ==
    ASSUME CacheInv, [Next]_vars
    PROVE  [Cache!Next]_<<known, Replies>>
<1>0. TypeOK /\ StreamsOK /\ GoodKnown
  BY DEF CacheInv
<1>1. ASSUME NEW r \in Readers, NEW o \in Objects, NEW from \in 0 .. Size[o] - 1, NEW to \in from + 1 .. Size[o],
             StartRead(r, o, from, to)
      PROVE  \E b \in Blocks : Cache!Ask(r, b)
  <2> DEFINE s == [pc |-> "open", obj |-> o, from |-> from, to |-> to, idx |-> from \div BlockSize,
                   parts |-> <<>>, file |-> NoFile, len |-> 0, buffer |-> 0, answer |-> [kind |-> "none"]]
             n == Ask(s)
  <2>1. reader' = [reader EXCEPT ![r] = n] /\ UNCHANGED known
    BY <1>1 DEF StartRead
  <2>2. StreamOK(n)
    BY StartOK
  <2>3. n.pc \in {"open", "express"}
    BY DEF Ask
  <2> HIDE DEF n
  <2> QED  BY <2>1, <2>2, <2>3, AskRefines
<1>2. ASSUME NEW r \in Readers, OpenFile(r)
      PROVE  UNCHANGED <<known, Replies>>
  <2> DEFINE f == files[Path(Block(r))]
  <2>1. reader[r] \in Streams
    BY <1>0, <1>2, Running DEF OpenFile
  <2>2. reader' = [reader EXCEPT ![r] = [reader[r] EXCEPT !.pc = "read", !.file = f]] /\ UNCHANGED known
    BY <1>0, <1>2 DEF OpenFile, TypeOK
  <2> HIDE DEF f
  <2>3. [reader[r] EXCEPT !.pc = "read", !.file = f].answer = reader[r].answer
    BY <2>1 DEF Streams
  <2> QED  BY <2>2, <2>3, KeepsAnswer
<1>3. ASSUME NEW r \in Readers, ReadFile(r)
      PROVE  (\E b \in Blocks : Cache!Reply(r, b)) \/ UNCHANGED <<known, Replies>>
  <2> DEFINE f == reader[r].file
  <2>1. reader[r] \in Streams /\ reader[r].pc = "read" /\ Block(r) \in Blocks /\ UNCHANGED known
        /\ f \in FileStates /\ reader[r] # Idle
    BY <1>0, <1>3, Running DEF ReadFile, Streams, Idle
  <2>2. CASE Valid(f, Block(r))
    <3>1. reader' = HitBy(r, f)
      BY <1>3, <2>2 DEF ReadFile
    <3>2. f.block = Block(r) /\ (f.state = "good" => f.block \in known)
      BY <1>0, <2>1, <2>2 DEF GoodKnown, Valid
    <3> QED  BY <2>1, <3>1, <3>2, HitRefines
  <2>3. CASE ~Valid(f, Block(r)) /\ InExpress
    <3>1. reader' = [reader EXCEPT ![r] = [reader[r] EXCEPT !.pc = "express"]]
      BY <1>0, <1>3, <2>3 DEF ReadFile, TypeOK
    <3>2. [reader[r] EXCEPT !.pc = "express"].answer = reader[r].answer
      BY <2>1 DEF Streams
    <3> QED  BY <2>1, <3>1, <3>2, KeepsAnswer
  <2>4. CASE ~Valid(f, Block(r)) /\ ~InExpress
    <3>1. PICK a \in {[kind |-> "miss"], [kind |-> "error"]} : reader' = Answered(r, "client", a)
      BY <1>3, <2>4 DEF ReadFile
    <3> QED  BY <2>1, <3>1, MissRefines
  <2> QED  BY <2>2, <2>3, <2>4
<1>4. ASSUME NEW r \in Readers, GetExpress(r)
      PROVE  \E b \in Blocks : Cache!Reply(r, b)
  <2>1. reader[r].pc = "express" /\ Block(r) \in Blocks /\ UNCHANGED known
    BY <1>0, <1>4, Running DEF GetExpress
  <2> DEFINE object == express[Path(Block(r))]
  <2>2. \/ ValidMetadata(object, Block(r)) /\ reader' = HitBy(r, object)
        \/ \E a \in {[kind |-> "miss"], [kind |-> "error"]} : reader' = Answered(r, "client", a)
    BY <1>4 DEF GetExpress
  <2>3. CASE ValidMetadata(object, Block(r)) /\ reader' = HitBy(r, object)
    <3>1. object.block = Block(r) /\ (object.state = "good" => object.block \in known)
      BY <1>0, <2>1, <2>3, PathOf DEF GoodKnown, ValidMetadata
    <3> HIDE DEF object
    <3> QED  BY <2>1, <2>3, <3>1, HitRefines
  <2>4. CASE \E a \in {[kind |-> "miss"], [kind |-> "error"]} : reader' = Answered(r, "client", a)
    BY <2>1, <2>4, MissRefines
  <2> QED  BY <2>2, <2>3, <2>4
<1>5. ASSUME NEW r \in Readers, PushBlock(r)
      PROVE  (\E b \in Blocks : Cache!Ask(r, b)) \/ UNCHANGED <<known, Replies>>
  <2> DEFINE s == reader[r]
  <2>1. StreamOK(s) /\ s.pc = "push" /\ UNCHANGED known
    BY <1>0, <1>5, Running DEF PushBlock
  <2>2. PICK u : u = WithPart([s EXCEPT !.idx = @ + 1],
                     PartOf(s, BlockStart(s), BlockStart(s) + s.len))
    OBVIOUS
  <2>3. reader' = [reader EXCEPT ![r] = IF s.idx + 1 = Ceiling(s.to) THEN [u EXCEPT !.pc = "done"] ELSE Ask(u)]
    BY <1>5, <2>2 DEF PushBlock, BlockStart, Block, EndBlock
  <2>4. /\ u \in Streams /\ u.answer = s.answer
        /\ s.idx + 1 # Ceiling(s.to) => StreamOK(Ask(u))
    BY <2>1, <2>2, PushOK
  <2>5. [u EXCEPT !.pc = "done"].answer = s.answer
    BY <2>4 DEF Streams
  <2>6. Ask(u).pc \in {"open", "express"}
    BY <2>4 DEF Streams, Ask
  <2> HIDE DEF s
  <2>7. CASE s.idx + 1 = Ceiling(s.to)
    <3>1. PICK n : n = [u EXCEPT !.pc = "done"]
      OBVIOUS
    <3>2. reader' = [reader EXCEPT ![r] = n] /\ n.answer = reader[r].answer
      BY <2>3, <2>5, <2>7, <3>1 DEF s
    <3> QED  BY <2>1, <3>2, KeepsAnswer
  <2>8. CASE s.idx + 1 # Ceiling(s.to)
    <3>1. PICK n : n = Ask(u)
      OBVIOUS
    <3>2. reader' = [reader EXCEPT ![r] = n] /\ StreamOK(n) /\ n.pc \in {"open", "express"}
      BY <2>3, <2>4, <2>6, <2>8, <3>1
    <3> QED  BY <2>1, <3>2, AskRefines
  <2> QED  BY <2>7, <2>8
<1>6. ASSUME NEW r \in Readers, NEW k \in 1 .. BlockSize, Piece(r, k)
      PROVE  UNCHANGED Replies
  <2> DEFINE s == reader[r]
  <2>1. StreamOK(s) /\ s.pc = "client"
    BY <1>0, <1>6, Running DEF Piece
  <2>2. PICK u : u = WithPart(s, PartOf(s, At(s), At(s) + k))
    OBVIOUS
  <2>3. /\ s.buffer + k <= BlockSize /\ At(s) + k <= EndOfRequest(s)
        /\ reader' = [reader EXCEPT ![r] = IF s.buffer + k < BlockSize THEN [u EXCEPT !.buffer = @ + k]
                                           ELSE [u EXCEPT !.buffer = 0, !.idx = @ + 1]]
    BY <1>6, <2>2 DEF Piece, Position, RequestEnd, EndBlock, At, BlockStart, EndOfRequest
  <2>4. u \in Streams /\ u.answer = s.answer
    BY <2>1, <2>2, <2>3, PieceOK, ZenonT(30)
  <2>5. [u EXCEPT !.buffer = @ + k].answer = s.answer /\ [u EXCEPT !.buffer = 0, !.idx = @ + 1].answer = s.answer
    BY <2>4 DEF Streams
  <2>6. PICK n : n = IF s.buffer + k < BlockSize THEN [u EXCEPT !.buffer = @ + k]
                     ELSE [u EXCEPT !.buffer = 0, !.idx = @ + 1]
    OBVIOUS
  <2>7. reader' = [reader EXCEPT ![r] = n] /\ n.answer = s.answer
    BY <2>3, <2>5, <2>6
  <2> QED  BY <2>7, KeepsAnswer
<1>7. ASSUME NEW r \in Readers, EndOfBody(r)
      PROVE  UNCHANGED Replies
  <2>1. reader[r] \in Streams
    BY <1>0, <1>7, Running DEF EndOfBody
  <2>2. reader' = [reader EXCEPT ![r] = [reader[r] EXCEPT !.pc = "done"]]
    BY <1>0, <1>7 DEF EndOfBody, TypeOK
  <2>3. [reader[r] EXCEPT !.pc = "done"].answer = reader[r].answer
    BY <2>1 DEF Streams
  <2> QED  BY <2>2, <2>3, KeepsAnswer
<1>8. ASSUME NEW r \in Readers, UNCHANGED Replies, known' = known \/ known' = known \cup {Block(r)}, known' \subseteq Blocks
      PROVE  (\E b \in Blocks : Cache!Put(b)) \/ UNCHANGED <<known, Replies>>
  BY <1>8 DEF Cache!Put, Replies
<1>9. ASSUME NEW r \in Readers, (\E k \in 1 .. BlockSize : Piece(r, k)) \/ EndOfBody(r)
      PROVE  (\E b \in Blocks : Cache!Put(b)) \/ UNCHANGED <<known, Replies>>
  <2>1. UNCHANGED Replies
    BY <1>6, <1>7, <1>9
  <2>2. known' = known \/ known' = known \cup {Block(r)}
    BY <1>9 DEF Piece, EndOfBody
  <2>3. known' \subseteq Blocks
    BY <1>0, <1>9, StreamEffect DEF StreamStep
  <2> QED  BY <1>8, <2>1, <2>2, <2>3
<1>10. ASSUME NEW r \in Readers, StopRead(r)
       PROVE  Cache!Leave({r})
  <2>1. reader' = [reader EXCEPT ![r] = Idle] /\ UNCHANGED known
    BY <1>10 DEF StopRead
  <2>2. Replies' = [q \in Readers |-> IF q \in {r} THEN Cache!NoAnswer ELSE Replies[q]]
    BY <1>0, <2>1 DEF Replies, TypeOK, Idle, Cache!NoAnswer
  <2> QED  BY <2>1, <2>2 DEF Cache!Leave, Replies
<1>11. ASSUME Restart
       PROVE  Cache!Leave(Readers)
  <2>1. reader' = [r \in Readers |-> Idle] /\ UNCHANGED known
    BY <1>11 DEF Restart
  <2>2. Replies' = [q \in Readers |-> IF q \in Readers THEN Cache!NoAnswer ELSE Replies[q]]
    BY <2>1 DEF Replies, Idle, Cache!NoAnswer
  <2> QED  BY <2>1, <2>2 DEF Cache!Leave, Replies
<1>12. ASSUME UNCHANGED <<reader, known>>
       PROVE  UNCHANGED <<known, Replies>>
  BY <1>12 DEF Replies
<1>13. ASSUME NEW b \in Blocks, OtherInstance(b)
       PROVE  Cache!Put(b) \/ UNCHANGED <<known, Replies>>
  BY <1>13 DEF OtherInstance, Cache!Put, Replies
<1>14. ASSUME NEW t \in Tasks, TaskStep(t)
       PROVE  UNCHANGED <<reader, known>>
  BY <1>14 DEF TaskStep, PutEvict, PutWrite, PutPersist, PutExpress
<1>15. ASSUME (\E p \in Paths : DamageFile(p) \/ DamageExpress(p)) \/ UNCHANGED vars
       PROVE  UNCHANGED <<reader, known>>
  BY <1>15 DEF DamageFile, DamageExpress, vars
<1>16. Cache!Next \/ UNCHANGED <<known, Replies>>
  BY <1>1, <1>2, <1>3, <1>4, <1>5, <1>9, <1>10, <1>11, <1>12, <1>13, <1>14, <1>15
     DEF Next, StreamStep, Cache!Next
<1> QED  BY <1>16

LEMMA CacheInitRefines == Init => Cache!Init
BY DEF Init, Idle, Cache!Init, Cache!NoAnswer

\* The disk cache, the express cache and the two together implement DataCache:
\* what a stream is given for a block is that block as somebody has put it, or
\* bytes that fail their checksum, whatever files are cut short, damaged, have
\* the name of another block or are replaced while they are open, and whatever
\* object another instance has put under a key of the same hash: it is the header
\* and the metadata that tell (DiskBlockHeader::validate and
\* validate_object_metadata).
THEOREM CacheImplements == Spec => ImplementsDataCache
<1>1. CacheInv /\ [Next]_vars => [Cache!Next]_<<known, Replies>>
  BY CacheStepRefines
<1> QED  BY CacheInvariant, CacheInitRefines, <1>1, PTL DEF Spec, ImplementsDataCache, Cache!Spec, Replies
=============================================================================
