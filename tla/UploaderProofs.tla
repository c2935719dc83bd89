--------------------------- MODULE UploaderProofs ---------------------------
(***************************************************************************)
(* Proofs about uploads, for any sizes of parts, buffers and channels, any *)
(* number of writes and any failures: an atomic upload implements          *)
(* AtomicPut, and an incremental upload never publishes anything but the   *)
(* bytes that were written, in their order.                                *)
(***************************************************************************)
EXTENDS Uploader, SequenceTheorems, FiniteSetTheorems, TLAPS

-----------------------------------------------------------------------------
\* Atomic uploads: the inductive invariant.

\* The slice that the hasher has and that is not accepted yet.
Underway == IF call \in {"get", "write"} THEN data ELSE <<>>

\* The hasher has been given every accepted byte: a write that did not end
\* leaves it longer than the accepted bytes for good, for it is not empty.
HashCovers ==
    /\ \/ hasher = accepted \o Underway
       \/ Len(accepted) + Len(Underway) < Len(hasher)
    /\ call \in {"get", "write"} => data # <<>>

\* The last write is taken once no call can accept more.
EofIsLast == eof => call \in {"wait", "done", "failed", "exited"}

\* An upload that S3 may complete has been reviewed.
Reviewed == crt \in {"completing", "lost"} => eof /\ Uploaded = accepted

\* What is published is what was accepted, and it is there when the request
\* reports success.
PublishedExact ==
    /\ object # {} => eof /\ object = {accepted}
    /\ fin = "ok" => object # {}
    /\ call = "done" => object # {}

AtomicInv ==
    /\ AtomicTypeOK
    /\ HashCovers
    /\ EofIsLast
    /\ Reviewed
    /\ PublishedExact

\* Seq is closed under what the upload does with the bytes.
LEMMA BytesClosed ==
    ASSUME NEW s \in Seq(Nat), NEW t \in Seq(Nat)
    PROVE  /\ s \o t \in Seq(Nat) /\ Len(s \o t) = Len(s) + Len(t)
           /\ s \o <<>> = s
           /\ IsPrefix(s, s \o t)
           /\ \A k \in 0 .. Len(s) :
                 SubSeq(s, 1, k) \in Seq(Nat) /\ SubSeq(s, k + 1, Len(s)) \in Seq(Nat)
           /\ s # <<>> => [s EXCEPT ![1] = Corrupt] \in Seq(Nat)
<1>1. s \o t \in Seq(Nat) /\ Len(s \o t) = Len(s) + Len(t)
  BY ConcatProperties
<1>2. s \o <<>> = s
  BY ConcatEmptySeq
<1>3. IsPrefix(s, s \o t)
  <2>1. SubSeq(s \o t, 1, Len(s)) = s
    <3>1. /\ SubSeq(s \o t, 1, Len(s)) \in Seq(Nat)
          /\ Len(SubSeq(s \o t, 1, Len(s))) = Len(s)
          /\ \A i \in 1 .. Len(s) : SubSeq(s \o t, 1, Len(s))[i] = s[i]
      BY <1>1
    <3> QED  BY <3>1
  <2>2. SubSeq(s, 1, Len(s)) = s
    BY SubSeqFull
  <2> QED  BY <1>1, <2>1, <2>2 DEF IsPrefix
<1>4. ASSUME NEW k \in 0 .. Len(s)
      PROVE  SubSeq(s, 1, k) \in Seq(Nat) /\ SubSeq(s, k + 1, Len(s)) \in Seq(Nat)
  OBVIOUS
<1>5. s # <<>> => [s EXCEPT ![1] = Corrupt] \in Seq(Nat)
  BY DEF Corrupt
<1> QED  BY <1>1, <1>2, <1>3, <1>4, <1>5

LEMMA AtomicInitInv == AtomicInit => AtomicInv
<1> SUFFICES ASSUME AtomicInit
             PROVE  AtomicInv
  OBVIOUS
<1>1. AtomicTypeOK
  <2>1. <<>> \in Seq(Nat) /\ <<>> \in Seq([bytes : Seq(Nat), sum : BOOLEAN])
    OBVIOUS
  <2>2. 0 \in 0 .. MaxOffered /\ 0 \in 0 .. MaxUploadFaults
    BY AtomicAssumption
  <2> QED  BY <2>1, <2>2 DEF AtomicInit, AtomicTypeOK
<1>2. HashCovers
  <2>1. <<>> \o <<>> = <<>>
    OBVIOUS
  <2> QED  BY <2>1 DEF AtomicInit, HashCovers, Underway
<1>3. EofIsLast /\ Reviewed /\ PublishedExact
  BY DEF AtomicInit, EofIsLast, Reviewed, PublishedExact
<1> QED  BY <1>1, <1>2, <1>3 DEF AtomicInv

LEMMA AtomicTypeStep == AtomicTypeOK /\ Reviewed /\ [AtomicNext]_atomicVars => AtomicTypeOK'
<1> SUFFICES ASSUME AtomicTypeOK, Reviewed, [AtomicNext]_atomicVars
             PROVE  AtomicTypeOK'
  OBVIOUS
<1> USE DEF AtomicTypeOK, atomicCaller, atomicChannels, atomicCrt, Fault, Receive, FinishesWith
<1>1. CASE GetMut
  BY <1>1 DEF GetMut
<1>2. CASE WritePolls
  <2>1. \/ UNCHANGED <<part, left>>
        \/ \E k \in 0 .. Len(left) :
              /\ part' = part \o SubSeq(left, 1, k)
              /\ left' = SubSeq(left, k + 1, Len(left))
    <3>1. Room \in Int /\ Len(left) \in Nat
      BY AtomicAssumption, SMTT(30) DEF Room
    <3>2. Room > 0 => (IF Len(left) < Room THEN Len(left) ELSE Room) \in 0 .. Len(left)
      BY <3>1
    <3> QED  BY <1>2, <3>2 DEF WritePolls
  <2>2. part' \in Seq(Nat) /\ left' \in Seq(Nat)
    BY <2>1, BytesClosed, ZenonT(30)
  <2> QED  BY <1>2, <2>2 DEF WritePolls
<1>3. CASE WriteReturns
  <2>1. accepted' \in Seq(Nat)
    BY <1>3, BytesClosed DEF WriteReturns
  <2> QED  BY <1>3, <2>1 DEF WriteReturns
<1>4. CASE IntoInner
  BY <1>4 DEF IntoInner
<1>5. CASE EofPolls
  BY <1>5 DEF EofPolls
<1>6. CASE CompleteReturns
  <2>1. faults' \in 0 .. MaxUploadFaults
    BY <1>6, AtomicAssumption DEF CompleteReturns
  <2> QED  BY <1>6, <2>1 DEF CompleteReturns
<1>7. CASE DropReturns
  BY <1>7 DEF DropReturns
<1>8. CASE MakeRequest
  <2>1. faults' \in 0 .. MaxUploadFaults
    BY <1>8, AtomicAssumption DEF MakeRequest
  <2> QED  BY <1>8, <2>1 DEF MakeRequest
<1>9. CASE MpuAwaited
  BY <1>9 DEF MpuAwaited
<1>10. CASE MpuCreated
  BY <1>10 DEF MpuCreated
<1>11. CASE RequestFails
  <2>1. faults' \in 0 .. MaxUploadFaults
    BY <1>11, AtomicAssumption DEF RequestFails
  <2> QED  BY <1>11, <2>1 DEF RequestFails
<1>12. CASE PartUploaded
  <2>1. faults' \in 0 .. MaxUploadFaults
    BY <1>12, AtomicAssumption, SMTT(30) DEF PartUploaded
  <2>2. \E b \in Seq(Nat), c \in BOOLEAN : parts' = Append(parts, [bytes |-> b, sum |-> c])
    BY <1>12, BytesClosed DEF PartUploaded
  <2>3. parts' \in Seq([bytes : Seq(Nat), sum : BOOLEAN])
    BY <2>2
  <2> QED  BY <1>12, <2>1, <2>3 DEF PartUploaded
<1>13. CASE WakerCalled
  BY <1>13, ZenonT(30) DEF WakerCalled
<1>14. CASE UploadReviewed
  BY <1>14 DEF UploadReviewed
<1>15. CASE ObjectPublished
  BY <1>15 DEF ObjectPublished, Reviewed
<1>16. CASE RequestSucceeds
  BY <1>16 DEF RequestSucceeds
<1>17. CASE WriteInterrupted
  BY <1>17 DEF WriteInterrupted
<1>18. CASE AtomicComplete
  BY <1>18 DEF AtomicComplete
<1>19. CASE CompleteInterrupted
  BY <1>19 DEF CompleteInterrupted
<1>20. CASE AtomicDrop
  BY <1>20 DEF AtomicDrop
<1>21. ASSUME NEW n \in 1 .. MaxOffered, AtomicWrite(n)
      PROVE  AtomicTypeOK'
  BY <1>21 DEF AtomicWrite
<1>22. CASE UNCHANGED atomicVars
  BY <1>22 DEF atomicVars
<1> QED
  BY <1>1, <1>2, <1>3, <1>4, <1>5, <1>6, <1>7, <1>8, <1>9, <1>10, <1>11, <1>12, <1>13, <1>14, <1>15, <1>16, <1>17, <1>18, <1>19, <1>20, <1>21, <1>22
     DEF AtomicNext, AtomicCaller, Creator, Crt

\* A write that is given up leaves the hasher ahead.
LEMMA GivenUp ==
    ASSUME AtomicTypeOK, HashCovers, call \in {"get", "write"}, call' = "idle",
           UNCHANGED <<data, hasher, accepted>>
    PROVE  HashCovers'
<1>1. data \in Seq(Nat) /\ accepted \in Seq(Nat) /\ hasher \in Seq(Nat) /\ Len(data) > 0
  BY DEF AtomicTypeOK, HashCovers
<1>2. Len(accepted \o data) = Len(accepted) + Len(data)
  BY <1>1, BytesClosed
<1>3. Len(accepted) < Len(hasher)
  BY <1>1, <1>2 DEF HashCovers, Underway
<1> QED  BY <1>1, <1>3 DEF HashCovers, Underway

LEMMA AtomicStepInv == AtomicInv /\ [AtomicNext]_atomicVars => AtomicInv'
<1> SUFFICES ASSUME AtomicInv, [AtomicNext]_atomicVars
             PROVE  AtomicInv'
  OBVIOUS
<1> DEFINE Rest == HashCovers /\ EofIsLast /\ Reviewed /\ PublishedExact
<1>0. AtomicTypeOK'
  BY AtomicTypeStep DEF AtomicInv
<1> USE DEF AtomicInv, AtomicTypeOK, atomicCaller, atomicChannels, atomicCrt, Receive, FinishesWith,
       HashCovers, EofIsLast, Reviewed, PublishedExact, Uploaded, Underway
<1>1. ASSUME GetMut
      PROVE  Rest'
  BY <1>1 DEF GetMut
<1>2. ASSUME WritePolls
      PROVE  Rest'
  <2>1. EofIsLast' /\ Reviewed' /\ PublishedExact'
    BY <1>2 DEF WritePolls
  <2>2. HashCovers'
    <3>1. CASE call' = call
      BY <1>2, <3>1 DEF WritePolls
    <3>2. CASE call' = "idle"
      BY <1>2, <3>2, GivenUp DEF WritePolls
    <3> QED  BY <1>2, <3>1, <3>2 DEF WritePolls
  <2> QED  BY <2>1, <2>2
<1>3. ASSUME WriteReturns
      PROVE  Rest'
  BY <1>3 DEF WriteReturns
<1>4. ASSUME IntoInner
      PROVE  Rest'
  BY <1>4 DEF IntoInner
<1>5. ASSUME EofPolls
      PROVE  Rest'
  BY <1>5 DEF EofPolls
<1>6. ASSUME CompleteReturns
      PROVE  Rest'
  BY <1>6 DEF CompleteReturns
<1>7. ASSUME DropReturns
      PROVE  Rest'
  BY <1>7 DEF DropReturns
<1>8. ASSUME MakeRequest
      PROVE  Rest'
  BY <1>8 DEF MakeRequest
<1>9. ASSUME MpuAwaited
      PROVE  Rest'
  BY <1>9 DEF MpuAwaited
<1>10. ASSUME MpuCreated
      PROVE  Rest'
  BY <1>10 DEF MpuCreated
<1>11. ASSUME RequestFails
      PROVE  Rest'
  BY <1>11 DEF RequestFails
<1>12. ASSUME PartUploaded
      PROVE  Rest'
  BY <1>12 DEF PartUploaded
<1>13. ASSUME WakerCalled
      PROVE  Rest'
  BY <1>13 DEF WakerCalled
<1>14. ASSUME UploadReviewed
      PROVE  Rest'
  <2>1. ~(call \in {"get", "write"}) /\ UNCHANGED <<accepted, hasher, data, call>>
    BY <1>14 DEF UploadReviewed
  <2>2. HashCovers' /\ EofIsLast' /\ PublishedExact'
    BY <1>14, <2>1 DEF UploadReviewed
  <2>3. Reviewed'
    <3> SUFFICES ASSUME crt' \in {"completing", "lost"}
                 PROVE  eof' /\ Uploaded' = accepted'
      OBVIOUS
    <3>1. verify_checksums /\ eof /\ UNCHANGED <<eof, parts>>
      BY <1>14 DEF UploadReviewed
    <3> HIDE DEF Uploaded, AtomicInv, AtomicTypeOK, HashCovers
    <3>2. /\ accepted \o <<>> = accepted /\ Len(accepted) \in Nat /\ Len(<<>>) = 0
          /\ Len(hasher) \in Nat /\ Underway = <<>>
      BY <2>1, BytesClosed DEF AtomicInv, AtomicTypeOK
    <3> HIDE DEF Underway
    <3>3. hasher = accepted \/ Len(accepted) < Len(hasher)
      BY <3>2 DEF AtomicInv, HashCovers
    <3>4. hasher = accepted
      BY <3>1, <3>2, <3>3 DEF verify_checksums
    <3>5. Uploaded' = Uploaded
      BY <3>1 DEF Uploaded
    <3> QED  BY <2>1, <3>1, <3>4, <3>5 DEF verify_checksums
  <2> QED  BY <2>2, <2>3
<1>15. ASSUME ObjectPublished
      PROVE  Rest'
  BY <1>15 DEF ObjectPublished
<1>16. ASSUME RequestSucceeds
      PROVE  Rest'
  BY <1>16 DEF RequestSucceeds
<1>17. ASSUME WriteInterrupted
      PROVE  Rest'
  BY <1>17, GivenUp DEF WriteInterrupted
<1>18. ASSUME AtomicComplete
      PROVE  Rest'
  BY <1>18 DEF AtomicComplete
<1>19. ASSUME CompleteInterrupted
      PROVE  Rest'
  BY <1>19 DEF CompleteInterrupted
<1>20. ASSUME AtomicDrop
      PROVE  Rest'
  BY <1>20 DEF AtomicDrop
<1>21. ASSUME NEW n \in 1 .. MaxOffered, AtomicWrite(n)
      PROVE  Rest'
  <2>1. EofIsLast' /\ Reviewed' /\ PublishedExact'
    BY <1>21 DEF AtomicWrite
  <2>2. data' \in Seq(Nat) /\ Len(data') = n /\ data' # <<>>
    <3>1. data' \in Seq(Nat) /\ DOMAIN data' = 1 .. n
      BY <1>0, <1>21 DEF AtomicWrite
    <3> QED  BY <3>1
  <2>3. /\ accepted \o <<>> = accepted /\ Len(accepted) \in Nat /\ Len(<<>>) = 0
        /\ Len(hasher) \in Nat /\ Len(data') \in Nat
        /\ Len(hasher \o data') = Len(hasher) + Len(data')
    <3>1. accepted \in Seq(Nat) /\ hasher \in Seq(Nat)
      OBVIOUS
    <3> HIDE DEF AtomicInv, AtomicTypeOK
    <3>2. accepted \o <<>> = accepted
      BY <3>1, BytesClosed
    <3>3. Len(hasher \o data') = Len(hasher) + Len(data')
      BY <2>2, <3>1, BytesClosed
    <3> QED  BY <2>2, <3>1, <3>2, <3>3
  <2>4. hasher = accepted \/ Len(accepted) < Len(hasher)
    <3>1. Underway = <<>>
      BY <1>21 DEF AtomicWrite
    <3> HIDE DEF AtomicTypeOK, Underway
    <3> QED  BY <2>3, <3>1
  <2>5. hasher' = hasher \o data' /\ accepted' = accepted /\ Underway' = data'
    BY <1>21 DEF AtomicWrite
  <2>6. HashCovers'
    <3> HIDE DEF AtomicInv, AtomicTypeOK, Underway
    <3>1. \/ hasher' = accepted' \o Underway'
          \/ Len(accepted') + Len(Underway') < Len(hasher')
      <4>1. CASE hasher = accepted
        BY <2>5, <4>1
      <4>2. CASE Len(accepted) < Len(hasher)
        BY <2>3, <2>5, <4>2
      <4> QED  BY <2>4, <4>1, <4>2
    <3> QED  BY <1>21, <2>2, <3>1 DEF AtomicWrite
  <2> QED  BY <2>1, <2>6
<1>22. ASSUME UNCHANGED atomicVars
      PROVE  Rest'
  BY <1>22 DEF atomicVars
<1> QED
  BY <1>0, <1>1, <1>2, <1>3, <1>4, <1>5, <1>6, <1>7, <1>8, <1>9, <1>10, <1>11, <1>12, <1>13, <1>14, <1>15, <1>16, <1>17, <1>18, <1>19, <1>20, <1>21, <1>22
     DEF AtomicNext, AtomicCaller, Creator, Crt

-----------------------------------------------------------------------------
\* Atomic uploads: the refinement of AtomicPut.

LEMMA AtomicInitRefines == AtomicInit => Promise!Init
BY DEF AtomicInit, Promise!Init, Outcome

LEMMA AtomicStepRefines ==
    AtomicInv /\ [AtomicNext]_atomicVars => [Promise!Next]_<<accepted, object, Outcome>>
<1> SUFFICES ASSUME AtomicInv, [AtomicNext]_atomicVars
             PROVE  Promise!Next \/ UNCHANGED <<accepted, object, Outcome>>
  OBVIOUS
<1> USE DEF AtomicInv, AtomicTypeOK, atomicCaller, atomicChannels, atomicCrt, Outcome,
       EofIsLast, Reviewed, PublishedExact, Promise!Next, Promise!Accept, Promise!Complete,
       Promise!Publish, Promise!Return
<1>1. CASE GetMut
  BY <1>1 DEF GetMut
<1>2. CASE WritePolls
  BY <1>2 DEF WritePolls
<1>3. CASE WriteReturns
  <2>1. IsPrefix(accepted, accepted')
    BY <1>3, BytesClosed DEF WriteReturns
  <2> QED  BY <1>3, <2>1 DEF WriteReturns, IsPrefix, Promise!IsPrefix
<1>4. CASE IntoInner
  BY <1>4 DEF IntoInner
<1>5. CASE EofPolls
  BY <1>5 DEF EofPolls
<1>6. CASE CompleteReturns
  BY <1>6 DEF CompleteReturns
<1>7. CASE DropReturns
  BY <1>7 DEF DropReturns
<1>8. CASE MakeRequest
  BY <1>8 DEF MakeRequest
<1>9. CASE MpuAwaited
  BY <1>9 DEF MpuAwaited
<1>10. CASE MpuCreated
  BY <1>10 DEF MpuCreated
<1>11. CASE RequestFails
  BY <1>11 DEF RequestFails
<1>12. CASE PartUploaded
  BY <1>12 DEF PartUploaded
<1>13. CASE WakerCalled
  BY <1>13 DEF WakerCalled
<1>14. CASE UploadReviewed
  BY <1>14 DEF UploadReviewed
<1>15. CASE ObjectPublished
  BY <1>15 DEF ObjectPublished
<1>16. CASE RequestSucceeds
  BY <1>16 DEF RequestSucceeds
<1>17. CASE WriteInterrupted
  BY <1>17 DEF WriteInterrupted
<1>18. CASE AtomicComplete
  BY <1>18 DEF AtomicComplete
<1>19. CASE CompleteInterrupted
  BY <1>19 DEF CompleteInterrupted
<1>20. CASE AtomicDrop
  BY <1>20 DEF AtomicDrop
<1>21. ASSUME NEW n \in 1 .. MaxOffered, AtomicWrite(n)
      PROVE  UNCHANGED <<accepted, object, Outcome>>
  BY <1>21 DEF AtomicWrite
<1>22. CASE UNCHANGED atomicVars
  BY <1>22 DEF atomicVars
<1> QED
  BY <1>1, <1>2, <1>3, <1>4, <1>5, <1>6, <1>7, <1>8, <1>9, <1>10, <1>11, <1>12, <1>13, <1>14, <1>15, <1>16, <1>17, <1>18, <1>19, <1>20, <1>21, <1>22
     DEF AtomicNext, AtomicCaller, Creator, Crt

\* The atomic part of a step of the uploader.
LEMMA AtomicPart == [UploaderNext]_uploaderVars => [AtomicNext]_atomicVars
BY DEF UploaderNext, uploaderVars, IncrementalStep, AtomicStep

\* An atomic upload does what AtomicPut promises, whatever the sizes, the writes,
\* the failures and the order of the callbacks: only the bytes of the writes that
\* returned Ok are ever published, all of them, at most once, never before
\* complete nor after a drop, and complete returns Ok only once they are there.
THEOREM UploadImplementsAtomicPut == UploaderSpec => ImplementsAtomicPut
<1>1. UploaderInit => AtomicInv /\ Promise!Init
  BY AtomicInitInv, AtomicInitRefines DEF UploaderInit
<1> QED
  BY <1>1, AtomicPart, AtomicStepInv, AtomicStepRefines, PTL
     DEF UploaderSpec, ImplementsAtomicPut, Promise!Spec
-----------------------------------------------------------------------------
\* Incremental uploads: where the bytes are.

\* k bytes of the stream, after the first a.
Run(a, k) == [i \in 1 .. k |-> a + i]

\* The buffers q of a channel and the buffer b of the caller are the bytes a + 1
\* to w of the stream, in order and with no gap: f says where each one begins.
Layout(f, q, b, a, w) ==
    /\ f[1] = a
    /\ \A i \in 1 .. Len(q) : f[i] <= f[i + 1] /\ q[i] = Run(f[i], f[i + 1] - f[i])
    /\ IF b = NoBuffer
       THEN f[Len(q) + 1] = w
       ELSE b = Run(f[Len(q) + 1], w - f[Len(q) + 1])

Placed(q, b, a, w) == \E f \in [1 .. Len(q) + 1 -> 0 .. w] : Layout(f, q, b, a, w)

LEMMA ConcatIs ==
    ASSUME NEW s \in Seq(Int), NEW t \in Seq(Int), NEW r \in Seq(Int), Len(r) = Len(s) + Len(t),
           \A i \in 1 .. Len(s) + Len(t) : r[i] = IF i <= Len(s) THEN s[i] ELSE t[i - Len(s)]
    PROVE  s \o t = r
<1>1. /\ s \o t \in Seq(Int)
      /\ Len(s \o t) = Len(s) + Len(t)
      /\ \A i \in 1 .. Len(s) + Len(t) : (s \o t)[i] = IF i <= Len(s) THEN s[i] ELSE t[i - Len(s)]
  BY ConcatProperties
<1> QED  BY <1>1, SeqEqual

\* A run is never the mark of a missing buffer, and runs continue each other.
LEMMA RunFacts ==
    ASSUME NEW a \in Nat, NEW k \in Nat
    PROVE  /\ Run(a, k) \in Seq(Int)
           /\ Len(Run(a, k)) = k
           /\ Run(a, k) # NoBuffer
           /\ Run(a, 0) = <<>>
           /\ \A j \in Nat : Run(a, k) \o Run(a + k, j) = Run(a, k + j)
<1>1. \A m, j \in Nat : Run(m, j) \in Seq(Int) /\ Len(Run(m, j)) = j
  BY DEF Run
<1>2. Run(a, k) # NoBuffer
  <2> SUFFICES ASSUME Run(a, k) = NoBuffer
               PROVE  FALSE
    OBVIOUS
  <2>1. NoBuffer[1] = -1 /\ Len(NoBuffer) = 1
    BY DEF NoBuffer, Foreign
  <2>2. k = 1
    BY <1>1, <2>1
  <2>3. Run(a, k)[1] = a + 1
    BY <2>2 DEF Run
  <2> QED  BY <2>1, <2>3
<1>3. Run(a, 0) = <<>>
  BY <1>1
<1>4. ASSUME NEW j \in Nat
      PROVE  Run(a, k) \o Run(a + k, j) = Run(a, k + j)
  <2>1. /\ Run(a, k) \in Seq(Int) /\ Run(a + k, j) \in Seq(Int) /\ Run(a, k + j) \in Seq(Int)
        /\ Len(Run(a, k)) = k /\ Len(Run(a + k, j)) = j /\ Len(Run(a, k + j)) = k + j
    BY <1>1
  <2>2. /\ \A i \in 1 .. k : Run(a, k)[i] = a + i
        /\ \A i \in 1 .. j : Run(a + k, j)[i] = a + k + i
        /\ \A i \in 1 .. k + j : Run(a, k + j)[i] = a + i
    BY DEF Run
  <2>3. \A i \in 1 .. k + j : Run(a, k + j)[i] = IF i <= k THEN Run(a, k)[i] ELSE Run(a + k, j)[i - k]
    BY <2>2
  <2> QED  BY <2>1, <2>3, ConcatIs, ZenonT(30)
<1> QED  BY <1>1, <1>2, <1>3, <1>4

LEMMA PlacedBounds ==
    ASSUME NEW q \in Seq(Seq(Int)), NEW b, NEW a \in Nat, NEW w \in Nat, Placed(q, b, a, w)
    PROVE  /\ a <= w
           /\ q = <<>> /\ b = NoBuffer => a = w
<1>1. PICK f \in [1 .. Len(q) + 1 -> 0 .. w] : Layout(f, q, b, a, w)
  BY DEF Placed
<1>2. 1 \in 1 .. Len(q) + 1
  OBVIOUS
<1>3. a \in 0 .. w
  BY <1>1, <1>2 DEF Layout
<1> QED  BY <1>1, <1>3 DEF Layout

LEMMA PlacedEmpty == Placed(<<>>, NoBuffer, 0, 0)
<1> DEFINE f == [i \in 1 .. 1 |-> 0]
<1>1. f \in [1 .. Len(<<>>) + 1 -> 0 .. 0] /\ f[1] = 0 /\ Len(<<>>) = 0
  OBVIOUS
<1> HIDE DEF f
<1>2. Layout(f, <<>>, NoBuffer, 0, 0)
  BY <1>1 DEF Layout
<1> QED  BY <1>1, <1>2 DEF Placed

\* The caller takes a buffer ...
LEMMA PlacedNew ==
    ASSUME NEW q \in Seq(Seq(Int)), NEW a \in Nat, NEW w \in Nat, Placed(q, NoBuffer, a, w)
    PROVE  Placed(q, <<>>, a, w)
<1>1. PICK f \in [1 .. Len(q) + 1 -> 0 .. w] : Layout(f, q, NoBuffer, a, w)
  BY DEF Placed
<1>2. f[Len(q) + 1] = w /\ w - w = 0
  BY <1>1 DEF Layout
<1>3. Run(w, 0) = <<>> /\ <<>> # NoBuffer
  BY RunFacts DEF NoBuffer
<1>4. Layout(f, q, <<>>, a, w)
  BY <1>1, <1>2, <1>3 DEF Layout
<1> QED  BY <1>4 DEF Placed

\* ... fills it ...
LEMMA PlacedFill ==
    ASSUME NEW q \in Seq(Seq(Int)), NEW b, NEW a \in Nat, NEW w \in Nat, NEW k \in Nat,
           b # NoBuffer, Placed(q, b, a, w)
    PROVE  Placed(q, b \o Run(w, k), a, w + k)
<1>1. PICK f \in [1 .. Len(q) + 1 -> 0 .. w] : Layout(f, q, b, a, w)
  BY DEF Placed
<1> DEFINE x == f[Len(q) + 1]
<1>2. x \in 0 .. w
  OBVIOUS
<1>3. b = Run(x, w - x)
  BY <1>1 DEF Layout
<1> HIDE DEF x
<1>4. b \o Run(w, k) = Run(x, w + k - x)
  <2>1. x \in Nat /\ w - x \in Nat /\ x + (w - x) = w /\ (w - x) + k = w + k - x
    BY <1>2
  <2>2. \A m, n, j \in Nat : Run(m, n) \o Run(m + n, j) = Run(m, n + j)
    BY RunFacts
  <2>3. Run(x, w - x) \o Run(x + (w - x), k) = Run(x, (w - x) + k)
    BY <2>1, <2>2
  <2> QED  BY <1>3, <2>1, <2>3
<1>5. Run(x, w + k - x) # NoBuffer
  BY <1>2, RunFacts
<1>6. f \in [1 .. Len(q) + 1 -> 0 .. w + k]
  OBVIOUS
<1>7. Layout(f, q, b \o Run(w, k), a, w + k)
  <2>1. /\ f[1] = a
        /\ \A i \in 1 .. Len(q) : f[i] <= f[i + 1] /\ q[i] = Run(f[i], f[i + 1] - f[i])
    BY <1>1 DEF Layout
  <2>2. x = f[Len(q) + 1]
    BY DEF x
  <2> QED  BY <1>4, <1>5, <2>1, <2>2 DEF Layout
<1> QED  BY <1>6, <1>7 DEF Placed

\* ... and pushes it; the task takes the first of the channel.
LEMMA PlacedPush ==
    ASSUME NEW q \in Seq(Seq(Int)), NEW b \in Seq(Int), NEW a \in Nat, NEW w \in Nat,
           b # NoBuffer, Placed(q, b, a, w)
    PROVE  Placed(Append(q, b), NoBuffer, a, w)
<1>1. PICK f \in [1 .. Len(q) + 1 -> 0 .. w] : Layout(f, q, b, a, w)
  BY DEF Placed
<1> DEFINE n == Len(q)
           p == Append(q, b)
           g == [i \in 1 .. n + 2 |-> IF i = n + 2 THEN w ELSE f[i]]
<1>2. n \in Nat /\ Len(p) = n + 1 /\ p[n + 1] = b /\ \A i \in 1 .. n : p[i] = q[i]
  OBVIOUS
<1>3. g \in [1 .. Len(p) + 1 -> 0 .. w]
  OBVIOUS
<1>4. g[n + 2] = w /\ \A i \in 1 .. n + 1 : g[i] = f[i] /\ f[i] \in 0 .. w
  <2>1. n + 2 \in 1 .. n + 2
    BY <1>2
  <2>2. \A i \in 1 .. n + 1 : f[i] \in 0 .. w
    OBVIOUS
  <2> HIDE DEF n
  <2>3. \A i \in 1 .. n + 1 : i \in 1 .. n + 2 /\ i # n + 2
    BY <1>2
  <2> QED  BY <2>1, <2>2, <2>3
<1>5. \A i \in 1 .. n : f[i] <= f[i + 1] /\ q[i] = Run(f[i], f[i + 1] - f[i])
  BY <1>1 DEF Layout
<1>6. b = Run(f[n + 1], w - f[n + 1]) /\ f[1] = a
  BY <1>1 DEF Layout
<1> HIDE DEF g, p, n
<1>7. ASSUME NEW i \in 1 .. Len(p)
      PROVE  g[i] <= g[i + 1] /\ p[i] = Run(g[i], g[i + 1] - g[i])
  <2>1. CASE i = n + 1
    <3>1. g[i] = f[n + 1] /\ g[i + 1] = w
      BY <1>2, <1>4, <2>1
    <3>2. f[n + 1] <= w
      BY <1>2, <1>4
    <3> QED  BY <1>2, <1>6, <2>1, <3>1, <3>2
  <2>2. CASE i # n + 1
    <3>1. i \in 1 .. n /\ i + 1 \in 1 .. n + 1 /\ i \in 1 .. n + 1
      BY <1>2, <2>2
    <3> QED  BY <1>2, <1>4, <1>5, <3>1
  <2> QED  BY <2>1, <2>2
<1>8. Layout(g, p, NoBuffer, a, w)
  <2>1. g[1] = a /\ g[Len(p) + 1] = w
    BY <1>2, <1>4, <1>6
  <2> QED  BY <1>7, <2>1 DEF Layout
<1>9. Placed(p, NoBuffer, a, w)
  BY <1>3, <1>8 DEF Placed
<1> QED  BY <1>9 DEF p

LEMMA PlacedPop ==
    ASSUME NEW q \in Seq(Seq(Int)), NEW b, NEW a \in Nat, NEW w \in Nat,
           q # <<>>, Placed(q, b, a, w)
    PROVE  \E k \in Nat : Head(q) = Run(a, k) /\ Placed(Tail(q), b, a + k, w)
<1>1. PICK f \in [1 .. Len(q) + 1 -> 0 .. w] : Layout(f, q, b, a, w)
  BY DEF Placed
<1> DEFINE n == Len(q)
           p == Tail(q)
           g == [i \in 1 .. n |-> f[i + 1]]
           k == f[2] - a
<1>2. n \in Nat /\ n >= 1 /\ p \in Seq(Seq(Int)) /\ Len(p) = n - 1 /\ \A i \in 1 .. n - 1 : p[i] = q[i + 1]
  OBVIOUS
<1>3. f \in [1 .. n + 1 -> 0 .. w] /\ f[1] = a /\ \A i \in 1 .. n : f[i] <= f[i + 1] /\ q[i] = Run(f[i], f[i + 1] - f[i])
  BY <1>1 DEF Layout
<1>4. \A i \in 1 .. n : g[i] = f[i + 1] /\ f[i + 1] \in 0 .. w
  <2>1. \A i \in 1 .. n : i + 1 \in 1 .. n + 1
    BY <1>2
  <2> HIDE DEF n
  <2> QED  BY <1>3, <2>1
<1>5. f[2] \in 0 .. w /\ f[1] <= f[2] /\ q[1] = Run(f[1], f[2] - f[1])
  <2>1. 1 \in 1 .. n /\ 1 + 1 = 2 /\ 2 \in 1 .. n + 1
    BY <1>2
  <2> HIDE DEF n, g, k
  <2> QED  BY <1>3, <2>1
<1>6. k \in Nat /\ a + k = f[2] /\ Head(q) = Run(a, k)
  <2>1. Head(q) = q[1]
    OBVIOUS
  <2> QED  BY <1>3, <1>5, <2>1
<1>7. g \in [1 .. Len(p) + 1 -> 0 .. w]
  BY <1>2, <1>4
<1> HIDE DEF g, k
<1>8. ASSUME NEW i \in 1 .. n - 1
      PROVE  g[i] <= g[i + 1] /\ p[i] = Run(g[i], g[i + 1] - g[i])
  <2>1. i \in 1 .. n /\ i + 1 \in 1 .. n
    BY <1>2
  <2> QED  BY <1>2, <1>3, <1>4, <2>1
<1>9. g[Len(p) + 1] = f[n + 1] /\ g[1] = a + k
  BY <1>2, <1>4, <1>6
<1>10. Layout(g, p, b, a + k, w)
  <2>1. IF b = NoBuffer THEN f[n + 1] = w ELSE b = Run(f[n + 1], w - f[n + 1])
    BY <1>1 DEF Layout
  <2> HIDE DEF n, p
  <2>2. \A i \in 1 .. Len(p) : g[i] <= g[i + 1] /\ p[i] = Run(g[i], g[i + 1] - g[i])
    BY <1>2, <1>8
  <2> QED  BY <1>9, <2>1, <2>2 DEF Layout
<1>11. Placed(p, b, a + k, w)
  BY <1>7, <1>10 DEF Placed
<1> QED  BY <1>6, <1>11

-----------------------------------------------------------------------------
\* Incremental uploads: the events.

\* The responses among some events.
Puts(ev) == {i \in DOMAIN ev : ev[i].type = "put"}

\* The last etag that the caller knows, or will know from the events.
Told(ev, known, etag) ==
    \/ Puts(ev) = {} /\ known = etag
    \/ \E i \in Puts(ev) : ev[i].etag = etag /\ \A j \in Puts(ev) : j <= i

LEMMA PutsFinite ==
    ASSUME NEW ev \in Seq(Event)
    PROVE  IsFiniteSet(Puts(ev)) /\ Cardinality(Puts(ev)) \in Nat
<1>1. Len(ev) \in Nat /\ DOMAIN ev = 1 .. Len(ev)
  OBVIOUS
<1>2. IsFiniteSet(1 .. Len(ev))
  BY <1>1, FS_Interval
<1>3. Puts(ev) \subseteq 1 .. Len(ev)
  BY <1>1 DEF Puts
<1> QED  BY <1>2, <1>3, FS_Subset, FS_CardinalityType

LEMMA PutsAppend ==
    ASSUME NEW ev \in Seq(Event), NEW e \in Event
    PROVE  /\ e.type # "put" => Puts(Append(ev, e)) = Puts(ev)
           /\ e.type = "put" => Cardinality(Puts(Append(ev, e))) = Cardinality(Puts(ev)) + 1
           /\ \A i \in Puts(ev) : Append(ev, e)[i] = ev[i]
<1> DEFINE new == Append(ev, e)
<1>1. /\ new \in Seq(Event) /\ Len(ev) \in Nat
      /\ DOMAIN ev = 1 .. Len(ev) /\ DOMAIN new = 1 .. Len(ev) + 1
      /\ new[Len(ev) + 1] = e /\ \A i \in 1 .. Len(ev) : new[i] = ev[i]
  OBVIOUS
<1> HIDE DEF new
<1>2. e.type # "put" => Puts(new) = Puts(ev)
  BY <1>1 DEF Puts
<1>3. ASSUME e.type = "put"
      PROVE  Cardinality(Puts(new)) = Cardinality(Puts(ev)) + 1
  <2>1. Puts(new) = Puts(ev) \cup {Len(ev) + 1}
    BY <1>1, <1>3 DEF Puts
  <2>2. Len(ev) + 1 \notin Puts(ev)
    BY <1>1 DEF Puts
  <2> QED  BY <2>1, <2>2, PutsFinite, FS_AddElement
<1>4. \A i \in Puts(ev) : new[i] = ev[i]
  BY <1>1 DEF Puts
<1> QED  BY <1>2, <1>3, <1>4 DEF new

LEMMA PutsTail ==
    ASSUME NEW ev \in Seq(Event), ev # <<>>
    PROVE  /\ Tail(ev) \in Seq(Event)
           /\ \A i \in Puts(Tail(ev)) : i + 1 \in Puts(ev) /\ Tail(ev)[i] = ev[i + 1]
           /\ \A i \in Puts(ev) : i # 1 => i - 1 \in Puts(Tail(ev))
           /\ Head(ev).type = "put" <=> 1 \in Puts(ev)
           /\ Cardinality(Puts(ev)) =
                 Cardinality(Puts(Tail(ev))) + (IF Head(ev).type = "put" THEN 1 ELSE 0)
<1> DEFINE new == Tail(ev)
<1>1. /\ new \in Seq(Event) /\ Len(ev) \in Nat \ {0} /\ ev[1] = Head(ev)
      /\ DOMAIN ev = 1 .. Len(ev) /\ DOMAIN new = 1 .. Len(ev) - 1
      /\ \A i \in 1 .. Len(ev) - 1 : new[i] = ev[i + 1]
  OBVIOUS
<1> HIDE DEF new
<1>2. \A i \in Puts(new) : i + 1 \in Puts(ev) /\ new[i] = ev[i + 1]
  BY <1>1 DEF Puts
<1>3. \A i \in Puts(ev) : i # 1 => i - 1 \in Puts(new)
  BY <1>1 DEF Puts
<1>4. Head(ev).type = "put" <=> 1 \in Puts(ev)
  BY <1>1 DEF Puts
<1>5. Cardinality(Puts(ev)) = Cardinality(Puts(new)) + (IF Head(ev).type = "put" THEN 1 ELSE 0)
  <2> DEFINE S == Puts(ev) \ {1}
             g == [i \in Puts(new) |-> i + 1]
  <2>0. Puts(new) \subseteq Nat /\ Puts(ev) \subseteq Nat /\ 0 \notin Puts(new)
    BY <1>1 DEF Puts
  <2>1. g \in Bijection(Puts(new), S)
    <3>1. g \in [Puts(new) -> S]
      BY <1>2, <2>0
    <3>2. \A i, j \in Puts(new) : g[i] = g[j] => i = j
      BY <2>0
    <3>3. \A s \in S : \E i \in Puts(new) : g[i] = s
      <4> SUFFICES ASSUME NEW s \in S
                   PROVE  g[s - 1] = s /\ s - 1 \in Puts(new)
        BY Zenon
      <4> QED  BY <1>3, <2>0
    <3> QED  BY <3>1, <3>2, <3>3 DEF Bijection, Injection, Surjection, IsInjective
  <2>2. Cardinality(Puts(new)) = Cardinality(S)
    <3>1. ExistsBijection(Puts(new), S)
      BY <2>1 DEF ExistsBijection
    <3> QED  BY <1>1, <3>1, PutsFinite, FS_Bijection
  <2>3. Cardinality(S) = Cardinality(Puts(ev)) - (IF 1 \in Puts(ev) THEN 1 ELSE 0)
    <3>1. IsFiniteSet(Puts(ev)) /\ Cardinality(Puts(ev)) \in Nat
      BY PutsFinite
    <3>2. Cardinality(S) = IF 1 \in Puts(ev) THEN Cardinality(Puts(ev)) - 1 ELSE Cardinality(Puts(ev))
      BY <3>1, FS_RemoveElement
    <3> QED  BY <3>1, <3>2
  <2>4. Cardinality(S) \in Nat /\ Cardinality(Puts(ev)) \in Nat
    BY <1>1, <2>2, PutsFinite
  <2> HIDE DEF S
  <2> QED  BY <1>4, <2>2, <2>3, <2>4
<1> QED  BY <1>1, <1>2, <1>3, <1>4, <1>5 DEF new

\* A response that arrives is the last one; one that is consumed either leaves
\* the last one among the events, or was the last one.
LEMMA ToldAppend ==
    ASSUME NEW ev \in Seq(Event), NEW e \in Event, NEW known, NEW etag
    PROVE  /\ e.type = "put" => Told(Append(ev, e), known, e.etag)
           /\ e.type # "put" /\ Told(ev, known, etag) => Told(Append(ev, e), known, etag)
<1>1. ASSUME e.type = "put"
      PROVE  Told(Append(ev, e), known, e.etag)
  <2> DEFINE new == Append(ev, e)
  <2>1. DOMAIN new = 1 .. Len(ev) + 1 /\ new[Len(ev) + 1] = e /\ Len(ev) \in Nat
    OBVIOUS
  <2> HIDE DEF new
  <2>2. Len(ev) + 1 \in Puts(new) /\ \A j \in Puts(new) : j <= Len(ev) + 1
    BY <1>1, <2>1 DEF Puts
  <2> QED  BY <2>1, <2>2 DEF Told, new
<1>2. ASSUME e.type # "put", Told(ev, known, etag)
      PROVE  Told(Append(ev, e), known, etag)
  <2>1. Puts(Append(ev, e)) = Puts(ev) /\ \A i \in Puts(ev) : Append(ev, e)[i] = ev[i]
    BY <1>2, PutsAppend
  <2> QED  BY <1>2, <2>1 DEF Told
<1> QED  BY <1>1, <1>2

LEMMA ToldTail ==
    ASSUME NEW ev \in Seq(Event), ev # <<>>, NEW known, NEW etag, Told(ev, known, etag)
    PROVE  Told(Tail(ev), IF Head(ev).type = "put" THEN Head(ev).etag ELSE known, etag)
<1> DEFINE new == Tail(ev)
<1>1. /\ \A i \in Puts(new) : i + 1 \in Puts(ev) /\ new[i] = ev[i + 1]
      /\ \A i \in Puts(ev) : i # 1 => i - 1 \in Puts(new)
      /\ Head(ev).type = "put" <=> 1 \in Puts(ev)
  BY PutsTail
<1>2. Puts(ev) \subseteq Nat /\ Puts(new) \subseteq Nat /\ 0 \notin Puts(ev) /\ 0 \notin Puts(new)
  BY PutsTail DEF Puts
<1>3. Head(ev) = ev[1]
  OBVIOUS
<1> HIDE DEF new
<1>4. CASE Puts(ev) = {}
  <2>1. Puts(new) = {} /\ Head(ev).type # "put" /\ known = etag
    BY <1>1, <1>4 DEF Told
  <2> QED  BY <2>1 DEF Told, new
<1>5. CASE Puts(ev) # {}
  <2>1. PICK i \in Puts(ev) : ev[i].etag = etag /\ \A j \in Puts(ev) : j <= i
    BY <1>5 DEF Told
  <2>2. CASE i = 1
    <3>1. Puts(new) = {}
      BY <1>1, <1>2, <2>1, <2>2
    <3>2. Head(ev).type = "put" /\ Head(ev).etag = etag
      BY <1>1, <1>3, <2>1, <2>2
    <3> QED  BY <3>1, <3>2 DEF Told, new
  <2>3. CASE i # 1
    <3>1. i - 1 \in Puts(new) /\ new[i - 1] = ev[i]
      <4>1. i - 1 \in Puts(new) /\ (i - 1) + 1 = i
        BY <1>1, <1>2, <2>3
      <4> QED  BY <1>1, <4>1
    <3>2. \A j \in Puts(new) : j <= i - 1
      BY <1>1, <1>2, <2>1
    <3> QED  BY <2>1, <3>1, <3>2 DEF Told, new
  <2> QED  BY <2>2, <2>3
<1> QED  BY <1>4, <1>5
-----------------------------------------------------------------------------
\* Incremental uploads: the inductive invariant.

ErrPending == \E i \in DOMAIN events : events[i].type = "err"

\* The task has not failed, or not so that the caller could miss it.
Clean ==
    \/ task \in {"head", "recv", "put"}
    \/ task = "ended" /\ pc \in {"joined", "done"} /\ ~ErrPending

\* The bytes that the task has appended, and those of the PUT under way.
Appended == at.offset - start
Sent == IF task = "put" THEN Len(sending) ELSE 0

\* What is being sent, then the channel, then the caller's buffer, are the
\* bytes written after those that are appended.
Contiguous ==
    /\ at.offset >= start
    /\ task = "put" => sending = Run(Appended, Len(sending))
    /\ pc = "push" => buffer # NoBuffer
    /\ Placed(queue, buffer, Appended + Sent, Written)

\* The etag of the task is that of a version with what it has appended.
FirstEtag == IF start = 0 THEN 0 ELSE 1

VersionKnown ==
    /\ at.etag <= Etag
    /\ at.etag # 0 => versions[at.etag] = Expected(Appended)
    /\ at.etag = FirstEtag => at.offset = start
    /\ at.etag >= FirstEtag

\* The last etag that the caller has been or will be told is that of the task.
ResultEtag == IF at.etag = FirstEtag THEN 0 ELSE at.etag
EtagTold == pc # "failed" => Told(events, result, ResultEtag)

\* An empty object is uploaded too.
EmptyUploaded ==
    pc \in {"join", "joined", "done"} /\ offset = 0 =>
        queue # <<>> \/ task = "put" \/ at.etag # FirstEtag

\* Requests are counted until their response has been consumed.
RequestsCounted ==
    inQueue >= Len(queue) + Cardinality(Puts(events)) + (IF task = "put" THEN 1 ELSE 0)

Phases ==
    /\ offset >= start
    /\ start > 0 => Etag >= 1
    /\ task = "ended" => closed
    /\ closed => task \in {"failing", "ended"} \/ pc \in {"joined", "failed"}
    /\ pc \in {"get", "wait", "join", "joined", "done"} => buffer = NoBuffer
    /\ pc = "done" => task = "ended" /\ events = <<>>

\* A task that ends has sent every buffer.
Drained == task = "ended" => queue = <<>>

CleanInv == Clean => Contiguous /\ VersionKnown /\ EtagTold /\ EmptyUploaded /\ Drained

AppendInv ==
    /\ TypeOK
    /\ Phases
    /\ RequestsCounted
    /\ CleanInv
    /\ ObjectIsPrefix

-----------------------------------------------------------------------------
\* Incremental uploads: facts about the steps.

\* The counters are natural numbers.
LEMMA AppendNumbers ==
    ASSUME TypeOK
    PROVE  start \in Nat /\ BufferSize \in Nat /\ Etag \in Nat
BY AppendAssumption DEF TypeOK, Etag

\* A buffer that bytes were added to is there.
LEMMA FilledBuffer ==
    ASSUME NEW q \in Seq(Seq(Int)), NEW b, NEW a \in Nat, NEW w \in Nat, NEW k \in Nat,
           b # NoBuffer, Placed(q, b, a, w)
    PROVE  b \o Run(w, k) # NoBuffer
<1>1. PICK f \in [1 .. Len(q) + 1 -> 0 .. w] : Layout(f, q, b, a, w)
  BY DEF Placed
<1> DEFINE x == f[Len(q) + 1]
<1>2. x \in 0 .. w
  OBVIOUS
<1>3. b = Run(x, w - x)
  BY <1>1 DEF Layout
<1> HIDE DEF x
<1>4. x \in Nat /\ w - x \in Nat /\ x + (w - x) = w /\ (w - x) + k \in Nat
  BY <1>2
<1>5. \A m, n, j \in Nat : Run(m, n) \o Run(m + n, j) = Run(m, n + j)
  BY RunFacts
<1>6. Run(x, w - x) \o Run(x + (w - x), k) = Run(x, (w - x) + k)
  BY <1>4, <1>5, ZenonT(30)
<1>7. Run(x, (w - x) + k) # NoBuffer
  BY <1>4, RunFacts
<1> QED  BY <1>3, <1>4, <1>6, <1>7

\* What a step of the loop that fills buffers does.
LEMMA FillCases ==
    ASSUME TypeOK, Fill
    PROVE  /\ UNCHANGED <<start, closing, alg, inQueue, result, channelVars, taskVars, versions>>
           /\ pc = "fill" /\ pc' \in {"idle", "get", "fill", "push"}
           /\ \/ /\ UNCHANGED <<todo, offset, buffer>>
                 /\ pc' \in {"idle", "get"} /\ (pc' = "get" => buffer = NoBuffer)
              \/ /\ pc' \in {"fill", "push"}
                 /\ buffer # NoBuffer
                 /\ \E k \in 0 .. todo :
                       /\ Len(buffer) + k <= BufferSize
                       /\ buffer' = buffer \o Run(Written, k)
                       /\ todo' = todo - k
                       /\ offset' = offset + k
<1>1. Len(buffer) \in Nat /\ todo \in Nat /\ BufferSize \in Nat
  BY AppendNumbers DEF TypeOK
<1>2. CASE todo = 0 \/ buffer = NoBuffer
  BY <1>2 DEF Fill
<1>3. CASE ~(todo = 0 \/ buffer = NoBuffer)
  <2> DEFINE k == IF todo < BufferSize - Len(buffer) THEN todo ELSE BufferSize - Len(buffer)
  <2>1. /\ buffer' = buffer \o Run(Written, k) /\ todo' = todo - k /\ offset' = offset + k
        /\ pc' \in {"fill", "push"} /\ pc = "fill"
        /\ UNCHANGED <<start, closing, alg, inQueue, result, channelVars, taskVars, versions>>
    BY <1>3 DEF Fill, Run
  <2>2. k \in 0 .. todo /\ Len(buffer) + k <= BufferSize
    BY <1>1, <1>3 DEF TypeOK
  <2> HIDE DEF k
  <2> QED  BY <1>3, <2>1, <2>2
<1> QED  BY <1>2, <1>3

\* The objects of a PUT and of another client are sequences of bytes.
LEMMA ContentType ==
    ASSUME TypeOK, Accepted
    PROVE  Content \in Seq(Int) /\ Append(versions, Content) \in Seq(Seq(Int))
<1>1. CASE at.offset = 0
  BY <1>1 DEF TypeOK, Content
<1>2. CASE at.offset > 0
  <2>1. Etag \in 1 .. Len(versions)
    BY <1>2 DEF TypeOK, Etag, Accepted
  <2>2. versions[Etag] \in Seq(Int) /\ sending \in Seq(Int)
    BY <2>1 DEF TypeOK
  <2> QED  BY <1>2, <2>2 DEF Content, TypeOK
<1> QED  BY <1>1, <1>2 DEF TypeOK

LEMMA ForeignType ==
    ASSUME TypeOK, NEW n \in {start, start + 1}
    PROVE  [i \in 1 .. n |-> Foreign] \in Seq(Int)
<1>1. n \in Nat /\ Foreign \in Int
  BY AppendNumbers DEF Foreign
<1> QED  BY <1>1

LEMMA EventKinds ==
    ASSUME TypeOK
    PROVE  /\ [type |-> "alg", etag |-> 0] \in Event
           /\ [type |-> "err", etag |-> 0] \in Event
           /\ [type |-> "put", etag |-> Etag + 1] \in Event
BY AppendNumbers DEF Event

\* The event that the caller takes.
LEMMA FirstEvent ==
    ASSUME TypeOK, events # <<>>
    PROVE  Head(events) \in Event /\ Tail(events) \in Seq(Event) /\ Len(events) > 0
BY DEF TypeOK

LEMMA RangeAppend ==
    ASSUME NEW S, NEW s \in Seq(S), NEW x \in S
    PROVE  Range(Append(s, x)) = Range(s) \cup {x}
<1>1. /\ DOMAIN Append(s, x) = 1 .. Len(s) + 1 /\ DOMAIN s = 1 .. Len(s) /\ Len(s) \in Nat
      /\ Append(s, x)[Len(s) + 1] = x /\ \A i \in 1 .. Len(s) : Append(s, x)[i] = s[i]
  OBVIOUS
<1> QED  BY <1>1 DEF Range

\* What is expected after more bytes.
LEMMA ExpectedContinues ==
    ASSUME TypeOK, NEW k \in Nat, NEW j \in Nat
    PROVE  /\ Expected(k) \in Seq(Int)
           /\ Expected(k) \o Run(k, j) = Expected(k + j)
           /\ start = 0 => Expected(k) = Run(0, k)
<1>1. Base \in Seq(Int)
  BY AppendNumbers DEF Base, Old
<1>2. \A n \in Nat : Expected(n) = Base \o Run(0, n)
  <2>1. \A n \in Nat : [i \in 1 .. n |-> i] = Run(0, n)
    BY DEF Run
  <2> QED  BY <2>1 DEF Expected
<1>3. Run(0, k) \in Seq(Int) /\ Run(k, j) \in Seq(Int)
  BY RunFacts
<1>4. Expected(k) \in Seq(Int)
  BY <1>1, <1>2, <1>3, ConcatProperties
<1>5. Expected(k) \o Run(k, j) = Expected(k + j)
  <2>1. (Base \o Run(0, k)) \o Run(k, j) = Base \o (Run(0, k) \o Run(k, j))
    BY <1>1, <1>3, ConcatAssociative
  <2>2. Run(0, k) \o Run(0 + k, j) = Run(0, k + j)
    BY RunFacts, ZenonT(30)
  <2>3. 0 + k = k /\ k + j \in Nat
    OBVIOUS
  <2>4. Expected(k) = Base \o Run(0, k) /\ Expected(k + j) = Base \o Run(0, k + j)
    BY <1>2, <2>3
  <2> QED  BY <2>1, <2>2, <2>3, <2>4
<1>6. ASSUME start = 0
      PROVE  Expected(k) = Run(0, k)
  <2>1. Base = <<>>
    BY <1>6 DEF Base
  <2> QED  BY <1>2, <1>3, <2>1, ConcatEmptySeq
<1> QED  BY <1>4, <1>5, <1>6

\* A PUT that S3 accepts continues what the task has appended.
LEMMA ContentExpected ==
    ASSUME TypeOK, Phases, CleanInv, task = "put", Accepted
    PROVE  /\ Appended + Len(sending) \in 0 .. Written
           /\ Content = Expected(Appended + Len(sending))
<1>1. Contiguous /\ VersionKnown
  BY DEF CleanInv, Clean
<1>2. /\ at.offset \in Nat /\ at.etag \in Nat /\ start \in Nat /\ Len(sending) \in Nat
      /\ Appended \in Nat /\ Written \in Nat
  BY <1>1, AppendNumbers, SMTT(30) DEF TypeOK, Phases, Contiguous, Appended, Written
<1>3. Appended + Len(sending) <= Written
  <2>1. Placed(queue, buffer, Appended + Len(sending), Written) /\ queue \in Seq(Seq(Int))
    BY <1>1 DEF Contiguous, Sent, TypeOK
  <2>2. Appended + Len(sending) \in Nat
    BY <1>2
  <2> QED  BY <1>2, <2>1, <2>2, PlacedBounds
<1>4. sending = Run(Appended, Len(sending))
  BY <1>1 DEF Contiguous
<1>5. CASE at.offset = 0
  <2>1. start = 0 /\ Appended = 0
    BY <1>1, <1>2, <1>5 DEF Contiguous, Appended
  <2>2. Expected(Len(sending)) = Run(0, Len(sending))
    BY <1>2, <2>1, ExpectedContinues
  <2> QED  BY <1>2, <1>3, <1>4, <1>5, <2>1, <2>2 DEF Content
<1>6. CASE at.offset > 0
  <2>1. at.etag = Etag /\ at.etag # 0
    BY <1>2, <1>6 DEF Accepted
  <2>2. versions[Etag] = Expected(Appended)
    BY <1>1, <2>1 DEF VersionKnown
  <2>3. Expected(Appended) \o Run(Appended, Len(sending)) = Expected(Appended + Len(sending))
    BY <1>2, ExpectedContinues
  <2>4. Content = versions[Etag] \o sending
    BY <1>2, <1>6 DEF Content
  <2>5. Content = Expected(Appended + Len(sending))
    BY <1>4, <2>2, <2>3, <2>4
  <2> QED  BY <1>2, <1>3, <2>5
<1> QED  BY <1>2, <1>5, <1>6

-----------------------------------------------------------------------------
\* Incremental uploads: every step preserves each part of the invariant.

LEMMA AppendTypeStep ==
    TypeOK /\ RequestsCounted /\ [Next]_vars => TypeOK'
<1> SUFFICES ASSUME TypeOK, RequestsCounted, [Next]_vars
             PROVE  TypeOK'
  OBVIOUS
<1> USE DEF TypeOK, callerVars, channelVars, taskVars
<1>1. CASE Fill
  <2>1. CASE UNCHANGED <<todo, offset, buffer>>
    BY <1>1, <2>1, FillCases
  <2>2. CASE ~UNCHANGED <<todo, offset, buffer>>
    <3>1. PICK k \in 0 .. todo :
             /\ Len(buffer) + k <= BufferSize
             /\ buffer' = buffer \o Run(Written, k)
             /\ todo' = todo - k
             /\ offset' = offset + k
      BY <1>1, <2>2, FillCases
    <3>2. Run(Written, k) \in Seq(Int) /\ Len(Run(Written, k)) = k
      BY AppendNumbers DEF Run, Written
    <3>3. buffer' \in Seq(Int) /\ Len(buffer') = Len(buffer) + k
      BY <3>1, <3>2, ConcatProperties, SMTT(30)
    <3>4. todo' \in Nat /\ offset' \in Nat
      BY <3>1
    <3> QED  BY <1>1, <3>1, <3>3, <3>4, FillCases
  <2> QED  BY <2>1, <2>2
<1>2. CASE GetAlgorithm
  <2>1. events' \in Seq(Event)
    BY <1>2, FirstEvent DEF GetAlgorithm
  <2> QED  BY <1>2, <2>1 DEF GetAlgorithm
<1>3. CASE GetBuffer
  <2>1. buffer' \in Seq(Int) /\ (buffer' # NoBuffer => Len(buffer') <= BufferSize)
    <3>1. <<>> \in Seq(Int) /\ Len(<<>>) = 0 /\ BufferSize >= 0
      BY AppendNumbers
    <3>2. buffer' \in {<<>>, buffer}
      BY <1>3 DEF GetBuffer, HasBuffer
    <3> QED  BY <3>1, <3>2
  <2> QED  BY <1>3, <2>1 DEF GetBuffer, HasBuffer
<1>4. CASE ConsumeNextResponse
  <2>1. Head(events) \in Event /\ events' \in Seq(Event) /\ events \in Seq(Event) /\ events # <<>>
    BY <1>4, FirstEvent DEF ConsumeNextResponse
  <2>2. alg' \in BOOLEAN
    BY <1>4 DEF ConsumeNextResponse
  <2>3. pc' \in {"wait", "drain", "joined", "terminated", "get", "failed"}
    BY <1>4, <2>1 DEF ConsumeNextResponse, Consumed, Event
  <2>4. inQueue' \in Nat
    <3>1. CASE Head(events).type = "put"
      <4>1. Cardinality(Puts(events)) = Cardinality(Puts(Tail(events))) + 1
        BY <2>1, <3>1, PutsTail
      <4>2. Cardinality(Puts(Tail(events))) \in Nat
        BY <2>1, FirstEvent, PutsFinite
      <4>3. inQueue >= 1
        BY <4>1, <4>2 DEF RequestsCounted
      <4> QED  BY <1>4, <3>1, <4>3 DEF ConsumeNextResponse
    <3>2. CASE Head(events).type # "put"
      BY <1>4, <3>2 DEF ConsumeNextResponse
    <3> QED  BY <3>1, <3>2
  <2>5. result' \in Nat
    BY <1>4, <2>1 DEF ConsumeNextResponse, Event
  <2> QED  BY <1>4, <2>1, <2>2, <2>3, <2>4, <2>5 DEF ConsumeNextResponse
<1>5. CASE ConsumeEnds
  <2>1. pc' \in {"failed", "done"}
    BY <1>5 DEF ConsumeEnds, Ended
  <2> QED  BY <1>5, <2>1 DEF ConsumeEnds
<1>6. CASE Push
  <2>1. NoBuffer \in Seq(Int)
    BY DEF NoBuffer, Foreign
  <2>2. queue' \in {queue, Append(queue, buffer)}
    BY <1>6 DEF Push
  <2>3. queue' \in Seq(Seq(Int))
    <3>1. Append(queue, buffer) \in Seq(Seq(Int))
      OBVIOUS
    <3> QED  BY <2>2, <3>1
  <2> QED  BY <1>6, <2>1, <2>3 DEF Push
<1>7. CASE JoinBegins
  BY <1>7 DEF JoinBegins
<1>8. CASE TaskStarts
  <2>1. events' \in Seq(Event)
    BY <1>8, EventKinds DEF TaskStarts
  <2> QED  BY <1>8, <2>1 DEF TaskStarts
<1>9. CASE TaskHeadFails
  BY <1>9 DEF TaskHeadFails
<1>10. CASE TaskReceives
  <2>1. CASE queue # <<>>
    <3>1. Head(queue) \in Seq(Int) /\ Tail(queue) \in Seq(Seq(Int))
      BY <2>1, HeadTailProperties
    <3> QED  BY <1>10, <2>1, <3>1 DEF TaskReceives
  <2>2. CASE queue = <<>>
    BY <1>10, <2>2 DEF TaskReceives
  <2> QED  BY <2>1, <2>2
<1>11. CASE PutSucceeds
  <2>1. events' \in Seq(Event)
    BY <1>11, EventKinds DEF PutSucceeds
  <2>2. versions' \in Seq(Seq(Int))
    BY <1>11, ContentType DEF PutSucceeds
  <2>3. at' \in [offset : Nat, etag : Nat]
    BY <1>11, AppendNumbers DEF PutSucceeds
  <2> QED  BY <1>11, <2>1, <2>2, <2>3 DEF PutSucceeds
<1>12. CASE PutFails
  <2>1. versions' \in Seq(Seq(Int))
    BY <1>12, ContentType DEF PutFails
  <2> QED  BY <1>12, <2>1 DEF PutFails
<1>13. CASE TaskReports
  <2>1. events' \in {events, Append(events, [type |-> "err", etag |-> 0])}
    BY <1>13 DEF TaskReports
  <2>2. events' \in Seq(Event)
    <3>1. Append(events, [type |-> "err", etag |-> 0]) \in Seq(Event)
      BY EventKinds
    <3> QED  BY <2>1, <3>1
  <2> QED  BY <1>13, <2>2 DEF TaskReports
<1>14. CASE OtherClientPuts
  <2>1. PICK n \in {start, start + 1} : versions' = Append(versions, [i \in 1 .. n |-> Foreign])
    BY <1>14 DEF OtherClientPuts
  <2>2. [i \in 1 .. n |-> Foreign] \in Seq(Int)
    BY ForeignType
  <2>3. versions' \in Seq(Seq(Int))
    BY <2>1, <2>2
  <2> QED  BY <1>14, <2>3 DEF OtherClientPuts
<1>15. CASE WriteOutOfOrder
  BY <1>15 DEF WriteOutOfOrder
<1>16. CASE CompleteBegins
  BY <1>16 DEF CompleteBegins
<1>17. ASSUME NEW n \in 1 .. MaxBytes, WriteBegins(n)
      PROVE  TypeOK'
  BY <1>17 DEF WriteBegins
<1>18. CASE UNCHANGED vars
  BY <1>18 DEF vars
<1> QED
  BY <1>1, <1>2, <1>3, <1>4, <1>5, <1>6, <1>7, <1>8, <1>9, <1>10, <1>11, <1>12, <1>13, <1>14, <1>15, <1>16, <1>17, <1>18
     DEF Next, Caller, Task

LEMMA PhasesStep ==
    TypeOK /\ Phases /\ [Next]_vars => Phases'
<1> SUFFICES ASSUME TypeOK, Phases, [Next]_vars
             PROVE  Phases'
  OBVIOUS
<1> USE DEF TypeOK, Phases, Etag, callerVars, channelVars, taskVars
<1>1. CASE Fill
  <2>1. offset' >= start
    BY <1>1, FillCases, AppendNumbers, SMTT(30)
  <2> QED  BY <1>1, <2>1, FillCases, SMTT(30)
<1>2. CASE GetAlgorithm
  BY <1>2 DEF GetAlgorithm, EventsEnded
<1>3. CASE GetBuffer
  BY <1>3 DEF GetBuffer, HasBuffer
<1>4. CASE ConsumeNextResponse
  <2>1. pc' = pc \/ pc' = "failed" \/ (pc = "wait" /\ pc' = "get")
    BY <1>4, FirstEvent DEF ConsumeNextResponse, Consumed, Event
  <2> QED  BY <1>4, <2>1 DEF ConsumeNextResponse
<1>5. CASE ConsumeEnds
  <2>1. pc' = "failed" \/ (pc = "joined" /\ pc' = "done")
    BY <1>5 DEF ConsumeEnds, Ended
  <2> QED  BY <1>5, <2>1 DEF ConsumeEnds, EventsEnded
<1>6. CASE Push
  BY <1>6 DEF Push
<1>7. CASE JoinBegins
  BY <1>7 DEF JoinBegins
<1>8. CASE TaskStarts
  BY <1>8 DEF TaskStarts
<1>9. CASE TaskHeadFails
  BY <1>9 DEF TaskHeadFails
<1>10. CASE TaskReceives
  BY <1>10 DEF TaskReceives
<1>11. CASE PutSucceeds
  BY <1>11 DEF PutSucceeds
<1>12. CASE PutFails
  BY <1>12 DEF PutFails
<1>13. CASE TaskReports
  BY <1>13 DEF TaskReports
<1>14. CASE OtherClientPuts
  BY <1>14 DEF OtherClientPuts
<1>15. CASE WriteOutOfOrder
  BY <1>15 DEF WriteOutOfOrder
<1>16. CASE CompleteBegins
  BY <1>16 DEF CompleteBegins
<1>17. ASSUME NEW n \in 1 .. MaxBytes, WriteBegins(n)
      PROVE  Phases'
  BY <1>17 DEF WriteBegins
<1>18. CASE UNCHANGED vars
  BY <1>18 DEF vars
<1> QED
  BY <1>1, <1>2, <1>3, <1>4, <1>5, <1>6, <1>7, <1>8, <1>9, <1>10, <1>11, <1>12, <1>13, <1>14, <1>15, <1>16, <1>17, <1>18
     DEF Next, Caller, Task

LEMMA CountedStep ==
    TypeOK /\ RequestsCounted /\ [Next]_vars => RequestsCounted'
<1> SUFFICES ASSUME TypeOK, RequestsCounted, [Next]_vars
             PROVE  RequestsCounted'
  OBVIOUS
<1> USE DEF TypeOK, RequestsCounted, callerVars, channelVars, taskVars
<1>1. CASE Fill
  BY <1>1 DEF Fill
<1>2. CASE GetAlgorithm
  <2>1. events \in Seq(Event) /\ Len(queue) \in Nat /\ inQueue \in Nat
    OBVIOUS
  <2>2. CASE events' = Tail(events) /\ events # <<>>
    <3>1. /\ Cardinality(Puts(events)) >= Cardinality(Puts(events'))
          /\ Cardinality(Puts(events')) \in Nat /\ Cardinality(Puts(events)) \in Nat
      <4>1. events' \in Seq(Event)
        BY <2>2, FirstEvent
      <4>2. Cardinality(Puts(events')) \in Nat /\ Cardinality(Puts(events)) \in Nat
        BY <2>1, <4>1, PutsFinite
      <4>3. Cardinality(Puts(events)) =
               Cardinality(Puts(events')) + (IF Head(events).type = "put" THEN 1 ELSE 0)
        BY <2>1, <2>2, PutsTail
      <4> HIDE DEF TypeOK
      <4> QED  BY <4>2, <4>3
    <3> HIDE DEF TypeOK
    <3> QED  BY <1>2, <2>1, <2>2, <3>1 DEF GetAlgorithm
  <2>3. CASE events' = events
    BY <1>2, <2>3 DEF GetAlgorithm
  <2> QED  BY <1>2, <2>2, <2>3 DEF GetAlgorithm
<1>3. CASE GetBuffer
  BY <1>3 DEF GetBuffer, HasBuffer
<1>4. CASE ConsumeNextResponse
  <2>1. events \in Seq(Event) /\ Len(queue) \in Nat /\ inQueue \in Nat
    OBVIOUS
  <2>2. events' = Tail(events) /\ events # <<>>
    BY <1>4 DEF ConsumeNextResponse
  <2>3. /\ Cardinality(Puts(events)) =
              Cardinality(Puts(events')) + (IF Head(events).type = "put" THEN 1 ELSE 0)
        /\ Cardinality(Puts(events')) \in Nat
    BY <2>1, <2>2, PutsTail, PutsFinite
  <2> HIDE DEF TypeOK
  <2> QED  BY <1>4, <2>1, <2>3 DEF ConsumeNextResponse
<1>5. CASE ConsumeEnds
  BY <1>5 DEF ConsumeEnds, EventsEnded, Ended
<1>6. CASE Push
  <2>1. Len(queue) \in Nat /\ inQueue \in Nat /\ Cardinality(Puts(events)) \in Nat
    BY PutsFinite
  <2>2. \/ Len(queue') = Len(queue) + 1 /\ inQueue' = inQueue + 1
        \/ Len(queue') = Len(queue) /\ inQueue' = inQueue
    BY <1>6 DEF Push
  <2> HIDE DEF TypeOK
  <2> QED  BY <1>6, <2>1, <2>2 DEF Push
<1>7. CASE JoinBegins
  BY <1>7 DEF JoinBegins
<1>8. CASE TaskStarts
  <2>1. Puts(events') = Puts(events)
    BY <1>8, EventKinds, PutsAppend DEF TaskStarts
  <2> QED  BY <1>8, <2>1 DEF TaskStarts
<1>9. CASE TaskHeadFails
  BY <1>9 DEF TaskHeadFails
<1>10. CASE TaskReceives
  <2>1. Len(queue) \in Nat /\ inQueue \in Nat /\ Cardinality(Puts(events)) \in Nat
    BY PutsFinite
  <2>2. \/ Len(queue') = Len(queue) - 1 /\ task' = "put"
        \/ Len(queue') = Len(queue) /\ task' = "ended"
    BY <1>10 DEF TaskReceives
  <2> HIDE DEF TypeOK
  <2> QED  BY <1>10, <2>1, <2>2 DEF TaskReceives
<1>11. CASE PutSucceeds
  <2>1. Len(queue) \in Nat /\ inQueue \in Nat /\ Cardinality(Puts(events)) \in Nat
    BY PutsFinite
  <2>2. Cardinality(Puts(events')) = Cardinality(Puts(events)) + 1
    BY <1>11, EventKinds, PutsAppend DEF PutSucceeds
  <2> HIDE DEF TypeOK
  <2> QED  BY <1>11, <2>1, <2>2 DEF PutSucceeds
<1>12. CASE PutFails
  <2>1. Len(queue) \in Nat /\ inQueue \in Nat /\ Cardinality(Puts(events)) \in Nat
    BY PutsFinite
  <2> HIDE DEF TypeOK
  <2> QED  BY <1>12, <2>1 DEF PutFails
<1>13. CASE TaskReports
  <2>1. Puts(events') = Puts(events)
    BY <1>13, EventKinds, PutsAppend DEF TaskReports
  <2> QED  BY <1>13, <2>1 DEF TaskReports
<1>14. CASE OtherClientPuts
  BY <1>14 DEF OtherClientPuts
<1>15. CASE WriteOutOfOrder
  BY <1>15 DEF WriteOutOfOrder
<1>16. CASE CompleteBegins
  BY <1>16 DEF CompleteBegins
<1>17. ASSUME NEW n \in 1 .. MaxBytes, WriteBegins(n)
      PROVE  RequestsCounted'
  BY <1>17 DEF WriteBegins
<1>18. CASE UNCHANGED vars
  BY <1>18 DEF vars
<1> QED
  BY <1>1, <1>2, <1>3, <1>4, <1>5, <1>6, <1>7, <1>8, <1>9, <1>10, <1>11, <1>12, <1>13, <1>14, <1>15, <1>16, <1>17, <1>18
     DEF Next, Caller, Task

LEMMA PrefixStep ==
    TypeOK /\ Phases /\ CleanInv /\ ObjectIsPrefix /\ [Next]_vars => ObjectIsPrefix'
<1> SUFFICES ASSUME TypeOK, Phases, CleanInv, ObjectIsPrefix, [Next]_vars
             PROVE  ObjectIsPrefix'
  OBVIOUS
<1> USE DEF TypeOK, Phases, ObjectIsPrefix, callerVars, channelVars, taskVars
<1>1. CASE Fill
  <2>1. Written \in Nat /\ Written' \in Nat /\ Written' >= Written
    <3>1. offset \in Nat /\ start \in Nat /\ offset >= start
      BY AppendNumbers
    <3>2. \E k \in Nat : offset' = offset + k
      <4>1. CASE offset' = offset
        BY <3>1, <4>1
      <4>2. CASE offset' # offset
        <5>1. PICK k \in 0 .. todo : offset' = offset + k
          BY <1>1, <4>2, FillCases
        <5> QED  BY <5>1
      <4> QED  BY <4>1, <4>2
    <3>3. start' = start
      BY <1>1, FillCases
    <3> HIDE DEF TypeOK
    <3> QED  BY <3>1, <3>2, <3>3 DEF Written
  <2>2. UNCHANGED <<start, versions>>
    BY <1>1, FillCases
  <2>3. \A k : Expected(k)' = Expected(k)
    BY <2>2 DEF Expected, Base
  <2> HIDE DEF TypeOK
  <2> QED  BY <2>1, <2>2, <2>3
<1>2. CASE GetAlgorithm
  BY <1>2 DEF GetAlgorithm, EventsEnded, Written, Expected, Base
<1>3. CASE GetBuffer
  BY <1>3 DEF GetBuffer, HasBuffer, Written, Expected, Base
<1>4. CASE ConsumeNextResponse
  BY <1>4 DEF ConsumeNextResponse, Consumed, Written, Expected, Base
<1>5. CASE ConsumeEnds
  BY <1>5 DEF ConsumeEnds, EventsEnded, Ended, Written, Expected, Base
<1>6. CASE Push
  BY <1>6 DEF Push, Written, Expected, Base
<1>7. CASE JoinBegins
  BY <1>7 DEF JoinBegins, Written, Expected, Base
<1>8. CASE TaskStarts
  BY <1>8 DEF TaskStarts, Written, Expected, Base
<1>9. CASE TaskHeadFails
  BY <1>9 DEF TaskHeadFails, Written, Expected, Base
<1>10. CASE TaskReceives
  BY <1>10 DEF TaskReceives, Written, Expected, Base
<1>11. CASE PutSucceeds
  <2>1. CASE versions' = Append(versions, Content) /\ Accepted
    <3>1. Range(versions') = Range(versions) \cup {Content}
      BY <2>1, ContentType, RangeAppend
    <3>2. \E k \in 0 .. Written : Content = Expected(k)
      BY <1>11, <2>1, ContentExpected DEF PutSucceeds
    <3>3. UNCHANGED <<start, offset>>
      BY <1>11 DEF PutSucceeds
    <3>4. Written' = Written /\ \A k : Expected(k)' = Expected(k)
      BY <3>3 DEF Written, Expected, Base
    <3> QED  BY <3>1, <3>2, <3>4
  <2>2. CASE versions' = versions
    BY <1>11, <2>2 DEF PutSucceeds, Written, Expected, Base
  <2> QED  BY <1>11, <2>1, <2>2 DEF PutSucceeds
<1>12. CASE PutFails
  <2>1. CASE versions' = Append(versions, Content) /\ Accepted
    <3>1. Range(versions') = Range(versions) \cup {Content}
      BY <2>1, ContentType, RangeAppend
    <3>2. \E k \in 0 .. Written : Content = Expected(k)
      BY <1>12, <2>1, ContentExpected DEF PutFails
    <3>3. UNCHANGED <<start, offset>>
      BY <1>12 DEF PutFails
    <3>4. Written' = Written /\ \A k : Expected(k)' = Expected(k)
      BY <3>3 DEF Written, Expected, Base
    <3> QED  BY <3>1, <3>2, <3>4
  <2>2. CASE versions' = versions
    BY <1>12, <2>2 DEF PutFails, Written, Expected, Base
  <2> QED  BY <1>12, <2>1, <2>2 DEF PutFails
<1>13. CASE TaskReports
  BY <1>13 DEF TaskReports, Written, Expected, Base
<1>14. CASE OtherClientPuts
  <2>1. PICK n \in {start, start + 1} : versions' = Append(versions, [i \in 1 .. n |-> Foreign])
    BY <1>14 DEF OtherClientPuts
  <2> DEFINE v == [i \in 1 .. n |-> Foreign]
  <2>2. v \in Seq(Int)
    BY ForeignType
  <2>3. \A i \in DOMAIN v : v[i] \in {Old, Foreign}
    OBVIOUS
  <2> HIDE DEF v
  <2>4. Range(versions') = Range(versions) \cup {v}
    <3>1. versions' = Append(versions, v) /\ versions \in Seq(Seq(Int))
      BY <2>1 DEF v
    <3> QED  BY <2>2, <3>1, RangeAppend
  <2>5. UNCHANGED <<start, offset>>
    BY <1>14 DEF OtherClientPuts
  <2>6. Written' = Written /\ \A k : Expected(k)' = Expected(k)
    BY <2>5 DEF Written, Expected, Base
  <2> QED  BY <2>3, <2>4, <2>6
<1>15. CASE WriteOutOfOrder
  BY <1>15 DEF WriteOutOfOrder, Written, Expected, Base
<1>16. CASE CompleteBegins
  BY <1>16 DEF CompleteBegins, Written, Expected, Base
<1>17. ASSUME NEW n \in 1 .. MaxBytes, WriteBegins(n)
      PROVE  ObjectIsPrefix'
  BY <1>17 DEF WriteBegins, Written, Expected, Base
<1>18. CASE UNCHANGED vars
  BY <1>18 DEF vars, Written, Expected, Base
<1> QED
  BY <1>1, <1>2, <1>3, <1>4, <1>5, <1>6, <1>7, <1>8, <1>9, <1>10, <1>11, <1>12, <1>13, <1>14, <1>15, <1>16, <1>17, <1>18
     DEF Next, Caller, Task

LEMMA CleanStep ==
    TypeOK /\ Phases /\ CleanInv /\ [Next]_vars => CleanInv'
<1> SUFFICES ASSUME TypeOK, Phases, CleanInv, [Next]_vars, Clean'
             PROVE  Contiguous' /\ VersionKnown' /\ EtagTold' /\ EmptyUploaded' /\ Drained'
  BY DEF CleanInv
<1> USE DEF callerVars, channelVars, taskVars
<1>1. CASE Fill
  <2>1. Clean
    BY <1>1, FillCases DEF Clean, ErrPending
  <2>2. Contiguous /\ VersionKnown /\ EtagTold /\ EmptyUploaded /\ Drained
    BY <2>1 DEF CleanInv
  <2>3. Contiguous'
    <3>1. start \in Nat /\ Appended + Sent \in Nat /\ Written \in Nat
      BY <2>2, AppendNumbers, SMTT(30) DEF TypeOK, Phases, Contiguous, Appended, Sent, Written
    <3>2. UNCHANGED <<start, queue, at, task, sending>> /\ Appended' = Appended /\ Sent' = Sent
      BY <1>1, FillCases DEF Appended, Sent
    <3>3. CASE UNCHANGED <<todo, offset, buffer>> /\ pc' # "push"
      BY <1>1, <2>2, <3>2, <3>3 DEF Contiguous, Written
    <3>4. CASE ~(UNCHANGED <<todo, offset, buffer>> /\ pc' # "push")
      <4>1. PICK k \in 0 .. todo : buffer' = buffer \o Run(Written, k) /\ offset' = offset + k
        BY <1>1, <3>4, FillCases
      <4>2. k \in Nat /\ Written' = Written + k /\ buffer # NoBuffer
        BY <1>1, <3>1, <3>2, <3>4, <4>1, FillCases, SMTT(30) DEF TypeOK, Written
      <4>3. Placed(queue, buffer', Appended + Sent, Written + k)
        BY <2>2, <3>1, <4>1, <4>2, PlacedFill DEF TypeOK, Contiguous
      <4>4. buffer' # NoBuffer
        BY <2>2, <3>1, <4>1, <4>2, FilledBuffer DEF TypeOK, Contiguous
      <4> QED  BY <2>2, <3>2, <4>2, <4>3, <4>4 DEF Contiguous
    <3> QED  BY <3>3, <3>4
  <2>4. VersionKnown'
    BY <1>1, <2>2, FillCases DEF channelVars, taskVars, VersionKnown, Appended, FirstEtag, Etag, Expected, Base
  <2>5. EtagTold'
    BY <1>1, <2>2, FillCases DEF EtagTold, ResultEtag, FirstEtag
  <2>6. EmptyUploaded'
    BY <1>1, FillCases DEF EmptyUploaded
  <2>7. Drained'
    BY <1>1, <2>2, FillCases DEF Drained
  <2> QED  BY <2>3, <2>4, <2>5, <2>6, <2>7
<1>2. CASE GetAlgorithm
  <2>1. Clean
    BY <1>2 DEF GetAlgorithm, EventsEnded, Clean, ErrPending
  <2>2. Contiguous /\ VersionKnown /\ EtagTold /\ EmptyUploaded /\ Drained
    BY <2>1 DEF CleanInv
  <2>3. Contiguous'
    BY <1>2, <2>2 DEF GetAlgorithm, EventsEnded, Contiguous, Appended, Sent, Written
  <2>4. VersionKnown'
    BY <1>2, <2>2 DEF GetAlgorithm, EventsEnded, VersionKnown, Appended, FirstEtag, Etag, Expected, Base
  <2>5. EtagTold'
    <3> SUFFICES ASSUME pc' # "failed"
                 PROVE  EtagTold'
      BY DEF EtagTold
    <3>1. events # <<>> /\ events' = Tail(events) /\ Head(events).type = "alg" /\ pc # "failed"
      BY <1>2 DEF GetAlgorithm
    <3>2. Told(events, result, ResultEtag) /\ events \in Seq(Event)
      BY <2>2, <3>1 DEF EtagTold, TypeOK
    <3>3. Told(events', result, ResultEtag)
      BY <3>1, <3>2, ToldTail
    <3> QED  BY <1>2, <3>3 DEF GetAlgorithm, EtagTold, ResultEtag, FirstEtag
  <2>6. EmptyUploaded'
    BY <1>2, <2>2 DEF GetAlgorithm, EventsEnded, EmptyUploaded, FirstEtag
  <2>7. Drained'
    BY <1>2, <2>2 DEF GetAlgorithm, EventsEnded, Drained
  <2> QED  BY <2>3, <2>4, <2>5, <2>6, <2>7
<1>3. CASE GetBuffer
  <2>1. Clean
    BY <1>3 DEF GetBuffer, HasBuffer, Clean, ErrPending
  <2>2. Contiguous /\ VersionKnown /\ EtagTold /\ EmptyUploaded /\ Drained
    BY <2>1 DEF CleanInv
  <2>3. Contiguous'
    <3>1. CASE buffer' = buffer /\ pc' = "wait"
      BY <1>3, <2>2, <3>1 DEF GetBuffer, Contiguous, Appended, Sent, Written
    <3>2. CASE buffer' = <<>>
      <4>1. Appended + Sent \in Nat /\ Written \in Nat /\ buffer = NoBuffer /\ queue \in Seq(Seq(Int))
        BY <1>3, <2>2, AppendNumbers DEF GetBuffer, TypeOK, Phases, Contiguous, Appended, Sent, Written
      <4>2. Placed(queue, <<>>, Appended + Sent, Written)
        BY <2>2, <4>1, PlacedNew DEF Contiguous
      <4>3. <<>> # NoBuffer
        BY DEF NoBuffer
      <4> QED  BY <1>3, <2>2, <3>2, <4>2, <4>3 DEF GetBuffer, Contiguous, Appended, Sent, Written
    <3> QED  BY <1>3, <3>1, <3>2 DEF GetBuffer, HasBuffer
  <2>4. VersionKnown'
    BY <1>3, <2>2 DEF GetBuffer, HasBuffer, VersionKnown, Appended, FirstEtag, Etag, Expected, Base
  <2>5. EtagTold'
    BY <1>3, <2>2 DEF GetBuffer, HasBuffer, EtagTold, ResultEtag, FirstEtag
  <2>6. EmptyUploaded'
    BY <1>3, <2>2 DEF GetBuffer, HasBuffer, EmptyUploaded, FirstEtag
  <2>7. Drained'
    BY <1>3, <2>2 DEF GetBuffer, HasBuffer, Drained
  <2> QED  BY <2>3, <2>4, <2>5, <2>6, <2>7
<1>4. CASE ConsumeNextResponse
  <2>0. pc' = pc \/ pc' = "failed" \/ (pc = "wait" /\ pc' = "get")
    BY <1>4, FirstEvent DEF ConsumeNextResponse, Consumed, Event
  <2>1. Clean
    <3>1. CASE task \in {"head", "recv", "put"}
      BY <3>1 DEF Clean
    <3>2. CASE task \notin {"head", "recv", "put"}
      <4>1. task = "ended" /\ pc = "joined" /\ pc' # "failed" /\ ~ErrPending'
        BY <1>4, <2>0, <3>2 DEF Clean, ConsumeNextResponse
      <4>2. Head(events).type # "err" /\ events # <<>> /\ events' = Tail(events) /\ events \in Seq(Event)
        BY <1>4, <4>1 DEF ConsumeNextResponse, TypeOK
      <4>3. ~ErrPending
        <5> SUFFICES ASSUME NEW i \in DOMAIN events, events[i].type = "err"
                     PROVE  FALSE
          BY DEF ErrPending
        <5>1. i \in 1 .. Len(events) /\ Len(events) \in Nat /\ events[1] = Head(events)
          BY <4>2
        <5>2. i # 1
          BY <4>2, <5>1
        <5>3. i - 1 \in DOMAIN events' /\ events'[i - 1] = events[i]
          BY <4>2, <5>1, <5>2
        <5> QED  BY <4>1, <5>3 DEF ErrPending
      <4> QED  BY <4>1, <4>3 DEF Clean
    <3> QED  BY <3>1, <3>2
  <2>2. Contiguous /\ VersionKnown /\ EtagTold /\ EmptyUploaded /\ Drained
    BY <2>1 DEF CleanInv
  <2>3. Contiguous'
    BY <1>4, <2>0, <2>2 DEF ConsumeNextResponse, Contiguous, Appended, Sent, Written
  <2>4. VersionKnown'
    BY <1>4, <2>2 DEF ConsumeNextResponse, Consumed, VersionKnown, Appended, FirstEtag, Etag, Expected, Base
  <2>5. EtagTold'
    <3>1. events # <<>> /\ events' = Tail(events) /\ pc # "failed"
      BY <1>4 DEF ConsumeNextResponse
    <3>2. Told(events, result, ResultEtag) /\ events \in Seq(Event)
      BY <2>2, <3>1 DEF EtagTold, TypeOK
    <3>3. Told(events', result', ResultEtag)
      BY <1>4, <3>1, <3>2, ToldTail DEF ConsumeNextResponse
    <3> QED  BY <1>4, <3>3 DEF ConsumeNextResponse, EtagTold, ResultEtag, FirstEtag
  <2>6. EmptyUploaded'
    BY <1>4, <2>0, <2>2 DEF ConsumeNextResponse, EmptyUploaded, FirstEtag
  <2>7. Drained'
    BY <1>4, <2>2 DEF ConsumeNextResponse, Consumed, Drained
  <2> QED  BY <2>3, <2>4, <2>5, <2>6, <2>7
<1>5. CASE ConsumeEnds
  <2>0. pc' = "failed" \/ (pc = "joined" /\ pc' = "done")
    BY <1>5 DEF ConsumeEnds, Ended
  <2>1. Clean
    BY <1>5, <2>0 DEF ConsumeEnds, EventsEnded, Clean, ErrPending
  <2>2. Contiguous /\ VersionKnown /\ EtagTold /\ EmptyUploaded /\ Drained
    BY <2>1 DEF CleanInv
  <2>3. Contiguous'
    BY <1>5, <2>0, <2>2 DEF ConsumeEnds, Contiguous, Appended, Sent, Written
  <2>4. VersionKnown'
    BY <1>5, <2>2 DEF ConsumeEnds, EventsEnded, Ended, VersionKnown, Appended, FirstEtag, Etag, Expected, Base
  <2>5. EtagTold'
    BY <1>5, <2>0, <2>2 DEF ConsumeEnds, EtagTold, ResultEtag, FirstEtag
  <2>6. EmptyUploaded'
    BY <1>5, <2>0, <2>2 DEF ConsumeEnds, EmptyUploaded, FirstEtag
  <2>7. Drained'
    BY <1>5, <2>2 DEF ConsumeEnds, EventsEnded, Ended, Drained
  <2> QED  BY <2>3, <2>4, <2>5, <2>6, <2>7
<1>6. CASE Push
  <2>1. Clean
    BY <1>6 DEF Push, Clean, ErrPending
  <2>0. ~closed
    BY <1>6, <2>1 DEF Push, Clean, Phases, TypeOK
  <2>2. Contiguous /\ VersionKnown /\ EtagTold /\ EmptyUploaded /\ Drained
    BY <2>1 DEF CleanInv
  <2>3. Contiguous'
    <3>1. Appended + Sent \in Nat /\ Written \in Nat /\ queue \in Seq(Seq(Int)) /\ buffer \in Seq(Int)
      BY <2>2, AppendNumbers, SMTT(30) DEF TypeOK, Phases, Contiguous, Appended, Sent, Written
    <3>2. buffer # NoBuffer /\ Placed(queue, buffer, Appended + Sent, Written)
      BY <1>6, <2>2 DEF Push, Contiguous
    <3>3. Placed(Append(queue, buffer), NoBuffer, Appended + Sent, Written)
      BY <3>1, <3>2, PlacedPush
    <3>4. UNCHANGED <<at, task, sending, start, offset>>
      BY <1>6 DEF Push, taskVars
    <3>5. buffer' = NoBuffer /\ pc' # "push" /\ queue' = Append(queue, buffer)
      BY <1>6, <2>0 DEF Push
    <3> QED  BY <2>2, <3>3, <3>4, <3>5 DEF Contiguous, Appended, Sent, Written
  <2>4. VersionKnown'
    BY <1>6, <2>2 DEF Push, VersionKnown, Appended, FirstEtag, Etag, Expected, Base
  <2>5. EtagTold'
    BY <1>6, <2>2 DEF Push, EtagTold, ResultEtag, FirstEtag
  <2>6. EmptyUploaded'
    <3>1. queue' # <<>>
      BY <1>6, <2>0 DEF Push, TypeOK
    <3> QED  BY <3>1 DEF EmptyUploaded
  <2>7. Drained'
    BY <1>6, <2>0, <2>1 DEF Push, Drained, Phases
  <2> QED  BY <2>3, <2>4, <2>5, <2>6, <2>7
<1>7. CASE JoinBegins
  <2>1. Clean
    BY <1>7 DEF JoinBegins, Clean, ErrPending, Phases
  <2>2. Contiguous /\ VersionKnown /\ EtagTold /\ EmptyUploaded /\ Drained
    BY <2>1 DEF CleanInv
  <2>3. Contiguous'
    BY <1>7, <2>2 DEF JoinBegins, Contiguous, Appended, Sent, Written
  <2>4. VersionKnown'
    BY <1>7, <2>2 DEF JoinBegins, VersionKnown, Appended, FirstEtag, Etag, Expected, Base
  <2>5. EtagTold'
    BY <1>7, <2>2 DEF JoinBegins, EtagTold, ResultEtag, FirstEtag
  <2>6. EmptyUploaded'
    BY <1>7, <2>2 DEF JoinBegins, EmptyUploaded, FirstEtag
  <2>7. Drained'
    BY <1>7, <2>2 DEF JoinBegins, Drained
  <2> QED  BY <2>3, <2>4, <2>5, <2>6, <2>7
<1>8. CASE TaskStarts
  <2>1. Clean
    BY <1>8 DEF TaskStarts, Clean, ErrPending
  <2>2. Contiguous /\ VersionKnown /\ EtagTold /\ EmptyUploaded /\ Drained
    BY <2>1 DEF CleanInv
  <2>3. Contiguous'
    BY <1>8, <2>2 DEF TaskStarts, Contiguous, Appended, Sent, Written
  <2>4. VersionKnown'
    BY <1>8, <2>2 DEF TaskStarts, VersionKnown, Appended, FirstEtag, Etag, Expected, Base
  <2>5. EtagTold'
    <3>1. Told(events, result, ResultEtag)
      BY <1>8, <2>2 DEF TaskStarts, Running, EtagTold
    <3>2. Told(events', result, ResultEtag)
      BY <1>8, <3>1, EventKinds, ToldAppend DEF TaskStarts, TypeOK
    <3> QED  BY <1>8, <3>2 DEF TaskStarts, EtagTold, ResultEtag, FirstEtag
  <2>6. EmptyUploaded'
    BY <1>8, <2>2 DEF TaskStarts, EmptyUploaded, FirstEtag
  <2>7. Drained'
    BY <1>8, <2>2 DEF TaskStarts, Drained
  <2> QED  BY <2>3, <2>4, <2>5, <2>6, <2>7
<1>9. CASE TaskHeadFails
  <2>1. ~Clean'
    BY <1>9 DEF TaskHeadFails, Clean
  <2> QED  BY <2>1
<1>10. CASE TaskReceives
  <2>1. Clean
    BY <1>10 DEF TaskReceives, Clean, ErrPending
  <2>2. Contiguous /\ VersionKnown /\ EtagTold /\ EmptyUploaded /\ Drained
    BY <2>1 DEF CleanInv
  <2>3. Contiguous'
    <3>1. CASE queue # <<>>
      <4>1. Appended \in Nat /\ Written \in Nat /\ queue \in Seq(Seq(Int)) /\ Appended + 0 = Appended
        BY <2>2, AppendNumbers DEF TypeOK, Phases, Contiguous, Appended, Written
      <4>2. Placed(queue, buffer, Appended, Written)
        BY <1>10, <2>2, <4>1 DEF TaskReceives, Contiguous, Sent
      <4>3. PICK k \in Nat : Head(queue) = Run(Appended, k) /\ Placed(Tail(queue), buffer, Appended + k, Written)
        BY <3>1, <4>1, <4>2, PlacedPop
      <4>4. sending' = Run(Appended, k) /\ Len(sending') = k /\ queue' = Tail(queue) /\ task' = "put"
        <5>1. Len(Run(Appended, k)) = k
          BY <4>1, RunFacts
        <5>2. sending' = Head(queue) /\ queue' = Tail(queue) /\ task' = "put"
          BY <1>10, <3>1 DEF TaskReceives
        <5> QED  BY <4>3, <5>1, <5>2
      <4>5. UNCHANGED <<at, start, offset, buffer, pc>>
        BY <1>10 DEF TaskReceives
      <4> QED  BY <2>2, <4>3, <4>4, <4>5 DEF Contiguous, Appended, Sent, Written
    <3>2. CASE queue = <<>>
      BY <1>10, <2>2, <3>2 DEF TaskReceives, Contiguous, Appended, Sent, Written
    <3> QED  BY <3>1, <3>2
  <2>4. VersionKnown'
    BY <1>10, <2>2 DEF TaskReceives, VersionKnown, Appended, FirstEtag, Etag, Expected, Base
  <2>5. EtagTold'
    BY <1>10, <2>2 DEF TaskReceives, EtagTold, ResultEtag, FirstEtag
  <2>6. EmptyUploaded'
    BY <1>10, <2>2 DEF TaskReceives, EmptyUploaded, FirstEtag
  <2>7. Drained'
    BY <1>10, <2>2 DEF TaskReceives, Drained
  <2> QED  BY <2>3, <2>4, <2>5, <2>6, <2>7
<1>11. CASE PutSucceeds
  <2>1. Clean
    BY <1>11 DEF PutSucceeds, Clean, ErrPending
  <2>2. Contiguous /\ VersionKnown /\ EtagTold /\ EmptyUploaded /\ Drained
    BY <2>1 DEF CleanInv
  <2>3. Contiguous'
    <3>1. at.offset \in Nat /\ start \in Nat /\ Len(sending) \in Nat
      BY AppendNumbers DEF TypeOK
    <3>2. at'.offset = at.offset + Len(sending) /\ task' = "recv" /\ task = "put"
      BY <1>11 DEF PutSucceeds
    <3>3. UNCHANGED <<start, offset, queue, buffer, pc>>
      BY <1>11 DEF PutSucceeds
    <3>4. Appended' + Sent' = Appended + Sent /\ Written' = Written
      BY <3>1, <3>2, <3>3 DEF Appended, Sent, Written
    <3>5. at'.offset >= start
      BY <2>2, <3>1, <3>2 DEF Contiguous
    <3> QED  BY <2>2, <3>2, <3>3, <3>4, <3>5 DEF Contiguous
  <2>4. VersionKnown'
    <3>1. at'.offset = at.offset + Len(sending) /\ at'.etag = Etag + 1 /\ start' = start
      BY <1>11 DEF PutSucceeds
    <3>2. at.offset \in Nat /\ start \in Nat /\ Len(sending) \in Nat /\ Etag \in Nat
      BY AppendNumbers DEF TypeOK
    <3>3. Appended' = Appended + Len(sending)
      BY <3>1, <3>2 DEF Appended
    <3>4. Etag' = Etag + 1 /\ versions'[Etag + 1] = Content
      BY <1>11, ContentType DEF PutSucceeds, Etag, TypeOK
    <3>5. Content = Expected(Appended + Len(sending))
      BY <1>11, ContentExpected DEF PutSucceeds
    <3>6. Expected(Appended + Len(sending)) = Expected(Appended)'
      BY <3>1, <3>3 DEF Expected, Base
    <3>7. Etag + 1 > FirstEtag /\ FirstEtag' = FirstEtag
      BY <3>1, <3>2 DEF FirstEtag, Phases
    <3>8. FirstEtag \in Nat
      BY DEF FirstEtag
    <3> QED  BY <3>1, <3>2, <3>4, <3>5, <3>6, <3>7, <3>8 DEF VersionKnown
  <2>5. EtagTold'
    <3>1. Told(events', result, Etag + 1)
      <4>1. [type |-> "put", etag |-> Etag + 1] \in Event /\ events \in Seq(Event)
        BY EventKinds DEF TypeOK
      <4> QED  BY <1>11, <4>1, ToldAppend DEF PutSucceeds
    <3>2. at'.etag = Etag + 1 /\ UNCHANGED <<start, result>>
      BY <1>11 DEF PutSucceeds
    <3>3. Etag + 1 # FirstEtag'
      BY <3>2, AppendNumbers DEF FirstEtag, Phases
    <3>4. ResultEtag' = Etag + 1
      BY <3>2, <3>3 DEF ResultEtag
    <3> QED  BY <3>1, <3>2, <3>4 DEF EtagTold
  <2>6. EmptyUploaded'
    <3>1. at'.etag = Etag + 1 /\ start' = start
      BY <1>11 DEF PutSucceeds
    <3>2. Etag + 1 # FirstEtag'
      BY <3>1, AppendNumbers DEF FirstEtag, Phases
    <3> QED  BY <3>1, <3>2 DEF EmptyUploaded
  <2>7. Drained'
    BY <1>11, <2>2 DEF PutSucceeds, Drained
  <2> QED  BY <2>3, <2>4, <2>5, <2>6, <2>7
<1>12. CASE PutFails
  <2>1. ~Clean'
    BY <1>12 DEF PutFails, Clean
  <2> QED  BY <2>1
<1>13. CASE TaskReports
  <2>1. CASE closed
    <3>1. events \in Seq(Event) /\ events' = Append(events, [type |-> "err", etag |-> 0]) /\ task' = "ended"
      BY <1>13, <2>1 DEF TaskReports, TypeOK
    <3>2. Len(events) + 1 \in DOMAIN events' /\ events'[Len(events) + 1].type = "err"
      BY <3>1
    <3>3. ErrPending'
      BY <3>2 DEF ErrPending
    <3> QED  BY <3>1, <3>3 DEF Clean
  <2>2. CASE ~closed
    BY <1>13, <2>2 DEF TaskReports, Clean
  <2> QED  BY <2>1, <2>2
<1>14. CASE OtherClientPuts
  <2>1. Clean
    BY <1>14 DEF OtherClientPuts, Clean, ErrPending
  <2>2. Contiguous /\ VersionKnown /\ EtagTold /\ EmptyUploaded /\ Drained
    BY <2>1 DEF CleanInv
  <2>3. Contiguous'
    BY <1>14, <2>2 DEF OtherClientPuts, Contiguous, Appended, Sent, Written
  <2>4. VersionKnown'
    <3>1. PICK n \in {start, start + 1} : versions' = Append(versions, [i \in 1 .. n |-> Foreign])
      BY <1>14 DEF OtherClientPuts
    <3>2. versions \in Seq(Seq(Int)) /\ [i \in 1 .. n |-> Foreign] \in Seq(Int)
      BY ForeignType DEF TypeOK
    <3>3. Etag' = Etag + 1 /\ \A i \in 1 .. Etag : versions'[i] = versions[i]
      BY <3>1, <3>2 DEF Etag
    <3>4. UNCHANGED <<at, start>>
      BY <1>14 DEF OtherClientPuts
    <3>5. at.etag \in Nat /\ Etag \in Nat
      BY AppendNumbers DEF TypeOK
    <3>6. Appended' = Appended /\ FirstEtag' = FirstEtag /\ \A k : Expected(k)' = Expected(k)
      BY <3>4 DEF Appended, FirstEtag, Expected, Base
    <3>7. at.etag # 0 => versions'[at.etag] = Expected(Appended)
      BY <2>2, <3>3, <3>5 DEF VersionKnown
    <3>8. Expected(Appended)' = Expected(Appended)
      BY <3>4 DEF Appended, Expected, Base
    <3> QED  BY <2>2, <3>3, <3>4, <3>5, <3>6, <3>7, <3>8 DEF VersionKnown
  <2>5. EtagTold'
    BY <1>14, <2>2 DEF OtherClientPuts, EtagTold, ResultEtag, FirstEtag
  <2>6. EmptyUploaded'
    BY <1>14, <2>2 DEF OtherClientPuts, EmptyUploaded, FirstEtag
  <2>7. Drained'
    BY <1>14, <2>2 DEF OtherClientPuts, Drained
  <2> QED  BY <2>3, <2>4, <2>5, <2>6, <2>7
<1>15. CASE WriteOutOfOrder
  <2>1. Clean
    BY <1>15 DEF WriteOutOfOrder, Clean, ErrPending
  <2>2. Contiguous /\ VersionKnown /\ EtagTold /\ EmptyUploaded /\ Drained
    BY <2>1 DEF CleanInv
  <2>3. Contiguous'
    BY <1>15, <2>2 DEF WriteOutOfOrder, Contiguous, Appended, Sent, Written
  <2>4. VersionKnown'
    BY <1>15, <2>2 DEF WriteOutOfOrder, VersionKnown, Appended, FirstEtag, Etag, Expected, Base
  <2>5. EtagTold'
    BY <1>15, <2>2 DEF WriteOutOfOrder, EtagTold, ResultEtag, FirstEtag
  <2>6. EmptyUploaded'
    BY <1>15, <2>2 DEF WriteOutOfOrder, EmptyUploaded, FirstEtag
  <2>7. Drained'
    BY <1>15, <2>2 DEF WriteOutOfOrder, Drained
  <2> QED  BY <2>3, <2>4, <2>5, <2>6, <2>7
<1>16. CASE CompleteBegins
  <2>1. Clean
    BY <1>16 DEF CompleteBegins, Clean, ErrPending
  <2>2. Contiguous /\ VersionKnown /\ EtagTold /\ EmptyUploaded /\ Drained
    BY <2>1 DEF CleanInv
  <2>3. Contiguous'
    BY <1>16, <2>2 DEF CompleteBegins, Contiguous, Appended, Sent, Written
  <2>4. VersionKnown'
    BY <1>16, <2>2 DEF CompleteBegins, VersionKnown, Appended, FirstEtag, Etag, Expected, Base
  <2>5. EtagTold'
    BY <1>16, <2>2 DEF CompleteBegins, EtagTold, ResultEtag, FirstEtag
  <2>6. EmptyUploaded'
    BY <1>16, <2>2 DEF CompleteBegins, EmptyUploaded, FirstEtag
  <2>7. Drained'
    BY <1>16, <2>2 DEF CompleteBegins, Drained
  <2> QED  BY <2>3, <2>4, <2>5, <2>6, <2>7
<1>17. ASSUME NEW n \in 1 .. MaxBytes, WriteBegins(n)
      PROVE  Contiguous' /\ VersionKnown' /\ EtagTold' /\ EmptyUploaded' /\ Drained'
  <2>1. Clean
    BY <1>17 DEF WriteBegins, Clean, ErrPending
  <2>2. Contiguous /\ VersionKnown /\ EtagTold /\ EmptyUploaded /\ Drained
    BY <2>1 DEF CleanInv
  <2>3. Contiguous'
    BY <1>17, <2>2 DEF WriteBegins, Contiguous, Appended, Sent, Written
  <2>4. VersionKnown'
    BY <1>17, <2>2 DEF WriteBegins, VersionKnown, Appended, FirstEtag, Etag, Expected, Base
  <2>5. EtagTold'
    BY <1>17, <2>2 DEF WriteBegins, EtagTold, ResultEtag, FirstEtag
  <2>6. EmptyUploaded'
    BY <1>17, <2>2 DEF WriteBegins, EmptyUploaded, FirstEtag
  <2>7. Drained'
    BY <1>17, <2>2 DEF WriteBegins, Drained
  <2> QED  BY <2>3, <2>4, <2>5, <2>6, <2>7
<1>18. CASE UNCHANGED vars
  <2>1. Clean
    BY <1>18 DEF vars, Clean, ErrPending
  <2>2. Contiguous /\ VersionKnown /\ EtagTold /\ EmptyUploaded /\ Drained
    BY <2>1 DEF CleanInv
  <2>3. Contiguous'
    BY <1>18, <2>2 DEF vars, Contiguous, Appended, Sent, Written
  <2>4. VersionKnown'
    BY <1>18, <2>2 DEF vars, VersionKnown, Appended, FirstEtag, Etag, Expected, Base
  <2>5. EtagTold'
    BY <1>18, <2>2 DEF vars, EtagTold, ResultEtag, FirstEtag
  <2>6. EmptyUploaded'
    BY <1>18, <2>2 DEF vars, EmptyUploaded, FirstEtag
  <2>7. Drained'
    BY <1>18, <2>2 DEF vars, Drained
  <2> QED  BY <2>3, <2>4, <2>5, <2>6, <2>7
<1> QED
  BY <1>1, <1>2, <1>3, <1>4, <1>5, <1>6, <1>7, <1>8, <1>9, <1>10, <1>11, <1>12, <1>13, <1>14, <1>15, <1>16, <1>17, <1>18
     DEF Next, Caller, Task

LEMMA AppendInitInv == Init => AppendInv
<1> SUFFICES ASSUME Init
             PROVE  AppendInv
  OBVIOUS
<1>1. start \in Nat /\ start \in Starts
  BY AppendAssumption DEF Init
<1>2. Base \in Seq(Int) /\ <<Old>> \in Seq(Int) /\ <<>> \in Seq(Int)
  BY <1>1 DEF Base, Old
<1>3. TypeOK
  <2>1. versions \in Seq(Seq(Int))
    <3>1. <<>> \in Seq(Seq(Int)) /\ <<<<Old>>>> \in Seq(Seq(Int)) /\ <<Base>> \in Seq(Seq(Int))
      BY <1>2
    <3>2. versions \in {<<>>, <<<<Old>>>>, <<Base>>}
      BY DEF Init
    <3> QED  BY <3>1, <3>2
  <2>2. Etag \in Nat
    BY <2>1 DEF Etag
  <2>3. NoBuffer \in Seq(Int) /\ <<>> \in Seq(Seq(Int)) /\ <<>> \in Seq(Event)
    BY DEF NoBuffer, Foreign
  <2>4. at \in [offset : Nat, etag : Nat]
    BY <1>1, <2>2 DEF Init
  <2> QED  BY <1>1, <1>2, <2>1, <2>3, <2>4 DEF Init, TypeOK
<1>4. Phases
  <2>1. start > 0 => Etag = 1
    BY <1>1 DEF Init, Etag
  <2> QED  BY <1>1, <2>1 DEF Init, Phases
<1>5. Puts(events) = {}
  BY DEF Init, Puts
<1>6. RequestsCounted
  <2>1. Cardinality(Puts(events)) = 0
    BY <1>5, FS_EmptySet
  <2>2. inQueue = 0 /\ Len(queue) = 0 /\ task # "put"
    BY DEF Init
  <2> QED  BY <2>1, <2>2 DEF RequestsCounted
<1>7. CleanInv
  <2>1. Appended + Sent = 0 /\ Written = 0 /\ Appended = 0
    BY <1>1 DEF Init, Appended, Sent, Written
  <2>2. Contiguous
    BY <1>1, <2>1, PlacedEmpty DEF Init, Contiguous
  <2>3. VersionKnown
    <3>1. CASE start = 0
      BY <1>1, <1>3, <3>1, AppendNumbers DEF Init, VersionKnown, FirstEtag
    <3>2. CASE start # 0
      <4>1. versions = <<Base>> /\ Etag = 1 /\ at.etag = 1 /\ at.offset = start
        BY <3>2 DEF Init, Etag
      <4>2. Expected(0) = Base
        <5>1. [i \in 1 .. 0 |-> i] = <<>>
          OBVIOUS
        <5> QED  BY <1>2, <5>1, ConcatEmptySeq DEF Expected
      <4> QED  BY <2>1, <3>2, <4>1, <4>2 DEF VersionKnown, FirstEtag
    <3> QED  BY <3>1, <3>2
  <2>4. EtagTold
    <3>1. ResultEtag = 0
      BY DEF Init, Etag, ResultEtag, FirstEtag
    <3> QED  BY <1>5, <3>1 DEF Init, EtagTold, Told
  <2>5. EmptyUploaded /\ Drained
    BY DEF Init, EmptyUploaded, Drained
  <2> QED  BY <2>2, <2>3, <2>4, <2>5 DEF CleanInv
<1>8. ObjectIsPrefix
  <2>1. \A v \in Range(versions) : v \in {Base, <<Old>>}
    BY DEF Init, Range
  <2>2. \A i \in DOMAIN Base : Base[i] = Old
    BY DEF Base
  <2>3. \A i \in DOMAIN <<Old>> : <<Old>>[i] = Old
    OBVIOUS
  <2> QED  BY <2>1, <2>2, <2>3 DEF ObjectIsPrefix
<1> QED  BY <1>3, <1>4, <1>6, <1>7, <1>8 DEF AppendInv

LEMMA AppendStepInv == AppendInv /\ [Next]_vars => AppendInv'
BY AppendTypeStep, PhasesStep, CountedStep, CleanStep, PrefixStep DEF AppendInv

\* At the end of complete nothing is left in the channels, so that the task has
\* appended everything and its last etag has been told.
LEMMA DurableWhenDone == AppendInv => CompleteIsDurable
<1> SUFFICES ASSUME AppendInv, pc = "done"
             PROVE  IF result = 0 THEN start > 0 /\ Written = 0 ELSE versions[result] = Expected(Written)
  BY DEF CompleteIsDurable
<1>1. task = "ended" /\ events = <<>> /\ buffer = NoBuffer
  BY DEF AppendInv, Phases
<1>2. Clean
  BY <1>1 DEF Clean, ErrPending
<1>3. Contiguous /\ VersionKnown /\ EtagTold /\ EmptyUploaded /\ queue = <<>>
  BY <1>1, <1>2 DEF AppendInv, CleanInv, Drained
<1>4. /\ start \in Nat /\ offset \in Nat /\ offset >= start /\ at.offset \in Nat /\ at.etag \in Nat
      /\ Appended \in Nat /\ Written \in Nat
  BY <1>3, AppendNumbers DEF AppendInv, TypeOK, Phases, Contiguous, Appended, Written
<1>5. Appended = Written
  <2>1. Placed(queue, buffer, Appended, Written) /\ queue \in Seq(Seq(Int))
    <3>1. Appended + Sent = Appended
      BY <1>1, <1>4 DEF Sent
    <3> QED  BY <1>3, <3>1 DEF Contiguous, AppendInv, TypeOK
  <2> QED  BY <1>1, <1>3, <1>4, <2>1, PlacedBounds
<1>6. result = ResultEtag
  <2>1. Puts(events) = {}
    BY <1>1 DEF Puts
  <2> QED  BY <1>3, <2>1 DEF EtagTold, Told
<1>7. CASE result = 0
  <2>1. at.etag = FirstEtag
    BY <1>3, <1>4, <1>6, <1>7 DEF ResultEtag, VersionKnown, FirstEtag
  <2>2. Written = 0
    BY <1>3, <1>4, <1>5, <2>1 DEF VersionKnown, Appended
  <2>3. offset # 0
    BY <1>1, <1>3, <2>1 DEF EmptyUploaded
  <2> QED  BY <1>4, <1>7, <2>2, <2>3 DEF Written
<1>8. CASE result # 0
  BY <1>3, <1>5, <1>6, <1>8 DEF ResultEtag, VersionKnown
<1> QED  BY <1>7, <1>8

\* The incremental part of a step of the uploader.
LEMMA AppendPart == [UploaderNext]_uploaderVars => [Next]_vars
BY DEF UploaderNext, uploaderVars, IncrementalStep, AtomicStep

LEMMA UploadInvariant == UploaderSpec => []AppendInv
<1>1. UploaderInit => AppendInv
  BY AppendInitInv DEF UploaderInit
<1> QED  BY <1>1, AppendPart, AppendStepInv, PTL DEF UploaderSpec

\* The channels, counters and buffers of both kinds of upload always have their
\* types: above all, requests_in_queue is decremented only for a request that was
\* counted, so that the unsigned counter of consume_next_response never wraps.
THEOREM UploadTypeCorrect == UploaderSpec => [](TypeOK /\ AtomicTypeOK)
<1>1. UploaderSpec => []TypeOK
  BY UploadInvariant, PTL DEF AppendInv
<1>2. UploaderInit => AtomicInv
  BY AtomicInitInv DEF UploaderInit
<1>3. UploaderSpec => []AtomicInv
  BY <1>2, AtomicPart, AtomicStepInv, PTL DEF UploaderSpec
<1>4. AtomicInv => AtomicTypeOK
  BY DEF AtomicInv
<1> QED  BY <1>1, <1>3, <1>4, PTL

\* No version of the object made by run_append_loop has a gap, a byte twice or our
\* bytes after another client's, whatever the sizes of the buffers and the channel,
\* the failures of requests and the objects of other clients.
THEOREM UploadObjectIsPrefix == UploaderSpec => []ObjectIsPrefix
<1>1. AppendInv => ObjectIsPrefix
  BY DEF AppendInv
<1> QED  BY <1>1, UploadInvariant, PTL

\* AppendUploadRequest::complete never returns the etag of a version that lacks a
\* byte a write accepted, and never returns success after the task failed.
THEOREM UploadCompleteIsDurable == UploaderSpec => []CompleteIsDurable
BY UploadInvariant, DurableWhenDone, PTL
=============================================================================
