-------------------------- MODULE FileHandlesProofs --------------------------
(***************************************************************************)
(* Proofs about FileHandles, for any set of handles and any bounds: first  *)
(* what holds in every configuration, with S3 failures, renames, forgets   *)
(* and appends as well as multi-part uploads, and then what holds as long  *)
(* as nothing fails.                                                       *)
(***************************************************************************)
EXTENDS FileHandles, TLAPS

\* The methods of the handle map return an entry.
LEMMA MapMethodsType ==
    ASSUME NEW m \in InodeHandles, NEW h \in Handles
    PROVE  /\ Empty \in InodeHandles
           /\ AddReader(m, h) \in InodeHandles
           /\ SetWriter(m, h) \in InodeHandles
           /\ DeactivateReader(m, h) \in InodeHandles
           /\ ActivateReader(m, h) \in InodeHandles
           /\ RemoveReader(m, h) \in InodeHandles
           /\ IsWriter(m, h) => ActivateWriter(m, h) \in InodeHandles
           /\ IsWriter(m, h) => DeactivateWriter(m, h) \in InodeHandles
           /\ RemoveWriter(m, h) \in InodeHandles
           /\ RemoveInode(m) \in InodeHandles
BY NoHandleAssumption
   DEF InodeHandles, HandleState, Empty, AddReader, DropWriter, SetWriter, DeactivateReader,
       ActivateReader, RemoveReader, ActivateWriter, DeactivateWriter, RemoveWriter, RemoveInode,
       TracksReader, IsWriter

\* finish_writing keeps the inode's part of the state well-typed.
LEMMA FinishWritingType ==
    ASSUME TypeOK, NEW h \in Handles, NEW etag \in Nat, FinishWriting(h, etag)
    PROVE  /\ present' \in BOOLEAN
           /\ status' \in WriteStatus
           /\ stat' \in [etag : Nat, size : Nat, valid : BOOLEAN]
           /\ hook' \in Handles \cup {NoHandle}
           /\ map' \in InodeHandles
<1>1. CASE ~CanFinishWriting
  BY <1>1 DEF FinishWriting, TypeOK, inodeVars
<1>2. CASE CanFinishWriting
  BY <1>2, MapMethodsType, ZenonT(30) DEF FinishWriting, TypeOK, WriteStatus
<1> QED  BY <1>1, <1>2

\* ... and so does flush_writer.
LEMMA FlushWriterType ==
    ASSUME TypeOK, NEW h \in Handles, FlushWriter(h)
    PROVE  /\ present' \in BOOLEAN
           /\ status' \in WriteStatus
           /\ stat' \in [etag : Nat, size : Nat, valid : BOOLEAN]
           /\ hook' \in Handles \cup {NoHandle}
           /\ map' \in InodeHandles
           /\ result' \in [Handles -> HookResult]
<1>1. CASE ~FlushesWriter(h)
  BY <1>1 DEF FlushWriter, TypeOK, inodeVars
<1>2. CASE FlushesWriter(h)
  <2>1. map' \in InodeHandles
    BY <1>2, MapMethodsType DEF FlushWriter, FlushesWriter, TypeOK
  <2>2. result' \in [Handles -> HookResult]
    BY <1>2 DEF FlushWriter, TypeOK, HookResult
  <2> QED  BY <1>2, <2>1, <2>2 DEF FlushWriter, TypeOK
<1> QED  BY <1>1, <1>2

LEMMA FixedHandlesType ==
    UnusedHandle \in Handle /\ FailedHandle \in Handle
BY DEF UnusedHandle, FailedHandle, Handle

\* FileHandleState::new makes a handle.
LEMMA NewHandleStateType ==
    ASSUME TypeOK, NEW h \in Handles, NEW e \in Nat, NEW s \in Nat
    PROVE  NewHandleState(h, e, s) \in Handle
<1> DEFINE r == handle[h]
<1>1. r \in Handle
  BY DEF TypeOK
<1>2. [r EXCEPT !.phase = "open", !.etag = e, !.awaits = NoHandle] \in Handle
  BY <1>1 DEF Handle
<1>3. [r EXCEPT !.phase = "open", !.upload = "progress", !.etag = IF r.trunc THEN 0 ELSE e,
                !.offset = IF r.trunc THEN 0 ELSE s, !.awaits = NoHandle] \in Handle
  <2>1. PICK e1 \in Nat : e1 = IF r.trunc THEN 0 ELSE e
    OBVIOUS
  <2>2. PICK s1 \in Nat : s1 = IF r.trunc THEN 0 ELSE s
    OBVIOUS
  <2>3. [r EXCEPT !.phase = "open", !.upload = "progress", !.etag = e1,
                  !.offset = s1, !.awaits = NoHandle] \in Handle
    BY <1>1 DEF Handle
  <2> QED  BY <2>1, <2>2, <2>3
<1> QED  BY <1>2, <1>3, FixedHandlesType DEF NewHandleState

\* Updates of a handle's flags.
LEMMA FlagsType ==
    ASSUME NEW r \in Handle, NEW b
    PROVE  MarkFault(r, b) \in Handle /\ MarkFlushed(r, b) \in Handle
<1>1. [r EXCEPT !.fault = TRUE] \in Handle
  BY DEF Handle
<1>2. [r EXCEPT !.flushed = TRUE] \in Handle
  BY DEF Handle
<1> QED  BY <1>1, <1>2 DEF MarkFault, MarkFlushed

\* getattr leaves a handle.
LEMMA LookedType ==
    ASSUME NEW r \in Handle, NEW p \in {"looked", "head"}, NEW m \in {"R", "W"}, NEW e \in Nat
    PROVE  /\ [r EXCEPT !.phase = p, !.rw = m, !.trunc = TRUE, !.res = e] \in Handle
           /\ [r EXCEPT !.phase = p, !.rw = m, !.trunc = FALSE, !.res = e] \in Handle
<1>1. [r EXCEPT !.phase = p, !.rw = m, !.trunc = TRUE, !.res = e] \in Handle
  BY DEF Handle
<1>2. [r EXCEPT !.phase = p, !.rw = m, !.trunc = FALSE, !.res = e] \in Handle
  BY DEF Handle
<1> QED  BY <1>1, <1>2

\* A write that is accepted, and a PUT that is answered, leave a handle.
LEMMA WrittenType ==
    ASSUME NEW r \in Handle
    PROVE  AcceptedWrite(r) \in Handle /\ RefusedWrite(r) \in Handle
<1>1. PICK w \in Nat, n \in Nat : w = r.written + 1 /\ n = r.pending + 1
  BY DEF Handle
<1>2. [r EXCEPT !.flushed = FALSE, !.op = "write", !.step = "ok", !.written = w, !.pending = n]
        \in Handle
  BY DEF Handle
<1>3. RefusedWrite(r) \in Handle
  BY DEF RefusedWrite, Handle
<1> QED  BY <1>1, <1>2, <1>3 DEF AcceptedWrite

LEMMA PutType ==
    ASSUME NEW r \in Handle, NEW step \in {"ok", "err"}, NEW e \in Nat, NEW n \in Nat
    PROVE  [r EXCEPT !.step = step, !.res = e, !.pending = 0, !.offset = n] \in Handle
BY DEF Handle

\* An upload request that returns leaves a handle.
LEMMA ReturnedType ==
    ASSUME NEW r \in Handle, NEW u \in {"none", "progress", "completed", "failed"}
    PROVE  Returned(r, u) \in Handle
BY ZenonT(30) DEF Returned, Handle

LEMMA AppendCommittedType ==
    ASSUME NEW r \in Handle
    PROVE  AppendCommitted(r) \in Handle
<1>1. Returned(r, "progress") \in Handle /\ Returned(r, "failed") \in Handle
  BY ReturnedType
<1>2. [Returned(r, "progress") EXCEPT !.etag = r.res] \in Handle
  BY <1>1 DEF Handle
<1> QED  BY <1>1, <1>2 DEF AppendCommitted

\* The version a response tells of is a version.
LEMMA LearnType ==
    ASSUME TypeOK, NEW h \in Handles, Learn(h)
    PROVE  acked' \in Nat
<1>1. handle[h].res \in Nat
  BY DEF TypeOK, Handle
<1> QED  BY <1>1 DEF Learn, TypeOK

\* Every step keeps the state well-typed.
LEMMA TypeStep == TypeOK /\ [Next]_vars => TypeOK'
<1> SUFFICES ASSUME TypeOK, [Next]_vars PROVE TypeOK'
  OBVIOUS
<1>0. \A h \in Handles : handle[h] \in Handle
  BY DEF TypeOK
<1>1. ASSUME NEW h \in Handles, NEW flags \in OpenFlags, OpenLookup(h, flags) PROVE TypeOK'
  <2> DEFINE cached == HasLocalState \/ (~ForceRevalidate /\ stat.valid)
             p == IF cached THEN "looked" ELSE "head"
             e == IF cached THEN 0 ELSE object.etag
             m == ModeFor(flags)
  <2>1. p \in {"looked", "head"} /\ e \in Nat /\ m \in {"R", "W"}
    BY DEF ModeFor, TypeOK
  <2>2. handle' = [handle EXCEPT ![h] = [handle[h] EXCEPT !.phase = p, !.rw = m,
                                                          !.trunc = flags.trunc, !.res = e]]
    BY <1>1 DEF OpenLookup
  <2>3. flags.trunc = TRUE \/ flags.trunc = FALSE
    BY DEF OpenFlags
  <2>4. stat' \in [etag : Nat, size : Nat, valid : BOOLEAN]
    BY <1>1 DEF OpenLookup, TypeOK
  <2> HIDE DEF p, e, m
  <2>5. [handle[h] EXCEPT !.phase = p, !.rw = m, !.trunc = flags.trunc, !.res = e] \in Handle
    <3>1. CASE flags.trunc = TRUE
      BY <1>0, <2>1, <3>1, LookedType
    <3>2. CASE flags.trunc = FALSE
      BY <1>0, <2>1, <3>2, LookedType
    <3> QED  BY <3>1, <3>2, <2>3
  <2>6. handle' \in [Handles -> Handle]
    BY <2>2, <2>5 DEF TypeOK
  <2> QED  BY <1>1, <2>4, <2>6 DEF OpenLookup, TypeOK
<1>2. ASSUME NEW h \in Handles, OpenRevalidate(h) PROVE TypeOK'
  <2>1. [handle[h] EXCEPT !.phase = "looked", !.res = 0] \in Handle
    BY <1>0, ZenonT(30) DEF Handle
  <2> QED  BY <1>2, <2>1, FixedHandlesType DEF OpenRevalidate, TypeOK, inodeVars
<1>3. ASSUME NEW h \in Handles, OpenHeadFails(h) PROVE TypeOK'
  BY <1>3, FixedHandlesType DEF OpenHeadFails, TypeOK, inodeVars
<1>4. ASSUME NEW h \in Handles, StartReading(h) PROVE TypeOK'
  <2>1. PICK k \in Handles \cup {NoHandle} : k = hook
    BY DEF TypeOK
  <2>2. [handle[h] EXCEPT !.phase = "awaitOpen", !.awaits = k] \in Handle
    BY <1>0, <2>1, ZenonT(30) DEF Handle
  <2> QED  BY <1>4, <2>1, <2>2, NewHandleStateType, MapMethodsType DEF StartReading, OpenedFrom, WriteStatus, TypeOK, inodeVars
<1>5. ASSUME NEW h \in Handles, StartWriting(h) PROVE TypeOK'
  <2>1. PICK k \in Handles \cup {NoHandle} : k = hook
    BY DEF TypeOK
  <2>2. stat' \in [etag : Nat, size : Nat, valid : BOOLEAN]
    BY <1>5 DEF StartWriting, TypeOK
  <2>3. [handle[h] EXCEPT !.phase = "awaitOpen", !.awaits = k] \in Handle
    BY <1>0, <2>1, ZenonT(30) DEF Handle
  <2> QED  BY <1>5, <2>1, <2>2, <2>3, NewHandleStateType, MapMethodsType DEF StartWriting, OpenedFrom, WriteStatus, TypeOK, inodeVars
<1>6. ASSUME NEW h \in Handles, OpenRefused(h) PROVE TypeOK'
  BY <1>6, FixedHandlesType DEF OpenRefused, TypeOK, inodeVars
<1>7. ASSUME NEW h \in Handles, OpenAfterHook(h) PROVE TypeOK'
  <2>1. PICK g \in Handles : OpenAfterHook(h)!2!(g)
    BY <1>7 DEF OpenAfterHook
  <2>2. result[g].etag \in Nat /\ result[g].size \in Nat /\ stat.etag \in Nat /\ stat.size \in Nat
    BY DEF TypeOK, HookResult
  <2>3. handle' \in [Handles -> Handle]
    BY <2>1, <2>2, FixedHandlesType, NewHandleStateType DEF TypeOK
  <2> QED  BY <1>7, <2>3 DEF OpenAfterHook, TypeOK, inodeVars
<1>8. ASSUME NEW h \in Handles, Read(h) PROVE TypeOK'
  <2>1. [handle[h] EXCEPT !.flushed = FALSE] \in Handle
    BY <1>0, ZenonT(30) DEF Handle
  <2> QED  BY <1>8, <2>1, MapMethodsType DEF Read, TypeOK, inodeVars
<1>9. ASSUME NEW h \in Handles, Write(h) PROVE TypeOK'
  <2>1. \A r \in Handle : [handle EXCEPT ![h] = r] \in [Handles -> Handle]
    BY DEF TypeOK
  <2>2. [handle[h] EXCEPT !.flushed = FALSE] \in Handle
    BY <1>0, ZenonT(30) DEF Handle
  <2>3. AcceptedWrite(handle[h]) \in Handle /\ RefusedWrite(handle[h]) \in Handle
    BY <1>0, WrittenType
  <2>4. \/ handle' = [handle EXCEPT ![h] = AcceptedWrite(handle[h])]
        \/ handle' = [handle EXCEPT ![h] = RefusedWrite(handle[h])]
        \/ handle' = [handle EXCEPT ![h] = [handle[h] EXCEPT !.flushed = FALSE]]
    BY <1>9 DEF Write
  <2>5. handle' \in [Handles -> Handle]
    BY <2>1, <2>2, <2>3, <2>4
  <2> QED  BY <1>9, <2>5, MapMethodsType DEF Write, Reactivate, Reactivates, TypeOK
<1>10. ASSUME NEW h \in Handles, WriteReturns(h) PROVE TypeOK'
  <2>1. [handle[h] EXCEPT !.op = "none", !.step = "none"] \in Handle
    BY <1>0, ZenonT(30) DEF Handle
  <2>2. handle' \in [Handles -> Handle]
    BY <1>10, <2>1, FlagsType DEF WriteReturns, TypeOK
  <2>3. CASE handle[h].step = "err"
    BY <1>10, <2>2, <2>3, FinishWritingType DEF WriteReturns, TypeOK
  <2>4. CASE handle[h].step # "err"
    <3>1. stat' \in [etag : Nat, size : Nat, valid : BOOLEAN]
      BY <1>10, <2>4 DEF WriteReturns, TypeOK
    <3> QED  BY <1>10, <2>2, <2>4, <3>1 DEF WriteReturns, TypeOK
  <2> QED  BY <2>3, <2>4
<1>11. ASSUME NEW h \in Handles, Fsync(h) PROVE TypeOK'
  <2>1. [handle[h] EXCEPT !.upload = "completed", !.op = "fsync", !.step = "put"] \in Handle
    BY <1>0, ZenonT(30) DEF Handle
  <2> QED  BY <1>11, <2>1 DEF Fsync, Uploading, TypeOK, inodeVars
<1>12. ASSUME NEW h \in Handles, FlushReader(h) PROVE TypeOK'
  <2>1. [handle[h] EXCEPT !.flushed = TRUE] \in Handle
    BY <1>0, ZenonT(30) DEF Handle
  <2> QED  BY <1>12, <2>1, MapMethodsType DEF FlushReader, TypeOK, inodeVars
<1>13. ASSUME NEW h \in Handles, FlushEnded(h) PROVE TypeOK'
  <2>1. [handle[h] EXCEPT !.flushed = TRUE] \in Handle
    BY <1>0, ZenonT(30) DEF Handle
  <2> QED  BY <1>13, <2>1 DEF FlushEnded, TypeOK, inodeVars
<1>14. ASSUME NEW h \in Handles, S3Put(h) PROVE TypeOK'
  <2>1. object' \in [etag : Nat, size : Nat]
    BY <1>0, <1>14 DEF S3Put, TypeOK, Handle
  <2>2. PICK step \in {"ok", "err"} :
          handle' = [handle EXCEPT ![h] =
                       MarkFault([handle[h] EXCEPT !.step = step, !.res = object'.etag, !.pending = 0,
                                                   !.offset = object'.size], step = "err")]
    BY <1>14 DEF S3Put
  <2>3. [handle[h] EXCEPT !.step = step, !.res = object'.etag, !.pending = 0,
                          !.offset = object'.size] \in Handle
    <3> DEFINE e == object'.etag
               n == object'.size
    <3>1. e \in Nat /\ n \in Nat
      BY <2>1
    <3> HIDE DEF e, n
    <3>2. [handle[h] EXCEPT !.step = step, !.res = e, !.pending = 0, !.offset = n] \in Handle
      BY <1>0, <3>1, PutType
    <3> QED  BY <3>2 DEF e, n
  <2>4. handle' \in [Handles -> Handle]
    BY <2>2, <2>3, FlagsType DEF TypeOK
  <2> QED  BY <1>14, <2>1, <2>4 DEF S3Put, TypeOK, inodeVars
<1>15. ASSUME NEW h \in Handles, S3NoPut(h) PROVE TypeOK'
  <2>1. [handle[h] EXCEPT !.step = "ok", !.res = handle[h].etag] \in Handle
    BY <1>0, ZenonT(30) DEF Handle
  <2> QED  BY <1>15, <2>1 DEF S3NoPut, TypeOK, inodeVars
<1>16. ASSUME NEW h \in Handles, S3Refuses(h) PROVE TypeOK'
  <2>1. [handle[h] EXCEPT !.step = "err", !.fault = TRUE] \in Handle
    BY <1>0, ZenonT(30) DEF Handle
  <2> QED  BY <1>16, <2>1 DEF S3Refuses, TypeOK, inodeVars
<1>17. ASSUME NEW h \in Handles, FsyncReturns(h) PROVE TypeOK'
  <2>1. handle' \in [Handles -> Handle]
    BY <1>0, <1>17, AppendCommittedType DEF FsyncReturns, TypeOK
  <2>2. acked' \in Nat
    BY <1>0, <1>17, LearnType DEF FsyncReturns
  <2> QED  BY <1>17, <2>1, <2>2 DEF FsyncReturns, TypeOK, inodeVars
<1>18. ASSUME NEW h \in Handles, DeferReturns(h) PROVE TypeOK'
  <2>1. AppendCommitted(handle[h]) \in Handle
    BY <1>0, AppendCommittedType
  <2>2. handle' \in [Handles -> Handle]
    BY <1>18, <2>1, FlagsType DEF DeferReturns, TypeOK
  <2>3. acked' \in Nat
    BY <1>0, <1>18, LearnType DEF DeferReturns
  <2>4. CASE handle[h].step = "ok"
    BY <1>18, <2>2, <2>3, <2>4, FlushWriterType DEF DeferReturns, TypeOK
  <2>5. CASE handle[h].step # "ok"
    BY <1>18, <2>2, <2>3, <2>5 DEF DeferReturns, TypeOK, inodeVars
  <2> QED  BY <2>4, <2>5
<1>19. ASSUME NEW h \in Handles, CompleteReturns(h) PROVE TypeOK'
  <2>1. FinishedEtag(h) \in Nat
    BY <1>0 DEF FinishedEtag, Handle
  <2>2. Returned(handle[h], IF Finished(h) THEN "completed" ELSE "failed") \in Handle
    BY <1>0, ReturnedType
  <2>3. handle' \in [Handles -> Handle]
    BY <1>19, <2>2, FlagsType DEF CompleteReturns, TypeOK
  <2>4. acked' \in Nat
    BY <1>0, <1>19, LearnType DEF CompleteReturns
  <2> QED  BY <1>19, <2>1, <2>3, <2>4, FinishWritingType DEF CompleteReturns, TypeOK
<1>20. ASSUME NEW h \in Handles, HookReturns(h) PROVE TypeOK'
  <2>1. FinishedEtag(h) \in Nat
    BY <1>0 DEF FinishedEtag, Handle
  <2>2. handle' \in [Handles -> Handle]
    BY <1>0, <1>20, ReturnedType DEF HookReturns, TypeOK
  <2>3. acked' \in Nat
    BY <1>0, <1>20, LearnType DEF HookReturns
  <2>4. result' \in [Handles -> HookResult]
    <3>1. stat' \in [etag : Nat, size : Nat, valid : BOOLEAN]
      BY <1>20, <2>1, FinishWritingType DEF HookReturns
    <3> QED  BY <1>20, <3>1 DEF HookReturns, TypeOK, HookResult
  <2> QED  BY <1>20, <2>1, <2>2, <2>3, <2>4, FinishWritingType DEF HookReturns, TypeOK
<1>21. ASSUME NEW h \in Handles, HookRuns(h) PROVE TypeOK'
  <2>1. [handle[h] EXCEPT !.upload = "completed", !.op = "hook", !.step = "put"] \in Handle
    BY <1>0, ZenonT(30) DEF Handle
  <2> QED  BY <1>21, <2>1 DEF HookRuns, Uploading, HookResult, TypeOK, inodeVars
<1>22. ASSUME NEW h \in Handles, Close(h) PROVE TypeOK'
  <2>1. [handle[h] EXCEPT !.phase = "closing"] \in Handle
    BY <1>0 DEF Handle
  <2> QED  BY <1>22, <2>1 DEF Close, TypeOK, inodeVars
<1>23. ASSUME NEW h \in Handles, ReleaseReader(h) PROVE TypeOK'
  <2>1. [UnusedHandle EXCEPT !.phase = "closed"] \in Handle
    BY <1>0, FixedHandlesType DEF Handle
  <2> QED  BY <1>23, <2>1, MapMethodsType DEF ReleaseReader, TypeOK, inodeVars
<1>24. ASSUME NEW h \in Handles, ReleaseWriter(h) PROVE TypeOK'
  <2>1. hook' \in Handles \cup {NoHandle}
    BY <1>24, FlushWriterType DEF ReleaseWriter
  <2>2. [handle[h] EXCEPT !.phase = "awaitClose", !.awaits = hook'] \in Handle
    BY <1>0, <2>1, ZenonT(30) DEF Handle
  <2>3. [handle[h] EXCEPT !.phase = "closed"] \in Handle
    BY <1>0 DEF Handle
  <2> QED  BY <1>24, <2>1, <2>2, <2>3, FlushWriterType DEF ReleaseWriter, TypeOK, inodeVars
<1>25. ASSUME NEW h \in Handles, ReleaseAfterHook(h) PROVE TypeOK'
  <2>1. [handle[h] EXCEPT !.phase = "closed", !.awaits = NoHandle] \in Handle
    BY <1>0, ZenonT(30) DEF Handle
  <2> QED  BY <1>25, <2>1 DEF ReleaseAfterHook, TypeOK, inodeVars
<1>26. ASSUME NEW h \in Handles, NEW samePid \in BOOLEAN, FlushCompletes(h, samePid) PROVE TypeOK'
  <2>1. [handle[h] EXCEPT !.upload = "completed", !.op = "flush", !.step = "put"] \in Handle
    BY <1>0, ZenonT(30) DEF Handle
  <2> QED  BY <1>26, <2>1 DEF FlushCompletes, Uploading, TypeOK, inodeVars
<1>27. ASSUME NEW h \in Handles, NEW samePid \in BOOLEAN, FlushCommits(h, samePid) PROVE TypeOK'
  <2>1. [handle[h] EXCEPT !.upload = "completed", !.op = "defer", !.step = "put"] \in Handle
    BY <1>0, ZenonT(30) DEF Handle
  <2> QED  BY <1>27, <2>1 DEF FlushCommits, Uploading, TypeOK, inodeVars
<1>28. ASSUME NEW h \in Handles, NEW samePid \in BOOLEAN, FlushDefers(h, samePid) PROVE TypeOK'
  <2>1. [handle[h] EXCEPT !.flushed = TRUE] \in Handle
    BY <1>0, ZenonT(30) DEF Handle
  <2> QED  BY <1>28, <2>1, FlushWriterType DEF FlushDefers, TypeOK, inodeVars
<1>29. CASE Forget
  BY <1>29 DEF Forget, RemoveInode, Empty, InodeHandles, HandleState, TypeOK
<1>30. CASE RenameBegins
  BY <1>30 DEF RenameBegins, TypeOK, WriteStatus
<1>31. CASE RenameFails
  BY <1>31 DEF RenameFails, TypeOK, WriteStatus
<1>32. CASE Expire
  BY <1>32 DEF Expire, TypeOK, WriteStatus
<1>33. CASE UNCHANGED vars
  BY <1>33 DEF vars, inodeVars, TypeOK
<1> QED
  BY <1>1, <1>2, <1>3, <1>4, <1>5, <1>6, <1>7, <1>8, <1>9, <1>10, <1>11, <1>12, <1>13, <1>14, <1>15, <1>16, <1>17, <1>18, <1>19, <1>20, <1>21, <1>22, <1>23, <1>24, <1>25, <1>26, <1>27, <1>28, <1>29, <1>30, <1>31, <1>32, <1>33 DEF Next, Application, HandleStep

\* Type correctness: whatever the order of requests, S3 answers, renames and
\* forgets, the state has its type.
THEOREM TypeCorrect == Spec => []TypeOK
<1>1. Init => TypeOK
  <2> SUFFICES ASSUME Init PROVE TypeOK
    OBVIOUS
  <2>1. handle \in [Handles -> Handle]
    BY FixedHandlesType DEF Init
  <2>2. map \in InodeHandles
    BY DEF Init, Empty, InodeHandles, HandleState
  <2>3. result \in [Handles -> HookResult]
    BY DEF Init, HookResult
  <2>4. object \in [etag : Nat, size : Nat]
    BY DEF Init
  <2> QED  BY <2>1, <2>2, <2>3, <2>4 DEF Init, TypeOK, WriteStatus
<1> QED  BY <1>1, TypeStep, PTL DEF Spec

-----------------------------------------------------------------------------
\* Readers or a writer.  MapExclusive and WriterIffOpenForWriting are inductive
\* together with TypeOK: the map and the write status change in the same
\* critical section of the inode, everywhere.

MapSafe == MapExclusive /\ WriterIffOpenForWriting

\* finish_writing empties the map's entry, or takes the writer out of it, as
\* it leaves LocalOpenForWriting.
LEMMA FinishWritingSafe ==
    ASSUME TypeOK, MapSafe, NEW h \in Handles, NEW etag \in Nat, FinishWriting(h, etag)
    PROVE  MapSafe'
<1>1. CASE ~CanFinishWriting
  BY <1>1 DEF FinishWriting, inodeVars, MapSafe, MapExclusive, WriterIffOpenForWriting
<1>2. CASE CanFinishWriting /\ etag # 0 /\ IsWriter(map, h)
  BY <1>2 DEF FinishWriting, MapSafe, MapExclusive, WriterIffOpenForWriting, RemoveWriter,
              DropWriter, TypeOK, InodeHandles
<1>3. CASE CanFinishWriting /\ etag # 0 /\ ~IsWriter(map, h)
  BY <1>3 DEF FinishWriting, MapSafe, MapExclusive, WriterIffOpenForWriting
<1>4. CASE CanFinishWriting /\ etag = 0
  BY <1>4 DEF FinishWriting, MapSafe, MapExclusive, WriterIffOpenForWriting, RemoveInode, Empty
<1> QED  BY <1>1, <1>2, <1>3, <1>4

\* flush_writer only changes the state of the writer that is there.
LEMMA FlushWriterSafe ==
    ASSUME TypeOK, MapSafe, NEW h \in Handles, FlushWriter(h)
    PROVE  MapSafe'
<1>1. CASE FlushesWriter(h)
  BY <1>1 DEF FlushWriter, MapSafe, MapExclusive, WriterIffOpenForWriting, DeactivateWriter,
              TypeOK, InodeHandles
<1>2. CASE ~FlushesWriter(h)
  BY <1>2 DEF FlushWriter, inodeVars, MapSafe, MapExclusive, WriterIffOpenForWriting
<1> QED  BY <1>1, <1>2

LEMMA MapSafeStep == TypeOK /\ MapSafe /\ [Next]_vars => MapSafe'
<1> SUFFICES ASSUME TypeOK, MapSafe, [Next]_vars PROVE MapSafe'
  OBVIOUS
<1> USE NoHandleAssumption
<1>1. ASSUME UNCHANGED <<present, status, map>> PROVE MapSafe'
  BY <1>1 DEF MapSafe, MapExclusive, WriterIffOpenForWriting
<1>2. ASSUME NEW h \in Handles, StartReading(h) PROVE MapSafe'
  <2>1. map'.writer = NoHandle
    BY <1>2 DEF StartReading, AddReader, DropWriter, TypeOK, InodeHandles
  <2>2. status' # "LocalOpenForWriting"
    BY <1>2 DEF StartReading
  <2> QED  BY <2>1, <2>2 DEF MapSafe, MapExclusive, WriterIffOpenForWriting
<1>3. ASSUME NEW h \in Handles, StartWriting(h) PROVE MapSafe'
  <2>1. map'.writer = h /\ \A r \in Handles : map'.readers[r] = "Absent"
    BY <1>3 DEF StartWriting, SetWriter
  <2>2. status' = "LocalOpenForWriting"
    BY <1>3 DEF StartWriting
  <2> QED  BY <2>1, <2>2 DEF MapSafe, MapExclusive, WriterIffOpenForWriting
<1>4. ASSUME NEW h \in Handles, Read(h) PROVE MapSafe'
  BY <1>4 DEF Read, TracksReader, ActivateReader, MapSafe, MapExclusive, WriterIffOpenForWriting,
              TypeOK, InodeHandles
<1>5. ASSUME NEW h \in Handles, Write(h) PROVE MapSafe'
  <2>1. UNCHANGED <<present, status, map>> \/ map' = ActivateWriter(map, h)
    BY <1>5 DEF Write, Reactivate
  <2>2. map'.writer = map.writer /\ map'.readers = map.readers /\ UNCHANGED <<present, status>>
    BY <1>5, <2>1 DEF Write, ActivateWriter, TypeOK, InodeHandles
  <2> QED  BY <2>2 DEF MapSafe, MapExclusive, WriterIffOpenForWriting
<1>6. ASSUME NEW h \in Handles, WriteReturns(h) PROVE MapSafe'
  BY <1>1, <1>6, FinishWritingSafe DEF WriteReturns
<1>7. ASSUME NEW h \in Handles, FlushReader(h) PROVE MapSafe'
  BY <1>7 DEF FlushReader, DeactivateReader, TracksReader, MapSafe, MapExclusive,
              WriterIffOpenForWriting, TypeOK, InodeHandles
<1>8. ASSUME NEW h \in Handles, NEW samePid \in BOOLEAN, FlushDefers(h, samePid) PROVE MapSafe'
  BY <1>8, FlushWriterSafe DEF FlushDefers
<1>9. ASSUME NEW h \in Handles, DeferReturns(h) PROVE MapSafe'
  BY <1>1, <1>9, FlushWriterSafe DEF DeferReturns, inodeVars
<1>10. ASSUME NEW h \in Handles, CompleteReturns(h) \/ HookReturns(h) PROVE MapSafe'
  <2>1. FinishedEtag(h) \in Nat
    BY DEF FinishedEtag, TypeOK, Handle
  <2> QED  BY <1>10, <2>1, FinishWritingSafe DEF CompleteReturns, HookReturns
<1>11. ASSUME NEW h \in Handles, ReleaseReader(h) PROVE MapSafe'
  BY <1>11 DEF ReleaseReader, RemoveReader, MapSafe, MapExclusive, WriterIffOpenForWriting,
               TypeOK, InodeHandles
<1>12. ASSUME NEW h \in Handles, ReleaseWriter(h) PROVE MapSafe'
  BY <1>12, FlushWriterSafe DEF ReleaseWriter
<1>13. CASE Forget
  BY <1>13 DEF Forget, RemoveInode, Empty, MapSafe, MapExclusive, WriterIffOpenForWriting
<1>14. CASE RenameBegins \/ RenameFails
  BY <1>14 DEF RenameBegins, RenameFails, MapSafe, MapExclusive, WriterIffOpenForWriting
<1>15. ASSUME NEW h \in Handles, Application(h) PROVE MapSafe'
  <2>1. ASSUME NEW flags \in OpenFlags, OpenLookup(h, flags) PROVE MapSafe'
    BY <1>1, <2>1 DEF OpenLookup
  <2>2. CASE Fsync(h) \/ FlushEnded(h) \/ Close(h)
    BY <1>1, <2>2 DEF Fsync, FlushEnded, Close, inodeVars
  <2>3. ASSUME NEW samePid \in BOOLEAN, FlushCompletes(h, samePid) \/ FlushCommits(h, samePid)
        PROVE  MapSafe'
    BY <1>1, <2>3 DEF FlushCompletes, FlushCommits, inodeVars
  <2> QED  BY <1>4, <1>5, <1>7, <1>8, <1>15, <2>1, <2>2, <2>3 DEF Application
<1>16. ASSUME NEW h \in Handles, HandleStep(h) PROVE MapSafe'
  <2>1. CASE OpenRevalidate(h) \/ OpenRefused(h) \/ OpenAfterHook(h)
    BY <1>1, <2>1 DEF OpenRevalidate, OpenRefused, OpenAfterHook, inodeVars
  <2>2. CASE S3Put(h) \/ S3NoPut(h) \/ S3Refuses(h) \/ FsyncReturns(h)
    BY <1>1, <2>2 DEF S3Put, S3NoPut, S3Refuses, FsyncReturns, inodeVars
  <2>3. CASE HookRuns(h) \/ ReleaseAfterHook(h)
    BY <1>1, <2>3 DEF HookRuns, ReleaseAfterHook, inodeVars
  <2> QED  BY <1>2, <1>3, <1>6, <1>9, <1>10, <1>11, <1>12, <1>16, <2>1, <2>2, <2>3
           DEF HandleStep
<1>17. ASSUME NEW h \in Handles, OpenHeadFails(h) PROVE MapSafe'
  BY <1>1, <1>17 DEF OpenHeadFails, inodeVars
<1>18. CASE Expire
  BY <1>1, <1>18 DEF Expire
<1>19. CASE UNCHANGED vars
  BY <1>1, <1>19 DEF vars, inodeVars
<1> QED  BY <1>13, <1>14, <1>15, <1>16, <1>17, <1>18, <1>19 DEF Next

LEMMA MapSafeAlways == Spec => []MapSafe
<1>1. Init => MapSafe
  BY DEF Init, Empty, MapSafe, MapExclusive, WriterIffOpenForWriting
<1> QED  BY <1>1, TypeCorrect, MapSafeStep, PTL DEF Spec

\* The handle map never tracks a writer beside readers, however many handles
\* are opened, flushed, re-activated and released, and whatever fails.
THEOREM ReadersXorWriter == Spec => []MapExclusive
<1>1. MapSafe => MapExclusive
  BY DEF MapSafe
<1> QED  BY <1>1, MapSafeAlways, PTL

\* While the inode exists it is LocalOpenForWriting exactly when the handle
\* map has a writer for it, the debug_assert of try_reactivate_handle included.
THEOREM StatusMatchesMap == Spec => []WriterIffOpenForWriting
<1>1. MapSafe => WriterIffOpenForWriting
  BY DEF MapSafe
<1> QED  BY <1>1, MapSafeAlways, PTL

-----------------------------------------------------------------------------
\* Hooks that are waited for.  Only flush_writer makes a hook, for the handle
\* that is the writer; whoever waits for the hook of a handle has evicted it
\* or is its own release, and a handle becomes the writer but once.

Opened == {"open", "closing", "awaitClose", "closed"}

HooksKept ==
    /\ \A h \in Handles : hook = h => handle[h].phase \in Opened
    /\ \A w, h \in Handles : handle[w].awaits = h => handle[h].phase \in Opened
    /\ \A w, h \in Handles : handle[w].awaits = h /\ map.writer = h => w = h
    /\ \A h \in Handles : handle[h].awaits = h => handle[h].phase = "awaitClose"
    /\ \A h \in Handles : handle[h].op = "defer" => handle[h].phase = "open"

\* How the state of a handle may change when it does not start to wait.
Moves(r, s) ==
    /\ s.awaits \in {r.awaits, NoHandle}
    /\ \/ s.phase = r.phase
       \/ r.phase \notin Opened
       \/ s.phase \in Opened /\ (r.phase = "awaitClose" => s.awaits = NoHandle)
    /\ s.op = "defer" => s.phase = "open" \/ (r.op = "defer" /\ s.phase = r.phase)

LEMMA MovesKept ==
    ASSUME TypeOK, HooksKept, NEW h \in Handles, NEW s,
           handle' = [handle EXCEPT ![h] = s], Moves(handle[h], s),
           map'.writer \in {map.writer, NoHandle},
           \/ hook' \in {hook, NoHandle}
           \/ hook' = h /\ s.phase \in Opened
    PROVE  HooksKept'
<1> USE NoHandleAssumption
<1> DEFINE r == handle[h]
<1>1. /\ handle'[h] = s
      /\ \A g \in Handles : g # h => handle'[g] = handle[g]
  BY DEF TypeOK
<1>2. r.phase \in Opened => s.phase \in Opened
  BY DEF Moves
<1>3. \A g \in Handles : handle[g].phase \in Opened => handle'[g].phase \in Opened
  BY <1>1, <1>2
<1>4. \A w, g \in Handles : handle'[w].awaits = g => handle[w].awaits = g
  BY <1>1 DEF Moves
<1>5. ASSUME NEW g \in Handles, hook' = g PROVE handle'[g].phase \in Opened
  BY <1>1, <1>3, <1>5 DEF HooksKept
<1>6. ASSUME NEW w \in Handles, NEW g \in Handles, handle'[w].awaits = g
      PROVE  handle'[g].phase \in Opened
  BY <1>3, <1>4, <1>6 DEF HooksKept
<1>7. ASSUME NEW w \in Handles, NEW g \in Handles, handle'[w].awaits = g, map'.writer = g
      PROVE  w = g
  BY <1>4, <1>7 DEF HooksKept
<1>8. ASSUME NEW g \in Handles, handle'[g].awaits = g PROVE handle'[g].phase = "awaitClose"
  <2>1. handle[g].phase = "awaitClose"
    BY <1>4, <1>8 DEF HooksKept
  <2>2. CASE g # h
    BY <1>1, <2>1, <2>2
  <2>3. CASE g = h
    BY <1>1, <1>8, <2>1, <2>3 DEF Moves, Opened
  <2> QED  BY <2>2, <2>3
<1>9. ASSUME NEW g \in Handles, handle'[g].op = "defer" PROVE handle'[g].phase = "open"
  BY <1>1, <1>9 DEF Moves, HooksKept
<1> HIDE DEF r
<1> QED  BY <1>5, <1>6, <1>7, <1>8, <1>9 DEF HooksKept

\* The writer changes only when a file is opened for writing.
LEMMA FinishWriter ==
    ASSUME TypeOK, NEW h \in Handles, NEW etag, FinishWriting(h, etag)
    PROVE  map'.writer \in {map.writer, NoHandle} /\ hook' \in {hook, NoHandle}
<1>1. map \in InodeHandles
  BY DEF TypeOK
<1>2. RemoveWriter(map, h).writer = NoHandle /\ RemoveInode(map).writer = NoHandle
  BY <1>1 DEF RemoveWriter, DropWriter, RemoveInode, Empty, InodeHandles
<1>3. map' \in {map, RemoveWriter(map, h), RemoveInode(map)} /\ hook' \in {hook, NoHandle}
  BY DEF FinishWriting, inodeVars
<1> QED  BY <1>2, <1>3

LEMMA FlushKeepsWriter ==
    ASSUME TypeOK, NEW h \in Handles, FlushWriter(h)
    PROVE  map'.writer = map.writer /\ hook' \in {hook, h}
<1>1. CASE FlushesWriter(h)
  BY <1>1 DEF FlushWriter, DeactivateWriter, TypeOK, InodeHandles
<1>2. CASE ~FlushesWriter(h)
  BY <1>2 DEF FlushWriter, inodeVars
<1> QED  BY <1>1, <1>2

\* What requests and their answers do to the state of a handle.
LEMMA RecordMoves ==
    ASSUME NEW r \in Handle, NEW u
    PROVE  /\ r.phase \notin Opened => Moves(r, FailedHandle)
           /\ Moves(r, Returned(r, u))
           /\ Moves(r, AppendCommitted(r))
           /\ Moves(r, AcceptedWrite(r)) /\ Moves(r, RefusedWrite(r))
           /\ Moves(r, [r EXCEPT !.flushed = u])
<1>1. r.phase \notin Opened => Moves(r, FailedHandle)
  BY DEF Moves, FailedHandle, UnusedHandle
<1>2. Moves(r, Returned(r, u))
  BY DEF Moves, Returned, Handle
<1>3. Moves(r, AppendCommitted(r))
  BY DEF Moves, AppendCommitted, Returned, Handle
<1>4. Moves(r, AcceptedWrite(r)) /\ Moves(r, RefusedWrite(r))
  BY DEF Moves, AcceptedWrite, RefusedWrite, Handle
<1>5. Moves(r, [r EXCEPT !.flushed = u])
  BY DEF Moves, Handle
<1> QED  BY <1>1, <1>2, <1>3, <1>4, <1>5

LEMMA FlagsMove ==
    ASSUME NEW r \in Handle, NEW s \in Handle, NEW b, Moves(r, s)
    PROVE  Moves(r, MarkFault(s, b)) /\ Moves(r, MarkFlushed(s, b))
<1>1. \A u : Moves(r, [s EXCEPT !.fault = u]) /\ Moves(r, [s EXCEPT !.flushed = u])
  BY DEF Moves, Handle
<1> QED  BY <1>1 DEF MarkFault, MarkFlushed

\* open starts to wait for the hook on the inode: it has evicted its handle.
LEMMA OpenKeepsHooks ==
    ASSUME TypeOK, HooksKept, NEW h \in Handles, handle[h].phase = "looked", NEW st,
           OpenedFrom(h, st), map'.writer \in {NoHandle, h}, hook' = hook
    PROVE  HooksKept'
<1> USE NoHandleAssumption
<1>1. handle[h] \in Handle /\ hook \in Handles \cup {NoHandle} /\ handle \in [Handles -> Handle]
  BY DEF TypeOK
<1>2. hook # h /\ (\A w \in Handles : handle[w].awaits # h) /\ handle[h].op # "defer"
  BY DEF HooksKept, Opened
<1>3. PICK s : /\ handle' = [handle EXCEPT ![h] = s]
               /\ \/ s = NewHandleState(h, st.etag, st.size)
                  \/ s = [handle[h] EXCEPT !.phase = "awaitOpen", !.awaits = hook] /\ hook # NoHandle
  BY DEF OpenedFrom
<1>4. /\ s.awaits \in {handle[h].awaits, NoHandle, hook} /\ s.op # "defer"
  BY <1>1, <1>2, <1>3 DEF NewHandleState, FailedHandle, UnusedHandle, Handle
<1>5. /\ handle'[h] = s
      /\ \A g \in Handles : g # h => handle'[g] = handle[g]
  BY <1>1, <1>3
<1>6. \A w, g \in Handles : handle'[w].awaits = g => handle[w].awaits = g \/ hook = g
  BY <1>4, <1>5
<1>7. \A g \in Handles : handle[g].phase \in Opened => g # h /\ handle'[g].phase \in Opened
  BY <1>5 DEF Opened
<1>8. \A w, g \in Handles : handle'[w].awaits = g => g # h /\ handle'[g].phase \in Opened
  BY <1>6, <1>7 DEF HooksKept
<1>9. \A g \in Handles : handle'[g].awaits = g => handle'[g].phase = "awaitClose"
  BY <1>5, <1>8 DEF HooksKept
<1>10. \A g \in Handles : handle'[g].op = "defer" => handle'[g].phase = "open"
  BY <1>4, <1>5 DEF HooksKept
<1>11. \A g \in Handles : hook' = g => handle'[g].phase \in Opened
  BY <1>7 DEF HooksKept
<1> QED  BY <1>8, <1>9, <1>10, <1>11 DEF HooksKept

\* release starts to wait for the hook on the inode, of the writer or of a
\* handle that the writer has evicted.
LEMMA ReleaseKeepsHooks ==
    ASSUME TypeOK, HooksKept, NEW h \in Handles, ReleaseWriter(h)
    PROVE  HooksKept'
<1> USE NoHandleAssumption
<1>1. handle[h] \in Handle /\ hook \in Handles \cup {NoHandle} /\ handle \in [Handles -> Handle]
  BY DEF TypeOK
<1>2. map'.writer = map.writer /\ hook' \in {hook, h}
  BY FlushKeepsWriter DEF ReleaseWriter
<1>3. CASE ~FlushesWriter(h)
  <2>1. handle' = [handle EXCEPT ![h] = [handle[h] EXCEPT !.phase = "closed"]]
    BY <1>3 DEF ReleaseWriter
  <2>2. Moves(handle[h], [handle[h] EXCEPT !.phase = "closed"])
    BY <1>1 DEF Moves, Opened, ReleaseWriter, Handle
  <2>3. [handle[h] EXCEPT !.phase = "closed"].phase \in Opened
    BY <1>1 DEF Opened, Handle
  <2> QED  BY <1>2, <2>1, <2>2, <2>3, MovesKept
<1>4. CASE FlushesWriter(h)
  <2> DEFINE s == [handle[h] EXCEPT !.phase = "awaitClose", !.awaits = hook']
  <2>1. handle' = [handle EXCEPT ![h] = s]
    BY <1>4 DEF ReleaseWriter
  <2>2. s.phase = "awaitClose" /\ s.awaits = hook' /\ s.op = handle[h].op /\ handle[h].op # "defer"
    BY <1>1 DEF Handle, ReleaseWriter
  <2> HIDE DEF s
  <2>3. /\ handle'[h] = s
        /\ \A g \in Handles : g # h => handle'[g] = handle[g]
    BY <1>1, <2>1
  <2>4. map.writer = h
    BY <1>4 DEF FlushesWriter, IsWriter
  <2>5. \A g \in Handles : handle[g].phase \in Opened => handle'[g].phase \in Opened
    BY <2>2, <2>3 DEF Opened
  <2>6. handle'[h].phase \in Opened
    BY <2>2, <2>3 DEF Opened
  <2>7. \A g \in Handles : hook' = g => handle'[g].phase \in Opened
    BY <1>2, <2>5, <2>6 DEF HooksKept
  <2>8. \A w, g \in Handles : handle'[w].awaits = g => hook' = g \/ handle[w].awaits = g
    BY <2>2, <2>3
  <2>9. \A w, g \in Handles : handle'[w].awaits = g => handle'[g].phase \in Opened
    BY <2>5, <2>7, <2>8 DEF HooksKept
  <2>10. \A w, g \in Handles : handle'[w].awaits = g /\ map'.writer = g => w = g
    BY <1>2, <2>3, <2>4 DEF HooksKept
  <2>11. \A g \in Handles : handle'[g].awaits = g => handle'[g].phase = "awaitClose"
    BY <2>2, <2>3 DEF HooksKept
  <2>12. \A g \in Handles : handle'[g].op = "defer" => handle'[g].phase = "open"
    BY <2>2, <2>3 DEF HooksKept
  <2> QED  BY <2>7, <2>9, <2>10, <2>11, <2>12 DEF HooksKept
<1> QED  BY <1>3, <1>4

LEMMA HooksKeptStep == TypeOK /\ HooksKept /\ [Next]_vars => HooksKept'
<1> SUFFICES ASSUME TypeOK, HooksKept, [Next]_vars PROVE HooksKept'
  OBVIOUS
<1> USE NoHandleAssumption
<1>0. /\ handle \in [Handles -> Handle] /\ map \in InodeHandles
      /\ \A h \in Handles : handle[h] \in Handle
  BY DEF TypeOK
<1>1. ASSUME NEW h \in Handles, NEW flags \in OpenFlags, OpenLookup(h, flags) PROVE HooksKept'
  <2>1. PICK p, m, e : handle' = [handle EXCEPT ![h] =
                            [handle[h] EXCEPT !.phase = p, !.rw = m, !.trunc = flags.trunc, !.res = e]]
    BY <1>1 DEF OpenLookup
  <2> DEFINE s == [handle[h] EXCEPT !.phase = p, !.rw = m, !.trunc = flags.trunc, !.res = e]
  <2>2. s.awaits = handle[h].awaits /\ s.op = handle[h].op
    BY <1>0 DEF Handle
  <2> HIDE DEF s
  <2>3. Moves(handle[h], s)
    BY <1>1, <2>2 DEF OpenLookup, Moves, Opened, HooksKept
  <2> QED  BY <1>1, <2>1, <2>3, MovesKept DEF OpenLookup, s
<1>2. ASSUME NEW h \in Handles, OpenRevalidate(h) PROVE HooksKept'
  <2>1. Moves(handle[h], [handle[h] EXCEPT !.phase = "looked", !.res = 0])
    BY <1>0, <1>2 DEF OpenRevalidate, Moves, Opened, Handle, HooksKept
  <2>2. Moves(handle[h], FailedHandle)
    BY <1>0, <1>2, RecordMoves DEF OpenRevalidate, Opened
  <2>3. PICK s : handle' = [handle EXCEPT ![h] = s] /\ Moves(handle[h], s)
    BY <1>2, <2>1, <2>2 DEF OpenRevalidate
  <2> QED  BY <1>2, <2>3, MovesKept DEF OpenRevalidate
<1>3. ASSUME NEW h \in Handles, OpenHeadFails(h) \/ OpenRefused(h) PROVE HooksKept'
  <2>1. Moves(handle[h], FailedHandle)
    BY <1>0, <1>3, RecordMoves DEF OpenHeadFails, OpenRefused, Opened
  <2> QED  BY <1>3, <2>1, MovesKept DEF OpenHeadFails, OpenRefused, inodeVars
<1>4. ASSUME NEW h \in Handles, StartReading(h) PROVE HooksKept'
  <2>1. map'.writer = NoHandle
    BY <1>0, <1>4 DEF StartReading, AddReader, DropWriter, InodeHandles
  <2> QED  BY <1>4, <2>1, OpenKeepsHooks DEF StartReading
<1>5. ASSUME NEW h \in Handles, StartWriting(h) PROVE HooksKept'
  <2>1. map'.writer = h
    BY <1>5 DEF StartWriting, SetWriter
  <2> QED  BY <1>5, <2>1, OpenKeepsHooks DEF StartWriting
<1>6. ASSUME NEW h \in Handles, OpenAfterHook(h) PROVE HooksKept'
  <2>1. \A e, n : Moves(handle[h], NewHandleState(h, e, n))
    BY <1>0, <1>6 DEF OpenAfterHook, NewHandleState, FailedHandle, UnusedHandle, Moves, Opened, Handle
  <2>2. Moves(handle[h], FailedHandle)
    BY <1>0, <1>6, RecordMoves DEF OpenAfterHook, Opened
  <2>3. PICK s : handle' = [handle EXCEPT ![h] = s] /\ Moves(handle[h], s)
    BY <1>6, <2>1, <2>2 DEF OpenAfterHook
  <2> QED  BY <1>6, <2>3, MovesKept DEF OpenAfterHook, inodeVars
<1>7. ASSUME NEW h \in Handles, Read(h) \/ FlushReader(h) PROVE HooksKept'
  <2>1. PICK u : handle' = [handle EXCEPT ![h] = [handle[h] EXCEPT !.flushed = u]]
    BY <1>7 DEF Read, FlushReader
  <2>2. map'.writer = map.writer
    BY <1>0, <1>7 DEF Read, FlushReader, ActivateReader, DeactivateReader, InodeHandles
  <2>3. hook' = hook
    BY <1>7 DEF Read, FlushReader
  <2> QED  BY <1>0, <2>1, <2>2, <2>3, RecordMoves, MovesKept
<1>8. ASSUME NEW h \in Handles, Write(h) PROVE HooksKept'
  <2>1. PICK s : handle' = [handle EXCEPT ![h] = s] /\ Moves(handle[h], s)
    BY <1>0, <1>8, RecordMoves DEF Write
  <2>2. map'.writer = map.writer /\ hook' \in {hook, NoHandle}
    BY <1>0, <1>8 DEF Write, Reactivate, ActivateWriter, InodeHandles
  <2> QED  BY <2>1, <2>2, MovesKept
<1>9. ASSUME NEW h \in Handles, WriteReturns(h) PROVE HooksKept'
  <2> DEFINE r == [handle[h] EXCEPT !.op = "none", !.step = "none"]
  <2>1. r \in Handle
    BY <1>0, ZenonT(30) DEF Handle
  <2>2. Moves(handle[h], r)
    BY <1>0 DEF Moves, Handle
  <2>3. PICK b : handle' = [handle EXCEPT ![h] = MarkFault(r, b)]
    BY <1>9 DEF WriteReturns
  <2>4. map'.writer \in {map.writer, NoHandle} /\ hook' \in {hook, NoHandle}
    BY <1>9, FinishWriter DEF WriteReturns
  <2> HIDE DEF r
  <2> QED  BY <1>0, <2>1, <2>2, <2>3, <2>4, FlagsMove, MovesKept
<1>10. ASSUME NEW h \in Handles, NEW op, op = "defer" => handle[h].phase = "open",
              Uploading(h, op), UNCHANGED inodeVars
       PROVE  HooksKept'
  <2>1. Moves(handle[h], [handle[h] EXCEPT !.upload = "completed", !.op = op, !.step = "put"])
    BY <1>0, <1>10 DEF Moves, Handle
  <2> QED  BY <1>10, <2>1, MovesKept DEF Uploading, inodeVars
<1>11. ASSUME NEW h \in Handles, NEW samePid \in BOOLEAN, FlushDefers(h, samePid) PROVE HooksKept'
  <2> DEFINE s == [handle[h] EXCEPT !.flushed = TRUE]
  <2>1. handle' = [handle EXCEPT ![h] = s]
    BY <1>11 DEF FlushDefers
  <2>2. Moves(handle[h], s)
    BY <1>0, RecordMoves
  <2>3. s.phase \in Opened
    BY <1>0, <1>11 DEF FlushDefers, Idle, Opened, Handle
  <2>4. map'.writer = map.writer /\ hook' \in {hook, h}
    BY <1>11, FlushKeepsWriter DEF FlushDefers
  <2> HIDE DEF s
  <2> QED  BY <2>1, <2>2, <2>3, <2>4, MovesKept
<1>12. ASSUME NEW h \in Handles, FlushEnded(h) PROVE HooksKept'
  BY <1>0, <1>12, RecordMoves, MovesKept DEF FlushEnded, inodeVars
<1>13. ASSUME NEW h \in Handles, S3Put(h) \/ S3NoPut(h) \/ S3Refuses(h) PROVE HooksKept'
  <2>1. PICK s : handle' = [handle EXCEPT ![h] = s] /\ Moves(handle[h], s)
    <3>1. CASE S3Put(h)
      <4>1. PICK step \in {"ok", "err"} :
              handle' = [handle EXCEPT ![h] =
                           MarkFault([handle[h] EXCEPT !.step = step, !.res = object'.etag,
                                         !.pending = 0, !.offset = object'.size], step = "err")]
        BY <3>1 DEF S3Put
      <4>2. object'.etag \in Nat /\ object'.size \in Nat
        BY <1>0, <3>1 DEF S3Put, TypeOK, Handle
      <4>3. PICK e \in Nat, n \in Nat : e = object'.etag /\ n = object'.size
        BY <4>2
      <4> DEFINE r == [handle[h] EXCEPT !.step = step, !.res = e, !.pending = 0, !.offset = n]
      <4>4. r \in Handle
        BY <1>0, PutType
      <4>5. Moves(handle[h], r)
        BY <1>0 DEF Moves, Handle
      <4>6. handle' = [handle EXCEPT ![h] = MarkFault(r, step = "err")]
        BY <4>1, <4>3
      <4> HIDE DEF r
      <4> QED  BY <1>0, <4>4, <4>5, <4>6, FlagsMove
    <3>2. CASE S3NoPut(h)
      <4>1. Moves(handle[h], [handle[h] EXCEPT !.step = "ok", !.res = handle[h].etag])
        BY <1>0 DEF Moves, Handle
      <4> QED  BY <3>2, <4>1 DEF S3NoPut
    <3>3. CASE S3Refuses(h)
      <4>1. Moves(handle[h], [handle[h] EXCEPT !.step = "err", !.fault = TRUE])
        BY <1>0 DEF Moves, Handle
      <4> QED  BY <3>3, <4>1 DEF S3Refuses
    <3> QED  BY <1>13, <3>1, <3>2, <3>3
  <2>2. UNCHANGED <<map, hook>>
    BY <1>13 DEF S3Put, S3NoPut, S3Refuses, inodeVars
  <2> QED  BY <2>1, <2>2, MovesKept
<1>14. ASSUME NEW h \in Handles, FsyncReturns(h) PROVE HooksKept'
  BY <1>0, <1>14, RecordMoves, MovesKept DEF FsyncReturns, inodeVars
<1>15. ASSUME NEW h \in Handles, DeferReturns(h) PROVE HooksKept'
  <2> DEFINE r == AppendCommitted(handle[h])
  <2>1. r \in Handle /\ Moves(handle[h], r)
    BY <1>0, RecordMoves, AppendCommittedType
  <2>2. PICK b : handle' = [handle EXCEPT ![h] = MarkFlushed(r, b)]
    BY <1>15 DEF DeferReturns
  <2>3. map'.writer = map.writer /\ hook' \in {hook, h}
    BY <1>15, FlushKeepsWriter DEF DeferReturns, inodeVars
  <2>4. handle[h].phase = "open"
    BY <1>15 DEF DeferReturns, Responded, HooksKept
  <2>5. r.phase = "open"
    BY <1>0, <2>4 DEF AppendCommitted, Returned, Handle
  <2> HIDE DEF r
  <2>6. MarkFlushed(r, b).phase \in Opened
    BY <2>1, <2>5 DEF MarkFlushed, Opened, Handle
  <2> QED  BY <1>0, <2>1, <2>2, <2>3, <2>6, FlagsMove, MovesKept
<1>16. ASSUME NEW h \in Handles, CompleteReturns(h) PROVE HooksKept'
  <2>1. PICK u \in {"completed", "failed"}, b \in BOOLEAN :
          handle' = [handle EXCEPT ![h] = MarkFlushed(Returned(handle[h], u), b)]
    BY <1>16 DEF CompleteReturns
  <2>2. Returned(handle[h], u) \in Handle /\ Moves(handle[h], Returned(handle[h], u))
    BY <1>0, RecordMoves, ReturnedType
  <2>3. map'.writer \in {map.writer, NoHandle} /\ hook' \in {hook, NoHandle}
    BY <1>16, FinishWriter DEF CompleteReturns
  <2> QED  BY <1>0, <2>1, <2>2, <2>3, FlagsMove, MovesKept
<1>17. ASSUME NEW h \in Handles, HookReturns(h) PROVE HooksKept'
  <2>1. map'.writer \in {map.writer, NoHandle} /\ hook' \in {hook, NoHandle}
    BY <1>17, FinishWriter DEF HookReturns
  <2> QED  BY <1>0, <1>17, <2>1, RecordMoves, MovesKept DEF HookReturns
<1>18. ASSUME UNCHANGED <<handle, hook>>, map'.writer \in {map.writer, NoHandle} PROVE HooksKept'
  BY <1>18 DEF HooksKept
<1>19. ASSUME NEW h \in Handles, HookRuns(h) PROVE HooksKept'
  BY <1>10, <1>18, <1>19 DEF HookRuns, inodeVars
<1>20. ASSUME NEW h \in Handles, Close(h) PROVE HooksKept'
  <2>1. Moves(handle[h], [handle[h] EXCEPT !.phase = "closing"])
    BY <1>0, <1>20 DEF Close, Idle, Moves, Opened, Handle
  <2> QED  BY <1>20, <2>1, MovesKept DEF Close, inodeVars
<1>21. ASSUME NEW h \in Handles, ReleaseReader(h) PROVE HooksKept'
  <2>1. Moves(handle[h], [UnusedHandle EXCEPT !.phase = "closed"])
    BY DEF Moves, Opened, UnusedHandle
  <2>2. map'.writer = map.writer /\ hook' = hook
    BY <1>0, <1>21 DEF ReleaseReader, RemoveReader, InodeHandles
  <2> QED  BY <1>21, <2>1, <2>2, MovesKept DEF ReleaseReader
<1>22. ASSUME NEW h \in Handles, ReleaseAfterHook(h) PROVE HooksKept'
  <2>1. Moves(handle[h], [handle[h] EXCEPT !.phase = "closed", !.awaits = NoHandle])
    BY <1>0, <1>22 DEF ReleaseAfterHook, HooksKept, Moves, Opened, Handle
  <2> QED  BY <1>22, <2>1, MovesKept DEF ReleaseAfterHook, inodeVars
<1>23. CASE Forget \/ RenameBegins \/ RenameFails \/ Expire \/ UNCHANGED vars
  <2>1. UNCHANGED <<handle, hook>> /\ map'.writer \in {map.writer, NoHandle}
    BY <1>23 DEF Forget, RenameBegins, RenameFails, Expire, vars, inodeVars, RemoveInode, Empty
  <2> QED  BY <1>18, <2>1
<1>24. ASSUME NEW h \in Handles, Application(h) PROVE HooksKept'
  <2>1. CASE Fsync(h)
    BY <1>10, <2>1 DEF Fsync
  <2>2. ASSUME NEW samePid \in BOOLEAN, FlushCompletes(h, samePid) \/ FlushCommits(h, samePid)
        PROVE  HooksKept'
    BY <1>10, <2>2 DEF FlushCompletes, FlushCommits, Idle
  <2> QED  BY <1>1, <1>7, <1>8, <1>11, <1>12, <1>20, <1>24, <2>1, <2>2 DEF Application
<1>25. ASSUME NEW h \in Handles, HandleStep(h) PROVE HooksKept'
  BY <1>2, <1>3, <1>4, <1>5, <1>6, <1>9, <1>13, <1>14, <1>15, <1>16, <1>17, <1>19, <1>21, <1>22,
     <1>25, ReleaseKeepsHooks DEF HandleStep
<1> QED  BY <1>3, <1>23, <1>24, <1>25 DEF Next

\* flush_writer makes a hook only for a handle that nobody waits for.
LEMMA NewHookUnawaited ==
    ASSUME TypeOK, HooksKept, NEW h \in Handles, FlushWriter(h), handle[h].phase # "awaitClose",
           NEW g \in Handles, result[g].state # "fresh", result'[g].state = "fresh"
    PROVE  \A w \in Handles : handle[w].awaits # g
<1>1. FlushesWriter(h) /\ g = h
  BY DEF FlushWriter, TypeOK
<1>2. map.writer = h
  BY <1>1 DEF FlushesWriter, IsWriter
<1> QED  BY <1>1, <1>2 DEF HooksKept

\* While an open or a release waits for the upload of a handle, the hook it
\* waits for is not replaced by a new one, whatever fails, for any number of
\* handles that take over from each other.
THEOREM AwaitedHooksAreKept == Spec => AwaitedHookKept
<1> DEFINE Kept == \A h \in Handles :
                      result[h].state # "fresh" /\ result'[h].state = "fresh"
                         => \A w \in Handles : handle[w].awaits # h
<1>1. Init => HooksKept
  BY NoHandleAssumption DEF Init, HooksKept, UnusedHandle
<1>2. ASSUME TypeOK, HooksKept, [Next]_vars PROVE Kept
  <2>1. SUFFICES ASSUME NEW g \in Handles, result[g].state # "fresh", result'[g].state = "fresh"
                 PROVE  \A w \in Handles : handle[w].awaits # g
    OBVIOUS
  <2>2. result' # result
    BY <2>1
  <2>3. ASSUME NEW h \in Handles, Application(h)
        PROVE  \E samePid \in BOOLEAN : FlushDefers(h, samePid)
    BY <2>2, <2>3 DEF Application, OpenLookup, Read, Write, Fsync, FlushReader, FlushEnded, Close,
                      FlushCompletes, FlushCommits
  <2>4. ASSUME NEW h \in Handles, FlushWriter(h), handle[h].phase # "awaitClose"
        PROVE  \A w \in Handles : handle[w].awaits # g
    BY <1>2, <2>1, <2>4, NewHookUnawaited
  <2>5. ASSUME NEW h \in Handles, HandleStep(h) PROVE \A w \in Handles : handle[w].awaits # g
    <3>1. DeferReturns(h) \/ ReleaseWriter(h) \/ HookRuns(h) \/ HookReturns(h)
      BY <2>2, <2>5 DEF HandleStep, OpenRevalidate, StartReading, StartWriting, OpenRefused,
            OpenAfterHook, WriteReturns, S3Put, S3NoPut, S3Refuses, FsyncReturns, CompleteReturns,
            ReleaseReader, ReleaseAfterHook
    <3>2. CASE DeferReturns(h)
      <4>1. FlushWriter(h)
        BY <2>2, <3>2 DEF DeferReturns
      <4>2. handle[h].phase = "open"
        BY <1>2, <3>2 DEF DeferReturns, Responded, HooksKept
      <4> QED  BY <2>4, <4>1, <4>2
    <3>3. CASE ReleaseWriter(h)
      BY <2>4, <3>3 DEF ReleaseWriter
    <3>4. CASE HookRuns(h)
      BY <1>2, <2>1, <3>4 DEF HookRuns, TypeOK, HookResult
    <3>5. CASE HookReturns(h)
      BY <1>2, <2>1, <3>5 DEF HookReturns, TypeOK, HookResult
    <3> QED  BY <3>1, <3>2, <3>3, <3>4, <3>5
  <2>6. \E h \in Handles : Application(h) \/ HandleStep(h)
    BY <1>2, <2>2 DEF Next, OpenHeadFails, Forget, RenameBegins, RenameFails, Expire, vars
  <2>7. ASSUME NEW h \in Handles, Application(h) PROVE \A w \in Handles : handle[w].awaits # g
    BY <2>3, <2>4, <2>7 DEF FlushDefers, Idle
  <2> QED  BY <2>5, <2>6, <2>7
<1>3. TypeOK /\ HooksKept /\ [Next]_vars => [Kept]_vars
  BY <1>2
<1> QED  BY <1>1, <1>3, TypeCorrect, HooksKeptStep, PTL DEF Spec, AwaitedHookKept

-----------------------------------------------------------------------------
(***************************************************************************)
(* What the handles promise as long as nothing fails, for multi-part       *)
(* uploads: readers or a single writer, no data lost on release, and read  *)
(* after write.  With failures, or with a rename or a forget between two   *)
(* requests, the code breaks these promises (README.md).                   *)
(***************************************************************************)

Quiet == ~Incremental /\ ~MayFail /\ ~Renames /\ ~Forgets

-----------------------------------------------------------------------------
\* The inductive invariant

\* What the state of a handle can be, by itself.
Unopened(r) == r.phase \in {"unused", "head", "looked", "failed"}

Fresh(r) ==
    Unopened(r) \/ r.phase = "awaitOpen" =>
        r.op = "none" /\ r.upload = "none" /\ r.pending = 0 /\ ~r.flushed

Awaits(r) == r.awaits # NoHandle <=> r.phase \in {"awaitOpen", "awaitClose"}

Reader(r) ==
    r.rw = "R" => r.upload = "none" /\ r.op = "none" /\ r.pending = 0 /\ r.phase # "awaitClose"

Puts(r) == r.op \in {"fsync", "flush", "hook"}

Requests(r) ==
    /\ r.op # "defer" /\ r.step # "err" /\ r.upload # "failed"
    /\ r.op = "none" => r.step = "none"
    /\ r.op = "write" => r.step = "ok" /\ r.upload = "progress"
    /\ r.op \in {"write", "fsync", "flush"} => r.phase = "open"
    /\ Puts(r) => r.step \in {"put", "ok"} /\ r.upload = "completed"
    /\ Puts(r) /\ r.step = "ok" => r.res # 0 /\ r.pending = 0

Pending(r) == r.pending > 0 => r.upload = "progress" \/ r.step = "put"

Shape(r) == Fresh(r) /\ Awaits(r) /\ Reader(r) /\ Requests(r) /\ Pending(r)

Shapes == \A h \in Handles : Shape(handle[h])

\* Nothing disturbs the inode, and a file not opened yet has no open handle.
Calm ==
    /\ present /\ status # "PendingRename"
    /\ status = "LocalUnopened" => hook = NoHandle /\ \A h \in Handles : Unopened(handle[h])

\* A handle that can be used, or will be when open returns, is active in the
\* handle map.
LiveState(r) ==
    \/ r.phase = "awaitOpen"
    \/ /\ r.phase = "open" /\ ~r.flushed
       /\ r.rw = "W" => r.upload = "progress" \/ r.op # "none"

ActiveIn(h, rw) ==
    IF rw = "R" THEN map.readers[h] = "Active" ELSE map.writer = h /\ map.writerState = "Active"

LiveInMap == \A h \in Handles : LiveState(handle[h]) => ActiveIn(h, handle[h].rw)

\* An upload that has not ended is that of the current writer, or somebody
\* will complete it through the hook of the inode.
Busy(r) == r.upload = "progress" \/ r.op # "none"

BusyTracked == \A h \in Handles : Busy(handle[h]) => map.writer = h \/ hook = h

\* While open waits for a hook, there is no other one on the inode.
AwaitsHook ==
    \A h \in Handles : handle[h].phase = "awaitOpen" => hook \in {NoHandle, handle[h].awaits}

\* The writer has an upload that goes on; the hook, if any, is its own; and
\* it has one when another handle may evict it.
WriterHook ==
    \A w \in Handles : map.writer = w =>
        /\ handle[w].rw = "W"
        /\ handle[w].phase \in {"awaitOpen", "open", "closing", "awaitClose"}
        /\ handle[w].phase # "awaitOpen" => hook \in {NoHandle, w} /\ Busy(handle[w])
        /\ map.writerState = "Inactive" \/ handle[w].phase = "awaitClose" => hook = w

\* The hook of the inode is not done, and once its handle is not the writer
\* somebody waits for it.
HookGoes == \A h \in Handles : hook = h => result[h].state \in {"fresh", "running"} /\ Busy(handle[h])

HookAwaited ==
    \A h \in Handles : hook = h /\ map.writer # h => \E w \in Handles : handle[w].awaits = h

HookStates ==
    \A h \in Handles :
        /\ result[h].state = "running" <=> handle[h].op = "hook"
        /\ result[h].state # "err"
        /\ handle[h].phase = "awaitClose" => handle[h].awaits = h

\* The stat of the inode tells of the last version learned of, and so does
\* the result of a hook that an open is about to take.
StatAcked == acked = stat.etag

LookupAcked ==
    \A h, g \in Handles :
        handle[h].phase = "awaitOpen" /\ handle[h].awaits = g /\ result[g].state = "lookup" =>
            result[g].etag = stat.etag

QuietInv ==
    /\ Shapes /\ Calm /\ LiveInMap /\ BusyTracked /\ AwaitsHook /\ WriterHook
    /\ HookGoes /\ HookAwaited /\ HookStates /\ StatAcked /\ LookupAcked

TypedInv == TypeOK /\ MapSafe /\ QuietInv

-----------------------------------------------------------------------------
\* Lemmas

LEMMA InitQuiet == Init => QuietInv
<1> SUFFICES ASSUME Init PROVE QuietInv
  OBVIOUS
<1> USE NoHandleAssumption
<1>1. \A h \in Handles : handle[h] = UnusedHandle
  BY DEF Init
<1>2. Shape(UnusedHandle) /\ Unopened(UnusedHandle) /\ ~Busy(UnusedHandle) /\ ~LiveState(UnusedHandle)
  BY DEF UnusedHandle, Shape, Fresh, Awaits, Reader, Puts, Requests, Pending, Unopened, Busy, LiveState
<1>3. UnusedHandle.phase = "unused" /\ UnusedHandle.op = "none"
  BY DEF UnusedHandle
<1>4. Shapes /\ Calm /\ LiveInMap /\ BusyTracked
  BY <1>1, <1>2 DEF Init, Shapes, Calm, LiveInMap, BusyTracked
<1>5. AwaitsHook /\ WriterHook /\ HookGoes /\ HookAwaited /\ HookStates /\ LookupAcked
  BY <1>1, <1>3 DEF Init, Empty, AwaitsHook, WriterHook, HookGoes, HookAwaited, HookStates, LookupAcked
<1>6. StatAcked
  BY DEF Init, StatAcked
<1> QED  BY <1>4, <1>5, <1>6 DEF QuietInv

\* The writer of the map stays where it is, or is closed.
StaysWriter(h, r) ==
    map.writer = h =>
        /\ r.rw = "W"
        /\ r.phase = handle[h].phase \/ (handle[h].phase = "open" /\ r.phase = "closing")

\* A step on a handle that changes nothing others depend on.
LEMMA HandleOnly ==
    ASSUME TypedInv, NEW h \in Handles, NEW r,
           handle' = [handle EXCEPT ![h] = r],
           UNCHANGED <<present, status, hook, map, result, acked>>,
           stat'.etag = stat.etag,
           Shape(r),
           Unopened(handle[h]) => Unopened(r),
           LiveState(r) => LiveState(handle[h]) /\ r.rw = handle[h].rw,
           r.phase \in {"awaitOpen", "awaitClose"} => r.phase = handle[h].phase,
           Busy(r) <=> Busy(handle[h]),
           r.awaits = handle[h].awaits,
           r.op = "hook" <=> handle[h].op = "hook",
           StaysWriter(h, r)
    PROVE  QuietInv'
<1>1. handle'[h] = r /\ \A g \in Handles : g # h => handle'[g] = handle[g]
  BY DEF TypedInv, TypeOK
<1>2. QuietInv
  BY DEF TypedInv
<1>3. Shapes'
  BY <1>1, <1>2 DEF QuietInv, Shapes
<1>4. Calm'
  BY <1>1, <1>2 DEF QuietInv, Calm
<1>5. LiveInMap'
  BY <1>1, <1>2 DEF QuietInv, LiveInMap, ActiveIn
<1>6. BusyTracked'
  BY <1>1, <1>2 DEF QuietInv, BusyTracked
<1>7. AwaitsHook'
  BY <1>1, <1>2 DEF QuietInv, AwaitsHook
<1>8. WriterHook'
  BY <1>1, <1>2 DEF QuietInv, WriterHook, StaysWriter
<1>9. HookGoes'
  BY <1>1, <1>2 DEF QuietInv, HookGoes
<1>10. HookAwaited'
  BY <1>1, <1>2 DEF QuietInv, HookAwaited
<1>11. HookStates'
  BY <1>1, <1>2 DEF QuietInv, HookStates
<1>12. StatAcked'
  BY <1>2 DEF QuietInv, StatAcked
<1>13. LookupAcked'
  BY <1>1, <1>2 DEF QuietInv, LookupAcked
<1> QED  BY <1>3, <1>4, <1>5, <1>6, <1>7, <1>8, <1>9, <1>10, <1>11, <1>12, <1>13 DEF QuietInv

LEMMA FailedHandleShape ==
    /\ Shape(FailedHandle) /\ Unopened(FailedHandle) /\ ~Busy(FailedHandle) /\ ~LiveState(FailedHandle)
    /\ FailedHandle.phase = "failed" /\ FailedHandle.op = "none" /\ FailedHandle.awaits = NoHandle
BY DEF FailedHandle, UnusedHandle, Shape, Fresh, Awaits, Reader, Puts, Requests, Pending, Unopened,
       Busy, LiveState

\* A handle that open has not returned has no place in the map and no upload.
LEMMA UnopenedHandle ==
    ASSUME TypedInv, NEW h \in Handles, Unopened(handle[h])
    PROVE  /\ handle[h].op = "none" /\ handle[h].upload = "none" /\ handle[h].pending = 0
           /\ handle[h].flushed = FALSE /\ handle[h].awaits = NoHandle /\ handle[h].step = "none"
           /\ ~Busy(handle[h]) /\ map.writer # h /\ hook # h
<1>1. Shape(handle[h]) /\ handle[h] \in Handle
  BY DEF TypedInv, TypeOK, QuietInv, Shapes
<1>2. /\ handle[h].op = "none" /\ handle[h].upload = "none" /\ handle[h].pending = 0
      /\ handle[h].flushed = FALSE /\ handle[h].step = "none"
  BY <1>1 DEF Shape, Fresh, Requests, Handle
<1>3. handle[h].awaits = NoHandle
  BY <1>1 DEF Shape, Awaits, Unopened
<1>4. ~Busy(handle[h])
  BY <1>2 DEF Busy
<1>5. map.writer # h
  BY DEF TypedInv, QuietInv, WriterHook, Unopened
<1>6. hook # h
  BY <1>4 DEF TypedInv, QuietInv, HookGoes
<1> QED  BY <1>2, <1>3, <1>4, <1>5, <1>6

\* A handle whose open ends without success.
LEMMA OpenFails ==
    ASSUME TypedInv, NEW h \in Handles, Unopened(handle[h]),
           handle' = [handle EXCEPT ![h] = FailedHandle],
           UNCHANGED <<present, status, hook, map, result, acked>>, stat'.etag = stat.etag
    PROVE  QuietInv'
<1>1. /\ ~Busy(handle[h]) /\ handle[h].awaits = NoHandle /\ handle[h].op = "none" /\ map.writer # h
  BY UnopenedHandle
<1>2. StaysWriter(h, FailedHandle)
  BY <1>1 DEF StaysWriter
<1> QED  BY <1>1, <1>2, FailedHandleShape, HandleOnly

LEMMA LookupQuiet ==
    ASSUME TypedInv, NEW h \in Handles, NEW flags \in OpenFlags, OpenLookup(h, flags)
    PROVE  QuietInv'
<1> DEFINE r == handle'[h]
<1>1. handle[h].phase = "unused" /\ Unopened(handle[h])
  BY DEF OpenLookup, Unopened
<1>2. /\ handle[h].op = "none" /\ handle[h].upload = "none" /\ handle[h].pending = 0
      /\ handle[h].flushed = FALSE /\ handle[h].awaits = NoHandle /\ handle[h].step = "none"
      /\ ~Busy(handle[h]) /\ map.writer # h
  BY <1>1, UnopenedHandle
<1>3. handle' = [handle EXCEPT ![h] = r] /\ handle[h] \in Handle
  BY DEF OpenLookup, TypedInv, TypeOK
<1>4. /\ r.phase \in {"looked", "head"} /\ r.op = "none" /\ r.upload = "none" /\ r.pending = 0
      /\ r.flushed = FALSE /\ r.awaits = NoHandle /\ r.step = "none"
  BY <1>2 DEF OpenLookup, TypedInv, TypeOK, Handle
<1> HIDE DEF r
<1>5. Shape(r) /\ Unopened(r) /\ ~Busy(r) /\ ~LiveState(r)
  BY <1>4 DEF Shape, Fresh, Awaits, Reader, Puts, Requests, Pending, Unopened, Busy, LiveState
<1>6. stat'.etag = stat.etag /\ UNCHANGED <<present, status, hook, map, result, acked>>
  BY DEF OpenLookup, TypedInv, TypeOK
<1>7. StaysWriter(h, r)
  BY <1>2 DEF StaysWriter
<1> QED  BY <1>2, <1>3, <1>4, <1>5, <1>6, <1>7, HandleOnly

LEMMA RevalidateQuiet ==
    ASSUME TypedInv, NEW h \in Handles, OpenRevalidate(h)
    PROVE  QuietInv'
<1> DEFINE r == handle'[h]
<1>1. handle[h].phase = "head" /\ Unopened(handle[h])
  BY DEF OpenRevalidate, Unopened
<1>2. /\ handle[h].op = "none" /\ handle[h].upload = "none" /\ handle[h].pending = 0
      /\ handle[h].flushed = FALSE /\ handle[h].awaits = NoHandle /\ handle[h].step = "none"
      /\ ~Busy(handle[h]) /\ map.writer # h
  BY <1>1, UnopenedHandle
<1>3. stat'.etag = stat.etag /\ UNCHANGED <<present, status, hook, map, result, acked>>
  BY DEF OpenRevalidate, TypedInv, TypeOK
<1>4. CASE handle' = [handle EXCEPT ![h] = FailedHandle]
  BY <1>1, <1>3, <1>4, OpenFails
<1>5. CASE handle' = [handle EXCEPT ![h] = [@ EXCEPT !.phase = "looked", !.res = 0]]
  <2>1. /\ handle' = [handle EXCEPT ![h] = r] /\ r.phase = "looked" /\ r.op = "none" /\ r.upload = "none"
        /\ r.pending = 0 /\ r.flushed = FALSE /\ r.awaits = NoHandle /\ r.step = "none"
    BY <1>2, <1>5 DEF TypedInv, TypeOK, Handle
  <2> HIDE DEF r
  <2>2. Shape(r) /\ Unopened(r) /\ ~Busy(r) /\ ~LiveState(r)
    BY <2>1 DEF Shape, Fresh, Awaits, Reader, Puts, Requests, Pending, Unopened, Busy, LiveState
  <2>3. StaysWriter(h, r)
    BY <1>2 DEF StaysWriter
  <2> QED  BY <1>2, <1>3, <2>1, <2>2, <2>3, HandleOnly
<1> QED  BY <1>4, <1>5 DEF OpenRevalidate

LEMMA RefusedQuiet ==
    ASSUME TypedInv, NEW h \in Handles, OpenRefused(h)
    PROVE  QuietInv'
<1>1. Unopened(handle[h]) /\ handle' = [handle EXCEPT ![h] = FailedHandle]
  BY DEF OpenRefused, Unopened
<1>2. stat'.etag = stat.etag /\ UNCHANGED <<present, status, hook, map, result, acked>>
  BY DEF OpenRefused, inodeVars
<1> QED  BY <1>1, <1>2, OpenFails

\* The upload is taken out of the handle.
LEMMA UploadingQuiet ==
    ASSUME TypedInv, NEW h \in Handles, NEW op \in {"fsync", "flush"}, Idle(h),
           handle[h].upload = "progress", Uploading(h, op), UNCHANGED <<inodeVars, result, acked>>
    PROVE  QuietInv'
<1> DEFINE r == handle'[h]
<1>1. handle[h].phase = "open" /\ handle[h].op = "none" /\ handle[h] \in Handle /\ Shape(handle[h])
  BY DEF Idle, TypedInv, TypeOK, QuietInv, Shapes
<1>2. /\ handle' = [handle EXCEPT ![h] = r] /\ r.phase = "open" /\ r.op = op /\ r.upload = "completed"
      /\ r.step = "put" /\ r.rw = handle[h].rw /\ r.pending = handle[h].pending
      /\ r.flushed = handle[h].flushed /\ r.awaits = handle[h].awaits
  BY <1>1 DEF Uploading, TypedInv, TypeOK, Handle
<1>3. handle[h].rw = "W" /\ handle[h].awaits = NoHandle
  BY <1>1 DEF Shape, Reader, Awaits, Handle
<1> HIDE DEF r
<1>4. Shape(r) /\ Busy(r) /\ Busy(handle[h]) /\ ~Unopened(handle[h])
  BY <1>1, <1>2, <1>3 DEF Shape, Fresh, Awaits, Reader, Puts, Requests, Pending, Unopened, Busy
<1>5. LiveState(r) => LiveState(handle[h])
  BY <1>1, <1>2 DEF LiveState
<1>6. stat'.etag = stat.etag /\ UNCHANGED <<present, status, hook, map, result, acked>>
  BY DEF inodeVars
<1>7. StaysWriter(h, r)
  BY <1>1, <1>2, <1>3 DEF StaysWriter
<1> QED  BY <1>1, <1>2, <1>3, <1>4, <1>5, <1>6, <1>7, HandleOnly

LEMMA FlushEndedQuiet ==
    ASSUME TypedInv, NEW h \in Handles, FlushEnded(h)
    PROVE  QuietInv'
<1> DEFINE r == handle'[h]
<1>1. handle[h].phase = "open" /\ handle[h].op = "none" /\ handle[h] \in Handle /\ Shape(handle[h])
  BY DEF FlushEnded, Idle, TypedInv, TypeOK, QuietInv, Shapes
<1>2. /\ handle' = [handle EXCEPT ![h] = r] /\ r.phase = "open" /\ r.op = "none" /\ r.upload = handle[h].upload
      /\ r.step = handle[h].step /\ r.rw = handle[h].rw /\ r.pending = handle[h].pending
      /\ r.flushed = TRUE /\ r.awaits = handle[h].awaits
  BY <1>1 DEF FlushEnded, TypedInv, TypeOK, Handle
<1> HIDE DEF r
<1>3. Shape(r) /\ ~LiveState(r) /\ ~Unopened(handle[h]) /\ (Busy(r) <=> Busy(handle[h]))
  BY <1>1, <1>2 DEF Shape, Fresh, Awaits, Reader, Puts, Requests, Pending, Unopened, Busy, LiveState
<1>4. map.writer = h => handle[h].rw = "W"
  BY DEF TypedInv, QuietInv, WriterHook
<1>5. stat'.etag = stat.etag /\ UNCHANGED <<present, status, hook, map, result, acked>>
  BY DEF FlushEnded, inodeVars
<1>6. StaysWriter(h, r)
  BY <1>1, <1>2, <1>4 DEF StaysWriter
<1> QED  BY <1>1, <1>2, <1>3, <1>4, <1>5, <1>6, HandleOnly

LEMMA CloseQuiet ==
    ASSUME TypedInv, NEW h \in Handles, Close(h)
    PROVE  QuietInv'
<1> DEFINE r == handle'[h]
<1>1. handle[h].phase = "open" /\ handle[h].op = "none" /\ handle[h] \in Handle /\ Shape(handle[h])
  BY DEF Close, Idle, TypedInv, TypeOK, QuietInv, Shapes
<1>2. /\ handle' = [handle EXCEPT ![h] = r] /\ r.phase = "closing" /\ r.op = "none" /\ r.upload = handle[h].upload
      /\ r.step = handle[h].step /\ r.rw = handle[h].rw /\ r.pending = handle[h].pending
      /\ r.flushed = handle[h].flushed /\ r.awaits = handle[h].awaits
  BY <1>1 DEF Close, TypedInv, TypeOK, Handle
<1> HIDE DEF r
<1>3. Shape(r) /\ ~LiveState(r) /\ ~Unopened(handle[h]) /\ (Busy(r) <=> Busy(handle[h]))
  BY <1>1, <1>2 DEF Shape, Fresh, Awaits, Reader, Puts, Requests, Pending, Unopened, Busy, LiveState
<1>4. map.writer = h => handle[h].rw = "W"
  BY DEF TypedInv, QuietInv, WriterHook
<1>5. stat'.etag = stat.etag /\ UNCHANGED <<present, status, hook, map, result, acked>>
  BY DEF Close, inodeVars
<1>6. StaysWriter(h, r)
  BY <1>1, <1>2, <1>4 DEF StaysWriter
<1> QED  BY <1>1, <1>2, <1>3, <1>4, <1>5, <1>6, HandleOnly

\* inc_file_size; the write has not failed.
LEMMA WriteReturnsQuiet ==
    ASSUME TypedInv, NEW h \in Handles, WriteReturns(h)
    PROVE  QuietInv'
<1> DEFINE r == handle'[h]
<1>1. /\ handle[h].op = "write" /\ handle[h].step = "ok" /\ handle[h].upload = "progress"
      /\ handle[h].phase = "open" /\ handle[h] \in Handle /\ Shape(handle[h])
  BY DEF WriteReturns, TypedInv, TypeOK, QuietInv, Shapes, Shape, Requests
<1>2. /\ handle' = [handle EXCEPT ![h] = r] /\ r.phase = "open" /\ r.op = "none" /\ r.upload = "progress"
      /\ r.step = "none" /\ r.rw = handle[h].rw /\ r.pending = handle[h].pending
      /\ r.flushed = handle[h].flushed /\ r.awaits = handle[h].awaits
  BY <1>1 DEF WriteReturns, MarkFault, TypedInv, TypeOK, Handle
<1>3. handle[h].rw = "W"
  BY <1>1 DEF Shape, Reader, Handle
<1> HIDE DEF r
<1>4. Shape(r) /\ ~Unopened(handle[h]) /\ Busy(r) /\ Busy(handle[h])
  BY <1>1, <1>2, <1>3 DEF Shape, Fresh, Awaits, Reader, Puts, Requests, Pending, Unopened, Busy
<1>5. LiveState(r) => LiveState(handle[h])
  BY <1>1, <1>2 DEF LiveState
<1>6. stat'.etag = stat.etag /\ UNCHANGED <<present, status, hook, map, result, acked>>
  BY <1>1 DEF WriteReturns, TypedInv, TypeOK
<1>7. StaysWriter(h, r)
  BY <1>1, <1>2, <1>3 DEF StaysWriter
<1> QED  BY <1>1, <1>2, <1>3, <1>4, <1>5, <1>6, <1>7, HandleOnly

\* S3 takes the object; the response does not get lost.
LEMMA PutQuiet ==
    ASSUME Quiet, TypedInv, NEW h \in Handles, S3Put(h)
    PROVE  QuietInv'
<1> DEFINE r == handle'[h]
<1>1. handle[h].step = "put" /\ handle[h] \in Handle /\ Shape(handle[h])
  BY DEF S3Put, TypedInv, TypeOK, QuietInv, Shapes
<1>2. Puts(handle[h]) /\ handle[h].upload = "completed" /\ handle[h].rw = "W"
  BY <1>1 DEF Shape, Requests, Puts, Reader, Handle
<1>3. object'.etag # 0 /\ object'.etag \in Nat
  BY DEF S3Put, TypedInv, TypeOK
<1>4. PICK step \in {"ok"} :
          handle' = [handle EXCEPT ![h] =
                       MarkFault([@ EXCEPT !.step = step, !.res = object'.etag, !.pending = 0,
                                           !.offset = object'.size], step = "err")]
  BY DEF S3Put, Quiet
<1>5. /\ handle' = [handle EXCEPT ![h] = r] /\ r.phase = handle[h].phase /\ r.op = handle[h].op
      /\ r.upload = "completed" /\ r.step = "ok" /\ r.rw = "W" /\ r.pending = 0
      /\ r.flushed = handle[h].flushed /\ r.awaits = handle[h].awaits /\ r.res = object'.etag
  BY <1>1, <1>2, <1>4 DEF MarkFault, TypedInv, TypeOK, Handle
<1> HIDE DEF r
<1>6. Shape(r) /\ Busy(r) /\ Busy(handle[h]) /\ ~Unopened(handle[h])
  BY <1>1, <1>2, <1>3, <1>5 DEF Shape, Fresh, Awaits, Reader, Puts, Requests, Pending, Unopened, Busy
<1>7. (LiveState(r) => LiveState(handle[h])) /\ handle[h].phase # "awaitOpen"
  BY <1>1, <1>2, <1>5 DEF LiveState, Shape, Fresh, Puts
<1>8. stat'.etag = stat.etag /\ UNCHANGED <<present, status, hook, map, result, acked>>
  BY DEF S3Put, inodeVars
<1>9. StaysWriter(h, r)
  BY <1>2, <1>5 DEF StaysWriter
<1> QED  BY <1>2, <1>5, <1>6, <1>7, <1>8, <1>9, HandleOnly

-----------------------------------------------------------------------------
\* open

\* What FileHandleState::new makes.
LEMMA OpenedHandle ==
    ASSUME TypedInv, NEW h \in Handles, Unopened(handle[h]) \/ handle[h].phase = "awaitOpen",
           NEW e \in Nat, NEW n \in Nat
    PROVE  /\ Shape(NewHandleState(h, e, n))
           /\ NewHandleState(h, e, n).phase \in {"open", "failed"}
           /\ NewHandleState(h, e, n).rw = handle[h].rw
           /\ NewHandleState(h, e, n).awaits = NoHandle
           /\ NewHandleState(h, e, n).op = "none"
           /\ handle[h].rw = "R" => ~Busy(NewHandleState(h, e, n))
           /\ handle[h].rw = "W" => Busy(NewHandleState(h, e, n)) /\ NewHandleState(h, e, n).phase = "open"
           /\ handle[h].rw = "R" /\ NewHandleState(h, e, n).phase = "open" => NewHandleState(h, e, n).etag = e
<1> DEFINE r == NewHandleState(h, e, n)
<1>1. Shape(handle[h]) /\ handle[h] \in Handle
  BY DEF TypedInv, TypeOK, QuietInv, Shapes
<1>2. /\ handle[h].op = "none" /\ handle[h].upload = "none" /\ handle[h].pending = 0
      /\ handle[h].flushed = FALSE /\ handle[h].step = "none"
  BY <1>1 DEF Shape, Fresh, Requests, Handle
<1>3. CASE handle[h].rw = "R" /\ e = 0
  <2>1. r = FailedHandle
    BY <1>3 DEF NewHandleState
  <2>2. FailedHandle.rw = "R"
    BY DEF FailedHandle, UnusedHandle
  <2> QED  BY <1>3, <2>1, <2>2, FailedHandleShape
<1>4. CASE handle[h].rw = "R" /\ e # 0
  <2>1. /\ r.phase = "open" /\ r.rw = "R" /\ r.etag = e /\ r.awaits = NoHandle /\ r.op = "none"
        /\ r.upload = "none" /\ r.pending = 0 /\ r.flushed = FALSE /\ r.step = "none"
    BY <1>1, <1>2, <1>4 DEF NewHandleState, Handle
  <2> HIDE DEF r
  <2>2. Shape(r) /\ ~Busy(r)
    BY <2>1 DEF Shape, Fresh, Awaits, Reader, Puts, Requests, Pending, Unopened, Busy
  <2> QED  BY <1>4, <2>1, <2>2 DEF r
<1>5. CASE handle[h].rw = "W"
  <2>1. /\ r.phase = "open" /\ r.rw = "W" /\ r.awaits = NoHandle /\ r.op = "none"
        /\ r.upload = "progress" /\ r.pending = 0 /\ r.flushed = FALSE /\ r.step = "none"
    BY <1>1, <1>2, <1>5 DEF NewHandleState, Handle
  <2> HIDE DEF r
  <2>2. Shape(r) /\ Busy(r)
    BY <2>1 DEF Shape, Fresh, Awaits, Reader, Puts, Requests, Pending, Unopened, Busy
  <2> QED  BY <1>5, <2>1, <2>2 DEF r
<1> QED  BY <1>1, <1>3, <1>4, <1>5 DEF Handle

\* What open leaves of a handle that it put into the map.
LEMMA OpenedFromHandle ==
    ASSUME TypedInv, NEW h \in Handles, handle[h].phase = "looked", NEW st,
           st.etag = stat.etag, st.size \in Nat, OpenedFrom(h, st)
    PROVE  /\ \A g \in Handles : g # h => handle'[g] = handle[g]
           /\ Shape(handle'[h]) /\ handle'[h].rw = handle[h].rw /\ handle'[h].op = "none"
           /\ hook = NoHandle => /\ handle'[h].phase \in {"open", "failed"} /\ handle'[h].awaits = NoHandle
                                 /\ handle[h].rw = "W" => Busy(handle'[h]) /\ handle'[h].phase = "open"
                                 /\ handle[h].rw = "R" => ~Busy(handle'[h])
                                 /\ handle[h].rw = "R" /\ handle'[h].phase = "open" => handle'[h].etag = stat.etag
           /\ hook # NoHandle => /\ handle'[h].phase = "awaitOpen" /\ handle'[h].awaits = hook
                                 /\ ~Busy(handle'[h])
<1>1. Unopened(handle[h]) /\ handle[h] \in Handle /\ hook \in Handles \cup {NoHandle} /\ stat.etag \in Nat
  BY DEF Unopened, TypedInv, TypeOK
<1>2. \A g \in Handles : g # h => handle'[g] = handle[g]
  BY DEF OpenedFrom, TypedInv, TypeOK
<1>3. CASE hook = NoHandle
  <2>1. handle'[h] = NewHandleState(h, st.etag, st.size)
    BY <1>3 DEF OpenedFrom, TypedInv, TypeOK
  <2>2. st.etag \in Nat /\ st.size \in Nat
    BY <1>1
  <2> QED  BY <1>1, <1>2, <1>3, <2>1, <2>2, OpenedHandle
<1>4. CASE hook # NoHandle
  <2> DEFINE r == handle'[h]
  <2>1. /\ handle[h].op = "none" /\ handle[h].upload = "none" /\ handle[h].pending = 0
        /\ handle[h].flushed = FALSE /\ handle[h].step = "none"
    BY <1>1, UnopenedHandle
  <2>2. r = [handle[h] EXCEPT !.phase = "awaitOpen", !.awaits = hook]
    BY <1>4 DEF OpenedFrom, TypedInv, TypeOK
  <2>3. /\ r.phase = "awaitOpen" /\ r.awaits = hook /\ r.rw = handle[h].rw /\ r.op = "none" /\ r.step = "none"
        /\ r.upload = "none" /\ r.pending = 0 /\ r.flushed = FALSE
    BY <1>1, <2>1, <2>2 DEF Handle
  <2> HIDE DEF r
  <2>4. Shape(r) /\ ~Busy(r)
    BY <1>4, <2>3 DEF Shape, Fresh, Awaits, Reader, Puts, Requests, Pending, Unopened, Busy
  <2> QED  BY <1>2, <1>4, <2>3, <2>4 DEF r
<1> QED  BY <1>3, <1>4

\* The writer that is evicted has a hook.
LEMMA EvictedHook ==
    ASSUME TypedInv, ~ActiveWriter(map), NEW g \in Handles, Busy(handle[g])
    PROVE  hook = g
<1>1. map.writer = g => map.writerState = "Inactive"
  BY NoHandleAssumption DEF TypedInv, TypeOK, InodeHandles, HandleState, ActiveWriter
<1> QED  BY <1>1 DEF TypedInv, QuietInv, BusyTracked, WriterHook

LEMMA StartReadingQuiet ==
    ASSUME TypedInv, NEW h \in Handles, StartReading(h)
    PROVE  QuietInv'
<1> USE NoHandleAssumption
<1>1. /\ handle[h].phase = "looked" /\ handle[h].rw = "R" /\ status # "LocalUnopened" /\ ~ActiveWriter(map)
      /\ map' = AddReader(map, h) /\ OpenedFrom(h, stat)
      /\ UNCHANGED <<present, stat, hook, result, object, acked>>
  BY DEF StartReading, CanAddReader
<1>2. status' # "LocalUnopened" /\ status' # "PendingRename"
  BY DEF StartReading, TypedInv, QuietInv, Calm
<1>3. Unopened(handle[h]) /\ stat.size \in Nat /\ hook \in Handles \cup {NoHandle}
  BY <1>1 DEF Unopened, TypedInv, TypeOK
<1>4. ~Busy(handle[h]) /\ map.writer # h /\ hook # h /\ handle[h].awaits = NoHandle /\ handle[h].op = "none"
  BY <1>3, UnopenedHandle
<1>5. /\ map'.writer = NoHandle /\ map'.readers[h] = "Active"
      /\ \A g \in Handles : g # h => map'.readers[g] = map.readers[g]
  BY <1>1 DEF AddReader, DropWriter, TypedInv, TypeOK, InodeHandles
<1>6. /\ \A g \in Handles : g # h => handle'[g] = handle[g]
      /\ Shape(handle'[h]) /\ handle'[h].rw = "R" /\ handle'[h].op = "none" /\ ~Busy(handle'[h])
      /\ hook = NoHandle => handle'[h].phase \in {"open", "failed"} /\ handle'[h].awaits = NoHandle
      /\ hook # NoHandle => handle'[h].phase = "awaitOpen" /\ handle'[h].awaits = hook
  BY <1>1, <1>3, OpenedFromHandle
<1>7. QuietInv
  BY DEF TypedInv
<1>8. Shapes'
  BY <1>6, <1>7 DEF QuietInv, Shapes
<1>9. Calm'
  BY <1>1, <1>2, <1>7 DEF QuietInv, Calm
<1>10. LiveInMap'
  BY <1>1, <1>5, <1>6, <1>7 DEF QuietInv, LiveInMap, ActiveIn, ActiveWriter
<1>11. BusyTracked'
  BY <1>1, <1>6, EvictedHook DEF BusyTracked
<1>12. AwaitsHook'
  BY <1>1, <1>6, <1>7 DEF QuietInv, AwaitsHook
<1>13. WriterHook'
  BY <1>5 DEF WriterHook
<1>14. HookGoes'
  BY <1>1, <1>4, <1>6, <1>7 DEF QuietInv, HookGoes
<1>15. HookAwaited'
  BY <1>1, <1>6 DEF HookAwaited
<1>16. HookStates'
  BY <1>1, <1>4, <1>6, <1>7 DEF QuietInv, HookStates
<1>17. StatAcked'
  BY <1>1, <1>7 DEF QuietInv, StatAcked
<1>18. LookupAcked'
  BY <1>1, <1>6, <1>7 DEF QuietInv, LookupAcked, HookGoes
<1> QED  BY <1>8, <1>9, <1>10, <1>11, <1>12, <1>13, <1>14, <1>15, <1>16, <1>17, <1>18 DEF QuietInv

LEMMA StartWritingQuiet ==
    ASSUME TypedInv, NEW h \in Handles, StartWriting(h)
    PROVE  QuietInv'
<1> USE NoHandleAssumption
<1>1. /\ handle[h].phase = "looked" /\ handle[h].rw = "W" /\ ~ActiveWriter(map) /\ ~ActiveReaders(map)
      /\ map' = SetWriter(map, h) /\ OpenedFrom(h, stat') /\ status' = "LocalOpenForWriting"
      /\ UNCHANGED <<present, hook, result, object, acked>>
  BY DEF StartWriting, CanSetWriter
<1>2. stat'.etag = stat.etag /\ stat'.size \in Nat
  BY DEF StartWriting, TypedInv, TypeOK
<1>3. Unopened(handle[h]) /\ hook \in Handles \cup {NoHandle}
  BY <1>1 DEF Unopened, TypedInv, TypeOK
<1>4. ~Busy(handle[h]) /\ map.writer # h /\ hook # h /\ handle[h].awaits = NoHandle /\ handle[h].op = "none"
  BY <1>3, UnopenedHandle
<1>5. map'.writer = h /\ map'.writerState = "Active"
  BY <1>1 DEF SetWriter
<1>6. /\ \A g \in Handles : g # h => handle'[g] = handle[g]
      /\ Shape(handle'[h]) /\ handle'[h].rw = "W" /\ handle'[h].op = "none"
      /\ hook = NoHandle => handle'[h].phase = "open" /\ handle'[h].awaits = NoHandle /\ Busy(handle'[h])
      /\ hook # NoHandle => handle'[h].phase = "awaitOpen" /\ handle'[h].awaits = hook
  BY <1>1, <1>2, OpenedFromHandle
<1>7. QuietInv
  BY DEF TypedInv
<1>8. Shapes'
  BY <1>6, <1>7 DEF QuietInv, Shapes
<1>9. Calm'
  BY <1>1, <1>7 DEF QuietInv, Calm
<1>10. LiveInMap'
  BY <1>1, <1>5, <1>6, <1>7 DEF QuietInv, LiveInMap, ActiveIn, ActiveWriter, ActiveReaders, TypedInv, TypeOK, Handle
<1>11. BusyTracked'
  BY <1>1, <1>5, <1>6, EvictedHook DEF BusyTracked
<1>12. AwaitsHook'
  BY <1>1, <1>6, <1>7 DEF QuietInv, AwaitsHook
<1>13. WriterHook'
  BY <1>1, <1>5, <1>6 DEF WriterHook
<1>14. HookGoes'
  BY <1>1, <1>4, <1>6, <1>7 DEF QuietInv, HookGoes
<1>15. HookAwaited'
  BY <1>1, <1>6 DEF HookAwaited
<1>16. HookStates'
  BY <1>1, <1>4, <1>6, <1>7 DEF QuietInv, HookStates
<1>17. StatAcked'
  BY <1>1, <1>2, <1>7 DEF QuietInv, StatAcked
<1>18. LookupAcked'
  BY <1>1, <1>2, <1>6, <1>7 DEF QuietInv, LookupAcked, HookGoes
<1> QED  BY <1>8, <1>9, <1>10, <1>11, <1>12, <1>13, <1>14, <1>15, <1>16, <1>17, <1>18 DEF QuietInv

LEMMA AfterHookQuiet ==
    ASSUME TypedInv, NEW h \in Handles, OpenAfterHook(h)
    PROVE  QuietInv'
<1> USE NoHandleAssumption
<1>1. PICK g \in Handles : OpenAfterHook(h)!2!(g)
  BY DEF OpenAfterHook
<1>2. handle[h].phase = "awaitOpen" /\ UNCHANGED <<inodeVars, result, object, acked>>
  BY DEF OpenAfterHook
<1>3. handle[h].awaits = g /\ result[g].state \in {"lookup", "none"}
  BY <1>1 DEF TypedInv, QuietInv, HookStates
<1>4. PICK e \in Nat, n \in Nat : handle' = [handle EXCEPT ![h] = NewHandleState(h, e, n)]
  BY <1>1, <1>3 DEF TypedInv, TypeOK, HookResult
<1>5. /\ \A x \in Handles : x # h => handle'[x] = handle[x]
      /\ handle'[h] = NewHandleState(h, e, n)
  BY <1>4 DEF TypedInv, TypeOK
<1>6. /\ Shape(handle'[h]) /\ handle'[h].phase \in {"open", "failed"} /\ handle'[h].rw = handle[h].rw
      /\ handle'[h].awaits = NoHandle /\ handle'[h].op = "none"
      /\ handle[h].rw = "R" => ~Busy(handle'[h])
      /\ handle[h].rw = "W" => Busy(handle'[h]) /\ handle'[h].phase = "open"
  BY <1>2, <1>5, OpenedHandle
<1>7. QuietInv /\ UNCHANGED <<present, status, stat, hook, map, result, acked>>
  BY <1>2 DEF TypedInv, inodeVars
<1>8. hook = NoHandle /\ ~Unopened(handle[h]) /\ handle[h].op = "none"
  BY <1>2, <1>3, <1>7 DEF QuietInv, AwaitsHook, HookGoes, Unopened, Shapes, Shape, Fresh
<1>9. ActiveIn(h, handle[h].rw) /\ handle[h].rw \in {"R", "W"}
  BY <1>2 DEF TypedInv, TypeOK, Handle, QuietInv, LiveInMap, LiveState
<1>10. Shapes'
  BY <1>5, <1>6, <1>7 DEF QuietInv, Shapes
<1>11. Calm'
  BY <1>7, <1>8, <1>5 DEF QuietInv, Calm
<1>12. LiveInMap'
  BY <1>5, <1>6, <1>7, <1>9 DEF QuietInv, LiveInMap, ActiveIn
<1>13. BusyTracked'
  BY <1>5, <1>6, <1>7, <1>9 DEF QuietInv, BusyTracked, ActiveIn
<1>14. AwaitsHook'
  BY <1>7, <1>8 DEF AwaitsHook
<1>15. WriterHook'
  BY <1>5, <1>6, <1>7, <1>8 DEF QuietInv, WriterHook
<1>16. HookGoes' /\ HookAwaited'
  BY <1>7, <1>8 DEF HookGoes, HookAwaited
<1>17. HookStates'
  BY <1>5, <1>6, <1>7, <1>8 DEF QuietInv, HookStates
<1>18. StatAcked'
  BY <1>7 DEF QuietInv, StatAcked
<1>19. LookupAcked'
  BY <1>5, <1>6, <1>7 DEF QuietInv, LookupAcked
<1> QED  BY <1>10, <1>11, <1>12, <1>13, <1>14, <1>15, <1>16, <1>17, <1>18, <1>19 DEF QuietInv

-----------------------------------------------------------------------------
\* Requests on an open handle

\* The map of the readers changes, on a handle that is open or closing.
LEMMA ReaderQuiet ==
    ASSUME TypedInv, NEW h \in Handles, handle[h].rw = "R", handle[h].phase \in {"open", "closing"},
           \A g \in Handles : g # h => handle'[g] = handle[g] /\ map'.readers[g] = map.readers[g],
           map'.writer = map.writer, map'.writerState = map.writerState,
           Shape(handle'[h]), handle'[h].rw = "R", handle'[h].phase \in {"open", "closed"},
           handle'[h].awaits = handle[h].awaits, handle'[h].op = handle[h].op, ~Busy(handle'[h]),
           LiveState(handle'[h]) => map'.readers[h] = "Active",
           UNCHANGED <<present, status, stat, hook, result, acked>>
    PROVE  QuietInv'
<1>1. QuietInv
  BY DEF TypedInv
<1>2. ~Busy(handle[h]) /\ ~Unopened(handle[h])
  BY <1>1 DEF QuietInv, Shapes, Shape, Reader, Busy, Unopened
<1>3. Shapes' /\ Calm'
  BY <1>1, <1>2 DEF QuietInv, Shapes, Calm
<1>4. LiveInMap'
  BY <1>1 DEF QuietInv, LiveInMap, ActiveIn
<1>5. BusyTracked'
  BY <1>1 DEF QuietInv, BusyTracked
<1>6. AwaitsHook' /\ LookupAcked'
  BY <1>1 DEF QuietInv, AwaitsHook, LookupAcked
<1>7. WriterHook'
  BY <1>1 DEF QuietInv, WriterHook
<1>8. HookGoes' /\ HookAwaited'
  BY <1>1, <1>2 DEF QuietInv, HookGoes, HookAwaited
<1>9. HookStates' /\ StatAcked'
  BY <1>1 DEF QuietInv, HookStates, StatAcked
<1> QED  BY <1>3, <1>4, <1>5, <1>6, <1>7, <1>8, <1>9 DEF QuietInv

LEMMA ReadQuiet ==
    ASSUME TypedInv, NEW h \in Handles, Read(h)
    PROVE  QuietInv'
<1> DEFINE r == handle'[h]
<1>1. handle[h].phase = "open" /\ handle[h].rw = "R" /\ handle[h] \in Handle /\ Shape(handle[h])
  BY DEF Read, Idle, TypedInv, TypeOK, QuietInv, Shapes
<1>2. /\ r.phase = "open" /\ r.rw = "R" /\ r.op = handle[h].op /\ r.upload = handle[h].upload
      /\ r.step = handle[h].step /\ r.pending = handle[h].pending /\ r.awaits = handle[h].awaits
      /\ \A g \in Handles : g # h => handle'[g] = handle[g]
  BY <1>1 DEF Read, TypedInv, TypeOK, Handle
<1> HIDE DEF r
<1>3. Shape(r) /\ ~Busy(r)
  BY <1>1, <1>2 DEF Shape, Fresh, Awaits, Reader, Puts, Requests, Pending, Unopened, Busy
<1>4. /\ map'.writer = map.writer /\ map'.writerState = map.writerState /\ map'.readers[h] = "Active"
      /\ \A g \in Handles : g # h => map'.readers[g] = map.readers[g]
  BY DEF Read, ActivateReader, TypedInv, TypeOK, InodeHandles
<1>5. UNCHANGED <<present, status, stat, hook, result, acked>>
  BY DEF Read
<1> QED  BY <1>1, <1>2, <1>3, <1>4, <1>5, ReaderQuiet DEF r

LEMMA FlushReaderQuiet ==
    ASSUME TypedInv, NEW h \in Handles, FlushReader(h)
    PROVE  QuietInv'
<1> DEFINE r == handle'[h]
<1>1. handle[h].phase = "open" /\ handle[h].rw = "R" /\ handle[h] \in Handle /\ Shape(handle[h])
  BY DEF FlushReader, Idle, TypedInv, TypeOK, QuietInv, Shapes
<1>2. /\ r.phase = "open" /\ r.rw = "R" /\ r.op = handle[h].op /\ r.upload = handle[h].upload /\ r.flushed = TRUE
      /\ r.step = handle[h].step /\ r.pending = handle[h].pending /\ r.awaits = handle[h].awaits
      /\ \A g \in Handles : g # h => handle'[g] = handle[g]
  BY <1>1 DEF FlushReader, TypedInv, TypeOK, Handle
<1> HIDE DEF r
<1>3. Shape(r) /\ ~Busy(r) /\ ~LiveState(r)
  BY <1>1, <1>2 DEF Shape, Fresh, Awaits, Reader, Puts, Requests, Pending, Unopened, Busy, LiveState
<1>4. /\ map'.writer = map.writer /\ map'.writerState = map.writerState
      /\ \A g \in Handles : g # h => map'.readers[g] = map.readers[g]
  BY DEF FlushReader, DeactivateReader, TypedInv, TypeOK, InodeHandles
<1>5. UNCHANGED <<present, status, stat, hook, result, acked>>
  BY DEF FlushReader
<1> QED  BY <1>1, <1>2, <1>3, <1>4, <1>5, ReaderQuiet DEF r

LEMMA ReleaseReaderQuiet ==
    ASSUME TypedInv, NEW h \in Handles, ReleaseReader(h)
    PROVE  QuietInv'
<1> DEFINE r == handle'[h]
<1>1. handle[h].phase = "closing" /\ handle[h].rw = "R" /\ handle[h] \in Handle /\ Shape(handle[h])
  BY DEF ReleaseReader, TypedInv, TypeOK, QuietInv, Shapes
<1>2. handle[h].awaits = NoHandle /\ handle[h].op = "none"
  BY <1>1 DEF Shape, Awaits, Reader, Handle
<1>3. /\ r.phase = "closed" /\ r.rw = "R" /\ r.op = "none" /\ r.upload = "none"
      /\ r.step = "none" /\ r.pending = 0 /\ r.awaits = NoHandle
      /\ \A g \in Handles : g # h => handle'[g] = handle[g]
  BY <1>1 DEF ReleaseReader, UnusedHandle, TypedInv, TypeOK
<1> HIDE DEF r
<1>4. Shape(r) /\ ~Busy(r) /\ ~LiveState(r)
  BY <1>3 DEF Shape, Fresh, Awaits, Reader, Puts, Requests, Pending, Unopened, Busy, LiveState
<1>5. /\ map'.writer = map.writer /\ map'.writerState = map.writerState
      /\ \A g \in Handles : g # h => map'.readers[g] = map.readers[g]
  BY DEF ReleaseReader, RemoveReader, TypedInv, TypeOK, InodeHandles
<1>6. UNCHANGED <<present, status, stat, hook, result, acked>>
  BY DEF ReleaseReader
<1> QED  BY <1>1, <1>2, <1>3, <1>4, <1>5, <1>6, ReaderQuiet DEF r

\* A write on a handle that is, or becomes again, the active writer.
LEMMA WriteQuiet ==
    ASSUME Quiet, TypedInv, NEW h \in Handles, Write(h)
    PROVE  QuietInv'
<1> USE NoHandleAssumption
<1> DEFINE r == handle'[h]
<1>1. /\ handle[h].phase = "open" /\ handle[h].op = "none" /\ handle[h].rw = "W" /\ handle[h] \in Handle
      /\ Shape(handle[h]) /\ QuietInv
  BY DEF Write, Idle, TypedInv, TypeOK, QuietInv, Shapes
<1>2. /\ \A g \in Handles : g # h => handle'[g] = handle[g]
      /\ UNCHANGED <<present, status, stat, result, acked>>
  BY DEF Write, TypedInv, TypeOK
<1>3. /\ r.phase = "open" /\ r.rw = "W" /\ r.awaits = handle[h].awaits /\ r.upload = handle[h].upload
      /\ r.flushed = FALSE /\ r.res = handle[h].res
      /\ \/ r.upload = "progress" /\ r.op = "write" /\ r.step = "ok" /\ r.pending = handle[h].pending + 1
         \/ r.upload # "progress" /\ r.op = "none" /\ r.step = handle[h].step /\ r.pending = handle[h].pending
  <2>1. CASE handle[h].upload = "progress"
    <3>1. r = AcceptedWrite(handle[h])
      BY <2>1 DEF Write, Quiet, TypedInv, TypeOK
    <3> QED  BY <1>1, <2>1, <3>1 DEF AcceptedWrite, Handle
  <2>2. CASE handle[h].upload # "progress"
    <3>1. r = [handle[h] EXCEPT !.flushed = FALSE]
      BY <2>2 DEF Write, TypedInv, TypeOK
    <3> QED  BY <1>1, <2>2, <3>1 DEF Handle
  <2> QED  BY <2>1, <2>2
<1> HIDE DEF r
<1>4. Shape(r) /\ (Busy(r) <=> Busy(handle[h])) /\ ~Unopened(handle[h])
  BY <1>1, <1>3 DEF Shape, Fresh, Awaits, Reader, Puts, Requests, Pending, Unopened, Busy
<1>5. LiveState(r) <=> r.upload = "progress"
  BY <1>3 DEF LiveState
<1>6. Shapes' /\ Calm'
  <2>1. status # "LocalUnopened"
    BY <1>1, <1>4 DEF QuietInv, Calm
  <2> QED  BY <1>1, <1>2, <1>4, <2>1 DEF QuietInv, Shapes, Calm, r
<1>7. CASE ~Reactivates(h)
  <2>1. UNCHANGED <<map, hook>> /\ handle[h].flushed = FALSE
    BY <1>1, <1>7 DEF Write, Reactivate, Handle
  <2>2. LiveState(r) => LiveState(handle[h])
    BY <1>1, <1>3, <1>5, <2>1 DEF LiveState
  <2>3. LiveInMap'
    BY <1>1, <1>2, <1>3, <2>1, <2>2 DEF QuietInv, LiveInMap, ActiveIn, r
  <2>4. BusyTracked' /\ AwaitsHook' /\ LookupAcked'
    BY <1>1, <1>2, <1>3, <1>4, <2>1 DEF QuietInv, BusyTracked, AwaitsHook, LookupAcked, r
  <2>5. WriterHook'
    BY <1>1, <1>2, <1>3, <1>4, <2>1 DEF QuietInv, WriterHook, r
  <2>6. HookGoes' /\ HookAwaited'
    BY <1>1, <1>2, <1>3, <1>4, <2>1 DEF QuietInv, HookGoes, HookAwaited, r
  <2>7. HookStates' /\ StatAcked'
    BY <1>1, <1>2, <1>3, <2>1 DEF QuietInv, HookStates, StatAcked, r
  <2> QED  BY <1>6, <2>3, <2>4, <2>5, <2>6, <2>7 DEF QuietInv
<1>8. CASE Reactivates(h)
  <2>1. map.writer = h /\ map' = ActivateWriter(map, h) /\ hook' = NoHandle
    BY <1>8 DEF Write, Reactivate, Reactivates, IsWriter
  <2>2. map'.writer = h /\ map'.writerState = "Active" /\ map'.readers = map.readers
    BY <2>1 DEF ActivateWriter, TypedInv, TypeOK, InodeHandles
  <2>3. hook \in {NoHandle, h} /\ Busy(handle[h])
    BY <1>1, <2>1 DEF QuietInv, WriterHook
  <2>4. LiveInMap'
    BY <1>1, <1>2, <1>3, <2>1, <2>2 DEF QuietInv, LiveInMap, ActiveIn, r
  <2>5. BusyTracked'
    BY <1>1, <1>2, <2>1, <2>2, <2>3 DEF QuietInv, BusyTracked
  <2>6. AwaitsHook' /\ HookGoes' /\ HookAwaited'
    BY <2>1 DEF AwaitsHook, HookGoes, HookAwaited
  <2>7. WriterHook'
    BY <1>3, <1>4, <2>1, <2>2, <2>3 DEF WriterHook, r
  <2>8. HookStates' /\ StatAcked'
    BY <1>1, <1>2, <1>3 DEF QuietInv, HookStates, StatAcked, r
  <2>9. LookupAcked'
    BY <1>1, <1>2, <1>3 DEF QuietInv, LookupAcked, r
  <2> QED  BY <1>6, <2>4, <2>5, <2>6, <2>7, <2>8, <2>9 DEF QuietInv
<1> QED  BY <1>7, <1>8

-----------------------------------------------------------------------------
\* The end of an upload

\* Nobody waits to open while the current writer is at work.
LEMMA NobodyOpens ==
    ASSUME TypedInv, NEW h \in Handles, map.writer = h, handle[h].phase # "awaitOpen",
           NEW x \in Handles, handle[x].phase = "awaitOpen"
    PROVE  FALSE
<1>1. ActiveIn(x, handle[x].rw)
  BY DEF TypedInv, QuietInv, LiveInMap, LiveState
<1>2. handle[x].rw # "R"
  BY <1>1, NoHandleAssumption DEF ActiveIn, TypedInv, MapSafe, MapExclusive
<1> QED  BY <1>1, <1>2 DEF ActiveIn

\* finish_writing at the end of an upload that S3 accepted.
LEMMA FinishQuiet ==
    ASSUME Quiet, TypedInv, NEW h \in Handles, NEW op \in {"fsync", "flush", "hook"},
           Responded(h, op), FinishWriting(h, FinishedEtag(h)), Learn(h),
           \A g \in Handles : g # h => handle'[g] = handle[g] /\ result'[g] = result[g],
           Shape(handle'[h]), ~Busy(handle'[h]), handle'[h].rw = handle[h].rw,
           handle'[h].phase = handle[h].phase, handle'[h].awaits = handle[h].awaits,
           Finished(h) => \/ result'[h] = result[h] /\ op # "hook"
                          \/ result'[h].state = "lookup" /\ result'[h].etag = stat'.etag
    PROVE  QuietInv'
<1> USE NoHandleAssumption
<1>1. /\ handle[h].op = op /\ handle[h].step = "ok" /\ handle[h].res # 0 /\ handle[h] \in Handle
      /\ Shape(handle[h]) /\ QuietInv
  BY DEF Responded, TypedInv, TypeOK, QuietInv, Shapes, Shape, Requests, Puts
<1>2. Busy(handle[h]) /\ ~Unopened(handle[h]) /\ handle[h].phase # "awaitOpen" /\ handle[h].rw = "W"
  BY <1>1 DEF Busy, Shape, Fresh, Reader, Handle
<1>3. CanFinishWriting /\ Finished(h) /\ FinishedEtag(h) = handle[h].res
  BY <1>1, <1>2 DEF CanFinishWriting, Finished, FinishedEtag, TypedInv, TypeOK, WriteStatus, QuietInv, Calm
<1>4. /\ hook' = NoHandle /\ present' = present /\ stat'.etag = handle[h].res /\ acked' = handle[h].res
      /\ map.writer = h => status' = "Remote" /\ map' = RemoveWriter(map, h)
      /\ map.writer # h => UNCHANGED <<status, map>>
  BY <1>1, <1>3 DEF FinishWriting, Learn, IsWriter, TypedInv, TypeOK
<1>5. map.writer = h => map'.writer = NoHandle /\ map'.readers = map.readers
  BY <1>4 DEF RemoveWriter, DropWriter, TypedInv, TypeOK, InodeHandles
<1>6. map.writer = h \/ hook = h
  BY <1>1, <1>2 DEF QuietInv, BusyTracked
<1>7. map.writer = h => hook \in {NoHandle, h}
  BY <1>1, <1>2 DEF QuietInv, WriterHook
<1>8. ~LiveState(handle'[h])
  BY <1>2 DEF LiveState, Busy
<1>9. Shapes'
  BY <1>1 DEF QuietInv, Shapes
<1>10. Calm'
  <2>1. status # "LocalUnopened"
    BY <1>1, <1>2 DEF QuietInv, Calm
  <2> QED  BY <1>1, <1>4, <2>1 DEF QuietInv, Calm
<1>11. LiveInMap'
  BY <1>1, <1>4, <1>5, <1>8 DEF QuietInv, LiveInMap, ActiveIn
<1>12. BusyTracked'
  BY <1>1, <1>4, <1>6, <1>7 DEF QuietInv, BusyTracked
<1>13. AwaitsHook' /\ HookGoes' /\ HookAwaited'
  BY <1>4 DEF AwaitsHook, HookGoes, HookAwaited
<1>14. WriterHook'
  <2> SUFFICES ASSUME NEW w \in Handles, map'.writer = w PROVE WriterHook!(w)'
    BY DEF WriterHook
  <2>1. w # h /\ map.writer = w /\ map' = map /\ hook = h
    BY <1>4, <1>5, <1>6
  <2>2. map.writerState # "Inactive" /\ handle[w].phase # "awaitClose"
    BY <1>1, <2>1 DEF QuietInv, WriterHook
  <2> QED  BY <1>1, <1>4, <2>1, <2>2 DEF QuietInv, WriterHook
<1>15. HookStates'
  <2>1. handle'[h].op = "none"
    BY DEF Busy
  <2>2. result'[h].state \notin {"running", "err"}
    BY <1>1, <1>3 DEF QuietInv, HookStates
  <2> QED  BY <1>1, <2>1, <2>2 DEF QuietInv, HookStates
<1>16. StatAcked'
  BY <1>4 DEF StatAcked
<1>17. LookupAcked'
  <2> SUFFICES ASSUME NEW x \in Handles, NEW g \in Handles, handle'[x].phase = "awaitOpen",
                      handle'[x].awaits = g, result'[g].state = "lookup"
               PROVE  result'[g].etag = stat'.etag
    BY DEF LookupAcked
  <2>1. x # h /\ handle[x].phase = "awaitOpen" /\ handle[x].awaits = g
    BY <1>2
  <2>2. CASE g = h
    <3>1. result'[h].state = "lookup"
      BY <2>2
    <3>2. CASE result'[h] = result[h] /\ op # "hook"
      <4>1. hook # h
        BY <1>1, <3>1, <3>2 DEF QuietInv, HookGoes
      <4> QED  BY <1>2, <1>6, <2>1, <4>1, NobodyOpens
    <3> QED  BY <1>3, <2>2, <3>2
  <2>3. CASE g # h
    <3>1. hook \in {NoHandle, g} /\ hook # g
      BY <1>1, <2>1, <2>3 DEF QuietInv, AwaitsHook, HookGoes
    <3>2. map.writer = h
      BY <1>6, <3>1
    <3> QED  BY <1>2, <2>1, <3>2, NobodyOpens
  <2> QED  BY <2>2, <2>3
<1> QED  BY <1>9, <1>10, <1>11, <1>12, <1>13, <1>14, <1>15, <1>16, <1>17 DEF QuietInv

\* What is left of a handle whose upload has ended.
LEMMA ReturnedShape ==
    ASSUME NEW r \in Handle, Shape(r), Puts(r), r.step = "ok"
    PROVE  /\ Shape(Returned(r, "completed")) /\ ~Busy(Returned(r, "completed"))
           /\ Returned(r, "completed").rw = r.rw /\ Returned(r, "completed").phase = r.phase
           /\ Returned(r, "completed").awaits = r.awaits
<1> DEFINE q == Returned(r, "completed")
<1>1. /\ q.rw = r.rw /\ q.phase = r.phase /\ q.awaits = r.awaits /\ q.op = "none" /\ q.step = "none"
      /\ q.upload = "completed" /\ q.pending = r.pending /\ q.flushed = r.flushed
  BY DEF Returned, Handle
<1> HIDE DEF q
<1>2. Shape(q) /\ ~Busy(q)
  BY <1>1 DEF Shape, Fresh, Awaits, Reader, Puts, Requests, Pending, Unopened, Busy
<1> QED  BY <1>1, <1>2 DEF q

LEMMA FlushedShape ==
    ASSUME NEW r \in Handle, Shape(r), r.phase = "open", NEW b \in BOOLEAN
    PROVE  /\ Shape(MarkFlushed(r, b)) /\ (Busy(MarkFlushed(r, b)) <=> Busy(r))
           /\ MarkFlushed(r, b).rw = r.rw /\ MarkFlushed(r, b).phase = r.phase
           /\ MarkFlushed(r, b).awaits = r.awaits
<1> DEFINE q == MarkFlushed(r, b)
<1>1. /\ q.rw = r.rw /\ q.phase = r.phase /\ q.awaits = r.awaits /\ q.op = r.op /\ q.step = r.step
      /\ q.upload = r.upload /\ q.pending = r.pending /\ q.res = r.res
  BY DEF MarkFlushed, Handle
<1> HIDE DEF q
<1>2. Shape(q) /\ (Busy(q) <=> Busy(r))
  BY <1>1 DEF Shape, Fresh, Awaits, Reader, Puts, Requests, Pending, Unopened, Busy
<1> QED  BY <1>1, <1>2 DEF q

\* An upload that has been answered has succeeded, and the file can be finished.
LEMMA RespondedFinishes ==
    ASSUME TypedInv, NEW h \in Handles, NEW op \in {"fsync", "flush", "hook"}, Responded(h, op)
    PROVE  /\ handle[h] \in Handle /\ Shape(handle[h]) /\ Puts(handle[h]) /\ handle[h].step = "ok"
           /\ Finished(h) /\ (op # "hook" => handle[h].phase = "open")
<1>1. handle[h] \in Handle /\ Shape(handle[h]) /\ Puts(handle[h]) /\ handle[h].step = "ok"
      /\ (op # "hook" => handle[h].phase = "open")
  BY DEF Responded, TypedInv, TypeOK, QuietInv, Shapes, Shape, Requests, Puts
<1>2. ~Unopened(handle[h])
  BY <1>1 DEF Shape, Fresh, Puts
<1>3. CanFinishWriting
  BY <1>2 DEF CanFinishWriting, TypedInv, TypeOK, WriteStatus, QuietInv, Calm
<1> QED  BY <1>1, <1>3 DEF Finished

LEMMA CompleteQuiet ==
    ASSUME Quiet, TypedInv, NEW h \in Handles, CompleteReturns(h)
    PROVE  QuietInv'
<1>1. PICK op \in {"fsync", "flush"} : Responded(h, op)
  BY DEF CompleteReturns
<1>2. /\ handle[h] \in Handle /\ Shape(handle[h]) /\ Puts(handle[h]) /\ handle[h].step = "ok"
      /\ Finished(h) /\ handle[h].phase = "open"
  BY <1>1, RespondedFinishes
<1> DEFINE q == Returned(handle[h], "completed")
<1>3. Shape(q) /\ ~Busy(q) /\ q.rw = handle[h].rw /\ q.phase = "open" /\ q.awaits = handle[h].awaits /\ q \in Handle
  BY <1>2, ReturnedShape, ReturnedType
<1> HIDE DEF q
<1>4. PICK b \in BOOLEAN : handle' = [handle EXCEPT ![h] = MarkFlushed(q, b)]
  BY <1>2 DEF CompleteReturns, q
<1>5. handle'[h] = MarkFlushed(q, b) /\ \A g \in Handles : g # h => handle'[g] = handle[g]
  BY <1>4 DEF TypedInv, TypeOK
<1>6. /\ Shape(handle'[h]) /\ ~Busy(handle'[h]) /\ handle'[h].rw = handle[h].rw
      /\ handle'[h].phase = handle[h].phase /\ handle'[h].awaits = handle[h].awaits
  BY <1>2, <1>3, <1>5, FlushedShape
<1>7. FinishWriting(h, FinishedEtag(h)) /\ Learn(h) /\ result' = result
  BY DEF CompleteReturns
<1> QED  BY <1>1, <1>5, <1>6, <1>7, FinishQuiet

LEMMA HookReturnsQuiet ==
    ASSUME Quiet, TypedInv, NEW h \in Handles, HookReturns(h)
    PROVE  QuietInv'
<1>1. Responded(h, "hook") /\ FinishWriting(h, FinishedEtag(h)) /\ Learn(h)
  BY DEF HookReturns
<1>2. /\ handle[h] \in Handle /\ Shape(handle[h]) /\ Puts(handle[h]) /\ handle[h].step = "ok"
      /\ Finished(h)
  BY <1>1, RespondedFinishes
<1>3. handle'[h] = Returned(handle[h], "completed") /\ \A g \in Handles : g # h => handle'[g] = handle[g]
  BY DEF HookReturns, TypedInv, TypeOK
<1>4. /\ Shape(handle'[h]) /\ ~Busy(handle'[h]) /\ handle'[h].rw = handle[h].rw
      /\ handle'[h].phase = handle[h].phase /\ handle'[h].awaits = handle[h].awaits
  BY <1>2, <1>3, ReturnedShape
<1>5. /\ result'[h].state = "lookup" /\ result'[h].etag = stat'.etag
      /\ \A g \in Handles : g # h => result'[g] = result[g]
  BY <1>2 DEF HookReturns, TypedInv, TypeOK
<1> QED  BY <1>1, <1>3, <1>4, <1>5, FinishQuiet

\* The first waiter runs the hook.
LEMMA HookRunsQuiet ==
    ASSUME TypedInv, NEW h \in Handles, HookRuns(h)
    PROVE  QuietInv'
<1> DEFINE r == handle'[h]
<1>1. /\ result[h].state = "fresh" /\ handle[h].op = "none" /\ handle[h] \in Handle /\ Shape(handle[h])
      /\ UNCHANGED <<present, status, stat, hook, map, acked>> /\ QuietInv
  BY DEF HookRuns, inodeVars, TypedInv, TypeOK, QuietInv, Shapes
<1>2. CASE handle[h].upload # "progress"
  <2>1. /\ handle' = handle /\ result'[h].state = "none"
        /\ \A g \in Handles : g # h => result'[g] = result[g]
    BY <1>2 DEF HookRuns, TypedInv, TypeOK, HookResult
  <2>2. hook # h
    BY <1>1, <1>2 DEF QuietInv, HookGoes, Busy
  <2>3. Shapes' /\ Calm' /\ LiveInMap' /\ BusyTracked' /\ AwaitsHook' /\ WriterHook'
    BY <1>1, <2>1 DEF QuietInv, Shapes, Calm, LiveInMap, ActiveIn, BusyTracked, AwaitsHook, WriterHook
  <2>4. HookGoes' /\ HookAwaited' /\ HookStates' /\ StatAcked'
    BY <1>1, <2>1, <2>2 DEF QuietInv, HookGoes, HookAwaited, HookStates, StatAcked
  <2>5. LookupAcked'
    BY <1>1, <2>1 DEF QuietInv, LookupAcked
  <2> QED  BY <2>3, <2>4, <2>5 DEF QuietInv
<1>3. CASE handle[h].upload = "progress"
  <2>1. /\ result'[h].state = "running"
        /\ \A g \in Handles : g # h => result'[g] = result[g] /\ handle'[g] = handle[g]
    BY <1>3 DEF HookRuns, Uploading, TypedInv, TypeOK, HookResult
  <2>2. /\ r.phase = handle[h].phase /\ r.op = "hook" /\ r.upload = "completed"
        /\ r.step = "put" /\ r.rw = handle[h].rw /\ r.pending = handle[h].pending
        /\ r.flushed = handle[h].flushed /\ r.awaits = handle[h].awaits
    <3>1. r = [handle[h] EXCEPT !.upload = "completed", !.op = "hook", !.step = "put"]
      BY <1>3 DEF HookRuns, Uploading, TypedInv, TypeOK
    <3> HIDE DEF r
    <3> QED  BY <1>1, <3>1 DEF Handle
  <2>3. handle[h].rw = "W"
    BY <1>1, <1>3 DEF Shape, Reader, Handle
  <2> HIDE DEF r
  <2>4. Shape(r) /\ Busy(r) /\ Busy(handle[h]) /\ ~Unopened(handle[h])
    BY <1>1, <1>3, <2>2, <2>3 DEF Shape, Fresh, Awaits, Reader, Puts, Requests, Pending, Unopened, Busy
  <2>5. LiveState(r) => LiveState(handle[h])
    BY <1>1, <1>3, <2>2 DEF LiveState
  <2>6. Shapes' /\ Calm'
    BY <1>1, <2>1, <2>4 DEF QuietInv, Shapes, Calm, r
  <2>7. LiveInMap'
    BY <1>1, <2>1, <2>2, <2>5 DEF QuietInv, LiveInMap, ActiveIn, r
  <2>8. BusyTracked' /\ AwaitsHook'
    BY <1>1, <2>1, <2>2, <2>4 DEF QuietInv, BusyTracked, AwaitsHook, r
  <2>9. WriterHook'
    BY <1>1, <2>1, <2>2, <2>4 DEF QuietInv, WriterHook, r
  <2>10. HookGoes' /\ HookAwaited'
    BY <1>1, <2>1, <2>2, <2>4 DEF QuietInv, HookGoes, HookAwaited, r
  <2>11. HookStates' /\ StatAcked'
    BY <1>1, <2>1, <2>2 DEF QuietInv, HookStates, StatAcked, r
  <2>12. LookupAcked'
    BY <1>1, <2>1, <2>2 DEF QuietInv, LookupAcked, r
  <2> QED  BY <2>6, <2>7, <2>8, <2>9, <2>10, <2>11, <2>12 DEF QuietInv
<1> QED  BY <1>2, <1>3

-----------------------------------------------------------------------------
\* Deferred uploads and release

\* flush_writer by the current writer, whose upload goes on.
LEMMA FlushWriterQuiet ==
    ASSUME TypedInv, NEW h \in Handles, FlushWriter(h), FlushesWriter(h), handle[h].op = "none",
           handle[h].phase \in {"open", "closing"},
           \A g \in Handles : g # h => handle'[g] = handle[g],
           Shape(handle'[h]), Busy(handle'[h]), handle'[h].rw = handle[h].rw,
           handle'[h].phase \in {"open", "closing", "awaitClose"}, ~LiveState(handle'[h]),
           handle'[h].phase = "awaitClose" => handle'[h].awaits = h,
           handle'[h].op = "none", UNCHANGED <<stat, acked>>
    PROVE  QuietInv' /\ hook' = h
<1> USE NoHandleAssumption
<1>1. map.writer = h /\ status = "LocalOpenForWriting" /\ QuietInv
  BY DEF FlushesWriter, IsWriter, TypedInv
<1>2. /\ map'.writer = h /\ map'.writerState = "Inactive" /\ map'.readers = map.readers
      /\ UNCHANGED <<present, status>>
  BY <1>1 DEF FlushWriter, DeactivateWriter, TypedInv, TypeOK, InodeHandles
<1>3. hook \in {NoHandle, h}
  BY <1>1 DEF QuietInv, WriterHook
<1>4. /\ hook' = h
      /\ \A g \in Handles : g # h => result'[g] = result[g]
      /\ hook = NoHandle => result'[h].state = "fresh"
      /\ hook = h => result' = result
  BY <1>3 DEF FlushWriter, TypedInv, TypeOK, HookResult
<1>5. result[h].state # "running" /\ (hook = h => result[h].state = "fresh")
  BY <1>1 DEF QuietInv, HookStates, HookGoes
<1>6. result'[h].state = "fresh"
  BY <1>3, <1>4, <1>5
<1>7. \A x \in Handles : handle[x].phase # "awaitOpen" /\ handle'[x].phase # "awaitOpen"
  BY <1>1, NobodyOpens
<1>8. Shapes' /\ Calm'
  BY <1>1, <1>2 DEF QuietInv, Shapes, Calm
<1>9. LiveInMap'
  BY <1>1, <1>2 DEF QuietInv, LiveInMap, ActiveIn
<1>10. BusyTracked'
  BY <1>1, <1>2, <1>3, <1>4 DEF QuietInv, BusyTracked
<1>11. AwaitsHook' /\ LookupAcked'
  BY <1>7 DEF AwaitsHook, LookupAcked
<1>12. WriterHook'
  <2>1. handle[h].rw = "W"
    BY <1>1 DEF QuietInv, WriterHook
  <2> QED  BY <1>2, <1>4, <2>1 DEF WriterHook
<1>13. HookGoes' /\ HookAwaited'
  BY <1>2, <1>4, <1>6 DEF HookGoes, HookAwaited
<1>14. HookStates' /\ StatAcked'
  BY <1>1, <1>4, <1>6 DEF QuietInv, HookStates, StatAcked
<1> QED  BY <1>4, <1>8, <1>9, <1>10, <1>11, <1>12, <1>13, <1>14 DEF QuietInv

\* The writer of the map has an upload in progress when it has no request.
LEMMA WriterInProgress ==
    ASSUME TypedInv, NEW h \in Handles, map.writer = h, handle[h].op = "none", handle[h].phase # "awaitOpen"
    PROVE  handle[h].upload = "progress" /\ FlushesWriter(h)
<1>1. handle[h].upload = "progress"
  BY DEF TypedInv, QuietInv, WriterHook, Busy
<1>2. present /\ status = "LocalOpenForWriting"
  BY NoHandleAssumption DEF TypedInv, MapSafe, WriterIffOpenForWriting, QuietInv, Calm
<1> QED  BY <1>1, <1>2 DEF FlushesWriter, IsWriter

LEMMA FlushDefersQuiet ==
    ASSUME TypedInv, NEW h \in Handles, NEW samePid \in BOOLEAN, FlushDefers(h, samePid)
    PROVE  QuietInv'
<1> DEFINE r == handle'[h]
<1>1. /\ handle[h].phase = "open" /\ handle[h].op = "none" /\ handle[h] \in Handle /\ Shape(handle[h])
      /\ handle[h].upload = "progress" /\ FlushWriter(h) /\ UNCHANGED acked
  BY DEF FlushDefers, Idle, TypedInv, TypeOK, QuietInv, Shapes
<1>2. /\ handle' = [handle EXCEPT ![h] = r] /\ r.phase = "open" /\ r.op = "none" /\ r.upload = handle[h].upload
      /\ r.step = handle[h].step /\ r.rw = handle[h].rw /\ r.pending = handle[h].pending
      /\ r.flushed = TRUE /\ r.awaits = handle[h].awaits
      /\ \A g \in Handles : g # h => handle'[g] = handle[g]
  BY <1>1 DEF FlushDefers, TypedInv, TypeOK, Handle
<1>3. handle[h].rw = "W"
  BY <1>1 DEF Shape, Reader, Handle
<1> HIDE DEF r
<1>4. Shape(r) /\ ~LiveState(r) /\ ~Unopened(handle[h]) /\ Busy(r) /\ Busy(handle[h])
  BY <1>1, <1>2 DEF Shape, Fresh, Awaits, Reader, Puts, Requests, Pending, Unopened, Busy, LiveState
<1>5. CASE FlushesWriter(h)
  <2>1. UNCHANGED stat
    BY <1>1, <1>5 DEF FlushWriter
  <2> QED  BY <1>1, <1>2, <1>4, <1>5, <2>1, FlushWriterQuiet DEF r
<1>6. CASE ~FlushesWriter(h)
  <2>1. stat'.etag = stat.etag /\ UNCHANGED <<present, status, hook, map, result, acked>>
    BY <1>1, <1>6 DEF FlushWriter, inodeVars
  <2>2. StaysWriter(h, r)
    BY <1>1, <1>2, <1>3 DEF StaysWriter
  <2> QED  BY <1>1, <1>2, <1>4, <2>1, <2>2, HandleOnly
<1> QED  BY <1>5, <1>6

LEMMA ReleaseWriterQuiet ==
    ASSUME TypedInv, NEW h \in Handles, ReleaseWriter(h)
    PROVE  QuietInv'
<1> DEFINE r == handle'[h]
<1> USE NoHandleAssumption
<1>1. /\ handle[h].phase = "closing" /\ handle[h].rw = "W" /\ handle[h].op = "none" /\ handle[h] \in Handle
      /\ Shape(handle[h]) /\ FlushWriter(h) /\ UNCHANGED acked
  BY DEF ReleaseWriter, TypedInv, TypeOK, QuietInv, Shapes
<1>2. handle[h].awaits = NoHandle /\ ~Unopened(handle[h])
  BY <1>1 DEF Shape, Awaits, Unopened
<1>3. \A g \in Handles : g # h => handle'[g] = handle[g]
  BY DEF ReleaseWriter, TypedInv, TypeOK
<1>4. CASE FlushesWriter(h)
  <2>1. hook \in {NoHandle, h} /\ handle[h].upload = "progress"
    BY <1>1, <1>4, WriterInProgress DEF FlushesWriter, IsWriter, TypedInv, QuietInv, WriterHook
  <2>2. hook' = h /\ UNCHANGED stat
    BY <1>1, <1>4, <2>1 DEF FlushWriter
  <2>3. r = [handle[h] EXCEPT !.phase = "awaitClose", !.awaits = h]
    BY <1>4, <2>2 DEF ReleaseWriter, TypedInv, TypeOK
  <2>4. /\ r.phase = "awaitClose" /\ r.op = "none" /\ r.upload = "progress" /\ r.step = handle[h].step
        /\ r.rw = "W" /\ r.pending = handle[h].pending /\ r.awaits = h
    BY <1>1, <2>1, <2>3 DEF Handle
  <2> HIDE DEF r
  <2>5. Shape(r) /\ ~LiveState(r) /\ Busy(r)
    BY <1>1, <2>4 DEF Shape, Fresh, Awaits, Reader, Puts, Requests, Pending, Unopened, Busy, LiveState
  <2> QED  BY <1>1, <1>3, <1>4, <2>2, <2>4, <2>5, FlushWriterQuiet DEF r
<1>5. CASE ~FlushesWriter(h)
  <2>1. map.writer # h
    BY <1>1, <1>5, WriterInProgress
  <2>2. stat'.etag = stat.etag /\ UNCHANGED <<present, status, hook, map, result, acked>>
    BY <1>1, <1>5 DEF FlushWriter, inodeVars
  <2>3. handle' = [handle EXCEPT ![h] = r] /\ r = [handle[h] EXCEPT !.phase = "closed"]
    BY <1>5 DEF ReleaseWriter, TypedInv, TypeOK
  <2>4. /\ r.phase = "closed" /\ r.op = "none" /\ r.upload = handle[h].upload /\ r.step = handle[h].step
        /\ r.rw = "W" /\ r.pending = handle[h].pending /\ r.awaits = handle[h].awaits
    BY <1>1, <2>3 DEF Handle
  <2> HIDE DEF r
  <2>5. Shape(r) /\ ~LiveState(r) /\ (Busy(r) <=> Busy(handle[h]))
    BY <1>1, <1>2, <2>4 DEF Shape, Fresh, Awaits, Reader, Puts, Requests, Pending, Unopened, Busy, LiveState
  <2>6. StaysWriter(h, r)
    BY <2>1 DEF StaysWriter
  <2> QED  BY <1>1, <1>2, <2>2, <2>3, <2>4, <2>5, <2>6, HandleOnly
<1> QED  BY <1>4, <1>5

LEMMA AfterReleaseQuiet ==
    ASSUME TypedInv, NEW h \in Handles, ReleaseAfterHook(h)
    PROVE  QuietInv'
<1> DEFINE r == handle'[h]
<1> USE NoHandleAssumption
<1>1. /\ handle[h].phase = "awaitClose" /\ handle[h] \in Handle /\ Shape(handle[h]) /\ QuietInv
      /\ UNCHANGED <<present, status, stat, hook, map, result, acked>>
  BY DEF ReleaseAfterHook, inodeVars, TypedInv, TypeOK, QuietInv, Shapes
<1>2. handle[h].awaits = h /\ result[h].state \notin {"fresh", "running"} /\ ~Unopened(handle[h])
  BY <1>1 DEF QuietInv, HookStates, ReleaseAfterHook, Unopened
<1>3. hook # h
  BY <1>1, <1>2 DEF QuietInv, HookGoes
<1>4. map.writer # h
  BY <1>1, <1>3 DEF QuietInv, WriterHook
<1>5. /\ r.phase = "closed" /\ r.awaits = NoHandle /\ r.op = handle[h].op /\ r.upload = handle[h].upload
      /\ r.step = handle[h].step /\ r.rw = handle[h].rw /\ r.pending = handle[h].pending /\ r.res = handle[h].res
      /\ \A g \in Handles : g # h => handle'[g] = handle[g]
  BY <1>1 DEF ReleaseAfterHook, TypedInv, TypeOK, Handle
<1> HIDE DEF r
<1>6. Shape(r) /\ ~LiveState(r) /\ (Busy(r) <=> Busy(handle[h]))
  BY <1>1, <1>5 DEF Shape, Fresh, Awaits, Reader, Puts, Requests, Pending, Unopened, Busy, LiveState
<1>7. Shapes' /\ Calm'
  BY <1>1, <1>2, <1>5, <1>6 DEF QuietInv, Shapes, Calm, r
<1>8. LiveInMap'
  BY <1>1, <1>5, <1>6 DEF QuietInv, LiveInMap, ActiveIn, r
<1>9. BusyTracked' /\ AwaitsHook'
  BY <1>1, <1>5, <1>6 DEF QuietInv, BusyTracked, AwaitsHook, r
<1>10. WriterHook'
  BY <1>1, <1>4, <1>5 DEF QuietInv, WriterHook
<1>11. HookGoes' /\ HookAwaited'
  BY <1>1, <1>2, <1>3, <1>5 DEF QuietInv, HookGoes, HookAwaited
<1>12. HookStates' /\ StatAcked'
  BY <1>1, <1>5 DEF QuietInv, HookStates, StatAcked, r
<1>13. LookupAcked'
  BY <1>1, <1>5 DEF QuietInv, LookupAcked, r
<1> QED  BY <1>7, <1>8, <1>9, <1>10, <1>11, <1>12, <1>13 DEF QuietInv

\* A step that leaves all but the TTL of the stat.
LEMMA StutterQuiet ==
    ASSUME TypedInv, UNCHANGED <<present, status, hook, map, handle, result, acked>>,
           stat'.etag = stat.etag
    PROVE  QuietInv'
<1>1. QuietInv
  BY DEF TypedInv
<1>2. Shapes' /\ Calm' /\ LiveInMap' /\ BusyTracked' /\ AwaitsHook' /\ WriterHook'
  BY <1>1 DEF QuietInv, Shapes, Calm, LiveInMap, ActiveIn, BusyTracked, AwaitsHook, WriterHook
<1>3. HookGoes' /\ HookAwaited' /\ HookStates' /\ StatAcked' /\ LookupAcked'
  BY <1>1 DEF QuietInv, HookGoes, HookAwaited, HookStates, StatAcked, LookupAcked
<1> QED  BY <1>2, <1>3 DEF QuietInv

-----------------------------------------------------------------------------
\* Every step keeps the invariant.
LEMMA QuietStep ==
    ASSUME Quiet, TypedInv, [Next]_vars
    PROVE  QuietInv'
<1>1. ASSUME NEW h \in Handles, Application(h) PROVE QuietInv'
  <2>1. CASE Fsync(h)
    BY <2>1, UploadingQuiet DEF Fsync
  <2>2. ASSUME NEW samePid \in BOOLEAN, FlushCompletes(h, samePid) PROVE QuietInv'
    BY <2>2, UploadingQuiet DEF FlushCompletes
  <2>3. ASSUME NEW samePid \in BOOLEAN, FlushCommits(h, samePid) PROVE QuietInv'
    BY <2>3 DEF FlushCommits, Quiet
  <2> QED  BY <1>1, <2>1, <2>2, <2>3, LookupQuiet, ReadQuiet, WriteQuiet, FlushReaderQuiet, FlushEndedQuiet,
              CloseQuiet, FlushDefersQuiet DEF Application
<1>2. ASSUME NEW h \in Handles, HandleStep(h) PROVE QuietInv'
  <2>1. ~FsyncReturns(h) /\ ~S3NoPut(h) /\ ~S3Refuses(h)
    BY DEF FsyncReturns, S3NoPut, NoPut, S3Refuses, Accepts, Quiet
  <2>2. ~DeferReturns(h)
    BY DEF DeferReturns, Responded, TypedInv, QuietInv, Shapes, Shape, Requests
  <2> QED  BY <1>2, <2>1, <2>2, RevalidateQuiet, StartReadingQuiet, StartWritingQuiet, RefusedQuiet,
              AfterHookQuiet, WriteReturnsQuiet, PutQuiet, CompleteQuiet, HookRunsQuiet, HookReturnsQuiet,
              ReleaseReaderQuiet, ReleaseWriterQuiet, AfterReleaseQuiet DEF HandleStep
<1>3. ASSUME NEW h \in Handles PROVE ~OpenHeadFails(h)
  BY DEF OpenHeadFails, Quiet
<1>4. ~Forget /\ ~RenameBegins /\ ~RenameFails
  BY DEF Forget, RenameBegins, RenameFails, Quiet, TypedInv, QuietInv, Calm
<1>5. CASE Expire
  <2>1. stat'.etag = stat.etag
    BY <1>5 DEF Expire, TypedInv, TypeOK
  <2> QED  BY <1>5, <2>1, StutterQuiet DEF Expire
<1>6. CASE UNCHANGED vars
  BY <1>6, StutterQuiet DEF vars, inodeVars
<1> QED  BY <1>1, <1>2, <1>3, <1>4, <1>5, <1>6 DEF Next

LEMMA QuietAlways == Quiet => (Spec => []TypedInv)
<1> SUFFICES ASSUME Quiet PROVE Spec => []TypedInv
  OBVIOUS
<1>1. Init => QuietInv
  BY InitQuiet
<1>2. TypeOK /\ MapSafe /\ QuietInv /\ [Next]_vars => QuietInv'
  BY QuietStep DEF TypedInv
<1>3. TypedInv <=> TypeOK /\ MapSafe /\ QuietInv
  BY DEF TypedInv
<1> QED  BY <1>1, <1>2, <1>3, TypeCorrect, MapSafeAlways, PTL DEF Spec

\* "Multiple concurrent readers or a single writer" (SEMANTICS.md): for any
\* number of handles, whatever is opened, flushed from other processes,
\* re-activated and released, two usable handles are both read handles, as
\* long as no upload fails.
THEOREM HandlesReadersOrWriter == Quiet => (Spec => []ReadersOrSingleWriter)
<1> SUFFICES ASSUME Quiet PROVE Spec => []ReadersOrSingleWriter
  OBVIOUS
<1>1. TypedInv => ReadersOrSingleWriter
  <2> SUFFICES ASSUME TypedInv, NEW g \in Handles, NEW h \in Handles, g # h, Usable(g), Usable(h),
                      handle[g].rw # "R" \/ handle[h].rw # "R"
               PROVE  FALSE
    BY DEF ReadersOrSingleWriter
  <2>1. ActiveIn(g, handle[g].rw) /\ ActiveIn(h, handle[h].rw)
    BY DEF TypedInv, QuietInv, LiveInMap, LiveState, Usable
  <2>2. map.writer \in {g, h} /\ (map.readers[g] = "Active" \/ map.readers[h] = "Active")
    BY <2>1 DEF ActiveIn
  <2> QED  BY <2>2, NoHandleAssumption DEF TypedInv, MapSafe, MapExclusive
<1> QED  BY <1>1, QuietAlways, PTL

\* The data that a handle accepted is in S3 when its release returns, or an
\* upload that somebody waits for is on its way, for any number of handles
\* that take over from each other, as long as no upload fails.
THEOREM HandlesNoSilentLoss == Quiet => (Spec => []NoSilentLoss)
<1> SUFFICES ASSUME Quiet PROVE Spec => []NoSilentLoss
  OBVIOUS
<1>1. TypedInv => NoSilentLoss
  <2> SUFFICES ASSUME TypedInv, NEW h \in Handles, handle[h].phase = "closed", handle[h].pending > 0
               PROVE  UploadUnderWay(h)
    BY DEF NoSilentLoss
  <2>1. Busy(handle[h])
    BY DEF TypedInv, QuietInv, Shapes, Shape, Pending, Requests, Busy
  <2>2. map.writer # h
    BY DEF TypedInv, QuietInv, WriterHook
  <2>3. hook = h
    BY <2>1, <2>2 DEF TypedInv, QuietInv, BusyTracked
  <2> QED  BY <2>2, <2>3 DEF TypedInv, QuietInv, HookGoes, HookAwaited, UploadUnderWay
<1> QED  BY <1>1, QuietAlways, PTL

\* Only open makes a handle usable.
LEMMA OpensOnly ==
    ASSUME Quiet, TypedInv, NEW h \in Handles, NEW x \in Handles, Application(x) \/ HandleStep(x),
           handle'[h].rw = "R", handle'[h].phase = "open", handle[h].phase # "open"
    PROVE  StartReading(h) \/ OpenAfterHook(h)
<1>0. handle \in [Handles -> Handle] /\ \A g \in Handles : handle[g] \in Handle
  BY DEF TypedInv, TypeOK
<1>1. CASE Application(x)
  <2>1. ASSUME NEW flags \in OpenFlags, OpenLookup(x, flags) PROVE FALSE
    BY <1>0, <2>1 DEF OpenLookup, Handle
  <2>2. CASE Read(x) \/ FlushReader(x) \/ FlushEnded(x)
    BY <1>0, <2>2 DEF Read, FlushReader, FlushEnded, Idle, Handle
  <2>3. CASE Write(x)
    BY <1>0, <2>3 DEF Write, Idle, AcceptedWrite, RefusedWrite, Handle
  <2>4. CASE Fsync(x)
    BY <1>0, <2>4 DEF Fsync, Uploading, Idle, Handle
  <2>5. CASE Close(x)
    BY <1>0, <2>5 DEF Close, Idle, Handle
  <2>6. ASSUME NEW samePid \in BOOLEAN,
               FlushCompletes(x, samePid) \/ FlushCommits(x, samePid) \/ FlushDefers(x, samePid)
        PROVE  FALSE
    BY <1>0, <2>6 DEF FlushCompletes, FlushCommits, FlushDefers, Uploading, Idle, Handle
  <2> QED  BY <1>1, <2>1, <2>2, <2>3, <2>4, <2>5, <2>6 DEF Application
<1>2. CASE HandleStep(x)
  <2>1. CASE OpenRevalidate(x) \/ OpenRefused(x)
    BY <1>0, <2>1, ZenonT(30) DEF OpenRevalidate, OpenRefused, FailedHandle, UnusedHandle, Handle
  <2>2. CASE StartReading(x) \/ OpenAfterHook(x)
    BY <1>0, <2>2 DEF StartReading, OpenedFrom, OpenAfterHook
  <2>3. CASE StartWriting(x)
    <3>1. handle[x].phase = "looked" /\ handle[x].rw = "W" /\ OpenedFrom(x, stat')
      BY <2>3 DEF StartWriting
    <3>2. stat'.etag = stat.etag /\ stat'.size \in Nat
      BY <2>3 DEF StartWriting, TypedInv, TypeOK
    <3> QED  BY <3>1, <3>2, OpenedFromHandle
  <2>4. CASE WriteReturns(x)
    BY <1>0, <2>4 DEF WriteReturns, MarkFault, Handle
  <2>5. CASE S3Put(x)
    <3>1. handle[x] \in Handle /\ \A g \in Handles : g # x => handle'[g] = handle[g]
      BY <1>0, <2>5 DEF S3Put
    <3>2. PICK step \in {"ok", "err"} :
             handle'[x] = MarkFault([handle[x] EXCEPT !.step = step, !.res = object'.etag, !.pending = 0,
                                                     !.offset = object'.size], step = "err")
      BY <1>0, <2>5, ZenonT(30) DEF S3Put
    <3>3. handle'[x].phase = handle[x].phase
      BY <3>1, <3>2 DEF MarkFault, Handle
    <3> QED  BY <3>1, <3>3
  <2>6. CASE S3NoPut(x) \/ S3Refuses(x)
    BY <2>6 DEF S3NoPut, NoPut, S3Refuses, Accepts, Quiet
  <2>7. CASE FsyncReturns(x)
    BY <2>7 DEF FsyncReturns, Quiet
  <2>8. CASE DeferReturns(x)
    BY <2>8 DEF DeferReturns, Responded, TypedInv, QuietInv, Shapes, Shape, Requests
  <2>9. CASE CompleteReturns(x)
    BY <1>0, <2>9 DEF CompleteReturns, Returned, MarkFlushed, Handle
  <2>10. CASE HookRuns(x) \/ HookReturns(x)
    <3>1. CASE HookRuns(x)
      <4>1. handle' = handle \/ Uploading(x, "hook")
        BY <3>1 DEF HookRuns
      <4> QED  BY <1>0, <4>1, ZenonT(30) DEF Uploading, Handle
    <3>2. CASE HookReturns(x)
      BY <1>0, <3>2 DEF HookReturns, Returned, Handle
    <3> QED  BY <2>10, <3>1, <3>2
  <2>11. CASE ReleaseReader(x) \/ ReleaseWriter(x) \/ ReleaseAfterHook(x)
    BY <1>0, <2>11, ZenonT(30) DEF ReleaseReader, ReleaseWriter, ReleaseAfterHook, UnusedHandle, Handle
  <2> QED  BY <1>2, <2>1, <2>2, <2>3, <2>4, <2>5, <2>6, <2>7, <2>8, <2>9, <2>10, <2>11 DEF HandleStep
<1> QED  BY <1>1, <1>2

\* Read-after-write: a read handle opens on the last version of the object
\* that an upload of this mount is known to have made, whether open reads the
\* cached stat or takes it from the upload it waited for.
THEOREM HandlesSeeAcked == Quiet => (Spec => OpenSeesAcked)
<1> SUFFICES ASSUME Quiet PROVE Spec => OpenSeesAcked
  OBVIOUS
<1> DEFINE Sees == \A h \in Handles :
                      handle'[h].rw = "R" /\ handle'[h].phase = "open" /\ handle[h].phase # "open"
                         => handle'[h].etag >= acked
<1>1. TypedInv /\ [Next]_vars => [Sees]_vars
  <2> SUFFICES ASSUME TypedInv, Next, NEW h \in Handles, handle'[h].rw = "R", handle'[h].phase = "open",
                      handle[h].phase # "open"
               PROVE  handle'[h].etag >= acked
    OBVIOUS
  <2> USE NoHandleAssumption
  <2>1. handle' # handle /\ handle \in [Handles -> Handle] /\ acked = stat.etag /\ stat.etag \in Nat
    BY DEF TypedInv, TypeOK, QuietInv, StatAcked
  <2>2. PICK x \in Handles : Application(x) \/ HandleStep(x)
    BY <2>1 DEF Next, Forget, RenameBegins, RenameFails, Expire, OpenHeadFails, Quiet
  <2>3. StartReading(h) \/ OpenAfterHook(h)
    BY <2>1, <2>2, OpensOnly
  <2>4. CASE StartReading(h)
    <3>1. /\ handle[h].phase = "looked" /\ handle[h].rw = "R" /\ OpenedFrom(h, stat) /\ stat.size \in Nat
      BY <2>4 DEF StartReading, TypedInv, TypeOK
    <3>2. handle'[h].etag = stat.etag
      BY <3>1, OpenedFromHandle
    <3> QED  BY <2>1, <3>2
  <2>5. CASE OpenAfterHook(h)
    <3>1. PICK g \in Handles : OpenAfterHook(h)!2!(g)
      BY <2>5 DEF OpenAfterHook
    <3>2. handle[h].phase = "awaitOpen" /\ handle[h].awaits = g /\ result[g].state \in {"lookup", "none"}
      BY <2>5, <3>1 DEF OpenAfterHook, TypedInv, QuietInv, HookStates
    <3>3. PICK e \in Nat, n \in Nat : handle' = [handle EXCEPT ![h] = NewHandleState(h, e, n)] /\ e = stat.etag
      <4>1. CASE result[g].state = "lookup"
        <5>1. result[g].etag = stat.etag /\ result[g].size \in Nat
          BY <3>2, <4>1 DEF TypedInv, QuietInv, LookupAcked, TypeOK, HookResult
        <5> QED  BY <2>1, <3>1, <4>1, <5>1
      <4>2. CASE result[g].state = "none"
        <5>1. stat.size \in Nat
          BY DEF TypedInv, TypeOK
        <5> QED  BY <2>1, <3>1, <4>2, <5>1
      <4> QED  BY <3>2, <4>1, <4>2
    <3>4. handle'[h] = NewHandleState(h, e, n)
      BY <2>1, <3>3
    <3>5. handle'[h].etag = e
      BY <3>2, <3>4, OpenedHandle
    <3> QED  BY <2>1, <3>3, <3>5
  <2> QED  BY <2>3, <2>4, <2>5
<1> QED  BY <1>1, QuietAlways, PTL DEF Spec, OpenSeesAcked
=============================================================================
