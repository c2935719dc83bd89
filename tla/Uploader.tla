------------------------------ MODULE Uploader ------------------------------
(***************************************************************************)
(* Uploader (mountpoint-s3-fs/src/upload.rs): a file opened for writing    *)
(* has one upload, incremental or atomic by the mount's write mode.        *)
(***************************************************************************)
EXTENDS AppendUpload, AtomicUpload

VARIABLE incremental  \* write_mode.incremental_upload

uploaderVars == <<incremental, vars, atomicVars>>

UploaderInit ==
    /\ incremental \in BOOLEAN
    /\ Init
    /\ ~incremental => start = 0 /\ versions = <<>>
    /\ AtomicInit

IncrementalStep == incremental /\ UNCHANGED <<incremental, atomicVars>>
AtomicStep == ~incremental /\ UNCHANGED <<incremental, vars>>

UploaderNext ==
    \/ Next /\ IncrementalStep
    \/ AtomicNext /\ AtomicStep

\* The executor polls the callers and the tasks, the CRT goes on, and S3
\* answers or the client times out.
UploaderSpec ==
    /\ UploaderInit
    /\ [][UploaderNext]_uploaderVars
    /\ WF_uploaderVars(Caller /\ IncrementalStep)
    /\ WF_uploaderVars(Task /\ IncrementalStep)
    /\ WF_uploaderVars(AtomicCaller /\ AtomicStep)
    /\ WF_uploaderVars(Creator /\ AtomicStep)
    /\ WF_uploaderVars(Crt /\ AtomicStep)

\* A write, complete or drop of either kind of upload that has begun returns:
\* the bounded channel, the wait for memory and for events, the creation of
\* the multi-part upload and the CRT's waker never leave the caller waiting.
CallsReturn == CallerReturns /\ AtomicReturns

=============================================================================
