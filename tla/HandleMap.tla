------------------------------ MODULE HandleMap ------------------------------
(***************************************************************************)
(* The entry an inode has in the InodeHandleMap                            *)
(* (mountpoint-s3-fs/src/superblock/handles_map.rs): the readers and the   *)
(* writer that are open on the inode, each Active, or Inactive once the    *)
(* handle has been flushed.                                                *)
(*                                                                         *)
(* Every method takes the inode's write lock as a witness and the map's    *)
(* own mutex, so each is one atomic update of the entry; the operators     *)
(* below are the methods' outcomes and new entries.  An absent entry and   *)
(* an empty one (is_empty) behave alike and are the same value here.       *)
(***************************************************************************)
CONSTANTS
    Handles,    \* file handle numbers
    NoHandle    \* the None of Option<(u64, HandleState)>

ASSUME NoHandleAssumption == NoHandle \notin Handles

HandleState == {"Absent", "Active", "Inactive"}

\* InodeHandles.  The writer and its state are one Option.
InodeHandles ==
    {m \in [readers     : [Handles -> HandleState],
            writer      : Handles \cup {NoHandle},
            writerState : HandleState] :
        m.writer = NoHandle <=> m.writerState = "Absent"}

Empty ==
    [readers |-> [h \in Handles |-> "Absent"], writer |-> NoHandle, writerState |-> "Absent"]

ActiveWriter(m) == m.writerState = "Active"

ActiveReaders(m) == \E h \in Handles : m.readers[h] = "Active"

DropWriter(m) == [m EXCEPT !.writer = NoHandle, !.writerState = "Absent"]

\* try_add_reader: refused by an active writer, and evicts an inactive one.
CanAddReader(m) == ~ActiveWriter(m)

AddReader(m, h) == [DropWriter(m) EXCEPT !.readers[h] = "Active"]

\* set_writer: refused by any active reader or writer, and evicts all others.
\* Mutant: the active readers are overlooked.
SetWriterOverReaders(m) == ~ActiveWriter(m)

CanSetWriter(m) == ~ActiveReaders(m) /\ ~ActiveWriter(m)

\* Mutant: the inactive readers stay.
SetWriterBesideReaders(m, h) == [m EXCEPT !.writer = h, !.writerState = "Active"]

SetWriter(m, h) ==
    [readers |-> [r \in Handles |-> "Absent"], writer |-> h, writerState |-> "Active"]

\* deactivate_reader and try_activate_reader touch a reader that is tracked.
TracksReader(m, h) == m.readers[h] # "Absent"

DeactivateReader(m, h) ==
    IF TracksReader(m, h) THEN [m EXCEPT !.readers[h] = "Inactive"] ELSE m

ActivateReader(m, h) == [m EXCEPT !.readers[h] = "Active"]

RemoveReader(m, h) == [m EXCEPT !.readers[h] = "Absent"]

\* try_activate_writer, try_deactivate_writer and try_remove_writer return
\* false, and do nothing, unless h is the current writer.
IsWriter(m, h) == m.writer = h

ActivateWriter(m, h) == [m EXCEPT !.writerState = "Active"]

DeactivateWriter(m, h) == [m EXCEPT !.writerState = "Inactive"]

RemoveWriter(m, h) == DropWriter(m)

\* remove_inode
RemoveInode(m) == Empty

=============================================================================
