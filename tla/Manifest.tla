------------------------------ MODULE Manifest ------------------------------
(***************************************************************************)
(* Read-only mounts from a manifest (mountpoint-s3-fs/src/manifest):       *)
(* ingest_manifest reads the CSV file of every channel into a table of     *)
(* files and directories, and ManifestMetablock serves lookup, getattr and *)
(* readdir from that table.                                                *)
(*                                                                         *)
(* A key is the sequence of its components.  Names are numbers, in the     *)
(* order in which the database sorts them.  An etag stands for the etag    *)
(* and the size of an object.  A checksum is the tuple of values it is     *)
(* computed from: that two rows have one CRC32C is left out.               *)
(***************************************************************************)
EXTENDS Integers, Sequences, FiniteSets, SequencesExt

CONSTANTS
    Inputs,      \* the configurations that may be ingested: sequences of channels
    InsertBatch, \* batch_size of ManifestBuilder
    ListBatch,   \* batch_size of ManifestDirIter
    Names,       \* the names of files and directories, and of channels
    Rooms,       \* how many entries a reply of readdir may have room for
    MaxDamage    \* bound: rows that are damaged on disk

Root == 1          \* ROOT_INODE_NO
NoKey == <<0>>     \* the parent_partial_key of a channel's directory
NoEtag == 0
Slash == -1        \* a directory_name with a '/' in it
BadName == 0       \* one that is no ValidName for another reason

\* A row of a CSV file: an object, a directory marker, or a row that cannot be
\* parsed or has an invalid key or etag.  `intact` is whether its checksum is
\* that of its fields, `whole` whether that of a file is that of its rows.
Entry == [type : {"object", "marker", "invalid"}, key : Seq(Names) \ {<<>>}, etag : Nat \ {NoEtag},
          intact : BOOLEAN]
Channel == [dir : Names \cup {Slash, BadName}, path : Nat, rows : Seq(Entry), whole : BOOLEAN]

ASSUME ManifestAssumption ==
    /\ Names \subseteq Nat \ {0}
    /\ Inputs \subseteq Seq(Channel)
    /\ {InsertBatch, ListBatch} \subseteq Nat \ {0} /\ Rooms \subseteq Nat \ {0}
    /\ MaxDamage \in Nat

VARIABLES
    input,   \* the channels that are ingested
    db,      \* the database file: whether it exists, channels and s3_objects
    build,   \* the ManifestBuilder of an ingest under way
    mounted, \* is the ManifestMetablock serving?
    damage,  \* the number of rows that were damaged
    dir,     \* a directory handle with its ManifestDirIter
    req,     \* the readdir request under way
    given,   \* what the kernel has read from the handle
    ended    \* whether it was told that there is nothing more

handle == <<dir, req, given, ended>>
vars == <<input, db, build, mounted, damage, handle>>

NoBuild == [pc |-> "idle", channel |-> 0, row |-> 0, root |-> 0, nextId |-> Root + 1,
            dirIds |-> <<>>, buffer |-> <<>>]
Closed == [open |-> FALSE, ino |-> 0, entries |-> <<>>, next |-> 0, finished |-> FALSE, kids |-> <<>>]
NoRequest == [on |-> FALSE, off |-> 0, room |-> 0, reply |-> <<>>, sought |-> FALSE]

Init ==
    /\ input \in Inputs
    /\ db = [exists |-> FALSE, channels |-> <<>>, rows |-> {}]
    /\ build = NoBuild
    /\ mounted = FALSE
    /\ damage = 0
    /\ dir = Closed
    /\ req = NoRequest
    /\ given = <<>>
    /\ ended = FALSE

-----------------------------------------------------------------------------
\* Rows of s3_objects

Least(i, j) == IF i < j THEN i ELSE j

KeyOf(r) == Append(IF r.ppk = NoKey THEN <<>> ELSE r.ppk, r.name)
KindOf(r) == IF r.etag # NoEtag /\ r.size THEN "file" ELSE "dir"

\* compute_checksum: the full checksum of a row.
Checksum(r, channels) ==
    <<KeyOf(r), KindOf(r), r.etag, r.size, r.id, r.parent, channels[r.channel]>>

Row(id, parent, c, ppk, name, etag) ==
    LET r == [id |-> id, parent |-> parent, channel |-> c, ppk |-> ppk, name |-> name,
              etag |-> etag, size |-> etag # NoEtag]
    IN  [r |-> r, sum |-> Checksum(r, db.channels)]

-----------------------------------------------------------------------------
\* Ingest

DirNames == [c \in DOMAIN input |-> input[c].dir]

\* ingest_manifest up to insert_channels.  It fails without a trace if a
\* database exists, or for the names of the channels.
BeginIngest ==
    /\ build.pc = "idle" /\ ~mounted
    /\ ~db.exists
    /\ IsInjective(DirNames) /\ Slash \notin Range(DirNames)
    /\ db' = [exists |-> TRUE, channels |-> [c \in DOMAIN input |-> input[c].path], rows |-> {}]
    /\ build' = [NoBuild EXCEPT !.pc = "entries", !.channel = 1]
    /\ UNCHANGED <<input, mounted, damage, handle>>

\* The ingest returns an error, and leaves what it has written.
IngestFails == build' = NoBuild /\ UNCHANGED db

Flush(b) ==
    /\ db' = [db EXCEPT !.rows = @ \cup Range(b.buffer)]
    /\ build' = [b EXCEPT !.buffer = <<>>]

AddChannelDir ==
    LET d == input[build.channel].dir
    IN  /\ build.pc = "entries" /\ build.row = 0
        /\ IF d = BadName THEN IngestFails
           ELSE /\ build' = [build EXCEPT
                       !.buffer = Append(@, Row(build.nextId, Root, build.channel, NoKey, d, NoEtag)),
                       !.root = build.nextId, !.nextId = @ + 1, !.row = 1]
                /\ UNCHANGED db
        /\ UNCHANGED <<input, mounted, damage, handle>>

Entries == input[build.channel].rows

\* ensure_dirs_inserted: the directories above a key that are not there yet get
\* the next ids, from the top.
Above(key) == [k \in 1 .. Len(key) - 1 |-> SubSeq(key, 1, k)]
Missing(key) == {k \in DOMAIN Above(key) : Above(key)[k] \notin DOMAIN build.dirIds}
DirId(key, k) ==
    IF k = 0 THEN build.root
    ELSE IF k \notin Missing(key) THEN build.dirIds[Above(key)[k]]
    ELSE build.nextId + Cardinality({j \in Missing(key) : j < k})
DirRow(key, k) ==
    Row(DirId(key, k), DirId(key, k - 1), build.channel, SubSeq(key, 1, k - 1), key[k], NoEtag)

WithDirs(key) ==
    [build EXCEPT !.buffer = @ \o [j \in 1 .. Cardinality(Missing(key)) |->
                                    DirRow(key, SetToSortSeq(Missing(key), <)[j])],
                  !.nextId = @ + Cardinality(Missing(key)),
                  !.dirIds = [p \in DOMAIN @ \cup Range(Above(key)) |->
                                IF p \in DOMAIN @ THEN @[p] ELSE DirId(key, Len(p))]]

AddEntry ==
    /\ build.pc = "entries" /\ build.row \in DOMAIN Entries
    /\ LET e == Entries[build.row]
           k == Len(e.key) - 1
           b == WithDirs(e.key)
           f == Row(b.nextId, DirId(e.key, k), build.channel, SubSeq(e.key, 1, k), Last(e.key), e.etag)
           added == [b EXCEPT !.buffer = Append(@, f), !.nextId = @ + 1, !.row = @ + 1]
       IN  \/ e.type = "marker" /\ build' = [build EXCEPT !.row = @ + 1] /\ UNCHANGED db
           \/ e.type = "invalid" /\ IngestFails
           \/ e.type = "object" /\ ~e.intact /\ IngestFails
           \/ /\ e.type = "object" /\ e.intact
              /\ IF Len(added.buffer) >= InsertBatch THEN Flush(added)
                 ELSE build' = added /\ UNCHANGED db
    /\ UNCHANGED <<input, mounted, damage, handle>>

\* Mutant: the directories of a channel are kept for the next one.
EndChannelKeepsDirs ==
    /\ build.pc = "entries" /\ build.row = Len(Entries) + 1
    /\ IF ~input[build.channel].whole THEN IngestFails
       ELSE IF build.channel < Len(input)
       THEN build' = [build EXCEPT !.channel = @ + 1, !.row = 0] /\ UNCHANGED db
       ELSE Flush([build EXCEPT !.pc = "index"])
    /\ UNCHANGED <<input, mounted, damage, handle>>

\* The end of a CSV file, with its checksum; after the last one the rest of
\* the rows is written.
EndChannel ==
    /\ build.pc = "entries" /\ build.row = Len(Entries) + 1
    /\ IF ~input[build.channel].whole THEN IngestFails
       ELSE IF build.channel < Len(input)
       THEN build' = [build EXCEPT !.channel = @ + 1, !.row = 0, !.dirIds = <<>>] /\ UNCHANGED db
       ELSE Flush([build EXCEPT !.pc = "index", !.dirIds = <<>>])
    /\ UNCHANGED <<input, mounted, damage, handle>>

\* create_index: the unique index refuses two entries of one name in one
\* directory.
CreateIndex ==
    /\ build.pc = "index"
    /\ IF \A x, y \in db.rows : x.r.parent = y.r.parent /\ x.r.name = y.r.name => x = y
       THEN build' = [NoBuild EXCEPT !.pc = "indexed"] /\ UNCHANGED db
       ELSE IngestFails
    /\ UNCHANGED <<input, mounted, damage, handle>>

\* The ManifestMetablock is made of the index just written.
Mount ==
    /\ build.pc = "indexed"
    /\ mounted' = TRUE
    /\ build' = NoBuild
    /\ UNCHANGED <<input, db, damage, handle>>

\* The process stops during the ingest.  The database has no journal: any of
\* the rows that were being written may be there.
Crash ==
    /\ build.pc # "idle"
    /\ \E written \in SUBSET Range(build.buffer) : db' = [db EXCEPT !.rows = @ \cup written]
    /\ build' = NoBuild
    /\ UNCHANGED <<input, mounted, damage, handle>>

-----------------------------------------------------------------------------
\* Reading rows that may have been damaged on disk

Damaged(x) ==
    {[x EXCEPT !.r.size = ~@]}
    \cup {[x EXCEPT !.r.parent = p] : p \in {y.r.id : y \in db.rows} \cup {Root}}
    \cup {[x EXCEPT !.r.name = n] : n \in Names}
    \cup {[x EXCEPT !.r.channel = c] : c \in 1 .. Len(input) + 1}
    \cup {[x EXCEPT !.r.ppk = NoKey]}
    \cup {[x EXCEPT !.r.etag = IF @ = NoEtag THEN 1 ELSE NoEtag, !.r.size = ~@]}

Damage(x) ==
    /\ mounted
    /\ damage < MaxDamage
    /\ damage' = damage + 1
    /\ \E y \in Damaged(x) \ {x} : db' = [db EXCEPT !.rows = (@ \ {x}) \cup {y}]
    /\ UNCHANGED <<input, build, mounted, handle>>

\* ManifestEntry::try_from
WellFormed(x) ==
    /\ x.r.ppk = NoKey => x.r.parent = Root
    /\ x.r.etag # NoEtag <=> x.r.size

\* channel and validate_checksum
Verified(x) == x.r.channel \in DOMAIN db.channels /\ x.sum = Checksum(x.r, db.channels)

NotFound == [ino |-> 0, kind |-> "none", key |-> <<>>, path |-> 0, etag |-> NoEtag]
Failed == [NotFound EXCEPT !.kind = "error"]

\* into_lookup; a channel's directory has no location in S3.
IntoLookup(x) ==
    IF ~WellFormed(x) \/ ~Verified(x) THEN Failed
    ELSE [ino |-> x.r.id, kind |-> KindOf(x.r), key |-> IF x.r.ppk = NoKey THEN <<>> ELSE KeyOf(x.r),
          path |-> IF x.r.ppk = NoKey THEN 0 ELSE db.channels[x.r.channel], etag |-> x.r.etag]

\* The answer of a query that finds one of these rows, or none.
AnswerOf(rows) == IF rows = {} THEN {NotFound} ELSE {IntoLookup(x) : x \in rows}

SelectEntry(parent, name) == {x \in db.rows : x.r.parent = parent /\ x.r.name = name}
SelectById(id) == {x \in db.rows : x.r.id = id}

Lookup(parent, name) == AnswerOf(SelectEntry(parent, name))

RootDir == [NotFound EXCEPT !.ino = Root, !.kind = "dir"]
Getattr(ino) == IF ino = Root THEN {RootDir} ELSE AnswerOf(SelectById(ino))

-----------------------------------------------------------------------------
\* readdir

\* select_children without its limits
Children(ino) == SetToSortSeq({x \in db.rows : x.r.parent = ino},
                              LAMBDA x, y : x.r.name < y.r.name \/ (x.r.name = y.r.name /\ x.r.id < y.r.id))

Opendir(ino) ==
    /\ mounted /\ ~dir.open
    /\ \E a \in Getattr(ino) : a.kind = "dir"
    /\ dir' = [Closed EXCEPT !.open = TRUE, !.ino = ino, !.kids = Children(ino)]
    /\ UNCHANGED <<input, db, build, mounted, damage, req, given, ended>>

Releasedir ==
    /\ dir.open /\ ~req.on
    /\ dir' = Closed
    /\ given' = <<>>
    /\ ended' = FALSE
    /\ UNCHANGED <<input, db, build, mounted, damage, req>>

\* The application goes back to a place where it has been.
Seekdir(off) ==
    /\ dir.open /\ ~req.on
    /\ off < Len(given)
    /\ given' = SubSeq(given, 1, off)
    /\ ended' = FALSE
    /\ UNCHANGED <<input, db, build, mounted, damage, dir, req>>

\* A reply: its entries are the kernel's, and one without entries is the end.
ReplyOk(reply) ==
    /\ given' = given \o reply
    /\ ended' = (reply = <<>>)
    /\ req' = NoRequest

ReplyError == req' = NoRequest /\ UNCHANGED <<given, ended>>

Add(ino) == req' = [req EXCEPT !.reply = Append(@, ino), !.off = @ + 1]
Full == Len(req.reply) = req.room

\* A request at the kernel's position.
Readdir(room) ==
    /\ dir.open /\ ~req.on /\ ~ended
    /\ req' = [on |-> TRUE, off |-> Len(given), room |-> room, reply |-> <<>>, sought |-> FALSE]
    /\ UNCHANGED <<input, db, build, mounted, damage, dir, given, ended>>

Dot ==
    /\ req.on /\ req.off = 0
    /\ Add(dir.ino)
    /\ UNCHANGED <<input, db, build, mounted, damage, dir, given, ended>>

\* get_parent_id
Parents(ino) ==
    IF ino = Root THEN {Root}
    ELSE {x.r.parent : x \in {y \in SelectById(ino) : WellFormed(y)}}

DotDot ==
    /\ req.on /\ req.off = 1
    /\ IF Parents(dir.ino) = {} THEN ReplyError
       ELSE IF Full THEN ReplyOk(req.reply)
       ELSE (\E p \in Parents(dir.ino) : Add(p)) /\ UNCHANGED <<given, ended>>
    /\ UNCHANGED <<input, db, build, mounted, damage, dir>>

\* Mutant: an iterator that was at the end stays there.
SeekKeepsFinished ==
    /\ req.on /\ req.off >= 2 /\ ~req.sought
    /\ req' = [req EXCEPT !.sought = TRUE]
    /\ dir' = IF req.off - 2 = dir.next THEN dir
              ELSE [dir EXCEPT !.entries = <<>>, !.next = req.off - 2]
    /\ UNCHANGED <<input, db, build, mounted, damage, given, ended>>

\* ManifestDirIter::seek
Seek ==
    /\ req.on /\ req.off >= 2 /\ ~req.sought
    /\ req' = [req EXCEPT !.sought = TRUE]
    /\ dir' = IF req.off - 2 = dir.next THEN dir
              ELSE [dir EXCEPT !.entries = <<>>, !.next = req.off - 2, !.finished = FALSE]
    /\ UNCHANGED <<input, db, build, mounted, damage, given, ended>>

\* search_next_entries: a row that is not well formed fails the whole batch.
Batch == LET kids == Children(dir.ino)
         IN  SubSeq(kids, dir.next + 1, Least(dir.next + ListBatch, Len(kids)))

MustSearch == dir.entries = <<>> /\ ~dir.finished

SearchFails ==
    /\ req.sought /\ MustSearch
    /\ \E x \in Range(Batch) : ~WellFormed(x)
    /\ dir' = [dir EXCEPT !.finished = Len(Batch) < ListBatch]
    /\ ReplyError
    /\ UNCHANGED <<input, db, build, mounted, damage>>

\* The iterator with a batch to take from, if there is one.
Searched ==
    IF MustSearch THEN [dir EXCEPT !.entries = Batch, !.finished = Len(Batch) < ListBatch] ELSE dir

\* next_entry
Taken == [Searched EXCEPT !.entries = Tail(@), !.next = @ + 1]

Readd(d, x) == [d EXCEPT !.entries = <<x>> \o @, !.next = @ - 1]

NextEntry ==
    /\ req.sought
    /\ ~(MustSearch /\ \E x \in Range(Batch) : ~WellFormed(x))
    /\ \/ /\ Searched.entries = <<>>
          /\ dir' = Searched
          /\ ReplyOk(req.reply)
       \/ /\ Searched.entries # <<>>
          /\ LET x == Head(Searched.entries)
             IN  \/ ~Verified(x) /\ dir' = Taken /\ ReplyError
                 \/ Verified(x) /\ Full /\ dir' = Readd(Taken, x) /\ ReplyOk(req.reply)
                 \/ Verified(x) /\ ~Full /\ dir' = Taken /\ Add(x.r.id) /\ UNCHANGED <<given, ended>>
    /\ UNCHANGED <<input, db, build, mounted, damage>>

-----------------------------------------------------------------------------
Ingest == BeginIngest \/ AddChannelDir \/ AddEntry \/ EndChannel \/ CreateIndex \/ Mount \/ Crash

Inos == {Root} \cup {x.r.id : x \in db.rows}

Serve ==
    \/ \E ino \in Inos : Opendir(ino)
    \/ \E off \in 0 .. Len(given) - 1 : Seekdir(off)
    \/ \E room \in Rooms : Readdir(room)
    \/ Dot \/ DotDot \/ Seek \/ SearchFails \/ NextEntry \/ Releasedir

Next == Ingest \/ Serve \/ \E x \in db.rows : Damage(x)

Spec == Init /\ [][Next]_vars

-----------------------------------------------------------------------------
\* Properties

\* What the manifest says a path is: the directory of a channel, an object of
\* its file, or a directory above one.
Objects(c) == {e \in Range(input[c].rows) : e.type = "object"}
Named(kind, key, path, etag) == [kind |-> kind, key |-> key, path |-> path, etag |-> etag]

Listed(p) ==
    UNION {LET key == Tail(p)
               path == input[c].path
           IN  IF key = <<>> THEN {Named("dir", <<>>, 0, NoEtag)}
               ELSE {Named("file", key, path, e.etag) : e \in {o \in Objects(c) : o.key = key}}
                    \cup {Named("dir", key, path, NoEtag) :
                            o \in {o \in Objects(c) : IsStrictPrefix(key, o.key)}}
           : c \in {c \in DOMAIN input : input[c].dir = Head(p)}}

\* What lookups from the root to a path may answer.
Walk(p) ==
    LET to[k \in 0 .. Len(p)] ==
            IF k = 0 THEN {RootDir}
            ELSE UNION {IF a.kind \in {"none", "error"} THEN {a} ELSE Lookup(a.ino, p[k]) : a \in to[k - 1]}
    IN  to[Len(p)]

Paths == {<<c.dir>> \o p : c \in Range(input),
            p \in UNION {{SubSeq(e.key, 1, k) : k \in 0 .. Len(e.key)} : e \in UNION {Range(c.rows) : c \in Range(input)}}}

\* A mount serves the objects of the manifest and no others, whatever order
\* they were listed in and whatever had to be refused: every path is what the
\* manifest says it is, and getattr agrees with lookup.  A manifest that is
\* damaged, or has a file where another key has a directory, is never mounted,
\* nor is an index left by an ingest that stopped.  A row damaged on disk is
\* not found or fails, and is never served as something else.
ServesManifest ==
    mounted /\ ~dir.open =>
        /\ \A c \in DOMAIN input : input[c].whole /\ \A e \in Objects(c) : e.intact
        /\ \A p \in Paths : \A a \in Walk(p) :
              IF a.kind \in {"none", "error"} THEN damage > 0 \/ (a = NotFound /\ Listed(p) = {})
              ELSE /\ Named(a.kind, a.key, a.path, a.etag) \in Listed(p)
                   /\ damage = 0 => Cardinality(Listed(p)) = 1
                   /\ Getattr(a.ino) \subseteq {a, Failed}

\* While the rows of a directory stay as they were, what was read from its
\* handle is its entries in order, each one at its offset, whatever part of a
\* reply was read again, whatever failed in between and however often the
\* reader went back; and when it is told the end, it has all of them, unless a
\* row could not be parsed.
ListingExact ==
    dir.open /\ Children(dir.ino) = dir.kids =>
        LET read == SubSeq(given, 3, Len(given))
            inos == [k \in DOMAIN dir.kids |-> dir.kids[k].r.id]
        IN  /\ IsPrefix(read, inos)
            /\ ended /\ (\A x \in Range(dir.kids) : WellFormed(x)) => read = inos
=============================================================================
