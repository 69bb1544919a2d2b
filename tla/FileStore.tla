--------------------------- MODULE FileStore ---------------------------
(***************************************************************************)
(* The tables `files` and `file_locations` and the seven commands that     *)
(* write them (crates/db/src/writer/file.rs).  The writer actor runs one   *)
(* command at a time: each action below is one whole command, from the     *)
(* Hlc::now() at its head through its transaction and the invalidation     *)
(* event to the reply.                                                     *)
(*                                                                         *)
(* A row's deleted_at is 0 for NULL and the deleting command's stamp       *)
(* otherwise; files.deleted_at is left out because no statement sets it.   *)
(* Timestamps written beside hlc (updated_at, first_seen) carry no more    *)
(* order than hlc and are left out too.                                    *)
(***************************************************************************)
EXTENDS Integers, FiniteSets

CONSTANTS
    Uuid,        \* the file_uuid values the writer may generate
    LocId,       \* the file_locations.id values it may generate
    Hash,        \* BLAKE3 digests, quick and full alike
    Volume,      \* real volumes
    Nil,         \* the nil-UUID volume of rows written before volumes existed
    Path,        \* relative paths
    Device,      \* device ids
    Size,        \* file sizes
    NoHash,      \* SQL NULL in quick_hash
    NoUuid,      \* SQL NULL in file_locations.file_uuid
    NoFile,      \* an unused Uuid
    NoLoc,       \* an unused LocId
    LegacyLocs,  \* ids of the sentinel rows the database came with
    MaxClock,    \* bound: the greatest stamp given out
    MaxRestarts  \* bound: restarts of the process

Status == {"active", "missing", "moved", "stale"}

FileRow == [hash : Hash, size : Size, quick : Hash \cup {NoHash},
            device : Device, hlc : Nat, distinct : {0, 1}]

LocRow == [hash : Hash, uuid : Uuid \cup {NoUuid}, volume : Volume \cup {Nil},
           path : Path, status : Status, deleted_at : Nat,
           device : Device, hlc : Nat]

ASSUME FileStoreAssumption ==
    /\ Nil \notin Volume
    /\ NoHash \notin Hash
    /\ NoUuid \notin Uuid
    /\ NoFile \notin FileRow
    /\ NoLoc \notin LocRow
    /\ LegacyLocs \subseteq LocId
    /\ MaxClock \in Nat
    /\ MaxRestarts \in Nat

VARIABLES
    files,      \* Uuid -> row of `files`
    locations,  \* LocId -> row of `file_locations`
    clock,      \* the running process's latest Hlc::now()
    last,       \* reply and event of the latest command
    restarts    \* number of restarts so far

vars == <<files, locations, clock, last, restarts>>

Used(u) == files[u] # NoFile
\* WHERE deleted_at IS NULL
Live(i) == locations[i] # NoLoc /\ locations[i].deleted_at = 0

\* Mutant: the lookup forgets AND deleted_at IS NULL.
AtDeletedToo(v, p) ==
    {i \in LocId : locations[i] # NoLoc /\ locations[i].volume = v /\ locations[i].path = p}

\* Mutant: the lookup asks for AND status = 'active' as well.
AtActiveOnly(v, p) ==
    {i \in LocId : /\ Live(i)
                   /\ locations[i].volume = v
                   /\ locations[i].path = p
                   /\ locations[i].status = "active"}

\* WHERE volume_id = v AND relative_path = p AND deleted_at IS NULL
At(v, p) == {i \in LocId : Live(i) /\ locations[i].volume = v /\ locations[i].path = p}

\* WHERE blake3_hash = h: the primary key of `files`.
WithHash(h) == {u \in Uuid : Used(u) /\ files[u].hash = h}

Reply(outcome, rows, event) ==
    last' = [outcome |-> outcome, rows |-> rows, event |-> event]

\* Mutant: off by one, a command that wrote one row stays silent.
AnnounceMany(event, rows) == IF rows > 1 THEN event ELSE "none"

\* `handle` emits an invalidation only when the command wrote a row.
Announce(event, rows) == IF rows > 0 THEN event ELSE "none"

\* An UPDATE of the live rows S by the row function f, in one transaction.
UpdateLocations(S, f(_)) ==
    locations' = [i \in LocId |-> IF i \in S THEN f(locations[i]) ELSE locations[i]]
-----------------------------------------------------------------------------
\* UpsertFile: keyed by blake3_hash.  Same size and device: the row is left
\* alone except that a NULL quick_hash is filled in, under the old hlc and
\* without an event.
upsert_file(h, hash, size, quick, dev) ==
    /\ UNCHANGED locations
    /\ \/ /\ WithHash(hash) = {}
          /\ \E u \in {v \in Uuid : ~Used(v)} :
                files' = [files EXCEPT ![u] =
                            [hash |-> hash, size |-> size, quick |-> quick,
                             device |-> dev, hlc |-> h, distinct |-> 0]]
          /\ Reply("Inserted", 1, "FilesChanged")
       \/ \E u \in WithHash(hash) :
             LET filled == IF files[u].quick = NoHash THEN quick ELSE files[u].quick
                 same   == files[u].size = size /\ files[u].device = dev
             IN  \/ /\ same
                    /\ files' = [files EXCEPT ![u] = [@ EXCEPT !.quick = filled]]
                    /\ Reply("Unchanged", 0, "none")
                 \/ /\ ~same
                    /\ files' = [files EXCEPT ![u] = [@ EXCEPT !.size = size, !.device = dev,
                                                             !.hlc = h, !.quick = filled]]
                    /\ Reply("Updated", 1, "FilesChanged")

\* (SELECT f.file_uuid FROM files f WHERE f.blake3_hash = hash), NULL if none.
UuidOf(hash) ==
    IF WithHash(hash) = {} THEN NoUuid ELSE CHOOSE u \in WithHash(hash) : TRUE

\* UpsertLocation: keyed by the live row at (volume, path).  The UPDATE arm
\* rebinds hash, device and hlc, and neither file_uuid nor status.
upsert_location(h, hash, vol, path, dev) ==
    /\ UNCHANGED files
    /\ \/ /\ At(vol, path) = {}
          /\ \E i \in {j \in LocId : locations[j] = NoLoc} :
                locations' = [locations EXCEPT ![i] =
                                [hash |-> hash, uuid |-> UuidOf(hash), volume |-> vol,
                                 path |-> path, status |-> "active", deleted_at |-> 0,
                                 device |-> dev, hlc |-> h]]
          /\ Reply("Inserted", 1, "FilesChanged")
       \/ \E i \in At(vol, path) :
             LET same == locations[i].hash = hash /\ locations[i].device = dev
             IN  \/ /\ same
                    /\ UNCHANGED locations
                    /\ Reply("Unchanged", 0, "none")
                 \/ /\ ~same
                    /\ locations' = [locations EXCEPT ![i] =
                                     [@ EXCEPT !.hash = hash, !.device = dev, !.hlc = h]]
                    /\ Reply("Updated", 1, "FilesChanged")

\* Mutant: the rename writes a status the schema does not know.
RenamedTo(r, new, dev, h) ==
    [r EXCEPT !.path = new, !.status = "renamed", !.device = dev, !.hlc = h]

\* The SET clauses of the four location UPDATEs, on one row.
WithStatus(r, status, dev, h) == [r EXCEPT !.status = status, !.device = dev, !.hlc = h]
SoftDeleted(r, dev, h) == [r EXCEPT !.deleted_at = h, !.device = dev, !.hlc = h]
MovedTo(r, new, dev, h) ==
    [r EXCEPT !.path = new, !.status = "active", !.device = dev, !.hlc = h]
OnVolume(r, real, dev, h) == [r EXCEPT !.volume = real, !.device = dev, !.hlc = h]

\* UpdateLocationStatus: the watcher's flip of every live row at the path.
update_location_status(h, vol, path, status, dev) ==
    LET S    == At(vol, path)
        rows == Cardinality(S)
    IN  /\ UpdateLocations(S, LAMBDA r : WithStatus(r, status, dev, h))
        /\ Reply("Rows", rows, Announce("FilesChanged", rows))
        /\ UNCHANGED files

\* UpdateLocationPath: the watcher's rename.  A live row already at the new
\* path wins and the source is soft-deleted; otherwise the source moves and
\* becomes active.
update_location_path(h, vol, old, new, dev) ==
    LET S    == At(vol, old)
        rows == Cardinality(S)
    IN  /\ \/ /\ At(vol, new) # {}
              /\ UpdateLocations(S, LAMBDA r : SoftDeleted(r, dev, h))
           \/ /\ At(vol, new) = {}
              /\ UpdateLocations(S, LAMBDA r : MovedTo(r, new, dev, h))
        /\ Reply("Rows", rows, Announce("FilesChanged", rows))
        /\ UNCHANGED files

\* Mutant: the sentinel rows stay where the volume has a row at the path.
migrate_if_free(h, path, real, dev) ==
    LET S    == IF At(real, path) = {} THEN At(Nil, path) ELSE {}
        rows == Cardinality(S)
    IN  /\ UpdateLocations(S, LAMBDA r : OnVolume(r, real, dev, h))
        /\ Reply("Rows", rows, Announce("FilesChanged", rows))
        /\ UNCHANGED files

\* MigrateSentinelRow: gives the live sentinel rows at the path their volume.
migrate_sentinel_row(h, path, real, dev) ==
    LET S    == At(Nil, path)
        rows == Cardinality(S)
    IN  /\ UpdateLocations(S, LAMBDA r : OnVolume(r, real, dev, h))
        /\ Reply("Rows", rows, Announce("FilesChanged", rows))
        /\ UNCHANGED files

\* PromoteFullHash: rewrites files.blake3_hash by file_uuid.  Another row with
\* that hash is a primary-key conflict: the transaction is rolled back.
promote_full_hash(h, u, full, dev) ==
    /\ UNCHANGED locations
    /\ \/ /\ ~Used(u)
          /\ UNCHANGED files
          /\ Reply("Rows", 0, "none")
       \/ /\ Used(u)
          /\ WithHash(full) \subseteq {u}
          /\ files' = [files EXCEPT ![u] = [@ EXCEPT !.hash = full, !.device = dev, !.hlc = h]]
          /\ Reply("Rows", 1, "CollisionsChanged")
       \/ /\ Used(u)
          /\ ~(WithHash(full) \subseteq {u})
          /\ UNCHANGED files
          /\ Reply("Err", 0, "none")

\* MarkVerifiedDistinct: one transaction over all the uuids; none is no write.
mark_verified_distinct(h, us, dev) ==
    LET S    == {u \in us : Used(u)}
        rows == Cardinality(S)
    IN  /\ files' = [u \in Uuid |->
                       IF u \in S
                         THEN [files[u] EXCEPT !.distinct = 1, !.device = dev, !.hlc = h]
                         ELSE files[u]]
        /\ Reply("Rows", rows, Announce("CollisionsChanged", rows))
        /\ UNCHANGED locations

\* Any of them: BEGIN IMMEDIATE, a statement or COMMIT fails (busy, I/O, full
\* disk, a size beyond i64), the dropped transaction rolls back and the error
\* is the reply.
storage_error ==
    /\ UNCHANGED <<files, locations>>
    /\ Reply("Err", 0, "none")
-----------------------------------------------------------------------------
\* The seven commands with the stamp h.
Command(h) ==
    \/ \E g \in Hash, s \in Size, q \in Hash \cup {NoHash}, d \in Device :
          upsert_file(h, g, s, q, d)
    \/ \E g \in Hash, v \in Volume, p \in Path, d \in Device :
          upsert_location(h, g, v, p, d)
    \/ \E v \in Volume, p \in Path, s \in {"stale", "missing"}, d \in Device :
          update_location_status(h, v, p, s, d)
    \/ \E v \in Volume, p, q \in Path, d \in Device :
          update_location_path(h, v, p, q, d)
    \/ \E v \in Volume, p \in Path, d \in Device :
          migrate_sentinel_row(h, p, v, d)
    \/ \E u \in Uuid, g \in Hash, d \in Device :
          promote_full_hash(h, u, g, d)
    \/ \E us \in SUBSET Uuid, d \in Device :
          mark_verified_distinct(h, us, d)
    \/ storage_error

\* A database left by phase 1b, upgraded by the migrations: one indexed file
\* with copies at distinct paths, all on the sentinel volume, hlc NULL (0).
Init ==
    /\ clock = 0
    /\ restarts = 0
    /\ last = [outcome |-> "none", rows |-> 0, event |-> "none"]
    /\ \E u \in Uuid, g \in Hash, s \in Size, d \in Device, at \in [LegacyLocs -> Path] :
          /\ \A i, j \in LegacyLocs : at[i] = at[j] => i = j
          /\ files = [v \in Uuid |->
                        IF v = u /\ LegacyLocs # {}
                          THEN [hash |-> g, size |-> s, quick |-> NoHash, device |-> d,
                                hlc |-> 0, distinct |-> 0]
                          ELSE NoFile]
          /\ locations = [i \in LocId |->
                            IF i \in LegacyLocs
                              THEN [hash |-> g, uuid |-> u, volume |-> Nil, path |-> at[i],
                                    status |-> "active", deleted_at |-> 0,
                                    device |-> d, hlc |-> 0]
                              ELSE NoLoc]

\* One command: `handle` takes the stamp first, then runs the variant.
Handle ==
    /\ clock < MaxClock
    /\ clock' = clock + 1
    /\ Command(clock + 1)
    /\ UNCHANGED restarts

\* The process ends and another starts on the same database: HLC_STATE is in
\* memory only and the wall clock may have been set back, so that the stamps
\* go on from anywhere at or below the last one.  A command of a second
\* process, whose clock lags, is this followed by Handle.
Restart ==
    /\ restarts < MaxRestarts
    /\ restarts' = restarts + 1
    /\ clock' \in 0 .. clock
    /\ last' = [outcome |-> "none", rows |-> 0, event |-> "none"]
    /\ UNCHANGED <<files, locations>>

Next == Handle \/ Restart

Spec == Init /\ [][Next]_vars
-----------------------------------------------------------------------------
TypeOK ==
    /\ files \in [Uuid -> FileRow \cup {NoFile}]
    /\ locations \in [LocId -> LocRow \cup {NoLoc}]
    /\ clock \in Nat

SamePlace(i, j) ==
    /\ Live(i) /\ Live(j)
    /\ locations[i].volume = locations[j].volume
    /\ locations[i].path = locations[j].path

\* "At most 1 active row per (volume, path) by app-level invariant", the
\* comment under update_location_status_impl and update_location_path_impl.
OneLivePerPath == \A i, j \in LocId : SamePlace(i, j) => i = j

\* The same of the rows this version of the program inserts: upsert, rename
\* and soft delete never leave two of them live at one path.
OneFreshPerPath == \A i, j \in LocId \ LegacyLocs : SamePlace(i, j) => i = j

\* Only rows the database came with are on the sentinel volume: nothing in
\* this version writes a new one.
SentinelsAreLegacy ==
    \A i \in LocId : locations[i] # NoLoc /\ locations[i].volume = Nil => i \in LegacyLocs

\* The one write that is not stamped: a NULL quick_hash is filled in.
QuickFilled(u) ==
    /\ Used(u)
    /\ files[u].quick = NoHash
    /\ files'[u] = [files[u] EXCEPT !.quick = files'[u].quick]

\* The order of the packed stamps "is load-bearing for SQL `ORDER BY hlc`" (hlc.rs):
\* a write raises the row's hlc.  Not so after a restart with the clock set
\* back, or of two processes.
RowStampsGrow ==
    [][\A i \in LocId : locations[i] # NoLoc /\ locations'[i] # locations[i]
          => locations'[i].hlc > locations[i].hlc]_vars

\* Rows are never removed, and a soft-deleted location is never written again.
TombstonesFinal ==
    [][/\ \A i \in LocId : locations[i] # NoLoc /\ locations[i].deleted_at # 0
                             => locations'[i] = locations[i]
       /\ \A i \in LocId : locations[i] # NoLoc => locations'[i] # NoLoc
       /\ \A u \in Uuid : Used(u) => files'[u] # NoFile]_vars

\* A row carries the stamp of the command that has just run.
Stamped ==
    \/ \E u \in Uuid : files[u] # NoFile /\ files[u].hlc = clock
    \/ \E i \in LocId : locations[i] # NoLoc /\ locations[i].hlc = clock

\* A command that returns without an invalidation event has changed nothing
\* but a NULL quick_hash, and one that emits an event leaves a row with its
\* stamp: subscribers never miss a change and never refetch for nothing.
EventIffWritten ==
    [][/\ last'.event = "none"
             => /\ UNCHANGED locations
                /\ \A u \in Uuid : files'[u] = files[u] \/ QuickFilled(u)
       /\ last'.event # "none" => Stamped']_vars

\* UpsertOutcome::Unchanged: "Row existed and matched; no write performed."
UnchangedWritesNothing ==
    [][last'.outcome = "Unchanged" => UNCHANGED <<files, locations>>]_vars
=============================================================================
