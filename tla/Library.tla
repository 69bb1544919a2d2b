---------------------------- MODULE Library ----------------------------
(***************************************************************************)
(* A directory on disk and the library the program keeps of it: the scan   *)
(* (crates/app/src/scan.rs) with its Tier-0 identity cache, the watcher    *)
(* with DbEventHandler, and the on-demand full hash                        *)
(* (crates/app/src/dedup.rs), all writing the two tables of FileStore      *)
(* while the files change under them.                                      *)
(*                                                                         *)
(* A file's mtime is the number of the write that gave it its content, so  *)
(* `written` tells what a key (id, size, mtime) once named; its id is the  *)
(* number of its first write.  Reading a file is one step.  What the walk  *)
(* and the hash yield other than these, the errors of single files, is     *)
(* counted in `errored`.                                                   *)
(***************************************************************************)
EXTENDS FileStore, Sequences

CONSTANTS
    Content,                  \* what a file can hold
    Bytes,                    \* Content -> its size and its digests
    PREFIX_SUFFIX_THRESHOLD,  \* above this size only both ends are read
    NoEntry,                  \* no file at the path
    NoJob,                    \* no row being persisted, no hash being computed
    Mount,                    \* the volume detected under the scanned root
    Here,                     \* this device
    Cli,                      \* the scan runs in the CLI, with on_persist and Ctrl-C
    Watching,                 \* a watcher runs beside the scan
    MaxEdits, MaxScans, MaxVerifies, MaxErrors   \* bounds

Digests == [size : Size, whole : Hash, ends : Hash]

\* A result of the scan, and one being persisted.
Results    == [path : Path, size : Size, hash : Hash]
Persisting == [result : Results, step : {"file", "location", "migrate"}]

ASSUME LibraryAssumption ==
    /\ Bytes \in [Content -> Digests]
    /\ NoJob \notin Persisting
    /\ Mount \in Volume
    /\ Here \in Device
    /\ Cli \in BOOLEAN
    /\ Watching \in BOOLEAN

VARIABLES
    disk,      \* Path -> the file there
    written,   \* the contents written so far, in order
    edits,     \* number of changes to the directory
    events,    \* watcher events DbEventHandler has not seen
    cache,     \* live rows of file_identity_cache
    pc,        \* where the scan is
    unseen,    \* paths the walk has not come to
    found,     \* DiscoveredFiles without a stat
    misses,    \* those whose key the cache does not hold
    hashed,    \* misses with their digest, not yet in the cache
    hits,      \* results taken from the cache
    fresh,     \* results hashed in this scan
    row,       \* the result being persisted and how far it is
    errored,   \* ScanReport::files_errored
    cancelled, \* the scan's CancellationToken
    disturbed, \* something else acted since the scan began
    scans,     \* scans begun
    verify,    \* the full hash being computed
    verifies,  \* full hashes asked for
    errors     \* storage errors so far

scanVars == <<unseen, found, misses, hashed, hits, fresh, row>>
diskVars == <<disk, written, edits>>
verifyVars == <<verify, verifies>>
libVars == <<vars, diskVars, events, cache, pc, scanVars, errored, cancelled,
             disturbed, scans, verifyVars, errors>>

On(p) == disk[p] # NoEntry
SizeOf(p) == Bytes[disk[p].content].size

\* Mutant: the key takes the file's birth time for its mtime.
KeyByBirth(p) == [id |-> disk[p].id, size |-> SizeOf(p), mtime |-> disk[p].id]

\* make_cache_key of stat_with_id: device and volume are the scan's own.
Key(p) == [id |-> disk[p].id, size |-> SizeOf(p), mtime |-> disk[p].mtime]

\* The live row under the key, if any: cached_hash is its quick_hash, since
\* no caller of `upsert` supplies a full_hash.
Cached(k) == {r \in cache : r.key = k}

\* quick_hash_prefix_suffix, told the size to expect.
Quick(c, size) ==
    IF size <= PREFIX_SUFFIX_THRESHOLD THEN Bytes[c].whole ELSE Bytes[c].ends

\* Seeking 64 KiB back from the end of a file that shrank below that fails.  A
\* size up to the threshold (128 KiB) stands for one below 64 KiB.
Readable(p, size) ==
    /\ On(p)
    /\ size > PREFIX_SUFFIX_THRESHOLD => SizeOf(p) > PREFIX_SUFFIX_THRESHOLD

DigestOf(c) == Quick(c, Bytes[c].size)

\* One FileStore command of this process: takes the next stamp.
Stamp == clock + 1
Commanded == clock' = clock + 1 /\ UNCHANGED restarts
Fails ==
    /\ errors < MaxErrors
    /\ errors' = errors + 1
    /\ storage_error
-----------------------------------------------------------------------------
\* The directory changes: a write creates or overwrites in place.
Happened(e) ==
    /\ edits < MaxEdits
    /\ edits' = edits + 1
    /\ events' = IF Watching THEN Append(events, e) ELSE events
    /\ disturbed' = TRUE
    /\ UNCHANGED <<vars, cache, pc, scanVars, errored, cancelled, scans, verifyVars, errors>>

\* Created events change nothing in the database and are left out.
CreateFile(p, c) ==
    /\ ~On(p)
    /\ edits < MaxEdits
    /\ edits' = edits + 1
    /\ written' = Append(written, c)
    /\ disk' = [disk EXCEPT ![p] = [id |-> Len(written) + 1, content |-> c,
                                    mtime |-> Len(written) + 1]]
    /\ disturbed' = TRUE
    /\ UNCHANGED <<vars, events, cache, pc, scanVars, errored, cancelled, scans,
                   verifyVars, errors>>

WriteFile(p, c) ==
    /\ On(p)
    /\ written' = Append(written, c)
    /\ disk' = [disk EXCEPT ![p] = [@ EXCEPT !.content = c, !.mtime = Len(written) + 1]]
    /\ Happened([kind |-> "Modified", path |-> p, to |-> p])

DeleteFile(p) ==
    /\ On(p)
    /\ disk' = [disk EXCEPT ![p] = NoEntry]
    /\ Happened([kind |-> "Deleted", path |-> p, to |-> p])
    /\ UNCHANGED written

RenameFile(p, q) ==
    /\ On(p)
    /\ p # q
    /\ disk' = [disk EXCEPT ![q] = disk[p], ![p] = NoEntry]
    /\ Happened([kind |-> "Renamed", path |-> p, to |-> q])
    /\ UNCHANGED written

\* DbEventHandler::record_file_event, some time after the event.
record_file_event ==
    /\ events # <<>>
    /\ Commanded
    /\ LET e == Head(events)
       IN  \/ /\ e.kind = "Modified"
              /\ update_location_status(Stamp, Mount, e.path, "stale", Here)
              /\ UNCHANGED errors
           \/ /\ e.kind = "Deleted"
              /\ update_location_status(Stamp, Mount, e.path, "missing", Here)
              /\ UNCHANGED errors
           \/ /\ e.kind = "Renamed"
              /\ update_location_path(Stamp, Mount, e.path, e.to, Here)
              /\ UNCHANGED errors
           \/ Fails
    /\ events' = Tail(events)
    /\ disturbed' = TRUE
    /\ UNCHANGED <<diskVars, cache, pc, scanVars, errored, cancelled, scans, verifyVars>>
-----------------------------------------------------------------------------
ScanKeeps == UNCHANGED <<diskVars, events, disturbed, verifyVars>>

\* ScanUseCase::execute_full, one run at a time.
BeginScan ==
    /\ pc = "idle"
    /\ scans < MaxScans
    /\ scans' = scans + 1
    /\ pc' = "walk"
    /\ unseen' = Path
    /\ errored' = 0
    /\ cancelled' = FALSE
    /\ disturbed' = FALSE
    /\ UNCHANGED <<vars, diskVars, events, cache, found, misses, hashed, hits, fresh, row,
                   verifyVars, errors>>

\* Ctrl-C (the desktop's token is never cancelled).
Cancel ==
    /\ Cli
    /\ pc # "idle"
    /\ ~cancelled
    /\ cancelled' = TRUE
    /\ UNCHANGED <<vars, cache, pc, scanVars, errored, scans, errors>>
    /\ ScanKeeps

\* The walk yields a file with its size of this moment.
Walk(p) ==
    /\ pc = "walk"
    /\ ~cancelled
    /\ p \in unseen
    /\ unseen' = unseen \ {p}
    /\ found' = IF On(p) THEN found \cup {[path |-> p, size |-> SizeOf(p)]} ELSE found
    /\ UNCHANGED <<vars, cache, pc, misses, hashed, hits, fresh, row, errored, cancelled,
                   scans, errors>>
    /\ ScanKeeps

\* The iterator ends, or take_while sees the cancellation.
WalkEnds ==
    /\ pc = "walk"
    /\ unseen = {} \/ cancelled
    /\ pc' = "stat"
    /\ unseen' = {}
    /\ UNCHANGED <<vars, cache, found, misses, hashed, hits, fresh, row, errored, cancelled,
                   scans, errors>>
    /\ ScanKeeps

\* Phase 1 of resolve_with_cache: stat and lookup.  A failed lookup is a miss.
StatAndLookup(d) ==
    /\ pc = "stat"
    /\ d \in found
    /\ found' = found \ {d}
    /\ \/ /\ cancelled \/ ~On(d.path)
          /\ errored' = errored + 1
          /\ UNCHANGED <<hits, misses, errors>>
       \/ /\ ~cancelled /\ On(d.path)
          /\ \E r \in Cached(Key(d.path)) :
                hits' = hits \cup {[path |-> d.path, size |-> d.size, hash |-> r.quick]}
          /\ UNCHANGED <<misses, errored, errors>>
       \/ /\ ~cancelled /\ On(d.path)
          /\ \/ Cached(Key(d.path)) = {} /\ UNCHANGED errors
             \/ errors < MaxErrors /\ errors' = errors + 1
          /\ misses' = misses \cup {[path |-> d.path, size |-> d.size, key |-> Key(d.path)]}
          /\ UNCHANGED <<hits, errored>>
    /\ UNCHANGED <<vars, cache, pc, unseen, hashed, fresh, row, cancelled, scans>>
    /\ ScanKeeps

\* Phase 2: the misses are hashed in parallel.
HashMiss(m) ==
    /\ pc = "stat"
    /\ found = {}
    /\ m \in misses
    /\ misses' = misses \ {m}
    /\ \/ /\ cancelled \/ ~Readable(m.path, m.size)
          /\ errored' = errored + 1
          /\ UNCHANGED hashed
       \/ /\ ~cancelled /\ Readable(m.path, m.size)
          /\ hashed' = hashed \cup
               {[path |-> m.path, size |-> m.size, key |-> m.key,
                 hash |-> Quick(disk[m.path].content, m.size)]}
          /\ UNCHANGED errored
    /\ UNCHANGED <<vars, cache, pc, unseen, found, hits, fresh, row, cancelled, scans, errors>>
    /\ ScanKeeps

\* Phase 3: upsert_cache_impl, one live row per key; a failure is logged.
CacheFresh(m) ==
    /\ pc = "stat"
    /\ found = {} /\ misses = {}
    /\ m \in hashed
    /\ hashed' = hashed \ {m}
    /\ fresh' = fresh \cup {[path |-> m.path, size |-> m.size, hash |-> m.hash]}
    /\ \/ /\ cache' = (cache \ Cached(m.key)) \cup {[key |-> m.key, quick |-> m.hash]}
          /\ UNCHANGED errors
       \/ /\ errors < MaxErrors
          /\ errors' = errors + 1
          /\ UNCHANGED cache
    /\ UNCHANGED <<vars, pc, unseen, found, misses, hits, row, errored, cancelled, scans>>
    /\ ScanKeeps

\* The results in order: the cache's hits first.
TakeResult(e) ==
    /\ pc = "stat"
    /\ found = {} /\ misses = {} /\ hashed = {}
    /\ row = NoJob
    /\ \/ e \in hits /\ hits' = hits \ {e} /\ UNCHANGED fresh
       \/ hits = {} /\ e \in fresh /\ fresh' = fresh \ {e} /\ UNCHANGED hits
    /\ row' = [result |-> e, step |-> "file"]
    /\ UNCHANGED <<vars, cache, pc, unseen, found, misses, hashed, errored, cancelled, scans,
                   errors>>
    /\ ScanKeeps

PersistKeeps ==
    /\ UNCHANGED <<cache, pc, unseen, found, misses, hashed, hits, fresh, cancelled, scans>>
    /\ ScanKeeps

\* Mutant: the error of upsert_file is not propagated.
PersistFileAnyway ==
    /\ row # NoJob
    /\ row.step = "file"
    /\ Commanded
    /\ \/ /\ upsert_file(Stamp, row.result.hash, row.result.size, row.result.hash, Here)
          /\ UNCHANGED errors
       \/ Fails
    /\ row' = [row EXCEPT !.step = "location"]
    /\ UNCHANGED errored
    /\ PersistKeeps

\* persist_file: the files row first, and only then the location.
PersistFile ==
    /\ row # NoJob
    /\ row.step = "file"
    /\ Commanded
    /\ \/ /\ upsert_file(Stamp, row.result.hash, row.result.size, row.result.hash, Here)
          /\ row' = [row EXCEPT !.step = "location"]
          /\ UNCHANGED <<errored, errors>>
       \/ /\ Fails
          /\ row' = NoJob
          /\ errored' = errored + 1
    /\ PersistKeeps

PersistLocation ==
    /\ row # NoJob
    /\ row.step = "location"
    /\ Commanded
    /\ \/ /\ upsert_location(Stamp, row.result.hash, Mount, row.result.path, Here)
          /\ row' = IF Cli THEN [row EXCEPT !.step = "migrate"] ELSE NoJob
          /\ UNCHANGED <<errored, errors>>
       \/ /\ Fails
          /\ row' = NoJob
          /\ errored' = errored + 1
    /\ PersistKeeps

\* on_persist: the CLI's closure logs an error and goes on.
OnPersist ==
    /\ row # NoJob
    /\ row.step = "migrate"
    /\ Commanded
    /\ \/ /\ migrate_sentinel_row(Stamp, row.result.path, Mount, Here)
          /\ UNCHANGED errors
       \/ Fails
    /\ row' = NoJob
    /\ UNCHANGED errored
    /\ PersistKeeps

EndScan ==
    /\ pc = "stat"
    /\ found \cup misses \cup hashed \cup hits \cup fresh = {}
    /\ row = NoJob
    /\ pc' = "idle"
    /\ UNCHANGED <<vars, cache, scanVars, errored, cancelled, scans, errors>>
    /\ ScanKeeps
-----------------------------------------------------------------------------
VerifyKeeps ==
    UNCHANGED <<diskVars, events, cache, pc, scanVars, errored, cancelled, disturbed, scans>>

\* compute_one: lookup_by_file_uuid wants an active location with the uuid
\* and takes one of them.
LookUpByUuid(u) ==
    /\ verify = NoJob
    /\ verifies < MaxVerifies
    /\ Used(u)
    /\ verifies' = verifies + 1
    /\ \E i \in LocId :
          /\ Live(i)
          /\ locations[i].uuid = u
          /\ locations[i].status = "active"
          /\ locations[i].volume = Mount
          /\ verify' = [uuid |-> u, path |-> locations[i].path, hash |-> NoHash]
    /\ UNCHANGED <<vars, errors>>
    /\ VerifyKeeps

\* full_hash_dispatched: the file is read, or is no longer there.
ReadWhole ==
    /\ verify # NoJob
    /\ verify.hash = NoHash
    /\ verify' = IF On(verify.path)
                   THEN [verify EXCEPT !.hash = Bytes[disk[verify.path].content].whole]
                   ELSE NoJob
    /\ UNCHANGED <<vars, verifies, errors>>
    /\ VerifyKeeps

\* update_full_hash.
Promote ==
    /\ verify # NoJob
    /\ verify.hash # NoHash
    /\ Commanded
    /\ \/ /\ promote_full_hash(Stamp, verify.uuid, verify.hash, Here)
          /\ UNCHANGED errors
       \/ Fails
    /\ verify' = NoJob
    /\ UNCHANGED verifies
    /\ VerifyKeeps
-----------------------------------------------------------------------------
\* The program's start: the database of FileStore's Init and a directory
\* that is yet to be filled.
LibInit ==
    /\ Init
    /\ disk = [p \in Path |-> NoEntry]
    /\ written = <<>> /\ events = <<>>
    /\ edits = 0 /\ scans = 0 /\ verifies = 0 /\ errors = 0 /\ errored = 0
    /\ cache = {} /\ unseen = {} /\ found = {} /\ misses = {}
    /\ hashed = {} /\ hits = {} /\ fresh = {}
    /\ pc = "idle" /\ row = NoJob /\ verify = NoJob
    /\ cancelled = FALSE /\ disturbed = FALSE

Scan ==
    \/ BeginScan \/ Cancel \/ WalkEnds \/ EndScan
    \/ \E p \in Path : Walk(p)
    \/ \E d \in found : StatAndLookup(d)
    \/ \E m \in misses : HashMiss(m)
    \/ \E m \in hashed : CacheFresh(m)
    \/ \E e \in hits \cup fresh : TakeResult(e)
    \/ PersistFile \/ PersistLocation \/ OnPersist

Edit ==
    \/ \E p \in Path, c \in Content : CreateFile(p, c) \/ WriteFile(p, c)
    \/ \E p \in Path : DeleteFile(p)
    \/ \E p, q \in Path : RenameFile(p, q)

Verify == ReadWhole \/ Promote \/ \E u \in Uuid : LookUpByUuid(u)

LibNext == Scan \/ Edit \/ record_file_event \/ Verify

LibSpec == LibInit /\ [][LibNext]_libVars
-----------------------------------------------------------------------------
File  == [id : Nat \ {0}, content : Content, mtime : Nat \ {0}]
Keys  == [id : Nat \ {0}, size : Size, mtime : Nat \ {0}]
Event == [kind : {"Modified", "Deleted", "Renamed"}, path : Path, to : Path]

LibTypeOK ==
    /\ TypeOK
    /\ disk \in [Path -> File \cup {NoEntry}]
    /\ written \in Seq(Content)
    /\ events \in Seq(Event)
    /\ cache \subseteq [key : Keys, quick : Hash]
    /\ pc \in {"idle", "walk", "stat"}
    /\ unseen \subseteq Path
    /\ found \subseteq [path : Path, size : Size]
    /\ misses \subseteq [path : Path, size : Size, key : Keys]
    /\ hashed \subseteq [path : Path, size : Size, key : Keys, hash : Hash]
    /\ hits \cup fresh \subseteq Results
    /\ row \in Persisting \cup {NoJob}
    /\ verify \in [uuid : Uuid, path : Path, hash : Hash \cup {NoHash}] \cup {NoJob}
    /\ edits \in Nat /\ errored \in Nat /\ scans \in Nat /\ verifies \in Nat /\ errors \in Nat
    /\ cancelled \in BOOLEAN /\ disturbed \in BOOLEAN

\* The cache row says what quick_hash_prefix_suffix yields for the snapshot
\* its key names.
Honest(r) == r.quick = DigestOf(written[r.key.mtime])

\* The latest scan went through, without an error or a cancellation, and
\* nothing else has acted since it began.
Clean == pc = "idle" /\ scans > 0 /\ errored = 0 /\ ~cancelled /\ ~disturbed

\* After a scan nothing interfered with, every file on disk has a live row
\* with its digest, whatever edits, watcher events, interrupted scans and
\* failed transactions came before: a cache hit never stands for another
\* content, as long as the row it comes from is honest.
ScanTellsDisk ==
    Clean => \A p \in Path :
                On(p) /\ (\A r \in Cached(Key(p)) : Honest(r))
                  => \E i \in At(Mount, p) : locations[i].hash = DigestOf(disk[p].content)

\* Each live location is known to some row of `files`, by its hash, its quick
\* hash or its file_uuid.
RowsKnown ==
    \A i \in LocId : Live(i) =>
        \E u \in Uuid : /\ Used(u)
                        /\ \/ locations[i].hash \in {files[u].hash, files[u].quick}
                           \/ locations[i].uuid = u

\* A live location whose files row is missing would be invisible for good.
\* persist_file writes the files row first, so no failure between the two
\* commands leaves one, and a promotion at any point leaves a row that is known
\* by its quick_hash or its file_uuid.  One promotion: two of one row, the second
\* between the two commands of a persist that found this row by the digest of the
\* first, leave a location that no row knows.
LiveRowsHaveFile == verifies <= 1 => RowsKnown

\* FileEntryPayload: of a listed file, "same = placeholder, different =
\* promoted": list_file_locations, which joins on blake3_hash, finds the files
\* row of a location before and after its promotion.
LiveRowsListed == \A i \in LocId : Live(i) => WithHash(locations[i].hash) # {}

\* A CLI scan gives every file it indexed its volume: no live sentinel row is
\* left at the path of a file on disk (the callback's own errors aside).
SentinelsMigrated ==
    Cli /\ Clean /\ errors = 0 => \A p \in Path : On(p) => At(Nil, p) = {}

\* CacheEntry: "Cached hashing result for a specific file snapshot identified
\* by CacheKey".
CacheHonest == \A r \in cache : Honest(r)

\* CacheKey: a changed file misses, and "the stale row is separately
\* soft-deleted by the scan loop before inserting the fresh entry".
OldSnapshotsDropped == \A r, s \in cache : r.key.id = s.key.id => r = s

\* LocationStatus::Stale: "Next scan will re-hash and restore to Active".
ScanRestoresActive ==
    Clean => \A p \in Path : On(p) => \A i \in At(Mount, p) : locations[i].status = "active"

\* persist_file: quick_hash is written eagerly, "enabling
\* list_quick_hash_collisions to return candidates immediately": two files of
\* one fingerprint and different contents are two rows of a listed group.
CollisionsListed ==
    Clean => \A p, q \in Path :
        /\ On(p) /\ On(q)
        /\ disk[p].content # disk[q].content
        /\ DigestOf(disk[p].content) = DigestOf(disk[q].content)
        => Cardinality({u \in Uuid : Used(u) /\ files[u].quick = DigestOf(disk[p].content)}) > 1

\* lookup_by_file_uuid: "the surrogate key is the stable join axis": the file
\* a listed active location belongs to is found by its file_uuid.
ListedIsFound ==
    \A i \in LocId : \A u \in Uuid :
        /\ Live(i) /\ locations[i].status = "active"
        /\ Used(u) /\ files[u].hash = locations[i].hash
        => \E j \in LocId : Live(j) /\ locations[j].uuid = u

=============================================================================
