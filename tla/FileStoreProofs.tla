------------------------ MODULE FileStoreProofs ------------------------
(***************************************************************************)
(* The invariants of the two file tables, for every number of rows, paths, *)
(* volumes, hashes and commands.                                           *)
(*                                                                         *)
(* Each command is summed up by what it does to a single row (FileStep,    *)
(* LocStep); the invariants and the action properties then follow from     *)
(* those two summaries alone.                                              *)
(***************************************************************************)
EXTENDS FileStore, FiniteSetTheorems, TLAPS

\* The inductive invariant: the type, the uniqueness of live places, and the
\* fact that only legacy rows are on the sentinel volume (without it a migration
\* could put a fresh row onto another one).  Nothing is said of the stamps in
\* the rows: after a restart they may be ahead of the clock.
IInv ==
    /\ TypeOK
    /\ OneFreshPerPath
    /\ SentinelsAreLegacy

FileTable == [Uuid -> FileRow \cup {NoFile}]
LocTable == [LocId -> LocRow \cup {NoLoc}]

\* What a command with stamp h may do to the table `files`.
FileStep(h) ==
    /\ files' \in FileTable
    /\ \A u \in Uuid : files'[u] # files[u] =>
          files'[u] # NoFile /\ (files'[u].hlc = h \/ QuickFilled(u))

\* What a command with stamp h may do to the table `file_locations`.
LocStep(h) ==
    /\ locations' \in LocTable
    /\ OneFreshPerPath'
    /\ SentinelsAreLegacy'
    /\ \A i \in LocId : locations'[i] # locations[i] =>
          /\ locations[i] = NoLoc \/ Live(i)
          /\ locations'[i] # NoLoc
          /\ locations'[i].hlc = h

\* A command that leaves `files` alone.
LEMMA FilesKept ==
    ASSUME IInv, NEW h, files' = files PROVE FileStep(h)
BY DEF IInv, TypeOK, FileStep, FileTable

\* A command that leaves `file_locations` alone.
LEMMA LocationsKept ==
    ASSUME IInv, NEW h, locations' = locations PROVE LocStep(h)
BY DEF IInv, TypeOK, LocStep, LocTable, OneFreshPerPath, SentinelsAreLegacy, SamePlace, Live

\* A `files` row in use is a record, so its columns can be read.
LEMMA UsedRow ==
    ASSUME TypeOK, NEW u \in Uuid, Used(u) PROVE files[u] \in FileRow
BY DEF TypeOK, Used

\* Likewise a location row.
LEMMA LocationRow ==
    ASSUME TypeOK, NEW i \in LocId, locations[i] # NoLoc PROVE locations[i] \in LocRow
BY DEF TypeOK

\* Writing a column's own value leaves the row as it is.
LEMMA RewriteQuick ==
    ASSUME NEW r \in FileRow
    PROVE  [r EXCEPT !.quick = r.quick] = r
BY DEF FileRow

\* Filling in a NULL quick_hash, or leaving the row alone.
LEMMA FillIn ==
    ASSUME IInv, NEW g, NEW q \in Hash \cup {NoHash}, NEW u \in WithHash(g), NEW f,
           f = (IF files[u].quick = NoHash THEN q ELSE files[u].quick),
           files' = [files EXCEPT ![u] = [files[u] EXCEPT !.quick = f]]
    PROVE  /\ files' \in FileTable
           /\ \A v \in Uuid : files'[v] # files[v] => files'[v] # NoFile /\ QuickFilled(v)
<1>1. u \in Uuid /\ Used(u) /\ files[u] \in FileRow
  BY UsedRow DEF WithHash, IInv
<1>2. f \in Hash \cup {NoHash}
  BY <1>1 DEF FileRow
<1> DEFINE r == [files[u] EXCEPT !.quick = f]
<1>3. r \in FileRow /\ r.quick = f
  BY <1>1, <1>2 DEF FileRow
<1>4. r = [files[u] EXCEPT !.quick = r.quick]
  BY <1>3
<1>5. files[u].quick # NoHash => r = files[u]
  <2>1. ASSUME files[u].quick # NoHash PROVE r = [files[u] EXCEPT !.quick = files[u].quick]
    BY <2>1
  <2>2. [files[u] EXCEPT !.quick = files[u].quick] = files[u]
    BY <1>1, RewriteQuick
  <2> QED BY <2>1, <2>2
<1>6. \A v \in Uuid : files'[v] = IF v = u THEN r ELSE files[v]
  BY <1>1 DEF IInv, TypeOK
<1> HIDE DEF r
<1>7. files' \in FileTable
  BY <1>1, <1>3 DEF IInv, TypeOK, FileTable, r
<1>8. r # NoFile
  BY <1>3, FileStoreAssumption
<1>9. files'[u] # files[u] => QuickFilled(u)
  <2>1. files'[u] = r
    BY <1>1, <1>6
  <2>2. r # files[u] => files[u].quick = NoHash
    BY <1>5
  <2> QED BY <1>1, <1>4, <2>1, <2>2, Zenon DEF QuickFilled
<1> QED BY <1>1, <1>6, <1>7, <1>8, <1>9

\* Writing one `files` row with the stamp h.
LEMMA WriteFilesRow ==
    ASSUME IInv, NEW h \in Nat, NEW u \in Uuid, NEW r \in FileRow,
           files' = [files EXCEPT ![u] = r],
           r.hlc = h
    PROVE  FileStep(h)
<1>1. files' \in FileTable
  BY DEF IInv, TypeOK, FileTable
<1>2. \A v \in Uuid : files'[v] = IF v = u THEN r ELSE files[v]
  BY DEF IInv, TypeOK
<1>3. r # NoFile
  BY FileStoreAssumption
<1> QED BY <1>1, <1>2, <1>3 DEF FileStep

\* UpsertFile: an insert under an unused hash, a fill-in, or an update that
\* keeps the hash.
LEMMA UpsertFileStep ==
    ASSUME IInv, NEW h \in Nat, NEW g \in Hash, NEW s \in Size,
           NEW q \in Hash \cup {NoHash}, NEW d \in Device, upsert_file(h, g, s, q, d)
    PROVE  FileStep(h) /\ LocStep(h)
<1>1. LocStep(h)
  BY LocationsKept DEF upsert_file
<1>2. ASSUME NEW u \in Uuid,
             files' = [files EXCEPT ![u] = [hash |-> g, size |-> s, quick |-> q,
                                            device |-> d, hlc |-> h, distinct |-> 0]]
      PROVE  FileStep(h)
  <2> DEFINE r == [hash |-> g, size |-> s, quick |-> q,
                   device |-> d, hlc |-> h, distinct |-> 0]
  <2>1. r \in FileRow /\ r.hlc = h
    BY DEF FileRow
  <2> QED BY <1>2, <2>1, WriteFilesRow
<1>3. ASSUME NEW u \in WithHash(g), NEW f,
             f = (IF files[u].quick = NoHash THEN q ELSE files[u].quick),
             files' = [files EXCEPT ![u] = [files[u] EXCEPT !.quick = f]]
      PROVE  FileStep(h)
  BY <1>3, FillIn DEF FileStep
<1>4. ASSUME NEW u \in WithHash(g), NEW f,
             f = (IF files[u].quick = NoHash THEN q ELSE files[u].quick),
             files' = [files EXCEPT ![u] = [files[u] EXCEPT !.size = s, !.device = d,
                                                            !.hlc = h, !.quick = f]]
      PROVE  FileStep(h)
  <2>1. u \in Uuid /\ files[u] \in FileRow /\ Used(u)
    BY UsedRow DEF WithHash, IInv
  <2>2. f \in Hash \cup {NoHash}
    BY <1>4, <2>1 DEF FileRow
  <2> DEFINE r == [files[u] EXCEPT !.size = s, !.device = d, !.hlc = h, !.quick = f]
  <2>3. r \in FileRow /\ r.hlc = h
    BY <2>1, <2>2 DEF FileRow
  <2> QED BY <1>4, <2>1, <2>3, WriteFilesRow
<1> QED BY <1>1, <1>2, <1>3, <1>4 DEF upsert_file

\* PromoteFullHash: one row is written, or nothing happens.
LEMMA PromoteStep ==
    ASSUME IInv, NEW h \in Nat, NEW u \in Uuid, NEW g \in Hash, NEW d \in Device,
           promote_full_hash(h, u, g, d)
    PROVE  FileStep(h) /\ LocStep(h)
<1>1. LocStep(h)
  BY LocationsKept DEF promote_full_hash
<1>2. ASSUME Used(u),
             files' = [files EXCEPT ![u] = [files[u] EXCEPT !.hash = g, !.device = d, !.hlc = h]]
      PROVE  FileStep(h)
  <2> DEFINE r == [files[u] EXCEPT !.hash = g, !.device = d, !.hlc = h]
  <2>1. r \in FileRow /\ r.hlc = h
    BY <1>2, UsedRow DEF FileRow, IInv
  <2> QED BY <1>2, <2>1, WriteFilesRow
<1> QED BY <1>1, <1>2, FilesKept DEF promote_full_hash

\* MarkVerifiedDistinct: rows that are there, in place.
LEMMA MarkStep ==
    ASSUME IInv, NEW h \in Nat, NEW us \in SUBSET Uuid, NEW d \in Device,
           mark_verified_distinct(h, us, d)
    PROVE  FileStep(h) /\ LocStep(h)
<1>1. LocStep(h)
  BY LocationsKept DEF mark_verified_distinct
<1> DEFINE S == {u \in us : Used(u)}
           f(u) == [files[u] EXCEPT !.distinct = 1, !.device = d, !.hlc = h]
<1>2. files' = [u \in Uuid |-> IF u \in S THEN f(u) ELSE files[u]]
  BY DEF mark_verified_distinct
<1>3. ASSUME NEW u \in S
      PROVE  u \in Uuid /\ f(u) \in FileRow /\ f(u).hlc = h /\ f(u) # NoFile
  BY UsedRow, FileStoreAssumption DEF IInv, FileRow
<1> HIDE DEF f, S
<1>4. files' \in FileTable
  BY <1>2, <1>3 DEF IInv, TypeOK, FileTable
<1>5. FileStep(h)
  BY <1>2, <1>3, <1>4 DEF FileStep
<1> QED BY <1>1, <1>5
-----------------------------------------------------------------------------
\* UpsertLocation: an insert where no row was live, or an update in place.
LEMMA UpsertLocationStep ==
    ASSUME IInv, NEW h \in Nat, NEW g \in Hash, NEW v \in Volume, NEW p \in Path,
           NEW d \in Device, upsert_location(h, g, v, p, d)
    PROVE  FileStep(h) /\ LocStep(h)
<1>1. FileStep(h)
  BY FilesKept DEF upsert_location
<1>2. ASSUME At(v, p) = {}, NEW i \in LocId, locations[i] = NoLoc,
             locations' = [locations EXCEPT ![i] =
                             [hash |-> g, uuid |-> UuidOf(g), volume |-> v,
                              path |-> p, status |-> "active", deleted_at |-> 0,
                              device |-> d, hlc |-> h]]
      PROVE  LocStep(h)
  <2> DEFINE r == [hash |-> g, uuid |-> UuidOf(g), volume |-> v,
                   path |-> p, status |-> "active", deleted_at |-> 0,
                   device |-> d, hlc |-> h]
  <2>1. UuidOf(g) \in Uuid \cup {NoUuid}
    BY DEF UuidOf, WithHash
  <2>2. /\ r \in LocRow /\ r.hlc = h /\ r.volume = v /\ r.path = p
    BY <2>1 DEF LocRow, Status
  <2>3. locations' \in LocTable /\ locations' = [locations EXCEPT ![i] = r]
    BY <1>2, <2>2 DEF IInv, TypeOK, LocTable
  <2> HIDE DEF r
  <2>4. \A j \in LocId : locations'[j] = IF j = i THEN r ELSE locations[j]
    BY <2>3 DEF IInv, TypeOK
  <2>5. r # NoLoc /\ v # Nil
    BY <2>2, FileStoreAssumption
  <2>6. OneFreshPerPath'
    BY <1>2, <2>2, <2>4, <2>5 DEF IInv, OneFreshPerPath, SamePlace, Live, At
  <2>7. SentinelsAreLegacy'
    BY <2>2, <2>4, <2>5 DEF IInv, SentinelsAreLegacy
  <2> QED BY <1>2, <2>2, <2>3, <2>4, <2>5, <2>6, <2>7 DEF LocStep
<1>3. ASSUME NEW i \in At(v, p),
             locations' = [locations EXCEPT ![i] =
                             [locations[i] EXCEPT !.hash = g, !.device = d, !.hlc = h]]
      PROVE  LocStep(h)
  <2> DEFINE r == [locations[i] EXCEPT !.hash = g, !.device = d, !.hlc = h]
  <2>1. i \in LocId /\ Live(i) /\ locations[i] \in LocRow
    BY LocationRow DEF At, Live, IInv
  <2>2. /\ r \in LocRow /\ r.hlc = h
        /\ r.volume = locations[i].volume /\ r.path = locations[i].path
    BY <2>1 DEF LocRow
  <2>3. locations' \in LocTable /\ locations' = [locations EXCEPT ![i] = r]
    BY <1>3, <2>1, <2>2 DEF IInv, TypeOK, LocTable
  <2> HIDE DEF r
  <2>4. \A j \in LocId : locations'[j] = IF j = i THEN r ELSE locations[j]
    BY <2>3 DEF IInv, TypeOK
  <2>5. r # NoLoc
    BY <2>2, FileStoreAssumption
  <2>6. OneFreshPerPath'
    BY <2>1, <2>2, <2>4, <2>5 DEF IInv, OneFreshPerPath, SamePlace, Live
  <2>7. SentinelsAreLegacy'
    BY <2>1, <2>2, <2>4, <2>5 DEF IInv, SentinelsAreLegacy, Live
  <2> QED BY <2>1, <2>2, <2>3, <2>4, <2>5, <2>6, <2>7 DEF LocStep
<1> QED BY <1>1, <1>2, <1>3, LocationsKept DEF upsert_location

\* An UPDATE of live rows that stamps each of them with h and preserves the
\* two invariants about places.
LEMMA UpdateLocationsStep ==
    ASSUME IInv, NEW h \in Nat, NEW S \in SUBSET LocId, NEW F,
           locations' = [i \in LocId |-> IF i \in S THEN F[i] ELSE locations[i]],
           \A i \in S : Live(i) /\ F[i] \in LocRow /\ F[i].hlc = h,
           OneFreshPerPath', SentinelsAreLegacy'
    PROVE  LocStep(h)
<1>1. locations' \in LocTable
  BY DEF IInv, TypeOK, LocTable
<1>2. \A i \in S : F[i] # NoLoc
  BY FileStoreAssumption
<1> QED BY <1>1, <1>2 DEF LocStep, IInv, TypeOK

\* The rows at a place are live and have the columns of a row.
LEMMA AtRows ==
    ASSUME TypeOK, NEW v, NEW p, NEW i \in At(v, p)
    PROVE  /\ i \in LocId /\ Live(i) /\ locations[i] \in LocRow
           /\ locations[i].volume = v /\ locations[i].path = p
BY LocationRow DEF At, Live

\* What each UPDATE makes of one row: the columns it sets and those it keeps.
LEMMA UpdatedRow ==
    ASSUME NEW r \in LocRow, NEW h \in Nat, NEW d \in Device
    PROVE  /\ \A s \in Status :
                /\ WithStatus(r, s, d, h) \in LocRow
                /\ WithStatus(r, s, d, h).hlc = h
                /\ WithStatus(r, s, d, h).deleted_at = r.deleted_at
                /\ WithStatus(r, s, d, h).volume = r.volume
                /\ WithStatus(r, s, d, h).path = r.path
           /\ SoftDeleted(r, d, h) \in LocRow
           /\ SoftDeleted(r, d, h).hlc = h
           /\ SoftDeleted(r, d, h).deleted_at = h
           /\ SoftDeleted(r, d, h).volume = r.volume
           /\ \A n \in Path :
                /\ MovedTo(r, n, d, h) \in LocRow
                /\ MovedTo(r, n, d, h).hlc = h
                /\ MovedTo(r, n, d, h).volume = r.volume
                /\ MovedTo(r, n, d, h).path = n
           /\ \A v \in Volume :
                /\ OnVolume(r, v, d, h) \in LocRow
                /\ OnVolume(r, v, d, h).hlc = h
BY DEF LocRow, Status, WithStatus, SoftDeleted, MovedTo, OnVolume

\* UpdateLocationStatus: no row changes its place.
LEMMA StatusStep ==
    ASSUME IInv, NEW h \in Nat, NEW v \in Volume, NEW p \in Path, NEW s \in Status,
           NEW d \in Device, update_location_status(h, v, p, s, d)
    PROVE  FileStep(h) /\ LocStep(h)
<1>1. FileStep(h)
  BY FilesKept DEF update_location_status
<1> DEFINE S == At(v, p)
           F == [i \in S |-> WithStatus(locations[i], s, d, h)]
<1>2. S \in SUBSET LocId
  BY DEF At
<1>3. locations' = [i \in LocId |-> IF i \in S THEN F[i] ELSE locations[i]]
  BY DEF update_location_status, UpdateLocations
<1>4. ASSUME NEW i \in S
      PROVE  /\ Live(i) /\ F[i] \in LocRow /\ F[i].hlc = h /\ F[i].deleted_at = locations[i].deleted_at
             /\ F[i].volume = locations[i].volume /\ F[i].path = locations[i].path
  <2>1. F[i] = WithStatus(locations[i], s, d, h)
    OBVIOUS
  <2>2. Live(i) /\ locations[i] \in LocRow
    BY AtRows DEF IInv
  <2> HIDE DEF F
  <2> QED BY <2>1, <2>2, UpdatedRow
<1>5. \A i \in S : F[i] # NoLoc
  BY <1>4, FileStoreAssumption
<1> HIDE DEF S, F
<1>6. OneFreshPerPath'
  BY <1>2, <1>3, <1>4, <1>5 DEF IInv, OneFreshPerPath, SamePlace, Live
<1>7. SentinelsAreLegacy'
  BY <1>2, <1>3, <1>4, <1>5 DEF IInv, SentinelsAreLegacy, Live
<1>8. LocStep(h)
  BY <1>2, <1>3, <1>4, <1>6, <1>7, UpdateLocationsStep
<1> QED BY <1>1, <1>8

\* UpdateLocationPath: the rows at the old path all go to a place where no
\* row is live, or all stop being live.
LEMMA RenameStep ==
    ASSUME IInv, NEW h \in Nat, NEW v \in Volume, NEW p \in Path, NEW n \in Path,
           NEW d \in Device, h # 0, update_location_path(h, v, p, n, d)
    PROVE  FileStep(h) /\ LocStep(h)
<1>1. FileStep(h)
  BY FilesKept DEF update_location_path
<1> DEFINE S == At(v, p)
           Gone == [i \in S |-> SoftDeleted(locations[i], d, h)]
           Moved == [i \in S |-> MovedTo(locations[i], n, d, h)]
<1>2. S \in SUBSET LocId
  BY DEF At
<1>3. CASE locations' = [i \in LocId |-> IF i \in S THEN Gone[i] ELSE locations[i]]
  <2>1. ASSUME NEW i \in S
        PROVE  /\ Live(i) /\ Gone[i] \in LocRow /\ Gone[i].hlc = h /\ Gone[i].deleted_at = h
               /\ Gone[i].volume = v
    <3>1. Gone[i] = SoftDeleted(locations[i], d, h)
      OBVIOUS
    <3>2. Live(i) /\ locations[i] \in LocRow /\ locations[i].volume = v
      BY AtRows DEF IInv
    <3> HIDE DEF Gone
    <3> QED BY <3>1, <3>2, UpdatedRow
  <2> HIDE DEF S, Gone
  <2>3. OneFreshPerPath'
    BY <1>2, <1>3, <2>1 DEF IInv, OneFreshPerPath, SamePlace, Live
  <2>4. SentinelsAreLegacy'
    BY <1>2, <1>3, <2>1, FileStoreAssumption DEF IInv, SentinelsAreLegacy
  <2>5. \A i \in S : Live(i) /\ Gone[i] \in LocRow /\ Gone[i].hlc = h
    BY <2>1
  <2> QED BY <1>1, <1>2, <1>3, <2>3, <2>4, <2>5, UpdateLocationsStep
<1>4. CASE /\ At(v, n) = {}
           /\ locations' = [i \in LocId |-> IF i \in S THEN Moved[i] ELSE locations[i]]
  <2>1. ASSUME NEW i \in S
        PROVE  /\ Live(i) /\ Moved[i] \in LocRow /\ Moved[i].hlc = h
               /\ Moved[i].volume = v /\ Moved[i].path = n
               /\ locations[i].volume = v /\ locations[i].path = p
    <3>1. Moved[i] = MovedTo(locations[i], n, d, h)
      OBVIOUS
    <3>2. Live(i) /\ locations[i] \in LocRow /\ locations[i].volume = v /\ locations[i].path = p
      BY AtRows DEF IInv
    <3> HIDE DEF Moved
    <3> QED BY <3>1, <3>2, UpdatedRow
  <2>2. \A i \in LocId : Live(i) => ~(locations[i].volume = v /\ locations[i].path = n)
    BY <1>4 DEF At
  <2>3. \A i \in LocId : locations'[i] = IF i \in S THEN Moved[i] ELSE locations[i]
    BY <1>4
  <2> HIDE DEF S, Moved
  <2>4. OneFreshPerPath'
    <3> SUFFICES ASSUME NEW i \in LocId \ LegacyLocs, NEW j \in LocId \ LegacyLocs,
                        SamePlace(i, j)'
                 PROVE  i = j
      BY DEF OneFreshPerPath
    <3>1. CASE i \in S /\ j \in S
      BY <2>1, <3>1 DEF IInv, OneFreshPerPath, SamePlace
    <3>2. CASE i \in S /\ j \notin S
      BY <2>1, <2>2, <2>3, <3>2 DEF SamePlace, Live
    <3>3. CASE i \notin S /\ j \in S
      BY <2>1, <2>2, <2>3, <3>3 DEF SamePlace, Live
    <3>4. CASE i \notin S /\ j \notin S
      BY <2>3, <3>4 DEF IInv, OneFreshPerPath, SamePlace, Live
    <3> QED BY <3>1, <3>2, <3>3, <3>4
  <2>5. SentinelsAreLegacy'
    BY <2>1, <2>3, FileStoreAssumption DEF IInv, SentinelsAreLegacy
  <2>6. \A i \in S : Live(i) /\ Moved[i] \in LocRow /\ Moved[i].hlc = h
    BY <2>1
  <2> QED BY <1>1, <1>2, <1>4, <2>4, <2>5, <2>6, UpdateLocationsStep
<1>5. LocStep(h)
  BY <1>3, <1>4 DEF update_location_path, UpdateLocations
<1> QED BY <1>1, <1>5

\* MigrateSentinelRow: only legacy rows move.
LEMMA MigrateStep ==
    ASSUME IInv, NEW h \in Nat, NEW v \in Volume, NEW p \in Path,
           NEW d \in Device, migrate_sentinel_row(h, p, v, d)
    PROVE  FileStep(h) /\ LocStep(h)
<1>1. FileStep(h)
  BY FilesKept DEF migrate_sentinel_row
<1> DEFINE S == At(Nil, p)
           F == [i \in S |-> OnVolume(locations[i], v, d, h)]
<1>2. S \in SUBSET LocId
  BY DEF At
<1>3. locations' = [i \in LocId |-> IF i \in S THEN F[i] ELSE locations[i]]
  BY DEF migrate_sentinel_row, UpdateLocations
<1>4. ASSUME NEW i \in S
      PROVE  Live(i) /\ F[i] \in LocRow /\ F[i].hlc = h /\ i \in LegacyLocs
  <2>1. F[i] = OnVolume(locations[i], v, d, h)
    OBVIOUS
  <2>2. Live(i) /\ locations[i] \in LocRow /\ i \in LegacyLocs
    BY AtRows DEF IInv, SentinelsAreLegacy, Live
  <2> HIDE DEF F
  <2> QED BY <2>1, <2>2, UpdatedRow
<1> HIDE DEF S, F
<1>5. OneFreshPerPath'
  BY <1>2, <1>3, <1>4 DEF IInv, OneFreshPerPath, SamePlace, Live
<1>6. SentinelsAreLegacy'
  BY <1>2, <1>3, <1>4 DEF IInv, SentinelsAreLegacy
<1>7. LocStep(h)
  BY <1>2, <1>3, <1>4, <1>5, <1>6, UpdateLocationsStep
<1> QED BY <1>1, <1>7
-----------------------------------------------------------------------------
\* Every command, whatever its arguments, is such a step.
LEMMA CommandStep ==
    ASSUME IInv, NEW h \in Nat, h # 0, Command(h)
    PROVE  FileStep(h) /\ LocStep(h)
<1>1. ASSUME storage_error PROVE FileStep(h) /\ LocStep(h)
  BY <1>1, FilesKept, LocationsKept DEF storage_error
<1>2. ASSUME NEW v \in Volume, NEW p \in Path, NEW s \in {"stale", "missing"}, NEW d \in Device,
             update_location_status(h, v, p, s, d)
      PROVE  FileStep(h) /\ LocStep(h)
  <2>1. s \in Status
    BY DEF Status
  <2> QED BY <1>2, <2>1, StatusStep
<1> QED
  BY <1>1, <1>2, UpsertFileStep, UpsertLocationStep, RenameStep, MigrateStep,
     PromoteStep, MarkStep DEF Command

\* The database a process opens satisfies the invariant.
LEMMA InitIInv == Init => IInv
<1> SUFFICES ASSUME Init PROVE IInv
  OBVIOUS
<1>1. PICK u \in Uuid, g \in Hash, s \in Size, d \in Device, at \in [LegacyLocs -> Path] :
        /\ files = [v \in Uuid |->
                      IF v = u /\ LegacyLocs # {}
                        THEN [hash |-> g, size |-> s, quick |-> NoHash, device |-> d,
                              hlc |-> 0, distinct |-> 0]
                        ELSE NoFile]
        /\ locations = [i \in LocId |->
                          IF i \in LegacyLocs
                            THEN [hash |-> g, uuid |-> u, volume |-> Nil, path |-> at[i],
                                  status |-> "active", deleted_at |-> 0,
                                  device |-> d, hlc |-> 0]
                            ELSE NoLoc]
  BY DEF Init
<1> DEFINE fr == [hash |-> g, size |-> s, quick |-> NoHash, device |-> d,
                  hlc |-> 0, distinct |-> 0]
           lr(i) == [hash |-> g, uuid |-> u, volume |-> Nil, path |-> at[i],
                     status |-> "active", deleted_at |-> 0, device |-> d, hlc |-> 0]
<1>2. fr \in FileRow /\ fr.hlc = 0
  BY DEF FileRow
<1>3. ASSUME NEW i \in LegacyLocs PROVE lr(i) \in LocRow /\ lr(i).hlc = 0
  BY DEF LocRow, Status
<1>4. \A v \in Uuid : files[v] = IF v = u /\ LegacyLocs # {} THEN fr ELSE NoFile
  BY <1>1
<1>5. \A i \in LocId : locations[i] = IF i \in LegacyLocs THEN lr(i) ELSE NoLoc
  BY <1>1
<1>6. files \in FileTable /\ locations \in LocTable
  BY <1>1, <1>2, <1>3 DEF FileTable, LocTable
<1> HIDE DEF fr, lr
<1>7. clock = 0
  BY DEF Init
<1>8. TypeOK
  BY <1>6, <1>7 DEF TypeOK, FileTable, LocTable
<1>9. OneFreshPerPath /\ SentinelsAreLegacy
  BY <1>5 DEF OneFreshPerPath, SentinelsAreLegacy, SamePlace, Live
<1> QED BY <1>8, <1>9 DEF IInv

\* Such a step keeps the invariant, whatever its stamp.
LEMMA StepKeepsIInv ==
    ASSUME IInv, NEW h, FileStep(h), LocStep(h), clock' \in Nat
    PROVE  IInv'
BY DEF IInv, TypeOK, FileStep, LocStep, FileTable, LocTable

\* Leaving both tables alone keeps it too.
LEMMA TablesKeepIInv ==
    ASSUME IInv, UNCHANGED <<files, locations>>, clock' \in Nat
    PROVE  IInv'
BY FilesKept, LocationsKept, StepKeepsIInv

\* What a command of the next-state relation does.
LEMMA HandleStep ==
    ASSUME IInv, Handle
    PROVE  /\ clock + 1 \in Nat /\ clock' = clock + 1
           /\ FileStep(clock + 1) /\ LocStep(clock + 1)
<1>1. clock + 1 \in Nat /\ clock + 1 # 0 /\ clock' = clock + 1
  BY DEF Handle, IInv, TypeOK
<1> QED BY <1>1, CommandStep DEF Handle

\* The invariant is inductive.
LEMMA NextIInv == IInv /\ [Next]_vars => IInv'
<1> SUFFICES ASSUME IInv, [Next]_vars PROVE IInv'
  OBVIOUS
<1>1. CASE UNCHANGED vars
  BY <1>1, TablesKeepIInv DEF vars, IInv, TypeOK
<1>2. CASE Handle
  BY <1>2, HandleStep, StepKeepsIInv
<1>3. CASE Restart
  BY <1>3, TablesKeepIInv DEF Restart, IInv, TypeOK
<1> QED BY <1>1, <1>2, <1>3 DEF Next

\* The inductive invariant holds in every state.
LEMMA Inductive == Spec => []IInv
BY InitIInv, NextIInv, PTL DEF Spec

\* Type correctness of the two tables.
THEOREM TypeCorrect == Spec => []TypeOK
<1>1. IInv => TypeOK
  BY DEF IInv
<1> QED BY <1>1, Inductive, PTL

\* No two location rows inserted by this version are live at one path.
THEOREM FreshPathsStayUnique == Spec => []OneFreshPerPath
<1>1. IInv => OneFreshPerPath
  BY DEF IInv
<1> QED BY <1>1, Inductive, PTL

\* On a database without sentinel rows the app-level invariant of the
\* comments holds as stated: one live row per (volume, path).
THEOREM PathsStayUniqueWithoutSentinels ==
    ASSUME LegacyLocs = {}
    PROVE  Spec => []OneLivePerPath
<1>1. IInv => OneLivePerPath
  BY DEF IInv, OneFreshPerPath, OneLivePerPath
<1> QED BY <1>1, Inductive, PTL

\* Rows are never removed and tombstones never rewritten.
THEOREM TombstonesStayFinal == Spec => TombstonesFinal
<1> DEFINE A == /\ \A i \in LocId : locations[i] # NoLoc /\ locations[i].deleted_at # 0
                                     => locations'[i] = locations[i]
                /\ \A i \in LocId : locations[i] # NoLoc => locations'[i] # NoLoc
                /\ \A u \in Uuid : Used(u) => files'[u] # NoFile
<1>1. IInv /\ [Next]_vars => [A]_vars
  <2> SUFFICES ASSUME IInv, Next PROVE A
    OBVIOUS
  <2>1. CASE Handle
    BY <2>1, HandleStep DEF FileStep, LocStep, Live, Used
  <2>2. CASE Restart
    BY <2>2 DEF Restart, Used
  <2> QED BY <2>1, <2>2 DEF Next
<1> QED BY <1>1, Inductive, PTL DEF Spec, TombstonesFinal
-----------------------------------------------------------------------------
\* What a command must tell of what it has written.
Told ==
    /\ last'.event = "none" => /\ UNCHANGED locations
                               /\ \A u \in Uuid : files'[u] = files[u] \/ QuickFilled(u)
    /\ last'.event # "none" => Stamped'

LEMMA ReplyEvent ==
    ASSUME NEW outcome, NEW rows, NEW event, Reply(outcome, rows, event)
    PROVE  last'.event = event
BY DEF Reply

\* A row written by this command carries its stamp.
LEMMA FileStamped ==
    ASSUME IInv, NEW u \in Uuid, NEW r \in FileRow,
           files' = [files EXCEPT ![u] = r], r.hlc = clock'
    PROVE  Stamped'
BY FileStoreAssumption DEF IInv, TypeOK, Stamped

LEMMA LocationStamped ==
    ASSUME IInv, NEW i \in LocId, NEW r \in LocRow,
           locations' = [locations EXCEPT ![i] = r], r.hlc = clock'
    PROVE  Stamped'
BY FileStoreAssumption DEF IInv, TypeOK, Stamped

\* A count of rows announces unless there are none.
LEMMA Counted ==
    ASSUME NEW T, IsFiniteSet(T), NEW S \in SUBSET T, NEW event, event # "none"
    PROVE  Announce(event, Cardinality(S)) = "none" <=> S = {}
<1>1. IsFiniteSet(S) /\ Cardinality(S) \in Nat /\ (Cardinality(S) = 0 <=> S = {})
  BY FS_Subset, FS_EmptySet, FS_CardinalityType
<1> QED BY <1>1 DEF Announce

\* The three location UPDATEs.
LEMMA LocationsTold ==
    ASSUME IInv, IsFiniteSet(LocId), NEW S \in SUBSET LocId, NEW F,
           locations' = [i \in LocId |-> IF i \in S THEN F[i] ELSE locations[i]],
           \A i \in S : F[i] \in LocRow /\ F[i].hlc = clock',
           UNCHANGED files,
           last'.event = Announce("FilesChanged", Cardinality(S))
    PROVE  Told
<1>1. last'.event = "none" <=> S = {}
  BY Counted
<1>2. S = {} => locations' = locations
  BY DEF IInv, TypeOK
<1>3. ASSUME NEW i \in S PROVE Stamped'
  <2>1. locations'[i] # NoLoc /\ locations'[i].hlc = clock'
    BY FileStoreAssumption
  <2> QED BY <2>1 DEF Stamped
<1> QED BY <1>1, <1>2, <1>3 DEF Told

LEMMA UpsertFileTold ==
    ASSUME IInv, clock' = clock + 1, NEW g \in Hash, NEW s \in Size,
           NEW q \in Hash \cup {NoHash}, NEW d \in Device,
           upsert_file(clock + 1, g, s, q, d)
    PROVE  Told
<1> DEFINE h == clock + 1
<1>1. h \in Nat
  BY DEF IInv, TypeOK
<1>2. ASSUME NEW u \in Uuid,
             files' = [files EXCEPT ![u] = [hash |-> g, size |-> s, quick |-> q,
                                            device |-> d, hlc |-> h, distinct |-> 0]]
      PROVE  Stamped'
  <2> DEFINE r == [hash |-> g, size |-> s, quick |-> q, device |-> d, hlc |-> h, distinct |-> 0]
  <2>1. r \in FileRow /\ r.hlc = clock'
    BY <1>1 DEF FileRow
  <2> HIDE DEF r
  <2>2. files' = [files EXCEPT ![u] = r]
    BY <1>2 DEF r
  <2> QED BY <2>1, <2>2, FileStamped
<1>3. ASSUME NEW u \in WithHash(g), NEW f, f \in Hash \cup {NoHash},
             files' = [files EXCEPT ![u] = [files[u] EXCEPT !.size = s, !.device = d,
                                                            !.hlc = h, !.quick = f]]
      PROVE  Stamped'
  <2> DEFINE r == [files[u] EXCEPT !.size = s, !.device = d, !.hlc = h, !.quick = f]
  <2>1. u \in Uuid /\ files[u] \in FileRow
    BY UsedRow DEF WithHash, IInv
  <2>2. r \in FileRow /\ r.hlc = clock'
    BY <1>1, <1>3, <2>1 DEF FileRow
  <2> HIDE DEF r
  <2>3. files' = [files EXCEPT ![u] = r]
    BY <1>3 DEF r
  <2> QED BY <2>1, <2>2, <2>3, FileStamped
<1>4. ASSUME NEW u \in WithHash(g)
      PROVE  files[u].quick \in Hash \cup {NoHash}
  BY UsedRow DEF WithHash, IInv, FileRow
<1> DEFINE filled(u) == IF files[u].quick = NoHash THEN q ELSE files[u].quick
           New(u) == files' = [files EXCEPT ![u] = [hash |-> g, size |-> s, quick |-> q,
                                                    device |-> d, hlc |-> h, distinct |-> 0]]
           Fill(u) == files' = [files EXCEPT ![u] = [files[u] EXCEPT !.quick = filled(u)]]
           Update(u) == files' = [files EXCEPT ![u] = [files[u] EXCEPT
                                     !.size = s, !.device = d, !.hlc = h, !.quick = filled(u)]]
           Outcomes == \/ last'.event # "none" /\ \E u \in Uuid : New(u)
                       \/ last'.event = "none" /\ \E u \in WithHash(g) : Fill(u)
                       \/ last'.event # "none" /\ \E u \in WithHash(g) : Update(u)
<1>5. Outcomes
  <2>1. ASSUME NEW u \in Uuid, New(u), Reply("Inserted", 1, "FilesChanged") PROVE Outcomes
    BY <2>1, ReplyEvent
  <2>2. ASSUME NEW u \in WithHash(g),
               \/ Fill(u) /\ Reply("Unchanged", 0, "none")
               \/ Update(u) /\ Reply("Updated", 1, "FilesChanged")
        PROVE  Outcomes
    <3> HIDE DEF Fill, Update, New
    <3> QED BY <2>2, ReplyEvent
  <2> QED BY <2>1, <2>2 DEF upsert_file
<1>6. ASSUME NEW u \in WithHash(g), Fill(u)
      PROVE  \A v \in Uuid : files'[v] = files[v] \/ QuickFilled(v)
  BY <1>6, FillIn
<1>7. ASSUME NEW u \in WithHash(g), Update(u) PROVE Stamped'
  <2>1. filled(u) \in Hash \cup {NoHash}
    BY <1>4
  <2> QED BY <1>3, <1>7, <2>1
<1>8. UNCHANGED locations
  BY DEF upsert_file
<1> QED BY <1>2, <1>5, <1>6, <1>7, <1>8 DEF Told

LEMMA UpsertLocationTold ==
    ASSUME IInv, clock' = clock + 1, NEW g \in Hash, NEW v \in Volume, NEW p \in Path,
           NEW d \in Device, upsert_location(clock + 1, g, v, p, d)
    PROVE  Told
<1> DEFINE h == clock + 1
           new == [hash |-> g, uuid |-> UuidOf(g), volume |-> v, path |-> p,
                   status |-> "active", deleted_at |-> 0, device |-> d, hlc |-> h]
           bound(i) == [locations[i] EXCEPT !.hash = g, !.device = d, !.hlc = h]
<1>1. h \in Nat
  BY DEF IInv, TypeOK
<1>2. new \in LocRow /\ new.hlc = clock'
  <2>1. UuidOf(g) \in Uuid \cup {NoUuid}
    BY DEF UuidOf, WithHash
  <2> QED BY <1>1, <2>1 DEF LocRow, Status
<1>3. ASSUME NEW i \in At(v, p)
      PROVE  i \in LocId /\ bound(i) \in LocRow /\ bound(i).hlc = clock'
  <2>1. i \in LocId /\ locations[i] \in LocRow
    BY LocationRow DEF At, Live, IInv
  <2> QED BY <1>1, <2>1 DEF LocRow
<1>4. \/ last'.event = "none" /\ UNCHANGED locations
      \/ /\ last'.event # "none"
         /\ \/ \E i \in LocId : locations' = [locations EXCEPT ![i] = new]
            \/ \E i \in At(v, p) : locations' = [locations EXCEPT ![i] = bound(i)]
  BY ReplyEvent DEF upsert_location
<1>5. UNCHANGED files
  BY DEF upsert_location
<1> HIDE DEF new, bound
<1> QED BY <1>2, <1>3, <1>4, <1>5, LocationStamped DEF Told

LEMMA StatusTold ==
    ASSUME IInv, clock' = clock + 1, IsFiniteSet(LocId), NEW v \in Volume, NEW p \in Path,
           NEW s \in Status, NEW d \in Device, update_location_status(clock + 1, v, p, s, d)
    PROVE  Told
<1> DEFINE S == At(v, p)
           F == [i \in S |-> WithStatus(locations[i], s, d, clock + 1)]
<1>1. clock + 1 \in Nat
  BY DEF IInv, TypeOK
<1>2. \A i \in S : F[i] \in LocRow /\ F[i].hlc = clock'
  BY <1>1, AtRows, UpdatedRow DEF IInv
<1>3. /\ locations' = [i \in LocId |-> IF i \in S THEN F[i] ELSE locations[i]]
      /\ UNCHANGED files
      /\ last'.event = Announce("FilesChanged", Cardinality(S))
  BY DEF update_location_status, UpdateLocations, Reply
<1>4. S \in SUBSET LocId
  BY DEF At
<1> HIDE DEF S, F
<1> QED BY <1>2, <1>3, <1>4, LocationsTold

LEMMA RenameTold ==
    ASSUME IInv, clock' = clock + 1, IsFiniteSet(LocId), NEW v \in Volume, NEW p \in Path,
           NEW n \in Path, NEW d \in Device, update_location_path(clock + 1, v, p, n, d)
    PROVE  Told
<1> DEFINE S == At(v, p)
           Gone == [i \in S |-> SoftDeleted(locations[i], d, clock + 1)]
           Moved == [i \in S |-> MovedTo(locations[i], n, d, clock + 1)]
<1>1. clock + 1 \in Nat
  BY DEF IInv, TypeOK
<1>2. ASSUME NEW i \in S
      PROVE  /\ Gone[i] \in LocRow /\ Gone[i].hlc = clock'
             /\ Moved[i] \in LocRow /\ Moved[i].hlc = clock'
  <2>1. i \in LocId /\ locations[i] \in LocRow
    BY AtRows DEF IInv
  <2>2. Gone[i] \in LocRow /\ Gone[i].hlc = clock'
    BY <1>1, <2>1, UpdatedRow
  <2>3. Moved[i] \in LocRow /\ Moved[i].hlc = clock'
    BY <1>1, <2>1, UpdatedRow
  <2> QED BY <2>2, <2>3
<1>3. /\ \/ locations' = [i \in LocId |-> IF i \in S THEN Gone[i] ELSE locations[i]]
         \/ locations' = [i \in LocId |-> IF i \in S THEN Moved[i] ELSE locations[i]]
      /\ UNCHANGED files
      /\ last'.event = Announce("FilesChanged", Cardinality(S))
  BY DEF update_location_path, UpdateLocations, Reply
<1>4. S \in SUBSET LocId
  BY DEF At
<1> HIDE DEF S, Gone, Moved
<1> QED BY <1>2, <1>3, <1>4, LocationsTold

LEMMA MigrateTold ==
    ASSUME IInv, clock' = clock + 1, IsFiniteSet(LocId), NEW v \in Volume, NEW p \in Path,
           NEW d \in Device, migrate_sentinel_row(clock + 1, p, v, d)
    PROVE  Told
<1> DEFINE S == At(Nil, p)
           F == [i \in S |-> OnVolume(locations[i], v, d, clock + 1)]
<1>1. clock + 1 \in Nat
  BY DEF IInv, TypeOK
<1>2. \A i \in S : F[i] \in LocRow /\ F[i].hlc = clock'
  BY <1>1, AtRows, UpdatedRow DEF IInv
<1>3. /\ locations' = [i \in LocId |-> IF i \in S THEN F[i] ELSE locations[i]]
      /\ UNCHANGED files
      /\ last'.event = Announce("FilesChanged", Cardinality(S))
  BY DEF migrate_sentinel_row, UpdateLocations, Reply
<1>4. S \in SUBSET LocId
  BY DEF At
<1> HIDE DEF S, F
<1> QED BY <1>2, <1>3, <1>4, LocationsTold

LEMMA PromoteTold ==
    ASSUME IInv, clock' = clock + 1, NEW u \in Uuid, NEW g \in Hash, NEW d \in Device,
           promote_full_hash(clock + 1, u, g, d)
    PROVE  Told
<1> DEFINE r == [files[u] EXCEPT !.hash = g, !.device = d, !.hlc = clock + 1]
<1>1. ASSUME Used(u) PROVE r \in FileRow /\ r.hlc = clock'
  <2>1. files[u] \in FileRow /\ clock + 1 \in Nat
    BY <1>1, UsedRow DEF IInv, TypeOK
  <2> QED BY <2>1 DEF FileRow
<1>2. \/ last'.event = "none" /\ UNCHANGED <<files, locations>>
      \/ /\ last'.event # "none" /\ UNCHANGED locations
         /\ Used(u) /\ files' = [files EXCEPT ![u] = r]
  BY ReplyEvent DEF promote_full_hash
<1> HIDE DEF r
<1> QED BY <1>1, <1>2, FileStamped DEF Told

LEMMA MarkTold ==
    ASSUME IInv, clock' = clock + 1, IsFiniteSet(Uuid), NEW us \in SUBSET Uuid,
           NEW d \in Device, mark_verified_distinct(clock + 1, us, d)
    PROVE  Told
<1> DEFINE S == {u \in us : Used(u)}
           f(u) == [files[u] EXCEPT !.distinct = 1, !.device = d, !.hlc = clock + 1]
<1>1. /\ files' = [u \in Uuid |-> IF u \in S THEN f(u) ELSE files[u]]
      /\ UNCHANGED locations
      /\ last'.event = Announce("CollisionsChanged", Cardinality(S))
  BY DEF mark_verified_distinct, Reply
<1>2. S \in SUBSET Uuid
  OBVIOUS
<1>3. ASSUME NEW u \in S PROVE Stamped'
  <2>1. u \in Uuid /\ Used(u) /\ files[u] \in FileRow /\ clock + 1 \in Nat
    BY UsedRow DEF IInv, TypeOK
  <2>2. f(u) \in FileRow /\ f(u).hlc = clock'
    BY <2>1 DEF FileRow
  <2> HIDE DEF f
  <2>3. files'[u] # NoFile /\ files'[u].hlc = clock'
    BY <1>1, <2>1, <2>2, FileStoreAssumption
  <2> QED BY <2>1, <2>3 DEF Stamped
<1> HIDE DEF S, f
<1>4. last'.event = "none" <=> S = {}
  BY <1>1, <1>2, Counted
<1>5. S = {} => files' = files
  BY <1>1 DEF IInv, TypeOK
<1> QED BY <1>1, <1>3, <1>4, <1>5 DEF Told

\* A command is silent exactly when it has written nothing but a quick_hash
\* that was NULL, and one that is not leaves a row with its stamp, whatever
\* stamps the rows had before.  The tables are finite.
THEOREM EventsTellWrites ==
    ASSUME IsFiniteSet(Uuid), IsFiniteSet(LocId)
    PROVE  Spec => EventIffWritten
<1>1. IInv /\ [Next]_vars => [Told]_vars
  <2> SUFFICES ASSUME IInv, Next PROVE Told
    OBVIOUS
  <2>1. CASE Handle
    <3>1. ASSUME storage_error PROVE Told
      BY <3>1 DEF storage_error, Reply, Told
    <3>2. ASSUME clock' = clock + 1, NEW v \in Volume, NEW p \in Path,
                 NEW s \in {"stale", "missing"}, NEW d \in Device,
                 update_location_status(clock + 1, v, p, s, d)
          PROVE  Told
      <4>1. s \in Status
        BY DEF Status
      <4> QED BY <3>2, <4>1, StatusTold
    <3>3. clock' = clock + 1 /\ Command(clock + 1)
      BY <2>1 DEF Handle
    <3> QED
      BY <3>1, <3>2, <3>3, UpsertFileTold, UpsertLocationTold, RenameTold, MigrateTold,
         PromoteTold, MarkTold DEF Command
  <2>2. CASE Restart
    BY <2>2 DEF Restart, Told
  <2> QED BY <2>1, <2>2 DEF Next
<1> QED BY <1>1, Inductive, PTL DEF Spec, EventIffWritten, Told
=============================================================================
