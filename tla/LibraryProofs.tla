------------------------- MODULE LibraryProofs -------------------------
(***************************************************************************)
(* Who writes the two tables beside the writer actor's callers in general. *)
(* Each command here is a step of FileStoreProofs, and keeps the tables'   *)
(* own invariant.                                                          *)
(*                                                                         *)
(* The second writer of the desktop shell, for every number of rows,       *)
(* paths, volumes, hashes and commands.  A command may run with a stamp    *)
(* that is behind the clock, even behind the rows it overwrites, so        *)
(* growing stamps are lost; the lemmas of FileStoreProofs about a single   *)
(* command ask only for a stamp other than 0, which is enough for keys,    *)
(* places and tombstones.                                                  *)
(*                                                                         *)
(* A directory and its library, for any contents, paths and rows, any      *)
(* number of edits, scans, watcher events, full hashes and storage errors: *)
(* what a scan that nothing interfered with leaves in the tables, and that *)
(* a location is known to some row of `files`.                             *)
(***************************************************************************)
EXTENDS Library, TwoWriters, FileStoreProofs

(***************************************************************************)
(* The second writer.                                                      *)
(***************************************************************************)
\* The tables' invariant, and each command in hand under a stamp of its own
\* that the clock has given out.
TwoInv ==
    /\ IInv
    /\ stamp \in [Writers -> Nat]
    /\ StampsDistinct

LEMMA TwoInitInv == TwoInit => TwoInv
<1> SUFFICES ASSUME TwoInit PROVE TwoInv
  OBVIOUS
<1>1. IInv
  BY InitIInv DEF TwoInit
<1>2. stamp \in [Writers -> Nat] /\ StampsDistinct
  BY <1>1 DEF TwoInit, StampsDistinct, IInv, TypeOK
<1> QED BY <1>1, <1>2 DEF TwoInv

LEMMA BeginStep ==
    ASSUME TwoInv, NEW w \in Writers, Begin(w) PROVE TwoInv'
<1>1. /\ UNCHANGED <<files, locations>> /\ clock \in Nat /\ clock' = clock + 1
      /\ stamp \in [Writers -> Nat] /\ stamp' = [stamp EXCEPT ![w] = clock + 1]
  BY DEF Begin, TwoInv, IInv, TypeOK
<1>2. FileStep(clock + 1) /\ LocStep(clock + 1)
  BY <1>1, FilesKept, LocationsKept DEF TwoInv
<1>3. IInv'
  BY <1>1, <1>2, StepKeepsIInv DEF TwoInv
<1>4. stamp' \in [Writers -> Nat]
  BY <1>1
<1>5. \A v \in Writers : stamp[v] \in Nat /\ stamp[v] <= clock
  BY <1>1 DEF TwoInv, StampsDistinct
<1>6. StampsDistinct'
  BY <1>1, <1>5 DEF TwoInv, StampsDistinct
<1> QED BY <1>3, <1>4, <1>6 DEF TwoInv

\* A watcher's command is one of the seven.
LEMMA WatchIsCommand ==
    ASSUME NEW h, WatchCommand(h) PROVE Command(h)
BY DEF WatchCommand, Command

LEMMA FinishIsCommand ==
    ASSUME TwoInv, NEW w \in Writers, Finish(w)
    PROVE  /\ stamp[w] \in Nat /\ stamp[w] # 0 /\ stamp[w] <= clock
           /\ FileStep(stamp[w]) /\ LocStep(stamp[w])
<1>1. stamp[w] \in Nat /\ stamp[w] # 0 /\ stamp[w] <= clock
  BY DEF Finish, TwoInv, StampsDistinct
<1>2. Command(stamp[w])
  BY WatchIsCommand DEF Finish
<1> QED BY <1>1, <1>2, CommandStep DEF TwoInv

LEMMA FinishStep ==
    ASSUME TwoInv, NEW w \in Writers, Finish(w) PROVE TwoInv'
<1>1. /\ clock \in Nat /\ clock' = clock
      /\ stamp \in [Writers -> Nat] /\ stamp' = [stamp EXCEPT ![w] = 0]
  BY DEF Finish, TwoInv, IInv, TypeOK
<1>2. IInv'
  BY <1>1, FinishIsCommand, StepKeepsIInv DEF TwoInv
<1>3. stamp' \in [Writers -> Nat] /\ StampsDistinct'
  BY <1>1 DEF TwoInv, StampsDistinct
<1> QED BY <1>2, <1>3 DEF TwoInv

\* The invariant is inductive.
LEMMA TwoNextInv == TwoInv /\ [TwoNext]_twoVars => TwoInv'
<1> SUFFICES ASSUME TwoInv, [TwoNext]_twoVars PROVE TwoInv'
  OBVIOUS
<1>1. CASE TwoNext
  BY <1>1, BeginStep, FinishStep DEF TwoNext
<1>2. CASE UNCHANGED twoVars
  <2>1. UNCHANGED vars /\ UNCHANGED stamp /\ clock' = clock
    BY <1>2 DEF twoVars, vars
  <2>2. IInv'
    BY <2>1, NextIInv DEF TwoInv
  <2> QED BY <2>1, <2>2 DEF TwoInv, StampsDistinct
<1> QED BY <1>1, <1>2

LEMMA TwoInductive == TwoSpec => []TwoInv
BY TwoInitInv, TwoNextInv, PTL DEF TwoSpec

\* The shared clock never gives one stamp to the commands in hand of both
\* writers.
THEOREM StampsStayDistinct == TwoSpec => []StampsDistinct
<1>1. TwoInv => StampsDistinct
  BY DEF TwoInv
<1> QED BY <1>1, TwoInductive, PTL

\* Two writers never leave two live rows at one (volume, path), on a database
\* without rows of phase 1b: the lookup is inside the transaction that acts on
\* it.
THEOREM PathsStayUniqueHere ==
    ASSUME LegacyLocs = {}
    PROVE  TwoSpec => []OneLivePerPath
<1>1. TwoInv => OneLivePerPath
  BY DEF TwoInv, IInv, OneFreshPerPath, OneLivePerPath
<1> QED BY <1>1, TwoInductive, PTL

\* A location soft-deleted by one writer is not written again by the other,
\* whatever stamp the other's command carries.
THEOREM TombstonesStayFinalHere == TwoSpec => TombstonesFinalHere
<1> DEFINE A == \A i \in LocId : /\ locations[i] # NoLoc
                                 /\ locations[i].deleted_at # 0
                                 => locations'[i] = locations[i]
<1>1. TwoInv /\ [TwoNext]_twoVars => [A]_twoVars
  <2> SUFFICES ASSUME TwoInv, TwoNext PROVE A
    OBVIOUS
  <2>1. ASSUME NEW w \in Writers, Begin(w) PROVE A
    BY <2>1 DEF Begin
  <2>2. ASSUME NEW w \in Writers, Finish(w) PROVE A
    <3>1. LocStep(stamp[w])
      BY <2>2, FinishIsCommand
    <3> QED BY <3>1 DEF LocStep, Live
  <2> QED BY <2>1, <2>2 DEF TwoNext
<1> QED BY <1>1, TwoInductive, PTL DEF TwoSpec, TombstonesFinalHere
-----------------------------------------------------------------------------
(***************************************************************************)
(* The directory and its library.                                          *)
(***************************************************************************)
LibInv == IInv /\ LibTypeOK

\* What was ever written at a file's mtime is what it holds; ids are of one file.
DiskInv ==
    /\ \A p \in Path : On(p) =>
          /\ disk[p].mtime \in 1..Len(written) /\ written[disk[p].mtime] = disk[p].content
          /\ disk[p].id \in 1..Len(written)
    /\ \A p, q \in Path : On(p) /\ On(q) /\ disk[p].id = disk[q].id => p = q

\* The phases of the scan: what a later phase works on is empty before it.
PhaseInv ==
    /\ pc # "walk" => unseen = {}
    /\ pc = "idle" => found \cup misses \cup hashed \cup hits \cup fresh = {} /\ row = NoJob
    /\ row # NoJob => pc = "stat" /\ found \cup misses \cup hashed = {}

\* A digest the scan may give a file that stays as it is: its own, or the one
\* the cache has.
Tells(p, h) == h = DigestOf(disk[p].content) \/ \E r \in Cached(Key(p)) : r.quick = h

InTable(p) == \E i \in At(Mount, p) : Tells(p, locations[i].hash)

InHand(e) == row # NoJob /\ row.result = e

Result(e) == e \in hits \/ e \in fresh \/ InHand(e)

Pending(p) ==
    \/ p \in unseen
    \/ \E e \in found \cup misses \cup hashed : e.path = p

Quiet == scans > 0 /\ errored = 0 /\ ~cancelled /\ ~disturbed

\* What each phase has of a file is what the disk has, and no phase has a file
\* that an earlier one has.
FoundOk ==
    \A e \in found : On(e.path) /\ e.size = SizeOf(e.path) /\ e.path \notin unseen

MissesOk ==
    \A e \in misses :
        /\ On(e.path) /\ e.size = SizeOf(e.path) /\ e.key = Key(e.path) /\ e.path \notin unseen
        /\ \A d \in found : d.path # e.path

HashedOk ==
    \A e \in hashed :
        /\ On(e.path) /\ e.size = SizeOf(e.path) /\ e.key = Key(e.path) /\ e.path \notin unseen
        /\ \A d \in found \cup misses : d.path # e.path
        /\ e.hash = DigestOf(disk[e.path].content)

ResultsOk == \A e \in Results : Result(e) => On(e.path) /\ ~ Pending(e.path) /\ Tells(e.path, e.hash)

MigrateOk == row # NoJob /\ row.step = "migrate" => InTable(row.result.path)

\* A file that has left the last phase is in the table.
NoneLost ==
    \A p \in Path : On(p) =>
        Pending(p) \/ (\E e \in Results : Result(e) /\ e.path = p) \/ InTable(p)

\* While nothing interferes with the scan.
ScanInv == Quiet => FoundOk /\ MissesOk /\ HashedOk /\ ResultsOk /\ MigrateOk /\ NoneLost

\* Before the first promotion.
Unpromoted == verifies = 0 \/ (verifies = 1 /\ verify # NoJob)

AtLocation == row # NoJob /\ row.step = "location"

\* Until then a row of `files` has its first hash for its quick hash, and a
\* location its row's uuid.
Strong ==
    /\ \A u \in Uuid : Used(u) => files[u].quick \in {NoHash, files[u].hash}
    /\ \A i \in LocId : locations[i] # NoLoc => locations[i].uuid \in Uuid /\ Used(locations[i].uuid)
    /\ AtLocation => \E u \in Uuid : /\ Used(u) /\ files[u].hash = row.result.hash
                                     /\ files[u].quick = row.result.hash

Knows(u, h) == Used(u) /\ h \in {files[u].hash, files[u].quick}

Weak ==
    /\ \A i \in LocId : locations[i] # NoLoc =>
          \/ locations[i].uuid \in Uuid /\ Used(locations[i].uuid)
          \/ \E u \in Uuid : Knows(u, locations[i].hash)
    /\ AtLocation => \E u \in Uuid : Knows(u, row.result.hash)

KnownInv ==
    /\ verify # NoJob => verifies # 0
    /\ Unpromoted => Strong
    /\ verifies <= 1 => Weak
-----------------------------------------------------------------------------
(***************************************************************************)
(* Types.                                                                  *)
(***************************************************************************)
LEMMA ContentType ==
    ASSUME NEW c \in Content, NEW size
    PROVE  Bytes[c].size \in Size /\ Bytes[c].whole \in Hash /\ Quick(c, size) \in Hash
           /\ DigestOf(c) \in Hash
<1>1. Bytes[c] \in Digests
  BY LibraryAssumption
<1> QED BY <1>1 DEF Digests, Quick, DigestOf

LEMMA FileType ==
    ASSUME LibTypeOK, NEW p \in Path, On(p)
    PROVE  /\ disk[p] \in File /\ disk[p].content \in Content
           /\ SizeOf(p) \in Size /\ Key(p) \in Keys
<1>1. disk[p] \in File
  BY DEF LibTypeOK, On
<1>2. disk[p].content \in Content /\ disk[p].id \in Nat \ {0} /\ disk[p].mtime \in Nat \ {0}
  BY <1>1 DEF File
<1>3. SizeOf(p) \in Size
  BY <1>2, ContentType DEF SizeOf
<1> QED BY <1>1, <1>2, <1>3 DEF Key, Keys

\* A command of this process with the next stamp.
LEMMA CommandedStep ==
    ASSUME IInv, Commanded, FileStep(Stamp), LocStep(Stamp)
    PROVE  IInv'
<1>1. clock \in Nat /\ Stamp \in Nat /\ clock' = Stamp /\ clock <= clock'
  BY DEF IInv, TypeOK, Commanded, Stamp
<1> QED BY <1>1, StepKeepsIInv

LEMMA FailsStep ==
    ASSUME IInv, Fails
    PROVE  FileStep(Stamp) /\ LocStep(Stamp) /\ UNCHANGED <<files, locations>>
BY FilesKept, LocationsKept DEF Fails, storage_error

LEMMA TablesIdle ==
    ASSUME IInv, UNCHANGED vars
    PROVE  IInv'
BY NextIInv

LEMMA StampType ==
    ASSUME IInv
    PROVE  Stamp \in Nat /\ Stamp # 0
BY DEF IInv, TypeOK, Stamp

LEMMA PersistFileTables ==
    ASSUME LibInv, PersistFile
    PROVE  IInv'
<1>1. row \in Persisting /\ row.result \in Results
  BY DEF LibInv, LibTypeOK, PersistFile, Persisting
<1>2. row.result.hash \in Hash /\ row.result.size \in Size /\ Here \in Device
  BY <1>1, LibraryAssumption DEF Results
<1>3. CASE upsert_file(Stamp, row.result.hash, row.result.size, row.result.hash, Here)
  BY <1>2, <1>3, UpsertFileStep, StampType, CommandedStep DEF LibInv, PersistFile
<1>4. CASE Fails
  BY <1>4, FailsStep, CommandedStep DEF LibInv, PersistFile
<1> QED BY <1>3, <1>4 DEF PersistFile

LEMMA PersistLocationTables ==
    ASSUME LibInv, PersistLocation
    PROVE  IInv'
<1>1. row \in Persisting /\ row.result \in Results
  BY DEF LibInv, LibTypeOK, PersistLocation, Persisting
<1>2. row.result.hash \in Hash /\ row.result.path \in Path /\ Here \in Device /\ Mount \in Volume
  BY <1>1, LibraryAssumption DEF Results
<1>3. CASE upsert_location(Stamp, row.result.hash, Mount, row.result.path, Here)
  BY <1>2, <1>3, UpsertLocationStep, StampType, CommandedStep DEF LibInv, PersistLocation
<1>4. CASE Fails
  BY <1>4, FailsStep, CommandedStep DEF LibInv, PersistLocation
<1> QED BY <1>3, <1>4 DEF PersistLocation

LEMMA OnPersistTables ==
    ASSUME LibInv, OnPersist
    PROVE  IInv'
<1>1. row \in Persisting /\ row.result \in Results
  BY DEF LibInv, LibTypeOK, OnPersist, Persisting
<1>2. row.result.path \in Path /\ Here \in Device /\ Mount \in Volume
  BY <1>1, LibraryAssumption DEF Results
<1>3. CASE migrate_sentinel_row(Stamp, row.result.path, Mount, Here)
  BY <1>2, <1>3, MigrateStep, StampType, CommandedStep DEF LibInv, OnPersist
<1>4. CASE Fails
  BY <1>4, FailsStep, CommandedStep DEF LibInv, OnPersist
<1> QED BY <1>3, <1>4 DEF OnPersist

LEMMA PromoteTables ==
    ASSUME LibInv, Promote
    PROVE  IInv'
<1>1. verify.uuid \in Uuid /\ verify.hash \in Hash /\ Here \in Device
  BY LibraryAssumption DEF LibInv, LibTypeOK, Promote
<1>2. CASE promote_full_hash(Stamp, verify.uuid, verify.hash, Here)
  BY <1>1, <1>2, PromoteStep, StampType, CommandedStep DEF LibInv, Promote
<1>3. CASE Fails
  BY <1>3, FailsStep, CommandedStep DEF LibInv, Promote
<1> QED BY <1>2, <1>3 DEF Promote

LEMMA EventTables ==
    ASSUME LibInv, record_file_event
    PROVE  IInv'
<1> DEFINE e == Head(events)
<1>1. e \in Event /\ e.path \in Path /\ e.to \in Path /\ Here \in Device /\ Mount \in Volume
  <2>1. events \in Seq(Event) /\ events # <<>>
    BY DEF LibInv, LibTypeOK, record_file_event
  <2>2. e \in Event
    BY <2>1
  <2> QED BY <2>2, LibraryAssumption DEF Event
<1>2. "stale" \in Status /\ "missing" \in Status
  BY DEF Status
<1>3. Commanded /\ IInv
  BY DEF record_file_event, LibInv
<1> HIDE DEF e
<1>4. CASE update_location_status(Stamp, Mount, e.path, "stale", Here)
  BY <1>1, <1>2, <1>3, <1>4, StatusStep, StampType, CommandedStep
<1>5. CASE update_location_status(Stamp, Mount, e.path, "missing", Here)
  BY <1>1, <1>2, <1>3, <1>5, StatusStep, StampType, CommandedStep
<1>6. CASE update_location_path(Stamp, Mount, e.path, e.to, Here)
  BY <1>1, <1>3, <1>6, RenameStep, StampType, CommandedStep
<1>7. CASE Fails
  BY <1>3, <1>7, FailsStep, CommandedStep
<1> QED BY <1>4, <1>5, <1>6, <1>7 DEF record_file_event, e

\* Every action keeps the invariant of the tables.
LEMMA TablesStep ==
    ASSUME LibInv, [LibNext]_libVars
    PROVE  IInv'
<1>1. CASE Scan
  <2>1. UNCHANGED vars \/ PersistFile \/ PersistLocation \/ OnPersist
    BY <1>1 DEF Scan, BeginScan, Cancel, WalkEnds, EndScan, Walk, StatAndLookup, HashMiss,
                CacheFresh, TakeResult
  <2> QED BY <2>1, TablesIdle, PersistFileTables, PersistLocationTables, OnPersistTables DEF LibInv
<1>2. CASE Edit
  <2>1. UNCHANGED vars
    BY <1>2 DEF Edit, CreateFile, WriteFile, DeleteFile, RenameFile, Happened
  <2> QED BY <2>1, TablesIdle DEF LibInv
<1>3. CASE Verify
  <2>1. UNCHANGED vars \/ Promote
    BY <1>3 DEF Verify, ReadWhole, LookUpByUuid
  <2> QED BY <2>1, TablesIdle, PromoteTables DEF LibInv
<1>4. CASE UNCHANGED libVars
  <2>1. UNCHANGED vars
    BY <1>4 DEF libVars
  <2> QED BY <2>1, TablesIdle DEF LibInv
<1> QED BY <1>1, <1>2, <1>3, <1>4, EventTables DEF LibNext

DiskType == /\ disk \in [Path -> File \cup {NoEntry}]
            /\ written \in Seq(Content)
            /\ events \in Seq(Event)
            /\ edits \in Nat /\ disturbed \in BOOLEAN

ScanType == /\ cache \subseteq [key : Keys, quick : Hash]
            /\ pc \in {"idle", "walk", "stat"}
            /\ unseen \subseteq Path
            /\ found \subseteq [path : Path, size : Size]
            /\ misses \subseteq [path : Path, size : Size, key : Keys]
            /\ hashed \subseteq [path : Path, size : Size, key : Keys, hash : Hash]
            /\ hits \subseteq Results /\ fresh \subseteq Results
            /\ row \in Persisting \cup {NoJob}
            /\ errored \in Nat /\ scans \in Nat /\ cancelled \in BOOLEAN

VerifyType == /\ verify \in [uuid : Uuid, path : Path, hash : Hash \cup {NoHash}] \cup {NoJob}
              /\ verifies \in Nat

LEMMA LibTypes == LibTypeOK <=> TypeOK /\ DiskType /\ ScanType /\ VerifyType /\ errors \in Nat
BY DEF LibTypeOK, DiskType, ScanType, VerifyType

\* The directory's changes.
LEMMA EditTypes ==
    ASSUME LibTypeOK, Edit
    PROVE  /\ DiskType'
           /\ UNCHANGED <<cache, pc, scanVars, errored, scans, cancelled, verifyVars, errors>>
<1>1. DiskType
  BY LibTypes
<1>2. /\ UNCHANGED <<cache, pc, scanVars, errored, scans, cancelled, verifyVars, errors>>
      /\ disturbed' = TRUE /\ edits' = edits + 1
  BY DEF Edit, CreateFile, WriteFile, DeleteFile, RenameFile, Happened
<1>3. edits' \in Nat /\ disturbed' \in BOOLEAN
  BY <1>1, <1>2 DEF DiskType
<1>4. events' \in Seq(Event)
  <2>1. ASSUME NEW e \in Event, Happened(e)
        PROVE  events' \in Seq(Event)
    BY <1>1, <2>1 DEF Happened, DiskType
  <2>2. ASSUME NEW k \in {"Modified", "Deleted", "Renamed"}, NEW p \in Path, NEW q \in Path
        PROVE  [kind |-> k, path |-> p, to |-> q] \in Event
    BY DEF Event
  <2> QED BY <1>1, <2>1, <2>2 DEF Edit, CreateFile, WriteFile, DeleteFile, RenameFile, DiskType
<1>5. ASSUME NEW c \in Content
      PROVE  /\ Append(written, c) \in Seq(Content)
             /\ Len(written) + 1 \in Nat \ {0}
  BY <1>1 DEF DiskType
<1>6. ASSUME NEW p \in Path, NEW c \in Content, CreateFile(p, c) \/ WriteFile(p, c)
      PROVE  DiskType'
  <2>1. written' \in Seq(Content)
    BY <1>5, <1>6 DEF CreateFile, WriteFile
  <2> DEFINE n == Len(written) + 1
  <2>2. n \in Nat \ {0}
    BY <1>5
  <2>3. [id |-> n, content |-> c, mtime |-> n] \in File
    BY <2>2 DEF File
  <2>4. On(p) => [disk[p] EXCEPT !.content = c, !.mtime = n] \in File
    <3>1. ASSUME NEW f \in File
          PROVE  [f EXCEPT !.content = c, !.mtime = n] \in File
      BY <2>2 DEF File
    <3> QED BY <1>1, <3>1 DEF On, DiskType
  <2>5. disk' \in [Path -> File \cup {NoEntry}]
    BY <1>1, <1>6, <2>3, <2>4 DEF CreateFile, WriteFile, DiskType
  <2> QED BY <1>3, <1>4, <2>1, <2>5 DEF DiskType
<1>7. ASSUME NEW p \in Path, NEW q \in Path, DeleteFile(p) \/ RenameFile(p, q)
      PROVE  DiskType'
  <2>1. written' \in Seq(Content)
    BY <1>1, <1>7 DEF DeleteFile, RenameFile, DiskType
  <2>2. disk' \in [Path -> File \cup {NoEntry}]
    BY <1>1, <1>7 DEF DeleteFile, RenameFile, DiskType
  <2> QED BY <1>3, <1>4, <2>1, <2>2 DEF DiskType
<1> QED BY <1>2, <1>6, <1>7 DEF Edit

\* What a phase of the scan adds to the next.
LEMMA ScanTypes ==
    ASSUME LibTypeOK, Scan
    PROVE  ScanType' /\ errors' \in Nat /\ UNCHANGED <<diskVars, events, verifyVars>>
           /\ disturbed' \in BOOLEAN
<1>1. ScanType /\ DiskType /\ errors \in Nat
  BY LibTypes
<1>2. UNCHANGED <<diskVars, events, verifyVars>> /\ disturbed' \in BOOLEAN /\ errors' \in Nat
  <2>1. UNCHANGED <<diskVars, events, verifyVars>> /\ (disturbed' = disturbed \/ disturbed' = FALSE)
    BY DEF Scan, BeginScan, Cancel, WalkEnds, EndScan, Walk, StatAndLookup, HashMiss, CacheFresh,
           TakeResult, PersistFile, PersistLocation, OnPersist, ScanKeeps, PersistKeeps
  <2>2. errors' = errors \/ errors' = errors + 1
    BY DEF Scan, BeginScan, Cancel, WalkEnds, EndScan, Walk, StatAndLookup, HashMiss, CacheFresh,
           TakeResult, PersistFile, PersistLocation, OnPersist, Fails
  <2>3. disturbed' \in BOOLEAN
    BY <1>1, <2>1 DEF DiskType
  <2>4. errors' \in Nat
    BY <1>1, <2>2
  <2> QED BY <2>1, <2>3, <2>4
<1>3. ASSUME BeginScan \/ Cancel \/ WalkEnds \/ EndScan PROVE ScanType'
  <2>1. CASE BeginScan
    <3>1. unseen' \subseteq Path /\ errored' \in Nat /\ scans' \in Nat
      BY <1>1, <2>1 DEF BeginScan, ScanType
    <3>2. cancelled' \in BOOLEAN /\ pc' \in {"idle", "walk", "stat"}
      BY <2>1 DEF BeginScan
    <3>3. UNCHANGED <<cache, found, misses, hashed, hits, fresh, row>>
      BY <2>1 DEF BeginScan
    <3> QED BY <1>1, <3>1, <3>2, <3>3 DEF ScanType
  <2>2. CASE Cancel
    BY <1>1, <2>2 DEF Cancel, ScanType, scanVars
  <2>3. CASE WalkEnds
    BY <1>1, <2>3 DEF WalkEnds, ScanType
  <2>4. CASE EndScan
    BY <1>1, <2>4 DEF EndScan, ScanType, scanVars
  <2> QED BY <1>3, <2>1, <2>2, <2>3, <2>4
<1>4. ASSUME NEW p \in Path, Walk(p)
      PROVE  ScanType'
  <2>1. On(p) => [path |-> p, size |-> SizeOf(p)] \in [path : Path, size : Size]
    BY FileType
  <2>2. found' \subseteq [path : Path, size : Size]
    BY <1>1, <1>4, <2>1 DEF Walk, ScanType
  <2> QED BY <1>1, <1>4, <2>2 DEF Walk, ScanType
<1>5. ASSUME NEW d \in found, StatAndLookup(d)
      PROVE  ScanType'
  <2>1. d.path \in Path /\ d.size \in Size
    BY <1>1 DEF ScanType
  <2>2. On(d.path) => [path |-> d.path, size |-> d.size, key |-> Key(d.path)]
                        \in [path : Path, size : Size, key : Keys]
    BY <2>1, FileType
  <2>3. \A r \in cache : [path |-> d.path, size |-> d.size, hash |-> r.quick] \in Results
    BY <1>1, <2>1 DEF ScanType, Results
  <2>4. hits' \subseteq Results /\ misses' \subseteq [path : Path, size : Size, key : Keys]
        /\ errored' \in Nat
    BY <1>1, <1>5, <2>2, <2>3 DEF StatAndLookup, ScanType, Cached
  <2>5. found' \subseteq [path : Path, size : Size]
        /\ UNCHANGED <<cache, pc, unseen, hashed, fresh, row, cancelled, scans>>
    BY <1>1, <1>5 DEF StatAndLookup, ScanType
  <2> QED BY <1>1, <2>4, <2>5 DEF ScanType
<1>6. ASSUME NEW m \in misses, HashMiss(m)
      PROVE  ScanType'
  <2>1. m.path \in Path /\ m.size \in Size /\ m.key \in Keys
    BY <1>1 DEF ScanType
  <2> DEFINE q == Quick(disk[m.path].content, m.size)
  <2>2. On(m.path) => q \in Hash
    BY <2>1, FileType, ContentType
  <2>3. On(m.path) => [path |-> m.path, size |-> m.size, key |-> m.key, hash |-> q]
                        \in [path : Path, size : Size, key : Keys, hash : Hash]
    BY <2>1, <2>2
  <2>4. hashed' \subseteq [path : Path, size : Size, key : Keys, hash : Hash] /\ errored' \in Nat
    BY <1>1, <1>6, <2>3 DEF HashMiss, ScanType, Readable
  <2>5. misses' \subseteq [path : Path, size : Size, key : Keys]
        /\ UNCHANGED <<cache, pc, unseen, found, hits, fresh, row, cancelled, scans>>
    BY <1>1, <1>6 DEF HashMiss, ScanType
  <2> QED BY <1>1, <2>4, <2>5 DEF ScanType
<1>7. ASSUME NEW m \in hashed, CacheFresh(m)
      PROVE  ScanType'
  <2>1. m.path \in Path /\ m.size \in Size /\ m.key \in Keys /\ m.hash \in Hash
    BY <1>1 DEF ScanType
  <2>2. /\ [path |-> m.path, size |-> m.size, hash |-> m.hash] \in Results
        /\ [key |-> m.key, quick |-> m.hash] \in [key : Keys, quick : Hash]
    BY <2>1 DEF Results
  <2>3. fresh' \subseteq Results /\ cache' \subseteq [key : Keys, quick : Hash]
    BY <1>1, <1>7, <2>2 DEF CacheFresh, ScanType
  <2>4. hashed' \subseteq [path : Path, size : Size, key : Keys, hash : Hash]
        /\ UNCHANGED <<pc, unseen, found, misses, hits, row, errored, cancelled, scans>>
    BY <1>1, <1>7 DEF CacheFresh, ScanType
  <2> QED BY <1>1, <2>3, <2>4 DEF ScanType
<1>8. ASSUME NEW r \in Results, NEW s \in {"file", "location", "migrate"}
      PROVE  [result |-> r, step |-> s] \in Persisting
  BY DEF Persisting
<1>9. ASSUME NEW e \in hits \cup fresh, TakeResult(e)
      PROVE  ScanType'
  <2>1. row' \in Persisting /\ hits' \subseteq Results /\ fresh' \subseteq Results
    BY <1>1, <1>8, <1>9 DEF TakeResult, ScanType
  <2> QED BY <1>1, <1>9, <2>1 DEF TakeResult, ScanType
<1>10. ASSUME PersistFile \/ PersistLocation \/ OnPersist PROVE ScanType'
  <2>1. row \in Persisting /\ errored \in Nat
    BY <1>1, <1>10 DEF PersistFile, PersistLocation, OnPersist, ScanType
  <2>2. ASSUME NEW s \in {"file", "location", "migrate"}
        PROVE  [row EXCEPT !.step = s] \in Persisting
    BY <2>1 DEF Persisting
  <2>3. /\ \/ row' = NoJob
           \/ \E s \in {"file", "location", "migrate"} : row' = [row EXCEPT !.step = s]
        /\ errored' = errored \/ errored' = errored + 1
    BY <1>10 DEF PersistFile, PersistLocation, OnPersist
  <2>4. row' \in Persisting \cup {NoJob} /\ errored' \in Nat
    BY <2>1, <2>2, <2>3
  <2> QED BY <1>1, <1>10, <2>4 DEF PersistFile, PersistLocation, OnPersist, PersistKeeps, ScanType
<1> QED BY <1>2, <1>3, <1>4, <1>5, <1>6, <1>7, <1>9, <1>10 DEF Scan

LEMMA VerifyTypes ==
    ASSUME LibTypeOK, Verify
    PROVE  /\ VerifyType' /\ errors' \in Nat
           /\ UNCHANGED <<diskVars, events, disturbed, cache, pc, scanVars, errored, scans, cancelled>>
<1>1. VerifyType /\ errors \in Nat
  BY LibTypes
<1> DEFINE V == [uuid : Uuid, path : Path, hash : Hash \cup {NoHash}]
<1>2. ASSUME NEW u \in Uuid, LookUpByUuid(u)
      PROVE  VerifyType'
  <2>1. PICK i \in LocId : /\ Live(i)
                          /\ verify' = [uuid |-> u, path |-> locations[i].path, hash |-> NoHash]
    BY <1>2 DEF LookUpByUuid
  <2>2. locations[i].path \in Path
    <3>1. locations[i] \in LocRow
      BY <2>1, LocationRow DEF Live, LibTypeOK
    <3> QED BY <3>1 DEF LocRow
  <2> QED BY <1>1, <1>2, <2>1, <2>2 DEF LookUpByUuid, VerifyType
<1>3. ASSUME ReadWhole PROVE VerifyType'
  <2>1. verify \in V
    BY <1>1, <1>3 DEF ReadWhole, VerifyType
  <2>2. verify' \in V \cup {NoJob}
    <3>1. CASE ~ On(verify.path)
      BY <1>3, <3>1 DEF ReadWhole
    <3>2. CASE On(verify.path)
      <4> DEFINE h == Bytes[disk[verify.path].content].whole
      <4>1. h \in Hash
        BY <2>1, <3>2, FileType, ContentType
      <4>2. verify' = [verify EXCEPT !.hash = h]
        BY <1>3, <3>2 DEF ReadWhole
      <4> HIDE DEF h
      <4> QED BY <2>1, <4>1, <4>2
    <3> QED BY <3>1, <3>2
  <2> QED BY <1>1, <1>3, <2>2 DEF ReadWhole, VerifyType
<1>4. ASSUME Promote PROVE VerifyType'
  BY <1>1, <1>4 DEF Promote, VerifyType
<1>5. errors' \in Nat
  BY <1>1 DEF Verify, ReadWhole, LookUpByUuid, Promote, Fails
<1>6. UNCHANGED <<diskVars, events, disturbed, cache, pc, scanVars, errored, scans, cancelled>>
  BY DEF Verify, ReadWhole, LookUpByUuid, Promote, VerifyKeeps
<1> QED BY <1>2, <1>3, <1>4, <1>5, <1>6 DEF Verify

LEMMA EventTypes ==
    ASSUME LibTypeOK, record_file_event
    PROVE  /\ DiskType' /\ errors' \in Nat
           /\ UNCHANGED <<diskVars, cache, pc, scanVars, errored, scans, cancelled, verifyVars>>
<1>1. DiskType /\ errors \in Nat
  BY LibTypes
<1>2. events \in Seq(Event) /\ events # <<>> /\ events' = Tail(events)
  BY <1>1 DEF record_file_event, DiskType
<1>3. events' \in Seq(Event)
  BY <1>2
<1>4. errors' \in Nat
  BY <1>1 DEF record_file_event, Fails
<1>5. UNCHANGED <<diskVars, cache, pc, scanVars, errored, scans, cancelled, verifyVars>>
      /\ disturbed' = TRUE
  BY DEF record_file_event
<1> QED BY <1>1, <1>3, <1>4, <1>5 DEF DiskType, diskVars

LEMMA TypesStep ==
    ASSUME LibInv, [LibNext]_libVars
    PROVE  LibInv'
<1>1. TypeOK' /\ IInv'
  BY TablesStep DEF IInv
<1>2. DiskType /\ ScanType /\ VerifyType /\ errors \in Nat /\ LibTypeOK
  BY LibTypes DEF LibInv
<1>3. ASSUME UNCHANGED <<diskVars, events, disturbed>> PROVE DiskType'
  BY <1>2, <1>3 DEF DiskType, diskVars
<1>4. ASSUME UNCHANGED <<cache, pc, scanVars, errored, scans, cancelled>> PROVE ScanType'
  BY <1>2, <1>4 DEF ScanType, scanVars
<1>5. ASSUME UNCHANGED verifyVars PROVE VerifyType'
  BY <1>2, <1>5 DEF VerifyType, verifyVars
<1>6. CASE Scan
  <2>1. ScanType' /\ errors' \in Nat /\ VerifyType'
    BY <1>2, <1>5, <1>6, ScanTypes
  <2>2. DiskType'
    BY <1>2, <1>6, ScanTypes DEF DiskType, diskVars
  <2> QED BY <1>1, <2>1, <2>2, LibTypes DEF LibInv, LibTypeOK, DiskType, ScanType, VerifyType
<1>7. CASE Edit
  <2>1. DiskType' /\ ScanType' /\ VerifyType' /\ errors' \in Nat
    BY <1>2, <1>4, <1>5, <1>7, EditTypes
  <2> QED BY <1>1, <2>1 DEF LibInv, LibTypeOK, DiskType, ScanType, VerifyType
<1>8. CASE record_file_event
  <2>1. DiskType' /\ ScanType' /\ VerifyType' /\ errors' \in Nat
    BY <1>2, <1>4, <1>5, <1>8, EventTypes
  <2> QED BY <1>1, <2>1 DEF LibInv, LibTypeOK, DiskType, ScanType, VerifyType
<1>9. CASE Verify
  <2>1. DiskType' /\ ScanType' /\ VerifyType' /\ errors' \in Nat
    BY <1>2, <1>3, <1>4, <1>9, VerifyTypes
  <2> QED BY <1>1, <2>1 DEF LibInv, LibTypeOK, DiskType, ScanType, VerifyType
<1>10. CASE UNCHANGED libVars
  <2>1. UNCHANGED <<diskVars, events, disturbed>> /\ UNCHANGED verifyVars /\ errors' = errors
        /\ UNCHANGED <<cache, pc, scanVars, errored, scans, cancelled>>
    BY <1>10 DEF libVars
  <2>2. DiskType' /\ ScanType' /\ VerifyType' /\ errors' \in Nat
    BY <1>2, <1>3, <1>4, <1>5, <2>1
  <2> QED BY <1>1, <2>2 DEF LibInv, LibTypeOK, DiskType, ScanType, VerifyType
<1> QED BY <1>6, <1>7, <1>8, <1>9, <1>10 DEF LibNext

LEMMA InitialTypes == LibInit => LibInv
<1> SUFFICES ASSUME LibInit PROVE LibInv
  OBVIOUS
<1>1. IInv
  BY InitIInv DEF LibInit
<1>2. DiskType /\ errors \in Nat
  <2>1. disk \in [Path -> File \cup {NoEntry}] /\ edits = 0 /\ errors = 0
    BY DEF LibInit
  <2>2. written = <<>> /\ events = <<>>
    BY DEF LibInit
  <2>3. disturbed \in BOOLEAN
    BY DEF LibInit
  <2>4. written \in Seq(Content) /\ events \in Seq(Event)
    BY <2>2
  <2> QED BY <2>1, <2>3, <2>4 DEF DiskType
<1>3. ScanType
  BY DEF LibInit, ScanType
<1>4. VerifyType
  BY DEF LibInit, VerifyType
<1> QED BY <1>1, <1>2, <1>3, <1>4, LibTypes DEF LibInv, IInv
-----------------------------------------------------------------------------
(***************************************************************************)
(* The directory, and the phases of the scan.                              *)
(***************************************************************************)
\* Each write has a number of its own, and a file the numbers of two writes.
LEMMA EditDisk ==
    ASSUME LibTypeOK, DiskInv, Edit
    PROVE  DiskInv'
<1> DEFINE n == Len(written)
<1>1. written \in Seq(Content) /\ n \in Nat /\ disk \in [Path -> File \cup {NoEntry}]
  BY DEF LibTypeOK
\* Some files stay, and one is new or has new contents.
<1>2. ASSUME NEW p \in Path, NEW c \in Content, CreateFile(p, c) \/ WriteFile(p, c)
      PROVE  DiskInv'
  <2>1. /\ written' = Append(written, c)
        /\ \A q \in Path : q # p => disk'[q] = disk[q]
        /\ disk'[p].content = c /\ disk'[p].mtime = n + 1
        /\ (On(p) /\ disk'[p].id = disk[p].id) \/ disk'[p].id = n + 1
    <3>1. CASE CreateFile(p, c)
      BY <1>1, <3>1 DEF CreateFile
    <3>2. CASE WriteFile(p, c)
      <4>1. disk[p] \in File /\ On(p)
        BY <1>1, <3>2 DEF WriteFile, On
      <4>2. [disk[p] EXCEPT !.content = c, !.mtime = n + 1].id = disk[p].id
            /\ [disk[p] EXCEPT !.content = c, !.mtime = n + 1].content = c
            /\ [disk[p] EXCEPT !.content = c, !.mtime = n + 1].mtime = n + 1
        BY <4>1 DEF File
      <4>3. disk' = [disk EXCEPT ![p] = [disk[p] EXCEPT !.content = c, !.mtime = n + 1]]
            /\ written' = Append(written, c)
        BY <3>2 DEF WriteFile
      <4> QED BY <1>1, <4>1, <4>2, <4>3
    <3> QED BY <1>2, <3>1, <3>2
  <2>2. Len(written') = n + 1 /\ written'[n + 1] = c /\ \A i \in 1..n : written'[i] = written[i]
    BY <1>1, <2>1
  <2>3. ASSUME NEW q \in Path, On(q)'
        PROVE  /\ disk'[q].mtime \in 1..Len(written') /\ written'[disk'[q].mtime] = disk'[q].content
               /\ disk'[q].id \in 1..Len(written')
    <3>1. CASE q = p
      BY <1>1, <2>1, <2>2, <3>1 DEF DiskInv
    <3>2. CASE q # p
      <4>1. On(q) /\ disk'[q] = disk[q]
        BY <2>1, <2>3, <3>2 DEF On
      <4>2. /\ disk[q].mtime \in 1..n /\ written[disk[q].mtime] = disk[q].content
            /\ disk[q].id \in 1..n
        BY <4>1 DEF DiskInv
      <4> QED BY <1>1, <2>2, <4>1, <4>2
    <3> QED BY <3>1, <3>2
  <2>4. ASSUME NEW q \in Path, NEW r \in Path, On(q)', On(r)', disk'[q].id = disk'[r].id
        PROVE  q = r
    <3>1. \A x \in Path : x # p /\ On(x)' => On(x) /\ disk'[x] = disk[x] /\ disk[x].id \in 1..n
      BY <2>1 DEF On, DiskInv
    <3> QED BY <1>1, <2>1, <2>4, <3>1 DEF DiskInv
  <2> QED BY <2>3, <2>4 DEF DiskInv
<1>3. ASSUME NEW p \in Path, DeleteFile(p)
      PROVE  DiskInv'
  <2>1. \A x \in Path : disk'[x] = IF x = p THEN NoEntry ELSE disk[x]
    BY <1>1, <1>3 DEF DeleteFile
  <2>2. written' = written
    BY <1>3 DEF DeleteFile
  <2> QED BY <2>1, <2>2 DEF DiskInv, On
<1>4. ASSUME NEW p \in Path, NEW q \in Path, RenameFile(p, q)
      PROVE  DiskInv'
  <2>1. \A x \in Path : disk'[x] = IF x = p THEN NoEntry ELSE IF x = q THEN disk[p] ELSE disk[x]
    BY <1>1, <1>4 DEF RenameFile
  <2>2. written' = written /\ On(p) /\ p # q
    BY <1>4 DEF RenameFile
  <2> QED BY <2>1, <2>2 DEF DiskInv, On
<1> QED BY <1>2, <1>3, <1>4 DEF Edit

LEMMA DiskStep ==
    ASSUME LibInv, DiskInv, [LibNext]_libVars
    PROVE  DiskInv'
<1>1. CASE UNCHANGED diskVars
  BY <1>1 DEF diskVars, DiskInv, On
<1>2. CASE Edit
  BY <1>2, EditDisk DEF LibInv
<1>3. ASSUME Scan \/ record_file_event \/ Verify \/ UNCHANGED libVars PROVE UNCHANGED diskVars
  BY <1>3, ScanTypes, VerifyTypes, EventTypes DEF LibInv, libVars
<1> QED BY <1>1, <1>2, <1>3 DEF LibNext

LEMMA PhaseStep ==
    ASSUME LibInv, PhaseInv, [LibNext]_libVars
    PROVE  PhaseInv'
<1>1. ASSUME UNCHANGED <<pc, scanVars>> PROVE PhaseInv'
  BY <1>1 DEF PhaseInv, scanVars
<1>2. CASE Scan
  <2>1. CASE BeginScan
    BY <2>1 DEF BeginScan, PhaseInv
  <2>2. CASE Cancel
    BY <1>1, <2>2 DEF Cancel
  <2>3. CASE WalkEnds
    BY <2>3 DEF WalkEnds, PhaseInv
  <2>4. CASE EndScan
    BY <2>4 DEF EndScan, PhaseInv, scanVars
  <2>5. ASSUME NEW p \in Path, Walk(p) PROVE PhaseInv'
    BY <2>5 DEF Walk, PhaseInv
  <2>6. ASSUME NEW d \in found, StatAndLookup(d) PROVE PhaseInv'
    BY <2>6 DEF StatAndLookup, PhaseInv
  <2>7. ASSUME NEW m \in misses, HashMiss(m) PROVE PhaseInv'
    BY <2>7 DEF HashMiss, PhaseInv
  <2>8. ASSUME NEW m \in hashed, CacheFresh(m) PROVE PhaseInv'
    BY <2>8 DEF CacheFresh, PhaseInv
  <2>9. ASSUME NEW e \in hits \cup fresh, TakeResult(e) PROVE PhaseInv'
    BY <2>9 DEF TakeResult, PhaseInv
  <2>10. CASE PersistFile \/ PersistLocation \/ OnPersist
    BY <2>10 DEF PersistFile, PersistLocation, OnPersist, PersistKeeps, PhaseInv
  <2> QED BY <1>2, <2>1, <2>2, <2>3, <2>4, <2>5, <2>6, <2>7, <2>8, <2>9, <2>10 DEF Scan
<1>3. ASSUME Edit \/ record_file_event \/ Verify \/ UNCHANGED libVars PROVE UNCHANGED <<pc, scanVars>>
  BY <1>3, EditTypes, VerifyTypes, EventTypes DEF LibInv, libVars
<1> QED BY <1>1, <1>2, <1>3 DEF LibNext
-----------------------------------------------------------------------------
(***************************************************************************)
(* The scan, while nothing interferes.                                     *)
(***************************************************************************)
\* With the directory as it was, so is what the scan reads of it.
LEMMA DiskFrame ==
    ASSUME UNCHANGED disk
    PROVE  /\ \A p : (On(p)' <=> On(p)) /\ SizeOf(p)' = SizeOf(p) /\ Key(p)' = Key(p)
           /\ \A p : DigestOf(disk[p].content)' = DigestOf(disk[p].content)
BY DEF On, SizeOf, Key, DigestOf, Quick

LEMMA CacheFrame ==
    ASSUME UNCHANGED <<disk, cache>>
    PROVE  \A p, h : Tells(p, h)' <=> Tells(p, h)
BY DiskFrame DEF Tells, Cached

LEMMA TableFrame ==
    ASSUME UNCHANGED <<disk, cache, locations>>
    PROVE  \A p : InTable(p)' <=> InTable(p)
BY CacheFrame DEF InTable, At, Live

LEMMA ScanFrame ==
    ASSUME ScanInv, UNCHANGED <<disk, cache, locations, scanVars>>, Quiet' => Quiet
    PROVE  ScanInv'
<1> SUFFICES ASSUME Quiet' PROVE ScanInv'
  BY DEF ScanInv
<1>1. FoundOk /\ MissesOk /\ HashedOk /\ ResultsOk /\ MigrateOk /\ NoneLost
  BY DEF ScanInv
<1>2. UNCHANGED <<unseen, found, misses, hashed, hits, fresh, row>>
  BY DEF scanVars
<1>3. (\A p : Pending(p)' <=> Pending(p)) /\ (\A e : Result(e)' <=> Result(e))
  BY <1>2 DEF Pending, Result, InHand
<1>4. FoundOk' /\ MissesOk' /\ HashedOk'
  BY <1>1, <1>2, DiskFrame DEF FoundOk, MissesOk, HashedOk
<1>5. ResultsOk'
  BY <1>1, <1>3, DiskFrame, CacheFrame DEF ResultsOk
<1>6. MigrateOk'
  BY <1>1, <1>2, TableFrame DEF MigrateOk
<1>7. NoneLost'
  BY <1>1, <1>3, DiskFrame, TableFrame DEF NoneLost
<1> QED BY <1>4, <1>5, <1>6, <1>7 DEF ScanInv

\* A step that the scan survives undisturbed was undisturbed before.
LEMMA QuietBefore ==
    ASSUME LibTypeOK, Scan, ~ BeginScan, Quiet'
    PROVE  Quiet /\ errored' = errored /\ ~ cancelled
<1>1. errored \in Nat
  BY DEF LibTypeOK
<1>2. scans' = scans /\ disturbed' = disturbed
  BY DEF Scan, Cancel, WalkEnds, EndScan, Walk, StatAndLookup, HashMiss, CacheFresh,
         TakeResult, PersistFile, PersistLocation, OnPersist, ScanKeeps, PersistKeeps
<1>3. errored' = errored \/ errored' = errored + 1
  BY DEF Scan, Cancel, WalkEnds, EndScan, Walk, StatAndLookup, HashMiss, CacheFresh,
         TakeResult, PersistFile, PersistLocation, OnPersist, ScanKeeps, PersistKeeps
<1>4. cancelled' = cancelled \/ cancelled' = TRUE
  BY DEF Scan, Cancel, WalkEnds, EndScan, Walk, StatAndLookup, HashMiss, CacheFresh,
         TakeResult, PersistFile, PersistLocation, OnPersist, ScanKeeps, PersistKeeps
<1>5. ~ cancelled
  BY <1>4 DEF Quiet
<1>6. errored' = 0 /\ errored = 0
  BY <1>1, <1>3 DEF Quiet
<1> QED BY <1>2, <1>5, <1>6 DEF Quiet

ScanParts == FoundOk /\ MissesOk /\ HashedOk /\ ResultsOk /\ MigrateOk /\ NoneLost

LEMMA WalkScan ==
    ASSUME LibTypeOK, ScanParts, NEW p \in Path, Walk(p)
    PROVE  ScanParts'
<1>1. /\ p \in unseen /\ unseen' = unseen \ {p}
      /\ found' = IF On(p) THEN found \cup {[path |-> p, size |-> SizeOf(p)]} ELSE found
      /\ UNCHANGED <<disk, cache, locations, misses, hashed, hits, fresh, row>>
  BY DEF Walk, ScanKeeps, vars, diskVars
<1>2. \A d \in found' : d \in found \/ (On(p) /\ d.path = p /\ d.size = SizeOf(p))
  BY <1>1
<1>3. \A q : Pending(q)' => Pending(q)
  BY <1>1, <1>2 DEF Pending
<1>4. ASSUME NEW q, Pending(q), q # p \/ On(p)
      PROVE  Pending(q)'
  <2>1. CASE q # p
    BY <1>1, <1>4, <2>1 DEF Pending
  <2>2. CASE On(p) /\ q = p
    <3>1. [path |-> p, size |-> SizeOf(p)] \in found' /\ [path |-> p, size |-> SizeOf(p)].path = p
      BY <1>1, <2>2
    <3> QED BY <2>2, <3>1, Zenon DEF Pending
  <2> QED BY <1>4, <2>1, <2>2
<1>5. \A e : Result(e)' <=> Result(e)
  BY <1>1 DEF Result, InHand
<1>6. FoundOk'
  BY <1>1, <1>2, DiskFrame DEF ScanParts, FoundOk
<1>7. MissesOk' /\ HashedOk'
  <2>1. \A d \in found' : d \in found \/ d.path \in unseen
    BY <1>1, <1>2
  <2>2. MissesOk'
    BY <1>1, <2>1, DiskFrame DEF ScanParts, MissesOk
  <2>3. HashedOk'
    BY <1>1, <2>1, DiskFrame DEF ScanParts, HashedOk
  <2> QED BY <2>2, <2>3
<1>8. ResultsOk'
  BY <1>1, <1>3, <1>5, DiskFrame, CacheFrame DEF ScanParts, ResultsOk
<1>9. MigrateOk'
  BY <1>1, TableFrame DEF ScanParts, MigrateOk
<1>10. NoneLost'
  BY <1>1, <1>4, <1>5, DiskFrame, TableFrame DEF ScanParts, NoneLost
<1> QED BY <1>6, <1>7, <1>8, <1>9, <1>10 DEF ScanParts

LEMMA StatScan ==
    ASSUME LibTypeOK, ScanParts, NEW d \in found, StatAndLookup(d), errored' = errored
    PROVE  ScanParts'
<1>1. /\ found' = found \ {d} /\ errored \in Nat
      /\ UNCHANGED <<disk, cache, locations, unseen, hashed, fresh, row>>
  BY DEF StatAndLookup, ScanKeeps, vars, diskVars, LibTypeOK
<1>2. d \in [path : Path, size : Size] /\ On(d.path) /\ d.size = SizeOf(d.path)
      /\ d.path \notin unseen
  BY DEF ScanParts, FoundOk, LibTypeOK
<1>3. \A e \in found' : e \in found /\ e.path # d.path
  <2>1. ASSUME NEW e \in found', e.path = d.path PROVE FALSE
    <3>1. e \in [path : Path, size : Size] /\ e.size = d.size
      BY <1>1, <1>2, <2>1 DEF ScanParts, FoundOk, LibTypeOK
    <3>2. e = d
      BY <1>2, <2>1, <3>1
    <3> QED BY <1>1, <2>1, <3>2
  <2> QED BY <1>1, <2>1
<1>4. FoundOk'
  BY <1>1, DiskFrame DEF ScanParts, FoundOk
<1>5. MigrateOk'
  BY <1>1, TableFrame DEF ScanParts, MigrateOk
<1>6. ASSUME NEW r \in Cached(Key(d.path)),
             hits' = hits \cup {[path |-> d.path, size |-> d.size, hash |-> r.quick]},
             UNCHANGED misses
      PROVE  ScanParts'
  <2> DEFINE x == [path |-> d.path, size |-> d.size, hash |-> r.quick]
  <2>1. x \in Results /\ x.path = d.path /\ Tells(x.path, x.hash)
    <3>1. r.quick \in Hash
      BY <1>6 DEF Cached, LibTypeOK
    <3> QED BY <1>2, <1>6, <3>1 DEF Results, Tells
  <2> HIDE DEF x
  <2>2. \A e : Result(e)' <=> Result(e) \/ e = x
    BY <1>1, <1>6 DEF Result, InHand, x
  <2>3. \A q : Pending(q)' => Pending(q) /\ q # d.path
    BY <1>1, <1>2, <1>3, <1>6 DEF Pending, ScanParts, MissesOk, HashedOk
  <2>4. \A q : Pending(q) => q = d.path \/ Pending(q)'
    BY <1>1, <1>6 DEF Pending
  <2>5. MissesOk' /\ HashedOk'
    BY <1>1, <1>6, DiskFrame DEF ScanParts, MissesOk, HashedOk
  <2>6. ResultsOk'
    BY <1>1, <1>2, <2>1, <2>2, <2>3, DiskFrame, CacheFrame DEF ScanParts, ResultsOk
  <2>7. NoneLost'
    BY <1>1, <2>1, <2>2, <2>4, DiskFrame, TableFrame DEF ScanParts, NoneLost
  <2> QED BY <1>4, <1>5, <2>5, <2>6, <2>7 DEF ScanParts
<1>7. ASSUME misses' = misses \cup {[path |-> d.path, size |-> d.size, key |-> Key(d.path)]},
             UNCHANGED hits
      PROVE  ScanParts'
  <2> DEFINE x == [path |-> d.path, size |-> d.size, key |-> Key(d.path)]
  <2>1. x.path = d.path /\ x.size = d.size /\ x.key = Key(d.path)
    OBVIOUS
  <2> HIDE DEF x
  <2>2. \A e : Result(e)' <=> Result(e)
    BY <1>1, <1>7 DEF Result, InHand
  <2>3. \A q : Pending(q)' <=> Pending(q)
    BY <1>1, <1>7, <2>1 DEF Pending, x
  <2>4. MissesOk'
    BY <1>1, <1>2, <1>3, <1>7, <2>1, DiskFrame DEF ScanParts, MissesOk, x
  <2>5. HashedOk'
    BY <1>1, <1>7, <2>1, DiskFrame DEF ScanParts, HashedOk, x
  <2>6. ResultsOk'
    BY <1>1, <2>2, <2>3, DiskFrame, CacheFrame DEF ScanParts, ResultsOk
  <2>7. NoneLost'
    BY <1>1, <2>2, <2>3, DiskFrame, TableFrame DEF ScanParts, NoneLost
  <2> QED BY <1>4, <1>5, <2>4, <2>5, <2>6, <2>7 DEF ScanParts
<1>8. errored + 1 # errored
  BY <1>1
<1> QED BY <1>6, <1>7, <1>8 DEF StatAndLookup

LEMMA HashScan ==
    ASSUME LibTypeOK, ScanParts, NEW m \in misses, HashMiss(m), errored' = errored
    PROVE  ScanParts'
<1> DEFINE x == [path |-> m.path, size |-> m.size, key |-> m.key,
                 hash |-> Quick(disk[m.path].content, m.size)]
<1>1. /\ misses' = misses \ {m} /\ found = {} /\ hashed' = hashed \cup {x}
      /\ UNCHANGED <<disk, cache, locations, unseen, found, hits, fresh, row>>
  <2>1. errored \in Nat
    BY DEF LibTypeOK
  <2> QED BY <2>1 DEF HashMiss, ScanKeeps, vars, diskVars
<1>2. /\ m \in [path : Path, size : Size, key : Keys] /\ On(m.path)
      /\ m.size = SizeOf(m.path) /\ m.key = Key(m.path) /\ m.path \notin unseen
  BY DEF ScanParts, MissesOk, LibTypeOK
<1>3. x.path = m.path /\ x.size = m.size /\ x.key = m.key
      /\ x.hash = DigestOf(disk[m.path].content)
  BY <1>2 DEF DigestOf, SizeOf
<1> HIDE DEF x
<1>4. \A e \in misses' : e \in misses /\ e.path # m.path
  <2>1. ASSUME NEW e \in misses', e.path = m.path PROVE FALSE
    <3>1. e \in [path : Path, size : Size, key : Keys] /\ e.size = m.size /\ e.key = m.key
      BY <1>1, <1>2, <2>1 DEF ScanParts, MissesOk, LibTypeOK
    <3>2. e = m
      BY <1>2, <2>1, <3>1
    <3> QED BY <1>1, <2>1, <3>2
  <2> QED BY <1>1, <2>1
<1>5. FoundOk'
  BY <1>1 DEF FoundOk
<1>6. MissesOk'
  BY <1>1, DiskFrame DEF ScanParts, MissesOk
<1>7. HashedOk'
  BY <1>1, <1>2, <1>3, <1>4, DiskFrame DEF ScanParts, HashedOk
<1>8. \A e : Result(e)' <=> Result(e)
  BY <1>1 DEF Result, InHand
<1>9. \A q : Pending(q)' <=> Pending(q)
  BY <1>1, <1>3 DEF Pending
<1>10. ResultsOk'
  BY <1>1, <1>8, <1>9, DiskFrame, CacheFrame DEF ScanParts, ResultsOk
<1>11. MigrateOk'
  BY <1>1, TableFrame DEF ScanParts, MigrateOk
<1>12. NoneLost'
  BY <1>1, <1>8, <1>9, DiskFrame, TableFrame DEF ScanParts, NoneLost
<1> QED BY <1>5, <1>6, <1>7, <1>10, <1>11, <1>12 DEF ScanParts

\* A new row of the cache is of the key of no other file.
LEMMA CacheScan ==
    ASSUME LibTypeOK, DiskInv, PhaseInv, ScanParts, NEW m \in hashed, CacheFresh(m)
    PROVE  ScanParts'
<1> DEFINE x == [path |-> m.path, size |-> m.size, hash |-> m.hash]
<1>1. /\ hashed' = hashed \ {m} /\ found = {} /\ misses = {} /\ fresh' = fresh \cup {x}
      /\ \/ cache' = (cache \ Cached(m.key)) \cup {[key |-> m.key, quick |-> m.hash]}
         \/ cache' = cache
      /\ UNCHANGED <<disk, locations, unseen, found, misses, hits, row>>
      /\ row = NoJob /\ unseen = {}
  BY DEF CacheFresh, ScanKeeps, vars, diskVars, PhaseInv
<1>2. /\ m \in [path : Path, size : Size, key : Keys, hash : Hash] /\ On(m.path)
      /\ m.size = SizeOf(m.path) /\ m.key = Key(m.path)
      /\ m.hash = DigestOf(disk[m.path].content)
  BY DEF ScanParts, HashedOk, LibTypeOK
<1>3. /\ x \in Results /\ x.path = m.path /\ x.hash = m.hash
  BY <1>2 DEF Results
<1> HIDE DEF x
<1>4. \A e \in hashed' : e \in hashed /\ e.path # m.path
  <2>1. ASSUME NEW e \in hashed', e.path = m.path PROVE FALSE
    <3>1. e \in [path : Path, size : Size, key : Keys, hash : Hash]
          /\ e.size = m.size /\ e.key = m.key /\ e.hash = m.hash
      BY <1>1, <1>2, <2>1 DEF ScanParts, HashedOk, LibTypeOK
    <3>2. e = m
      BY <1>2, <2>1, <3>1
    <3> QED BY <1>1, <2>1, <3>2
  <2> QED BY <1>1, <2>1
<1>5. ASSUME NEW q \in Path, On(q), q # m.path, NEW h
      PROVE  Tells(q, h) => Tells(q, h)'
  <2>1. Key(q) # m.key
    <3>1. m.path \in Path /\ m.key.id = disk[m.path].id /\ Key(q).id = disk[q].id
      BY <1>2 DEF Key
    <3>2. disk[q].id # disk[m.path].id
      BY <1>2, <1>5, <3>1 DEF DiskInv
    <3> QED BY <3>1, <3>2
  <2>2. \A r \in Cached(Key(q)) : r \in Cached(Key(q))'
    BY <1>1, <2>1, DiskFrame DEF Cached
  <2> QED BY <1>1, <2>2, DiskFrame DEF Tells
<1>6. \A e : Result(e)' <=> Result(e) \/ e = x
  BY <1>1 DEF Result, InHand
<1>7. \A q : Pending(q)' <=> Pending(q) /\ q # m.path
  <2>1. \A q : Pending(q)' => Pending(q) /\ q # m.path
    BY <1>1, <1>4 DEF Pending
  <2>2. \A q : Pending(q) /\ q # m.path => Pending(q)'
    BY <1>1 DEF Pending
  <2> QED BY <2>1, <2>2
<1>8. Pending(m.path)
  BY <1>1 DEF Pending
<1>9. FoundOk' /\ MissesOk'
  BY <1>1 DEF FoundOk, MissesOk
<1>10. HashedOk'
  BY <1>1, DiskFrame DEF ScanParts, HashedOk
<1>11. ResultsOk'
  <2>1. ASSUME NEW e \in Results, Result(e)
        PROVE  On(e.path)' /\ ~ Pending(e.path)' /\ Tells(e.path, e.hash)'
    <3>1. On(e.path) /\ ~ Pending(e.path) /\ Tells(e.path, e.hash) /\ e.path \in Path
      BY <2>1 DEF ScanParts, ResultsOk, Results
    <3>2. e.path # m.path
      BY <1>8, <3>1
    <3> QED BY <1>1, <1>5, <1>7, <3>1, <3>2, DiskFrame
  <2>2. On(x.path)' /\ ~ Pending(x.path)' /\ Tells(x.path, x.hash)'
    <3>1. On(m.path)' /\ ~ Pending(m.path)'
      BY <1>1, <1>2, <1>7, DiskFrame
    <3>2. Tells(m.path, m.hash)'
      BY <1>1, <1>2, DiskFrame DEF Tells
    <3> QED BY <1>3, <3>1, <3>2
  <2> QED BY <1>6, <2>1, <2>2 DEF ResultsOk
<1>12. MigrateOk'
  BY <1>1 DEF MigrateOk
<1>13. NoneLost'
  <2>1. ASSUME NEW q \in Path, On(q)
        PROVE  Pending(q)' \/ (\E e \in Results : Result(e)' /\ e.path = q) \/ InTable(q)'
    <3>1. CASE q = m.path
      BY <1>3, <1>6, <3>1
    <3>2. CASE q # m.path
      <4>1. InTable(q) => InTable(q)'
        BY <1>1, <1>5, <2>1, <3>2 DEF InTable, At, Live
      <4> QED BY <1>6, <1>7, <2>1, <3>2, <4>1 DEF ScanParts, NoneLost
    <3> QED BY <3>1, <3>2
  <2> QED BY <1>1, <2>1, DiskFrame DEF NoneLost
<1> QED BY <1>9, <1>10, <1>11, <1>12, <1>13 DEF ScanParts

LEMMA TakeScan ==
    ASSUME LibTypeOK, ScanParts, NEW e \in hits \cup fresh, TakeResult(e)
    PROVE  ScanParts'
<1>1. /\ row = NoJob /\ row' = [result |-> e, step |-> "file"]
      /\ \/ e \in hits /\ hits' = hits \ {e} /\ fresh' = fresh
         \/ e \in fresh /\ fresh' = fresh \ {e} /\ hits' = hits
      /\ UNCHANGED <<disk, cache, locations, unseen, found, misses, hashed>>
  BY DEF TakeResult, ScanKeeps, vars, diskVars
<1>2. row' \in Persisting
  BY <1>1 DEF LibTypeOK, Persisting
<1>3. row' # NoJob /\ row'.result = e /\ row'.step # "migrate"
  BY <1>1, <1>2, LibraryAssumption
<1>4. \A x : Result(x)' <=> Result(x)
  BY <1>1, <1>3 DEF Result, InHand
<1>5. \A q : Pending(q)' <=> Pending(q)
  BY <1>1 DEF Pending
<1>6. FoundOk' /\ MissesOk' /\ HashedOk'
  BY <1>1, DiskFrame DEF ScanParts, FoundOk, MissesOk, HashedOk
<1>7. ResultsOk'
  BY <1>1, <1>4, <1>5, DiskFrame, CacheFrame DEF ScanParts, ResultsOk
<1>8. MigrateOk'
  BY <1>3 DEF MigrateOk
<1>9. NoneLost'
  BY <1>1, <1>4, <1>5, DiskFrame, TableFrame DEF ScanParts, NoneLost
<1> QED BY <1>6, <1>7, <1>8, <1>9 DEF ScanParts

\* UpsertLocation: the one row it writes is at the path and has the hash.
LEMMA UpsertLocationRow ==
    ASSUME TypeOK, NEW h \in Nat, NEW g \in Hash, NEW v \in Volume, NEW p \in Path,
           NEW d \in Device, upsert_location(h, g, v, p, d)
    PROVE  \E i \in At(v, p)' :
              /\ locations'[i].hash = g
              /\ \/ locations[i] = NoLoc /\ locations'[i].uuid = UuidOf(g)
                 \/ i \in At(v, p) /\ locations'[i].uuid = locations[i].uuid
              /\ \A j \in LocId : j # i => locations'[j] = locations[j]
<1>1. locations \in [LocId -> LocRow \cup {NoLoc}]
  BY DEF TypeOK
<1>2. ASSUME NEW i \in LocId, locations[i] = NoLoc,
             locations' = [locations EXCEPT ![i] =
                             [hash |-> g, uuid |-> UuidOf(g), volume |-> v,
                              path |-> p, status |-> "active", deleted_at |-> 0,
                              device |-> d, hlc |-> h]]
      PROVE  /\ i \in At(v, p)' /\ locations'[i].hash = g /\ locations'[i].uuid = UuidOf(g)
             /\ \A j \in LocId : j # i => locations'[j] = locations[j]
  <2> DEFINE r == [hash |-> g, uuid |-> UuidOf(g), volume |-> v,
                   path |-> p, status |-> "active", deleted_at |-> 0,
                   device |-> d, hlc |-> h]
  <2>1. UuidOf(g) \in Uuid \cup {NoUuid}
    BY DEF UuidOf, WithHash
  <2>2. r \in LocRow
    BY <2>1 DEF LocRow, Status
  <2>3. r.hash = g /\ r.uuid = UuidOf(g) /\ r.volume = v /\ r.path = p /\ r.deleted_at = 0
    OBVIOUS
  <2>4. r # NoLoc
    BY <2>2, FileStoreAssumption
  <2>5. locations' = [locations EXCEPT ![i] = r]
    BY <1>2
  <2> HIDE DEF r
  <2>6. \A j \in LocId : locations'[j] = IF j = i THEN r ELSE locations[j]
    BY <1>1, <2>5
  <2> QED BY <2>3, <2>4, <2>6 DEF At, Live
<1>3. ASSUME NEW i \in At(v, p),
             locations' = [locations EXCEPT ![i] =
                             [locations[i] EXCEPT !.hash = g, !.device = d, !.hlc = h]]
      PROVE  /\ i \in At(v, p)' /\ locations'[i].hash = g /\ locations'[i].uuid = locations[i].uuid
             /\ \A j \in LocId : j # i => locations'[j] = locations[j]
  <2> DEFINE r == [locations[i] EXCEPT !.hash = g, !.device = d, !.hlc = h]
  <2>1. i \in LocId /\ Live(i) /\ locations[i] \in LocRow
    BY LocationRow DEF At, Live
  <2>2. r \in LocRow
    BY <2>1 DEF LocRow
  <2>3. /\ r.hash = g /\ r.uuid = locations[i].uuid /\ r.volume = locations[i].volume
        /\ r.path = locations[i].path /\ r.deleted_at = locations[i].deleted_at
    BY <2>1 DEF LocRow
  <2>4. r # NoLoc
    BY <2>2, FileStoreAssumption
  <2>5. locations' = [locations EXCEPT ![i] = r]
    BY <1>3
  <2> HIDE DEF r
  <2>6. \A j \in LocId : locations'[j] = IF j = i THEN r ELSE locations[j]
    BY <1>1, <2>5
  <2> QED BY <2>1, <2>3, <2>4, <2>6 DEF At, Live
<1>4. ASSUME NEW i \in At(v, p), locations[i].hash = g, locations' = locations
      PROVE  i \in At(v, p)' /\ locations'[i].hash = g /\ locations'[i].uuid = locations[i].uuid
  BY <1>4 DEF At, Live
<1>5. \A i \in At(v, p)' : i \in LocId
  BY DEF At
<1>6. CASE At(v, p) = {}
  <2>1. PICK i \in LocId :
           /\ locations[i] = NoLoc
           /\ locations' = [locations EXCEPT ![i] =
                               [hash |-> g, uuid |-> UuidOf(g), volume |-> v,
                                path |-> p, status |-> "active", deleted_at |-> 0,
                                device |-> d, hlc |-> h]]
    BY <1>6 DEF upsert_location
  <2> QED BY <1>2, <2>1
<1>7. CASE At(v, p) # {}
  <2>1. PICK i \in At(v, p) :
           \/ locations[i].hash = g /\ locations' = locations
           \/ locations' = [locations EXCEPT ![i] =
                               [locations[i] EXCEPT !.hash = g, !.device = d, !.hlc = h]]
    BY <1>7 DEF upsert_location
  <2> QED BY <1>3, <1>4, <2>1
<1> QED BY <1>6, <1>7

\* The result being persisted reaches the table, or was there already.
LEMMA PersistedScan ==
    ASSUME LibTypeOK, ScanParts, NEW x \in Results, row # NoJob, row.result = x,
           UNCHANGED <<disk, cache, unseen, found, misses, hashed, hits, fresh>>,
           row' = NoJob \/ (row' # NoJob /\ row'.result = x),
           InTable(x.path)',
           \A q \in Path : InTable(q) => InTable(q)'
    PROVE  ScanParts'
<1>1. x.path \in Path
  BY DEF Results
<1>2. \A e : Result(e)' => Result(e)
  BY DEF Result, InHand
<1>3. \A e : Result(e) => Result(e)' \/ e = x
  BY DEF Result, InHand
<1>4. \A q : Pending(q)' <=> Pending(q)
  BY DEF Pending
<1>5. FoundOk' /\ MissesOk' /\ HashedOk'
  BY DiskFrame DEF ScanParts, FoundOk, MissesOk, HashedOk
<1>6. ResultsOk'
  BY <1>2, <1>4, DiskFrame, CacheFrame DEF ScanParts, ResultsOk
<1>7. MigrateOk'
  BY DEF MigrateOk
<1>8. NoneLost'
  BY <1>1, <1>3, <1>4, DiskFrame DEF ScanParts, NoneLost
<1> QED BY <1>5, <1>6, <1>7, <1>8 DEF ScanParts

LEMMA PersistFileScan ==
    ASSUME LibTypeOK, ScanParts, PersistFile, errored' = errored
    PROVE  ScanParts'
<1>1. /\ row # NoJob /\ row' = [row EXCEPT !.step = "location"]
      /\ UNCHANGED <<disk, cache, locations, unseen, found, misses, hashed, hits, fresh>>
  <2>1. errored \in Nat
    BY DEF LibTypeOK
  <2>2. /\ upsert_file(Stamp, row.result.hash, row.result.size, row.result.hash, Here)
        /\ row # NoJob /\ row' = [row EXCEPT !.step = "location"]
        /\ UNCHANGED <<disk, cache, unseen, found, misses, hashed, hits, fresh>>
    BY <2>1 DEF PersistFile, PersistKeeps, ScanKeeps, diskVars
  <2>3. locations' = locations
    BY <2>2, Zenon DEF upsert_file
  <2> QED BY <2>2, <2>3
<1>2. row \in Persisting /\ row' \in Persisting
  BY <1>1 DEF LibTypeOK, Persisting
<1>3. row' # NoJob /\ row'.result = row.result /\ row'.step # "migrate"
  BY <1>1, <1>2, LibraryAssumption DEF Persisting
<1>4. (\A e : Result(e)' <=> Result(e)) /\ (\A q : Pending(q)' <=> Pending(q))
  BY <1>1, <1>3 DEF Result, InHand, Pending
<1>5. FoundOk' /\ MissesOk' /\ HashedOk'
  BY <1>1, DiskFrame DEF ScanParts, FoundOk, MissesOk, HashedOk
<1>6. ResultsOk'
  BY <1>1, <1>4, DiskFrame, CacheFrame DEF ScanParts, ResultsOk
<1>7. MigrateOk'
  BY <1>3 DEF MigrateOk
<1>8. NoneLost'
  BY <1>1, <1>4, DiskFrame, TableFrame DEF ScanParts, NoneLost
<1> QED BY <1>5, <1>6, <1>7, <1>8 DEF ScanParts

LEMMA PersistLocationScan ==
    ASSUME LibInv, PhaseInv, ScanParts, PersistLocation, errored' = errored
    PROVE  ScanParts'
<1>1. PICK e \in Results : row.result = e
  BY DEF PersistLocation, LibInv, LibTypeOK, Persisting
<1>2. /\ row \in Persisting /\ row # NoJob
      /\ e.hash \in Hash /\ e.path \in Path /\ Here \in Device /\ Mount \in Volume
  BY LibraryAssumption DEF PersistLocation, LibInv, LibTypeOK, Results
<1>3. /\ upsert_location(Stamp, e.hash, Mount, e.path, Here)
      /\ row' = IF Cli THEN [row EXCEPT !.step = "migrate"] ELSE NoJob
      /\ UNCHANGED <<disk, cache, unseen, found, misses, hashed, hits, fresh>>
  <2>1. errored \in Nat
    BY DEF LibInv, LibTypeOK
  <2> QED BY <1>1, <2>1 DEF PersistLocation, PersistKeeps, ScanKeeps, diskVars
<1>4. row' = NoJob \/ (row' # NoJob /\ row'.result = row.result)
  <2>1. [row EXCEPT !.step = "migrate"] \in Persisting
    BY <1>2 DEF Persisting
  <2> QED BY <1>1, <1>2, <1>3, <2>1, LibraryAssumption DEF Persisting
<1>5. Tells(e.path, e.hash)
  <2>1. Result(e)
    BY <1>1, <1>2 DEF Result, InHand
  <2> QED BY <1>1, <2>1 DEF ScanParts, ResultsOk
<1>6. PICK i \in At(Mount, e.path)' :
         /\ locations'[i].hash = e.hash
         /\ locations[i] = NoLoc \/ i \in At(Mount, e.path)
         /\ \A j \in LocId : j # i => locations'[j] = locations[j]
  <2>1. Stamp \in Nat /\ TypeOK
    BY StampType DEF LibInv, IInv
  <2> QED BY <1>2, <1>3, <2>1, UpsertLocationRow
<1>7. InTable(e.path)'
  BY <1>3, <1>5, <1>6, CacheFrame DEF InTable
<1>8. ASSUME NEW q \in Path, q # e.path, InTable(q)
      PROVE  InTable(q)'
  <2>1. PICK j \in At(Mount, q) : Tells(q, locations[j].hash)
    BY <1>8 DEF InTable
  <2>2. j \in LocId /\ j # i
    BY <1>6, <1>8, <2>1 DEF At, Live
  <2>3. locations'[j] = locations[j]
    BY <1>6, <2>2
  <2>4. j \in At(Mount, q)'
    BY <2>1, <2>2, <2>3 DEF At, Live
  <2> QED BY <1>3, <2>1, <2>3, <2>4, CacheFrame DEF InTable
<1> QED BY <1>1, <1>2, <1>3, <1>4, <1>7, <1>8, PersistedScan DEF LibInv

LEMMA OnPersistScan ==
    ASSUME LibInv, PhaseInv, ScanParts, OnPersist
    PROVE  ScanParts'
<1>1. PICK e \in Results : row.result = e
  BY DEF OnPersist, LibInv, LibTypeOK, Persisting
<1>2. /\ row # NoJob /\ row.step = "migrate" /\ row' = NoJob
      /\ e.path \in Path /\ Mount \in Volume
      /\ UNCHANGED <<disk, cache, unseen, found, misses, hashed, hits, fresh>>
  BY LibraryAssumption DEF OnPersist, Results, PersistKeeps, ScanKeeps,
                           diskVars
<1>3. ASSUME NEW q \in Path, NEW i \in At(Mount, q)
      PROVE  i \in LocId /\ locations'[i] = locations[i]
  <2>1. i \in LocId /\ locations[i].volume = Mount /\ Mount # Nil
    BY <1>2, <1>3, FileStoreAssumption DEF At
  <2>2. ASSUME migrate_sentinel_row(Stamp, row.result.path, Mount, Here)
        PROVE  locations'[i] = locations[i]
    BY <2>1, <2>2 DEF migrate_sentinel_row, UpdateLocations, At
  <2>3. ASSUME Fails
        PROVE  locations'[i] = locations[i]
    BY <2>3 DEF Fails, storage_error
  <2> QED BY <2>1, <2>2, <2>3 DEF OnPersist
<1>4. ASSUME NEW q \in Path, InTable(q)
      PROVE  InTable(q)'
  <2>1. PICK j \in At(Mount, q) : Tells(q, locations[j].hash)
    BY <1>4 DEF InTable
  <2>2. j \in LocId /\ locations'[j] = locations[j]
    BY <1>3, <2>1
  <2>3. j \in At(Mount, q)'
    BY <2>1, <2>2 DEF At, Live
  <2> QED BY <1>2, <2>1, <2>2, <2>3, CacheFrame DEF InTable
<1>5. InTable(e.path)
  BY <1>1, <1>2 DEF ScanParts, MigrateOk
<1> QED BY <1>1, <1>2, <1>4, <1>5, PersistedScan DEF LibInv

LEMMA BeginScanParts ==
    ASSUME PhaseInv, BeginScan
    PROVE  ScanParts'
<1>1. /\ unseen' = Path
      /\ found' = {} /\ misses' = {} /\ hashed' = {} /\ hits' = {} /\ fresh' = {} /\ row' = NoJob
  BY DEF BeginScan, PhaseInv
<1>2. \A e : ~ Result(e)'
  BY <1>1 DEF Result, InHand
<1>3. \A p \in Path : Pending(p)'
  BY <1>1 DEF Pending
<1>4. FoundOk' /\ MissesOk' /\ HashedOk'
  BY <1>1 DEF FoundOk, MissesOk, HashedOk
<1> QED BY <1>1, <1>2, <1>3, <1>4 DEF ScanParts, ResultsOk, MigrateOk, NoneLost

\* No step but the scan's own leaves it undisturbed and changes what it reads.
LEMMA ScanStep ==
    ASSUME LibInv, DiskInv, PhaseInv, ScanInv, [LibNext]_libVars
    PROVE  ScanInv'
<1> LibTypeOK
  BY DEF LibInv
<1>1. CASE BeginScan
  BY <1>1, BeginScanParts DEF ScanInv, ScanParts
<1>2. CASE Scan /\ ~ BeginScan
  <2> SUFFICES ASSUME Quiet' PROVE ScanParts'
    BY DEF ScanInv, ScanParts
  <2>1. ScanParts /\ errored' = errored /\ ~ cancelled /\ cancelled' = FALSE
    BY <1>2, QuietBefore DEF ScanInv, ScanParts, Quiet
  <2>2. ASSUME UNCHANGED <<disk, cache, locations, scanVars>> PROVE ScanParts'
    BY <1>2, <2>2, ScanFrame, QuietBefore DEF ScanInv, ScanParts
  <2>3. CASE EndScan
    BY <2>2, <2>3 DEF EndScan, ScanKeeps, vars, diskVars
  <2>4. CASE WalkEnds
    BY <2>1, <2>2, <2>4 DEF WalkEnds, ScanKeeps, vars, diskVars, scanVars
  <2>5. ~ Cancel
    BY <2>1 DEF Cancel
  <2> QED BY <1>2, <2>1, <2>3, <2>4, <2>5, WalkScan, StatScan, HashScan, CacheScan, TakeScan,
             PersistFileScan, PersistLocationScan, OnPersistScan DEF Scan
<1>3. CASE Edit \/ record_file_event
  <2>1. disturbed' = TRUE
    BY <1>3 DEF Edit, CreateFile, WriteFile, DeleteFile, RenameFile, Happened, record_file_event
  <2> QED BY <2>1 DEF ScanInv, Quiet
<1>4. CASE Verify
  <2>1. UNCHANGED <<disk, cache, locations, scanVars>>
    BY <1>4 DEF Verify, ReadWhole, LookUpByUuid, Promote, promote_full_hash, Fails, storage_error,
                VerifyKeeps, vars, diskVars
  <2>2. UNCHANGED <<scans, errored, cancelled, disturbed>>
    BY <1>4, VerifyTypes
  <2> QED BY <2>1, <2>2, ScanFrame DEF Quiet
<1>5. CASE UNCHANGED libVars
  <2>1. UNCHANGED <<disk, cache, locations, scanVars, scans, errored, cancelled, disturbed>>
    BY <1>5 DEF libVars, vars, diskVars
  <2> QED BY <2>1, ScanFrame DEF Quiet
<1> QED BY <1>1, <1>2, <1>3, <1>4, <1>5 DEF LibNext

\* The digest of a row the scan left is that of the file's contents.
LEMMA ScanTold ==
    ASSUME LibInv, DiskInv, PhaseInv, ScanInv
    PROVE  ScanTellsDisk
<1> SUFFICES ASSUME Clean, NEW p \in Path, On(p), \A r \in Cached(Key(p)) : Honest(r)
             PROVE  \E i \in At(Mount, p) : locations[i].hash = DigestOf(disk[p].content)
  BY DEF ScanTellsDisk
<1>1. ScanParts /\ pc = "idle"
  BY DEF ScanInv, ScanParts, Clean, Quiet
<1>2. ~ Pending(p) /\ \A e : ~ Result(e)
  BY <1>1 DEF PhaseInv, Pending, Result, InHand
<1>3. PICK i \in At(Mount, p) : Tells(p, locations[i].hash)
  BY <1>1, <1>2 DEF ScanParts, NoneLost, InTable
<1>4. ASSUME NEW r \in Cached(Key(p)), r.quick = locations[i].hash
      PROVE  locations[i].hash = DigestOf(disk[p].content)
  <2>1. r.key = Key(p) /\ Honest(r)
    BY DEF Cached
  <2>2. r.key.mtime = disk[p].mtime
    BY <2>1 DEF Key
  <2>3. written[disk[p].mtime] = disk[p].content
    BY DEF DiskInv
  <2> QED BY <1>4, <2>1, <2>2, <2>3 DEF Honest
<1> QED BY <1>3, <1>4 DEF Tells
-----------------------------------------------------------------------------
(***************************************************************************)
(* A location is known to a row of `files`, up to a second promotion.      *)
(***************************************************************************)
\* UpsertFile: the row it leaves has the hash, and its quick_hash only where
\* it had none.
LEMMA UpsertFileRow ==
    ASSUME TypeOK, NEW h \in Nat, NEW g \in Hash, NEW s \in Size, NEW q \in Hash,
           NEW d \in Device, upsert_file(h, g, s, q, d)
    PROVE  \E u \in Uuid :
              /\ Used(u)' /\ files'[u].hash = g
              /\ \/ ~ Used(u) /\ files'[u].quick = q
                 \/ /\ Used(u) /\ files[u].hash = g
                    /\ files'[u].quick = IF files[u].quick = NoHash THEN q ELSE files[u].quick
              /\ \A v \in Uuid : v # u => files'[v] = files[v]
<1>1. files \in [Uuid -> FileRow \cup {NoFile}]
  BY DEF TypeOK
<1>2. ASSUME NEW u \in Uuid, ~ Used(u),
             files' = [files EXCEPT ![u] = [hash |-> g, size |-> s, quick |-> q,
                                            device |-> d, hlc |-> h, distinct |-> 0]]
      PROVE  /\ Used(u)' /\ files'[u].hash = g /\ files'[u].quick = q
             /\ \A v \in Uuid : v # u => files'[v] = files[v]
  <2> DEFINE r == [hash |-> g, size |-> s, quick |-> q,
                   device |-> d, hlc |-> h, distinct |-> 0]
  <2>1. r \in FileRow /\ r.hash = g /\ r.quick = q
    BY DEF FileRow
  <2>2. r # NoFile
    BY <2>1, FileStoreAssumption
  <2>3. files' = [files EXCEPT ![u] = r]
    BY <1>2
  <2> HIDE DEF r
  <2> QED BY <1>1, <2>1, <2>2, <2>3 DEF Used
<1>3. ASSUME NEW u \in WithHash(g), NEW f,
             f = (IF files[u].quick = NoHash THEN q ELSE files[u].quick),
             \/ files' = [files EXCEPT ![u] = [files[u] EXCEPT !.quick = f]]
             \/ files' = [files EXCEPT ![u] = [files[u] EXCEPT !.size = s, !.device = d,
                                                               !.hlc = h, !.quick = f]]
      PROVE  /\ Used(u)' /\ files'[u].hash = g /\ files'[u].quick = f
             /\ \A v \in Uuid : v # u => files'[v] = files[v]
  <2>1. u \in Uuid /\ Used(u) /\ files[u] \in FileRow /\ files[u].hash = g
    BY UsedRow DEF WithHash
  <2>2. f \in Hash \cup {NoHash}
    BY <1>3, <2>1 DEF FileRow
  <2>3. ASSUME NEW r \in FileRow, r.hash = g, r.quick = f, files' = [files EXCEPT ![u] = r]
        PROVE  /\ Used(u)' /\ files'[u].hash = g /\ files'[u].quick = f
               /\ \A v \in Uuid : v # u => files'[v] = files[v]
    BY <1>1, <2>1, <2>3, FileStoreAssumption DEF Used
  <2> DEFINE a == [files[u] EXCEPT !.quick = f]
             b == [files[u] EXCEPT !.size = s, !.device = d, !.hlc = h, !.quick = f]
  <2>4. a \in FileRow /\ a.hash = g /\ a.quick = f
    BY <2>1, <2>2 DEF FileRow
  <2>5. b \in FileRow /\ b.hash = g /\ b.quick = f
    BY <2>1, <2>2 DEF FileRow
  <2>6. files' = [files EXCEPT ![u] = a] \/ files' = [files EXCEPT ![u] = b]
    BY <1>3
  <2> HIDE DEF a, b
  <2> QED BY <2>3, <2>4, <2>5, <2>6
<1>4. CASE \E u \in {v \in Uuid : ~Used(v)} :
              files' = [files EXCEPT ![u] = [hash |-> g, size |-> s, quick |-> q,
                                             device |-> d, hlc |-> h, distinct |-> 0]]
  BY <1>2, <1>4
<1>5. CASE \E u \in WithHash(g) :
              LET f == IF files[u].quick = NoHash THEN q ELSE files[u].quick
              IN  \/ files' = [files EXCEPT ![u] = [files[u] EXCEPT !.quick = f]]
                  \/ files' = [files EXCEPT ![u] = [files[u] EXCEPT !.size = s, !.device = d,
                                                                    !.hlc = h, !.quick = f]]
  <2>1. \A u \in WithHash(g) : u \in Uuid /\ Used(u) /\ files[u].hash = g
    BY DEF WithHash
  <2> QED BY <1>3, <1>5, <2>1
<1> QED BY <1>4, <1>5 DEF upsert_file

\* PromoteFullHash: the row keeps its quick_hash.
LEMMA PromoteRow ==
    ASSUME TypeOK, NEW h \in Nat, NEW u \in Uuid, NEW g \in Hash, NEW d \in Device,
           promote_full_hash(h, u, g, d)
    PROVE  \A v \in Uuid : Used(v) =>
              Used(v)' /\ files'[v].quick = files[v].quick
<1>1. files \in [Uuid -> FileRow \cup {NoFile}]
  BY DEF TypeOK
<1>2. CASE files' = files
  BY <1>2 DEF Used
<1>3. CASE Used(u) /\ files' = [files EXCEPT ![u] = [files[u] EXCEPT !.hash = g, !.device = d,
                                                                    !.hlc = h]]
  <2> DEFINE r == [files[u] EXCEPT !.hash = g, !.device = d, !.hlc = h]
  <2>1. files[u] \in FileRow
    BY <1>3, UsedRow
  <2>2. r \in FileRow /\ r.quick = files[u].quick
    BY <2>1 DEF FileRow
  <2>3. files' = [files EXCEPT ![u] = r] /\ r # NoFile
    BY <1>3, <2>2, FileStoreAssumption
  <2> HIDE DEF r
  <2> QED BY <1>1, <2>2, <2>3 DEF Used
<1> QED BY <1>2, <1>3 DEF promote_full_hash

\* A row keeps its hash and its uuid.
RowsKept ==
    \A i \in LocId : locations'[i] # NoLoc =>
       /\ locations[i] # NoLoc
       /\ locations'[i].hash = locations[i].hash
       /\ locations'[i].uuid = locations[i].uuid

LEMMA UpdateKeepsRows ==
    ASSUME TypeOK, NEW v, NEW p, NEW F,
           locations' = [i \in LocId |-> IF i \in At(v, p) THEN F[i] ELSE locations[i]],
           \A i \in At(v, p) : locations[i] \in LocRow => F[i].hash = locations[i].hash
                                                          /\ F[i].uuid = locations[i].uuid
    PROVE  RowsKept
BY AtRows DEF RowsKept, Live

LEMMA CommandsKeepRows ==
    ASSUME TypeOK, NEW h \in Nat, NEW v \in Volume, NEW p \in Path, NEW q \in Path,
           NEW d \in Device, NEW s \in Status,
           \/ update_location_status(h, v, p, s, d)
           \/ update_location_path(h, v, p, q, d)
           \/ migrate_sentinel_row(h, p, v, d)
    PROVE  RowsKept /\ UNCHANGED files
<1>1. ASSUME NEW r \in LocRow
      PROVE  /\ WithStatus(r, s, d, h).hash = r.hash /\ WithStatus(r, s, d, h).uuid = r.uuid
             /\ SoftDeleted(r, d, h).hash = r.hash /\ SoftDeleted(r, d, h).uuid = r.uuid
             /\ MovedTo(r, q, d, h).hash = r.hash /\ MovedTo(r, q, d, h).uuid = r.uuid
             /\ OnVolume(r, v, d, h).hash = r.hash /\ OnVolume(r, v, d, h).uuid = r.uuid
  BY DEF LocRow, WithStatus, SoftDeleted, MovedTo, OnVolume
<1>2. CASE update_location_status(h, v, p, s, d)
  <2> DEFINE F == [i \in At(v, p) |-> WithStatus(locations[i], s, d, h)]
  <2>1. locations' = [i \in LocId |-> IF i \in At(v, p) THEN F[i] ELSE locations[i]]
    BY <1>2 DEF update_location_status, UpdateLocations
  <2>2. \A i \in At(v, p) : F[i] = WithStatus(locations[i], s, d, h)
    OBVIOUS
  <2> HIDE DEF F
  <2> QED BY <1>1, <1>2, <2>1, <2>2, UpdateKeepsRows DEF update_location_status
<1>3. CASE update_location_path(h, v, p, q, d)
  <2> DEFINE F == [i \in At(v, p) |-> SoftDeleted(locations[i], d, h)]
             G == [i \in At(v, p) |-> MovedTo(locations[i], q, d, h)]
  <2>1. \/ locations' = [i \in LocId |-> IF i \in At(v, p) THEN F[i] ELSE locations[i]]
        \/ locations' = [i \in LocId |-> IF i \in At(v, p) THEN G[i] ELSE locations[i]]
    BY <1>3 DEF update_location_path, UpdateLocations
  <2>2. \A i \in At(v, p) : /\ F[i] = SoftDeleted(locations[i], d, h)
                            /\ G[i] = MovedTo(locations[i], q, d, h)
    OBVIOUS
  <2> HIDE DEF F, G
  <2> QED BY <1>1, <1>3, <2>1, <2>2, UpdateKeepsRows DEF update_location_path
<1>4. CASE migrate_sentinel_row(h, p, v, d)
  <2> DEFINE F == [i \in At(Nil, p) |-> OnVolume(locations[i], v, d, h)]
  <2>1. locations' = [i \in LocId |-> IF i \in At(Nil, p) THEN F[i] ELSE locations[i]]
    BY <1>4 DEF migrate_sentinel_row, UpdateLocations
  <2>2. \A i \in At(Nil, p) : F[i] = OnVolume(locations[i], v, d, h)
    OBVIOUS
  <2> HIDE DEF F
  <2> QED BY <1>1, <1>4, <2>1, <2>2, UpdateKeepsRows DEF migrate_sentinel_row
<1> QED BY <1>2, <1>3, <1>4

LEMMA StrongIsWeak == Strong => Weak
BY DEF Strong, Weak, Knows

LEMMA KeptRowsKnown ==
    ASSUME RowsKept, UNCHANGED files, AtLocation' => AtLocation /\ row' = row
    PROVE  (Strong => Strong') /\ (Weak => Weak')
<1>1. \A u : (Used(u)' <=> Used(u)) /\ \A h : Knows(u, h)' <=> Knows(u, h)
  BY DEF Used, Knows
<1>2. ASSUME Strong PROVE Strong'
  BY <1>1, <1>2 DEF Strong, RowsKept
<1>3. ASSUME Weak PROVE Weak'
  BY <1>1, <1>3 DEF Weak, RowsKept
<1> QED BY <1>2, <1>3

LEMMA PersistFileKnown ==
    ASSUME LibInv, PersistFile
    PROVE  (Strong => Strong') /\ (Weak => Weak')
<1> TypeOK
  BY DEF LibInv, IInv
<1>1. PICK e \in Results : row.result = e
  BY DEF PersistFile, LibInv, LibTypeOK, Persisting
<1>2. row # NoJob /\ row \in Persisting /\ row.step = "file" /\ ~ AtLocation
      /\ e.hash \in Hash /\ e.size \in Size /\ Here \in Device
  BY LibraryAssumption DEF PersistFile, AtLocation, LibInv, LibTypeOK, Results
<1>3. CASE Fails /\ row' = NoJob
  <2>1. UNCHANGED <<files, locations>>
    BY <1>3 DEF Fails, storage_error
  <2> QED BY <1>3, <2>1, KeptRowsKnown DEF RowsKept, AtLocation
<1>4. CASE upsert_file(Stamp, e.hash, e.size, e.hash, Here) /\ row' = [row EXCEPT !.step = "location"]
  <2>1. Stamp \in Nat
    BY StampType DEF LibInv
  <2>2. PICK u \in Uuid :
              /\ Used(u)' /\ files'[u].hash = e.hash
              /\ \/ ~ Used(u) /\ files'[u].quick = e.hash
                 \/ /\ Used(u) /\ files[u].hash = e.hash
                    /\ files'[u].quick = IF files[u].quick = NoHash THEN e.hash ELSE files[u].quick
              /\ \A v \in Uuid : v # u => files'[v] = files[v]
    BY <1>2, <1>4, <2>1, UpsertFileRow
  <2>3. locations' = locations
    BY <1>4 DEF upsert_file
  <2>4. row'.result = e
    BY <1>1, <1>2, <1>4 DEF Persisting
  <2>5. \A v \in Uuid : Used(v) => Used(v)'
    BY <2>2 DEF Used
  <2>6. ASSUME NEW v \in Uuid, NEW h \in Hash, Knows(v, h)
        PROVE  Knows(v, h)'
    BY <2>2, <2>6, FileStoreAssumption DEF Knows, Used
  <2>7. ASSUME Strong PROVE Strong'
    <3>1. \A v \in Uuid : Used(v)' => files'[v].quick \in {NoHash, files'[v].hash}
      BY <2>2, <2>7 DEF Strong, Used
    <3>2. files'[u].quick = e.hash
      BY <2>2, <2>7 DEF Strong
    <3>3. \E w \in Uuid : Used(w)' /\ files'[w].hash = row'.result.hash /\ files'[w].quick = row'.result.hash
      BY <2>2, <2>4, <3>2
    <3>4. \A i \in LocId : locations'[i] # NoLoc => /\ locations'[i].uuid \in Uuid
                                                    /\ files'[locations'[i].uuid] # NoFile
      BY <2>3, <2>5, <2>7 DEF Strong, Used
    <3> QED BY <3>1, <3>3, <3>4 DEF Strong, Used
  <2>8. ASSUME Weak PROVE Weak'
    <3>1. ASSUME NEW i \in LocId, locations'[i] # NoLoc
          PROVE  \/ locations'[i].uuid \in Uuid /\ files'[locations'[i].uuid] # NoFile
                 \/ \E v \in Uuid : Knows(v, locations[i].hash)'
      <4>1. locations[i].hash \in Hash /\ locations[i] # NoLoc
        BY <2>3, <3>1, LocationRow DEF LocRow
      <4>2. CASE locations[i].uuid \in Uuid /\ Used(locations[i].uuid)
        <5>1. PICK w \in Uuid : w = locations[i].uuid
          BY <4>2
        <5>2. Used(w)'
          BY <2>5, <4>2, <5>1
        <5> QED BY <2>3, <5>1, <5>2 DEF Used
      <4>3. ASSUME NEW v \in Uuid, Knows(v, locations[i].hash)
            PROVE  Knows(v, locations[i].hash)'
        <5>1. PICK g \in Hash : g = locations[i].hash
          BY <4>1
        <5>2. Knows(v, g)'
          BY <2>6, <4>3, <5>1
        <5> QED BY <2>3, <5>1, <5>2 DEF Knows
      <4> QED BY <2>8, <4>1, <4>2, <4>3 DEF Weak
    <3>2. Knows(u, row.result.hash)'
      BY <2>2, <2>4 DEF Knows
    <3> QED BY <2>3, <3>1, <3>2 DEF Weak, Used
  <2> QED BY <2>7, <2>8
<1> QED BY <1>1, <1>3, <1>4 DEF PersistFile

LEMMA PersistLocationKnown ==
    ASSUME LibInv, PersistLocation
    PROVE  (Strong => Strong') /\ (Weak => Weak')
<1> TypeOK
  BY DEF LibInv, IInv
<1>1. PICK e \in Results : row.result = e
  BY DEF PersistLocation, LibInv, LibTypeOK, Persisting
<1>2. row # NoJob /\ row \in Persisting /\ AtLocation
      /\ e.hash \in Hash /\ e.path \in Path /\ Here \in Device /\ Mount \in Volume
  BY LibraryAssumption DEF PersistLocation, AtLocation, LibInv, LibTypeOK, Results
<1>3. ~ AtLocation'
  <2>1. row' = NoJob \/ row' = [row EXCEPT !.step = "migrate"]
    BY DEF PersistLocation
  <2> QED BY <1>2, <2>1 DEF AtLocation, Persisting
<1>4. CASE Fails
  <2>1. UNCHANGED <<files, locations>>
    BY <1>4 DEF Fails, storage_error
  <2> QED BY <1>3, <2>1, KeptRowsKnown DEF RowsKept
<1>5. CASE upsert_location(Stamp, e.hash, Mount, e.path, Here)
  <2>1. Stamp \in Nat
    BY StampType DEF LibInv
  <2>2. PICK i \in At(Mount, e.path)' :
              /\ locations'[i].hash = e.hash
              /\ \/ locations[i] = NoLoc /\ locations'[i].uuid = UuidOf(e.hash)
                 \/ i \in At(Mount, e.path) /\ locations'[i].uuid = locations[i].uuid
              /\ \A j \in LocId : j # i => locations'[j] = locations[j]
    BY <1>2, <1>5, <2>1, UpsertLocationRow
  <2>3. files' = files /\ i \in LocId
    BY <1>5 DEF upsert_location, At
  <2>4. \A u : (Used(u)' <=> Used(u)) /\ \A h : Knows(u, h)' <=> Knows(u, h)
    BY <2>3 DEF Used, Knows
  <2>5. ASSUME Strong PROVE Strong'
    <3>1. \A u \in Uuid : Used(u)' => files'[u].quick \in {NoHash, files'[u].hash}
      BY <2>3, <2>4, <2>5 DEF Strong
    <3>2. locations'[i].uuid \in Uuid /\ Used(locations'[i].uuid)
      <4>1. CASE i \in At(Mount, e.path) /\ locations'[i].uuid = locations[i].uuid
        BY <2>3, <2>5, <4>1 DEF Strong, At, Live
      <4>2. CASE locations'[i].uuid = UuidOf(e.hash)
        <5>1. WithHash(e.hash) # {}
          BY <1>1, <1>2, <2>5 DEF Strong, WithHash
        <5>2. UuidOf(e.hash) \in WithHash(e.hash)
          BY <5>1 DEF UuidOf
        <5> QED BY <4>2, <5>2 DEF WithHash
      <4> QED BY <2>2, <4>1, <4>2
    <3>3. \A j \in LocId : locations'[j] # NoLoc => locations'[j].uuid \in Uuid
                                                    /\ Used(locations'[j].uuid)
      BY <2>2, <2>5, <3>2 DEF Strong
    <3> QED BY <1>3, <2>3, <3>1, <3>3 DEF Strong, Used
  <2>6. ASSUME Weak PROVE Weak'
    <3>1. PICK u \in Uuid : Knows(u, e.hash)
      BY <1>1, <1>2, <2>6 DEF Weak
    <3>2. ASSUME NEW j \in LocId, locations'[j] # NoLoc
          PROVE  \/ locations'[j].uuid \in Uuid /\ Used(locations'[j].uuid)
                 \/ \E v \in Uuid : Knows(v, locations'[j].hash)
      BY <2>2, <2>6, <3>1, <3>2 DEF Weak
    <3> QED BY <1>3, <2>3, <3>2 DEF Weak, Used, Knows
  <2> QED BY <2>5, <2>6
<1> QED BY <1>1, <1>4, <1>5 DEF PersistLocation

LEMMA PromoteKnown ==
    ASSUME LibInv, Promote, Strong
    PROVE  Weak'
<1>1. verify.uuid \in Uuid /\ verify.hash \in Hash /\ Here \in Device
  BY LibraryAssumption DEF LibInv, LibTypeOK, Promote
<1>2. Stamp \in Nat /\ TypeOK
  BY StampType DEF LibInv, IInv
<1>3. locations' = locations /\ row' = row
  BY DEF Promote, promote_full_hash, Fails, storage_error, VerifyKeeps, scanVars
<1>4. \A v \in Uuid : Used(v) => Used(v)' /\ files'[v].quick = files[v].quick
  <2>1. CASE promote_full_hash(Stamp, verify.uuid, verify.hash, Here)
    BY <1>1, <1>2, <2>1, PromoteRow
  <2>2. CASE Fails
    BY <2>2 DEF Fails, storage_error, Used
  <2> QED BY <2>1, <2>2 DEF Promote
<1>5. \A i \in LocId : locations[i] # NoLoc => locations[i].uuid \in Uuid
                                               /\ files'[locations[i].uuid] # NoFile
  BY <1>4 DEF Strong, Used
<1>6. AtLocation => \E u \in Uuid : Used(u)' /\ files'[u].quick = row.result.hash
  BY <1>4 DEF Strong
<1> QED BY <1>3, <1>5, <1>6 DEF Weak, Used, Knows, AtLocation

LEMMA KnownStep ==
    ASSUME LibInv, KnownInv, [LibNext]_libVars
    PROVE  KnownInv'
<1> LibTypeOK /\ TypeOK
  BY DEF LibInv, IInv
<1>1. ASSUME UNCHANGED verifyVars, (Strong => Strong') /\ (Weak => Weak')
      PROVE  KnownInv'
  BY <1>1 DEF KnownInv, Unpromoted, verifyVars
<1>2. ASSUME UNCHANGED <<files, locations>>, AtLocation' => AtLocation /\ row' = row
      PROVE  (Strong => Strong') /\ (Weak => Weak')
  BY <1>2, KeptRowsKnown DEF RowsKept
<1>3. CASE Scan
  <2>1. UNCHANGED verifyVars
    BY <1>3, ScanTypes
  <2>2. CASE OnPersist
    <3>1. row \in Persisting /\ row.result \in Results
      BY <2>2 DEF LibTypeOK, OnPersist, Persisting
    <3>2. row.result.path \in Path /\ Here \in Device /\ Mount \in Volume /\ "stale" \in Status
          /\ Stamp \in Nat
      BY <3>1, LibraryAssumption, StampType DEF Results, Status, LibInv
    <3>3. ~ AtLocation'
      BY <2>2 DEF OnPersist, AtLocation
    <3>4. CASE migrate_sentinel_row(Stamp, row.result.path, Mount, Here)
      BY <1>1, <2>1, <3>2, <3>3, <3>4, CommandsKeepRows, KeptRowsKnown
    <3>5. CASE Fails
      BY <1>1, <1>2, <2>1, <3>3, <3>5 DEF Fails, storage_error
    <3> QED BY <2>2, <3>4, <3>5 DEF OnPersist
  <2>3. CASE PersistFile \/ PersistLocation
    BY <1>1, <2>1, <2>3, PersistFileKnown, PersistLocationKnown
  <2>4. ASSUME Scan, ~ PersistFile, ~ PersistLocation, ~ OnPersist
        PROVE  UNCHANGED <<files, locations>> /\ (row' = row \/ row'.step = "file")
    BY <2>4 DEF Scan, BeginScan, Cancel, WalkEnds, EndScan, Walk, StatAndLookup, HashMiss,
                CacheFresh, TakeResult, scanVars, vars
  <2>5. CASE ~ PersistFile /\ ~ PersistLocation /\ ~ OnPersist
    <3>1. AtLocation' => AtLocation /\ row' = row
      BY <1>3, <2>4, <2>5 DEF AtLocation
    <3> QED BY <1>1, <1>2, <1>3, <2>1, <2>4, <2>5, <3>1
  <2> QED BY <2>2, <2>3, <2>5
<1>4. CASE Edit \/ UNCHANGED libVars
  <2>1. UNCHANGED <<files, locations, row>> /\ UNCHANGED verifyVars
    BY <1>4 DEF Edit, CreateFile, WriteFile, DeleteFile, RenameFile, Happened, vars, scanVars,
                verifyVars, libVars
  <2> QED BY <1>1, <1>2, <2>1 DEF AtLocation
<1>5. CASE record_file_event
  <2> DEFINE e == Head(events)
  <2>1. e \in Event /\ e.path \in Path /\ e.to \in Path /\ Here \in Device /\ Mount \in Volume
    <3>1. events \in Seq(Event) /\ events # <<>>
      BY <1>5 DEF LibTypeOK, record_file_event
    <3>2. e \in Event
      BY <3>1
    <3> QED BY <3>2, LibraryAssumption DEF Event
  <2>2. "stale" \in Status /\ "missing" \in Status /\ Stamp \in Nat
    BY StampType DEF Status, LibInv
  <2>3. row' = row /\ UNCHANGED verifyVars
    BY <1>5 DEF record_file_event, scanVars
  <2>4. \/ update_location_status(Stamp, Mount, e.path, "stale", Here)
        \/ update_location_status(Stamp, Mount, e.path, "missing", Here)
        \/ update_location_path(Stamp, Mount, e.path, e.to, Here)
        \/ Fails
    BY <1>5 DEF record_file_event
  <2> HIDE DEF e
  <2>5. RowsKept /\ UNCHANGED files
    <3>1. CASE Fails
      BY <3>1 DEF Fails, storage_error, RowsKept
    <3> QED BY <2>1, <2>2, <2>4, <3>1, CommandsKeepRows
  <2> QED BY <1>1, <2>3, <2>5, KeptRowsKnown DEF AtLocation
<1>6. CASE Promote
  <2>1. verify # NoJob /\ verify' = NoJob /\ verifies' = verifies /\ verifies \in Nat
    BY <1>6 DEF Promote, LibTypeOK
  <2>2. ~ Unpromoted'
    BY <2>1 DEF KnownInv, Unpromoted
  <2>3. verifies' <= 1 => Strong
    BY <2>1 DEF KnownInv, Unpromoted
  <2> QED BY <1>6, <2>1, <2>2, <2>3, PromoteKnown DEF KnownInv
<1>7. ASSUME ReadWhole \/ \E u \in Uuid : LookUpByUuid(u)
      PROVE  KnownInv'
  <2>1. UNCHANGED <<files, locations, row>>
    BY <1>7 DEF ReadWhole, LookUpByUuid, VerifyKeeps, vars, scanVars
  <2>2. (Strong => Strong') /\ (Weak => Weak')
    BY <1>2, <2>1 DEF AtLocation
  <2>3. verifies \in Nat
    BY DEF LibTypeOK
  <2>4. CASE ReadWhole
    <3>1. verify # NoJob /\ verifies' = verifies
      BY <2>4 DEF ReadWhole
    <3>2. Unpromoted' => Unpromoted
      BY <3>1 DEF Unpromoted
    <3> QED BY <2>2, <3>1, <3>2 DEF KnownInv
  <2>5. CASE \E u \in Uuid : LookUpByUuid(u)
    <3>1. verify = NoJob /\ verifies' = verifies + 1
      BY <2>5 DEF LookUpByUuid
    <3>2. Unpromoted' => Unpromoted
      BY <2>3, <3>1 DEF Unpromoted
    <3>3. verifies' <= 1 => verifies <= 1 /\ verifies' # 0
      BY <2>3, <3>1
    <3>4. verifies' # 0
      BY <2>3, <3>1
    <3> QED BY <2>2, <3>2, <3>3, <3>4 DEF KnownInv
  <2> QED BY <1>7, <2>4, <2>5
<1> QED BY <1>3, <1>4, <1>5, <1>6, <1>7 DEF LibNext, Verify

LEMMA InitialKnown == LibInit => KnownInv
<1> SUFFICES ASSUME LibInit PROVE KnownInv
  OBVIOUS
<1>1. verifies = 0 /\ verify = NoJob /\ row = NoJob
  BY DEF LibInit
<1>2. Strong
  <2>1. PICK u \in Uuid, g \in Hash, s \in Size, d \in Device, at \in [LegacyLocs -> Path] :
           /\ files = [v \in Uuid |->
                        IF v = u /\ LegacyLocs # {}
                          THEN [hash |-> g, size |-> s, quick |-> NoHash, device |-> d,
                                hlc |-> 0, distinct |-> 0]
                          ELSE NoFile]
           /\ locations = [i \in LocId |->
                            IF i \in LegacyLocs
                              THEN [hash |-> g, uuid |-> u, volume |-> Nil, path |-> at[i],
                                    status |-> "active", deleted_at |-> 0,
                                    device |-> d, hlc |-> 0]
                              ELSE NoLoc]
    BY DEF LibInit, Init
  <2> DEFINE r == [hash |-> g, size |-> s, quick |-> NoHash, device |-> d,
                   hlc |-> 0, distinct |-> 0]
  <2>2. r \in FileRow /\ r.quick = NoHash
    BY DEF FileRow
  <2>3. r # NoFile
    BY <2>2, FileStoreAssumption
  <2>4. files = [v \in Uuid |-> IF v = u /\ LegacyLocs # {} THEN r ELSE NoFile]
    BY <2>1
  <2> HIDE DEF r
  <2>5. \A v \in Uuid : Used(v) => files[v].quick = NoHash
    BY <2>2, <2>4 DEF Used
  <2>6. \A i \in LocId : locations[i] # NoLoc => i \in LegacyLocs /\ locations[i].uuid = u
    BY <2>1
  <2>7. LegacyLocs # {} => Used(u)
    BY <2>3, <2>4 DEF Used
  <2> QED BY <1>1, <2>5, <2>6, <2>7 DEF Strong, AtLocation
<1> QED BY <1>1, <1>2, StrongIsWeak DEF KnownInv
-----------------------------------------------------------------------------
LEMMA InitialPhases == LibInit => DiskInv /\ PhaseInv /\ ScanInv
BY DEF LibInit, DiskInv, On, PhaseInv, ScanInv, Quiet

LEMMA LibInductive == LibSpec => [](LibInv /\ DiskInv /\ PhaseInv /\ ScanInv /\ KnownInv)
<1>1. LibInit => LibInv /\ DiskInv /\ PhaseInv /\ ScanInv /\ KnownInv
  BY InitialTypes, InitialPhases, InitialKnown
<1>2. LibInv /\ DiskInv /\ PhaseInv /\ ScanInv /\ KnownInv /\ [LibNext]_libVars
        => (LibInv /\ DiskInv /\ PhaseInv /\ ScanInv /\ KnownInv)'
  BY TypesStep, DiskStep, PhaseStep, ScanStep, KnownStep
<1> QED BY <1>1, <1>2, PTL DEF LibSpec

\* The scan, the watcher and the full hash keep the tables, the directory and
\* what they hold in hand well-formed, and with them the tables' own invariant:
\* one live row of this version's at a path.
THEOREM LibraryTypeCorrect == LibSpec => [](LibTypeOK /\ OneFreshPerPath)
<1>1. LibInv => LibTypeOK /\ OneFreshPerPath
  BY DEF LibInv, IInv
<1> QED BY <1>1, LibInductive, PTL

\* A scan nothing interfered with leaves every file on disk a live row with its
\* digest, whatever edits, watcher events, interrupted scans and failed
\* transactions came before, as long as the cache's row of the file is honest.
THEOREM ScansTellTheDisk == LibSpec => []ScanTellsDisk
<1>1. LibInv /\ DiskInv /\ PhaseInv /\ ScanInv => ScanTellsDisk
  BY ScanTold
<1> QED BY <1>1, LibInductive, PTL

\* Up to the second promotion each live location is known to some row of
\* `files`, by its hash, its quick_hash or its file_uuid.
THEOREM LiveRowsStayKnown == LibSpec => []LiveRowsHaveFile
<1>1. LibInv /\ KnownInv => LiveRowsHaveFile
  <2>1. ASSUME Weak, NEW i \in LocId, Live(i)
        PROVE  \E u \in Uuid : /\ Used(u)
                               /\ \/ locations[i].hash \in {files[u].hash, files[u].quick}
                                  \/ locations[i].uuid = u
    BY <2>1 DEF Weak, Knows, Live
  <2> QED BY <2>1 DEF KnownInv, LiveRowsHaveFile, RowsKnown
<1> QED BY <1>1, LibInductive, PTL
=============================================================================
