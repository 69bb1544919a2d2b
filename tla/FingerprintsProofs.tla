----------------------- MODULE FingerprintsProofs -----------------------
(***************************************************************************)
(* Volumes, listings, backfill and verification, for any disks, mount      *)
(* points, files and jobs, and scans at any time: a digest is of the bytes *)
(* of its own file, a listed path is the file's own, and the backfill      *)
(* tells what it filled in.                                                *)
(***************************************************************************)
EXTENDS Fingerprints, FiniteSetTheorems, TLAPS

\* MIN() of some numbers is one of them, and the least.
LEMMA LeastIsIn ==
    ASSUME NEW S, S \subseteq Nat, S # {}
    PROVE  Least(S) \in S /\ \A m \in S : Least(S) <= m
<1> DEFINE T == {0..n : n \in S}
<1>1. T \subseteq FiniteSubsetsOf(Nat) /\ T # {}
  <2>1. ASSUME NEW n \in S PROVE 0..n \in SUBSET Nat /\ IsFiniteSet(0..n)
    BY FS_Interval, 0 \in Int, n \in Int
  <2> QED BY <2>1 DEF FiniteSubsetsOf
<1>2. PICK x \in T : \A y \in T : ~ (<<y, x>> \in StrictSubsetOrdering(Nat))
  <2> HIDE DEF T
  <2>1. IsWellFoundedOn(StrictSubsetOrdering(Nat), FiniteSubsetsOf(Nat))
    BY FS_StrictSubsetOrderingWellFounded
  <2> QED BY <1>1, <2>1, WFMin, Zenon
<1>3. PICK n \in S : x = 0..n
  OBVIOUS
<1>4. ASSUME NEW m \in S PROVE n <= m
  <2>1. 0..m \in SUBSET Nat /\ 0..n \in SUBSET Nat /\ 0..m \in T
    OBVIOUS
  <2>2. ~ (<<0..m, 0..n>> \in StrictSubsetOrdering(Nat))
    BY <1>2, <1>3, <2>1
  <2>3. ~ (0..m \subseteq 0..n /\ 0..m # 0..n)
    BY <2>1, <2>2 DEF StrictSubsetOrdering
  <2>4. n \in Nat /\ m \in Nat
    OBVIOUS
  <2>5. m < n => 0..m \subseteq 0..n /\ n \notin 0..m /\ n \in 0..n
    BY <2>4
  <2> QED BY <2>3, <2>4, <2>5
<1> QED BY <1>4 DEF Least
-----------------------------------------------------------------------------
(***************************************************************************)
(* The tables of Volumes.                                                  *)
(***************************************************************************)
Told == [full : BOOLEAN, of : Content]
FileRow == [hash : Told, quick : Content \cup {NoContent}]
FileTable == [Uuid -> FileRow \cup {NoRow}]
Loc == [uuid : Uuid, hash : Told, vol : Ident, rel : Rel]
Task == [step : {"idle", "find", "record", "index"}, point : Point,
         ident : Ident \cup {NoIdent}, todo : SUBSET Rel]
Paths == [point : Point, rel : Rel]

\* blake3_hash is a key.
UniqueHash(F) ==
    \A u, v \in Uuid : F[u] # NoRow /\ F[v] # NoRow /\ F[u].hash = F[v].hash => u = v

\* No row goes.
Grows(F, G) == \A u \in Uuid : F[u] # NoRow => G[u] # NoRow

\* A location is one of a volume and a path, and of a row of `files`.
LocTable(F, L) ==
    /\ L \subseteq Loc
    /\ \A l, k \in L : l.vol = k.vol /\ l.rel = k.rel => l = k
    /\ \A l \in L : F[l.uuid] # NoRow

\* No location goes, or gets another file.
Stays(L, M) ==
    \A l \in L : \E k \in M : k.uuid = l.uuid /\ k.vol = l.vol /\ k.rel = l.rel

\* What a task has detected is the identifiers of a disk, and a machine has a
\* volume in one place.
VolInv ==
    /\ os \in [Point -> Disk \cup {NoDisk}]
    /\ files \in FileTable /\ UniqueHash(files)
    /\ LocTable(files, locs)
    /\ mounts \subseteq [vol : Ident, machine : Machine, point : Point]
    /\ \A m, n \in mounts : m.vol = n.vol /\ m.machine = n.machine => m = n
    /\ shell \in [Shell -> Task]
    /\ \A s \in Shell : shell[s].step # "idle" => shell[s].ident \in Ident

LEMMA BytesType ==
    ASSUME os \in [Point -> Disk \cup {NoDisk}], NEW path \in Paths
    PROVE  /\ Bytes(path) \in Content \cup {NoContent}
           /\ path.point \in Point /\ path.rel \in Rel
<1>1. path.point \in Point /\ path.rel \in Rel
  BY DEF Paths
<1>2. CASE os[path.point] = NoDisk
  BY <1>1, <1>2 DEF Bytes
<1>3. CASE os[path.point] # NoDisk
  <2>1. os[path.point] \in Disk
    BY <1>1, <1>3
  <2>2. Holds[os[path.point]] \in [Rel -> Content \cup {NoContent}]
    BY <2>1, VolumesAssumption
  <2> QED BY <1>1, <1>3, <2>2 DEF Bytes
<1> QED BY <1>1, <1>2, <1>3

\* A path rebuilt from locations is one of a mount point and a file.
LEMMA ActivePathType ==
    ASSUME VolInv, NEW L \in SUBSET locs, NEW path \in ActivePath(L)
    PROVE  path \in Paths /\ L # {}
<1> DEFINE N == {n \in mounts : \E l \in L : l.vol = n.vol}
           points == {m.point : m \in N}
           rels == {l.rel : l \in L}
<1>1. points # {} /\ path = [point |-> Least(points), rel |-> Least(rels)]
  BY DEF ActivePath
<1>2. points \subseteq Point /\ rels \subseteq Rel /\ L # {}
  BY <1>1 DEF VolInv, LocTable, Loc
<1>3. rels # {}
  BY <1>2
<1> HIDE DEF points, rels
<1>4. Least(points) \in points /\ Least(rels) \in rels
  BY <1>1, <1>2, <1>3, LeastIsIn, VolumesAssumption
<1> QED BY <1>1, <1>2, <1>4 DEF Paths

\* UpsertFile keeps the key, and leaves a row under the hash.
LEMMA UpsertFileKeeps ==
    ASSUME NEW F \in FileTable, UniqueHash(F), NEW h \in Told,
           NEW q \in Content \cup {NoContent}, RowsOf(F, h) # {} \/ Unused(F) # {}
    PROVE  LET G == upsert_file_with_quick_hash(F, h, q)
           IN  G \in FileTable /\ UniqueHash(G) /\ Grows(F, G) /\ RowsOf(G, h) # {}
<1> DEFINE G == upsert_file_with_quick_hash(F, h, q)
<1>1. \A u \in Uuid : F[u] # NoRow => F[u] \in FileRow
  BY DEF FileTable
<1>2. ASSUME NEW r \in FileRow
      PROVE  [r EXCEPT !.quick = q] \in FileRow /\ [r EXCEPT !.quick = q].hash = r.hash
  BY DEF FileRow
<1>3. \A r \in FileRow : r # NoRow
  BY VolumesAssumption DEF FileRow, Told
<1>4. CASE RowsOf(F, h) # {}
  <2>1. G = [u \in Uuid |-> IF u \in RowsOf(F, h) /\ F[u].quick = NoContent
                              THEN [F[u] EXCEPT !.quick = q] ELSE F[u]]
    BY <1>4 DEF upsert_file_with_quick_hash
  <2>2. \A u \in RowsOf(F, h) : F[u] # NoRow
    BY DEF RowsOf
  <2>3. \A u \in Uuid : \/ F[u] = NoRow /\ G[u] = NoRow
                        \/ /\ F[u] # NoRow /\ G[u] # NoRow /\ G[u] \in FileRow
                           /\ G[u].hash = F[u].hash
    BY <1>1, <1>2, <1>3, <2>1, <2>2
  <2>4. G \in FileTable
    BY <2>1, <2>3 DEF FileTable
  <2> HIDE DEF G
  <2>5. UniqueHash(G) /\ Grows(F, G) /\ RowsOf(G, h) # {}
    BY <1>4, <2>3 DEF UniqueHash, Grows, RowsOf
  <2> QED BY <2>4, <2>5 DEF G
<1>5. CASE RowsOf(F, h) = {}
  <2> DEFINE v == CHOOSE u \in Unused(F) : TRUE
             r == [hash |-> h, quick |-> q]
  <2>1. G = [F EXCEPT ![v] = r]
    BY <1>5 DEF upsert_file_with_quick_hash
  <2>2. v \in Uuid /\ F[v] = NoRow
    BY <1>5 DEF Unused
  <2>3. r \in FileRow /\ r # NoRow /\ r.hash = h
    BY <1>3 DEF FileRow
  <2> HIDE DEF v, r, G
  <2>4. G \in FileTable /\ G[v] = r /\ \A u \in Uuid : u # v => G[u] = F[u]
    BY <2>1, <2>2, <2>3 DEF FileTable
  <2>5. \A u \in Uuid : F[u] # NoRow => F[u].hash # h
    BY <1>5 DEF RowsOf
  <2>6. UniqueHash(G)
    BY <2>3, <2>4, <2>5 DEF UniqueHash
  <2>7. Grows(F, G) /\ RowsOf(G, h) # {}
    BY <2>2, <2>3, <2>4 DEF Grows, RowsOf
  <2> QED BY <2>4, <2>6, <2>7 DEF G
<1> QED BY <1>4, <1>5

\* Giving a row a hash that no other row has.
LEMMA PromoteKeeps ==
    ASSUME NEW F \in FileTable, UniqueHash(F), NEW h \in Told, NEW v \in Uuid,
           F[v] # NoRow, RowsOf(F, h) \subseteq {v}
    PROVE  LET G == [F EXCEPT ![v].hash = h]
           IN  G \in FileTable /\ UniqueHash(G) /\ Grows(F, G)
<1> DEFINE G == [F EXCEPT ![v].hash = h]
           r == [F[v] EXCEPT !.hash = h]
<1>1. F[v] \in FileRow
  BY DEF FileTable
<1>2. r \in FileRow /\ r.hash = h
  BY <1>1 DEF FileRow
<1>3. r # NoRow
  BY <1>2, VolumesAssumption DEF FileRow, Told
<1>4. G = [F EXCEPT ![v] = r]
  OBVIOUS
<1> HIDE DEF r, G
<1>5. G \in FileTable /\ G[v] = r /\ \A u \in Uuid : u # v => G[u] = F[u]
  BY <1>2, <1>4 DEF FileTable
<1>6. \A u \in Uuid : u # v /\ F[u] # NoRow => F[u].hash # h
  BY DEF RowsOf
<1>7. UniqueHash(G)
  BY <1>2, <1>5, <1>6 DEF UniqueHash
<1>8. Grows(F, G)
  BY <1>3, <1>5 DEF Grows
<1> QED BY <1>5, <1>7, <1>8 DEF G

\* UpsertLocation keeps its key too.
LEMMA UpsertLocationKeeps ==
    ASSUME NEW F \in FileTable, NEW L, LocTable(F, L), NEW h \in Told, RowsOf(F, h) # {},
           NEW vol \in Ident, NEW rel \in Rel
    PROVE  LET M == upsert_location(F, L, h, vol, rel)
           IN  LocTable(F, M) /\ Stays(L, M)
<1> DEFINE M == upsert_location(F, L, h, vol, rel)
           here == {l \in L : l.vol = vol /\ l.rel = rel}
<1>1. CASE here = {}
  <2> DEFINE u == CHOOSE u \in RowsOf(F, h) : TRUE
             k == [uuid |-> u, hash |-> h, vol |-> vol, rel |-> rel]
  <2>1. M = L \cup {k}
    BY <1>1 DEF upsert_location
  <2>2. u \in Uuid /\ F[u] # NoRow
    BY DEF RowsOf
  <2>3. k \in Loc /\ k.uuid = u /\ k.vol = vol /\ k.rel = rel
    BY <2>2 DEF Loc
  <2> HIDE DEF u, k, M
  <2>4. LocTable(F, M) /\ Stays(L, M)
    BY <1>1, <2>1, <2>2, <2>3 DEF LocTable, Stays
  <2> QED BY <2>4 DEF M
<1>2. CASE here # {}
  <2>1. PICK l \in L : l.vol = vol /\ l.rel = rel
    BY <1>2
  <2>2. here = {l}
    BY <2>1 DEF LocTable
  <2> DEFINE k == [l EXCEPT !.hash = h]
  <2>3. M = (L \ {l}) \cup {k}
    BY <1>2, <2>2 DEF upsert_location
  <2>4. k \in Loc /\ k.uuid = l.uuid /\ k.vol = l.vol /\ k.rel = l.rel
    BY DEF LocTable, Loc
  <2> HIDE DEF k, M, here
  <2>5. \A m \in M : (m \in L /\ m # l) \/ m = k
    BY <2>3
  <2>6. LocTable(F, M)
    BY <2>1, <2>4, <2>5 DEF LocTable
  <2>7. Stays(L, M)
    BY <2>3, <2>4 DEF Stays
  <2> QED BY <2>6, <2>7 DEF M
<1> QED BY <1>1, <1>2

LEMMA LocTableGrows ==
    ASSUME NEW F, NEW G, NEW L, LocTable(F, L), Grows(F, G)
    PROVE  LocTable(G, L)
<1>1. \A l \in L : l.uuid \in Uuid
  BY DEF LocTable, Loc
<1> QED BY <1>1 DEF LocTable, Grows

\* The library before the fingerprint.
LEMMA VolInitial ==
    ASSUME VolInit
    PROVE  VolInv
<1> USE VolumesAssumption
<1> DEFINE C == {Legacy[r] : r \in Rel} \ {NoContent}
           id == LegacyRow
<1>1. Legacy \in [Rel -> Content \cup {NoContent}] /\ IdentOf[LegacyDisk] \in Ident
  BY DEF Legacy
<1>2. id \in LegacyRows
  BY LegacyAssumption DEF LegacyRow
<1>3. id \in [C -> Uuid] /\ \A c, d \in C : c # d => id[c] # id[d]
  BY <1>2 DEF LegacyRows
<1>4. C \subseteq Content
  BY <1>1
<1>5. Least(Point) \in Point
  BY LeastIsIn
<1> DEFINE of(u) == CHOOSE c \in C : id[c] = u
           row(u) == [hash |-> [full |-> FALSE, of |-> of(u)], quick |-> NoContent]
           owned(u) == \E c \in C : id[c] = u
<1>6. files = [u \in Uuid |-> IF owned(u) THEN row(u) ELSE NoRow]
  BY <1>3, Zenon DEF VolInit
<1>7. ASSUME NEW u \in Uuid, owned(u)
      PROVE  of(u) \in C /\ id[of(u)] = u
  BY <1>7
<1>8. ASSUME NEW u \in Uuid, owned(u)
      PROVE  /\ row(u) \in FileRow /\ row(u) # NoRow /\ row(u).hash.of = of(u)
             /\ row(u).hash \in Told
  <2>1. of(u) \in Content
    BY <1>4, <1>7, <1>8
  <2> HIDE DEF of
  <2>2. row(u).hash \in Told /\ row(u).hash.of = of(u)
    BY <2>1 DEF Told
  <2>3. row(u) \in FileRow
    BY <2>2 DEF FileRow
  <2> QED BY <2>2, <2>3, VolumesAssumption DEF FileRow, Told
<1>9. ASSUME NEW c \in C
      PROVE  id[c] \in Uuid /\ owned(id[c])
  BY <1>3
<1>10. \A r \in Rel : Legacy[r] # NoContent => Legacy[r] \in C /\ Legacy[r] \in Content
  BY <1>4
<1> HIDE DEF C, id, of, row, owned
<1>11. files \in FileTable
  <2>1. \A u \in Uuid : (IF owned(u) THEN row(u) ELSE NoRow) \in FileRow \cup {NoRow}
    BY <1>8
  <2> QED BY <1>6, <2>1 DEF FileTable
<1>12. UniqueHash(files)
  <2>1. ASSUME NEW u \in Uuid, NEW v \in Uuid, files[u] # NoRow, files[v] # NoRow,
               files[u].hash = files[v].hash
        PROVE  u = v
    <3>1. owned(u) /\ owned(v) /\ files[u] = row(u) /\ files[v] = row(v)
      BY <1>6, <2>1
    <3>2. of(u) = of(v)
      BY <1>8, <2>1, <3>1
    <3> QED BY <1>7, <3>1, <3>2
  <2> QED BY <2>1 DEF UniqueHash
<1>13. LocTable(files, locs)
  <2> DEFINE k(r) == [uuid |-> id[Legacy[r]], hash |-> [full |-> FALSE, of |-> Legacy[r]],
                      vol |-> IdentOf[LegacyDisk], rel |-> r]
             R == {q \in Rel : Legacy[q] # NoContent}
  <2>1. locs = {k(r) : r \in R}
    BY DEF VolInit, id
  <2>2. ASSUME NEW r \in R
        PROVE  /\ k(r) \in Loc /\ k(r).rel = r
               /\ files[k(r).uuid] # NoRow
    <3>1. Legacy[r] \in C /\ Legacy[r] \in Content
      BY <1>10
    <3>2. id[Legacy[r]] \in Uuid /\ files[id[Legacy[r]]] # NoRow
      BY <1>6, <1>8, <1>9, <3>1
    <3>3. [full |-> FALSE, of |-> Legacy[r]] \in Told
      BY <3>1 DEF Told
    <3> QED BY <1>1, <3>2, <3>3 DEF Loc
  <2> HIDE DEF k
  <2> QED BY <2>1, <2>2 DEF LocTable
<1>14. os \in [Point -> Disk \cup {NoDisk}]
  BY DEF VolInit
<1>15. mounts \subseteq [vol : Ident, machine : Machine, point : Point]
       /\ \A m, n \in mounts : m = n
  BY <1>1, <1>5 DEF VolInit
<1>16. shell \in [Shell -> Task] /\ \A s \in Shell : shell[s].step = "idle"
  BY <1>5 DEF VolInit, Task
<1> QED BY <1>11, <1>12, <1>13, <1>14, <1>15, <1>16 DEF VolInv

VolKept == VolInv' /\ Grows(files, files') /\ Stays(locs, locs')

LEMMA VolStutters ==
    ASSUME VolInv, UNCHANGED <<os, mounts, files, locs, shell>>
    PROVE  VolKept
<1>1. Grows(files, files') /\ Stays(locs, locs')
  BY DEF Grows, Stays
<1> QED BY <1>1 DEF VolKept, VolInv, UniqueHash, LocTable

\* Commands of other actors on `files`.
LEMMA FilesStep ==
    ASSUME VolInv, UNCHANGED <<os, mounts, locs, shell>>,
           files' \in FileTable, UniqueHash(files'), Grows(files, files')
    PROVE  VolKept
<1>1. LocTable(files', locs)
  BY LocTableGrows DEF VolInv
<1>2. Stays(locs, locs')
  BY DEF Stays
<1> QED BY <1>1, <1>2 DEF VolKept, VolInv, LocTable

LEMMA PersistStep ==
    ASSUME VolInv, NEW s \in Shell, NEW rel \in Rel, persist_file(s, rel)
    PROVE  VolKept
<1> DEFINE c == Bytes([point |-> shell[s].point, rel |-> rel])
           h == [full |-> FALSE, of |-> c]
           rest == shell[s].todo \ {rel}
<1>1. /\ shell[s].step = "index"
      /\ \/ c = NoContent /\ UNCHANGED <<files, locs>>
         \/ /\ c # NoContent
            /\ RowsOf(files, h) # {} \/ Unused(files) # {}
            /\ files' = upsert_file_with_quick_hash(files, h, c)
            /\ locs' = upsert_location(files', locs, h, shell[s].ident, rel)
      /\ shell' = [shell EXCEPT ![s].todo = rest,
                                ![s].step = IF rest = {} THEN "idle" ELSE "index"]
      /\ UNCHANGED <<os, mounts>>
  BY Zenon DEF persist_file
<1>2. shell[s] \in Task /\ shell[s].ident \in Ident /\ shell[s].point \in Point
  BY <1>1 DEF VolInv, Task
<1>3. [point |-> shell[s].point, rel |-> rel] \in Paths
  BY <1>2 DEF Paths
<1>4. c \in Content \cup {NoContent}
  BY <1>3, BytesType DEF VolInv
<1>5. shell' \in [Shell -> Task] /\ \A t \in Shell : shell'[t].step # "idle" => shell'[t].ident \in Ident
  <2> DEFINE t == [shell[s] EXCEPT !.todo = rest, !.step = IF rest = {} THEN "idle" ELSE "index"]
  <2>1. t \in Task /\ t.ident = shell[s].ident
    BY <1>2 DEF Task
  <2>2. shell' = [shell EXCEPT ![s] = t]
    BY <1>1
  <2> HIDE DEF t
  <2> QED BY <1>2, <2>1, <2>2 DEF VolInv
<1> HIDE DEF c
<1>6. CASE UNCHANGED <<files, locs>>
  <2>1. Grows(files, files') /\ Stays(locs, locs')
    BY <1>6 DEF Grows, Stays
  <2> QED BY <1>1, <1>5, <1>6, <2>1 DEF VolKept, VolInv, UniqueHash, LocTable
<1>7. CASE /\ c # NoContent
           /\ RowsOf(files, h) # {} \/ Unused(files) # {}
           /\ files' = upsert_file_with_quick_hash(files, h, c)
           /\ locs' = upsert_location(files', locs, h, shell[s].ident, rel)
  <2>1. h \in Told
    BY <1>4, <1>7 DEF Told
  <2> HIDE DEF h
  <2>2. files' \in FileTable /\ UniqueHash(files') /\ Grows(files, files') /\ RowsOf(files', h) # {}
    BY <1>4, <1>7, <2>1, UpsertFileKeeps DEF VolInv
  <2>3. LocTable(files', locs)
    BY <2>2, LocTableGrows DEF VolInv
  <2>4. LocTable(files', locs') /\ Stays(locs, locs')
    BY <1>2, <1>7, <2>1, <2>2, <2>3, UpsertLocationKeeps
  <2> QED BY <1>1, <1>5, <2>2, <2>4 DEF VolKept, VolInv
<1> QED BY <1>1, <1>6, <1>7

LEMMA RecordStep ==
    ASSUME VolInv, NEW s \in Shell, record_mount(s)
    PROVE  VolKept
<1> DEFINE row == [vol |-> shell[s].ident, machine |-> MachineOf[s], point |-> shell[s].point]
           gone == retired(row)
           t == [shell[s] EXCEPT !.step = IF shell[s].todo = {} THEN "idle" ELSE "index"]
<1>1. /\ shell[s].step = "record"
      /\ mounts' = (mounts \ gone) \cup {row}
      /\ shell' = [shell EXCEPT ![s] = t]
      /\ UNCHANGED <<os, files, locs>>
  BY DEF record_mount
<1>2. shell[s] \in Task /\ shell[s].ident \in Ident /\ shell[s].point \in Point
  BY <1>1 DEF VolInv, Task
<1>3. t \in Task /\ t.ident = shell[s].ident
  BY <1>2 DEF Task
<1>4. row \in [vol : Ident, machine : Machine, point : Point]
  BY <1>2, VolumesAssumption
<1>5. \A m \in mounts \ gone : m.vol = row.vol /\ m.machine = row.machine => m = row
  <2>1. ASSUME NEW m \in mounts \ gone, m.vol = row.vol, m.machine = row.machine
        PROVE  m = row
    <3>1. m.point = row.point
      BY <2>1 DEF retired
    <3>2. m \in [vol : Ident, machine : Machine, point : Point]
      BY DEF VolInv
    <3> HIDE DEF row
    <3> QED BY <1>4, <2>1, <3>1, <3>2
  <2> QED BY <2>1
<1> HIDE DEF row, gone, t
<1>6. /\ mounts' \subseteq [vol : Ident, machine : Machine, point : Point]
      /\ \A m, n \in mounts' : m.vol = n.vol /\ m.machine = n.machine => m = n
  BY <1>1, <1>4, <1>5 DEF VolInv
<1>7. shell' \in [Shell -> Task] /\ \A a \in Shell : shell'[a].step # "idle" => shell'[a].ident \in Ident
  BY <1>1, <1>2, <1>3 DEF VolInv
<1>8. Grows(files, files') /\ Stays(locs, locs')
  BY <1>1 DEF Grows, Stays
<1> QED BY <1>1, <1>6, <1>7, <1>8 DEF VolKept, VolInv, UniqueHash, LocTable

\* A step of the shells' tasks, or of the disks.
LEMMA VolStep ==
    ASSUME VolInv, VolNext
    PROVE  VolKept
<1>1. ASSUME NEW p \in Point, Unmount(p)
      PROVE  VolKept
  <2>1. os' \in [Point -> Disk \cup {NoDisk}] /\ UNCHANGED <<mounts, files, locs, shell>>
    BY <1>1 DEF Unmount, VolInv
  <2>2. Grows(files, files') /\ Stays(locs, locs')
    BY <2>1 DEF Grows, Stays
  <2> QED BY <2>1, <2>2 DEF VolKept, VolInv, UniqueHash, LocTable
<1>2. ASSUME NEW p \in Point, NEW d \in Disk, Mount(p, d)
      PROVE  VolKept
  <2>1. os' \in [Point -> Disk \cup {NoDisk}] /\ UNCHANGED <<mounts, files, locs, shell>>
    BY <1>2 DEF Mount, VolInv
  <2>2. Grows(files, files') /\ Stays(locs, locs')
    BY <2>1 DEF Grows, Stays
  <2> QED BY <2>1, <2>2 DEF VolKept, VolInv, UniqueHash, LocTable
<1>3. ASSUME NEW s \in Shell, NEW t \in Task, t.ident \in Ident,
             shell' = [shell EXCEPT ![s] = t], UNCHANGED <<os, mounts, files, locs>>
      PROVE  VolKept
  <2>1. /\ shell' \in [Shell -> Task]
        /\ \A a \in Shell : shell'[a].step # "idle" => shell'[a].ident \in Ident
    BY <1>3 DEF VolInv
  <2>2. Grows(files, files') /\ Stays(locs, locs')
    BY <1>3 DEF Grows, Stays
  <2> QED BY <1>3, <2>1, <2>2 DEF VolKept, VolInv, UniqueHash, LocTable
<1>4. ASSUME NEW s \in Shell, NEW p \in Point, NEW todo \in {{}, Rel}, detect_volume(s, p, todo)
      PROVE  VolKept
  <2> DEFINE t == [step |-> "find", point |-> p, ident |-> IdentOf[os[p]], todo |-> todo]
  <2>1. os[p] \in Disk
    BY <1>4 DEF detect_volume, VolInv
  <2>2. IdentOf[os[p]] \in Ident
    BY <2>1, VolumesAssumption
  <2>3. t \in Task /\ t.ident \in Ident
    BY <2>2 DEF Task
  <2>4. shell' = [shell EXCEPT ![s] = t] /\ UNCHANGED <<os, mounts, files, locs>>
    BY <1>4 DEF detect_volume
  <2> HIDE DEF t
  <2> QED BY <1>3, <2>3, <2>4
<1>5. ASSUME NEW s \in Shell, find_or_create(s)
      PROVE  VolKept
  <2> DEFINE t == [shell[s] EXCEPT !.step = "record"]
  <2>1. shell[s] \in Task /\ shell[s].ident \in Ident
    BY <1>5 DEF find_or_create, VolInv
  <2>2. t \in Task /\ t.ident \in Ident
    BY <2>1 DEF Task
  <2>3. shell' = [shell EXCEPT ![s] = t] /\ UNCHANGED <<os, mounts, files, locs>>
    BY <1>5 DEF find_or_create
  <2> HIDE DEF t
  <2> QED BY <1>3, <2>2, <2>3
<1> QED BY <1>1, <1>2, <1>4, <1>5, RecordStep, PersistStep DEF VolNext
-----------------------------------------------------------------------------
(***************************************************************************)
(* The backfill and the jobs of Fingerprints.                              *)
(***************************************************************************)
Row == [hash : Told, path : Paths]
Worker == [step : {"off", "next", "read", "write", "done"}, rows : SUBSET Row,
           row : Row \cup {NoFile}, quick : Content \cup {NoContent}, processed : Nat]
JobState == [step : {"none", "next", "hash", "update", "told", "over"}, todo : Seq(Uuid),
             total : Nat, done : Nat, path : Paths \cup {NoPath},
             hash : Told \cup {NoHash}, calm : BOOLEAN]

WorkerType ==
    /\ worker \in Worker
    /\ worker.step \in {"read", "write"} => worker.row \in Row
    /\ untold \in Nat

\* A job has files of the library before it, and what its step needs.
JobOk(F, r) ==
    /\ r \in JobState
    /\ \A i \in 1..Len(r.todo) : F[r.todo[i]] # NoRow
    /\ r.step \in {"hash", "update"} => r.todo # <<>> /\ r.path \in Paths
    /\ r.step = "update" => r.hash \in Told

JobsOk(F, J) == J = [j \in Job |-> J[j]] /\ \A j \in Job : JobOk(F, J[j])

TypeInv == VolInv /\ WorkerType /\ JobsOk(files, job)

\* What the backfill has not told is due at its end.
Announced ==
    /\ untold # 0 => told_at_last(worker.processed)
    /\ worker.step = "off" => untold = 0
    /\ worker.step = "done" => untold = 0

LEMMA JobGrows ==
    ASSUME NEW F, NEW G, NEW r, JobOk(F, r), Grows(F, G)
    PROVE  JobOk(G, r)
<1>1. r.todo \in Seq(Uuid)
  BY DEF JobOk, JobState
<1>2. \A i \in 1..Len(r.todo) : r.todo[i] \in Uuid
  BY <1>1
<1> QED BY <1>2 DEF JobOk, Grows

LEMMA JobsGrow ==
    ASSUME NEW F, NEW G, NEW J, JobsOk(F, J), Grows(F, G)
    PROVE  JobsOk(G, J)
BY JobGrows DEF JobsOk

LEMMA JobMoves ==
    ASSUME NEW F, NEW G, NEW J, JobsOk(F, J), Grows(F, G), NEW j \in Job, NEW r, JobOk(G, r)
    PROVE  JobsOk(G, [J EXCEPT ![j] = r])
BY JobGrows DEF JobsOk

\* Some order of a group of files.
LEMMA OrderedType ==
    ASSUME NEW G \in SUBSET Uuid
    PROVE  /\ Ordered(G) \in Seq(G)
           /\ Cardinality(G) \in Nat
<1>1. IsFiniteSet(G) /\ Cardinality(G) \in Nat
  BY VolumesAssumption, FS_Subset, FS_CardinalityType
<1>2. \E q \in [1..Cardinality(G) -> G] : \A i, j \in DOMAIN q : i # j => q[i] # q[j]
  <2>1. ExistsBijection(1..Cardinality(G), G)
    BY <1>1, FS_CardinalityType
  <2>2. PICK q \in Bijection(1..Cardinality(G), G) : TRUE
    BY <2>1 DEF ExistsBijection
  <2>3. q \in [1..Cardinality(G) -> G] /\ \A i, j \in 1..Cardinality(G) : q[i] = q[j] => i = j
    BY <2>2 DEF Bijection, Injection, IsInjective
  <2> QED BY <2>3
<1>3. Ordered(G) \in [1..Cardinality(G) -> G]
  BY <1>2 DEF Ordered
<1> QED BY <1>1, <1>3

\* What the callers ask for is files of the library.
LEMMA AskedType ==
    ASSUME NEW G \in Asked
    PROVE  G \in SUBSET Uuid /\ \A u \in G : files[u] # NoRow
BY DEF Asked, list_quick_hash_collisions

LEMMA BackfillType ==
    ASSUME VolInv
    PROVE  list_files_needing_backfill \in SUBSET Row
<1> SUFFICES ASSUME NEW r \in list_files_needing_backfill
             PROVE  r \in Row
  OBVIOUS
<1>1. PICK u \in Uuid : /\ files[u] # NoRow
                        /\ \E p \in ActivePath({l \in locs : l.hash = files[u].hash}) :
                              r = [hash |-> files[u].hash, path |-> p]
  BY DEF list_files_needing_backfill
<1>2. \A p \in ActivePath({l \in locs : l.hash = files[u].hash}) : p \in Paths
  BY ActivePathType
<1>3. files[u].hash \in Told
  BY <1>1 DEF VolInv, FileTable, FileRow
<1> QED BY <1>1, <1>2, <1>3 DEF Row

LEMMA InitialTypes ==
    ASSUME Init
    PROVE  TypeInv /\ Announced
<1>1. VolInv
  BY VolInitial DEF Init
<1>2. WorkerType /\ Announced
  BY DEF Init, WorkerType, Worker, Announced
<1>3. JobsOk(files, job)
  BY DEF Init, JobsOk, JobOk, JobState
<1> QED BY <1>1, <1>2, <1>3 DEF TypeInv

\* The worker's own steps.
LEMMA WorkerTypes ==
    ASSUME TypeInv, Announced, WorkerStep
    PROVE  VolKept /\ TypeInv' /\ Announced' /\ UNCHANGED <<os, mounts, locs, job>>
<1> USE DEF TypeInv
<1>1. worker \in Worker /\ untold \in Nat
  BY DEF WorkerType
<1>2. ASSUME UNCHANGED <<os, mounts, files, locs, shell, job>>, WorkerType', Announced'
      PROVE  VolKept /\ TypeInv' /\ Announced' /\ UNCHANGED <<os, mounts, locs, job>>
  BY <1>2, VolStutters DEF VolKept
<1>3. CASE spawn_backfill
  <2>1. list_files_needing_backfill \in SUBSET Row
    BY BackfillType
  <2>2. WorkerType' /\ Announced'
    BY <1>1, <1>3, <2>1 DEF spawn_backfill, WorkerType, Worker, Announced, told_at_last
  <2> QED BY <1>2, <1>3, <2>2 DEF spawn_backfill, volVars
<1>4. CASE NextRow
  <2>1. PICK r \in worker.rows :
           worker' = [worker EXCEPT !.rows = worker.rows \ {r}, !.row = r, !.step = "read"]
    BY <1>4 DEF NextRow
  <2>2. r \in Row
    BY <1>1 DEF Worker
  <2>3. worker' \in Worker /\ worker'.row = r /\ worker'.processed = worker.processed
        /\ worker'.step = "read"
    BY <1>1, <2>1, <2>2 DEF Worker
  <2>4. WorkerType' /\ Announced'
    BY <1>1, <1>4, <2>2, <2>3 DEF NextRow, WorkerType, Announced, told_at_last
  <2> QED BY <1>2, <1>4, <2>4 DEF NextRow, volVars
<1>5. CASE SkipRow
  <2>1. WorkerType' /\ Announced'
    BY <1>1, <1>5 DEF SkipRow, WorkerType, Worker, Announced, told_at_last
  <2> QED BY <1>2, <1>5, <2>1 DEF SkipRow, volVars
<1>6. CASE ReadRow
  <2>1. Bytes(worker.row.path) \in Content \cup {NoContent}
    <3>1. worker.row.path \in Paths
      BY <1>6 DEF ReadRow, WorkerType, Row
    <3> QED BY <3>1, BytesType DEF VolInv
  <2>2. WorkerType' /\ Announced'
    BY <1>1, <1>6, <2>1 DEF ReadRow, WorkerType, Worker, Announced, told_at_last
  <2> QED BY <1>2, <1>6, <2>2 DEF ReadRow, volVars
<1>7. CASE WriteRow
  <2> DEFINE h == worker.row.hash
             F == upsert_file_with_quick_hash(files, h, worker.quick)
             n == worker.processed + 1
             u == IF RowsOf(files, h) = {} THEN 0 ELSE IF F # files THEN untold + 1 ELSE untold
  <2>1. /\ worker.step = "write"
        /\ RowsOf(files, h) # {} \/ Unused(files) # {}
        /\ files' = F
        /\ untold' = IF told_at(n) THEN 0 ELSE u
        /\ worker' = [worker EXCEPT !.processed = n, !.step = "next", !.row = NoFile,
                                    !.quick = NoContent]
        /\ UNCHANGED <<os, mounts, locs, shell, job>>
    BY <1>7, Zenon DEF WriteRow
  <2>2. h \in Told /\ worker.quick \in Content \cup {NoContent}
    BY <1>1, <2>1 DEF WorkerType, Worker, Row
  <2> HIDE DEF h, F
  <2>3. files' \in FileTable /\ UniqueHash(files') /\ Grows(files, files')
    BY <2>1, <2>2, UpsertFileKeeps DEF VolInv, F
  <2>4. VolKept
    BY <2>1, <2>3, FilesStep
  <2>5. n \in Nat /\ n > 0 /\ u \in Nat
    BY <1>1 DEF Worker
  <2>6. WorkerType' /\ worker'.processed = n /\ worker'.step = "next"
    BY <1>1, <2>1, <2>5 DEF WorkerType, Worker
  <2>7. Announced'
    <3> HIDE DEF n, u
    <3>1. told_at_last(n) \/ told_at(n)
      BY <2>5 DEF told_at, told_at_last
    <3> QED BY <2>1, <2>6, <3>1 DEF Announced
  <2>8. JobsOk(files', job')
    BY <2>1, <2>3, JobsGrow
  <2> QED BY <2>1, <2>4, <2>6, <2>7, <2>8 DEF VolKept
<1>8. CASE BackfillEnds
  <2>1. WorkerType' /\ Announced'
    BY <1>1, <1>8 DEF BackfillEnds, WorkerType, Worker, Announced, told_at_last
  <2> QED BY <1>2, <1>8, <2>1 DEF BackfillEnds, volVars
<1> QED BY <1>3, <1>4, <1>5, <1>6, <1>7, <1>8 DEF WorkerStep
-----------------------------------------------------------------------------
(***************************************************************************)
(* Nothing moved since the lookup of a calm job: while it hashes and       *)
(* promotes, a file with one location is where its path says.              *)
(***************************************************************************)
OneMachine == \A a, b \in Machine : a = b

Read(O, path) == IF O[path.point] = NoDisk THEN NoContent ELSE Holds[O[path.point]][path.rel]

OnlyOf(L, u) == {l \in L : l.uuid = u /\ \A k \in L : k.uuid = u => k = l}

Own(O, M, L, r) ==
    r.calm /\ r.step \in {"hash", "update"} =>
        /\ \E l \in L : l.uuid = Head(r.todo)
        /\ \A l \in OnlyOf(L, Head(r.todo)), m \in M :
              m.vol = l.vol => r.path = [point |-> m.point, rel |-> l.rel]
        /\ r.step = "update" => r.hash.of = Read(O, r.path)

Calm == OneMachine => \A j \in Job : Own(os, mounts, locs, job[j])

\* A location more, of this file or another, makes none the only one anew.
LEMMA OwnStays ==
    ASSUME NEW O, NEW M, NEW F, NEW L, NEW K, LocTable(F, L), Stays(L, K),
           NEW r, Own(O, M, L, r)
    PROVE  Own(O, M, K, r)
<1> SUFFICES ASSUME r.calm, r.step \in {"hash", "update"}
             PROVE  /\ \E l \in K : l.uuid = Head(r.todo)
                    /\ \A l \in OnlyOf(K, Head(r.todo)), m \in M :
                          m.vol = l.vol => r.path = [point |-> m.point, rel |-> l.rel]
  BY DEF Own
<1> DEFINE u == Head(r.todo)
<1>1. PICK l \in L : l.uuid = u
  BY DEF Own
<1>2. \A i \in L : \E k \in K : k.uuid = i.uuid /\ k.vol = i.vol /\ k.rel = i.rel
  BY DEF Stays
<1> HIDE DEF u
<1>3. \E k \in K : k.uuid = u
  BY <1>1, <1>2
<1>4. ASSUME NEW k \in OnlyOf(K, u), NEW m \in M, m.vol = k.vol
      PROVE  r.path = [point |-> m.point, rel |-> k.rel]
  <2>1. \A i \in L : i.uuid = u => i.vol = k.vol /\ i.rel = k.rel
    BY <1>2, <1>4 DEF OnlyOf
  <2>2. l \in OnlyOf(L, u)
    BY <1>1, <2>1 DEF OnlyOf, LocTable
  <2>3. m.vol = l.vol /\ l.rel = k.rel
    BY <1>1, <1>4, <2>1
  <2>4. r.path = [point |-> m.point, rel |-> l.rel]
    BY <2>2, <2>3 DEF Own, u
  <2> QED BY <2>3, <2>4
<1> QED BY <1>3, <1>4 DEF u

\* The lookup of one location's path: on one machine the volume has one row.
LEMMA LookupOwns ==
    ASSUME VolInv, NEW u \in Uuid, NEW path \in lookup_by_file_uuid(u)
    PROVE  /\ path \in Paths
           /\ \E l \in locs : l.uuid = u
           /\ OneMachine => \A l \in OnlyOf(locs, u), m \in mounts :
                 m.vol = l.vol => path = [point |-> m.point, rel |-> l.rel]
<1> DEFINE L == {l \in locs : l.uuid = u}
<1>1. path \in ActivePath(L) /\ L \in SUBSET locs
  BY DEF lookup_by_file_uuid
<1>2. path \in Paths /\ L # {}
  BY <1>1, ActivePathType
<1>3. ASSUME OneMachine, NEW l \in OnlyOf(locs, u), NEW m \in mounts, m.vol = l.vol
      PROVE  path = [point |-> m.point, rel |-> l.rel]
  <2>1. L = {l}
    BY <1>3 DEF OnlyOf
  <2> DEFINE points == {n.point : n \in {n \in mounts : \E k \in L : k.vol = n.vol}}
             rels == {k.rel : k \in L}
  <2>2. points = {m.point} /\ rels = {l.rel}
    <3>1. \A n \in mounts : n.vol = l.vol => n = m
      BY <1>3 DEF VolInv, OneMachine
    <3> QED BY <1>3, <2>1, <3>1
  <2>3. path = [point |-> Least(points), rel |-> Least(rels)]
    BY <1>1 DEF ActivePath
  <2>4. m.point \in Nat /\ l.rel \in Nat
    <3>1. m.point \in Point /\ l.rel \in Rel
      BY <1>3 DEF VolInv, LocTable, Loc, OnlyOf
    <3> QED BY <3>1, VolumesAssumption
  <2> HIDE DEF points, rels
  <2>5. Least(points) \in points /\ Least(rels) \in rels
    BY <2>2, <2>4, LeastIsIn
  <2> QED BY <2>2, <2>3, <2>5
<1> QED BY <1>2, <1>3

LEMMA CalmStays ==
    ASSUME VolInv, Calm, Stays(locs, locs'), UNCHANGED <<os, mounts>>,
           \A j \in Job : job'[j] = job[j] \/ (OneMachine => Own(os, mounts, locs', job'[j]))
    PROVE  Calm'
BY OwnStays DEF Calm, VolInv
-----------------------------------------------------------------------------
\* One file is over.
LEMMA ProgressType ==
    ASSUME NEW G, Grows(files, G), JobsOk(files, job), NEW j \in Job, job[j].todo # <<>>, Progress(j)
    PROVE  /\ JobsOk(G, job')
           /\ \A i \in Job : job'[i] = job[i] \/ ~ job'[i].calm
<1> DEFINE r == [job[j] EXCEPT !.step = "next", !.todo = Tail(job[j].todo), !.done = job[j].done + 1,
                               !.path = NoPath, !.hash = NoHash, !.calm = FALSE]
<1>1. job' = [job EXCEPT ![j] = r]
  BY DEF Progress
<1>2. JobOk(files, job[j])
  BY DEF JobsOk
<1>3. /\ Tail(job[j].todo) \in Seq(Uuid)
      /\ \A i \in 1..Len(Tail(job[j].todo)) : files[Tail(job[j].todo)[i]] # NoRow
  BY <1>2 DEF JobOk, JobState
<1>4. r \in JobState /\ r.step = "next" /\ r.todo = Tail(job[j].todo) /\ ~ r.calm
  <2> DEFINE q == job[j]
             rest == Tail(job[j].todo)
  <2>1. q \in JobState /\ rest \in Seq(Uuid) /\ q.done + 1 \in Nat
    BY <1>2, <1>3 DEF JobOk, JobState
  <2> HIDE DEF q, rest
  <2>2. r = [q EXCEPT !.step = "next", !.todo = rest, !.done = q.done + 1,
                      !.path = NoPath, !.hash = NoHash, !.calm = FALSE]
    BY DEF q, rest
  <2> HIDE DEF r
  <2>3. r \in JobState /\ r.step = "next" /\ r.todo = rest /\ ~ r.calm
    BY <2>1, <2>2 DEF JobState
  <2> QED BY <2>3 DEF rest
<1> HIDE DEF r
<1>5. JobOk(files, r)
  BY <1>3, <1>4 DEF JobOk
<1> QED BY <1>1, <1>4, <1>5, JobMoves, JobGrows DEF JobsOk

LEMMA LookupStep ==
    ASSUME TypeInv, NEW j \in Job, Lookup(j)
    PROVE  /\ JobsOk(files, job')
           /\ \A i \in Job : job'[i] = job[i] \/ (OneMachine => Own(os, mounts, locs, job'[i]))
<1> USE DEF TypeInv
<1> DEFINE u == Head(job[j].todo)
<1>1. job[j].step = "next" /\ job[j].todo # <<>>
  BY DEF Lookup
<1>2. JobOk(files, job[j])
  BY DEF JobsOk
<1>3. u \in Uuid
  BY <1>1, <1>2 DEF JobOk, JobState
<1>4. Grows(files, files)
  BY DEF Grows
<1>5. CASE Progress(j)
  BY <1>1, <1>4, <1>5, ProgressType DEF Own
<1>6. ASSUME NEW p \in lookup_by_file_uuid(u),
             job' = [job EXCEPT ![j].step = "hash", ![j].path = p, ![j].calm = TRUE]
      PROVE  /\ JobsOk(files, job')
             /\ \A i \in Job : job'[i] = job[i] \/ (OneMachine => Own(os, mounts, locs, job'[i]))
  <2> DEFINE r == [job[j] EXCEPT !.step = "hash", !.path = p, !.calm = TRUE]
  <2>1. job' = [job EXCEPT ![j] = r]
    BY <1>6
  <2>2. /\ p \in Paths
        /\ \E l \in locs : l.uuid = u
        /\ OneMachine => \A l \in OnlyOf(locs, u), m \in mounts :
                 m.vol = l.vol => p = [point |-> m.point, rel |-> l.rel]
    BY <1>3, <1>6, LookupOwns
  <2>3. r \in JobState /\ r.step = "hash" /\ r.todo = job[j].todo /\ r.path = p
    BY <1>2, <2>2 DEF JobOk, JobState
  <2> HIDE DEF r
  <2>4. JobOk(files, r)
    BY <1>1, <1>2, <2>2, <2>3 DEF JobOk
  <2>5. OneMachine => Own(os, mounts, locs, r)
    BY <2>2, <2>3 DEF Own
  <2>6. JobsOk(files, job')
    BY <1>4, <2>1, <2>4, JobMoves
  <2> QED BY <2>1, <2>5, <2>6 DEF JobsOk
<1> QED BY <1>5, <1>6 DEF Lookup

LEMMA HashStep ==
    ASSUME TypeInv, Calm, NEW j \in Job, Hash(j)
    PROVE  /\ JobsOk(files, job')
           /\ \A i \in Job : job'[i] = job[i] \/ (OneMachine => Own(os, mounts, locs, job'[i]))
<1> USE DEF TypeInv
<1>1. job[j].step = "hash"
  BY DEF Hash
<1>2. JobOk(files, job[j])
  BY DEF JobsOk
<1>3. Grows(files, files)
  BY DEF Grows
<1>4. CASE Progress(j)
  BY <1>1, <1>2, <1>3, <1>4, ProgressType DEF Own, JobOk
<1>5. CASE /\ Bytes(job[j].path) # NoContent
           /\ job' = [job EXCEPT ![j].step = "update",
                                 ![j].hash = [full |-> TRUE, of |-> Bytes(job[j].path)]]
  <2> DEFINE h == [full |-> TRUE, of |-> Bytes(job[j].path)]
             r == [job[j] EXCEPT !.step = "update", !.hash = h]
  <2>1. job' = [job EXCEPT ![j] = r]
    BY <1>5
  <2>2. job[j].path \in Paths /\ job[j].todo # <<>>
    BY <1>1, <1>2 DEF JobOk
  <2>3. Bytes(job[j].path) \in Content
    BY <1>5, <2>2, BytesType DEF VolInv
  <2>4. h \in Told /\ h.of = Read(os, job[j].path)
    BY <2>3 DEF Told, Bytes, Read
  <2> HIDE DEF h
  <2>5. /\ r \in JobState /\ r.step = "update" /\ r.todo = job[j].todo
        /\ r.path = job[j].path /\ r.hash = h /\ r.calm = job[j].calm
    BY <1>2, <2>4 DEF JobOk, JobState
  <2> HIDE DEF r
  <2>6. JobOk(files, r)
    BY <1>2, <2>2, <2>4, <2>5 DEF JobOk
  <2>7. OneMachine => Own(os, mounts, locs, r)
    BY <1>1, <2>4, <2>5 DEF Own, Calm
  <2>8. JobsOk(files, job')
    BY <1>3, <2>1, <2>6, JobMoves
  <2> QED BY <2>1, <2>7, <2>8 DEF JobsOk
<1> QED BY <1>4, <1>5 DEF Hash

\* A promotion, of a job or of `perima hash`, gives a row a hash no other has.
LEMMA UpdateStep ==
    ASSUME TypeInv, NEW j \in Job, Update(j)
    PROVE  /\ VolKept /\ JobsOk(files', job')
           /\ \A i \in Job : job'[i] = job[i] \/ ~ job'[i].calm
<1> USE DEF TypeInv
<1> DEFINE u == Head(job[j].todo)
           h == job[j].hash
<1>1. /\ job[j].step = "update" /\ Progress(j)
      /\ \/ RowsOf(files, h) \subseteq {u} /\ files' = [files EXCEPT ![u].hash = h]
         \/ UNCHANGED files
      /\ UNCHANGED <<os, mounts, locs, shell>>
  BY DEF Update
<1>2. JobOk(files, job[j])
  BY DEF JobsOk
<1>3. u \in Uuid /\ files[u] # NoRow /\ h \in Told /\ job[j].todo # <<>>
  <2>1. job[j].todo \in Seq(Uuid) /\ job[j].todo # <<>>
    BY <1>1, <1>2 DEF JobOk, JobState
  <2>2. 1 \in 1..Len(job[j].todo) /\ u = job[j].todo[1]
    BY <2>1
  <2> QED BY <1>1, <1>2, <2>1, <2>2 DEF JobOk
<1>4. files' \in FileTable /\ UniqueHash(files') /\ Grows(files, files')
  <2>1. CASE UNCHANGED files
    BY <2>1 DEF VolInv, UniqueHash, Grows
  <2>2. CASE RowsOf(files, h) \subseteq {u} /\ files' = [files EXCEPT ![u].hash = h]
    <3> HIDE DEF u, h
    <3> QED BY <1>3, <2>2, PromoteKeeps DEF VolInv
  <2> QED BY <1>1, <2>1, <2>2
<1>5. VolKept
  BY <1>1, <1>4, FilesStep
<1> QED BY <1>1, <1>3, <1>4, <1>5, ProgressType

LEMMA RunSingleStep ==
    ASSUME VolInv, NEW path \in Paths, run_single(path)
    PROVE  VolKept
<1> DEFINE h == [full |-> TRUE, of |-> Bytes(path)]
<1>1. h \in Told
  BY BytesType DEF VolInv, run_single, Told
<1>2. PICK l \in locs : RowsOf(files, h) \subseteq {l.uuid} /\ files' = [files EXCEPT ![l.uuid].hash = h]
  BY DEF run_single, find_by_absolute_suffix
<1>3. l.uuid \in Uuid /\ files[l.uuid] # NoRow
  BY DEF VolInv, LocTable, Loc
<1> HIDE DEF h
<1>4. files' \in FileTable /\ UniqueHash(files') /\ Grows(files, files')
  BY <1>1, <1>2, <1>3, PromoteKeeps DEF VolInv
<1> QED BY <1>4, FilesStep DEF run_single

\* A job's own step other than these: its locations and path stay, or it is not
\* at a step that has any.
LEMMA JobTurns ==
    ASSUME TypeInv, NEW j \in Job, NEW r, r \in JobState, job' = [job EXCEPT ![j] = r],
           r.step \notin {"hash", "update"},
           \A i \in 1..Len(r.todo) : files[r.todo[i]] # NoRow
    PROVE  /\ JobsOk(files, job')
           /\ \A i \in Job : job'[i] = job[i] \/ Own(os, mounts, locs, job'[i])
<1>1. JobOk(files, r)
  BY DEF JobOk
<1>2. Own(os, mounts, locs, r)
  BY DEF Own
<1>3. Grows(files, files)
  BY DEF Grows
<1>4. JobsOk(files, job')
  BY <1>1, <1>3, JobMoves DEF TypeInv
<1> QED BY <1>2, <1>4 DEF TypeInv, JobsOk

LEMMA AskedStep ==
    ASSUME TypeInv, NEW j \in Job, NEW G \in Asked,
           job' = [job EXCEPT ![j].step = "next", ![j].todo = Ordered(G), ![j].total = Cardinality(G)]
    PROVE  /\ JobsOk(files, job')
           /\ \A i \in Job : job'[i] = job[i] \/ Own(os, mounts, locs, job'[i])
<1> DEFINE q == job[j]
           todo == Ordered(G)
           r == [q EXCEPT !.step = "next", !.todo = todo, !.total = Cardinality(G)]
<1>1. q \in JobState
  BY DEF TypeInv, JobsOk, JobOk
<1>2. /\ todo \in Seq(Uuid) /\ Cardinality(G) \in Nat
      /\ \A i \in 1..Len(todo) : files[todo[i]] # NoRow
  <2>1. G \in SUBSET Uuid /\ \A u \in G : files[u] # NoRow
    BY AskedType
  <2>2. todo \in Seq(G) /\ Cardinality(G) \in Nat
    BY <2>1, OrderedType
  <2> HIDE DEF todo
  <2> QED BY <2>1, <2>2
<1>3. job' = [job EXCEPT ![j] = r]
  OBVIOUS
<1> HIDE DEF q, todo
<1>4. r \in JobState /\ r.step = "next" /\ r.todo = todo
  BY <1>1, <1>2 DEF JobState
<1> HIDE DEF r
<1> QED BY <1>2, <1>3, <1>4, JobTurns

LEMMA LastSteps ==
    ASSUME TypeInv, NEW j \in Job, Complete(j) \/ Forget(j)
    PROVE  /\ JobsOk(files, job')
           /\ \A i \in Job : job'[i] = job[i] \/ Own(os, mounts, locs, job'[i])
<1> DEFINE q == job[j]
<1>1. q \in JobState /\ \A i \in 1..Len(q.todo) : files[q.todo[i]] # NoRow
  BY DEF TypeInv, JobsOk, JobOk
<1>2. CASE Complete(j)
  <2> DEFINE st == IF j \in Batch THEN "told" ELSE "over"
             none == <<>>
             r == [q EXCEPT !.step = st, !.todo = none]
  <2>1. job' = [job EXCEPT ![j] = r]
    BY <1>2 DEF Complete
  <2>2. st \in {"told", "over"} /\ none \in Seq(Uuid) /\ Len(none) = 0
    OBVIOUS
  <2> HIDE DEF q, st, none
  <2>3. r \in JobState /\ r.step = st /\ r.todo = none
    BY <1>1, <2>2 DEF JobState
  <2> HIDE DEF r
  <2>4. \A i \in 1..Len(r.todo) : files[r.todo[i]] # NoRow
    BY <2>2, <2>3
  <2> QED BY <2>1, <2>2, <2>3, <2>4, JobTurns
<1>3. CASE Forget(j)
  <2> DEFINE r == [q EXCEPT !.step = "over"]
  <2>1. job' = [job EXCEPT ![j] = r]
    BY <1>3 DEF Forget
  <2> HIDE DEF q
  <2>2. r \in JobState /\ r.step = "over" /\ r.todo = q.todo
    BY <1>1 DEF JobState
  <2> HIDE DEF r
  <2> QED BY <1>1, <2>1, <2>2, JobTurns
<1> QED BY <1>2, <1>3

LEMMA DisturbedStep ==
    ASSUME VolKept, JobsOk(files, job), Disturbed
    PROVE  JobsOk(files', job') /\ Calm'
<1>1. \A j \in Job : ~ job'[j].calm /\ JobOk(files, job'[j])
  <2> SUFFICES ASSUME NEW j \in Job
               PROVE  ~ job'[j].calm /\ JobOk(files, job'[j])
    OBVIOUS
  <2> DEFINE q == job[j]
             r == [q EXCEPT !.calm = FALSE]
  <2>1. JobOk(files, q)
    BY DEF JobsOk
  <2>2. job'[j] = r
    BY DEF Disturbed
  <2> HIDE DEF q
  <2>3. /\ r \in JobState /\ r.step = q.step /\ r.todo = q.todo
        /\ r.path = q.path /\ r.hash = q.hash /\ r.calm = FALSE
    BY <2>1 DEF JobOk, JobState
  <2> HIDE DEF r
  <2> QED BY <2>1, <2>2, <2>3 DEF JobOk
<1>2. JobsOk(files, job')
  BY <1>1 DEF JobsOk, Disturbed
<1> QED BY <1>1, <1>2, JobsGrow DEF VolKept, Calm, Own

IInv == TypeInv /\ Announced /\ Calm

LEMMA InitialInv ==
    ASSUME Init
    PROVE  IInv
<1>1. \A j \in Job : job[j].step = "none"
  BY DEF Init
<1> QED BY <1>1, InitialTypes DEF IInv, Calm, Own

\* One step of any actor.
LEMMA StepKeepsInv ==
    ASSUME IInv, [Next]_vars
    PROVE  IInv'
<1> USE DEF IInv, TypeInv
<1>1. ASSUME VolKept, JobsOk(files', job'), Calm', UNCHANGED <<worker, untold>>
      PROVE  IInv'
  BY <1>1 DEF VolKept, WorkerType, Announced
\* The tables, the disks and the worker are as they were.
<1>2. ASSUME UNCHANGED <<os, mounts, files, locs, shell, worker, untold>>,
             JobsOk(files, job'),
             \A i \in Job : job'[i] = job[i] \/ (OneMachine => Own(os, mounts, locs, job'[i]))
      PROVE  IInv'
  <2>1. VolKept
    BY <1>2, VolStutters
  <2>2. Calm'
    BY <1>2, <2>1, CalmStays DEF VolKept
  <2> QED BY <1>1, <1>2, <2>1, <2>2
<1>3. ASSUME UNCHANGED <<os, mounts, files, locs, shell, worker, untold, job>>
      PROVE  IInv'
  BY <1>2, <1>3
<1>4. ASSUME VolNext, IF os' # os \/ mounts' # mounts THEN Disturbed ELSE UNCHANGED job,
             UNCHANGED <<worker, untold>>
      PROVE  IInv'
  <2>1. VolKept
    BY <1>4, VolStep
  <2>2. CASE Disturbed
    BY <1>1, <1>4, <2>1, <2>2, DisturbedStep
  <2>3. CASE UNCHANGED <<os, mounts, job>>
    <3>1. JobsOk(files', job')
      BY <2>1, <2>3, JobsGrow DEF VolKept
    <3>2. Calm'
      BY <2>1, <2>3, CalmStays DEF VolKept
    <3> QED BY <1>1, <1>4, <2>1, <3>1, <3>2
  <2> QED BY <1>4, <2>2, <2>3
<1>5. CASE WorkerStep
  <2>1. VolKept /\ TypeInv' /\ Announced' /\ UNCHANGED <<os, mounts, locs, job>>
    BY <1>5, WorkerTypes
  <2>2. Calm'
    BY <2>1, CalmStays DEF VolKept
  <2> QED BY <2>1, <2>2
<1>6. CASE CancelBackfill
  BY <1>3, <1>6 DEF CancelBackfill
<1>7. ASSUME NEW j \in Job, NEW G \in Asked, execute_batch(j, G) \/ run_verify(j, G)
      PROVE  IInv'
  <2>1. /\ job' = [job EXCEPT ![j].step = "next", ![j].todo = Ordered(G), ![j].total = Cardinality(G)]
        /\ UNCHANGED <<os, mounts, files, locs, shell, worker, untold>>
    BY <1>7 DEF execute_batch, run_verify
  <2> QED BY <1>2, <2>1, AskedStep
<1>8. ASSUME NEW b \in Batch, cancel_batch(b)
      PROVE  IInv'
  BY <1>3, <1>8 DEF cancel_batch
<1>9. ASSUME NEW j \in Job, Complete(j) \/ Forget(j)
      PROVE  IInv'
  <2>1. UNCHANGED <<os, mounts, files, locs, shell, worker, untold>>
    BY <1>9 DEF Complete, Forget, volVars
  <2> QED BY <1>2, <1>9, <2>1, LastSteps
<1>10. ASSUME NEW j \in Job, Lookup(j)
       PROVE  IInv'
  <2>1. UNCHANGED <<os, mounts, files, locs, shell, worker, untold>>
    BY <1>10 DEF Lookup, volVars
  <2> QED BY <1>2, <1>10, <2>1, LookupStep
<1>11. ASSUME NEW j \in Job, Hash(j)
       PROVE  IInv'
  <2>1. UNCHANGED <<os, mounts, files, locs, shell, worker, untold>>
    BY <1>11 DEF Hash, volVars
  <2> QED BY <1>2, <1>11, <2>1, HashStep
<1>12. ASSUME NEW j \in Job, Update(j)
       PROVE  IInv'
  <2>1. /\ VolKept /\ JobsOk(files', job')
        /\ \A i \in Job : job'[i] = job[i] \/ ~ job'[i].calm
        /\ UNCHANGED <<os, mounts, locs, worker, untold>>
    BY <1>12, UpdateStep DEF Update
  <2>2. Calm'
    BY <2>1, CalmStays DEF VolKept, Own
  <2> QED BY <1>1, <2>1, <2>2
<1>13. ASSUME NEW path \in Paths, run_single(path)
       PROVE  IInv'
  <2>1. VolKept /\ UNCHANGED <<os, mounts, locs, worker, untold, job>>
    BY <1>13, RunSingleStep DEF run_single
  <2>2. JobsOk(files', job')
    BY <2>1, JobsGrow DEF VolKept
  <2>3. Calm'
    BY <2>1, CalmStays DEF VolKept
  <2> QED BY <1>1, <2>1, <2>2, <2>3
<1>14. CASE UNCHANGED vars
  BY <1>3, <1>14 DEF vars, volVars
<1> QED BY <1>4, <1>5, <1>6, <1>7, <1>8, <1>9, <1>10, <1>11, <1>12, <1>13, <1>14,
           FingerprintsAssumption DEF Next, JobStep, Paths

LEMMA InvariantHolds == Spec => []IInv
<1>1. Init => IInv
  BY InitialInv
<1>2. IInv /\ [Next]_vars => IInv'
  BY StepKeepsInv
<1> QED BY <1>1, <1>2, PTL DEF Spec
-----------------------------------------------------------------------------
(***************************************************************************)
(* The theorems.                                                           *)
(***************************************************************************)
\* The tables of volumes, files and locations keep their keys: a hash is of one
\* row of `files`, a volume and path of one location, each location of a row of
\* `files`, and a machine has a volume mounted in one place; and every job, and
\* the backfill, has rows and paths of them.
THEOREM TablesKeepKeys == Spec => [](VolInv /\ WorkerType /\ JobsOk(files, job))
<1>1. IInv => VolInv /\ WorkerType /\ JobsOk(files, job)
  BY DEF IInv, TypeInv
<1> QED BY <1>1, InvariantHolds, PTL

\* Once the backfill is over, nothing it filled in is left unannounced, for any
\* grouping of its rows (run_backfill of backfill.rs).
THEOREM FillsAreAnnounced == Spec => []FillsAnnounced
<1>1. IInv => FillsAnnounced
  BY DEF IInv, Announced, FillsAnnounced
<1> QED BY <1>1, InvariantHolds, PTL

\* With a single device_id on the computer, the full hash about to be promoted to
\* a file with one location is of that file, if its disk is where it was last
\* registered and nothing was mounted, unmounted or registered since the lookup
\* (compute_one of dedup.rs).
THEOREM PromotionsAreOwn ==
    ASSUME OneMachine
    PROVE  Spec => []PromotesOwnBytes
<1>1. ASSUME IInv PROVE PromotesOwnBytes
  <2>1. ASSUME NEW j \in Job, job[j].step = "update", job[j].calm,
               NEW l \in {k \in locs : k.uuid = Head(job[j].todo)},
               NEW p \in Point,
               {k \in locs : k.uuid = l.uuid} = {l},
               os[p] # NoDisk,
               \E m \in mounts : m.vol = l.vol /\ m.point = p
        PROVE  job[j].hash.of = Holds[os[p]][l.rel]
    <3>1. Own(os, mounts, locs, job[j])
      BY <1>1 DEF IInv, Calm
    <3>2. l \in OnlyOf(locs, Head(job[j].todo))
      BY <2>1 DEF OnlyOf
    <3>3. job[j].path = [point |-> p, rel |-> l.rel]
      BY <2>1, <3>1, <3>2 DEF Own
    <3> QED BY <2>1, <3>1, <3>3 DEF Own, Read
  <2> QED BY <2>1 DEF PromotesOwnBytes
<1>2. IInv => PromotesOwnBytes
  BY <1>1
<1> QED BY <1>2, InvariantHolds, PTL

\* With a single device_id on the computer, a listing has each location once, and
\* a location whose disk is where it was last registered gets its path there;
\* of other disks nothing is said (list_with_metadata of metadata_repo.rs).
THEOREM ListedPathsAreOwn ==
    ASSUME OneMachine
    PROVE  Spec => []ListedPathIsOwn
<1>1. ASSUME VolInv PROVE ListedPathIsOwn
  <2>1. ASSUME NEW r \in Joined
        PROVE  /\ r.at = mount_path(r.vol)
               /\ \E l \in locs : /\ r.vol = l.vol /\ r.rel = l.rel /\ r.hash = l.hash
                                  /\ r.uuid \in RowsOf(files, l.hash)
                                  /\ r.quick = files[r.uuid].quick
    BY DEF Joined, Located
  <2>2. ASSUME NEW r \in Joined, NEW s \in Joined, r.vol = s.vol, r.rel = s.rel
        PROVE  r = s
    <3>1. r.hash = s.hash /\ r.at = s.at
      BY <1>1, <2>1, <2>2 DEF VolInv, LocTable
    <3>2. r.uuid = s.uuid
      BY <1>1, <2>1, <2>2, <3>1 DEF VolInv, UniqueHash, RowsOf
    <3>3. r.quick = s.quick
      BY <2>1, <3>2
    <3> QED BY <2>2, <3>1, <3>2, <3>3 DEF Joined
  <2>3. ASSUME NEW r \in Joined, NEW p \in absolute_path(r), NEW q \in Point, os[q] # NoDisk,
               \E m \in mounts : m.vol = r.vol /\ m.point = q
        PROVE  Bytes(p) = Holds[os[q]][r.rel]
    <3> DEFINE points == {m.point : m \in {n \in mounts : n.vol = r.vol}}
    <3>1. points = {q}
      BY <1>1, <2>3 DEF VolInv, OneMachine
    <3>2. r.at = {Least(points)}
      BY <2>1, <3>1 DEF mount_path
    <3> HIDE DEF points
    <3>3. Least(points) = q
      <4>1. q \in Nat
        BY VolumesAssumption
      <4> QED BY <3>1, <4>1, LeastIsIn
    <3>4. p = [point |-> q, rel |-> r.rel]
      BY <2>3, <3>2, <3>3 DEF absolute_path
    <3> QED BY <2>3, <3>4 DEF Bytes
  <2>4. \A P \in list_files_with_metadata(Cardinality(locs), AnyVolume) : P \subseteq Joined
    BY DEF list_files_with_metadata, ListFilesWithMetadata, list_with_metadata, Pages, InVolume
  <2> QED BY <2>2, <2>3, <2>4 DEF ListedPathIsOwn
<1>2. IInv => ListedPathIsOwn
  BY <1>1 DEF IInv, TypeInv
<1> QED BY <1>2, InvariantHolds, PTL
=============================================================================
