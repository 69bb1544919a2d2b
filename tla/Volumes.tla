---------------------------- MODULE Volumes ----------------------------
(***************************************************************************)
(* Volumes and mounts: how a disk becomes a row of `volumes`               *)
(* (crates/fs/src/volumes.rs, crates/db/src/writer/volume.rs), how a mount *)
(* becomes a row of `volume_mounts`, and how a path is rebuilt from the    *)
(* tables when bytes are to be read again (crates/db/src/file_repo.rs).    *)
(*                                                                         *)
(* A disk is detected by label and capacity only, so a volume_id stands    *)
(* for such a pair, and find_or_create answers with the pair it is given.  *)
(* Mount points and relative paths are numbers, ordered as MIN() orders    *)
(* them; every scan here is of a mount point.  A digest is the content it  *)
(* was taken from, and whether all of it was read; contents do not change. *)
(* Soft-deleted mount rows are never read again and are left out; so is    *)
(* all that Library says of the two commands of one file.                  *)
(***************************************************************************)
EXTENDS Integers, FiniteSets

CONSTANTS
    Disk, NoDisk,
    Ident, NoIdent, \* label and capacity
    IdentOf,        \* of each disk
    Point, Rel,     \* mount points and relative paths
    Content, NoContent,
    Holds,          \* what each disk has at each relative path
    Uuid, NoRow,
    Shell,          \* tasks that register volumes: the desktop's, the command line
    Machine,        \* device_id, which each shell keeps in a file of its own
    MachineOf,      \* of each task
    LegacyMachine,  \* whose the library of VolInit is
    LegacyDisk,     \* the disk scanned by the version without quick_hash
    Placements,     \* where the disks may be when the program starts
    MaxCalls        \* bound: mounts, unmounts, scans and requests

ASSUME VolumesAssumption ==
    /\ Point \subseteq Nat /\ Point # {} /\ Rel \subseteq Nat
    /\ IdentOf \in [Disk -> Ident]
    /\ Holds \in [Disk -> [Rel -> Content \cup {NoContent}]]
    /\ MachineOf \in [Shell -> Machine]
    /\ LegacyMachine \in Machine
    /\ LegacyDisk \in Disk
    /\ Placements \subseteq [Point -> Disk \cup {NoDisk}]
    /\ NoDisk \notin Disk
    /\ NoIdent \notin Ident
    /\ NoContent \notin Content
    /\ IsFiniteSet(Uuid)
    /\ NoRow \notin [hash : [full : BOOLEAN, of : Content], quick : Content \cup {NoContent}]

VARIABLES
    os,     \* the disk at each mount point (outside the program)
    volumes, \* volumes: the rows, by their identifiers
    mounts, \* volume_mounts: the live rows [vol, machine, point]
    files,  \* files: [hash, quick] of each uuid
    locs,   \* file_locations: active rows [uuid, hash, vol, rel]
    shell,  \* each task: its step, mount point, identifiers and files to index
    calls   \* bounded calls so far

volVars == <<os, volumes, mounts, files, locs, shell, calls>>

Call == calls < MaxCalls /\ calls' = calls + 1

Least(S) == CHOOSE n \in S : \A m \in S : n <= m

\* What reading a path gives: nothing without a disk, or without a file there.
Bytes(path) ==
    IF os[path.point] = NoDisk THEN NoContent ELSE Holds[os[path.point]][path.rel]

RowsOf(F, h) == {u \in Uuid : F[u] # NoRow /\ F[u].hash = h}
Unused(F)    == {u \in Uuid : F[u] = NoRow}

\* UpsertFile with a fingerprint: a stored one is kept.
upsert_file_with_quick_hash(F, h, q) ==
    IF RowsOf(F, h) # {}
      THEN [u \in Uuid |-> IF u \in RowsOf(F, h) /\ F[u].quick = NoContent
                             THEN [F[u] EXCEPT !.quick = q] ELSE F[u]]
      ELSE [F EXCEPT ![CHOOSE u \in Unused(F) : TRUE] = [hash |-> h, quick |-> q]]

\* UpsertLocation of the file with that hash; an UPDATE leaves the uuid.
upsert_location(F, L, h, vol, rel) ==
    LET here == {l \in L : l.vol = vol /\ l.rel = rel}
    IN  IF here = {}
          THEN L \cup {[uuid |-> CHOOSE u \in RowsOf(F, h) : TRUE,
                        hash |-> h, vol |-> vol, rel |-> rel]}
          ELSE (L \ here) \cup {[l EXCEPT !.hash = h] : l \in here}

\* Mutant: the join forgets the volume.
ActivePath_anywhere(L) ==
    LET points == {m.point : m \in mounts}
    IN  IF points = {} \/ L = {} THEN {}
        ELSE {[point |-> Least(points), rel |-> Least({l.rel : l \in L})]}

\* The path of a file from some of its locations: MIN of the mount points and
\* MIN of the relative paths, each over all of them and over the rows of every
\* machine; none without a mount.
ActivePath(L) ==
    LET points == {m.point : m \in {n \in mounts : \E l \in L : l.vol = n.vol}}
    IN  IF points = {} THEN {}
        ELSE {[point |-> Least(points), rel |-> Least({l.rel : l \in L})]}

\* Joined by file_uuid.
lookup_by_file_uuid(u) == ActivePath({l \in locs : l.uuid = u})

\* The rows without a fingerprint, with their paths, joined by blake3_hash.
list_files_needing_backfill ==
    UNION {{[hash |-> files[u].hash, path |-> p] :
              p \in ActivePath({l \in locs : l.hash = files[u].hash})} :
           u \in {v \in Uuid : files[v] # NoRow /\ files[v].quick = NoContent}}

\* The volumes with their mount points on this machine.
list(machine) ==
    {[vol |-> v,
      at  |-> {m.point : m \in {n \in mounts : n.vol = v /\ n.machine = machine}}] : v \in volumes}
-----------------------------------------------------------------------------
\* A disk appears at, or goes from, a mount point.
Mount(p, d) ==
    /\ os[p] = NoDisk
    /\ \A q \in Point : os[q] # d
    /\ Call
    /\ os' = [os EXCEPT ![p] = d]
    /\ UNCHANGED <<volumes, mounts, files, locs, shell>>

Unmount(p) ==
    /\ os[p] # NoDisk
    /\ Call
    /\ os' = [os EXCEPT ![p] = NoDisk]
    /\ UNCHANGED <<volumes, mounts, files, locs, shell>>

\* A scan of, or a watch on, a mount point; nothing is detected without a disk.
detect_volume(s, p, todo) ==
    /\ shell[s].step = "idle"
    /\ os[p] # NoDisk
    /\ Call
    /\ shell' = [shell EXCEPT ![s] = [step |-> "find", point |-> p,
                                      ident |-> IdentOf[os[p]], todo |-> todo]]
    /\ UNCHANGED <<os, volumes, mounts, files, locs>>

\* FindOrCreate: the third arm of the chain, or the INSERT.
find_or_create(s) ==
    /\ shell[s].step = "find"
    /\ volumes' = volumes \cup {shell[s].ident}
    /\ shell' = [shell EXCEPT ![s].step = "record"]
    /\ UNCHANGED <<os, mounts, files, locs, calls>>

\* Mutant: the rows of the volume at other mount points stay.
retired_none(row) == {}

\* RecordMount: the volume's rows of this machine at other mount points are
\* soft-deleted.
retired(row) == {m \in mounts : m.vol = row.vol /\ m.machine = row.machine /\ m.point # row.point}

record_mount(s) ==
    LET row == [vol |-> shell[s].ident, machine |-> MachineOf[s], point |-> shell[s].point]
    IN  /\ shell[s].step = "record"
        /\ mounts' = (mounts \ retired(row)) \cup {row}
        /\ shell' = [shell EXCEPT ![s].step = IF shell[s].todo = {} THEN "idle" ELSE "index"]
        /\ UNCHANGED <<os, volumes, files, locs, calls>>

\* One file of the walk, with its fingerprint; a file that is gone is skipped.
persist_file(s, rel) ==
    LET c    == Bytes([point |-> shell[s].point, rel |-> rel])
        h    == [full |-> FALSE, of |-> c]
        rest == shell[s].todo \ {rel}
    IN  /\ shell[s].step = "index"
        /\ rel \in shell[s].todo
        /\ \/ c = NoContent /\ UNCHANGED <<files, locs>>
           \/ /\ c # NoContent
              /\ RowsOf(files, h) # {} \/ Unused(files) # {}
              /\ files' = upsert_file_with_quick_hash(files, h, c)
              /\ locs' = upsert_location(files', locs, h, shell[s].ident, rel)
        /\ shell' = [shell EXCEPT ![s].todo = rest,
                                  ![s].step = IF rest = {} THEN "idle" ELSE "index"]
        /\ UNCHANGED <<os, volumes, mounts, calls>>

\* A library of the version before the fingerprint: LegacyDisk was scanned at
\* the first mount point; since then disks may have moved.
Legacy == Holds[LegacyDisk]

\* The rows it may have made of the contents, each with a uuid of its own.
LegacyRows == {id \in [{Legacy[r] : r \in Rel} \ {NoContent} -> Uuid] :
                 \A c, d \in DOMAIN id : c # d => id[c] # id[d]}

ASSUME LegacyAssumption == LegacyRows # {}

LegacyRow == CHOOSE id \in LegacyRows : TRUE

VolInit ==
    /\ os \in Placements
    /\ volumes = {IdentOf[LegacyDisk]}
    /\ mounts = {[vol |-> IdentOf[LegacyDisk], machine |-> LegacyMachine, point |-> Least(Point)]}
    /\ files = [u \in Uuid |->
                  IF \E c \in DOMAIN LegacyRow : LegacyRow[c] = u
                    THEN [hash |-> [full |-> FALSE,
                                    of |-> CHOOSE c \in DOMAIN LegacyRow : LegacyRow[c] = u],
                          quick |-> NoContent]
                    ELSE NoRow]
    /\ locs = {[uuid |-> LegacyRow[Legacy[r]], hash |-> [full |-> FALSE, of |-> Legacy[r]],
                vol |-> IdentOf[LegacyDisk], rel |-> r] :
                  r \in {q \in Rel : Legacy[q] # NoContent}}
    /\ shell = [s \in Shell |-> [step |-> "idle", point |-> Least(Point),
                                 ident |-> NoIdent, todo |-> {}]]
    /\ calls = 0

VolNext ==
    \/ \E p \in Point : Unmount(p) \/ \E d \in Disk : Mount(p, d)
    \/ \E s \in Shell : \/ \E p \in Point, todo \in {{}, Rel} : detect_volume(s, p, todo)
                        \/ find_or_create(s) \/ record_mount(s)
                        \/ \E rel \in Rel : persist_file(s, rel)
=============================================================================
