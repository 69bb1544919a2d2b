---------------------------- MODULE Listings ----------------------------
(***************************************************************************)
(* What the listings read: the two SELECTs over file_locations             *)
(* (crates/db/src/file_repo.rs, crates/db/src/metadata_repo.rs), the use   *)
(* case above them (crates/app/src/metadata.rs), and the commands of both  *)
(* shells.  A listing is one read, so it is a function of the tables of    *)
(* Volumes.                                                                *)
(*                                                                         *)
(* ORDER BY relative_path leaves the order of equal paths open: a listing  *)
(* is any of a set of pages, and a page the set of its rows.  The columns  *)
(* of file_metadata, of which each hash has one row at most, are left out; *)
(* tags are in SearchIndex.                                                *)
(***************************************************************************)
EXTENDS Volumes

AnyVolume == NoIdent

InVolume(R, vol) == {r \in R : vol = AnyVolume \/ r.vol = vol}

\* LIMIT: the first rows by relative path.
Pages(R, limit) ==
    {P \in SUBSET R : /\ Cardinality(P) = IF Cardinality(R) < limit THEN Cardinality(R) ELSE limit
                      /\ \A r \in P, s \in R \ P : r.rel <= s.rel}

\* The locations, with the file whose blake3_hash they have; a location whose
\* file has another one by now is in no listing.
Located ==
    UNION {{[uuid |-> u, hash |-> l.hash, vol |-> l.vol, rel |-> l.rel] :
              u \in RowsOf(files, l.hash)} : l \in locs}

list_file_locations(limit, vol) == Pages(InVolume(Located, vol), limit)

\* MIN(mount_path) of the volume, of whichever machine; none without a row.
mount_path(vol) ==
    LET points == {m.point : m \in {n \in mounts : n.vol = vol}}
    IN  IF points = {} THEN {} ELSE {Least(points)}

\* Each location once, with its fingerprint and mount path.
Joined ==
    {[uuid |-> r.uuid, hash |-> r.hash, vol |-> r.vol, rel |-> r.rel,
      quick |-> files[r.uuid].quick, at |-> mount_path(r.vol)] : r \in Located}

list_with_metadata(limit, vol) == Pages(InVolume(Joined, vol), limit)

\* The payload of the webview: what it opens, transcribes, or disables.
absolute_path(row) == {[point |-> p, rel |-> row.rel] : p \in row.at}

\* MetadataUseCase: no volume reaches the SELECT.
ListFiles(limit)             == list_file_locations(limit, AnyVolume)
ListFilesWithMetadata(limit) == list_with_metadata(limit, AnyVolume)

\* The commands of the desktop shell filter the page.
list_files(limit, vol) == {InVolume(P, vol) : P \in ListFiles(limit)}
list_files_with_metadata(limit, vol) ==
    {InVolume(P, vol) : P \in ListFilesWithMetadata(limit)}

\* The listing with tags takes the volume to the SELECT.
list_files_with_tags(limit, vol) == list_with_metadata(limit, vol)

apply_tag_filter(P, hashes) == {r \in P : r.hash \in hashes}

\* `perima ls`.
ls(limit, vol, hashes) ==
    {apply_tag_filter(InVolume(P, vol), hashes) : P \in ListFiles(limit)}
ls_with_metadata(limit, vol, hashes) ==
    {apply_tag_filter(InVolume(P, vol), hashes) : P \in ListFilesWithMetadata(limit)}
-----------------------------------------------------------------------------
\* The path a listing gives for a row is the row's own: whatever was mounted,
\* moved and scanned, a volume whose disk is where it was last registered is
\* read there, and a location is listed once however many mounts its volume
\* had.  On one machine: see PromotesOwnBytes.
ListedPathIsOwn ==
    \A P \in list_files_with_metadata(Cardinality(locs), AnyVolume) :
        /\ \A r, s \in P : r.vol = s.vol /\ r.rel = s.rel => r = s
        /\ \A r \in P : \A p \in absolute_path(r) : \A q \in Point :
              /\ os[q] # NoDisk
              /\ IdentOf[os[q]] = r.vol
              /\ \E m \in mounts : m.vol = r.vol /\ m.point = q
              => Bytes(p) = Holds[os[q]][r.rel]

\* "Returns up to `limit` records ordered by relative path", "optionally
\* filtered by volume": a listing of a volume with fewer rows than the limit
\* has all its rows.  It has not: the limit comes before the filter.  The
\* listing with tags is as it should be.
PageIsWhole ==
    \A vol \in volumes, limit \in 1..Cardinality(locs) :
        \A P \in list_files(limit, vol) \cup list_files_with_tags(limit, vol) :
            Cardinality(P) < limit =>
                {<<r.vol, r.rel>> : r \in P} = {<<r.vol, r.rel>> : r \in InVolume(Located, vol)}
=============================================================================
