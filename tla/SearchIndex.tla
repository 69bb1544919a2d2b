-------------------------- MODULE SearchIndex --------------------------
(***************************************************************************)
(* Tags and the full-text index: the tag commands of the writer            *)
(* (crates/db/src/writer/tag.rs), the two-command use case above them      *)
(* (crates/app/src/tag.rs), and `search_content` with the triggers that    *)
(* keep it (crates/db/src/schema) and the rebuild that replaces it         *)
(* (crates/db/src/writer/search.rs).                                       *)
(*                                                                         *)
(* Of the other tables the module keeps the columns that the triggers      *)
(* read.  Triggers join on file_uuid, the rebuild and the listings on      *)
(* blake3_hash.  Rows carry the order of their ids; a Path stands for      *)
(* volume and relative path.  Commands that write no indexed column        *)
(* (status, volume, thumbnail) are left out, and the FTS5 table itself:    *)
(* its three triggers copy every row of search_content.                    *)
(***************************************************************************)
EXTENDS Integers, Sequences, FiniteSets

CONSTANTS
    Client,      \* callers of the tag use case
    Desktop,     \* those of the desktop shell
    Uuid, NoUuid,
    Hash, NoHash,
    Path, Name, Mime,
    PortDeletes, \* is TagRepository::delete_tag called? (no shell does)
    MaxRows,     \* bound: rows of each table
    MaxWrites    \* bound: commands

ASSUME SearchIndexAssumption ==
    /\ Desktop \subseteq Client
    /\ NoUuid \notin Uuid
    /\ NoHash \notin Hash
    /\ PortDeletes \in BOOLEAN

VARIABLES
    db,      \* files : Uuid -> Hash or NoHash, and rows in the order of their ids:
             \* locs [uuid, hash, path, live], meta [hash, uuid, mime],
             \* tags [name, live], links [hash, uuid, tag, live]
    docs,    \* search_content: [uuid, hash, path, mime, tags]
    scan,    \* the hash between a scan's UpsertFile and its UpsertLocation
    client,  \* the step and the arguments of each caller
    last,    \* the latest command: what it was, and its reply
    writes   \* commands so far

vars == <<db, docs, scan, client, last, writes>>

NoMime == ""

Where(rows, T(_)) == {i \in 1..Len(rows) : T(rows[i])}
First(I) == IF I = {} THEN 0 ELSE CHOOSE i \in I : \A j \in I : i <= j

\* (SELECT f.file_uuid FROM files f WHERE f.blake3_hash = h), NULL if none.
UuidOf(t, h) ==
    IF \E u \in Uuid : t.files[u] = h THEN CHOOSE u \in Uuid : t.files[u] = h ELSE NoUuid

\* The first-seen surviving location of a file.  NULL matches nothing.
Representative(t, u) ==
    First(Where(t.locs, LAMBDA r : r.live /\ r.uuid = u /\ u # NoUuid))

\* The mime_type of the file's metadata, '' without a row.
metadata_col(t, u) ==
    LET m == First(Where(t.meta, LAMBDA r : r.uuid = u /\ u # NoUuid))
    IN  IF m = 0 THEN NoMime ELSE t.meta[m].mime

Names(t, K) == {t.tags[t.links[k].tag].name : k \in K}

\* Mutant: the join forgets the deleted_at of the tag.
tags_agg_of_links(t, u) ==
    Names(t, Where(t.links, LAMBDA r : r.live /\ r.uuid = u /\ u # NoUuid))

\* The names of the live tags linked to the file.
tags_agg(t, u) ==
    Names(t, Where(t.links, LAMBDA r : /\ r.live /\ t.tags[r.tag].live
                                       /\ r.uuid = u /\ u # NoUuid))

\* INSERT OR IGNORE: blake3_hash and file_uuid are both UNIQUE.
OrIgnore(D, d) ==
    IF \E e \in D : e.hash = d.hash \/ (e.uuid = d.uuid /\ d.uuid # NoUuid)
      THEN D
      ELSE D \cup {d}

Unique(D) ==
    \A d, e \in D : d # e => d.hash # e.hash /\ (d.uuid = NoUuid \/ d.uuid # e.uuid)

\* The UPDATE of a file's row.
Row(D, u, f(_)) == {IF d.uuid = u /\ u # NoUuid THEN f(d) ELSE d : d \in D}

FromLive(t, u) ==
    [uuid |-> u, hash |-> t.locs[Representative(t, u)].hash,
     path |-> t.locs[Representative(t, u)].path,
     mime |-> metadata_col(t, u), tags |-> tags_agg(t, u)]

\* The trigger bodies, from the rows as the statement left them.
seed_search_content(D, t, u) ==
    IF Representative(t, u) = 0
      THEN D
      ELSE OrIgnore(D, [FromLive(t, u) EXCEPT !.mime = NoMime, !.tags = {}])

file_locations_insert(D, t, r) ==
    OrIgnore(D, [uuid |-> r.uuid, hash |-> r.hash, path |-> r.path,
                 mime |-> metadata_col(t, r.uuid), tags |-> tags_agg(t, r.uuid)])

location_hash_change_seed(D, t, u) ==
    Row(seed_search_content(D, t, u), u, LAMBDA d : FromLive(t, u))

rename_representative(D, r) == Row(D, r.uuid, LAMBDA d : [d EXCEPT !.path = r.path])

\* Mutant: the row of a file without locations stays.
soft_delete_unretired(D, t, u) ==
    Row(D, u, LAMBDA d : IF Representative(t, u) = 0 THEN d
                         ELSE [d EXCEPT !.path = t.locs[Representative(t, u)].path])

location_soft_delete(D, t, u) ==
    IF Representative(t, u) = 0
      THEN {d \in D : d.uuid # u \/ u = NoUuid}
      ELSE Row(D, u, LAMBDA d : [d EXCEPT !.path = t.locs[Representative(t, u)].path])

metadata_update(D, r) == Row(D, r.uuid, LAMBDA d : [d EXCEPT !.mime = r.mime])
metadata_insert(D, t, r) == metadata_update(seed_search_content(D, t, r.uuid), r)

file_tags_update(D, t, u) == Row(D, u, LAMBDA d : [d EXCEPT !.tags = tags_agg(t, u)])
file_tags_insert(D, t, u) == file_tags_update(seed_search_content(D, t, u), t, u)

\* Every file with a live link to the tag.
refresh_tags_for_holders(D, t, id) ==
    {IF \E k \in 1..Len(t.links) : /\ t.links[k].live
                                   /\ t.links[k].tag = id
                                   /\ t.links[k].uuid = d.uuid
                                   /\ d.uuid # NoUuid
       THEN [d EXCEPT !.tags = tags_agg(t, d.uuid)]
       ELSE d : d \in D}

New(old, new)     == IF Len(new) > Len(old) THEN Len(new) ELSE 0
Changed(old, new) == First({i \in 1..Len(old) : old[i] # new[i]})

\* The triggers of one command, which inserts or changes rows of one table
\* (and of one file), from `db` to the tables t.
FTS_AGGREGATIONS(D, t) ==
    LET l == Changed(db.locs, t.locs)
        m == Changed(db.meta, t.meta)
        g == Changed(db.tags, t.tags)
        k == Changed(db.links, t.links)
    IN  CASE New(db.locs, t.locs) # 0 ->
               file_locations_insert(D, t, t.locs[New(db.locs, t.locs)])
          [] l # 0 /\ db.locs[l].hash # t.locs[l].hash ->
               location_hash_change_seed(D, t, t.locs[l].uuid)
          [] /\ l # 0
             /\ db.locs[l].path # t.locs[l].path
             /\ l = Representative(t, t.locs[l].uuid) ->
               rename_representative(D, t.locs[l])
          [] l # 0 /\ db.locs[l].live /\ ~t.locs[l].live ->
               location_soft_delete(D, t, t.locs[l].uuid)
          [] New(db.meta, t.meta) # 0 -> metadata_insert(D, t, t.meta[New(db.meta, t.meta)])
          [] m # 0                    -> metadata_update(D, t.meta[m])
          [] New(db.links, t.links) # 0 ->
               file_tags_insert(D, t, t.links[New(db.links, t.links)].uuid)
          [] k # 0                    -> file_tags_update(D, t, t.links[k].uuid)
          [] g # 0                    -> refresh_tags_for_holders(D, t, g)
          [] OTHER                    -> D

\* One transaction: all of it, or none when a UNIQUE of search_content refuses
\* a row.
Transaction(what, t, D) ==
    /\ writes < MaxWrites
    /\ writes' = writes + 1
    /\ \/ /\ Unique(D)
          /\ db' = t
          /\ docs' = D
          /\ last' = [what |-> what, ok |-> TRUE]
       \/ /\ ~Unique(D)
          /\ UNCHANGED <<db, docs>>
          /\ last' = [what |-> what, ok |-> FALSE]

Execute(what, t) == Transaction(what, t, FTS_AGGREGATIONS(docs, t))
-----------------------------------------------------------------------------
\* UpsertFile: the first of the two commands for a file of the walk.
UpsertFile(h) ==
    /\ scan = NoHash
    /\ scan' = h
    /\ \/ /\ UuidOf(db, h) # NoUuid
          /\ Execute("file", db)
       \/ /\ UuidOf(db, h) = NoUuid
          /\ \E u \in Uuid : /\ db.files[u] = NoHash
                            /\ Execute("file", [db EXCEPT !.files[u] = h])
    /\ UNCHANGED client

\* PromoteFullHash: no trigger watches `files`.
PromoteFullHash(u, h) ==
    /\ db.files[u] # NoHash
    /\ UuidOf(db, h) = NoUuid
    /\ Execute("promote", [db EXCEPT !.files[u] = h])
    /\ UNCHANGED <<scan, client>>

At(p) == First(Where(db.locs, LAMBDA r : r.live /\ r.path = p))

\* UpsertLocation: the UPDATE binds the hash and leaves file_uuid.
UpsertLocation(h, p) ==
    /\ scan = h
    /\ scan' = NoHash
    /\ \/ /\ At(p) = 0
          /\ Len(db.locs) < MaxRows
          /\ Execute("location", [db EXCEPT !.locs = Append(@,
                [uuid |-> UuidOf(db, h), hash |-> h, path |-> p, live |-> TRUE])])
       \/ /\ At(p) # 0
          /\ Execute("location", [db EXCEPT !.locs[At(p)].hash = h])
    /\ UNCHANGED client

\* UpdateLocationPath: a row at the new path wins, and the source goes.
UpdateLocationPath(p, q) ==
    /\ p # q
    /\ At(p) # 0
    /\ \/ At(q) = 0 /\ Execute("rename", [db EXCEPT !.locs[At(p)].path = q])
       \/ At(q) # 0 /\ Execute("rename", [db EXCEPT !.locs[At(p)].live = FALSE])
    /\ UNCHANGED <<scan, client>>

\* UpsertMetadata, of content the walk has seen.
UpsertMetadata(h, mime) ==
    /\ \E i \in 1..Len(db.locs) : db.locs[i].hash = h
    /\ LET i == First(Where(db.meta, LAMBDA r : r.hash = h))
       IN  \/ /\ i = 0
              /\ Execute("metadata", [db EXCEPT !.meta = Append(@,
                    [hash |-> h, uuid |-> UuidOf(db, h), mime |-> mime])])
           \/ /\ i # 0
              /\ db.meta[i].mime # mime
              /\ Execute("metadata", [db EXCEPT !.meta[i].mime = mime])
    /\ UNCHANGED <<scan, client>>

RepresentativeOfHash(t, h) == First(Where(t.locs, LAMBDA r : r.live /\ r.hash = h))

\* The rows of a rebuild: one representative for each hash, joined by hash.
Rebuilt(t) ==
    {[uuid |-> t.locs[i].uuid, hash |-> t.locs[i].hash, path |-> t.locs[i].path,
      mime |-> LET m == First(Where(t.meta, LAMBDA r : r.hash = t.locs[i].hash))
               IN  IF m = 0 THEN NoMime ELSE t.meta[m].mime,
      tags |-> Names(t, Where(t.links, LAMBDA r : /\ r.live /\ t.tags[r.tag].live
                                                  /\ r.hash = t.locs[i].hash))] :
       i \in {j \in 1..Len(t.locs) : t.locs[j].live /\ j = RepresentativeOfHash(t, t.locs[j].hash)}}

\* What a search may return: a row whose file_uuid is NULL cannot be read.  The
\* volume is looked up by hash, when the search is made.
search_impl(t, D) ==
    {[uuid |-> d.uuid, path |-> d.path, location |-> RepresentativeOfHash(t, d.hash)] :
       d \in {e \in D : e.uuid # NoUuid}}

Rebuild ==
    /\ Transaction("rebuild", db, Rebuilt(db))
    /\ UNCHANGED <<scan, client>>
-----------------------------------------------------------------------------
Tagged(name) == First(Where(db.tags, LAMBDA r : r.live /\ r.name = name))

Goto(c, step) == client' = [client EXCEPT ![c].step = step] /\ UNCHANGED scan

\* The reads of the tag repository: a live link to a tag is joined to the tag
\* only where the tag's name is wanted.
list_tags(t) == Where(t.tags, LAMBDA r : r.live)

tags_for_hashes(t, h) ==
    {k \in Where(t.links, LAMBDA r : r.live /\ r.hash = h) : t.tags[t.links[k].tag].live}

files_with_tag(t, id) ==
    {t.links[k].hash : k \in Where(t.links, LAMBDA r : r.live /\ r.tag = id)}

count_files_for_tag(t, id) ==
    Cardinality(Where(t.links, LAMBDA r : r.live /\ r.tag = id))

\* The hashes of a listing: what the webview and the command line's resolution
\* of a path start from.
Listed == {db.locs[i].hash : i \in Where(db.locs, LAMBDA r : r.live)}

\* The locations whose file is there, joined by hash: see Listings for the rest.
list_with_metadata(t) ==
    Where(t.locs, LAMBDA r : r.live /\ \E u \in Uuid : t.files[u] = r.hash)

\* The tags beside each row.  Of the two reads the second may be later; what it
\* gives is of the hash that the first one gave.
ListFilesWithTags(t) ==
    {[row |-> i, tags |-> tags_for_hashes(t, t.locs[i].hash)] : i \in list_with_metadata(t)}

\* `perima ls --tag`: the tag is looked up by name, and the hashes that carry
\* it filter the rows.
build_tag_filter(t, name) ==
    UNION {files_with_tag(t, id) : id \in {First({i \in list_tags(t) : t.tags[i].name = name})} \ {0}}

\* The use case begins: both operations look the tag up by name first.
Ask(c, op, h, name) ==
    /\ client[c].step = "idle"
    /\ client' = [client EXCEPT ![c] = [step |-> "upsert", op |-> op, hash |-> h,
                                        name |-> name, tag |-> 0]]
    /\ UNCHANGED <<db, docs, scan, last, writes>>

attach_tag(c, h, name) == c \in Desktop /\ h \in Listed /\ Ask(c, "attach", h, name)

\* By file_uuid: the hash of the row of `files`, live location or not.
attach_tag_by_uuid(c, u, name) ==
    /\ c \in Desktop
    /\ db.files[u] # NoHash
    /\ Ask(c, "attach", db.files[u], name)

\* By the id of a listed tag, which the shell turns into its name again.
detach_tag(c, h, id) ==
    /\ c \in Desktop
    /\ h \in Listed
    /\ id \in list_tags(db)
    /\ Ask(c, "detach", h, db.tags[id].name)

detach_tag_by_uuid(c, u, id) ==
    /\ c \in Desktop
    /\ db.files[u] # NoHash
    /\ id \in list_tags(db)
    /\ Ask(c, "detach", db.files[u], db.tags[id].name)

run_add(c, h, name) == c \notin Desktop /\ h \in Listed /\ Ask(c, "attach", h, name)
run_rm(c, h, name)  == c \notin Desktop /\ h \in Listed /\ Ask(c, "detach", h, name)

\* Mutant: the SELECT is dropped.
upsert_tag_anew(t, name) == Append(t, [name |-> name, live |-> TRUE])

\* The live tag of that name, or a new one.
upsert_tag(t, name) ==
    IF \E i \in 1..Len(t) : t[i].live /\ t[i].name = name
      THEN t
      ELSE Append(t, [name |-> name, live |-> TRUE])

\* UpsertTag, at the start of both operations, and once more by the desktop
\* shell, for its answer.
UpsertTag(c) ==
    /\ client[c].step \in {"upsert", "again"}
    /\ LET after == upsert_tag(db.tags, client[c].name)
       IN  /\ Len(after) <= MaxRows
           /\ Execute("tag", [db EXCEPT !.tags = after])
           /\ client' = [client EXCEPT
                 ![c].tag = First(Where(after, LAMBDA r : r.live /\ r.name = client[c].name)),
                 ![c].step = IF client[c].step = "again" THEN "idle" ELSE client[c].op]
    /\ UNCHANGED scan

\* Attach: one live row for a hash and a tag.
AttachTag(c) ==
    /\ client[c].step = "attach"
    /\ LET h     == client[c].hash
           known == \E i \in 1..Len(db.links) : /\ db.links[i].live
                                                /\ db.links[i].hash = h
                                                /\ db.links[i].tag = client[c].tag
       IN  \/ known /\ Execute("attach", db)
           \/ /\ ~known
              /\ Len(db.links) < MaxRows
              /\ Execute("attach", [db EXCEPT !.links = Append(@,
                    [hash |-> h, uuid |-> UuidOf(db, h), tag |-> client[c].tag, live |-> TRUE])])
    /\ Goto(c, IF c \in Desktop THEN "again" ELSE "idle")

\* Detach: the UPDATE fires its trigger for each row it changes.
DetachTag(c) ==
    /\ client[c].step = "detach"
    /\ LET K == {i \in 1..Len(db.links) : /\ db.links[i].live
                                          /\ db.links[i].hash = client[c].hash
                                          /\ db.links[i].tag = client[c].tag}
       IN  Execute("detach", [db EXCEPT !.links =
              [i \in 1..Len(@) |-> IF i \in K THEN [@[i] EXCEPT !.live = FALSE] ELSE @[i]]])
    /\ Goto(c, "idle")

\* DeleteTag.
DeleteTag(id) ==
    /\ PortDeletes
    /\ db.tags[id].live
    /\ Execute("delete", [db EXCEPT !.tags[id].live = FALSE])
    /\ UNCHANGED <<scan, client>>

Init ==
    /\ db = [files |-> [u \in Uuid |-> NoHash], locs |-> <<>>, meta |-> <<>>,
             tags |-> <<>>, links |-> <<>>]
    /\ docs = {}
    /\ scan = NoHash
    /\ client = [c \in Client |-> [step |-> "idle", op |-> "attach", hash |-> NoHash,
                                   name |-> "", tag |-> 0]]
    /\ last = [what |-> "none", ok |-> TRUE]
    /\ writes = 0

\* The row at a path has the content that the scan found there, or is none.
SameContent(h, p) == At(p) # 0 => db.locs[At(p)].hash = h

\* The commands that leave the hash of each file and of each location alone.
Upkeep ==
    \/ \E h \in Hash : UpsertFile(h)
    \/ \E h \in Hash, p \in Path : SameContent(h, p) /\ UpsertLocation(h, p)
    \/ \E p, q \in Path : UpdateLocationPath(p, q)
    \/ \E h \in Hash, mime \in Mime : UpsertMetadata(h, mime)
    \/ Rebuild
    \/ \E c \in Client, h \in Hash, name \in Name :
          attach_tag(c, h, name) \/ run_add(c, h, name) \/ run_rm(c, h, name)
    \/ \E c \in Client, u \in Uuid, name \in Name : attach_tag_by_uuid(c, u, name)
    \/ \E c \in Client, id \in 1..Len(db.tags) :
          \/ \E h \in Hash : detach_tag(c, h, id)
          \/ \E u \in Uuid : detach_tag_by_uuid(c, u, id)
    \/ \E c \in Client : UpsertTag(c) \/ AttachTag(c) \/ DetachTag(c)
    \/ \E id \in 1..Len(db.tags) : DeleteTag(id)

\* And the two that change one.
Next ==
    \/ Upkeep
    \/ \E u \in Uuid, h \in Hash : PromoteFullHash(u, h)
    \/ \E h \in Hash, p \in Path : ~SameContent(h, p) /\ UpsertLocation(h, p)

Spec == Init /\ [][Next]_vars
-----------------------------------------------------------------------------
\* The keys agree: a live location, a live link and a metadata row name the
\* same file by uuid exactly when they name the same content by hash.
KeysAgree ==
    LET named == {<<db.locs[i].uuid, db.locs[i].hash>> : i \in Where(db.locs, LAMBDA r : r.live)}
                 \cup {<<db.links[i].uuid, db.links[i].hash>> : i \in Where(db.links, LAMBDA r : r.live)}
                 \cup {<<db.meta[i].uuid, db.meta[i].hash>> : i \in 1..Len(db.meta)}
    IN  \A m, n \in named : m[1] # NoUuid /\ ((m[1] = n[1]) <=> (m[2] = n[2]))

\* Every row names its file as `files` does.
Recorded(t, rows) ==
    \A i \in 1..Len(rows) : rows[i].uuid \in Uuid /\ t.files[rows[i].uuid] = rows[i].hash

\* The hashes that a scan and the callers hold are those of files.
Held(t, h, callers) ==
    \A g \in {h} \cup {callers[c].hash : c \in Client} : g # NoHash => UuidOf(t, g) # NoUuid

\* A library in which no hash has changed: everything names files as `files`
\* does, the index is the rebuilt one, and the latest command was accepted.
Sound ==
    /\ Recorded(db, db.locs) /\ Recorded(db, db.meta) /\ Recorded(db, db.links)
    /\ Held(db, scan, client)
    /\ docs = Rebuilt(db)
    /\ last.ok

\* No command makes the triggers' index differ from the one a rebuild would
\* make, while uuids and hashes name the same things: whatever was tagged,
\* detached, renamed, moved away or re-extracted, searching finds what a
\* rebuilt index would find, and a rebuild cannot fail.  Only a promotion and
\* a content changed in place can end that, or have a command refused: any
\* other command, of any caller and between the two of another, leaves a sound
\* library sound.
TriggersKeepSync ==
    [][/\ KeysAgree /\ KeysAgree' /\ docs = Rebuilt(db) => docs' = Rebuilt(db)'
       /\ KeysAgree /\ Rebuild => last'.ok
       /\ Sound /\ Upkeep => Sound']_vars

\* A search hit is a file that still has a location.
HitsAreLive == \A hit \in search_impl(db, docs) : Representative(db, hit.uuid) # 0

\* A label shows once on a file, `ls --tag` shows the files beside which the
\* desktop shows it, and the count beside a tag is the number of its files: two
\* callers never make two live tags of one name, nor two live links of one
\* content to one tag.
LabelsOnce ==
    /\ \A i, j \in list_tags(db) : i # j => db.tags[i].name # db.tags[j].name
    /\ \A shown \in ListFilesWithTags(db) :
          /\ \A k, l \in shown.tags : k # l => Names(db, {k}) # Names(db, {l})
          /\ \A name \in Name : name \in Names(db, shown.tags)
                <=> db.locs[shown.row].hash \in build_tag_filter(db, name)
    /\ \A i \in list_tags(db) :
          count_files_for_tag(db, i) = Cardinality(files_with_tag(db, i))

\* "manual recovery tool if the index drifts": a rebuild succeeds.
RebuildSucceeds == last.what = "rebuild" => last.ok

\* The index never refuses what the tables accept.
NothingRefused == last.ok

\* Every hit has a volume: "the volume_id returned here agrees with the path
\* indexed in search_content".
HitsHaveVolume == \A hit \in search_impl(db, docs) : hit.location # 0

\* A NULL file_uuid cannot be read by the search.
HitsReadable == \A d \in docs : d.uuid # NoUuid
=============================================================================
