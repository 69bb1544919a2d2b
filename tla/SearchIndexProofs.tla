----------------------- MODULE SearchIndexProofs -----------------------
(***************************************************************************)
(* Tags and the full-text index, for any number of callers, files, rows    *)
(* and commands.                                                           *)
(***************************************************************************)
EXTENDS SearchIndex, FiniteSetTheorems, SequenceTheorems, TLAPS

Location == [uuid : Uuid \cup {NoUuid}, hash : Hash, path : Path, live : BOOLEAN]
Metadata == [hash : Hash, uuid : Uuid \cup {NoUuid}, mime : Mime]
Tag      == [name : Name, live : BOOLEAN]
Link     == [hash : Hash, uuid : Uuid \cup {NoUuid}, tag : Nat, live : BOOLEAN]

Tables == [files : [Uuid -> Hash \cup {NoHash}], locs : Seq(Location), meta : Seq(Metadata),
           tags : Seq(Tag), links : Seq(Link)]

Doc == [uuid : Uuid \cup {NoUuid}, hash : Hash, path : Path, mime : Mime \cup {NoMime},
        tags : SUBSET Name]

Caller == [step : {"idle", "upsert", "attach", "detach", "again"}, op : {"attach", "detach"},
           hash : Hash \cup {NoHash}, name : Name \cup {""}, tag : Nat]

HasLive(t, u) == \E i \in 1..Len(t.locs) : t.locs[i].live /\ t.locs[i].uuid = u

LinksHaveTags(t) == \A k \in 1..Len(t.links) : t.links[k].tag \in 1..Len(t.tags)

\* The rows of an index that the tables t bear out.
Covered(D, t) ==
    /\ D \subseteq Doc
    /\ \A d \in D : d.uuid # NoUuid => HasLive(t, d.uuid)

\* One live tag of a name, one live link of a content and a tag.
OneTagPerName(t) ==
    \A i, j \in 1..Len(t.tags) :
       t.tags[i].live /\ t.tags[j].live /\ t.tags[i].name = t.tags[j].name => i = j

OneLinkPerTag(t) ==
    \A k, l \in 1..Len(t.links) :
       /\ t.links[k].live /\ t.links[l].live
       /\ t.links[k].hash = t.links[l].hash /\ t.links[k].tag = t.links[l].tag
       => k = l

TablesOK(t) == t \in Tables /\ LinksHaveTags(t) /\ OneTagPerName(t) /\ OneLinkPerTag(t)

\* What a caller carries from one command to the next.
CallersOK ==
    /\ client \in [Client -> Caller]
    /\ \A c \in Client :
          /\ client[c].step # "idle" => client[c].hash \in Hash /\ client[c].name \in Name
          /\ client[c].step \in {"attach", "detach", "again"} =>
                client[c].tag \in 1..Len(db.tags)

IndexInv == TablesOK(db) /\ Covered(docs, db) /\ Unique(docs) /\ CallersOK
-----------------------------------------------------------------------------
(***************************************************************************)
(* The least of a set of row numbers, and the reads of the tables.         *)
(***************************************************************************)
LEMMA FirstIsLeast ==
    ASSUME NEW S, S \subseteq Nat, S # {}
    PROVE  First(S) \in S /\ \A m \in S : First(S) <= m
<1> DEFINE T == {0..n : n \in S}
<1>1. T \subseteq FiniteSubsetsOf(Nat) /\ T # {}
  <2>1. ASSUME NEW n \in S PROVE 0..n \in SUBSET Nat /\ IsFiniteSet(0..n)
    BY FS_Interval, 0 \in Int, n \in Int
  <2> QED BY <2>1 DEF FiniteSubsetsOf
<1>2. PICK x \in T : \A y \in T : ~ (<<y, x>> \in StrictSubsetOrdering(Nat))
  <2> HIDE DEF T
  <2>1. IsWellFoundedOn(StrictSubsetOrdering(Nat), FiniteSubsetsOf(Nat))
    BY FS_StrictSubsetOrderingWellFounded
  <2> QED BY <1>1, <2>1, WFMin, Zenon
<1>3. PICK n \in S : x = 0..n
  OBVIOUS
<1>4. ASSUME NEW m \in S PROVE n <= m
  <2>1. 0..m \in SUBSET Nat /\ 0..n \in SUBSET Nat /\ 0..m \in T
    OBVIOUS
  <2>2. ~ (<<0..m, 0..n>> \in StrictSubsetOrdering(Nat))
    BY <1>2, <1>3, <2>1
  <2>3. ~ (0..m \subseteq 0..n /\ 0..m # 0..n)
    BY <2>1, <2>2 DEF StrictSubsetOrdering
  <2>4. n \in Nat /\ m \in Nat
    OBVIOUS
  <2> QED BY <2>3, <2>4
<1> QED BY <1>4 DEF First

LEMMA FirstOfNone == First({}) = 0
BY DEF First

LEMMA ListTags ==
    ASSUME NEW t
    PROVE  list_tags(t) = {i \in 1..Len(t.tags) : t.tags[i].live}
BY DEF list_tags, Where

LEMMA LinksOf ==
    ASSUME NEW t, NEW h
    PROVE  tags_for_hashes(t, h) = {k \in 1..Len(t.links) : /\ t.links[k].live
                                                            /\ t.links[k].hash = h
                                                            /\ t.tags[t.links[k].tag].live}
BY DEF tags_for_hashes, Where

LEMMA FilesOf ==
    ASSUME NEW t, NEW id
    PROVE  /\ Where(t.links, LAMBDA r : r.live /\ r.tag = id)
                = {k \in 1..Len(t.links) : t.links[k].live /\ t.links[k].tag = id}
           /\ files_with_tag(t, id) = {t.links[k].hash : k \in {l \in 1..Len(t.links) :
                                            t.links[l].live /\ t.links[l].tag = id}}
BY DEF files_with_tag, Where

\* `ls --tag`: the files of the one live tag of the name.
LEMMA TagFilter ==
    ASSUME IndexInv, NEW name \in Name
    PROVE  \A h : h \in build_tag_filter(db, name) <=>
              \E i \in list_tags(db) : db.tags[i].name = name /\ h \in files_with_tag(db, i)
<1> DEFINE I == {i \in list_tags(db) : db.tags[i].name = name}
<1>1. \A i, j \in I : i = j
  BY ListTags DEF IndexInv, TablesOK, OneTagPerName
<1>2. I \subseteq Nat \ {0}
  BY ListTags
<1> HIDE DEF I
<1>3. ASSUME NEW i \in I PROVE {First(I)} \ {0} = {i}
  BY <1>1, <1>2, <1>3, FirstIsLeast
<1>4. CASE I = {}
  BY <1>4, FirstOfNone DEF build_tag_filter, I
<1>5. CASE I # {}
  <2>1. PICK i \in I : TRUE
    BY <1>5
  <2>2. build_tag_filter(db, name) = files_with_tag(db, i)
    BY <1>3, <2>1 DEF build_tag_filter, I
  <2> QED BY <1>1, <2>1, <2>2 DEF I
<1> QED BY <1>4, <1>5

LEMMA LabelsFromInv == ASSUME IndexInv PROVE LabelsOnce
<1>1. /\ db.tags \in Seq(Tag) /\ db.links \in Seq(Link)
      /\ \A i, j \in 1..Len(db.tags) :
            db.tags[i].live /\ db.tags[j].live /\ db.tags[i].name = db.tags[j].name => i = j
      /\ \A k, l \in 1..Len(db.links) :
            /\ db.links[k].live /\ db.links[l].live
            /\ db.links[k].hash = db.links[l].hash /\ db.links[k].tag = db.links[l].tag
            => k = l
      /\ \A k \in 1..Len(db.links) : db.links[k].tag \in 1..Len(db.tags)
  BY DEF IndexInv, TablesOK, Tables, OneTagPerName, OneLinkPerTag, LinksHaveTags
<1>2. \A i, j \in list_tags(db) : i # j => db.tags[i].name # db.tags[j].name
  BY <1>1, ListTags
<1>3. ASSUME NEW shown \in ListFilesWithTags(db)
      PROVE  /\ \A k, l \in shown.tags : k # l => Names(db, {k}) # Names(db, {l})
             /\ \A name \in Name : name \in Names(db, shown.tags)
                   <=> db.locs[shown.row].hash \in build_tag_filter(db, name)
  <2> DEFINE h == db.locs[shown.row].hash
  <2>1. shown.tags = {k \in 1..Len(db.links) : /\ db.links[k].live /\ db.links[k].hash = h
                                               /\ db.tags[db.links[k].tag].live}
    BY <1>3, LinksOf DEF ListFilesWithTags
  <2> HIDE DEF h
  <2>2. \A k : Names(db, {k}) = {db.tags[db.links[k].tag].name}
    BY DEF Names
  <2>3. ASSUME NEW k \in shown.tags, NEW l \in shown.tags, Names(db, {k}) = Names(db, {l})
        PROVE  k = l
    <3>1. db.tags[db.links[k].tag].name = db.tags[db.links[l].tag].name
      BY <2>2, <2>3
    <3>2. /\ k \in 1..Len(db.links) /\ db.links[k].live /\ db.links[k].hash = h
          /\ l \in 1..Len(db.links) /\ db.links[l].live /\ db.links[l].hash = h
          /\ db.tags[db.links[k].tag].live /\ db.tags[db.links[l].tag].live
      BY <2>1
    <3>3. db.links[k].tag = db.links[l].tag
      BY <1>1, <3>1, <3>2
    <3> QED BY <1>1, <3>2, <3>3
  <2>4. ASSUME NEW name \in Name
        PROVE  name \in Names(db, shown.tags) <=> h \in build_tag_filter(db, name)
    <3>1. name \in Names(db, shown.tags) <=>
             \E k \in shown.tags : db.tags[db.links[k].tag].name = name
      BY DEF Names
    <3>2. h \in build_tag_filter(db, name) <=>
              \E i \in list_tags(db) : db.tags[i].name = name /\ h \in files_with_tag(db, i)
      BY TagFilter
    <3>3. \A i : h \in files_with_tag(db, i) <=>
              \E k \in 1..Len(db.links) : /\ db.links[k].live /\ db.links[k].tag = i
                                          /\ db.links[k].hash = h
      BY DEF files_with_tag, Where
    <3>4. ASSUME NEW k \in shown.tags, db.tags[db.links[k].tag].name = name
          PROVE  \E i \in list_tags(db) : db.tags[i].name = name /\ h \in files_with_tag(db, i)
      <4>1. /\ k \in 1..Len(db.links) /\ db.links[k].live /\ db.links[k].hash = h
            /\ db.tags[db.links[k].tag].live
        BY <2>1
      <4>2. db.links[k].tag \in list_tags(db)
        BY <1>1, <4>1, ListTags
      <4>3. h \in files_with_tag(db, db.links[k].tag)
        BY <3>3, <4>1
      <4> QED BY <3>4, <4>2, <4>3
    <3>5. ASSUME NEW i \in list_tags(db), db.tags[i].name = name, h \in files_with_tag(db, i)
          PROVE  \E k \in shown.tags : db.tags[db.links[k].tag].name = name
      <4>1. PICK k \in 1..Len(db.links) : /\ db.links[k].live /\ db.links[k].tag = i
                                          /\ db.links[k].hash = h
        BY <3>3, <3>5
      <4>2. db.tags[i].live
        BY ListTags
      <4>3. k \in shown.tags
        BY <2>1, <4>1, <4>2
      <4> QED BY <3>5, <4>1, <4>3
    <3> QED BY <3>1, <3>2, <3>4, <3>5
  <2> QED BY <2>3, <2>4 DEF h
<1>4. ASSUME NEW i \in list_tags(db)
      PROVE  count_files_for_tag(db, i) = Cardinality(files_with_tag(db, i))
  <2> DEFINE K == {k \in 1..Len(db.links) : db.links[k].live /\ db.links[k].tag = i}
             F == {db.links[k].hash : k \in K}
             f == [k \in K |-> db.links[k].hash]
  <2>1. count_files_for_tag(db, i) = Cardinality(K) /\ files_with_tag(db, i) = F
    BY FilesOf DEF count_files_for_tag, Where
  <2>2. f \in Bijection(K, F)
    <3>1. f \in [K -> F] /\ \A h \in F : \E k \in K : f[k] = h
      OBVIOUS
    <3>2. \A k, l \in K : f[k] = f[l] => k = l
      BY <1>1
    <3>3. DOMAIN f = K
      OBVIOUS
    <3> HIDE DEF f, K, F
    <3> QED BY <3>1, <3>2, <3>3 DEF Bijection, Injection, Surjection, IsInjective
  <2>3. IsFiniteSet(K)
    <3>1. Len(db.links) \in Nat
      BY <1>1
    <3>2. IsFiniteSet(1..Len(db.links))
      BY <3>1, FS_Interval
    <3> QED BY <3>2, FS_Subset
  <2> HIDE DEF f, K, F
  <2>4. ExistsBijection(K, F)
    BY <2>2 DEF ExistsBijection
  <2> QED BY <2>1, <2>3, <2>4, FS_Bijection
<1> QED BY <1>2, <1>3, <1>4 DEF LabelsOnce
-----------------------------------------------------------------------------
(***************************************************************************)
(* The triggers: each of their bodies gives rows that the tables bear out. *)
(***************************************************************************)
LEMMA RowsAre ==
    ASSUME NEW t \in Tables
    PROVE  /\ t.files \in [Uuid -> Hash \cup {NoHash}]
           /\ Len(t.locs) \in Nat /\ \A i \in 1..Len(t.locs) : t.locs[i] \in Location
           /\ Len(t.meta) \in Nat /\ \A i \in 1..Len(t.meta) : t.meta[i] \in Metadata
           /\ Len(t.tags) \in Nat /\ \A i \in 1..Len(t.tags) : t.tags[i] \in Tag
           /\ Len(t.links) \in Nat /\ \A i \in 1..Len(t.links) : t.links[i] \in Link
<1>1. /\ t.files \in [Uuid -> Hash \cup {NoHash}] /\ t.locs \in Seq(Location)
      /\ t.meta \in Seq(Metadata) /\ t.tags \in Seq(Tag) /\ t.links \in Seq(Link)
  BY DEF Tables
<1>2. \A S, x : x \in Seq(S) => Len(x) \in Nat /\ \A i \in 1..Len(x) : x[i] \in S
  OBVIOUS
<1> QED BY <1>1, <1>2

LEMMA RepresentativeIs ==
    ASSUME NEW t \in Tables, NEW u
    PROVE  /\ Representative(t, u) # 0 => /\ Representative(t, u) \in 1..Len(t.locs)
                                          /\ t.locs[Representative(t, u)].live
                                          /\ t.locs[Representative(t, u)].uuid = u
                                          /\ u \in Uuid /\ u # NoUuid
                                          /\ HasLive(t, u)
           /\ u # NoUuid /\ HasLive(t, u) => Representative(t, u) # 0
<1> DEFINE I == {i \in 1..Len(t.locs) : t.locs[i].live /\ t.locs[i].uuid = u /\ u # NoUuid}
<1>1. Representative(t, u) = First(I)
  BY DEF Representative, Where
<1>2. Len(t.locs) \in Nat /\ \A i \in 1..Len(t.locs) : t.locs[i] \in Location
  BY RowsAre
<1>3. I \subseteq Nat /\ 0 \notin I
  BY <1>2
<1>4. \A i \in I : /\ i \in 1..Len(t.locs) /\ t.locs[i].live /\ t.locs[i].uuid = u
                   /\ u \in Uuid /\ u # NoUuid /\ HasLive(t, u)
  BY <1>2 DEF HasLive, Location
<1>5. u # NoUuid /\ HasLive(t, u) => I # {}
  BY DEF HasLive
<1> HIDE DEF I
<1>6. I # {} => First(I) \in I
  BY <1>3, FirstIsLeast
<1> QED BY <1>1, <1>3, <1>4, <1>5, <1>6, FirstOfNone

LEMMA MimeIs ==
    ASSUME NEW t \in Tables, NEW u
    PROVE  metadata_col(t, u) \in Mime \cup {NoMime}
<1> DEFINE I == {i \in 1..Len(t.meta) : t.meta[i].uuid = u /\ u # NoUuid}
<1>1. metadata_col(t, u) = IF First(I) = 0 THEN NoMime ELSE t.meta[First(I)].mime
  BY DEF metadata_col, Where
<1>2. Len(t.meta) \in Nat /\ \A i \in 1..Len(t.meta) : t.meta[i] \in Metadata
  BY RowsAre
<1>3. I \subseteq Nat /\ \A i \in I : t.meta[i].mime \in Mime
  BY <1>2 DEF Metadata
<1> HIDE DEF I
<1>4. I # {} => First(I) \in I
  BY <1>3, FirstIsLeast
<1> QED BY <1>1, <1>3, <1>4, FirstOfNone

LEMMA NamesAre ==
    ASSUME NEW t \in Tables, LinksHaveTags(t), NEW K \in SUBSET (1..Len(t.links))
    PROVE  Names(t, K) \subseteq Name
<1>1. \A i \in 1..Len(t.tags) : t.tags[i].name \in Name
  BY RowsAre DEF Tag
<1>2. \A k \in K : t.links[k].tag \in 1..Len(t.tags)
  BY DEF LinksHaveTags
<1> QED BY <1>1, <1>2 DEF Names

LEMMA TagsAre ==
    ASSUME NEW t \in Tables, LinksHaveTags(t), NEW u
    PROVE  tags_agg(t, u) \subseteq Name
<1> DEFINE K == {k \in 1..Len(t.links) : /\ t.links[k].live /\ t.tags[t.links[k].tag].live
                                         /\ t.links[k].uuid = u /\ u # NoUuid}
<1>1. K \in SUBSET (1..Len(t.links))
  OBVIOUS
<1>2. tags_agg(t, u) = Names(t, K)
  BY DEF tags_agg, Where
<1> HIDE DEF K
<1> QED BY <1>1, <1>2, NamesAre

LEMMA FromLiveIs ==
    ASSUME NEW t \in Tables, LinksHaveTags(t), NEW u, Representative(t, u) # 0
    PROVE  /\ FromLive(t, u) \in Doc /\ FromLive(t, u).uuid = u
           /\ [FromLive(t, u) EXCEPT !.mime = NoMime, !.tags = {}] \in Doc
           /\ [FromLive(t, u) EXCEPT !.mime = NoMime, !.tags = {}].uuid = u
           /\ HasLive(t, u)
<1>1. \A i \in 1..Len(t.locs) : t.locs[i] \in Location
  BY RowsAre
<1>2. t.locs[Representative(t, u)] \in Location /\ u \in Uuid /\ HasLive(t, u)
  BY <1>1, RepresentativeIs
<1> QED BY <1>2, MimeIs, TagsAre DEF FromLive, Doc, Location

LEMMA OrIgnoreCovers ==
    ASSUME NEW t, NEW D, Covered(D, t), NEW d \in Doc, d.uuid # NoUuid => HasLive(t, d.uuid)
    PROVE  Covered(OrIgnore(D, d), t)
BY DEF OrIgnore, Covered

LEMMA SeedCovers ==
    ASSUME NEW t \in Tables, LinksHaveTags(t), NEW u, NEW D, Covered(D, t)
    PROVE  Covered(seed_search_content(D, t, u), t)
BY FromLiveIs, OrIgnoreCovers DEF seed_search_content

LEMMA InsertCovers ==
    ASSUME NEW t \in Tables, LinksHaveTags(t), NEW D, Covered(D, t),
           NEW i \in 1..Len(t.locs), t.locs[i].live
    PROVE  Covered(file_locations_insert(D, t, t.locs[i]), t)
<1> DEFINE r == t.locs[i]
           d == [uuid |-> r.uuid, hash |-> r.hash, path |-> r.path,
                 mime |-> metadata_col(t, r.uuid), tags |-> tags_agg(t, r.uuid)]
<1>1. \A j \in 1..Len(t.locs) : t.locs[j] \in Location
  BY RowsAre
<1>2. r \in Location /\ HasLive(t, r.uuid)
  BY <1>1 DEF HasLive
<1>3. d \in Doc /\ d.uuid = r.uuid
  BY <1>2, MimeIs, TagsAre DEF Doc, Location
<1>4. file_locations_insert(D, t, r) = OrIgnore(D, d)
  BY DEF file_locations_insert
<1> HIDE DEF d, r
<1> QED BY <1>2, <1>3, <1>4, OrIgnoreCovers DEF r

LEMMA RowsCover ==
    ASSUME NEW t \in Tables, LinksHaveTags(t), NEW u, NEW D, Covered(D, t)
    PROVE  /\ Representative(t, u) # 0 => Covered(Row(D, u, LAMBDA d : FromLive(t, u)), t)
           /\ \A p \in Path : Covered(Row(D, u, LAMBDA d : [d EXCEPT !.path = p]), t)
           /\ Covered(file_tags_update(D, t, u), t)
           /\ \A id : Covered(refresh_tags_for_holders(D, t, id), t)
<1>1. ASSUME Representative(t, u) # 0 PROVE Covered(Row(D, u, LAMBDA d : FromLive(t, u)), t)
  <2>1. FromLive(t, u) \in Doc /\ (FromLive(t, u).uuid # NoUuid => HasLive(t, FromLive(t, u).uuid))
    BY <1>1, FromLiveIs
  <2> QED BY <2>1 DEF Row, Covered
<1>2. \A p \in Path : Covered(Row(D, u, LAMBDA d : [d EXCEPT !.path = p]), t)
  BY DEF Row, Covered, Doc
<1>3. Covered(file_tags_update(D, t, u), t)
  BY TagsAre DEF Row, Covered, Doc, file_tags_update
<1>4. \A id : Covered(refresh_tags_for_holders(D, t, id), t)
  BY TagsAre DEF refresh_tags_for_holders, Covered, Doc
<1> QED BY <1>1, <1>2, <1>3, <1>4

LEMMA MetadataCovers ==
    ASSUME NEW t \in Tables, LinksHaveTags(t), NEW r, r.mime \in Mime, NEW D, Covered(D, t)
    PROVE  Covered(metadata_update(D, r), t) /\ Covered(metadata_insert(D, t, r), t)
<1>1. \A E : Covered(E, t) => Covered(metadata_update(E, r), t)
  BY DEF metadata_update, Row, Covered, Doc
<1>2. Covered(seed_search_content(D, t, r.uuid), t)
  BY SeedCovers
<1> QED BY <1>1, <1>2 DEF metadata_insert

LEMMA HashChangeCovers ==
    ASSUME NEW t \in Tables, LinksHaveTags(t), NEW u, NEW D, Covered(D, t)
    PROVE  Covered(location_hash_change_seed(D, t, u), t)
<1>1. CASE Representative(t, u) # 0
  <2>1. FromLive(t, u) \in Doc /\ (FromLive(t, u).uuid # NoUuid => HasLive(t, FromLive(t, u).uuid))
    BY <1>1, FromLiveIs
  <2>2. Covered(seed_search_content(D, t, u), t)
    BY SeedCovers
  <2> QED BY <2>1, <2>2 DEF location_hash_change_seed, Row, Covered
<1>2. CASE Representative(t, u) = 0
  <2>1. \A d \in D : ~(d.uuid = u /\ u # NoUuid)
    BY <1>2, RepresentativeIs DEF Covered
  <2>2. seed_search_content(D, t, u) = D
    BY <1>2 DEF seed_search_content
  <2>3. location_hash_change_seed(D, t, u) = D
    BY <2>1, <2>2 DEF location_hash_change_seed, Row
  <2> QED BY <2>3
<1> QED BY <1>1, <1>2

LEMMA ChangedIs ==
    ASSUME NEW old, NEW new, Len(old) \in Nat
    PROVE  /\ Changed(old, new) # 0 => Changed(old, new) \in 1..Len(old)
           /\ (\A i \in 1..Len(old) : old[i] = new[i]) => Changed(old, new) = 0
           /\ \A j \in 1..Len(old) :
                 /\ old[j] # new[j]
                 /\ \A i \in 1..Len(old) : old[i] # new[i] => i = j
                 => Changed(old, new) = j
<1> DEFINE I == {i \in 1..Len(old) : old[i] # new[i]}
<1>1. Changed(old, new) = First(I)
  BY DEF Changed
<1>2. I \subseteq Nat /\ I \subseteq 1..Len(old)
  OBVIOUS
<1>3. (\A i \in 1..Len(old) : old[i] = new[i]) => I = {}
  OBVIOUS
<1>4. \A j \in 1..Len(old) :
         old[j] # new[j] /\ (\A i \in 1..Len(old) : old[i] # new[i] => i = j) => I = {j}
  OBVIOUS
<1> HIDE DEF I
<1>5. I # {} => First(I) \in I
  BY <1>2, FirstIsLeast
<1> QED BY <1>1, <1>2, <1>3, <1>4, <1>5, FirstOfNone

\* Which trigger a command fires.
LEMMA TriggerOf ==
    ASSUME NEW D, NEW t
    PROVE  LET l == Changed(db.locs, t.locs)
               m == Changed(db.meta, t.meta)
               g == Changed(db.tags, t.tags)
               k == Changed(db.links, t.links)
               n == New(db.locs, t.locs)
               o == New(db.meta, t.meta)
               q == New(db.links, t.links)
               X == FTS_AGGREGATIONS(D, t)
           IN  \/ n # 0 /\ X = file_locations_insert(D, t, t.locs[n])
               \/ /\ l # 0 /\ db.locs[l].hash # t.locs[l].hash
                  /\ X = location_hash_change_seed(D, t, t.locs[l].uuid)
               \/ /\ l # 0 /\ db.locs[l].path # t.locs[l].path
                  /\ l = Representative(t, t.locs[l].uuid)
                  /\ X = rename_representative(D, t.locs[l])
               \/ /\ l # 0 /\ db.locs[l].live /\ ~t.locs[l].live
                  /\ X = location_soft_delete(D, t, t.locs[l].uuid)
               \/ o # 0 /\ X = metadata_insert(D, t, t.meta[o])
               \/ m # 0 /\ X = metadata_update(D, t.meta[m])
               \/ q # 0 /\ X = file_tags_insert(D, t, t.links[q].uuid)
               \/ k # 0 /\ X = file_tags_update(D, t, t.links[k].uuid)
               \/ g # 0 /\ X = refresh_tags_for_holders(D, t, g)
               \/ /\ n = 0 /\ o = 0 /\ q = 0 /\ m = 0 /\ k = 0 /\ g = 0
                  /\ l # 0 => /\ db.locs[l].hash = t.locs[l].hash
                              /\ ~(db.locs[l].live /\ ~t.locs[l].live)
                              /\ \/ db.locs[l].path = t.locs[l].path
                                 \/ l # Representative(t, t.locs[l].uuid)
                  /\ X = D
<1> DEFINE l == Changed(db.locs, t.locs)
           m == Changed(db.meta, t.meta)
           g == Changed(db.tags, t.tags)
           k == Changed(db.links, t.links)
           n == New(db.locs, t.locs)
           o == New(db.meta, t.meta)
           q == New(db.links, t.links)
           X == FTS_AGGREGATIONS(D, t)
<1> DEFINE g1 == n # 0
           g2 == l # 0 /\ db.locs[l].hash # t.locs[l].hash
           g3 == /\ l # 0 /\ db.locs[l].path # t.locs[l].path
                 /\ l = Representative(t, t.locs[l].uuid)
           g4 == l # 0 /\ db.locs[l].live /\ ~t.locs[l].live
           x1 == file_locations_insert(D, t, t.locs[n])
           x2 == location_hash_change_seed(D, t, t.locs[l].uuid)
           x3 == rename_representative(D, t.locs[l])
           x4 == location_soft_delete(D, t, t.locs[l].uuid)
           x5 == metadata_insert(D, t, t.meta[o])
           x6 == metadata_update(D, t.meta[m])
           x7 == file_tags_insert(D, t, t.links[q].uuid)
           x8 == file_tags_update(D, t, t.links[k].uuid)
           x9 == refresh_tags_for_holders(D, t, g)
<1>1. X = CASE g1 -> x1 [] g2 -> x2 [] g3 -> x3 [] g4 -> x4 [] o # 0 -> x5 [] m # 0 -> x6
            [] q # 0 -> x7 [] k # 0 -> x8 [] g # 0 -> x9 [] OTHER -> D
  BY DEF FTS_AGGREGATIONS
<1> HIDE DEF g1, g2, g3, g4, x1, x2, x3, x4, x5, x6, x7, x8, x9, m, g, k, n, o, q, X
<1>2. \/ g1 /\ X = x1
      \/ g2 /\ X = x2
      \/ g3 /\ X = x3
      \/ g4 /\ X = x4
      \/ o # 0 /\ X = x5
      \/ m # 0 /\ X = x6
      \/ q # 0 /\ X = x7
      \/ k # 0 /\ X = x8
      \/ g # 0 /\ X = x9
      \/ /\ ~g1 /\ ~g2 /\ ~g3 /\ ~g4 /\ o = 0 /\ m = 0 /\ q = 0 /\ k = 0 /\ g = 0
         /\ X = D
  BY <1>1
<1> QED BY <1>2 DEF g1, g2, g3, g4, x1, x2, x3, x4, x5, x6, x7, x8, x9, m, g, k, n, o, q, X

\* Tables that only grew, or changed in place.
Grown(t) == Len(db.locs) <= Len(t.locs) /\ Len(db.meta) <= Len(t.meta)

LEMMA TriggersCover ==
    ASSUME db \in Tables, NEW t \in Tables, LinksHaveTags(t), Grown(t), NEW D, Covered(D, t),
           New(db.locs, t.locs) # 0 => t.locs[Len(t.locs)].live
    PROVE  Covered(FTS_AGGREGATIONS(D, t), t)
<1> DEFINE l == Changed(db.locs, t.locs)
           m == Changed(db.meta, t.meta)
           g == Changed(db.tags, t.tags)
           k == Changed(db.links, t.links)
           n == New(db.locs, t.locs)
           o == New(db.meta, t.meta)
<1>1. /\ Len(db.locs) \in Nat /\ Len(db.meta) \in Nat /\ Len(t.locs) \in Nat /\ Len(t.meta) \in Nat
      /\ \A i \in 1..Len(t.locs) : t.locs[i] \in Location
      /\ \A i \in 1..Len(t.meta) : t.meta[i] \in Metadata
  BY RowsAre
<1>2. n # 0 => n = Len(t.locs) /\ n \in 1..Len(t.locs)
  BY <1>1 DEF New
<1>3. o # 0 => o \in 1..Len(t.meta) /\ t.meta[o].mime \in Mime
  BY <1>1 DEF New, Metadata
<1>4. m # 0 => m \in 1..Len(t.meta) /\ t.meta[m].mime \in Mime
  BY <1>1, ChangedIs DEF Grown, Metadata
<1>5. n # 0 => Covered(file_locations_insert(D, t, t.locs[n]), t)
  BY <1>2, InsertCovers
<1>6. Covered(location_hash_change_seed(D, t, t.locs[l].uuid), t)
  BY HashChangeCovers
<1>7. ASSUME l # 0, l = Representative(t, t.locs[l].uuid)
      PROVE  Covered(rename_representative(D, t.locs[l]), t)
  <2>1. l \in 1..Len(t.locs)
    BY <1>7, RepresentativeIs
  <2>2. t.locs[l].path \in Path
    BY <1>1, <2>1 DEF Location
  <2> QED BY <2>2, RowsCover DEF rename_representative
<1>8. Covered(location_soft_delete(D, t, t.locs[l].uuid), t)
  <2> DEFINE u == t.locs[l].uuid
  <2> HIDE DEF u
  <2>1. CASE Representative(t, u) = 0
    BY <2>1 DEF location_soft_delete, Covered, u
  <2>2. CASE Representative(t, u) # 0
    <3>1. t.locs[Representative(t, u)].path \in Path
      BY <1>1, <2>2, RepresentativeIs DEF Location
    <3> QED BY <2>2, <3>1, RowsCover DEF location_soft_delete, u
  <2> QED BY <2>1, <2>2
<1>9. o # 0 => Covered(metadata_insert(D, t, t.meta[o]), t)
  BY <1>3, MetadataCovers
<1>10. m # 0 => Covered(metadata_update(D, t.meta[m]), t)
  BY <1>4, MetadataCovers
<1>11. \A u : Covered(file_tags_insert(D, t, u), t) /\ Covered(file_tags_update(D, t, u), t)
  BY SeedCovers, RowsCover DEF file_tags_insert
<1>12. Covered(refresh_tags_for_holders(D, t, g), t)
  BY RowsCover
<1> DEFINE X == FTS_AGGREGATIONS(D, t)
<1>13. \/ n # 0 /\ X = file_locations_insert(D, t, t.locs[n])
       \/ X = location_hash_change_seed(D, t, t.locs[l].uuid)
       \/ l # 0 /\ l = Representative(t, t.locs[l].uuid) /\ X = rename_representative(D, t.locs[l])
       \/ X = location_soft_delete(D, t, t.locs[l].uuid)
       \/ o # 0 /\ X = metadata_insert(D, t, t.meta[o])
       \/ m # 0 /\ X = metadata_update(D, t.meta[m])
       \/ X = file_tags_insert(D, t, t.links[New(db.links, t.links)].uuid)
       \/ X = file_tags_update(D, t, t.links[k].uuid)
       \/ X = refresh_tags_for_holders(D, t, g)
       \/ X = D
  BY TriggerOf
<1> HIDE DEF X, l, m, g, k, n, o
<1>14. Covered(X, t)
  BY <1>5, <1>6, <1>7, <1>8, <1>9, <1>10, <1>11, <1>12, <1>13
<1> QED BY <1>14 DEF X
-----------------------------------------------------------------------------
(***************************************************************************)
(* The commands, one by one.                                               *)
(***************************************************************************)
LEMMA SetRow ==
    ASSUME NEW S, NEW q \in Seq(S), NEW i \in 1..Len(q), NEW e \in S, NEW q2, q2 = [q EXCEPT ![i] = e]
    PROVE  /\ q2 \in Seq(S) /\ Len(q2) = Len(q) /\ q2[i] = e
           /\ \A j \in 1..Len(q) : j # i => q2[j] = q[j]
BY ExceptSeq

LEMMA AddRow ==
    ASSUME NEW S, NEW q \in Seq(S), NEW e \in S, NEW q2, q2 = Append(q, e)
    PROVE  /\ q2 \in Seq(S) /\ Len(q2) = Len(q) + 1 /\ q2[Len(q) + 1] = e
           /\ \A j \in 1..Len(q) : q2[j] = q[j]
BY AppendProperties

LEMMA UuidOfIs == ASSUME NEW t, NEW h PROVE UuidOf(t, h) \in Uuid \cup {NoUuid}
BY DEF UuidOf

LEMMA AtIs ==
    ASSUME db \in Tables, NEW p, At(p) # 0
    PROVE  At(p) \in 1..Len(db.locs) /\ db.locs[At(p)].live /\ db.locs[At(p)].path = p
<1> DEFINE I == {i \in 1..Len(db.locs) : db.locs[i].live /\ db.locs[i].path = p}
<1>1. At(p) = First(I)
  BY DEF At, Where
<1>2. I \subseteq Nat /\ \A i \in I : i \in 1..Len(db.locs) /\ db.locs[i].live /\ db.locs[i].path = p
  BY RowsAre
<1> HIDE DEF I
<1>3. First(I) \in I
  BY <1>1, <1>2, FirstIsLeast, FirstOfNone
<1> QED BY <1>1, <1>2, <1>3

LEMMA TransactionKeeps ==
    ASSUME IndexInv, NEW what, NEW t, NEW D, Transaction(what, t, D), TablesOK(t), Covered(D, t)
    PROVE  /\ TablesOK(db') /\ Covered(docs', db') /\ Unique(docs')
           /\ db' = db \/ db' = t
<1>1. \/ db' = t /\ docs' = D /\ Unique(D)
      \/ db' = db /\ docs' = docs
  BY DEF Transaction
<1>2. TablesOK(db) /\ Covered(docs, db) /\ Unique(docs)
  BY DEF IndexInv
<1> QED BY <1>1, <1>2

LEMMA ExecuteKeeps ==
    ASSUME IndexInv, NEW what, NEW t, Execute(what, t), TablesOK(t), Grown(t), Covered(docs, t),
           New(db.locs, t.locs) # 0 => t.locs[Len(t.locs)].live
    PROVE  /\ TablesOK(db') /\ Covered(docs', db') /\ Unique(docs')
           /\ db' = db \/ db' = t
<1>1. db \in Tables /\ t \in Tables /\ LinksHaveTags(t)
  BY DEF IndexInv, TablesOK
<1>2. Covered(FTS_AGGREGATIONS(docs, t), t)
  BY <1>1, TriggersCover
<1> QED BY <1>2, TransactionKeeps DEF Execute

\* A command that leaves the tags, the links and the live locations.
LEMMA SameTagsKeep ==
    ASSUME IndexInv, NEW t \in Tables, t.tags = db.tags, t.links = db.links,
           Len(db.locs) <= Len(t.locs),
           \A i \in 1..Len(db.locs) : db.locs[i].live =>
              t.locs[i].live /\ t.locs[i].uuid = db.locs[i].uuid
    PROVE  TablesOK(t) /\ Covered(docs, t)
<1>1. TablesOK(t)
  BY DEF IndexInv, TablesOK, LinksHaveTags, OneTagPerName, OneLinkPerTag
<1>2. Len(db.locs) \in Nat /\ Len(t.locs) \in Nat
  BY RowsAre DEF IndexInv, TablesOK
<1>3. \A u : HasLive(db, u) => HasLive(t, u)
  BY <1>2 DEF HasLive
<1>4. Covered(docs, t)
  BY <1>3 DEF IndexInv, Covered
<1> QED BY <1>1, <1>4

LEMMA SameCallers ==
    ASSUME IndexInv, TablesOK(db'), client' = client, Len(db.tags) <= Len(db'.tags)
    PROVE  CallersOK'
<1>1. Len(db.tags) \in Nat /\ Len(db'.tags) \in Nat
  BY RowsAre DEF IndexInv, TablesOK
<1> QED BY <1>1 DEF IndexInv, CallersOK

LEMMA UpsertFileKeeps ==
    ASSUME IndexInv, NEW h \in Hash, UpsertFile(h) \/ \E u \in Uuid : PromoteFullHash(u, h)
    PROVE  IndexInv'
<1>1. PICK what, t : /\ Execute(what, t)
                     /\ t = db \/ \E u \in Uuid : t = [db EXCEPT !.files[u] = h]
  BY DEF UpsertFile, PromoteFullHash
<1>2. t \in Tables /\ t.locs = db.locs /\ t.meta = db.meta /\ t.tags = db.tags /\ t.links = db.links
  BY <1>1 DEF IndexInv, TablesOK, Tables
<1>3. Len(db.locs) \in Nat /\ Len(db.meta) \in Nat
  BY RowsAre DEF IndexInv, TablesOK
<1>4. Grown(t) /\ New(db.locs, t.locs) = 0
  BY <1>2, <1>3 DEF Grown, New
<1>5. TablesOK(t) /\ Covered(docs, t)
  BY <1>2, <1>3, SameTagsKeep
<1>6. TablesOK(db') /\ Covered(docs', db') /\ Unique(docs') /\ db'.tags = db.tags
  BY <1>1, <1>2, <1>4, <1>5, ExecuteKeeps
<1>7. client' = client
  BY DEF UpsertFile, PromoteFullHash
<1>8. CallersOK'
  BY <1>6, <1>7 DEF IndexInv, CallersOK
<1> QED BY <1>6, <1>8 DEF IndexInv

LEMMA LocationKeeps ==
    ASSUME IndexInv, NEW h \in Hash, NEW p \in Path, UpsertLocation(h, p)
    PROVE  IndexInv'
<1>1. PICK t : /\ Execute("location", t)
               /\ \/ t = [db EXCEPT !.locs = Append(@,
                           [uuid |-> UuidOf(db, h), hash |-> h, path |-> p, live |-> TRUE])]
                  \/ At(p) # 0 /\ t = [db EXCEPT !.locs[At(p)].hash = h]
  BY DEF UpsertLocation
<1>2. db \in Tables /\ db.locs \in Seq(Location)
  BY DEF IndexInv, TablesOK, Tables
<1>3. Len(db.locs) \in Nat /\ Len(db.meta) \in Nat /\ \A i \in 1..Len(db.locs) : db.locs[i] \in Location
  BY <1>2, RowsAre
<1>4. /\ t.locs \in Seq(Location) /\ Len(db.locs) <= Len(t.locs)
      /\ \A i \in 1..Len(db.locs) : db.locs[i].live =>
            t.locs[i].live /\ t.locs[i].uuid = db.locs[i].uuid
      /\ Len(t.locs) > Len(db.locs) => t.locs[Len(t.locs)].live
  <2>1. CASE t = [db EXCEPT !.locs = Append(@,
                   [uuid |-> UuidOf(db, h), hash |-> h, path |-> p, live |-> TRUE])]
    <3> DEFINE r == [uuid |-> UuidOf(db, h), hash |-> h, path |-> p, live |-> TRUE]
    <3>1. r \in Location /\ r.live
      BY UuidOfIs DEF Location
    <3>2. t.locs = Append(db.locs, r)
      BY <1>2, <2>1 DEF Tables
    <3> HIDE DEF r
    <3>3. /\ t.locs \in Seq(Location) /\ Len(t.locs) = Len(db.locs) + 1
          /\ t.locs[Len(db.locs) + 1] = r /\ \A i \in 1..Len(db.locs) : t.locs[i] = db.locs[i]
      BY <1>2, <3>1, <3>2, AppendProperties
    <3> QED BY <1>3, <3>1, <3>3
  <2>2. CASE At(p) # 0 /\ t = [db EXCEPT !.locs[At(p)].hash = h]
    <3> DEFINE r == [db.locs[At(p)] EXCEPT !.hash = h]
    <3>1. At(p) \in 1..Len(db.locs) /\ db.locs[At(p)].live
      BY <1>2, <2>2, AtIs
    <3>2. r \in Location /\ r.live /\ r.uuid = db.locs[At(p)].uuid
      BY <1>3, <3>1 DEF Location
    <3>3. t.locs = [db.locs EXCEPT ![At(p)] = r]
      BY <1>2, <2>2 DEF Tables
    <3> HIDE DEF r
    <3>4. /\ t.locs \in Seq(Location) /\ Len(t.locs) = Len(db.locs) /\ t.locs[At(p)] = r
          /\ \A i \in 1..Len(db.locs) : i # At(p) => t.locs[i] = db.locs[i]
      BY <1>2, <3>1, <3>2, <3>3, SetRow
    <3> QED BY <1>3, <3>1, <3>2, <3>4
  <2> QED BY <1>1, <2>1, <2>2
<1>5. t \in Tables /\ t.meta = db.meta /\ t.tags = db.tags /\ t.links = db.links
  BY <1>1, <1>2, <1>4 DEF Tables
<1>6. Grown(t) /\ (New(db.locs, t.locs) # 0 => t.locs[Len(t.locs)].live)
  BY <1>3, <1>4, <1>5 DEF Grown, New
<1>7. TablesOK(t) /\ Covered(docs, t)
  BY <1>4, <1>5, SameTagsKeep
<1>8. TablesOK(db') /\ Covered(docs', db') /\ Unique(docs') /\ db'.tags = db.tags
  BY <1>1, <1>5, <1>6, <1>7, ExecuteKeeps
<1>9. CallersOK'
  BY <1>8 DEF IndexInv, CallersOK, UpsertLocation
<1> QED BY <1>8, <1>9 DEF IndexInv

\* The row of a file whose last location goes is deleted with it.
LEMMA SoftDeleteCovers ==
    ASSUME NEW t \in Tables, NEW u, NEW D, D \subseteq Doc,
           \A d \in D : d.uuid # NoUuid => d.uuid = u \/ HasLive(t, d.uuid)
    PROVE  Covered(location_soft_delete(D, t, u), t)
<1>1. CASE Representative(t, u) = 0
  BY <1>1 DEF location_soft_delete, Covered
<1>2. CASE Representative(t, u) # 0
  <2>1. \A i \in 1..Len(t.locs) : t.locs[i].path \in Path
    BY RowsAre DEF Location
  <2>2. t.locs[Representative(t, u)].path \in Path /\ HasLive(t, u)
    BY <1>2, <2>1, RepresentativeIs
  <2>3. Covered(D, t)
    BY <2>2 DEF Covered
  <2> QED BY <1>2, <2>2, <2>3 DEF location_soft_delete, Row, Covered, Doc
<1> QED BY <1>1, <1>2

LEMMA RenameKeeps ==
    ASSUME IndexInv, NEW p \in Path, NEW q \in Path, UpdateLocationPath(p, q)
    PROVE  IndexInv'
<1> DEFINE i == At(p)
           r == [db.locs[i] EXCEPT !.path = q]
           s == [db.locs[i] EXCEPT !.live = FALSE]
<1>1. PICK t : /\ Execute("rename", t)
               /\ \/ t = [db EXCEPT !.locs[At(p)].path = q]
                  \/ t = [db EXCEPT !.locs[At(p)].live = FALSE]
  BY DEF UpdateLocationPath
<1>2. db \in Tables /\ db.locs \in Seq(Location)
  BY DEF IndexInv, TablesOK, Tables
<1>3. Len(db.locs) \in Nat /\ Len(db.meta) \in Nat /\ \A j \in 1..Len(db.locs) : db.locs[j] \in Location
  BY <1>2, RowsAre
<1>4. i \in 1..Len(db.locs) /\ db.locs[i].live
  BY <1>2, AtIs DEF UpdateLocationPath
<1>5. /\ r \in Location /\ r.live /\ r.uuid = db.locs[i].uuid
      /\ s \in Location /\ ~s.live /\ s.uuid = db.locs[i].uuid
      /\ s.hash = db.locs[i].hash /\ s.path = db.locs[i].path
  BY <1>3, <1>4 DEF Location
<1>6. /\ t.locs = [db.locs EXCEPT ![i] = r] \/ t.locs = [db.locs EXCEPT ![i] = s]
      /\ t.files = db.files /\ t.meta = db.meta /\ t.tags = db.tags /\ t.links = db.links
  BY <1>1, <1>2 DEF Tables
<1> HIDE DEF i, r, s
<1>7. /\ t.locs \in Seq(Location) /\ Len(t.locs) = Len(db.locs)
      /\ t.locs[i] = r \/ t.locs[i] = s
      /\ \A j \in 1..Len(db.locs) : j # i => t.locs[j] = db.locs[j]
  BY <1>2, <1>4, <1>5, <1>6, SetRow
<1>8. t \in Tables
  BY <1>1, <1>2, <1>7 DEF Tables
<1>9. Grown(t) /\ New(db.locs, t.locs) = 0
  BY <1>3, <1>6, <1>7 DEF Grown, New
<1>10. TablesOK(t)
  BY <1>6, <1>8 DEF IndexInv, TablesOK, LinksHaveTags, OneTagPerName, OneLinkPerTag
<1>11. Covered(FTS_AGGREGATIONS(docs, t), t)
  <2>1. CASE t.locs[i] = r
    <3>1. Covered(docs, t)
      BY <1>3, <1>4, <1>5, <1>6, <1>7, <1>8, <2>1, SameTagsKeep
    <3> QED BY <1>2, <1>8, <1>9, <1>10, <3>1, TriggersCover DEF TablesOK
  <2>2. CASE t.locs[i] = s
    <3>1. db.locs[i] # t.locs[i]
      BY <1>4, <1>5, <2>2
    <3>2. Changed(db.locs, t.locs) = i
      BY <1>3, <1>4, <1>7, <3>1, ChangedIs
    <3>3. /\ Changed(db.meta, t.meta) = 0 /\ Changed(db.tags, t.tags) = 0
          /\ Changed(db.links, t.links) = 0
          /\ New(db.meta, t.meta) = 0 /\ New(db.links, t.links) = 0
      <4>1. Len(db.tags) \in Nat /\ Len(db.links) \in Nat
        BY <1>2, RowsAre
      <4> QED BY <1>3, <1>6, <4>1, ChangedIs DEF New
    <3>4. i # 0
      BY <1>4
    <3>5. FTS_AGGREGATIONS(docs, t) = location_soft_delete(docs, t, t.locs[i].uuid)
      BY <1>4, <1>5, <1>9, <2>2, <3>2, <3>3, <3>4, TriggerOf
    <3>6. \A d \in docs : d.uuid # NoUuid => d.uuid = t.locs[i].uuid \/ HasLive(t, d.uuid)
      BY <1>3, <1>5, <1>7, <2>2 DEF IndexInv, Covered, HasLive
    <3> QED BY <1>8, <3>5, <3>6, SoftDeleteCovers DEF IndexInv, Covered
  <2> QED BY <1>7, <2>1, <2>2
<1>12. TablesOK(db') /\ Covered(docs', db') /\ Unique(docs') /\ db'.tags = db.tags
  BY <1>1, <1>6, <1>10, <1>11, TransactionKeeps DEF Execute
<1>13. CallersOK'
  BY <1>12 DEF IndexInv, CallersOK, UpdateLocationPath
<1> QED BY <1>12, <1>13 DEF IndexInv

LEMMA MetadataKeeps ==
    ASSUME IndexInv, NEW h \in Hash, NEW mime \in Mime, UpsertMetadata(h, mime)
    PROVE  IndexInv'
<1> DEFINE r == [hash |-> h, uuid |-> UuidOf(db, h), mime |-> mime]
           I == {i \in 1..Len(db.meta) : db.meta[i].hash = h}
           i == First(I)
           s == [db.meta[i] EXCEPT !.mime = mime]
<1>1. PICK t : /\ Execute("metadata", t)
               /\ \/ t = [db EXCEPT !.meta = Append(@, r)]
                  \/ i # 0 /\ t = [db EXCEPT !.meta[i].mime = mime]
  BY DEF UpsertMetadata, Where
<1>2. db \in Tables /\ db.meta \in Seq(Metadata)
  BY DEF IndexInv, TablesOK, Tables
<1>3. /\ Len(db.locs) \in Nat /\ Len(db.meta) \in Nat
      /\ \A j \in 1..Len(db.meta) : db.meta[j] \in Metadata
  BY <1>2, RowsAre
<1>4. i # 0 => i \in 1..Len(db.meta)
  <2>1. I \subseteq Nat /\ I \subseteq 1..Len(db.meta)
    BY <1>3
  <2> HIDE DEF i, I
  <2>2. I # {} => First(I) \in I
    BY <2>1, FirstIsLeast
  <2> QED BY <2>1, <2>2, FirstOfNone DEF i
<1> HIDE DEF I, i
<1>5. r \in Metadata /\ (i # 0 => s \in Metadata)
  BY <1>3, <1>4, UuidOfIs DEF Metadata
<1>6. /\ \/ t.meta = Append(db.meta, r)
         \/ i # 0 /\ t.meta = [db.meta EXCEPT ![i] = s]
      /\ t.files = db.files /\ t.locs = db.locs /\ t.tags = db.tags /\ t.links = db.links
  BY <1>1, <1>2 DEF Tables
<1> HIDE DEF r, s
<1>7. t.meta \in Seq(Metadata) /\ Len(db.meta) <= Len(t.meta)
  BY <1>2, <1>3, <1>4, <1>5, <1>6, AddRow, SetRow
<1>8. t \in Tables
  BY <1>1, <1>2, <1>7 DEF Tables
<1>9. Grown(t) /\ New(db.locs, t.locs) = 0
  BY <1>3, <1>6, <1>7 DEF Grown, New
<1>10. TablesOK(t) /\ Covered(docs, t)
  BY <1>3, <1>6, <1>8, SameTagsKeep
<1>11. TablesOK(db') /\ Covered(docs', db') /\ Unique(docs') /\ db'.tags = db.tags
  BY <1>1, <1>6, <1>9, <1>10, ExecuteKeeps
<1>12. CallersOK'
  BY <1>11 DEF IndexInv, CallersOK, UpsertMetadata
<1> QED BY <1>11, <1>12 DEF IndexInv

\* The index of a rebuild: a row for each hash with a live location.
LEMMA RebuildKeeps == ASSUME IndexInv, Rebuild PROVE IndexInv'
<1>1. TablesOK(db) /\ db \in Tables /\ LinksHaveTags(db)
  BY DEF IndexInv, TablesOK
<1>2. Covered(Rebuilt(db), db)
  <2>1. /\ Len(db.links) \in Nat /\ Len(db.meta) \in Nat
        /\ \A i \in 1..Len(db.locs) : db.locs[i] \in Location
        /\ \A i \in 1..Len(db.meta) : db.meta[i] \in Metadata
    BY <1>1, RowsAre
  <2> DEFINE I(h) == {i \in 1..Len(db.meta) : db.meta[i].hash = h}
             K(h) == {k \in 1..Len(db.links) : /\ db.links[k].live /\ db.tags[db.links[k].tag].live
                                               /\ db.links[k].hash = h}
             Mm(h) == IF First(I(h)) = 0 THEN NoMime ELSE db.meta[First(I(h))].mime
             Tt(h) == Names(db, K(h))
  <2>2. ASSUME NEW h PROVE Mm(h) \in Mime \cup {NoMime}
    <3>1. I(h) \subseteq Nat /\ \A i \in I(h) : db.meta[i].mime \in Mime
      BY <2>1 DEF Metadata
    <3> HIDE DEF I
    <3>2. I(h) # {} => First(I(h)) \in I(h)
      BY <3>1, FirstIsLeast
    <3> QED BY <3>1, <3>2, FirstOfNone
  <2>3. ASSUME NEW h PROVE Tt(h) \in SUBSET Name
    <3>1. K(h) \in SUBSET (1..Len(db.links))
      OBVIOUS
    <3> HIDE DEF K
    <3> QED BY <1>1, <3>1, NamesAre
  <2>4. ASSUME NEW d \in Rebuilt(db)
        PROVE  d \in Doc /\ (d.uuid # NoUuid => HasLive(db, d.uuid))
    <3>1. PICK i \in 1..Len(db.locs) :
             /\ db.locs[i].live
             /\ d = [uuid |-> db.locs[i].uuid, hash |-> db.locs[i].hash, path |-> db.locs[i].path,
                     mime |-> Mm(db.locs[i].hash), tags |-> Tt(db.locs[i].hash)]
      BY DEF Rebuilt, Where
    <3> HIDE DEF Mm, Tt
    <3>2. Mm(db.locs[i].hash) \in Mime \cup {NoMime} /\ Tt(db.locs[i].hash) \in SUBSET Name
      BY <2>2, <2>3
    <3>3. db.locs[i] \in Location
      BY <2>1
    <3>4. d \in Doc /\ d.uuid = db.locs[i].uuid
      BY <3>1, <3>2, <3>3 DEF Doc, Location
    <3>5. HasLive(db, db.locs[i].uuid)
      BY <3>1 DEF HasLive
    <3> QED BY <3>4, <3>5
  <2> QED BY <2>4 DEF Covered
<1>3. /\ Transaction("rebuild", db, Rebuilt(db)) /\ client' = client
  BY DEF Rebuild
<1>4. TablesOK(db') /\ Covered(docs', db') /\ Unique(docs') /\ db' = db
  BY <1>1, <1>2, <1>3, TransactionKeeps
<1>5. CallersOK'
  BY <1>3, <1>4 DEF IndexInv, CallersOK
<1> QED BY <1>4, <1>5 DEF IndexInv

LEMMA AskKeeps ==
    ASSUME IndexInv, NEW c \in Client, NEW op \in {"attach", "detach"}, NEW h \in Hash,
           NEW name \in Name, Ask(c, op, h, name)
    PROVE  IndexInv'
<1>1. db' = db /\ docs' = docs
  BY DEF Ask
<1>2. TablesOK(db') /\ Covered(docs', db') /\ Unique(docs')
  BY <1>1 DEF IndexInv
<1> DEFINE a == [step |-> "upsert", op |-> op, hash |-> h, name |-> name, tag |-> 0]
<1>3. /\ a \in Caller /\ a.step = "upsert" /\ a.hash = h /\ a.name = name
  BY DEF Caller
<1>4. client \in [Client -> Caller] /\ client' = [client EXCEPT ![c] = a]
  BY DEF Ask, IndexInv, CallersOK
<1> HIDE DEF a
<1>5. /\ client' \in [Client -> Caller] /\ client'[c] = a
      /\ \A b \in Client : b # c => client'[b] = client[b]
  BY <1>3, <1>4
<1>6. CallersOK'
  BY <1>1, <1>3, <1>5 DEF IndexInv, CallersOK
<1> QED BY <1>2, <1>6 DEF IndexInv

LEMMA AsksKeep ==
    ASSUME IndexInv, NEW c \in Client,
           \/ \E h \in Hash, name \in Name :
                 attach_tag(c, h, name) \/ run_add(c, h, name) \/ run_rm(c, h, name)
           \/ \E u \in Uuid, name \in Name : attach_tag_by_uuid(c, u, name)
           \/ \E id \in 1..Len(db.tags) :
                 \/ \E h \in Hash : detach_tag(c, h, id)
                 \/ \E u \in Uuid : detach_tag_by_uuid(c, u, id)
    PROVE  IndexInv'
<1>1. db \in Tables
  BY DEF IndexInv, TablesOK
<1>2. \A id \in 1..Len(db.tags) : db.tags[id].name \in Name
  BY <1>1, RowsAre DEF Tag
<1>3. \A u \in Uuid : db.files[u] # NoHash => db.files[u] \in Hash
  BY <1>1, RowsAre
<1>4. \E op \in {"attach", "detach"}, h \in Hash, name \in Name : Ask(c, op, h, name)
  BY <1>2, <1>3 DEF attach_tag, run_add, run_rm, attach_tag_by_uuid, detach_tag, detach_tag_by_uuid
<1> QED BY <1>4, AskKeeps

\* The tag a client holds, after a command that may have added one.
LEMMA UpsertTagIs ==
    ASSUME IndexInv, NEW name \in Name, NEW after, after = upsert_tag(db.tags, name)
    PROVE  /\ after \in Seq(Tag) /\ Len(after) >= Len(db.tags)
           /\ \A i \in 1..Len(db.tags) : after[i] = db.tags[i]
           /\ First(Where(after, LAMBDA r : r.live /\ r.name = name)) \in 1..Len(after)
           /\ \A i, j \in 1..Len(after) :
                 after[i].live /\ after[j].live /\ after[i].name = after[j].name => i = j
<1> DEFINE r == [name |-> name, live |-> TRUE]
           I == {i \in 1..Len(after) : after[i].live /\ after[i].name = name}
<1>1. db.tags \in Seq(Tag) /\ Len(db.tags) \in Nat /\ db \in Tables
  BY RowsAre DEF IndexInv, TablesOK, Tables
<1>2. r \in Tag /\ r.live /\ r.name = name
  BY DEF Tag
<1>3. CASE \E i \in 1..Len(db.tags) : db.tags[i].live /\ db.tags[i].name = name
  <2>1. after = db.tags
    BY <1>3 DEF upsert_tag
  <2>2. I \subseteq Nat /\ I # {}
    BY <1>1, <1>3, <2>1
  <2>3. First(Where(after, LAMBDA x : x.live /\ x.name = name)) = First(I)
    BY DEF Where
  <2> HIDE DEF I
  <2>4. First(I) \in I
    BY <2>2, FirstIsLeast
  <2> QED BY <1>1, <2>1, <2>3, <2>4 DEF IndexInv, TablesOK, OneTagPerName, I
<1>4. CASE ~\E i \in 1..Len(db.tags) : db.tags[i].live /\ db.tags[i].name = name
  <2>1. after = Append(db.tags, r)
    BY <1>4 DEF upsert_tag
  <2> HIDE DEF r
  <2>2. /\ after \in Seq(Tag) /\ Len(after) = Len(db.tags) + 1 /\ after[Len(db.tags) + 1] = r
        /\ \A j \in 1..Len(db.tags) : after[j] = db.tags[j]
    BY <1>1, <1>2, <2>1, AddRow
  <2>3. I = {Len(db.tags) + 1}
    BY <1>1, <1>2, <1>4, <2>2
  <2>4. First(Where(after, LAMBDA x : x.live /\ x.name = name)) = First(I)
    BY DEF Where
  <2> HIDE DEF I
  <2>5. First(I) = Len(db.tags) + 1
    <3>1. I \subseteq Nat /\ I # {}
      BY <1>1, <2>3
    <3> QED BY <2>3, <3>1, FirstIsLeast
  <2>6. \A i, j \in 1..Len(after) :
           after[i].live /\ after[j].live /\ after[i].name = after[j].name => i = j
    BY <1>1, <1>2, <1>4, <2>2 DEF IndexInv, TablesOK, OneTagPerName
  <2> QED BY <1>1, <2>2, <2>4, <2>5, <2>6
<1> QED BY <1>3, <1>4

LEMMA UpsertTagKeeps == ASSUME IndexInv, NEW c \in Client, UpsertTag(c) PROVE IndexInv'
<1> DEFINE name == client[c].name
           after == upsert_tag(db.tags, name)
           id == First(Where(after, LAMBDA r : r.live /\ r.name = name))
           next == IF client[c].step = "again" THEN "idle" ELSE client[c].op
           t == [db EXCEPT !.tags = after]
<1>1. /\ client[c].step \in {"upsert", "again"}
      /\ Execute("tag", t)
      /\ client' = [client EXCEPT ![c].tag = id, ![c].step = next]
  BY DEF UpsertTag
<1>2. client[c] \in Caller /\ client[c].hash \in Hash /\ name \in Name
  BY <1>1 DEF IndexInv, CallersOK
<1>3. /\ after \in Seq(Tag) /\ Len(after) >= Len(db.tags)
      /\ \A i \in 1..Len(db.tags) : after[i] = db.tags[i]
      /\ id \in 1..Len(after)
      /\ \A i, j \in 1..Len(after) :
            after[i].live /\ after[j].live /\ after[i].name = after[j].name => i = j
  <2> HIDE DEF name
  <2> QED BY <1>2, UpsertTagIs
<1> HIDE DEF name, after, id
<1>4. db \in Tables /\ Len(db.locs) \in Nat /\ Len(db.meta) \in Nat /\ Len(db.links) \in Nat
      /\ Len(db.tags) \in Nat /\ Len(after) \in Nat
  BY <1>3, RowsAre DEF IndexInv, TablesOK
<1>5. /\ t \in Tables /\ t.files = db.files /\ t.locs = db.locs /\ t.meta = db.meta
      /\ t.links = db.links /\ t.tags = after
  BY <1>3, <1>4 DEF Tables
<1> HIDE DEF t
<1>6. TablesOK(t)
  BY <1>3, <1>4, <1>5 DEF IndexInv, TablesOK, LinksHaveTags, OneTagPerName, OneLinkPerTag
<1>7. Covered(docs, t)
  BY <1>5 DEF IndexInv, Covered, HasLive
<1>8. FTS_AGGREGATIONS(docs, t) = docs
  <2>1. Changed(db.locs, t.locs) = 0 /\ Changed(db.meta, t.meta) = 0
    BY <1>4, <1>5, ChangedIs
  <2>2. Changed(db.links, t.links) = 0 /\ Changed(db.tags, t.tags) = 0
    BY <1>3, <1>4, <1>5, ChangedIs
  <2>3. New(db.locs, t.locs) = 0 /\ New(db.meta, t.meta) = 0 /\ New(db.links, t.links) = 0
    BY <1>4, <1>5 DEF New
  <2> QED BY <2>1, <2>2, <2>3, TriggerOf
<1>9. db' = t /\ docs' = docs
  BY <1>1, <1>8 DEF Execute, Transaction, IndexInv
<1>10. TablesOK(db') /\ Covered(docs', db') /\ Unique(docs')
  BY <1>6, <1>7, <1>9 DEF IndexInv
<1>11. next \in {"idle", "attach", "detach"} /\ id \in Nat
  <2>1. client[c].op \in {"attach", "detach"}
    BY <1>2 DEF Caller
  <2>2. id \in Nat
    BY <1>3, <1>4
  <2> QED BY <2>1, <2>2
<1> HIDE DEF next
<1> DEFINE a == [client[c] EXCEPT !.tag = id, !.step = next]
<1>12. /\ a \in Caller /\ a.hash = client[c].hash /\ a.name = client[c].name /\ a.tag = id
  BY <1>2, <1>11 DEF Caller
<1>13. client \in [Client -> Caller] /\ client' = [client EXCEPT ![c] = a]
  BY <1>1 DEF IndexInv, CallersOK
<1> HIDE DEF a
<1>14. client' \in [Client -> Caller] /\ client'[c] = a /\ \A b \in Client : b # c => client'[b] = client[b]
  BY <1>12, <1>13
<1>15. CallersOK'
  BY <1>2, <1>3, <1>4, <1>5, <1>9, <1>12, <1>14 DEF IndexInv, CallersOK, name
<1> QED BY <1>10, <1>15 DEF IndexInv

\* What follows a command of the tag use case: the caller's next step.
LEMMA GotoKeeps ==
    ASSUME IndexInv, NEW c \in Client, NEW step \in {"idle", "again"}, Goto(c, step),
           client[c].step \in {"attach", "detach"},
           TablesOK(db'), Len(db'.tags) = Len(db.tags)
    PROVE  CallersOK'
<1> DEFINE a == [client[c] EXCEPT !.step = step]
<1>1. client[c] \in Caller
  BY DEF IndexInv, CallersOK
<1>2. /\ a \in Caller /\ a.hash = client[c].hash /\ a.name = client[c].name
      /\ a.tag = client[c].tag
  BY <1>1 DEF Caller
<1>3. client \in [Client -> Caller] /\ client' = [client EXCEPT ![c] = a]
  BY DEF IndexInv, CallersOK, Goto
<1> HIDE DEF a
<1>4. client' \in [Client -> Caller] /\ client'[c] = a /\ \A b \in Client : b # c => client'[b] = client[b]
  BY <1>2, <1>3
<1> QED BY <1>2, <1>4 DEF IndexInv, CallersOK

\* A link to a tag that the content does not have yet.
LEMMA LinkAdded ==
    ASSUME IndexInv, NEW t \in Tables, t.tags = db.tags, NEW r, r.tag \in 1..Len(db.tags),
           \A l \in 1..Len(db.links) :
              ~(db.links[l].live /\ db.links[l].hash = r.hash /\ db.links[l].tag = r.tag),
           Len(t.links) = Len(db.links) + 1, t.links[Len(db.links) + 1] = r,
           \A l \in 1..Len(db.links) : t.links[l] = db.links[l]
    PROVE  TablesOK(t)
<1>1. Len(db.links) \in Nat
  BY RowsAre DEF IndexInv, TablesOK
<1>2. \A k \in 1..Len(t.links) : k \in 1..Len(db.links) \/ k = Len(db.links) + 1
  BY <1>1
<1>3. LinksHaveTags(t)
  BY <1>2 DEF IndexInv, TablesOK, LinksHaveTags
<1>4. OneLinkPerTag(t)
  <2>1. \A k, l \in 1..Len(db.links) :
           /\ t.links[k].live /\ t.links[l].live
           /\ t.links[k].hash = t.links[l].hash /\ t.links[k].tag = t.links[l].tag
           => k = l
    BY DEF IndexInv, TablesOK, OneLinkPerTag
  <2>2. \A l \in 1..Len(db.links) :
           ~(t.links[l].live /\ t.links[l].hash = r.hash /\ t.links[l].tag = r.tag)
    OBVIOUS
  <2> QED BY <1>2, <2>1, <2>2 DEF OneLinkPerTag
<1> QED BY <1>3, <1>4 DEF IndexInv, TablesOK, OneTagPerName

LEMMA AttachTagKeeps == ASSUME IndexInv, NEW c \in Client, AttachTag(c) PROVE IndexInv'
<1> DEFINE h == client[c].hash
           r == [hash |-> h, uuid |-> UuidOf(db, h), tag |-> client[c].tag, live |-> TRUE]
<1>1. /\ client[c].step = "attach"
      /\ \/ Execute("attach", db)
         \/ /\ ~\E i \in 1..Len(db.links) : /\ db.links[i].live /\ db.links[i].hash = h
                                            /\ db.links[i].tag = client[c].tag
            /\ Execute("attach", [db EXCEPT !.links = Append(@, r)])
  BY DEF AttachTag
<1>2. h \in Hash /\ client[c].tag \in 1..Len(db.tags)
  BY <1>1 DEF IndexInv, CallersOK
<1>3. /\ db \in Tables /\ db.links \in Seq(Link) /\ Len(db.locs) \in Nat /\ Len(db.meta) \in Nat
      /\ Len(db.links) \in Nat /\ Len(db.tags) \in Nat
  BY RowsAre DEF IndexInv, TablesOK, Tables
<1>4. r \in Link /\ r.live /\ r.hash = h /\ r.tag = client[c].tag
  BY <1>2, <1>3, UuidOfIs DEF Link
<1> HIDE DEF h, r
<1>5. ASSUME Execute("attach", db)
      PROVE  TablesOK(db') /\ Covered(docs', db') /\ Unique(docs') /\ db'.tags = db.tags
  <2>1. Grown(db) /\ New(db.locs, db.locs) = 0
    BY <1>3 DEF Grown, New
  <2>2. TablesOK(db) /\ Covered(docs, db)
    BY DEF IndexInv
  <2> QED BY <1>5, <2>1, <2>2, ExecuteKeeps
<1>6. ASSUME ~\E i \in 1..Len(db.links) : /\ db.links[i].live /\ db.links[i].hash = h
                                           /\ db.links[i].tag = client[c].tag,
             Execute("attach", [db EXCEPT !.links = Append(@, r)])
      PROVE  TablesOK(db') /\ Covered(docs', db') /\ Unique(docs') /\ db'.tags = db.tags
  <2> DEFINE t == [db EXCEPT !.links = Append(@, r)]
  <2>1. t.links = Append(db.links, r)
    BY <1>3 DEF Tables
  <2>2. t.files = db.files /\ t.locs = db.locs /\ t.meta = db.meta /\ t.tags = db.tags
    BY <1>3 DEF Tables
  <2>3. /\ t.links \in Seq(Link) /\ Len(t.links) = Len(db.links) + 1
        /\ t.links[Len(db.links) + 1] = r
        /\ \A j \in 1..Len(db.links) : t.links[j] = db.links[j]
    BY <1>3, <1>4, <2>1, AddRow
  <2>4. t \in Tables
    BY <1>3, <2>3 DEF Tables
  <2> HIDE DEF t
  <2>5. r.tag \in 1..Len(db.tags)
    BY <1>2, <1>4
  <2>6. \A l \in 1..Len(db.links) :
           ~(db.links[l].live /\ db.links[l].hash = r.hash /\ db.links[l].tag = r.tag)
    BY <1>4, <1>6
  <2>7. TablesOK(t)
    BY <2>2, <2>3, <2>4, <2>5, <2>6, LinkAdded
  <2>8. Covered(docs, t)
    BY <2>2 DEF IndexInv, Covered, HasLive
  <2>9. Grown(t) /\ New(db.locs, t.locs) = 0
    BY <1>3, <2>2 DEF Grown, New
  <2> QED BY <1>6, <2>2, <2>7, <2>8, <2>9, ExecuteKeeps DEF t
<1>7. TablesOK(db') /\ Covered(docs', db') /\ Unique(docs') /\ db'.tags = db.tags
  BY <1>1, <1>5, <1>6
<1>8. CallersOK'
  BY <1>1, <1>7, GotoKeeps DEF AttachTag
<1> QED BY <1>7, <1>8 DEF IndexInv

\* The links once those of K are detached.
Detached(K) ==
    [i \in 1..Len(db.links) |->
       IF i \in K THEN [db.links[i] EXCEPT !.live = FALSE] ELSE db.links[i]]

LEMMA DetachedAre ==
    ASSUME db \in Tables, NEW K
    PROVE  LET f == Detached(K)
           IN  /\ f \in Seq(Link) /\ Len(f) = Len(db.links)
               /\ \A i \in 1..Len(db.links) :
                     /\ f[i].uuid = db.links[i].uuid /\ f[i].hash = db.links[i].hash
                     /\ f[i].tag = db.links[i].tag /\ (f[i].live => db.links[i].live)
                     /\ IF i \in K THEN ~f[i].live ELSE f[i] = db.links[i]
<1> DEFINE f == Detached(K)
<1>1. Len(db.links) \in Nat /\ \A i \in 1..Len(db.links) : db.links[i] \in Link
  BY RowsAre
<1>2. ASSUME NEW i \in 1..Len(db.links)
      PROVE  /\ f[i] \in Link
             /\ f[i].uuid = db.links[i].uuid /\ f[i].hash = db.links[i].hash
             /\ f[i].tag = db.links[i].tag /\ (f[i].live => db.links[i].live)
             /\ IF i \in K THEN ~f[i].live ELSE f[i] = db.links[i]
  <2> DEFINE r == [db.links[i] EXCEPT !.live = FALSE]
  <2>1. /\ r \in Link /\ r.uuid = db.links[i].uuid /\ r.hash = db.links[i].hash
        /\ r.tag = db.links[i].tag /\ ~r.live
    BY <1>1 DEF Link
  <2>2. f[i] = IF i \in K THEN r ELSE db.links[i]
    BY DEF Detached
  <2> HIDE DEF r
  <2> QED BY <1>1, <2>1, <2>2
<1>3. f \in [1..Len(db.links) -> Link]
  <2>1. f = [i \in 1..Len(db.links) |-> f[i]]
    BY DEF Detached
  <2> HIDE DEF f
  <2> QED BY <1>2, <2>1, Zenon
<1> HIDE DEF f
<1>4. f \in Seq(Link) /\ Len(f) = Len(db.links)
  BY <1>1, <1>3
<1> QED BY <1>2, <1>4 DEF f

LEMMA DetachTagKeeps == ASSUME IndexInv, NEW c \in Client, DetachTag(c) PROVE IndexInv'
<1> DEFINE K == {i \in 1..Len(db.links) : /\ db.links[i].live
                                          /\ db.links[i].hash = client[c].hash
                                          /\ db.links[i].tag = client[c].tag}
           f == Detached(K)
           t == [db EXCEPT !.links = f]
<1>1. client[c].step = "detach" /\ Execute("detach", t) /\ Goto(c, "idle")
  BY DEF DetachTag, Detached
<1>2. /\ db \in Tables /\ Len(db.locs) \in Nat /\ Len(db.meta) \in Nat /\ Len(db.links) \in Nat
      /\ \A i \in 1..Len(db.links) : db.links[i] \in Link
  BY RowsAre DEF IndexInv, TablesOK
<1>3. /\ f \in Seq(Link) /\ Len(f) = Len(db.links)
      /\ \A i \in 1..Len(db.links) : /\ f[i].hash = db.links[i].hash /\ f[i].tag = db.links[i].tag
                                     /\ f[i].live => db.links[i].live
  <2> HIDE DEF K
  <2> QED BY <1>2, DetachedAre
<1> HIDE DEF f
<1>5. /\ t \in Tables /\ t.locs = db.locs /\ t.meta = db.meta /\ t.tags = db.tags /\ t.links = f
  BY <1>2, <1>3 DEF Tables
<1> HIDE DEF t
<1>6. LinksHaveTags(t) /\ OneLinkPerTag(t)
  BY <1>3, <1>5 DEF IndexInv, TablesOK, LinksHaveTags, OneLinkPerTag
<1>7. TablesOK(t)
  BY <1>5, <1>6 DEF IndexInv, TablesOK, OneTagPerName
<1>8. Covered(docs, t)
  BY <1>5 DEF IndexInv, Covered, HasLive
<1>9. Grown(t) /\ New(db.locs, t.locs) = 0
  BY <1>2, <1>5 DEF Grown, New
<1>10. TablesOK(db') /\ Covered(docs', db') /\ Unique(docs') /\ db'.tags = db.tags
  BY <1>1, <1>5, <1>7, <1>8, <1>9, ExecuteKeeps
<1>11. CallersOK'
  BY <1>1, <1>10, GotoKeeps
<1> QED BY <1>10, <1>11 DEF IndexInv

LEMMA DeleteTagKeeps ==
    ASSUME IndexInv, NEW id \in 1..Len(db.tags), DeleteTag(id)
    PROVE  IndexInv'
<1> DEFINE r == [db.tags[id] EXCEPT !.live = FALSE]
           t == [db EXCEPT !.tags[id].live = FALSE]
<1>1. Execute("delete", t) /\ client' = client
  BY DEF DeleteTag
<1>2. /\ db \in Tables /\ db.tags \in Seq(Tag) /\ Len(db.locs) \in Nat /\ Len(db.meta) \in Nat
      /\ Len(db.tags) \in Nat /\ db.tags[id] \in Tag
  BY RowsAre DEF IndexInv, TablesOK, Tables
<1>3. r \in Tag /\ ~r.live
  BY <1>2 DEF Tag
<1>4. /\ t.tags = [db.tags EXCEPT ![id] = r] /\ t.files = db.files
      /\ t.locs = db.locs /\ t.meta = db.meta /\ t.links = db.links
  BY <1>2 DEF Tables
<1>5. t = [db EXCEPT !.tags = t.tags]
  BY <1>2, <1>4 DEF Tables
<1> HIDE DEF r, t
<1>6. /\ t.tags \in Seq(Tag) /\ Len(t.tags) = Len(db.tags) /\ t.tags[id] = r
      /\ \A j \in 1..Len(db.tags) : j # id => t.tags[j] = db.tags[j]
  BY <1>2, <1>3, <1>4, SetRow
<1>7. t \in Tables
  BY <1>2, <1>5, <1>6 DEF Tables
<1>8. LinksHaveTags(t) /\ OneLinkPerTag(t) /\ OneTagPerName(t)
  BY <1>3, <1>4, <1>6 DEF IndexInv, TablesOK, LinksHaveTags, OneLinkPerTag, OneTagPerName
<1>9. TablesOK(t) /\ Covered(docs, t)
  BY <1>4, <1>7, <1>8 DEF IndexInv, TablesOK, Covered, HasLive
<1>10. Grown(t) /\ New(db.locs, t.locs) = 0
  BY <1>2, <1>4 DEF Grown, New
<1>11. TablesOK(db') /\ Covered(docs', db') /\ Unique(docs') /\ Len(db'.tags) = Len(db.tags)
  BY <1>1, <1>6, <1>9, <1>10, ExecuteKeeps
<1>12. CallersOK'
  BY <1>1, <1>11 DEF IndexInv, CallersOK
<1> QED BY <1>11, <1>12 DEF IndexInv
-----------------------------------------------------------------------------
(***************************************************************************)
(* The index that a rebuild makes, by uuid: what a row holds is then a     *)
(* function of the file's rows, and each trigger is compared with it.      *)
(***************************************************************************)
\* A pair of a uuid and a hash that some row of t names together.
Pairs(t, u, h) ==
    \/ \E i \in 1..Len(t.locs)  : t.locs[i].live /\ t.locs[i].uuid = u /\ t.locs[i].hash = h
    \/ \E i \in 1..Len(t.links) : t.links[i].live /\ t.links[i].uuid = u /\ t.links[i].hash = h
    \/ \E i \in 1..Len(t.meta)  : t.meta[i].uuid = u /\ t.meta[i].hash = h

Agree(t) ==
    \A u, h, v, g : Pairs(t, u, h) /\ Pairs(t, v, g) => u # NoUuid /\ (u = v <=> h = g)

\* The files that have a live location, and the rows the triggers keep of them.
Lists(t)  == {u \in Uuid : HasLive(t, u)}
Synced(t) == {FromLive(t, u) : u \in Lists(t)}

LEMMA AgreeIs == KeysAgree => Agree(db)
<1> DEFINE A == {<<db.locs[i].uuid, db.locs[i].hash>> : i \in Where(db.locs, LAMBDA r : r.live)}
           B == {<<db.links[i].uuid, db.links[i].hash>> : i \in Where(db.links, LAMBDA r : r.live)}
           C == {<<db.meta[i].uuid, db.meta[i].hash>> : i \in 1..Len(db.meta)}
<1>1. KeysAgree <=> \A m, n \in A \cup B \cup C : m[1] # NoUuid /\ ((m[1] = n[1]) <=> (m[2] = n[2]))
  BY DEF KeysAgree
<1>2. \A u, h : Pairs(db, u, h) => <<u, h>> \in A \cup B \cup C
  BY DEF Pairs, Where
<1>3. \A u, h : <<u, h>>[1] = u /\ <<u, h>>[2] = h
  OBVIOUS
<1> HIDE DEF A, B, C
<1>4. ASSUME KeysAgree, NEW u, NEW h, NEW v, NEW g, Pairs(db, u, h), Pairs(db, v, g)
      PROVE  u # NoUuid /\ (u = v <=> h = g)
  <2> DEFINE m == <<u, h>>
             n == <<v, g>>
  <2>1. m \in A \cup B \cup C /\ n \in A \cup B \cup C
    BY <1>2, <1>4
  <2>2. m[1] = u /\ m[2] = h /\ n[1] = v /\ n[2] = g
    OBVIOUS
  <2> HIDE DEF m, n
  <2> QED BY <1>1, <1>4, <2>1, <2>2
<1> QED BY <1>4 DEF Agree

\* The rows that name a file by its uuid.
LocsOf(t, u)  == {i \in 1..Len(t.locs) : t.locs[i].live /\ t.locs[i].uuid = u}
MetaOf(t, u)  == {i \in 1..Len(t.meta) : t.meta[i].uuid = u}
LabelsOf(t, u) ==
    {k \in 1..Len(t.links) : /\ t.links[k].live /\ t.tags[t.links[k].tag].live
                             /\ t.links[k].uuid = u}

MimeOf(t, m) == IF m = 0 THEN NoMime ELSE t.meta[m].mime

\* The row of a file, column by column.
LEMMA ColumnsOf ==
    ASSUME NEW t, NEW u \in Uuid
    PROVE  /\ Representative(t, u) = First(LocsOf(t, u))
           /\ metadata_col(t, u) = MimeOf(t, First(MetaOf(t, u)))
           /\ tags_agg(t, u) = Names(t, LabelsOf(t, u))
<1>1. u # NoUuid
  BY SearchIndexAssumption
<1> QED BY <1>1 DEF Representative, metadata_col, tags_agg, Where, LocsOf, MetaOf, LabelsOf, MimeOf

LEMMA ByUuid ==
    ASSUME NEW t, TablesOK(t), Agree(t)
    PROVE  Rebuilt(t) = Synced(t)
<1> DEFINE L(h) == {j \in 1..Len(t.locs) : t.locs[j].live /\ t.locs[j].hash = h}
           M(h) == {j \in 1..Len(t.meta) : t.meta[j].hash = h}
           K(h) == {k \in 1..Len(t.links) : /\ t.links[k].live /\ t.tags[t.links[k].tag].live
                                            /\ t.links[k].hash = h}
           R(i) == [uuid |-> t.locs[i].uuid, hash |-> t.locs[i].hash, path |-> t.locs[i].path,
                    mime |-> MimeOf(t, First(M(t.locs[i].hash))),
                    tags |-> Names(t, K(t.locs[i].hash))]
           J == {j \in 1..Len(t.locs) : t.locs[j].live /\ j = First(L(t.locs[j].hash))}
<1>1. Rebuilt(t) = {R(i) : i \in J}
  BY DEF Rebuilt, RepresentativeOfHash, Where, MimeOf
<1>2. t \in Tables /\ Len(t.locs) \in Nat /\ \A i \in 1..Len(t.locs) : t.locs[i] \in Location
  BY RowsAre DEF TablesOK
<1>3. ASSUME NEW i \in 1..Len(t.locs), t.locs[i].live
      PROVE  /\ t.locs[i].uuid \in Lists(t)
             /\ First(L(t.locs[i].hash)) = Representative(t, t.locs[i].uuid)
             /\ metadata_col(t, t.locs[i].uuid) = MimeOf(t, First(M(t.locs[i].hash)))
             /\ Names(t, K(t.locs[i].hash)) = tags_agg(t, t.locs[i].uuid)
  <2> DEFINE u == t.locs[i].uuid
             h == t.locs[i].hash
  <2>1. Pairs(t, u, h)
    BY <1>3 DEF Pairs
  <2>2. u # NoUuid
    BY <2>1 DEF Agree
  <2>3. u \in Lists(t)
    BY <1>2, <1>3, <2>2 DEF Lists, HasLive, Location
  <2>4. u \in Uuid
    BY <2>3 DEF Lists
  <2> HIDE DEF u, h
  <2>5. L(h) = LocsOf(t, u)
    <3>1. \A j \in 1..Len(t.locs) : t.locs[j].live => Pairs(t, t.locs[j].uuid, t.locs[j].hash)
      BY DEF Pairs
    <3>2. \A j \in 1..Len(t.locs) : t.locs[j].live => (t.locs[j].hash = h <=> t.locs[j].uuid = u)
      BY <2>1, <3>1 DEF Agree
    <3> QED BY <3>2 DEF LocsOf
  <2>6. M(h) = MetaOf(t, u)
    <3>1. \A j \in 1..Len(t.meta) : Pairs(t, t.meta[j].uuid, t.meta[j].hash)
      BY DEF Pairs
    <3>2. \A j \in 1..Len(t.meta) : t.meta[j].hash = h <=> t.meta[j].uuid = u
      BY <2>1, <3>1 DEF Agree
    <3> QED BY <3>2 DEF MetaOf
  <2>7. K(h) = LabelsOf(t, u)
    <3>1. \A j \in 1..Len(t.links) : t.links[j].live => Pairs(t, t.links[j].uuid, t.links[j].hash)
      BY DEF Pairs
    <3>2. \A j \in 1..Len(t.links) : t.links[j].live => (t.links[j].hash = h <=> t.links[j].uuid = u)
      BY <2>1, <3>1 DEF Agree
    <3> QED BY <3>2 DEF LabelsOf
  <2> HIDE DEF L, M, K
  <2>8. First(L(h)) = Representative(t, u)
    BY <2>4, <2>5, ColumnsOf
  <2>9. metadata_col(t, u) = MimeOf(t, First(M(h)))
    BY <2>4, <2>6, ColumnsOf
  <2>10. Names(t, K(h)) = tags_agg(t, u)
    BY <2>4, <2>7, ColumnsOf
  <2> QED BY <2>3, <2>8, <2>9, <2>10 DEF u, h
<1>4. ASSUME NEW i \in J
      PROVE  R(i) = FromLive(t, t.locs[i].uuid) /\ t.locs[i].uuid \in Lists(t)
  <2>1. i \in 1..Len(t.locs) /\ t.locs[i].live /\ i = First(L(t.locs[i].hash))
    OBVIOUS
  <2>2. t.locs[i].uuid \in Uuid
    BY <1>3, <2>1 DEF Lists
  <2>3. i = Representative(t, t.locs[i].uuid)
    BY <1>3, <2>1
  <2> HIDE DEF L, M, K, J, R
  <2> QED BY <1>3, <2>1, <2>3 DEF FromLive, R
<1>5. ASSUME NEW u \in Lists(t)
      PROVE  \E i \in J : t.locs[i].uuid = u
  <2> DEFINE i == Representative(t, u)
  <2>1. u \in Uuid /\ u # NoUuid /\ HasLive(t, u)
    BY SearchIndexAssumption DEF Lists
  <2>2. i \in 1..Len(t.locs) /\ t.locs[i].live /\ t.locs[i].uuid = u
    BY <1>2, <2>1, RepresentativeIs
  <2> HIDE DEF i
  <2>3. First(L(t.locs[i].hash)) = Representative(t, t.locs[i].uuid)
    BY <1>3, <2>2
  <2>4. i = First(L(t.locs[i].hash))
    BY <2>2, <2>3 DEF i
  <2>5. i \in J
    BY <2>2, <2>4
  <2> QED BY <2>2, <2>5
<1> HIDE DEF J, R
<1>6. {R(i) : i \in J} = {FromLive(t, u) : u \in Lists(t)}
  BY <1>4, <1>5
<1> QED BY <1>1, <1>6 DEF Synced

\* A command from `db`, whose index is the rebuilt one, to the tables t.
Step(t) ==
    /\ TablesOK(db) /\ Agree(db) /\ docs = Synced(db)
    /\ TablesOK(t) /\ Agree(t)

LEMMA FirstIs ==
    ASSUME NEW S, S \subseteq Nat, NEW n \in S, \A m \in S : n <= m
    PROVE  First(S) = n
<1>1. S # {}
  OBVIOUS
<1> DEFINE m == First(S)
<1>2. m \in S /\ \A i \in S : m <= i
  BY <1>1, FirstIsLeast
<1> HIDE DEF m
<1>3. m \in Nat /\ n \in Nat /\ m <= n /\ n <= m
  BY <1>2
<1>4. m = n
  BY <1>3
<1> QED BY <1>4 DEF m

LEMMA Lengths ==
    ASSUME NEW t, TablesOK(t)
    PROVE  Len(t.locs) \in Nat /\ Len(t.meta) \in Nat /\ Len(t.tags) \in Nat /\ Len(t.links) \in Nat
BY RowsAre DEF TablesOK

LEMMA NothingOf == ASSUME NEW q, Len(q) \in Nat PROVE Changed(q, q) = 0 /\ New(q, q) = 0
BY ChangedIs DEF New

LEMMA RowOf ==
    ASSUME NEW t, TablesOK(t), NEW u
    PROVE  /\ FromLive(t, u).uuid = u
           /\ u \in Lists(t) => /\ u \in Uuid /\ u # NoUuid
                                /\ Representative(t, u) # 0
                                /\ Representative(t, u) \in LocsOf(t, u)
                                /\ Pairs(t, u, FromLive(t, u).hash)
           /\ u \in Uuid /\ u \notin Lists(t) => Representative(t, u) = 0
<1>1. t \in Tables
  BY DEF TablesOK
<1>2. FromLive(t, u).uuid = u /\ FromLive(t, u).hash = t.locs[Representative(t, u)].hash
  BY DEF FromLive
<1>3. ASSUME u \in Lists(t)
      PROVE  /\ u \in Uuid /\ u # NoUuid /\ Representative(t, u) # 0
             /\ Representative(t, u) \in LocsOf(t, u)
             /\ Pairs(t, u, FromLive(t, u).hash)
  <2>1. u \in Uuid /\ u # NoUuid /\ HasLive(t, u)
    BY <1>3, SearchIndexAssumption DEF Lists
  <2>2. Representative(t, u) # 0 /\ Representative(t, u) \in LocsOf(t, u)
    BY <1>1, <2>1, RepresentativeIs DEF LocsOf
  <2> QED BY <1>2, <2>1, <2>2 DEF LocsOf, Pairs
<1>4. u \in Uuid /\ Representative(t, u) # 0 => u \in Lists(t)
  BY <1>1, RepresentativeIs DEF Lists
<1> QED BY <1>2, <1>3, <1>4

LEMMA SameLocs ==
    ASSUME NEW t, t.locs = db.locs
    PROVE  Lists(t) = Lists(db) /\ \A u : Representative(t, u) = Representative(db, u)
BY DEF Lists, HasLive, Representative

LEMMA SameMeta ==
    ASSUME NEW t, t.meta = db.meta
    PROVE  \A u : metadata_col(t, u) = metadata_col(db, u)
BY DEF metadata_col

LEMMA SameLinks ==
    ASSUME NEW t, t.links = db.links, t.tags = db.tags
    PROVE  \A u : tags_agg(t, u) = tags_agg(db, u)
BY DEF tags_agg, Names

\* A seed writes nothing where the index has the row, or the file no location.
LEMMA SeedNothing ==
    ASSUME NEW t, Step(t), NEW u \in Uuid,
           u \in Lists(db) \/ Representative(t, u) = 0
    PROVE  seed_search_content(docs, t, u) = docs
<1>1. CASE Representative(t, u) = 0
  BY <1>1 DEF seed_search_content
<1>2. CASE Representative(t, u) # 0 /\ u \in Lists(db)
  <2>1. u # NoUuid
    BY SearchIndexAssumption
  <2>2. FromLive(db, u) \in docs /\ FromLive(db, u).uuid = u
    BY <1>2, RowOf DEF Step, Synced
  <2>3. [FromLive(t, u) EXCEPT !.mime = NoMime, !.tags = {}].uuid = u
    BY DEF FromLive
  <2> QED BY <1>2, <2>1, <2>2, <2>3 DEF seed_search_content, OrIgnore
<1> QED BY <1>1, <1>2

\* Every row of the index follows its file.
LEMMA RowsFollow ==
    ASSUME NEW t, Step(t), Lists(t) = Lists(db), NEW h,
           \A u \in Lists(db) : FromLive(t, u) = h[FromLive(db, u)]
    PROVE  {h[d] : d \in docs} = Synced(t)
BY DEF Step, Synced

LEMMA InsertSyncs ==
    ASSUME NEW t, Step(t), t.meta = db.meta, t.tags = db.tags, t.links = db.links,
           Len(t.locs) = Len(db.locs) + 1, t.locs[Len(db.locs) + 1].live,
           \A i \in 1..Len(db.locs) : t.locs[i] = db.locs[i]
    PROVE  FTS_AGGREGATIONS(docs, t) = Synced(t)
<1> DEFINE n == Len(db.locs) + 1
           r == t.locs[n]
           u == r.uuid
           d == [uuid |-> r.uuid, hash |-> r.hash, path |-> r.path,
                 mime |-> metadata_col(t, r.uuid), tags |-> tags_agg(t, r.uuid)]
<1>1. /\ TablesOK(db) /\ TablesOK(t) /\ Agree(t) /\ docs = Synced(db)
      /\ Len(db.locs) \in Nat /\ Len(db.meta) \in Nat /\ Len(db.tags) \in Nat /\ Len(db.links) \in Nat
  BY Lengths DEF Step
<1>2. n \in 1..Len(t.locs) /\ n # 0 /\ n \notin 1..Len(db.locs)
  BY <1>1
<1>3. FTS_AGGREGATIONS(docs, t) = OrIgnore(docs, d)
  <2>1. Changed(db.locs, t.locs) = 0 /\ New(db.locs, t.locs) = n
    BY <1>1, ChangedIs DEF New
  <2>2. /\ Changed(db.meta, t.meta) = 0 /\ New(db.meta, t.meta) = 0
        /\ Changed(db.links, t.links) = 0 /\ New(db.links, t.links) = 0
        /\ Changed(db.tags, t.tags) = 0
    BY <1>1, NothingOf
  <2>3. FTS_AGGREGATIONS(docs, t) = file_locations_insert(docs, t, r)
    BY <1>2, <2>1, <2>2, TriggerOf
  <2> QED BY <2>3 DEF file_locations_insert
<1>4. Pairs(t, u, r.hash)
  BY <1>2 DEF Pairs
<1>5. u \in Uuid /\ u # NoUuid
  <2>1. u # NoUuid
    BY <1>1, <1>4 DEF Agree
  <2>2. r \in Location
    BY <1>1, <1>2, RowsAre DEF TablesOK
  <2> QED BY <2>1, <2>2 DEF Location
<1>6. d.uuid = u /\ d.hash = r.hash
  OBVIOUS
<1>7. \A v \in Uuid : LocsOf(t, v) = IF v = u THEN LocsOf(db, v) \cup {n} ELSE LocsOf(db, v)
  <2>1. 1..Len(t.locs) = 1..Len(db.locs) \cup {n}
    BY <1>1
  <2> QED BY <1>2, <2>1 DEF LocsOf
<1> HIDE DEF n, r, u, d
<1>8. \A v \in Uuid : \A s : v \in Lists(s) <=> LocsOf(s, v) # {}
  BY DEF Lists, HasLive, LocsOf
<1>9. ASSUME NEW v \in Lists(db) PROVE v \in Lists(t) /\ FromLive(t, v) = FromLive(db, v)
  <2>1. v \in Uuid /\ Representative(db, v) \in LocsOf(db, v)
    BY <1>1, RowOf
  <2>2. First(LocsOf(t, v)) = First(LocsOf(db, v)) /\ LocsOf(t, v) # {}
    <3>1. LocsOf(db, v) # {} /\ LocsOf(db, v) \subseteq Nat /\ \A i \in LocsOf(db, v) : i < n
      BY <1>1, <2>1 DEF LocsOf, n
    <3>2. First(LocsOf(db, v)) \in LocsOf(db, v) /\ \A i \in LocsOf(db, v) : First(LocsOf(db, v)) <= i
      BY <3>1, FirstIsLeast
    <3>3. CASE v = u
      <4>1. LocsOf(t, v) = LocsOf(db, v) \cup {n} /\ n \in Nat
        BY <1>1, <1>7, <2>1, <3>3 DEF n
      <4>2. LocsOf(t, v) \subseteq Nat /\ LocsOf(t, v) # {}
        BY <3>1, <4>1
      <4> DEFINE m == First(LocsOf(db, v))
      <4>3. m \in LocsOf(t, v) /\ \A i \in LocsOf(t, v) : m <= i
        BY <3>1, <3>2, <4>1
      <4> HIDE DEF m
      <4>4. First(LocsOf(t, v)) = m
        BY <4>2, <4>3, FirstIs
      <4> QED BY <4>2, <4>4 DEF m
    <3> QED BY <1>7, <2>1, <3>1, <3>3
  <2>3. Representative(t, v) = Representative(db, v)
    BY <2>1, <2>2, ColumnsOf
  <2>4. t.locs[Representative(db, v)] = db.locs[Representative(db, v)]
    BY <2>1 DEF LocsOf
  <2>5. metadata_col(t, v) = metadata_col(db, v) /\ tags_agg(t, v) = tags_agg(db, v)
    BY SameMeta, SameLinks
  <2> QED BY <1>8, <2>1, <2>2, <2>3, <2>4, <2>5 DEF FromLive
<1>10. ASSUME NEW v \in Lists(t) PROVE v \in Lists(db) \/ v = u
  BY <1>7, <1>8, <1>10 DEF Lists
<1>11. CASE u \in Lists(db)
  <2>1. Lists(t) = Lists(db)
    BY <1>9, <1>10, <1>11
  <2>2. Synced(t) = docs
    BY <1>1, <1>9, <2>1 DEF Synced
  <2>3. FromLive(db, u) \in docs /\ FromLive(db, u).uuid = d.uuid /\ d.uuid # NoUuid
    BY <1>1, <1>5, <1>6, <1>11, RowOf DEF Synced
  <2> QED BY <1>3, <2>2, <2>3 DEF OrIgnore
<1>12. CASE u \notin Lists(db)
  <2>1. LocsOf(t, u) = {n} /\ u \in Lists(t)
    BY <1>5, <1>7, <1>8, <1>12
  <2>2. Representative(t, u) = n
    <3>1. Representative(t, u) \in LocsOf(t, u)
      BY <1>1, <2>1, RowOf
    <3> QED BY <2>1, <3>1
  <2>3. FromLive(t, u) = d
    BY <2>2 DEF FromLive, d, r, u
  <2>4. Lists(t) = Lists(db) \cup {u}
    BY <1>9, <1>10, <2>1
  <2>5. Synced(t) = docs \cup {d}
    BY <1>1, <1>9, <2>3, <2>4 DEF Synced
  <2>6. ASSUME NEW e \in docs PROVE e.uuid # d.uuid /\ e.hash # d.hash
    <3>1. PICK v \in Lists(db) : e = FromLive(db, v)
      BY <1>1 DEF Synced
    <3>2. v \in Lists(t) /\ e = FromLive(t, v)
      BY <1>9, <3>1
    <3>3. Pairs(t, v, e.hash) /\ e.uuid = v
      BY <1>1, <3>2, RowOf
    <3> QED BY <1>1, <1>4, <1>6, <1>12, <3>1, <3>3 DEF Agree
  <2> QED BY <1>3, <2>5, <2>6 DEF OrIgnore
<1> QED BY <1>11, <1>12

\* The live location i of a file becomes another row of the same file.
OneLocation(t, i) ==
    /\ t.meta = db.meta /\ t.tags = db.tags /\ t.links = db.links
    /\ Len(t.locs) = Len(db.locs)
    /\ i \in 1..Len(db.locs) /\ db.locs[i].live
    /\ t.locs[i] # db.locs[i] /\ t.locs[i].uuid = db.locs[i].uuid
    /\ \A j \in 1..Len(db.locs) : j # i => t.locs[j] = db.locs[j]

LEMMA OneLocationFires ==
    ASSUME NEW t, Step(t), NEW i, OneLocation(t, i)
    PROVE  /\ i # 0 /\ i = Changed(db.locs, t.locs) /\ New(db.locs, t.locs) = 0
           /\ Changed(db.meta, t.meta) = 0 /\ New(db.meta, t.meta) = 0
           /\ Changed(db.links, t.links) = 0 /\ New(db.links, t.links) = 0
           /\ Changed(db.tags, t.tags) = 0
<1>1. /\ Len(db.locs) \in Nat /\ Len(db.meta) \in Nat /\ Len(db.tags) \in Nat /\ Len(db.links) \in Nat
  BY Lengths DEF Step
<1>2. Changed(db.locs, t.locs) = i /\ New(db.locs, t.locs) = 0 /\ i # 0
  BY <1>1, ChangedIs DEF OneLocation, New
<1> QED BY <1>1, <1>2, NothingOf DEF OneLocation

LEMMA OneLocationIs ==
    ASSUME NEW t, Step(t), NEW i, OneLocation(t, i), NEW u, u = db.locs[i].uuid
    PROVE  /\ u \in Lists(db) /\ u \in Uuid /\ u # NoUuid
           /\ \A v \in Uuid : v # u => /\ v \in Lists(t) <=> v \in Lists(db)
                                       /\ v \in Lists(db) => FromLive(t, v) = FromLive(db, v)
           /\ metadata_col(t, u) = metadata_col(db, u) /\ tags_agg(t, u) = tags_agg(db, u)
<1>1. TablesOK(db) /\ TablesOK(t) /\ Agree(db) /\ docs = Synced(db)
  BY DEF Step
<1>2. \A v : metadata_col(t, v) = metadata_col(db, v) /\ tags_agg(t, v) = tags_agg(db, v)
  BY SameMeta, SameLinks DEF OneLocation
<1>3. u \in Lists(db) /\ u \in Uuid /\ u # NoUuid
  <2>1. Pairs(db, u, db.locs[i].hash)
    BY DEF Pairs, OneLocation
  <2>2. u # NoUuid
    BY <1>1, <2>1 DEF Agree
  <2>3. db.locs[i] \in Location
    BY <1>1, RowsAre DEF TablesOK, OneLocation
  <2> QED BY <2>2, <2>3 DEF Location, Lists, HasLive, OneLocation
<1>4. ASSUME NEW v \in Uuid, v # u
      PROVE  /\ v \in Lists(t) <=> v \in Lists(db)
             /\ v \in Lists(db) => FromLive(t, v) = FromLive(db, v)
  <2>1. LocsOf(t, v) = LocsOf(db, v) /\ i \notin LocsOf(db, v)
    BY <1>4 DEF LocsOf, OneLocation
  <2>2. v \in Lists(t) <=> v \in Lists(db)
    BY <2>1 DEF Lists, HasLive, LocsOf
  <2>3. ASSUME v \in Lists(db) PROVE FromLive(t, v) = FromLive(db, v)
    <3>1. Representative(t, v) = Representative(db, v) /\ Representative(db, v) \in LocsOf(db, v)
      BY <1>1, <2>1, <2>3, ColumnsOf, RowOf
    <3>2. t.locs[Representative(db, v)] = db.locs[Representative(db, v)]
      BY <2>1, <3>1 DEF LocsOf, OneLocation
    <3> QED BY <1>2, <3>1, <3>2 DEF FromLive
  <2> QED BY <2>2, <2>3
<1> QED BY <1>2, <1>3, <1>4

\* A change that leaves the location live leaves the representatives.
LEMMA StillLive ==
    ASSUME NEW t, Step(t), NEW i, OneLocation(t, i), NEW u, u = db.locs[i].uuid, t.locs[i].live
    PROVE  Lists(t) = Lists(db) /\ Representative(t, u) = Representative(db, u)
<1>1. \A v : LocsOf(t, v) = LocsOf(db, v)
  BY DEF LocsOf, OneLocation
<1>2. Lists(t) = Lists(db)
  BY <1>1 DEF Lists, HasLive, LocsOf
<1>3. u \in Uuid
  BY OneLocationIs
<1> QED BY <1>1, <1>2, <1>3, ColumnsOf

\* An update of the row of one file, which has one or not.
Update(D, u, g) == {IF d.uuid = u THEN g[d] ELSE d : d \in D}

LEMMA OneRow ==
    ASSUME NEW t, Step(t), Lists(t) = Lists(db), NEW u, NEW g,
           u \in Lists(db) => FromLive(t, u) = g[FromLive(db, u)],
           \A v \in Lists(db) : v # u => FromLive(t, v) = FromLive(db, v)
    PROVE  Update(docs, u, g) = Synced(t)
<1> DEFINE h == [d \in docs |-> IF d.uuid = u THEN g[d] ELSE d]
<1>1. Update(docs, u, g) = {h[d] : d \in docs}
  BY DEF Update
<1>2. ASSUME NEW v \in Lists(db) PROVE FromLive(t, v) = h[FromLive(db, v)]
  <2>1. FromLive(db, v) \in docs /\ FromLive(db, v).uuid = v
    BY RowOf DEF Step, Synced
  <2>2. h[FromLive(db, v)] = IF v = u THEN g[FromLive(db, v)] ELSE FromLive(db, v)
    BY <2>1
  <2> HIDE DEF h
  <2> QED BY <2>2
<1> HIDE DEF h
<1> QED BY <1>1, <1>2, RowsFollow

LEMMA HashSyncs ==
    ASSUME NEW t, Step(t), NEW i, OneLocation(t, i), t.locs[i].live,
           t.locs[i].hash # db.locs[i].hash, t.locs[i].path = db.locs[i].path
    PROVE  FTS_AGGREGATIONS(docs, t) = Synced(t)
<1> DEFINE u == db.locs[i].uuid
           X == FTS_AGGREGATIONS(docs, t)
           e == FromLive(t, u)
           g == [d \in docs |-> e]
<1>1. /\ u \in Lists(db) /\ u \in Uuid /\ u # NoUuid
      /\ \A v \in Lists(db) : v # u => FromLive(t, v) = FromLive(db, v)
      /\ Lists(t) = Lists(db) /\ Representative(t, u) = Representative(db, u)
  BY OneLocationIs, StillLive DEF Lists
<1>2. X = location_hash_change_seed(docs, t, u)
  <2>1. t.locs[i].uuid = u
    BY DEF OneLocation
  <2>2. db.locs[i].live
    BY DEF OneLocation
  <2> QED BY <2>1, <2>2, OneLocationFires, TriggerOf
<1>3. FromLive(db, u) \in docs
  BY <1>1 DEF Step, Synced
<1>4. seed_search_content(docs, t, u) = docs
  BY <1>1, SeedNothing
<1>5. X = Update(docs, u, g)
  BY <1>1, <1>2, <1>4 DEF location_hash_change_seed, Row, Update
<1>6. FromLive(t, u) = g[FromLive(db, u)]
  BY <1>3
<1> HIDE DEF u, X, e, g
<1>7. X = Synced(t)
  BY <1>1, <1>5, <1>6, OneRow
<1> QED BY <1>7 DEF X

LEMMA RenameSyncs ==
    ASSUME NEW t, Step(t), NEW i, OneLocation(t, i), t.locs[i].live,
           t.locs[i].hash = db.locs[i].hash, t.locs[i].path # db.locs[i].path
    PROVE  FTS_AGGREGATIONS(docs, t) = Synced(t)
<1> DEFINE u == db.locs[i].uuid
           p == t.locs[i].path
           X == FTS_AGGREGATIONS(docs, t)
           g == [d \in docs |-> [d EXCEPT !.path = p]]
<1>1. /\ u \in Lists(db) /\ u \in Uuid /\ u # NoUuid
      /\ \A v \in Lists(db) : v # u => FromLive(t, v) = FromLive(db, v)
      /\ Lists(t) = Lists(db) /\ Representative(t, u) = Representative(db, u)
      /\ metadata_col(t, u) = metadata_col(db, u) /\ tags_agg(t, u) = tags_agg(db, u)
  BY OneLocationIs, StillLive DEF Lists
<1>2. t.locs[i].uuid = u /\ db.locs[i].live
  BY DEF OneLocation
<1>3. FromLive(db, u) \in docs
  BY <1>1 DEF Step, Synced
<1>4. CASE i = Representative(t, u)
  <2>1. X = rename_representative(docs, t.locs[i])
    BY <1>2, <1>4, OneLocationFires, TriggerOf
  <2>2. X = Update(docs, u, g)
    BY <1>1, <1>2, <2>1 DEF rename_representative, Row, Update
  <2>3. FromLive(t, u) = [FromLive(db, u) EXCEPT !.path = p]
    BY <1>1, <1>4 DEF FromLive
  <2>4. FromLive(t, u) = g[FromLive(db, u)]
    BY <1>3, <2>3
  <2> HIDE DEF u, X, g
  <2>5. X = Synced(t)
    BY <1>1, <2>2, <2>4, OneRow
  <2> QED BY <2>5 DEF X
<1>5. CASE i # Representative(t, u)
  <2>1. X = docs
    BY <1>2, <1>5, OneLocationFires, TriggerOf
  <2>2. t.locs[Representative(t, u)] = db.locs[Representative(db, u)]
    <3>1. Representative(db, u) \in 1..Len(db.locs)
      BY <1>1, RowOf DEF LocsOf, Step
    <3> QED BY <1>1, <1>5, <3>1 DEF OneLocation
  <2>3. FromLive(t, u) = FromLive(db, u)
    BY <1>1, <2>2 DEF FromLive
  <2> HIDE DEF u, X
  <2>4. \A v \in Lists(db) : FromLive(t, v) = FromLive(db, v)
    BY <1>1, <2>3
  <2> QED BY <1>1, <2>1, <2>4 DEF Synced, Step, X
<1> QED BY <1>4, <1>5

LEMMA DeleteSyncs ==
    ASSUME NEW t, Step(t), NEW i, OneLocation(t, i), ~t.locs[i].live,
           t.locs[i].hash = db.locs[i].hash, t.locs[i].path = db.locs[i].path
    PROVE  FTS_AGGREGATIONS(docs, t) = Synced(t)
<1> DEFINE u == db.locs[i].uuid
           n == Representative(t, u)
           p == t.locs[n].path
           X == FTS_AGGREGATIONS(docs, t)
           g == [d \in docs |-> [d EXCEPT !.path = p]]
<1>1. /\ u \in Lists(db) /\ u \in Uuid /\ u # NoUuid
      /\ \A v \in Uuid : v # u => /\ v \in Lists(t) <=> v \in Lists(db)
                                  /\ v \in Lists(db) => FromLive(t, v) = FromLive(db, v)
      /\ metadata_col(t, u) = metadata_col(db, u) /\ tags_agg(t, u) = tags_agg(db, u)
  BY OneLocationIs
<1>2. t.locs[i].uuid = u /\ db.locs[i].live /\ TablesOK(db) /\ TablesOK(t) /\ docs = Synced(db)
  BY DEF OneLocation, Step
<1>3. X = location_soft_delete(docs, t, u)
  BY <1>2, OneLocationFires, TriggerOf
<1>4. Lists(db) \subseteq Uuid /\ Lists(t) \subseteq Uuid
  BY DEF Lists
<1>5. CASE n = 0
  <2>1. u \notin Lists(t)
    BY <1>2, <1>5, RowOf
  <2>2. X = {d \in docs : d.uuid # u}
    BY <1>1, <1>3, <1>5 DEF location_soft_delete
  <2> HIDE DEF u, X
  <2>3. Lists(t) = Lists(db) \ {u}
    BY <1>1, <1>4, <2>1
  <2>4. \A v \in Lists(db) : FromLive(db, v).uuid = v
    BY <1>2, RowOf
  <2>5. Synced(t) = {FromLive(db, v) : v \in Lists(db) \ {u}}
    BY <1>1, <1>4, <2>3 DEF Synced
  <2>6. X = {FromLive(db, v) : v \in Lists(db) \ {u}}
    BY <1>2, <2>2, <2>4 DEF Synced
  <2> QED BY <2>5, <2>6 DEF X
<1>6. CASE n # 0
  <2>1. u \in Lists(t)
    BY <1>1, <1>2, <1>6, RowOf
  <2>2. X = Update(docs, u, g)
    BY <1>1, <1>3, <1>6 DEF location_soft_delete, Row, Update
  <2>3. t.locs[n].hash = db.locs[Representative(db, u)].hash
    <3>1. /\ Representative(db, u) \in LocsOf(db, u) /\ n \in LocsOf(t, u)
      BY <1>1, <1>2, <2>1, RowOf
    <3>2. n # i /\ n \in 1..Len(db.locs) /\ t.locs[n] = db.locs[n]
      BY <3>1 DEF LocsOf, OneLocation
    <3>3. n \in LocsOf(db, u)
      BY <3>1, <3>2 DEF LocsOf
    <3> HIDE DEF n
    <3>4. /\ Pairs(db, u, db.locs[Representative(db, u)].hash) /\ Pairs(db, u, db.locs[n].hash)
      BY <3>1, <3>3 DEF LocsOf, Pairs
    <3> QED BY <3>2, <3>4 DEF Step, Agree
  <2>4. FromLive(t, u) = [FromLive(db, u) EXCEPT !.path = p]
    BY <1>1, <2>3 DEF FromLive
  <2>5. FromLive(t, u) = g[FromLive(db, u)]
    BY <1>1, <1>2, <2>4 DEF Synced
  <2>6. Lists(t) = Lists(db)
    BY <1>1, <1>4, <2>1
  <2> HIDE DEF u, X, g, n, p
  <2>7. u \in Lists(db) /\ \A v \in Lists(db) : v # u => FromLive(t, v) = FromLive(db, v)
    BY <1>1, <1>4
  <2>8. X = Synced(t)
    BY <1>4, <2>2, <2>5, <2>6, <2>7, OneRow
  <2> QED BY <2>8 DEF X
<1> QED BY <1>5, <1>6

LEMMA SameMime ==
    ASSUME NEW t, NEW u \in Uuid, TablesOK(db), MetaOf(t, u) = MetaOf(db, u),
           \A i \in MetaOf(db, u) : t.meta[i].mime = db.meta[i].mime
    PROVE  metadata_col(t, u) = metadata_col(db, u)
<1> DEFINE I == MetaOf(db, u)
<1>1. I \subseteq Nat
  BY Lengths DEF MetaOf
<1>2. metadata_col(t, u) = MimeOf(t, First(I)) /\ metadata_col(db, u) = MimeOf(db, First(I))
  BY ColumnsOf
<1>3. \A i \in I : t.meta[i].mime = db.meta[i].mime
  OBVIOUS
<1> HIDE DEF I
<1>4. I # {} => First(I) \in I
  BY <1>1, FirstIsLeast
<1> QED BY <1>2, <1>3, <1>4, FirstOfNone DEF MimeOf

LEMMA MimeIsOf ==
    ASSUME NEW t, NEW u \in Uuid, NEW i \in MetaOf(t, u), MetaOf(t, u) \subseteq Nat \ {0},
           \A j \in MetaOf(t, u) : i <= j
    PROVE  metadata_col(t, u) = t.meta[i].mime
<1>1. First(MetaOf(t, u)) = i /\ i # 0
  BY FirstIs
<1> QED BY <1>1, ColumnsOf DEF MimeOf

\* The row of one file takes the mime type of its metadata.
LEMMA MimeSyncs ==
    ASSUME NEW t, Step(t), t.locs = db.locs, t.tags = db.tags, t.links = db.links,
           NEW r, r.uuid \in Uuid, metadata_col(t, r.uuid) = r.mime,
           \A v \in Uuid : v # r.uuid => metadata_col(t, v) = metadata_col(db, v)
    PROVE  metadata_update(docs, r) = Synced(t)
<1> DEFINE u == r.uuid
           X == metadata_update(docs, r)
           g == [d \in docs |-> [d EXCEPT !.mime = r.mime]]
<1>1. u \in Uuid /\ u # NoUuid /\ Lists(t) = Lists(db) /\ Lists(db) \subseteq Uuid
  BY SearchIndexAssumption, SameLocs DEF Lists
<1>2. X = Update(docs, u, g)
  BY <1>1 DEF metadata_update, Row, Update
<1>3. \A v : tags_agg(t, v) = tags_agg(db, v)
  BY SameLinks
<1>4. \A v \in Lists(db) : v # u => FromLive(t, v) = FromLive(db, v)
  BY <1>1, <1>3, SameLocs DEF FromLive
<1>5. FromLive(t, u) = [FromLive(db, u) EXCEPT !.mime = r.mime]
  BY <1>3, SameLocs DEF FromLive
<1>6. u \in Lists(db) => FromLive(t, u) = g[FromLive(db, u)]
  BY <1>5 DEF Step, Synced
<1> HIDE DEF u, X, g
<1>7. X = Synced(t)
  BY <1>1, <1>2, <1>4, <1>6, OneRow
<1> QED BY <1>7 DEF X

LEMMA MetaInsertSyncs ==
    ASSUME NEW t, Step(t), t.locs = db.locs, t.tags = db.tags, t.links = db.links,
           Len(t.meta) = Len(db.meta) + 1,
           \A i \in 1..Len(db.meta) : /\ t.meta[i] = db.meta[i]
                                      /\ db.meta[i].hash # t.meta[Len(db.meta) + 1].hash
    PROVE  FTS_AGGREGATIONS(docs, t) = Synced(t)
<1> DEFINE n == Len(db.meta) + 1
           r == t.meta[n]
           u == r.uuid
<1>1. /\ TablesOK(db) /\ TablesOK(t) /\ Agree(t) /\ docs = Synced(db)
      /\ Len(db.locs) \in Nat /\ Len(db.meta) \in Nat /\ Len(db.tags) \in Nat /\ Len(db.links) \in Nat
  BY Lengths DEF Step
<1>2. n \in 1..Len(t.meta) /\ n # 0 /\ n \notin 1..Len(db.meta)
  BY <1>1
<1>3. FTS_AGGREGATIONS(docs, t) = metadata_update(seed_search_content(docs, t, u), r)
  <2>1. Changed(db.meta, t.meta) = 0 /\ New(db.meta, t.meta) = n
    BY <1>1, ChangedIs DEF New
  <2>2. /\ Changed(db.locs, t.locs) = 0 /\ New(db.locs, t.locs) = 0
        /\ Changed(db.links, t.links) = 0 /\ New(db.links, t.links) = 0
        /\ Changed(db.tags, t.tags) = 0
    BY <1>1, NothingOf
  <2>3. FTS_AGGREGATIONS(docs, t) = metadata_insert(docs, t, r)
    BY <1>2, <2>1, <2>2, TriggerOf
  <2> QED BY <2>3 DEF metadata_insert
<1>4. \A i \in 1..Len(t.meta) : Pairs(t, t.meta[i].uuid, t.meta[i].hash)
  BY DEF Pairs
<1>5. u \in Uuid /\ u # NoUuid
  <2>1. u # NoUuid
    BY <1>1, <1>2, <1>4 DEF Agree
  <2>2. r \in Metadata
    BY <1>1, <1>2, RowsAre DEF TablesOK
  <2> QED BY <2>1, <2>2 DEF Metadata
<1>6. 1..Len(t.meta) = 1..Len(db.meta) \cup {n}
  BY <1>1
<1>7. ASSUME NEW i \in 1..Len(db.meta) PROVE t.meta[i].uuid # u
  <2>1. t.meta[i].hash # r.hash /\ i \in 1..Len(t.meta)
    BY <1>6
  <2> QED BY <1>1, <1>2, <1>4, <2>1 DEF Agree
<1>8. metadata_col(t, u) = r.mime
  <2>1. MetaOf(t, u) = {n} /\ n \in Nat
    BY <1>1, <1>2, <1>6, <1>7 DEF MetaOf
  <2> HIDE DEF n, u
  <2>2. n \in MetaOf(t, u) /\ MetaOf(t, u) \subseteq Nat \ {0} /\ \A j \in MetaOf(t, u) : n <= j
    BY <1>2, <2>1
  <2> QED BY <1>5, <2>2, MimeIsOf
<1>9. ASSUME NEW v \in Uuid, v # u PROVE metadata_col(t, v) = metadata_col(db, v)
  <2>1. MetaOf(t, v) = MetaOf(db, v)
    BY <1>2, <1>6, <1>9 DEF MetaOf
  <2>2. \A i \in MetaOf(db, v) : t.meta[i].mime = db.meta[i].mime
    BY DEF MetaOf
  <2> QED BY <1>1, <2>1, <2>2, SameMime
<1>10. seed_search_content(docs, t, u) = docs
  <2>1. u \in Lists(db) \/ Representative(t, u) = 0
    BY <1>1, <1>5, RowOf, SameLocs
  <2> QED BY <1>5, <2>1, SeedNothing
<1> QED BY <1>3, <1>5, <1>8, <1>9, <1>10, MimeSyncs

LEMMA MetaUpdateSyncs ==
    ASSUME NEW t, Step(t), t.locs = db.locs, t.tags = db.tags, t.links = db.links,
           Len(t.meta) = Len(db.meta), NEW i \in 1..Len(db.meta),
           \A j \in 1..Len(db.meta) : j # i => t.meta[j] = db.meta[j],
           t.meta[i].uuid = db.meta[i].uuid, t.meta[i].mime # db.meta[i].mime,
           \A j \in 1..Len(db.meta) : db.meta[j].hash = db.meta[i].hash => i <= j
    PROVE  FTS_AGGREGATIONS(docs, t) = Synced(t)
<1> DEFINE r == t.meta[i]
           u == r.uuid
<1>1. /\ TablesOK(db) /\ TablesOK(t) /\ Agree(db)
      /\ Len(db.locs) \in Nat /\ Len(db.meta) \in Nat /\ Len(db.tags) \in Nat /\ Len(db.links) \in Nat
  BY Lengths DEF Step
<1>2. i # 0 /\ i \in Nat
  BY <1>1
<1>3. FTS_AGGREGATIONS(docs, t) = metadata_update(docs, r)
  <2>1. Changed(db.meta, t.meta) = i /\ New(db.meta, t.meta) = 0
    BY <1>1, ChangedIs DEF New
  <2>2. /\ Changed(db.locs, t.locs) = 0 /\ New(db.locs, t.locs) = 0
        /\ Changed(db.links, t.links) = 0 /\ New(db.links, t.links) = 0
        /\ Changed(db.tags, t.tags) = 0
    BY <1>1, NothingOf
  <2> QED BY <1>2, <2>1, <2>2, TriggerOf
<1>4. \A j \in 1..Len(db.meta) : Pairs(db, db.meta[j].uuid, db.meta[j].hash)
  BY DEF Pairs
<1>5. u \in Uuid /\ u # NoUuid
  <2>1. u # NoUuid
    BY <1>1, <1>4 DEF Agree
  <2>2. db.meta[i] \in Metadata
    BY <1>1, RowsAre DEF TablesOK
  <2> QED BY <2>1, <2>2 DEF Metadata
<1>6. \A j \in 1..Len(db.meta) : db.meta[j].uuid = u => i <= j
  BY <1>1, <1>4 DEF Agree
<1>7. \A v : MetaOf(t, v) = MetaOf(db, v)
  BY DEF MetaOf
<1>8. metadata_col(t, u) = r.mime
  <2>1. /\ i \in MetaOf(t, u) /\ MetaOf(t, u) \subseteq Nat \ {0}
        /\ \A j \in MetaOf(t, u) : i <= j
    BY <1>1, <1>6, <1>7 DEF MetaOf
  <2> HIDE DEF u
  <2> QED BY <1>5, <2>1, MimeIsOf
<1>9. ASSUME NEW v \in Uuid, v # u PROVE metadata_col(t, v) = metadata_col(db, v)
  <2>1. \A j \in MetaOf(db, v) : t.meta[j].mime = db.meta[j].mime
    BY <1>9 DEF MetaOf
  <2> QED BY <1>1, <1>7, <2>1, SameMime
<1> QED BY <1>3, <1>5, <1>8, <1>9, MimeSyncs

\* The row of one file takes the names of its labels.
LEMMA LabelsSync ==
    ASSUME NEW t, Step(t), t.locs = db.locs, t.meta = db.meta, NEW u \in Uuid,
           \A v \in Uuid : v # u => tags_agg(t, v) = tags_agg(db, v)
    PROVE  file_tags_update(docs, t, u) = Synced(t)
<1> DEFINE e == tags_agg(t, u)
           X == file_tags_update(docs, t, u)
           g == [d \in docs |-> [d EXCEPT !.tags = e]]
<1>1. u # NoUuid /\ Lists(t) = Lists(db) /\ Lists(db) \subseteq Uuid
  BY SearchIndexAssumption, SameLocs DEF Lists
<1>2. X = Update(docs, u, g)
  BY <1>1 DEF file_tags_update, Row, Update
<1>3. \A v : metadata_col(t, v) = metadata_col(db, v)
  BY SameMeta
<1>4. \A v \in Lists(db) : v # u => FromLive(t, v) = FromLive(db, v)
  BY <1>1, <1>3, SameLocs DEF FromLive
<1>5. FromLive(t, u) = [FromLive(db, u) EXCEPT !.tags = e]
  BY <1>3, SameLocs DEF FromLive
<1>6. u \in Lists(db) => FromLive(t, u) = g[FromLive(db, u)]
  BY <1>5 DEF Step, Synced
<1> HIDE DEF X, g
<1>7. X = Synced(t)
  BY <1>1, <1>2, <1>4, <1>6, OneRow
<1> QED BY <1>7 DEF X

\* The names of a file whose links and tags stay.
LEMMA SameLabels ==
    ASSUME NEW t, TablesOK(db), NEW u \in Uuid, LabelsOf(t, u) = LabelsOf(db, u),
           \A k \in LabelsOf(db, u) : t.links[k].tag = db.links[k].tag,
           \A i \in 1..Len(db.tags) : t.tags[i].name = db.tags[i].name
    PROVE  tags_agg(t, u) = tags_agg(db, u)
<1>1. \A k \in LabelsOf(db, u) : db.links[k].tag \in 1..Len(db.tags)
  BY DEF TablesOK, LinksHaveTags, LabelsOf
<1> DEFINE K == LabelsOf(db, u)
<1>2. tags_agg(t, u) = Names(t, K) /\ tags_agg(db, u) = Names(db, K)
  BY ColumnsOf
<1>3. \A k \in K : t.tags[t.links[k].tag].name = db.tags[db.links[k].tag].name
  BY <1>1
<1> HIDE DEF K
<1>4. Names(t, K) = Names(db, K)
  BY <1>3 DEF Names
<1> QED BY <1>2, <1>4

LEMMA AttachSyncs ==
    ASSUME NEW t, Step(t), t.locs = db.locs, t.meta = db.meta, t.tags = db.tags,
           Len(t.links) = Len(db.links) + 1, t.links[Len(db.links) + 1].live,
           \A k \in 1..Len(db.links) : t.links[k] = db.links[k]
    PROVE  FTS_AGGREGATIONS(docs, t) = Synced(t)
<1> DEFINE n == Len(db.links) + 1
           r == t.links[n]
           u == r.uuid
<1>1. /\ TablesOK(db) /\ TablesOK(t) /\ Agree(t)
      /\ Len(db.locs) \in Nat /\ Len(db.meta) \in Nat /\ Len(db.tags) \in Nat /\ Len(db.links) \in Nat
  BY Lengths DEF Step
<1>2. n \in 1..Len(t.links) /\ n # 0 /\ n \notin 1..Len(db.links)
      /\ 1..Len(t.links) = 1..Len(db.links) \cup {n}
  BY <1>1
<1>3. FTS_AGGREGATIONS(docs, t) = file_tags_update(seed_search_content(docs, t, u), t, u)
  <2>1. Changed(db.links, t.links) = 0 /\ New(db.links, t.links) = n
    BY <1>1, ChangedIs DEF New
  <2>2. /\ Changed(db.locs, t.locs) = 0 /\ New(db.locs, t.locs) = 0
        /\ Changed(db.meta, t.meta) = 0 /\ New(db.meta, t.meta) = 0
        /\ Changed(db.tags, t.tags) = 0
    BY <1>1, NothingOf
  <2>3. FTS_AGGREGATIONS(docs, t) = file_tags_insert(docs, t, u)
    BY <1>2, <2>1, <2>2, TriggerOf
  <2> QED BY <2>3 DEF file_tags_insert
<1>4. u \in Uuid /\ u # NoUuid
  <2>1. Pairs(t, u, r.hash)
    BY <1>2 DEF Pairs
  <2>2. u # NoUuid
    BY <1>1, <2>1 DEF Agree
  <2>3. r \in Link
    BY <1>1, <1>2, RowsAre DEF TablesOK
  <2> QED BY <2>2, <2>3 DEF Link
<1>5. ASSUME NEW v \in Uuid, v # u PROVE tags_agg(t, v) = tags_agg(db, v)
  <2>1. LabelsOf(t, v) = LabelsOf(db, v)
    BY <1>2, <1>5 DEF LabelsOf
  <2>2. \A k \in LabelsOf(db, v) : t.links[k].tag = db.links[k].tag
    BY DEF LabelsOf
  <2> QED BY <1>1, <2>1, <2>2, SameLabels
<1>6. seed_search_content(docs, t, u) = docs
  <2>1. u \in Lists(db) \/ Representative(t, u) = 0
    BY <1>1, <1>4, RowOf, SameLocs
  <2> QED BY <1>4, <2>1, SeedNothing
<1> QED BY <1>3, <1>4, <1>5, <1>6, LabelsSync

\* One live link at most is of the content and the tag that are detached.
LEMMA DetachSyncs ==
    ASSUME NEW t, Step(t), t.locs = db.locs, t.meta = db.meta, t.tags = db.tags,
           Len(t.links) = Len(db.links), NEW i \in 1..Len(db.links),
           db.links[i].live, ~t.links[i].live,
           t.links[i].uuid = db.links[i].uuid, t.links[i].tag = db.links[i].tag,
           \A k \in 1..Len(db.links) : k # i => t.links[k] = db.links[k]
    PROVE  FTS_AGGREGATIONS(docs, t) = Synced(t)
<1> DEFINE u == t.links[i].uuid
<1>1. /\ TablesOK(db) /\ TablesOK(t) /\ Agree(db)
      /\ Len(db.locs) \in Nat /\ Len(db.meta) \in Nat /\ Len(db.tags) \in Nat /\ Len(db.links) \in Nat
  BY Lengths DEF Step
<1>2. i # 0
  BY <1>1
<1>3. FTS_AGGREGATIONS(docs, t) = file_tags_update(docs, t, u)
  <2>1. Changed(db.links, t.links) = i /\ New(db.links, t.links) = 0
    BY <1>1, ChangedIs DEF New
  <2>2. /\ Changed(db.locs, t.locs) = 0 /\ New(db.locs, t.locs) = 0
        /\ Changed(db.meta, t.meta) = 0 /\ New(db.meta, t.meta) = 0
        /\ Changed(db.tags, t.tags) = 0
    BY <1>1, NothingOf
  <2> QED BY <1>2, <2>1, <2>2, TriggerOf
<1>4. u \in Uuid /\ u # NoUuid
  <2>1. Pairs(db, u, db.links[i].hash)
    BY DEF Pairs
  <2>2. u # NoUuid
    BY <1>1, <2>1 DEF Agree
  <2>3. db.links[i] \in Link
    BY <1>1, RowsAre DEF TablesOK
  <2> QED BY <2>2, <2>3 DEF Link
<1>5. ASSUME NEW v \in Uuid, v # u PROVE tags_agg(t, v) = tags_agg(db, v)
  <2>1. LabelsOf(t, v) = LabelsOf(db, v)
    BY <1>5 DEF LabelsOf
  <2>2. \A k \in LabelsOf(db, v) : t.links[k].tag = db.links[k].tag
    BY DEF LabelsOf
  <2> QED BY <1>1, <2>1, <2>2, SameLabels
<1> QED BY <1>3, <1>4, <1>5, LabelsSync

LEMMA TagDeleteSyncs ==
    ASSUME NEW t, Step(t), t.locs = db.locs, t.meta = db.meta, t.links = db.links,
           Len(t.tags) = Len(db.tags), NEW id \in 1..Len(db.tags),
           db.tags[id].live, ~t.tags[id].live, t.tags[id].name = db.tags[id].name,
           \A i \in 1..Len(db.tags) : i # id => t.tags[i] = db.tags[i]
    PROVE  FTS_AGGREGATIONS(docs, t) = Synced(t)
<1> DEFINE Holds(u) == \E k \in 1..Len(t.links) : /\ t.links[k].live
                                                  /\ t.links[k].tag = id
                                                  /\ t.links[k].uuid = u
                                                  /\ u # NoUuid
           h == [d \in docs |-> IF Holds(d.uuid) THEN [d EXCEPT !.tags = tags_agg(t, d.uuid)] ELSE d]
<1>1. /\ TablesOK(db) /\ TablesOK(t)
      /\ Len(db.locs) \in Nat /\ Len(db.meta) \in Nat /\ Len(db.tags) \in Nat /\ Len(db.links) \in Nat
  BY Lengths DEF Step
<1>2. FTS_AGGREGATIONS(docs, t) = refresh_tags_for_holders(docs, t, id)
  <2>1. Changed(db.tags, t.tags) = id /\ id # 0
    BY <1>1, ChangedIs
  <2>2. /\ Changed(db.locs, t.locs) = 0 /\ New(db.locs, t.locs) = 0
        /\ Changed(db.meta, t.meta) = 0 /\ New(db.meta, t.meta) = 0
        /\ Changed(db.links, t.links) = 0 /\ New(db.links, t.links) = 0
    BY <1>1, NothingOf
  <2> QED BY <2>1, <2>2, TriggerOf
<1>3. refresh_tags_for_holders(docs, t, id) = {h[d] : d \in docs}
  BY DEF refresh_tags_for_holders
<1>4. Lists(t) = Lists(db) /\ Lists(db) \subseteq Uuid /\ \A v : metadata_col(t, v) = metadata_col(db, v)
  BY SameLocs, SameMeta DEF Lists
<1>5. \A i \in 1..Len(db.tags) : t.tags[i].name = db.tags[i].name
  OBVIOUS
<1>6. ASSUME NEW v \in Lists(db), ~Holds(v) PROVE tags_agg(t, v) = tags_agg(db, v)
  <2>1. v \in Uuid /\ v # NoUuid
    BY <1>4, SearchIndexAssumption
  <2>2. \A k \in 1..Len(db.links) : db.links[k].live /\ db.links[k].uuid = v =>
           t.tags[db.links[k].tag] = db.tags[db.links[k].tag]
    BY <1>1, <1>6, <2>1 DEF TablesOK, LinksHaveTags
  <2>3. LabelsOf(t, v) = LabelsOf(db, v)
    BY <2>2 DEF LabelsOf
  <2> QED BY <1>1, <1>5, <2>1, <2>3, SameLabels
<1>7. ASSUME NEW v \in Lists(db) PROVE FromLive(t, v) = h[FromLive(db, v)]
  <2>1. FromLive(db, v) \in docs /\ FromLive(db, v).uuid = v
    BY <1>1, RowOf DEF Step, Synced
  <2>2. h[FromLive(db, v)] = IF Holds(v) THEN [FromLive(db, v) EXCEPT !.tags = tags_agg(t, v)]
                             ELSE FromLive(db, v)
    BY <2>1
  <2>3. FromLive(t, v) = [FromLive(db, v) EXCEPT !.tags = tags_agg(t, v)]
    BY <1>4, SameLocs DEF FromLive
  <2> HIDE DEF h, Holds
  <2>4. CASE Holds(v)
    BY <2>2, <2>3, <2>4
  <2>5. CASE ~Holds(v)
    <3>1. FromLive(t, v) = FromLive(db, v)
      BY <1>4, <1>6, <2>5, SameLocs DEF FromLive
    <3> QED BY <2>2, <2>5, <3>1
  <2> QED BY <2>4, <2>5
<1> HIDE DEF h
<1> QED BY <1>2, <1>3, <1>4, <1>7, RowsFollow

-----------------------------------------------------------------------------
(***************************************************************************)
(* The commands once more: each leaves the index that a rebuild would make.*)
(***************************************************************************)
\* No indexed column changes.
LEMMA NothingSyncs ==
    ASSUME NEW t, Step(t), t.locs = db.locs, t.meta = db.meta, t.links = db.links,
           Len(db.tags) <= Len(t.tags), \A i \in 1..Len(db.tags) : t.tags[i] = db.tags[i]
    PROVE  FTS_AGGREGATIONS(docs, t) = Synced(t)
<1>1. /\ TablesOK(db) /\ TablesOK(t) /\ docs = Synced(db)
      /\ Len(db.locs) \in Nat /\ Len(db.meta) \in Nat /\ Len(db.tags) \in Nat /\ Len(db.links) \in Nat
  BY Lengths DEF Step
<1>2. FTS_AGGREGATIONS(docs, t) = docs
  <2>1. Changed(db.tags, t.tags) = 0
    BY <1>1, ChangedIs
  <2>2. /\ Changed(db.locs, t.locs) = 0 /\ New(db.locs, t.locs) = 0
        /\ Changed(db.meta, t.meta) = 0 /\ New(db.meta, t.meta) = 0
        /\ Changed(db.links, t.links) = 0 /\ New(db.links, t.links) = 0
    BY <1>1, NothingOf
  <2> QED BY <2>1, <2>2, TriggerOf
<1>3. Lists(t) = Lists(db) /\ Lists(db) \subseteq Uuid /\ \A v : metadata_col(t, v) = metadata_col(db, v)
  BY SameLocs, SameMeta DEF Lists
<1>4. ASSUME NEW v \in Lists(db) PROVE FromLive(t, v) = FromLive(db, v)
  <2>1. LabelsOf(t, v) = LabelsOf(db, v)
    <3>1. \A k \in 1..Len(db.links) : t.tags[db.links[k].tag] = db.tags[db.links[k].tag]
      BY <1>1 DEF TablesOK, LinksHaveTags
    <3> QED BY <3>1 DEF LabelsOf
  <2>2. tags_agg(t, v) = tags_agg(db, v)
    BY <1>1, <1>3, <2>1, SameLabels
  <2> QED BY <1>3, <2>2, SameLocs DEF FromLive
<1> QED BY <1>1, <1>2, <1>3, <1>4 DEF Synced

\* At most one row of `files` for a content.
OneFile(t) ==
    \A u, v \in Uuid : t.files[u] = t.files[v] /\ t.files[u] # NoHash => u = v

\* The tables that a command would make, accepted or refused.
Follows(what, t) ==
    /\ Execute(what, t) /\ TablesOK(t)
    /\ OneFile(db) => OneFile(t)
    /\ Step(t) => FTS_AGGREGATIONS(docs, t) = Synced(t)

\* Those that a command of the upkeep would make of a sound library.
Records(t) ==
    Sound => /\ Recorded(t, t.locs) /\ Recorded(t, t.meta) /\ Recorded(t, t.links)
             /\ Held(t, scan', client')

LEMMA UuidOfNames ==
    ASSUME NEW t, NEW h
    PROVE  /\ UuidOf(t, h) # NoUuid => UuidOf(t, h) \in Uuid /\ t.files[UuidOf(t, h)] = h
           /\ \A u \in Uuid : t.files[u] = h => UuidOf(t, h) # NoUuid
BY SearchIndexAssumption DEF UuidOf

LEMMA SameFiles ==
    ASSUME NEW t, t.files = db.files
    PROVE  /\ OneFile(db) => OneFile(t)
           /\ \A rows : Recorded(db, rows) => Recorded(t, rows)
           /\ \A h : UuidOf(t, h) = UuidOf(db, h)
BY DEF OneFile, Recorded, UuidOf

\* A command that leaves `files` and the columns that name them.
LEMMA SameNames ==
    ASSUME NEW t, t.files = db.files, scan' \in {scan, NoHash},
           \A c \in Client : client'[c].hash = client[c].hash,
           Sound => Recorded(t, t.locs) /\ Recorded(t, t.meta) /\ Recorded(t, t.links)
    PROVE  Records(t)
BY SameFiles DEF Records, Held, Sound

LEMMA RecordedAlike ==
    ASSUME NEW t, NEW q, NEW rows, Recorded(t, q), Len(rows) = Len(q),
           \A i \in 1..Len(q) : rows[i].uuid = q[i].uuid /\ rows[i].hash = q[i].hash
    PROVE  Recorded(t, rows)
BY DEF Recorded

LEMMA RecordedAdds ==
    ASSUME NEW t, NEW q, NEW rows, Recorded(t, q), Len(q) \in Nat, Len(rows) = Len(q) + 1,
           \A i \in 1..Len(q) : rows[i] = q[i],
           NEW r, r = rows[Len(q) + 1], r.uuid \in Uuid, t.files[r.uuid] = r.hash
    PROVE  Recorded(t, rows)
<1>1. \A i \in 1..Len(rows) : i \in 1..Len(q) \/ i = Len(q) + 1
  OBVIOUS
<1> QED BY <1>1 DEF Recorded

LEMMA RecordedStays ==
    ASSUME NEW t, NEW rows, Recorded(db, rows), \A i \in 1..Len(rows) : rows[i].hash \in Hash,
           \A v \in Uuid : db.files[v] # NoHash => t.files[v] = db.files[v]
    PROVE  Recorded(t, rows)
BY SearchIndexAssumption DEF Recorded

\* A row of `files` is added, or its hash promoted.
LEMMA FileFollows ==
    ASSUME IndexInv, NEW h \in Hash,
           UpsertFile(h) \/ \E u \in Uuid : PromoteFullHash(u, h)
    PROVE  \E what, t : Follows(what, t) /\ (UpsertFile(h) => Records(t))
<1>1. PICK what, t :
         /\ Execute(what, t)
         /\ \/ UuidOf(db, h) # NoUuid /\ t = db
            \/ /\ UuidOf(db, h) = NoUuid
               /\ \E u \in Uuid : /\ t = [db EXCEPT !.files[u] = h]
                                  /\ UpsertFile(h) => db.files[u] = NoHash
  <2>1. CASE UpsertFile(h)
    BY <2>1 DEF UpsertFile
  <2>2. CASE ~UpsertFile(h) /\ \E u \in Uuid : PromoteFullHash(u, h)
    BY <2>2 DEF PromoteFullHash
  <2> QED BY <2>1, <2>2
<1>2. /\ db \in Tables /\ TablesOK(db) /\ db.files \in [Uuid -> Hash \cup {NoHash}]
      /\ Len(db.locs) \in Nat /\ Len(db.meta) \in Nat /\ Len(db.tags) \in Nat /\ h # NoHash
      /\ \A i \in 1..Len(db.locs) : db.locs[i].hash \in Hash
      /\ \A i \in 1..Len(db.meta) : db.meta[i].hash \in Hash
      /\ \A i \in 1..Len(db.links) : db.links[i].hash \in Hash
  BY RowsAre, SearchIndexAssumption DEF IndexInv, TablesOK, Location, Metadata, Link
<1>3. /\ t.locs = db.locs /\ t.meta = db.meta /\ t.tags = db.tags /\ t.links = db.links
      /\ t \in Tables
  BY <1>1, <1>2 DEF Tables
<1>4. /\ \/ \A v \in Uuid : t.files[v] = db.files[v]
         \/ \E u \in Uuid : /\ UuidOf(db, h) = NoUuid /\ t.files[u] = h
                            /\ \A w \in Uuid : w # u => t.files[w] = db.files[w]
                            /\ UpsertFile(h) => db.files[u] = NoHash
      /\ \E v \in Uuid : t.files[v] = h
  <2>1. CASE UuidOf(db, h) # NoUuid /\ t = db
    BY <2>1, UuidOfNames
  <2>2. CASE /\ UuidOf(db, h) = NoUuid
             /\ \E u \in Uuid : /\ t = [db EXCEPT !.files[u] = h]
                                /\ UpsertFile(h) => db.files[u] = NoHash
    <3>1. PICK u \in Uuid : /\ t = [db EXCEPT !.files[u] = h]
                            /\ UpsertFile(h) => db.files[u] = NoHash
      BY <2>2
    <3>2. t.files = [db.files EXCEPT ![u] = h]
      BY <1>2, <3>1 DEF Tables
    <3>3. t.files[u] = h /\ \A v \in Uuid : v # u => t.files[v] = db.files[v]
      BY <1>2, <3>2
    <3> QED BY <2>2, <3>1, <3>3
  <2> QED BY <1>1, <2>1, <2>2
<1>5. TablesOK(t)
  BY <1>2, <1>3, SameTagsKeep
<1>6. OneFile(db) => OneFile(t)
  BY <1>4, UuidOfNames DEF OneFile
<1>7. Step(t) => FTS_AGGREGATIONS(docs, t) = Synced(t)
  <2>1. Len(db.tags) <= Len(t.tags) /\ \A i \in 1..Len(db.tags) : t.tags[i] = db.tags[i]
    BY <1>2, <1>3
  <2> QED BY <1>3, <2>1, NothingSyncs
<1>8. ASSUME UpsertFile(h), Sound
      PROVE  /\ Recorded(t, t.locs) /\ Recorded(t, t.meta) /\ Recorded(t, t.links)
             /\ Held(t, scan', client')
  <2>1. \A v \in Uuid : db.files[v] # NoHash => t.files[v] = db.files[v]
    BY <1>4, <1>8
  <2>2. Recorded(t, t.locs) /\ Recorded(t, t.meta) /\ Recorded(t, t.links)
    BY <1>2, <1>3, <1>8, <2>1, RecordedStays DEF Sound
  <2>3. \A g : g # NoHash /\ UuidOf(db, g) # NoUuid => UuidOf(t, g) # NoUuid
    BY <2>1, UuidOfNames
  <2>4. UuidOf(t, h) # NoUuid
    BY <1>4, UuidOfNames
  <2>5. scan' = h /\ client' = client
    BY <1>8 DEF UpsertFile
  <2> QED BY <1>8, <2>2, <2>3, <2>4, <2>5 DEF Sound, Held
<1> QED BY <1>1, <1>5, <1>6, <1>7, <1>8 DEF Follows, Records

LEMMA LocationFollows ==
    ASSUME IndexInv, NEW h \in Hash, NEW p \in Path, UpsertLocation(h, p)
    PROVE  \E what, t : Follows(what, t) /\ (SameContent(h, p) => Records(t))
<1> DEFINE i == At(p)
           r == [uuid |-> UuidOf(db, h), hash |-> h, path |-> p, live |-> TRUE]
           s == [db.locs[i] EXCEPT !.hash = h]
<1>1. PICK t : /\ Execute("location", t)
               /\ \/ i = 0 /\ t = [db EXCEPT !.locs = Append(@, r)]
                  \/ i # 0 /\ t = [db EXCEPT !.locs[i].hash = h]
  BY DEF UpsertLocation
<1>2. /\ db \in Tables /\ db.locs \in Seq(Location) /\ Len(db.locs) \in Nat /\ Len(db.tags) \in Nat
      /\ \A j \in 1..Len(db.locs) : db.locs[j] \in Location
  BY RowsAre DEF IndexInv, TablesOK, Tables
<1>3. /\ scan = h /\ scan' = NoHash /\ client' = client /\ h # NoHash
  BY SearchIndexAssumption DEF UpsertLocation
<1>4. ASSUME t = [db EXCEPT !.locs = Append(@, r)]
      PROVE  /\ TablesOK(t) /\ t.files = db.files
             /\ Step(t) => FTS_AGGREGATIONS(docs, t) = Synced(t)
             /\ Records(t)
  <2>1. r \in Location /\ r.live /\ r.uuid = UuidOf(db, h) /\ r.hash = h
    BY UuidOfIs DEF Location
  <2>2. /\ t.locs = Append(db.locs, r) /\ t.files = db.files
        /\ t.meta = db.meta /\ t.tags = db.tags /\ t.links = db.links
    BY <1>2, <1>4 DEF Tables
  <2> HIDE DEF r
  <2>3. /\ t.locs \in Seq(Location)
        /\ Len(t.locs) = Len(db.locs) + 1 /\ t.locs[Len(db.locs) + 1] = r
        /\ \A j \in 1..Len(db.locs) : t.locs[j] = db.locs[j]
    BY <1>2, <2>1, <2>2, AddRow
  <2>4. t \in Tables
    BY <1>2, <1>4, <2>3 DEF Tables
  <2>5. TablesOK(t)
    BY <1>2, <2>2, <2>3, <2>4, SameTagsKeep
  <2>6. Step(t) => FTS_AGGREGATIONS(docs, t) = Synced(t)
    BY <2>1, <2>2, <2>3, InsertSyncs
  <2>7. ASSUME Sound PROVE Recorded(t, t.locs) /\ Recorded(t, t.meta) /\ Recorded(t, t.links)
    <3>1. UuidOf(db, h) # NoUuid
      BY <1>3, <2>7 DEF Sound, Held
    <3>2. r.uuid \in Uuid /\ t.files[r.uuid] = r.hash
      BY <2>1, <2>2, <3>1, UuidOfNames
    <3>3. Recorded(t, db.locs) /\ Recorded(t, db.meta) /\ Recorded(t, db.links)
      BY <2>2, <2>7, SameFiles DEF Sound
    <3> QED BY <1>2, <2>2, <2>3, <3>2, <3>3, RecordedAdds
  <2> QED BY <1>3, <2>2, <2>5, <2>6, <2>7, SameNames
<1>5. ASSUME i # 0, t = [db EXCEPT !.locs[i].hash = h]
      PROVE  /\ TablesOK(t) /\ t.files = db.files
             /\ Step(t) => FTS_AGGREGATIONS(docs, t) = Synced(t)
             /\ SameContent(h, p) => Records(t)
  <2>1. i \in 1..Len(db.locs) /\ db.locs[i].live
    BY <1>2, <1>5, AtIs
  <2>2. /\ s \in Location /\ s.live /\ s.uuid = db.locs[i].uuid
        /\ s.path = db.locs[i].path /\ s.hash = h
        /\ db.locs[i].hash = h => s = db.locs[i]
    BY <1>2, <2>1 DEF Location
  <2>3. /\ t.locs = [db.locs EXCEPT ![i] = s] /\ t.files = db.files
        /\ t.meta = db.meta /\ t.tags = db.tags /\ t.links = db.links
    BY <1>2, <1>5 DEF Tables
  <2>4. SameContent(h, p) => db.locs[i].hash = h
    BY <1>5 DEF SameContent
  <2> HIDE DEF s, i
  <2>5. /\ t.locs \in Seq(Location) /\ Len(t.locs) = Len(db.locs) /\ t.locs[i] = s
        /\ \A j \in 1..Len(db.locs) : j # i => t.locs[j] = db.locs[j]
    BY <1>2, <2>1, <2>2, <2>3, SetRow
  <2>6. t \in Tables
    BY <1>2, <1>5, <2>5 DEF Tables
  <2>7. TablesOK(t)
    BY <1>2, <2>2, <2>3, <2>5, <2>6, SameTagsKeep
  <2>8. ASSUME db.locs[i].hash = h PROVE t.locs = db.locs
    <3>1. \A j \in 1..Len(t.locs) : t.locs[j] = db.locs[j]
      BY <2>2, <2>5, <2>8
    <3> QED BY <1>2, <2>5, <3>1, SeqEqual
  <2>9. ASSUME Step(t) PROVE FTS_AGGREGATIONS(docs, t) = Synced(t)
    <3>1. CASE db.locs[i].hash = h
      <4>1. Len(db.tags) <= Len(t.tags) /\ \A j \in 1..Len(db.tags) : t.tags[j] = db.tags[j]
        BY <1>2, <2>3
      <4> QED BY <2>3, <2>8, <2>9, <3>1, <4>1, NothingSyncs
    <3>2. CASE db.locs[i].hash # h
      <4>1. OneLocation(t, i)
        BY <2>1, <2>2, <2>3, <2>5, <3>2 DEF OneLocation
      <4> QED BY <2>2, <2>5, <2>9, <3>2, <4>1, HashSyncs
    <3> QED BY <3>1, <3>2
  <2>10. SameContent(h, p) => Records(t)
    <3>1. SameContent(h, p) /\ Sound =>
             Recorded(t, t.locs) /\ Recorded(t, t.meta) /\ Recorded(t, t.links)
      BY <2>3, <2>4, <2>8, SameFiles DEF Sound
    <3> QED BY <1>3, <2>3, <3>1, SameNames
  <2> QED BY <2>3, <2>7, <2>9, <2>10
<1> QED BY <1>1, <1>4, <1>5, SameFiles DEF Follows

LEMMA PathFollows ==
    ASSUME IndexInv, NEW p \in Path, NEW q \in Path, UpdateLocationPath(p, q)
    PROVE  \E what, t : Follows(what, t) /\ Records(t)
<1> DEFINE i == At(p)
           r == [db.locs[i] EXCEPT !.path = q]
           s == [db.locs[i] EXCEPT !.live = FALSE]
<1>1. PICK t : /\ Execute("rename", t)
               /\ \/ t = [db EXCEPT !.locs[i].path = q]
                  \/ t = [db EXCEPT !.locs[i].live = FALSE]
  BY DEF UpdateLocationPath
<1>2. /\ db \in Tables /\ db.locs \in Seq(Location)
      /\ \A j \in 1..Len(db.locs) : db.locs[j] \in Location
  BY RowsAre DEF IndexInv, TablesOK, Tables
<1>3. i \in 1..Len(db.locs) /\ db.locs[i].live /\ db.locs[i].path # q
  BY <1>2, AtIs DEF UpdateLocationPath
<1>4. /\ r \in Location /\ r.live /\ r.uuid = db.locs[i].uuid /\ r.hash = db.locs[i].hash
      /\ r.path # db.locs[i].path
      /\ s \in Location /\ ~s.live /\ s.uuid = db.locs[i].uuid /\ s.hash = db.locs[i].hash
      /\ s.path = db.locs[i].path
  BY <1>2, <1>3 DEF Location
<1>5. /\ t.locs = [db.locs EXCEPT ![i] = r] \/ t.locs = [db.locs EXCEPT ![i] = s]
      /\ t.files = db.files /\ t.meta = db.meta /\ t.tags = db.tags /\ t.links = db.links
  BY <1>1, <1>2 DEF Tables
<1> HIDE DEF i, r, s
<1>6. /\ t.locs \in Seq(Location) /\ Len(t.locs) = Len(db.locs)
      /\ t.locs[i] = r \/ t.locs[i] = s
      /\ \A j \in 1..Len(db.locs) : j # i => t.locs[j] = db.locs[j]
  BY <1>2, <1>3, <1>4, <1>5, SetRow
<1>7. OneLocation(t, i)
  BY <1>3, <1>4, <1>5, <1>6 DEF OneLocation
<1>8. Step(t) => FTS_AGGREGATIONS(docs, t) = Synced(t)
  BY <1>4, <1>6, <1>7, RenameSyncs, DeleteSyncs
<1>9. TablesOK(t)
  <2>1. t \in Tables
    BY <1>1, <1>2, <1>6 DEF Tables
  <2> QED BY <1>5, <2>1 DEF IndexInv, TablesOK, LinksHaveTags, OneTagPerName, OneLinkPerTag
<1>10. Records(t)
  <2>1. \A j \in 1..Len(db.locs) : t.locs[j].uuid = db.locs[j].uuid /\ t.locs[j].hash = db.locs[j].hash
    BY <1>3, <1>4, <1>6
  <2>2. Sound => Recorded(t, t.locs) /\ Recorded(t, t.meta) /\ Recorded(t, t.links)
    BY <1>5, <1>6, <2>1, SameFiles, RecordedAlike DEF Sound
  <2>3. scan' = scan /\ client' = client
    BY DEF UpdateLocationPath
  <2> QED BY <1>5, <2>2, <2>3, SameNames
<1> QED BY <1>1, <1>5, <1>8, <1>9, <1>10, SameFiles DEF Follows

LEMMA MetadataFollows ==
    ASSUME IndexInv, NEW h \in Hash, NEW mime \in Mime, UpsertMetadata(h, mime)
    PROVE  \E what, t : Follows(what, t) /\ Records(t)
<1> DEFINE r == [hash |-> h, uuid |-> UuidOf(db, h), mime |-> mime]
           I == {j \in 1..Len(db.meta) : db.meta[j].hash = h}
           i == First(I)
           s == [db.meta[i] EXCEPT !.mime = mime]
<1>1. PICK t : /\ Execute("metadata", t)
               /\ \/ i = 0 /\ t = [db EXCEPT !.meta = Append(@, r)]
                  \/ /\ i # 0 /\ db.meta[i].mime # mime
                     /\ t = [db EXCEPT !.meta[i].mime = mime]
  BY DEF UpsertMetadata, Where
<1>2. /\ db \in Tables /\ db.meta \in Seq(Metadata) /\ Len(db.meta) \in Nat /\ Len(db.locs) \in Nat
      /\ \A j \in 1..Len(db.meta) : db.meta[j] \in Metadata
  BY RowsAre DEF IndexInv, TablesOK, Tables
<1>3. I \subseteq Nat \ {0} /\ \A j \in 1..Len(db.meta) : db.meta[j].hash = h <=> j \in I
  BY <1>2
<1>4. i # 0 => i \in 1..Len(db.meta) /\ db.meta[i].hash = h
  <2> HIDE DEF I, i
  <2>1. i # 0 => i \in I
    BY <1>3, FirstIsLeast, FirstOfNone DEF i
  <2> QED BY <2>1 DEF I
<1>5. /\ i = 0 => I = {}
      /\ \A j \in I : i <= j
  <2> HIDE DEF I
  <2> QED BY <1>3, FirstIsLeast
<1>6. r \in Metadata /\ r.hash = h /\ r.uuid = UuidOf(db, h)
  BY UuidOfIs DEF Metadata
<1>7. t.files = db.files /\ t.locs = db.locs /\ t.tags = db.tags /\ t.links = db.links
  BY <1>1, <1>2 DEF Tables
<1>8. scan' = scan /\ client' = client /\ \E k \in 1..Len(db.locs) : db.locs[k].hash = h
  BY DEF UpsertMetadata
<1>9. ASSUME t.meta \in Seq(Metadata) PROVE TablesOK(t)
  <2>1. t \in Tables
    BY <1>1, <1>2, <1>9 DEF Tables
  <2> QED BY <1>7, <2>1 DEF IndexInv, TablesOK, LinksHaveTags, OneTagPerName, OneLinkPerTag
<1>10. ASSUME i = 0, t = [db EXCEPT !.meta = Append(@, r)]
       PROVE  /\ TablesOK(t) /\ Records(t)
              /\ Step(t) => FTS_AGGREGATIONS(docs, t) = Synced(t)
  <2>1. t.meta = Append(db.meta, r)
    BY <1>2, <1>10 DEF Tables
  <2> HIDE DEF r, i
  <2>2. /\ t.meta \in Seq(Metadata)
        /\ Len(t.meta) = Len(db.meta) + 1 /\ t.meta[Len(db.meta) + 1] = r
        /\ \A j \in 1..Len(db.meta) : t.meta[j] = db.meta[j]
    BY <1>2, <1>6, <2>1, AddRow
  <2>3. \A j \in 1..Len(db.meta) : db.meta[j].hash # t.meta[Len(db.meta) + 1].hash
    BY <1>3, <1>5, <1>6, <1>10, <2>2
  <2>4. Step(t) => FTS_AGGREGATIONS(docs, t) = Synced(t)
    BY <1>7, <2>2, <2>3, MetaInsertSyncs
  <2>5. ASSUME Sound PROVE Recorded(t, t.locs) /\ Recorded(t, t.meta) /\ Recorded(t, t.links)
    <3>1. UuidOf(db, h) # NoUuid
      BY <1>8, <2>5, UuidOfNames DEF Sound, Recorded
    <3>2. r.uuid \in Uuid /\ t.files[r.uuid] = r.hash
      BY <1>6, <1>7, <3>1, UuidOfNames
    <3>3. Recorded(t, db.locs) /\ Recorded(t, db.meta) /\ Recorded(t, db.links)
      BY <1>7, <2>5, SameFiles DEF Sound
    <3> QED BY <1>2, <1>7, <2>2, <3>2, <3>3, RecordedAdds
  <2>6. Records(t)
    BY <1>7, <1>8, <2>5, SameNames
  <2> QED BY <1>9, <2>2, <2>4, <2>6
<1>11. ASSUME i # 0, db.meta[i].mime # mime, t = [db EXCEPT !.meta[i].mime = mime]
       PROVE  /\ TablesOK(t) /\ Records(t)
              /\ Step(t) => FTS_AGGREGATIONS(docs, t) = Synced(t)
  <2>1. s \in Metadata /\ s.uuid = db.meta[i].uuid /\ s.hash = db.meta[i].hash /\ s.mime = mime
    BY <1>2, <1>4, <1>11 DEF Metadata
  <2>2. t.meta = [db.meta EXCEPT ![i] = s] /\ i \in 1..Len(db.meta)
    BY <1>2, <1>4, <1>11 DEF Tables
  <2>3. \A j \in 1..Len(db.meta) : db.meta[j].hash = db.meta[i].hash => i <= j
    BY <1>3, <1>4, <1>5, <1>11
  <2> HIDE DEF s, i
  <2>4. /\ t.meta \in Seq(Metadata) /\ Len(t.meta) = Len(db.meta) /\ t.meta[i] = s
        /\ \A j \in 1..Len(db.meta) : j # i => t.meta[j] = db.meta[j]
    BY <1>2, <2>1, <2>2, SetRow
  <2>5. Step(t) => FTS_AGGREGATIONS(docs, t) = Synced(t)
    BY <1>7, <1>11, <2>1, <2>2, <2>3, <2>4, MetaUpdateSyncs
  <2>6. \A j \in 1..Len(db.meta) : t.meta[j].uuid = db.meta[j].uuid /\ t.meta[j].hash = db.meta[j].hash
    BY <2>1, <2>4
  <2>7. Sound => Recorded(t, t.locs) /\ Recorded(t, t.meta) /\ Recorded(t, t.links)
    BY <1>7, <2>4, <2>6, SameFiles, RecordedAlike DEF Sound
  <2>8. Records(t)
    BY <1>7, <1>8, <2>7, SameNames
  <2> QED BY <1>9, <2>4, <2>5, <2>8
<1> QED BY <1>1, <1>7, <1>10, <1>11, SameFiles DEF Follows

\* A command that changes the tags, and no row that names a file.
LEMMA TagsFollow ==
    ASSUME IndexInv, NEW what, NEW t, Execute(what, t), TablesOK(t),
           t.files = db.files, t.locs = db.locs, t.meta = db.meta, t.links = db.links,
           Step(t) => FTS_AGGREGATIONS(docs, t) = Synced(t),
           scan' = scan, \A c \in Client : client'[c].hash = client[c].hash
    PROVE  Follows(what, t) /\ Records(t)
<1>1. Sound => Recorded(t, t.locs) /\ Recorded(t, t.meta) /\ Recorded(t, t.links)
  BY SameFiles DEF Sound
<1>2. Records(t)
  BY <1>1, SameNames
<1> QED BY <1>2, SameFiles DEF Follows

\* The hash a caller works on stays, from command to command.
LEMMA SameHashes ==
    ASSUME IndexInv, NEW c \in Client,
           \/ \E step : Goto(c, step)
           \/ UpsertTag(c)
    PROVE  scan' = scan /\ \A b \in Client : client'[b].hash = client[b].hash
<1>1. client \in [Client -> Caller]
  BY DEF IndexInv, CallersOK
<1>2. \A step, tag : /\ [client[c] EXCEPT !.step = step].hash = client[c].hash
                     /\ [client[c] EXCEPT !.tag = tag, !.step = step].hash = client[c].hash
  BY <1>1 DEF Caller
<1>3. CASE \E step : Goto(c, step)
  <2>1. PICK step : client' = [client EXCEPT ![c] = [client[c] EXCEPT !.step = step]]
    BY <1>1, <1>3 DEF Goto
  <2> QED BY <1>1, <1>2, <1>3, <2>1 DEF Goto
<1>4. CASE UpsertTag(c)
  <2>1. PICK step, tag : client' = [client EXCEPT ![c].tag = tag, ![c].step = step]
    BY <1>4 DEF UpsertTag
  <2>2. client' = [client EXCEPT ![c] = [client[c] EXCEPT !.tag = tag, !.step = step]]
    BY <1>1, <2>1
  <2>3. \A b \in Client : client'[b].hash = client[b].hash
    BY <1>1, <1>2, <2>2
  <2> QED BY <1>4, <2>3 DEF UpsertTag
<1> QED BY <1>3, <1>4

LEMMA TagFollows ==
    ASSUME IndexInv, NEW c \in Client, UpsertTag(c)
    PROVE  \E what, t : Follows(what, t) /\ Records(t)
<1> DEFINE name == client[c].name
           after == upsert_tag(db.tags, name)
           t == [db EXCEPT !.tags = after]
<1>1. client[c].step \in {"upsert", "again"} /\ Execute("tag", t)
  BY DEF UpsertTag
<1>2. name \in Name /\ db \in Tables /\ Len(db.tags) \in Nat
  BY <1>1, RowsAre DEF IndexInv, CallersOK, TablesOK
<1>3. /\ t.files = db.files /\ t.locs = db.locs /\ t.meta = db.meta /\ t.links = db.links
      /\ t.tags = after
  BY <1>2 DEF Tables
<1> HIDE DEF name
<1>4. /\ after \in Seq(Tag) /\ Len(after) >= Len(db.tags)
      /\ \A i \in 1..Len(db.tags) : after[i] = db.tags[i]
      /\ \A i, j \in 1..Len(after) :
            after[i].live /\ after[j].live /\ after[i].name = after[j].name => i = j
  BY <1>2, UpsertTagIs
<1> HIDE DEF after
<1>5. t \in Tables
  BY <1>2, <1>4 DEF Tables
<1> HIDE DEF t
<1>6. Len(after) \in Nat
  BY <1>4
<1>7. TablesOK(t)
  BY <1>2, <1>3, <1>4, <1>5, <1>6 DEF IndexInv, TablesOK, LinksHaveTags, OneTagPerName, OneLinkPerTag
<1>8. Len(db.tags) <= Len(t.tags) /\ \A i \in 1..Len(db.tags) : t.tags[i] = db.tags[i]
  BY <1>3, <1>4
<1>9. Step(t) => FTS_AGGREGATIONS(docs, t) = Synced(t)
  BY <1>3, <1>8, NothingSyncs
<1>10. scan' = scan /\ \A b \in Client : client'[b].hash = client[b].hash
  BY SameHashes
<1> QED BY <1>1, <1>3, <1>7, <1>9, <1>10, TagsFollow

\* A command that leaves the tables.
LEMMA StaysSync == ASSUME TablesOK(db) PROVE Step(db) => FTS_AGGREGATIONS(docs, db) = Synced(db)
<1>1. Len(db.tags) \in Nat
  BY Lengths
<1>2. Len(db.tags) <= Len(db.tags)
  BY <1>1
<1> QED BY <1>2, NothingSyncs

LEMMA AttachTagFollows ==
    ASSUME IndexInv, NEW c \in Client, AttachTag(c)
    PROVE  \E what, t : Follows(what, t) /\ Records(t)
<1> DEFINE h == client[c].hash
           r == [hash |-> h, uuid |-> UuidOf(db, h), tag |-> client[c].tag, live |-> TRUE]
           t == [db EXCEPT !.links = Append(@, r)]
<1>1. /\ client[c].step = "attach"
      /\ \/ Execute("attach", db)
         \/ /\ ~\E i \in 1..Len(db.links) : /\ db.links[i].live /\ db.links[i].hash = h
                                            /\ db.links[i].tag = client[c].tag
            /\ Execute("attach", t)
  BY DEF AttachTag
<1>2. h \in Hash /\ client[c].tag \in 1..Len(db.tags) /\ h # NoHash
  BY <1>1, SearchIndexAssumption DEF IndexInv, CallersOK
<1>3. /\ TablesOK(db) /\ db \in Tables /\ db.links \in Seq(Link)
      /\ Len(db.tags) \in Nat /\ Len(db.links) \in Nat
  BY RowsAre DEF IndexInv, TablesOK, Tables
<1>4. /\ r \in Link /\ r.live /\ r.hash = h /\ r.tag = client[c].tag /\ r.uuid = UuidOf(db, h)
  BY <1>2, <1>3, UuidOfIs DEF Link
<1>5. /\ t.files = db.files /\ t.locs = db.locs /\ t.meta = db.meta /\ t.tags = db.tags
      /\ t.links = Append(db.links, r)
  BY <1>3 DEF Tables
<1>6. scan' = scan /\ \A b \in Client : client'[b].hash = client[b].hash
  BY SameHashes DEF AttachTag
<1>7. CASE Execute("attach", db)
  <2>1. Follows("attach", db) /\ Records(db)
    BY <1>3, <1>6, <1>7, StaysSync, TagsFollow
  <2> QED BY <2>1
<1>8. CASE /\ ~\E i \in 1..Len(db.links) : /\ db.links[i].live /\ db.links[i].hash = h
                                           /\ db.links[i].tag = client[c].tag
           /\ Execute("attach", t)
  <2> HIDE DEF r
  <2>1. /\ t.links \in Seq(Link) /\ Len(t.links) = Len(db.links) + 1
        /\ t.links[Len(db.links) + 1] = r
        /\ \A j \in 1..Len(db.links) : t.links[j] = db.links[j]
    BY <1>3, <1>4, <1>5, AddRow
  <2>2. t \in Tables
    BY <1>3, <2>1 DEF Tables
  <2>3. \A j \in 1..Len(db.links) : ~(db.links[j].live /\ db.links[j].hash = r.hash /\ db.links[j].tag = r.tag)
    BY <1>4, <1>8
  <2>4. r.tag \in 1..Len(db.tags)
    BY <1>2, <1>4
  <2> HIDE DEF t
  <2>5. TablesOK(t)
    BY <1>5, <2>1, <2>2, <2>3, <2>4, LinkAdded
  <2>6. Step(t) => FTS_AGGREGATIONS(docs, t) = Synced(t)
    BY <1>4, <1>5, <2>1, AttachSyncs
  <2>7. ASSUME Sound PROVE Recorded(t, t.locs) /\ Recorded(t, t.meta) /\ Recorded(t, t.links)
    <3>1. UuidOf(db, h) # NoUuid
      BY <1>2, <2>7 DEF Sound, Held
    <3>2. r.uuid \in Uuid /\ t.files[r.uuid] = r.hash
      BY <1>4, <1>5, <3>1, UuidOfNames
    <3>3. Recorded(t, db.locs) /\ Recorded(t, db.meta) /\ Recorded(t, db.links)
      BY <1>5, <2>7, SameFiles DEF Sound
    <3> QED BY <1>3, <1>5, <2>1, <3>2, <3>3, RecordedAdds
  <2>8. Records(t)
    BY <1>5, <1>6, <2>7, SameNames
  <2> QED BY <1>5, <1>8, <2>5, <2>6, <2>8, SameFiles DEF Follows
<1> QED BY <1>1, <1>7, <1>8

LEMMA DetachTagFollows ==
    ASSUME IndexInv, NEW c \in Client, DetachTag(c)
    PROVE  \E what, t : Follows(what, t) /\ Records(t)
<1> DEFINE K == {i \in 1..Len(db.links) : /\ db.links[i].live
                                          /\ db.links[i].hash = client[c].hash
                                          /\ db.links[i].tag = client[c].tag}
           f == Detached(K)
           t == [db EXCEPT !.links = f]
<1>1. Execute("detach", t)
  BY DEF DetachTag, Detached
<1>2. /\ TablesOK(db) /\ db \in Tables /\ db.links \in Seq(Link) /\ Len(db.links) \in Nat
      /\ Len(db.tags) \in Nat
  BY RowsAre DEF IndexInv, TablesOK, Tables
<1>3. \A i, j \in K : i = j
  BY <1>2 DEF TablesOK, OneLinkPerTag
<1>4. /\ K \subseteq {i \in 1..Len(db.links) : db.links[i].live}
      /\ scan' = scan /\ \A b \in Client : client'[b].hash = client[b].hash
  BY SameHashes DEF DetachTag
<1> HIDE DEF K
<1>5. /\ f \in Seq(Link) /\ Len(f) = Len(db.links)
      /\ \A i \in 1..Len(db.links) :
            /\ f[i].uuid = db.links[i].uuid /\ f[i].hash = db.links[i].hash
            /\ f[i].tag = db.links[i].tag /\ (f[i].live => db.links[i].live)
            /\ IF i \in K THEN ~f[i].live ELSE f[i] = db.links[i]
  BY <1>2, DetachedAre
<1> HIDE DEF f
<1>6. /\ t \in Tables
      /\ t.files = db.files /\ t.locs = db.locs /\ t.meta = db.meta /\ t.tags = db.tags /\ t.links = f
  BY <1>2, <1>5 DEF Tables
<1> HIDE DEF t
<1>7. TablesOK(t)
  <2>1. LinksHaveTags(t) /\ OneLinkPerTag(t)
    BY <1>2, <1>5, <1>6 DEF TablesOK, LinksHaveTags, OneLinkPerTag
  <2> QED BY <1>2, <1>6, <2>1 DEF TablesOK, OneTagPerName
<1>8. ASSUME Step(t), K = {} PROVE FTS_AGGREGATIONS(docs, t) = Synced(t)
  <2>1. f = db.links
    <3>1. \A i \in 1..Len(f) : f[i] = db.links[i]
      BY <1>5, <1>8
    <3> QED BY <1>2, <1>5, <3>1, SeqEqual
  <2>2. Len(db.tags) <= Len(t.tags) /\ \A j \in 1..Len(db.tags) : t.tags[j] = db.tags[j]
    BY <1>2, <1>6
  <2> QED BY <1>6, <1>8, <2>1, <2>2, NothingSyncs
<1>9. ASSUME Step(t), NEW i \in K PROVE FTS_AGGREGATIONS(docs, t) = Synced(t)
  <2>1. i \in 1..Len(db.links) /\ db.links[i].live
    BY <1>4
  <2>2. ~f[i].live /\ \A k \in 1..Len(db.links) : k # i => f[k] = db.links[k]
    BY <1>3, <1>5, <2>1
  <2> QED BY <1>5, <1>6, <1>9, <2>1, <2>2, DetachSyncs
<1>10. Sound => Recorded(t, t.locs) /\ Recorded(t, t.meta) /\ Recorded(t, t.links)
  BY <1>5, <1>6, SameFiles, RecordedAlike DEF Sound
<1>11. Records(t)
  BY <1>4, <1>6, <1>10, SameNames
<1> QED BY <1>1, <1>6, <1>7, <1>8, <1>9, <1>11, SameFiles DEF Follows

LEMMA DeleteTagFollows ==
    ASSUME IndexInv, NEW id \in 1..Len(db.tags), DeleteTag(id)
    PROVE  \E what, t : Follows(what, t) /\ Records(t)
<1> DEFINE r == [db.tags[id] EXCEPT !.live = FALSE]
           t == [db EXCEPT !.tags[id].live = FALSE]
<1>1. /\ Execute("delete", t) /\ db.tags[id].live
      /\ scan' = scan /\ \A b \in Client : client'[b].hash = client[b].hash
  BY DEF DeleteTag
<1>2. TablesOK(db) /\ db \in Tables /\ db.tags \in Seq(Tag) /\ db.tags[id] \in Tag
  BY RowsAre DEF IndexInv, TablesOK, Tables
<1>3. r \in Tag /\ ~r.live /\ r.name = db.tags[id].name
  BY <1>2 DEF Tag
<1>4. /\ t.tags = [db.tags EXCEPT ![id] = r] /\ t.files = db.files
      /\ t.locs = db.locs /\ t.meta = db.meta /\ t.links = db.links
  BY <1>2 DEF Tables
<1>5. t = [db EXCEPT !.tags = t.tags]
  BY <1>2, <1>4 DEF Tables
<1> HIDE DEF r, t
<1>6. /\ t.tags \in Seq(Tag) /\ Len(t.tags) = Len(db.tags) /\ t.tags[id] = r
      /\ \A j \in 1..Len(db.tags) : j # id => t.tags[j] = db.tags[j]
  BY <1>2, <1>3, <1>4, SetRow
<1>7. TablesOK(t)
  <2>1. t \in Tables
    BY <1>2, <1>5, <1>6 DEF Tables
  <2>2. LinksHaveTags(t) /\ OneLinkPerTag(t) /\ OneTagPerName(t)
    BY <1>2, <1>3, <1>4, <1>6 DEF TablesOK, LinksHaveTags, OneLinkPerTag, OneTagPerName
  <2> QED BY <2>1, <2>2 DEF TablesOK
<1>8. Step(t) => FTS_AGGREGATIONS(docs, t) = Synced(t)
  BY <1>1, <1>3, <1>4, <1>6, TagDeleteSyncs
<1> QED BY <1>1, <1>4, <1>7, <1>8, TagsFollow

\* A caller begins.
Asks == \E c \in Client : \E op, h, name : Ask(c, op, h, name)

\* A command of the upkeep that is neither a rebuild nor a caller's beginning.
LEMMA UpkeepFollows ==
    ASSUME IndexInv, Upkeep
    PROVE  Rebuild \/ Asks \/ \E what, t : Follows(what, t) /\ Records(t)
<1>1. CASE \E h \in Hash : UpsertFile(h)
  BY <1>1, FileFollows
<1>2. CASE \E h \in Hash, p \in Path : SameContent(h, p) /\ UpsertLocation(h, p)
  BY <1>2, LocationFollows
<1>3. CASE \E p, q \in Path : UpdateLocationPath(p, q)
  BY <1>3, PathFollows
<1>4. CASE \E h \in Hash, mime \in Mime : UpsertMetadata(h, mime)
  BY <1>4, MetadataFollows
<1>5. CASE \E c \in Client : UpsertTag(c) \/ AttachTag(c) \/ DetachTag(c)
  BY <1>5, TagFollows, AttachTagFollows, DetachTagFollows
<1>6. CASE \E id \in 1..Len(db.tags) : DeleteTag(id)
  BY <1>6, DeleteTagFollows
<1>7. CASE Rebuild \/ Asks
  BY <1>7
<1> QED BY <1>1, <1>2, <1>3, <1>4, <1>5, <1>6, <1>7
        DEF Upkeep, Asks, attach_tag, run_add, run_rm, attach_tag_by_uuid, detach_tag, detach_tag_by_uuid

LEMMA NextFollows ==
    ASSUME IndexInv, Next
    PROVE  Rebuild \/ Asks \/ \E what, t : Follows(what, t)
<1>1. CASE Upkeep
  BY <1>1, UpkeepFollows
<1>2. CASE \E u \in Uuid, h \in Hash : PromoteFullHash(u, h)
  BY <1>2, FileFollows
<1>3. CASE \E h \in Hash, p \in Path : UpsertLocation(h, p)
  BY <1>3, LocationFollows
<1> QED BY <1>1, <1>2, <1>3 DEF Next

\* No two rows of `files` ever have one content.
LEMMA FilesStep ==
    ASSUME IndexInv, OneFile(db), [Next]_vars
    PROVE  OneFile(db')
<1>1. CASE Next
  <2>1. CASE Rebuild \/ Asks
    <3>1. db' = db
      BY <2>1 DEF Rebuild, Transaction, Asks, Ask
    <3> QED BY <3>1
  <2>2. CASE \E what, t : Follows(what, t)
    <3>1. PICK what, t : Follows(what, t)
      BY <2>2
    <3>2. db' = t \/ db' = db
      BY <3>1 DEF Follows, Execute, Transaction
    <3> QED BY <3>1, <3>2 DEF Follows
  <2> QED BY <1>1, <2>1, <2>2, NextFollows
<1>2. CASE UNCHANGED vars
  BY <1>2 DEF vars
<1> QED BY <1>1, <1>2

\* The rows that a rebuild makes where the keys agree are accepted.
LEMMA SyncedUnique ==
    ASSUME NEW t, TablesOK(t), Agree(t)
    PROVE  Unique(Synced(t))
<1>1. ASSUME NEW u \in Lists(t), NEW v \in Lists(t), FromLive(t, u) # FromLive(t, v)
      PROVE  /\ FromLive(t, u).hash # FromLive(t, v).hash
             /\ FromLive(t, u).uuid # FromLive(t, v).uuid
  <2>1. u # v
    BY <1>1
  <2>2. Pairs(t, u, FromLive(t, u).hash) /\ Pairs(t, v, FromLive(t, v).hash)
    BY RowOf
  <2> QED BY <2>1, <2>2, RowOf DEF Agree
<1> QED BY <1>1 DEF Unique, Synced

\* Where every row names its file as `files` does, the keys agree.
LEMMA RecordedAgree ==
    ASSUME NEW t, TablesOK(t), OneFile(t),
           Recorded(t, t.locs), Recorded(t, t.meta), Recorded(t, t.links)
    PROVE  Agree(t)
<1>1. /\ \A i \in 1..Len(t.locs) : t.locs[i].hash \in Hash
      /\ \A i \in 1..Len(t.meta) : t.meta[i].hash \in Hash
      /\ \A i \in 1..Len(t.links) : t.links[i].hash \in Hash
  BY RowsAre DEF TablesOK, Location, Metadata, Link
<1>2. ASSUME NEW u, NEW h, Pairs(t, u, h)
      PROVE  u \in Uuid /\ t.files[u] = h /\ h \in Hash
  BY <1>1, <1>2 DEF Pairs, Recorded
<1>3. NoUuid \notin Uuid /\ NoHash \notin Hash
  BY SearchIndexAssumption
<1> QED BY <1>2, <1>3 DEF Agree, OneFile

LEMMA SoundSynced ==
    ASSUME IndexInv, OneFile(db), Sound
    PROVE  Agree(db) /\ docs = Synced(db)
<1>1. TablesOK(db)
  BY DEF IndexInv
<1>2. Agree(db)
  BY <1>1, RecordedAgree DEF Sound
<1> QED BY <1>1, <1>2, ByUuid DEF Sound

\* A command of the upkeep is accepted by a sound library, and leaves it sound.
LEMMA FollowsSound ==
    ASSUME IndexInv, OneFile(db), Sound, NEW what, NEW t, Follows(what, t), Records(t)
    PROVE  Sound'
<1>1. /\ TablesOK(t) /\ OneFile(t) /\ Recorded(t, t.locs) /\ Recorded(t, t.meta)
      /\ Recorded(t, t.links) /\ Held(t, scan', client')
  BY DEF Follows, Records
<1>2. Agree(t)
  BY <1>1, RecordedAgree
<1>3. Step(t)
  BY <1>1, <1>2, SoundSynced DEF Step, IndexInv
<1>4. FTS_AGGREGATIONS(docs, t) = Rebuilt(t) /\ Unique(FTS_AGGREGATIONS(docs, t))
  BY <1>1, <1>2, <1>3, ByUuid, SyncedUnique DEF Follows
<1>5. db' = t /\ docs' = Rebuilt(t) /\ last'.ok
  BY <1>4 DEF Follows, Execute, Transaction
<1> QED BY <1>1, <1>5 DEF Sound

LEMMA RebuildAccepted ==
    ASSUME IndexInv, Agree(db), Rebuild
    PROVE  db' = db /\ docs' = Rebuilt(db) /\ last'.ok
<1>1. Unique(Rebuilt(db))
  BY ByUuid, SyncedUnique DEF IndexInv
<1> QED BY <1>1 DEF Rebuild, Transaction

LEMMA AsksSound ==
    ASSUME IndexInv, Sound, NEW c \in Client, NEW op, NEW h, NEW name, Ask(c, op, h, name),
           h # NoHash => UuidOf(db, h) # NoUuid
    PROVE  Sound'
<1>1. db' = db /\ docs' = docs /\ scan' = scan /\ last' = last
  BY DEF Ask
<1>2. \A b \in Client : client'[b].hash \in {h, client[b].hash}
  BY DEF Ask, IndexInv, CallersOK
<1>3. Held(db, scan, client')
  BY <1>2 DEF Sound, Held
<1> QED BY <1>1, <1>3 DEF Sound

LEMMA UpkeepSound ==
    ASSUME IndexInv, OneFile(db), Sound, Upkeep
    PROVE  Sound'
<1>1. CASE Rebuild
  <2>1. db' = db /\ docs' = Rebuilt(db) /\ last'.ok /\ scan' = scan /\ client' = client
    BY <1>1, SoundSynced, RebuildAccepted DEF Rebuild
  <2> QED BY <2>1 DEF Sound
<1>2. CASE \E what, t : Follows(what, t) /\ Records(t)
  BY <1>2, FollowsSound
<1>3. \A h \in Listed : UuidOf(db, h) # NoUuid
  BY UuidOfNames DEF Sound, Recorded, Listed, Where
<1>4. \A u \in Uuid : UuidOf(db, db.files[u]) # NoUuid
  BY UuidOfNames
<1>5. CASE \E c \in Client :
              \/ \E h \in Hash, name \in Name :
                    attach_tag(c, h, name) \/ run_add(c, h, name) \/ run_rm(c, h, name)
              \/ \E u \in Uuid, name \in Name : attach_tag_by_uuid(c, u, name)
              \/ \E id \in 1..Len(db.tags) :
                    \/ \E h \in Hash : detach_tag(c, h, id)
                    \/ \E u \in Uuid : detach_tag_by_uuid(c, u, id)
  <2>1. PICK c \in Client : \E op, h, name : Ask(c, op, h, name) /\ UuidOf(db, h) # NoUuid
    BY <1>3, <1>4, <1>5
       DEF attach_tag, run_add, run_rm, attach_tag_by_uuid, detach_tag, detach_tag_by_uuid
  <2> QED BY <2>1, AsksSound
<1>6. \/ \E h \in Hash : UpsertFile(h)
      \/ \E h \in Hash, p \in Path : SameContent(h, p) /\ UpsertLocation(h, p)
      \/ \E p, q \in Path : UpdateLocationPath(p, q)
      \/ \E h \in Hash, mime \in Mime : UpsertMetadata(h, mime)
      \/ \E c \in Client : UpsertTag(c) \/ AttachTag(c) \/ DetachTag(c)
      \/ \E id \in 1..Len(db.tags) : DeleteTag(id)
      => \E what, t : Follows(what, t) /\ Records(t)
  BY FileFollows, LocationFollows, PathFollows, MetadataFollows, TagFollows, AttachTagFollows,
     DetachTagFollows, DeleteTagFollows
<1> QED BY <1>1, <1>2, <1>5, <1>6 DEF Upkeep

\* The index is the rebuilt one before the step, and its keys agree on both
\* sides of it.
InSync ==
    /\ IndexInv /\ Agree(db) /\ docs = Synced(db)
    /\ IndexInv' /\ Agree(db')

LEMMA FollowsSync ==
    ASSUME InSync, NEW what, NEW t, Follows(what, t)
    PROVE  docs' = Synced(db')
<1>1. \/ db' = t /\ docs' = FTS_AGGREGATIONS(docs, t)
      \/ db' = db /\ docs' = docs
  BY DEF Follows, Execute, Transaction
<1>2. TablesOK(db) /\ TablesOK(db')
  BY DEF InSync, IndexInv
<1>3. CASE db' = t /\ docs' = FTS_AGGREGATIONS(docs, t)
  <2>1. Step(t)
    BY <1>2, <1>3 DEF InSync, Step
  <2> QED BY <1>3, <2>1 DEF Follows
<1>4. CASE db' = db /\ docs' = docs
  BY <1>4 DEF InSync
<1> QED BY <1>1, <1>3, <1>4

LEMMA RebuildSyncs == ASSUME InSync, Rebuild PROVE docs' = Synced(db')
<1>1. Rebuilt(db) = Synced(db)
  BY ByUuid DEF InSync, IndexInv
<1> QED BY <1>1 DEF InSync, Rebuild, Transaction

LEMMA AgreeNext == KeysAgree' => Agree(db')
<1>1. KeysAgree' => Agree(db)'
  BY AgreeIs, PTL
<1> QED BY <1>1

LEMMA TriggersSync ==
    ASSUME IndexInv, IndexInv', Next, KeysAgree, KeysAgree', docs = Rebuilt(db)
    PROVE  docs' = Rebuilt(db')
<1>1. Agree(db) /\ Agree(db')
  BY AgreeIs, AgreeNext
<1>2. TablesOK(db) /\ TablesOK(db')
  BY DEF IndexInv
<1>3. Rebuilt(db) = Synced(db) /\ Rebuilt(db') = Synced(db')
  BY <1>1, <1>2, ByUuid
<1>4. InSync
  BY <1>1, <1>3 DEF InSync
<1>5. docs' = Synced(db')
  <2>1. CASE Rebuild
    BY <1>4, <2>1, RebuildSyncs
  <2>2. CASE Asks
    BY <1>4, <2>2 DEF Asks, Ask, InSync
  <2>3. CASE \E what, t : Follows(what, t)
    BY <1>4, <2>3, FollowsSync
  <2> QED BY <2>1, <2>2, <2>3, NextFollows
<1> QED BY <1>3, <1>5

LEMMA SyncSteps ==
    IndexInv /\ IndexInv' /\ OneFile(db) /\ [Next]_vars =>
       [/\ KeysAgree /\ KeysAgree' /\ docs = Rebuilt(db) => docs' = Rebuilt(db)'
        /\ KeysAgree /\ Rebuild => last'.ok
        /\ Sound /\ Upkeep => Sound']_vars
<1> SUFFICES ASSUME IndexInv, IndexInv', OneFile(db), Next
             PROVE  /\ KeysAgree /\ KeysAgree' /\ docs = Rebuilt(db) => docs' = Rebuilt(db')
                    /\ KeysAgree /\ Rebuild => last'.ok
                    /\ Sound /\ Upkeep => Sound'
  OBVIOUS
<1>1. KeysAgree /\ KeysAgree' /\ docs = Rebuilt(db) => docs' = Rebuilt(db')
  BY TriggersSync
<1>2. KeysAgree /\ Rebuild => last'.ok
  BY AgreeIs, RebuildAccepted
<1>3. Sound /\ Upkeep => Sound'
  BY UpkeepSound
<1> QED BY <1>1, <1>2, <1>3
-----------------------------------------------------------------------------
(***************************************************************************)
(* What holds of every behaviour.                                          *)
(***************************************************************************)
LEMMA IndexStarts == Init => IndexInv
<1> SUFFICES ASSUME Init PROVE IndexInv
  OBVIOUS
<1>1. /\ <<>> \in Seq(Location) /\ <<>> \in Seq(Metadata) /\ <<>> \in Seq(Tag) /\ <<>> \in Seq(Link)
  OBVIOUS
<1>2. db \in Tables
  BY <1>1 DEF Init, Tables
<1>3. Len(db.tags) = 0 /\ Len(db.links) = 0 /\ docs = {}
  BY DEF Init
<1>4. TablesOK(db) /\ Covered(docs, db) /\ Unique(docs)
  BY <1>2, <1>3 DEF TablesOK, LinksHaveTags, OneTagPerName, OneLinkPerTag, Covered, Unique
<1>5. CallersOK
  BY DEF Init, CallersOK, Caller
<1> QED BY <1>4, <1>5 DEF IndexInv

LEMMA IndexSteps == IndexInv /\ [Next]_vars => IndexInv'
<1> SUFFICES ASSUME IndexInv, [Next]_vars PROVE IndexInv'
  OBVIOUS
<1>1. CASE \E h \in Hash : UpsertFile(h) \/ \E u \in Uuid : PromoteFullHash(u, h)
  BY <1>1, UpsertFileKeeps
<1>2. CASE \E h \in Hash, p \in Path : UpsertLocation(h, p)
  BY <1>2, LocationKeeps
<1>3. CASE \E p, q \in Path : UpdateLocationPath(p, q)
  BY <1>3, RenameKeeps
<1>4. CASE \E h \in Hash, mime \in Mime : UpsertMetadata(h, mime)
  BY <1>4, MetadataKeeps
<1>5. CASE Rebuild
  BY <1>5, RebuildKeeps
<1>6. CASE \E c \in Client :
              \/ \E h \in Hash, name \in Name :
                    attach_tag(c, h, name) \/ run_add(c, h, name) \/ run_rm(c, h, name)
              \/ \E u \in Uuid, name \in Name : attach_tag_by_uuid(c, u, name)
              \/ \E id \in 1..Len(db.tags) :
                    \/ \E h \in Hash : detach_tag(c, h, id)
                    \/ \E u \in Uuid : detach_tag_by_uuid(c, u, id)
  BY <1>6, AsksKeep
<1>7. CASE \E c \in Client : UpsertTag(c) \/ AttachTag(c) \/ DetachTag(c)
  BY <1>7, UpsertTagKeeps, AttachTagKeeps, DetachTagKeeps
<1>8. CASE \E id \in 1..Len(db.tags) : DeleteTag(id)
  BY <1>8, DeleteTagKeeps
<1>9. CASE UNCHANGED vars
  BY <1>9 DEF vars, IndexInv, CallersOK
<1> QED BY <1>1, <1>2, <1>3, <1>4, <1>5, <1>6, <1>7, <1>8, <1>9 DEF Next, Upkeep

LEMMA IndexHolds == Spec => []IndexInv
BY IndexStarts, IndexSteps, PTL DEF Spec

LEMMA FilesStart == Init => OneFile(db)
<1> SUFFICES ASSUME Init PROVE OneFile(db)
  OBVIOUS
<1> DEFINE none == [u \in Uuid |-> NoHash]
<1>1. db = [files |-> none, locs |-> <<>>, meta |-> <<>>, tags |-> <<>>, links |-> <<>>]
  BY DEF Init
<1>2. \A u \in Uuid : none[u] = NoHash
  OBVIOUS
<1> HIDE DEF none
<1>3. db.files = none
  BY <1>1
<1> QED BY <1>2, <1>3 DEF OneFile

LEMMA FilesHold == Spec => []OneFile(db)
<1>1. OneFile(db) /\ IndexInv /\ [Next]_vars => OneFile(db)'
  BY FilesStep
<1> QED BY <1>1, FilesStart, IndexHolds, PTL DEF Spec

LEMMA HitsFromInv == ASSUME IndexInv PROVE HitsAreLive
<1>1. ASSUME NEW hit \in search_impl(db, docs)
      PROVE  Representative(db, hit.uuid) # 0
  <2>1. PICK d \in docs : d.uuid # NoUuid /\ hit.uuid = d.uuid
    BY DEF search_impl
  <2>2. HasLive(db, d.uuid) /\ db \in Tables
    BY <2>1 DEF IndexInv, Covered, TablesOK
  <2> QED BY <2>1, <2>2, RepresentativeIs
<1> QED BY <1>1 DEF HitsAreLive

\* A search finds files that have a location, whatever moved, was renamed or
\* indexed: the triggers delete the row of a file with its last location
\* (crates/db/src/schema), and a rebuild starts from the live locations.
THEOREM HitsStayLive == Spec => []HitsAreLive
BY IndexHolds, HitsFromInv, PTL

\* Two callers between their two commands make neither two live tags of one
\* name nor two live links of one content to one tag, so that a label shows
\* once, `ls --tag` shows the files it shows on, and the count beside a tag is
\* the number of its files (crates/db/src/writer/tag.rs).
THEOREM LabelsShowOnce == Spec => []LabelsOnce
BY IndexHolds, LabelsFromInv, PTL

\* A library that nothing has been recorded in is sound.
LEMMA SoundStarts == Init => Sound
<1> SUFFICES ASSUME Init PROVE Sound
  OBVIOUS
<1>1. Len(db.locs) = 0 /\ Len(db.meta) = 0 /\ Len(db.links) = 0 /\ docs = {} /\ last.ok
  BY DEF Init
<1>2. Recorded(db, db.locs) /\ Recorded(db, db.meta) /\ Recorded(db, db.links)
  BY <1>1 DEF Recorded
<1>3. Held(db, scan, client)
  BY DEF Init, Held
<1>4. Rebuilt(db) = {}
  BY <1>1 DEF Rebuilt
<1> QED BY <1>1, <1>2, <1>3, <1>4 DEF Sound

LEMMA SoundHits == ASSUME IndexInv, Sound PROVE HitsHaveVolume /\ HitsReadable
<1>1. ASSUME NEW d \in docs PROVE d.uuid \in Uuid /\ RepresentativeOfHash(db, d.hash) # 0
  <2>1. PICK i \in 1..Len(db.locs) : /\ i = RepresentativeOfHash(db, db.locs[i].hash)
                                     /\ d.uuid = db.locs[i].uuid /\ d.hash = db.locs[i].hash
    <3> DEFINE M(h) == LET m == First(Where(db.meta, LAMBDA r : r.hash = h))
                       IN  IF m = 0 THEN NoMime ELSE db.meta[m].mime
               T(h) == Names(db, Where(db.links, LAMBDA r : /\ r.live /\ db.tags[r.tag].live
                                                            /\ r.hash = h))
               R(i) == [uuid |-> db.locs[i].uuid, hash |-> db.locs[i].hash,
                        path |-> db.locs[i].path,
                        mime |-> M(db.locs[i].hash), tags |-> T(db.locs[i].hash)]
    <3>1. d \in {R(i) : i \in {j \in 1..Len(db.locs) :
                    db.locs[j].live /\ j = RepresentativeOfHash(db, db.locs[j].hash)}}
      BY <1>1 DEF Sound, Rebuilt
    <3> HIDE DEF M, T
    <3> QED BY <3>1
  <2>2. i # 0
    BY RowsAre DEF IndexInv, TablesOK
  <2> QED BY <2>1, <2>2 DEF Sound, Recorded
<1>2. HitsHaveVolume
  BY <1>1 DEF HitsHaveVolume, search_impl
<1>3. HitsReadable
  BY <1>1, SearchIndexAssumption DEF HitsReadable
<1> QED BY <1>2, <1>3

\* The triggers of crates/db/src/schema and the rebuild of
\* crates/db/src/writer/search.rs make one index, though triggers join on the
\* uuid and the rebuild on the hash: no command sets them apart while uuids and
\* hashes name the same files, a rebuild then succeeds, and only a promotion
\* and a content changed in place can end that.
THEOREM TriggersAreRebuild == Spec => TriggersKeepSync
BY IndexHolds, FilesHold, SyncSteps, PTL DEF Spec, TriggersKeepSync

\* Until the first promotion and the first content changed in place no command
\* of any caller is refused by the UNIQUE of search_content
\* (crates/db/src/writer/file.rs:449), the index is the one a rebuild would
\* make, and each hit can be read and has a volume.
THEOREM UpkeepIsAccepted ==
    Init /\ [][Upkeep]_vars =>
       [](NothingRefused /\ RebuildSucceeds /\ docs = Rebuilt(db) /\ HitsHaveVolume /\ HitsReadable)
<1>1. Upkeep => Next
  BY DEF Next
<1>2. IndexInv /\ [Upkeep]_vars => IndexInv'
  BY <1>1, IndexSteps
<1>3. IndexInv /\ OneFile(db) /\ [Upkeep]_vars => OneFile(db)'
  BY <1>1, FilesStep
<1>4. IndexInv /\ OneFile(db) /\ Sound /\ [Upkeep]_vars => Sound'
  <2>1. UNCHANGED vars /\ Sound => Sound'
    BY DEF vars, Sound, Recorded, Held, Rebuilt, RepresentativeOfHash, Where, Names
  <2> QED BY <2>1, UpkeepSound
<1>5. IndexInv /\ Sound =>
         NothingRefused /\ RebuildSucceeds /\ docs = Rebuilt(db) /\ HitsHaveVolume /\ HitsReadable
  BY SoundHits DEF NothingRefused, RebuildSucceeds, Sound
<1> QED BY <1>2, <1>3, <1>4, <1>5, IndexStarts, FilesStart, SoundStarts, PTL
=============================================================================
