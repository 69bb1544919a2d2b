------------------------- MODULE Fingerprints -------------------------
(***************************************************************************)
(* The two background readers of files that are already in the library:    *)
(* the backfill of quick_hash (crates/app/src/backfill.rs) and the full    *)
(* hashes of candidate duplicates, in batches of the desktop shell or one  *)
(* by one (crates/app/src/dedup.rs, crates/cli/src/cmd/hash.rs and         *)
(* dedup.rs).  Both rebuild a path from the tables, read, and write, while *)
(* disks come and go and scans run: see Volumes.                           *)
(*                                                                         *)
(* A Job is one batch, or one sequence of execute_single calls by the      *)
(* command line, which has no token and tells nobody.  What a batch emits  *)
(* is heard by the webview in that order.  A group marked distinct is no   *)
(* longer offered and not modelled: see mark_verified_distinct of          *)
(* FileStore.                                                              *)
(***************************************************************************)
EXTENDS Listings, Sequences

CONSTANTS
    Job, Batch,  \* the jobs, and those that are batches
    EmitEvery,   \* EMIT_EVERY
    DropsComplete \* may the ring drop a VerifyComplete?

ASSUME FingerprintsAssumption ==
    /\ Batch \subseteq Job
    /\ EmitEvery \in Nat \ {0}
    /\ DropsComplete \in BOOLEAN

VARIABLES
    worker, \* the backfill: its step, rows left, row in hand, digest and count
    untold, \* fingerprints filled in without a FilesChanged since
    job,    \* each job: its step, files left, path, digest, counts
    tokens, \* the batches map
    stop,   \* the tokens that are cancelled, the backfill's too
    slot    \* verifyBatch of the webview: the batches it shows, one or none

vars == <<volVars, worker, untold, job, tokens, stop, slot>>

NoPath == [point |-> 0, rel |-> 0]
NoHash == [full |-> FALSE, of |-> NoContent]
NoFile == [hash |-> NoHash, path |-> NoPath]
Backfill == "backfill"
-----------------------------------------------------------------------------
\* The shell lists the rows at startup and spawns the worker if there are any;
\* rows without a path are left for the next start.
spawn_backfill ==
    /\ worker.step = "off"
    /\ worker' = [worker EXCEPT
          !.rows = list_files_needing_backfill,
          !.step = IF list_files_needing_backfill = {} THEN "done" ELSE "next"]
    /\ UNCHANGED <<volVars, untold, job, tokens, stop, slot>>

\* The token is looked at before each row; the rate limit waits between rows.
NextRow ==
    /\ worker.step = "next"
    /\ Backfill \notin stop
    /\ \E r \in worker.rows :
          /\ worker' = [worker EXCEPT !.rows = @ \ {r}, !.row = r, !.step = "read"]
    /\ UNCHANGED <<volVars, untold, job, tokens, stop, slot>>

\* Mutant: nothing is told after the last full group of rows.
told_at_last_never(n) == FALSE

\* Is there something to tell after n rows, and at the end?
told_at(n)      == n > 0 /\ n % EmitEvery = 0
told_at_last(n) == n > 0 /\ n % EmitEvery # 0

\* The file cannot be read: the row is skipped.
SkipRow ==
    /\ worker.step = "read"
    /\ Bytes(worker.row.path) = NoContent
    /\ worker' = [worker EXCEPT !.step = "next", !.row = NoFile]
    /\ untold' = IF told_at(worker.processed) THEN 0 ELSE untold
    /\ UNCHANGED <<volVars, job, tokens, stop, slot>>

ReadRow ==
    /\ worker.step = "read"
    /\ Bytes(worker.row.path) # NoContent
    /\ worker' = [worker EXCEPT !.quick = Bytes(worker.row.path), !.step = "write"]
    /\ UNCHANGED <<volVars, untold, job, tokens, stop, slot>>

\* The upsert by blake3_hash.  Filling in a known row is `Unchanged`, which the
\* writer does not announce; an INSERT it does.
WriteRow ==
    LET h == worker.row.hash
        F == upsert_file_with_quick_hash(files, h, worker.quick)
        n == worker.processed + 1
        u == IF RowsOf(files, h) = {} THEN 0 ELSE IF F # files THEN untold + 1 ELSE untold
    IN  /\ worker.step = "write"
        /\ RowsOf(files, h) # {} \/ Unused(files) # {}
        /\ files' = F
        /\ untold' = IF told_at(n) THEN 0 ELSE u
        /\ worker' = [worker EXCEPT !.processed = n, !.step = "next", !.row = NoFile,
                                    !.quick = NoContent]
        /\ UNCHANGED <<os, volumes, mounts, locs, shell, calls, job, tokens, stop, slot>>

BackfillEnds ==
    /\ worker.step = "next"
    /\ worker.rows = {} \/ Backfill \in stop
    /\ worker' = [worker EXCEPT !.step = "done", !.rows = {}]
    /\ untold' = IF told_at_last(worker.processed) THEN 0 ELSE untold
    /\ UNCHANGED <<volVars, job, tokens, stop, slot>>

\* Ctrl-C, at the command line.
CancelBackfill ==
    /\ Backfill \notin stop
    /\ Call
    /\ stop' = stop \cup {Backfill}
    /\ UNCHANGED <<os, volumes, mounts, files, locs, shell, worker, untold, job, tokens, slot>>
-----------------------------------------------------------------------------
\* The candidate duplicates: the files of one fingerprint.
list_quick_hash_collisions ==
    {G \in SUBSET {u \in Uuid : files[u] # NoRow} :
        /\ Cardinality(G) > 1
        /\ \E c \in Content : G = {u \in Uuid : files[u] # NoRow /\ files[u].quick = c}}

\* What the callers pass: a group, or one file.
Asked == {{u} : u \in {v \in Uuid : files[v] # NoRow}} \cup list_quick_hash_collisions

Ordered(G) == CHOOSE q \in [1..Cardinality(G) -> G] : \A i, j \in DOMAIN q : i # j => q[i] # q[j]

\* A batch: its token is in the map before its task runs.  The buttons of the
\* webview are disabled while the slot shows a batch.
execute_batch(b, G) ==
    /\ job[b].step = "none"
    /\ slot = {}
    /\ Call
    /\ job' = [job EXCEPT ![b].step = "next", ![b].todo = Ordered(G), ![b].total = Cardinality(G)]
    /\ tokens' = tokens \cup {b}
    /\ UNCHANGED <<os, volumes, mounts, files, locs, shell, worker, untold, stop, slot>>

\* `hash --all`, `dedup verify`, or compute_full_hash for one file.
run_verify(j, G) ==
    /\ job[j].step = "none"
    /\ Call
    /\ job' = [job EXCEPT ![j].step = "next", ![j].todo = Ordered(G), ![j].total = Cardinality(G)]
    /\ UNCHANGED <<os, volumes, mounts, files, locs, shell, worker, untold, tokens, stop, slot>>

cancel_batch(b) ==
    /\ b \in tokens
    /\ slot = {b}
    /\ Call
    /\ tokens' = tokens \ {b}
    /\ stop' = stop \cup {b}
    /\ UNCHANGED <<os, volumes, mounts, files, locs, shell, worker, untold, job, slot>>

\* One file is over: VerifyProgress, whatever its outcome.
Progress(j) ==
    /\ job' = [job EXCEPT ![j].step = "next", ![j].todo = Tail(@), ![j].done = @ + 1,
                          ![j].path = NoPath, ![j].hash = NoHash, ![j].calm = FALSE]
    /\ slot' = IF j \in Batch THEN {j} ELSE slot

\* compute_one: the path, none when no volume of the file is mounted ...
Lookup(j) ==
    /\ job[j].step = "next"
    /\ job[j].todo # <<>>
    /\ j \notin stop
    /\ \/ /\ lookup_by_file_uuid(Head(job[j].todo)) = {}
          /\ Progress(j)
       \/ /\ \E p \in lookup_by_file_uuid(Head(job[j].todo)) :
                job' = [job EXCEPT ![j].step = "hash", ![j].path = p, ![j].calm = TRUE]
          /\ UNCHANGED slot
    /\ UNCHANGED <<volVars, worker, untold, tokens, stop>>

\* ... the digest of all its bytes ...
Hash(j) ==
    /\ job[j].step = "hash"
    /\ \/ Bytes(job[j].path) = NoContent /\ Progress(j)
       \/ /\ Bytes(job[j].path) # NoContent
          /\ job' = [job EXCEPT ![j].step = "update",
                                ![j].hash = [full |-> TRUE, of |-> Bytes(job[j].path)]]
          /\ UNCHANGED slot
    /\ UNCHANGED <<volVars, worker, untold, tokens, stop>>

\* ... and the promotion, refused when another row has the digest.
Update(j) ==
    LET u == Head(job[j].todo)
        h == job[j].hash
    IN  /\ job[j].step = "update"
        /\ \/ RowsOf(files, h) \subseteq {u} /\ files' = [files EXCEPT ![u].hash = h] /\ Progress(j)
           \/ ~(RowsOf(files, h) \subseteq {u}) /\ UNCHANGED files /\ Progress(j)
        /\ UNCHANGED <<os, volumes, mounts, locs, shell, calls, worker, untold, tokens, stop>>

\* VerifyComplete, which the webview answers by clearing its slot.
Complete(j) ==
    /\ job[j].step = "next"
    /\ job[j].todo = <<>> \/ j \in stop
    /\ job' = [job EXCEPT ![j].step = IF j \in Batch THEN "told" ELSE "over", ![j].todo = <<>>]
    /\ slot' \in IF j \in Batch THEN {{}} \cup (IF DropsComplete THEN {slot} ELSE {}) ELSE {slot}
    /\ UNCHANGED <<volVars, worker, untold, tokens, stop>>

\* Mutant: the entry of the map stays.
token_after_kept(b) == tokens

token_after(b) == tokens \ {b}

Forget(b) ==
    /\ job[b].step = "told"
    /\ job' = [job EXCEPT ![b].step = "over"]
    /\ tokens' = token_after(b)
    /\ UNCHANGED <<volVars, worker, untold, stop, slot>>

\* A record whose relative path ends the absolute path: of any volume.
find_by_absolute_suffix(rel) == {l \in locs : l.rel = rel}

\* `perima hash <path>`: the bytes of the path, promoted to a record's file.
run_single(path) ==
    LET h == [full |-> TRUE, of |-> Bytes(path)]
    IN  /\ Bytes(path) # NoContent
        /\ Call
        /\ \E l \in find_by_absolute_suffix(path.rel) :
              /\ RowsOf(files, h) \subseteq {l.uuid}
              /\ files' = [files EXCEPT ![l.uuid].hash = h]
        /\ UNCHANGED <<os, volumes, mounts, locs, shell, worker, untold, job, tokens, stop, slot>>

\* A disk moves while a job is between its lookup and its promotion.
Disturbed == job' = [j \in Job |-> [job[j] EXCEPT !.calm = FALSE]]

Init ==
    /\ VolInit
    /\ worker = [step |-> "off", rows |-> {}, row |-> NoFile,
                 quick |-> NoContent, processed |-> 0]
    /\ untold = 0
    /\ job = [j \in Job |-> [step |-> "none", todo |-> <<>>, total |-> 0, done |-> 0,
                             path |-> NoPath, hash |-> NoHash, calm |-> FALSE]]
    /\ tokens = {}
    /\ stop = {}
    /\ slot = {}

JobStep(j) == Lookup(j) \/ Hash(j) \/ Update(j) \/ Complete(j)

WorkerStep == spawn_backfill \/ NextRow \/ SkipRow \/ ReadRow \/ WriteRow \/ BackfillEnds

Next ==
    \/ /\ VolNext
       /\ IF os' # os \/ mounts' # mounts THEN Disturbed ELSE UNCHANGED job
       /\ UNCHANGED <<worker, untold, tokens, stop, slot>>
    \/ WorkerStep \/ CancelBackfill
    \/ \E b \in Batch : (\E G \in Asked : execute_batch(b, G)) \/ cancel_batch(b) \/ Forget(b)
    \/ \E j \in Job \ Batch : \E G \in Asked : run_verify(j, G)
    \/ \E j \in Job : JobStep(j)
    \/ \E path \in [point : Point, rel : Rel] : run_single(path)

\* Spawned tasks are polled until they end.
Fairness ==
    /\ WF_vars(WorkerStep)
    /\ \A j \in Job : WF_vars(JobStep(j))
    /\ \A b \in Batch : WF_vars(Forget(b))

Spec == Init /\ [][Next]_vars /\ Fairness
-----------------------------------------------------------------------------
\* Every batch ends: whatever is unmounted, refused or cancelled meanwhile, its
\* token leaves the map, the webview shows it no more, and unless it was
\* cancelled each of its files was reported.
VerifyEnds ==
    \A b \in Batch :
        job[b].step = "next" ~> /\ job[b].step = "over"
                                /\ b \notin tokens
                                /\ slot # {b}
                                /\ b \in stop \/ job[b].done = job[b].total

\* The backfill leaves no fingerprint unannounced: when it is over, by its end
\* or by Ctrl-C, and whichever rows were skipped, FilesChanged came after the
\* last row it filled.
FillsAnnounced == worker.step = "done" => untold = 0

\* The full hash about to be promoted to a file with one location is of that
\* file: its bytes were read where its disk is, if the disk is where it was
\* last registered and nothing moved since the lookup.  It holds on one machine;
\* the two shells of one computer are two, and neither retires the rows of the
\* other: see MCFingerprintsMachines.cfg.
PromotesOwnBytes ==
    \A j \in Job : job[j].step = "update" /\ job[j].calm =>
        \A l \in {k \in locs : k.uuid = Head(job[j].todo)} :
            \A p \in Point :
                /\ {k \in locs : k.uuid = l.uuid} = {l}
                /\ os[p] # NoDisk
                /\ IdentOf[os[p]] = l.vol
                /\ \E m \in mounts : m.vol = l.vol /\ m.point = p
                => job[j].hash.of = Holds[os[p]][l.rel]

\* "A file may have multiple active locations; we only need one to hash the
\* bytes": the path a job is given is the path of one of them.  It is not, with
\* locations on two volumes: see MCFingerprints.cfg with the disks in place (MCInPlace).
PathIsLocation ==
    \A u \in {v \in Uuid : files[v] # NoRow} :
        \A p \in lookup_by_file_uuid(u) :
            \E l \in locs, m \in mounts : /\ l.uuid = u /\ l.rel = p.rel
                                         /\ m.vol = l.vol /\ m.point = p.point

\* mounts_on_this_machine are "current mount paths".  They are the last known
\* ones; nothing notices that a disk went.
MountedOnly ==
    \A a \in Machine : \A r \in list(a) : \A p \in r.at : os[p] # NoDisk /\ IdentOf[os[p]] = r.vol
=============================================================================
