------------------------- MODULE MetadataQueue -------------------------
(***************************************************************************)
(* Metadata extraction behind a scan: the persist loop of                  *)
(* crates/app/src/scan.rs enqueues each file it inserted or updated, the   *)
(* worker of crates/media/src/queue.rs extracts, persists and makes the    *)
(* thumbnail, and the scan drains the queue for a bounded time.  A worker  *)
(* the scan no longer waits for goes on beside the next scan's.            *)
(*                                                                         *)
(* A content stands for its digest, and metadata for the content it was    *)
(* extracted from.  Hashing is one step, at the start of a scan; Library   *)
(* has its detail.                                                         *)
(***************************************************************************)
EXTENDS Integers, Sequences, FiniteSets

CONSTANTS
    File,            \* absolute paths
    Content,         \* their contents, and the digests
    None,            \* no row, no item
    QUEUE_CAPACITY,
    MaxScans, MaxEdits, MaxFailures   \* bounds

Scans == 1..MaxScans
Kind == {"image", "video", "other"}
Work == [scan : Scans, file : File, hash : Content]
Row == [of : Content, mime : Kind, thumb : {"pending", "ready", "failed", "skipped"}]

ASSUME MetadataAssumption ==
    /\ QUEUE_CAPACITY \in Nat \ {0}
    /\ MaxScans \in Nat
    /\ None \notin Content \cup Work \cup Row

VARIABLES
    kind,       \* mime_guess::from_path of each file
    content,    \* what each file holds
    located,    \* the digest of each file's location row
    meta,       \* digest -> row of file_metadata
    image,      \* digests with a .webp under their name
    pc,         \* where the scan is
    scan,       \* number of the latest scan
    results,    \* hashed files it has yet to persist
    item,       \* the file being enqueued
    queue,      \* scan -> its channel
    cancelled,  \* scans whose token was cancelled
    answer,     \* how the latest scan's drain ended
    worker,     \* scan -> its worker: step, work in hand, content extracted
    owed,       \* work of files that were inserted or updated, until it is done
    lost,       \* scans with work that failed, was cancelled or died
    edits, failures

dbVars == <<located, meta, image>>
scanVars == <<pc, scan, results, item, cancelled, answer>>
vars == <<kind, content, dbVars, scanVars, queue, worker, owed, lost, edits, failures>>

Fail == failures < MaxFailures /\ failures' = failures + 1
Alive(s) == worker[s].step \notin {"none", "exited"}
InHand(s) == IF worker[s].work = None THEN {} ELSE {worker[s].work}
Queued(s) == {queue[s][i] : i \in DOMAIN queue[s]}
Receiving(s) == worker[s].step # "exited"
Waiting == [step |-> "recv", work |-> None, read |-> None]
Exited == [step |-> "exited", work |-> None, read |-> None]

\* drop(q) closes the channel.
Closed(s) == s < scan \/ (s = scan /\ pc \in {"drain", "idle"})

\* Work that is given up for good.
Loses(W) ==
    /\ owed' = owed \ W
    /\ lost' = lost \cup {w.scan : w \in W}
-----------------------------------------------------------------------------
\* A file is overwritten.
Overwrite(f, c) ==
    /\ edits < MaxEdits
    /\ content[f] # c
    /\ edits' = edits + 1
    /\ content' = [content EXCEPT ![f] = c]
    /\ UNCHANGED <<kind, dbVars, scanVars, queue, worker, owed, lost, failures>>

\* execute_full with with_metadata: the worker is spawned first.
BeginScan ==
    /\ pc = "idle"
    /\ scan < MaxScans
    /\ pc' = "persist"
    /\ scan' = scan + 1
    /\ results' = {[scan |-> scan', file |-> f, hash |-> content[f]] : f \in File}
    /\ worker' = [worker EXCEPT ![scan'].step = "recv"]
    /\ answer' = "none"
    /\ UNCHANGED <<kind, content, dbVars, item, cancelled, queue, owed, lost, edits, failures>>

\* persist_file answers Inserted or Updated, Unchanged, or an error.
PersistResult(w) ==
    /\ pc = "persist"
    /\ w \in results
    /\ results' = results \ {w}
    /\ \/ /\ located[w.file] = w.hash
          /\ UNCHANGED <<located, pc, item, owed, failures>>
       \/ /\ located[w.file] # w.hash
          /\ located' = [located EXCEPT ![w.file] = w.hash]
          /\ pc' = "enqueue"
          /\ item' = w
          /\ owed' = owed \cup {w}
          /\ UNCHANGED failures
       \/ /\ Fail
          /\ UNCHANGED <<located, pc, item, owed>>
    /\ UNCHANGED <<kind, content, meta, image, scan, cancelled, answer, queue, worker, lost,
                   edits>>

EnqueueKeeps == UNCHANGED <<kind, content, dbVars, scan, results, cancelled, answer, worker,
                            edits, failures>>

\* The error of enqueue is logged.
EnqueueFails ==
    /\ scan \in cancelled \/ ~Receiving(scan)
    /\ Loses({item})
    /\ UNCHANGED queue

\* Mutant: an unbounded channel.
EnqueueUnbounded ==
    /\ pc = "enqueue"
    /\ pc' = "persist"
    /\ item' = None
    /\ \/ EnqueueFails
       \/ /\ queue' = [queue EXCEPT ![scan] = Append(@, item)]
          /\ UNCHANGED <<owed, lost>>
    /\ EnqueueKeeps

\* Mutant: a full channel is taken for success.
EnqueueDropping ==
    /\ pc = "enqueue"
    /\ pc' = "persist"
    /\ item' = None
    /\ \/ EnqueueFails
       \/ /\ queue' = [queue EXCEPT ![scan] =
                         IF Len(@) < QUEUE_CAPACITY THEN Append(@, item) ELSE @]
          /\ UNCHANGED <<owed, lost>>
    /\ EnqueueKeeps

\* Mutant: Closed is polled like Full.
EnqueuePatient ==
    /\ pc = "enqueue"
    /\ pc' = "persist"
    /\ item' = None
    /\ \/ scan \in cancelled /\ EnqueueFails
       \/ /\ scan \notin cancelled /\ Receiving(scan)
          /\ Len(queue[scan]) < QUEUE_CAPACITY
          /\ queue' = [queue EXCEPT ![scan] = Append(@, item)]
          /\ UNCHANGED <<owed, lost>>
    /\ EnqueueKeeps

\* enqueue: polls while the channel is full; a cancelled token or a worker
\* that is gone is an error.
Enqueue ==
    /\ pc = "enqueue"
    /\ pc' = "persist"
    /\ item' = None
    /\ \/ EnqueueFails
       \/ /\ scan \notin cancelled /\ Receiving(scan)
          /\ Len(queue[scan]) < QUEUE_CAPACITY
          /\ queue' = [queue EXCEPT ![scan] = Append(@, item)]
          /\ UNCHANGED <<owed, lost>>
    /\ EnqueueKeeps

DrainKeeps == UNCHANGED <<kind, content, dbVars, scan, results, item, cancelled, queue, worker,
                          owed, lost, edits, failures>>

\* drop(q): with no_wait_metadata the scan returns at once.
DropQueue ==
    /\ pc = "persist"
    /\ results = {}
    /\ \/ pc' = "drain" /\ UNCHANGED answer
       \/ pc' = "idle" /\ answer' = "detached"
    /\ DrainKeeps

\* The worker has ended: its JoinHandle resolves.
Drained ==
    /\ pc = "drain"
    /\ worker[scan].step = "exited"
    /\ pc' = "idle"
    /\ answer' = "drained"
    /\ DrainKeeps

\* METADATA_DRAIN_TIMEOUT: the dropped JoinHandle detaches the worker.
TimeOut ==
    /\ pc = "drain"
    /\ pc' = "idle"
    /\ answer' = "timeout"
    /\ DrainKeeps

\* The caller's token: Ctrl-C in the CLI.
Cancel ==
    /\ pc # "idle"
    /\ scan \notin cancelled
    /\ cancelled' = cancelled \cup {scan}
    /\ UNCHANGED <<kind, content, dbVars, pc, scan, results, item, answer, queue, worker, owed,
                   lost, edits, failures>>

\* The process ends after a scan: a detached worker ends with it.
ProcessEnds ==
    /\ pc = "idle"
    /\ \E s \in Scans : Alive(s)
    /\ worker' = [s \in Scans |-> IF Alive(s) THEN Exited ELSE worker[s]]
    /\ queue' = [s \in Scans |-> <<>>]
    /\ Loses(UNION {Queued(s) \cup InHand(s) : s \in Scans})
    /\ UNCHANGED <<kind, content, dbVars, scanVars, edits, failures>>
-----------------------------------------------------------------------------
WorkerKeeps == UNCHANGED <<kind, content, located, scanVars, edits>>

Goes(s, step) == worker' = [worker EXCEPT ![s].step = step]

\* process returns: the item is done, or given up.
Returns(s) == worker' = [worker EXCEPT ![s] = Waiting]
GiveUp(s) == Returns(s) /\ Loses(InHand(s))

\* The receiver is dropped with what the channel still holds.
Exits(s) ==
    /\ worker' = [worker EXCEPT ![s] = Exited]
    /\ queue' = [queue EXCEPT ![s] = <<>>]
    /\ Loses(Queued(s) \cup InHand(s))

\* rx.recv() yields work.
Recv(s) ==
    /\ worker[s].step = "recv"
    /\ s \notin cancelled
    /\ queue[s] # <<>>
    /\ worker' = [worker EXCEPT ![s] = [step |-> "extract", work |-> Head(queue[s]),
                                        read |-> None]]
    /\ queue' = [queue EXCEPT ![s] = Tail(@)]
    /\ UNCHANGED <<meta, image, owed, lost, failures>>
    /\ WorkerKeeps

\* The biased select: cancellation comes before further work.
StopCancelled(s) ==
    /\ worker[s].step = "recv"
    /\ s \in cancelled
    /\ Exits(s)
    /\ UNCHANGED <<meta, image, failures>>
    /\ WorkerKeeps

\* Mutant: a closed channel ends the worker although it still holds work.
ChannelClosedEarly(s) ==
    /\ worker[s].step = "recv"
    /\ Closed(s)
    /\ worker' = [worker EXCEPT ![s] = Exited]
    /\ queue' = [queue EXCEPT ![s] = <<>>]
    /\ UNCHANGED <<meta, image, owed, lost, failures>>
    /\ WorkerKeeps

\* rx.recv() yields None: every sender is dropped and the channel is empty.
ChannelClosed(s) ==
    /\ worker[s].step = "recv"
    /\ Closed(s)
    /\ queue[s] = <<>>
    /\ Exits(s)
    /\ UNCHANGED <<meta, image, failures>>
    /\ WorkerKeeps

\* extractor.extract reads the file as it is now, fails, or panics.
Extract(s) ==
    /\ worker[s].step = "extract"
    /\ \/ /\ worker' = [worker EXCEPT ![s].step = "upsert",
                                      ![s].read = content[worker[s].work.file]]
          /\ UNCHANGED <<queue, owed, lost, failures>>
       \/ Fail /\ GiveUp(s) /\ UNCHANGED queue
       \/ Fail /\ Exits(s)
    /\ UNCHANGED <<meta, image>>
    /\ WorkerKeeps

\* Mutant: the UPDATE arm writes the thumbnail columns too.
RowClobbered(old, c, mime) == [of |-> c, mime |-> mime, thumb |-> "pending"]

\* The UPDATE arm of upsert_metadata_impl leaves the thumbnail alone.
RowUpdated(old, c, mime) == [of |-> c, mime |-> mime, thumb |-> old.thumb]

\* upsert_metadata_impl: equal device and MIME count as Unchanged.
UpsertedRow(old, c, mime) ==
    IF old = None THEN [of |-> c, mime |-> mime, thumb |-> "pending"]
    ELSE IF old.mime = mime THEN old
    ELSE RowUpdated(old, c, mime)

\* After the metadata, videos are marked and images get a thumbnail.
UpsertMetadata(s) ==
    /\ worker[s].step = "upsert"
    /\ LET w == worker[s].work
           k == kind[w.file]
       IN  \/ /\ meta' = [meta EXCEPT ![w.hash] = UpsertedRow(@, worker[s].read, k)]
              /\ \/ k = "image" /\ Goes(s, "generate")
                 \/ k = "video" /\ Goes(s, "skipped")
                 \/ k = "other" /\ Returns(s)
              /\ owed' = owed \ {w}
              /\ UNCHANGED <<lost, failures>>
           \/ Fail /\ GiveUp(s) /\ UNCHANGED meta
    /\ UNCHANGED <<image, queue>>
    /\ WorkerKeeps

GenerateKeeps == UNCHANGED <<meta, queue, owed, lost>> /\ WorkerKeeps

\* Mutant: the status does not wait for the image.
GenerateLater(s) ==
    /\ worker[s].step = "generate"
    /\ \/ Returns(s) /\ UNCHANGED <<image, failures>>
       \/ Goes(s, "ready") /\ UNCHANGED <<image, failures>>
    /\ GenerateKeeps

\* ThumbnailGenerator::generate: nothing if it is disabled, the file that is
\* there, or a new one.
Generate(s) ==
    /\ worker[s].step = "generate"
    /\ \/ Returns(s) /\ UNCHANGED <<image, failures>>
       \/ /\ image' = image \cup {worker[s].work.hash}
          /\ Goes(s, "ready")
          /\ UNCHANGED failures
       \/ /\ worker[s].work.hash \notin image
          /\ Fail
          /\ Goes(s, "failed")
          /\ UNCHANGED image
    /\ GenerateKeeps

\* update_thumbnail with the status; its error is logged.
UpdateThumbnail(s) ==
    /\ worker[s].step \in {"ready", "failed", "skipped"}
    /\ \/ /\ meta' = [meta EXCEPT ![worker[s].work.hash].thumb = worker[s].step]
          /\ UNCHANGED failures
       \/ Fail /\ UNCHANGED meta
    /\ Returns(s)
    /\ UNCHANGED <<image, queue, owed, lost>>
    /\ WorkerKeeps
-----------------------------------------------------------------------------
Init ==
    /\ kind \in [File -> Kind]
    /\ content \in [File -> Content]
    /\ located = [f \in File |-> None]
    /\ meta = [c \in Content |-> None]
    /\ image = {}
    /\ pc = "idle" /\ scan = 0 /\ results = {} /\ item = None
    /\ cancelled = {} /\ answer = "none"
    /\ queue = [s \in Scans |-> <<>>]
    /\ worker = [s \in Scans |-> [step |-> "none", work |-> None, read |-> None]]
    /\ owed = {} /\ lost = {}
    /\ edits = 0 /\ failures = 0

ScanStep ==
    \/ BeginScan \/ Enqueue \/ DropQueue \/ Drained \/ TimeOut
    \/ \E w \in results : PersistResult(w)

WorkerStep(s) ==
    \/ Recv(s) \/ StopCancelled(s) \/ ChannelClosed(s)
    \/ Extract(s) \/ UpsertMetadata(s) \/ Generate(s) \/ UpdateThumbnail(s)

Next ==
    \/ ScanStep \/ Cancel \/ ProcessEnds
    \/ \E f \in File, c \in Content : Overwrite(f, c)
    \/ \E s \in Scans : WorkerStep(s)

\* The scan's thread runs and its timer fires.
ScanRuns ==
    /\ WF_vars(\E w \in results : PersistResult(w))
    /\ WF_vars(Enqueue)
    /\ WF_vars(DropQueue)
    /\ WF_vars(Drained \/ TimeOut)

Fairness == ScanRuns /\ \A s \in Scans : WF_vars(WorkerStep(s))

Spec == Init /\ [][Next]_vars /\ Fairness

\* An extractor may take for ever; the rest of the worker runs.
StuckSpec ==
    /\ Init /\ [][Next]_vars /\ ScanRuns
    /\ \A s \in Scans : WF_vars(Recv(s) \/ StopCancelled(s) \/ ChannelClosed(s)
                               \/ UpsertMetadata(s) \/ Generate(s) \/ UpdateThumbnail(s))
-----------------------------------------------------------------------------
Steps == {"none", "recv", "extract", "upsert", "generate", "ready", "failed", "skipped", "exited"}

TypeOK ==
    /\ located \in [File -> Content \cup {None}]
    /\ meta \in [Content -> Row \cup {None}]
    /\ pc \in {"idle", "persist", "enqueue", "drain"}
    /\ \A s \in Scans :
          /\ Queued(s) \subseteq Work
          /\ Len(queue[s]) <= QUEUE_CAPACITY
          /\ worker[s].step \in Steps
          /\ InHand(s) \subseteq Work
    /\ owed \subseteq Work /\ lost \subseteq Scans /\ image \subseteq Content
    /\ answer \in {"none", "drained", "timeout", "detached"}

\* The work of every file that was inserted or updated is being enqueued,
\* queued or in a worker's hands until it is done, unless something failed, was
\* cancelled or died: a full queue, a detached worker and an early return of
\* the scan lose nothing.
Accounted ==
    \A w \in owed : w = item \/ \E s \in Scans : w \in Queued(s) \cup InHand(s)

\* A scan that saw its worker end left no work behind: what was enqueued
\* before the sender was dropped is worked off before the worker exits.
DrainedIsDone == answer = "drained" => \A w \in owed : w.scan # scan

\* A thumbnail marked ready exists: the image is written before the status,
\* by whichever of two workers gets there.
ReadyHasImage ==
    \A c \in Content : meta[c] # None /\ meta[c].thumb = "ready" => c \in image

\* UpdateThumbnail is the sole writer of the thumbnail columns: re-extraction
\* never sends a row back to pending.
ThumbnailKept ==
    [][\A c \in Content : meta[c] # None /\ meta[c].thumb # "pending"
                            => meta'[c].thumb # "pending"]_vars

\* A scan returns: no full queue, dead worker or slow drain keeps it.
ScanReturns == pc # "idle" ~> pc = "idle"

\* "metadata extraction failed; will retry on next scan": after a later scan
\* that indexed every file, lost nothing and saw its worker end, every file
\* has its metadata.
RetriedOnNextScan ==
    /\ answer = "drained" /\ scan \notin lost /\ cancelled = {}
    /\ owed = {}
    /\ \A f \in File : located[f] = content[f]
    => \A f \in File : meta[content[f]] # None

\* MediaMetadata::hash: "Content hash of the file this metadata describes".
DescribesHash == \A c \in Content : meta[c] # None => meta[c].of = c

\* upsert_metadata_impl: "accepts occasional false-Updated over
\* false-Unchanged": a row that differs from the new metadata is written.
NoFalseUnchanged ==
    [][\A s \in Scans :
          /\ worker[s].step = "upsert" /\ worker'[s].step \notin {"upsert", "exited"}
          /\ failures' = failures
          => meta'[worker[s].work.hash].of = worker[s].read]_vars
=============================================================================
