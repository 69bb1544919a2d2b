---------------------- MODULE MetadataQueueProofs -----------------------
(***************************************************************************)
(* The metadata queue, for any files, contents, capacity and scans: work   *)
(* is accounted for, and the thumbnail columns tell the truth.             *)
(***************************************************************************)
EXTENDS MetadataQueue, TLAPS

Past == {"generate", "ready", "failed", "skipped"}
Busy == {"extract", "upsert"} \cup Past

Job == [step : Steps, work : Work \cup {None}, read : Content \cup {None}]

\* A busy worker has work in hand, what it read once it has extracted, and past
\* the upsert a row; an item waits in enqueue and nowhere else.
TypeInv ==
    /\ content \in [File -> Content] /\ kind \in [File -> Kind]
    /\ meta \in [Content -> Row \cup {None}]
    /\ scan \in Nat /\ (pc # "idle" => scan \in Scans)
    /\ \A s \in Scans : s > scan => worker[s].step = "none"
    /\ results \subseteq Work
    /\ item \in Work \cup {None} /\ (item # None <=> pc = "enqueue")
    /\ queue \in [Scans -> Seq(Work)]
    /\ worker \in [Scans -> Job]
    /\ \A s \in Scans : /\ worker[s].step \in Busy <=> worker[s].work # None
                        /\ worker[s].step = "upsert" => worker[s].read \in Content
                        /\ worker[s].step \in Past => meta[worker[s].work.hash] # None
    /\ owed \subseteq Work

Held(s) == Queued(s) \cup InHand(s)

\* Work is held once its result was persisted, and only then; past the upsert
\* it is no longer owed, and cannot be owed again.
AccountInv ==
    /\ Accounted
    /\ \A s \in Scans : worker[s].step \in Past => worker[s].work \notin owed
    /\ \A w \in results : w # item /\ w.scan <= scan
    /\ \A s \in Scans : \A w \in Held(s) : w \notin results /\ w.scan <= scan
    /\ item # None => item.scan <= scan

\* A worker about to say `ready` has seen or made the image.
ImageInv ==
    /\ ReadyHasImage
    /\ \A s \in Scans : worker[s].step = "ready" => worker[s].work.hash \in image

QueueInv == TypeInv /\ AccountInv /\ ImageInv
-----------------------------------------------------------------------------
(***************************************************************************)
(* What a step of one worker has to keep.                                  *)
(***************************************************************************)
Moves(s, j) == worker' = [worker EXCEPT ![s] = j]

LEMMA Moved ==
    ASSUME TypeInv, NEW s \in Scans, NEW j \in Job, Moves(s, j)
    PROVE  /\ worker' \in [Scans -> Job] /\ worker'[s] = j
           /\ \A t \in Scans : t # s => worker'[t] = worker[t]
BY DEF Moves, TypeInv

LEMMA TypeMoves ==
    ASSUME TypeInv, NEW s \in Scans, NEW j \in Job, Moves(s, j),
           worker[s].step # "none", j.step \in Busy <=> j.work # None,
           j.step = "upsert" => j.read \in Content,
           j.step \in Past => meta'[j.work.hash] # None,
           queue' \in [Scans -> Seq(Work)], owed' \subseteq owed,
           meta' \in [Content -> Row \cup {None}],
           \A c \in Content : meta[c] # None => meta'[c] # None,
           UNCHANGED <<kind, content, scan, pc, results, item>>
    PROVE  TypeInv'
<1>1. \A t \in Scans : worker[t].step \in Past => worker[t].work.hash \in Content
  <2> SUFFICES ASSUME NEW t \in Scans, worker[t].step \in Past PROVE worker[t].work.hash \in Content
    OBVIOUS
  <2>1. worker[t] \in Job /\ worker[t].work # None
    BY DEF TypeInv, Busy
  <2>2. worker[t].work \in Work
    BY <2>1 DEF Job
  <2> QED BY <2>2 DEF Work
<1>2. ASSUME NEW t \in Scans
      PROVE  /\ worker'[t].step \in Busy <=> worker'[t].work # None
             /\ worker'[t].step = "upsert" => worker'[t].read \in Content
             /\ worker'[t].step \in Past => meta'[worker'[t].work.hash] # None
  <2>1. CASE t = s
    BY <2>1, Moved
  <2>2. CASE t # s
    <3>1. worker'[t] = worker[t]
      BY <2>2, Moved
    <3>2. /\ worker[t].step \in Busy <=> worker[t].work # None
          /\ worker[t].step = "upsert" => worker[t].read \in Content
          /\ worker[t].step \in Past => meta[worker[t].work.hash] # None
      BY DEF TypeInv
    <3> QED BY <1>1, <3>1, <3>2
  <2> QED BY <2>1, <2>2
<1>3. worker' \in [Scans -> Job]
  BY Moved
<1>4. \A t \in Scans : t > scan => worker'[t].step = "none"
  BY Moved DEF TypeInv
<1> QED BY <1>2, <1>3, <1>4 DEF TypeInv

LEMMA AccountMoves ==
    ASSUME TypeInv, AccountInv, NEW s \in Scans, NEW j \in Job, Moves(s, j),
           owed' \subseteq owed,
           \A t \in Scans : t # s => queue'[t] = queue[t],
           Held(s)' \subseteq Held(s),
           \A w \in owed' : w \in Held(s) => w \in Held(s)',
           j.step \in Past => j.work \notin owed',
           UNCHANGED <<scan, results, item>>
    PROVE  AccountInv'
<1>1. \A t \in Scans : t # s => Held(t)' = Held(t)
  BY Moved DEF Held, Queued, InHand
<1>2. Accounted'
  BY <1>1 DEF AccountInv, Accounted, Held
<1>3. \A t \in Scans : worker'[t].step \in Past => worker'[t].work \notin owed'
  BY Moved DEF AccountInv
<1>4. \A t \in Scans : Held(t)' \subseteq Held(t)
  BY <1>1
<1> QED BY <1>2, <1>3, <1>4 DEF AccountInv

LEMMA ImageMoves ==
    ASSUME TypeInv, ImageInv, NEW s \in Scans, NEW j \in Job, Moves(s, j),
           image \subseteq image',
           j.step = "ready" => j.work.hash \in image',
           \A c \in Content : meta'[c] # None /\ meta'[c].thumb = "ready" => c \in image'
    PROVE  ImageInv'
BY Moved DEF ImageInv, ReadyHasImage

\* The worker goes on with the work it has.
LEMMA GoesMoves ==
    ASSUME TypeInv, NEW s \in Scans, NEW step \in Steps, Goes(s, step)
    PROVE  \E j \in Job : Moves(s, j) /\ j.step = step /\ j.work = worker[s].work
<1> DEFINE j == [worker[s] EXCEPT !.step = step]
<1>1. j \in Job /\ j.step = step /\ j.work = worker[s].work
  BY DEF TypeInv, Job
<1>2. Moves(s, j)
  BY DEF Moves, Goes, TypeInv
<1> QED BY <1>1, <1>2

LEMMA Rest ==
    /\ Waiting \in Job /\ Waiting.step = "recv" /\ Waiting.work = None
    /\ Exited \in Job /\ Exited.step = "exited" /\ Exited.work = None
    /\ "recv" \notin Busy /\ "exited" \notin Busy /\ "none" \notin Busy
    /\ Past \subseteq Busy /\ Busy \subseteq Steps
BY DEF Waiting, Exited, Job, Steps, Busy, Past

\* A worker that returns or exits lets go of what it had, which is no longer owed.
LEMMA LetsGo ==
    ASSUME QueueInv, NEW s \in Scans, NEW j \in {Waiting, Exited}, Moves(s, j),
           worker[s].step # "none",
           \A w \in owed' : w \in owed /\ w \notin InHand(s),
           \/ queue' = queue
           \/ queue' = [queue EXCEPT ![s] = <<>>] /\ \A w \in owed' : w \notin Queued(s),
           meta' \in [Content -> Row \cup {None}],
           \A c \in Content : meta[c] # None => meta'[c] # None,
           \A c \in Content : meta'[c] # None /\ meta'[c].thumb = "ready" => c \in image,
           UNCHANGED <<kind, content, scan, pc, results, item, image>>
    PROVE  QueueInv'
<1>1. /\ j \in Job /\ j.work = None /\ j.step \notin Busy /\ j.step \notin Past
      /\ j.step # "ready" /\ j.step # "upsert"
  BY Rest DEF Past
<1>2. queue' \in [Scans -> Seq(Work)] /\ \A t \in Scans : t # s => queue'[t] = queue[t]
  <2>1. queue \in [Scans -> Seq(Work)] /\ <<>> \in Seq(Work)
    BY DEF QueueInv, TypeInv
  <2> QED BY <2>1
<1>3. worker'[s].work = None
  BY <1>1, Moved DEF QueueInv
<1>4. InHand(s)' = {}
  BY <1>3 DEF InHand
<1>5. \/ Queued(s)' = Queued(s)
      \/ Queued(s)' = {} /\ \A w \in owed' : w \notin Queued(s)
  <2>1. CASE queue' = queue
    <3>1. Queued(s)' = Queued(s)
      BY <2>1 DEF Queued
    <3> QED BY <3>1
  <2>2. CASE queue' = [queue EXCEPT ![s] = <<>>] /\ \A w \in owed' : w \notin Queued(s)
    <3>1. queue'[s] = <<>>
      BY <2>2 DEF QueueInv, TypeInv
    <3>2. Queued(s)' = {}
      BY <3>1 DEF Queued
    <3> QED BY <2>2, <3>2
  <2> QED BY <2>1, <2>2
<1>6. Held(s)' \subseteq Held(s) /\ \A w \in owed' : w \in Held(s) => w \in Held(s)'
  BY <1>4, <1>5 DEF Held
<1>7. TypeInv'
  BY <1>1, <1>2, TypeMoves DEF QueueInv
<1>8. AccountInv'
  BY <1>1, <1>2, <1>6, AccountMoves DEF QueueInv
<1>9. ImageInv'
  BY <1>1, ImageMoves DEF QueueInv
<1> QED BY <1>7, <1>8, <1>9 DEF QueueInv
\* A busy worker that goes on keeps its work; what it owes it has settled before.
LEMMA GoesOn ==
    ASSUME QueueInv, NEW s \in Scans, NEW j \in Job, Moves(s, j),
           worker[s].step \in Busy, j.step \in Busy, j.work = worker[s].work,
           owed' \subseteq owed, queue' = queue,
           j.step = "upsert" => j.read \in Content,
           j.step \in Past => worker[s].work \notin owed' /\ meta'[j.work.hash] # None,
           meta' \in [Content -> Row \cup {None}],
           \A c \in Content : meta[c] # None => meta'[c] # None,
           image \subseteq image', j.step = "ready" => j.work.hash \in image',
           \A c \in Content : meta'[c] # None /\ meta'[c].thumb = "ready" => c \in image',
           UNCHANGED <<kind, content, scan, pc, results, item>>
    PROVE  QueueInv'
<1>1. worker[s].work # None
  BY DEF QueueInv, TypeInv
<1>2. worker'[s] = j
  BY Moved DEF QueueInv
<1>3. UNCHANGED <<Queued(s), InHand(s)>>
  BY <1>1, <1>2 DEF Queued, InHand
<1>4. Held(s)' = Held(s)
  BY <1>3 DEF Held
<1>5. queue' \in [Scans -> Seq(Work)]
  BY DEF QueueInv, TypeInv
<1>6. TypeInv'
  BY <1>1, <1>5, Rest, TypeMoves DEF QueueInv
<1>7. AccountInv'
  BY <1>4, AccountMoves DEF QueueInv
<1>8. ImageInv'
  BY ImageMoves DEF QueueInv
<1> QED BY <1>6, <1>7, <1>8 DEF QueueInv

LEMMA WorkInHand ==
    ASSUME QueueInv, NEW s \in Scans, worker[s].step \in Busy
    PROVE  /\ worker[s].work \in Work /\ worker[s].work.hash \in Content
           /\ worker[s].work.file \in File /\ worker[s].work # None
           /\ InHand(s) = {worker[s].work}
<1>1. worker[s] \in Job /\ worker[s].work # None
  BY DEF QueueInv, TypeInv
<1>2. worker[s].work \in Work
  BY <1>1 DEF Job
<1> QED BY <1>1, <1>2 DEF Work, InHand

LEMMA RowsStay ==
    ASSUME QueueInv, UNCHANGED meta
    PROVE  /\ meta' \in [Content -> Row \cup {None}]
           /\ \A c \in Content : meta[c] # None => meta'[c] # None
           /\ \A c \in Content : meta'[c] # None /\ meta'[c].thumb = "ready" => c \in image
BY DEF QueueInv, TypeInv, ImageInv, ReadyHasImage

LEMMA RecvInv == ASSUME QueueInv, NEW s \in Scans, Recv(s) PROVE QueueInv'
<1> DEFINE h == Head(queue[s])
           j == [step |-> "extract", work |-> h, read |-> None]
<1>1. /\ worker[s].step = "recv" /\ queue[s] # <<>> /\ Moves(s, j)
      /\ queue' = [queue EXCEPT ![s] = Tail(queue[s])]
      /\ UNCHANGED <<kind, content, scan, pc, results, item, meta, image, owed>>
  BY DEF Recv, Moves, WorkerKeeps, scanVars
<1>2. queue \in [Scans -> Seq(Work)] /\ queue[s] \in Seq(Work)
  BY DEF QueueInv, TypeInv
<1>3. /\ h \in Work /\ Tail(queue[s]) \in Seq(Work) /\ h = queue[s][1] /\ 1 \in DOMAIN queue[s]
      /\ \A i \in DOMAIN Tail(queue[s]) : i + 1 \in DOMAIN queue[s] /\ Tail(queue[s])[i] = queue[s][i + 1]
      /\ \A i \in DOMAIN queue[s] : i = 1 \/ (i - 1 \in DOMAIN Tail(queue[s]) /\ Tail(queue[s])[i - 1] = queue[s][i])
  BY <1>1, <1>2
<1>4. /\ queue' \in [Scans -> Seq(Work)] /\ queue'[s] = Tail(queue[s])
      /\ \A t \in Scans : t # s => queue'[t] = queue[t]
  BY <1>1, <1>2, <1>3
<1>5. Queued(s) = Queued(s)' \cup {h}
  <2>1. \A w \in Queued(s)' : w \in Queued(s)
    BY <1>3, <1>4 DEF Queued
  <2>2. ASSUME NEW w \in Queued(s) PROVE w = h \/ w \in Queued(s)'
    <3>1. PICK i \in DOMAIN queue[s] : w = queue[s][i]
      BY DEF Queued
    <3>2. CASE i = 1
      BY <1>3, <3>1, <3>2
    <3>3. CASE i - 1 \in DOMAIN Tail(queue[s]) /\ Tail(queue[s])[i - 1] = queue[s][i]
      BY <1>4, <3>1, <3>3 DEF Queued
    <3> QED BY <1>3, <3>2, <3>3
  <2>3. h \in Queued(s)
    BY <1>3 DEF Queued
  <2> QED BY <2>1, <2>2, <2>3
<1>6. h # None
  BY <1>3, MetadataAssumption
<1>7. j \in Job /\ j.step = "extract" /\ j.work = h
  BY <1>3 DEF Job, Steps
<1>8. "extract" \in Busy /\ "extract" \notin Past /\ "extract" # "upsert"
  BY DEF Busy, Past
<1> HIDE DEF h, j
<1>9. worker'[s] = j /\ worker[s].work = None
  BY <1>1, <1>7, Moved DEF QueueInv, TypeInv, Busy, Past
<1>10. InHand(s)' = {h} /\ InHand(s) = {}
  BY <1>6, <1>7, <1>9 DEF InHand
<1>11. Held(s)' = Held(s)
  BY <1>5, <1>10 DEF Held
<1>12. TypeInv'
  BY <1>1, <1>4, <1>6, <1>7, <1>8, RowsStay, TypeMoves DEF QueueInv
<1>13. AccountInv'
  BY <1>1, <1>4, <1>7, <1>8, <1>11, AccountMoves DEF QueueInv
<1>14. ImageInv'
  BY <1>1, <1>7, RowsStay, ImageMoves DEF QueueInv
<1> QED BY <1>12, <1>13, <1>14 DEF QueueInv

\* Exits and GiveUp, whatever else the step does.
LEMMA ExitsInv ==
    ASSUME QueueInv, NEW s \in Scans, worker[s].step # "none", Exits(s), UNCHANGED <<meta, image>>, WorkerKeeps
    PROVE  QueueInv'
<1>1. /\ Moves(s, Exited) /\ queue' = [queue EXCEPT ![s] = <<>>]
      /\ owed' = owed \ (Queued(s) \cup InHand(s))
      /\ UNCHANGED <<kind, content, scan, pc, results, item>>
  BY DEF Exits, Loses, Moves, WorkerKeeps, scanVars
<1> QED BY <1>1, RowsStay, LetsGo

LEMMA GiveUpInv ==
    ASSUME QueueInv, NEW s \in Scans, worker[s].step # "none", GiveUp(s), UNCHANGED <<meta, image, queue>>, WorkerKeeps
    PROVE  QueueInv'
<1>1. /\ Moves(s, Waiting) /\ owed' = owed \ InHand(s)
      /\ UNCHANGED <<kind, content, scan, pc, results, item>>
  BY DEF GiveUp, Returns, Loses, Moves, WorkerKeeps, scanVars
<1> QED BY <1>1, RowsStay, LetsGo

LEMMA ExtractInv == ASSUME QueueInv, NEW s \in Scans, Extract(s) PROVE QueueInv'
<1>1. CASE GiveUp(s) /\ UNCHANGED queue
  BY <1>1, GiveUpInv DEF Extract
<1>2. CASE Exits(s)
  BY <1>2, ExitsInv DEF Extract
<1>3. CASE /\ worker' = [worker EXCEPT ![s].step = "upsert", ![s].read = content[worker[s].work.file]]
           /\ UNCHANGED <<queue, owed>>
  <2> DEFINE c == content[worker[s].work.file]
             j == [worker[s] EXCEPT !.step = "upsert", !.read = c]
  <2>1. /\ worker[s].step = "extract" /\ worker[s].step \in Busy
        /\ UNCHANGED <<kind, content, scan, pc, results, item, meta, image>>
    BY DEF Extract, WorkerKeeps, scanVars, Busy
  <2>2. c \in Content
    BY <2>1, WorkInHand DEF QueueInv, TypeInv
  <2> HIDE DEF c
  <2>3. worker \in [Scans -> Job] /\ worker[s] \in Job
    BY DEF QueueInv, TypeInv
  <2>4. j \in Job /\ j.step = "upsert" /\ j.work = worker[s].work /\ j.read = c
    BY <2>2, <2>3 DEF Job, Steps
  <2>5. Moves(s, j)
    BY <1>3, <2>3 DEF Moves, c
  <2>6. j.step \in Busy /\ j.step \notin Past /\ j.step # "ready"
    BY <2>4 DEF Busy, Past
  <2> HIDE DEF j
  <2> QED BY <1>3, <2>1, <2>2, <2>4, <2>5, <2>6, RowsStay, GoesOn
<1> QED BY <1>1, <1>2, <1>3 DEF Extract
\* What the UPDATE arm and update_thumbnail leave of a row.
LEMMA RowOfUpsert ==
    ASSUME NEW old \in Row \cup {None}, NEW c \in Content, NEW mime \in Kind
    PROVE  /\ UpsertedRow(old, c, mime) \in Row /\ UpsertedRow(old, c, mime) # None
           /\ old # None => UpsertedRow(old, c, mime).thumb = old.thumb
           /\ old = None => UpsertedRow(old, c, mime).thumb = "pending"
<1>1. \A r \in Row : r # None
  BY MetadataAssumption
<1>2. CASE old = None
  <2>1. /\ [of |-> c, mime |-> mime, thumb |-> "pending"] \in Row
        /\ UpsertedRow(old, c, mime) = [of |-> c, mime |-> mime, thumb |-> "pending"]
    BY <1>2 DEF UpsertedRow, Row
  <2> QED BY <1>1, <1>2, <2>1
<1>3. CASE old # None
  <2>1. old \in Row /\ old.thumb \in {"pending", "ready", "failed", "skipped"}
    BY <1>3 DEF Row
  <2>2. RowUpdated(old, c, mime) \in Row /\ RowUpdated(old, c, mime).thumb = old.thumb
    BY <2>1 DEF RowUpdated, Row
  <2>3. UpsertedRow(old, c, mime) \in {old, RowUpdated(old, c, mime)}
    BY <1>3 DEF UpsertedRow
  <2> QED BY <1>1, <1>3, <2>1, <2>2, <2>3
<1> QED BY <1>2, <1>3

LEMMA UpsertRows ==
    ASSUME QueueInv, NEW s \in Scans, worker[s].step = "upsert",
           meta' = [meta EXCEPT ![worker[s].work.hash] =
                      UpsertedRow(@, worker[s].read, kind[worker[s].work.file])]
    PROVE  /\ meta' \in [Content -> Row \cup {None}]
           /\ meta'[worker[s].work.hash] # None
           /\ \A c \in Content : meta[c] # None => meta'[c] # None /\ meta'[c].thumb = meta[c].thumb
           /\ \A c \in Content : meta'[c] # None /\ meta'[c].thumb = "ready" => c \in image
<1> DEFINE h == worker[s].work.hash
           row == UpsertedRow(meta[h], worker[s].read, kind[worker[s].work.file])
<1>1. h \in Content /\ worker[s].work.file \in File
  BY WorkInHand DEF Busy
<1>2. /\ meta \in [Content -> Row \cup {None}] /\ kind[worker[s].work.file] \in Kind
      /\ worker[s].read \in Content
  BY <1>1 DEF QueueInv, TypeInv
<1>3. /\ row \in Row /\ row # None
      /\ meta[h] # None => row.thumb = meta[h].thumb
      /\ meta[h] = None => row.thumb = "pending"
  BY <1>1, <1>2, RowOfUpsert
<1> HIDE DEF row
<1>4. meta' = [meta EXCEPT ![h] = row]
  BY DEF row
<1>5. /\ meta' \in [Content -> Row \cup {None}] /\ meta'[h] = row
      /\ \A c \in Content : c # h => meta'[c] = meta[c]
  BY <1>1, <1>2, <1>3, <1>4
<1>6. \A c \in Content : meta[c] # None => meta'[c] # None /\ meta'[c].thumb = meta[c].thumb
  BY <1>3, <1>5
<1>7. \A c \in Content : meta'[c] # None /\ meta'[c].thumb = "ready" => c \in image
  <2> SUFFICES ASSUME NEW c \in Content, meta'[c] # None, meta'[c].thumb = "ready" PROVE c \in image
    OBVIOUS
  <2>1. meta[c] # None /\ meta[c].thumb = "ready"
    BY <1>3, <1>5
  <2> QED BY <2>1 DEF QueueInv, ImageInv, ReadyHasImage
<1> QED BY <1>3, <1>5, <1>6, <1>7

LEMMA UpsertInv == ASSUME QueueInv, NEW s \in Scans, UpsertMetadata(s) PROVE QueueInv'
<1> DEFINE w == worker[s].work
<1>1. /\ worker[s].step = "upsert" /\ worker[s].step \in Busy
      /\ UNCHANGED <<kind, content, scan, pc, results, item, image, queue>>
  BY DEF UpsertMetadata, WorkerKeeps, scanVars, Busy
<1>2. CASE GiveUp(s) /\ UNCHANGED meta
  BY <1>2, GiveUpInv DEF UpsertMetadata
<1>3. CASE /\ meta' = [meta EXCEPT ![w.hash] = UpsertedRow(@, worker[s].read, kind[w.file])]
           /\ owed' = owed \ {w}
           /\ (\E step \in {"generate", "skipped"} : Goes(s, step)) \/ Returns(s)
  <2>1. /\ meta' \in [Content -> Row \cup {None}] /\ meta'[w.hash] # None
        /\ \A c \in Content : meta[c] # None => meta'[c] # None
        /\ \A c \in Content : meta'[c] # None /\ meta'[c].thumb = "ready" => c \in image
    BY <1>1, <1>3, UpsertRows
  <2>2. InHand(s) = {w}
    BY <1>1, WorkInHand
  <2>3. CASE Returns(s)
    <3>1. Moves(s, Waiting)
      BY <2>3 DEF Returns, Moves
    <3> QED BY <1>1, <1>3, <2>1, <2>2, <3>1, LetsGo
  <2>4. ASSUME NEW step \in {"generate", "skipped"}, Goes(s, step) PROVE QueueInv'
    <3>1. step \in Steps /\ step \in Past /\ step \in Busy /\ step # "ready" /\ step # "upsert"
      BY DEF Steps, Past, Busy
    <3>2. PICK j \in Job : Moves(s, j) /\ j.step = step /\ j.work = w
      BY <2>4, <3>1, GoesMoves DEF QueueInv
    <3> QED BY <1>1, <1>3, <2>1, <3>1, <3>2, GoesOn
  <2> QED BY <1>3, <2>3, <2>4
<1> QED BY <1>2, <1>3 DEF UpsertMetadata

LEMMA GenerateInv == ASSUME QueueInv, NEW s \in Scans, Generate(s) PROVE QueueInv'
<1>1. /\ worker[s].step = "generate" /\ worker[s].step \in Past /\ worker[s].step \in Busy
      /\ UNCHANGED <<kind, content, scan, pc, results, item, meta, queue, owed>>
  BY DEF Generate, GenerateKeeps, WorkerKeeps, scanVars, Past, Busy
<1>2. /\ InHand(s) = {worker[s].work} /\ worker[s].work \notin owed
      /\ worker[s].work.hash \in Content /\ meta[worker[s].work.hash] # None
  BY <1>1, WorkInHand DEF QueueInv, AccountInv, TypeInv
<1>3. CASE Returns(s) /\ UNCHANGED image
  <2>1. Moves(s, Waiting)
    BY <1>3 DEF Returns, Moves
  <2> QED BY <1>1, <1>2, <1>3, <2>1, RowsStay, LetsGo
<1>4. ASSUME NEW step \in {"ready", "failed"}, Goes(s, step), image \subseteq image',
             step = "ready" => worker[s].work.hash \in image'
      PROVE  QueueInv'
  <2>1. step \in Steps /\ step \in Past /\ step \in Busy /\ step # "upsert"
    BY DEF Steps, Past, Busy
  <2>2. PICK j \in Job : Moves(s, j) /\ j.step = step /\ j.work = worker[s].work
    BY <1>4, <2>1, GoesMoves DEF QueueInv
  <2>3. \A c \in Content : meta'[c] # None /\ meta'[c].thumb = "ready" => c \in image'
    BY <1>1, <1>4, RowsStay
  <2> QED BY <1>1, <1>2, <1>4, <2>1, <2>2, <2>3, RowsStay, GoesOn
<1> QED BY <1>3, <1>4 DEF Generate

LEMMA ThumbRows ==
    ASSUME QueueInv, NEW s \in Scans, worker[s].step \in {"ready", "failed", "skipped"},
           meta' = [meta EXCEPT ![worker[s].work.hash].thumb = worker[s].step]
    PROVE  /\ meta' \in [Content -> Row \cup {None}]
           /\ \A c \in Content : meta[c] # None =>
                 meta'[c] # None /\ meta'[c].thumb \in {meta[c].thumb, "ready", "failed", "skipped"}
           /\ \A c \in Content : meta'[c] # None /\ meta'[c].thumb = "ready" => c \in image
<1> DEFINE h == worker[s].work.hash
           row == [meta[h] EXCEPT !.thumb = worker[s].step]
<1>1. h \in Content /\ meta[h] # None /\ meta \in [Content -> Row \cup {None}]
  <2>1. worker[s].step \in Past /\ worker[s].step \in Busy
    BY DEF Past, Busy
  <2> QED BY <2>1, WorkInHand DEF QueueInv, TypeInv
<1>2. meta[h] \in Row
  BY <1>1
<1>3. row \in Row /\ row.thumb = worker[s].step
  BY <1>2 DEF Row
<1>4. row # None
  BY <1>3, MetadataAssumption
<1>5. meta' = [meta EXCEPT ![h] = row]
  BY <1>1
<1> HIDE DEF row
<1>6. /\ meta' \in [Content -> Row \cup {None}] /\ meta'[h] = row
      /\ \A c \in Content : c # h => meta'[c] = meta[c]
  BY <1>1, <1>3, <1>5
<1>7. worker[s].step = "ready" => h \in image
  BY DEF QueueInv, ImageInv
<1>8. \A c \in Content : meta[c] # None =>
         meta'[c] # None /\ meta'[c].thumb \in {meta[c].thumb, "ready", "failed", "skipped"}
  BY <1>3, <1>4, <1>6
<1>9. \A c \in Content : meta'[c] # None /\ meta'[c].thumb = "ready" => c \in image
  BY <1>3, <1>6, <1>7 DEF QueueInv, ImageInv, ReadyHasImage
<1> QED BY <1>6, <1>8, <1>9

LEMMA UpdateThumbnailInv == ASSUME QueueInv, NEW s \in Scans, UpdateThumbnail(s) PROVE QueueInv'
<1>1. /\ worker[s].step \in {"ready", "failed", "skipped"}
      /\ worker[s].step \in Past /\ worker[s].step \in Busy /\ Moves(s, Waiting)
      /\ UNCHANGED <<kind, content, scan, pc, results, item, image, queue, owed>>
  BY DEF UpdateThumbnail, WorkerKeeps, scanVars, Past, Busy, Returns, Moves
<1>2. InHand(s) = {worker[s].work} /\ worker[s].work \notin owed
  BY <1>1, WorkInHand DEF QueueInv, AccountInv
<1>3. /\ meta' \in [Content -> Row \cup {None}]
      /\ \A c \in Content : meta[c] # None => meta'[c] # None
      /\ \A c \in Content : meta'[c] # None /\ meta'[c].thumb = "ready" => c \in image
  BY <1>1, ThumbRows, RowsStay DEF UpdateThumbnail
<1> QED BY <1>1, <1>2, <1>3, LetsGo
LEMMA WorkerInv == ASSUME QueueInv, NEW s \in Scans, WorkerStep(s) PROVE QueueInv'
<1>1. CASE StopCancelled(s) \/ ChannelClosed(s)
  BY <1>1, ExitsInv DEF StopCancelled, ChannelClosed
<1> QED BY <1>1, RecvInv, ExtractInv, UpsertInv, GenerateInv, UpdateThumbnailInv DEF WorkerStep
-----------------------------------------------------------------------------
(***************************************************************************)
(* The scan, its callers, and the end of the process.                      *)
(***************************************************************************)
LEMMA HeldIsWork == ASSUME QueueInv, NEW s \in Scans PROVE Held(s) \subseteq Work
<1>1. queue[s] \in Seq(Work) /\ worker[s].work \in Work \cup {None}
  BY DEF QueueInv, TypeInv, Job
<1> QED BY <1>1 DEF Held, Queued, InHand

LEMMA ScansAreNumbers == \A w \in Work : w.scan \in Nat
BY MetadataAssumption DEF Work, Scans

\* Neither what is held nor the tables change; a worker may be spawned.
LEMMA ScanMoves ==
    ASSUME QueueInv, UNCHANGED <<kind, meta, image, queue>>,
           content' \in [File -> Content], worker' \in [Scans -> Job],
           \A s \in Scans : \/ worker'[s] = worker[s]
                            \/ /\ worker[s].step = "none" /\ s <= scan'
                               /\ worker'[s].step = "recv" /\ worker'[s].work = None,
           scan' \in Nat, scan <= scan', pc' # "idle" => scan' \in Scans,
           item' \in Work \cup {None}, item' # None <=> pc' = "enqueue",
           item' # None => item'.scan <= scan',
           results' \subseteq Work, owed' \subseteq Work,
           \A w \in results' : w # item' /\ w.scan <= scan' /\ \A s \in Scans : w \notin Held(s),
           \A s \in Scans : worker[s].step \in Past => worker[s].work \notin owed',
           \A w \in owed' : w = item' \/ \E s \in Scans : w \in Held(s)
    PROVE  QueueInv'
<1>1. ASSUME NEW s \in Scans, worker'[s] # worker[s]
      PROVE  /\ worker[s].step = "none" /\ worker[s].work = None /\ s <= scan'
             /\ worker'[s].step = "recv" /\ worker'[s].work = None
  BY <1>1, Rest DEF QueueInv, TypeInv
<1>2. \A s \in Scans : Held(s)' = Held(s)
  <2> SUFFICES ASSUME NEW s \in Scans PROVE Held(s)' = Held(s)
    OBVIOUS
  <2>1. worker'[s].work = worker[s].work
    BY <1>1
  <2> QED BY <2>1 DEF Held, Queued, InHand
<1>3. ASSUME NEW s \in Scans
      PROVE  /\ s > scan' => worker'[s].step = "none"
             /\ worker'[s].step \in Busy <=> worker'[s].work # None
             /\ worker'[s].step = "upsert" => worker'[s].read \in Content
             /\ worker'[s].step \in Past => /\ meta'[worker'[s].work.hash] # None
                                            /\ worker'[s].work \notin owed'
             /\ worker'[s].step = "ready" => worker'[s].work.hash \in image'
  <2>1. s \in Int /\ scan \in Int
    BY MetadataAssumption DEF Scans, QueueInv, TypeInv
  <2>2. CASE worker'[s] = worker[s]
    BY <2>1, <2>2 DEF QueueInv, TypeInv, ImageInv
  <2>3. CASE worker'[s] # worker[s]
    <3>1. worker'[s].step \notin Past /\ worker'[s].step # "upsert" /\ worker'[s].step # "ready"
      BY <1>1, <2>3, Rest
    <3> QED BY <1>1, <2>1, <2>3, <3>1, Rest
  <2> QED BY <2>2, <2>3
<1>4. TypeInv'
  BY <1>3 DEF QueueInv, TypeInv
<1>5. \A s \in Scans : \A w \in Held(s)' : w \notin results' /\ w.scan <= scan'
  <2> SUFFICES ASSUME NEW s \in Scans, NEW w \in Held(s) PROVE w \notin results' /\ w.scan <= scan'
    BY <1>2
  <2>1. w.scan <= scan /\ w.scan \in Nat /\ scan \in Nat
    BY HeldIsWork, ScansAreNumbers DEF QueueInv, AccountInv, TypeInv
  <2> QED BY <2>1
<1>6. Accounted'
  BY <1>2 DEF Accounted, Held
<1>7. AccountInv'
  BY <1>3, <1>5, <1>6 DEF AccountInv
<1>8. ImageInv'
  BY <1>3 DEF QueueInv, ImageInv, ReadyHasImage
<1> QED BY <1>4, <1>7, <1>8 DEF QueueInv

\* What ScanMoves asks of a step that leaves the workers and the work alone.
LEMMA Resting ==
    ASSUME QueueInv
    PROVE  /\ content \in [File -> Content] /\ worker \in [Scans -> Job]
           /\ scan \in Nat /\ scan <= scan /\ results \subseteq Work /\ owed \subseteq Work
           /\ \A w \in results : /\ w # item /\ w.scan <= scan
                                 /\ \A s \in Scans : w \notin Held(s)
           /\ \A s \in Scans : worker[s].step \in Past => worker[s].work \notin owed
           /\ \A w \in owed : w = item \/ \E s \in Scans : w \in Held(s)
           /\ item \in Work \cup {None} /\ (item # None <=> pc = "enqueue")
           /\ (pc # "idle" => scan \in Scans) /\ (item # None => item.scan <= scan)
           /\ None \notin Work
BY MetadataAssumption DEF QueueInv, TypeInv, AccountInv, Accounted, Held

LEMMA BeginScanInv == ASSUME QueueInv, BeginScan PROVE QueueInv'
<1> DEFINE R == {[scan |-> scan', file |-> f, hash |-> content[f]] : f \in File}
           j == [worker[scan'] EXCEPT !.step = "recv"]
<1>1. /\ pc = "idle" /\ scan < MaxScans /\ pc' = "persist" /\ scan' = scan + 1
      /\ results' = R /\ worker' = [worker EXCEPT ![scan'].step = "recv"]
      /\ UNCHANGED <<kind, content, meta, image, item, queue, owed>>
  BY DEF BeginScan, dbVars
<1>2. scan' \in Scans /\ scan' \in Nat /\ scan <= scan' /\ scan < scan'
  BY <1>1, Resting, MetadataAssumption DEF Scans
<1>3. item = None
  BY <1>1, Resting
<1>4. worker[scan'].step = "none" /\ worker[scan'] \in Job
  BY <1>2 DEF QueueInv, TypeInv
<1>5. worker[scan'].work = None
  BY <1>2, <1>4, Rest DEF QueueInv, TypeInv
<1>6. j \in Job /\ j.step = "recv" /\ j.work = None
  BY <1>4, <1>5 DEF Job, Steps
<1>7. worker' = [worker EXCEPT ![scan'] = j]
  BY <1>1
<1> HIDE DEF j
<1>8. /\ worker' \in [Scans -> Job] /\ worker'[scan'] = j
      /\ \A s \in Scans : s # scan' => worker'[s] = worker[s]
  BY <1>2, <1>6, <1>7, Resting
<1>9. ASSUME NEW w \in results' PROVE w \in Work /\ w.scan = scan'
  <2>1. PICK f \in File : w = [scan |-> scan', file |-> f, hash |-> content[f]]
    BY <1>1
  <2>2. content[f] \in Content
    BY Resting
  <2> QED BY <1>2, <2>1, <2>2 DEF Work
<1>10. ASSUME NEW w \in results', NEW s \in Scans PROVE w \notin Held(s)
  <2>1. ASSUME w \in Held(s) PROVE FALSE
    <3>1. w.scan <= scan
      BY <2>1 DEF QueueInv, AccountInv
    <3> QED BY <1>2, <1>9, <3>1, Resting
  <2> QED BY <2>1
<1>11. \A s \in Scans : \/ worker'[s] = worker[s]
                        \/ /\ worker[s].step = "none" /\ s <= scan'
                           /\ worker'[s].step = "recv" /\ worker'[s].work = None
  BY <1>2, <1>4, <1>6, <1>8
<1>12. results' \subseteq Work /\ \A w \in results' : /\ w # item' /\ w.scan <= scan'
                                                       /\ \A s \in Scans : w \notin Held(s)
  BY <1>1, <1>2, <1>3, <1>9, <1>10, Resting
<1> HIDE DEF R
<1> QED BY <1>1, <1>2, <1>3, <1>8, <1>11, <1>12, Resting, ScanMoves

LEMMA PersistInv == ASSUME QueueInv, NEW w \in results, PersistResult(w) PROVE QueueInv'
<1>1. /\ pc = "persist" /\ results' = results \ {w}
      /\ UNCHANGED <<kind, content, meta, image, scan, queue, worker>>
  BY DEF PersistResult
<1>2. item = None /\ scan \in Scans /\ w \in Work /\ w # None /\ w.scan <= scan
  BY <1>1, Resting
<1>3. CASE UNCHANGED <<pc, item, owed>>
  BY <1>1, <1>3, Resting, ScanMoves
<1>4. CASE pc' = "enqueue" /\ item' = w /\ owed' = owed \cup {w}
  <2>1. \A x \in results' : x # item' /\ x.scan <= scan' /\ \A s \in Scans : x \notin Held(s)
    BY <1>1, <1>4, Resting
  <2>2. \A s \in Scans : worker[s].step \in Past => worker[s].work \notin owed'
    <3> SUFFICES ASSUME NEW s \in Scans, worker[s].step \in Past PROVE worker[s].work # w
      BY <1>4, Resting
    <3>1. worker[s].work \in Held(s)
      BY WorkInHand, Rest DEF Held
    <3> QED BY <3>1, Resting
  <2>3. \A x \in owed' : x = item' \/ \E s \in Scans : x \in Held(s)
    BY <1>2, <1>4, Resting
  <2> QED BY <1>1, <1>2, <1>4, <2>1, <2>2, <2>3, Resting, ScanMoves
<1> QED BY <1>3, <1>4 DEF PersistResult

LEMMA EnqueueInv == ASSUME QueueInv, Enqueue PROVE QueueInv'
<1>1. /\ pc = "enqueue" /\ pc' = "persist" /\ item' = None
      /\ UNCHANGED <<kind, content, meta, image, scan, results, worker>>
  BY DEF Enqueue, EnqueueKeeps, dbVars
<1>2. item \in Work /\ scan \in Scans /\ item.scan <= scan
  BY <1>1, Resting
<1>3. CASE EnqueueFails
  <2>1. owed' = owed \ {item} /\ queue' = queue
    BY <1>3 DEF EnqueueFails, Loses
  <2>2. \A w \in results' : w # item' /\ w.scan <= scan' /\ \A s \in Scans : w \notin Held(s)
    BY <1>1, Resting
  <2>3. \A w \in owed' : w = item' \/ \E s \in Scans : w \in Held(s)
    BY <2>1, Resting
  <2> QED BY <1>1, <1>2, <2>1, <2>2, <2>3, Resting, ScanMoves
<1>4. CASE queue' = [queue EXCEPT ![scan] = Append(@, item)] /\ UNCHANGED owed
  <2>1. queue \in [Scans -> Seq(Work)] /\ queue[scan] \in Seq(Work)
    BY <1>2 DEF QueueInv, TypeInv
  <2>2. /\ Append(queue[scan], item) \in Seq(Work)
        /\ DOMAIN Append(queue[scan], item) = DOMAIN queue[scan] \cup {Len(queue[scan]) + 1}
        /\ Append(queue[scan], item)[Len(queue[scan]) + 1] = item
        /\ \A i \in DOMAIN queue[scan] : Append(queue[scan], item)[i] = queue[scan][i]
    BY <1>2, <2>1
  <2>3. /\ queue' \in [Scans -> Seq(Work)] /\ queue'[scan] = Append(queue[scan], item)
        /\ \A s \in Scans : s # scan => queue'[s] = queue[s]
    BY <1>2, <1>4, <2>1, <2>2
  <2>4. Queued(scan)' = Queued(scan) \cup {item}
    <3>1. \A w \in Queued(scan)' : w \in Queued(scan) \cup {item}
      BY <1>1, <2>2, <2>3 DEF Queued
    <3>2. \A w \in Queued(scan) : w \in Queued(scan)'
      BY <1>1, <2>2, <2>3 DEF Queued
    <3>3. item \in Queued(scan)'
      BY <1>1, <2>2, <2>3 DEF Queued
    <3> QED BY <3>1, <3>2, <3>3
  <2>5. \A s \in Scans : InHand(s)' = InHand(s)
    BY <1>1 DEF InHand
  <2>6. Held(scan)' = Held(scan) \cup {item}
    BY <1>1, <1>2, <2>4, <2>5 DEF Held
  <2>7. \A s \in Scans : s # scan => Held(s)' = Held(s)
    BY <2>3, <2>5 DEF Held, Queued
  <2>8. TypeInv'
    BY <1>1, <1>2, <1>4, <2>3 DEF QueueInv, TypeInv
  <2>9. Accounted'
    BY <1>1, <1>2, <1>4, <2>6, <2>7, Resting DEF Accounted, Held
  <2>10. \A s \in Scans : \A w \in Held(s)' : w \notin results' /\ w.scan <= scan'
    BY <1>1, <1>2, <2>6, <2>7, Resting DEF QueueInv, AccountInv
  <2>11. AccountInv'
    BY <1>1, <1>4, <2>9, <2>10, Resting DEF AccountInv
  <2>12. ImageInv'
    BY <1>1 DEF QueueInv, ImageInv, ReadyHasImage
  <2> QED BY <2>8, <2>11, <2>12 DEF QueueInv
<1> QED BY <1>3, <1>4 DEF Enqueue

LEMMA ProcessEndsInv == ASSUME QueueInv, ProcessEnds PROVE QueueInv'
<1>1. /\ pc = "idle" /\ worker' = [s \in Scans |-> IF Alive(s) THEN Exited ELSE worker[s]]
      /\ queue' = [s \in Scans |-> <<>>]
      /\ owed' = owed \ UNION {Held(s) : s \in Scans}
      /\ UNCHANGED <<kind, content, meta, image, scan, pc, results, item>>
  BY DEF ProcessEnds, Loses, dbVars, scanVars, Held
<1>2. owed' = {}
  BY <1>1, Resting
<1>3. ASSUME NEW s \in Scans
      PROVE  /\ worker'[s] \in Job /\ worker'[s].step \notin Busy /\ worker'[s].work = None
             /\ worker'[s].step = "none" <=> worker[s].step = "none"
             /\ queue'[s] = <<>>
  <2>1. CASE Alive(s)
    BY <1>1, <2>1, Rest DEF Alive, Exited
  <2>2. CASE ~Alive(s)
    <3>1. worker'[s] = worker[s] /\ worker[s] \in Job
      BY <1>1, <2>2, Resting
    <3>2. worker[s].step \notin Busy
      BY <2>2, Rest DEF Alive
    <3> QED BY <1>1, <3>1, <3>2 DEF QueueInv, TypeInv
  <2> QED BY <2>1, <2>2
<1>4. \A s \in Scans : Held(s)' = {}
  BY <1>3 DEF Held, Queued, InHand
<1>5. queue' \in [Scans -> Seq(Work)] /\ worker' \in [Scans -> Job]
  <2>1. <<>> \in Seq(Work)
    OBVIOUS
  <2> QED BY <1>1, <1>3, <2>1
<1>6. \A s \in Scans : worker'[s].step \notin Past /\ worker'[s].step \notin {"upsert", "ready"}
  BY <1>3, Rest DEF Busy, Past
<1>7. TypeInv'
  BY <1>1, <1>2, <1>3, <1>5, <1>6 DEF QueueInv, TypeInv
<1>8. AccountInv'
  BY <1>1, <1>2, <1>4, <1>6 DEF QueueInv, AccountInv, Accounted
<1>9. ImageInv'
  BY <1>1, <1>6 DEF QueueInv, ImageInv, ReadyHasImage
<1> QED BY <1>7, <1>8, <1>9 DEF QueueInv

LEMMA StepInv == QueueInv /\ [Next]_vars => QueueInv'
<1> SUFFICES ASSUME QueueInv, [Next]_vars PROVE QueueInv'
  OBVIOUS
<1>1. ASSUME NEW f \in File, NEW c \in Content, Overwrite(f, c) PROVE QueueInv'
  <2>1. /\ content' = [content EXCEPT ![f] = c]
        /\ UNCHANGED <<kind, meta, image, pc, scan, results, item, queue, worker, owed>>
    BY <1>1 DEF Overwrite, dbVars, scanVars
  <2>2. content' \in [File -> Content]
    BY <2>1, Resting
  <2> QED BY <2>1, <2>2, Resting, ScanMoves
<1>2. CASE DropQueue \/ Drained \/ TimeOut
  <2>1. /\ pc \in {"persist", "drain"} /\ pc' \in {"drain", "idle"}
        /\ UNCHANGED <<kind, content, meta, image, scan, results, item, queue, worker, owed>>
    BY <1>2 DEF DropQueue, Drained, TimeOut, DrainKeeps, dbVars
  <2>2. item' = None /\ scan \in Scans
    BY <2>1, Resting
  <2> QED BY <2>1, <2>2, Resting, ScanMoves
<1>3. CASE Cancel \/ UNCHANGED vars
  <2>1. UNCHANGED <<kind, content, meta, image, pc, scan, results, item, queue, worker, owed>>
    BY <1>3 DEF Cancel, vars, dbVars, scanVars
  <2> QED BY <2>1, Resting, ScanMoves
<1> QED BY <1>1, <1>2, <1>3, WorkerInv, BeginScanInv, PersistInv, EnqueueInv, ProcessEndsInv
        DEF Next, ScanStep

LEMMA InitInv == Init => QueueInv
<1> SUFFICES ASSUME Init PROVE QueueInv
  OBVIOUS
<1>1. /\ \A s \in Scans : /\ worker[s] = [step |-> "none", work |-> None, read |-> None]
                          /\ queue[s] = <<>>
      /\ results = {} /\ owed = {} /\ item = None /\ pc = "idle" /\ scan = 0
      /\ \A c \in Content : meta[c] = None
  BY DEF Init
<1>2. \A s \in Scans : /\ worker[s].step = "none" /\ worker[s].work = None
                       /\ Held(s) = {}
  BY <1>1 DEF Held, Queued, InHand
<1>3. TypeInv
  <2>1. [step |-> "none", work |-> None, read |-> None] \in Job /\ <<>> \in Seq(Work)
    BY DEF Job, Steps
  <2>2. queue \in [Scans -> Seq(Work)] /\ worker \in [Scans -> Job]
    BY <2>1 DEF Init
  <2>3. /\ content \in [File -> Content] /\ kind \in [File -> Kind]
        /\ meta \in [Content -> Row \cup {None}]
    BY DEF Init
  <2>4. "none" \notin Busy /\ "none" \notin Past /\ "none" # "upsert"
    BY Rest
  <2> QED BY <1>1, <1>2, <2>2, <2>3, <2>4 DEF TypeInv
<1>4. AccountInv
  BY <1>1, <1>2, Rest DEF AccountInv, Accounted
<1>5. ImageInv
  BY <1>1, <1>2 DEF ImageInv, ReadyHasImage
<1> QED BY <1>3, <1>4, <1>5 DEF QueueInv

LEMMA QueueInductive == Spec => []QueueInv
BY InitInv, StepInv, PTL DEF Spec

\* No work is lost unless something failed, was cancelled or died: a full
\* queue, a detached worker, a second scan beside it and an early return of the
\* scan lose nothing, for any capacity.
THEOREM WorkStaysAccounted == Spec => []Accounted
<1>1. QueueInv => Accounted
  BY DEF QueueInv, AccountInv
<1> QED BY QueueInductive, <1>1, PTL

\* A thumbnail marked ready exists, whichever worker made it.
THEOREM ReadyStaysTrue == Spec => []ReadyHasImage
<1>1. QueueInv => ReadyHasImage
  BY DEF QueueInv, ImageInv
<1> QED BY QueueInductive, <1>1, PTL

\* Neither a second extraction of the same content nor any other step sends a
\* row back to pending.
THEOREM ThumbnailsStayKept == Spec => ThumbnailKept
<1> DEFINE Kept == \A c \in Content : meta[c] # None /\ meta[c].thumb # "pending"
                                        => meta'[c].thumb # "pending"
<1>1. QueueInv /\ [Next]_vars => [Kept]_vars
  <2> SUFFICES ASSUME QueueInv, [Next]_vars PROVE Kept
    OBVIOUS
  <2>1. CASE meta' = meta
    BY <2>1
  <2>2. ASSUME NEW s \in Scans, UpsertMetadata(s), meta' # meta PROVE Kept
    BY <2>2, UpsertRows DEF UpsertMetadata
  <2>3. ASSUME NEW s \in Scans, UpdateThumbnail(s), meta' # meta PROVE Kept
    BY <2>3, ThumbRows DEF UpdateThumbnail
  <2>4. \/ meta' = meta
        \/ \E s \in Scans : UpsertMetadata(s) \/ UpdateThumbnail(s)
    BY DEF Next, ScanStep, WorkerStep, BeginScan, PersistResult, Enqueue, EnqueueKeeps, DropQueue,
           Drained, TimeOut, DrainKeeps, Cancel, ProcessEnds, Overwrite, Recv, StopCancelled,
           ChannelClosed, Extract, Generate, GenerateKeeps, dbVars, vars
  <2> QED BY <2>1, <2>2, <2>3, <2>4
<1> QED BY QueueInductive, <1>1, PTL DEF Spec, ThumbnailKept
=============================================================================
