---------------------- MODULE TranscriptionProofs -----------------------
(***************************************************************************)
(* Transcription requests, for any number of them, any queue and pipe, and *)
(* any events dropped: the use case, its worker and the writer implement   *)
(* OneOutcome, the map of cancel tokens follows the work, and the command  *)
(* line and the webview make of the events what they say.                  *)
(***************************************************************************)
EXTENDS Transcription, TLAPS

Writing    == {"command", "begun", "inserted"}
Extracting == {"resolve", "remux", "upload", "check"}

TypeInv ==
    /\ file \in Seq(File)
    /\ starting \cup accepted \subseteq Request \cap 1..Len(file)
    /\ queue \in Seq(Request)
    /\ worker \in [step : Extracting \cup {"recv", "insert", "remove"}, req : Request \cup {0}]
    /\ writer \in [step : Writing \cup {"idle", "completed", "invalidate"}, req : Request \cup {0}]
    /\ reply \in {"none", "ok", "cancelled", "Internal"}
    /\ DOMAIN told = Request
    /\ \A r \in Request : told[r] = <<>> \/ \E o \in Terminal : told[r] = <<o>>

\* A request is in one place at a time.
PlaceInv ==
    /\ starting \cap accepted = {}
    /\ Queued \subseteq accepted
    /\ InHand \subseteq accepted
    /\ InHand \cap Queued = {}
    /\ \A i, j \in 1..Len(queue) : queue[i] = queue[j] => i = j

Untold(r) == told[r] = <<>> /\ r \notin rows

\* Nothing is told or stored of a request before the worker has it, nor while
\* it is in the hands of the adapter or of the writer's transaction; what is
\* committed is told by the writer, and by it alone.
HandInv ==
    /\ \A r \in Request : r \notin accepted \/ r \in Queued => Untold(r)
    /\ worker.step \in Extracting => Untold(worker.req)
    /\ worker.step = "insert" =>
          \/ reply = "none" /\ writer.step \in Writing
          \/ reply = "ok"
          \/ reply \in {"cancelled", "Internal"} /\ Untold(worker.req)
    /\ writer.step \in Writing =>
          /\ worker.step = "insert" /\ worker.req = writer.req
          /\ reply = "none" /\ Untold(writer.req)
    /\ writer.step = "completed" =>
          writer.req \in accepted /\ writer.req \in rows /\ told[writer.req] = <<>>

OutcomeInv == TypeInv /\ PlaceInv /\ HandInv
-----------------------------------------------------------------------------
LEMMA ToSetEnters ==
    ASSUME NEW S, NEW s \in Seq(S), NEW x \in S
    PROVE  ToSet(Append(s, x)) = ToSet(s) \cup {x}
<1>1. /\ Len(s) \in Nat /\ DOMAIN s = 1..Len(s) /\ DOMAIN Append(s, x) = 1..(Len(s) + 1)
      /\ Append(s, x)[Len(s) + 1] = x
      /\ \A i \in 1..Len(s) : Append(s, x)[i] = s[i]
  OBVIOUS
<1>2. ASSUME NEW y \in ToSet(Append(s, x)) PROVE y \in ToSet(s) \cup {x}
  <2>1. PICK i \in DOMAIN Append(s, x) : y = Append(s, x)[i]
    BY DEF ToSet
  <2>2. i \in 1..Len(s) \/ i = Len(s) + 1
    BY <1>1, <2>1
  <2> QED BY <1>1, <2>1, <2>2 DEF ToSet
<1>3. ASSUME NEW y \in ToSet(s) \cup {x} PROVE y \in ToSet(Append(s, x))
  <2>1. CASE y \in ToSet(s)
    <3>1. PICK i \in DOMAIN s : y = s[i]
      BY <2>1 DEF ToSet
    <3> QED BY <1>1, <3>1 DEF ToSet
  <2>2. CASE y = x
    <3>1. Len(s) + 1 \in DOMAIN Append(s, x)
      BY <1>1
    <3> QED BY <1>1, <2>2, <3>1 DEF ToSet
  <2> QED BY <2>1, <2>2
<1> QED BY <1>2, <1>3

\* Without repetition, what is taken from the head is no longer there.
LEMMA ToSetLeaves ==
    ASSUME NEW S, NEW s \in Seq(S), s # <<>>,
           \A i, j \in 1..Len(s) : s[i] = s[j] => i = j
    PROVE  /\ Head(s) \in ToSet(s) /\ Head(s) \in S /\ Tail(s) \in Seq(S)
           /\ ToSet(Tail(s)) = ToSet(s) \ {Head(s)}
           /\ \A i, j \in 1..Len(Tail(s)) : Tail(s)[i] = Tail(s)[j] => i = j
<1>1. /\ Len(s) \in Nat /\ Len(s) > 0 /\ DOMAIN s = 1..Len(s)
      /\ Tail(s) \in Seq(S) /\ Len(Tail(s)) = Len(s) - 1 /\ DOMAIN Tail(s) = 1..(Len(s) - 1)
      /\ Head(s) = s[1] /\ Head(s) \in S
      /\ \A i \in 1..(Len(s) - 1) : Tail(s)[i] = s[i + 1]
  OBVIOUS
<1>2. Head(s) \in ToSet(s)
  BY <1>1 DEF ToSet
<1>3. ASSUME NEW y \in ToSet(Tail(s)) PROVE y \in ToSet(s) /\ y # Head(s)
  <2>1. PICK i \in 1..(Len(s) - 1) : y = s[i + 1]
    BY <1>1 DEF ToSet
  <2>2. i + 1 \in 1..Len(s) /\ i + 1 # 1 /\ 1 \in 1..Len(s)
    BY <1>1, <2>1
  <2> QED BY <1>1, <2>1, <2>2 DEF ToSet
<1>4. ASSUME NEW y \in ToSet(s), y # Head(s) PROVE y \in ToSet(Tail(s))
  <2>1. PICK i \in 1..Len(s) : y = s[i]
    BY <1>1 DEF ToSet
  <2>2. i - 1 \in 1..(Len(s) - 1) /\ (i - 1) + 1 = i
    BY <1>1, <1>4, <2>1
  <2>3. Tail(s)[i - 1] = y
    BY <1>1, <2>1, <2>2
  <2> QED BY <1>1, <2>2, <2>3 DEF ToSet
<1>5. ASSUME NEW i \in 1..Len(Tail(s)), NEW j \in 1..Len(Tail(s)), Tail(s)[i] = Tail(s)[j]
      PROVE  i = j
  <2>1. i + 1 \in 1..Len(s) /\ j + 1 \in 1..Len(s) /\ s[i + 1] = s[j + 1] /\ i \in Int /\ j \in Int
    BY <1>1, <1>5
  <2> QED BY <2>1
<1> QED BY <1>1, <1>2, <1>3, <1>4, <1>5
-----------------------------------------------------------------------------
(***************************************************************************)
(* OutcomeInv is inductive: one lemma for each kind of step.               *)
(***************************************************************************)
core == <<file, starting, accepted, queue, worker, writer, reply, told, rows>>

LEMMA CoreKept == ASSUME OutcomeInv, UNCHANGED core PROVE OutcomeInv'
BY DEF OutcomeInv, TypeInv, PlaceInv, HandInv, Untold, Queued, InHand, core

LEMMA InitInv == Init => OutcomeInv
<1> SUFFICES ASSUME Init PROVE OutcomeInv
  OBVIOUS
<1>1. /\ file = <<>> /\ starting = {} /\ accepted = {} /\ queue = <<>>
      /\ worker = [step |-> "recv", req |-> 0] /\ writer = [step |-> "idle", req |-> 0]
      /\ reply = "none" /\ rows = {} /\ told = [r \in Request |-> <<>>]
  BY DEF Init
<1>2. Queued = {} /\ InHand = {}
  BY <1>1 DEF Queued, ToSet, InHand
<1> QED BY <1>1, <1>2 DEF OutcomeInv, TypeInv, PlaceInv, HandInv, Untold, Writing, Extracting

LEMMA StartInv == ASSUME OutcomeInv, NEW f \in File, Start(f) PROVE OutcomeInv'
<1> DEFINE r == Len(file) + 1
<1>1. /\ r \in Request /\ file' = Append(file, f) /\ starting' = starting \cup {r}
      /\ UNCHANGED <<accepted, queue, worker, writer, reply, told, rows>>
  BY DEF Start, StartKeeps, workVars
<1>2. /\ file' \in Seq(File) /\ Len(file') = r /\ Len(file) \in Nat
  BY <1>1 DEF OutcomeInv, TypeInv
<1>3. 1..Len(file) \subseteq 1..Len(file') /\ r \in 1..Len(file') /\ r \notin 1..Len(file)
  BY <1>2
<1>4. TypeInv'
  BY <1>1, <1>2, <1>3 DEF OutcomeInv, TypeInv
<1>5. r \notin accepted
  BY <1>3 DEF OutcomeInv, TypeInv
<1>6. UNCHANGED <<Queued, InHand>>
  BY <1>1 DEF Queued, InHand
<1>7. PlaceInv'
  BY <1>1, <1>5, <1>6 DEF OutcomeInv, PlaceInv
<1>8. HandInv'
  BY <1>1, <1>6 DEF OutcomeInv, HandInv, Untold
<1> QED BY <1>4, <1>7, <1>8 DEF OutcomeInv

LEMMA TrySendInv == ASSUME OutcomeInv, NEW r \in starting, TrySend(r) PROVE OutcomeInv'
<1>1. /\ starting' = starting \ {r}
      /\ UNCHANGED <<file, worker, writer, reply, told, rows>>
  BY DEF TrySend, StartKeeps, workVars
<1>2. /\ r \in Request /\ r \notin accepted /\ r \notin Queued /\ r \notin InHand /\ Untold(r)
  BY DEF OutcomeInv, TypeInv, PlaceInv, HandInv
<1>3. InHand' = InHand
  BY <1>1 DEF InHand
<1>4. CASE queue' = Append(queue, r) /\ accepted' = accepted \cup {r}
  <2>1. queue \in Seq(Request) /\ Len(queue) \in Nat
    BY DEF OutcomeInv, TypeInv
  <2>2. queue' \in Seq(Request) /\ Queued' = Queued \cup {r}
    BY <1>2, <1>4, <2>1, ToSetEnters DEF Queued
  <2>3. TypeInv'
    BY <1>1, <1>4, <2>2 DEF OutcomeInv, TypeInv
  <2>4. ASSUME NEW i \in 1..Len(queue'), NEW j \in 1..Len(queue'), queue'[i] = queue'[j]
        PROVE  i = j
    <3>1. /\ Len(queue') = Len(queue) + 1 /\ queue'[Len(queue) + 1] = r
          /\ \A k \in 1..Len(queue) : queue'[k] = queue[k] /\ queue[k] # r
      BY <1>2, <1>4, <2>1 DEF Queued, ToSet
    <3>2. /\ i \in 1..Len(queue) \/ i = Len(queue) + 1
          /\ j \in 1..Len(queue) \/ j = Len(queue) + 1
      BY <2>1, <3>1
    <3> QED BY <2>4, <3>1, <3>2 DEF OutcomeInv, PlaceInv
  <2>5. PlaceInv'
    BY <1>1, <1>2, <1>3, <1>4, <2>2, <2>4 DEF OutcomeInv, PlaceInv
  <2>6. \A q \in Request : q \notin accepted' \/ q \in Queued' => Untold(q)'
    BY <1>1, <1>2, <1>4, <2>2 DEF OutcomeInv, HandInv, Untold
  <2>7. writer.step = "completed" => writer.req \in accepted'
    BY <1>4 DEF OutcomeInv, HandInv
  <2>8. HandInv'
    BY <1>1, <2>6, <2>7 DEF OutcomeInv, HandInv, Untold
  <2> QED BY <2>3, <2>5, <2>8 DEF OutcomeInv
<1>5. CASE UNCHANGED <<queue, accepted>>
  <2>1. Queued' = Queued
    BY <1>5 DEF Queued
  <2>2. TypeInv'
    BY <1>1, <1>5 DEF OutcomeInv, TypeInv
  <2>3. PlaceInv'
    BY <1>1, <1>3, <1>5, <2>1 DEF OutcomeInv, PlaceInv
  <2>4. HandInv'
    BY <1>1, <1>5, <2>1 DEF OutcomeInv, HandInv, Untold
  <2> QED BY <2>2, <2>3, <2>4 DEF OutcomeInv
<1> QED BY <1>4, <1>5 DEF TrySend

LEMMA RecvInv == ASSUME OutcomeInv, Recv PROVE OutcomeInv'
<1>1. /\ worker.step = "recv" /\ queue # <<>> /\ queue' = Tail(queue)
      /\ worker' = [step |-> "resolve", req |-> Head(queue)]
      /\ UNCHANGED <<file, starting, accepted, writer, reply, told, rows>>
  BY DEF Recv, At, WorkerKeeps
<1>2. /\ Head(queue) \in Queued /\ Head(queue) \in Request /\ Tail(queue) \in Seq(Request)
      /\ Queued' = Queued \ {Head(queue)}
      /\ \A i, j \in 1..Len(queue') : queue'[i] = queue'[j] => i = j
  BY <1>1, ToSetLeaves DEF OutcomeInv, TypeInv, PlaceInv, Queued
<1>3. worker'.step = "resolve" /\ worker'.req = Head(queue) /\ InHand' = {Head(queue)}
  BY <1>1 DEF InHand
<1>4. TypeInv'
  BY <1>1, <1>2 DEF OutcomeInv, TypeInv, Extracting
<1>5. PlaceInv'
  BY <1>1, <1>2, <1>3 DEF OutcomeInv, PlaceInv
<1>6. Untold(Head(queue))
  BY <1>2 DEF OutcomeInv, HandInv
<1>7. writer.step \notin Writing
  BY <1>1 DEF OutcomeInv, HandInv
<1>8. HandInv'
  BY <1>1, <1>2, <1>3, <1>6, <1>7 DEF OutcomeInv, HandInv, Untold
<1> QED BY <1>4, <1>5, <1>8 DEF OutcomeInv

\* The worker goes on without a word.
LEMMA GoesInv ==
    ASSUME OutcomeInv, NEW step, Goes(step),
           worker.step # "recv",
           UNCHANGED <<file, starting, accepted, queue, writer, reply, told, rows>>,
           \/ worker.step \in Extracting /\ step \in Extracting
           \/ worker.step = "insert" /\ reply = "ok" /\ step = "remove"
    PROVE  OutcomeInv'
<1>1. /\ worker' = [worker EXCEPT !.step = step]
      /\ worker \in [step : Extracting \cup {"recv", "insert", "remove"}, req : Request \cup {0}]
  BY DEF Goes, OutcomeInv, TypeInv
<1>2. worker'.step = step /\ worker'.req = worker.req
  BY <1>1
<1>3. step # "recv" /\ step # "insert" /\ (step \in Extracting => worker.step \in Extracting)
  BY DEF Extracting
<1>4. UNCHANGED <<InHand, Queued>>
  BY <1>2, <1>3 DEF InHand, Queued
<1>5. writer.step \notin Writing
  BY DEF OutcomeInv, HandInv, Extracting
<1>6. worker' \in [step : Extracting \cup {"recv", "insert", "remove"}, req : Request \cup {0}]
  BY <1>1
<1>7. TypeInv'
  BY <1>6 DEF OutcomeInv, TypeInv
<1>8. PlaceInv'
  BY <1>4 DEF OutcomeInv, PlaceInv
<1>9. HandInv'
  BY <1>2, <1>3, <1>4, <1>5 DEF OutcomeInv, HandInv, Untold
<1> QED BY <1>7, <1>8, <1>9 DEF OutcomeInv

\* When the worker tells a terminal state it has the request to itself.
Unsettled ==
    \/ worker.step \in Extracting
    \/ worker.step = "insert" /\ reply \in {"cancelled", "Internal"}

LEMMA UnsettledUntold ==
    ASSUME OutcomeInv, Unsettled
    PROVE  /\ worker.req \in accepted /\ worker.req \in Request /\ Untold(worker.req)
           /\ worker.req \notin Queued /\ writer.step \notin Writing
<1>1. worker.step # "recv"
  BY DEF Unsettled, Extracting
<1>2. worker.req \in InHand
  BY <1>1 DEF InHand
<1>3. writer.step \notin Writing
  BY DEF Unsettled, OutcomeInv, HandInv, Extracting
<1>4. Untold(worker.req)
  BY <1>3 DEF Unsettled, OutcomeInv, HandInv
<1> QED BY <1>2, <1>3, <1>4 DEF OutcomeInv, PlaceInv, TypeInv

LEMMA ToldOnce ==
    ASSUME OutcomeInv, NEW r \in Request, told[r] = <<>>, NEW o \in Terminal,
           told' = [told EXCEPT ![r] = Append(@, o)]
    PROVE  /\ DOMAIN told' = Request /\ told'[r] = <<o>>
           /\ \A q \in Request : q # r => told'[q] = told[q]
<1>1. DOMAIN told = Request
  BY DEF OutcomeInv, TypeInv
<1>2. Append(told[r], o) = <<o>>
  OBVIOUS
<1> QED BY <1>1, <1>2

LEMMA WorkerTellsInv ==
    ASSUME OutcomeInv, Unsettled, NEW o \in Terminal, WorkerTells(o), UNCHANGED reply
    PROVE  OutcomeInv'
<1>1. /\ worker' = [worker EXCEPT !.step = "remove"]
      /\ told' = [told EXCEPT ![worker.req] = Append(@, o)]
      /\ UNCHANGED <<file, starting, accepted, queue, writer, reply, rows>>
  BY DEF WorkerTells, WorkerKeeps, Tell, Goes
<1>2. worker \in [step : Extracting \cup {"recv", "insert", "remove"}, req : Request \cup {0}]
  BY DEF OutcomeInv, TypeInv
<1>3. /\ worker'.step = "remove" /\ worker'.req = worker.req
      /\ worker' \in [step : Extracting \cup {"recv", "insert", "remove"}, req : Request \cup {0}]
  BY <1>1, <1>2
<1>4. worker.step # "recv"
  BY DEF Unsettled, Extracting
<1>5. /\ DOMAIN told' = Request /\ told'[worker.req] = <<o>>
      /\ \A q \in Request : q # worker.req => told'[q] = told[q]
  BY <1>1, UnsettledUntold, ToldOnce DEF Untold
<1>6. UNCHANGED <<InHand, Queued>>
  BY <1>1, <1>3, <1>4 DEF InHand, Queued
<1>7. \A q \in Request : told'[q] = <<>> \/ \E t \in Terminal : told'[q] = <<t>>
  BY <1>5 DEF OutcomeInv, TypeInv
<1>8. TypeInv'
  BY <1>1, <1>3, <1>5, <1>7 DEF OutcomeInv, TypeInv
<1>9. PlaceInv'
  BY <1>1, <1>6 DEF OutcomeInv, PlaceInv
<1>10. \A q \in Request : q \notin accepted' \/ q \in Queued' => Untold(q)'
  BY <1>1, <1>5, <1>6, UnsettledUntold DEF OutcomeInv, HandInv, Untold
<1>11. writer.step = "completed" =>
          writer.req \in accepted /\ writer.req \in rows /\ told'[writer.req] = <<>>
  <2> SUFFICES ASSUME writer.step = "completed"
               PROVE  writer.req \in accepted /\ writer.req \in rows /\ told'[writer.req] = <<>>
    OBVIOUS
  <2>1. writer.req \in accepted /\ writer.req \in rows /\ told[writer.req] = <<>>
    BY DEF OutcomeInv, HandInv
  <2>2. writer.req # worker.req /\ writer.req \in Request
    BY <2>1, UnsettledUntold DEF Untold, OutcomeInv, TypeInv
  <2> QED BY <1>5, <2>1, <2>2
<1>12. HandInv'
  BY <1>1, <1>3, <1>10, <1>11, UnsettledUntold DEF HandInv, Extracting
<1> QED BY <1>8, <1>9, <1>12 DEF OutcomeInv

LEMMA SendsInsertInv ==
    ASSUME OutcomeInv, worker.step = "check", writer.step = "idle", Goes("insert"),
           writer' = [step |-> "command", req |-> worker.req], reply' = "none",
           UNCHANGED <<file, starting, accepted, queue, told, rows>>
    PROVE  OutcomeInv'
<1>1. /\ worker' = [worker EXCEPT !.step = "insert"]
      /\ worker \in [step : Extracting \cup {"recv", "insert", "remove"}, req : Request \cup {0}]
  BY DEF Goes, OutcomeInv, TypeInv
<1>2. /\ worker'.step = "insert" /\ worker'.req = worker.req
      /\ worker' \in [step : Extracting \cup {"recv", "insert", "remove"}, req : Request \cup {0}]
  BY <1>1
<1>3. writer'.step = "command" /\ writer'.req = worker.req
  OBVIOUS
<1>4. writer' \in [step : Writing \cup {"idle", "completed", "invalidate"}, req : Request \cup {0}]
  BY <1>1 DEF Writing
<1>5. UNCHANGED <<InHand, Queued>>
  BY <1>2 DEF InHand, Queued
<1>6. TypeInv'
  BY <1>2, <1>4 DEF OutcomeInv, TypeInv
<1>7. PlaceInv'
  BY <1>5 DEF OutcomeInv, PlaceInv
<1>8. Untold(worker.req)
  BY DEF OutcomeInv, HandInv, Extracting
<1>9. HandInv'
  BY <1>2, <1>3, <1>5, <1>8 DEF OutcomeInv, HandInv, Untold, Writing, Extracting
<1> QED BY <1>6, <1>7, <1>9 DEF OutcomeInv

LEMMA ForgetInv == ASSUME OutcomeInv, Forget PROVE OutcomeInv'
<1>1. /\ worker.step = "remove" /\ worker' = [step |-> "recv", req |-> 0]
      /\ UNCHANGED <<file, starting, accepted, queue, writer, reply, told, rows>>
  BY DEF Forget, At, WorkerKeeps
<1>2. worker'.step = "recv" /\ InHand' = {} /\ Queued' = Queued
  BY <1>1 DEF InHand, Queued
<1>3. TypeInv'
  BY <1>1 DEF OutcomeInv, TypeInv
<1>4. PlaceInv'
  BY <1>1, <1>2 DEF OutcomeInv, PlaceInv
<1>5. HandInv'
  BY <1>1, <1>2 DEF OutcomeInv, HandInv, Untold, Extracting
<1> QED BY <1>3, <1>4, <1>5 DEF OutcomeInv

\* The writer goes on, without a commit and without a word.
LEMMA WriterGoesInv ==
    ASSUME OutcomeInv, NEW step, WriterGoes(step),
           UNCHANGED <<file, starting, accepted, queue, worker, told, rows>>,
           \/ writer.step \in Writing /\ step \in Writing /\ reply' = reply
           \/ writer.step \in Writing /\ step = "idle" /\ reply' \in {"cancelled", "Internal"}
           \/ writer.step = "invalidate" /\ step = "idle" /\ reply' = reply
    PROVE  OutcomeInv'
<1>1. /\ writer' = [writer EXCEPT !.step = step]
      /\ writer \in [step : Writing \cup {"idle", "completed", "invalidate"}, req : Request \cup {0}]
  BY DEF WriterGoes, OutcomeInv, TypeInv
<1>2. /\ writer'.step = step /\ writer'.req = writer.req
      /\ writer' \in [step : Writing \cup {"idle", "completed", "invalidate"}, req : Request \cup {0}]
  BY <1>1
<1>3. UNCHANGED <<InHand, Queued>>
  BY DEF InHand, Queued
<1>4. reply' \in {"none", "ok", "cancelled", "Internal"}
  BY DEF OutcomeInv, TypeInv
<1>5. TypeInv'
  BY <1>2, <1>4 DEF OutcomeInv, TypeInv
<1>6. PlaceInv'
  BY <1>3 DEF OutcomeInv, PlaceInv
<1>7. step # "completed"
  BY DEF Writing
<1>8. CASE writer.step \in Writing
  <2>1. worker.step = "insert" /\ worker.req = writer.req /\ reply = "none" /\ Untold(writer.req)
    BY <1>8 DEF OutcomeInv, HandInv
  <2>2. worker.step \notin Extracting
    BY <2>1 DEF Extracting
  <2>3. HandInv'
    BY <1>2, <1>3, <1>7, <1>8, <2>1, <2>2 DEF OutcomeInv, HandInv, Untold, Writing
  <2> QED BY <1>5, <1>6, <2>3 DEF OutcomeInv
<1>9. CASE writer.step = "invalidate"
  <2>1. step = "idle" /\ reply' = reply /\ writer.step \notin Writing /\ step \notin Writing
    BY <1>9 DEF Writing
  <2>2. HandInv'
    BY <1>2, <1>3, <1>7, <2>1 DEF OutcomeInv, HandInv, Untold
  <2> QED BY <1>5, <1>6, <2>2 DEF OutcomeInv
<1> QED BY <1>8, <1>9

LEMMA CommitInv == ASSUME OutcomeInv, Commit PROVE OutcomeInv'
<1>1. /\ writer.step \in Writing /\ rows' = rows \cup {writer.req} /\ reply' = "ok"
      /\ writer' = [writer EXCEPT !.step = "completed"]
      /\ UNCHANGED <<file, starting, accepted, queue, worker, told>>
  BY DEF Commit, WriterGoes, WriterKeeps, coreVars, Writing
<1>2. /\ worker.step = "insert" /\ worker.req = writer.req /\ Untold(writer.req)
  BY <1>1 DEF OutcomeInv, HandInv
<1>3. writer.req \in accepted /\ writer.req \notin Queued
  BY <1>2 DEF OutcomeInv, PlaceInv, InHand
<1>4. writer \in [step : Writing \cup {"idle", "completed", "invalidate"}, req : Request \cup {0}]
  BY DEF OutcomeInv, TypeInv
<1>5. /\ writer'.step = "completed" /\ writer'.req = writer.req
      /\ writer' \in [step : Writing \cup {"idle", "completed", "invalidate"}, req : Request \cup {0}]
  BY <1>1, <1>4
<1>6. UNCHANGED <<InHand, Queued>>
  BY <1>1 DEF InHand, Queued
<1>7. TypeInv'
  BY <1>1, <1>5 DEF OutcomeInv, TypeInv
<1>8. PlaceInv'
  BY <1>1, <1>6 DEF OutcomeInv, PlaceInv
<1>9. HandInv'
  BY <1>1, <1>2, <1>3, <1>5, <1>6 DEF OutcomeInv, HandInv, Untold, Writing, Extracting
<1> QED BY <1>7, <1>8, <1>9 DEF OutcomeInv

LEMMA EmitCompletedInv == ASSUME OutcomeInv, EmitCompleted PROVE OutcomeInv'
<1>1. /\ writer.step = "completed"
      /\ told' = [told EXCEPT ![writer.req] = Append(@, "completed")]
      /\ writer' = [writer EXCEPT !.step = "invalidate"]
      /\ UNCHANGED <<file, starting, accepted, queue, worker, reply, rows>>
  BY DEF EmitCompleted, Tell, WriterGoes, WriterKeeps, coreVars
<1>2. writer.req \in accepted /\ writer.req \in rows /\ told[writer.req] = <<>>
  BY <1>1 DEF OutcomeInv, HandInv
<1>3. writer.req \in Request
  BY <1>2 DEF OutcomeInv, TypeInv
<1>4. "completed" \in Terminal
  BY DEF Terminal
<1>5. /\ DOMAIN told' = Request /\ told'[writer.req] = <<"completed">>
      /\ \A q \in Request : q # writer.req => told'[q] = told[q]
  BY <1>1, <1>2, <1>3, <1>4, ToldOnce
<1>6. \A q \in Request : told'[q] = <<>> \/ \E t \in Terminal : told'[q] = <<t>>
  BY <1>4, <1>5 DEF OutcomeInv, TypeInv
<1>7. writer \in [step : Writing \cup {"idle", "completed", "invalidate"}, req : Request \cup {0}]
  BY DEF OutcomeInv, TypeInv
<1>8. /\ writer'.step = "invalidate" /\ writer'.req = writer.req
      /\ writer' \in [step : Writing \cup {"idle", "completed", "invalidate"}, req : Request \cup {0}]
  BY <1>1, <1>7
<1>9. UNCHANGED <<InHand, Queued>>
  BY <1>1 DEF InHand, Queued
<1>10. TypeInv'
  BY <1>1, <1>5, <1>6, <1>8 DEF OutcomeInv, TypeInv
<1>11. PlaceInv'
  BY <1>1, <1>9 DEF OutcomeInv, PlaceInv
<1>12. \A q \in Request : Untold(q) => Untold(q)'
  BY <1>1, <1>2, <1>5 DEF Untold
<1>13. worker.step # "recv" => worker.req \in Request
  BY DEF OutcomeInv, PlaceInv, TypeInv, InHand
<1>14. "recv" \notin Extracting /\ "invalidate" \notin Writing /\ "completed" \notin Writing
  BY DEF Extracting, Writing
<1>15. HandInv'
  BY <1>1, <1>8, <1>9, <1>12, <1>13, <1>14 DEF OutcomeInv, HandInv
<1> QED BY <1>10, <1>11, <1>15 DEF OutcomeInv
-----------------------------------------------------------------------------
(***************************************************************************)
(* What each step is to OneOutcome.                                        *)
(***************************************************************************)
Ended(r) == IF told[r] = <<>> THEN "none"
            ELSE IF Len(told[r]) = 1 THEN IF Head(told[r]) \in Failure THEN "failed" ELSE Head(told[r])
            ELSE "twice"

Promised == UNCHANGED <<accepted, rows, told>> \/ Outcome!Next

LEMMA OutcomeOf ==
    ASSUME NEW r \in Request, NEW o \in Terminal, told'[r] = <<o>>
    PROVE  Ended(r)' = IF o \in Failure THEN "failed" ELSE o
<1>1. <<o>> # <<>> /\ Len(<<o>>) = 1 /\ Head(<<o>>) = o
  OBVIOUS
<1> QED BY <1>1 DEF Ended

LEMMA Finishes ==
    ASSUME OutcomeInv, NEW r \in Request, r \in accepted, told[r] = <<>>, NEW o \in Terminal,
           o = "completed" <=> r \in rows,
           told' = [told EXCEPT ![r] = Append(@, o)], UNCHANGED <<accepted, rows>>
    PROVE  Outcome!Next
<1> DEFINE e == IF o \in Failure THEN "failed" ELSE o
<1>1. /\ told'[r] = <<o>>
      /\ \A q \in Request : q # r => told'[q] = told[q]
  BY ToldOnce
<1>2. Ended(r)' = e
  BY <1>1, OutcomeOf
<1>3. \A q \in Request : q # r => Ended(q)' = Ended(q)
  BY <1>1 DEF Ended
<1>4. Ended(r) = "none"
  BY DEF Ended
<1>5. e \in {"completed", "cancelled", "failed"} /\ (e = "completed" <=> r \in rows)
  BY DEF Terminal, Failure
<1>6. [q \in Request |-> Ended(q)]' = [[q \in Request |-> Ended(q)] EXCEPT ![r] = e]
  BY <1>2, <1>3
<1>7. Outcome!Finish(r, e)
  BY <1>4, <1>5, <1>6 DEF Outcome!Finish, Outcome!Open, Ended
<1> QED BY <1>5, <1>7 DEF Outcome!Next

LEMMA WorkerTellsPromised ==
    ASSUME OutcomeInv, Unsettled, NEW o \in Terminal \ {"completed"}, WorkerTells(o)
    PROVE  Promised
<1>1. /\ told' = [told EXCEPT ![worker.req] = Append(@, o)]
      /\ UNCHANGED <<accepted, rows>>
  BY DEF WorkerTells, WorkerKeeps, Tell
<1> QED BY <1>1, UnsettledUntold, Finishes DEF Promised, Untold

LEMMA TrySendPromised == ASSUME OutcomeInv, NEW r \in starting, TrySend(r) PROVE Promised
<1>1. UNCHANGED <<rows, told>>
  BY DEF TrySend, StartKeeps, workVars
<1>2. r \in Request /\ r \notin accepted
  BY DEF OutcomeInv, TypeInv, PlaceInv
<1>3. CASE UNCHANGED accepted
  BY <1>1, <1>3 DEF Promised
<1>4. CASE accepted' = accepted \cup {r}
  <2>1. Outcome!Accept(r)
    BY <1>1, <1>2, <1>4 DEF Outcome!Accept
  <2> QED BY <1>2, <2>1 DEF Promised, Outcome!Next
<1> QED BY <1>3, <1>4 DEF TrySend

LEMMA CommitPromised == ASSUME OutcomeInv, Commit PROVE Promised
<1>1. /\ writer.step \in Writing /\ rows' = rows \cup {writer.req} /\ UNCHANGED <<accepted, told>>
  BY DEF Commit, WriterGoes, WriterKeeps, coreVars, Writing
<1>2. /\ worker.step = "insert" /\ worker.req = writer.req /\ Untold(writer.req)
  BY <1>1 DEF OutcomeInv, HandInv
<1>3. writer.req \in accepted /\ writer.req \in Request
  BY <1>2 DEF OutcomeInv, PlaceInv, TypeInv, InHand
<1>4. Outcome!Store(writer.req)
  BY <1>1, <1>2, <1>3 DEF Outcome!Store, Outcome!Open, Untold
<1> QED BY <1>3, <1>4 DEF Promised, Outcome!Next

LEMMA EmitCompletedPromised == ASSUME OutcomeInv, EmitCompleted PROVE Promised
<1>1. /\ writer.step = "completed"
      /\ told' = [told EXCEPT ![writer.req] = Append(@, "completed")]
      /\ UNCHANGED <<accepted, rows>>
  BY DEF EmitCompleted, Tell, WriterGoes, WriterKeeps, coreVars
<1>2. /\ writer.req \in accepted /\ writer.req \in rows /\ told[writer.req] = <<>>
      /\ writer.req \in Request
  BY <1>1 DEF OutcomeInv, HandInv, TypeInv
<1>3. "completed" \in Terminal
  BY DEF Terminal
<1> QED BY <1>1, <1>2, <1>3, Finishes DEF Promised
-----------------------------------------------------------------------------
Kept == OutcomeInv' /\ Promised

LEMMA Quiet == ASSUME OutcomeInv, UNCHANGED core PROVE Kept
BY CoreKept DEF Kept, Promised, core

\* The errors of the provider are terminal, and no completion.
LEMMA ErrorsAreTerminal ==
    \A err : map_async_openai_error(err) \in Terminal \ {"completed"}
BY DEF map_async_openai_error, map_api_error, Terminal, Failure

LEMMA TellsKept ==
    ASSUME OutcomeInv, Unsettled, NEW o \in Terminal \ {"completed"}, WorkerTells(o), UNCHANGED reply
    PROVE  Kept
BY WorkerTellsInv, WorkerTellsPromised DEF Kept

LEMMA WorkerStepKept == ASSUME OutcomeInv, WorkerStep PROVE Kept
<1>1. CASE Recv
  <2>1. UNCHANGED <<accepted, rows, told>>
    BY <1>1 DEF Recv, WorkerKeeps
  <2> QED BY <1>1, <2>1, RecvInv DEF Kept, Promised
<1>2. ASSUME NEW step, Goes(step), worker.step # "recv",
             UNCHANGED <<file, starting, accepted, queue, writer, reply, told, rows>>,
             \/ worker.step \in Extracting /\ step \in Extracting
             \/ worker.step = "insert" /\ reply = "ok" /\ step = "remove"
      PROVE  Kept
  BY <1>2, GoesInv DEF Kept, Promised
<1>3. CASE Resolve
  <2>1. worker.step = "resolve" /\ Unsettled
    BY <1>3 DEF Resolve, At, Unsettled, Extracting
  <2>2. ASSUME NEW o \in {"BackendUnavailable", "AudioDecode"}, WorkerTells(o), UNCHANGED reply
        PROVE  Kept
    BY <2>1, <2>2, TellsKept DEF Terminal, Failure
  <2>3. ASSUME NEW step \in {"remux", "upload"}, Goes(step), WorkerKeeps,
               UNCHANGED <<queue, writer, reply, rows, told>>
        PROVE  Kept
    BY <2>1, <2>3, <1>2 DEF WorkerKeeps, Extracting
  <2> QED BY <1>3, <2>2, <2>3 DEF Resolve
<1>4. CASE PollCancelled
  <2>1. Unsettled /\ "cancelled" \in Terminal \ {"completed"} /\ WorkerTells("cancelled") /\ UNCHANGED reply
    BY <1>4 DEF PollCancelled, At, Unsettled, Extracting, Terminal
  <2> QED BY <2>1, TellsKept
<1>5. CASE ChildExited
  <2>1. worker.step = "remux" /\ Unsettled /\ "AudioDecode" \in Terminal \ {"completed"}
    BY <1>5 DEF ChildExited, At, Unsettled, Extracting, Terminal, Failure
  <2>2. CASE WorkerTells("AudioDecode") /\ UNCHANGED reply
    BY <2>1, <2>2, TellsKept
  <2>3. CASE Goes("upload") /\ WorkerKeeps /\ UNCHANGED <<queue, writer, reply, rows, told>>
    BY <2>1, <2>3, <1>2 DEF WorkerKeeps, Extracting
  <2> QED BY <1>5, <2>2, <2>3 DEF ChildExited
<1>6. CASE Upload
  <2>1. worker.step = "upload" /\ Unsettled
    BY <1>6 DEF Upload, At, Unsettled, Extracting
  <2>2. ASSUME NEW err, WorkerTells(map_async_openai_error(err)), UNCHANGED reply
        PROVE  Kept
    BY <2>1, <2>2, TellsKept, ErrorsAreTerminal
  <2>3. CASE Goes("check") /\ WorkerKeeps /\ UNCHANGED <<queue, writer, reply, rows, told>>
    BY <2>1, <2>3, <1>2 DEF WorkerKeeps, Extracting
  <2> QED BY <1>6, <2>2, <2>3 DEF Upload
<1>7. CASE PreWriteCheck
  <2>1. worker.step = "check" /\ Unsettled /\ "cancelled" \in Terminal \ {"completed"}
    BY <1>7 DEF PreWriteCheck, At, Unsettled, Extracting, Terminal
  <2>2. CASE WorkerTells("cancelled") /\ UNCHANGED reply
    BY <2>1, <2>2, TellsKept
  <2>3. CASE /\ writer.step = "idle" /\ Goes("insert") /\ reply' = "none" /\ WorkerKeeps
             /\ writer' = [step |-> "command", req |-> worker.req]
             /\ UNCHANGED <<queue, rows, told>>
    <3>1. UNCHANGED <<file, starting, accepted, queue, told, rows>>
      BY <2>3 DEF WorkerKeeps
    <3> QED BY <2>1, <2>3, <3>1, SendsInsertInv DEF Kept, Promised
  <2> QED BY <1>7, <2>2, <2>3 DEF PreWriteCheck
<1>8. CASE ReplyRead
  <2>1. worker.step = "insert" /\ reply # "none" /\ reply \in {"none", "ok", "cancelled", "Internal"}
    BY <1>8 DEF ReplyRead, At, OutcomeInv, TypeInv
  <2>2. CASE reply # "ok" /\ WorkerTells(reply) /\ UNCHANGED reply
    <3>1. Unsettled /\ reply \in Terminal \ {"completed"}
      BY <2>1, <2>2 DEF Unsettled, Terminal, Failure
    <3> QED BY <2>2, <3>1, TellsKept
  <2>3. CASE reply = "ok" /\ Goes("remove") /\ WorkerKeeps
             /\ UNCHANGED <<queue, writer, reply, rows, told>>
    BY <2>1, <2>3, <1>2 DEF WorkerKeeps
  <2> QED BY <1>8, <2>2, <2>3 DEF ReplyRead
<1>9. CASE Forget
  <2>1. UNCHANGED <<accepted, rows, told>>
    BY <1>9 DEF Forget, WorkerKeeps
  <2> QED BY <1>9, <2>1, ForgetInv DEF Kept, Promised
<1> QED BY <1>1, <1>3, <1>4, <1>5, <1>6, <1>7, <1>8, <1>9 DEF WorkerStep, WorkerProceeds

LEMMA WriterStepKept == ASSUME OutcomeInv, WriterStep PROVE Kept
<1>1. CASE Commit
  BY <1>1, CommitInv, CommitPromised DEF Kept
<1>2. CASE EmitCompleted
  BY <1>2, EmitCompletedInv, EmitCompletedPromised DEF Kept
<1>3. CASE Insert
  <2>1. writer.step \in Writing
    BY <1>3 DEF Insert, Writing
  <2>2. CASE RollBack
    <3>1. /\ WriterGoes("idle") /\ reply' \in {"cancelled", "Internal"}
          /\ UNCHANGED <<file, starting, accepted, queue, worker, told, rows>>
      BY <2>2 DEF RollBack, WriterKeeps, coreVars
    <3> QED BY <2>1, <3>1, WriterGoesInv DEF Kept, Promised
  <2>3. ASSUME NEW step \in Writing, WriterGoes(step), WriterKeeps, UNCHANGED <<reply, rows, told>>
        PROVE  Kept
    <3>1. UNCHANGED <<file, starting, accepted, queue, worker, told, rows>>
      BY <2>3 DEF WriterKeeps, coreVars
    <3> QED BY <2>1, <2>3, <3>1, WriterGoesInv DEF Kept, Promised
  <2>4. "begun" \in Writing /\ "inserted" \in Writing
    BY DEF Writing
  <2> QED BY <1>3, <2>2, <2>3, <2>4 DEF Insert
<1>4. CASE EmitInvalidated
  <2>1. /\ writer.step = "invalidate" /\ WriterGoes("idle") /\ reply' = reply
        /\ UNCHANGED <<file, starting, accepted, queue, worker, told, rows>>
    BY <1>4 DEF EmitInvalidated, WriterKeeps, coreVars
  <2> QED BY <2>1, WriterGoesInv DEF Kept, Promised
<1> QED BY <1>1, <1>2, <1>3, <1>4 DEF WriterStep

LEMMA ClientKept == ASSUME OutcomeInv, Client PROVE Kept
<1>1. ASSUME NEW f \in File, Start(f) PROVE Kept
  <2>1. UNCHANGED <<accepted, rows, told>>
    BY <1>1 DEF Start, StartKeeps, workVars
  <2> QED BY <1>1, <2>1, StartInv DEF Kept, Promised
<1>2. ASSUME NEW f \in File, ClickTranscribe(f) \/ CliStart(f) PROVE Kept
  BY <1>1, <1>2 DEF ClickTranscribe, CliStart
<1>3. ASSUME NEW r, Cancel(r), UNCHANGED workVars PROVE Kept
  BY <1>3, Quiet DEF Cancel, workVars, core
<1>4. ASSUME NEW i \in DOMAIN jobs, ClickCancel(jobs[i]) PROVE Kept
  BY <1>3, <1>4 DEF ClickCancel
<1>5. CASE CtrlC
  BY <1>3, <1>5 DEF CtrlC, CliKeeps
<1>6. ASSUME UNCHANGED <<coreVars, workVars>> PROVE Kept
  BY <1>6, Quiet DEF coreVars, workVars, core
<1>7. CASE WebviewHears \/ CliHears \/ CliSourceMissing \/ CliLearnsRequest \/ CliExit
  BY <1>6, <1>7 DEF WebviewHears, CliHears, CliSourceMissing, CliLearnsRequest, CliExit, CliKeeps
<1>8. ASSUME NEW r \in timers, GraceEnds(r) PROVE Kept
  BY <1>6, <1>8 DEF GraceEnds
<1> QED BY <1>2, <1>4, <1>5, <1>7, <1>8 DEF Client

LEMMA StepKept == ASSUME OutcomeInv, [Next]_vars PROVE Kept
<1>1. ASSUME NEW r \in starting, TrySend(r) PROVE Kept
  BY <1>1, TrySendInv, TrySendPromised DEF Kept
<1>2. CASE ChildWrites
  BY <1>2, Quiet DEF ChildWrites, coreVars, core
<1>3. CASE UNCHANGED vars
  BY <1>3, Quiet DEF vars, coreVars, workVars, core
<1> QED BY <1>1, <1>2, <1>3, WorkerStepKept, WriterStepKept, ClientKept DEF Next

LEMMA OutcomeInductive == Spec => []OutcomeInv
<1>1. OutcomeInv /\ [Next]_vars => OutcomeInv'
  BY StepKept DEF Kept
<1> QED BY InitInv, <1>1, PTL DEF Spec

\* The queue, its worker and the writer thread keep the promise of OneOutcome,
\* for any number of requests, cancels, drops and failures: an accepted request
\* is told at most one terminal event, by one of the two, and a transcript is
\* stored for exactly those that complete.
THEOREM RequestsEndOnce == Spec => EachEndsOnce
<1>1. Init => Outcome!Init
  <2> SUFFICES ASSUME Init PROVE Outcome!Init
    OBVIOUS
  <2>1. accepted = {} /\ rows = {} /\ \A r \in Request : told[r] = <<>>
    BY DEF Init
  <2> QED BY <2>1 DEF Outcome!Init
<1>2. OutcomeInv /\ [Next]_vars =>
        [Outcome!Next]_<<accepted, rows, [r \in Request |-> Ended(r)]>>
  <2> SUFFICES ASSUME OutcomeInv, [Next]_vars
               PROVE  [Outcome!Next]_<<accepted, rows, [r \in Request |-> Ended(r)]>>
    OBVIOUS
  <2>1. Promised
    BY StepKept DEF Kept
  <2>2. UNCHANGED told => UNCHANGED [r \in Request |-> Ended(r)]
    BY DEF Ended
  <2> QED BY <2>1, <2>2 DEF Promised
<1>3. Outcome!Spec <=>
        Outcome!Init /\ [][Outcome!Next]_<<accepted, rows, [r \in Request |-> Ended(r)]>>
  BY DEF Outcome!Spec, Ended
<1> QED BY OutcomeInductive, <1>1, <1>2, <1>3, PTL DEF Spec, EachEndsOnce
-----------------------------------------------------------------------------
(***************************************************************************)
(* The map of cancel tokens.                                               *)
(***************************************************************************)
LEMMA TokensInit == Init => TokensMatchWork
<1> SUFFICES ASSUME Init PROVE TokensMatchWork
  OBVIOUS
<1>1. cancels = {} /\ starting = {} /\ queue = <<>> /\ worker.step = "recv"
  BY DEF Init
<1>2. Queued = {} /\ InHand = {}
  BY <1>1 DEF Queued, ToSet, InHand
<1> QED BY <1>1, <1>2 DEF TokensMatchWork

\* A worker that goes on keeps its request in hand, and its token until it has
\* told the outcome.
LEMMA TokensGo ==
    ASSUME OutcomeInv, TokensMatchWork, worker.step \notin {"recv", "remove"},
           worker'.step # "recv", worker'.req = worker.req,
           UNCHANGED <<starting, queue, cancels, fired>>
    PROVE  TokensMatchWork'
<1>1. UNCHANGED <<InHand, Queued>>
  BY DEF InHand, Queued
<1> QED BY <1>1 DEF TokensMatchWork, At

LEMMA TokensKept ==
    ASSUME TokensMatchWork, UNCHANGED <<starting, queue, worker, cancels, fired>>
    PROVE  TokensMatchWork'
BY DEF TokensMatchWork, At, InHand, Queued

LEMMA GoesOn ==
    ASSUME OutcomeInv, NEW step, Goes(step)
    PROVE  worker'.step = step /\ worker'.req = worker.req
<1>1. worker \in [step : Extracting \cup {"recv", "insert", "remove"}, req : Request \cup {0}]
  BY DEF OutcomeInv, TypeInv
<1> QED BY <1>1 DEF Goes

LEMMA WorkerTokens == ASSUME OutcomeInv, TokensMatchWork, WorkerStep PROVE TokensMatchWork'
<1>1. ASSUME NEW step \in {"remux", "upload", "check", "insert", "remove"}, Goes(step),
             worker.step \notin {"recv", "remove"}, UNCHANGED <<cancels, queue>>, WorkerKeeps
      PROVE  TokensMatchWork'
  <2>1. worker'.step = step /\ worker'.req = worker.req
    BY <1>1, GoesOn
  <2> QED BY <1>1, <2>1, TokensGo DEF WorkerKeeps
<1>2. ASSUME NEW o, WorkerTells(o), worker.step \notin {"recv", "remove"} PROVE TokensMatchWork'
  BY <1>1, <1>2 DEF WorkerTells
<1>3. CASE Recv
  <2>1. /\ worker.step = "recv" /\ queue # <<>> /\ queue' = Tail(queue)
        /\ worker' = [step |-> "resolve", req |-> Head(queue)]
        /\ UNCHANGED <<starting, cancels, fired>>
    BY <1>3 DEF Recv, At, WorkerKeeps
  <2>2. Head(queue) \in Queued /\ Queued' = Queued \ {Head(queue)}
    BY <2>1, ToSetLeaves DEF OutcomeInv, TypeInv, PlaceInv, Queued
  <2>3. InHand = {} /\ InHand' = {Head(queue)} /\ worker'.step = "resolve"
    BY <2>1 DEF InHand
  <2> QED BY <2>1, <2>2, <2>3 DEF TokensMatchWork, At
<1>4. CASE Resolve \/ PollCancelled \/ ChildExited \/ Upload
  BY <1>1, <1>2, <1>4 DEF Resolve, PollCancelled, ChildExited, Upload, At
<1>5. CASE PreWriteCheck \/ ReplyRead
  BY <1>1, <1>2, <1>5 DEF PreWriteCheck, ReplyRead, At
<1>6. CASE Forget
  <2>1. /\ worker.step = "remove" /\ worker' = [step |-> "recv", req |-> 0]
        /\ cancels' = cancels \ {worker.req}
        /\ UNCHANGED <<starting, queue, fired>>
    BY <1>6 DEF Forget, At, WorkerKeeps
  <2>2. InHand = {worker.req} /\ InHand' = {} /\ Queued' = Queued
    BY <2>1 DEF InHand, Queued
  <2>3. worker.req \notin starting /\ worker.req \notin Queued
    BY <2>2 DEF OutcomeInv, PlaceInv
  <2> QED BY <2>1, <2>2, <2>3 DEF TokensMatchWork, At
<1> QED BY <1>3, <1>4, <1>5, <1>6 DEF WorkerStep, WorkerProceeds

LEMMA TrySendTokens ==
    ASSUME OutcomeInv, TokensMatchWork, NEW r \in starting, TrySend(r)
    PROVE  TokensMatchWork'
<1>1. starting' = starting \ {r} /\ UNCHANGED <<worker, fired>>
  BY DEF TrySend, StartKeeps, workVars
<1>2. InHand' = InHand /\ r \in Request /\ r \notin Queued /\ r \notin InHand
  BY <1>1 DEF InHand, OutcomeInv, TypeInv, PlaceInv
<1>3. CASE queue' = Append(queue, r) /\ UNCHANGED cancels
  <2>1. Queued' = Queued \cup {r}
    BY <1>2, <1>3, ToSetEnters DEF Queued, OutcomeInv, TypeInv
  <2> QED BY <1>1, <1>2, <1>3, <2>1 DEF TokensMatchWork, At
<1>4. CASE cancels' = cancels \ {r} /\ UNCHANGED queue
  <2>1. Queued' = Queued
    BY <1>4 DEF Queued
  <2> QED BY <1>1, <1>2, <1>4, <2>1 DEF TokensMatchWork, At
<1> QED BY <1>3, <1>4 DEF TrySend

LEMMA ClientTokens == ASSUME OutcomeInv, TokensMatchWork, Client PROVE TokensMatchWork'
<1>1. ASSUME NEW f \in File, Start(f) PROVE TokensMatchWork'
  <2> DEFINE r == Len(file) + 1
  <2>1. /\ starting' = starting \cup {r} /\ cancels' = cancels \cup {r}
        /\ UNCHANGED <<queue, worker, fired>>
    BY <1>1 DEF Start, StartKeeps, workVars
  <2>2. UNCHANGED <<InHand, Queued>>
    BY <2>1 DEF InHand, Queued
  <2> HIDE DEF r
  <2> QED BY <2>1, <2>2 DEF TokensMatchWork, At
<1>2. ASSUME NEW f \in File, ClickTranscribe(f) \/ CliStart(f) PROVE TokensMatchWork'
  BY <1>1, <1>2 DEF ClickTranscribe, CliStart
<1>3. ASSUME NEW r, Cancel(r), UNCHANGED workVars PROVE TokensMatchWork'
  <2>1. /\ cancels' = cancels \ {r} /\ fired' = IF r \in cancels THEN fired \cup {r} ELSE fired
        /\ UNCHANGED <<starting, queue, worker>>
    BY <1>3 DEF Cancel, workVars
  <2>2. UNCHANGED <<InHand, Queued>>
    BY <2>1 DEF InHand, Queued
  <2> QED BY <2>1, <2>2 DEF TokensMatchWork, At
<1>4. ASSUME NEW i \in DOMAIN jobs, ClickCancel(jobs[i]) PROVE TokensMatchWork'
  BY <1>3, <1>4 DEF ClickCancel
<1>5. CASE CtrlC
  BY <1>3, <1>5 DEF CtrlC, CliKeeps
<1>6. ASSUME UNCHANGED <<coreVars, workVars>> PROVE TokensMatchWork'
  BY <1>6, TokensKept DEF coreVars, workVars
<1>7. CASE WebviewHears \/ CliHears \/ CliSourceMissing \/ CliLearnsRequest \/ CliExit
  BY <1>6, <1>7 DEF WebviewHears, CliHears, CliSourceMissing, CliLearnsRequest, CliExit, CliKeeps
<1>8. ASSUME NEW r \in timers, GraceEnds(r) PROVE TokensMatchWork'
  BY <1>6, <1>8 DEF GraceEnds
<1> QED BY <1>2, <1>4, <1>5, <1>7, <1>8 DEF Client

LEMMA TokensStep == OutcomeInv /\ TokensMatchWork /\ [Next]_vars => TokensMatchWork'
<1> SUFFICES ASSUME OutcomeInv, TokensMatchWork, [Next]_vars PROVE TokensMatchWork'
  OBVIOUS
<1>1. ASSUME UNCHANGED coreVars, UNCHANGED worker PROVE TokensMatchWork'
  BY <1>1, TokensKept DEF coreVars
<1>2. CASE WriterStep
  <2>1. WriterKeeps
    BY <1>2 DEF WriterStep, Insert, RollBack, Commit, EmitCompleted, EmitInvalidated
  <2> QED BY <1>1, <2>1 DEF WriterKeeps
<1>3. CASE ChildWrites
  BY <1>1, <1>3 DEF ChildWrites
<1>4. CASE UNCHANGED vars
  BY <1>1, <1>4 DEF vars, workVars
<1> QED BY <1>2, <1>3, <1>4, WorkerTokens, TrySendTokens, ClientTokens DEF Next

\* The cancel map holds the tokens of requests under way and no other, and one
\* under way that was not cancelled can be, however Start, Cancel, a full queue
\* and the worker's removal overlap.
THEOREM TokensStayMatched == Spec => []TokensMatchWork
BY OutcomeInductive, TokensInit, TokensStep, PTL DEF Spec
-----------------------------------------------------------------------------
(***************************************************************************)
(* What the command line makes of the outcome.                             *)
(***************************************************************************)
\* What completed has its row, and a row belongs to an accepted request.
StoredInv ==
    /\ rows \subseteq accepted
    /\ \A r \in Request : told[r] = <<"completed">> => r \in rows

Event == [kind : Terminal \cup {"started", "search"}, req : Request \cup {0}]

\* An event under way says what was told.
Truthful(event) ==
    event.kind \in Terminal => event.req \in Request /\ told[event.req] = <<event.kind>>

BusInv ==
    /\ bus \in Seq(Event)
    /\ \A event \in ToSet(bus) : Truthful(event)

ExitInv ==
    /\ cli.exit = 0 => rows = {1} /\ told[1] = <<"completed">>
    /\ cli.exit = EXIT_AUTH => 1 \in Request /\ told[1] \in {<<"Auth">>, <<"QuotaExceeded">>}
    /\ cli.exit # EXIT_QUEUE_FULL

CliState == [step : {"idle", "sent", "waiting", "cancelling", "done"}, knows : BOOLEAN,
             heard : Terminal \cup {"none"}, exit : Int]

\* The command line mints one request, and what it heard is what was told of it.
CliInv ==
    /\ shell \in {"desktop", "cli"}
    /\ cli \in CliState
    /\ shell = "desktop" => cli.step = "idle"
    /\ shell = "cli" => Len(file) <= 1 /\ (cli.step = "idle" => Len(file) = 0)
    /\ cli.heard # "none" => 1 \in Request /\ told[1] = <<cli.heard>>
    /\ cli.step = "done" => ExitInv

ClientInv == StoredInv /\ BusInv /\ CliInv

\* What was told stays told, and what was stored stays stored.
Grows ==
    /\ rows \subseteq rows'
    /\ \A r \in Request : told[r] # <<>> => told'[r] = told[r]

Heeded == StoredInv' /\ BusInv' /\ Grows

LEMMA EmitsTruth ==
    ASSUME BusInv, Grows, NEW kind \in Terminal \cup {"started", "search"}, NEW r \in Request \cup {0},
           Emit(kind, r), kind \in Terminal => r \in Request /\ told'[r] = <<kind>>
    PROVE  BusInv'
<1> DEFINE e == [kind |-> kind, req |-> r]
<1>1. e \in Event /\ e.kind = kind /\ e.req = r
  BY DEF Event
<1>2. \A event \in ToSet(bus) : Truthful(event)'
  <2> SUFFICES ASSUME NEW event \in ToSet(bus), event.kind \in Terminal
               PROVE  event.req \in Request /\ told'[event.req] = <<event.kind>>
    BY DEF Truthful
  <2>1. event.req \in Request /\ told[event.req] = <<event.kind>>
    BY DEF BusInv, Truthful
  <2>2. <<event.kind>> # <<>>
    OBVIOUS
  <2> QED BY <2>1, <2>2 DEF Grows
<1>3. Truthful(e)'
  BY <1>1 DEF Truthful
<1>4. CASE bus' = Append(bus, e)
  <2>1. bus' \in Seq(Event) /\ ToSet(bus') = ToSet(bus) \cup {e}
    BY <1>1, <1>4, ToSetEnters DEF BusInv
  <2>2. \A event \in ToSet(bus') : Truthful(event)'
    BY <1>2, <1>3, <2>1
  <2> QED BY <2>1, <2>2 DEF BusInv
<1>5. CASE bus' = bus
  BY <1>2, <1>5 DEF BusInv
<1> QED BY <1>4, <1>5 DEF Emit

LEMMA TellsTruth ==
    ASSUME OutcomeInv, StoredInv, BusInv, NEW r \in Request, told[r] = <<>>, NEW o \in Terminal,
           Tell(o, r), o = "completed" => r \in rows, UNCHANGED <<accepted, rows>>
    PROVE  Heeded
<1>1. told' = [told EXCEPT ![r] = Append(@, o)] /\ Emit(o, r)
  BY DEF Tell
<1>2. told'[r] = <<o>> /\ \A q \in Request : q # r => told'[q] = told[q]
  BY <1>1, ToldOnce
<1>3. Grows
  BY <1>2 DEF Grows
<1>4. BusInv'
  BY <1>1, <1>2, <1>3, EmitsTruth
<1>5. told'[r] = <<"completed">> => r \in rows'
  BY <1>2
<1>6. StoredInv'
  BY <1>2, <1>5 DEF StoredInv
<1> QED BY <1>3, <1>4, <1>6 DEF Heeded

\* Nothing told, and what may have been accepted or read from the bus.
LEMMA Silent ==
    ASSUME StoredInv, BusInv, UNCHANGED <<told, rows, bus>>, accepted \subseteq accepted'
    PROVE  Heeded
BY DEF StoredInv, BusInv, Truthful, Grows, Heeded

LEMMA Reads ==
    ASSUME StoredInv, BusInv, bus # <<>>, bus' = Tail(bus), UNCHANGED <<told, rows, accepted>>
    PROVE  Heeded /\ Truthful(Head(bus)) /\ Head(bus) \in Event
<1>1. /\ Tail(bus) \in Seq(Event) /\ Head(bus) = bus[1] /\ Head(bus) \in Event
      /\ 1 \in DOMAIN bus
      /\ \A i \in DOMAIN Tail(bus) : i + 1 \in DOMAIN bus /\ Tail(bus)[i] = bus[i + 1]
  BY DEF BusInv
<1>2. ToSet(Tail(bus)) \subseteq ToSet(bus) /\ Head(bus) \in ToSet(bus)
  BY <1>1 DEF ToSet
<1>3. BusInv'
  BY <1>1, <1>2 DEF BusInv, Truthful
<1>4. StoredInv' /\ Grows
  BY DEF StoredInv, Grows
<1> QED BY <1>1, <1>2, <1>3, <1>4 DEF Heeded, BusInv
LEMMA WorkerHeeded == ASSUME OutcomeInv, StoredInv, BusInv, WorkerStep PROVE Heeded
<1>1. ASSUME NEW o \in Terminal \ {"completed"}, WorkerTells(o), Unsettled PROVE Heeded
  <2>1. Tell(o, worker.req) /\ UNCHANGED <<accepted, rows>>
    BY <1>1 DEF WorkerTells, WorkerKeeps
  <2> QED BY <1>1, <2>1, UnsettledUntold, TellsTruth DEF Untold
<1>2. ASSUME WorkerKeeps, UNCHANGED <<told, rows, busVars>> PROVE Heeded
  BY <1>2, Silent DEF WorkerKeeps, busVars
<1>3. /\ {"cancelled", "BackendUnavailable", "AudioDecode", "Internal"} \subseteq Terminal \ {"completed"}
      /\ \A err : map_async_openai_error(err) \in Terminal \ {"completed"}
  BY ErrorsAreTerminal DEF Terminal, Failure
<1>4. worker.step \in {"resolve", "remux", "upload", "check"} => Unsettled
  BY DEF Unsettled, Extracting
<1>5. CASE Recv
  <2>1. /\ queue # <<>> /\ Emit("started", Head(queue)) /\ "started" \notin Terminal
        /\ UNCHANGED <<accepted, rows, told>>
    BY <1>5 DEF Recv, WorkerKeeps, Terminal, Failure
  <2>2. Head(queue) \in Request
    BY <2>1 DEF OutcomeInv, TypeInv
  <2>3. Grows /\ StoredInv'
    BY <2>1 DEF Grows, StoredInv
  <2> QED BY <2>1, <2>2, <2>3, EmitsTruth DEF Heeded
<1>6. CASE Resolve \/ PollCancelled \/ ChildExited
  BY <1>1, <1>2, <1>3, <1>4, <1>6 DEF Resolve, PollCancelled, ChildExited, At
<1>7. CASE Upload \/ PreWriteCheck
  BY <1>1, <1>2, <1>3, <1>4, <1>7 DEF Upload, PreWriteCheck, At
<1>8. CASE ReplyRead
  <2>1. worker.step = "insert" /\ reply # "none" /\ reply \in {"none", "ok", "cancelled", "Internal"}
    BY <1>8 DEF ReplyRead, At, OutcomeInv, TypeInv
  <2>2. reply # "ok" => Unsettled /\ reply \in Terminal \ {"completed"}
    BY <1>3, <2>1 DEF Unsettled
  <2> QED BY <1>1, <1>2, <1>8, <2>2 DEF ReplyRead
<1>9. CASE Forget
  BY <1>2, <1>9 DEF Forget
<1> QED BY <1>5, <1>6, <1>7, <1>8, <1>9 DEF WorkerStep, WorkerProceeds

LEMMA WriterHeeded == ASSUME OutcomeInv, StoredInv, BusInv, WriterStep PROVE Heeded
<1>1. WriterKeeps /\ accepted' = accepted
  BY DEF WriterStep, Insert, RollBack, Commit, EmitCompleted, EmitInvalidated, WriterKeeps, coreVars
<1>2. CASE Insert
  BY <1>1, <1>2, Silent DEF Insert, RollBack, busVars
<1>3. CASE Commit
  <2>1. /\ writer.step \in Writing /\ rows' = rows \cup {writer.req}
        /\ UNCHANGED <<told, bus>>
    BY <1>3 DEF Commit, Writing, busVars
  <2>2. writer.req \in accepted
    BY <2>1 DEF OutcomeInv, HandInv, PlaceInv, InHand
  <2> QED BY <1>1, <2>1, <2>2 DEF Heeded, StoredInv, BusInv, Truthful, Grows
<1>4. CASE EmitCompleted
  <2>1. /\ writer.step = "completed" /\ Tell("completed", writer.req) /\ rows' = rows
        /\ "completed" \in Terminal
    BY <1>4 DEF EmitCompleted, Terminal
  <2>2. writer.req \in Request /\ writer.req \in rows /\ told[writer.req] = <<>>
    BY <2>1 DEF OutcomeInv, HandInv, TypeInv
  <2> QED BY <1>1, <2>1, <2>2, TellsTruth
<1>5. CASE EmitInvalidated
  <2>1. Emit("search", 0) /\ "search" \notin Terminal /\ UNCHANGED <<rows, told>>
    BY <1>5 DEF EmitInvalidated, Terminal, Failure
  <2>2. Grows /\ StoredInv'
    BY <1>1, <2>1 DEF Grows, StoredInv
  <2> QED BY <2>1, <2>2, EmitsTruth DEF Heeded
<1> QED BY <1>2, <1>3, <1>4, <1>5 DEF WriterStep

\* Whatever the others do leaves the command line as it was.
LEMMA CliKept ==
    ASSUME OutcomeInv', Heeded, CliInv, UNCHANGED <<shell, cli>>,
           file' = file \/ shell = "desktop"
    PROVE  CliInv'
<1>1. ASSUME cli.heard # "none" PROVE 1 \in Request /\ told'[1] = <<cli.heard>>
  <2>1. 1 \in Request /\ told[1] = <<cli.heard>> /\ told[1] # <<>>
    BY <1>1 DEF CliInv
  <2> QED BY <2>1 DEF Heeded, Grows
<1>2. ASSUME cli.step = "done" PROVE ExitInv'
  <2>1. ExitInv /\ shell = "cli" /\ Len(file') <= 1
    BY <1>2 DEF CliInv
  <2>2. rows' \subseteq {1}
    <3>1. rows' \subseteq 1..Len(file') /\ Len(file') \in Nat
      BY DEF Heeded, StoredInv, OutcomeInv, TypeInv
    <3> QED BY <2>1, <3>1
  <2>3. ASSUME cli.exit = 0 PROVE rows' = {1} /\ told'[1] = <<"completed">>
    <3>1. rows = {1} /\ told[1] = <<"completed">>
      BY <2>1, <2>3 DEF ExitInv
    <3>2. 1 \in rows' /\ 1 \in Request /\ told[1] # <<>>
      BY <3>1 DEF Heeded, Grows, StoredInv, OutcomeInv, TypeInv
    <3> QED BY <2>2, <3>1, <3>2 DEF Heeded, Grows
  <2>4. ASSUME cli.exit = EXIT_AUTH
        PROVE  1 \in Request /\ told'[1] \in {<<"Auth">>, <<"QuotaExceeded">>}
    <3>1. 1 \in Request /\ told[1] \in {<<"Auth">>, <<"QuotaExceeded">>}
      BY <2>1, <2>4 DEF ExitInv
    <3>2. told[1] # <<>>
      BY <3>1
    <3> QED BY <3>1, <3>2 DEF Heeded, Grows
  <2> QED BY <2>1, <2>3, <2>4 DEF ExitInv
<1> QED BY <1>1, <1>2 DEF CliInv
LEMMA ExitCodes ==
    \A outcome \in Terminal \ {"completed"} :
        /\ exit_code_for(outcome) \in Int
        /\ exit_code_for(outcome) # 0 /\ exit_code_for(outcome) # EXIT_QUEUE_FULL
        /\ exit_code_for(outcome) = EXIT_AUTH => outcome \in {"Auth", "QuotaExceeded"}
BY DEF exit_code_for, Terminal, Failure, EXIT_AUTH, EXIT_QUEUE_FULL, EXIT_CANCELLED

\* The step of the command line that keeps what was told, and goes to a step
\* other than the last.
LEMMA CliMoves ==
    ASSUME CliInv, shell = "cli", shell' = shell, UNCHANGED told,
           NEW step \in {"sent", "waiting", "cancelling"},
           cli' \in [step : {step}, knows : BOOLEAN, heard : {cli.heard}, exit : {cli.exit}],
           Len(file') <= 1
    PROVE  CliInv'
<1>1. cli'.step = step /\ cli'.heard = cli.heard /\ cli'.exit = cli.exit /\ cli'.knows \in BOOLEAN
  OBVIOUS
<1>2. cli' \in CliState
  BY DEF CliInv, CliState
<1> QED BY <1>1, <1>2 DEF CliInv

LEMMA CliHearsInv == ASSUME OutcomeInv, ClientInv, CliHears PROVE CliInv'
<1>1. /\ shell = "cli" /\ bus # <<>> /\ bus' = Tail(bus) /\ UNCHANGED <<shell, file, told, rows, accepted>>
      /\ cli' = IF cli.knows /\ Head(bus).kind \in Terminal
                THEN [cli EXCEPT !.heard = Head(bus).kind] ELSE cli
  BY DEF CliHears, CliKeeps, coreVars, workVars
<1>2. Heeded /\ Truthful(Head(bus))
  BY <1>1, Reads DEF ClientInv
<1>3. CASE cli.knows /\ Head(bus).kind \in Terminal
  <2> DEFINE h == Head(bus).kind
             r == Head(bus).req
  <2>1. r \in Request /\ told[r] = <<h>> /\ h \in Terminal
    BY <1>2, <1>3 DEF Truthful
  <2>2. told[r] # <<>>
    BY <2>1
  <2>3. r \in accepted
    BY <2>1, <2>2 DEF OutcomeInv, HandInv, Untold
  <2>4. r = 1
    <3>1. r \in 1..Len(file) /\ Len(file) \in Nat /\ Len(file) <= 1
      BY <1>1, <2>3 DEF OutcomeInv, TypeInv, ClientInv, CliInv
    <3> QED BY <3>1
  <2>5. /\ cli' = [cli EXCEPT !.heard = h]
        /\ cli \in CliState
    BY <1>1, <1>3 DEF ClientInv, CliInv
  <2> HIDE DEF h, r
  <2>6. /\ cli'.step = cli.step /\ cli'.exit = cli.exit /\ cli'.heard = h
        /\ cli' \in CliState
    BY <2>1, <2>5 DEF CliState
  <2> QED BY <1>1, <2>1, <2>4, <2>6 DEF ClientInv, CliInv, ExitInv
<1>4. CASE cli' = cli
  BY <1>1, <1>4 DEF ClientInv, CliInv, ExitInv
<1> QED BY <1>1, <1>3, <1>4

LEMMA Exits ==
    ASSUME cli \in CliState, NEW code \in Int, cli' = Exited(code)
    PROVE  cli' \in CliState /\ cli'.step = "done" /\ cli'.exit = code /\ cli'.heard = cli.heard
BY DEF CliState, Exited

LEMMA CliExitInv == ASSUME OutcomeInv, ClientInv, CliExit PROVE CliInv'
<1>1. /\ cli.step \in {"waiting", "cancelling"} /\ UNCHANGED <<shell, file, told, rows>>
  BY DEF CliExit, ExitHeard, ExitUnacknowledged, CliKeeps, coreVars, workVars
<1>2. /\ shell = "cli" /\ cli.heard \in Terminal \cup {"none"}
      /\ cli \in CliState
  BY <1>1 DEF ClientInv, CliInv, CliState
<1>3. ASSUME NEW code \in Int, cli' = Exited(code),
             /\ code = 0 => rows = {1} /\ told[1] = <<"completed">>
             /\ code = EXIT_AUTH => 1 \in Request /\ told[1] \in {<<"Auth">>, <<"QuotaExceeded">>}
             /\ code # EXIT_QUEUE_FULL
      PROVE  CliInv'
  <2>1. /\ cli'.step = "done" /\ cli'.exit = code /\ cli'.heard = cli.heard
        /\ cli' \in CliState
    BY <1>2, <1>3, Exits
  <2>2. ExitInv'
    BY <1>1, <1>3, <2>1 DEF ExitInv, EXIT_AUTH, EXIT_QUEUE_FULL
  <2> QED BY <1>1, <1>2, <2>1, <2>2 DEF ClientInv, CliInv
<1>4. cli.heard # "none" => 1 \in Request /\ told[1] = <<cli.heard>>
  BY DEF ClientInv, CliInv
<1>5. ASSUME cli.heard = "completed" PROVE rows = {1} /\ told[1] = <<"completed">>
  <2>1. 1 \in rows /\ told[1] = <<"completed">>
    BY <1>4, <1>5 DEF ClientInv, StoredInv
  <2>2. rows \subseteq 1..Len(file) /\ Len(file) \in Nat /\ Len(file) <= 1
    BY <1>2 DEF ClientInv, StoredInv, CliInv, OutcomeInv, TypeInv
  <2>3. \A r \in rows : r = 1
    BY <2>2
  <2> QED BY <2>1, <2>3
<1>6. CASE cli.heard = "completed" /\ cli' = Exited(0)
  BY <1>3, <1>5, <1>6 DEF EXIT_AUTH, EXIT_QUEUE_FULL
<1>7. CASE cli' = Exited(1)
  BY <1>3, <1>7 DEF EXIT_AUTH, EXIT_QUEUE_FULL
<1>8. CASE cli' = Exited(EXIT_CANCELLED)
  BY <1>3, <1>8 DEF EXIT_AUTH, EXIT_QUEUE_FULL, EXIT_CANCELLED
<1>9. CASE cli.heard # "none" /\ cli.heard # "completed" /\ cli' = Exited(exit_code_for(cli.heard))
  <2>1. cli.heard \in Terminal \ {"completed"}
    BY <1>2, <1>9
  <2> QED BY <1>3, <1>4, <1>9, <2>1, ExitCodes
<1> QED BY <1>6, <1>7, <1>8, <1>9 DEF CliExit, ExitHeard, ExitUnacknowledged

\* The one request of the command line finds the queue empty.
LEMMA TrySendClient ==
    ASSUME OutcomeInv, ClientInv, NEW r \in starting, TrySend(r)
    PROVE  ClientInv'
<1>1. UNCHANGED <<shell, file, told, rows, bus>> /\ accepted \subseteq accepted'
  BY DEF TrySend, StartKeeps, workVars, busVars
<1>2. Heeded
  BY <1>1, Silent DEF ClientInv
<1>3. cli' = cli
  <2> SUFFICES ASSUME shell = "cli", Len(queue) = QUEUE_DEPTH PROVE FALSE
    BY DEF TrySend
  <2>1. /\ r \in 1..Len(file) /\ Len(file) \in Nat /\ Len(file) <= 1 /\ r \notin accepted
        /\ accepted \subseteq 1..Len(file)
    BY DEF OutcomeInv, TypeInv, PlaceInv, ClientInv, CliInv
  <2>2. accepted = {}
    BY <2>1
  <2>3. 1 \in DOMAIN queue
    BY TranscriptionAssumption DEF OutcomeInv, TypeInv
  <2> QED BY <2>2, <2>3 DEF OutcomeInv, PlaceInv, Queued, ToSet
<1>4. CliInv'
  BY <1>1, <1>2, <1>3, TrySendInv, CliKept DEF ClientInv
<1> QED BY <1>2, <1>4 DEF ClientInv, Heeded
LEMMA ClientClient == ASSUME OutcomeInv, ClientInv, OutcomeInv', Client PROVE ClientInv'
<1>1. ASSUME UNCHANGED <<told, rows, accepted, bus>>, CliInv' PROVE ClientInv'
  BY <1>1, Silent DEF ClientInv, Heeded
<1>2. ASSUME UNCHANGED <<told, rows, accepted, bus, shell, cli>>, file' = file \/ shell = "desktop"
      PROVE  ClientInv'
  <2>1. Heeded
    BY <1>2, Silent DEF ClientInv
  <2> QED BY <1>2, <2>1, CliKept DEF ClientInv, Heeded
<1>3. cli \in CliState
  BY DEF ClientInv, CliInv
<1>4. cli.step # "idle" => shell = "cli"
  BY DEF ClientInv, CliInv
<1>5. ASSUME NEW f \in File, ClickTranscribe(f) PROVE ClientInv'
  BY <1>2, <1>5 DEF ClickTranscribe, Start, StartKeeps, workVars, busVars
<1>6. ASSUME NEW f \in File, CliStart(f) PROVE ClientInv'
  <2>1. /\ shell = "cli" /\ cli.step = "idle" /\ cli' = [cli EXCEPT !.step = "sent"]
        /\ file' = Append(file, f) /\ UNCHANGED <<shell, told, rows, accepted, bus>>
    BY <1>6 DEF CliStart, CliGoes, Start, StartKeeps, workVars, busVars
  <2>2. Len(file) = 0 /\ file \in Seq(File)
    BY <2>1 DEF ClientInv, CliInv, OutcomeInv, TypeInv
  <2>3. Len(file') <= 1
    BY <2>1, <2>2
  <2>4. cli' \in [step : {"sent"}, knows : BOOLEAN, heard : {cli.heard}, exit : {cli.exit}]
    BY <1>3, <2>1 DEF CliState
  <2>5. CliInv'
    BY <2>1, <2>3, <2>4, CliMoves DEF ClientInv
  <2> QED BY <1>1, <2>1, <2>5
<1>7. ASSUME NEW i \in DOMAIN jobs, ClickCancel(jobs[i]) PROVE ClientInv'
  BY <1>2, <1>7 DEF ClickCancel, Cancel, workVars, busVars, uiVars
<1>8. CASE WebviewHears
  <2>1. /\ bus # <<>> /\ bus' = Tail(bus) /\ UNCHANGED <<shell, file, told, rows, accepted, cli>>
    BY <1>8 DEF WebviewHears, coreVars, workVars
  <2>2. Heeded
    BY <2>1, Reads DEF ClientInv
  <2> QED BY <2>1, <2>2, CliKept DEF ClientInv, Heeded
<1>9. CASE CliHears
  <2>1. bus # <<>> /\ bus' = Tail(bus) /\ UNCHANGED <<told, rows, accepted>>
    BY <1>9 DEF CliHears, CliKeeps, coreVars, workVars
  <2>2. Heeded
    BY <2>1, Reads DEF ClientInv
  <2> QED BY <1>9, <2>2, CliHearsInv DEF ClientInv, Heeded
<1>10. CASE CliSourceMissing
  <2>1. /\ shell = "cli" /\ cli.step = "idle" /\ cli' = Exited(1)
        /\ UNCHANGED <<shell, file, told, rows, accepted, bus>>
    BY <1>10 DEF CliSourceMissing, CliKeeps, coreVars, workVars, busVars
  <2>2. /\ cli'.step = "done" /\ cli'.exit = 1 /\ cli'.heard = cli.heard
        /\ cli' \in CliState
    BY <1>3, <2>1, Exits
  <2>3. ExitInv'
    BY <2>2 DEF ExitInv, EXIT_AUTH, EXIT_QUEUE_FULL
  <2>4. CliInv'
    BY <2>1, <2>2, <2>3 DEF ClientInv, CliInv
  <2> QED BY <1>1, <2>1, <2>4
<1>11. CASE CliLearnsRequest
  <2>1. /\ shell = "cli" /\ cli' = [cli EXCEPT !.step = "waiting", !.knows = TRUE]
        /\ UNCHANGED <<shell, file, told, rows, accepted, bus>>
    BY <1>4, <1>11 DEF CliLearnsRequest, CliKeeps, coreVars, workVars, busVars
  <2>2. cli' \in [step : {"waiting"}, knows : BOOLEAN, heard : {cli.heard}, exit : {cli.exit}]
    BY <1>3, <2>1 DEF CliState
  <2>3. CliInv'
    BY <2>1, <2>2, CliMoves DEF ClientInv, CliInv
  <2> QED BY <1>1, <2>1, <2>3
<1>12. CASE CtrlC
  <2>1. /\ shell = "cli" /\ cli' = [cli EXCEPT !.step = "cancelling"]
        /\ UNCHANGED <<shell, file, told, rows, accepted, bus>>
    BY <1>4, <1>12 DEF CtrlC, CliGoes, Cancel, CliKeeps, workVars, busVars
  <2>2. cli' \in [step : {"cancelling"}, knows : BOOLEAN, heard : {cli.heard}, exit : {cli.exit}]
    BY <1>3, <2>1 DEF CliState
  <2>3. CliInv'
    BY <2>1, <2>2, CliMoves DEF ClientInv, CliInv
  <2> QED BY <1>1, <2>1, <2>3
<1>13. CASE CliExit
  <2>1. UNCHANGED <<told, rows, accepted, bus>>
    BY <1>13 DEF CliExit, CliKeeps, coreVars, workVars, busVars
  <2> QED BY <1>1, <1>13, <2>1, CliExitInv
<1>14. ASSUME NEW r \in timers, GraceEnds(r) PROVE ClientInv'
  BY <1>2, <1>14 DEF GraceEnds, coreVars, workVars, busVars
<1> QED BY <1>5, <1>6, <1>7, <1>8, <1>9, <1>10, <1>11, <1>12, <1>13, <1>14 DEF Client

LEMMA ClientInit == Init => ClientInv
<1> SUFFICES ASSUME Init PROVE ClientInv
  OBVIOUS
<1>1. /\ shell \in {"desktop", "cli"} /\ file = <<>> /\ rows = {} /\ bus = <<>>
      /\ \A r \in Request : told[r] = <<>>
      /\ cli = [step |-> "idle", knows |-> FALSE, heard |-> "none", exit |-> -1]
  BY DEF Init
<1>2. StoredInv
  <2>1. <<>> # <<"completed">>
    OBVIOUS
  <2> QED BY <1>1, <2>1 DEF StoredInv
<1>3. BusInv
  BY <1>1 DEF BusInv, ToSet
<1>4. CliInv
  BY <1>1 DEF CliInv, CliState
<1> QED BY <1>2, <1>3, <1>4 DEF ClientInv

LEMMA ClientStep == OutcomeInv /\ ClientInv /\ [Next]_vars => ClientInv'
<1> SUFFICES ASSUME OutcomeInv, ClientInv, [Next]_vars PROVE ClientInv'
  OBVIOUS
<1>1. OutcomeInv'
  BY StepKept DEF Kept
<1>2. ASSUME Heeded, UNCHANGED <<shell, file, cli>> PROVE ClientInv'
  BY <1>1, <1>2, CliKept DEF ClientInv, Heeded
<1>3. CASE WorkerStep
  <2>1. UNCHANGED <<shell, file, cli>>
    BY <1>3 DEF WorkerStep, WorkerProceeds, Recv, Resolve, PollCancelled, ChildExited, Upload, PreWriteCheck,
                ReplyRead, Forget, WorkerTells, WorkerKeeps, uiVars
  <2> QED BY <1>2, <1>3, <2>1, WorkerHeeded DEF ClientInv
<1>4. CASE WriterStep
  <2>1. UNCHANGED <<shell, file, cli>>
    BY <1>4 DEF WriterStep, Insert, RollBack, Commit, EmitCompleted, EmitInvalidated,
                WriterKeeps, coreVars, uiVars
  <2> QED BY <1>2, <1>4, <2>1, WriterHeeded DEF ClientInv
<1>5. CASE ChildWrites \/ UNCHANGED vars
  <2>1. UNCHANGED <<shell, file, cli, told, rows, accepted, bus>>
    BY <1>5 DEF ChildWrites, vars, coreVars, workVars, busVars, uiVars
  <2> QED BY <1>2, <2>1, Silent DEF ClientInv
<1> QED BY <1>1, <1>3, <1>4, <1>5, TrySendClient, ClientClient DEF Next

\* Exit code 0 means that the transcript is stored, EXIT_AUTH that the provider
\* refused the key or the bill: whatever Ctrl-C, the full ring and the failures
\* of the worker do to what the command line hears.
THEOREM ExitsAsTold == Spec => []ExitTellsOutcome
<1>1. ClientInv => ExitTellsOutcome
  BY DEF ClientInv, CliInv, ExitInv, ExitTellsOutcome
<1> QED BY OutcomeInductive, ClientInit, ClientStep, <1>1, PTL DEF Spec
-----------------------------------------------------------------------------
(***************************************************************************)
(* What the webview shows of the outcome.                                  *)
(***************************************************************************)
Job == [req : Request, status : Terminal \cup {"running"}]

Starts(i) == bus[i].kind = "started"

\* A terminal event of r is in the ring from its i-th event on.
Ends(i, r) == \E k \in i..Len(bus) : bus[k].kind \in Terminal /\ bus[k].req = r

SliceType ==
    /\ drops \in Nat
    /\ jobs \in Seq(Job)
    /\ shell = "cli" => jobs = <<>>

\* A request is started once, and its job follows the event.
KeyInv ==
    /\ \A i, k \in DOMAIN jobs : jobs[i].req = jobs[k].req => i = k
    /\ \A i, k \in DOMAIN bus : Starts(i) /\ Starts(k) /\ bus[i].req = bus[k].req => i = k
    /\ \A i \in DOMAIN jobs, k \in DOMAIN bus : Starts(k) => bus[k].req # jobs[i].req
    /\ \A i \in DOMAIN jobs : jobs[i].req \in accepted \ Queued
    /\ \A k \in DOMAIN bus : Starts(k) => bus[k].req \in accepted \ Queued

\* What was told of a request that is started, or shown, is shown or yet to
\* be heard, and after its start.
HearInv ==
    drops = 0 =>
        /\ \A i \in DOMAIN bus : Starts(i) /\ told[bus[i].req] # <<>> => Ends(i, bus[i].req)
        /\ \A i \in DOMAIN jobs :
              LET r == jobs[i].req
              IN  told[r] # <<>> => jobs[i].status = told[r][1] \/ Ends(1, r)

SliceInv == SliceType /\ KeyInv /\ HearInv

LEMMA JobsAre ==
    ASSUME jobs \in Seq(Job), NEW i \in DOMAIN jobs
    PROVE  /\ jobs[i].req \in Request /\ jobs[i].status \in Terminal \cup {"running"}
           /\ jobs[i] = [req |-> jobs[i].req, status |-> jobs[i].status]
<1>1. jobs[i] \in Job
  OBVIOUS
<1> QED BY <1>1 DEF Job

LEMMA RemovedAt ==
    ASSUME NEW S, NEW s \in Seq(S), NEW i \in 1..Len(s)
    PROVE  /\ RemoveAt(s, i) \in Seq(S) /\ Len(RemoveAt(s, i)) = Len(s) - 1
           /\ \A k \in 1..(Len(s) - 1) :
                 RemoveAt(s, i)[k] = IF k < i THEN s[k] ELSE s[k + 1]
<1> DEFINE a == SubSeq(s, 1, i - 1)
           b == SubSeq(s, i + 1, Len(s))
<1>1. Len(s) \in Nat /\ i \in Nat /\ i >= 1 /\ i <= Len(s)
  OBVIOUS
<1>2. /\ a \in Seq(S) /\ Len(a) = i - 1 /\ \A k \in 1..(i - 1) : a[k] = s[k]
  BY <1>1
<1>3. /\ b \in Seq(S) /\ Len(b) = Len(s) - i /\ \A k \in 1..(Len(s) - i) : b[k] = s[k + i]
  BY <1>1
<1>4. RemoveAt(s, i) = a \o b
  BY DEF RemoveAt
<1> HIDE DEF a, b
<1>5. a \o b \in Seq(S) /\ Len(a \o b) = Len(s) - 1
  <2>0. a \in Seq(S) /\ b \in Seq(S)
    BY <1>2, <1>3
  <2>1. a \o b \in Seq(S) /\ Len(a \o b) = Len(a) + Len(b)
    BY <2>0
  <2>2. (i - 1) + (Len(s) - i) = Len(s) - 1
    BY <1>1
  <2>3. Len(a) = i - 1 /\ Len(b) = Len(s) - i
    BY <1>2, <1>3
  <2>4. Len(a \o b) = Len(s) - 1
    BY <2>1, <2>2, <2>3
  <2> QED BY <2>1, <2>4
<1>6. ASSUME NEW k \in 1..(Len(s) - 1) PROVE (a \o b)[k] = IF k < i THEN s[k] ELSE s[k + 1]
  <2>1. CASE k < i
    <3>1. (a \o b)[k] = a[k]
      BY <1>1, <1>2, <1>3, <2>1
    <3>2. k \in 1..(i - 1)
      BY <1>1, <2>1
    <3> QED BY <1>2, <2>1, <3>1, <3>2
  <2>2. CASE ~(k < i)
    <3>1. (a \o b)[k] = b[k - (i - 1)] /\ k - (i - 1) \in 1..(Len(s) - i)
      BY <1>1, <1>2, <1>3, <2>2
    <3>2. b[k - (i - 1)] = s[(k - (i - 1)) + i] /\ (k - (i - 1)) + i = k + 1
      BY <1>1, <1>3, <3>1
    <3> QED BY <2>2, <3>1, <3>2
  <2> QED BY <2>1, <2>2
<1> QED BY <1>4, <1>5, <1>6

\* removeJob takes at most one job out, and leaves the order of the others.
LEMMA JobRemoved ==
    ASSUME jobs \in Seq(Job), NEW r
    PROVE  /\ RemoveJob(r) \in Seq(Job)
           /\ \E skip \in [DOMAIN RemoveJob(r) -> DOMAIN jobs] :
                 /\ \A i \in DOMAIN RemoveJob(r) : RemoveJob(r)[i] = jobs[skip[i]]
                 /\ \A i, k \in DOMAIN RemoveJob(r) : skip[i] = skip[k] => i = k
<1> DEFINE found == {i \in DOMAIN jobs : jobs[i].req = r}
<1>1. CASE found = {}
  <2>1. RemoveJob(r) = jobs
    BY <1>1 DEF RemoveJob
  <2> DEFINE same == [i \in DOMAIN jobs |-> i]
  <2>2. same \in [DOMAIN jobs -> DOMAIN jobs] /\ \A i \in DOMAIN jobs : same[i] = i
    OBVIOUS
  <2> HIDE DEF same
  <2> QED BY <2>1, <2>2
<1>2. CASE found # {}
  <2> DEFINE n == CHOOSE i \in found : TRUE
  <2>1. n \in found /\ RemoveJob(r) = RemoveAt(jobs, n)
    BY <1>2 DEF RemoveJob
  <2>2. n \in 1..Len(jobs) /\ Len(jobs) \in Nat /\ DOMAIN jobs = 1..Len(jobs)
    BY <2>1
  <2> HIDE DEF n, found
  <2>3. /\ RemoveJob(r) \in Seq(Job) /\ Len(RemoveJob(r)) = Len(jobs) - 1
        /\ \A k \in 1..(Len(jobs) - 1) :
              RemoveJob(r)[k] = IF k < n THEN jobs[k] ELSE jobs[k + 1]
    BY <2>1, <2>2, RemovedAt
  <2>4. DOMAIN RemoveJob(r) = 1..(Len(jobs) - 1)
    BY <2>3
  <2> DEFINE skip == [k \in 1..(Len(jobs) - 1) |-> IF k < n THEN k ELSE k + 1]
  <2>5. /\ skip \in [1..(Len(jobs) - 1) -> 1..Len(jobs)]
        /\ \A k \in 1..(Len(jobs) - 1) : skip[k] = IF k < n THEN k ELSE k + 1
    BY <2>2
  <2> HIDE DEF skip
  <2>6. \A k \in 1..(Len(jobs) - 1) : RemoveJob(r)[k] = jobs[skip[k]]
    BY <2>3, <2>5
  <2>7. \A i, k \in 1..(Len(jobs) - 1) : skip[i] = skip[k] => i = k
    BY <2>2, <2>5
  <2> QED BY <2>2, <2>3, <2>4, <2>5, <2>6, <2>7
<1> QED BY <1>1, <1>2

LEMMA NoEnd == "started" \notin Terminal /\ "search" \notin Terminal
BY DEF Terminal, Failure

\* An event enters the ring behind the others.
LEMMA Enters ==
    ASSUME bus \in Seq(Event), NEW e \in Event, bus' = Append(bus, e)
    PROVE  /\ DOMAIN bus' = DOMAIN bus \cup {Len(bus) + 1} /\ Len(bus) + 1 \notin DOMAIN bus
           /\ bus'[Len(bus) + 1] = e
           /\ \A i \in DOMAIN bus : bus'[i] = bus[i]
           /\ \A i \in DOMAIN bus, r \in Request : Ends(i, r) => Ends(i, r)'
           /\ \A r \in Request : Ends(1, r) => Ends(1, r)'
           /\ e.kind \in Terminal => \A i \in DOMAIN bus \cup {1} : Ends(i, e.req)'
<1>1. /\ Len(bus) \in Nat /\ DOMAIN bus = 1..Len(bus) /\ Len(bus') = Len(bus) + 1
      /\ DOMAIN bus' = 1..(Len(bus) + 1) /\ bus'[Len(bus) + 1] = e
      /\ \A i \in DOMAIN bus : bus'[i] = bus[i]
  OBVIOUS
<1>2. ASSUME NEW i \in Nat, i >= 1, NEW r \in Request, Ends(i, r) PROVE Ends(i, r)'
  <2>1. PICK k \in i..Len(bus) : bus[k].kind \in Terminal /\ bus[k].req = r
    BY <1>2 DEF Ends
  <2>2. k \in DOMAIN bus /\ k \in i..Len(bus')
    BY <1>1, <1>2
  <2> QED BY <1>1, <2>1, <2>2 DEF Ends
<1>3. ASSUME e.kind \in Terminal, NEW i \in DOMAIN bus \cup {1} PROVE Ends(i, e.req)'
  <2>1. Len(bus) + 1 \in i..Len(bus')
    BY <1>1
  <2> QED BY <1>1, <1>3, <2>1 DEF Ends
<1> QED BY <1>1, <1>2, <1>3

\* The head leaves it, the others move up.
LEMMA Leaves ==
    ASSUME bus \in Seq(Event), bus # <<>>, bus' = Tail(bus)
    PROVE  /\ 1 \in DOMAIN bus /\ Head(bus) = bus[1] /\ bus[1] \in Event
           /\ \A i \in DOMAIN bus' :
                 i \in Nat /\ i + 1 \in DOMAIN bus /\ i + 1 # 1 /\ bus'[i] = bus[i + 1]
           /\ \A i \in DOMAIN bus', r \in Request : Ends(i + 1, r) => Ends(i, r)'
           /\ \A r \in Request : Ends(1, r) =>
                 Ends(1, r)' \/ (bus[1].kind \in Terminal /\ bus[1].req = r)
<1>1. /\ Len(bus) \in Nat /\ Len(bus) > 0 /\ DOMAIN bus = 1..Len(bus) /\ Len(bus') = Len(bus) - 1
      /\ DOMAIN bus' = 1..(Len(bus) - 1) /\ Head(bus) = bus[1] /\ bus[1] \in Event
      /\ \A i \in DOMAIN bus' : bus'[i] = bus[i + 1]
  OBVIOUS
<1>2. ASSUME NEW i \in DOMAIN bus'
      PROVE  i \in Nat /\ i + 1 \in DOMAIN bus /\ i + 1 # 1
  BY <1>1
<1>3. ASSUME NEW i \in Nat, NEW r \in Request, i >= 1, Ends(i + 1, r) PROVE Ends(i, r)'
  <2>1. PICK k \in (i + 1)..Len(bus) : bus[k].kind \in Terminal /\ bus[k].req = r
    BY <1>3 DEF Ends
  <2>2. k - 1 \in i..Len(bus') /\ k - 1 \in DOMAIN bus' /\ (k - 1) + 1 = k
    BY <1>1, <1>3
  <2>3. bus'[k - 1] = bus[k]
    BY <1>1, <2>2
  <2> QED BY <2>1, <2>2, <2>3 DEF Ends
<1>4. ASSUME NEW r \in Request, Ends(1, r), ~(bus[1].kind \in Terminal /\ bus[1].req = r)
      PROVE  Ends(1, r)'
  <2>1. PICK k \in 1..Len(bus) : bus[k].kind \in Terminal /\ bus[k].req = r
    BY <1>4 DEF Ends
  <2>2. k # 1
    BY <1>4, <2>1
  <2>3. k \in 2..Len(bus)
    BY <1>1, <2>2
  <2>4. Ends(1 + 1, r)
    BY <2>1, <2>3 DEF Ends
  <2> QED BY <1>3, <2>4
<1>5. \A i \in DOMAIN bus', r \in Request : Ends(i + 1, r) => Ends(i, r)'
  BY <1>1, <1>2, <1>3
<1> QED BY <1>1, <1>2, <1>4, <1>5

\* What the worker and the writer do to the client, the start of a request
\* aside.
Speaks ==
    /\ UNCHANGED <<shell, jobs, accepted, queue>>
    /\ \/ UNCHANGED <<told, bus, drops>>
       \/ \E r \in Request, o \in Terminal : told[r] = <<>> /\ Tell(o, r)
       \/ Emit("search", 0) /\ told' = told

LEMMA EmitKeys ==
    ASSUME KeyInv, bus \in Seq(Event), NEW kind \in Terminal \cup {"search"},
           NEW r \in Request \cup {0}, Emit(kind, r), UNCHANGED <<jobs, accepted, queue>>
    PROVE  KeyInv'
<1> DEFINE e == [kind |-> kind, req |-> r]
<1>1. e \in Event /\ e.kind = kind /\ kind # "started"
  BY NoEnd DEF Event
<1>2. Queued' = Queued
  BY DEF Queued
<1> HIDE DEF e
<1>3. CASE bus' = Append(bus, e)
  <2>1. /\ DOMAIN bus' = DOMAIN bus \cup {Len(bus) + 1} /\ bus'[Len(bus) + 1] = e
        /\ \A i \in DOMAIN bus : bus'[i] = bus[i]
    BY <1>1, <1>3, Enters
  <2>2. \A i \in DOMAIN bus' : Starts(i)' => i \in DOMAIN bus /\ Starts(i)
    BY <1>1, <2>1 DEF Starts
  <2> QED BY <1>2, <2>1, <2>2 DEF KeyInv
<1>4. CASE bus' = bus
  BY <1>2, <1>4 DEF KeyInv, Starts
<1> QED BY <1>3, <1>4 DEF Emit, e

LEMMA EmitDrops ==
    ASSUME drops \in Nat, NEW kind, NEW r, Emit(kind, r)
    PROVE  /\ drops' \in Nat
           /\ drops' = 0 => drops = 0 /\ bus' = Append(bus, [kind |-> kind, req |-> r])
BY DEF Emit

LEMMA TellHears ==
    ASSUME OutcomeInv, BusInv, SliceInv, NEW r \in Request, NEW o \in Terminal,
           told[r] = <<>>, Tell(o, r), UNCHANGED jobs
    PROVE  HearInv'
<1> DEFINE e == [kind |-> o, req |-> r]
<1>1. /\ told'[r] = <<o>> /\ \A q \in Request : q # r => told'[q] = told[q]
      /\ Emit(o, r)
  BY ToldOnce DEF Tell
<1>2. e \in Event /\ e.kind = o /\ e.req = r
  BY DEF Event
<1>3. jobs \in Seq(Job) /\ bus \in Seq(Event) /\ drops \in Nat
  BY DEF SliceInv, SliceType, BusInv
<1> SUFFICES ASSUME drops' = 0 PROVE HearInv'
  BY DEF HearInv
<1>4. drops = 0 /\ bus' = Append(bus, e)
  BY <1>1, <1>3, EmitDrops
<1> HIDE DEF e
<1>5. /\ DOMAIN bus' = DOMAIN bus \cup {Len(bus) + 1} /\ bus'[Len(bus) + 1] = e
      /\ \A i \in DOMAIN bus : bus'[i] = bus[i]
      /\ \A i \in DOMAIN bus, q \in Request : Ends(i, q) => Ends(i, q)'
      /\ \A q \in Request : Ends(1, q) => Ends(1, q)'
      /\ \A i \in DOMAIN bus \cup {1} : Ends(i, r)'
  BY <1>2, <1>3, <1>4, Enters
<1>6. ASSUME NEW i \in DOMAIN bus', Starts(i)', told'[bus'[i].req] # <<>>
      PROVE  Ends(i, bus[i].req)'
  <2>1. i \in DOMAIN bus /\ bus'[i] = bus[i] /\ Starts(i)
    BY <1>2, <1>5, <1>6, NoEnd DEF Starts
  <2>2. bus[i].req \in Request
    BY <1>3, <2>1 DEF SliceInv, KeyInv, OutcomeInv, TypeInv
  <2>3. CASE bus[i].req = r
    BY <1>5, <2>1, <2>3
  <2>4. CASE bus[i].req # r
    <3>1. told[bus[i].req] # <<>>
      BY <1>1, <1>6, <2>1, <2>2, <2>4
    <3>2. Ends(i, bus[i].req)
      BY <1>4, <2>1, <3>1 DEF SliceInv, HearInv
    <3> QED BY <1>5, <2>1, <2>2, <3>2
  <2> QED BY <2>3, <2>4
<1>7. ASSUME NEW i \in DOMAIN jobs, told'[jobs[i].req] # <<>>
      PROVE  jobs[i].status = told'[jobs[i].req][1] \/ Ends(1, jobs[i].req)'
  <2>1. jobs[i].req \in Request
    BY <1>3, JobsAre
  <2>2. CASE jobs[i].req = r
    BY <1>5, <2>2
  <2>3. CASE jobs[i].req # r
    <3>1. told[jobs[i].req] # <<>> /\ told'[jobs[i].req] = told[jobs[i].req]
      BY <1>1, <1>7, <2>1, <2>3
    <3>2. jobs[i].status = told[jobs[i].req][1] \/ Ends(1, jobs[i].req)
      BY <1>4, <3>1 DEF SliceInv, HearInv
    <3> QED BY <1>5, <2>1, <3>1, <3>2
  <2> QED BY <2>2, <2>3
<1> QED BY <1>6, <1>7 DEF HearInv

\* Another event tells nothing: a start is of a request yet untold.
LEMMA EmitHears ==
    ASSUME OutcomeInv, BusInv, SliceInv, NEW kind \in {"started", "search"},
           NEW r \in Request \cup {0}, Emit(kind, r), UNCHANGED <<told, jobs>>,
           kind = "started" => r \in Request /\ told[r] = <<>>
    PROVE  HearInv'
<1> DEFINE e == [kind |-> kind, req |-> r]
<1>2. e \in Event /\ e.kind = kind /\ e.req = r
  BY DEF Event
<1>3. jobs \in Seq(Job) /\ bus \in Seq(Event) /\ drops \in Nat
  BY DEF SliceInv, SliceType, BusInv
<1> SUFFICES ASSUME drops' = 0 PROVE HearInv'
  BY DEF HearInv
<1>4. drops = 0 /\ bus' = Append(bus, e)
  BY <1>3, EmitDrops
<1> HIDE DEF e
<1>5. /\ DOMAIN bus' = DOMAIN bus \cup {Len(bus) + 1} /\ bus'[Len(bus) + 1] = e
      /\ \A i \in DOMAIN bus : bus'[i] = bus[i]
      /\ \A i \in DOMAIN bus, q \in Request : Ends(i, q) => Ends(i, q)'
      /\ \A q \in Request : Ends(1, q) => Ends(1, q)'
  BY <1>2, <1>3, <1>4, Enters
<1>6. ASSUME NEW i \in DOMAIN bus', Starts(i)', told[bus'[i].req] # <<>>
      PROVE  Ends(i, bus[i].req)'
  <2>1. i \in DOMAIN bus /\ bus'[i] = bus[i] /\ Starts(i)
    BY <1>2, <1>5, <1>6 DEF Starts
  <2>2. bus[i].req \in Request
    BY <2>1 DEF SliceInv, KeyInv, OutcomeInv, TypeInv
  <2>3. Ends(i, bus[i].req)
    BY <1>4, <1>6, <2>1 DEF SliceInv, HearInv
  <2> QED BY <1>5, <2>1, <2>2, <2>3
<1>7. ASSUME NEW i \in DOMAIN jobs, told[jobs[i].req] # <<>>
      PROVE  jobs[i].status = told[jobs[i].req][1] \/ Ends(1, jobs[i].req)'
  <2>1. jobs[i].req \in Request
    BY <1>3, JobsAre
  <2>2. jobs[i].status = told[jobs[i].req][1] \/ Ends(1, jobs[i].req)
    BY <1>4, <1>7 DEF SliceInv, HearInv
  <2> QED BY <1>5, <2>1, <2>2
<1> QED BY <1>6, <1>7 DEF HearInv

LEMMA SpeaksSlice == ASSUME OutcomeInv, BusInv, SliceInv, Speaks PROVE SliceInv'
<1>1. UNCHANGED <<shell, jobs, accepted, queue>> /\ Queued' = Queued
  BY DEF Speaks, Queued
<1>2. drops \in Nat /\ jobs \in Seq(Job) /\ bus \in Seq(Event)
  BY DEF SliceInv, SliceType, BusInv
<1>3. CASE UNCHANGED <<told, bus, drops>>
  BY <1>1, <1>3 DEF SliceInv, SliceType, KeyInv, HearInv, Starts, Ends
<1>4. ASSUME NEW r \in Request, NEW o \in Terminal, told[r] = <<>>, Tell(o, r) PROVE SliceInv'
  <2>1. Emit(o, r)
    BY <1>4 DEF Tell
  <2>2. KeyInv'
    BY <1>1, <1>2, <2>1, EmitKeys DEF SliceInv
  <2>3. drops' \in Nat
    BY <1>2, <2>1, EmitDrops
  <2>4. HearInv'
    BY <1>1, <1>4, TellHears
  <2> QED BY <1>1, <2>2, <2>3, <2>4 DEF SliceInv, SliceType
<1>5. CASE Emit("search", 0) /\ told' = told
  <2>1. KeyInv'
    BY <1>1, <1>2, <1>5, EmitKeys DEF SliceInv
  <2>2. drops' \in Nat
    BY <1>2, <1>5, EmitDrops
  <2>3. HearInv'
    BY <1>1, <1>5, EmitHears
  <2> QED BY <1>1, <2>1, <2>2, <2>3 DEF SliceInv, SliceType
<1> QED BY <1>3, <1>4, <1>5 DEF Speaks

\* No step of the worker but the first of a request, and none of the writer,
\* does more to the client than tell.
LEMMA WorkerSpeaks == ASSUME OutcomeInv, WorkerStep, ~Recv PROVE Speaks
<1>1. ASSUME NEW o \in Terminal, WorkerTells(o), Unsettled PROVE Speaks
  <2>1. Tell(o, worker.req) /\ UNCHANGED <<shell, jobs, accepted, queue>>
    BY <1>1 DEF WorkerTells, WorkerKeeps, uiVars
  <2> QED BY <1>1, <2>1, UnsettledUntold DEF Untold, Speaks
<1>2. ASSUME WorkerKeeps, UNCHANGED <<queue, told, busVars>> PROVE Speaks
  BY <1>2 DEF WorkerKeeps, uiVars, busVars, Speaks
<1>3. /\ {"cancelled", "BackendUnavailable", "AudioDecode", "Internal"} \subseteq Terminal
      /\ \A err : map_async_openai_error(err) \in Terminal
  BY ErrorsAreTerminal DEF Terminal, Failure
<1>4. worker.step \in {"resolve", "remux", "upload", "check"} => Unsettled
  BY DEF Unsettled, Extracting
<1>5. CASE Resolve \/ PollCancelled \/ ChildExited
  BY <1>1, <1>2, <1>3, <1>4, <1>5 DEF Resolve, PollCancelled, ChildExited, At
<1>6. CASE Upload \/ PreWriteCheck
  BY <1>1, <1>2, <1>3, <1>4, <1>6 DEF Upload, PreWriteCheck, At
<1>7. CASE ReplyRead
  <2>1. worker.step = "insert" /\ reply # "none" /\ reply \in {"none", "ok", "cancelled", "Internal"}
    BY <1>7 DEF ReplyRead, At, OutcomeInv, TypeInv
  <2>2. reply # "ok" => Unsettled /\ reply \in Terminal
    BY <1>3, <2>1 DEF Unsettled
  <2> QED BY <1>1, <1>2, <1>7, <2>2 DEF ReplyRead
<1>8. CASE Forget
  BY <1>2, <1>8 DEF Forget
<1> QED BY <1>5, <1>6, <1>7, <1>8 DEF WorkerStep, WorkerProceeds

LEMMA WriterSpeaks == ASSUME OutcomeInv, WriterStep PROVE Speaks
<1>1. UNCHANGED <<shell, jobs, accepted, queue>>
  BY DEF WriterStep, Insert, RollBack, Commit, EmitCompleted, EmitInvalidated,
         WriterKeeps, coreVars, uiVars
<1>2. CASE Insert \/ Commit
  BY <1>1, <1>2 DEF Insert, RollBack, Commit, busVars, Speaks
<1>3. CASE EmitCompleted
  <2>1. writer.step = "completed" /\ Tell("completed", writer.req) /\ "completed" \in Terminal
    BY <1>3 DEF EmitCompleted, Terminal
  <2>2. writer.req \in Request /\ told[writer.req] = <<>>
    BY <2>1 DEF OutcomeInv, HandInv, TypeInv
  <2> QED BY <1>1, <2>1, <2>2 DEF Speaks
<1>4. CASE EmitInvalidated
  BY <1>1, <1>4 DEF EmitInvalidated, Speaks
<1> QED BY <1>2, <1>3, <1>4 DEF WriterStep

LEMMA RecvSlice == ASSUME OutcomeInv, BusInv, SliceInv, Recv PROVE SliceInv'
<1> DEFINE r == Head(queue)
           e == [kind |-> "started", req |-> r]
<1>1. /\ queue # <<>> /\ queue' = Tail(queue) /\ Emit("started", r)
      /\ UNCHANGED <<shell, accepted, told, jobs>>
  BY DEF Recv, WorkerKeeps, uiVars
<1>2. /\ r \in Queued /\ r \in Request /\ Queued' = Queued \ {r}
  BY <1>1, ToSetLeaves DEF OutcomeInv, TypeInv, PlaceInv, Queued
<1>3. r \in accepted /\ told[r] = <<>>
  BY <1>2 DEF OutcomeInv, PlaceInv, HandInv, Untold
<1> HIDE DEF r
<1>4. e \in Event /\ e.kind = "started" /\ e.req = r
  BY <1>2 DEF Event
<1>5. drops \in Nat /\ bus \in Seq(Event)
  BY DEF SliceInv, SliceType, BusInv
<1>6. HearInv'
  BY <1>1, <1>2, <1>3, EmitHears
<1>7. SliceType'
  BY <1>1, <1>5, EmitDrops DEF SliceInv, SliceType
<1> HIDE DEF e
<1>8. ASSUME bus' = bus PROVE KeyInv'
  BY <1>1, <1>2, <1>8 DEF SliceInv, KeyInv, Starts
<1>9. ASSUME bus' = Append(bus, e) PROVE KeyInv'
  <2>1. /\ DOMAIN bus' = DOMAIN bus \cup {Len(bus) + 1} /\ bus'[Len(bus) + 1] = e
        /\ \A i \in DOMAIN bus : bus'[i] = bus[i]
    BY <1>4, <1>5, <1>9, Enters
  <2>2. \A i \in DOMAIN bus : Starts(i)' <=> Starts(i)
    BY <2>1 DEF Starts
  <2>3. \A i \in DOMAIN bus : Starts(i) => bus[i].req # r
    BY <1>2 DEF SliceInv, KeyInv
  <2>4. \A i \in DOMAIN jobs : jobs[i].req # r
    BY <1>2 DEF SliceInv, KeyInv
  <2> QED BY <1>1, <1>2, <1>3, <1>4, <2>1, <2>2, <2>3, <2>4 DEF SliceInv, KeyInv
<1> QED BY <1>1, <1>6, <1>7, <1>8, <1>9 DEF Emit, SliceInv, e

LEMMA TrySendSlice ==
    ASSUME OutcomeInv, SliceInv, NEW r \in starting, TrySend(r)
    PROVE  SliceInv'
<1>1. UNCHANGED <<shell, told, bus, drops, jobs>>
  BY DEF TrySend, StartKeeps, workVars, busVars
<1>2. r \notin accepted /\ r \in Request /\ queue \in Seq(Request)
  BY DEF OutcomeInv, TypeInv, PlaceInv
<1>3. /\ accepted \subseteq accepted'
      /\ Queued' \subseteq Queued \cup {r}
  <2>1. CASE queue' = Append(queue, r)
    BY <1>2, <2>1, ToSetEnters DEF Queued, TrySend
  <2>2. CASE queue' = queue
    BY <2>2 DEF Queued, TrySend
  <2> QED BY <2>1, <2>2 DEF TrySend
<1>4. KeyInv'
  BY <1>1, <1>2, <1>3 DEF SliceInv, KeyInv, Starts
<1>5. HearInv' /\ SliceType'
  BY <1>1 DEF SliceInv, HearInv, SliceType, Starts, Ends
<1> QED BY <1>4, <1>5 DEF SliceInv

\* The webview and the command line read the head.
LEMMA LeavesKeys ==
    ASSUME KeyInv, bus \in Seq(Event), bus # <<>>, bus' = Tail(bus),
           UNCHANGED <<accepted, queue>>,
           DOMAIN jobs' = DOMAIN jobs, \A i \in DOMAIN jobs : jobs'[i].req = jobs[i].req
    PROVE  KeyInv'
<1>1. \A i \in DOMAIN bus' : i \in Nat /\ i + 1 \in DOMAIN bus /\ bus'[i] = bus[i + 1]
  BY Leaves
<1>2. \A i \in DOMAIN bus' : Starts(i)' <=> Starts(i + 1)
  BY <1>1 DEF Starts
<1>3. Queued' = Queued
  BY DEF Queued
<1>4. ASSUME NEW i \in DOMAIN bus', NEW k \in DOMAIN bus', Starts(i)', Starts(k)',
             bus'[i].req = bus'[k].req
      PROVE  i = k
  <2>1. i + 1 = k + 1
    BY <1>1, <1>2, <1>4 DEF KeyInv
  <2> QED BY <1>1, <2>1
<1>5. ASSUME NEW i \in DOMAIN jobs', NEW k \in DOMAIN bus', Starts(k)'
      PROVE  bus'[k].req # jobs'[i].req
  <2>1. k + 1 \in DOMAIN bus /\ Starts(k + 1) /\ bus'[k] = bus[k + 1]
    BY <1>1, <1>2, <1>5
  <2>2. i \in DOMAIN jobs /\ jobs'[i].req = jobs[i].req
    OBVIOUS
  <2>3. bus[k + 1].req # jobs[i].req
    BY <2>1, <2>2 DEF KeyInv
  <2> QED BY <2>1, <2>2, <2>3
<1>6. ASSUME NEW k \in DOMAIN bus', Starts(k)'
      PROVE  bus'[k].req \in accepted' \ Queued'
  BY <1>1, <1>2, <1>3, <1>6 DEF KeyInv
<1>7. /\ \A i, k \in DOMAIN jobs' : jobs'[i].req = jobs'[k].req => i = k
      /\ \A i \in DOMAIN jobs' : jobs'[i].req \in accepted' \ Queued'
  BY <1>3 DEF KeyInv
<1> QED BY <1>4, <1>5, <1>6, <1>7 DEF KeyInv

LEMMA LeavesOrder ==
    ASSUME OutcomeInv, SliceInv, BusInv, bus # <<>>, bus' = Tail(bus), drops = 0, told' = told,
           NEW i \in DOMAIN bus', Starts(i)', told[bus'[i].req] # <<>>
    PROVE  Ends(i, bus[i].req)'
<1>1. bus \in Seq(Event)
  BY DEF BusInv
<1>2. i + 1 \in DOMAIN bus /\ bus'[i] = bus[i + 1]
  BY <1>1, Leaves
<1>3. Starts(i + 1)
  BY <1>2 DEF Starts
<1>4. Ends(i + 1, bus[i + 1].req)
  BY <1>2, <1>3 DEF SliceInv, HearInv
<1>5. bus[i + 1].req \in Request
  BY <1>2, <1>3 DEF SliceInv, KeyInv, OutcomeInv, TypeInv
<1> QED BY <1>1, <1>2, <1>4, <1>5, Leaves

LEMMA WebviewHearsSlice ==
    ASSUME OutcomeInv, BusInv, SliceInv, NEW e, e = Head(bus), WebviewHears
    PROVE  SliceInv'
<1>1. /\ shell = "desktop" /\ bus # <<>> /\ bus' = Tail(bus) /\ jobs' = Heard(e)
      /\ UNCHANGED <<shell, accepted, queue, told, drops>>
  BY DEF WebviewHears, coreVars, workVars
<1>2. bus \in Seq(Event) /\ jobs \in Seq(Job) /\ drops \in Nat
  BY DEF BusInv, SliceInv, SliceType
<1>3. e = bus[1] /\ 1 \in DOMAIN bus /\ e \in Event
  BY <1>1, <1>2, Leaves
<1>4. /\ \A i \in DOMAIN bus' : i \in Nat /\ i + 1 \in DOMAIN bus /\ i + 1 # 1 /\ bus'[i] = bus[i + 1]
      /\ \A r \in Request : Ends(1, r) => Ends(1, r)' \/ (e.kind \in Terminal /\ e.req = r)
  BY <1>1, <1>2, <1>3, Leaves
<1>5. \A i \in DOMAIN bus' : drops = 0 /\ Starts(i)' /\ told[bus'[i].req] # <<>> => Ends(i, bus[i].req)'
  BY <1>1, LeavesOrder
<1>6. \A i \in DOMAIN jobs : jobs[i].req \in Request
  BY <1>2, JobsAre
<1>7. \A i \in DOMAIN jobs : drops = 0 /\ told[jobs[i].req] # <<>> =>
          jobs[i].status = told[jobs[i].req][1] \/ Ends(1, jobs[i].req)
  BY DEF SliceInv, HearInv
<1>8. CASE e.kind = "started"
  <2> DEFINE j == [req |-> e.req, status |-> "running"]
  <2>1. jobs' = Append(jobs, j)
    BY <1>1, <1>8, NoEnd DEF Heard
  <2>2. e.req \in accepted \ Queued /\ e.req \in Request
    BY <1>3, <1>8 DEF SliceInv, KeyInv, Starts, OutcomeInv, TypeInv
  <2>3. j \in Job /\ j.req = e.req /\ j.status = "running"
    BY <2>2 DEF Job
  <2> HIDE DEF j
  <2>4. /\ jobs' \in Seq(Job) /\ DOMAIN jobs' = DOMAIN jobs \cup {Len(jobs) + 1}
        /\ jobs'[Len(jobs) + 1] = j /\ \A i \in DOMAIN jobs : jobs'[i] = jobs[i]
    BY <1>2, <2>1, <2>3
  <2>5. \A i \in DOMAIN jobs : jobs[i].req # e.req
    BY <1>3, <1>8 DEF SliceInv, KeyInv, Starts
  <2>6. \A i \in DOMAIN bus' : Starts(i)' => bus'[i].req # e.req
    <3> SUFFICES ASSUME NEW i \in DOMAIN bus', Starts(i)' PROVE bus'[i].req # e.req
      OBVIOUS
    <3>1. i + 1 \in DOMAIN bus /\ i + 1 # 1 /\ Starts(i + 1) /\ bus'[i] = bus[i + 1]
      BY <1>4 DEF Starts
    <3>2. Starts(1)
      BY <1>3, <1>8 DEF Starts
    <3> QED BY <1>3, <3>1, <3>2 DEF SliceInv, KeyInv
  <2>7. KeyInv'
    <3> DEFINE old == jobs
    <3>1. UNCHANGED Queued
      BY <1>1 DEF Queued
    <3>2. \A i \in DOMAIN bus' : Starts(i)' <=> Starts(i + 1)
      BY <1>4 DEF Starts
    <3>3. ASSUME NEW i \in DOMAIN bus', NEW k \in DOMAIN bus', Starts(i)', Starts(k)',
                 bus'[i].req = bus'[k].req
          PROVE  i = k
      <4>1. i + 1 = k + 1
        BY <1>4, <3>2, <3>3 DEF SliceInv, KeyInv
      <4> QED BY <1>4, <4>1
    <3>4. ASSUME NEW i \in DOMAIN jobs', NEW k \in DOMAIN bus', Starts(k)'
          PROVE  bus'[k].req # jobs'[i].req
      <4>1. k + 1 \in DOMAIN bus /\ Starts(k + 1) /\ bus'[k] = bus[k + 1]
        BY <1>4, <3>2, <3>4
      <4> QED BY <2>3, <2>4, <2>6, <3>4, <4>1 DEF SliceInv, KeyInv
    <3>5. ASSUME NEW k \in DOMAIN bus', Starts(k)' PROVE bus'[k].req \in accepted' \ Queued'
      <4>1. k + 1 \in DOMAIN bus /\ Starts(k + 1) /\ bus'[k] = bus[k + 1]
        BY <1>4, <3>2, <3>5
      <4> QED BY <1>1, <3>1, <4>1 DEF SliceInv, KeyInv
    <3>6. \A i, k \in DOMAIN jobs' : jobs'[i].req = jobs'[k].req => i = k
      BY <2>3, <2>4, <2>5 DEF SliceInv, KeyInv
    <3>7. \A i \in DOMAIN jobs' : jobs'[i].req \in accepted' \ Queued'
      BY <1>1, <2>2, <2>3, <2>4, <3>1 DEF SliceInv, KeyInv
    <3> QED BY <3>3, <3>4, <3>5, <3>6, <3>7 DEF KeyInv
  <2>8. ASSUME drops = 0, told[e.req] # <<>> PROVE Ends(1, e.req)'
    <3>1. Ends(1, e.req)
      BY <1>3, <1>8, <2>8 DEF SliceInv, HearInv, Starts
    <3> QED BY <1>4, <1>8, <2>2, <3>1, NoEnd
  <2>9. ASSUME drops = 0, NEW i \in DOMAIN jobs', told[jobs'[i].req] # <<>>
        PROVE  jobs'[i].status = told[jobs'[i].req][1] \/ Ends(1, jobs[i].req)'
    <3>1. CASE i = Len(jobs) + 1
      BY <2>3, <2>4, <2>8, <2>9, <3>1
    <3>2. CASE i \in DOMAIN jobs
      BY <1>4, <1>6, <1>7, <1>8, <2>4, <2>9, <3>2, NoEnd
    <3> QED BY <2>4, <3>1, <3>2
  <2>10. HearInv'
    BY <1>1, <1>5, <2>9 DEF HearInv
  <2> QED BY <1>1, <1>2, <2>4, <2>7, <2>10 DEF SliceInv, SliceType
<1>9. CASE e.kind # "started"
  <2>1. jobs' = IF e.kind \in Terminal THEN Updated(e.req, e.kind) ELSE jobs
    BY <1>1, <1>9 DEF Heard
  <2>2. /\ jobs' \in Seq(Job) /\ DOMAIN jobs' = DOMAIN jobs
        /\ \A i \in DOMAIN jobs :
              /\ jobs'[i].req = jobs[i].req
              /\ jobs'[i].status = IF e.kind \in Terminal /\ jobs[i].req = e.req
                                   THEN e.kind ELSE jobs[i].status
    <3>1. CASE e.kind \notin Terminal
      BY <1>2, <2>1, <3>1
    <3>2. CASE e.kind \in Terminal
      <4>1. jobs' = [i \in DOMAIN jobs |-> IF jobs[i].req = e.req THEN [jobs[i] EXCEPT !.status = e.kind]
                                           ELSE jobs[i]]
        BY <2>1, <3>2 DEF Updated
      <4>2. ASSUME NEW i \in DOMAIN jobs
            PROVE  LET k == [jobs[i] EXCEPT !.status = e.kind]
                   IN  k \in Job /\ k.req = jobs[i].req /\ k.status = e.kind
        <5>1. jobs[i] \in Job
          BY <1>2
        <5> QED BY <3>2, <5>1 DEF Job
      <4>3. \A i \in DOMAIN jobs : jobs'[i] \in Job
        BY <1>2, <4>1, <4>2
      <4>4. DOMAIN jobs' = 1..Len(jobs) /\ Len(jobs) \in Nat
        BY <1>2, <4>1
      <4>5. jobs' = [i \in 1..Len(jobs) |-> jobs'[i]]
        BY <1>2, <4>1
      <4>6. jobs' \in Seq(Job)
        BY <1>2, <4>3, <4>4, <4>5
      <4> QED BY <3>2, <4>1, <4>2, <4>6
    <3> QED BY <3>1, <3>2
  <2>3. KeyInv'
    BY <1>1, <1>2, <2>2, LeavesKeys DEF SliceInv
  <2>4. ASSUME e.kind \in Terminal PROVE told[e.req] = <<e.kind>>
    BY <1>3, <2>4 DEF Truthful, BusInv, ToSet
  <2>5. ASSUME drops = 0, NEW i \in DOMAIN jobs, told[jobs[i].req] # <<>>
        PROVE  jobs'[i].status = told[jobs[i].req][1] \/ Ends(1, jobs[i].req)'
    <3>1. CASE e.kind \in Terminal /\ jobs[i].req = e.req
      BY <2>2, <2>4, <3>1
    <3>2. CASE ~(e.kind \in Terminal /\ jobs[i].req = e.req)
      <4>1. jobs'[i].status = jobs[i].status /\ jobs'[i].req = jobs[i].req /\ jobs[i].req \in Request
        BY <1>6, <2>2, <3>2
      <4>2. Ends(1, jobs[i].req) => Ends(1, jobs[i].req)'
        <5>1. PICK r \in Request : r = jobs[i].req
          BY <4>1
        <5> QED BY <1>4, <3>2, <4>1, <5>1
      <4> QED BY <1>7, <2>5, <4>1, <4>2
    <3> QED BY <3>1, <3>2
  <2>6. HearInv'
    BY <1>1, <1>5, <2>2, <2>5 DEF HearInv
  <2> QED BY <1>1, <2>2, <2>3, <2>6 DEF SliceInv, SliceType
<1> QED BY <1>8, <1>9

LEMMA SliceStill ==
    ASSUME SliceInv, UNCHANGED <<shell, jobs, bus, drops, told, accepted, queue>>
    PROVE  SliceInv'
BY DEF SliceInv, SliceType, KeyInv, HearInv, Starts, Ends, Queued

LEMMA CliHearsSlice == ASSUME OutcomeInv, BusInv, SliceInv, CliHears PROVE SliceInv'
<1>1. /\ shell = "cli" /\ bus # <<>> /\ bus' = Tail(bus)
      /\ UNCHANGED <<shell, accepted, queue, told, jobs, drops>>
  BY DEF CliHears, CliKeeps, coreVars, workVars
<1>2. jobs = <<>> /\ DOMAIN jobs = {} /\ bus \in Seq(Event)
  BY <1>1 DEF SliceInv, SliceType, BusInv
<1>3. KeyInv'
  BY <1>1, <1>2, LeavesKeys DEF SliceInv
<1>4. \A i \in DOMAIN bus' : drops = 0 /\ Starts(i)' /\ told[bus'[i].req] # <<>> => Ends(i, bus[i].req)'
  BY <1>1, LeavesOrder
<1>5. HearInv'
  BY <1>1, <1>2, <1>4 DEF HearInv
<1> QED BY <1>1, <1>3, <1>5 DEF SliceInv, SliceType

LEMMA GraceEndsSlice ==
    ASSUME SliceInv, NEW r, GraceEnds(r)
    PROVE  SliceInv'
<1>1. /\ jobs' = RemoveJob(r) /\ jobs \in Seq(Job)
      /\ UNCHANGED <<shell, accepted, queue, told, bus, drops>>
  BY DEF GraceEnds, coreVars, workVars, busVars, SliceInv, SliceType
<1>2. PICK skip \in [DOMAIN jobs' -> DOMAIN jobs] :
          /\ \A i \in DOMAIN jobs' : jobs'[i] = jobs[skip[i]]
          /\ \A i, k \in DOMAIN jobs' : skip[i] = skip[k] => i = k
  BY <1>1, JobRemoved
<1>3. jobs' \in Seq(Job)
  BY <1>1, JobRemoved
<1>4. shell = "cli" => jobs' = <<>>
  <2> SUFFICES ASSUME shell = "cli", jobs' # <<>> PROVE FALSE
    OBVIOUS
  <2>1. 1 \in DOMAIN jobs' /\ jobs = <<>>
    BY <1>3 DEF SliceInv, SliceType
  <2>2. skip[1] \in DOMAIN jobs
    BY <1>2, <2>1
  <2> QED BY <2>1, <2>2
<1>5. SliceType'
  BY <1>1, <1>3, <1>4 DEF SliceInv, SliceType
<1>6. KeyInv'
  BY <1>1, <1>2 DEF SliceInv, KeyInv, Starts, Queued
<1>7. ASSUME drops = 0, NEW i \in DOMAIN jobs', told[jobs'[i].req] # <<>>
      PROVE  jobs'[i].status = told[jobs'[i].req][1] \/ Ends(1, jobs[i].req)'
  BY <1>1, <1>2, <1>7 DEF SliceInv, HearInv, Ends
<1>8. HearInv'
  BY <1>1, <1>7 DEF SliceInv, HearInv, Starts, Ends
<1> QED BY <1>5, <1>6, <1>8 DEF SliceInv

LEMMA SliceInit == Init => SliceInv
<1> SUFFICES ASSUME Init PROVE SliceInv
  OBVIOUS
<1>1. /\ bus = <<>> /\ jobs = <<>> /\ drops = 0 /\ DOMAIN bus = {} /\ DOMAIN jobs = {}
  BY DEF Init
<1> QED BY <1>1 DEF SliceInv, SliceType, KeyInv, HearInv

LEMMA SliceStep == OutcomeInv /\ ClientInv /\ SliceInv /\ [Next]_vars => SliceInv'
<1> SUFFICES ASSUME OutcomeInv, BusInv, SliceInv, [Next]_vars PROVE SliceInv'
  BY DEF ClientInv
<1>1. CASE WorkerStep
  BY <1>1, RecvSlice, WorkerSpeaks, SpeaksSlice
<1>2. CASE WriterStep
  BY <1>2, WriterSpeaks, SpeaksSlice
<1>3. CASE ChildWrites \/ UNCHANGED vars
  BY <1>3, SliceStill DEF ChildWrites, vars, coreVars, workVars, busVars, uiVars
<1>4. CASE Client
  <2>1. ASSUME NEW f \in File, ClickTranscribe(f) \/ CliStart(f) PROVE SliceInv'
    BY <2>1, SliceStill DEF ClickTranscribe, CliStart, Start, StartKeeps, workVars, busVars
  <2>2. ASSUME NEW i \in DOMAIN jobs, ClickCancel(jobs[i]) PROVE SliceInv'
    BY <2>2, SliceStill DEF ClickCancel, Cancel, workVars, busVars, uiVars
  <2>3. CASE CliSourceMissing \/ CliLearnsRequest \/ CtrlC \/ CliExit
    BY <2>3, SliceStill DEF CliSourceMissing, CliLearnsRequest, CtrlC, CliExit, Cancel,
                            CliKeeps, coreVars, workVars, busVars
  <2> QED BY <1>4, <2>1, <2>2, <2>3, WebviewHearsSlice, CliHearsSlice, GraceEndsSlice DEF Client
<1> QED BY <1>1, <1>2, <1>3, <1>4, TrySendSlice DEF Next

LEMMA SliceInductive == Spec => [](OutcomeInv /\ ClientInv /\ SliceInv)
BY OutcomeInductive, ClientInit, ClientStep, SliceInit, SliceStep, PTL DEF Spec

\* The slice is a map: it holds one job for a request, whatever was dropped, so
\* that a start never meets a job of its request, and removeJob takes out the
\* one there is.
OneJobPerRequest == \A i, k \in DOMAIN jobs : jobs[i].req = jobs[k].req => i = k

THEOREM SliceIsKeyed == Spec => []OneJobPerRequest
<1>1. SliceInv => OneJobPerRequest
  BY DEF SliceInv, KeyInv, OneJobPerRequest
<1> QED BY SliceInductive, <1>1, PTL

\* Once the webview has heard everything that was told, and nothing was dropped,
\* no job that has ended is shown otherwise: the start of a request is heard before
\* its end, in whatever order the worker, the writer and the clicks take their turns.
THEOREM SliceStaysTrue == Spec => []SliceTellsOutcome
<1>1. SliceInv => SliceTellsOutcome
  <2> SUFFICES ASSUME SliceInv, drops = 0, bus = <<>>, NEW i \in DOMAIN jobs,
                      told[jobs[i].req] # <<>>
               PROVE  jobs[i].status = told[jobs[i].req][1]
    BY DEF SliceTellsOutcome
  <2>1. ~ Ends(1, jobs[i].req)
    BY DEF Ends
  <2> QED BY <2>1 DEF SliceInv, HearInv
<1> QED BY SliceInductive, <1>1, PTL
-----------------------------------------------------------------------------
\* The channel and the pipe hold what they can hold, and a token is one of a
\* request that was minted.
BoundInv ==
    /\ Len(queue) <= QUEUE_DEPTH
    /\ cancels \cup fired \subseteq 1..Len(file)
    /\ lines \in -1..PIPE + 1
    /\ told \in [Request -> Seq(Terminal)]

LEMMA BoundInit == Init => BoundInv
BY TranscriptionAssumption DEF Init, BoundInv

LEMMA ToldSequences ==
    ASSUME told \in [Request -> Seq(Terminal)], Speaks
    PROVE  told' \in [Request -> Seq(Terminal)]
<1>1. ASSUME NEW r \in Request, NEW o \in Terminal, Tell(o, r)
      PROVE  told' \in [Request -> Seq(Terminal)]
  <2>1. told' = [told EXCEPT ![r] = Append(@, o)]
    BY <1>1 DEF Tell
  <2>2. Append(told[r], o) \in Seq(Terminal)
    OBVIOUS
  <2> QED BY <2>1, <2>2
<1> QED BY <1>1 DEF Speaks

LEMMA BoundStep == OutcomeInv /\ BoundInv /\ [Next]_vars => BoundInv'
<1> SUFFICES ASSUME OutcomeInv, BoundInv, [Next]_vars PROVE BoundInv'
  OBVIOUS
<1>1. /\ queue \in Seq(Request) /\ Len(queue) \in Nat /\ file \in Seq(File) /\ Len(file) \in Nat
      /\ PIPE \in Nat /\ QUEUE_DEPTH \in Nat
  BY TranscriptionAssumption DEF OutcomeInv, TypeInv
<1>2. ASSUME NEW r \in starting, TrySend(r) PROVE BoundInv'
  <2>1. UNCHANGED <<file, fired, lines>> /\ cancels' \subseteq cancels
    BY <1>2 DEF TrySend, StartKeeps, workVars
  <2>3. told' = told
    BY <1>2 DEF TrySend, StartKeeps, workVars
  <2>2. Len(queue') <= QUEUE_DEPTH
    <3>1. CASE Len(queue) < QUEUE_DEPTH /\ queue' = Append(queue, r)
      <4>1. Len(queue') = Len(queue) + 1
        BY <1>1, <3>1 DEF OutcomeInv, TypeInv
      <4> QED BY <1>1, <3>1, <4>1
    <3> QED BY <1>2, <3>1 DEF TrySend, BoundInv
  <2> QED BY <2>1, <2>2, <2>3 DEF BoundInv
<1>3. CASE WorkerStep
  <2>1. UNCHANGED <<file, fired>> /\ cancels' \subseteq cancels
    BY <1>3 DEF WorkerStep, WorkerProceeds, Recv, Resolve, PollCancelled, ChildExited, Upload, PreWriteCheck,
                ReplyRead, Forget, WorkerTells, WorkerKeeps
  <2>2. lines' \in -1..PIPE + 1
    <3>1. lines' \in {lines, -1, 0}
      BY <1>3 DEF WorkerStep, WorkerProceeds, Recv, Resolve, PollCancelled, ChildExited, Upload, PreWriteCheck,
                  ReplyRead, Forget
    <3> QED BY <1>1, <3>1 DEF BoundInv
  <2>3. Len(queue') <= QUEUE_DEPTH
    <3>1. CASE Recv
      <4>1. queue # <<>> /\ queue' = Tail(queue)
        BY <3>1 DEF Recv
      <4>2. Len(queue') = Len(queue) - 1
        BY <1>1, <4>1
      <4> QED BY <1>1, <4>2 DEF BoundInv
    <3>2. CASE ~ Recv
      BY <1>3, <3>2, WorkerSpeaks DEF Speaks, BoundInv
    <3> QED BY <3>1, <3>2
  <2>4. told' \in [Request -> Seq(Terminal)]
    <3>1. CASE Recv
      BY <3>1 DEF Recv, BoundInv
    <3>2. CASE ~ Recv
      BY <1>3, <3>2, WorkerSpeaks, ToldSequences DEF BoundInv
    <3> QED BY <3>1, <3>2
  <2> QED BY <2>1, <2>2, <2>3, <2>4 DEF BoundInv
<1>4. CASE WriterStep
  <2>1. UNCHANGED <<file, cancels, fired, queue, lines>>
    BY <1>4 DEF WriterStep, Insert, RollBack, Commit, EmitCompleted, EmitInvalidated,
                WriterKeeps, coreVars
  <2>2. told' \in [Request -> Seq(Terminal)]
    BY <1>4, WriterSpeaks, ToldSequences DEF BoundInv
  <2> QED BY <2>1, <2>2 DEF BoundInv
<1>5. CASE ChildWrites
  <2>1. lines' = lines + 1 /\ lines <= PIPE /\ lines \in -1..PIPE + 1 /\ UNCHANGED <<coreVars, told>>
    BY <1>1, <1>5 DEF ChildWrites, Blocked, BoundInv
  <2>2. lines' \in -1..PIPE + 1
    BY <1>1, <2>1
  <2> QED BY <2>1, <2>2 DEF coreVars, BoundInv
<1>6. CASE Client
  <2>1. ASSUME NEW r, Cancel(r), UNCHANGED <<lines, told>> PROVE BoundInv'
    BY <2>1 DEF Cancel, BoundInv
  <2>2. ASSUME UNCHANGED <<file, cancels, fired, queue, lines, told>> PROVE BoundInv'
    BY <2>2 DEF BoundInv
  <2>3. ASSUME NEW f \in File, Start(f) PROVE BoundInv'
    <3>1. /\ file' = Append(file, f) /\ cancels' = cancels \cup {Len(file) + 1}
          /\ UNCHANGED <<fired, queue, lines, told>>
      BY <2>3 DEF Start, StartKeeps, workVars
    <3>2. Len(file') = Len(file) + 1
      BY <1>1, <3>1
    <3> QED BY <1>1, <3>1, <3>2 DEF BoundInv
  <2>4. ASSUME NEW f \in File, ClickTranscribe(f) \/ CliStart(f) PROVE BoundInv'
    BY <2>3, <2>4 DEF ClickTranscribe, CliStart
  <2>5. ASSUME NEW i \in DOMAIN jobs, ClickCancel(jobs[i]) PROVE BoundInv'
    BY <2>1, <2>5 DEF ClickCancel, workVars
  <2>6. CASE CtrlC
    BY <2>1, <2>6 DEF CtrlC, CliKeeps, workVars
  <2>7. CASE WebviewHears \/ CliHears \/ CliSourceMissing \/ CliLearnsRequest \/ CliExit
    BY <2>2, <2>7 DEF WebviewHears, CliHears, CliSourceMissing, CliLearnsRequest, CliExit,
                      CliKeeps, coreVars, workVars
  <2>8. ASSUME NEW r \in timers, GraceEnds(r) PROVE BoundInv'
    BY <2>2, <2>8 DEF GraceEnds, coreVars, workVars
  <2> QED BY <1>6, <2>4, <2>5, <2>6, <2>7, <2>8 DEF Client
<1>7. CASE UNCHANGED vars
  BY <1>7 DEF vars, coreVars, workVars, BoundInv
<1> QED BY <1>2, <1>3, <1>4, <1>5, <1>6, <1>7 DEF Next

\* Type correctness, with the bounds of the channel and of ffmpeg's pipe.
THEOREM TypesHold == Spec => []TypeOK
<1>1. OutcomeInv /\ ClientInv /\ BoundInv => TypeOK
  <2> SUFFICES ASSUME OutcomeInv, StoredInv, BoundInv PROVE TypeOK
    BY DEF ClientInv
  <2>1. Queued \subseteq Request
    BY DEF OutcomeInv, TypeInv, Queued, ToSet
  <2>2. DOMAIN file = 1..Len(file)
    BY DEF OutcomeInv, TypeInv
  <2>3. accepted \cup cancels \cup fired \cup rows \subseteq DOMAIN file
    BY <2>2 DEF OutcomeInv, TypeInv, StoredInv, BoundInv
  <2>4. worker.req \in Request \cup {0}
    BY DEF OutcomeInv, TypeInv
  <2> QED BY <2>1, <2>3, <2>4 DEF OutcomeInv, TypeInv, BoundInv, TypeOK
<1> QED BY SliceInductive, BoundInit, BoundStep, <1>1, PTL DEF Spec
=============================================================================
