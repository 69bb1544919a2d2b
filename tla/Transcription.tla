------------------------- MODULE Transcription -------------------------
(***************************************************************************)
(* Transcription requests, from the click or the command line to the       *)
(* stored transcript and back: the use case and its worker                 *)
(* (crates/app/src/transcription.rs), the cloud adapter with its ffmpeg    *)
(* child (crates/transcribe), the writer's cancel-aware insert             *)
(* (crates/db/src/writer/transcript.rs), and the two clients: the webview  *)
(* with its job slice, and the command line with its terminal handler.     *)
(*                                                                         *)
(* Requests are numbered as they are minted.  The bus is the part of the   *)
(* ring the client has yet to read; other subscribers may fill the ring,   *)
(* so that any event may be dropped.  The real adapter streams no          *)
(* progress, so there is none.  A request outlives no process.             *)
(***************************************************************************)
EXTENDS Integers, Sequences, SequencesExt

CONSTANTS
    File,
    ProviderError,   \* what a call to the provider may fail with
    QUEUE_DEPTH,     \* of the use case's channel
    PIPE,            \* what ffmpeg's stderr pipe holds, in lines
    MaxRequests, MaxDrops   \* bounds

ASSUME TranscriptionAssumption == QUEUE_DEPTH \in Nat \ {0} /\ PIPE \in Nat

Request == 1..MaxRequests
Failure == {"Auth", "QuotaExceeded", "ModelNotFound", "RateLimited", "Network",
            "FileTooLarge", "AudioDecode", "BackendUnavailable", "Internal"}
Terminal == {"completed", "cancelled"} \cup Failure

\* The codes of the API, then the client's own errors.
map_api_error(code) ==
    CASE code \in {"invalid_api_key", "unauthorized"} -> "Auth"
      [] code \in {"quota_exceeded", "billing_hard_limit_reached", "insufficient_quota"} ->
            "QuotaExceeded"
      [] code = "model_not_found" -> "ModelNotFound"
      [] code = "rate_limit_exceeded" -> "RateLimited"
      [] OTHER -> "BackendUnavailable"

map_async_openai_error(err) ==
    CASE err \in {"Reqwest", "StreamError"} -> "Network"
      [] err \in {"FileSaveError", "FileReadError"} -> "AudioDecode"
      [] err = "InvalidArgument(size)" -> "FileTooLarge"
      [] err \in {"JSONDeserialize", "InvalidArgument"} -> "Internal"
      [] OTHER -> map_api_error(err)

EXIT_AUTH == 2
EXIT_QUEUE_FULL == 3
EXIT_CANCELLED == 130

exit_code_for(error) ==
    CASE error \in {"Auth", "QuotaExceeded"} -> EXIT_AUTH
      [] error = "QueueFull" -> EXIT_QUEUE_FULL
      [] error = "cancelled" -> EXIT_CANCELLED
      [] OTHER -> 1

VARIABLES
    shell,      \* "desktop" or "cli": who built the container
    file,       \* the file of every request minted
    starting,   \* requests between the token and the queue
    accepted,   \* requests whose Start was answered Ok
    cancels,    \* requests with a token in the map
    fired,      \* requests whose token is cancelled
    queue,
    worker,     \* its step and its request
    lines,      \* what ffmpeg had to say on stderr, or -1 when no child runs
    writer,     \* the transcript command in the writer: step, request
    reply,      \* what the worker's command was answered
    rows,       \* requests with a transcript row
    told,       \* request -> terminal events that were emitted
    bus, drops,
    jobs,       \* the webview's slice, in insertion order
    timers,     \* jobs with a grace timer
    cli         \* the command line: step, request it knows, exit

coreVars == <<file, starting, accepted, cancels, fired, queue>>
workVars == <<worker, lines, writer, reply, rows, told>>
busVars == <<bus, drops>>
uiVars == <<jobs, timers, cli>>
vars == <<shell, coreVars, workVars, busVars, uiVars>>

InHand == IF worker.step = "recv" THEN {} ELSE {worker.req}
Queued == ToSet(queue)

\* Bus::emit: a full ring drops the event and answers Ok.
Emit(kind, r) ==
    \/ bus' = Append(bus, [kind |-> kind, req |-> r]) /\ UNCHANGED drops
    \/ drops < MaxDrops /\ drops' = drops + 1 /\ UNCHANGED bus

Tell(outcome, r) ==
    /\ told' = [told EXCEPT ![r] = Append(@, outcome)]
    /\ Emit(outcome, r)
-----------------------------------------------------------------------------
(***************************************************************************)
(* TranscriptionUseCase::execute                                           *)
(***************************************************************************)
Exited(code) == [cli EXCEPT !.step = "done", !.exit = code]

StartKeeps == UNCHANGED <<shell, fired, workVars, busVars, jobs, timers>>

\* Start mints the id and registers its token.
Start(f) ==
    LET r == Len(file) + 1
    IN  /\ r \in Request
        /\ file' = Append(file, f)
        /\ starting' = starting \cup {r}
        /\ cancels' = cancels \cup {r}
        /\ UNCHANGED <<accepted, queue>>
        /\ StartKeeps

\* Mutant: QueueFull leaves the token behind.
TrySendLeaking(r) ==
    /\ r \in starting
    /\ starting' = starting \ {r}
    /\ \/ /\ Len(queue) < QUEUE_DEPTH
          /\ queue' = Append(queue, r)
          /\ accepted' = accepted \cup {r}
       \/ Len(queue) = QUEUE_DEPTH /\ UNCHANGED <<queue, accepted>>
    /\ UNCHANGED <<file, cancels, cli>>
    /\ StartKeeps

\* try_send: a full queue is QueueFull, and the token is dropped again.
TrySend(r) ==
    /\ r \in starting
    /\ starting' = starting \ {r}
    /\ \/ /\ Len(queue) < QUEUE_DEPTH
          /\ queue' = Append(queue, r)
          /\ accepted' = accepted \cup {r}
          /\ UNCHANGED <<cancels, cli>>
       \/ /\ Len(queue) = QUEUE_DEPTH
          /\ cancels' = cancels \ {r}
          /\ cli' = IF shell = "cli" THEN Exited(exit_code_for("QueueFull")) ELSE cli
          /\ UNCHANGED <<queue, accepted>>
    /\ UNCHANGED file
    /\ StartKeeps

\* Cancel: an id that is not in the map is a no-op.
Cancel(r) ==
    /\ cancels' = cancels \ {r}
    /\ fired' = IF r \in cancels THEN fired \cup {r} ELSE fired
    /\ UNCHANGED <<file, starting, accepted, queue>>
-----------------------------------------------------------------------------
(***************************************************************************)
(* worker_loop and process_one                                             *)
(***************************************************************************)
WorkerKeeps == UNCHANGED <<shell, file, starting, accepted, fired, uiVars>>
At(step) == worker.step = step
Goes(step) == worker' = [worker EXCEPT !.step = step]

\* A terminal event from the worker ends process_one.
WorkerTells(outcome) ==
    /\ Tell(outcome, worker.req)
    /\ Goes("remove")
    /\ UNCHANGED <<cancels, queue, writer, rows>>
    /\ WorkerKeeps

\* recv_async yields an item; the started event is the first thing.
Recv ==
    /\ At("recv")
    /\ queue # <<>>
    /\ worker' = [step |-> "resolve", req |-> Head(queue)]
    /\ queue' = Tail(queue)
    /\ Emit("started", Head(queue))
    /\ UNCHANGED <<cancels, lines, writer, reply, rows, told>>
    /\ WorkerKeeps

\* registry.active, the adapter's stat of the source, and the child's spawn:
\* each may fail.
Resolve ==
    /\ At("resolve")
    /\ \/ /\ \E step \in {"remux", "upload"} : Goes(step)
          /\ lines' = IF worker'.step = "remux" THEN 0 ELSE -1
          /\ UNCHANGED <<cancels, queue, writer, reply, rows, told, busVars>>
          /\ WorkerKeeps
       \/ /\ \E error \in {"BackendUnavailable", "AudioDecode"} : WorkerTells(error)
          /\ UNCHANGED <<lines, reply>>

\* The ffmpeg child has one more line for its stderr.  Nobody reads it before the
\* child has exited: with more than the pipe holds it is blocked.
Blocked == At("remux") /\ lines > PIPE

ChildWrites ==
    /\ At("remux")
    /\ ~Blocked
    /\ lines' = lines + 1
    /\ UNCHANGED <<shell, coreVars, worker, writer, reply, rows, told, busVars, uiVars>>

\* Mutant: the cancelled remux ends the job without a word.
PollCancelledSilently ==
    /\ At("remux")
    /\ worker.req \in fired
    /\ lines' = -1
    /\ Goes("remove")
    /\ UNCHANGED <<cancels, queue, writer, reply, rows, told, busVars>>
    /\ WorkerKeeps

\* The poll of remux_for_upload: a cancelled token kills the child; try_wait
\* sees one that has exited, as it may unless it is blocked.
PollCancelled ==
    /\ At("remux")
    /\ worker.req \in fired
    /\ lines' = -1
    /\ WorkerTells("cancelled")
    /\ UNCHANGED reply

ChildExited ==
    /\ At("remux")
    /\ worker.req \notin fired
    /\ ~Blocked
    /\ lines' = -1
    /\ \/ /\ Goes("upload")
          /\ UNCHANGED <<cancels, queue, writer, reply, rows, told, busVars>>
          /\ WorkerKeeps
       \/ WorkerTells("AudioDecode") /\ UNCHANGED reply

\* transcribe_inner: the provider answers or fails.  Nobody looks at the token
\* before it does, and there is no timeout.
Upload ==
    /\ At("upload")
    /\ \/ /\ Goes("check")
          /\ UNCHANGED <<cancels, queue, writer, reply, rows, told, busVars>>
          /\ WorkerKeeps
       \/ /\ \E err \in ProviderError : WorkerTells(map_async_openai_error(err))
          /\ UNCHANGED reply
    /\ UNCHANGED lines

\* The check before the write, then the command is sent to the writer.
PreWriteCheck ==
    /\ At("check")
    /\ \/ worker.req \in fired /\ WorkerTells("cancelled") /\ UNCHANGED reply
       \/ /\ worker.req \notin fired
          /\ writer.step = "idle"
          /\ Goes("insert")
          /\ writer' = [step |-> "command", req |-> worker.req]
          /\ reply' = "none"
          /\ UNCHANGED <<cancels, queue, rows, told, busVars>>
          /\ WorkerKeeps
    /\ UNCHANGED lines

\* Mutant: the worker announces the completion the writer announces too.
ReplyReadTwice ==
    /\ At("insert")
    /\ reply # "none"
    /\ WorkerTells(IF reply = "ok" THEN "completed" ELSE reply)
    /\ UNCHANGED <<lines, reply>>

\* An error of the insert is told by the worker; a success by the writer.
ReplyRead ==
    /\ At("insert")
    /\ reply # "none"
    /\ \/ /\ reply = "ok"
          /\ Goes("remove")
          /\ UNCHANGED <<cancels, queue, writer, rows, told, busVars>>
          /\ WorkerKeeps
       \/ reply # "ok" /\ WorkerTells(reply)
    /\ UNCHANGED <<lines, reply>>

\* The token leaves the map after the terminal state.
Forget ==
    /\ At("remove")
    /\ cancels' = cancels \ {worker.req}
    /\ worker' = [step |-> "recv", req |-> 0]
    /\ UNCHANGED <<queue, lines, writer, reply, rows, told, busVars>>
    /\ WorkerKeeps
-----------------------------------------------------------------------------
(***************************************************************************)
(* insert_impl and handle: the transaction, the reply, then two events     *)
(***************************************************************************)
WriterKeeps == UNCHANGED <<shell, coreVars, worker, lines, uiVars>>
WriterGoes(step) == writer' = [writer EXCEPT !.step = step]

RollBack ==
    /\ WriterGoes("idle")
    /\ \/ writer.req \in fired /\ reply' = "cancelled"
       \/ reply' = "Internal"
    /\ UNCHANGED <<rows, told, busVars>>
    /\ WriterKeeps

\* BEGIN IMMEDIATE and the check after it; then the check before a segment.
Insert ==
    /\ writer.step \in {"command", "begun"}
    /\ \/ RollBack
       \/ /\ writer.req \notin fired
          /\ WriterGoes(IF writer.step = "command" THEN "begun" ELSE "inserted")
          /\ UNCHANGED <<reply, rows, told, busVars>>
          /\ WriterKeeps

\* The transaction commits, whatever happened to the token since; the reply
\* is sent before the events.
Commit ==
    /\ writer.step \in {"begun", "inserted"}
    /\ rows' = rows \cup {writer.req}
    /\ reply' = "ok"
    /\ WriterGoes("completed")
    /\ UNCHANGED <<told, busVars>>
    /\ WriterKeeps

EmitCompleted ==
    /\ writer.step = "completed"
    /\ Tell("completed", writer.req)
    /\ WriterGoes("invalidate")
    /\ UNCHANGED <<reply, rows>>
    /\ WriterKeeps

EmitInvalidated ==
    /\ writer.step = "invalidate"
    /\ Emit("search", 0)
    /\ WriterGoes("idle")
    /\ UNCHANGED <<reply, rows, told>>
    /\ WriterKeeps
-----------------------------------------------------------------------------
(***************************************************************************)
(* The webview                                                             *)
(***************************************************************************)
\* The first job of the file in the slice: the one the button shows.
ActiveJob(f) == SelectSeq(jobs, LAMBDA j : file[j.req] = f)
Shows(f, status) == ActiveJob(f) # <<>> /\ Head(ActiveJob(f)).status \in status

\* onClickStart: idle, or a retry of what was cancelled or failed.
ClickTranscribe(f) ==
    /\ shell = "desktop"
    /\ ActiveJob(f) = <<>> \/ Shows(f, {"cancelled"} \cup Failure)
    /\ Start(f)
    /\ UNCHANGED cli

\* The Cancel of the button or of the pill.
ClickCancel(j) ==
    /\ j.status = "running"
    /\ Cancel(j.req)
    /\ UNCHANGED <<shell, workVars, busVars, uiVars>>

Updated(r, status) ==
    [i \in DOMAIN jobs |-> IF jobs[i].req = r THEN [jobs[i] EXCEPT !.status = status]
                           ELSE jobs[i]]

\* Mutant: a failure is toasted and the job left as it is.
HeardButFailed(e) ==
    CASE e.kind = "started" -> Append(jobs, [req |-> e.req, status |-> "running"])
      [] e.kind \in Terminal \ Failure -> Updated(e.req, e.kind)
      [] OTHER -> jobs

\* startJob and updateJob, which leaves alone what is not in the slice.
Heard(e) ==
    CASE e.kind = "started" -> Append(jobs, [req |-> e.req, status |-> "running"])
      [] e.kind \in Terminal -> Updated(e.req, e.kind)
      [] OTHER -> jobs

\* useDomainEvents takes the next event; completed and cancelled jobs get a timer.
WebviewHears ==
    /\ shell = "desktop"
    /\ bus # <<>>
    /\ bus' = Tail(bus)
    /\ jobs' = Heard(Head(bus))
    /\ timers' = IF Head(bus).kind \in {"completed", "cancelled"}
                 THEN timers \cup {Head(bus).req} ELSE timers
    /\ UNCHANGED <<shell, coreVars, workVars, drops, cli>>

\* The slice is keyed by request: what removeJob does not find it leaves alone.
RemoveJob(r) ==
    LET found == {i \in DOMAIN jobs : jobs[i].req = r}
    IN  IF found = {} THEN jobs ELSE RemoveAt(jobs, CHOOSE i \in found : TRUE)

\* The grace period ends.
GraceEnds(r) ==
    /\ timers' = timers \ {r}
    /\ jobs' = RemoveJob(r)
    /\ UNCHANGED <<shell, coreVars, workVars, busVars, cli>>
-----------------------------------------------------------------------------
(***************************************************************************)
(* The command line: cmd::transcribe::run                                  *)
(***************************************************************************)
CliGoes(step) == cli' = [cli EXCEPT !.step = step]
CliKeeps == UNCHANGED <<shell, workVars, jobs, timers>>

CliStart(f) ==
    /\ shell = "cli"
    /\ cli.step = "idle"
    /\ CliGoes("sent")
    /\ Start(f)

\* The source does not exist.
CliSourceMissing ==
    /\ shell = "cli"
    /\ cli.step = "idle"
    /\ cli' = Exited(1)
    /\ CliKeeps /\ UNCHANGED <<coreVars, busVars>>

\* The cell of the handler is filled once Start has answered.
CliLearnsRequest ==
    /\ cli.step = "sent"
    /\ accepted # {}
    /\ cli' = [cli EXCEPT !.step = "waiting", !.knows = TRUE]
    /\ CliKeeps /\ UNCHANGED <<coreVars, busVars>>

\* TerminalEventHandler: before the cell is filled, events are ignored.
CliHears ==
    /\ shell = "cli"
    /\ bus # <<>>
    /\ bus' = Tail(bus)
    /\ cli' = IF cli.knows /\ Head(bus).kind \in Terminal
              THEN [cli EXCEPT !.heard = Head(bus).kind] ELSE cli
    /\ CliKeeps /\ UNCHANGED <<coreVars, drops>>

\* Ctrl-C: cancel the request, then wait five more seconds.
CtrlC ==
    /\ cli.step = "waiting"
    /\ CliGoes("cancelling")
    /\ \E r \in accepted : Cancel(r)
    /\ CliKeeps /\ UNCHANGED busVars

\* Mutant: what was heard counts as success.
ExitAlwaysZero ==
    /\ cli.step \in {"waiting", "cancelling"}
    /\ cli.heard # "none"
    /\ cli' = Exited(0)

\* load_transcript_header and load_segments_for find the row: no row, no text.
ReadBack == rows # {}

\* What was heard decides the exit code; a completed transcript is read back
\* and written out, which may fail.
ExitHeard ==
    /\ cli.step \in {"waiting", "cancelling"}
    /\ cli.heard # "none"
    /\ \/ cli.heard = "completed" /\ ReadBack /\ cli' = Exited(0)
       \/ cli.heard = "completed" /\ cli' = Exited(1)
       \/ cli.heard # "completed" /\ cli' = Exited(exit_code_for(cli.heard))

\* await_terminal gives up five seconds after Ctrl-C.
ExitUnacknowledged ==
    /\ cli.step = "cancelling"
    /\ cli' = Exited(EXIT_CANCELLED)

CliExit ==
    /\ ExitHeard \/ ExitUnacknowledged
    /\ CliKeeps /\ UNCHANGED <<coreVars, busVars>>
-----------------------------------------------------------------------------
Init ==
    /\ shell \in {"desktop", "cli"}
    /\ file = <<>> /\ starting = {} /\ accepted = {} /\ cancels = {} /\ fired = {}
    /\ queue = <<>>
    /\ worker = [step |-> "recv", req |-> 0]
    /\ lines = -1
    /\ writer = [step |-> "idle", req |-> 0]
    /\ reply = "none" /\ rows = {}
    /\ told = [r \in Request |-> <<>>]
    /\ bus = <<>> /\ drops = 0
    /\ jobs = <<>> /\ timers = {}
    /\ cli = [step |-> "idle", knows |-> FALSE, heard |-> "none", exit |-> -1]

WorkerProceeds ==
    \/ Recv \/ Resolve \/ PollCancelled \/ ChildExited
    \/ PreWriteCheck \/ ReplyRead \/ Forget

WorkerStep == WorkerProceeds \/ Upload

WriterStep == Insert \/ Commit \/ EmitCompleted \/ EmitInvalidated

Client ==
    \/ \E f \in File : ClickTranscribe(f) \/ CliStart(f)
    \/ \E i \in DOMAIN jobs : ClickCancel(jobs[i])
    \/ WebviewHears \/ CliHears \/ CliSourceMissing \/ CliLearnsRequest \/ CtrlC \/ CliExit
    \/ \E r \in timers : GraceEnds(r)

Next == (\E r \in starting : TrySend(r)) \/ WorkerStep \/ ChildWrites \/ WriterStep \/ Client

\* Spawned tasks, the writer thread and a child that is not blocked go on, and
\* the clients' event loops run.  The provider need not answer, a child need not
\* write, and nobody has to click.
Fairness ==
    /\ WF_vars(\E r \in starting : TrySend(r))
    /\ WF_vars(WorkerProceeds) /\ WF_vars(WriterStep)
    /\ WF_vars(WebviewHears \/ CliHears)
    /\ WF_vars(CliLearnsRequest) /\ WF_vars(CliExit)

Spec == Init /\ [][Next]_vars /\ Fairness
-----------------------------------------------------------------------------
TypeOK ==
    /\ Queued \subseteq Request /\ Len(queue) <= QUEUE_DEPTH
    /\ accepted \cup cancels \cup fired \cup rows \subseteq DOMAIN file
    /\ worker.req \in Request \cup {0} /\ lines \in -1..PIPE + 1
    /\ reply \in {"none", "ok", "cancelled", "Internal"}
    /\ told \in [Request -> Seq(Terminal)]

Outcome == INSTANCE OneOutcome WITH
    stored <- rows,
    outcome <- [r \in Request |-> IF told[r] = <<>> THEN "none"
                                  ELSE IF Len(told[r]) = 1 THEN IF Head(told[r]) \in Failure THEN "failed" ELSE Head(told[r])
                                  ELSE "twice"]

\* The queue, the worker and the writer thread keep the promise of OneOutcome:
\* each accepted request is told one terminal event by one of the two, and a
\* transcript is stored for exactly the requests that complete.
EachEndsOnce == Outcome!Spec

\* The cancel map of the use case holds the tokens of requests under way and no
\* other, and a request under way that was not cancelled can be: whatever
\* overlaps of Start, Cancel and the worker's removal.
TokensMatchWork ==
    /\ cancels \subseteq starting \cup Queued \cup InHand
    /\ (starting \cup Queued \cup InHand) \ fired
          \subseteq cancels \cup (IF At("remove") THEN InHand ELSE {})

\* When no event was dropped and the webview has heard them all, no job that
\* has ended is shown as running.
SliceTellsOutcome ==
    drops = 0 /\ bus = <<>> =>
        \A i \in DOMAIN jobs :
            LET r == jobs[i].req
            IN  told[r] # <<>> => jobs[i].status = told[r][1]

\* What can hold the single worker for ever: a provider that does not answer,
\* and a child blocked on its pipe, until its request is cancelled.
Waits == At("upload") \/ (Blocked /\ worker.req \notin fired)

\* An accepted request ends: neither a cancelled, refused or failed predecessor
\* keeps the worker from it nor a blocked child, once cancelled; only a worker
\* that comes to wait for ever.
AcceptedEnds == []<>~Waits => \A r \in Request : r \in accepted ~> told[r] # <<>>

\* "The worker observes the token on the next checkpoint", among them an "HTTP
\* poll" (crates/app/src/transcription.rs:98, 185): a request that was cancelled
\* ends.  It need not: there is no checkpoint while the provider is awaited.
CancelEnds == \A r \in Request : r \in fired ~> told[r] # <<>>

\* The command line comes back after it was started, unless an event got lost
\* (crates/cli/src/cmd/transcribe.rs:3) or the worker comes to wait for ever.
CliReturns == []<>~Waits => (cli.step = "sent" ~> (cli.step = "done" \/ drops > 0))

\* Exit code 0 means a stored transcript, EXIT_AUTH a provider that refused the
\* key or the bill, and no other failure is told as one of these.
ExitTellsOutcome ==
    cli.step = "done" /\ accepted # {} =>
        LET outcome == told[1]
        IN  /\ cli.exit = 0 => rows = {1} /\ outcome = <<"completed">>
            /\ cli.exit = EXIT_AUTH => outcome \in {<<"Auth">>, <<"QuotaExceeded">>}
            /\ cli.exit = EXIT_QUEUE_FULL => FALSE

\* A failed job leaves the slice on a retry
\* (apps/desktop/src/components/TranscribeButton.tsx:6).
RetryReplacesFailed ==
    \A i, k \in DOMAIN jobs :
        /\ i < k
        /\ file[jobs[i].req] = file[jobs[k].req]
        /\ jobs[k].status = "running"
        => jobs[i].status \notin Failure
=============================================================================
