----------------------------- MODULE Writer -----------------------------
(***************************************************************************)
(* The writer actor of crates/db/src/writer/mod.rs: repository adapters    *)
(* send commands over an unbounded flume channel and block on a reply      *)
(* channel of capacity one; a single thread receives, dispatches to a      *)
(* handler (transaction, events, reply) and stops at WriteCmd::Shutdown or *)
(* when every sender is gone.                                              *)
(*                                                                         *)
(* A command stands for its blocked caller too: an adapter has one command *)
(* in flight per call.  The process may die at any point and be started    *)
(* again on the same database.                                             *)
(***************************************************************************)
EXTENDS Sequences, Naturals

CONSTANTS
    Command,     \* calls into the repository adapters
    Transcript,  \* those handled by writer/transcript.rs
    Silent,      \* those whose handler emits nothing (volume, cache, backup, tag upsert)
    Handle,      \* clones of SqliteWriterHandle
    Shutdown,    \* WriteCmd::Shutdown
    MaxCrashes   \* bound on process deaths

ASSUME WriterAssumption ==
    /\ Transcript \subseteq Command
    /\ Silent \subseteq Command \ Transcript
    /\ Shutdown \notin Command
    /\ MaxCrashes \in Nat

VARIABLES
    call,     \* Command -> the adapter call's progress
    queue,    \* the WriteCmd channel
    pc,       \* the writer thread: recv, execute, emit, reply, exiting, exited
    cur,      \* the command being handled
    result,   \* the handler's result
    log,      \* the committed commands, in order: the database
    bus,      \* the commands whose events were emitted, in order
    joiner,   \* Handle -> progress of join()
    taken,    \* the JoinHandle was take()n out of its mutex
    held,     \* the repositories hold their senders
    behind,   \* commands enqueued behind a Shutdown
    crashes   \* process deaths so far

thread  == <<pc, cur, result>>
handles == <<joiner, taken, held>>
history == <<behind, crashes>>
vars    == <<call, queue, thread, log, bus, handles, history>>

Logged(c)   == \E i \in 1..Len(log) : log[i] = c
Emitted(c)  == \E i \in 1..Len(bus) : bus[i] = c
Enqueued(x) == \E i \in 1..Len(queue) : queue[i] = x
\* A command sent now will never be received.
Closing     == pc = "exiting" \/ Enqueued(Shutdown)

\* SqliteWriter::start on an empty database.
Init ==
    /\ call = [c \in Command |-> "new"]
    /\ queue = <<>>
    /\ pc = "recv"
    /\ cur = Shutdown
    /\ result = "none"
    /\ log = <<>>
    /\ bus = <<>>
    /\ joiner = [h \in Handle |-> "idle"]
    /\ taken = FALSE
    /\ held = TRUE
    /\ behind = {}
    /\ crashes = 0
-----------------------------------------------------------------------------
\* An adapter call: build the reply channel, send, block in recv().  After
\* the receiver is dropped, send() fails and so does the call.
Send(c) ==
    /\ held
    /\ call[c] = "new"
    /\ \/ /\ pc = "exited"
          /\ call' = [call EXCEPT ![c] = "err"]
          /\ UNCHANGED <<queue, behind>>
       \/ /\ pc # "exited"
          /\ call' = [call EXCEPT ![c] = "waiting"]
          /\ queue' = Append(queue, c)
          /\ behind' = IF Closing THEN behind \cup {c} ELSE behind
    /\ UNCHANGED <<thread, log, bus, handles, crashes>>

\* Mutant: the newest command first.
RecvNewest ==
    /\ pc = "recv"
    /\ queue # <<>>
    /\ cur' = queue[Len(queue)]
    /\ queue' = SubSeq(queue, 1, Len(queue) - 1)
    /\ pc' = IF cur' = Shutdown THEN "exiting" ELSE "execute"
    /\ UNCHANGED <<call, result, log, bus, handles, history>>

\* Mutant: Shutdown is dispatched like any other command.
RecvDispatchesShutdown ==
    /\ pc = "recv"
    /\ queue # <<>>
    /\ cur' = Head(queue)
    /\ queue' = Tail(queue)
    /\ pc' = "execute"
    /\ UNCHANGED <<call, result, log, bus, handles, history>>

\* Mutant: the command stays at the head of the channel.
RecvPeeks ==
    /\ pc = "recv"
    /\ queue # <<>>
    /\ cur' = Head(queue)
    /\ pc' = IF Head(queue) = Shutdown THEN "exiting" ELSE "execute"
    /\ UNCHANGED <<call, queue, result, log, bus, handles, history>>

\* receiver.recv() in run_writer_loop; Shutdown ends the loop.
Recv ==
    /\ pc = "recv"
    /\ queue # <<>>
    /\ cur' = Head(queue)
    /\ queue' = Tail(queue)
    /\ pc' = IF Head(queue) = Shutdown THEN "exiting" ELSE "execute"
    /\ UNCHANGED <<call, result, log, bus, handles, history>>

\* recv() fails: every sender is gone and nothing is queued.
Disconnected ==
    /\ pc = "recv"
    /\ queue = <<>>
    /\ ~held
    /\ \A h \in Handle : joiner[h] # "idle"
    /\ pc' = "exiting"
    /\ UNCHANGED <<call, queue, cur, result, log, bus, handles, history>>

\* Mutant: the connection commits each statement, so that a command that
\* fails half-way has been applied all the same.
ExecuteUntransacted ==
    /\ pc = "execute"
    /\ log' = Append(log, cur)
    /\ \/ result' = "ok" /\ pc' = IF cur \in Transcript \cup Silent THEN "reply" ELSE "emit"
       \/ result' = "err" /\ pc' = "reply"
    /\ UNCHANGED <<call, queue, cur, bus, handles, history>>

\* Mutant: a handler of the common shape replies as soon as it has committed.
ExecuteRepliesFirst ==
    /\ pc = "execute"
    /\ \/ result' = "ok" /\ log' = Append(log, cur) /\ pc' = "reply"
       \/ result' = "err" /\ pc' = "reply" /\ UNCHANGED log
    /\ UNCHANGED <<call, queue, cur, bus, handles, history>>

\* The handler's transaction: it commits, or fails and is rolled back.  Most
\* handlers go on to emit, transcript.rs to reply.
Execute ==
    /\ pc = "execute"
    /\ \/ /\ result' = "ok"
          /\ log' = Append(log, cur)
          /\ pc' = IF cur \in Transcript \cup Silent THEN "reply" ELSE "emit"
       \/ /\ result' = "err"
          /\ UNCHANGED log
          /\ pc' = "reply"
    /\ UNCHANGED <<call, queue, cur, bus, handles, history>>

\* bus.emit(): its failure is logged and changes nothing.
Emit ==
    /\ pc = "emit"
    /\ bus' = Append(bus, cur)
    /\ pc' = IF cur \in Transcript THEN "recv" ELSE "reply"
    /\ UNCHANGED <<call, queue, cur, result, log, handles, history>>

\* Mutant: the error of a transcript insert skips to the emit as well.
ReplyThenEmitAlways ==
    /\ pc = "reply"
    /\ call' = [call EXCEPT ![cur] = result]
    /\ pc' = IF cur \in Transcript THEN "emit" ELSE "recv"
    /\ UNCHANGED <<queue, cur, result, log, bus, handles, history>>

\* Mutant: the error path forgets to reply.
ReplyOnlyOk ==
    /\ pc = "reply"
    /\ call' = IF result = "ok" THEN [call EXCEPT ![cur] = "ok"] ELSE call
    /\ pc' = IF cur \in Transcript /\ result = "ok" THEN "emit" ELSE "recv"
    /\ UNCHANGED <<queue, cur, result, log, bus, handles, history>>

\* reply.send(): the blocked caller returns.
ReplyTo ==
    /\ pc = "reply"
    /\ call' = [call EXCEPT ![cur] = result]
    /\ pc' = IF cur \in Transcript /\ result = "ok" THEN "emit" ELSE "recv"
    /\ UNCHANGED <<queue, cur, result, log, bus, handles, history>>

\* The loop returns and drops the receiver.  flume either drops what is still
\* queued, so that the callers' recv() fails, or keeps it for as long as a
\* sender lives, so that they stay blocked: the code relies on neither.
Exit ==
    /\ pc = "exiting"
    /\ pc' = "exited"
    /\ \/ /\ call' = [c \in Command |-> IF Enqueued(c) THEN "err" ELSE call[c]]
          /\ queue' = <<>>
       \/ UNCHANGED <<call, queue>>
    /\ UNCHANGED <<cur, result, log, bus, handles, history>>
-----------------------------------------------------------------------------
\* Mutant: join() only drops its sender and waits for the channel to close.
JoinWithoutShutdown(h) ==
    /\ joiner[h] = "idle"
    /\ joiner' = [joiner EXCEPT ![h] = "sent"]
    /\ UNCHANGED <<call, queue, thread, log, bus, taken, held, history>>

\* join(), first half: try_send(Shutdown), ignored if the receiver is gone.
JoinSend(h) ==
    /\ joiner[h] = "idle"
    /\ joiner' = [joiner EXCEPT ![h] = "sent"]
    /\ queue' = IF pc = "exited" THEN queue ELSE Append(queue, Shutdown)
    /\ UNCHANGED <<call, thread, log, bus, taken, held, history>>

\* join(), second half: the first caller takes the JoinHandle, the others
\* find None and return at once.
JoinTake(h) ==
    /\ joiner[h] = "sent"
    /\ taken' = TRUE
    /\ joiner' = [joiner EXCEPT ![h] = IF taken THEN "skipped" ELSE "joining"]
    /\ UNCHANGED <<call, queue, thread, log, bus, held, history>>

\* Mutant: the thread is detached instead of joined.
JoinDoneEarly(h) ==
    /\ joiner[h] = "joining"
    /\ joiner' = [joiner EXCEPT ![h] = "joined"]
    /\ UNCHANGED <<call, queue, thread, log, bus, taken, held, history>>

\* JoinHandle::join() returns once the thread has ended.
JoinDone(h) ==
    /\ joiner[h] = "joining"
    /\ pc = "exited"
    /\ joiner' = [joiner EXCEPT ![h] = "joined"]
    /\ UNCHANGED <<call, queue, thread, log, bus, taken, held, history>>

\* A handle goes out of scope without join(): its sender is dropped.
DropHandle(h) ==
    /\ joiner[h] = "idle"
    /\ joiner' = [joiner EXCEPT ![h] = "dropped"]
    /\ UNCHANGED <<call, queue, thread, log, bus, taken, held, history>>

\* The repositories go out of scope; a blocked call still borrows one.
DropRepos ==
    /\ held
    /\ \A c \in Command : call[c] # "waiting"
    /\ held' = FALSE
    /\ UNCHANGED <<call, queue, thread, log, bus, joiner, taken, history>>

\* The process dies and is started again.  An open transaction is rolled
\* back; everything but the database is new.
Crash ==
    /\ crashes < MaxCrashes
    /\ crashes' = crashes + 1
    /\ call' = [c \in Command |-> IF call[c] = "waiting" THEN "lost" ELSE call[c]]
    /\ queue' = <<>>
    /\ pc' = "recv"
    /\ cur' = Shutdown
    /\ result' = "none"
    /\ joiner' = [h \in Handle |-> "idle"]
    /\ taken' = FALSE
    /\ held' = TRUE
    /\ behind' = {}
    /\ UNCHANGED <<log, bus>>

WriterStep == Recv \/ Disconnected \/ Execute \/ Emit \/ ReplyTo \/ Exit

Next ==
    \/ \E c \in Command : Send(c)
    \/ WriterStep
    \/ \E h \in Handle : JoinSend(h) \/ JoinTake(h) \/ JoinDone(h) \/ DropHandle(h)
    \/ DropRepos
    \/ Crash

\* The writer thread is scheduled, and so is a thread inside join().
Fairness ==
    /\ WF_vars(WriterStep)
    /\ \A h \in Handle : WF_vars(JoinTake(h)) /\ WF_vars(JoinDone(h))

Spec == Init /\ [][Next]_vars /\ Fairness
-----------------------------------------------------------------------------
TypeOK ==
    /\ call \in [Command -> {"new", "waiting", "ok", "err", "lost"}]
    /\ queue \in Seq(Command \cup {Shutdown})
    /\ pc \in {"recv", "execute", "emit", "reply", "exiting", "exited"}
    /\ cur \in Command \cup {Shutdown}
    /\ pc \in {"execute", "emit", "reply"} => cur \in Command
    /\ result \in {"none", "ok", "err"}
    /\ log \in Seq(Command)
    /\ bus \in Seq(Command)
    /\ joiner \in [Handle -> {"idle", "sent", "joining", "joined", "skipped", "dropped"}]
    /\ taken \in BOOLEAN
    /\ held \in BOOLEAN
    /\ behind \subseteq Command
    /\ crashes \in 0..MaxCrashes

\* Whatever the queue, the shutdown and a crash do, each command is committed
\* at most once; a caller that got Ok finds its command in the database, one
\* that got an error, from the handler, the reply channel or send(), does not.
ReplyTellsCommit ==
    /\ \A i, j \in 1..Len(log) : log[i] = log[j] => i = j
    /\ \A c \in Command : call[c] = "ok" => Logged(c)
    /\ \A c \in Command : call[c] \in {"new", "err"} => ~Logged(c)

\* Subscribers hear of every commit, in commit order and only after it: the
\* events are the log without its silent commands, the newest one possibly
\* still to come.  A crash loses at most the event of one command.
EventsFollowCommits ==
    LET Heard(c) == c \notin Silent
        due      == SelectSeq(log, Heard)
    IN  crashes = 0 =>
          \/ bus = due
          \/ pc \in {"emit", "reply"} /\ cur \notin Silent /\ due = Append(bus, cur)

\* When a caller gets its Ok, the event of its command is already on the bus.
\* Holds of every handler with the shape the comment in dispatch prescribes.
EventBeforeReply ==
    \A c \in Command \ (Silent \cup Transcript) : call[c] = "ok" => Emitted(c)

\* "The shared shape each handler must follow": emit, then reply.
EveryEventBeforeReply ==
    \A c \in Command \ Silent : call[c] = "ok" => Emitted(c)

\* Graceful shutdown: when the thread has ended, every command sent before
\* the Shutdown has been answered; only later ones can be left waiting.
ShutdownDrains ==
    pc = "exited" => \A c \in Command : call[c] = "waiting" => c \in behind

\* A join() that took the JoinHandle returns after the thread's last commit:
\* from then on the database and the bus stand still.
JoinedMeansQuiet ==
    [][(\E h \in Handle : joiner[h] = "joined") => UNCHANGED <<log, bus>> \/ Crash]_vars

\* Every caller not queued behind a Shutdown gets its answer.
Answered ==
    \A c \in Command : (call[c] = "waiting" /\ c \notin behind) ~> (call[c] # "waiting")

\* join() returns, whoever else holds a sender.
JoinReturns ==
    \A h \in Handle : (joiner[h] = "sent") ~> (joiner[h] # "sent" /\ joiner[h] # "joining")

\* The writer and its adapters keep the promise of AtomicWrites.
Atomic == INSTANCE AtomicWrites
AtomicWrites == Atomic!Spec
=============================================================================
