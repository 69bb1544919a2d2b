---------------------------- MODULE Desktop -----------------------------
(***************************************************************************)
(* How a change reaches the files view of the desktop application.  The    *)
(* container's writer commits and emits IndexInvalidated; the watcher      *)
(* emits File events; on the bus, DbEventHandler writes the File events to *)
(* the database through a writer of its own, whose bus is LocalNoopBus,    *)
(* and TauriEventHandler forwards every event to the webview, where        *)
(* useDomainEvents.ts debounces an invalidation of the files query.        *)
(*                                                                         *)
(* The database is abstracted to the number of its commits; the cache      *)
(* holds the number it was read at.                                        *)
(***************************************************************************)
EXTENDS EventBus

CONSTANTS Mounted,    \* TRUE: start with the window open and its listener attached
          MaxWrites   \* bound on the commits of the container's writer

ASSUME DesktopAssumption ==
    /\ Receiver = {"db_event_handler", "tauri_event_handler"}
    /\ Mounted \in BOOLEAN
    /\ MaxWrites \in Nat

VARIABLES
    sent,      \* the events by number: kind and the commit they announce
    db,        \* commits so far
    writes,    \* commits of the container's writer
    emitting,  \* the container's writer: commit to announce, 0 if none
    listening, \* subscribeToAppEvents has resolved
    timer,     \* filesDebounceTimer is set
    fetch,     \* the files query: idle, asked, read
    seen,      \* commit count the fetch read
    cache,     \* commit count the view shows
    heard,     \* the newest commit announced to the webview
    causes     \* why the view may not show a commit: what its last read could
               \* not know of, and whether its last fetch failed

frontend == <<listening, timer, fetch, seen, cache, heard>>
desktopVars == <<vars, sent, db, writes, emitting, frontend, causes>>

Db    == "db_event_handler"
Tauri == "tauri_event_handler"

\* setup: both handlers subscribe before the window is shown, and the view's
\* first fetch is under way while the listener is still being attached.
DesktopInit ==
    /\ emits = 0
    /\ accepted = <<>>
    /\ active = Receiver
    /\ start = [r \in Receiver |-> 0]
    /\ cursor = [r \in Receiver |-> 0]
    /\ busy = {}
    /\ handled = [r \in Receiver |-> <<>>]
    /\ sent = <<>>
    /\ db = 0 /\ writes = 0 /\ emitting = 0
    /\ listening = Mounted
    /\ timer = FALSE
    /\ fetch = IF Mounted THEN "idle" ELSE "asked"
    /\ seen = 0 /\ cache = 0
    /\ heard = 0
    /\ causes = {}

\* bus.emit of an event of this kind; a full ring drops an announcement.
Publish(kind, commit) ==
    /\ emit
    /\ sent' = Append(sent, [kind |-> kind, commit |-> commit])
    /\ causes' = IF accepted' = accepted THEN causes \cup {"dropped"} ELSE causes
-----------------------------------------------------------------------------
\* Mutant: the event is due before the commit.
CommitLater ==
    /\ emitting = 0
    /\ writes < MaxWrites
    /\ writes' = writes + 1
    /\ emitting' = db + 1
    /\ UNCHANGED <<vars, sent, db, frontend, causes>>

\* The container's writer thread: COMMIT, then the event, then the next one.
Commit ==
    /\ emitting = 0
    /\ writes < MaxWrites
    /\ db' = db + 1
    /\ writes' = writes + 1
    /\ emitting' = db + 1
    /\ UNCHANGED <<vars, sent, frontend, causes>>

Announce ==
    /\ emitting # 0
    /\ Publish("FilesChanged", emitting)
    /\ emitting' = 0
    /\ UNCHANGED <<db, writes, frontend>>

\* ScanUseCase emits ScanCompleted after the replies to its writes; another
\* caller's command may be between its commit and its event.
ScanCompleted ==
    /\ writes > 0
    /\ Publish("ScanCompleted", db)
    /\ UNCHANGED <<db, writes, emitting, frontend>>

\* run_event_loop: a debounced change on disk becomes a File event.
WatcherEmits ==
    /\ Publish("File", 0)
    /\ UNCHANGED <<db, writes, emitting, frontend>>

HandlerReceives(r) ==
    /\ Recv(r)
    /\ UNCHANGED <<sent, db, writes, emitting, frontend, causes>>

InHand(r) == sent[accepted[cursor[r]]]

\* DbEventHandler::handle: a File event flips a status or a path through the
\* watch writer, which commits and announces to nobody.  A Created event, one
\* that matches no row, a failed write and the other kinds change nothing.
DbHandles ==
    /\ Handled(Db)
    /\ \/ /\ InHand(Db).kind = "File"
          /\ db' = db + 1
          /\ causes' = causes \cup {"watch"}
       \/ UNCHANGED <<db, causes>>
    /\ UNCHANGED <<sent, writes, emitting, frontend>>

\* Mutant: a query in flight is not asked again.
InvalidateDeduped == fetch' = IF fetch = "idle" THEN "asked" ELSE fetch

\* invalidateQueries: a fetch in flight is cancelled and made again.
Invalidate == fetch' = "asked"

\* Mutant: ScanCompleted cancels the pending debounce and leaves it at that.
OnScanCompletedClears == timer' = FALSE /\ UNCHANGED fetch

\* The ScanCompleted case: cancel the pending debounce, invalidate at once.
OnScanCompleted == timer' = FALSE /\ Invalidate

\* TauriEventHandler::handle and the webview's listener.  The IPC between the
\* two is taken to be reliable and in order.
TauriHandles ==
    LET e == InHand(Tauri)
    IN  /\ Handled(Tauri)
        /\ \/ /\ ~listening
              /\ causes' = causes \cup {"late"}
              /\ UNCHANGED <<timer, fetch, heard>>
           \/ /\ listening
              /\ \/ e.kind = "ScanCompleted" /\ OnScanCompleted
                 \/ e.kind # "ScanCompleted" /\ timer' = TRUE /\ UNCHANGED fetch
              /\ heard' = IF e.commit > heard THEN e.commit ELSE heard
              /\ UNCHANGED causes
        /\ UNCHANGED <<sent, db, writes, emitting, listening, seen, cache>>
-----------------------------------------------------------------------------
\* listen("app-event") resolves.
Listen ==
    /\ ~listening
    /\ listening' = TRUE
    /\ UNCHANGED <<vars, sent, db, writes, emitting, timer, fetch, seen, cache, heard, causes>>

\* filesDebounceTimer fires after 300 ms without a further event.
TimerFires ==
    /\ timer
    /\ timer' = FALSE
    /\ Invalidate
    /\ UNCHANGED <<vars, sent, db, writes, emitting, listening, seen, cache, heard, causes>>

\* list_files_with_tags reads the database through the read pool.
QueryReads ==
    /\ fetch = "asked"
    /\ fetch' = "read"
    /\ seen' = db
    /\ causes' = causes \cap {"failed"}
    /\ UNCHANGED <<vars, sent, db, writes, emitting, listening, timer, cache, heard>>

\* The promise resolves into the cache.
QuerySettles ==
    /\ fetch = "read"
    /\ fetch' = "idle"
    /\ cache' = seen
    /\ causes' = causes \ {"failed"}
    /\ UNCHANGED <<vars, sent, db, writes, emitting, listening, timer, seen, heard>>

\* The command answers with an error and queryFn throws: retry is false, the
\* old data stays in the cache, and the files page does not look at the error.
QueryFails ==
    /\ fetch = "asked"
    /\ fetch' = "idle"
    /\ causes' = causes \cup {"failed"}
    /\ UNCHANGED <<vars, sent, db, writes, emitting, listening, timer, seen, cache, heard>>

Handlers == \/ \E r \in Receiver : HandlerReceives(r)
            \/ DbHandles
            \/ TauriHandles
View == TimerFires \/ QueryReads \/ QuerySettles \/ QueryFails

DesktopNext ==
    \/ Commit \/ Announce \/ ScanCompleted \/ WatcherEmits
    \/ Handlers
    \/ Listen \/ View

\* The writer thread, the tasks and the webview's event loop are scheduled; a
\* query may fail every time.
DesktopSpec ==
    /\ DesktopInit
    /\ [][DesktopNext]_desktopVars
    /\ WF_desktopVars(Announce)
    /\ WF_desktopVars(TimerFires)
    /\ WF_desktopVars(QueryReads)
    /\ WF_desktopVars(QuerySettles)
-----------------------------------------------------------------------------
DesktopTypeOK ==
    /\ TypeOK
    /\ Len(sent) = emits
    /\ fetch \in {"idle", "asked", "read"}
    /\ {seen, cache, heard} \subseteq 0..db
    /\ emitting \in 0..db
    /\ causes \subseteq {"dropped", "late", "watch", "failed"}

\* Nothing is under way between the writers and the view.
Quiescent ==
    /\ emitting = 0
    /\ busy = {}
    /\ \A r \in Receiver : Backlog(r) = 0
    /\ listening /\ ~timer /\ fetch = "idle"

\* When everything has come to rest the view shows the database, unless its
\* last fetch failed, or since its last read an announcement was dropped by a
\* full ring or came before the listener, or a commit of the watch writer was
\* not announced at all.
StaleHasCause == Quiescent /\ cache # db => causes # {}

\* "AppEvent-driven invalidation handles real changes": at rest the view
\* shows the database.
ViewIsCurrent == Quiescent => cache = db

\* The last fetch failed, and no other is under way or due.
GaveUp == ~timer /\ fetch = "idle" /\ "failed" \in causes

\* A commit announced to the webview is shown, through any number of
\* debounced, cancelled and repeated fetches, or the last of these failed.
HeardIsShown ==
    \A v \in 1..MaxWrites + MaxEmits : (heard >= v) ~> (cache >= v \/ GaveUp)
=============================================================================
