-------------------------- MODULE WatchControl --------------------------
(***************************************************************************)
(* start_watch and stop_watch of the desktop shell                         *)
(* (crates/desktop/src/commands.rs, state.rs, crates/fs/src/watcher.rs).   *)
(* WatcherState holds a watcher and its cancellation token behind two      *)
(* locks, which a call takes one after the other; calls are tasks of their *)
(* own, and nothing makes one wait for another.  A watcher is named after  *)
(* the call that started it.  It forwards events while its handle is held  *)
(* and its token is not cancelled; what it forwards is in Desktop and      *)
(* Library, the volume's rows are in Volumes.                              *)
(***************************************************************************)
EXTENDS DesktopProcess

CONSTANTS WatchCall, NoWatcher

ASSUME WatchAssumption == NoWatcher \notin WatchCall

VARIABLES
    watch,     \* each call: its step
    inner,     \* WatcherState::inner: the watcher that is held
    cancel,    \* WatcherState::cancel: whose token is there
    cancelled, \* the watchers whose tokens are cancelled
    crossed    \* history: those whose token was taken before they were put

watchVars == <<watch, inner, cancel, cancelled, crossed>>

InProgress == {w \in WatchCall : watch[w] \notin {"none", "done"}}

WatchInit ==
    /\ watch = [w \in WatchCall |-> "none"]
    /\ inner = NoWatcher
    /\ cancel = NoWatcher
    /\ cancelled = {}
    /\ crossed = {}

Accepted(w) ==
    /\ running
    /\ watch[w] = "none"
    /\ Call

\* The root is validated, its volume detected and registered; a failure ends
\* the call before it touches a running watcher.
start_watch(w) ==
    /\ Accepted(w)
    /\ watch' = [watch EXCEPT ![w] = "resolved"]
    /\ UNCHANGED <<inner, cancel, cancelled, crossed>>

stop_watch(w) ==
    /\ Accepted(w)
    /\ watch' = [watch EXCEPT ![w] = "stopping"]
    /\ UNCHANGED <<inner, cancel, cancelled, crossed>>

\* The first lock: the token there is taken and cancelled.
TakeToken(w) ==
    /\ watch[w] \in {"resolved", "stopping"}
    /\ watch' = [watch EXCEPT ![w] = IF @ = "resolved" THEN "took" ELSE "stopped"]
    /\ cancelled' = cancelled \cup ({cancel} \ {NoWatcher})
    /\ crossed' = crossed \cup {v \in {cancel} \cap WatchCall : watch[v] = "put"}
    /\ cancel' = NoWatcher
    /\ UNCHANGED inner

\* Mutant: a start lets the old watcher be replaced by the new one.
DropInner_onStopOnly(w) ==
    /\ watch[w] \in {"took", "stopped"}
    /\ inner' = IF watch[w] = "stopped" THEN NoWatcher ELSE inner
    /\ watch' = [watch EXCEPT ![w] = IF @ = "took" THEN "dropped" ELSE "done"]
    /\ UNCHANGED <<cancel, cancelled, crossed>>

\* The second lock: the watcher there is dropped.
DropInner(w) ==
    /\ watch[w] \in {"took", "stopped"}
    /\ inner' = NoWatcher
    /\ watch' = [watch EXCEPT ![w] = IF @ = "took" THEN "dropped" ELSE "done"]
    /\ UNCHANGED <<cancel, cancelled, crossed>>

\* DebouncedWatcher::start, which may fail; then each lock in turn again.
Register(w) ==
    /\ watch[w] = "dropped"
    /\ watch' \in {[watch EXCEPT ![w] = s] : s \in {"watching", "done"}}
    /\ UNCHANGED <<inner, cancel, cancelled, crossed>>

PutToken(w) ==
    /\ watch[w] = "watching"
    /\ watch' = [watch EXCEPT ![w] = "put"]
    /\ cancel' = w
    /\ UNCHANGED <<inner, cancelled, crossed>>

PutInner(w) ==
    /\ watch[w] = "put"
    /\ watch' = [watch EXCEPT ![w] = "done"]
    /\ inner' = w
    /\ UNCHANGED <<cancel, cancelled, crossed>>

is_watching == inner # NoWatcher

\* The process ends, and with it its calls and its watcher.
WatchDies ==
    /\ watch' = [w \in WatchCall |-> IF watch[w] = "none" THEN "none" ELSE "done"]
    /\ inner' = NoWatcher
    /\ cancel' = NoWatcher
    /\ UNCHANGED <<cancelled, crossed>>

WatchNext ==
    \E w \in WatchCall :
        \/ start_watch(w) \/ stop_watch(w)
        \/ /\ \/ TakeToken(w) \/ DropInner(w) \/ Register(w) \/ PutToken(w) \/ PutInner(w)
           /\ UNCHANGED calls

\* "Returns true if a filesystem watcher is currently active".  It may not be:
\* a call that takes the token of a start between its two locks leaves the
\* watcher that is then put there dead.
WatcherIsLive == InProgress = {} /\ is_watching => inner \notin cancelled

\* There is no other way: between calls a watcher that is held forwards events,
\* however calls overlap, fail to register and die, unless its token was taken
\* before it was put.
WatchingIsTold == InProgress = {} /\ is_watching => inner \notin cancelled \ crossed
=============================================================================
