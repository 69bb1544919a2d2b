--------------------------- MODULE TwoWriters ---------------------------
(***************************************************************************)
(* The desktop shell's two writer actors on one database: the container's  *)
(* and the one crates/desktop/src/lib.rs starts for DbEventHandler, which  *)
(* runs the watcher's commands.  Each takes its stamp at the head of       *)
(* writer/file.rs::handle and only then asks SQLite for the write lock, so *)
(* the two transactions may run in the other order.  Both threads share    *)
(* the process's hybrid clock; BEGIN IMMEDIATE makes each transaction one  *)
(* step.  Losing the wait for the lock (busy_timeout) is storage_error.    *)
(***************************************************************************)
EXTENDS FileStore

Writers == {"container", "watch"}

VARIABLE stamp   \* writer -> the stamp of the command it has begun, 0 if none

twoVars == <<vars, stamp>>

TwoInit == Init /\ stamp = [w \in Writers |-> 0]

\* Mutant: a clock per writer thread.
BeginOwnClock(w) ==
    /\ stamp[w] = 0
    /\ clock < MaxClock
    /\ clock' = clock
    /\ stamp' = [stamp EXCEPT ![w] = clock + 1]
    /\ UNCHANGED <<files, locations, last, restarts>>

\* let hlc = Hlc::now().pack() at the head of handle.
Begin(w) ==
    /\ stamp[w] = 0
    /\ clock < MaxClock
    /\ clock' = clock + 1
    /\ stamp' = [stamp EXCEPT ![w] = clock + 1]
    /\ UNCHANGED <<files, locations, last, restarts>>

\* What DbEventHandler::record_file_event sends: Modified, Deleted, Renamed.
WatchCommand(h) ==
    \/ \E v \in Volume, p \in Path, s \in {"stale", "missing"}, d \in Device :
          update_location_status(h, v, p, s, d)
    \/ \E v \in Volume, p, q \in Path, d \in Device :
          update_location_path(h, v, p, q, d)
    \/ storage_error

\* The transaction, event and reply of the command in hand.
Finish(w) ==
    /\ stamp[w] # 0
    /\ \/ w = "container" /\ Command(stamp[w])
       \/ w = "watch" /\ WatchCommand(stamp[w])
    /\ stamp' = [stamp EXCEPT ![w] = 0]
    /\ UNCHANGED <<clock, restarts>>

TwoNext == \E w \in Writers : Begin(w) \/ Finish(w)

TwoSpec == TwoInit /\ [][TwoNext]_twoVars
-----------------------------------------------------------------------------
\* Two writers never hold one stamp: the clock is shared, so the stamps they
\* write into rows still tell their commands apart.
StampsDistinct ==
    /\ \A w \in Writers : stamp[w] <= clock
    /\ \A v, w \in Writers : stamp[v] = stamp[w] /\ stamp[v] # 0 => v = w

\* A location's last write is the one with the greatest stamp, the order a
\* merge of two devices would go by: what one writer actor guarantees and
\* two do not.
LocationStampsGrow ==
    [][\A i \in LocId : locations[i] # NoLoc /\ locations'[i] # locations[i]
          => locations'[i].hlc > locations[i].hlc]_twoVars

\* Uniqueness and tombstones do not depend on the single writer: every check
\* they rest on is inside the transaction that acts on it.
TombstonesFinalHere ==
    [][\A i \in LocId : /\ locations[i] # NoLoc
                        /\ locations[i].deleted_at # 0
                        => locations'[i] = locations[i]]_twoVars
=============================================================================
