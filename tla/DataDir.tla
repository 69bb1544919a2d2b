---------------------------- MODULE DataDir ----------------------------
(***************************************************************************)
(* `perima migrate-data-dir` (crates/cli/src/cmd/migrate_data_dir.rs),     *)
(* which moves the database of versions before 0.7 to the directory that   *)
(* both shells use now.  A start of the desktop shell opens a database     *)
(* there, or creates an empty one, at any step of it.                      *)
(*                                                                         *)
(* A database is its file and two side-cars, the index of the write-ahead  *)
(* log and the log.  Of each only whose bytes it holds is told: the old    *)
(* library's (in the log, or merged into the file from there by the        *)
(* desktop), a part of them, those of a new database, or a mixture, which  *)
(* stands for whatever the desktop makes of a library it opens when not    *)
(* all of it is there.  One run of the command is in progress at a time.   *)
(***************************************************************************)
EXTENDS DesktopProcess

VARIABLES
    legacy, canonical, \* whose bytes each file at either place holds
    move,              \* the run in progress: its file and step
    early              \* history: the desktop opened a library that was in between

dataVars == <<legacy, canonical, move, early>>

\* The files in the order in which they are moved.
Order == <<"db", "shm", "wal">>
File  == {"db", "shm", "wal"}

NoMove == [at |-> 0, step |-> "next", across |-> FALSE]

DataInit ==
    /\ legacy \in {l \in [File -> {"old", "none"}] : l["db"] = "old"}
    /\ canonical = [f \in File |-> "none"]
    /\ move = NoMove
    /\ early = FALSE

\* Nothing is done without a legacy database, or with a canonical one.  The two
\* directories may be on different file systems.
migrate ==
    /\ move = NoMove
    /\ legacy["db"] # "none"
    /\ canonical["db"] = "none"
    /\ Call
    /\ move' \in [at : {1}, step : {"next"}, across : BOOLEAN]
    /\ UNCHANGED <<legacy, canonical, early>>

\* The file that the run is at.
Moving(f) == move # NoMove /\ f = Order[move.at]

Following == IF move.at = 3 THEN NoMove ELSE [move EXCEPT !.at = @ + 1, !.step = "next"]

\* What becomes of bytes that are written at the new place.
Arrives(bytes) == IF early THEN "mixed" ELSE bytes

\* A file that was not there is not in the list of files to move.
SkipAbsent(f) ==
    /\ Moving(f) /\ move.step = "next" /\ legacy[f] = "none"
    /\ move' = Following
    /\ UNCHANGED <<legacy, canonical, early>>

\* rename(2), which replaces what is there.
MoveFile(f) ==
    /\ Moving(f) /\ move.step = "next" /\ legacy[f] # "none" /\ ~move.across
    /\ canonical' = [canonical EXCEPT ![f] = Arrives(legacy[f])]
    /\ legacy' = [legacy EXCEPT ![f] = "none"]
    /\ move' = Following
    /\ UNCHANGED early

\* Across file systems: fs::copy, in place if a file is there, then fs::remove_file.
BeginCopy(f) ==
    /\ Moving(f) /\ move.step = "next" /\ legacy[f] # "none" /\ move.across
    /\ canonical' = [canonical EXCEPT ![f] = Arrives("part")]
    /\ move' = [move EXCEPT !.step = "copying"]
    /\ UNCHANGED <<legacy, early>>

\* Mutant: the source is removed also when the copy failed.
EndCopy_unchecked(f) ==
    /\ Moving(f) /\ move.step = "copying"
    /\ canonical' \in {canonical, [canonical EXCEPT ![f] = Arrives("old")]}
    /\ move' = [move EXCEPT !.step = "copied"]
    /\ UNCHANGED <<legacy, early>>

EndCopy(f) ==
    /\ Moving(f) /\ move.step = "copying"
    /\ canonical' = [canonical EXCEPT ![f] = Arrives("old")]
    /\ move' = [move EXCEPT !.step = "copied"]
    /\ UNCHANGED <<legacy, early>>

RemoveSource(f) ==
    /\ Moving(f) /\ move.step = "copied"
    /\ legacy' = [legacy EXCEPT ![f] = "none"]
    /\ move' = Following
    /\ UNCHANGED <<canonical, early>>

\* A step fails, or the process is killed: the run ends there, and a copy that
\* was begun is left as it is.
MoveStops ==
    /\ move # NoMove
    /\ move' = NoMove
    /\ UNCHANGED <<legacy, canonical, early>>

\* A run is in progress, or one was cut short with the library in two places.
InBetween ==
    \/ move # NoMove
    \/ /\ canonical["db"] \in {"part", "old"}
       /\ \E f \in File : legacy[f] = "old" /\ canonical[f] # "old"

\* SqliteWriter::start opens the database that is there, or creates one.
OpenDatabase ==
    /\ early' = (early \/ InBetween)
    /\ canonical' = [f \in File |->
          CASE early'                -> "mixed"
            [] canonical[f] = "none" -> "new"
            [] OTHER                 -> canonical[f]]
    /\ UNCHANGED <<legacy, move>>

DataNext ==
    \/ migrate
    \/ /\ \/ \E f \in File : \/ SkipAbsent(f) \/ MoveFile(f)
                             \/ BeginCopy(f) \/ EndCopy(f) \/ RemoveSource(f)
          \/ MoveStops
       /\ UNCHANGED calls

\* "If interrupted, the source file stays intact": whatever step fails, or is
\* the last of a process, and on one file system or two, a file of the old
\* library that is whole at one of the two places stays so, as long as the
\* desktop does not open a library in between.
NothingLost ==
    [][\A f \in File : "old" \in {legacy[f], canonical[f]} /\ ~early'
                         => "old" \in {legacy'[f], canonical'[f]}]_dataVars

\* "Safe for migration", of the library: after a run it is at one of the two
\* places.  A run that is cut short between two files leaves the log behind, and
\* the next finds nothing to migrate.
LibraryKept ==
    move = NoMove => ~\E f, g \in File : /\ legacy[f] = "old" /\ canonical[f] # "old"
                                        /\ canonical[g] = "old" /\ legacy[g] # "old"

\* "Refuses to migrate if the canonical path already contains perima.db": the
\* check and the move are two steps, and the desktop may start in between.
NeverReplaced == [][MoveFile("db") \/ BeginCopy("db") => canonical["db"] = "none"]_dataVars
=============================================================================
