----------------------------- MODULE Backup -----------------------------
(***************************************************************************)
(* Backups: BackupDatabaseUseCase (crates/app/src/backup.rs) and VACUUM    *)
(* INTO on the writer thread (crates/db/src/writer/backup.rs), asked for   *)
(* by the desktop shell, whose calls share one in-flight flag, or by       *)
(* `perima backup`, a process of its own.  A default path is a target like *)
(* another: two of one second are one.                                     *)
(*                                                                         *)
(* A target is a name; the file there is told by the call that created it. *)
(* A removed file is still written to by the one who has it open.          *)
(***************************************************************************)
EXTENDS DesktopProcess

CONSTANTS
    Copy,    \* the calls
    Cli,     \* those that are processes of their own
    Target, NoFile, Earlier \* Earlier: the call of a former session

ASSUME BackupAssumption == Cli \subseteq Copy /\ Earlier \notin Copy /\ Target # {}

VARIABLES
    copy,     \* each call: its step, target and --force
    inFlight, \* the desktop's AtomicBool
    target    \* the file at each target: who created it, and is it whole?

backupVars == <<copy, inFlight, target>>

FileOf(b, whole) == [by |-> b, whole |-> whole]

BackupInit ==
    /\ copy = [b \in Copy |-> [step |-> "none", to |-> CHOOSE t \in Target : TRUE, force |-> FALSE]]
    /\ inFlight = FALSE
    /\ target \in [Target -> {NoFile, FileOf(Earlier, TRUE)}]

\* Mutant: the flag is not looked at.
Free_always(b) == TRUE

\* BackupGuard::acquire: compare_exchange(false, true).
Free(b) == b \in Cli \/ ~inFlight

Goes(b, step) == copy' = [copy EXCEPT ![b] = [@ EXCEPT !.step = step]]

\* The guard is dropped with the call.
Ends(b, step) ==
    /\ Goes(b, step)
    /\ inFlight' = (inFlight /\ b \in Cli)

backup_database(b, t, force) ==
    /\ copy[b].step = "none"
    /\ running \/ b \in Cli
    /\ Call
    /\ \/ /\ Free(b)
          /\ inFlight' = (inFlight \/ b \notin Cli)
          /\ copy' = [copy EXCEPT ![b] = [step |-> "resolved", to |-> t, force |-> force]]
       \/ /\ ~Free(b)
          /\ Goes(b, "failed")
          /\ UNCHANGED inFlight
    /\ UNCHANGED target

\* The existence check, and the removal of what --force overwrites.
CheckTarget(b) ==
    LET t == copy[b].to
    IN  /\ copy[b].step = "resolved"
        /\ \/ /\ target[t] = NoFile
              /\ Goes(b, "sent")
              /\ UNCHANGED <<inFlight, target>>
           \/ /\ target[t] # NoFile
              /\ copy[b].force
              /\ Goes(b, "sent")
              /\ target' = [target EXCEPT ![t] = NoFile]
              /\ UNCHANGED inFlight
           \/ /\ target[t] # NoFile \* TargetExists, or TargetUnwritable
              /\ Ends(b, "failed")
              /\ UNCHANGED target

\* The writer thread opens the target, which must not exist.
VacuumBegins(b) ==
    LET t == copy[b].to
    IN  /\ copy[b].step = "sent"
        /\ \/ /\ target[t] = NoFile
              /\ Goes(b, "vacuum")
              /\ target' = [target EXCEPT ![t] = FileOf(b, FALSE)]
              /\ UNCHANGED inFlight
           \/ Ends(b, "failed") /\ UNCHANGED target

\* What it leaves behind when the disk is full is SQLite's choice.
VacuumEnds(b) ==
    LET t == copy[b].to
    IN  /\ copy[b].step = "vacuum"
        /\ \/ /\ Goes(b, "written")
              /\ target' = IF target[t] = FileOf(b, FALSE)
                             THEN [target EXCEPT ![t] = FileOf(b, TRUE)] ELSE target
              /\ UNCHANGED inFlight
           \/ /\ Ends(b, "failed")
              /\ \/ UNCHANGED target
                 \/ target[t] = FileOf(b, FALSE) /\ target' = [target EXCEPT ![t] = NoFile]

\* metadata() of the target, by name.
Measure(b) ==
    /\ copy[b].step = "written"
    /\ \/ target[copy[b].to] # NoFile /\ Goes(b, "measured") /\ UNCHANGED inFlight
       \/ target[copy[b].to] = NoFile /\ Ends(b, "failed")
    /\ UNCHANGED target

\* The reply is received, the guard dropped: "Saved to ...".
Saved(b) ==
    /\ copy[b].step = "measured"
    /\ Ends(b, "saved")
    /\ UNCHANGED target

\* The desktop process ends in the midst of its calls.
BackupDies ==
    /\ copy' = [b \in Copy |-> IF b \in Cli \/ copy[b].step = "none" THEN copy[b]
                                 ELSE [copy[b] EXCEPT !.step = "failed"]]
    /\ inFlight' = FALSE
    /\ UNCHANGED target

BackupNext ==
    \E b \in Copy :
        \/ \E t \in Target, force \in BOOLEAN : backup_database(b, t, force)
        \/ /\ \/ CheckTarget(b) \/ VacuumBegins(b) \/ VacuumEnds(b) \/ Measure(b) \/ Saved(b)
           /\ UNCHANGED calls

\* "A successful return guarantees the target file exists and is complete":
\* whoever is told Saved has a whole file of its own there, whatever was there
\* before, other calls asked for, or a crash had left.  One flag per process is
\* enough for one process only (Cli = {}).
SavedIsWhole ==
    [][\A b \in Copy : copy'[b].step = "saved" /\ copy[b].step # "saved" =>
          target'[copy[b].to] = FileOf(b, TRUE)]_backupVars
=============================================================================
