----------------------------- MODULE Shell -----------------------------
(***************************************************************************)
(* The desktop shell as a process: crates/desktop/src/lib.rs sets it up    *)
(* once, and it may end at any step of the calls in progress, which start  *)
(* and stop watching, back up, save settings, while the command line runs  *)
(* beside it on the same database, directories and keyring.                *)
(***************************************************************************)
EXTENDS WatchControl, Backup, Settings, DataDir

shellVars == <<running, calls, watchVars, backupVars, settingsVars, dataVars>>

ShellInit ==
    /\ NothingAsked
    /\ WatchInit
    /\ BackupInit
    /\ SettingsInit
    /\ DataInit

\* setup: the database is opened and the container is built.
Start ==
    /\ SetUp
    /\ OpenDatabase
    /\ SettingsStart
    /\ UNCHANGED <<watchVars, backupVars>>

\* The window is closed, or the process dies.
Exit ==
    /\ RunEnds
    /\ WatchDies
    /\ BackupDies
    /\ SettingsDies
    /\ UNCHANGED dataVars

ShellNext ==
    \/ Start
    \/ Exit
    \/ WatchNext    /\ UNCHANGED <<running, backupVars, settingsVars, dataVars>>
    \/ BackupNext   /\ UNCHANGED <<running, watchVars, settingsVars, dataVars>>
    \/ SettingsNext /\ UNCHANGED <<running, watchVars, backupVars, dataVars>>
    \/ DataNext     /\ UNCHANGED <<running, watchVars, backupVars, settingsVars>>

ShellSpec == ShellInit /\ [][ShellNext]_shellVars
=============================================================================
