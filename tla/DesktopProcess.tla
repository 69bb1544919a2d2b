------------------------ MODULE DesktopProcess ------------------------
(***************************************************************************)
(* Whether the desktop shell runs: from tauri's .setup of                  *)
(* crates/desktop/src/lib.rs until the event loop returns or the process   *)
(* dies.  Its components share this state and, with the command line, one  *)
(* bound on what is asked of them.                                         *)
(***************************************************************************)
EXTENDS Naturals

CONSTANT MaxCalls \* bound: calls, commands and ends of the shell

ASSUME CallsAssumption == MaxCalls \in Nat

VARIABLES
    running, \* is the desktop shell between setup and its end?
    calls    \* what the user has asked of both shells so far

NothingAsked == running = FALSE /\ calls = 0

\* One more of the bounded requests of the user.
Call == calls < MaxCalls /\ calls' = calls + 1

\* The user opens the window: the model has one desktop process.
SetUp == ~running /\ running' = TRUE /\ UNCHANGED calls

\* The event loop returns, or the process is killed.
RunEnds == Call /\ running /\ running' = FALSE
=============================================================================
