-------------------------- MODULE AtomicWrites --------------------------
(***************************************************************************)
(* What the write side of the database promises a repository adapter: a    *)
(* command it sends is applied atomically and at most once, between the    *)
(* call and its return; an Ok return means applied, an error means not     *)
(* applied, and only a process that died leaves the caller in doubt.       *)
(***************************************************************************)
EXTENDS Sequences, Naturals

CONSTANT Command

VARIABLES log,   \* the applied commands, in order
          call   \* the caller's view of each command

vars == <<log, call>>

Applied(c) == \E i \in 1..Len(log) : log[i] = c

Init == log = <<>> /\ call = [c \in Command |-> "new"]

Invoke(c) ==
    /\ call[c] = "new"
    /\ call' = [call EXCEPT ![c] = "waiting"]
    /\ UNCHANGED log

\* The linearization point.
Apply(c) ==
    /\ call[c] = "waiting"
    /\ ~Applied(c)
    /\ log' = Append(log, c)
    /\ UNCHANGED call

ReturnOk(c) ==
    /\ call[c] = "waiting"
    /\ Applied(c)
    /\ call' = [call EXCEPT ![c] = "ok"]
    /\ UNCHANGED log

\* Any set of unapplied calls may fail, one at a time or all at once.
ReturnErr(S) ==
    /\ \A c \in S : call[c] \in {"new", "waiting"} /\ ~Applied(c)
    /\ call' = [c \in Command |-> IF c \in S THEN "err" ELSE call[c]]
    /\ UNCHANGED log

\* The process dies: whoever was waiting never learns the outcome.
Die ==
    /\ call' = [c \in Command |-> IF call[c] = "waiting" THEN "lost" ELSE call[c]]
    /\ UNCHANGED log

Next ==
    \/ \E c \in Command : Invoke(c) \/ Apply(c) \/ ReturnOk(c)
    \/ \E S \in SUBSET Command : ReturnErr(S)
    \/ Die

Spec == Init /\ [][Next]_vars
=============================================================================
