--------------------------- MODULE OneOutcome ---------------------------
(***************************************************************************)
(* What the transcription queue promises (the header of                    *)
(* crates/app/src/transcription.rs): an accepted request ends once, as     *)
(* completed, cancelled or failed, and a transcript is stored exactly for  *)
(* those that are announced as completed.                                  *)
(***************************************************************************)
CONSTANT Request

VARIABLES accepted, stored, outcome

Init ==
    /\ accepted = {}
    /\ stored = {}
    /\ outcome = [r \in Request |-> "none"]

Accept(r) ==
    /\ r \notin accepted
    /\ accepted' = accepted \cup {r}
    /\ UNCHANGED <<stored, outcome>>

Open(r) == r \in accepted /\ outcome[r] = "none"

Store(r) ==
    /\ Open(r)
    /\ stored' = stored \cup {r}
    /\ UNCHANGED <<accepted, outcome>>

Finish(r, o) ==
    /\ Open(r)
    /\ (o = "completed") <=> (r \in stored)
    /\ outcome' = [outcome EXCEPT ![r] = o]
    /\ UNCHANGED <<accepted, stored>>

Next ==
    \E r \in Request :
        \/ Accept(r) \/ Store(r)
        \/ \E o \in {"completed", "cancelled", "failed"} : Finish(r, o)

Spec == Init /\ [][Next]_<<accepted, stored, outcome>>
=============================================================================
