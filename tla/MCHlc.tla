----------------------------- MODULE MCHlc -----------------------------
(***************************************************************************)
(* Hlc with three milliseconds and two counter values: the clock steps     *)
(* back, stands still, overflows its counter, is read above the cap (5)    *)
(* and saturates.                                                          *)
(***************************************************************************)
EXTENDS Hlc

=============================================================================
