--------------------------- MODULE MCDesktop ----------------------------
(***************************************************************************)
(* The desktop's event path with a ring of two events, two commits of the  *)
(* container's writer and three events in all.                             *)
(***************************************************************************)
EXTENDS Desktop

=============================================================================
