---------------------------- MODULE MCShell ----------------------------
(***************************************************************************)
(* Two calls of each kind, one target, two providers.  Calls are told      *)
(* apart by their names only, and so are providers.                        *)
(***************************************************************************)
EXTENDS Shell, TLC

Symmetry == Permutations(WatchCall) \cup Permutations(Copy) \cup Permutations(Provider)
=============================================================================
