-------------------------- MODULE MCTwoWriters --------------------------
(***************************************************************************)
(* Two writers, one file row, three location rows, two paths, two hashes   *)
(* and five stamps: enough for an upsert, a rename onto it and a late      *)
(* watcher command.                                                        *)
(***************************************************************************)
EXTENDS TwoWriters, TLC

Symmetry == Permutations(LocId)
=============================================================================
