-------------------------- MODULE MCFileStore --------------------------
(***************************************************************************)
(* FileStore on two file rows, three location rows (one of them a sentinel *)
(* row), two paths of one volume and two hashes.                           *)
(***************************************************************************)
EXTENDS FileStore, TLC

\* Generated ids are interchangeable; the sentinel rows' ids are kept apart.
Symmetry == Permutations(Uuid) \cup Permutations(LocId \ LegacyLocs)
=============================================================================
