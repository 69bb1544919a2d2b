------------------------- MODULE MCSearchIndex -------------------------
(***************************************************************************)
(* Two files, the desktop shell and the command line, one tag name.        *)
(***************************************************************************)
EXTENDS SearchIndex, TLC

Symmetry == Permutations(Uuid) \cup Permutations(Hash) \cup Permutations(Path)
=============================================================================
