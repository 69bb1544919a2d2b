--------------------------- MODULE MCLibrary ---------------------------
(***************************************************************************)
(* Two small contents of one size, and two large ones that differ only     *)
(* between their ends.  Sizes are 1 and 3, the threshold lies between.     *)
(***************************************************************************)
EXTENDS Library, TLC

CONSTANTS small1, small2, big1, big2,   \* contents
          s1, s2, w1, w2, ends          \* their digests

MCBytes == [c \in Content |->
    [size  |-> IF c \in {small1, small2} THEN 1 ELSE 3,
     whole |-> CASE c = small1 -> s1 [] c = small2 -> s2 [] c = big1 -> w1 [] OTHER -> w2,
     ends  |-> CASE c = small1 -> s1 [] c = small2 -> s2 [] OTHER -> ends]]

Symmetry == Permutations(Uuid) \cup Permutations(LocId) \cup Permutations(Path)
=============================================================================
