------------------------ MODULE MCMetadataQueue ------------------------
(***************************************************************************)
(* Two files, a channel of one, two scans.  MCSpec starts from an image    *)
(* and a second file that holds the same bytes under another name: they    *)
(* share a row of file_metadata until one of them is edited.               *)
(***************************************************************************)
EXTENDS MetadataQueue

CONSTANTS f1, f2

MCInit ==
    /\ Init
    /\ kind[f1] = "image"
    /\ kind[f2] # "image"
    /\ content[f1] = content[f2]

MCSpec == MCInit /\ [][Next]_vars /\ Fairness
=============================================================================
