------------------------- MODULE MCFingerprints -------------------------
(***************************************************************************)
(* Two disks and two mount points.  The legacy disk holds two contents;    *)
(* the other has one of them at the path where the legacy disk has the     *)
(* other.                                                                  *)
(***************************************************************************)
EXTENDS Fingerprints, TLC

CONSTANTS d1, d2, i1, i2, c1, c2

MCIdentOf == d1 :> i1 @@ d2 :> i2
MCHolds   == d1 :> (1 :> c2 @@ 2 :> c1) @@ d2 :> (1 :> c1 @@ 2 :> NoContent)

\* One machine; and the desktop shell opening the library of the command line.
MCMachineOf == [s \in Shell |-> LegacyMachine]
MCMachines  == [s \in Shell |-> CHOOSE a \in Machine : a # LegacyMachine]

\* Since the scan of the legacy disk the disks have been exchanged.
MCPlacements == {1 :> d2 @@ 2 :> d1}

\* The legacy disk is where it was, and the other at the second mount point.
MCInPlace == {1 :> d1 @@ 2 :> d2}
=============================================================================
