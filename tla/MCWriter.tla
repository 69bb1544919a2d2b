---------------------------- MODULE MCWriter ----------------------------
(***************************************************************************)
(* The writer with one command of each shape (common, transcript, silent), *)
(* two handles and one crash.                                              *)
(***************************************************************************)
EXTENDS Writer

=============================================================================
