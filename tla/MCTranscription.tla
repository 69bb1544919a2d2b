------------------------ MODULE MCTranscription ------------------------
(***************************************************************************)
(* Two files with a request each, a queue of one, a dropped event.         *)
(***************************************************************************)
EXTENDS Transcription
=============================================================================
