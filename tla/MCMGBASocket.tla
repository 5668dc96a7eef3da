---------------------------- MODULE MCMGBASocket ----------------------------
(* MGBASocket with a few commands and hotkeys.                             *)
EXTENDS MGBASocket
=============================================================================
