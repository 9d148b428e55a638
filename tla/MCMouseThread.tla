--------------------------- MODULE MCMouseThread ---------------------------
(* Small instances of MouseThread.                                         *)
EXTENDS MouseThread
============================================================================
