---------------------------- MODULE MCKmboxMasks ----------------------------
(* Two movement keys for model checking; either may be a hotkey as well.   *)
EXTENDS KmboxMasks
CONSTANTS a, w
=============================================================================
