-------------------------- MODULE MCHotkeyBlocking --------------------------
(* Small instances of HotkeyBlocking.                                      *)
EXTENDS HotkeyBlocking
=============================================================================
