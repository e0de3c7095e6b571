---------------------------- MODULE MCScanRounds ----------------------------
(* Small instances of ScanRounds. *)
EXTENDS ScanRounds

AllTypes == Types
=============================================================================
