---------------------------- MODULE MCStewardTask ----------------------------
(* Small instances of StewardTask for TLC.                                   *)
EXTENDS StewardTask
=============================================================================
