------------------------------ MODULE MCErpPush ------------------------------
(* Small instances of ErpPush for TLC.                                     *)
EXTENDS ErpPush
=============================================================================
