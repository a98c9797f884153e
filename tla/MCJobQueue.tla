----------------------------- MODULE MCJobQueue -----------------------------
(* Small instances of JobQueue for TLC.                                    *)
EXTENDS JobQueue

CONSTANTS w1, w2, p1, p2

OwnProc == [w \in Workers |-> IF w = w1 THEN p1 ELSE p2]
=============================================================================
