--------------------------- MODULE MCWorkOrderRun ---------------------------
(* Small instances of WorkOrderRun for TLC.                                *)
EXTENDS WorkOrderRun, TLC

\* Tokens, processes and items are interchangeable.
Symmetry == Permutations(Runs) \cup Permutations(Procs) \cup Permutations(Items)
=============================================================================
