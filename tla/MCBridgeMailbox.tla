-------------------------- MODULE MCBridgeMailbox --------------------------
(* Small instances of BridgeMailbox for TLC.                               *)
EXTENDS BridgeMailbox, TLC

\* Bridges and books are interchangeable.
Symmetry == Permutations(Bridges) \cup Permutations(Books)
=============================================================================
