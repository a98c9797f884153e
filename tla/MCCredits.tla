----------------------------- MODULE MCCredits -----------------------------
(* Small instances of Credits for TLC.                                     *)
EXTENDS Credits

CONSTANTS c1, c2, c3, r1, u1

PdfAndDoc == [c \in Charges |-> c # c3]
TwoPages  == [c \in Charges |-> 2]
DocCost   == [c \in Charges |-> 2]
Slip      == [u \in Uploads |-> r1]
=============================================================================
