------------------------------- MODULE Errand -------------------------------
(***************************************************************************)
(* What the accountant may rely on about one task of the steward: only she *)
(* wakes a task that waits, by an answer or by approving a write; nobody   *)
(* begins to work on it while someone else does, or once it is closed; it  *)
(* writes once, and only what she approved; and its end is for good.       *)
(* StewardTask implements it for every task.                               *)
(***************************************************************************)
CONSTANT Writes

VARIABLES
    state,     \* "absent", "running", "waiting", or how it ended
    busy,      \* whether a thread works on it
    approved,  \* the writes she approved
    written    \* the writes that were made, in order

vars == <<state, busy, approved, written>>

Ends == {"done", "failed", "cancelled"}

Init == state = "absent" /\ busy = FALSE /\ approved = {} /\ written = <<>>

Create ==
    /\ state = "absent" /\ state' \in {"running", "waiting"}
    /\ UNCHANGED <<busy, approved, written>>

Start ==
    /\ ~busy /\ busy' = TRUE
    /\ state = "running"
    /\ UNCHANGED <<state, approved, written>>

Write ==
    /\ busy /\ written = <<>>
    /\ \E x \in approved : written' = <<x>>
    /\ UNCHANGED <<state, busy, approved>>

\* The thread hands the task to the user, and is gone.
Wait ==
    /\ state = "running" /\ state' = "waiting"
    /\ busy /\ busy' = FALSE
    /\ UNCHANGED <<approved, written>>

Wake ==
    /\ state = "waiting" /\ state' = "running"
    /\ ~busy
    /\ UNCHANGED approved \/ \E x \in Writes : approved' = approved \cup {x}
    /\ UNCHANGED <<busy, written>>

\* By its thread, which is gone then, or by anybody else.
Close ==
    /\ state \in {"running", "waiting"} /\ state' \in Ends
    /\ busy' \in {busy, FALSE}
    /\ UNCHANGED <<approved, written>>

\* The thread ends or dies and leaves the task as it is.
Stop ==
    /\ busy /\ busy' = FALSE
    /\ UNCHANGED <<state, approved, written>>

Next == Create \/ Start \/ Write \/ Wait \/ Wake \/ Close \/ Stop

Spec == Init /\ [][Next]_vars
=============================================================================
