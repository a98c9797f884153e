------------------------------ MODULE Delivery ------------------------------
(***************************************************************************)
(* What the ERP bridge promises of one job to whoever submits it: it is    *)
(* started only while it is open and in time, one that may have no more    *)
(* than one effect is not started again, it is closed once and for good,   *)
(* and what is told of it is told once and true.  BridgeMailbox implements *)
(* it for every job.                                                       *)
(***************************************************************************)
EXTENDS Integers

VARIABLES
    state,    \* "none", "open", "done", "failed" or "expired"
    once,     \* whether it may have no more than one effect
    late,     \* its time to live is over
    out,      \* deliveries at work
    effect,   \* documents it has written
    told      \* what its submitter was told

vars == <<state, once, late, out, effect, told>>

Closed == {"done", "failed", "expired"}

Init ==
    /\ state = "none" /\ once = FALSE /\ late = FALSE
    /\ out = 0 /\ effect = 0 /\ told = "none"

Submit ==
    /\ state = "none" /\ state' = "open" /\ once' \in BOOLEAN
    /\ UNCHANGED <<late, out, effect, told>>

GrowLate ==
    /\ ~late /\ late' = TRUE /\ state = "open"
    /\ UNCHANGED <<state, once, out, effect, told>>

Start ==
    /\ out' = out + 1
    /\ state = "open" /\ ~late /\ (once => out + effect = 0)
    /\ UNCHANGED <<state, once, late, effect, told>>

\* A delivery ends, whatever has become of the job meanwhile.
End ==
    /\ out > 0 /\ out' = out - 1
    /\ effect' \in {effect, effect + 1}
    /\ UNCHANGED <<state, once, late, told>>

Close ==
    /\ state = "open" /\ state' \in Closed
    /\ UNCHANGED <<once, late, out, effect, told>>

Tell ==
    /\ told = "none" /\ told' # "none"
    /\ \/ state = "done" /\ effect > 0 /\ told' = "success"
       \/ state \in Closed /\ told' = "failure"
       \/ state = "open" /\ late /\ told' = "pending"
    /\ UNCHANGED <<state, once, late, out, effect>>

Next == Submit \/ GrowLate \/ Start \/ End \/ Close \/ Tell

Spec == Init /\ [][Next]_vars
=============================================================================
