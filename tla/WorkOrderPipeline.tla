------------------------- MODULE WorkOrderPipeline -------------------------
(***************************************************************************)
(* What the work-order engine promises to the reader of a work order: its  *)
(* steps complete one at a time and in order, a rewind reopens a suffix,   *)
(* and the order is shown for review only when all of them are complete.   *)
(***************************************************************************)
EXTENDS Integers

CONSTANTS NSteps,   \* number of steps
          Rewinds   \* the steps a rewind may start from

VARIABLES done,     \* the completed steps
          shown     \* the order is in the review state

Steps == 1..NSteps

Init == done = {} /\ shown = FALSE

\* the first step that is not complete completes
Complete ==
    /\ ~shown
    /\ \E s \in Steps \ done :
          /\ \A t \in Steps \ done : s <= t
          /\ done' = done \cup {s}
    /\ UNCHANGED shown

\* a suffix is reopened, and the order is withdrawn from review
Rewind ==
    /\ \E k \in Rewinds : done' = {s \in done : s < k}
    /\ shown' = FALSE

Show == done = Steps /\ shown' = TRUE /\ UNCHANGED done

\* a new run, a failure or the archive
Withdraw == shown /\ shown' = FALSE /\ UNCHANGED done

Next == Complete \/ Rewind \/ Show \/ Withdraw

Spec == Init /\ [][Next]_<<done, shown>>
=============================================================================
