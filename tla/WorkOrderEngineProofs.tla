------------------------ MODULE WorkOrderEngineProofs ------------------------
(***************************************************************************)
(* What the lease buys: while heartbeats are in time the engine completes  *)
(* each step once; if no tax id is realigned besides, it completes them in *)
(* order and refines WorkOrderPipeline -- for any number of processes,     *)
(* runs, steps and faults.                                                 *)
(***************************************************************************)
EXTENDS WorkOrderRunProofs, FiniteSetTheorems, WellFoundedInduction

(* The inductive invariant, in two layers: the pass invariant ties the     *)
(* local todo of the one live run to the log, and the log keeps its order. *)
PassInv == PassIsCurrent /\ StepDoneOnce
OrderInv == DonePrefix /\ ReviewComplete

Passing == {"step", "exec", "commit"}

LEMMA LeastStep ==
    ASSUME NEW S, S \subseteq Steps, S # {}
    PROVE  Min(S) \in S /\ \A t \in S : Min(S) <= t
<1> DEFINE upTo(t) == 1..t
           T == {upTo(t) : t \in S}
<1>1. S \subseteq Nat \ {0}
  BY Bounds DEF Steps
<1>2. T \subseteq FiniteSubsetsOf(Nat) /\ T # {}
  <2>1. \A t \in S : 1..t \subseteq Nat
    OBVIOUS
  <2>2. \A t \in S : IsFiniteSet(1..t)
    BY <1>1, FS_Interval
  <2> QED
    BY <2>1, <2>2 DEF FiniteSubsetsOf
<1>3. PICK x \in T : \A y \in T : ~(<<y, x>> \in StrictSubsetOrdering(Nat))
  BY <1>2, FS_StrictSubsetOrderingWellFounded, WFMin
<1>4. PICK m \in S : x = 1..m
  BY <1>3
<1>5. \A t \in S : m <= t
  <2>1. SUFFICES ASSUME NEW t \in S, t < m PROVE FALSE
    BY <1>1
  <2>2. 1..t \subseteq 1..m /\ m \in 1..m /\ m \notin 1..t
    BY <1>1, <2>1
  <2>3. <<1..t, x>> \in StrictSubsetOrdering(Nat)
    BY <1>1, <1>4, <2>2 DEF StrictSubsetOrdering
  <2> QED
    BY <1>3, <2>3
<1> QED
  BY <1>1, <1>5 DEF Min

(* The lease leaves room for one live run.                                 *)
LEMMA OneLiveRun ==
    ASSUME LiveRunHoldsLease, NEW r \in Runs, Live(r), NEW s \in Runs, s # r
    PROVE  pc[s] \notin EnginePcs
BY DEF LiveRunHoldsLease, Live, EnginePcs

LEMMA FreeMeansIdle ==
    ASSUME LiveRunHoldsLease, Free \/ Dead, NEW s \in Runs
    PROVE  pc[s] \notin EnginePcs
BY Bounds DEF LiveRunHoldsLease, Free, Dead, Live, EnginePcs

(* What any step does to the log: nothing; it reopens a suffix while the   *)
(* order is not shown; the live run completes an open step -- the first    *)
(* one, if nothing was reopened behind its back; or a tax id is realigned. *)
Untouched ==
    /\ doneEvents' = doneEvents
    /\ ~TaxIdTypo /\ status' = "review" => status = "review" \/ Done = Steps

Rewound ==
    /\ \E k \in {SortStep, ReconcileStep} : doneEvents' = Reopened(k)
    /\ status' # "review"

Completed ==
    \E s \in Steps \ Done :
        /\ ~TaxIdTypo => \A t \in Steps \ Done : s <= t
        /\ doneEvents' = [doneEvents EXCEPT ![s] = @ + 1]
        /\ status' = status

Realigned == TaxIdTypo /\ doneEvents' = Reopened(ClassifyStep)

Logged == Untouched \/ Rewound \/ Completed \/ Realigned

LEMMA NextLog ==
    ASSUME TypeOK, PassIsCurrent, [Next]_vars
    PROVE  Logged
<1> USE DEF rowVars, logVars, Logged
<1>1. ASSUME NEW p \in Procs, RouteStep(p) PROVE Logged
  <2>1. ASSUME NEW r \in Runs, Reject(p, r) PROVE Logged
    BY <2>1 DEF Reject, Rewound
  <2>2. CASE RunOrder(p) \/ AddDecision(p) \/ ArchiveRead(p) \/ ArchiveCommit(p)
            \/ (\E i \in Items : AddMaterial(p, i)) \/ (\E r \in Runs : BeginBrain(p, r))
    BY <2>2 DEF RunOrder, AddDecision, ArchiveRead, ArchiveCommit, AddMaterial,
                BeginBrain, SetStatus, Untouched
  <2>3. CASE Realign(p)
    BY <2>3 DEF Realign, TypeOK, LogTypeOK, Untouched, Realigned
  <2> QED
    BY <1>1, <2>1, <2>2, <2>3 DEF RouteStep
<1>2. ASSUME NEW p \in Procs, NudgeStep(p) PROVE Logged
  BY <1>2 DEF NudgeStep, ScheduleRefused, Schedule, SetStatus, Untouched
<1>3. ASSUME NEW p \in Procs, ReapStep(p) PROVE Logged
  BY <1>3 DEF ReapStep, ReapScan, ReapHalt, ReapMissed, ReapResume, SetStatus, Untouched
<1>4. ASSUME NEW p \in Procs, Crash(p) PROVE Logged
  BY <1>4 DEF Crash, Untouched
<1>5. ASSUME NEW r \in Runs, RunStep(r) PROVE Logged
  <2>1. CASE Begin(r)
    BY <2>1 DEF Begin, Stranded, Rewound, Untouched
  <2>2. CASE StepDone(r)
    <3>1. /\ todo[r] \subseteq Steps \ Done /\ todo[r] # {}
          /\ ~TaxIdTypo => todo[r] = Steps \ Done
      BY <2>2 DEF StepDone, PassIsCurrent, TypeOK, ThreadTypeOK
    <3>2. StepOf(r) \in Steps \ Done /\ \A t \in todo[r] : StepOf(r) <= t
      BY <3>1, LeastStep DEF StepOf
    <3>3. ~TaxIdTypo => \A t \in Steps \ Done : StepOf(r) <= t
      BY <3>1, <3>2
    <3> QED
      BY <2>2, <3>2, <3>3 DEF StepDone, Completed
  <2>3. CASE SetReview(r)
    BY <2>3 DEF SetReview, SetStatus, PassIsCurrent, Untouched, Done
  <2>4. CASE (\E p \in Procs : Deliver(r, p)) \/ SkipAlreadyRunning(r) \/
                 ReadSeen(r) \/ Load(r) \/ MarkRunning(r) \/ ReadInputs(r) \/
                 (\E i \in Items : ClassifyItem(r, i)) \/ StepHalts(r) \/
                 Probe(r) \/ FinishFailed(r) \/ Unclaim(r) \/ Release(r) \/
                 BrainStart(r) \/ BrainEnd(r)
    BY <2>4 DEF Deliver, SkipAlreadyRunning, ReadSeen, Load, MarkRunning,
              ReadInputs, ClassifyItem, StepHalts, Probe, FinishFailed,
              Unclaim, Release, BrainStart, BrainEnd, SetStatus, Untouched
  <2> QED
    BY <1>5, <2>1, <2>2, <2>3, <2>4 DEF RunStep
<1>6. ASSUME NEW r \in Runs, Heartbeat(r) \/ Raise(r) \/ DispatchLost(r) PROVE Logged
  BY <1>6 DEF Heartbeat, Raise, DispatchLost, SetStatus, Untouched
<1>7. CASE Lapse \/ Age
  BY <1>7 DEF Lapse, Age, Untouched
<1>8. CASE UNCHANGED vars
  BY <1>8 DEF vars, Untouched
<1> QED
  BY <1>1, <1>2, <1>3, <1>4, <1>5, <1>6, <1>7, <1>8 DEF Next

(* The kinds of step, as they show in the set of completed steps.          *)
LEMMA DoneAfter ==
    ASSUME TypeOK
    PROVE  /\ Untouched => Done' = Done
           /\ \A k \in Steps : doneEvents' = Reopened(k) => Done' = {s \in Done : s < k}
           /\ \A k \in Steps : doneEvents' = [doneEvents EXCEPT ![k] = @ + 1]
                                => Done' = Done \cup {k}
<1> USE Bounds DEF TypeOK, LogTypeOK, Done
<1>1. Untouched => Done' = Done
  BY DEF Untouched
<1>2. ASSUME NEW k \in Steps, doneEvents' = Reopened(k)
      PROVE  Done' = {s \in Done : s < k}
  BY <1>2 DEF Reopened, Steps
<1>3. ASSUME NEW k \in Steps, doneEvents' = [doneEvents EXCEPT ![k] = @ + 1]
      PROVE  Done' = Done \cup {k}
  <2>1. \A s \in Steps : doneEvents[s] \in Nat
    OBVIOUS
  <2>2. \A s \in Steps : doneEvents'[s] = IF s = k THEN doneEvents[s] + 1 ELSE doneEvents[s]
    BY <1>3
  <2> QED
    BY <2>1, <2>2
<1> QED
  BY <1>1, <1>2, <1>3

LEMMA NextStepDoneOnce ==
    ASSUME TypeOK, PassInv, [Next]_vars PROVE StepDoneOnce'
<1>0. /\ \A s \in Steps : doneEvents[s] \in Nat /\ doneEvents[s] <= 1
      /\ Logged
  BY NextLog DEF PassInv, TypeOK, LogTypeOK, StepDoneOnce
<1>1. CASE Untouched
  BY <1>0, <1>1 DEF Untouched, StepDoneOnce
<1>2. CASE Rewound
  BY <1>0, <1>2 DEF Rewound, Reopened, StepDoneOnce
<1>3. CASE Completed
  <2>1. PICK s \in Steps \ Done : doneEvents' = [doneEvents EXCEPT ![s] = @ + 1]
    BY <1>3 DEF Completed
  <2>2. doneEvents[s] = 0
    BY <1>0, <2>1 DEF Done
  <2> QED
    BY <1>0, <2>1, <2>2 DEF StepDoneOnce, TypeOK, LogTypeOK
<1>4. CASE Realigned
  BY <1>0, <1>4 DEF Realigned, Reopened, StepDoneOnce
<1> QED
  BY <1>0, <1>1, <1>2, <1>3, <1>4 DEF Logged

-----------------------------------------------------------------------------
(* A pass keeps being current: nobody else touches the log, and its own    *)
(* steps move from todo to done together.                                  *)
LEMMA PassKept ==
    ASSUME PassIsCurrent, doneEvents' = doneEvents,
           \A s \in Runs : pc'[s] \in Passing =>
               /\ todo'[s] = todo[s] /\ pc[s] \in Passing
               /\ pc'[s] \in {"exec", "commit"} =>
                      pc[s] \in {"exec", "commit"} \/ todo[s] # {}
    PROVE  PassIsCurrent'
BY DEF PassIsCurrent, Done, Passing

LEMMA NoPassAfter ==
    ASSUME \A s \in Runs : pc'[s] \notin Passing PROVE PassIsCurrent'
BY DEF PassIsCurrent, Passing

LEMMA NextPassIsCurrent ==
    ASSUME TypeOK, LiveRunHoldsLease, PassInv, [Next]_vars PROVE PassIsCurrent'
<1>0. PassIsCurrent /\ ThreadTypeOK
  BY DEF PassInv, TypeOK
<1> USE DEF rowVars, logVars, itemVars, runVars, Passing
<1>1. ASSUME NEW p \in Procs, RouteStep(p) PROVE PassIsCurrent'
  <2>1. CASE RunOrder(p)
    BY <1>0, <2>1, PassKept DEF RunOrder
  <2>2. CASE AddDecision(p)
    BY <1>0, <2>2, PassKept DEF AddDecision
  <2>3. CASE ArchiveRead(p)
    BY <1>0, <2>3, PassKept DEF ArchiveRead
  <2>4. CASE ArchiveCommit(p)
    BY <1>0, <2>4, PassKept DEF ArchiveCommit
  <2>5. ASSUME NEW i \in Items, AddMaterial(p, i) PROVE PassIsCurrent'
    BY <1>0, <2>5, PassKept DEF AddMaterial
  <2>6. ASSUME NEW r \in Runs, Reject(p, r) PROVE PassIsCurrent'
    <3>1. \A s \in Runs : pc[s] \notin Passing
      BY <2>6, FreeMeansIdle DEF Reject, EnginePcs
    <3> QED
      BY <1>0, <2>6, <3>1, NoPassAfter DEF Reject, Dispatch, Goto, ThreadTypeOK
  <2>7. ASSUME NEW r \in Runs, BeginBrain(p, r) PROVE PassIsCurrent'
    BY <1>0, <2>7, PassKept DEF BeginBrain, Dispatch, Goto, ThreadTypeOK
  <2>8. CASE Realign(p)
    <3>1. Untouched \/ Realigned
      BY <2>8 DEF Realign, TypeOK, LogTypeOK, Untouched, Realigned
    <3>2. pc' = pc /\ todo' = todo
      BY <2>8 DEF Realign
    <3>3. CASE Untouched
      BY <1>0, <3>2, <3>3, PassKept DEF Untouched
    <3>4. CASE Realigned
      <4>1. Done' \subseteq Done /\ TaxIdTypo
        BY <3>4, DoneAfter, Bounds DEF Realigned
      <4> QED
        BY <1>0, <3>2, <4>1 DEF PassIsCurrent
    <3> QED
      BY <3>1, <3>3, <3>4
  <2> QED
    BY <1>1, <2>1, <2>2, <2>3, <2>4, <2>5, <2>6, <2>7, <2>8 DEF RouteStep
<1>2. ASSUME NEW p \in Procs, NudgeStep(p) PROVE PassIsCurrent'
  <2>1. CASE ScheduleRefused(p)
    BY <1>0, <2>1, PassKept DEF ScheduleRefused
  <2>2. ASSUME NEW r \in Runs, Schedule(p, r) PROVE PassIsCurrent'
    BY <1>0, <2>2, PassKept DEF Schedule, Dispatch, Goto, ThreadTypeOK
  <2> QED
    BY <1>2, <2>1, <2>2 DEF NudgeStep
<1>3. ASSUME NEW p \in Procs, ReapStep(p) PROVE PassIsCurrent'
  <2>1. CASE ReapScan(p)
    BY <1>0, <2>1, PassKept DEF ReapScan
  <2>2. CASE ReapHalt(p)
    BY <1>0, <2>2, PassKept DEF ReapHalt
  <2>3. CASE ReapMissed(p)
    BY <1>0, <2>3, PassKept DEF ReapMissed
  <2>4. ASSUME NEW r \in Runs, ReapResume(p, r) PROVE PassIsCurrent'
    BY <1>0, <2>4, PassKept DEF ReapResume, Dispatch, Goto, ThreadTypeOK
  <2> QED
    BY <1>3, <2>1, <2>2, <2>3, <2>4 DEF ReapStep
<1>4. ASSUME NEW p \in Procs, Crash(p) PROVE PassIsCurrent'
  BY <1>0, <1>4, PassKept DEF Crash, ThreadTypeOK
<1>5. ASSUME NEW r \in Runs, RunStep(r) PROVE PassIsCurrent'
  <2>1. ASSUME NEW p \in Procs, Deliver(r, p) PROVE PassIsCurrent'
    BY <1>0, <2>1, PassKept DEF Deliver, End, Goto, ThreadTypeOK
  <2>2. CASE Begin(r)
    <3>1. \A s \in Runs : pc[s] \notin Passing
      BY <2>2, OneLiveRun DEF Begin, Starting, Live, EnginePcs
    <3> QED
      BY <1>0, <2>2, <3>1, NoPassAfter DEF Begin, Goto, ThreadTypeOK
  <2>3. CASE SkipAlreadyRunning(r)
    BY <1>0, <2>3, PassKept DEF SkipAlreadyRunning, End, Goto, ThreadTypeOK
  <2>4. CASE ReadSeen(r)
    BY <1>0, <2>4, PassKept DEF ReadSeen, Goto, ThreadTypeOK
  <2>5. CASE Load(r)
    <3>1. \A s \in Runs \ {r} : pc[s] \notin Passing
      BY <2>5, OneLiveRun DEF Load, Live, EnginePcs
    <3>2. /\ pc'[r] = "step" /\ todo'[r] = Steps \ Done /\ doneEvents' = doneEvents
          /\ \A s \in Runs \ {r} : pc'[s] = pc[s]
      BY <1>0, <2>5 DEF Load, Goto, Remaining, ThreadTypeOK
    <3> QED
      BY <3>1, <3>2 DEF PassIsCurrent, Done
  <2>6. CASE MarkRunning(r)
    BY <1>0, <2>6, PassKept DEF MarkRunning, Goto, ThreadTypeOK
  <2>7. CASE ReadInputs(r)
    BY <1>0, <2>7, PassKept DEF ReadInputs, Goto, ThreadTypeOK
  <2>8. ASSUME NEW i \in Items, ClassifyItem(r, i) PROVE PassIsCurrent'
    BY <1>0, <2>8, PassKept DEF ClassifyItem
  <2>9. CASE StepDone(r)
    <3>1. \A s \in Runs \ {r} : pc[s] \notin Passing
      BY <2>9, OneLiveRun DEF StepDone, Live, EnginePcs
    <3>2. /\ todo[r] \subseteq Steps \ Done /\ todo[r] # {}
          /\ TaxIdTypo \/ todo[r] \cup Done = Steps
      BY <1>0, <2>9 DEF StepDone, PassIsCurrent, ThreadTypeOK
    <3>3. StepOf(r) \in todo[r] /\ StepOf(r) \in Steps
      BY <3>2, LeastStep DEF StepOf
    <3>4. Done' = Done \cup {StepOf(r)}
      BY <2>9, <3>3, DoneAfter DEF StepDone
    <3>5. /\ pc'[r] = "step" /\ todo'[r] = todo[r] \ {StepOf(r)}
          /\ \A s \in Runs \ {r} : pc'[s] = pc[s]
      BY <1>0, <2>9 DEF StepDone, Goto, ThreadTypeOK
    <3> QED
      BY <3>1, <3>2, <3>3, <3>4, <3>5 DEF PassIsCurrent
  <2>10. CASE StepHalts(r)
    BY <1>0, <2>10, PassKept DEF StepHalts, Goto, ThreadTypeOK
  <2>11. CASE SetReview(r)
    BY <1>0, <2>11, PassKept DEF SetReview, Goto, ThreadTypeOK
  <2>12. CASE Probe(r)
    BY <1>0, <2>12, PassKept DEF Probe, Goto, ThreadTypeOK
  <2>13. CASE FinishFailed(r)
    BY <1>0, <2>13, PassKept DEF FinishFailed, Goto, ThreadTypeOK
  <2>14. CASE Unclaim(r)
    BY <1>0, <2>14, PassKept DEF Unclaim, Goto, ThreadTypeOK
  <2>15. CASE Release(r)
    BY <1>0, <2>15, PassKept DEF Release, End, Goto, ThreadTypeOK
  <2>16. CASE BrainStart(r)
    BY <1>0, <2>16, PassKept DEF BrainStart, Goto, ThreadTypeOK
  <2>17. CASE BrainEnd(r)
    BY <1>0, <2>17, PassKept DEF BrainEnd, Goto, ThreadTypeOK
  <2> QED
    BY <1>5, <2>1, <2>2, <2>3, <2>4, <2>5, <2>6, <2>7, <2>8, <2>9, <2>10, <2>11, <2>12, <2>13, <2>14, <2>15, <2>16, <2>17 DEF RunStep
<1>6. ASSUME NEW r \in Runs, Heartbeat(r) \/ Raise(r) \/ DispatchLost(r) PROVE PassIsCurrent'
  <2>1. CASE Heartbeat(r)
    BY <1>0, <2>1, PassKept DEF Heartbeat
  <2>2. CASE Raise(r)
    BY <1>0, <2>2, PassKept DEF Raise, Goto, ThreadTypeOK
  <2>3. CASE DispatchLost(r)
    BY <1>0, <2>3, PassKept DEF DispatchLost, End, Goto, ThreadTypeOK
  <2> QED
    BY <1>6, <2>1, <2>2, <2>3
<1>7. CASE Lapse \/ Age
  BY <1>0, <1>7, PassKept DEF Lapse, Age
<1>8. CASE UNCHANGED vars
  BY <1>0, <1>8, PassKept DEF vars
<1> QED
  BY <1>1, <1>2, <1>3, <1>4, <1>5, <1>6, <1>7, <1>8 DEF Next

LEMMA InitEngine == Init => PassInv /\ OrderInv
<1> SUFFICES ASSUME Init PROVE PassInv /\ OrderInv
    OBVIOUS
<1>1. Done = {}
  BY DEF Init, Done
<1> QED
  BY <1>1 DEF Init, PassInv, OrderInv, PassIsCurrent, StepDoneOnce, DonePrefix,
              ReviewComplete

LEMMA PassInvariant == ASSUME HealthyHeartbeat PROVE Spec => []PassInv
<1>1. TypeOK /\ LiveRunHoldsLease /\ PassInv /\ [Next]_vars => PassInv'
  BY NextPassIsCurrent, NextStepDoneOnce DEF PassInv
<1> QED
  BY InitEngine, TypeCorrect, LeaseIsMutex, <1>1, PTL DEF Spec

(* What a pass read at its start stays true until it ends, up to what a    *)
(* realignment reopens.                                                    *)
THEOREM PassesStayCurrent == ASSUME HealthyHeartbeat PROVE Spec => []PassIsCurrent
BY PassInvariant, PTL DEF PassInv

(* No step is recorded done twice without having been reopened.            *)
THEOREM StepsDoneOnce == ASSUME HealthyHeartbeat PROVE Spec => []StepDoneOnce
BY PassInvariant, PTL DEF PassInv

-----------------------------------------------------------------------------
(* Where no tax id is realigned beside a run, the log keeps its order.     *)
LEMMA NextDonePrefix ==
    ASSUME ~TaxIdTypo, TypeOK, PassIsCurrent, OrderInv, [Next]_vars
    PROVE  DonePrefix'
<1> USE Bounds, DoneAfter
<1>0. Untouched \/ Rewound \/ Completed
  BY NextLog DEF Logged, Realigned
<1>1. CASE Untouched
  BY <1>1 DEF OrderInv, DonePrefix
<1>2. CASE Rewound
  <2>1. PICK k \in Steps : Done' = {s \in Done : s < k}
    BY <1>2 DEF Rewound
  <2> QED
    BY <2>1 DEF OrderInv, DonePrefix, Steps
<1>3. CASE Completed
  <2>1. PICK s \in Steps \ Done : /\ \A t \in Steps \ Done : s <= t
                                 /\ Done' = Done \cup {s}
    BY <1>3 DEF Completed
  <2>2. \A t \in Steps : t < s => t \in Done
    BY <2>1 DEF Steps
  <2> QED
    BY <2>1, <2>2 DEF OrderInv, DonePrefix
<1> QED
  BY <1>0, <1>1, <1>2, <1>3

LEMMA NextReviewComplete ==
    ASSUME ~TaxIdTypo, TypeOK, PassIsCurrent, OrderInv, [Next]_vars
    PROVE  ReviewComplete'
<1> USE DoneAfter
<1>0. Untouched \/ Rewound \/ Completed
  BY NextLog DEF Logged, Realigned
<1>1. CASE Untouched
  BY <1>1 DEF Untouched, OrderInv, ReviewComplete, Steps
<1>2. CASE Rewound
  BY <1>2 DEF Rewound, ReviewComplete
<1>3. CASE Completed
  BY <1>3 DEF Completed, OrderInv, ReviewComplete, Steps
<1> QED
  BY <1>0, <1>1, <1>2, <1>3

LEMMA OrderInvariant ==
    ASSUME HealthyHeartbeat, ~TaxIdTypo PROVE Spec => []OrderInv
<1>1. TypeOK /\ PassInv /\ OrderInv /\ [Next]_vars => OrderInv'
  BY NextDonePrefix, NextReviewComplete DEF PassInv, OrderInv
<1> QED
  BY InitEngine, TypeCorrect, PassInvariant, <1>1, PTL DEF Spec

(* The completed steps are an initial segment of the pipeline.             *)
THEOREM StepsDoneInOrder ==
    ASSUME HealthyHeartbeat, ~TaxIdTypo PROVE Spec => []DonePrefix
BY OrderInvariant, PTL DEF OrderInv

(* An order shown for review has every step done.                          *)
THEOREM ReviewShowsComplete ==
    ASSUME HealthyHeartbeat, ~TaxIdTypo PROVE Spec => []ReviewComplete
BY OrderInvariant, PTL DEF OrderInv

-----------------------------------------------------------------------------
(* The engine, with its leases, threads, crashes and reapers, implements   *)
(* the abstract pipeline.                                                  *)
THEOREM EngineRefinesPipeline ==
    ASSUME HealthyHeartbeat, ~TaxIdTypo PROVE Spec => PipelineSpec
<1> USE DEF Pipeline!Steps, Steps
<1>1. Init => Pipeline!Init
  BY DEF Init, Pipeline!Init, Done
<1>2. ASSUME TypeOK, PassInv, OrderInv, [Next]_vars
      PROVE  [Pipeline!Next]_<<Done, status = "review">>
  <2>0. Untouched \/ Rewound \/ Completed
    BY <1>2, NextLog DEF PassInv, Logged, Realigned
  <2>1. CASE Untouched
    <3>1. Done' = Done
      BY <1>2, <2>1, DoneAfter
    <3>2. CASE (status' = "review") = (status = "review")
      BY <3>1, <3>2
    <3>3. CASE status' = "review" /\ status # "review"
      BY <2>1, <3>1, <3>3 DEF Untouched, Pipeline!Next, Pipeline!Show
    <3>4. CASE status' # "review" /\ status = "review"
      BY <3>1, <3>4 DEF Pipeline!Next, Pipeline!Withdraw
    <3> QED
      BY <3>2, <3>3, <3>4
  <2>2. CASE Rewound
    BY <1>2, <2>2, DoneAfter, Bounds DEF Rewound, Pipeline!Next, Pipeline!Rewind
  <2>3. CASE Completed
    <3>1. status # "review"
      BY <1>2, <2>3 DEF Completed, OrderInv, ReviewComplete
    <3>2. PICK s \in Steps \ Done : /\ \A t \in Steps \ Done : s <= t
                                   /\ Done' = Done \cup {s} /\ status' = status
      BY <1>2, <2>3, DoneAfter DEF Completed
    <3> QED
      BY <3>1, <3>2 DEF Pipeline!Next, Pipeline!Complete
  <2> QED
    BY <2>0, <2>1, <2>2, <2>3
<1> QED
  BY <1>1, <1>2, TypeCorrect, PassInvariant, OrderInvariant, PTL
     DEF Spec, PipelineSpec, Pipeline!Spec
=============================================================================
