-------------------------- MODULE WorkOrderRunProofs --------------------------
(***************************************************************************)
(* What holds of WorkOrderRun for any number of tokens, processes, items   *)
(* and steps, and for any bounds.                                          *)
(***************************************************************************)
EXTENDS WorkOrderRun, TLAPS

-----------------------------------------------------------------------------
LEMMA Bounds ==
    /\ NSteps \in Nat /\ MaxFaults \in Nat /\ AutoResumeLimit \in Nat
    /\ DrainRounds \in Nat /\ NoRun \notin Runs /\ NoProc \notin Procs
    /\ Cloud \in BOOLEAN /\ HealthyHeartbeat \in BOOLEAN /\ TaxIdTypo \in BOOLEAN
    /\ SortStep \in Steps /\ ClassifyStep \in Steps /\ ReconcileStep \in Steps
BY WorkOrderRunAssumption DEF WorkOrderRunAssumption, Steps

(* Every variable keeps its type; with it, the count of automatic resumes  *)
(* never exceeds AUTO_RESUME_LIMIT and a run never drains more than        *)
(* _RACE_DRAIN_ROUNDS times.                                               *)
LEMMA InitTypeOK == Init => TypeOK
<1> SUFFICES ASSUME Init PROVE TypeOK
    OBVIOUS
<1> USE Bounds DEF Init
<1>1. RowTypeOK
  BY DEF RowTypeOK, Statuses
<1>2. LogTypeOK
  <2>1. doneEvents \in [Steps -> Nat]
    OBVIOUS
  <2>2. packaged \in BOOLEAN
    OBVIOUS
  <2>3. decisions \in Nat /\ autoRuns \in 0..AutoResumeLimit
    OBVIOUS
  <2>4. arrived \subseteq Items /\ classified \subseteq Items
    OBVIOUS
  <2>5. suspected \in BOOLEAN /\ (suspected => TaxIdTypo)
    OBVIOUS
  <2> QED
    BY <2>1, <2>2, <2>3, <2>4, <2>5 DEF LogTypeOK
<1>3. ThreadTypeOK
  BY DEF ThreadTypeOK, Pcs
<1> QED
  BY <1>1, <1>2, <1>3 DEF TypeOK, Ops

(* The locals stay typed when a thread moves on, ends or is dispatched.    *)
LEMMA GotoType ==
    ASSUME ThreadTypeOK, NEW r \in Runs, NEW l \in Pcs, Goto(r, l)
    PROVE  pc' \in [Runs -> Pcs]
BY DEF ThreadTypeOK, Goto

LEMMA EndType == ASSUME ThreadTypeOK, NEW r \in Runs, End(r) PROVE ThreadTypeOK'
<1>1. pc' \in [Runs -> Pcs] /\ proc' \in [Runs -> Procs \cup {NoProc}] /\ kind' = kind
  BY DEF ThreadTypeOK, End, Goto, Pcs
<1>2. /\ todo' \in [Runs -> SUBSET Steps] /\ took' \in [Runs -> SUBSET Items]
  BY DEF ThreadTypeOK, End
<1>3. /\ seen' \in [Runs -> Nat] /\ rounds' \in [Runs -> 0..DrainRounds]
      /\ saw' \in [Runs -> Nat]
  BY Bounds DEF ThreadTypeOK, End
<1> QED
  BY <1>1, <1>2, <1>3 DEF ThreadTypeOK

LEMMA DispatchType ==
    ASSUME ThreadTypeOK, NEW p \in Procs, NEW r \in Runs,
           NEW k \in {"run", "brain"}, Dispatch(p, r, k)
    PROVE  ThreadTypeOK'
BY DEF ThreadTypeOK, Dispatch, Goto, Pcs

LEMMA NextTypeOK == TypeOK /\ [Next]_vars => TypeOK'
<1> SUFFICES ASSUME TypeOK, [Next]_vars PROVE TypeOK'
    OBVIOUS
<1> USE Bounds DEF rowVars, logVars, itemVars, runVars
<1>0. /\ RowTypeOK /\ LogTypeOK /\ ThreadTypeOK
      /\ op \in [Procs -> Ops] /\ faults \in 0..MaxFaults
  BY DEF TypeOK
<1>1. ASSUME NEW p \in Procs, RouteStep(p) PROVE TypeOK'
  <2>1. CASE RunOrder(p)
    <3>1. RowTypeOK'
      BY <1>0, <2>1 DEF RunOrder, RowTypeOK, Statuses
    <3>2. LogTypeOK'
      BY <1>0, <2>1 DEF RunOrder, LogTypeOK
    <3>3. ThreadTypeOK'
      BY <1>0, <2>1 DEF RunOrder, ThreadTypeOK, Pcs, EnginePcs
    <3> QED
      BY <1>0, <2>1, <3>1, <3>2, <3>3 DEF RunOrder, TypeOK, Ops
  <2>2. CASE AddDecision(p)
    <3>1. RowTypeOK'
      BY <1>0, <2>2 DEF AddDecision, RowTypeOK, Statuses
    <3>2. LogTypeOK'
      BY <1>0, <2>2 DEF AddDecision, LogTypeOK
    <3>3. ThreadTypeOK'
      BY <1>0, <2>2 DEF AddDecision, ThreadTypeOK, Pcs, EnginePcs
    <3> QED
      BY <1>0, <2>2, <3>1, <3>2, <3>3 DEF AddDecision, TypeOK, Ops
  <2>3. CASE ArchiveRead(p)
    <3>1. RowTypeOK'
      BY <1>0, <2>3 DEF ArchiveRead, RowTypeOK, Statuses
    <3>2. LogTypeOK'
      BY <1>0, <2>3 DEF ArchiveRead, LogTypeOK
    <3>3. ThreadTypeOK'
      BY <1>0, <2>3 DEF ArchiveRead, ThreadTypeOK, Pcs, EnginePcs
    <3> QED
      BY <1>0, <2>3, <3>1, <3>2, <3>3 DEF ArchiveRead, TypeOK, Ops
  <2>4. CASE ArchiveCommit(p)
    <3>1. RowTypeOK'
      BY <1>0, <2>4 DEF ArchiveCommit, SetStatus, RowTypeOK, Statuses
    <3>2. LogTypeOK'
      BY <1>0, <2>4 DEF ArchiveCommit, SetStatus, LogTypeOK
    <3>3. ThreadTypeOK'
      BY <1>0, <2>4 DEF ArchiveCommit, SetStatus, ThreadTypeOK, Pcs, EnginePcs
    <3> QED
      BY <1>0, <2>4, <3>1, <3>2, <3>3 DEF ArchiveCommit, SetStatus, TypeOK, Ops
  <2>5. ASSUME NEW i \in Items, AddMaterial(p, i) PROVE TypeOK'
    <3>1. RowTypeOK'
      BY <1>0, <2>5 DEF AddMaterial, RowTypeOK, Statuses
    <3>2. LogTypeOK'
      BY <1>0, <2>5 DEF AddMaterial, LogTypeOK
    <3>3. ThreadTypeOK'
      BY <1>0, <2>5 DEF AddMaterial, ThreadTypeOK, Pcs, EnginePcs
    <3> QED
      BY <1>0, <2>5, <3>1, <3>2, <3>3 DEF AddMaterial, TypeOK, Ops
  <2>6. ASSUME NEW r \in Runs, Reject(p, r) PROVE TypeOK'
    <3>1. RowTypeOK'
      BY <1>0, <2>6 DEF Reject, SetLease, Reopened, RowTypeOK, Statuses
    <3>2. LogTypeOK'
      BY <1>0, <2>6 DEF Reject, SetLease, Reopened, LogTypeOK
    <3>3. ThreadTypeOK'
      BY <1>0, <2>6, DispatchType DEF Reject
    <3> QED
      BY <1>0, <2>6, <3>1, <3>2, <3>3 DEF Reject, SetLease, Reopened, TypeOK, Ops
  <2>7. ASSUME NEW r \in Runs, BeginBrain(p, r) PROVE TypeOK'
    <3>1. RowTypeOK'
      BY <1>0, <2>7 DEF BeginBrain, SetLease, RowTypeOK, Statuses
    <3>2. LogTypeOK'
      BY <1>0, <2>7 DEF BeginBrain, SetLease, LogTypeOK
    <3>3. ThreadTypeOK'
      BY <1>0, <2>7, DispatchType DEF BeginBrain
    <3> QED
      BY <1>0, <2>7, <3>1, <3>2, <3>3 DEF BeginBrain, SetLease, TypeOK, Ops
  <2>8. CASE Realign(p)
    <3>1. RowTypeOK'
      BY <1>0, <2>8 DEF Realign, RowTypeOK, Statuses
    <3>2. LogTypeOK'
      BY <1>0, <2>8 DEF Realign, Reopened, LogTypeOK
    <3>3. ThreadTypeOK'
      BY <1>0, <2>8 DEF Realign, ThreadTypeOK, Pcs, EnginePcs
    <3> QED
      BY <1>0, <2>8, <3>1, <3>2, <3>3 DEF Realign, TypeOK, Ops
  <2> QED
    BY <1>1, <2>1, <2>2, <2>3, <2>4, <2>5, <2>6, <2>7, <2>8 DEF RouteStep
<1>2. ASSUME NEW p \in Procs, NudgeStep(p) PROVE TypeOK'
  <2>1. CASE ScheduleRefused(p)
    <3>1. RowTypeOK'
      BY <1>0, <2>1 DEF ScheduleRefused, RowTypeOK, Statuses
    <3>2. LogTypeOK'
      BY <1>0, <2>1 DEF ScheduleRefused, LogTypeOK
    <3>3. ThreadTypeOK'
      BY <1>0, <2>1 DEF ScheduleRefused, ThreadTypeOK, Pcs, EnginePcs
    <3> QED
      BY <1>0, <2>1, <3>1, <3>2, <3>3 DEF ScheduleRefused, TypeOK, Ops
  <2>2. ASSUME NEW r \in Runs, Schedule(p, r) PROVE TypeOK'
    <3>1. RowTypeOK'
      BY <1>0, <2>2 DEF Schedule, SetLease, RowTypeOK, Statuses
    <3>2. LogTypeOK'
      BY <1>0, <2>2 DEF Schedule, SetLease, LogTypeOK
    <3>3. ThreadTypeOK'
      BY <1>0, <2>2, DispatchType DEF Schedule
    <3> QED
      BY <1>0, <2>2, <3>1, <3>2, <3>3 DEF Schedule, SetLease, TypeOK, Ops
  <2> QED
    BY <1>2, <2>1, <2>2 DEF NudgeStep
<1>3. ASSUME NEW p \in Procs, ReapStep(p) PROVE TypeOK'
  <2>1. CASE ReapScan(p)
    <3>1. RowTypeOK'
      BY <1>0, <2>1 DEF ReapScan, RowTypeOK, Statuses
    <3>2. LogTypeOK'
      BY <1>0, <2>1 DEF ReapScan, LogTypeOK
    <3>3. ThreadTypeOK'
      BY <1>0, <2>1 DEF ReapScan, ThreadTypeOK, Pcs, EnginePcs
    <3> QED
      BY <1>0, <2>1, <3>1, <3>2, <3>3 DEF ReapScan, TypeOK, Ops
  <2>2. CASE ReapHalt(p)
    <3>1. RowTypeOK'
      BY <1>0, <2>2 DEF ReapHalt, SetLease, RowTypeOK, Statuses
    <3>2. LogTypeOK'
      BY <1>0, <2>2 DEF ReapHalt, SetLease, LogTypeOK
    <3>3. ThreadTypeOK'
      BY <1>0, <2>2 DEF ReapHalt, SetLease, ThreadTypeOK, Pcs, EnginePcs
    <3> QED
      BY <1>0, <2>2, <3>1, <3>2, <3>3 DEF ReapHalt, SetLease, TypeOK, Ops
  <2>3. CASE ReapMissed(p)
    <3>1. RowTypeOK'
      BY <1>0, <2>3 DEF ReapMissed, RowTypeOK, Statuses
    <3>2. LogTypeOK'
      BY <1>0, <2>3 DEF ReapMissed, LogTypeOK
    <3>3. ThreadTypeOK'
      BY <1>0, <2>3 DEF ReapMissed, ThreadTypeOK, Pcs, EnginePcs
    <3> QED
      BY <1>0, <2>3, <3>1, <3>2, <3>3 DEF ReapMissed, TypeOK, Ops
  <2>4. ASSUME NEW r \in Runs, ReapResume(p, r) PROVE TypeOK'
    <3>1. RowTypeOK'
      BY <1>0, <2>4 DEF ReapResume, SetLease, BudgetLeft, RowTypeOK, Statuses
    <3>2. LogTypeOK'
      BY <1>0, <2>4 DEF ReapResume, SetLease, BudgetLeft, LogTypeOK
    <3>3. ThreadTypeOK'
      BY <1>0, <2>4, DispatchType DEF ReapResume
    <3> QED
      BY <1>0, <2>4, <3>1, <3>2, <3>3 DEF ReapResume, SetLease, BudgetLeft, TypeOK, Ops
  <2> QED
    BY <1>3, <2>1, <2>2, <2>3, <2>4 DEF ReapStep
<1>4. ASSUME NEW p \in Procs, Crash(p) PROVE TypeOK'
  <2>1. /\ pc' \in [Runs -> Pcs] /\ proc' \in [Runs -> Procs \cup {NoProc}]
        /\ todo' \in [Runs -> SUBSET Steps]
    BY <1>0, <1>4 DEF Crash, ThreadTypeOK, Pcs
  <2>2. /\ seen' \in [Runs -> Nat] /\ rounds' \in [Runs -> 0..DrainRounds]
        /\ saw' \in [Runs -> Nat] /\ took' \in [Runs -> SUBSET Items]
    BY <1>0, <1>4 DEF Crash, ThreadTypeOK
  <2>3. ThreadTypeOK'
    BY <1>0, <1>4, <2>1, <2>2 DEF Crash, ThreadTypeOK
  <2>4. RowTypeOK' /\ LogTypeOK'
    BY <1>0, <1>4 DEF Crash, RowTypeOK, LogTypeOK
  <2>5. op' \in [Procs -> Ops] /\ faults' \in 0..MaxFaults
    BY <1>0, <1>4 DEF Crash, Fault, Ops
  <2> QED
    BY <2>3, <2>4, <2>5 DEF TypeOK
<1>5. ASSUME NEW r \in Runs, RunStep(r) PROVE TypeOK'
  <2>1. ASSUME NEW p \in Procs, Deliver(r, p) PROVE TypeOK'
    <3>1. RowTypeOK'
      BY <1>0, <2>1 DEF Deliver, SetLease, RowTypeOK, Statuses
    <3>2. LogTypeOK'
      BY <1>0, <2>1 DEF Deliver, SetLease, LogTypeOK
    <3>3. ThreadTypeOK'
      BY <1>0, <2>1, EndType DEF Deliver, ThreadTypeOK, Goto, Pcs
    <3> QED
      BY <1>0, <2>1, <3>1, <3>2, <3>3 DEF Deliver, SetLease, TypeOK, Ops
  <2>2. CASE Begin(r)
    <3>1. RowTypeOK'
      BY <1>0, <2>2 DEF Begin, Goto, Reopened, RowTypeOK, Statuses
    <3>2. LogTypeOK'
      BY <1>0, <2>2 DEF Begin, Goto, Reopened, LogTypeOK
    <3>3. ThreadTypeOK'
      BY <1>0, <2>2 DEF Begin, Goto, Reopened, ThreadTypeOK, Pcs, EnginePcs
    <3> QED
      BY <1>0, <2>2, <3>1, <3>2, <3>3 DEF Begin, Goto, Reopened, TypeOK, Ops
  <2>3. CASE SkipAlreadyRunning(r)
    <3>1. RowTypeOK'
      BY <1>0, <2>3 DEF SkipAlreadyRunning, RowTypeOK, Statuses
    <3>2. LogTypeOK'
      BY <1>0, <2>3 DEF SkipAlreadyRunning, LogTypeOK
    <3>3. ThreadTypeOK'
      BY <1>0, <2>3, EndType DEF SkipAlreadyRunning
    <3> QED
      BY <1>0, <2>3, <3>1, <3>2, <3>3 DEF SkipAlreadyRunning, TypeOK, Ops
  <2>4. CASE ReadSeen(r)
    <3>1. RowTypeOK'
      BY <1>0, <2>4 DEF ReadSeen, Goto, RowTypeOK, Statuses
    <3>2. LogTypeOK'
      BY <1>0, <2>4 DEF ReadSeen, Goto, LogTypeOK
    <3>3. ThreadTypeOK'
      BY <1>0, <2>4 DEF ReadSeen, Goto, ThreadTypeOK, LogTypeOK, Pcs, EnginePcs
    <3> QED
      BY <1>0, <2>4, <3>1, <3>2, <3>3 DEF ReadSeen, Goto, TypeOK, Ops
  <2>5. CASE Load(r)
    <3>1. RowTypeOK'
      BY <1>0, <2>5 DEF Load, Goto, Remaining, RowTypeOK, Statuses
    <3>2. LogTypeOK'
      BY <1>0, <2>5 DEF Load, Goto, Remaining, LogTypeOK
    <3>3. ThreadTypeOK'
      BY <1>0, <2>5 DEF Load, Goto, Remaining, ThreadTypeOK, Pcs, EnginePcs
    <3> QED
      BY <1>0, <2>5, <3>1, <3>2, <3>3 DEF Load, Goto, Remaining, TypeOK, Ops
  <2>6. CASE MarkRunning(r)
    <3>1. RowTypeOK'
      BY <1>0, <2>6 DEF MarkRunning, Goto, SetStatus, RowTypeOK, Statuses
    <3>2. LogTypeOK'
      BY <1>0, <2>6 DEF MarkRunning, Goto, SetStatus, LogTypeOK
    <3>3. ThreadTypeOK'
      BY <1>0, <2>6 DEF MarkRunning, Goto, SetStatus, ThreadTypeOK, Pcs, EnginePcs
    <3> QED
      BY <1>0, <2>6, <3>1, <3>2, <3>3 DEF MarkRunning, Goto, SetStatus, TypeOK, Ops
  <2>7. CASE ReadInputs(r)
    <3>1. RowTypeOK'
      BY <1>0, <2>7 DEF ReadInputs, Goto, RowTypeOK, Statuses
    <3>2. LogTypeOK'
      BY <1>0, <2>7 DEF ReadInputs, Goto, LogTypeOK
    <3>3. ThreadTypeOK'
      BY <1>0, <2>7 DEF ReadInputs, Goto, ThreadTypeOK, LogTypeOK, Pcs, EnginePcs
    <3> QED
      BY <1>0, <2>7, <3>1, <3>2, <3>3 DEF ReadInputs, Goto, TypeOK, Ops
  <2>8. ASSUME NEW i \in Items, ClassifyItem(r, i) PROVE TypeOK'
    <3>1. RowTypeOK'
      BY <1>0, <2>8 DEF ClassifyItem, RowTypeOK, Statuses
    <3>2. LogTypeOK'
      BY <1>0, <2>8 DEF ClassifyItem, LogTypeOK
    <3>3. ThreadTypeOK'
      BY <1>0, <2>8 DEF ClassifyItem, ThreadTypeOK, Pcs, EnginePcs
    <3> QED
      BY <1>0, <2>8, <3>1, <3>2, <3>3 DEF ClassifyItem, TypeOK, Ops
  <2>9. CASE StepDone(r)
    <3>1. RowTypeOK'
      BY <1>0, <2>9 DEF StepDone, Goto, RowTypeOK, Statuses
    <3>2. LogTypeOK'
      <4>1. doneEvents' \in [Steps -> Nat]
        <5> DEFINE k == StepOf(r)
        <5>1. doneEvents' = [doneEvents EXCEPT ![k] = doneEvents[k] + 1]
          BY <2>9 DEF StepDone
        <5>2. doneEvents \in [Steps -> Nat]
          BY <1>0 DEF LogTypeOK
        <5> HIDE DEF k
        <5>3. CASE k \in Steps
          <6>1. doneEvents[k] + 1 \in Nat
            BY <5>2, <5>3
          <6> QED
            BY <5>1, <5>2, <6>1
        <5>4. CASE k \notin Steps
          BY <5>1, <5>2, <5>4
        <5> QED
          BY <5>3, <5>4
      <4>2. packaged' \in BOOLEAN
        BY <2>9 DEF StepDone
      <4>3. suspected' \in BOOLEAN /\ (suspected' => TaxIdTypo)
        BY <1>0, <2>9 DEF StepDone, LogTypeOK
      <4> QED
        BY <1>0, <2>9, <4>1, <4>2, <4>3 DEF StepDone, LogTypeOK
    <3>3. ThreadTypeOK'
      BY <1>0, <2>9 DEF StepDone, Goto, ThreadTypeOK, Pcs, EnginePcs
    <3> QED
      BY <1>0, <2>9, <3>1, <3>2, <3>3 DEF StepDone, Goto, TypeOK, Ops
  <2>10. CASE StepHalts(r)
    <3>1. RowTypeOK'
      BY <1>0, <2>10 DEF StepHalts, SetStatus, Goto, Fault, RowTypeOK, Statuses
    <3>2. LogTypeOK'
      BY <1>0, <2>10 DEF StepHalts, SetStatus, Goto, Fault, LogTypeOK
    <3>3. ThreadTypeOK'
      BY <1>0, <2>10 DEF StepHalts, SetStatus, Goto, Fault, ThreadTypeOK, Pcs, EnginePcs
    <3> QED
      BY <1>0, <2>10, <3>1, <3>2, <3>3 DEF StepHalts, SetStatus, Goto, Fault, TypeOK, Ops
  <2>11. CASE SetReview(r)
    <3>1. RowTypeOK'
      BY <1>0, <2>11 DEF SetReview, SetStatus, Goto, RowTypeOK, Statuses
    <3>2. LogTypeOK'
      BY <1>0, <2>11 DEF SetReview, SetStatus, Goto, LogTypeOK
    <3>3. ThreadTypeOK'
      BY <1>0, <2>11 DEF SetReview, SetStatus, Goto, ThreadTypeOK, Pcs, EnginePcs
    <3> QED
      BY <1>0, <2>11, <3>1, <3>2, <3>3 DEF SetReview, SetStatus, Goto, TypeOK, Ops
  <2>12. CASE Probe(r)
    <3>1. RowTypeOK'
      BY <1>0, <2>12 DEF Probe, Goto, RowTypeOK, Statuses
    <3>2. LogTypeOK'
      BY <1>0, <2>12 DEF Probe, Goto, LogTypeOK
    <3>3. ThreadTypeOK'
      BY <1>0, <2>12 DEF Probe, Goto, ThreadTypeOK, LogTypeOK, Pcs, EnginePcs
    <3> QED
      BY <1>0, <2>12, <3>1, <3>2, <3>3 DEF Probe, Goto, TypeOK, Ops
  <2>13. CASE FinishFailed(r)
    <3>1. RowTypeOK'
      BY <1>0, <2>13 DEF FinishFailed, SetStatus, Goto, Fault, RowTypeOK, Statuses
    <3>2. LogTypeOK'
      BY <1>0, <2>13 DEF FinishFailed, SetStatus, Goto, Fault, LogTypeOK
    <3>3. ThreadTypeOK'
      BY <1>0, <2>13 DEF FinishFailed, SetStatus, Goto, Fault, ThreadTypeOK, Pcs, EnginePcs
    <3> QED
      BY <1>0, <2>13, <3>1, <3>2, <3>3 DEF FinishFailed, SetStatus, Goto, Fault, TypeOK, Ops
  <2>14. CASE Unclaim(r)
    <3>1. RowTypeOK'
      BY <1>0, <2>14 DEF Unclaim, Goto, RowTypeOK, Statuses
    <3>2. LogTypeOK'
      BY <1>0, <2>14 DEF Unclaim, Goto, LogTypeOK
    <3>3. ThreadTypeOK'
      BY <1>0, <2>14 DEF Unclaim, Goto, ThreadTypeOK, Pcs, EnginePcs
    <3> QED
      BY <1>0, <2>14, <3>1, <3>2, <3>3 DEF Unclaim, Goto, TypeOK, Ops
  <2>15. CASE Release(r)
    <3>1. RowTypeOK'
      BY <1>0, <2>15 DEF Release, GiveUp, SetLease, Fault, RowTypeOK, Statuses
    <3>2. LogTypeOK'
      BY <1>0, <2>15 DEF Release, GiveUp, SetLease, Fault, LogTypeOK
    <3>3. ThreadTypeOK'
      BY <1>0, <2>15, EndType DEF Release
    <3> QED
      BY <1>0, <2>15, <3>1, <3>2, <3>3 DEF Release, GiveUp, SetLease, Fault, TypeOK, Ops
  <2>16. CASE BrainStart(r)
    <3>1. RowTypeOK'
      BY <1>0, <2>16 DEF BrainStart, Goto, RowTypeOK, Statuses
    <3>2. LogTypeOK'
      BY <1>0, <2>16 DEF BrainStart, Goto, LogTypeOK
    <3>3. ThreadTypeOK'
      BY <1>0, <2>16 DEF BrainStart, Goto, ThreadTypeOK, Pcs, EnginePcs
    <3> QED
      BY <1>0, <2>16, <3>1, <3>2, <3>3 DEF BrainStart, Goto, TypeOK, Ops
  <2>17. CASE BrainEnd(r)
    <3>1. RowTypeOK'
      BY <1>0, <2>17 DEF BrainEnd, Goto, RowTypeOK, Statuses
    <3>2. LogTypeOK'
      BY <1>0, <2>17 DEF BrainEnd, Goto, LogTypeOK
    <3>3. ThreadTypeOK'
      BY <1>0, <2>17 DEF BrainEnd, Goto, ThreadTypeOK, Pcs, EnginePcs
    <3> QED
      BY <1>0, <2>17, <3>1, <3>2, <3>3 DEF BrainEnd, Goto, TypeOK, Ops
  <2> QED
    BY <1>5, <2>1, <2>2, <2>3, <2>4, <2>5, <2>6, <2>7, <2>8, <2>9, <2>10, <2>11, <2>12, <2>13, <2>14, <2>15, <2>16, <2>17 DEF RunStep
<1>6. ASSUME NEW r \in Runs, Heartbeat(r) \/ Raise(r) \/ DispatchLost(r) PROVE TypeOK'
  <2>1. CASE Heartbeat(r)
    <3>1. RowTypeOK'
      BY <1>0, <2>1 DEF Heartbeat, SetLease, RowTypeOK, Statuses
    <3>2. LogTypeOK'
      BY <1>0, <2>1 DEF Heartbeat, SetLease, LogTypeOK
    <3>3. ThreadTypeOK'
      BY <1>0, <2>1 DEF Heartbeat, SetLease, ThreadTypeOK, Pcs, EnginePcs
    <3> QED
      BY <1>0, <2>1, <3>1, <3>2, <3>3 DEF Heartbeat, SetLease, TypeOK, Ops
  <2>2. CASE Raise(r)
    <3>1. RowTypeOK'
      BY <1>0, <2>2 DEF Raise, Goto, Fault, RowTypeOK, Statuses
    <3>2. LogTypeOK'
      BY <1>0, <2>2 DEF Raise, Goto, Fault, LogTypeOK
    <3>3. ThreadTypeOK'
      BY <1>0, <2>2 DEF Raise, Goto, Fault, ThreadTypeOK, Pcs, EnginePcs
    <3> QED
      BY <1>0, <2>2, <3>1, <3>2, <3>3 DEF Raise, Goto, Fault, TypeOK, Ops
  <2>3. CASE DispatchLost(r)
    <3>1. RowTypeOK'
      BY <1>0, <2>3 DEF DispatchLost, Fault, RowTypeOK, Statuses
    <3>2. LogTypeOK'
      BY <1>0, <2>3 DEF DispatchLost, Fault, LogTypeOK
    <3>3. ThreadTypeOK'
      BY <1>0, <2>3, EndType DEF DispatchLost
    <3> QED
      BY <1>0, <2>3, <3>1, <3>2, <3>3 DEF DispatchLost, Fault, TypeOK, Ops
  <2> QED
    BY <1>6, <2>1, <2>2, <2>3
<1>7. CASE Lapse \/ Age
  <2>1. RowTypeOK'
    BY <1>0, <1>7 DEF Lapse, Age, RowTypeOK, Statuses
  <2>2. LogTypeOK'
    BY <1>0, <1>7 DEF Lapse, Age, LogTypeOK
  <2>3. ThreadTypeOK'
    BY <1>0, <1>7 DEF Lapse, Age, ThreadTypeOK
  <2> QED
    BY <1>0, <1>7, <2>1, <2>2, <2>3 DEF Lapse, Age, TypeOK
<1>8. CASE UNCHANGED vars
  BY <1>0, <1>8 DEF vars, TypeOK, RowTypeOK, LogTypeOK, ThreadTypeOK
<1> QED
  BY <1>1, <1>2, <1>3, <1>4, <1>5, <1>6, <1>7, <1>8 DEF Next

THEOREM TypeCorrect == Spec => []TypeOK
BY InitTypeOK, NextTypeOK, PTL DEF Spec

-----------------------------------------------------------------------------
(* The lease is a mutex.  Every way to take the row from its holder needs  *)
(* a free or a dead row, and neither has a live run while the heartbeat is *)
(* in time.                                                                *)
LEMMA InitLease == Init => LiveRunHoldsLease
BY DEF Init, LiveRunHoldsLease, Live

(* A live thread that moves on.                                            *)
LEMMA MoveKeepsLease ==
    ASSUME TypeOK, LiveRunHoldsLease, NEW r \in Runs, Live(r), NEW l \in Pcs,
           Goto(r, l), owner' = owner,
           lapsed' = FALSE \/ lapsed' = lapsed
    PROVE  LiveRunHoldsLease'
BY DEF TypeOK, ThreadTypeOK, LiveRunHoldsLease, Live, Goto

(* A thread that ends, with or without giving its own lease back.          *)
LEMMA EndKeepsLease ==
    ASSUME TypeOK, LiveRunHoldsLease, NEW r \in Runs, End(r),
           \/ owner' = owner /\ lapsed' = lapsed
           \/ owner = r
    PROVE  LiveRunHoldsLease'
BY DEF TypeOK, ThreadTypeOK, LiveRunHoldsLease, Live, End, Goto

(* A fresh token takes a row that is free or dead.                         *)
LEMMA DispatchTakesLease ==
    ASSUME TypeOK, LiveRunHoldsLease, NEW p \in Procs, NEW r \in Runs, NEW k,
           Free \/ Dead, SetLease(r), Dispatch(p, r, k)
    PROVE  LiveRunHoldsLease'
<1>1. \A s \in Runs : ~Live(s)
  BY Bounds DEF LiveRunHoldsLease, Free, Dead
<1>2. \A s \in Runs : s # r => ~Live(s)'
  BY <1>1 DEF TypeOK, ThreadTypeOK, Live, Dispatch, Goto
<1>3. owner' = r /\ lapsed' = FALSE
  BY DEF SetLease
<1> QED
  BY <1>2, <1>3 DEF LiveRunHoldsLease

LEMMA NextLease ==
    ASSUME HealthyHeartbeat, TypeOK, LiveRunHoldsLease, [Next]_vars
    PROVE  LiveRunHoldsLease'
<1> USE Bounds DEF rowVars, logVars, itemVars, runVars
<1>1. ASSUME NEW p \in Procs, RouteStep(p) PROVE LiveRunHoldsLease'
  <2>1. CASE RunOrder(p)
    BY <2>1 DEF RunOrder, LiveRunHoldsLease, Live
  <2>2. CASE AddDecision(p)
    BY <2>2 DEF AddDecision, LiveRunHoldsLease, Live
  <2>3. CASE ArchiveRead(p)
    BY <2>3 DEF ArchiveRead, LiveRunHoldsLease, Live
  <2>4. CASE ArchiveCommit(p)
    BY <2>4 DEF ArchiveCommit, LiveRunHoldsLease, Live
  <2>5. ASSUME NEW i \in Items, AddMaterial(p, i) PROVE LiveRunHoldsLease'
    BY <2>5 DEF AddMaterial, LiveRunHoldsLease, Live
  <2>6. ASSUME NEW r \in Runs, Reject(p, r) PROVE LiveRunHoldsLease'
    BY <2>6, DispatchTakesLease DEF Reject
  <2>7. ASSUME NEW r \in Runs, BeginBrain(p, r) PROVE LiveRunHoldsLease'
    BY <2>7, DispatchTakesLease DEF BeginBrain
  <2>8. CASE Realign(p)
    BY <2>8 DEF Realign, LiveRunHoldsLease, Live
  <2> QED
    BY <1>1, <2>1, <2>2, <2>3, <2>4, <2>5, <2>6, <2>7, <2>8 DEF RouteStep
<1>2. ASSUME NEW p \in Procs, NudgeStep(p) PROVE LiveRunHoldsLease'
  <2>1. CASE ScheduleRefused(p)
    BY <2>1 DEF ScheduleRefused, LiveRunHoldsLease, Live
  <2>2. ASSUME NEW r \in Runs, Schedule(p, r) PROVE LiveRunHoldsLease'
    BY <2>2, DispatchTakesLease DEF Schedule
  <2> QED
    BY <1>2, <2>1, <2>2 DEF NudgeStep
<1>3. ASSUME NEW p \in Procs, ReapStep(p) PROVE LiveRunHoldsLease'
  <2>1. CASE ReapScan(p)
    BY <2>1 DEF ReapScan, LiveRunHoldsLease, Live
  <2>2. CASE ReapHalt(p)
    BY <2>2 DEF ReapHalt, SetLease, Dead, LiveRunHoldsLease, Live
  <2>3. CASE ReapMissed(p)
    BY <2>3 DEF ReapMissed, LiveRunHoldsLease, Live
  <2>4. ASSUME NEW r \in Runs, ReapResume(p, r) PROVE LiveRunHoldsLease'
    BY <2>4, DispatchTakesLease DEF ReapResume
  <2> QED
    BY <1>3, <2>1, <2>2, <2>3, <2>4 DEF ReapStep
<1>4. ASSUME NEW p \in Procs, Crash(p) PROVE LiveRunHoldsLease'
  BY <1>4 DEF Crash, TypeOK, ThreadTypeOK, LiveRunHoldsLease, Live
<1>5. ASSUME NEW r \in Runs, RunStep(r) PROVE LiveRunHoldsLease'
  <2>1. ASSUME NEW p \in Procs, Deliver(r, p) PROVE LiveRunHoldsLease'
    BY <2>1, EndKeepsLease DEF Deliver, SetLease, Goto, LiveRunHoldsLease, Live, TypeOK, ThreadTypeOK
  <2>2. CASE Begin(r)
    BY <2>2, MoveKeepsLease DEF Begin, Live, Starting, Pcs, EnginePcs
  <2>3. CASE SkipAlreadyRunning(r)
    BY <2>3, EndKeepsLease DEF SkipAlreadyRunning
  <2>4. CASE ReadSeen(r)
    BY <2>4, MoveKeepsLease DEF ReadSeen, Live, Starting, Pcs, EnginePcs
  <2>5. CASE Load(r)
    BY <2>5, MoveKeepsLease DEF Load, Live, Starting, Pcs, EnginePcs
  <2>6. CASE MarkRunning(r)
    BY <2>6, MoveKeepsLease DEF MarkRunning, Live, Starting, Pcs, EnginePcs
  <2>7. CASE ReadInputs(r)
    BY <2>7, MoveKeepsLease DEF ReadInputs, Live, Starting, Pcs, EnginePcs
  <2>8. ASSUME NEW i \in Items, ClassifyItem(r, i) PROVE LiveRunHoldsLease'
    BY <2>8 DEF ClassifyItem, LiveRunHoldsLease, Live
  <2>9. CASE StepDone(r)
    BY <2>9, MoveKeepsLease DEF StepDone, Live, Starting, Pcs, EnginePcs
  <2>10. CASE StepHalts(r)
    BY <2>10, MoveKeepsLease DEF StepHalts, Live, Starting, Pcs, EnginePcs
  <2>11. CASE SetReview(r)
    BY <2>11, MoveKeepsLease DEF SetReview, Live, Starting, Pcs, EnginePcs
  <2>12. CASE Probe(r)
    BY <2>12, MoveKeepsLease DEF Probe, Live, Starting, Pcs, EnginePcs
  <2>13. CASE FinishFailed(r)
    BY <2>13, MoveKeepsLease DEF FinishFailed, Live, Starting, Pcs, EnginePcs
  <2>14. CASE Unclaim(r)
    BY <2>14, MoveKeepsLease DEF Unclaim, Live, Starting, Pcs, EnginePcs
  <2>15. CASE Release(r)
    BY <2>15, EndKeepsLease DEF Release, GiveUp
  <2>16. CASE BrainStart(r)
    BY <2>16, MoveKeepsLease DEF BrainStart, Live, Starting, Pcs, EnginePcs
  <2>17. CASE BrainEnd(r)
    BY <2>17, MoveKeepsLease DEF BrainEnd, Live, Starting, Pcs, EnginePcs
  <2> QED
    BY <1>5, <2>1, <2>2, <2>3, <2>4, <2>5, <2>6, <2>7, <2>8, <2>9, <2>10, <2>11, <2>12, <2>13, <2>14, <2>15, <2>16, <2>17 DEF RunStep
<1>6. ASSUME NEW r \in Runs, Heartbeat(r) \/ Raise(r) \/ DispatchLost(r) PROVE LiveRunHoldsLease'
  <2>1. CASE Heartbeat(r)
    BY <2>1 DEF Heartbeat, SetLease, LiveRunHoldsLease, Live
  <2>2. CASE Raise(r)
    BY <2>2, MoveKeepsLease DEF Raise, Live, Starting, Pcs, EnginePcs
  <2>3. CASE DispatchLost(r)
    BY <2>3, EndKeepsLease DEF DispatchLost
  <2> QED
    BY <1>6, <2>1, <2>2, <2>3
<1>7. CASE Lapse \/ Age
  BY <1>7 DEF Lapse, Age, LiveRunHoldsLease, Live
<1>8. CASE UNCHANGED vars
  BY <1>8 DEF vars, LiveRunHoldsLease, Live
<1> QED
  BY <1>1, <1>2, <1>3, <1>4, <1>5, <1>6, <1>7, <1>8 DEF Next

THEOREM LeaseIsMutex == ASSUME HealthyHeartbeat PROVE Spec => []LiveRunHoldsLease
<1>1. LiveRunHoldsLease /\ TypeOK /\ [Next]_vars => LiveRunHoldsLease'
  BY NextLease
<1> QED
  BY InitLease, TypeCorrect, <1>1, PTL DEF Spec

-----------------------------------------------------------------------------
(* A lease that has not expired leaves its owner only by the owner's own   *)
(* last act, also when heartbeats are late: acquire_run_lease,             *)
(* claim_dead_run and release_run_lease all name the owner or the expiry   *)
(* in their WHERE clause.                                                  *)
LEMMA NextKeepsLiveLease ==
    ASSUME TypeOK, [Next]_vars, owner # NoRun, ~lapsed, owner' # owner
    PROVE  owner' = NoRun /\ pc[owner] = "release" /\ pc'[owner] = "idle"
<1> USE DEF rowVars
<1>1. ~Free /\ ~Dead
  BY DEF Free, Dead
<1>2. \A p \in Procs : ~RouteStep(p) /\ ~NudgeStep(p) /\ ~ReapStep(p) /\ ~Crash(p)
  BY <1>1 DEF RouteStep, RunOrder, AddDecision, Realign, ArchiveRead, ArchiveCommit,
              AddMaterial, Reject, BeginBrain, NudgeStep, ScheduleRefused,
              Schedule, ReapStep, ReapScan, ReapHalt, ReapMissed, ReapResume, Crash
<1>3. \A r \in Runs : ~Heartbeat(r) /\ ~Raise(r) /\ ~DispatchLost(r)
  BY DEF Heartbeat, SetLease, Raise, DispatchLost
<1>4. ~Lapse /\ ~Age /\ ~UNCHANGED vars
  BY DEF Lapse, Age, vars
<1>5. PICK r \in Runs : RunStep(r)
  BY <1>2, <1>3, <1>4 DEF Next
<1>6. Release(r)
  BY <1>5 DEF RunStep, Deliver, SetLease, Begin, SkipAlreadyRunning, ReadSeen,
              Load, MarkRunning, ReadInputs, ClassifyItem, StepDone, StepHalts,
              SetReview, Probe, FinishFailed, Unclaim, BrainStart, BrainEnd
<1> QED
  BY <1>6 DEF Release, GiveUp, SetLease, End, Goto, TypeOK, ThreadTypeOK

THEOREM LeaseOnlyReleased == Spec => LiveLeaseKept
<1>1. TypeOK /\ [Next]_vars
        => [owner # NoRun /\ ~lapsed /\ owner' # owner
              => owner' = NoRun /\ pc[owner] = "release" /\ pc'[owner] = "idle"]_vars
  BY NextKeepsLiveLease
<1> QED
  BY TypeCorrect, <1>1, PTL DEF Spec, LiveLeaseKept
=============================================================================
