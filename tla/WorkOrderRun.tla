---------------------------- MODULE WorkOrderRun ----------------------------
(***************************************************************************)
(* Advancing ONE work order (services/workorder): the six-step engine, the *)
(* run lease on the work_orders row, the background runner, the reaper of  *)
(* interrupted runs, the human routes that race with them (/run, a         *)
(* decision, an upload, a rejection, an archive) and the bank-sales brain  *)
(* that borrows the same lease.                                            *)
(*                                                                         *)
(* One action is one database transaction of the code, or one step of an   *)
(* in-process lock.  A run is named by its lease owner token               *)
(* ("run:<uuid>", "reaper:<uuid>", "bank_sales_brain:<uuid>"), a fresh     *)
(* uuid per request.  Wall-clock time is two flags: the lease has passed  *)
(* run_lease_expires_at (lapsed), the row was last touched longer ago than *)
(* the orphan grace (aged).                                                *)
(***************************************************************************)
EXTENDS Integers, FiniteSets, FiniteSetsExt

CONSTANTS
    Runs,             \* lease owner tokens
    Procs,            \* operating-system processes serving routes and loops
    Items,            \* material files that may be uploaded
    NoRun, NoProc,    \* NULL
    NSteps,           \* number of runnable steps; the last one is package
    SortStep, ClassifyStep, ReconcileStep,
    Needed,           \* human decisions reconcile waits for
    MaxDecisions,     \* bound on the decisions a run of the model takes
    MaxFaults,        \* bound on crashes, exceptions and lost best-effort writes
    AutoResumeLimit,  \* reaper.AUTO_RESUME_LIMIT
    DrainRounds,      \* runner._RACE_DRAIN_ROUNDS
    Cloud,            \* dispatch.enabled(): runs are delivered by Cloud Tasks
    HealthyHeartbeat, \* a live run renews before its lease lapses
    TaxIdTypo         \* the papers may show that the registered tax id is wrong

ASSUME WorkOrderRunAssumption ==
    /\ NoRun \notin Runs
    /\ NoProc \notin Procs
    /\ NSteps \in Nat
    /\ {SortStep, ClassifyStep, ReconcileStep} \subseteq Nat
    /\ 1 <= SortStep /\ SortStep <= ClassifyStep
    /\ ClassifyStep < ReconcileStep /\ ReconcileStep < NSteps
    /\ {Needed, MaxDecisions, MaxFaults, AutoResumeLimit, DrainRounds} \subseteq Nat
    /\ {Cloud, HealthyHeartbeat, TaxIdTypo} \subseteq BOOLEAN

VARIABLES
    \* the work_orders row
    status, owner, lapsed, aged,
    \* the event log and the items, as the replays of the code read them
    doneEvents,   \* step_done events of each step since its last step_reopened
    packaged,     \* a deliverable version exists
    decisions,    \* human_decision events (their largest id)
    autoRuns,     \* auto_resume_count of the run_requested actors
    suspected,    \* a taxid_typo_suspected event exists
    arrived, classified,
    \* per run: the thread that executes it and its local variables
    pc, proc, kind, todo, seen, rounds, saw, took,
    \* per process: the half-finished operation of a route or of the reaper
    op,
    faults

rowVars  == <<status, owner, lapsed, aged>>
logVars  == <<doneEvents, packaged, decisions, autoRuns, suspected>>
itemVars == <<arrived, classified>>
runVars  == <<pc, proc, kind, todo, seen, rounds, saw, took>>
vars     == <<rowVars, logVars, itemVars, runVars, op, faults>>

Steps == 1..NSteps

Statuses == {"collecting", "running", "stuck", "review", "archive"}

\* Where the thread of a run stands; the comment names what it does next.
EnginePcs == {"seen",     \* _latest_decision_id
              "load",     \* _completed_steps
              "step",     \* _mark_running of the next step, or status=review
              "exec",     \* the handler's reads
              "commit",   \* the step's transaction
              "probe",    \* _drain_raced_decisions
              "fail",     \* _finish(run_failed)
              "unclaim"}  \* leave the in-process set
Pcs == EnginePcs \cup {"idle", "queued", "begin", "brain", "release"}

Ops == {"none", "nudge", "reap", "archive"}

-----------------------------------------------------------------------------
(* Replays and predicates of the code.                                     *)

\* done_steps_from_events
Done == {s \in Steps : doneEvents[s] > 0}

\* engine.reopen_steps_from: the suffix of the pipeline that starts at k
ReopenedOnly(k) == [doneEvents EXCEPT ![k] = 0]
Reopened(k) == [s \in Steps |-> IF s >= k THEN 0 ELSE doneEvents[s]]

\* the steps a run that starts now has to execute
RemainingAll == Steps
Remaining == Steps \ Done

\* the step the engine loop of r is at
StepOf(r) == Min(todo[r])

\* runner._inflight of process p
Inflight(p) == \E r \in Runs : proc[r] = p /\ pc[r] \in EnginePcs

\* bank_sales_brain._PROGRESS of process p is running
Thinking(p) == \E r \in Runs : proc[r] = p /\ pc[r] = "brain"

\* acquire_run_lease's WHERE for a fresh token
Free == owner = NoRun \/ lapsed

\* _DEAD_RUN_PREDICATE together with status=running
DeadOnStatus == status = "running"
DeadOnExpiry == status = "running" /\ owner # NoRun /\ lapsed
Dead == status = "running" /\ IF owner = NoRun THEN aged ELSE lapsed

\* auto_resume_count against AUTO_RESUME_LIMIT
BudgetLeftLate == autoRuns <= AutoResumeLimit
BudgetLeft == autoRuns < AutoResumeLimit

\* a thread (or an in-process queue entry) stands behind the token
Live(r) == pc[r] # "idle" /\ ~(Cloud /\ pc[r] = "queued")

-----------------------------------------------------------------------------
Init ==
    /\ status = "collecting" /\ owner = NoRun /\ lapsed = FALSE /\ aged = FALSE
    /\ doneEvents = [s \in Steps |-> 0]
    /\ packaged = FALSE /\ decisions = 0 /\ autoRuns = 0 /\ suspected = FALSE
    /\ arrived = {} /\ classified = {}
    /\ pc = [r \in Runs |-> "idle"]
    /\ proc = [r \in Runs |-> NoProc]
    /\ kind = [r \in Runs |-> "run"]
    /\ todo = [r \in Runs |-> {}]
    /\ seen = [r \in Runs |-> 0]
    /\ rounds = [r \in Runs |-> 0]
    /\ saw = [r \in Runs |-> 0]
    /\ took = [r \in Runs |-> {}]
    /\ op = [p \in Procs |-> "none"]
    /\ faults = 0

\* UPDATE work_orders SET status = s, updated_at = now()
SetStatus(s) == status' = s /\ aged' = FALSE

\* UPDATE work_orders SET run_lease_owner, run_lease_expires_at, updated_at
SetLease(o) == owner' = o /\ lapsed' = FALSE /\ aged' = FALSE

\* release_run_lease, on behalf of r
GiveUpAny(r) == SetLease(NoRun)
GiveUp(r) == IF owner = r THEN SetLease(NoRun) ELSE UNCHANGED <<owner, lapsed, aged>>

Goto(r, l) == pc' = [pc EXCEPT ![r] = l]

\* a thread that ends forgets its locals
End(r) ==
    /\ Goto(r, "idle")
    /\ proc' = [proc EXCEPT ![r] = NoProc]
    /\ todo' = [todo EXCEPT ![r] = {}]
    /\ seen' = [seen EXCEPT ![r] = 0]
    /\ rounds' = [rounds EXCEPT ![r] = 0]
    /\ saw' = [saw EXCEPT ![r] = 0]
    /\ took' = [took EXCEPT ![r] = {}]
    /\ UNCHANGED kind

\* request_run hands the fresh token r, of process p, to its background
\* executor.  A token no thread and no row refers to stands for a fresh uuid.
Dispatch(p, r, k) ==
    /\ pc[r] = "idle" /\ owner # r
    /\ Goto(r, "queued")
    /\ proc' = [proc EXCEPT ![r] = IF Cloud THEN NoProc ELSE p]
    /\ kind' = [kind EXCEPT ![r] = k]
    /\ UNCHANGED <<todo, seen, rounds, saw, took>>

Fault == faults < MaxFaults /\ faults' = faults + 1

-----------------------------------------------------------------------------
(* The routes.  Each first commits its own write (or its read gate) and    *)
(* only then, in another transaction, tries to schedule a run.             *)

\* POST /run: the read gate of _load_mutable_order
RunOrder(p) ==
    /\ op[p] = "none" /\ status # "archive"
    /\ op' = [op EXCEPT ![p] = "nudge"]
    /\ UNCHANGED <<rowVars, logVars, itemVars, runVars, faults>>

\* POST /decisions: the human_decision event
AddDecision(p) ==
    /\ op[p] = "none" /\ status # "archive"
    /\ decisions < MaxDecisions
    /\ decisions' = decisions + 1
    /\ op' = [op EXCEPT ![p] = "nudge"]
    /\ UNCHANGED <<rowVars, doneEvents, packaged, autoRuns, suspected, itemVars,
                   runVars, faults>>

\* POST /materials: registers an item; defer_run leaves the run to the user
AddMaterial(p, i) ==
    /\ op[p] = "none" /\ status # "archive"
    /\ i \notin arrived
    /\ arrived' = arrived \cup {i}
    /\ \E deferred \in BOOLEAN :
          op' = [op EXCEPT ![p] = IF deferred THEN "none" ELSE "nudge"]
    /\ UNCHANGED <<rowVars, logVars, classified, runVars, faults>>

\* _schedule_advance -> request_run: the lease and run_requested, or a 409
\* (for _auto_advance: silence)
Schedule(p, r) ==
    /\ op[p] = "nudge"
    /\ op' = [op EXCEPT ![p] = "none"]
    /\ Free
    /\ SetLease(r)
    /\ Dispatch(p, r, "run")
    /\ autoRuns' = 0
    /\ UNCHANGED <<status, doneEvents, packaged, decisions, suspected, itemVars, faults>>

ScheduleRefused(p) ==
    /\ op[p] = "nudge"
    /\ ~Free
    /\ op' = [op EXCEPT ![p] = "none"]
    /\ UNCHANGED <<rowVars, logVars, itemVars, runVars, faults>>

\* reject_and_rerun: lease, review_rejected, step_reopened and status=running
\* in one transaction
Reject(p, r) ==
    /\ op[p] = "none"
    /\ Free
    /\ status = "review"
    /\ SetLease(r)
    /\ status' = "running"
    /\ doneEvents' = Reopened(ReconcileStep)
    /\ Dispatch(p, r, "run")
    /\ autoRuns' = 0
    /\ UNCHANGED <<packaged, decisions, suspected, itemVars, op, faults>>

\* POST /realign-taxid, in any status and beside any run: items whose direction
\* was unclear go back to pending, and classify and what follows it reopen
Realign(p) ==
    /\ op[p] = "none" /\ status # "archive"
    /\ suspected
    /\ \E back \in SUBSET classified :
          /\ classified' = classified \ back
          /\ doneEvents' = IF back = {} THEN doneEvents ELSE Reopened(ClassifyStep)
    /\ op' = [op EXCEPT ![p] = "nudge"]
    /\ UNCHANGED <<rowVars, packaged, decisions, autoRuns, suspected, arrived,
                   runVars, faults>>

\* archive_order reads the row without locking it ...
ArchiveRead(p) ==
    /\ op[p] = "none"
    /\ status = "review" /\ packaged
    /\ op' = [op EXCEPT ![p] = "archive"]
    /\ UNCHANGED <<rowVars, logVars, itemVars, runVars, faults>>

\* ... and writes manifest, event and status=archive, or is refused (a source
\* file is missing, separation of duties) and rolls back
ArchiveCommit(p) ==
    /\ op[p] = "archive"
    /\ op' = [op EXCEPT ![p] = "none"]
    /\ \/ SetStatus("archive")
       \/ UNCHANGED <<status, aged>>
    /\ UNCHANGED <<owner, lapsed, logVars, itemVars, runVars, faults>>

\* POST /bank-sales/run or the recovery scan: bank_sales_brain.begin_run
BeginBrain(p, r) ==
    /\ op[p] = "none" /\ status # "archive"
    /\ Cloud \/ ~Thinking(p)
    /\ Free
    /\ SetLease(r)
    /\ Dispatch(p, r, "brain")
    /\ UNCHANGED <<status, logVars, itemVars, op, faults>>

-----------------------------------------------------------------------------
(* runner.advance and engine.run_work_order.                               *)

\* cloud_tasks.workorders: a delivered task renews before it may start
Deliver(r, p) ==
    /\ Cloud /\ pc[r] = "queued"
    /\ IF owner = r
       THEN /\ SetLease(r)
            /\ Goto(r, "begin")
            /\ proc' = [proc EXCEPT ![r] = p]
            /\ UNCHANGED <<kind, todo, seen, rounds, saw, took>>
       ELSE End(r) /\ UNCHANGED <<owner, lapsed, aged>>
    /\ UNCHANGED <<status, logVars, itemVars, op, faults>>

Starting(r) == pc[r] = (IF Cloud THEN "begin" ELSE "queued")

\* _heal_stranded_material: classify is done yet an item is still pending
Stranded == /\ arrived # classified
            /\ status \in {"stuck", "running"}
            /\ ClassifyStep \in Done

\* advance: claim the in-process slot, heal, run_started
Begin(r) ==
    /\ Starting(r) /\ kind[r] = "run"
    /\ ~Inflight(proc[r])
    /\ Goto(r, "seen")
    /\ doneEvents' = IF Stranded THEN Reopened(SortStep) ELSE doneEvents
    /\ UNCHANGED <<rowVars, packaged, decisions, autoRuns, suspected, itemVars, op,
                   faults, proc, kind, todo, seen, rounds, saw, took>>

\* advance / bank_sales: the slot is taken; the thread returns, and the lease
\* it was started with stays on the row
SkipAlreadyRunning(r) ==
    /\ Starting(r)
    /\ IF kind[r] = "run" THEN Inflight(proc[r]) ELSE Cloud /\ Thinking(proc[r])
    /\ End(r)
    /\ UNCHANGED <<rowVars, logVars, itemVars, op, faults>>

ReadSeen(r) ==
    /\ pc[r] = "seen"
    /\ seen' = [seen EXCEPT ![r] = decisions]
    /\ Goto(r, "load")
    /\ UNCHANGED <<rowVars, logVars, itemVars, op, faults,
                   proc, kind, todo, rounds, saw, took>>

\* run_work_order reads the completed steps once
Load(r) ==
    /\ pc[r] = "load"
    /\ todo' = [todo EXCEPT ![r] = Remaining]
    /\ Goto(r, "step")
    /\ UNCHANGED <<rowVars, logVars, itemVars, op, faults,
                   proc, kind, seen, rounds, saw, took>>

MarkRunning(r) ==
    /\ pc[r] = "step" /\ todo[r] # {}
    /\ SetStatus("running")
    /\ Goto(r, "exec")
    /\ UNCHANGED <<owner, lapsed, logVars, itemVars, op, faults,
                   proc, kind, todo, seen, rounds, saw, took>>

\* the handler reads the items and replays the decisions
ReadInputs(r) ==
    /\ pc[r] = "exec"
    /\ saw' = [saw EXCEPT ![r] = decisions]
    /\ took' = [took EXCEPT ![r] = arrived \ classified]
    /\ Goto(r, "commit")
    /\ UNCHANGED <<rowVars, logVars, itemVars, op, faults,
                   proc, kind, todo, seen, rounds>>

\* checkpoint.item_scope: classify commits each item in its own transaction
ClassifyItem(r, i) ==
    /\ pc[r] = "commit" /\ StepOf(r) = ClassifyStep
    /\ i \in took[r]
    /\ took' = [took EXCEPT ![r] = @ \ {i}]
    /\ classified' = classified \cup {i}
    /\ UNCHANGED <<rowVars, logVars, arrived, op, faults,
                   pc, proc, kind, todo, seen, rounds, saw>>

\* checkpoint.renew_lease, and the brain's renewal before every batch
Heartbeat(r) ==
    /\ \/ pc[r] = "commit" /\ StepOf(r) \in {ClassifyStep, ReconcileStep}
       \/ pc[r] = "brain"
    /\ owner = r
    /\ SetLease(r)
    /\ UNCHANGED <<status, logVars, itemVars, runVars, op, faults>>

\* What the handlers of the modelled steps stop at: intake without material,
\* reconcile with open decisions, package with an item that has no bucket.
Halts(r) ==
    \/ StepOf(r) = 1 /\ arrived = {}
    \/ StepOf(r) = ReconcileStep /\ saw[r] < Needed
    \/ StepOf(r) = NSteps /\ took[r] # {}

\* _run_step commits step_done with the step's writes
StepDone(r) ==
    /\ pc[r] = "commit"
    /\ ~Halts(r)
    /\ StepOf(r) = ClassifyStep => took[r] = {}
    /\ doneEvents' = [doneEvents EXCEPT ![StepOf(r)] = @ + 1]
    /\ packaged' = (packaged \/ StepOf(r) = NSteps)
    /\ suspected' \in {suspected, suspected \/ (TaxIdTypo /\ StepOf(r) = ClassifyStep)}
    /\ todo' = [todo EXCEPT ![r] = @ \ {StepOf(r)}]
    /\ Goto(r, "step")
    /\ UNCHANGED <<rowVars, decisions, autoRuns, itemVars, op, faults,
                   proc, kind, seen, rounds, saw, took>>

\* _halt commits step_stuck or step_needs with status=stuck; any step may also
\* stop for a reason this model does not follow (quota, cost cap, a gate)
StepHalts(r) ==
    /\ pc[r] = "commit"
    /\ IF Halts(r) THEN UNCHANGED faults ELSE Fault
    /\ SetStatus("stuck")
    /\ Goto(r, "probe")
    /\ UNCHANGED <<owner, lapsed, logVars, itemVars, op,
                   proc, kind, todo, seen, rounds, saw, took>>

\* an exception anywhere in the run: the open transaction rolls back
Raise(r) ==
    /\ pc[r] \in {"seen", "load", "step", "exec", "commit", "probe"}
    /\ Fault
    /\ Goto(r, "fail")
    /\ UNCHANGED <<rowVars, logVars, itemVars, op,
                   proc, kind, todo, seen, rounds, saw, took>>

\* every runnable step is green
SetReview(r) ==
    /\ pc[r] = "step" /\ todo[r] = {}
    /\ SetStatus("review")
    /\ Goto(r, "unclaim")
    /\ UNCHANGED <<owner, lapsed, logVars, itemVars, op, faults,
                   proc, kind, todo, seen, rounds, saw, took>>

\* _drain_raced_decisions after a stuck outcome; the brain shadow and the
\* run_finished event follow it
Probe(r) ==
    /\ pc[r] = "probe"
    /\ IF rounds[r] < DrainRounds /\ decisions > seen[r]
       THEN /\ seen' = [seen EXCEPT ![r] = decisions]
            /\ rounds' = [rounds EXCEPT ![r] = @ + 1]
            /\ Goto(r, "load")
       ELSE Goto(r, "unclaim") /\ UNCHANGED <<seen, rounds>>
    /\ UNCHANGED <<rowVars, logVars, itemVars, op, faults,
                   proc, kind, todo, saw, took>>

\* _finish(run_failed) sets status=stuck; its own failure is only logged
FinishFailed(r) ==
    /\ pc[r] = "fail"
    /\ \/ SetStatus("stuck") /\ UNCHANGED faults
       \/ Fault /\ UNCHANGED <<status, aged>>
    /\ Goto(r, "unclaim")
    /\ UNCHANGED <<owner, lapsed, logVars, itemVars, op,
                   proc, kind, todo, seen, rounds, saw, took>>

\* finally: leave _inflight ...
Unclaim(r) ==
    /\ pc[r] = "unclaim"
    /\ Goto(r, "release")
    /\ UNCHANGED <<rowVars, logVars, itemVars, op, faults,
                   proc, kind, todo, seen, rounds, saw, took>>

\* ... then give the lease back, if it is still ours (best effort)
Release(r) ==
    /\ pc[r] = "release"
    /\ \/ GiveUp(r) /\ UNCHANGED faults
       \/ Fault /\ UNCHANGED <<owner, lapsed, aged>>
    /\ End(r)
    /\ UNCHANGED <<status, logVars, itemVars, op>>

BrainStart(r) ==
    /\ Starting(r) /\ kind[r] = "brain"
    /\ ~Cloud \/ ~Thinking(proc[r])
    /\ Goto(r, "brain")
    /\ UNCHANGED <<rowVars, logVars, itemVars, op, faults,
                   proc, kind, todo, seen, rounds, saw, took>>

BrainEnd(r) ==
    /\ pc[r] = "brain"
    /\ Goto(r, "release")
    /\ UNCHANGED <<rowVars, logVars, itemVars, op, faults,
                   proc, kind, todo, seen, rounds, saw, took>>

-----------------------------------------------------------------------------
(* The reaper.                                                             *)

\* list_dead_runs, then the is_inflight guard of _reap_one
ReapScan(p) ==
    /\ op[p] = "none"
    /\ Dead /\ ~Inflight(p)
    /\ op' = [op EXCEPT ![p] = "reap"]
    /\ UNCHANGED <<rowVars, logVars, itemVars, runVars, faults>>

\* claim_and_acknowledge re-checks the predicate and counts the resumes in the
\* transaction that takes the lease
ReapResume(p, r) ==
    /\ op[p] = "reap"
    /\ Dead /\ BudgetLeft
    /\ SetLease(r)
    /\ Dispatch(p, r, "run")
    /\ autoRuns' = autoRuns + 1
    /\ op' = [op EXCEPT ![p] = "none"]
    /\ UNCHANGED <<status, doneEvents, packaged, decisions, suspected, itemVars, faults>>

\* _halt_exhausted: stuck, and the lease just taken is released
ReapHalt(p) ==
    /\ op[p] = "reap"
    /\ Dead /\ ~BudgetLeft
    /\ SetLease(NoRun)
    /\ status' = "stuck"
    /\ op' = [op EXCEPT ![p] = "none"]
    /\ UNCHANGED <<logVars, itemVars, runVars, faults>>

ReapMissed(p) ==
    /\ op[p] = "reap"
    /\ ~Dead
    /\ op' = [op EXCEPT ![p] = "none"]
    /\ UNCHANGED <<rowVars, logVars, itemVars, runVars, faults>>

-----------------------------------------------------------------------------
(* The environment.                                                        *)

\* run_lease_expires_at passes
Lapse ==
    /\ owner # NoRun /\ ~lapsed
    /\ HealthyHeartbeat => ~Live(owner)
    /\ lapsed' = TRUE
    /\ UNCHANGED <<status, owner, aged, logVars, itemVars, runVars, op, faults>>

\* updated_at falls behind the orphan grace
Age ==
    /\ owner = NoRun /\ ~aged /\ status = "running"
    /\ aged' = TRUE
    /\ UNCHANGED <<status, owner, lapsed, logVars, itemVars, runVars, op, faults>>

\* the process dies with its threads; what is committed stays
Crash(p) ==
    /\ Fault
    /\ LET dying == {r \in Runs : proc[r] = p}
           Reset(f, v) == [r \in Runs |-> IF r \in dying THEN v ELSE f[r]]
       IN /\ pc' = Reset(pc, "idle")
          /\ proc' = Reset(proc, NoProc)
          /\ todo' = Reset(todo, {})
          /\ seen' = Reset(seen, 0)
          /\ rounds' = Reset(rounds, 0)
          /\ saw' = Reset(saw, 0)
          /\ took' = Reset(took, {})
    /\ op' = [op EXCEPT ![p] = "none"]
    /\ UNCHANGED <<rowVars, logVars, itemVars, kind>>

\* the commit succeeded, the hand-over to the executor did not
DispatchLost(r) ==
    /\ pc[r] = "queued"
    /\ Fault
    /\ End(r)
    /\ UNCHANGED <<rowVars, logVars, itemVars, op>>

-----------------------------------------------------------------------------
RouteStep(p) ==
    \/ RunOrder(p) \/ AddDecision(p) \/ Realign(p) \/ ArchiveRead(p) \/ ArchiveCommit(p)
    \/ \E i \in Items : AddMaterial(p, i)
    \/ \E r \in Runs : Reject(p, r) \/ BeginBrain(p, r)

NudgeStep(p) == ScheduleRefused(p) \/ \E r \in Runs : Schedule(p, r)

ReapStep(p) ==
    \/ ReapScan(p) \/ ReapHalt(p) \/ ReapMissed(p)
    \/ \E r \in Runs : ReapResume(p, r)

\* what the thread of r does when nothing goes wrong
RunStep(r) ==
    \/ \E p \in Procs : Deliver(r, p)
    \/ Begin(r) \/ SkipAlreadyRunning(r) \/ ReadSeen(r) \/ Load(r)
    \/ MarkRunning(r) \/ ReadInputs(r) \/ \E i \in Items : ClassifyItem(r, i)
    \/ StepDone(r) \/ StepHalts(r) \/ SetReview(r) \/ Probe(r)
    \/ FinishFailed(r) \/ Unclaim(r) \/ Release(r)
    \/ BrainStart(r) \/ BrainEnd(r)

Next ==
    \/ \E p \in Procs : RouteStep(p) \/ NudgeStep(p) \/ ReapStep(p) \/ Crash(p)
    \/ \E r \in Runs : RunStep(r) \/ Heartbeat(r) \/ Raise(r) \/ DispatchLost(r)
    \/ Lapse \/ Age

Spec == Init /\ [][Next]_vars

-----------------------------------------------------------------------------
(* Fairness.  A thread that runs takes its steps, the loops of             *)
(* background_loops keep calling the reaper, a committed write goes on to  *)
(* schedule its run, and time passes.  Users, crashes and faults are free. *)
Fairness ==
    /\ \A r \in Runs : WF_vars(RunStep(r))
    /\ \A p \in Procs : WF_vars(NudgeStep(p)) /\ WF_vars(ReapStep(p))
                        /\ WF_vars(ArchiveCommit(p))
    /\ WF_vars(Lapse) /\ WF_vars(Age)

FairSpec == Spec /\ Fairness

-----------------------------------------------------------------------------
RowTypeOK ==
    /\ status \in Statuses /\ owner \in Runs \cup {NoRun}
    /\ lapsed \in BOOLEAN /\ aged \in BOOLEAN

LogTypeOK ==
    /\ doneEvents \in [Steps -> Nat] /\ packaged \in BOOLEAN
    /\ decisions \in Nat /\ autoRuns \in 0..AutoResumeLimit
    /\ suspected \in BOOLEAN /\ (suspected => TaxIdTypo)
    /\ arrived \subseteq Items /\ classified \subseteq Items

ThreadTypeOK ==
    /\ pc \in [Runs -> Pcs] /\ proc \in [Runs -> Procs \cup {NoProc}]
    /\ kind \in [Runs -> {"run", "brain"}]
    /\ todo \in [Runs -> SUBSET Steps]
    /\ seen \in [Runs -> Nat] /\ rounds \in [Runs -> 0..DrainRounds]
    /\ saw \in [Runs -> Nat] /\ took \in [Runs -> SUBSET Items]

(* Every variable has its type.                                            *)
TypeOK ==
    /\ RowTypeOK /\ LogTypeOK /\ ThreadTypeOK
    /\ op \in [Procs -> Ops] /\ faults \in 0..MaxFaults

(* A live thread owns an unexpired lease, whatever the reaper, a rejection *)
(* and the brain do: run_leases.py calls the columns the mutex that lets   *)
(* one long operation advance an order.  It needs HealthyHeartbeat.        *)
LiveRunHoldsLease == \A r \in Runs : Live(r) => owner = r /\ ~lapsed

(* No step is recorded done twice without having been reopened: the        *)
(* idempotency key (work_order_id, step) of run_work_order.                *)
StepDoneOnce == \A s \in Steps : doneEvents[s] <= 1

(* What a pass read once, at its start, stays true until it ends: no step  *)
(* it still has to execute is done, and none besides them is open, unless  *)
(* a tax id was realigned.  run_work_order never reads the log again.      *)
PassIsCurrent ==
    \A r \in Runs : pc[r] \in {"step", "exec", "commit"} =>
        /\ todo[r] \cap Done = {}
        /\ TaxIdTypo \/ todo[r] \cup Done = Steps
        /\ pc[r] # "step" => todo[r] # {}

(* The completed steps are an initial segment of the pipeline: a rejection *)
(* or a self-heal never leaves a later step done above an open one.  It    *)
(* needs ~TaxIdTypo: a realignment reopens steps beside a running pass.    *)
DonePrefix == \A s, t \in Steps : s \in Done /\ t < s => t \in Done

(* An order shown for review has every step done, none of them reopened    *)
(* behind the reviewer's back.  It needs ~TaxIdTypo as well.               *)
ReviewComplete == status = "review" => Done = Steps

(* A live lease only leaves its owner by that owner's own release.         *)
LiveLeaseKept ==
    [][owner # NoRun /\ ~lapsed /\ owner' # owner
          => owner' = NoRun /\ pc[owner] = "release" /\ pc'[owner] = "idle"]_vars

(* An archived order keeps its status and its completed steps: "frozen,    *)
(* read-only" in archive.py.                                               *)
ArchiveFrozen ==
    [][status = "archive" => status' = "archive" /\ doneEvents' = doneEvents]_vars

(* An order never stays "running" for ever: a run finishes, fails, or is   *)
(* reaped (reaper.py: the UI must not claim that the AI is at work) --     *)
(* unless users start the brain again and again, which touches updated_at. *)
RunningEnds ==
    \/ []<>(\E r \in Runs : pc[r] = "queued" /\ kind[r] = "brain")
    \/ status = "running" ~> status # "running"

Pipeline == INSTANCE WorkOrderPipeline WITH
                done <- Done, shown <- status = "review",
                Rewinds <- {SortStep, ReconcileStep}

(* The engine as its readers see it: steps completed one at a time and in  *)
(* order, rewound only to sort or to reconcile, shown when complete.       *)
PipelineSpec == Pipeline!Spec
=============================================================================
