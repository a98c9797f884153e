# Verification of pearnly-app

TLA+ models of the parts of this repository that are hard to test: the work-order
engine with its run lease, the mailbox between the cloud and the ERP bridges, the
prepaid wallet, the background job queues, the rows that record pushes to the ERP,
and the task queue of the steward. TLC checks small instances; TLAPS proves the main invariants for every value
of the constants. Paths below are relative to the repository root.

Contents

1. Inventory of the system
2. The modules and how they correspond to the code
3. What the runs check, with which bounds
4. Fairness
5. What is proved
6. Where the code and its comments disagree
7. What is not modelled, and what could come next

## 1. Inventory of the system

Pearnly is a web application for Thai accounting firms and shops: FastAPI routes
(`routes/`), services with their SQL (`services/`), background loops
(`services/background_loops.py`), optional Google Cloud Tasks
(`services/cloud_tasks/`), PostgreSQL for all state. Several server processes may
run; what they share is the database. Most of the half million lines of Python are
extraction, matching, layout and adapters of external systems. The components with
a protocol of their own are these:

| component | state it keeps | operations | what is hard | what makes it correct |
|---|---|---|---|---|
| work-order engine (`services/workorder/engine.py`, `runner.py`, `run_leases.py`, `reaper.py`) | row `work_orders` (status, run lease), append-only events, items | run a pass over six steps, halt, resume, reap | processes, crashes, leases that run out, events written beside a run | one live run per order; each step done once and in order; nothing is `running` for ever |
| work-order routes (`routes/workorder_*.py`, `review.py`, `archive.py`, `taxid_realign.py`) | the same rows and events | run, decide, add material, reject, realign, archive | each commits first and schedules afterwards | no write of a user is left without a run; an archived order is frozen |
| bank-sales brain (`steps/bank_sales_brain.py`) | borrows the run lease | think in batches | holds the lease without advancing the order | gives it back |
| ERP bridge mailbox (`services/erp/bridge/`, `routes/erp_bridge_routes.py`) | `erp_bridges`, `bridge_jobs` | hello, long-polled lease, ack, expire | lost, late and repeated answers; roles that change; jobs too old | one writer per book; a confirmed write at most once; every job closed |
| steward ERP push (`services/steward/erp_push*.py`) | `erp_push_logs` | submit, wait, report | the outcome may be unknown | no false success, no false "not written" |
| steward tasks (`services/steward/store.py`, `worker.py`, `budget.py`) | `steward_tasks`, budget entries | queue, claim, ask, answer, approve, write, time out, heal, cancel | a thread outlives its time-out; answers and approvals write back what they read before | one thread per task; one write, of what was approved; no task runs for ever |
| credits (`services/billing/`, `services/credits/`, `routes/billing_topup_routes.py`) | balance, ledger, top-up requests, subscriptions, pages used | charge, top up, approve, reject, renew | checks before an await, prices read before a lock | balance equals ledger; a request credited once |
| job queues (`services/ocr/jobs/`, `services/recon_jobs/`, `services/cloud_tasks/store.py`) | job rows with leases | claim, finish, fail, reclaim | a slow worker's late result | a job ends once |
| ERP push logs (`services/cowork_line/push_*.py`, `services/background_loops.py`, `services/erp/session_lock.py`) | `erp_push_logs` | reserve, finalize, retry, recover | sessions of many requests under short leases | a document is pushed once |
| Express agent queue (`services/erp/express_push/`, `shared_express_agent_queue.py`) | `erp_push_logs` leases | lease, ack, sweep | a write longer than its lease | as for the mailbox |
| POS and inventory (`services/pos/`, `services/inventory/`) | sales, shifts, stock, movements | sell, void, refund, receive | offline terminals repeat requests | stock equals movements; money adds up |
| stocktake (`services/stocktake/`) | tasks, entries, audit | count, correct, close | repeated requests | totals equal entries |
| sign-off (`services/workorder/sod.py`) | replayed from events | review, approve | who did what before | separation of duties |

`PROJECT.json` lists these and all other components with their status, and every
hazard with its line. How the modelled components interact:

* routes, runner, reaper and brain share the order's row and event log; they never
  call each other across processes, the lease is all they have;
* the steward's push tool calls the mailbox's client, which writes `bridge_jobs`;
  bridges pick up work and answer over HTTP, whenever they like;
* recognition asks the wallet for admission before it starts and charges it when it
  has ended, from whatever thread it ran in -- a work-order step or a queued job;
* the steward's workers, the routes that answer, approve, cancel and poll, and the
  threads that outlived a time-out meet in the rows of `steward_tasks`;
* the paths that push to MR.ERP (after recognition, Cowork, a confirmed account set,
  a retry by hand, the retry tick) know of each other only through `erp_push_logs`.

## 2. The modules and how they correspond to the code

| module | what it is |
|---|---|
| `WorkOrderRun` | one work order: engine, lease, runner, reaper, routes, brain |
| `WorkOrderPipeline` | abstract: what a reader of a work order may rely on |
| `WorkOrderRunProofs`, `WorkOrderEngineProofs` | theorems about `WorkOrderRun` |
| `BridgeMailbox`, `BridgeMailboxProofs` | bridges, jobs, the steward's push |
| `Delivery` | abstract: what the submitter of one bridge job may rely on |
| `Credits`, `CreditsProofs`, `CreditsSumProofs` | the wallet of a tenant: charges, subscription, top-ups; the theorems about sums |
| `Account` | abstract: money that moves only with a line stating the amount |
| `JobQueue`, `JobQueueProofs` | the OCR and reconciliation job queues |
| `ErpPush`, `ErpPushProofs` | the rows of `erp_push_logs` and the threads that push |
| `StewardTask`, `StewardTaskProofs` | the steward's tasks, their runs, questions and authorization cards |
| `Errand` | abstract: what the accountant may rely on about one task |
| `MC...` | symmetry sets and concrete functions |

### WorkOrderRun

One action is one database transaction, or one step under an in-process lock.

* **Row.** `status`, `owner` and `lapsed` stand for `status`, `run_lease_owner` and
  "`run_lease_expires_at` has passed"; `aged` for "`updated_at` is older than the
  orphan grace" of `_DEAD_RUN_PREDICATE`. Every write that sets `updated_at` resets
  `aged`.
* **Log.** The code replays events; the model keeps what the replays return:
  `doneEvents[s]` counts the `step_done` of `s` since its last `step_reopened`
  (`done_steps_from_events`), `decisions` is the largest `human_decision`,
  `autoRuns` what `auto_resume_count` returns, `suspected` whether a
  `taxid_typo_suspected` exists, `packaged` whether a deliverable does.
* **Items.** `arrived` and `classified`. An item put off by the OCR quota is one not
  classified; a classify that stops on it is `StepHalts` with a fault.
* **Runs.** A run is its lease token, a fresh UUID in the code; a token that no
  thread and no row refers to may be used again in the model. `pc` follows
  `runner.advance` and `engine.run_work_order`; `todo`, `seen`, `rounds`, `saw`,
  `took` are local variables that survive from one transaction to a later one.
* **Processes.** `op[p]` is what a route or the reaper of process `p` has committed
  and not yet followed up: a run to be scheduled, an archive between its read and
  its write, a reaper between its scan and its claim.
* `Cloud` selects the hand-over: the in-process background executor, or a Cloud
  Task whose delivery first renews the lease.

What a step computes is not modelled. A step completes, halts for one of the reasons
the model knows (no material, open decisions, an item without bucket), halts for any
other reason (a fault), or raises (a fault).

`Realign` (`POST /realign-taxid`) is the one operation that reopens steps without
the lease and in every status but archive. The constant `TaxIdTypo` says whether the
papers can make the engine suspect a wrong tax id, which is what the route demands.

### BridgeMailbox

* **erp_bridges.** `writer`, `books`, `online`. `Hello` is `register_hello`, which
  locks the tenant's rows. Which of several bridges `pick_bridge` prefers is a choice.
* **bridge_jobs.** `job`, `status`, `lapsed`, `overdue`, `leases`, `answer`. One
  `LeaseTick` is the whole transaction of `lease_jobs`: close confirmed writes whose
  lease ran out, reclaim, expire, lease.
* **Requests under way.** `poll[b]` and `pick` hold the row a request read at its
  start and uses later. A bridge has one lease request at a time.
* **Outside the cloud.** `running`, `acks`, `wrote`: the bridge program is another
  repository; `Work`, `WorkLost` and `AckLost` are what the cloud code, its comments
  and its tests rely on, and are marked external in `PROJECT.json`.
* **Steward.** `said` is the verdict shown to the accountant, `GiveUp` the
  `expire_job` of a waiting `query()` or `write()`.
* **One job.** `Delivery` is the abstract job, and `Job(j)` its instance for job `j`:
  `StateOf` forgets whether an open job is queued or leased, `late` is `overdue`, `out`
  the deliveries that run, `effect` the documents in the book, `ToldOf` keeps of what
  the steward said whether it was a success, a failure or "pending".
* **Time.** Leases and time to live are proportional in the code (120 s of 60 s
  leases, 600 s of 300 s leases): `LeasesPerTTL` leases fit, after which a job is
  overdue. It may become overdue earlier.

### Credits

* **Wallet.** `balance` is `tenant_credits.balance_thb`, `ledger` the rows of
  `credit_transactions` in the order they commit; `Post` is the pair of statements
  that every movement of money makes in one transaction. A ledger line names by
  `via` which path wrote it.
* **A charge** follows `charge_ocr`: the gate (`Admit`, which takes the balance and the
  subscription at one moment where the code reads one after the other), the work, then
  `ReadSubscription` (a transaction of its own), `RenewForCharge`, `ConsumeQuota`, and
  by the page `ReadUsage` (another transaction) before `PostCharge`. What a thread
  carries from one transaction into the next is `seen`. `subLock` is the
  `SELECT ... FOR UPDATE` of the subscription, held by a scan within the quota, whose
  line shows a balance it does not lock. A renewal runs in one transaction.
* **Subscription.** `sub` is the one row; `CycleEnds` is time, `RenewOrExpire` the
  lazy renewal that charges and views of the billing status make.
* **Top-ups.** `UploadSlip` reads the status and awaits the bank; `SlipVerified` is the
  callback's transaction. `Approve` locks the request; `RejectRead` and `RejectWrite`
  are two statements without a lock.
* Prices are constants with the two tiers of `pricing.py`; `EstimatePdf` is its
  arithmetic, in units of which all prices are whole multiples.

`Account` is the abstract wallet; `Credits` implements it (`WalletIsAccount`), with
`posted`, the amounts it has entered, mapped to the amounts of the ledger's lines.

### JobQueue

`ocr_jobs` and `recon_jobs` have one shape: the routes stage files and insert a row,
the threads of every process claim, run and report, a loop reclaims rows whose lease
ran out, a janitor removes old directories. `MayPause` adds what only `recon_jobs`
does: a job may stop at a question to the user (`needs_review`), whose confirmation
(`CopyFiles`, then `Confirm`) starts a second job on a copy of the files.

* **Row.** `status`, `attempts`, `lease`, and `created`, the order of `created_at`.
  `Claim` is the one `UPDATE ... SKIP LOCKED`, `Report` the five functions that end a
  run; neither names the worker, so a thread that was given up still writes.
* **Directory.** `staged`; `Leave` is the `finally` of the worker that removes it.
* **Janitor.** `Look` finds the status of an old directory's job, `Sweep` removes the
  directory some time later; between the two it is in `doomed`, whatever becomes of the
  job. `LookFails` is the `SELECT` of `get_status_map` that fails: both stores catch the
  error and return no row, so any of the old directories is taken for an orphan. Age
  counts from the upload: a directory of 48 hours may be that of a job still waiting, or
  under way for a minute, but no request lasts that long. `rash`, a history variable,
  names the jobs whose directory was condemned though the row would have spared it
  (the look-up failed) or a thread had yet to answer. A removal that fails, and a
  janitor that dies, are a `Sweep` that waits for the next round.
* **Threads.** `at` and `pc`; `Crash` kills all threads of a process.
* `runs`, `charged` and `saved` count what the handlers did; the handler itself is
  `Begin`, `Parse`, `Store` and `Return` with an outcome it may choose.
* An UPDATE that fails is only logged by the stores: `DbErrors` lets `Report` lose it.
  Crashes, uploads cut off and failed look-ups share one bound, `MaxFaults`.

### ErpPush

Rows of `erp_push_logs` are numbered in the order of their creation; `doc` and `path`
say what they are for. One action is one transaction, or the push itself.

* **Paths.** `AutoCheck` and `AutoInsert` look for a success and then write the row, in
  two transactions; `ReserveCowork` and `ReserveConfirmed` reserve under a lock;
  `HandStart` is the retry button; `List` and `Take` the tick, which lists due rows and
  marks none as taken.
* **Results.** `Send` is the whole session with MR.ERP: whether it booked the document is `by`,
  what it reports is `res`, and a technical failure reports nothing reliable.
  `FinalizeCowork` and `FinalizeConfirmed` write only on a reservation that stands;
  `Count`, `Update` and `Reschedule` (increment, status, schedule) name the row alone.
* **Reservations.** `lease` is `lease_owner` with `lease_expires_at`; `LeaseEnds` is
  time and strikes while the push is still under way. `SettleCowork` and the first part
  of `ReserveConfirmed` settle expired ones as `manual`, outcome unknown.
* `keyed` says whether the row names the account set, which is what the confirmed
  path looks rows up by. `touched` records which rows were ever retried by hand.
* MR.ERP itself is external: it refuses a document number it has.

### StewardTask

One action is one transaction, or the unlocked read of a transaction apart from the
write that follows it.

* **Row.** `status`, `claimed` (`worker_id`), `lease`, `old` (`created_at` before the
  time-out), and of the payload `loop`, `card` (`authorization`) and `writer` (whether
  `tool` is a tool that writes, which is what `cancellable` asks). `Finish`, `Park`,
  `Resume` and `Saved` are the statements of `store.py`; none of them names the worker.
* **Loop.** `asked`, `wrote`, `pending` and `question` (`pending_question`) of
  `payload.loop`; every save writes the whole copy a thread has. Which tools the model
  picks is a choice; a single tool that writes is a task with its arguments in `pending`.
* **Cards.** A token is minted for a task and its arguments. `ApproveRead` and
  `RejectRead` consume it and look at the card without a lock, `ApproveWrite` and
  `RejectWrite` write back what was read. `AnswerRead` and `AnswerWrite` are the two
  transactions of a message that answers, `CancelRead` and `CancelWrite` the two
  statements of a cancellation.
* **Runs.** A run is a coroutine (`timer`) and its thread (`pc`, with `mem` and `grant`,
  the row as it was claimed). `TimeOut` ends the wait, not the thread; `FailLate` is the
  failure written after it, in a transaction of its own that may fail.
* `approved` and `written` record what happened; no action looks at them.
* **One task.** `Errand` is the abstract task, and `Errands(k)` its instance for task
  `k`: the status, whether any thread works on it (`Worked`), and the two histories.

## 3. What the runs check, with which bounds

| run | result | what it shows | bounds |
|---|---|---|---|
| `wo_threads` | pass | types; live runs hold the lease; passes stay current; refinement of `WorkOrderPipeline` (order of steps, a complete review) | 6 steps, 2 processes, 3 tokens, 2 items, 2 decisions, 2 faults, 1 automatic resume, 2 drain rounds |
| `wo_cloud` | pass | steps done once when deliveries are late and tax ids are realigned | 3 steps, 2 processes, 3 tokens |
| `wo_live` | pass | no order stays `running` for ever; a zombie takes no live lease away | 3 steps, 1 process, 2 tokens, late heartbeats |
| `wo_frozen` | violation | an archived order is set back to review | 3 steps |
| `br_mail` | pass | types and lease room; one writer; confirmed once; every job refines `Delivery` (started in time and only while open, closed once, told once, success only of what is written) | 2 bridges, 1 book, 1 job, 2 leases |
| `br_live` | pass | every job is closed | 1 bridge, 1 job |
| `cr_wallet` | pass | types; the balance is the sum of the ledger, whose lines chain; implements `Account`; fees covered; renewed and charged once; approved is credited; free scans fit the quota; pages are paid in full | 3 charges, 1 request, 1 slip, 1 fee, 1 lapse, 1 month's end, any statement fails |
| `cr_twice` | violation | a request decided twice | 1 slip, 1 administrator |
| `jq_queue` | pass | types; at most one run, charge and result; done is stored; outcomes stand; files are kept, unless a janitor condemned them rashly, and removed; every job is closed | 2 jobs, 2 processes with a thread each, 1 fault (crash, lost upload or failed look-up), results that cannot be written at any time |
| `jq_confirm` | violation | a confirmed job is queued without files | 3 jobs |
| `ep_push` | pass | types; what rows say is booked; "failed" is clean; confirmed pushes alone; unknown is kept; retries end | 1 document, 2 rows, 2 threads, 2 retries, 1 retry by hand, 1 crash |
| `st_tasks` | pass | types and the limit of questions; one thread per task; one write, of what was approved; every task refines `Errand`; no task runs for ever | 1 task, 2 runs, 2 cards, 2 messages that answer, 2 writes, 1 question |

Why these bounds are enough to be worth something. Three tokens let a zombie, its
successor and a queued run meet; two processes are needed for two engines to run at
once, since `_inflight` stops the second in one process. One fault is a crash, two
are a crash of the successor, which is what the resume budget is about. Six steps are
the real pipeline; three keep an early step with per-item commits, the step that
waits for decisions, and the last one. In the mailbox all jobs are independent but
for `LIMIT`; two bridges and one book are the smallest conflict. `MaxDecisions`,
`MaxFaults`, `NJobs` are bounds of the model, in guards; `AutoResumeLimit` and
`DrainRounds` are constants of the code, made smaller.

The six-step instance rests on 2 items and 2 decisions: enough for material that
arrives after classify, and for a decision recorded between two drain probes.

In the wallet two charges by the page meet in one month, a third is charged by
character, and one subscription is bought, lapses and is renewed beside them; prices
and quota are scaled so that a charge straddles the tiers and the quota. Two jobs are
an upload and its correction, or two uploads that compete for the two threads. With one
attempt a job has one thread in its life, so one fault loses it, its upload or its files,
while results are lost and leases end without limit. In `ErpPush` all rows
of other documents are independent; one thread is a request thread, the other both
that and a tick, so that every pair of paths meets; `MaxRetries` is 2 instead of 3,
`MaxHands`, `MaxCrashes`, `MaxFees`, `MaxLapses`, `MaxMonth` are bounds in guards. The
run has a single ticking thread: two ticks of two processes that overlap are covered by
the theorems, which hold for any set `Ticks`, and not by the run.

The steward's tasks do not touch each other. With two runs a thread that outlived its
time-out meets the run that claimed the task next; with two cards an old approval meets
a new card; with two messages an answer is taken twice, or put into a loop that has gone
on. Runs and messages are used again, tokens are not, so a task makes two cards at most.
`MaxAsks` is `brain_loop.MAX_ASKS`, and the code depends on its being 1: with 2, TLC finds
a task that writes twice, because the first message that answers the first question
wakes the loop, which writes and asks again, and the second message, read before, puts
back a loop that knows nothing of the write.

`CHECK_DEADLOCK FALSE` is set because an archived order, and a model whose bounded
jobs, decisions, charges and faults are used up, really stop.

Symmetry is used in safety runs of work orders and the mailbox only, on tokens,
processes, items and bridges: no definition tells them apart. Runs with a liveness
property use none.

Every property of a passing run has a mutant in `PROJECT.json`: a change of the
modelled code that makes the run fail.

## 4. Fairness

Work orders: weak fairness of a run's own steps (a thread that is not killed goes
on; a crash, exception or lost hand-over is a bounded fault), of scheduling after a
commit, of the reaper (`background_loops` calls it for ever), of an archive under
way, of time. Users are not fair: nobody has to press run, decide or reject.
`RunningEnds` excepts one behaviour: users who start the brain again and again, each
time touching `updated_at`.

Bridge: weak fairness of time, of an enqueue that was picked, of the steward's
report, of `PollBegin`; strong fairness of `LeaseTick`, because a bridge keeps
polling and again and again one of its requests reaches `lease_jobs`, although any
single one may break. Hellos, work and answers are free, so a bridge may never do or
answer anything, as long as it polls. Without polling the code promises nothing: the
only sweep of its jobs is its own poll.

Job queues: weak fairness of what a thread does next (`Works`: it claims, and its handler
comes to some end because its calls to models and the database have time-outs), of the
reclaim that every worker loop performs, of time (`LeaseEnds`) and of the janitor's
rounds. Uploads, confirmations, progress and faults are free.

Pushes: weak fairness of the tick and of what a thread does with its row, because the
calls to MR.ERP have time-outs and the loop never ends. Users, ends of leases, the
settlement of expired reservations and crashes are free: nobody has to come back.

Steward: weak fairness of time (`LeaseEnds`, `Ages`) and of `Heal`, which every worker
loop performs twice a minute or so, and every poll of the page for the task it shows.
Runs, and the users, are free: a worker need not claim, nor come to an end.

## 5. What is proved

For all values of the constants, under the named assumption of each module
(`WorkOrderRunAssumption`, `BridgeMailboxAssumption`, `CreditsAssumption`,
`QueueAssumption`, `PushAssumption`, `StewardAssumption`):

| theorem | assumes | statement |
|---|---|---|
| `WorkOrderRunProofs!TypeCorrect` | | types; resumes and drain rounds within their limits |
| `LeaseIsMutex` | heartbeats in time | a live run owns the unexpired lease |
| `LeaseOnlyReleased` | | an unexpired lease leaves its owner only by the owner's release |
| `PassesStayCurrent` | heartbeats in time | no step a pass has still to do is done; none besides is open, up to realignments |
| `StepsDoneOnce` | heartbeats in time | no step is done twice |
| `StepsDoneInOrder` | heartbeats in time, no realignment | the done steps are an initial segment |
| `ReviewShowsComplete` | heartbeats in time, no realignment | review shows a complete order |
| `EngineRefinesPipeline` | heartbeats in time, no realignment | `WorkOrderRun` implements `WorkOrderPipeline` |
| `BridgeMailboxProofs!TypeCorrect` | | types, with the room for leases and deliveries |
| `BookHasOneWriter` | | no book has two online writers |
| `ConfirmedAtMostOnce` | | a confirmed write reaches the book at most once |
| `SuccessMeansWritten` | | success is told only of what was written |
| `NothingStartsLate` | | no job past its time to live is handed out |
| `ClosedForGood` | | a closed job keeps its status |
| `JobIsDelivery`, `DeliveriesKept` | | `BridgeMailbox` implements `Delivery` for every job, and for all of them at once |
| `CreditsProofs!CreditsTypes` | | types |
| `CreditsLinesChain` | | every line that moves money continues the balance of the one before |
| `CreditsIsAccount` | | `Credits` implements `Account` |
| `CreditsFeeCovered` | | no fee takes the balance below zero |
| `CreditsChargedOnce` | | a piece of work has at most one line, and none unless its charge came through |
| `CreditsApprovedIsCredited` | | an approved request is credited, a pending one is not |
| `CreditsApprovedOnce` | | administrators credit a request at most once |
| `CreditsRenewedOnce` | | no more renewals are paid than cycles ended |
| `CreditsSumProofs!CreditsLedgerChains` | | the balance is the sum of all lines of the ledger, and the lines chain |
| `CreditsFreeWithinQuota` | | no cycle gives away more free scans than its quota |
| `CreditsPriceAdds` | | pages split over two charges in sequence cost what they cost in one |
| `CreditsPagesPaidInFull` | | as long as no month ends, the pages charged cost at least what they cost in one charge |
| `JobQueueProofs!TypeCorrect` | | types; no row is claimed more often than `max_attempts` |
| `RunsBounded` | | at most `max_attempts` runs, charges and results |
| `DoneStored` | | done means stored |
| `CorrectionFree` | | corrected rows are not charged |
| `UploadsKept` | | an upload keeps its files until it has run, unless a janitor's look-up failed (`rash`) |
| `PausesKept` | `max_attempts` = 1 | only a confirmation takes away the files of a paused job, or a janitor that condemned them rashly (`rash`) |
| `OutcomesStand` | `max_attempts` = 1 | done, cancelled and needs_review are never overwritten |
| `ErpPushProofs!TypeCorrect` | | types; a thread between pushes holds no row |
| `ToldTrue` | | success and duplicate are said only of what is booked |
| `FailedClean` | | a confirmed push is called failed only when it booked nothing |
| `ConfirmedNeverTwice` | | confirmed pushes of one document do not overlap, unless one was retried by hand |
| `UnknownStays` | | no machine replaces an unknown outcome |
| `StewardTaskProofs!TypeCorrect` | | types; no task asks more than `MAX_ASKS` questions |
| `OneThreadAtATime` | | two threads never work on one task |
| `WritesOnce` | `MAX_ASKS` = 1 | a task writes at most once, and only what was approved for it |
| `TaskIsErrand`, `ErrandsKept` | `MAX_ASKS` = 1 | `StewardTask` implements `Errand` for every task, and for all of them at once |

*The argument for work orders.* `LiveRunHoldsLease` is inductive on top of the types:
every way to take the row needs it free or dead (`DispatchTakesLease`), and neither
is it while a live run holds it. It needs `HealthyHeartbeat`: `Lapse` may then strike
only a lease without a live run. Without that assumption it is false, and a zombie
records steps a second time (section 6). `LeaseOnlyReleased` needs no such assumption.

Steps done once and in order are not inductive: what a pass will do next is in its
local `todo`, read at its start. `PassIsCurrent` ties `todo` to the log; it is kept
because only one run is live (`OneLiveRun`, from the lease) and because rejections
and self-heals happen only when none is (`FreeMeansIdle`). `NextLog` sorts all steps
into four kinds by what they do to the log -- nothing, a rewind, the completion of an
open step, a realignment -- and `StepDoneOnce`, then under `~TaxIdTypo` `DonePrefix`,
`ReviewComplete` and the refinement, are argued from these four kinds alone.

*The argument for the mailbox.* `TypeInv` strengthens the types: a queued job has no
lease that ran out (`NoLease`), a job that may still be leased has room for one more
lease before it is overdue (`LeaseRoom`), what bridges work on is bounded by the
leases of a job that is still open (`WorkRoom`), and a row exists as soon as the job
has a status (`Numbered`). `Once` adds to `ConfirmedOnce` that a queued confirmed write
has left no trace yet; `Truthful` adds to `SuccessIsWritten` that an answer "ok", on
its way or recorded, has a document behind it. The refinement is argued step by step from
these: each action shows one job at most a step of `Delivery` and hides the others
(`Hidden`), a lease that starts work is a `Start` because of `TypeInv` and `Once`, and a
report is a `Tell` because of `TruthInvariant`.

*The argument for the wallet.* Every step leaves the wallet alone or adds one line to
the ledger, and each kind of line comes with changes elsewhere (`OneLine`, `Kinds`); all
other theorems are argued from that. `ChainInv` adds to `LinesChain` that the last
line that moved money shows the balance. `ChargedInv` adds that work not done has no
line yet. `RenewInv` counts renewals against cycles that ended, with one to spare while
a cycle is over and not yet renewed.

*Sums.* What a recursive function computes is not in the prover's reach by itself, but
each running sum here is characterised by one equation per line (`SumIs`), shown from a
set of naturals that holds 0 and successors (`NatSet`); an added line then adds its
amount (`SumNext`) and leaves the sums before it alone (`SumSame`). `BalanceInv` says that
the balance is the last of these sums. `QuotaInv` says that the free scans of the cycle
are what the subscription row counts as used, up to the quota; `LockInv` keeps the row
still between a charge's look at it and its line. For pages paid in full the tariff is
additive (`CreditsPriceAdds`) and falls with the pages before (`PriceFalls`), and a charge
has `seen` no more pages than were used (`SeenInv`): it may take the dear tier, never the
cheap one too early.

*The argument for the job queues.* A job is claimable only while it is queued, and a
queued job has attempts left (`Claimable`). What threads have claimed but not begun,
plus what was begun, never exceeds `attempts` (`Counted`, a fact about cardinalities of
sets of threads); `RunsAtMost` follows. `Ran` says what a thread at some step of its
handler has done before, which gives `DoneIsStored`. What a janitor looked up may have
changed when it removes the directory; `DoomedIsOver` says that it has not for the jobs
that nobody needed at the look-up: they are closed for good, or an upload that was cut
off, and all their threads have answered. With the position of the files this gives
`UploadKept`. For `PausedKept` a thread must be the only one of its job for
life (`Alone`), which works on staged files or rashly condemned ones; this needs `max_attempts` = 1, the value that every caller passes; so
does `OutcomeStands`, with `Answered`: a job with an outcome has no thread left to report.

*The argument for the pushes.* A row on the schedule is finished (`RowInv`), and a row
once finished never waits for a reservation again, so that what a tick holds is
finished and not of the confirmed path (`WorkInv`); two threads share a row only when
one of them retries it (`OwnInv`). With these, a confirmed push in progress leaves its
row reserved or unknown, and both refuse the next reservation (`Blocks`), whether or
not the first has expired. `ByTrue`, `RowTrue` and `ThreadTrue` relate what threads
carry and rows say to `by`.

*The argument for the steward's tasks.* A thread works on a task that is closed, or on one
that is running and claimed (`HeldInv`): whoever parks a task is its only thread and ends
with that, and everybody else who touches a claimed task closes it. Neither is claimed
again, so `OneThread` follows. What was written is known to every copy of the loop that a
thread has, and to the row and the answers under way as soon as the task may be claimed
again (`DoneInv`); a late answer makes the row forget it only while the thread that wrote
is still there to save its own copy, or the task is closed. That holds because an answer
under way means that the one question was asked in every copy (`AskInv`), so that no
thread can park the task for another question after the write. That what is written was
approved is `GrantInv`: an approved card, in the row or in the hands of a run, shows
arguments that a person approved for that task. The refinement sorts the steps by what they
do to a task: a step that begins no thread and keeps the status is a `Stop` or does not
show (`QuietShows`), every `finish_task` is a `Close` or does not show (`FinishShows`), a
waiting task has no thread when it wakes (`WaitingIdle`), a parked one has none left
(`ParkShows`); `DoneInv` and `GrantInv` make the write a `Write`.

*Only model-checked:* liveness (`RunningEnds` twice, `JobsSettle`, `JobsClose`, `FilesGo`,
`RetriesEnd`), which is out of the prover's reach, and the runs that end in a violation.
Every invariant of a passing run, and every action property, has a theorem.

## 6. Where the code and its comments disagree

With a run that ends in a violation, and an entry under "findings":

* `archive.py` freezes an order, but neither it nor the engine looks at the other's
  state: a run scheduled in review sets an archived order back to review
  (`wo_frozen`).
* A slip upload approves without a second look at the status after it awaited the
  bank: a request is credited twice, or credited and rejected (`cr_twice`).
* A paused job stays confirmable after its confirmation, which removed the files: the
  second confirmation queues a job without files, although the route calls the new
  job self-contained (`jq_confirm`).

Met while modelling, without a run of their own:

* *Work orders.* `runner.py` trusts an idempotency key (work order, step) that
  `engine._emit` never passes: a zombie and its successor record a step twice. A
  decision, or a realignment, that meets a held lease is said to be picked up by the
  run that holds it: the brain never does, a run past its last probe does not either,
  and a run past classify does not see reopened steps.
* *Mailbox.* A long poll is authenticated once, not on every tick, so a bridge demoted
  meanwhile is handed a write (`services/erp/bridge/write_gate.py:98` against
  `routes/erp_bridge_routes.py:142`). "Expired" is told as "nobody fetched it" also of a
  write that was fetched, taken back and became too old. A push log of a write that is
  pending is never settled (`copy_erp_push.py:156` against `erp_push_tool.py:393`). The
  late answer of a confirmed write overwrites `CONFIRMED_UNACKED_CODE`
  (`services/erp/bridge/store.py:377`), after which it is told as plainly expired
  although `tests/unit/test_steward_erp_push.py:417` wants it uncertain; the answer of
  a write that was reclaimed is dropped (`store.py:375`) in the expectation that the
  job is delivered again (`tests/unit/test_erp_bridge_store.py:334`), while it may expire
  in the queue instead. A bridge that never polls again leaves its jobs open for ever,
  since its own poll is the only sweep (`services/erp/bridge/store.py:419`).
* *Wallet.* `charge_ocr` reads the pages used this month in a transaction of its own
  (`services/billing/charge.py:228`) and charges in a second one, while line 189 speaks of
  one transaction locked against concurrency, and
  `tests/integration/test_billing_correctness_safety_net.py:155` wants pages split over two
  charges to cost what they cost in one: two charges at once are both priced in the dear
  tier. They never pay too little while no month ends (`PagesPaidInFull`); a month that
  ends between reading and charging may give the cheap tier to pages of the new month.
* *Job queues.* `services/ops/stage_janitor.py:12` promises that directories of waiting,
  running and paused jobs are never touched, and
  `tests/unit/test_stage_janitor.py:132` that a round whose look-up fails deletes
  nothing. But the test's look-up raises, while the two that are injected
  (`services/recon_jobs/store.py:472`, `services/ocr/jobs/store.py:378`) catch the error
  and return no row: one `SELECT` that fails removes every directory older than 48
  hours, also of jobs that wait for a thread or, for days, for the user (in `JobQueue`:
  `LookFails`, then `Sweep`; such a job is in `rash`). A job reclaimed as failed may lose
  its old directory just before its late thread puts it before the user. A job failed as `worker_lost` may still become done when its thread
  reports late, while the page that polls it has stopped at failed. `gc_old` has no
  caller. With `max_attempts` above 1 a second attempt would find no files, since the
  first removes them in its `finally`; all callers pass 1.
* *Pushes.* A tick that dies between increment and clear, or two ticks that overlap,
  leave a failed row scheduled with all retries spent: it is never listed again and
  never cleared, and blocks confirmed pushes of the document as "active" for ever. A
  crash leaves an automatic push `pending` for ever. Cowork schedules a retry after a
  technical failure, which the confirmed path calls unknown. A late failed or
  duplicate result overwrites `success`, since `update_log_status_after_retry` names the
  row alone. A retry by hand of a reserved row leaves its `lease_owner` set for ever.

* *Steward.* `cancel_task` refuses a task whose tool writes
  (`routes/steward_routes.py:309`), on an unlocked read: the task may be parked, approved
  and running its write when the UPDATE, which repeats only the status, cancels it. A
  rejection may in the same way write its card over a newer one and close the task. A
  run looks at the status before each step of the loop but not before an approved write,
  so a task closed after its claim still writes. A loop that timed out before it knew its
  write has no tool in the row it holds (`services/steward/worker.py:145` wants none told
  to say it again), and its late failure may close the task while the approved write is
  under way. Questions, cards and answers add their message although the task is
  closed, unlike `_finalize` (`worker.py:262`). A late answer also takes `calls` back,
  which `MAX_CALLS` is to bound. An expired card, or a row that waits for a missing slot,
  leaves its task waiting for ever: healing looks at running tasks only.

## 7. What is not modelled, and what could come next

*Work orders and mailbox:* batch decisions and the decisions on bank reconciliation
and bank sales (a `human_decision` that schedules nothing and unlocks no step),
self-review declarations, receipts, verification of single items, the rows of the
brain, the manifest of an archive, separation of duties; pairing and tokens of
bridges, payload validation, the steward's confirmation dialogue and its lookup of
earlier pushes.

*Wallet:* the first row of `tenant_credits` (two first charges of a tenant), retention
of slips, reports and alerts, several plans with different fees, refunds by hand.

*Job queues:* job kinds and their handlers, the status polling of the routes,
`gc_old`, names in a stage directory that are no job id, Cloud Tasks deliveries (a work-order run handed over by one is in
`WorkOrderRun`).

*Pushes:* direct pushes without a proof of the catalog, rows of the Express queue,
batch variants, the mirror of the last status on the history row and the counters of
the endpoint, rows that record a refused reservation, the lock that lets one login at a time into MR.ERP,
the branch of the tick for deleted histories and endpoints, an exception between the
tick's push and its count (the row stays due and the attempt is not counted), a pending
row that cannot be inserted. Cowork always knows the account set, so its reserved rows are keyed;
pending and automatic skip rows carry none.

*Steward tasks:* the budget and its reservations, steps, messages and artifacts, rows that
wait for a missing slot, the rebuilding of the executing identity, the limits on calls and
repeated tools, an answer that chooses among several waiting questions of a session, and
what a write does once it starts (`BridgeMailbox` has its job).

Components left out altogether, with the reason, are in `PROJECT.json`. Most are
extraction, matching, layout, or adapters of external systems without a protocol of
their own. Those with a protocol that could come next, most important first:

1. **Steward and bridge** -- the composition of `StewardTask` with `BridgeMailbox`, for a
   write that outlives its task, and the budget reservations of a run.
2. **ExpressAgentQueue** -- leases and acknowledgements of the local agent; refines
   the mailbox's abstract job where it should.
3. **PosLedger** -- sales, voids, refunds, stock movements with repeated requests;
   amounts with their rounding as operators against a reference definition.
4. **Signoff** and **Stocktake** -- replays of events; small state, invariants fit to
   prove.
