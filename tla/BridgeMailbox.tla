--------------------------- MODULE BridgeMailbox ---------------------------
(***************************************************************************)
(* The ERP bridge (services/erp/bridge): bridges in the customer's network *)
(* dial out, report themselves (hello), fetch jobs from a mailbox table    *)
(* (a long-polled lease) and answer them (ack).  A write job makes the     *)
(* bridge post a document in an Express book; the steward's erp_push tool  *)
(* (services/steward) submits one, watches it, tells the accountant what   *)
(* became of it and records that in erp_push_logs.                         *)
(*                                                                         *)
(* One action is one transaction of the cloud, or one step of the bridge.  *)
(* The bridge program itself is not in this repository: what it does is    *)
(* what the cloud's comments and tests rely on.  Wall-clock time is three  *)
(* facts: a bridge was heard of lately (online), a lease has run out       *)
(* (lapsed), a job is older than its time to live (overdue).               *)
(***************************************************************************)
EXTENDS Integers, FiniteSets

CONSTANTS
    Bridges,
    Books,         \* account sets of Express
    NJobs,         \* bound on the jobs a run of the model submits
    Kinds,         \* the kinds of job submitted; "confirmed" is a write job
                   \* whose payload carries duplicate_confirmed
    MaxBatch,      \* largest max of a lease request
    LeasesPerTTL,  \* time to live / lease: 2 for queries and for writes
    None           \* NULL; no request under way

ASSUME BridgeMailboxAssumption ==
    /\ {NJobs, MaxBatch, LeasesPerTTL} \subseteq Nat /\ LeasesPerTTL > 0
    /\ Kinds \subseteq {"query", "write", "confirmed"}
    /\ None \notin [writer : BOOLEAN, books : SUBSET Books]
    /\ None \notin [at : Bridges, kind : Kinds, book : Books]

VARIABLES
    \* erp_bridges rows
    writer,    \* effective_role = write
    books,     \* the books the bridge reported
    online,    \* last_seen_at within ONLINE_WINDOW_SECONDS
    \* requests under way, with the erp_bridges row they read
    poll,      \* the long-polled lease of a bridge
    pick,      \* a submission between picking the bridge and enqueue_job
    \* bridge_jobs rows, numbered by created_at
    job,       \* bridge_id, kind and book_id
    status, lapsed, overdue,
    leases,    \* how many leases of the job have run out
    answer,    \* the result and error columns
    \* outside the cloud
    running,   \* deliveries of the job the bridge is working on
    acks,      \* answers on their way
    wrote,     \* documents the job put in the book
    \* the steward's reply, with the erp_push_logs row it writes
    said

bridgeVars == <<writer, books, online>>
rowVars    == <<job, status, lapsed, overdue, leases, answer>>
workVars   == <<running, acks, wrote>>
vars       == <<bridgeVars, poll, pick, rowVars, workVars, said>>

Jobs == 1..NJobs
Created == {j \in Jobs : job[j] # None}
IsWrite(j) == job[j].kind # "query"
Final == {"done", "failed", "expired"}

-----------------------------------------------------------------------------
Init ==
    /\ writer = [b \in Bridges |-> FALSE]
    /\ books = [b \in Bridges |-> {}]
    /\ online = [b \in Bridges |-> FALSE]
    /\ poll = [b \in Bridges |-> None]
    /\ pick = None
    /\ job = [j \in Jobs |-> None]
    /\ status = [j \in Jobs |-> "none"]
    /\ lapsed = [j \in Jobs |-> FALSE]
    /\ overdue = [j \in Jobs |-> FALSE]
    /\ leases = [j \in Jobs |-> 0]
    /\ answer = [j \in Jobs |-> "none"]
    /\ running = [j \in Jobs |-> 0]
    /\ acks = [j \in Jobs |-> {}]
    /\ wrote = [j \in Jobs |-> 0]
    /\ said = [j \in Jobs |-> "none"]

-----------------------------------------------------------------------------
(* hello.                                                                  *)

\* _write_holder, asked about the books reported last time
HeldOld(b, bs) ==
    \E h \in Bridges \ {b} : online[h] /\ writer[h] /\ books[h] \cap books[b] # {}

\* _write_holder: another online writer reports one of the books bs
Held(b, bs) ==
    \E h \in Bridges \ {b} : online[h] /\ writer[h] /\ books[h] \cap bs # {}

\* register_hello: the tenant's rows are locked, so hellos do not interleave
Hello(b) ==
    /\ \E bs \in SUBSET Books, wanted \in BOOLEAN :
          /\ writer' = [writer EXCEPT ![b] = wanted /\ ~Held(b, bs)]
          /\ books' = [books EXCEPT ![b] = bs]
    /\ online' = [online EXCEPT ![b] = TRUE]
    /\ UNCHANGED <<poll, pick, rowVars, workVars, said>>

\* ONLINE_WINDOW_SECONDS pass without a hello; the row keeps its role
FallSilent(b) ==
    /\ online[b]
    /\ online' = [online EXCEPT ![b] = FALSE]
    /\ UNCHANGED <<writer, books, poll, pick, rowVars, workVars, said>>

-----------------------------------------------------------------------------
(* Submission: query() and submit_write().                                 *)

\* pick_bridge and pick_write_bridge
PickBridge(b, k, x) ==
    /\ pick = None /\ Created # Jobs
    /\ online[b] /\ x \in books[b]
    /\ IF k = "query"
       THEN writer[b] \/ \A w \in Bridges : online[w] /\ x \in books[w] => ~writer[w]
       ELSE writer[b]
    /\ pick' = [at |-> b, kind |-> k, book |-> x]
    /\ UNCHANGED <<bridgeVars, poll, rowVars, workVars, said>>

\* enqueue_job: its gates look at the row that was picked, not at the table
Enqueue(j) ==
    /\ pick # None
    /\ j \in Jobs \ Created /\ \A i \in Jobs \ Created : j <= i
    /\ job' = [job EXCEPT ![j] = pick]
    /\ status' = [status EXCEPT ![j] = "queued"]
    /\ pick' = None
    /\ UNCHANGED <<bridgeVars, poll, lapsed, overdue, leases, answer, workVars, said>>

-----------------------------------------------------------------------------
(* The bridge's long poll: authenticated once, then one lease_jobs a       *)
(* second until it brings a job.                                           *)

PollBegin(b) ==
    /\ poll[b] = None
    /\ poll' = [poll EXCEPT ![b] = [writer |-> writer[b], books |-> books[b]]]
    /\ UNCHANGED <<bridgeVars, pick, rowVars, workVars, said>>

\* the hold is over, or the connection broke
PollEnd(b) ==
    /\ poll[b] # None
    /\ poll' = [poll EXCEPT ![b] = None]
    /\ UNCHANGED <<bridgeVars, pick, rowVars, workVars, said>>

Of(b, s) == {j \in Created : job[j].at = b /\ status[j] = s}

\* confirmed writes are closed after their leases are reclaimed, that is never
UnackedNever(b) == {}

\* close_unacked_confirmed_writes
Unacked(b) == {j \in Of(b, "leased") : lapsed[j] /\ job[j].kind = "confirmed"}

\* lease_jobs: an expired lease goes back to the queue
Reclaimed(b) == {j \in Of(b, "leased") : lapsed[j]} \ Unacked(b)

\* the time to live is looked at before the leases are reclaimed
StaleFirst(b) == {j \in Of(b, "queued") : overdue[j]}

\* queries alone have a time to live
StaleQueries(b) == {j \in Of(b, "queued") \cup Reclaimed(b) : overdue[j] /\ ~IsWrite(j)}

\* lease_jobs: what is in the queue and too old expires
Stale(b) == {j \in Of(b, "queued") \cup Reclaimed(b) : overdue[j]}

\* leasable_kinds of the row the poll was authenticated with, and its books
Ready(b) ==
    {j \in (Of(b, "queued") \cup Reclaimed(b)) \ Stale(b) :
        /\ job[j].book \in poll[b].books
        /\ IsWrite(j) => poll[b].writer}

\* ORDER BY created_at LIMIT n
Oldest(n, S) == {j \in S : Cardinality({i \in S : i < j}) < n}

\* one lease_jobs transaction, which also answers the request if it found work
LeaseTick(b) ==
    /\ poll[b] # None
    /\ \E n \in 1..MaxBatch : LET batch == Oldest(n, Ready(b)) IN
          /\ status' = [j \in Jobs |->
                          IF j \in Unacked(b) \cup Stale(b) THEN "expired"
                          ELSE IF j \in batch THEN "leased"
                          ELSE IF j \in Reclaimed(b) THEN "queued"
                          ELSE status[j]]
          /\ running' = [j \in Jobs |-> IF j \in batch THEN running[j] + 1 ELSE running[j]]
          /\ poll' = [poll EXCEPT ![b] = IF batch = {} THEN @ ELSE None]
    /\ lapsed' = [j \in Jobs |-> lapsed[j] /\ j \notin Unacked(b) \cup Reclaimed(b)]
    /\ answer' = [j \in Jobs |-> IF j \in Unacked(b) THEN "unacked" ELSE answer[j]]
    /\ UNCHANGED <<bridgeVars, pick, job, overdue, leases, acks, wrote, said>>

-----------------------------------------------------------------------------
(* The bridge (external).  It answers a query, posts the document of a     *)
(* write, or reports that it could not; the gate that finds a document of  *)
(* the same reference is off when duplicate_confirmed is set.              *)

Work(j) ==
    /\ running[j] > 0
    /\ running' = [running EXCEPT ![j] = @ - 1]
    /\ \/ /\ acks' = [acks EXCEPT ![j] = @ \cup {"ok"}]
          /\ wrote' = [wrote EXCEPT ![j] =
                         IF job[j].kind = "query" \/ (job[j].kind = "write" /\ @ > 0)
                         THEN @ ELSE @ + 1]
       \/ acks' = [acks EXCEPT ![j] = @ \cup {"err"}] /\ UNCHANGED wrote
    /\ UNCHANGED <<bridgeVars, poll, pick, rowVars, said>>

\* the response of the lease was lost, or the bridge died before it wrote
WorkLost(j) ==
    /\ running[j] > 0
    /\ running' = [running EXCEPT ![j] = @ - 1]
    /\ UNCHANGED <<bridgeVars, poll, pick, rowVars, acks, wrote, said>>

AckLost(j, a) ==
    /\ a \in acks[j]
    /\ acks' = [acks EXCEPT ![j] = @ \ {a}]
    /\ UNCHANGED <<bridgeVars, poll, pick, rowVars, running, wrote, said>>

\* finish_job: the leased row is closed; the late answer of an expired write
\* is kept beside status=expired; any other late answer is dropped.  A bridge
\* reports a failure in the result of a done job, or fails the job.  It
\* repeats an ack whose response it did not get.
FinishJob(j, a) ==
    /\ a \in acks[j]
    /\ acks' \in {acks, [acks EXCEPT ![j] = @ \ {a}]}
    /\ IF status[j] = "leased"
       THEN /\ \E s \in {"done"} \cup (IF a = "err" THEN {"failed"} ELSE {}) :
                  status' = [status EXCEPT ![j] = s]
            /\ answer' = [answer EXCEPT ![j] = a]
            /\ lapsed' = [lapsed EXCEPT ![j] = FALSE]
       ELSE /\ answer' = [answer EXCEPT ![j] =
                            IF status[j] = "expired" /\ IsWrite(j) THEN a ELSE @]
            /\ UNCHANGED <<status, lapsed>>
    /\ UNCHANGED <<bridgeVars, poll, pick, job, overdue, leases, running, wrote, said>>

\* expire_job's WHERE: a write job that a bridge holds is left alone
Abandonable(j) == status[j] = "queued" \/ (status[j] = "leased" /\ ~IsWrite(j))

\* expire_job: whoever waited for the job gives up
GiveUp(j) ==
    /\ j \in Created /\ Abandonable(j)
    /\ status' = [status EXCEPT ![j] = "expired"]
    /\ UNCHANGED <<bridgeVars, poll, pick, job, lapsed, overdue, leases, answer,
                   workVars, said>>

-----------------------------------------------------------------------------
(* The steward's erp_push: _await_write, _submit, erp_push_trail.log_push. *)

\* the answer's own verdict is not looked at
VerdictOfStatus(j) ==
    IF status[j] = "done" THEN "success"
    ELSE IF answer[j] = "unacked" THEN "uncertain"
    ELSE IF status[j] = "expired" THEN "expired" ELSE "failed"

\* "expired" is ERR_PUSH_EXPIRED, "uncertain" ERR_PUSH_UNCERTAIN
Verdict(j) ==
    IF status[j] = "done" /\ answer[j] = "ok" THEN "success"
    ELSE IF answer[j] = "unacked" THEN "uncertain"
    ELSE IF status[j] = "expired" THEN "expired" ELSE "failed"

Report(j) ==
    /\ j \in Created /\ IsWrite(j) /\ said[j] = "none"
    /\ status[j] \in Final
    /\ said' = [said EXCEPT ![j] = Verdict(j)]
    /\ UNCHANGED <<bridgeVars, poll, pick, rowVars, workVars>>

\* _POLL_DEADLINE_S passes, later than the write's time to live
ReportPending(j) ==
    /\ j \in Created /\ IsWrite(j) /\ said[j] = "none"
    /\ status[j] \notin Final /\ overdue[j]
    /\ said' = [said EXCEPT ![j] = "pending"]
    /\ UNCHANGED <<bridgeVars, poll, pick, rowVars, workVars>>

-----------------------------------------------------------------------------
(* Time.                                                                   *)

\* lease_expires_at passes; leases and time to live are in proportion
Lapse(j) ==
    /\ status[j] = "leased" /\ ~lapsed[j]
    /\ lapsed' = [lapsed EXCEPT ![j] = TRUE]
    /\ leases' = [leases EXCEPT ![j] = @ + 1]
    /\ overdue' = [overdue EXCEPT ![j] = @ \/ leases[j] + 1 >= LeasesPerTTL]
    /\ UNCHANGED <<bridgeVars, poll, pick, job, status, answer, workVars, said>>

\* created_at falls behind the time to live
GrowOld(j) ==
    /\ status[j] \in {"queued", "leased"} /\ ~overdue[j]
    /\ overdue' = [overdue EXCEPT ![j] = TRUE]
    /\ UNCHANGED <<bridgeVars, poll, pick, job, status, lapsed, leases, answer,
                   workVars, said>>

-----------------------------------------------------------------------------
Next ==
    \/ \E b \in Bridges :
          \/ Hello(b) \/ FallSilent(b) \/ PollBegin(b) \/ PollEnd(b) \/ LeaseTick(b)
          \/ \E k \in Kinds, x \in Books : PickBridge(b, k, x)
    \/ \E j \in Jobs :
          \/ Enqueue(j) \/ GiveUp(j) \/ Report(j) \/ ReportPending(j)
          \/ Work(j) \/ WorkLost(j) \/ Lapse(j) \/ GrowOld(j)
          \/ \E a \in {"ok", "err"} : FinishJob(j, a) \/ AckLost(j, a)

Spec == Init /\ [][Next]_vars

(* Fairness.  Time passes, a picked submission is written, the steward     *)
(* reports, and every bridge keeps polling: again and again one of its     *)
(* requests reaches a lease_jobs.  Hellos, work and answers are free.      *)
Fairness ==
    /\ \A j \in Jobs : WF_vars(Lapse(j)) /\ WF_vars(GrowOld(j)) /\ WF_vars(Enqueue(j))
                       /\ WF_vars(Report(j) \/ ReportPending(j))
    /\ \A b \in Bridges : WF_vars(PollBegin(b)) /\ SF_vars(LeaseTick(b))

FairSpec == Spec /\ Fairness

-----------------------------------------------------------------------------
Requests == [at : Bridges, kind : Kinds, book : Books]

BridgeTypeOK ==
    /\ writer \in [Bridges -> BOOLEAN] /\ online \in [Bridges -> BOOLEAN]
    /\ books \in [Bridges -> SUBSET Books]
    /\ poll \in [Bridges -> [writer : BOOLEAN, books : SUBSET Books] \cup {None}]
    /\ pick \in Requests \cup {None}

RowTypeOK ==
    /\ job \in [Jobs -> Requests \cup {None}]
    /\ status \in [Jobs -> {"none", "queued", "leased"} \cup Final]
    /\ lapsed \in [Jobs -> BOOLEAN] /\ overdue \in [Jobs -> BOOLEAN]
    /\ leases \in [Jobs -> 0..LeasesPerTTL]
    /\ answer \in [Jobs -> {"none", "ok", "err", "unacked"}]

WorkTypeOK ==
    /\ running \in [Jobs -> 0..LeasesPerTTL]
    /\ acks \in [Jobs -> SUBSET {"ok", "err"}]
    /\ wrote \in [Jobs -> Nat]
    /\ said \in [Jobs -> {"none", "success", "pending", "uncertain", "expired", "failed"}]

(* Every variable has its type; no job is leased, or worked on at once,    *)
(* more often than its time to live has room for leases.                   *)
TypeOK == BridgeTypeOK /\ RowTypeOK /\ WorkTypeOK

(* At most one online bridge may write a book, whatever order bridges come *)
(* and go in and whatever books they report (store.py: the gate that lets  *)
(* a single write bridge of a book be online).                             *)
OneWriter ==
    \A b, h \in Bridges :
        b # h /\ online[b] /\ online[h] /\ writer[b] /\ writer[h]
            => books[b] \cap books[h] = {}

(* A write that the accountant confirmed although a like document exists,  *)
(* so that the bridge looks for no duplicate, reaches the book at most     *)
(* once: no lease that ran out makes it be delivered again.                *)
ConfirmedOnce ==
    \A j \in Created : job[j].kind = "confirmed" => running[j] + wrote[j] <= 1

(* Nothing past its time to live is handed out, not even by the            *)
(* transaction that takes it back from a bridge that died: it must not     *)
(* turn up in the book when nobody expects it (write_gate.py).             *)
NoLateStart ==
    [][\A j \in Jobs : running'[j] > running[j] => ~overdue[j]]_vars

(* The accountant is told that a document was written only if one was: a   *)
(* job that is done may have a result that says it failed.                 *)
SuccessIsWritten == \A j \in Jobs : said[j] = "success" => wrote[j] > 0

(* What was answered is not asked again: a closed job stays closed,        *)
(* whatever late or repeated answers come in and however often it is       *)
(* swept.                                                                  *)
ClosedStaysClosed ==
    [][\A j \in Jobs : status[j] \in Final => status'[j] = status[j]]_vars

(* To whoever submitted it a job is a delivery: started only while it is   *)
(* open and in time, not started again where a second document would do    *)
(* harm, closed once, and reported once and truly (submit_write, erp_push).*)
(* Who polls, what is lost, late, repeated, swept or given up does not     *)
(* show.                                                                   *)
StateOf(j) == IF status[j] \in {"queued", "leased"} THEN "open" ELSE status[j]

ToldOf(j) == IF said[j] \in {"none", "success", "pending"} THEN said[j] ELSE "failure"

Job(j) == INSTANCE Delivery WITH
    state  <- StateOf(j),
    once   <- j \in Created /\ job[j].kind = "confirmed",
    late   <- overdue[j],
    out    <- running[j],
    effect <- wrote[j],
    told   <- ToldOf(j)

JobsAreDeliveries ==
    /\ \A j \in Jobs : Job(j)!Init
    /\ [][\A j \in Jobs : UNCHANGED Job(j)!vars \/ Job(j)!Next]_vars

(* Every job is closed in the end, as long as its bridge polls: a bridge   *)
(* that died, changed its books or was demoted leaves no job behind.       *)
JobsSettle == \A j \in Jobs : status[j] \in {"queued", "leased"} ~> status[j] \in Final

=============================================================================
