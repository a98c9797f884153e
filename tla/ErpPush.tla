------------------------------ MODULE ErpPush ------------------------------
(***************************************************************************)
(* Pushing documents to MR.ERP: rows of erp_push_logs, one per push, that  *)
(* several paths write without knowing of each other.  After recognition   *)
(* (services/erp/auto_push), when a Cowork draft is confirmed              *)
(* (services/cowork_line), when the user picked the account set            *)
(* (services/erp/confirmed_push), when he retries a row by hand            *)
(* (routes/erp_push_log_routes), and on the tick of every process that     *)
(* retries failed rows (services/background_loops).                        *)
(*                                                                         *)
(* One action is one transaction, or the push itself: a session with       *)
(* MR.ERP of many requests, at whose end the result may be lost.  MR.ERP   *)
(* refuses a document number it has.                                       *)
(***************************************************************************)
EXTENDS Integers, FiniteSets

CONSTANTS
    Docs,
    Logs,          \* rows, in the order of their creation
    Requests,      \* threads that serve routes and their background tasks
    Ticks,         \* threads that run the retry loop, one per process
    MaxRetries,    \* ERP_MAX_RETRIES; 3 in the code
    MaxHands,      \* bound on retries by hand
    MaxCrashes,    \* bound on threads killed
    DbErrors,      \* whether a result may fail to be written on its reservation
    None

ASSUME PushAssumption ==
    /\ Logs \subseteq Nat /\ None \notin Docs \cup Logs
    /\ MaxRetries \in Nat \ {0} /\ MaxHands \in Nat /\ MaxCrashes \in Nat
    /\ DbErrors \in BOOLEAN

VARIABLES
    doc,       \* the document of a row; None: no row yet
    path,      \* who wrote the row: "auto", "cowork" or "confirmed"
    status,
    keyed,     \* whether its request_body names the account set
    lease,     \* lease_owner and lease_expires_at: "none", "live" or "over"
    due,       \* whether next_retry_at is set
    retries,   \* retry_count
    staged,    \* documents that are drafts of Cowork
    by,        \* the row whose push put a document into MR.ERP
    pc,        \* how far a thread is
    kind,      \* what it does: a path, "hand" or "tick"
    at,        \* the row it works on
    res,       \* how its push ended
    seen,      \* whether a retry by hand found the row scheduled
    count,     \* the retry_count that its own increment returned
    todo,      \* the rows a tick has listed and not tried yet
    touched,   \* the rows that were ever retried by hand (history)
    hands,     \* how many such retries there were
    crashes

logVars    == <<doc, path, status, keyed, lease, due, retries>>
threadVars == <<pc, kind, at, res, seen, count, todo>>
ghostVars  == <<touched, hands, crashes>>
vars       == <<logVars, staged, by, threadVars, ghostVars>>

Threads == Requests \cup Ticks
Set(f, x, v) == [f EXCEPT ![x] = v]

Init ==
    /\ doc = [l \in Logs |-> None] /\ path = [l \in Logs |-> "none"]
    /\ status = [l \in Logs |-> "absent"] /\ keyed = [l \in Logs |-> FALSE]
    /\ lease = [l \in Logs |-> "none"] /\ due = [l \in Logs |-> FALSE]
    /\ retries = [l \in Logs |-> 0]
    /\ staged \in [Docs -> BOOLEAN] /\ by = [d \in Docs |-> None]
    /\ pc = [t \in Threads |-> "idle"] /\ kind = [t \in Threads |-> "none"]
    /\ at = [t \in Threads |-> None] /\ res = [t \in Threads |-> "none"]
    /\ seen = [t \in Threads |-> FALSE] /\ count = [t \in Threads |-> 0]
    /\ todo = [t \in Threads |-> {}]
    /\ touched = {} /\ hands = 0 /\ crashes = 0

\* A thread takes up row l, at its step p.
Start(t, k, l, p) ==
    /\ pc[t] = "idle"
    /\ pc' = Set(pc, t, p) /\ kind' = Set(kind, t, k) /\ at' = Set(at, t, l)

FinishLate(t) ==  \* mutant: the thread keeps its row
    /\ pc' = Set(pc, t, IF todo[t] = {} THEN "idle" ELSE "listed")
    /\ kind' = Set(kind, t, "none") /\ at' = at
    /\ res' = Set(res, t, "none") /\ seen' = Set(seen, t, FALSE)
    /\ count' = Set(count, t, 0)
    /\ UNCHANGED todo
\* It is done with the row; a tick goes on to the next one.
Finish(t) ==
    /\ pc' = Set(pc, t, IF todo[t] = {} THEN "idle" ELSE "listed")
    /\ at' = Set(at, t, None) /\ kind' = Set(kind, t, "none")
    /\ res' = Set(res, t, "none") /\ seen' = Set(seen, t, FALSE)
    /\ count' = Set(count, t, 0)
    /\ UNCHANGED todo

\* The next row to be written.
Fresh(l) == doc[l] = None /\ \A m \in Logs : m < l => doc[m] # None

\* The row l of document d is bound to its path.
Bind(l, d, p) == doc' = Set(doc, l, d) /\ path' = Set(path, l, p)

\* has_recent_successful_push, prior_success: only successes count.
Succeeded(d) == \E l \in Logs : doc[l] = d /\ status[l] = "success"

-----------------------------------------------------------------------------
(* The automatic push: look for a success, write the row, push. *)

AutoSkip(t, d, l) ==
    /\ pc[t] = "idle" /\ ~staged[d] /\ Fresh(l) /\ Succeeded(d)
    /\ Bind(l, d, "auto") /\ status' = Set(status, l, "skipped_dup")
    /\ UNCHANGED <<keyed, lease, due, retries, staged, by, threadVars, ghostVars>>

AutoCheck(t, d, l) ==
    /\ ~staged[d] /\ Fresh(l) /\ ~Succeeded(d)
    /\ Start(t, "auto", l, "checked") /\ Bind(l, d, "auto")
    /\ UNCHANGED <<status, keyed, lease, due, retries, staged, by, res, seen, count, todo, ghostVars>>

AutoInsert(t) ==
    /\ pc[t] = "checked"
    /\ pc' = Set(pc, t, "send") /\ status' = Set(status, at[t], "pending")
    /\ UNCHANGED <<doc, path, keyed, lease, due, retries, staged, by, kind, at, res, seen, count,
                   todo, ghostVars>>

-----------------------------------------------------------------------------
(* Cowork: a draft is confirmed and its push reserved in one transaction. *)

ReserveCowork(t, d, l) ==
    /\ pc[t] = "idle" /\ staged[d] /\ Fresh(l)
    /\ staged' = Set(staged, d, FALSE)
    /\ Bind(l, d, "cowork")
    /\ \/ /\ Succeeded(d)
          /\ status' = Set(status, l, "skipped_dup")
          /\ UNCHANGED <<keyed, lease, pc, kind, at>>
       \/ /\ ~Succeeded(d)
          /\ status' = Set(status, l, "retrying") /\ lease' = Set(lease, l, "live")
          /\ keyed' = Set(keyed, l, TRUE)
          /\ Start(t, "cowork", l, "send")
    /\ UNCHANGED <<due, retries, by, res, seen, count, todo, ghostVars>>

Expired(p) == {l \in Logs : path[l] = p /\ status[l] = "retrying" /\ lease[l] = "over"}

SettledStatus(S) == [l \in Logs |-> IF l \in S THEN "manual" ELSE status[l]]
SettledLease(S)  == [l \in Logs |-> IF l \in S THEN "none" ELSE lease[l]]

\* settle_stale_legacy, whenever the user turns up in Cowork again.
SettleCowork ==
    /\ Expired("cowork") # {}
    /\ status' = SettledStatus(Expired("cowork")) /\ lease' = SettledLease(Expired("cowork"))
    /\ UNCHANGED <<doc, path, keyed, due, retries, staged, by, threadVars, ghostVars>>

-----------------------------------------------------------------------------
(* The confirmed push: reserved under the lock of the endpoint. *)

\* What the reservation asks of the rows of d that name the account set, after
\* it settled the expired ones (status st, lease ls).
OfDoc(d) == {l \in Logs : doc[l] = d /\ keyed[l]}
Prior(d, st) == \E l \in OfDoc(d) : st[l] \in {"success", "skipped_dup"}
Active(d, st, ls) ==
    \E l \in OfDoc(d) :
        \/ st[l] \in {"pending", "retrying"} \/ ls[l] # "none"
        \/ st[l] = "failed" /\ due[l]
UnknownNever(d, st) == FALSE  \* mutant: unknown outcomes are not looked for
Unknown(d, st) == \E l \in OfDoc(d) : path[l] = "confirmed" /\ st[l] = "manual"

ReserveConfirmed(t, d, l) ==
    LET st == SettledStatus(Expired("confirmed"))
        ls == SettledLease(Expired("confirmed"))
    IN  /\ pc[t] = "idle" /\ ~staged[d] /\ Fresh(l)
        /\ \/ /\ Prior(d, st)
              /\ Bind(l, d, "confirmed")
              /\ status' = Set(st, l, "skipped_dup") /\ keyed' = Set(keyed, l, TRUE)
              /\ lease' = ls
              /\ UNCHANGED <<pc, kind, at>>
           \/ /\ ~Prior(d, st) /\ (Active(d, st, ls) \/ Unknown(d, st))
              /\ status' = st /\ lease' = ls
              /\ UNCHANGED <<doc, path, keyed, pc, kind, at>>
           \/ /\ ~Prior(d, st) /\ ~Active(d, st, ls) /\ ~Unknown(d, st)
              /\ Bind(l, d, "confirmed")
              /\ status' = Set(st, l, "retrying") /\ keyed' = Set(keyed, l, TRUE)
              /\ lease' = Set(ls, l, "live")
              /\ Start(t, "confirmed", l, "send")
        /\ UNCHANGED <<due, retries, staged, by, res, seen, count, todo, ghostVars>>

-----------------------------------------------------------------------------
(* Retries by hand, and the tick *)

HandStart(t, l) ==
    /\ status[l] \notin {"absent", "success"} /\ hands < MaxHands
    /\ Start(t, "hand", l, "send")
    /\ seen' = Set(seen, t, due[l]) /\ touched' = touched \cup {l} /\ hands' = hands + 1
    /\ UNCHANGED <<logVars, staged, by, res, count, todo, crashes>>

DueLogs == {l \in Logs : status[l] = "failed" /\ due[l] /\ retries[l] < MaxRetries}

\* list_logs_due_for_retry: those whose time has come; nothing marks them as
\* taken.
List(t) ==
    /\ pc[t] = "idle" /\ pc' = Set(pc, t, "listed")
    /\ \E S \in SUBSET DueLogs \ {{}} : todo' = Set(todo, t, S)
    /\ UNCHANGED <<logVars, staged, by, kind, at, res, seen, count, ghostVars>>

Take(t) ==
    \E l \in todo[t] :
        /\ pc[t] = "listed"
        /\ pc' = Set(pc, t, "send") /\ kind' = Set(kind, t, "tick") /\ at' = Set(at, t, l)
        /\ todo' = Set(todo, t, todo[t] \ {l})
        /\ UNCHANGED <<logVars, staged, by, res, seen, count, ghostVars>>

-----------------------------------------------------------------------------
(* The push, and what is made of its result *)

\* push_mrerp_history: booked or not, the result may be a technical failure.
Send(t) ==
    LET d == doc[at[t]] IN
    /\ pc[t] = "send" /\ pc' = Set(pc, t, "sent")
    /\ \/ /\ by[d] = None /\ by' = Set(by, d, at[t])
          /\ \E r \in {"success", "failed"} : res' = Set(res, t, r)
       \/ /\ \E r \in {"failed", "data"} : res' = Set(res, t, r)
          /\ by' = by
       \/ by[d] # None /\ res' = Set(res, t, "dup") /\ by' = by
    /\ UNCHANGED <<logVars, staged, kind, at, seen, count, todo, ghostVars>>

ClassifiedDone(r) ==  \* mutant: a duplicate counts as a success
    IF r \in {"success", "dup"} THEN "success" ELSE "failed"
\* classify_push_status
Classified(r) ==
    CASE r = "success"          -> "success"
      [] r = "dup"              -> "skipped_dup"
      [] r \in {"failed", "data"} -> "failed"

OwnedByName(l) == l \in Logs  \* mutant: the UPDATEs name the row alone
\* The reservation of row l stands: the condition of the UPDATEs that end it.
Owned(l) == status[l] = "retrying" /\ lease[l] # "none"

\* The result of a reserved push, or that it is unknown, on its reservation.
\* (next_retry_at, which some of these statements clear, is not set yet.)
Settle(t, st) ==
    /\ status' = Set(status, at[t], st) /\ lease' = Set(lease, at[t], "none")
    /\ keyed' = IF st = "manual" THEN keyed ELSE Set(keyed, at[t], TRUE)

FinalizeCowork(t) ==
    /\ pc[t] = "sent" /\ kind[t] = "cowork"
    /\ \/ /\ Owned(at[t]) /\ Settle(t, Classified(res[t]))
          /\ IF res[t] = "failed"
             THEN pc' = Set(pc, t, "updated") /\ UNCHANGED <<kind, at, res, seen, count, todo>>
             ELSE Finish(t)
       \/ Owned(at[t]) /\ DbErrors /\ Settle(t, "manual") /\ Finish(t)
       \/ ~Owned(at[t]) /\ UNCHANGED <<status, lease, keyed>> /\ Finish(t)
    /\ UNCHANGED <<doc, path, due, retries, staged, by, ghostVars>>

AmbiguousNever(r) == FALSE  \* mutant: a technical failure is a failure
\* A technical failure of MR.ERP says nothing about the document.
Ambiguous(r) == r = "failed"

FinalizeConfirmed(t) ==
    /\ pc[t] = "sent" /\ kind[t] = "confirmed"
    /\ \/ Owned(at[t]) /\ ~Ambiguous(res[t]) /\ Settle(t, Classified(res[t]))
       \/ Owned(at[t]) /\ (Ambiguous(res[t]) \/ DbErrors) /\ Settle(t, "manual")
       \/ ~Owned(at[t]) /\ UNCHANGED <<status, lease, keyed>>
    /\ Finish(t)
    /\ UNCHANGED <<doc, path, due, retries, staged, by, ghostVars>>

CountLost(t) ==  \* mutant: retry_count is not written
    /\ pc[t] = "sent" /\ kind[t] \in {"hand", "tick"} /\ pc' = Set(pc, t, "counted")
    /\ retries' = retries /\ count' = IF kind[t] = "tick" THEN Set(count, t, retries[at[t]] + 1) ELSE count
    /\ UNCHANGED <<doc, path, status, keyed, lease, due, staged, by, kind, at, res, seen, todo, ghostVars>>
\* increment_retry_count
Count(t) ==
    /\ pc[t] = "sent" /\ kind[t] \in {"hand", "tick"} /\ pc' = Set(pc, t, "counted")
    /\ retries' = [retries EXCEPT ![at[t]] = @ + 1]
    /\ count' = IF kind[t] = "tick" THEN Set(count, t, retries[at[t]] + 1) ELSE count
    /\ UNCHANGED <<doc, path, status, keyed, lease, due, staged, by, kind, at, res, seen, todo, ghostVars>>

\* update_log_status_after_retry: whatever the row has become meanwhile.
Update(t) ==
    /\ \/ pc[t] = "sent" /\ kind[t] = "auto"
       \/ pc[t] = "counted"
    /\ pc' = Set(pc, t, "updated")
    /\ status' = Set(status, at[t], Classified(res[t]))
    /\ keyed' = IF kind[t] = "tick" THEN keyed ELSE Set(keyed, at[t], TRUE)
    /\ UNCHANGED <<doc, path, lease, due, retries, staged, by, kind, at, res, seen, count, todo, ghostVars>>

\* Who schedules another try, and who ends the schedule.
TryAgain(t) ==
    /\ res[t] = "failed"
    /\ \/ kind[t] \in {"auto", "cowork"}
       \/ kind[t] = "tick" /\ count[t] < MaxRetries
Clears(t) ==
    \/ kind[t] = "hand" /\ seen[t]
    \/ kind[t] = "tick" /\ ~TryAgain(t)

\* schedule_log_retry (of a failed row), clear_retry_schedule, or neither.
Reschedule(t) ==
    /\ pc[t] = "updated"
    /\ due' = CASE TryAgain(t) /\ status[at[t]] = "failed" -> Set(due, at[t], TRUE)
                [] Clears(t) -> Set(due, at[t], FALSE)
                [] OTHER -> due
    /\ Finish(t)
    /\ UNCHANGED <<doc, path, status, keyed, lease, retries, staged, by, ghostVars>>

-----------------------------------------------------------------------------
Crash(t) ==
    /\ pc[t] # "idle" /\ crashes < MaxCrashes
    /\ crashes' = crashes + 1
    /\ pc' = Set(pc, t, "idle") /\ kind' = Set(kind, t, "none") /\ at' = Set(at, t, None)
    /\ res' = Set(res, t, "none") /\ seen' = Set(seen, t, FALSE) /\ count' = Set(count, t, 0)
    /\ todo' = Set(todo, t, {})
    /\ UNCHANGED <<logVars, staged, by, touched, hands>>

LeaseEnds(l) ==
    /\ lease[l] = "live" /\ lease' = Set(lease, l, "over")
    /\ UNCHANGED <<doc, path, status, keyed, due, retries, staged, by, threadVars, ghostVars>>

RequestStep(t) ==
    \/ \E d \in Docs, l \in Logs :
           \/ AutoSkip(t, d, l) \/ AutoCheck(t, d, l)
           \/ ReserveCowork(t, d, l) \/ ReserveConfirmed(t, d, l)
    \/ \E l \in Logs : HandStart(t, l)

TickStep(t) == List(t) \/ Take(t)

\* What a thread does with its row.
PushStep(t) ==
    \/ AutoInsert(t) \/ Send(t) \/ FinalizeCowork(t) \/ FinalizeConfirmed(t)
    \/ Count(t) \/ Update(t) \/ Reschedule(t)

Next ==
    \/ \E t \in Requests : RequestStep(t)
    \/ \E t \in Ticks : TickStep(t)
    \/ \E t \in Threads : PushStep(t) \/ Crash(t)
    \/ \E l \in Logs : LeaseEnds(l)
    \/ SettleCowork

Spec == Init /\ [][Next]_vars

\* Fairness: the ticks run when retries fall due, a push ends (its requests
\* have time-outs) and its result is dealt with.  No user has to come back.
Fairness ==
    /\ \A t \in Ticks : WF_vars(TickStep(t))
    /\ \A t \in Threads : WF_vars(PushStep(t))

FairSpec == Spec /\ Fairness

-----------------------------------------------------------------------------
(* Properties *)

LogTypeOK ==
    /\ doc \in [Logs -> Docs \cup {None}]
    /\ path \in [Logs -> {"none", "auto", "cowork", "confirmed"}]
    /\ status \in [Logs -> {"absent", "pending", "retrying", "success", "failed",
                            "skipped_dup", "manual"}]
    /\ keyed \in [Logs -> BOOLEAN] /\ lease \in [Logs -> {"none", "live", "over"}]
    /\ due \in [Logs -> BOOLEAN] /\ retries \in [Logs -> Nat]
    /\ staged \in [Docs -> BOOLEAN] /\ by \in [Docs -> Logs \cup {None}]

ThreadTypeOK ==
    /\ pc \in [Threads -> {"idle", "listed", "checked", "send", "sent", "counted", "updated"}]
    /\ kind \in [Threads -> {"none", "auto", "cowork", "confirmed", "hand", "tick"}]
    /\ at \in [Threads -> Logs \cup {None}]
    /\ res \in [Threads -> {"none", "success", "failed", "data", "dup"}]
    /\ seen \in [Threads -> BOOLEAN] /\ count \in [Threads -> Nat]
    /\ todo \in [Threads -> SUBSET Logs] /\ crashes \in 0..MaxCrashes
    /\ touched \subseteq Logs /\ hands \in 0..MaxHands
    /\ \A t \in Threads : pc[t] \in {"idle", "listed"} <=> at[t] = None

\* Types; a thread between pushes holds no row.
TypeOK == LogTypeOK /\ ThreadTypeOK

\* What a row tells its reader is true of MR.ERP, though rows are overwritten
\* by late results and pushes overlap: of a document, only the row whose push
\* booked it says success, and skipped_dup says that somebody did.
ToldIsBooked ==
    \A l \in Logs :
        /\ status[l] = "success" => by[doc[l]] = l
        /\ status[l] = "skipped_dup" => by[doc[l]] # None

\* A confirmed push that nobody retried is called failed only when it left
\* nothing in MR.ERP (confirmed_push.py: ambiguous_mrerp).
FailedIsClean ==
    \A l \in Logs :
        status[l] = "failed" /\ path[l] = "confirmed" /\ l \notin touched => by[doc[l]] # l

\* Confirmed pushes of one document never overlap, though the first outlives
\* its reservation, unless the user retried one of them by hand.
Confirming(t) == kind[t] = "confirmed" /\ pc[t] \in {"send", "sent"}
ConfirmedAlone ==
    \A s, t \in Requests :
        /\ s # t /\ Confirming(s) /\ Confirming(t)
        /\ doc[at[s]] = doc[at[t]]
        => at[s] \in touched \/ at[t] \in touched

\* An outcome settled as unknown is never replaced by a machine, neither by
\* the late result of the push itself nor by a retry tick
\* (confirmed_push_reservation.py: "never replay it automatically").
ByHand(t, l) == at[t] = l /\ kind[t] = "hand"
UnknownKept ==
    [][\A l \in Logs :
          status[l] = "manual" /\ status'[l] # "manual" => \E t \in Requests : ByHand(t, l)]_vars

\* The automatic retries of a row come to an end: it is settled, taken off the
\* schedule, or out of retries.
RetriesEnd ==
    \A l \in Logs :
        status[l] = "failed" /\ due[l] ~>
            status[l] # "failed" \/ ~due[l] \/ retries[l] >= MaxRetries
=============================================================================
