------------------------------ MODULE JobQueue ------------------------------
(***************************************************************************)
(* The background job queues (services/ocr/jobs, services/recon_jobs): one *)
(* table of jobs each, claimed by the threads of several processes under a *)
(* lease, with the uploaded files of a job in a directory of its own.  The *)
(* two have the same shape; recon_jobs may also pause a job for the user,  *)
(* whose corrections start a second job on a copy of the files.            *)
(*                                                                         *)
(* One action is one SQL statement or one change of the directory.  What a *)
(* thread writes at its end names the job alone, neither its worker nor    *)
(* its status, so a thread that outlived its lease still writes.           *)
(***************************************************************************)
EXTENDS Integers, Sequences, FiniteSets

CONSTANTS
    Jobs,
    Workers,       \* threads that run jobs: the slots of all processes
    Procs,         \* processes
    ProcOf,        \* [Workers -> Procs]
    MaxAttempts,   \* max_attempts; every caller takes 1
    MayPause,      \* whether jobs may wait for the user (recon_jobs)
    MaxFaults,     \* bound on processes killed, uploads cut off, look-ups failed
    DbErrors,      \* whether an UPDATE may fail; the stores only log it
    None

ASSUME QueueAssumption ==
    /\ IsFiniteSet(Workers) /\ ProcOf \in [Workers -> Procs]
    /\ MaxAttempts \in Nat \ {0} /\ MaxFaults \in Nat
    /\ MayPause \in BOOLEAN /\ DbErrors \in BOOLEAN
    /\ None \notin Jobs

VARIABLES
    status,     \* the job's row; "absent" without one
    attempts,   \* claims of the job, as counted in its row
    lease,      \* lease_until: "none", in the future, or passed
    created,    \* the rows in the order of created_at
    staged,     \* whether the job's directory holds its files
    origin,     \* the paused job that a job continues
    doomed,     \* directories a janitor has decided to remove
    rash,       \* history: jobs doomed though the files were needed
    at,         \* the job a thread has claimed
    pc,         \* how far its run is
    runs,       \* how often the handler of a job was started
    charged,    \* how often its recognition was charged
    saved,      \* how often its result was stored
    faults

rowVars  == <<status, attempts, lease, created>>
sweepVars == <<doomed, rash>>
dirVars  == <<staged, origin, sweepVars>>
runVars  == <<at, pc>>
workVars == <<runs, charged, saved>>
vars     == <<rowVars, dirVars, runVars, workVars, faults>>

Terminal == {"done", "failed"}
Closed   == Terminal \cup {"needs_review", "needs_mapping"}
Fresh(j) == status[j] = "absent" /\ origin[j] = None /\ ~staged[j]

Set(f, j, v) == [f EXCEPT ![j] = v]
Count(f, j)  == [f EXCEPT ![j] = @ + 1]

Init ==
    /\ status = [j \in Jobs |-> "absent"] /\ attempts = [j \in Jobs |-> 0]
    /\ lease = [j \in Jobs |-> "none"] /\ created = <<>>
    /\ staged = [j \in Jobs |-> FALSE] /\ origin = [j \in Jobs |-> None]
    /\ doomed = {} /\ rash = {}
    /\ at = [w \in Workers |-> None] /\ pc = [w \in Workers |-> "idle"]
    /\ runs = [j \in Jobs |-> 0] /\ charged = [j \in Jobs |-> 0]
    /\ saved = [j \in Jobs |-> 0]
    /\ faults = 0

-----------------------------------------------------------------------------
(* Routes *)

Insert(j) == status' = Set(status, j, "queued") /\ created' = Append(created, j)

\* The files, then the row.
Submit(j) ==
    /\ Fresh(j)
    /\ staged' = Set(staged, j, TRUE)
    /\ Insert(j)
    /\ UNCHANGED <<attempts, lease, origin, sweepVars, runVars, workVars, faults>>

\* The process dies between the two.
SubmitLost(j) ==
    /\ Fresh(j) /\ faults < MaxFaults
    /\ staged' = Set(staged, j, TRUE)
    /\ faults' = faults + 1
    /\ UNCHANGED <<rowVars, origin, sweepVars, runVars, workVars>>

\* The user corrected the rows of the paused job j: job k gets a copy of
\* whatever files are left ...
CopyFiles(j, k) ==
    /\ status[j] = "needs_review" /\ Fresh(k)
    /\ origin' = Set(origin, k, j)
    /\ staged' = Set(staged, k, staged[j])
    /\ UNCHANGED <<rowVars, sweepVars, runVars, workVars, faults>>

\* ... is queued, and the files of j are removed; j stays in needs_review.
Confirm(k) ==
    /\ status[k] = "absent" /\ origin[k] # None
    /\ Insert(k)
    /\ staged' = Set(staged, origin[k], FALSE)
    /\ UNCHANGED <<attempts, lease, origin, sweepVars, runVars, workVars, faults>>

\* The row of k cannot be inserted: both directories are removed.
ConfirmFails(k) ==
    /\ DbErrors /\ status[k] = "absent" /\ origin[k] # None
    /\ staged' = [staged EXCEPT ![origin[k]] = FALSE, ![k] = FALSE]
    /\ origin' = Set(origin, k, None)
    /\ UNCHANGED <<rowVars, sweepVars, runVars, workVars, faults>>

-----------------------------------------------------------------------------
(* Workers *)

Oldest(j) ==
    \E i \in DOMAIN created :
        /\ created[i] = j /\ status[j] = "queued"
        /\ \A h \in 1..(i - 1) : status[created[h]] # "queued"

ClaimUncounted(w) ==  \* mutant: attempts are not counted
    \E j \in Jobs :
        /\ pc[w] = "idle" /\ Oldest(j)
        /\ status' = Set(status, j, "running") /\ lease' = Set(lease, j, "live")
        /\ at' = Set(at, w, j) /\ pc' = Set(pc, w, "claimed")
        /\ UNCHANGED <<attempts, created, dirVars, workVars, faults>>
ClaimUnleased(w) ==  \* mutant: no lease until the first progress
    \E j \in Jobs :
        /\ pc[w] = "idle" /\ Oldest(j)
        /\ status' = Set(status, j, "running") /\ lease' = lease
        /\ attempts' = Count(attempts, j)
        /\ at' = Set(at, w, j) /\ pc' = Set(pc, w, "claimed")
        /\ UNCHANGED <<created, dirVars, workVars, faults>>
\* claim_next: the oldest queued job, in one statement (SKIP LOCKED).
Claim(w) ==
    \E j \in Jobs :
        /\ pc[w] = "idle" /\ Oldest(j)
        /\ status' = Set(status, j, "running") /\ lease' = Set(lease, j, "live")
        /\ attempts' = Count(attempts, j)
        /\ at' = Set(at, w, j) /\ pc' = Set(pc, w, "claimed")
        /\ UNCHANGED <<created, dirVars, workVars, faults>>

Goto(w, from, to) == pc[w] \in from /\ pc' = Set(pc, w, to) /\ at' = at

\* update_progress: a running row is leased anew, whoever runs it.
Renewed(j) == IF status[j] = "running" THEN Set(lease, j, "live") ELSE lease

\* The handler starts; without files it cannot go on.
Begin(w) ==
    /\ \/ Goto(w, {"claimed"}, "working") /\ staged[at[w]]
       \/ Goto(w, {"claimed"}, "refused") /\ ~staged[at[w]]
       \/ Goto(w, {"claimed"}, "raised") /\ ~staged[at[w]]
    /\ runs' = Count(runs, at[w])
    /\ lease' = Renewed(at[w])
    /\ UNCHANGED <<status, attempts, created, dirVars, charged, saved, faults>>

Progress(w) ==
    /\ pc[w] \in {"working", "parsed", "saved"}
    /\ lease' = Renewed(at[w])
    /\ UNCHANGED <<status, attempts, created, dirVars, runVars, workVars, faults>>

\* The documents are recognized and charged; corrected rows were charged before.
Parse(w) ==
    /\ Goto(w, {"working"}, "parsed")
    /\ charged' = IF origin[at[w]] = None THEN Count(charged, at[w]) ELSE charged
    /\ UNCHANGED <<rowVars, dirVars, runs, saved, faults>>

Store(w) ==
    /\ Goto(w, {"parsed"}, "saved")
    /\ saved' = Count(saved, at[w])
    /\ UNCHANGED <<rowVars, dirVars, runs, charged, faults>>

\* The handler ends otherwise: no document, an error, or a question to the
\* user (asked of recognized rows only, not of corrected ones).
Return(w) ==
    /\ \/ Goto(w, {"working", "parsed"}, "refused")
       \/ Goto(w, {"working", "parsed", "saved"}, "raised")
       \/ MayPause /\ Goto(w, {"parsed"}, "mapping")
       \/ MayPause /\ Goto(w, {"parsed"}, "review") /\ origin[at[w]] = None
    /\ UNCHANGED <<rowVars, dirVars, workVars, faults>>

RequeuedOnceMore(j) == IF attempts[j] <= MaxAttempts THEN "queued" ELSE "failed"  \* mutant
Requeued(j) == IF attempts[j] < MaxAttempts THEN "queued" ELSE "failed"

WrittenUnlessRaised(w) ==  \* mutant: an exception is taken for a success
    CASE pc[w] = "saved"   -> "done"
      [] pc[w] = "refused" -> "failed"
      [] pc[w] = "raised"  -> "done"
      [] pc[w] = "review"  -> "needs_review"
      [] pc[w] = "mapping" -> "needs_mapping"
\* finish, set_failed, fail, set_needs_review, set_needs_mapping.
Written(w) ==
    CASE pc[w] = "saved"   -> "done"
      [] pc[w] = "refused" -> "failed"
      [] pc[w] = "raised"  -> Requeued(at[w])
      [] pc[w] = "review"  -> "needs_review"
      [] pc[w] = "mapping" -> "needs_mapping"

AfterAlways(w) == "cleanup"  \* mutant: the files of a paused job are removed
After(w) == IF pc[w] = "review" THEN "kept" ELSE "cleanup"

\* The result is written to the row, or the statement fails and is logged.
Report(w) ==
    /\ Goto(w, {"saved", "refused", "raised", "review", "mapping"}, After(w))
    /\ \/ status' = Set(status, at[w], Written(w)) /\ lease' = Set(lease, at[w], "none")
       \/ DbErrors /\ UNCHANGED <<status, lease>>
    /\ UNCHANGED <<attempts, created, dirVars, workVars, faults>>

\* The thread ends; it removes the files unless the user was asked.
Leave(w) ==
    /\ pc[w] \in {"cleanup", "kept"}
    /\ staged' = IF pc[w] = "kept" THEN staged ELSE Set(staged, at[w], FALSE)
    /\ at' = Set(at, w, None) /\ pc' = Set(pc, w, "idle")
    /\ UNCHANGED <<rowVars, origin, sweepVars, workVars, faults>>

Crash(p) ==
    /\ faults < MaxFaults
    /\ faults' = faults + 1
    /\ at' = [w \in Workers |-> IF ProcOf[w] = p THEN None ELSE at[w]]
    /\ pc' = [w \in Workers |-> IF ProcOf[w] = p THEN "idle" ELSE pc[w]]
    /\ UNCHANGED <<rowVars, dirVars, workVars>>

-----------------------------------------------------------------------------
(* Time, the reclaim of every worker loop, and the janitor *)

LeaseEnds(j) ==
    /\ lease[j] = "live"
    /\ lease' = Set(lease, j, "over")
    /\ UNCHANGED <<status, attempts, created, dirVars, runVars, workVars, faults>>

Stale == {j \in Jobs : status[j] = "running" /\ lease[j] = "over"}

ReclaimStale ==
    /\ Stale # {}
    /\ status' = [j \in Jobs |-> IF j \in Stale THEN Requeued(j) ELSE status[j]]
    /\ lease' = [j \in Jobs |-> IF j \in Stale THEN "none" ELSE lease[j]]
    /\ UNCHANGED <<attempts, created, dirVars, runVars, workVars, faults>>

SweepableUnlessRunning(found) == found # "running"  \* mutant: spares running jobs only
SweepableRowless(found) == found = "absent"         \* mutant: spares jobs with a row
\* What the janitor removes, by the status that get_status_map returned.
Sweepable(found) == found \in Terminal \cup {"absent"}

\* Directories of 48 hours, counted from the upload: the job may be waiting,
\* or under way, but no request is still copying files.
Old == {j \in Jobs : staged[j] /\ (status[j] = "absent" => origin[j] = None)}

\* The row would have spared the directory, or a thread is yet to answer.
Answering(w) == pc[w] \notin {"cleanup", "kept"}
Needed(j) ==
    ~Sweepable(status[j]) \/ \E w \in Workers : at[w] = j /\ Answering(w)

\* The directories are to be removed, whether their jobs need them or not.
Doom(dirs) ==
    /\ doomed' = doomed \cup dirs
    /\ rash' = rash \cup {j \in dirs : Needed(j)}
    /\ UNCHANGED <<rowVars, staged, origin, runVars, workVars>>

Look(j) ==
    /\ j \in Old \ doomed /\ Sweepable(status[j])
    /\ Doom({j})
    /\ faults' = faults

\* The SELECT fails, is logged and returns no row: any old directory goes.
LookFails ==
    /\ faults < MaxFaults /\ Sweepable("absent")
    /\ \E dirs \in SUBSET Old : dirs # {} /\ Doom(dirs)
    /\ faults' = faults + 1

\* The removal, later and whatever became of the job.
Sweep(j) ==
    /\ j \in doomed
    /\ doomed' = doomed \ {j} /\ rash' = rash
    /\ staged' = Set(staged, j, FALSE)
    /\ UNCHANGED <<rowVars, origin, runVars, workVars, faults>>

-----------------------------------------------------------------------------
RouteStep(j) ==
    \/ Submit(j) \/ SubmitLost(j) \/ Confirm(j) \/ ConfirmFails(j)
    \/ \E k \in Jobs : CopyFiles(j, k)

ThreadStep(w) ==
    \/ Claim(w) \/ Begin(w) \/ Progress(w) \/ Parse(w) \/ Store(w)
    \/ Return(w) \/ Report(w) \/ Leave(w)

Next ==
    \/ \E j \in Jobs : RouteStep(j) \/ LeaseEnds(j) \/ Look(j) \/ Sweep(j)
    \/ \E w \in Workers : ThreadStep(w)
    \/ \E p \in Procs : Crash(p)
    \/ ReclaimStale
    \/ LookFails

Spec == Init /\ [][Next]_vars

\* Fairness: the loops of the processes claim and reclaim, a handler comes to
\* an end (its calls have time-outs), time passes, the janitor runs.
\* Uploads, confirmations, progress and faults are free.
Works(w) ==
    \/ Claim(w) \/ Begin(w) \/ Parse(w) \/ Store(w)
    \/ Return(w) \/ Report(w) \/ Leave(w)
Janitor == \E j \in Jobs : Look(j) \/ Sweep(j)
Fairness ==
    /\ \A w \in Workers : WF_vars(Works(w))
    /\ WF_vars(ReclaimStale) /\ WF_vars(Janitor)
    /\ WF_vars(\E j \in Jobs : LeaseEnds(j))

FairSpec == Spec /\ Fairness

-----------------------------------------------------------------------------
(* Properties *)

Pc == {"idle", "claimed", "working", "parsed", "saved", "refused", "raised",
       "review", "mapping", "cleanup", "kept"}

RowTypeOK ==
    /\ status \in [Jobs -> {"absent", "queued", "running"} \cup Closed]
    /\ attempts \in [Jobs -> 0..MaxAttempts]
    /\ lease \in [Jobs -> {"none", "live", "over"}]
    /\ created \in Seq(Jobs)

DirTypeOK ==
    /\ staged \in [Jobs -> BOOLEAN] /\ origin \in [Jobs -> Jobs \cup {None}]
    /\ doomed \subseteq Jobs /\ rash \subseteq Jobs

RunTypeOK ==
    /\ pc \in [Workers -> Pc] /\ at \in [Workers -> Jobs \cup {None}]
    /\ \A w \in Workers : pc[w] = "idle" <=> at[w] = None
    /\ faults \in 0..MaxFaults

WorkTypeOK ==
    /\ runs \in [Jobs -> Nat] /\ charged \in [Jobs -> Nat] /\ saved \in [Jobs -> Nat]

\* Types; no job is claimed more often than its row allows.
TypeOK == RowTypeOK /\ DirTypeOK /\ RunTypeOK /\ WorkTypeOK

\* A job runs, is charged and stores its result at most max_attempts times,
\* whatever threads outlive their lease and write late (ocr/jobs/store.py:
\* at most one run, hence at most one charge).
RunsAtMost ==
    \A j \in Jobs :
        /\ runs[j] <= MaxAttempts /\ charged[j] <= runs[j] /\ saved[j] <= runs[j]

\* Rows a user corrected are not charged a second time (confirm-rows).
CorrectedIsFree == \A j \in Jobs : origin[j] # None => charged[j] = 0

\* Done means that the result was stored, even when the answer comes late.
DoneIsStored == \A j \in Jobs : status[j] = "done" => saved[j] > 0

\* An uploaded job keeps its files until its only run has begun, whatever
\* reclaim, confirmations, threads of other jobs and janitors do -- but for a
\* janitor whose lookup failed: it takes the waiting jobs' files as well.
UploadKept ==
    \A j \in Jobs :
        /\ status[j] \in {"queued", "running"} /\ runs[j] = 0
        /\ origin[j] = None /\ j \notin rash
        => staged[j]

\* A job is put before the user with its files, and only a confirmation takes
\* them away: not the thread that ends, nor a janitor -- unless its lookup
\* failed, or found the job written off while the late thread was on it.
PausedKept ==
    [][\A j \in Jobs :
          status'[j] = "needs_review" /\ ~staged'[j] /\ j \notin rash =>
              /\ status[j] = "needs_review"
              /\ staged[j] => \E k \in Jobs : origin[k] = j /\ status[k] = "absent"]_vars

\* What a job came to is not taken back, neither by the answer of a thread
\* that was given up nor by the reclaim: only a job written off as failed may
\* yet be told otherwise, by the thread thought lost.
OutcomeStands ==
    [][\A j \in Jobs :
          status[j] \in Closed \ {"failed"} => status'[j] = status[j]]_vars

\* Every queued or running job is closed or put before the user in the end,
\* though processes die and results are lost.
JobsClose ==
    \A j \in Jobs : status[j] \in {"queued", "running"} ~> status[j] \in Closed

\* The files of a job that is over are removed, unless the late answer of a
\* thread thought lost puts the job before the user after all.
FilesGo ==
    \A j \in Jobs : status[j] \in Terminal ~> ~staged[j] \/ status[j] \notin Terminal

\* (Divergence.)  Every queued job has its files: the job a confirmation
\* starts is self-contained (bank_v2_confirm_rows).
QueuedHasFiles == \A j \in Jobs : status[j] = "queued" => staged[j]
=============================================================================
