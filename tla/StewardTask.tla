---------------------------- MODULE StewardTask ----------------------------
(***************************************************************************)
(* The task queue of the steward (services/steward): rows of steward_tasks *)
(* that workers claim under a lease.  A task is one tool, or a loop of a   *)
(* language model over tools, which may stop to ask the accountant or to   *)
(* have a write approved on a card, and is then claimed again.             *)
(*                                                                         *)
(* A run is a coroutine of a worker and the thread it waits for: when the  *)
(* coroutine's time is over, the thread goes on.  One action is one        *)
(* transaction, or one statement of a transaction that reads a row without *)
(* locking it and writes later.  The loop works on a copy of payload.loop  *)
(* and writes it back whole.                                               *)
(***************************************************************************)
EXTENDS Naturals, Sequences

CONSTANTS
    Tasks,
    Runs,          \* runs that exist at once
    Tokens,        \* one-time tokens of authorization cards
    Answers,       \* messages that answer a question
    Writes,        \* what the model may want to write: a tool and its arguments
    MaxAsks,       \* brain_loop.MAX_ASKS; 1 in the code
    None

ASSUME StewardAssumption ==
    /\ MaxAsks \in Nat
    /\ None \notin Tasks \cup Tokens \cup Writes

VARIABLES
    kind,       \* what a task is: a "loop", or one tool that reads or writes
    status,     \* its row; "absent" without one
    claimed,    \* whether worker_id is set
    lease,      \* lease_until: "none", in the future, or passed
    old,        \* whether created_at is older than the time-out
    writer,     \* whether payload.tool is a tool that writes
    loop,       \* payload.loop; of a single write only the arguments
    card,       \* payload.authorization
    token,      \* the state of a token
    ref,        \* the task and the arguments it was minted for
    cancelling, \* tasks a request is about to cancel
    answer,     \* the task an answer was read for, with the loop it saw
    at,         \* the task of a run
    pc,         \* where its thread is
    timer,      \* its coroutine: "off", "on", or "late": a failure to be written
    mem,        \* the thread's copy of the loop
    grant,      \* the card as it was when the task was claimed
    approved,   \* what a person approved for a task (history)
    written     \* what was written for it, in order (history)

rowVars  == <<kind, status, claimed, lease, old, writer, loop, card>>
userVars == <<token, ref, cancelling, answer>>
runVars  == <<at, pc, timer, mem, grant>>
pastVars == <<approved, written>>
vars     == <<rowVars, userVars, runVars, pastVars>>

Set(f, x, v) == [f EXCEPT ![x] = v]

EmptyLoop == [asked |-> 0, wrote |-> FALSE, pending |-> None, question |-> FALSE]
NoCard    == [token |-> None, args |-> None, state |-> "none"]
NoRef     == [task |-> None, args |-> None]
NoAnswer  == [task |-> None, saw |-> EmptyLoop]

Init ==
    /\ kind = [k \in Tasks |-> "none"] /\ status = [k \in Tasks |-> "absent"]
    /\ claimed = [k \in Tasks |-> FALSE] /\ lease = [k \in Tasks |-> "none"]
    /\ old = [k \in Tasks |-> FALSE] /\ writer = [k \in Tasks |-> FALSE]
    /\ loop = [k \in Tasks |-> EmptyLoop] /\ card = [k \in Tasks |-> NoCard]
    /\ token = [c \in Tokens |-> "blank"] /\ ref = [c \in Tokens |-> NoRef]
    /\ cancelling = {} /\ answer = [a \in Answers |-> NoAnswer]
    /\ at = [r \in Runs |-> None] /\ pc = [r \in Runs |-> "over"]
    /\ timer = [r \in Runs |-> "off"] /\ mem = [r \in Runs |-> EmptyLoop]
    /\ grant = [r \in Runs |-> NoCard]
    /\ approved = [k \in Tasks |-> {}] /\ written = [k \in Tasks |-> <<>>]

Open(k) == status[k] \in {"running", "waiting"}

-----------------------------------------------------------------------------
(* What statements do to a row *)

FinishAny(k, verdict) ==  \* mutant: whatever its status is
    /\ status' = Set(status, k, verdict)
    /\ claimed' = Set(claimed, k, FALSE) /\ lease' = Set(lease, k, "none")

\* finish_task: an open task is closed; the row of a closed one stays.
Finish(k, verdict) ==
    IF Open(k)
    THEN /\ status' = Set(status, k, verdict)
         /\ claimed' = Set(claimed, k, FALSE) /\ lease' = Set(lease, k, "none")
    ELSE UNCHANGED <<status, claimed, lease>>

\* park_waiting: the task waits for the user and is nobody's.
Park(k) ==
    /\ status' = Set(status, k, "waiting")
    /\ claimed' = Set(claimed, k, FALSE) /\ lease' = Set(lease, k, "none")

\* resume_task, _resume_running: to be claimed again, with a lease of its own.
Resume(k) ==
    /\ status' = Set(status, k, "running")
    /\ claimed' = Set(claimed, k, FALSE) /\ lease' = Set(lease, k, "live")

\* update_payload: an open task's loop is replaced as a whole.
Saved(k, l) == IF Open(k) THEN Set(loop, k, l) ELSE loop

\* open_request: a token for a write of task k, and the card that shows it.
Mint(c, k, x) ==
    /\ token[c] = "blank"
    /\ token' = Set(token, c, "live")
    /\ ref' = Set(ref, c, [task |-> k, args |-> x])
Card(c, x, st) == [token |-> c, args |-> x, state |-> st]

-----------------------------------------------------------------------------
(* Requests *)

\* A task is queued: a loop, or a tool that reads.
Create(k, kd) ==
    /\ status[k] = "absent"
    /\ kind' = Set(kind, k, kd) /\ status' = Set(status, k, "running")
    /\ UNCHANGED <<claimed, lease, old, writer, loop, card, userVars, runVars, pastVars>>

\* A tool that writes: queued together with its card, waiting for approval.
CreateWrite(k, c, x) ==
    /\ status[k] = "absent"
    /\ kind' = Set(kind, k, "write") /\ writer' = Set(writer, k, TRUE)
    /\ loop' = [loop EXCEPT ![k].pending = x]
    /\ Mint(c, k, x) /\ card' = Set(card, k, Card(c, x, "pending"))
    /\ Park(k)
    /\ UNCHANGED <<old, cancelling, answer, runVars, pastVars>>

\* The cancellation looks at status and tool, and then writes.
CancelRead(k) ==
    /\ status[k] = "running" /\ ~writer[k] /\ k \notin cancelling
    /\ cancelling' = cancelling \cup {k}
    /\ UNCHANGED <<rowVars, token, ref, answer, runVars, pastVars>>

CancelWrite(k) ==
    /\ k \in cancelling /\ cancelling' = cancelling \ {k}
    /\ IF status[k] = "running" THEN Finish(k, "cancelled")
       ELSE UNCHANGED <<status, claimed, lease>>
    /\ UNCHANGED <<kind, old, writer, loop, card, token, ref, answer, runVars, pastVars>>

\* find_waiting_question: the next message is taken for the answer ...
AnswerRead(a, k) ==
    /\ answer[a].task = None
    /\ status[k] = "waiting" /\ loop[k].question
    /\ answer' = Set(answer, a, [task |-> k, saw |-> loop[k]])
    /\ UNCHANGED <<rowVars, token, ref, cancelling, runVars, pastVars>>

\* ... and in another transaction put into the loop that was read then.
AnswerWrite(a) ==
    LET k == answer[a].task
    IN  /\ k # None
        /\ answer' = Set(answer, a, NoAnswer)
        /\ loop' = Saved(k, [answer[a].saw EXCEPT !.question = FALSE])
        /\ IF status[k] = "waiting" THEN Resume(k) ELSE UNCHANGED <<status, claimed, lease>>
        /\ UNCHANGED <<kind, old, writer, card, token, ref, cancelling, runVars, pastVars>>

TokenExpires(c) ==
    /\ token[c] = "live" /\ token' = Set(token, c, "spent")
    /\ UNCHANGED <<rowVars, ref, cancelling, answer, runVars, pastVars>>

OnCard(c) == card[ref[c].task].token = c /\ card[ref[c].task].state = "pending"

\* decide: the token is consumed and the card read; a card that was replaced
\* or decided is stale.
ApproveRead(c) ==
    /\ token[c] = "live"
    /\ token' = Set(token, c, IF OnCard(c) THEN "approving" ELSE "spent")
    /\ UNCHANGED <<rowVars, ref, cancelling, answer, runVars, pastVars>>

\* The card as it was read is written over whatever card a waiting task has.
ApproveWrite(c) ==
    LET k == ref[c].task
    IN  /\ token[c] = "approving" /\ token' = Set(token, c, "spent")
        /\ IF status[k] = "waiting"
           THEN /\ Resume(k) /\ card' = Set(card, k, Card(c, ref[c].args, "approved"))
                /\ approved' = Set(approved, k, approved[k] \cup {ref[c].args})
           ELSE UNCHANGED <<status, claimed, lease, card, approved>>
        /\ UNCHANGED <<kind, old, writer, loop, ref, cancelling, answer, runVars, written>>

RejectRead(c) ==
    /\ token[c] = "live"
    /\ token' = Set(token, c, IF OnCard(c) THEN "rejecting" ELSE "spent")
    /\ UNCHANGED <<rowVars, ref, cancelling, answer, runVars, pastVars>>

RejectWrite(c) ==
    LET k == ref[c].task
    IN  /\ token[c] = "rejecting" /\ token' = Set(token, c, "spent")
        /\ card' = Set(card, k, Card(c, ref[c].args, "rejected"))
        /\ Finish(k, "cancelled")
        /\ UNCHANGED <<kind, old, writer, loop, ref, cancelling, answer, runVars, pastVars>>

-----------------------------------------------------------------------------
(* Runs *)

\* claim_next_task: the row is locked for the one statement; the run works on
\* what it returned.
Claim(r, k) ==
    /\ at[r] = None /\ status[k] = "running" /\ ~claimed[k]
    /\ claimed' = Set(claimed, k, TRUE) /\ lease' = Set(lease, k, "live")
    /\ at' = Set(at, r, k) /\ timer' = Set(timer, r, "on")
    /\ mem' = Set(mem, r, loop[k]) /\ grant' = Set(grant, r, card[k])
    /\ pc' = Set(pc, r, IF kind[k] # "loop" \/ loop[k].pending # None THEN "begin" ELSE "loop")
    /\ UNCHANGED <<kind, status, old, writer, loop, card, userVars, pastVars>>

\* The thread of r ends; the coroutine with it, unless its time was over.
Release(r, late) ==
    /\ pc' = Set(pc, r, "over")
    /\ timer' = Set(timer, r, IF late THEN "late" ELSE "off")
    /\ at' = IF late THEN at ELSE Set(at, r, None)
    /\ mem' = Set(mem, r, EmptyLoop) /\ grant' = Set(grant, r, NoCard)
End(r) == Release(r, timer[r] = "late")

Goto(r, from, to) == pc[r] \in from /\ pc' = Set(pc, r, to)

GrantedAny(r) == grant[r].state = "approved"  \* mutant: the arguments are not compared

\* execution_error: a card approved for these very arguments.
Granted(r) == grant[r].state = "approved" /\ grant[r].args = mem[r].pending

\* tools.run of a write: refused, failed, or done, whatever it reports then.
Write(r) ==
    /\ mem[r].pending # None
    /\ \/ /\ Granted(r)
          /\ written' = [written EXCEPT ![at[r]] = Append(@, mem[r].pending)]
          /\ \E to \in {"ran", "failed"} : Goto(r, {"begin"}, to)
       \/ Goto(r, {"begin"}, "failed") /\ UNCHANGED written
    /\ mem' = [mem EXCEPT ![r].pending = None, ![r].wrote = TRUE]
    /\ UNCHANGED <<rowVars, userVars, at, timer, grant, approved>>

\* A tool that reads, as a task of its own.
Read(r) ==
    /\ mem[r].pending = None
    /\ \E to \in {"ran", "failed"} : Goto(r, {"begin"}, to)
    /\ UNCHANGED <<rowVars, userVars, at, timer, mem, grant, pastVars>>

\* _finalize_result: nothing, when the coroutine has given up.
Conclude(r) ==
    /\ pc[r] \in {"ran", "failed"} /\ kind[at[r]] # "loop"
    /\ IF timer[r] = "on"
       THEN Finish(at[r], IF pc[r] = "ran" THEN "done" ELSE "failed")
       ELSE UNCHANGED <<status, claimed, lease>>
    /\ End(r)
    /\ UNCHANGED <<kind, old, writer, loop, card, userVars, pastVars>>

Save(r) == loop' = Saved(at[r], mem[r])

\* _land after the approved write; a failed one ends the loop.
Land(r) ==
    /\ \/ Goto(r, {"ran"}, "loop")
       \/ Goto(r, {"failed"}, "closing")
    /\ kind[at[r]] = "loop" /\ Save(r)
    /\ UNCHANGED <<kind, status, claimed, lease, old, writer, card, userVars, at, timer, mem,
                   grant, pastVars>>

\* _stopped: a task that is no longer running is left alone.
Look(r) ==
    /\ pc[r] = "loop"
    /\ IF status[at[r]] = "running"
       THEN Goto(r, {"loop"}, "asking") /\ UNCHANGED <<at, timer, mem, grant>>
       ELSE End(r)
    /\ UNCHANGED <<rowVars, userVars, pastVars>>

\* The model was asked for the next step, or when the steps are used up for a
\* reply, and then the task is not looked at first.
Decide(r) ==
    /\ Goto(r, {"asking"}, "decided") \/ Goto(r, {"loop"}, "replying")
    /\ Save(r)
    /\ UNCHANGED <<kind, status, claimed, lease, old, writer, card, userVars, at, timer, mem,
                   grant, pastVars>>

\* A tool that reads, which is saved, or a step that is refused, which is not.
GoOn(r) ==
    /\ Goto(r, {"decided"}, "loop")
    /\ Save(r) \/ UNCHANGED loop
    /\ UNCHANGED <<kind, status, claimed, lease, old, writer, card, userVars, at, timer, mem,
                   grant, pastVars>>

MayAskMore(l) == l.asked <= MaxAsks  \* mutant: one question more

MayAsk(l) == l.asked < MaxAsks

\* _ask: saved and parked in one transaction, and the thread ends.
Ask(r) ==
    LET k == at[r]
        l == [mem[r] EXCEPT !.asked = @ + 1, !.question = TRUE]
    IN  /\ pc[r] = "decided" /\ MayAsk(mem[r])
        /\ loop' = Saved(k, l)
        /\ IF Open(k) THEN Park(k) ELSE UNCHANGED <<status, claimed, lease>>
        /\ End(r)
        /\ UNCHANGED <<kind, old, writer, card, userVars, pastVars>>

MayWrite(l) == ~l.wrote

\* _write, _park_for_auth: the write is put on a card, and the thread ends.
Propose(r, c, x) ==
    LET k == at[r]
    IN  /\ pc[r] = "decided" /\ MayWrite(mem[r])
        /\ loop' = Saved(k, [mem[r] EXCEPT !.pending = x])
        /\ Mint(c, k, x)
        /\ IF Open(k)
           THEN /\ Park(k) /\ card' = Set(card, k, Card(c, x, "pending"))
                /\ writer' = Set(writer, k, TRUE)
           ELSE UNCHANGED <<status, claimed, lease, card, writer>>
        /\ End(r)
        /\ UNCHANGED <<kind, old, cancelling, answer, pastVars>>

\* _done: a reply, a failure, or the budget or the calls are used up.
Close(r) ==
    /\ \/ /\ pc[r] \in {"loop", "asking", "decided", "replying"}
          /\ \E verdict \in {"done", "failed"} : Finish(at[r], verdict)
       \/ pc[r] = "closing" /\ Finish(at[r], "failed")
    /\ End(r)
    /\ UNCHANGED <<kind, old, writer, loop, card, userVars, pastVars>>

\* The thread raises, or cannot start: the coroutine, when it is still there,
\* is to write a failure.
Raise(r) ==
    /\ pc[r] # "over" /\ Release(r, timer[r] # "off")
    /\ UNCHANGED <<rowVars, userVars, pastVars>>

\* wait_for gives up; the thread goes on.
TimeOut(r) ==
    /\ timer[r] = "on" /\ timer' = Set(timer, r, "late")
    /\ UNCHANGED <<rowVars, userVars, at, pc, mem, grant, pastVars>>

\* _finalize_failure, in a thread of its own, some time later; it may fail.
FailLate(r) ==
    /\ timer[r] = "late" /\ timer' = Set(timer, r, "off")
    /\ Finish(at[r], "failed") \/ UNCHANGED <<status, claimed, lease>>
    /\ at' = IF pc[r] = "over" THEN Set(at, r, None) ELSE at
    /\ UNCHANGED <<kind, old, writer, loop, card, userVars, pc, mem, grant, pastVars>>

Crash(r) ==
    /\ at[r] # None /\ Release(r, FALSE)
    /\ UNCHANGED <<rowVars, userVars, pastVars>>

-----------------------------------------------------------------------------
(* Time, and heal_stale: of every worker loop and of whoever looks at a task *)

LeaseEnds(k) ==
    /\ lease[k] = "live" /\ lease' = Set(lease, k, "over")
    /\ UNCHANGED <<kind, status, claimed, old, writer, loop, card, userVars, runVars, pastVars>>

Ages(k) ==
    /\ status[k] # "absent" /\ ~old[k] /\ old' = Set(old, k, TRUE)
    /\ UNCHANGED <<kind, status, claimed, lease, writer, loop, card, userVars, runVars, pastVars>>

StaleLease(k) ==  \* mutant: a task nobody ever claimed is not stale
    status[k] = "running" /\ lease[k] = "over"

Stale(k) ==
    /\ status[k] = "running"
    /\ lease[k] = "over" \/ (lease[k] = "none" /\ old[k])

Requeue(k) ==  \* mutant: a stale task is queued again
    /\ Stale(k) /\ Resume(k)
    /\ UNCHANGED <<kind, old, writer, loop, card, userVars, runVars, pastVars>>

Heal(k) ==
    /\ Stale(k) /\ Finish(k, "failed")
    /\ UNCHANGED <<kind, old, writer, loop, card, userVars, runVars, pastVars>>

-----------------------------------------------------------------------------
TaskStep(k) ==
    \/ \E kd \in {"loop", "read"} : Create(k, kd)
    \/ \E c \in Tokens, x \in Writes : CreateWrite(k, c, x)
    \/ CancelRead(k) \/ CancelWrite(k) \/ LeaseEnds(k) \/ Ages(k) \/ Heal(k)
    \/ \E a \in Answers : AnswerRead(a, k)

TokenStep(c) ==
    TokenExpires(c) \/ ApproveRead(c) \/ ApproveWrite(c) \/ RejectRead(c) \/ RejectWrite(c)

RunStep(r) ==
    \/ \E k \in Tasks : Claim(r, k)
    \/ Write(r) \/ Read(r) \/ Conclude(r) \/ Land(r) \/ Look(r) \/ Decide(r) \/ GoOn(r)
    \/ Ask(r) \/ (\E c \in Tokens, x \in Writes : Propose(r, c, x)) \/ Close(r)
    \/ Raise(r) \/ TimeOut(r) \/ FailLate(r) \/ Crash(r)

Next ==
    \/ \E k \in Tasks : TaskStep(k)
    \/ \E c \in Tokens : TokenStep(c)
    \/ \E a \in Answers : AnswerWrite(a)
    \/ \E r \in Runs : RunStep(r)

Spec == Init /\ [][Next]_vars

\* Fairness: time passes, and the loops of the workers, or the page that polls
\* a task, heal it.  No worker has to claim or to come to an end.
Fairness == \A k \in Tasks : WF_vars(LeaseEnds(k)) /\ WF_vars(Ages(k)) /\ WF_vars(Heal(k))

FairSpec == Spec /\ Fairness

-----------------------------------------------------------------------------
(* Properties *)

Loop == [asked : 0..MaxAsks, wrote : BOOLEAN, pending : Writes \cup {None}, question : BOOLEAN]
CardType == [token : Tokens \cup {None}, args : Writes \cup {None},
             state : {"none", "pending", "approved", "rejected"}]

RowTypeOK ==
    /\ kind \in [Tasks -> {"none", "loop", "read", "write"}]
    /\ status \in [Tasks -> {"absent", "running", "waiting", "done", "failed", "cancelled"}]
    /\ claimed \in [Tasks -> BOOLEAN] /\ lease \in [Tasks -> {"none", "live", "over"}]
    /\ old \in [Tasks -> BOOLEAN] /\ writer \in [Tasks -> BOOLEAN]
    /\ loop \in [Tasks -> Loop] /\ card \in [Tasks -> CardType]

UserTypeOK ==
    /\ token \in [Tokens -> {"blank", "live", "approving", "rejecting", "spent"}]
    /\ ref \in [Tokens -> [task : Tasks \cup {None}, args : Writes \cup {None}]]
    /\ \A c \in Tokens : token[c] # "blank" => ref[c] \in [task : Tasks, args : Writes]
    /\ cancelling \subseteq Tasks
    /\ answer \in [Answers -> [task : Tasks \cup {None}, saw : Loop]]

RunTypeOK ==
    /\ at \in [Runs -> Tasks \cup {None}]
    /\ pc \in [Runs -> {"over", "begin", "ran", "failed", "loop", "asking", "decided",
                    "replying", "closing"}]
    /\ timer \in [Runs -> {"off", "on", "late"}]
    /\ mem \in [Runs -> Loop] /\ grant \in [Runs -> CardType]
    /\ \A r \in Runs : (at[r] = None) <=> (pc[r] = "over" /\ timer[r] = "off")

PastTypeOK ==
    approved \in [Tasks -> SUBSET Writes] /\ written \in [Tasks -> Seq(Writes)]

\* Types; no task asks more questions than MAX_ASKS, whatever copy of the loop
\* is written back.
TypeOK == RowTypeOK /\ UserTypeOK /\ RunTypeOK /\ PastTypeOK

\* Two threads never work on one task, though threads outlive their time-out
\* and the task they run is closed, parked or claimed again.
Live(r) == pc[r] # "over"
OneThread == \A r, s \in Runs : (Live(r) /\ Live(s) /\ at[r] = at[s]) => r = s

\* A task writes at most once, and only what a person approved on a card of
\* that task (loop_run.py: one write per task; what she checked is what is
\* written), though answers and approvals overwrite newer loops and cards.
WriteOnce ==
    \A k \in Tasks :
        /\ Len(written[k]) <= 1
        /\ \A i \in DOMAIN written[k] : written[k][i] \in approved[k]

\* What the accountant sees of a task, and who works on it.
Worked(k) == \E r \in Runs : Live(r) /\ at[r] = k

Errands(k) == INSTANCE Errand WITH
    state    <- status[k],
    busy     <- Worked(k),
    approved <- approved[k],
    written  <- written[k]

(* Every task keeps what Errand promises: store.py lets nobody but a       *)
(* person wake a waiting task and nobody reopen a closed one, although     *)
(* claims, answers, approvals, cancellations, late failures and healing    *)
(* all write to the row without naming the run or the card they mean.      *)
TasksAreErrands ==
    /\ \A k \in Tasks : Errands(k)!Init
    /\ [][\A k \in Tasks : UNCHANGED Errands(k)!vars \/ Errands(k)!Next]_vars

\* No task is shown as running for ever, be all workers dead (heal_stale).
RunningEnds == \A k \in Tasks : status[k] = "running" ~> status[k] # "running"
=============================================================================
