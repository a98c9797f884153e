------------------------- MODULE StewardTaskProofs -------------------------
(***************************************************************************)
(* What holds of StewardTask for any tasks, runs, tokens, answers and      *)
(* writes.  Only WritesOnce needs MAX_ASKS = 1.                            *)
(***************************************************************************)
EXTENDS StewardTask, TLAPS

LEMMA Instance == MaxAsks \in Nat /\ None \notin Tasks \cup Tokens \cup Writes
BY StewardAssumption DEF StewardAssumption

-----------------------------------------------------------------------------
(* Types *)

LEMMA Records ==
    /\ EmptyLoop \in Loop /\ NoCard \in CardType
    /\ NoRef \in [task : Tasks \cup {None}, args : Writes \cup {None}]
    /\ NoAnswer \in [task : Tasks \cup {None}, saw : Loop]
BY Instance DEF EmptyLoop, NoCard, NoRef, NoAnswer, Loop, CardType

LEMMA InitType == Init => TypeOK
<1> SUFFICES ASSUME Init PROVE TypeOK
    OBVIOUS
<1>1. RowTypeOK
  BY Records DEF Init, RowTypeOK
<1>2. UserTypeOK
  BY Records DEF Init, UserTypeOK
<1>3. RunTypeOK
  BY Records DEF Init, RunTypeOK
<1>4. PastTypeOK
  BY DEF Init, PastTypeOK
<1> QED
  BY <1>1, <1>2, <1>3, <1>4 DEF TypeOK

\* What the parts of an action leave in order.
LEMMA StatusStep ==
    ASSUME RowTypeOK, NEW k,
           \/ Park(k) \/ Resume(k)
           \/ \E v \in {"done", "failed", "cancelled"} : Finish(k, v)
           \/ UNCHANGED <<status, claimed, lease>>
    PROVE  /\ status' \in [Tasks -> {"absent", "running", "waiting", "done", "failed", "cancelled"}]
           /\ claimed' \in [Tasks -> BOOLEAN] /\ lease' \in [Tasks -> {"none", "live", "over"}]
BY DEF RowTypeOK, Park, Resume, Finish, Set

LEMMA LoopStep ==
    ASSUME RowTypeOK, NEW k, NEW l \in Loop, loop' = Saved(k, l) PROVE loop' \in [Tasks -> Loop]
BY DEF RowTypeOK, Saved, Set

LEMMA CardStep ==
    ASSUME RowTypeOK, NEW k, NEW c \in Tokens, NEW x \in Writes,
           NEW st \in {"pending", "approved", "rejected"}, card' = Set(card, k, Card(c, x, st))
    PROVE  card' \in [Tasks -> CardType]
<1>1. Card(c, x, st) \in CardType
  BY DEF Card, CardType
<1> QED
  BY <1>1 DEF RowTypeOK, Set

LEMMA MintStep ==
    ASSUME UserTypeOK, NEW c \in Tokens, NEW k \in Tasks, NEW x \in Writes, Mint(c, k, x),
           UNCHANGED <<cancelling, answer>>
    PROVE  UserTypeOK'
<1>1. [task |-> k, args |-> x] \in [task : Tasks, args : Writes]
  OBVIOUS
<1> QED
  BY <1>1 DEF UserTypeOK, Mint, Set

LEMMA TokenStep0 ==
    ASSUME UserTypeOK, NEW c \in Tokens, token[c] # "blank",
           NEW st \in {"approving", "rejecting", "spent"}, token' = Set(token, c, st),
           UNCHANGED <<ref, cancelling, answer>>
    PROVE  UserTypeOK'
BY DEF UserTypeOK, Set

LEMMA ReleaseStep ==
    ASSUME RunTypeOK, NEW r \in Runs, NEW late \in BOOLEAN, Release(r, late), at[r] # None,
           late => timer[r] # "off"
    PROVE  RunTypeOK'
BY Records DEF RunTypeOK, Release, Set

LEMMA EndStep == ASSUME RunTypeOK, NEW r \in Runs, End(r), pc[r] # "over" PROVE RunTypeOK'
BY ReleaseStep DEF RunTypeOK, End

LEMMA GotoStep ==
    ASSUME RunTypeOK, NEW r \in Runs, NEW from, NEW to, Goto(r, from, to), "over" \notin from,
           to \in {"ran", "failed", "loop", "asking", "decided", "replying", "closing"},
           UNCHANGED <<at, timer, grant>>, mem' \in [Runs -> Loop]
    PROVE  RunTypeOK'
BY DEF RunTypeOK, Goto, Set

LEMMA Working ==
    ASSUME RunTypeOK, NEW r \in Runs, pc[r] # "over" \/ timer[r] # "off"
    PROVE  at[r] \in Tasks
BY DEF RunTypeOK

LEMMA SameRow == ASSUME RowTypeOK, UNCHANGED rowVars PROVE RowTypeOK'
BY DEF RowTypeOK, rowVars

LEMMA SameUser == ASSUME UserTypeOK, UNCHANGED userVars PROVE UserTypeOK'
BY DEF UserTypeOK, userVars

LEMMA SameRun == ASSUME RunTypeOK, UNCHANGED runVars PROVE RunTypeOK'
BY DEF RunTypeOK, runVars

LEMMA SamePast == ASSUME PastTypeOK, UNCHANGED pastVars PROVE PastTypeOK'
BY DEF PastTypeOK, pastVars

LEMMA RequestType ==
    ASSUME TypeOK, NEW k \in Tasks,
           \/ \E kd \in {"loop", "read"} : Create(k, kd)
           \/ \E c \in Tokens, x \in Writes : CreateWrite(k, c, x)
           \/ CancelRead(k) \/ CancelWrite(k) \/ \E a \in Answers : AnswerRead(a, k)
    PROVE  TypeOK'
<1> USE DEF TypeOK
<1>1. CASE \E kd \in {"loop", "read"} : Create(k, kd)
  <2>1. RowTypeOK'
    BY <1>1 DEF Create, RowTypeOK, Set
  <2> QED
    BY <2>1, <1>1, SameUser, SameRun, SamePast DEF Create
<1>2. CASE \E c \in Tokens, x \in Writes : CreateWrite(k, c, x)
  <2>1. PICK c \in Tokens, x \in Writes : CreateWrite(k, c, x)
    BY <1>2
  <2>2. loop' \in [Tasks -> Loop]
    BY <2>1 DEF CreateWrite, RowTypeOK, Loop
  <2>3. card' \in [Tasks -> CardType]
    BY <2>1, CardStep DEF CreateWrite
  <2>4. RowTypeOK'
    BY <2>1, <2>2, <2>3, StatusStep DEF CreateWrite, RowTypeOK, Set
  <2>5. UserTypeOK'
    BY <2>1, MintStep DEF CreateWrite
  <2> QED
    BY <2>1, <2>4, <2>5, SameRun, SamePast DEF CreateWrite
<1>3. CASE CancelRead(k)
  BY <1>3, SameRow, SameRun, SamePast DEF CancelRead, UserTypeOK
<1>4. CASE CancelWrite(k)
  <2>1. RowTypeOK'
    BY <1>4, StatusStep DEF CancelWrite, RowTypeOK
  <2>2. UserTypeOK'
    BY <1>4 DEF CancelWrite, UserTypeOK
  <2> QED
    BY <2>1, <2>2, <1>4, SameRun, SamePast DEF CancelWrite
<1>5. CASE \E a \in Answers : AnswerRead(a, k)
  <2>1. PICK a \in Answers : AnswerRead(a, k)
    BY <1>5
  <2>2. [task |-> k, saw |-> loop[k]] \in [task : Tasks \cup {None}, saw : Loop]
    BY DEF RowTypeOK
  <2>3. UserTypeOK'
    BY <2>1, <2>2 DEF AnswerRead, UserTypeOK, Set
  <2> QED
    BY <2>1, <2>3, SameRow, SameRun, SamePast DEF AnswerRead
<1> QED
  BY <1>1, <1>2, <1>3, <1>4, <1>5

LEMMA AnswerType == ASSUME TypeOK, NEW a \in Answers, AnswerWrite(a) PROVE TypeOK'
<1> DEFINE k == answer[a].task
           l == [answer[a].saw EXCEPT !.question = FALSE]
<1> USE DEF TypeOK
<1>1. l \in Loop /\ k \in Tasks
  BY DEF AnswerWrite, UserTypeOK, Loop
<1>2. loop' \in [Tasks -> Loop]
  BY <1>1, LoopStep DEF AnswerWrite
<1>3. RowTypeOK'
  BY <1>2, StatusStep DEF AnswerWrite, RowTypeOK
<1>4. UserTypeOK'
  BY Records DEF AnswerWrite, UserTypeOK, Set
<1> QED
  BY <1>3, <1>4, SameRun, SamePast DEF AnswerWrite

LEMMA TokenType == ASSUME TypeOK, NEW c \in Tokens, TokenStep(c) PROVE TypeOK'
<1> DEFINE k == ref[c].task
           x == ref[c].args
<1> USE DEF TypeOK
<1>1. k \in Tasks /\ x \in Writes /\ token[c] # "blank"
  BY DEF TokenStep, TokenExpires, ApproveRead, ApproveWrite, RejectRead, RejectWrite, UserTypeOK
<1>2. CASE TokenExpires(c) \/ ApproveRead(c) \/ RejectRead(c)
  <2>1. UserTypeOK'
    BY <1>1, <1>2, TokenStep0 DEF TokenExpires, ApproveRead, RejectRead
  <2> QED
    BY <2>1, <1>2, SameRow, SameRun, SamePast DEF TokenExpires, ApproveRead, RejectRead
<1>3. CASE ApproveWrite(c)
  <2>1. UserTypeOK'
    BY <1>1, <1>3, TokenStep0 DEF ApproveWrite
  <2>2. card' \in [Tasks -> CardType]
    BY <1>1, <1>3, CardStep DEF ApproveWrite, RowTypeOK
  <2>3. RowTypeOK'
    BY <1>3, <2>2, StatusStep DEF ApproveWrite, RowTypeOK
  <2>4. PastTypeOK'
    BY <1>1, <1>3 DEF ApproveWrite, PastTypeOK, Set
  <2> QED
    BY <2>1, <2>3, <2>4, <1>3, SameRun DEF ApproveWrite
<1>4. CASE RejectWrite(c)
  <2>1. UserTypeOK'
    BY <1>1, <1>4, TokenStep0 DEF RejectWrite
  <2>2. card' \in [Tasks -> CardType]
    BY <1>1, <1>4, CardStep DEF RejectWrite
  <2>3. RowTypeOK'
    BY <1>4, <2>2, StatusStep DEF RejectWrite, RowTypeOK
  <2> QED
    BY <2>1, <2>3, <1>4, SameRun, SamePast DEF RejectWrite
<1> QED
  BY <1>2, <1>3, <1>4 DEF TokenStep

LEMMA WorkType ==
    ASSUME TypeOK, NEW r \in Runs,
           (\E k \in Tasks : Claim(r, k)) \/ Write(r) \/ Read(r) \/ Conclude(r)
    PROVE  TypeOK'
<1> USE DEF TypeOK
<1>1. CASE \E k \in Tasks : Claim(r, k)
  <2>1. PICK k \in Tasks : Claim(r, k)
    BY <1>1
  <2>2. RowTypeOK'
    BY <2>1 DEF Claim, RowTypeOK, Set
  <2>3. mem' \in [Runs -> Loop] /\ grant' \in [Runs -> CardType]
    BY <2>1 DEF Claim, RowTypeOK, RunTypeOK, Set
  <2>4. RunTypeOK'
    BY <2>1, <2>3, Instance DEF Claim, RunTypeOK, Set
  <2> QED
    BY <2>1, <2>2, <2>4, SameUser, SamePast DEF Claim
<1>2. CASE Write(r)
  <2>1. at[r] \in Tasks /\ mem[r].pending \in Writes
    BY <1>2, Working DEF Write, Goto, RunTypeOK, Loop
  <2>2. mem' \in [Runs -> Loop]
    BY <1>2, Instance DEF Write, RunTypeOK, Loop
  <2>3. RunTypeOK'
    BY <1>2, <2>2, GotoStep DEF Write
  <2>4. Append(written[at[r]], mem[r].pending) \in Seq(Writes)
    BY <2>1 DEF PastTypeOK
  <2>5. written' \in [Tasks -> Seq(Writes)]
    BY <1>2, <2>4 DEF Write, PastTypeOK
  <2>6. PastTypeOK'
    BY <1>2, <2>5 DEF Write, PastTypeOK
  <2> QED
    BY <1>2, <2>3, <2>6, SameRow, SameUser DEF Write
<1>3. CASE Read(r)
  BY <1>3, GotoStep, SameRow, SameUser, SamePast DEF Read, RunTypeOK
<1>4. CASE Conclude(r)
  <2>1. RowTypeOK'
    BY <1>4, StatusStep DEF Conclude, RowTypeOK
  <2> QED
    BY <1>4, <2>1, EndStep, SameUser, SamePast DEF Conclude
<1> QED
  BY <1>1, <1>2, <1>3, <1>4

LEMMA LoopType ==
    ASSUME TypeOK, NEW r \in Runs,
           \/ Land(r) \/ Look(r) \/ Decide(r) \/ GoOn(r) \/ Ask(r)
           \/ \E c \in Tokens, x \in Writes : Propose(r, c, x)
           \/ Close(r)
    PROVE  TypeOK'
<1> USE DEF TypeOK
<1>1. mem[r] \in Loop
  BY DEF RunTypeOK
<1>2. CASE Land(r) \/ Decide(r) \/ GoOn(r)
  <2>1. loop' \in [Tasks -> Loop]
    BY <1>1, <1>2, LoopStep DEF Land, Decide, GoOn, Save, RowTypeOK
  <2>2. RowTypeOK'
    BY <1>2, <2>1 DEF Land, Decide, GoOn, RowTypeOK
  <2>3. RunTypeOK'
    BY <1>2, GotoStep DEF Land, Decide, GoOn, RunTypeOK
  <2> QED
    BY <1>2, <2>2, <2>3, SameUser, SamePast DEF Land, Decide, GoOn
<1>3. CASE Look(r)
  <2>1. RunTypeOK'
    BY <1>3, GotoStep, EndStep DEF Look, RunTypeOK
  <2> QED
    BY <1>3, <2>1, SameRow, SameUser, SamePast DEF Look
<1>4. CASE Ask(r)
  <2> DEFINE l == [mem[r] EXCEPT !.asked = @ + 1, !.question = TRUE]
  <2>1. l \in Loop
    <3>1. mem[r].asked + 1 \in 0..MaxAsks
      BY <1>1, <1>4, Instance DEF Ask, MayAsk, Loop
    <3> QED
      BY <1>1, <3>1 DEF Loop
  <2>2. loop' \in [Tasks -> Loop]
    BY <1>4, <2>1, LoopStep DEF Ask
  <2>3. RowTypeOK'
    BY <1>4, <2>2, StatusStep DEF Ask, RowTypeOK
  <2> QED
    BY <1>4, <2>3, EndStep, SameUser, SamePast DEF Ask
<1>5. CASE \E c \in Tokens, x \in Writes : Propose(r, c, x)
  <2>1. PICK c \in Tokens, x \in Writes : Propose(r, c, x)
    BY <1>5
  <2>2. at[r] \in Tasks
    BY <2>1, Working DEF Propose
  <2>3. [mem[r] EXCEPT !.pending = x] \in Loop
    BY <1>1 DEF Loop
  <2>4. loop' \in [Tasks -> Loop]
    BY <2>1, <2>3, LoopStep DEF Propose
  <2>5. card' \in [Tasks -> CardType]
    BY <2>1, CardStep DEF Propose, RowTypeOK
  <2>6. writer' \in [Tasks -> BOOLEAN]
    BY <2>1 DEF Propose, RowTypeOK, Set
  <2>7. RowTypeOK'
    BY <2>1, <2>4, <2>5, <2>6, StatusStep DEF Propose, RowTypeOK
  <2>8. UserTypeOK'
    BY <2>1, <2>2, MintStep DEF Propose
  <2> QED
    BY <2>1, <2>7, <2>8, EndStep, SamePast DEF Propose
<1>6. CASE Close(r)
  <2>1. RowTypeOK'
    BY <1>6, StatusStep DEF Close, RowTypeOK
  <2> QED
    BY <1>6, <2>1, EndStep, SameUser, SamePast DEF Close
<1> QED
  BY <1>2, <1>3, <1>4, <1>5, <1>6

LEMMA FaultType ==
    ASSUME TypeOK, NEW r \in Runs, Raise(r) \/ TimeOut(r) \/ FailLate(r) \/ Crash(r) PROVE TypeOK'
<1> USE DEF TypeOK
<1>1. CASE Raise(r) \/ Crash(r)
  <2>1. RunTypeOK'
    BY <1>1, ReleaseStep, Working DEF Raise, Crash, RunTypeOK
  <2> QED
    BY <1>1, <2>1, SameRow, SameUser, SamePast DEF Raise, Crash
<1>2. CASE TimeOut(r)
  <2>1. RunTypeOK'
    BY <1>2 DEF TimeOut, RunTypeOK, Set
  <2> QED
    BY <1>2, <2>1, SameRow, SameUser, SamePast DEF TimeOut
<1>3. CASE FailLate(r)
  <2>1. RowTypeOK'
    BY <1>3, StatusStep DEF FailLate, RowTypeOK
  <2>2. RunTypeOK'
    BY <1>3 DEF FailLate, RunTypeOK, Set
  <2> QED
    BY <1>3, <2>1, <2>2, SameUser, SamePast DEF FailLate
<1> QED
  BY <1>1, <1>2, <1>3

LEMMA TimeType ==
    ASSUME TypeOK, NEW k \in Tasks, LeaseEnds(k) \/ Ages(k) \/ Heal(k) PROVE TypeOK'
<1> USE DEF TypeOK
<1>1. RowTypeOK'
  BY StatusStep DEF LeaseEnds, Ages, Heal, RowTypeOK, Set
<1> QED
  BY <1>1, SameUser, SameRun, SamePast DEF LeaseEnds, Ages, Heal

LEMMA NextType == TypeOK /\ [Next]_vars => TypeOK'
<1> SUFFICES ASSUME TypeOK, [Next]_vars PROVE TypeOK'
    OBVIOUS
<1>1. CASE UNCHANGED vars
  BY <1>1, SameRow, SameUser, SameRun, SamePast DEF vars, TypeOK
<1>2. CASE \E k \in Tasks : TaskStep(k)
  BY <1>2, RequestType, TimeType DEF TaskStep
<1>3. CASE \E c \in Tokens : TokenStep(c)
  BY <1>3, TokenType
<1>4. CASE \E a \in Answers : AnswerWrite(a)
  BY <1>4, AnswerType
<1>5. CASE \E r \in Runs : RunStep(r)
  BY <1>5, WorkType, LoopType, FaultType DEF RunStep
<1> QED
  BY <1>1, <1>2, <1>3, <1>4, <1>5 DEF Next

(* Types: no task asks more questions than MAX_ASKS, whatever copy of the  *)
(* loop is written back.                                                   *)
THEOREM TypeCorrect == Spec => []TypeOK
BY InitType, NextType, PTL DEF Spec

-----------------------------------------------------------------------------
(* One thread.  A thread works on a task that is closed, or on one that is *)
(* running and claimed: nobody claims either.                              *)

Final == {"done", "failed", "cancelled"}

HeldInv ==
    \A r \in Runs :
        Live(r) => \/ status[at[r]] \in Final
                   \/ status[at[r]] = "running" /\ claimed[at[r]]

ThreadInv == OneThread /\ HeldInv

\* The threads there were, on the tasks they were on.
NoNewThread == \A r \in Runs : Live(r)' => Live(r) /\ at'[r] = at[r]

\* A task keeps its state, or is closed, or nobody works on it.
KeptOrFree(k) ==
    \/ status'[k] = status[k] /\ claimed'[k] = claimed[k]
    \/ status'[k] \in Final
    \/ \A r \in Runs : Live(r)' => at'[r] # k

LEMMA ThreadStep ==
    ASSUME TypeOK, ThreadInv, NoNewThread, \A k \in Tasks : KeptOrFree(k) PROVE ThreadInv'
<1>1. OneThread'
  BY DEF ThreadInv, OneThread, NoNewThread
<1>2. HeldInv'
  <2> SUFFICES ASSUME NEW r \in Runs, Live(r)'
               PROVE  \/ status'[at'[r]] \in Final
                      \/ status'[at'[r]] = "running" /\ claimed'[at'[r]]
      BY DEF HeldInv
  <2>1. Live(r) /\ at'[r] = at[r] /\ at[r] \in Tasks
    BY Working DEF NoNewThread, Live, TypeOK
  <2> QED
    BY <2>1 DEF KeptOrFree, ThreadInv, HeldInv
<1> QED
  BY <1>1, <1>2 DEF ThreadInv

LEMMA SameThreads == ASSUME UNCHANGED <<at, pc>> PROVE NoNewThread
BY DEF NoNewThread, Live

LEMMA GotoThreads ==
    ASSUME TypeOK, NEW r \in Runs, NEW from, NEW to, Goto(r, from, to), "over" \notin from, at' = at
    PROVE  NoNewThread
BY DEF NoNewThread, Live, Goto, Set, TypeOK, RunTypeOK

LEMMA ReleaseThreads ==
    ASSUME TypeOK, NEW r \in Runs, NEW late \in BOOLEAN, Release(r, late)
    PROVE  NoNewThread /\ ~Live(r)'
BY DEF NoNewThread, Live, Release, Set, TypeOK, RunTypeOK

LEMMA EndThreads ==
    ASSUME TypeOK, NEW r \in Runs, End(r) PROVE NoNewThread /\ ~Live(r)'
BY ReleaseThreads DEF End

\* Who ends on a task leaves nobody on it.
LEMMA EndFree ==
    ASSUME TypeOK, ThreadInv, NEW r \in Runs, Live(r), End(r)
    PROVE  \A q \in Runs : Live(q)' => at'[q] # at[r]
BY EndThreads DEF NoNewThread, ThreadInv, OneThread

LEMMA WaitingFree ==
    ASSUME TypeOK, ThreadInv, NEW k \in Tasks, status[k] \in {"absent", "waiting"}
    PROVE  \A r \in Runs : Live(r) => at[r] # k
BY DEF ThreadInv, HeldInv, Final

LEMMA SameKept ==
    ASSUME UNCHANGED <<status, claimed>> PROVE \A k \in Tasks : KeptOrFree(k)
BY DEF KeptOrFree

LEMMA FinishKept ==
    ASSUME TypeOK, NEW j, NEW v \in Final, Finish(j, v) PROVE \A k \in Tasks : KeptOrFree(k)
BY DEF KeptOrFree, Finish, Set, TypeOK, RowTypeOK

\* A waiting task is run again; an idle one is created or parked.
LEMMA FreeKept ==
    ASSUME TypeOK, ThreadInv, NoNewThread, NEW j \in Tasks, status[j] \in {"absent", "waiting"},
           \A k \in Tasks \ {j} : status'[k] = status[k] /\ claimed'[k] = claimed[k]
    PROVE  \A k \in Tasks : KeptOrFree(k)
BY WaitingFree DEF KeptOrFree, NoNewThread

LEMMA ParkKept ==
    ASSUME TypeOK, ThreadInv, NEW r \in Runs, Live(r), End(r), Park(at[r])
    PROVE  \A k \in Tasks : KeptOrFree(k)
<1>1. \A k \in Tasks \ {at[r]} : status'[k] = status[k] /\ claimed'[k] = claimed[k]
  BY DEF Park, Set, TypeOK, RowTypeOK
<1> QED
  BY <1>1, EndFree DEF KeptOrFree

LEMMA UserThreads ==
    ASSUME TypeOK, ThreadInv, UNCHANGED <<at, pc>>,
           \/ \E k \in Tasks : TaskStep(k)
           \/ \E c \in Tokens : TokenStep(c)
           \/ \E a \in Answers : AnswerWrite(a)
    PROVE  \A k \in Tasks : KeptOrFree(k)
<1>0. NoNewThread
  BY SameThreads
<1>1. CASE \E k \in Tasks : TaskStep(k)
  <2>1. PICK j \in Tasks : TaskStep(j)
    BY <1>1
  <2>2. CASE \E kd \in {"loop", "read"} : Create(j, kd)
    BY <2>2, <1>0, FreeKept DEF Create, Set, TypeOK, RowTypeOK
  <2>3. CASE \E c \in Tokens, x \in Writes : CreateWrite(j, c, x)
    BY <2>3, <1>0, FreeKept DEF CreateWrite, Park, Set, TypeOK, RowTypeOK
  <2>4. CASE CancelWrite(j) \/ Heal(j)
    BY <2>4, FinishKept, SameKept DEF CancelWrite, Heal, Final
  <2>5. CASE CancelRead(j) \/ LeaseEnds(j) \/ Ages(j) \/ \E a \in Answers : AnswerRead(a, j)
    BY <2>5, SameKept DEF CancelRead, LeaseEnds, Ages, AnswerRead, rowVars
  <2> QED
    BY <2>1, <2>2, <2>3, <2>4, <2>5 DEF TaskStep
<1>2. CASE \E c \in Tokens : TokenStep(c)
  <2>1. PICK c \in Tokens : TokenStep(c)
    BY <1>2
  <2>2. ref[c].task \in Tasks
    BY <2>1 DEF TokenStep, TokenExpires, ApproveRead, ApproveWrite, RejectRead, RejectWrite,
                TypeOK, UserTypeOK
  <2>3. CASE TokenExpires(c) \/ ApproveRead(c) \/ RejectRead(c)
    BY <2>3, SameKept DEF TokenExpires, ApproveRead, RejectRead, rowVars
  <2>4. CASE ApproveWrite(c)
    BY <2>2, <2>4, <1>0, FreeKept, SameKept DEF ApproveWrite, Resume, Set, TypeOK, RowTypeOK
  <2>5. CASE RejectWrite(c)
    BY <2>5, FinishKept DEF RejectWrite, Final
  <2> QED
    BY <2>1, <2>3, <2>4, <2>5 DEF TokenStep
<1>3. CASE \E a \in Answers : AnswerWrite(a)
  <2>1. PICK a \in Answers : AnswerWrite(a)
    BY <1>3
  <2>2. answer[a].task \in Tasks
    BY <2>1 DEF AnswerWrite, TypeOK, UserTypeOK
  <2> QED
    BY <2>1, <2>2, <1>0, FreeKept, SameKept DEF AnswerWrite, Resume, Set, TypeOK, RowTypeOK
<1> QED
  BY <1>1, <1>2, <1>3

LEMMA ClaimThreads ==
    ASSUME TypeOK, ThreadInv, NEW r \in Runs, NEW k \in Tasks, Claim(r, k) PROVE ThreadInv'
<1>1. \A q \in Runs : Live(q) => at[q] # k
  BY DEF ThreadInv, HeldInv, Claim, Final
<1>2. \A q \in Runs : at'[q] = (IF q = r THEN k ELSE at[q]) /\ (q # r => pc'[q] = pc[q])
  BY DEF Claim, Set, TypeOK, RunTypeOK
<1>3. OneThread'
  BY <1>1, <1>2 DEF ThreadInv, OneThread, Live
<1>4. status' = status /\ \A j \in Tasks : claimed'[j] = (IF j = k THEN TRUE ELSE claimed[j])
  BY DEF Claim, Set, TypeOK, RowTypeOK
<1>5. \A q \in Runs : Live(q) => at[q] \in Tasks
  BY Working DEF Live, TypeOK
<1>6. HeldInv'
  <2> SUFFICES ASSUME NEW q \in Runs, Live(q)'
               PROVE  \/ status'[at'[q]] \in Final
                      \/ status'[at'[q]] = "running" /\ claimed'[at'[q]]
      BY DEF HeldInv
  <2>1. CASE q = r
    BY <2>1, <1>2, <1>4 DEF Claim
  <2>2. CASE q # r
    <3>1. Live(q) /\ at'[q] = at[q] /\ at[q] \in Tasks /\ at[q] # k
      BY <2>2, <1>1, <1>2, <1>5 DEF Live
    <3> QED
      BY <3>1, <1>4 DEF ThreadInv, HeldInv
  <2> QED
    BY <2>1, <2>2
<1> QED
  BY <1>3, <1>6 DEF ThreadInv

LEMMA RunThreads ==
    ASSUME TypeOK, ThreadInv, NEW r \in Runs, RunStep(r), \A k \in Tasks : ~Claim(r, k)
    PROVE  NoNewThread /\ \A k \in Tasks : KeptOrFree(k)
<1>1. CASE Write(r) \/ Read(r)
  BY <1>1, GotoThreads, SameKept DEF Write, Read, rowVars
<1>2. CASE Conclude(r)
  BY <1>2, EndThreads, FinishKept, SameKept DEF Conclude, Final
<1>3. CASE Land(r) \/ Decide(r) \/ GoOn(r)
  BY <1>3, GotoThreads, SameKept DEF Land, Decide, GoOn
<1>4. CASE Look(r)
  BY <1>4, GotoThreads, EndThreads, SameKept DEF Look, rowVars
<1>5. CASE Ask(r)
  BY <1>5, EndThreads, ParkKept, SameKept DEF Ask, Live
<1>6. CASE \E c \in Tokens, x \in Writes : Propose(r, c, x)
  BY <1>6, EndThreads, ParkKept, SameKept DEF Propose, Live
<1>7. CASE Close(r)
  BY <1>7, EndThreads, FinishKept DEF Close, Final
<1>8. CASE Raise(r) \/ Crash(r)
  BY <1>8, ReleaseThreads, SameKept DEF Raise, Crash, rowVars
<1>9. CASE TimeOut(r)
  BY <1>9, SameThreads, SameKept DEF TimeOut, rowVars
<1>10. CASE FailLate(r)
  <2>1. NoNewThread
    BY <1>10 DEF FailLate, NoNewThread, Live, Set, TypeOK, RunTypeOK
  <2> QED
    BY <1>10, <2>1, FinishKept, SameKept DEF FailLate, Final
<1> QED
  BY <1>1, <1>2, <1>3, <1>4, <1>5, <1>6, <1>7, <1>8, <1>9, <1>10 DEF RunStep

LEMMA NextThread == TypeOK /\ ThreadInv /\ [Next]_vars => ThreadInv'
<1> SUFFICES ASSUME TypeOK, ThreadInv, [Next]_vars PROVE ThreadInv'
    OBVIOUS
<1>1. CASE UNCHANGED vars
  BY <1>1, ThreadStep, SameThreads, SameKept DEF vars, rowVars, runVars
<1>2. CASE \/ \E k \in Tasks : TaskStep(k)
           \/ \E c \in Tokens : TokenStep(c)
           \/ \E a \in Answers : AnswerWrite(a)
  <2>1. UNCHANGED <<at, pc>>
    BY <1>2 DEF TaskStep, Create, CreateWrite, CancelRead, CancelWrite, LeaseEnds, Ages, Heal,
                AnswerRead, TokenStep, TokenExpires, ApproveRead, ApproveWrite, RejectRead,
                RejectWrite, AnswerWrite, runVars
  <2> QED
    BY <1>2, <2>1, SameThreads, UserThreads, ThreadStep
<1>3. CASE \E r \in Runs : RunStep(r)
  BY <1>3, ClaimThreads, RunThreads, ThreadStep
<1> QED
  BY <1>1, <1>2, <1>3 DEF Next

(* Two threads never work on one task, though threads outlive their        *)
(* time-out and the task they run is closed or parked.                     *)
THEOREM OneThreadAtATime == Spec => []OneThread
<1>1. Init => ThreadInv
  BY DEF Init, ThreadInv, OneThread, HeldInv, Live
<1> QED
  BY <1>1, NextThread, TypeCorrect, PTL DEF Spec, ThreadInv

-----------------------------------------------------------------------------
(* Questions.  An answer under way means that the one question was asked,  *)
(* in every copy of the loop that can still be written back.               *)

AskInv ==
    /\ \A k \in Tasks : loop[k].question => loop[k].asked > 0
    /\ \A r \in Runs : mem[r].question => mem[r].asked > 0
    /\ \A a \in Answers : answer[a].task # None =>
          /\ answer[a].saw.asked > 0 /\ loop[answer[a].task].asked > 0
          /\ \A r \in Runs : Live(r) /\ at[r] = answer[a].task => mem[r].asked > 0

\* A copy that may be saved in the loop of task k.
Sound(k, l) ==
    /\ l.question => l.asked > 0
    /\ (\E a \in Answers : answer[a].task = k) => l.asked > 0

LEMMA AskStep ==
    ASSUME TypeOK, AskInv, NoNewThread, \A r \in Runs : mem'[r] = mem[r] \/ ~Live(r)',
           \A r \in Runs : mem'[r].question => mem'[r].asked > 0,
           UNCHANGED answer, \A k \in Tasks : loop'[k] = loop[k] \/ Sound(k, loop'[k])
    PROVE  AskInv'
<1>1. \A a \in Answers : answer[a].task # None => answer[a].task \in Tasks
  BY DEF TypeOK, UserTypeOK
<1>2. \A a \in Answers : answer[a].task # None => loop'[answer[a].task].asked > 0
  BY <1>1 DEF AskInv, Sound
<1>3. \A a \in Answers, r \in Runs :
         answer[a].task # None /\ Live(r)' /\ at'[r] = answer[a].task => mem'[r].asked > 0
  BY DEF AskInv, NoNewThread
<1>4. \A k \in Tasks : loop'[k].question => loop'[k].asked > 0
  BY DEF AskInv, Sound
<1> QED
  BY <1>2, <1>3, <1>4 DEF AskInv

LEMMA MemSound ==
    ASSUME TypeOK, AskInv, NEW r \in Runs, Live(r) PROVE Sound(at[r], mem[r])
BY DEF AskInv, Sound, Live, TypeOK, RunTypeOK

LEMMA SavedSound ==
    ASSUME TypeOK, NEW j, NEW l, Sound(j, l), loop' = Saved(j, l)
    PROVE  \A k \in Tasks : loop'[k] = loop[k] \/ Sound(k, loop'[k])
BY DEF Saved, Set, TypeOK, RowTypeOK

LEMMA SameLoop == ASSUME UNCHANGED loop PROVE \A k \in Tasks : loop'[k] = loop[k] \/ Sound(k, loop'[k])
OBVIOUS

LEMMA SameMem ==
    ASSUME AskInv, UNCHANGED mem
    PROVE  /\ \A r \in Runs : mem'[r] = mem[r] \/ ~Live(r)'
           /\ \A r \in Runs : mem'[r].question => mem'[r].asked > 0
BY DEF AskInv

LEMMA ReleaseMem ==
    ASSUME TypeOK, AskInv, NEW q \in Runs, NEW late \in BOOLEAN, Release(q, late)
    PROVE  /\ \A r \in Runs : mem'[r] = mem[r] \/ ~Live(r)'
           /\ \A r \in Runs : mem'[r].question => mem'[r].asked > 0
<1>1. \A r \in Runs : mem'[r] = IF r = q THEN EmptyLoop ELSE mem[r]
  BY DEF Release, Set, TypeOK, RunTypeOK
<1> QED
  BY <1>1, ReleaseThreads DEF AskInv, EmptyLoop

LEMMA EndMem ==
    ASSUME TypeOK, AskInv, NEW q \in Runs, End(q)
    PROVE  /\ \A r \in Runs : mem'[r] = mem[r] \/ ~Live(r)'
           /\ \A r \in Runs : mem'[r].question => mem'[r].asked > 0
BY ReleaseMem DEF End

LEMMA AnswerReadAsk ==
    ASSUME TypeOK, ThreadInv, AskInv, NEW a \in Answers, NEW k \in Tasks, AnswerRead(a, k)
    PROVE  AskInv'
<1>1. \A r \in Runs : Live(r) => at[r] # k
  BY WaitingFree DEF AnswerRead
<1>2. loop[k].asked > 0
  BY DEF AnswerRead, AskInv
<1>3. \A b \in Answers : answer'[b] = IF b = a THEN [task |-> k, saw |-> loop[k]] ELSE answer[b]
  BY DEF AnswerRead, Set, TypeOK, UserTypeOK
<1>4. UNCHANGED <<loop, mem, at, pc>>
  BY DEF AnswerRead, rowVars, runVars
<1> QED
  BY <1>1, <1>2, <1>3, <1>4 DEF AskInv, Live

LEMMA AnswerWriteAsk ==
    ASSUME TypeOK, AskInv, NEW a \in Answers, AnswerWrite(a) PROVE AskInv'
<1> DEFINE j == answer[a].task
           l == [answer[a].saw EXCEPT !.question = FALSE]
<1>1. j \in Tasks /\ l.asked > 0 /\ ~l.question
  BY DEF AnswerWrite, AskInv, TypeOK, UserTypeOK, Loop
<1>2. \A k \in Tasks : loop'[k] = loop[k] \/ loop'[k] = l
  BY DEF AnswerWrite, Saved, Set, TypeOK, RowTypeOK
<1>3. \A b \in Answers : answer'[b] = IF b = a THEN NoAnswer ELSE answer[b]
  BY DEF AnswerWrite, Set, TypeOK, UserTypeOK
<1>4. UNCHANGED <<mem, at, pc>>
  BY DEF AnswerWrite, runVars
<1>5. \A b \in Answers : answer[b].task # None => answer[b].task \in Tasks
  BY DEF TypeOK, UserTypeOK
<1>6. NoAnswer.task = None
  BY DEF NoAnswer
<1>7. \A b \in Answers : answer'[b].task # None => answer'[b] = answer[b]
  BY <1>3, <1>6
<1>8. \A k \in Tasks : loop[k].asked > 0 => loop'[k].asked > 0
  BY <1>1, <1>2
<1>9. \A k \in Tasks : loop'[k].question => loop'[k].asked > 0
  BY <1>1, <1>2 DEF AskInv
<1> QED
  BY <1>4, <1>5, <1>7, <1>8, <1>9 DEF AskInv, Live

LEMMA ClaimAsk ==
    ASSUME TypeOK, AskInv, NEW r \in Runs, NEW k \in Tasks, Claim(r, k) PROVE AskInv'
<1>1. \A q \in Runs : /\ at'[q] = (IF q = r THEN k ELSE at[q])
                       /\ mem'[q] = (IF q = r THEN loop[k] ELSE mem[q])
                       /\ (q # r => pc'[q] = pc[q])
  BY DEF Claim, Set, TypeOK, RunTypeOK
<1>2. UNCHANGED <<loop, answer>>
  BY DEF Claim, userVars
<1> QED
  BY <1>1, <1>2 DEF AskInv, Live

LEMMA UserAsk ==
    ASSUME TypeOK, ThreadInv, AskInv,
           \/ \E k \in Tasks : TaskStep(k)
           \/ \E c \in Tokens : TokenStep(c)
    PROVE  AskInv'
<1>1. CASE \E k \in Tasks, a \in Answers : AnswerRead(a, k)
  BY <1>1, AnswerReadAsk
<1>2. CASE \E k \in Tasks, c \in Tokens, x \in Writes : CreateWrite(k, c, x)
  <2>1. PICK j \in Tasks, c \in Tokens, x \in Writes : CreateWrite(j, c, x)
    BY <1>2
  <2>2. \A k \in Tasks : loop'[k].asked = loop[k].asked /\ loop'[k].question = loop[k].question
    BY <2>1 DEF CreateWrite, TypeOK, RowTypeOK, Loop
  <2>3. UNCHANGED <<answer, mem, at, pc>>
    BY <2>1 DEF CreateWrite, runVars
  <2>4. \A a \in Answers : answer[a].task # None => answer[a].task \in Tasks
    BY DEF TypeOK, UserTypeOK
  <2> QED
    BY <2>2, <2>3, <2>4 DEF AskInv, Live
<1>3. CASE UNCHANGED <<loop, answer, mem, at, pc>>
  BY <1>3, AskStep, SameThreads, SameMem
<1>4. CASE \E k \in Tasks : TaskStep(k)
  BY <1>1, <1>2, <1>3, <1>4 DEF TaskStep, Create, CancelRead, CancelWrite, LeaseEnds, Ages, Heal,
                                rowVars, userVars, runVars
<1>5. CASE \E c \in Tokens : TokenStep(c)
  BY <1>3, <1>5 DEF TokenStep, TokenExpires, ApproveRead, ApproveWrite, RejectRead, RejectWrite,
                    rowVars, runVars
<1> QED
  BY <1>4, <1>5

LEMMA RunAsk ==
    ASSUME TypeOK, ThreadInv, AskInv, NEW r \in Runs, RunStep(r), \A k \in Tasks : ~Claim(r, k)
    PROVE  AskInv'
<1>0. NoNewThread
  BY RunThreads
<1>1. CASE Write(r)
  <2>1. \A q \in Runs : mem'[q].asked = mem[q].asked /\ mem'[q].question = mem[q].question
    BY <1>1 DEF Write, TypeOK, RunTypeOK, Loop
  <2>2. UNCHANGED <<answer, loop, at>>
    BY <1>1 DEF Write, rowVars, userVars
  <2> QED
    BY <1>0, <2>1, <2>2 DEF AskInv, NoNewThread
<1>2. CASE Read(r) \/ TimeOut(r) \/ FailLate(r)
  BY <1>0, <1>2, AskStep, SameMem, SameLoop DEF Read, TimeOut, FailLate, rowVars, userVars
<1>3. CASE Conclude(r) \/ Close(r)
  BY <1>0, <1>3, AskStep, EndMem, SameLoop DEF Conclude, Close, userVars
<1>4. CASE Raise(r) \/ Crash(r)
  BY <1>0, <1>4, AskStep, ReleaseMem, SameLoop DEF Raise, Crash, rowVars, userVars
<1>5. CASE Look(r)
  BY <1>0, <1>5, AskStep, EndMem, SameMem, SameLoop DEF Look, rowVars, userVars
<1>6. CASE Land(r) \/ Decide(r) \/ GoOn(r)
  <2>1. Live(r)
    BY <1>6 DEF Land, Decide, GoOn, Goto, Live
  <2>2. \A k \in Tasks : loop'[k] = loop[k] \/ Sound(k, loop'[k])
    BY <1>6, <2>1, MemSound, SavedSound, SameLoop DEF Land, Decide, GoOn, Save
  <2> QED
    BY <1>0, <1>6, <2>2, AskStep, SameMem DEF Land, Decide, GoOn, userVars
<1>7. CASE Ask(r)
  <2> DEFINE l == [mem[r] EXCEPT !.asked = @ + 1, !.question = TRUE]
  <2>1. mem[r].asked \in Nat /\ l.asked = mem[r].asked + 1
    BY Instance DEF TypeOK, RunTypeOK, Loop
  <2>2. Sound(at[r], l)
    BY <2>1 DEF Sound
  <2>3. \A k \in Tasks : loop'[k] = loop[k] \/ Sound(k, loop'[k])
    BY <1>7, <2>2, SavedSound DEF Ask
  <2> QED
    BY <1>0, <1>7, <2>3, AskStep, EndMem DEF Ask, userVars
<1>8. CASE \E c \in Tokens, x \in Writes : Propose(r, c, x)
  <2>1. PICK c \in Tokens, x \in Writes : Propose(r, c, x)
    BY <1>8
  <2> DEFINE l == [mem[r] EXCEPT !.pending = x]
  <2>2. l.asked = mem[r].asked /\ l.question = mem[r].question
    BY DEF TypeOK, RunTypeOK, Loop
  <2>3. Sound(at[r], l)
    BY <2>1, <2>2, MemSound DEF Sound, Propose, Live
  <2>4. \A k \in Tasks : loop'[k] = loop[k] \/ Sound(k, loop'[k])
    BY <2>1, <2>3, SavedSound DEF Propose
  <2> QED
    BY <1>0, <2>1, <2>4, AskStep, EndMem DEF Propose
<1> QED
  BY <1>1, <1>2, <1>3, <1>4, <1>5, <1>6, <1>7, <1>8 DEF RunStep

LEMMA NextAsk == TypeOK /\ ThreadInv /\ AskInv /\ [Next]_vars => AskInv'
<1> SUFFICES ASSUME TypeOK, ThreadInv, AskInv, [Next]_vars PROVE AskInv'
    OBVIOUS
<1>1. CASE UNCHANGED vars
  BY <1>1, AskStep, SameThreads, SameMem, SameLoop DEF vars, rowVars, userVars, runVars
<1>2. CASE \E r \in Runs : RunStep(r)
  BY <1>2, ClaimAsk, RunAsk
<1> QED
  BY <1>1, <1>2, UserAsk, AnswerWriteAsk DEF Next

-----------------------------------------------------------------------------
(* Approvals.  An approved card, and a run's copy of it, shows what was    *)
(* approved.                                                               *)

GrantInv ==
    /\ \A k \in Tasks : card[k].state = "approved" => card[k].args \in approved[k]
    /\ \A r \in Runs : Live(r) /\ grant[r].state = "approved" => grant[r].args \in approved[at[r]]

LEMMA GrantStep ==
    ASSUME TypeOK, GrantInv, NoNewThread, \A r \in Runs : grant'[r] = grant[r] \/ ~Live(r)',
           \A k \in Tasks : approved[k] \subseteq approved'[k],
           \A k \in Tasks : \/ card'[k] = card[k]
                            \/ card'[k].state = "approved" => card'[k].args \in approved'[k]
    PROVE  GrantInv'
<1>1. \A r \in Runs : Live(r) => at[r] \in Tasks
  BY Working DEF Live, TypeOK
<1> QED
  BY <1>1 DEF GrantInv, NoNewThread

LEMMA CardParts ==
    ASSUME TypeOK, NEW j, NEW c, NEW x, NEW st, card' = Set(card, j, Card(c, x, st))
    PROVE  \A k \in Tasks : card'[k] = card[k] \/ (k = j /\ card'[k].args = x /\ card'[k].state = st)
BY DEF Card, Set, TypeOK, RowTypeOK

LEMMA ReleaseGrant ==
    ASSUME TypeOK, NEW q \in Runs, NEW late \in BOOLEAN, Release(q, late)
    PROVE  \A r \in Runs : grant'[r] = grant[r] \/ ~Live(r)'
BY ReleaseThreads DEF Release, Set, TypeOK, RunTypeOK

LEMMA EndGrant ==
    ASSUME TypeOK, NEW q \in Runs, End(q) PROVE \A r \in Runs : grant'[r] = grant[r] \/ ~Live(r)'
BY ReleaseGrant DEF End

LEMMA UserGrant ==
    ASSUME TypeOK, GrantInv,
           \/ \E k \in Tasks : TaskStep(k)
           \/ \E c \in Tokens : TokenStep(c)
           \/ \E a \in Answers : AnswerWrite(a)
    PROVE  GrantInv'
<1>0. UNCHANGED <<at, pc, grant>>
  BY DEF TaskStep, Create, CreateWrite, CancelRead, CancelWrite, LeaseEnds, Ages, Heal,
         AnswerRead, TokenStep, TokenExpires, ApproveRead, ApproveWrite, RejectRead,
         RejectWrite, AnswerWrite, runVars
<1>1. CASE UNCHANGED <<card, approved>>
  BY <1>0, <1>1, GrantStep, SameThreads
<1>2. CASE \E k \in Tasks, c \in Tokens, x \in Writes : CreateWrite(k, c, x)
  BY <1>0, <1>2, GrantStep, SameThreads, CardParts DEF CreateWrite, pastVars
<1>3. CASE \E c \in Tokens : ApproveWrite(c)
  <2>1. PICK c \in Tokens : ApproveWrite(c)
    BY <1>3
  <2>2. CASE UNCHANGED <<card, approved>>
    BY <1>1, <2>2
  <2>3. CASE /\ card' = Set(card, ref[c].task, Card(c, ref[c].args, "approved"))
             /\ approved' = Set(approved, ref[c].task, approved[ref[c].task] \cup {ref[c].args})
    <3>1. \A k \in Tasks : approved'[k] = IF k = ref[c].task THEN approved[k] \cup {ref[c].args}
                                           ELSE approved[k]
      BY <2>3 DEF Set, TypeOK, PastTypeOK
    <3>2. \A k \in Tasks : \/ card'[k] = card[k]
                           \/ k = ref[c].task /\ card'[k].args = ref[c].args
      BY <2>3, CardParts
    <3>3. \A k \in Tasks : card'[k] = card[k] \/ card'[k].args \in approved'[k]
      BY <3>1, <3>2
    <3>4. \A k \in Tasks : approved[k] \subseteq approved'[k]
      BY <3>1
    <3> QED
      BY <1>0, <3>3, <3>4, GrantStep, SameThreads
  <2> QED
    BY <2>1, <2>2, <2>3 DEF ApproveWrite
<1>4. CASE \E c \in Tokens : RejectWrite(c)
  BY <1>0, <1>4, GrantStep, SameThreads, CardParts DEF RejectWrite, pastVars
<1>5. CASE \E k \in Tasks : TaskStep(k)
  BY <1>1, <1>2, <1>5 DEF TaskStep, Create, CancelRead, CancelWrite, LeaseEnds, Ages, Heal,
                          AnswerRead, rowVars, pastVars
<1>6. CASE \E c \in Tokens : TokenStep(c)
  BY <1>1, <1>3, <1>4, <1>6 DEF TokenStep, TokenExpires, ApproveRead, RejectRead, rowVars, pastVars
<1>7. CASE \E a \in Answers : AnswerWrite(a)
  BY <1>1, <1>7 DEF AnswerWrite, pastVars
<1> QED
  BY <1>5, <1>6, <1>7

LEMMA ClaimGrant ==
    ASSUME TypeOK, GrantInv, NEW r \in Runs, NEW k \in Tasks, Claim(r, k) PROVE GrantInv'
<1>1. \A q \in Runs : /\ at'[q] = (IF q = r THEN k ELSE at[q])
                       /\ grant'[q] = (IF q = r THEN card[k] ELSE grant[q])
                       /\ (q # r => pc'[q] = pc[q])
  BY DEF Claim, Set, TypeOK, RunTypeOK
<1>2. UNCHANGED <<card, approved>>
  BY DEF Claim, pastVars
<1> QED
  BY <1>1, <1>2 DEF GrantInv, Live

LEMMA RunGrant ==
    ASSUME TypeOK, ThreadInv, GrantInv, NEW r \in Runs, RunStep(r), \A k \in Tasks : ~Claim(r, k)
    PROVE  GrantInv'
<1>0. NoNewThread
  BY RunThreads
<1>1. UNCHANGED approved
  BY DEF RunStep, Write, Read, Conclude, Land, Look, Decide, GoOn, Ask, Propose, Close, Raise,
         TimeOut, FailLate, Crash, pastVars
<1>2. \A q \in Runs : grant'[q] = grant[q] \/ ~Live(q)'
  BY EndGrant, ReleaseGrant
     DEF RunStep, Write, Read, Conclude, Land, Look, Decide, GoOn, Ask, Propose, Close, Raise,
         TimeOut, FailLate, Crash
<1>3. CASE UNCHANGED card
  BY <1>0, <1>1, <1>2, <1>3, GrantStep
<1>4. CASE \E c \in Tokens, x \in Writes : Propose(r, c, x)
  <2>1. PICK c \in Tokens, x \in Writes : Propose(r, c, x)
    BY <1>4
  <2>2. CASE card' = Set(card, at[r], Card(c, x, "pending"))
    BY <1>0, <1>1, <1>2, <2>2, GrantStep, CardParts
  <2> QED
    BY <1>3, <2>1, <2>2 DEF Propose
<1> QED
  BY <1>3, <1>4 DEF RunStep, Write, Read, Conclude, Land, Look, Decide, GoOn, Ask, Close, Raise,
                    TimeOut, FailLate, Crash, rowVars

LEMMA NextGrant == TypeOK /\ ThreadInv /\ GrantInv /\ [Next]_vars => GrantInv'
<1> SUFFICES ASSUME TypeOK, ThreadInv, GrantInv, [Next]_vars PROVE GrantInv'
    OBVIOUS
<1>1. CASE UNCHANGED vars
  BY <1>1, GrantStep, SameThreads DEF vars, rowVars, userVars, runVars, pastVars
<1>2. CASE \E r \in Runs : RunStep(r)
  BY <1>2, ClaimGrant, RunGrant
<1> QED
  BY <1>1, <1>2, UserGrant DEF Next

-----------------------------------------------------------------------------
(* One write.  What was written is known to every copy of the loop that a  *)
(* thread still has or will be given.  The row itself may have forgotten   *)
(* it, by a late answer, but only while the thread that wrote has it.      *)

Spent(l) == l.wrote /\ l.pending = None

\* A task that may be claimed, now or once a person has answered.
Loose(k) ==
    /\ status[k] \in {"running", "waiting"}
    /\ ~(status[k] = "running" /\ claimed[k])

DoneInv ==
    \A k \in Tasks : written[k] # <<>> =>
        /\ status[k] # "absent"
        /\ \A r \in Runs : Live(r) /\ at[r] = k => Spent(mem[r])
        /\ Loose(k) => /\ Spent(loop[k])
                       /\ \A a \in Answers : answer[a].task = k => Spent(answer[a].saw)

\* A task that may be claimed was so before, and its loop and the answers to
\* it are as good as they were.
StaysLoose(k) ==
    /\ status'[k] # "absent"
    /\ Loose(k)' =>
         /\ Loose(k)
         /\ \/ loop'[k] = loop[k]
            \/ \E a \in Answers :
                  answer[a].task = k /\ (Spent(answer[a].saw) => Spent(loop'[k]))
         /\ \A a \in Answers : answer'[a].task = k =>
               answer'[a] = answer[a] \/ answer'[a].saw = loop[k]

LEMMA DoneStep ==
    ASSUME TypeOK, DoneInv, NoNewThread, UNCHANGED written,
           \A r \in Runs : mem'[r] = mem[r] \/ ~Live(r)',
           \A k \in Tasks : written[k] # <<>> => StaysLoose(k)
    PROVE  DoneInv'
<1> SUFFICES ASSUME NEW k \in Tasks, written[k] # <<>>
             PROVE  /\ status'[k] # "absent"
                    /\ \A r \in Runs : Live(r)' /\ at'[r] = k => Spent(mem'[r])
                    /\ Loose(k)' =>
                          /\ Spent(loop'[k])
                          /\ \A a \in Answers : answer'[a].task = k => Spent(answer'[a].saw)
    BY DEF DoneInv, Spent
<1>1. \A r \in Runs : Live(r)' /\ at'[r] = k => Spent(mem'[r])
  BY DEF DoneInv, NoNewThread
<1>2. StaysLoose(k)
  OBVIOUS
<1>3. ASSUME Loose(k)'
      PROVE  /\ Spent(loop'[k])
             /\ \A a \in Answers : answer'[a].task = k => Spent(answer'[a].saw)
  <2>1. /\ Spent(loop[k])
        /\ \A a \in Answers : answer[a].task = k => Spent(answer[a].saw)
    BY <1>2, <1>3 DEF DoneInv, StaysLoose
  <2> QED
    BY <1>2, <1>3, <2>1 DEF StaysLoose
<1> QED
  BY <1>1, <1>2, <1>3 DEF StaysLoose

LEMMA RowSameLoose ==
    ASSUME DoneInv, NEW k \in Tasks, written[k] # <<>>, UNCHANGED <<loop, answer>>,
           status'[k] = status[k] /\ claimed'[k] = claimed[k]
    PROVE  StaysLoose(k)
BY DEF DoneInv, StaysLoose, Loose

LEMMA ClosedLoose ==
    ASSUME NEW k \in Tasks, status'[k] \in Final PROVE StaysLoose(k)
BY DEF StaysLoose, Loose, Final

LEMMA FinishLoose ==
    ASSUME TypeOK, DoneInv, NEW j, NEW v \in Final,
           Finish(j, v) \/ UNCHANGED <<status, claimed, lease>>, UNCHANGED <<loop, answer>>
    PROVE  \A k \in Tasks : written[k] # <<>> => StaysLoose(k)
<1>1. \A k \in Tasks : \/ status'[k] \in Final
                       \/ status'[k] = status[k] /\ claimed'[k] = claimed[k]
  BY DEF Finish, Set, TypeOK, RowTypeOK
<1> QED
  BY <1>1, RowSameLoose, ClosedLoose

LEMMA SameLoose ==
    ASSUME TypeOK, DoneInv, UNCHANGED <<status, claimed, loop, answer>>
    PROVE  \A k \in Tasks : written[k] # <<>> => StaysLoose(k)
BY RowSameLoose

\* A waiting task is to be claimed again.
LEMMA ResumeLoose ==
    ASSUME TypeOK, DoneInv, NEW j \in Tasks, status[j] = "waiting", Resume(j),
           UNCHANGED <<loop, answer>>
    PROVE  \A k \in Tasks : written[k] # <<>> => StaysLoose(k)
<1>1. \A k \in Tasks \ {j} : status'[k] = status[k] /\ claimed'[k] = claimed[k]
  BY DEF Resume, Set, TypeOK, RowTypeOK
<1>2. StaysLoose(j)
  BY DEF Resume, Set, TypeOK, RowTypeOK, StaysLoose, Loose
<1> QED
  BY <1>1, <1>2, RowSameLoose

LEMMA UserDone ==
    ASSUME TypeOK, DoneInv,
           (\E k \in Tasks : TaskStep(k)) \/ (\E c \in Tokens : TokenStep(c))
    PROVE  DoneInv'
<1>0. UNCHANGED <<at, pc, mem, written>>
  BY DEF TaskStep, Create, CreateWrite, CancelRead, CancelWrite, LeaseEnds, Ages, Heal,
         AnswerRead, TokenStep, TokenExpires, ApproveRead, ApproveWrite, RejectRead,
         RejectWrite, runVars, pastVars
<1>1. SUFFICES ASSUME NEW k \in Tasks, written[k] # <<>> PROVE StaysLoose(k)
  BY <1>0, DoneStep, SameThreads
<1>2. status[k] # "absent"
  BY <1>1 DEF DoneInv
<1>3. CASE \E j \in Tasks : TaskStep(j)
  <2>1. PICK j \in Tasks : TaskStep(j)
    BY <1>3
  <2>2. CASE \E kd \in {"loop", "read"} : Create(j, kd)
    <3>1. j # k /\ status'[k] = status[k] /\ claimed'[k] = claimed[k]
      BY <2>2, <1>2 DEF Create, Set, TypeOK, RowTypeOK
    <3> QED
      BY <2>2, <3>1, <1>1, RowSameLoose DEF Create, userVars
  <2>3. CASE \E c \in Tokens, x \in Writes : CreateWrite(j, c, x)
    <3>1. /\ j # k /\ status'[k] = status[k] /\ claimed'[k] = claimed[k]
          /\ loop'[k] = loop[k] /\ answer' = answer
      BY <2>3, <1>2 DEF CreateWrite, Park, Set, TypeOK, RowTypeOK
    <3> QED
      BY <3>1, <1>2 DEF StaysLoose, Loose
  <2>4. CASE CancelWrite(j) \/ Heal(j)
    BY <2>4, <1>1, FinishLoose DEF CancelWrite, Heal, Final, userVars
  <2>5. CASE CancelRead(j) \/ LeaseEnds(j) \/ Ages(j)
    BY <2>5, <1>1, SameLoose DEF CancelRead, LeaseEnds, Ages, rowVars, userVars
  <2>6. CASE \E a \in Answers : AnswerRead(a, j)
    <3>1. PICK a \in Answers : AnswerRead(a, j)
      BY <2>6
    <3>2. \A b \in Answers : answer'[b] = IF b = a THEN [task |-> j, saw |-> loop[j]] ELSE answer[b]
      BY <3>1 DEF AnswerRead, Set, TypeOK, UserTypeOK
    <3>3. UNCHANGED <<status, claimed, loop>>
      BY <3>1 DEF AnswerRead, rowVars
    <3> QED
      BY <3>2, <3>3, <1>2 DEF StaysLoose, Loose
  <2> QED
    BY <2>1, <2>2, <2>3, <2>4, <2>5, <2>6 DEF TaskStep
<1>4. CASE \E c \in Tokens : TokenStep(c)
  <2>1. PICK c \in Tokens : TokenStep(c)
    BY <1>4
  <2>2. ref[c].task \in Tasks
    BY <2>1 DEF TokenStep, TokenExpires, ApproveRead, ApproveWrite, RejectRead, RejectWrite,
                TypeOK, UserTypeOK
  <2>3. CASE TokenExpires(c) \/ ApproveRead(c) \/ RejectRead(c)
    BY <2>3, <1>1, SameLoose DEF TokenExpires, ApproveRead, RejectRead, rowVars
  <2>4. CASE ApproveWrite(c)
    BY <2>2, <2>4, <1>1, ResumeLoose, SameLoose DEF ApproveWrite
  <2>5. CASE RejectWrite(c)
    BY <2>5, <1>1, FinishLoose DEF RejectWrite, Final
  <2> QED
    BY <2>1, <2>3, <2>4, <2>5 DEF TokenStep
<1> QED
  BY <1>3, <1>4

\* A late answer forgets the write only in the row of a task that is claimed,
\* or it was read after the write.
LEMMA AnswerDone == ASSUME TypeOK, DoneInv, NEW a \in Answers, AnswerWrite(a) PROVE DoneInv'
<1> DEFINE j == answer[a].task
           l == [answer[a].saw EXCEPT !.question = FALSE]
<1>1. j \in Tasks
  BY DEF AnswerWrite, TypeOK, UserTypeOK
<1>2. UNCHANGED <<at, pc, mem, written>>
  BY DEF AnswerWrite, runVars, pastVars
<1>3. SUFFICES ASSUME NEW k \in Tasks, written[k] # <<>> PROVE StaysLoose(k)
  BY <1>2, DoneStep, SameThreads
<1>4. status[k] # "absent"
  BY <1>3 DEF DoneInv
<1>5. \A b \in Answers : answer'[b].task = k => answer'[b] = answer[b]
  <2>1. \A b \in Answers : answer'[b] = IF b = a THEN NoAnswer ELSE answer[b]
    BY DEF AnswerWrite, Set, TypeOK, UserTypeOK
  <2>2. NoAnswer.task # k
    BY Instance DEF NoAnswer
  <2> QED
    BY <2>1, <2>2
<1>6. CASE k # j
  <2>1. status'[k] = status[k] /\ claimed'[k] = claimed[k] /\ loop'[k] = loop[k]
    BY <1>6 DEF AnswerWrite, Resume, Saved, Set, TypeOK, RowTypeOK
  <2> QED
    BY <2>1, <1>4, <1>5 DEF StaysLoose, Loose
<1>7. CASE k = j
  <2>1. Spent(answer[a].saw) => Spent(l)
    BY <1>1 DEF Spent, TypeOK, UserTypeOK, Loop
  <2>2. loop'[k] = loop[k] \/ loop'[k] = l
    BY DEF AnswerWrite, Saved, Set, TypeOK, RowTypeOK
  <2>3. /\ status'[k] # "absent"
        /\ Loose(k)' => Loose(k)
    BY <1>4, <1>7 DEF AnswerWrite, Resume, Set, TypeOK, RowTypeOK, Loose
  <2> QED
    BY <1>5, <1>7, <2>1, <2>2, <2>3 DEF StaysLoose
<1> QED
  BY <1>6, <1>7

LEMMA ClaimDone ==
    ASSUME TypeOK, DoneInv, NEW r \in Runs, NEW k \in Tasks, Claim(r, k) PROVE DoneInv'
<1>1. \A q \in Runs : /\ at'[q] = (IF q = r THEN k ELSE at[q])
                       /\ mem'[q] = (IF q = r THEN loop[k] ELSE mem[q])
                       /\ (q # r => pc'[q] = pc[q])
  BY DEF Claim, Set, TypeOK, RunTypeOK
<1>2. UNCHANGED <<loop, answer, written, status>>
  BY DEF Claim, userVars, pastVars
<1>3. \A j \in Tasks : claimed'[j] = IF j = k THEN TRUE ELSE claimed[j]
  BY DEF Claim, Set, TypeOK, RowTypeOK
<1>4. Loose(k) /\ status[k] = "running"
  BY DEF Claim, Loose
<1>5. \A j \in Tasks : Loose(j)' => Loose(j)
  BY <1>2, <1>3 DEF Loose
<1> QED
  BY <1>1, <1>2, <1>4, <1>5 DEF DoneInv, Live, Spent

LEMMA Busy ==
    ASSUME TypeOK, ThreadInv, NEW r \in Runs, Live(r)
    PROVE  at[r] \in Tasks /\ ~Loose(at[r]) /\ status[at[r]] # "absent"
BY Working DEF Live, TypeOK, ThreadInv, HeldInv, Loose, Final

\* A thread saves its loop in a row that nobody may claim.
LEMMA SaveLoose ==
    ASSUME TypeOK, ThreadInv, DoneInv, NEW r \in Runs, Live(r),
           \A k \in Tasks \ {at[r]} : loop'[k] = loop[k], UNCHANGED <<status, claimed, answer>>
    PROVE  \A k \in Tasks : written[k] # <<>> => StaysLoose(k)
BY Busy DEF DoneInv, StaysLoose, Loose

LEMMA WriteDone ==
    ASSUME TypeOK, ThreadInv, DoneInv, NEW r \in Runs, Write(r) PROVE DoneInv'
<1>1. Live(r)
  BY DEF Write, Goto, Live
<1>2. NoNewThread
  BY GotoThreads DEF Write
<1>3. \A k \in Tasks \ {at[r]} : written'[k] = written[k]
  BY <1>1, Busy DEF Write, TypeOK, PastTypeOK
<1>4. \A q \in Runs : IF q = r THEN Spent(mem'[q]) ELSE mem'[q] = mem[q]
  BY DEF Write, Spent, TypeOK, RunTypeOK, Loop
<1>5. UNCHANGED <<status, claimed, loop, answer, at>>
  BY DEF Write, rowVars, userVars
<1>6. \A q \in Runs : Live(q)' => Live(q)
  BY <1>2 DEF NoNewThread
<1>7. ASSUME NEW k \in Tasks, written'[k] # <<>>
      PROVE  /\ status[k] # "absent"
             /\ \A q \in Runs : Live(q)' /\ at[q] = k => Spent(mem'[q])
             /\ Loose(k) => /\ Spent(loop[k])
                            /\ \A a \in Answers : answer[a].task = k => Spent(answer[a].saw)
  <2>1. CASE k = at[r]
    BY <1>1, <1>4, <1>6, <2>1, Busy DEF ThreadInv, OneThread
  <2>2. CASE k # at[r]
    <3>1. written[k] # <<>>
      BY <1>3, <1>7, <2>2
    <3> QED
      BY <3>1, <2>2, <1>4, <1>6 DEF DoneInv
  <2> QED
    BY <2>1, <2>2
<1> QED
  BY <1>5, <1>7 DEF DoneInv, Loose, Spent

\* The one question is still to be asked, so nobody is answering one.
LEMMA AskDone ==
    ASSUME MaxAsks = 1, TypeOK, ThreadInv, AskInv, DoneInv, NEW r \in Runs, Ask(r),
           NEW j, j = at[r]
    PROVE  DoneInv'
<1> DEFINE l == [mem[r] EXCEPT !.asked = @ + 1, !.question = TRUE]
<1>1. Live(r)
  BY DEF Ask, Live
<1>2. NoNewThread /\ ~Live(r)'
  BY EndThreads DEF Ask
<1>3. \A q \in Runs : mem'[q] = mem[q] \/ ~Live(q)'
  BY EndMem DEF Ask, End, Release, Set, TypeOK, RunTypeOK, Live
<1>4. UNCHANGED <<answer, written>>
  BY DEF Ask, userVars, pastVars
<1>5. \A a \in Answers : answer[a].task # j
  <2>1. j # None /\ ~(mem[r].asked > 0)
    BY <1>1, Busy, Instance DEF Ask, MayAsk, TypeOK, RunTypeOK, Loop
  <2> QED
    BY <1>1, <2>1 DEF AskInv
<1>6. \A k \in Tasks \ {j} : status'[k] = status[k] /\ claimed'[k] = claimed[k] /\ loop'[k] = loop[k]
  BY DEF Ask, Park, Saved, Set, TypeOK, RowTypeOK
<1>7. status'[j] # "absent"
  BY <1>1, Busy DEF Ask, Park, Set, TypeOK, RowTypeOK
<1>8. ASSUME written[j] # <<>>, Loose(j)' PROVE Spent(loop'[j])
  <2>1. Open(j)
    BY <1>1, <1>8, Busy DEF Ask, Open, Loose
  <2>2. loop'[j] = l
    BY <1>1, <2>1, Busy DEF Ask, Saved, Set, TypeOK, RowTypeOK
  <2>3. Spent(mem[r]) /\ l.wrote = mem[r].wrote /\ l.pending = mem[r].pending
    BY <1>1, <1>8, Busy DEF DoneInv, TypeOK, RunTypeOK, Loop
  <2> QED
    BY <2>2, <2>3 DEF Spent
<1>9. ASSUME NEW k \in Tasks, written[k] # <<>>
      PROVE  /\ status'[k] # "absent"
             /\ \A q \in Runs : Live(q)' /\ at'[q] = k => Spent(mem'[q])
             /\ Loose(k)' => /\ Spent(loop'[k])
                             /\ \A a \in Answers : answer[a].task = k => Spent(answer[a].saw)
  <2>1. \A q \in Runs : Live(q)' /\ at'[q] = k => Spent(mem'[q])
    BY <1>2, <1>3, <1>9 DEF NoNewThread, DoneInv
  <2>2. CASE k = j
    BY <1>5, <1>7, <1>8, <1>9, <2>1, <2>2
  <2>3. CASE k # j
    BY <1>6, <1>9, <2>1, <2>3 DEF DoneInv, Loose
  <2> QED
    BY <2>2, <2>3
<1> QED
  BY <1>4, <1>9 DEF DoneInv, Spent

LEMMA RunDone ==
    ASSUME MaxAsks = 1, TypeOK, ThreadInv, AskInv, DoneInv, NEW r \in Runs, RunStep(r),
           \A k \in Tasks : ~Claim(r, k)
    PROVE  DoneInv'
<1>0. NoNewThread
  BY RunThreads
<1>1. CASE Write(r)
  BY <1>1, WriteDone
<1>2. CASE Ask(r)
  BY <1>2, AskDone
<1>3. CASE Read(r) \/ TimeOut(r)
  BY <1>0, <1>3, DoneStep, SameLoose DEF Read, TimeOut, rowVars, userVars, pastVars
<1>4. CASE FailLate(r)
  BY <1>0, <1>4, DoneStep, FinishLoose DEF FailLate, userVars, pastVars, Final
<1>5. CASE Conclude(r) \/ Close(r)
  <2>1. \A k \in Tasks : written[k] # <<>> => StaysLoose(k)
    BY <1>5, FinishLoose DEF Conclude, Close, userVars, Final
  <2> QED
    BY <1>0, <1>5, <2>1, DoneStep, EndMem DEF Conclude, Close, pastVars
<1>6. CASE Raise(r) \/ Crash(r)
  <2>1. \A k \in Tasks : written[k] # <<>> => StaysLoose(k)
    BY <1>6, SameLoose DEF Raise, Crash, rowVars, userVars
  <2> QED
    BY <1>0, <1>6, <2>1, DoneStep, ReleaseMem DEF Raise, Crash, pastVars
<1>7. CASE Look(r)
  <2>1. \A k \in Tasks : written[k] # <<>> => StaysLoose(k)
    BY <1>7, SameLoose DEF Look, rowVars, userVars
  <2> QED
    BY <1>0, <1>7, <2>1, DoneStep, EndMem DEF Look, pastVars
<1>8. CASE Land(r) \/ Decide(r) \/ GoOn(r)
  <2>1. Live(r)
    BY <1>8 DEF Land, Decide, GoOn, Goto, Live
  <2>2. \A k \in Tasks \ {at[r]} : loop'[k] = loop[k]
    BY <1>8 DEF Land, Decide, GoOn, Save, Saved, Set, TypeOK, RowTypeOK
  <2>3. \A k \in Tasks : written[k] # <<>> => StaysLoose(k)
    BY <1>8, <2>1, <2>2, SaveLoose DEF Land, Decide, GoOn, userVars
  <2> QED
    BY <1>0, <1>8, <2>3, DoneStep DEF Land, Decide, GoOn, pastVars
<1>9. CASE \E c \in Tokens, x \in Writes : Propose(r, c, x)
  <2>1. PICK c \in Tokens, x \in Writes : Propose(r, c, x)
    BY <1>9
  <2>2. Live(r) /\ ~mem[r].wrote
    BY <2>1 DEF Propose, MayWrite, Live
  <2>3. written[at[r]] = <<>>
    BY <2>2, Busy DEF DoneInv, Spent
  <2>4. \A k \in Tasks \ {at[r]} :
           status'[k] = status[k] /\ claimed'[k] = claimed[k] /\ loop'[k] = loop[k]
    BY <2>1 DEF Propose, Park, Saved, Set, TypeOK, RowTypeOK
  <2>5. \A k \in Tasks : written[k] # <<>> => StaysLoose(k)
    BY <2>1, <2>3, <2>4 DEF Propose, DoneInv, StaysLoose, Loose
  <2> QED
    BY <1>0, <2>1, <2>5, DoneStep, EndMem DEF Propose, pastVars
<1> QED
  BY <1>1, <1>2, <1>3, <1>4, <1>5, <1>6, <1>7, <1>8, <1>9 DEF RunStep

LEMMA NextDone ==
    ASSUME MaxAsks = 1, TypeOK, ThreadInv, AskInv, DoneInv, [Next]_vars PROVE DoneInv'
<1>1. CASE UNCHANGED vars
  BY <1>1, DoneStep, SameThreads, SameLoose DEF vars, rowVars, userVars, runVars, pastVars
<1>2. CASE \E r \in Runs : RunStep(r)
  <2>1. PICK r \in Runs : RunStep(r)
    BY <1>2
  <2> QED
    BY <2>1, ClaimDone, RunDone
<1> QED
  BY <1>1, <1>2, UserDone, AnswerDone DEF Next

LEMMA NextWriteOnce ==
    ASSUME TypeOK, GrantInv, DoneInv, WriteOnce, [Next]_vars PROVE WriteOnce'
<1>1. \A k \in Tasks : approved[k] \subseteq approved'[k]
  <2>1. CASE UNCHANGED approved
    BY <2>1
  <2>2. CASE \E c \in Tokens : ApproveWrite(c)
    <3>1. PICK c \in Tokens : ApproveWrite(c)
      BY <2>2
    <3>2. CASE approved' = Set(approved, ref[c].task, approved[ref[c].task] \cup {ref[c].args})
      BY <3>2 DEF Set, TypeOK, PastTypeOK
    <3> QED
      BY <2>1, <3>1, <3>2 DEF ApproveWrite
  <2> QED
    BY <2>1, <2>2
       DEF Next, vars, TaskStep, Create, CreateWrite, CancelRead, CancelWrite, LeaseEnds, Ages,
           Heal, AnswerRead, TokenStep, TokenExpires, ApproveRead, RejectRead, RejectWrite,
           AnswerWrite, RunStep, Claim, Write, Read, Conclude, Land, Look, Decide, GoOn, Ask,
           Propose, Close, Raise, TimeOut, FailLate, Crash, pastVars
<1>2. CASE UNCHANGED written
  BY <1>1, <1>2 DEF WriteOnce
<1>3. ASSUME NEW r \in Runs, Write(r), written' # written PROVE WriteOnce'
  <2>1. Live(r) /\ at[r] \in Tasks /\ mem[r].pending # None
    BY <1>3, Working DEF Write, Goto, Live, TypeOK
  <2>2. written[at[r]] = <<>>
    BY <2>1 DEF DoneInv, Spent
  <2>3. mem[r].pending \in approved[at[r]]
    BY <1>3, <2>1 DEF Write, Granted, GrantInv
  <2>4. written' = [written EXCEPT ![at[r]] = Append(@, mem[r].pending)]
    BY <1>3 DEF Write
  <2>5. Append(written[at[r]], mem[r].pending) = <<mem[r].pending>>
    BY <2>2
  <2>6. \A k \in Tasks : written'[k] = IF k = at[r] THEN <<mem[r].pending>> ELSE written[k]
    BY <2>4, <2>5 DEF TypeOK, PastTypeOK
  <2>7. ASSUME NEW x PROVE Len(<<x>>) <= 1 /\ \A i \in DOMAIN <<x>> : <<x>>[i] = x
    OBVIOUS
  <2>8. \A k \in Tasks : /\ Len(written'[k]) <= 1
                         /\ \A i \in DOMAIN written'[k] : written'[k][i] \in approved[k]
    <3> SUFFICES ASSUME NEW k \in Tasks
                 PROVE  /\ Len(written'[k]) <= 1
                        /\ \A i \in DOMAIN written'[k] : written'[k][i] \in approved[k]
        OBVIOUS
    <3>1. CASE k = at[r]
      <4> DEFINE x == mem[r].pending
      <4>1. written'[k] = <<x>> /\ x \in approved[k]
        BY <2>3, <2>6, <3>1
      <4>2. Len(<<x>>) <= 1 /\ \A i \in DOMAIN <<x>> : <<x>>[i] = x
        BY <2>7
      <4> HIDE DEF x
      <4> QED
        BY <4>1, <4>2
    <3>2. CASE k # at[r]
      BY <2>6, <3>2 DEF WriteOnce
    <3> QED
      BY <3>1, <3>2
  <2> QED
    BY <1>1, <2>8 DEF WriteOnce
<1> QED
  BY <1>2, <1>3
     DEF Next, vars, TaskStep, Create, CreateWrite, CancelRead, CancelWrite, LeaseEnds, Ages,
         Heal, AnswerRead, TokenStep, TokenExpires, ApproveRead, ApproveWrite, RejectRead,
         RejectWrite, AnswerWrite, RunStep, Claim, Read, Conclude, Land, Look, Decide, GoOn, Ask,
         Propose, Close, Raise, TimeOut, FailLate, Crash, pastVars

WriteInv == ThreadInv /\ AskInv /\ GrantInv /\ DoneInv /\ WriteOnce

LEMMA InitWrites == Init => WriteInv
<1> SUFFICES ASSUME Init PROVE WriteInv
    OBVIOUS
<1>1. ThreadInv
  BY DEF Init, ThreadInv, OneThread, HeldInv, Live
<1>2. AskInv
  BY DEF Init, AskInv, EmptyLoop, NoAnswer
<1>3. GrantInv
  BY DEF Init, GrantInv, NoCard
<1>4. DoneInv /\ WriteOnce
  BY DEF Init, DoneInv, WriteOnce
<1> QED
  BY <1>1, <1>2, <1>3, <1>4 DEF WriteInv

LEMMA WriteInvariant == ASSUME MaxAsks = 1 PROVE Spec => [](TypeOK /\ WriteInv)
<1>1. Init => TypeOK /\ WriteInv
  BY InitType, InitWrites
<1>2. TypeOK /\ WriteInv /\ [Next]_vars => (TypeOK /\ WriteInv)'
  BY NextType, NextThread, NextAsk, NextGrant, NextDone, NextWriteOnce DEF WriteInv
<1> QED
  BY <1>1, <1>2, PTL DEF Spec

(* A task writes at most once, and only what a person approved for it,     *)
(* though answers and approvals overwrite newer loops and cards: because   *)
(* the loop asks one question only (MAX_ASKS), a late answer finds either  *)
(* the write in the loop it read or the thread that wrote still at work.   *)
THEOREM WritesOnce == ASSUME MaxAsks = 1 PROVE Spec => []WriteOnce
<1>1. WriteInv => WriteOnce
  BY DEF WriteInv
<1> QED
  BY <1>1, WriteInvariant, PTL

-----------------------------------------------------------------------------
(* Every task is an errand.  What the accountant sees of a step depends on *)
(* what it does to the status and to the threads of the task.              *)

Shows(k) == UNCHANGED Errands(k)!vars \/ Errands(k)!Next

LEMMA InitShows == ASSUME NEW k \in Tasks, Init PROVE Errands(k)!Init
<1>1. ~Worked(k)
  BY DEF Init, Worked, Live
<1>2. status[k] = "absent" /\ approved[k] = {} /\ written[k] = <<>>
  BY DEF Init
<1> QED
  BY <1>1, <1>2 DEF Errands!Init

\* A step that begins no thread either keeps the task worked on or leaves it
\* to nobody.
LEMMA WorkedStep ==
    ASSUME NoNewThread, NEW k \in Tasks
    PROVE  \/ UNCHANGED Worked(k)
           \/ Worked(k) = TRUE /\ Worked(k)' = FALSE
<1>1. Worked(k)' => Worked(k)
  BY DEF Worked, NoNewThread
<1>2. Worked(k) \in BOOLEAN /\ Worked(k)' \in BOOLEAN
  BY DEF Worked
<1> QED
  BY <1>1, <1>2

LEMMA QuietShows ==
    ASSUME NoNewThread, NEW k \in Tasks,
           status'[k] = status[k], UNCHANGED <<approved[k], written[k]>>
    PROVE  Shows(k)
<1>1. CASE UNCHANGED Worked(k)
  BY <1>1 DEF Shows, Errands!vars
<1>2. CASE Worked(k) = TRUE /\ Worked(k)' = FALSE
  <2>1. Errands(k)!Stop
    BY <1>2 DEF Errands!Stop
  <2> QED
    BY <2>1 DEF Shows, Errands!Next
<1> QED
  BY <1>1, <1>2, WorkedStep

LEMMA CloseShows ==
    ASSUME NoNewThread, NEW k \in Tasks, Open(k), status'[k] \in Final,
           UNCHANGED <<approved[k], written[k]>>
    PROVE  Shows(k)
<1>1. Worked(k)' \in {Worked(k), FALSE}
  BY WorkedStep
<1>2. Errands(k)!Close
  BY <1>1 DEF Errands!Close, Errands!Ends, Open, Final
<1> QED
  BY <1>2 DEF Shows, Errands!Next

\* An open task is closed, a closed one stays as it is.
LEMMA FinishShows ==
    ASSUME TypeOK, NoNewThread, NEW j, NEW v \in Final, UNCHANGED pastVars,
           Finish(j, v) \/ UNCHANGED status
    PROVE  \A k \in Tasks : Shows(k)
<1>1. TAKE k \in Tasks
<1>2. UNCHANGED <<approved[k], written[k]>>
  BY DEF pastVars
<1>3. \/ status'[k] = status[k]
      \/ Open(k) /\ status'[k] \in Final
  BY DEF Finish, Set, TypeOK, RowTypeOK
<1> QED
  BY <1>2, <1>3, QuietShows, CloseShows

LEMMA WaitingIdle ==
    ASSUME TypeOK, ThreadInv, UNCHANGED <<at, pc>>, NEW k \in Tasks,
           status[k] \in {"absent", "waiting"}
    PROVE  Worked(k) = FALSE /\ Worked(k)' = FALSE
BY WaitingFree DEF Worked, Live

LEMMA WakeShows ==
    ASSUME TypeOK, ThreadInv, UNCHANGED <<at, pc, written>>, NEW k \in Tasks,
           status[k] = "waiting", status'[k] = "running",
           approved'[k] = approved[k] \/ \E x \in Writes : approved'[k] = approved[k] \cup {x}
    PROVE  Shows(k)
<1>1. Worked(k) = FALSE /\ Worked(k)' = FALSE
  BY WaitingIdle
<1>2. Errands(k)!Wake
  BY <1>1 DEF Errands!Wake
<1> QED
  BY <1>2 DEF Shows, Errands!Next

LEMMA CreateShows ==
    ASSUME TypeOK, ThreadInv, UNCHANGED <<at, pc, approved, written>>, NEW k \in Tasks,
           status[k] = "absent", status'[k] \in {"running", "waiting"}
    PROVE  Shows(k)
<1>1. Worked(k) = FALSE /\ Worked(k)' = FALSE
  BY WaitingIdle
<1>2. Errands(k)!Create
  BY <1>1 DEF Errands!Create
<1> QED
  BY <1>2 DEF Shows, Errands!Next

LEMMA UserShows ==
    ASSUME TypeOK, ThreadInv, UNCHANGED <<at, pc>>,
           \/ \E k \in Tasks : TaskStep(k)
           \/ \E c \in Tokens : TokenStep(c)
           \/ \E a \in Answers : AnswerWrite(a)
    PROVE  \A k \in Tasks : Shows(k)
<1>0. NoNewThread
  BY SameThreads
<1>1. CASE \E k \in Tasks : TaskStep(k)
  <2>1. PICK j \in Tasks : TaskStep(j)
    BY <1>1
  <2>2. CASE \/ \E kd \in {"loop", "read"} : Create(j, kd)
             \/ \E c \in Tokens, x \in Writes : CreateWrite(j, c, x)
    <3>1. UNCHANGED <<approved, written>>
      BY <2>2 DEF Create, CreateWrite, pastVars
    <3>2. status[j] = "absent" /\ status'[j] \in {"running", "waiting"}
      BY <2>2 DEF Create, CreateWrite, Park, Set, TypeOK, RowTypeOK
    <3>3. \A k \in Tasks \ {j} : status'[k] = status[k]
      BY <2>2 DEF Create, CreateWrite, Park, Set, TypeOK, RowTypeOK
    <3> QED
      BY <1>0, <3>1, <3>2, <3>3, CreateShows, QuietShows
  <2>3. CASE CancelWrite(j) \/ Heal(j)
    BY <1>0, <2>3, FinishShows DEF CancelWrite, Heal, Final
  <2>4. CASE CancelRead(j) \/ LeaseEnds(j) \/ Ages(j) \/ \E a \in Answers : AnswerRead(a, j)
    BY <1>0, <2>4, QuietShows DEF CancelRead, LeaseEnds, Ages, AnswerRead, rowVars, pastVars
  <2> QED
    BY <2>1, <2>2, <2>3, <2>4 DEF TaskStep
<1>2. CASE \E c \in Tokens : TokenStep(c)
  <2>1. PICK c \in Tokens : TokenStep(c)
    BY <1>2
  <2>2. ref[c].task \in Tasks /\ ref[c].args \in Writes
    BY <2>1 DEF TokenStep, TokenExpires, ApproveRead, ApproveWrite, RejectRead, RejectWrite,
                TypeOK, UserTypeOK
  <2>3. CASE TokenExpires(c) \/ ApproveRead(c) \/ RejectRead(c)
    BY <1>0, <2>3, QuietShows DEF TokenExpires, ApproveRead, RejectRead, rowVars, pastVars
  <2>4. CASE ApproveWrite(c)
    <3>0. PICK j \in Tasks : j = ref[c].task
      BY <2>2
    <3>1. CASE status[j] = "waiting"
      <4>1. /\ status'[j] = "running" /\ \A k \in Tasks \ {j} : status'[k] = status[k]
            /\ approved'[j] = approved[j] \cup {ref[c].args}
            /\ \A k \in Tasks \ {j} : approved'[k] = approved[k]
        BY <2>4, <3>0, <3>1
           DEF ApproveWrite, Resume, Set, TypeOK, RowTypeOK, PastTypeOK
      <4>2. UNCHANGED written
        BY <2>4 DEF ApproveWrite
      <4>3. Shows(j)
        BY <2>2, <3>1, <4>1, <4>2, WakeShows
      <4>4. ASSUME NEW k \in Tasks \ {j} PROVE Shows(k)
        BY <1>0, <4>1, <4>2, QuietShows
      <4> QED
        BY <4>3, <4>4
    <3>2. CASE status[j] # "waiting"
      BY <1>0, <2>4, <3>0, <3>2, QuietShows DEF ApproveWrite
    <3> QED
      BY <3>1, <3>2
  <2>5. CASE RejectWrite(c)
    BY <1>0, <2>5, FinishShows DEF RejectWrite, Final
  <2> QED
    BY <2>1, <2>3, <2>4, <2>5 DEF TokenStep
<1>3. CASE \E a \in Answers : AnswerWrite(a)
  <2>1. PICK a \in Answers : AnswerWrite(a)
    BY <1>3
  <2> DEFINE j == answer[a].task
  <2>2. j \in Tasks /\ UNCHANGED <<approved, written>>
    BY <2>1 DEF AnswerWrite, TypeOK, UserTypeOK, pastVars
  <2>3. CASE status[j] = "waiting"
    <3>1. status'[j] = "running" /\ \A k \in Tasks \ {j} : status'[k] = status[k]
      BY <2>1, <2>2, <2>3 DEF AnswerWrite, Resume, Set, TypeOK, RowTypeOK
    <3> QED
      BY <1>0, <2>2, <2>3, <3>1, WakeShows, QuietShows
  <2>4. CASE status[j] # "waiting"
    BY <1>0, <2>1, <2>2, <2>4, QuietShows DEF AnswerWrite
  <2> QED
    BY <2>3, <2>4
<1> QED
  BY <1>1, <1>2, <1>3

LEMMA ClaimShows ==
    ASSUME TypeOK, ThreadInv, NEW r \in Runs, NEW j \in Tasks, Claim(r, j)
    PROVE  \A k \in Tasks : Shows(k)
<1>1. \A q \in Runs : Live(q) => at[q] # j
  BY DEF ThreadInv, HeldInv, Claim, Final
<1>2. /\ at[r] = None /\ ~Live(r) /\ at'[r] = j /\ Live(r)'
      /\ \A q \in Runs \ {r} : at'[q] = at[q] /\ (Live(q)' <=> Live(q))
  BY DEF Claim, Set, Live, TypeOK, RunTypeOK
<1>3. UNCHANGED <<status, approved, written>> /\ status[j] = "running"
  BY DEF Claim, pastVars
<1>4. Shows(j)
  <2>1. Worked(j) = FALSE
    BY <1>1 DEF Worked
  <2>2. Worked(j)' = TRUE
    BY <1>2 DEF Worked
  <2>3. Errands(j)!Start
    BY <1>3, <2>1, <2>2 DEF Errands!Start
  <2> QED
    BY <2>3 DEF Shows, Errands!Next
<1>5. ASSUME NEW k \in Tasks \ {j} PROVE Shows(k)
  <2>1. Worked(k)' = Worked(k)
    BY <1>2, Instance DEF Worked
  <2> QED
    BY <1>3, <2>1 DEF Shows, Errands!vars
<1> QED
  BY <1>4, <1>5

\* The thread of r parks its task, and is gone.
LEMMA ParkShows ==
    ASSUME TypeOK, ThreadInv, NEW r \in Runs, Live(r), End(r), UNCHANGED <<approved, written>>,
           \/ Open(at[r]) /\ Park(at[r])
           \/ UNCHANGED status
    PROVE  \A k \in Tasks : Shows(k)
<1>1. NoNewThread
  BY EndThreads
<1>2. CASE UNCHANGED status
  BY <1>1, <1>2, QuietShows
<1>3. CASE Open(at[r]) /\ Park(at[r])
  <2>1. PICK j \in Tasks : j = at[r]
    BY Working DEF Live, TypeOK
  <2>2. status[j] = "running"
    BY <1>3, <2>1 DEF Open, ThreadInv, HeldInv, Final
  <2>3. status'[j] = "waiting" /\ \A k \in Tasks \ {j} : status'[k] = status[k]
    BY <1>3, <2>1 DEF Park, Set, TypeOK, RowTypeOK
  <2>4. Worked(j) = TRUE
    BY <2>1 DEF Worked
  <2>5. Worked(j)' = FALSE
    BY <2>1, EndFree DEF Worked
  <2>6. Errands(j)!Wait
    BY <2>2, <2>3, <2>4, <2>5 DEF Errands!Wait
  <2>7. Shows(j)
    BY <2>6 DEF Shows, Errands!Next
  <2> QED
    BY <1>1, <2>3, <2>7, QuietShows
<1> QED
  BY <1>2, <1>3

LEMMA WriteShows ==
    ASSUME TypeOK, ThreadInv, GrantInv, DoneInv, NEW r \in Runs, Write(r)
    PROVE  \A k \in Tasks : Shows(k)
<1>1. NoNewThread
  BY GotoThreads DEF Write
<1>2. UNCHANGED <<status, approved>>
  BY DEF Write, rowVars
<1>3. CASE UNCHANGED written
  BY <1>1, <1>2, <1>3, QuietShows
<1>4. CASE Granted(r) /\ written' = [written EXCEPT ![at[r]] = Append(@, mem[r].pending)]
  <2>1. Live(r) /\ mem[r].pending # None
    BY DEF Write, Goto, Live
  <2>2. PICK j \in Tasks : j = at[r]
    BY <2>1, Working DEF Live, TypeOK
  <2>3. written[j] = <<>> /\ mem[r].pending \in approved[j]
    BY <1>4, <2>1, <2>2 DEF DoneInv, Spent, Granted, GrantInv
  <2>4. Append(written[j], mem[r].pending) = <<mem[r].pending>>
    BY <2>3
  <2>5. written'[j] = <<mem[r].pending>> /\ \A k \in Tasks \ {j} : written'[k] = written[k]
    BY <1>4, <2>2, <2>4 DEF TypeOK, PastTypeOK
  <2>6. Worked(j) = TRUE /\ Worked(j)' = TRUE
    <3>1. at'[r] = at[r] /\ Live(r)'
      BY DEF Write, Goto, Set, Live, TypeOK, RunTypeOK
    <3> QED
      BY <2>1, <2>2, <3>1 DEF Worked
  <2>7. Errands(j)!Write
    BY <1>2, <2>3, <2>5, <2>6 DEF Errands!Write
  <2>8. Shows(j)
    BY <2>7 DEF Shows, Errands!Next
  <2> QED
    BY <1>1, <1>2, <2>5, <2>8, QuietShows
<1> QED
  BY <1>3, <1>4 DEF Write

LEMMA RunShows ==
    ASSUME TypeOK, ThreadInv, GrantInv, DoneInv, NEW r \in Runs, RunStep(r)
    PROVE  \A k \in Tasks : Shows(k)
<1>1. CASE \E k \in Tasks : Claim(r, k)
  BY <1>1, ClaimShows
<1>2. CASE Write(r)
  BY <1>2, WriteShows
<1>3. CASE Ask(r)
  BY <1>3, ParkShows DEF Ask, Live, pastVars
<1>4. CASE \E c \in Tokens, x \in Writes : Propose(r, c, x)
  BY <1>4, ParkShows DEF Propose, Live, pastVars
<1>5. ASSUME ~\E k \in Tasks : Claim(r, k), ~Write(r), ~Ask(r),
             ~\E c \in Tokens, x \in Writes : Propose(r, c, x)
      PROVE  \A k \in Tasks : Shows(k)
  <2>1. NoNewThread
    BY <1>5, RunThreads
  <2>2. UNCHANGED pastVars
    BY <1>5 DEF RunStep, Read, Conclude, Land, Look, Decide, GoOn, Close, Raise, TimeOut,
                FailLate, Crash
  <2>3. UNCHANGED status \/ \E v \in Final : Finish(at[r], v)
    BY <1>5 DEF RunStep, Read, Conclude, Land, Look, Decide, GoOn, Close, Raise, TimeOut,
                FailLate, Crash, rowVars, Final
  <2>4. PICK j : j = at[r]
    OBVIOUS
  <2>5. CASE UNCHANGED status
    BY <2>1, <2>2, <2>5, QuietShows DEF pastVars
  <2>6. ASSUME NEW v \in Final, Finish(at[r], v) PROVE \A k \in Tasks : Shows(k)
    <3>1. Finish(j, v)
      BY <2>4, <2>6 DEF Finish
    <3> QED
      BY <2>1, <2>2, <3>1, FinishShows
  <2> QED
    BY <2>3, <2>5, <2>6
<1> QED
  BY <1>1, <1>2, <1>3, <1>4, <1>5

LEMMA NextShows ==
    ASSUME TypeOK, WriteInv, [Next]_vars PROVE \A k \in Tasks : Shows(k)
<1>0. ThreadInv /\ GrantInv /\ DoneInv
  BY DEF WriteInv
<1>1. CASE UNCHANGED vars
  BY <1>1, SameThreads, QuietShows DEF vars, rowVars, runVars, pastVars
<1>2. CASE \E r \in Runs : RunStep(r)
  BY <1>0, <1>2, RunShows
<1>3. CASE \/ \E k \in Tasks : TaskStep(k)
           \/ \E c \in Tokens : TokenStep(c)
           \/ \E a \in Answers : AnswerWrite(a)
  <2>1. UNCHANGED <<at, pc>>
    BY <1>3 DEF TaskStep, Create, CreateWrite, CancelRead, CancelWrite, LeaseEnds, Ages, Heal,
                AnswerRead, TokenStep, TokenExpires, ApproveRead, ApproveWrite, RejectRead,
                RejectWrite, AnswerWrite, runVars
  <2> QED
    BY <1>0, <1>3, <2>1, UserShows
<1> QED
  BY <1>1, <1>2, <1>3 DEF Next

(* Whatever runs, requests and healing do to its row, a task is to the     *)
(* accountant what Errand says: she alone wakes it, one thread works on    *)
(* it, it writes once what she approved, and it ends for good.             *)
THEOREM TaskIsErrand ==
    ASSUME MaxAsks = 1, NEW k \in Tasks PROVE Spec => Errands(k)!Spec
<1>1. Init => Errands(k)!Init
  BY InitShows
<1>2. TypeOK /\ WriteInv /\ [Next]_vars => [Errands(k)!Next]_(Errands(k)!vars)
  BY NextShows DEF Shows
<1> QED
  BY <1>1, <1>2, WriteInvariant, PTL DEF Spec, Errands!Spec

(* The same of all tasks of one behaviour, in the form TLC checks.         *)
THEOREM ErrandsKept == ASSUME MaxAsks = 1 PROVE Spec => TasksAreErrands
<1>1. Init => \A k \in Tasks : Errands(k)!Init
  BY InitShows
<1>2. TypeOK /\ WriteInv /\ [Next]_vars
        => [\A k \in Tasks : UNCHANGED Errands(k)!vars \/ Errands(k)!Next]_vars
  BY NextShows DEF Shows
<1> QED
  BY <1>1, <1>2, WriteInvariant, PTL DEF Spec, TasksAreErrands
=============================================================================
