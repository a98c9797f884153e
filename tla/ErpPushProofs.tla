--------------------------- MODULE ErpPushProofs ---------------------------
(***************************************************************************)
(* What holds of ErpPush for any documents, rows, threads and bounds.      *)
(***************************************************************************)
EXTENDS ErpPush, TLAPS

LEMMA Instance ==
    /\ Logs \subseteq Nat /\ None \notin Docs /\ None \notin Logs
    /\ MaxRetries \in Nat \ {0} /\ MaxHands \in Nat /\ MaxCrashes \in Nat
    /\ DbErrors \in BOOLEAN
BY PushAssumption DEF PushAssumption

-----------------------------------------------------------------------------
(* Types.  A push that ended has a result. *)

HasResult == \A t \in Threads : pc[t] \in {"sent", "counted", "updated"} => res[t] # "none"

TInv == TypeOK /\ HasResult

Results  == {"success", "failed", "data", "dup"}
Statuses == {"absent", "pending", "retrying", "success", "failed", "skipped_dup", "manual"}

LEMMA ClassifiedType ==
    ASSUME NEW r \in Results PROVE Classified(r) \in {"success", "failed", "skipped_dup"}
BY DEF Classified, Results

LEMMA InitType == Init => TInv
<1> SUFFICES ASSUME Init PROVE TInv
    OBVIOUS
<1>1. LogTypeOK
  BY Instance DEF Init, LogTypeOK
<1>2. ThreadTypeOK /\ HasResult
  BY Instance DEF Init, ThreadTypeOK, HasResult, Threads
<1> QED
  BY <1>1, <1>2 DEF TInv, TypeOK

\* A thread at work holds a row.
LEMMA Held ==
    ASSUME ThreadTypeOK, NEW t \in Threads, pc[t] \notin {"idle", "listed"}
    PROVE  at[t] \in Logs
BY DEF ThreadTypeOK

LEMMA SameThreads ==
    ASSUME ThreadTypeOK, HasResult, UNCHANGED threadVars, UNCHANGED ghostVars
    PROVE  ThreadTypeOK' /\ HasResult'
BY DEF ThreadTypeOK, HasResult, threadVars, ghostVars

LEMMA FinishType ==
    ASSUME ThreadTypeOK, HasResult, NEW t \in Threads, Finish(t), UNCHANGED ghostVars
    PROVE  ThreadTypeOK' /\ HasResult'
<1>1. /\ pc' \in [Threads -> {"idle", "listed", "checked", "send", "sent", "counted", "updated"}]
      /\ kind' \in [Threads -> {"none", "auto", "cowork", "confirmed", "hand", "tick"}]
      /\ at' \in [Threads -> Logs \cup {None}]
  BY DEF ThreadTypeOK, Finish, Set
<1>2. /\ res' \in [Threads -> {"none", "success", "failed", "data", "dup"}]
      /\ seen' \in [Threads -> BOOLEAN] /\ count' \in [Threads -> Nat]
      /\ todo' \in [Threads -> SUBSET Logs] /\ crashes' \in 0..MaxCrashes
      /\ touched' \subseteq Logs /\ hands' \in 0..MaxHands
  BY DEF ThreadTypeOK, Finish, Set, ghostVars
<1>3. \A s \in Threads : pc'[s] \in {"idle", "listed"} <=> at'[s] = None
  BY DEF ThreadTypeOK, Finish, Set
<1>4. HasResult'
  BY DEF ThreadTypeOK, HasResult, Finish, Set
<1> QED
  BY <1>1, <1>2, <1>3, <1>4 DEF ThreadTypeOK

LEMMA StartType ==
    ASSUME ThreadTypeOK, HasResult, NEW t \in Threads, NEW l \in Logs,
           NEW k \in {"auto", "cowork", "confirmed", "hand"}, NEW p \in {"checked", "send"},
           Start(t, k, l, p), UNCHANGED <<res, count, todo, crashes>>,
           seen' \in [Threads -> BOOLEAN], touched' \subseteq Logs, hands' \in 0..MaxHands
    PROVE  ThreadTypeOK' /\ HasResult'
<1>1. /\ pc' \in [Threads -> {"idle", "listed", "checked", "send", "sent", "counted", "updated"}]
      /\ kind' \in [Threads -> {"none", "auto", "cowork", "confirmed", "hand", "tick"}]
      /\ at' \in [Threads -> Logs \cup {None}]
  BY DEF ThreadTypeOK, Start, Set
<1>2. \A s \in Threads : pc'[s] \in {"idle", "listed"} <=> at'[s] = None
  BY Instance DEF ThreadTypeOK, Start, Set
<1>3. HasResult'
  BY DEF ThreadTypeOK, HasResult, Start, Set
<1> QED
  BY <1>1, <1>2, <1>3 DEF ThreadTypeOK

\* A thread goes on with its row.
LEMMA GoOnType ==
    ASSUME ThreadTypeOK, HasResult, NEW t \in Threads, pc[t] \notin {"idle", "listed"},
           NEW p \in {"send", "sent", "counted", "updated"}, pc' = Set(pc, t, p),
           NEW r \in {"none"} \cup Results, res' = Set(res, t, r),
           p # "send" => r # "none",
           count' \in [Threads -> Nat], UNCHANGED <<kind, at, seen, todo, ghostVars>>
    PROVE  ThreadTypeOK' /\ HasResult'
<1>1. /\ pc' \in [Threads -> {"idle", "listed", "checked", "send", "sent", "counted", "updated"}]
      /\ res' \in [Threads -> {"none", "success", "failed", "data", "dup"}]
  BY DEF ThreadTypeOK, Set, Results
<1>2. \A s \in Threads : pc'[s] \in {"idle", "listed"} <=> at'[s] = None
  BY DEF ThreadTypeOK, Set
<1>3. HasResult'
  BY DEF ThreadTypeOK, HasResult, Set
<1> QED
  BY <1>1, <1>2, <1>3 DEF ThreadTypeOK, ghostVars

\* The same with the result it has.
LEMMA KeepResult ==
    ASSUME ThreadTypeOK, HasResult, NEW t \in Threads, pc[t] \in {"sent", "counted", "updated"},
           NEW p \in {"sent", "counted", "updated"}, pc' = Set(pc, t, p), res' = res,
           count' \in [Threads -> Nat], UNCHANGED <<kind, at, seen, todo, ghostVars>>
    PROVE  ThreadTypeOK' /\ HasResult'
<1>1. res[t] \in Results /\ res' = Set(res, t, res[t])
  BY DEF ThreadTypeOK, HasResult, Set, Results
<1>2. pc[t] \notin {"idle", "listed"} /\ p \in {"send", "sent", "counted", "updated"}
  OBVIOUS
<1>3. res[t] \in {"none"} \cup Results /\ res[t] # "none"
  BY <1>1 DEF Results
<1> QED
  BY <1>1, <1>2, <1>3, GoOnType

LEMMA SameLogs == ASSUME LogTypeOK, UNCHANGED <<logVars, staged, by>> PROVE LogTypeOK'
BY DEF LogTypeOK, logVars

\* One row is written.
LEMMA RowType ==
    ASSUME LogTypeOK, NEW l \in Logs, NEW s \in Statuses, status' = Set(status, l, s),
           NEW e \in {"none", "live", "over"}, lease' = Set(lease, l, e),
           NEW k \in BOOLEAN, keyed' = Set(keyed, l, k),
           UNCHANGED <<doc, path, due, retries, staged, by>>
    PROVE  LogTypeOK'
BY DEF LogTypeOK, Set, Statuses

LEMMA BindType ==
    ASSUME LogTypeOK, NEW l \in Logs, NEW d \in Docs, NEW p \in {"auto", "cowork", "confirmed"},
           Bind(l, d, p)
    PROVE  /\ doc' \in [Logs -> Docs \cup {None}]
           /\ path' \in [Logs -> {"none", "auto", "cowork", "confirmed"}]
BY DEF LogTypeOK, Bind, Set

LEMMA SettledType ==
    ASSUME LogTypeOK, NEW S
    PROVE  /\ SettledStatus(S) \in [Logs -> Statuses]
           /\ SettledLease(S) \in [Logs -> {"none", "live", "over"}]
BY DEF LogTypeOK, SettledStatus, SettledLease, Statuses

LEMMA NextType == TInv /\ [Next]_vars => TInv'
<1> SUFFICES ASSUME TInv, [Next]_vars PROVE TInv'
    OBVIOUS
<1>0. LogTypeOK /\ ThreadTypeOK /\ HasResult
  BY DEF TInv, TypeOK
<1> SUFFICES LogTypeOK' /\ ThreadTypeOK' /\ HasResult'
    BY DEF TInv, TypeOK
<1> USE <1>0, Instance
<1> DEFINE TGoal == LogTypeOK' /\ ThreadTypeOK' /\ HasResult'
<1>1. ASSUME NEW t \in Requests, NEW d \in Docs, NEW l \in Logs,
             \/ AutoSkip(t, d, l) \/ AutoCheck(t, d, l)
             \/ ReserveCowork(t, d, l) \/ ReserveConfirmed(t, d, l)
      PROVE  TGoal
  <2>0. t \in Threads
    BY DEF Threads
  <2>1. CASE AutoSkip(t, d, l)
    <3>1. ThreadTypeOK' /\ HasResult'
      BY <2>1, SameThreads DEF AutoSkip
    <3>2. LogTypeOK'
      BY <2>1, BindType DEF AutoSkip, Set, LogTypeOK
    <3> QED
      BY <3>1, <3>2
  <2>2. CASE AutoCheck(t, d, l)
    <3>1. seen' \in [Threads -> BOOLEAN] /\ touched' \subseteq Logs /\ hands' \in 0..MaxHands
      BY <2>2 DEF AutoCheck, ThreadTypeOK, ghostVars
    <3>2. UNCHANGED <<res, count, todo, crashes>> /\ Start(t, "auto", l, "checked")
      BY <2>2 DEF AutoCheck, ghostVars
    <3>3. ThreadTypeOK' /\ HasResult'
      BY <2>0, <3>1, <3>2, StartType
    <3>4. LogTypeOK'
      BY <2>2, BindType DEF AutoCheck, LogTypeOK
    <3> QED
      BY <3>3, <3>4
  <2>3. CASE ReserveCowork(t, d, l)
    <3>1. /\ staged' \in [Docs -> BOOLEAN] /\ due' \in [Logs -> BOOLEAN]
          /\ retries' \in [Logs -> Nat] /\ by' \in [Docs -> Logs \cup {None}]
      BY <2>3 DEF ReserveCowork, Set, LogTypeOK
    <3>2. /\ status' \in [Logs -> {"absent", "pending", "retrying", "success", "failed",
                                    "skipped_dup", "manual"}]
          /\ keyed' \in [Logs -> BOOLEAN] /\ lease' \in [Logs -> {"none", "live", "over"}]
      BY <2>3 DEF ReserveCowork, Set, LogTypeOK
    <3>3. LogTypeOK'
      BY <2>3, <3>1, <3>2, BindType DEF ReserveCowork, LogTypeOK
    <3>4. CASE Start(t, "cowork", l, "send")
      <4>1. /\ seen' \in [Threads -> BOOLEAN] /\ touched' \subseteq Logs
            /\ hands' \in 0..MaxHands /\ UNCHANGED <<res, count, todo, crashes>>
        BY <2>3 DEF ReserveCowork, ThreadTypeOK, ghostVars
      <4> QED
        BY <2>0, <3>3, <3>4, <4>1, StartType
    <3>5. CASE UNCHANGED <<pc, kind, at>>
      BY <2>3, <3>3, <3>5, SameThreads DEF ReserveCowork, threadVars
    <3> QED
      BY <2>3, <3>4, <3>5 DEF ReserveCowork
  <2>4. CASE ReserveConfirmed(t, d, l)
    <3> DEFINE st == SettledStatus(Expired("confirmed"))
               ls == SettledLease(Expired("confirmed"))
    <3>0. st \in [Logs -> Statuses] /\ ls \in [Logs -> {"none", "live", "over"}]
      BY SettledType
    <3>1. /\ staged' \in [Docs -> BOOLEAN] /\ due' \in [Logs -> BOOLEAN]
          /\ retries' \in [Logs -> Nat] /\ by' \in [Docs -> Logs \cup {None}]
      BY <2>4 DEF ReserveConfirmed, LogTypeOK
    <3> HIDE DEF st, ls
    <3>2. /\ status' = st \/ status' = Set(st, l, "skipped_dup") \/ status' = Set(st, l, "retrying")
          /\ lease' = ls \/ lease' = Set(ls, l, "live")
          /\ keyed' = keyed \/ keyed' = Set(keyed, l, TRUE)
      BY <2>4 DEF ReserveConfirmed, st, ls
    <3>3. /\ status' \in [Logs -> Statuses]
          /\ keyed' \in [Logs -> BOOLEAN] /\ lease' \in [Logs -> {"none", "live", "over"}]
      <4>1. \A s \in Statuses : Set(st, l, s) \in [Logs -> Statuses]
        BY <3>0 DEF Set
      <4>2. Set(ls, l, "live") \in [Logs -> {"none", "live", "over"}]
        BY <3>0 DEF Set
      <4>3. Set(keyed, l, TRUE) \in [Logs -> BOOLEAN] /\ keyed \in [Logs -> BOOLEAN]
        BY DEF Set, LogTypeOK
      <4>4. "skipped_dup" \in Statuses /\ "retrying" \in Statuses
        BY DEF Statuses
      <4>5. status' \in [Logs -> Statuses]
        BY ONLY <3>0, <3>2, <4>1, <4>4
      <4>6. lease' \in [Logs -> {"none", "live", "over"}]
        BY ONLY <3>0, <3>2, <4>2
      <4> QED
        BY <3>2, <4>3, <4>5, <4>6
    <3>4. /\ doc' \in [Logs -> Docs \cup {None}]
          /\ path' \in [Logs -> {"none", "auto", "cowork", "confirmed"}]
      <4>1. Bind(l, d, "confirmed") \/ UNCHANGED <<doc, path>>
        BY <2>4 DEF ReserveConfirmed
      <4> QED
        BY <4>1, BindType DEF LogTypeOK
    <3>5. LogTypeOK'
      BY <3>1, <3>3, <3>4 DEF LogTypeOK, Statuses
    <3>6. /\ Start(t, "confirmed", l, "send") \/ UNCHANGED <<pc, kind, at>>
          /\ UNCHANGED <<res, seen, count, todo, touched, hands, crashes>>
      BY <2>4 DEF ReserveConfirmed, ghostVars
    <3>7. CASE Start(t, "confirmed", l, "send")
      <4>1. /\ seen' \in [Threads -> BOOLEAN] /\ touched' \subseteq Logs
            /\ hands' \in 0..MaxHands /\ UNCHANGED <<res, count, todo, crashes>>
        BY <3>6 DEF ThreadTypeOK
      <4> QED
        BY <2>0, <3>5, <3>7, <4>1, StartType
    <3>8. CASE UNCHANGED <<pc, kind, at>>
      BY <3>5, <3>6, <3>8, SameThreads DEF threadVars, ghostVars
    <3> QED
      BY <3>6, <3>7, <3>8
  <2> QED
    BY <1>1, <2>1, <2>2, <2>3, <2>4
<1>2. ASSUME NEW t \in Requests, NEW l \in Logs, HandStart(t, l) PROVE TGoal
  <2>1. /\ t \in Threads /\ Start(t, "hand", l, "send") /\ UNCHANGED <<res, count, todo, crashes>>
        /\ seen' \in [Threads -> BOOLEAN] /\ touched' \subseteq Logs
    BY <1>2 DEF HandStart, Threads, ThreadTypeOK, LogTypeOK, Set
  <2>2. hands' \in 0..MaxHands
    BY <1>2 DEF HandStart, ThreadTypeOK
  <2>3. LogTypeOK'
    BY <1>2, SameLogs DEF HandStart
  <2> QED
    BY <2>1, <2>2, <2>3, StartType
<1>3. ASSUME NEW t \in Ticks, TickStep(t) PROVE TGoal
  <2>0. t \in Threads
    BY DEF Threads
  <2>1. CASE List(t)
    <3>1. LogTypeOK'
      BY <2>1, SameLogs DEF List
    <3>2. DueLogs \subseteq Logs
      BY DEF DueLogs
    <3>3. ThreadTypeOK'
      BY <2>0, <2>1, <3>2 DEF List, Set, ThreadTypeOK, ghostVars
    <3>4. HasResult'
      BY <2>0, <2>1 DEF List, Set, ThreadTypeOK, HasResult
    <3> QED
      BY <3>1, <3>3, <3>4
  <2>2. CASE Take(t)
    <3>1. PICK l \in todo[t] :
              /\ pc[t] = "listed"
              /\ pc' = Set(pc, t, "send") /\ kind' = Set(kind, t, "tick") /\ at' = Set(at, t, l)
              /\ todo' = Set(todo, t, todo[t] \ {l})
              /\ UNCHANGED <<logVars, staged, by, res, seen, count, ghostVars>>
      BY <2>2 DEF Take
    <3>2. l \in Logs
      BY <2>0 DEF ThreadTypeOK
    <3>3. LogTypeOK'
      BY <3>1, SameLogs
    <3>4. /\ todo' \in [Threads -> SUBSET Logs]
          /\ at' \in [Threads -> Logs \cup {None}]
          /\ kind' \in [Threads -> {"none", "auto", "cowork", "confirmed", "hand", "tick"}]
      BY <2>0, <3>1, <3>2 DEF ThreadTypeOK, Set
    <3>5. /\ pc' \in [Threads -> {"idle", "listed", "checked", "send", "sent", "counted", "updated"}]
          /\ \A s \in Threads : pc'[s] \in {"idle", "listed"} <=> at'[s] = None
      BY <2>0, <3>1, <3>2 DEF ThreadTypeOK, Set
    <3>6. HasResult'
      BY <2>0, <3>1 DEF Set, ThreadTypeOK, HasResult
    <3>7. ThreadTypeOK'
      BY <3>1, <3>4, <3>5 DEF ThreadTypeOK, ghostVars
    <3> QED
      BY <3>3, <3>6, <3>7
  <2> QED
    BY <1>3, <2>1, <2>2 DEF TickStep
<1>4. ASSUME NEW t \in Threads, PushStep(t) PROVE TGoal
  <2>1. CASE AutoInsert(t)
    <3>1. at[t] \in Logs /\ pc[t] \notin {"idle", "listed"}
      BY <2>1, Held DEF AutoInsert
    <3>2. LogTypeOK'
      BY <2>1, <3>1 DEF AutoInsert, Set, LogTypeOK
    <3>3. ThreadTypeOK' /\ HasResult'
      BY <2>1, <3>1 DEF AutoInsert, Set, ThreadTypeOK, HasResult, ghostVars
    <3> QED
      BY <3>2, <3>3
  <2>2. CASE Send(t)
    <3>1. at[t] \in Logs /\ pc[t] \notin {"idle", "listed"}
      BY <2>2, Held DEF Send
    <3>2. PICK r \in Results : res' = Set(res, t, r)
      BY <2>2 DEF Send, Results
    <3>3. count' \in [Threads -> Nat] /\ UNCHANGED <<kind, at, seen, todo, ghostVars>>
      BY <2>2 DEF Send, ThreadTypeOK
    <3>4. pc' = Set(pc, t, "sent") /\ r \in {"none"} \cup Results /\ r # "none"
      BY <2>2 DEF Send, Results
    <3>5. ThreadTypeOK' /\ HasResult'
      BY <3>1, <3>2, <3>3, <3>4, GoOnType
    <3>6. by' \in [Docs -> Logs \cup {None}]
      BY <2>2, <3>1 DEF Send, Set, LogTypeOK
    <3>7. UNCHANGED logVars /\ staged' = staged
      BY <2>2 DEF Send
    <3>8. LogTypeOK'
      BY <3>6, <3>7 DEF LogTypeOK, logVars
    <3> QED
      BY <3>5, <3>8
  <2>3. CASE FinalizeCowork(t)
    <3>1. /\ at[t] \in Logs /\ pc[t] \in {"sent", "counted", "updated"}
          /\ res[t] \in Results /\ Classified(res[t]) \in Statuses
      BY <2>3, Held, ClassifiedType DEF FinalizeCowork, HasResult, ThreadTypeOK, Results, Statuses
    <3>2. /\ \/ \E st \in Statuses : Settle(t, st)
             \/ UNCHANGED <<status, lease, keyed>>
          /\ UNCHANGED <<doc, path, due, retries, staged, by>>
      BY <2>3, <3>1 DEF FinalizeCowork, Statuses
    <3>3. LogTypeOK'
      BY <3>1, <3>2 DEF Settle, Set, LogTypeOK, Statuses
    <3>4. CASE Finish(t)
      BY <2>3, <3>3, <3>4, FinishType DEF FinalizeCowork
    <3>5. CASE pc' = Set(pc, t, "updated") /\ UNCHANGED <<kind, at, res, seen, count, todo>>
      <4>1. UNCHANGED ghostVars /\ count' \in [Threads -> Nat]
        BY <2>3, <3>5 DEF FinalizeCowork, ThreadTypeOK
      <4> QED
        BY <3>1, <3>3, <3>5, <4>1, KeepResult
    <3> QED
      BY <2>3, <3>4, <3>5 DEF FinalizeCowork
  <2>4. CASE FinalizeConfirmed(t)
    <3>1. /\ at[t] \in Logs
          /\ res[t] \in Results /\ Classified(res[t]) \in Statuses
      BY <2>4, Held, ClassifiedType DEF FinalizeConfirmed, HasResult, ThreadTypeOK, Results, Statuses
    <3>2. /\ \/ \E st \in Statuses : Settle(t, st)
             \/ UNCHANGED <<status, lease, keyed>>
          /\ UNCHANGED <<doc, path, due, retries, staged, by>>
      BY <2>4, <3>1 DEF FinalizeConfirmed, Statuses
    <3>3. LogTypeOK'
      BY <3>1, <3>2 DEF Settle, Set, LogTypeOK, Statuses
    <3> QED
      BY <2>4, <3>3, FinishType DEF FinalizeConfirmed
  <2>5. CASE Count(t)
    <3>1. at[t] \in Logs /\ pc[t] \in {"sent", "counted", "updated"}
      BY <2>5, Held DEF Count
    <3>0. retries[at[t]] \in Nat /\ retries[at[t]] + 1 \in Nat
      <4>1. PICK n \in Nat : n = retries[at[t]]
        BY <3>1 DEF LogTypeOK
      <4> QED
        BY ONLY <4>1
    <3>2. count' \in [Threads -> Nat]
      BY <2>5, <3>0 DEF Count, Set, ThreadTypeOK
    <3>6. UNCHANGED <<kind, at, res, seen, todo, ghostVars>>
      BY <2>5 DEF Count
    <3>3. pc' = Set(pc, t, "counted")
      BY <2>5 DEF Count
    <3>4. ThreadTypeOK' /\ HasResult'
      BY <3>1, <3>2, <3>3, <3>6, KeepResult
    <3>7. retries' \in [Logs -> Nat]
      BY <2>5, <3>0, <3>1 DEF Count, LogTypeOK
    <3>5. LogTypeOK'
      BY <2>5, <3>7 DEF Count, LogTypeOK
    <3> QED
      BY <3>4, <3>5
  <2>6. CASE Update(t)
    <3>1. /\ at[t] \in Logs /\ pc[t] \in {"sent", "counted", "updated"}
          /\ res[t] \in Results /\ Classified(res[t]) \in Statuses
      BY <2>6, Held, ClassifiedType DEF Update, HasResult, ThreadTypeOK, Results, Statuses
    <3>2. count' \in [Threads -> Nat] /\ UNCHANGED <<kind, at, res, seen, todo, ghostVars>>
      BY <2>6 DEF Update, ThreadTypeOK
    <3>3. pc' = Set(pc, t, "updated")
      BY <2>6 DEF Update
    <3>4. ThreadTypeOK' /\ HasResult'
      BY <3>1, <3>2, <3>3, KeepResult
    <3>5. LogTypeOK'
      BY <2>6, <3>1 DEF Update, Set, LogTypeOK, Statuses
    <3> QED
      BY <3>4, <3>5
  <2>7. CASE Reschedule(t)
    <3>1. at[t] \in Logs
      BY <2>7, Held DEF Reschedule
    <3>2. due' \in [Logs -> BOOLEAN]
      BY <2>7, <3>1 DEF Reschedule, Set, LogTypeOK
    <3>3. LogTypeOK'
      BY <2>7, <3>2 DEF Reschedule, LogTypeOK
    <3> QED
      BY <2>7, <3>3, FinishType DEF Reschedule
  <2> QED
    BY <1>4, <2>1, <2>2, <2>3, <2>4, <2>5, <2>6, <2>7 DEF PushStep
<1>5. ASSUME NEW t \in Threads, Crash(t) PROVE TGoal
  <2>1. LogTypeOK'
    BY <1>5, SameLogs DEF Crash
  <2>2. ThreadTypeOK' /\ HasResult'
    BY <1>5 DEF Crash, Set, ThreadTypeOK, HasResult
  <2> QED
    BY <2>1, <2>2
<1>6. ASSUME NEW l \in Logs, LeaseEnds(l) PROVE TGoal
  <2>1. ThreadTypeOK' /\ HasResult'
    BY <1>6, SameThreads DEF LeaseEnds
  <2>2. LogTypeOK'
    BY <1>6 DEF LeaseEnds, Set, LogTypeOK
  <2> QED
    BY <2>1, <2>2
<1>7. CASE SettleCowork
  <2>1. ThreadTypeOK' /\ HasResult'
    BY <1>7, SameThreads DEF SettleCowork
  <2>2. LogTypeOK'
    BY <1>7, SettledType DEF SettleCowork, LogTypeOK, Statuses
  <2> QED
    BY <2>1, <2>2
<1>8. CASE UNCHANGED vars
  BY <1>8, SameLogs, SameThreads DEF vars
<1> QED
  BY <1>1, <1>2, <1>3, <1>4, <1>5, <1>6, <1>7, <1>8 DEF Next, RequestStep

\* Types, for any documents, rows and threads.
THEOREM TypeCorrect == Spec => []TypeOK
<1>1. TInv => TypeOK
  BY DEF TInv
<1> QED
  BY <1>1, InitType, NextType, PTL DEF Spec
-----------------------------------------------------------------------------
(* Rows and the threads at work on them.  A row that was once finished, and  *)
(* those are the ones a tick may take, never waits for a reservation again.  *)

Kept(l) == status[l] \in {"success", "failed", "skipped_dup"}

RowOK(l) ==
    /\ doc[l] = None => status[l] = "absent" /\ l \notin touched /\ ~due[l]
    /\ status[l] \in {"retrying", "manual"} => path[l] \in {"cowork", "confirmed"}
    /\ path[l] = "confirmed" => keyed[l] /\ ~due[l] /\ doc[l] # None
    /\ due[l] => Kept(l)

WorkOK(t) ==
    /\ kind[t] = "none" <=> at[t] = None
    /\ at[t] # None => doc[at[t]] # None
    /\ pc[t] = "checked" => kind[t] = "auto" /\ status[at[t]] = "absent"
    /\ pc[t] \in {"send", "sent", "counted", "updated"} => status[at[t]] # "absent"
    /\ pc[t] = "counted" => kind[t] \in {"hand", "tick"}
    /\ kind[t] \in {"auto", "cowork", "confirmed"} => path[at[t]] = kind[t]
    /\ kind[t] = "hand" => t \in Requests /\ at[t] \in touched
    /\ kind[t] = "tick" => Kept(at[t]) /\ path[at[t]] # "confirmed"
    /\ \A l \in todo[t] : Kept(l) /\ path[l] # "confirmed" /\ doc[l] # None
    /\ kind[t] = "confirmed" =>
           /\ pc[t] \in {"send", "sent"}
           /\ at[t] \notin touched => status[at[t]] \in {"retrying", "manual"}

\* Two threads share a row only when one of them retries it.
OwnInv ==
    \A s, t \in Threads :
        s # t /\ kind[s] = kind[t] /\ kind[s] \in {"auto", "cowork", "confirmed"} => at[s] # at[t]

RowInv  == \A l \in Logs : RowOK(l)
WorkInv == \A t \in Threads : WorkOK(t)

RInv == TInv /\ RowInv /\ WorkInv /\ OwnInv

LEMMA InitRows == Init => RowInv /\ WorkInv /\ OwnInv
BY Instance DEF Init, RowInv, RowOK, WorkInv, WorkOK, OwnInv, Threads, Kept

\* What any step may do to a row.
Moves(l) ==
    /\ doc[l] # None => doc'[l] = doc[l] /\ path'[l] = path[l]
    /\ Kept(l) => Kept(l)'
    /\ status[l] # "absent" => status'[l] # "absent"
    /\ l \in touched => l \in touched'

\* What a step may do to the row of a thread that does not take it.
Leaves(t) ==
    /\ pc[t] = "checked" => status'[at[t]] = "absent"
    /\ kind[t] = "confirmed" /\ at[t] \notin touched' => status'[at[t]] \in {"retrying", "manual"}

Same(t) ==
    pc'[t] = pc[t] /\ kind'[t] = kind[t] /\ at'[t] = at[t] /\ todo'[t] = todo[t]

LEMMA WorkStays ==
    ASSUME TInv, NEW t \in Threads, WorkOK(t), Same(t), Leaves(t), \A l \in Logs : Moves(l)
    PROVE  WorkOK(t)'
<1>1. at[t] \in Logs \cup {None} /\ todo[t] \subseteq Logs /\ None \notin Logs
  BY Instance DEF TInv, TypeOK, ThreadTypeOK
<1>2. /\ pc[t] \in {"checked", "send", "sent", "counted", "updated"} => at[t] # None
      /\ pc[t] \in {"idle", "listed"} => at[t] = None
      /\ pc[t] \in {"idle", "listed", "checked", "send", "sent", "counted", "updated"}
  BY DEF TInv, TypeOK, ThreadTypeOK
<1>3. at[t] # None => Moves(at[t]) /\ doc[at[t]] # None
  BY <1>1 DEF WorkOK
<1>4. \A l \in todo[t] : Kept(l)' /\ path'[l] # "confirmed" /\ doc'[l] # None
  BY <1>1 DEF WorkOK, Moves
<1>5. /\ (kind[t] = "none" <=> at[t] = None)'
      /\ (at[t] # None => doc[at[t]] # None)'
      /\ (pc[t] = "checked" => kind[t] = "auto" /\ status[at[t]] = "absent")'
      /\ (pc[t] = "counted" => kind[t] \in {"hand", "tick"})'
  BY <1>3 DEF WorkOK, Same, Leaves, Moves
<1>6. /\ (pc[t] \in {"send", "sent", "counted", "updated"} => status[at[t]] # "absent")'
      /\ (kind[t] \in {"auto", "cowork", "confirmed"} => path[at[t]] = kind[t])'
  BY <1>2, <1>3 DEF WorkOK, Same, Moves
<1>7. /\ (kind[t] = "hand" => t \in Requests /\ at[t] \in touched)'
      /\ (kind[t] = "tick" => Kept(at[t]) /\ path[at[t]] # "confirmed")'
  BY <1>2, <1>3 DEF WorkOK, Same, Moves, Kept
<1>8. (kind[t] = "confirmed" =>
           /\ pc[t] \in {"send", "sent"}
           /\ at[t] \notin touched => status[at[t]] \in {"retrying", "manual"})'
  BY <1>3 DEF WorkOK, Same, Leaves
<1>9. (\A l \in todo[t] : Kept(l) /\ path[l] # "confirmed" /\ doc[l] # None)'
  BY <1>4 DEF Same, Kept
<1> QED
  BY <1>5, <1>6, <1>7, <1>8, <1>9 DEF WorkOK

LEMMA OwnStays ==
    ASSUME OwnInv,
           \A s \in Threads : Same(s) \/ kind'[s] \in {"none", "hand", "tick"}
    PROVE  OwnInv'
BY DEF OwnInv, Same

\* A thread that is done with its row, or was killed.
LEMMA WorkEnds ==
    ASSUME TInv, NEW t \in Threads, WorkOK(t), \A l \in Logs : Moves(l),
           kind'[t] = "none", at'[t] = None, pc'[t] \in {"idle", "listed"},
           todo'[t] \subseteq todo[t]
    PROVE  WorkOK(t)'
<1>1. todo[t] \subseteq Logs
  BY DEF TInv, TypeOK, ThreadTypeOK
<1>2. (\A l \in todo[t] : Kept(l) /\ path[l] # "confirmed" /\ doc[l] # None)'
  BY <1>1 DEF WorkOK, Moves
<1> QED
  BY <1>2 DEF WorkOK

\* What a step that leaves the threads alone, or concerns thread t, must show.
LEMMA RowsKeep ==
    ASSUME RInv, NEW T \in SUBSET Threads, \A l \in Logs : Moves(l) /\ RowOK(l)',
           \A t \in T : WorkOK(t)', \A t \in Threads \ T : Same(t) /\ Leaves(t), OwnInv'
    PROVE  RowInv' /\ WorkInv' /\ OwnInv'
<1>1. \A t \in Threads \ T : WorkOK(t)'
  BY WorkStays DEF RInv, WorkInv
<1> QED
  BY <1>1 DEF RowInv, WorkInv

\* Facts of one row and of one thread that the steps below use.
LEMMA Facts ==
    ASSUME RInv
    PROVE  /\ LogTypeOK /\ ThreadTypeOK /\ HasResult /\ OwnInv
           /\ \A l \in Logs : RowOK(l)
           /\ \A t \in Threads : WorkOK(t)
BY DEF RInv, TInv, TypeOK, RowInv, WorkInv

\* A thread's row that keeps its status, or is settled.
LEMMA LeavesSame ==
    ASSUME RInv, NEW t \in Threads, touched \subseteq touched',
           at[t] \in Logs => \/ status'[at[t]] = status[at[t]]
                             \/ status[at[t]] = "retrying" /\ status'[at[t]] = "manual"
    PROVE  Leaves(t)
<1>1. WorkOK(t) /\ at[t] \in Logs \cup {None}
  BY Facts DEF ThreadTypeOK
<1>2. pc[t] = "checked" \/ kind[t] = "confirmed" => at[t] \in Logs
  BY <1>1, Facts DEF WorkOK, ThreadTypeOK
<1> QED
  BY <1>1, <1>2 DEF WorkOK, Leaves

\* The rows of the threads at work are not the next one.
LEMMA FreshFree ==
    ASSUME RInv, NEW l \in Logs, Fresh(l), NEW t \in Threads
    PROVE  at[t] # l /\ l \notin todo[t] /\ status[l] = "absent" /\ l \notin touched /\ ~due[l]
BY Facts, Instance DEF WorkOK, RowOK, Fresh

LEMMA SameFresh ==
    ASSUME RInv, NEW l \in Logs, NEW d \in Docs, NEW p \in {"auto", "cowork", "confirmed"},
           Fresh(l), Bind(l, d, p)
    PROVE  /\ doc'[l] = d /\ path'[l] = p /\ d # None
           /\ \A m \in Logs \ {l} : doc'[m] = doc[m] /\ path'[m] = path[m]
BY Facts, Instance DEF Bind, Set, LogTypeOK

LEMMA Starts ==
    ASSUME ThreadTypeOK, NEW t \in Threads, NEW k, NEW l, NEW p, Start(t, k, l, p), todo' = todo
    PROVE  /\ pc[t] = "idle" /\ pc'[t] = p /\ kind'[t] = k /\ at'[t] = l
           /\ \A s \in Threads \ {t} : Same(s)
BY DEF ThreadTypeOK, Start, Set, Same

LEMMA Finishes ==
    ASSUME ThreadTypeOK, NEW t \in Threads, Finish(t)
    PROVE  /\ pc'[t] \in {"idle", "listed"} /\ kind'[t] = "none" /\ at'[t] = None
           /\ todo' = todo
           /\ \A s \in Threads \ {t} : Same(s)
BY DEF ThreadTypeOK, Finish, Set, Same

\* A new row of the automatic push, skipped or not written yet.
LEMMA AutoRows ==
    ASSUME RInv, TInv', NEW t \in Requests, NEW d \in Docs, NEW l \in Logs,
           AutoSkip(t, d, l) \/ AutoCheck(t, d, l)
    PROVE  RowInv' /\ WorkInv' /\ OwnInv'
<1>0. t \in Threads /\ Bind(l, d, "auto") /\ Fresh(l) /\ UNCHANGED <<keyed, lease, due, touched, todo>>
  BY DEF AutoSkip, AutoCheck, Threads, ghostVars, threadVars
<1>1. /\ doc'[l] = d /\ path'[l] = "auto" /\ d # None
      /\ \A m \in Logs \ {l} : doc'[m] = doc[m] /\ path'[m] = path[m]
  BY <1>0, SameFresh
<1>2. /\ \A m \in Logs \ {l} : status'[m] = status[m]
      /\ status'[l] \in {"absent", "skipped_dup"} /\ status[l] = "absent" /\ doc[l] = None
  BY <1>0, Facts, FreshFree DEF AutoSkip, AutoCheck, Set, LogTypeOK, Fresh
<1>3. \A m \in Logs : Moves(m) /\ RowOK(m)'
  BY <1>0, <1>1, <1>2, Facts, FreshFree DEF Moves, RowOK, Kept
<1>4. \A s \in Threads : Leaves(s)
  BY <1>0, <1>2, FreshFree, LeavesSame
<1>5. CASE AutoSkip(t, d, l)
  <2>1. \A s \in Threads : Same(s)
    BY <1>5 DEF AutoSkip, Same, threadVars
  <2>2. OwnInv'
    BY <2>1, OwnStays, Facts
  <2> QED
    <3>1. {} \in SUBSET Threads /\ (\A s \in {} : WorkOK(s)')
      OBVIOUS
    <3>2. \A s \in Threads \ {} : Same(s) /\ Leaves(s)
      BY <1>4, <2>1
    <3> QED
      BY <1>3, <2>2, <3>1, <3>2, RowsKeep
<1>6. CASE AutoCheck(t, d, l)
  <2>1. Start(t, "auto", l, "checked") /\ todo' = todo /\ status' = status
    BY <1>6 DEF AutoCheck
  <2>2. /\ pc'[t] = "checked" /\ kind'[t] = "auto" /\ at'[t] = l
        /\ \A s \in Threads \ {t} : Same(s)
    BY <1>0, <2>1, Facts, Starts
  <2>3. WorkOK(t)'
    <3>1. \A m \in todo[t] : Kept(m)' /\ path'[m] # "confirmed" /\ doc'[m] # None
      BY <1>0, <1>1, <1>3, Facts, FreshFree DEF WorkOK, Moves, ThreadTypeOK
    <3> QED
      BY <1>0, <1>1, <1>2, <2>1, <2>2, <3>1, Instance DEF WorkOK, Kept
  <2>4. OwnInv'
    BY <1>0, <2>2, Facts, FreshFree DEF OwnInv, Same
  <2> QED
    <3>1. {t} \in SUBSET Threads /\ (\A s \in {t} : WorkOK(s)')
      BY <1>0, <2>3
    <3>2. \A s \in Threads \ {t} : Same(s) /\ Leaves(s)
      BY <1>4, <2>2
    <3> QED
      BY <1>3, <2>4, <3>1, <3>2, RowsKeep
<1> QED
  BY <1>5, <1>6

\* A reserved row; expired reservations may be settled in the same step.
LEMMA ReservedRow ==
    ASSUME RInv, NEW t \in Requests, NEW d \in Docs, NEW l \in Logs,
           NEW p \in {"cowork", "confirmed"}, Fresh(l), Bind(l, d, p),
           \A m \in Logs \ {l} : \/ status'[m] = status[m]
                                 \/ status[m] = "retrying" /\ status'[m] = "manual",
           \A m \in Logs \ {l} : keyed'[m] = keyed[m],
           p = "confirmed" => keyed'[l], UNCHANGED <<due, touched, todo>>,
           \/ UNCHANGED <<pc, kind, at>> /\ status'[l] = "skipped_dup"
           \/ Start(t, p, l, "send") /\ status'[l] = "retrying"
    PROVE  RowInv' /\ WorkInv' /\ OwnInv'
<1>0. t \in Threads
  BY DEF Threads
<1>1. /\ doc'[l] = d /\ path'[l] = p /\ d # None
      /\ \A m \in Logs \ {l} : doc'[m] = doc[m] /\ path'[m] = path[m]
  BY SameFresh
<1>2. doc[l] = None /\ status[l] = "absent" /\ status'[l] \in {"skipped_dup", "retrying"}
  BY <1>0, FreshFree DEF Fresh
<1>3. \A m \in Logs \ {l} : Moves(m) /\ RowOK(m)'
  BY <1>1, Facts DEF Moves, RowOK, Kept
<1>4. Moves(l) /\ RowOK(l)'
  BY <1>0, <1>1, <1>2, FreshFree DEF Moves, RowOK, Kept
<1>5. \A m \in Logs : Moves(m) /\ RowOK(m)'
  BY <1>3, <1>4
<1>6. \A s \in Threads : Leaves(s)
  BY <1>2, FreshFree, LeavesSame
<1>7. CASE UNCHANGED <<pc, kind, at>>
  <2>1. \A s \in Threads \ {} : Same(s) /\ Leaves(s)
    BY <1>6, <1>7 DEF Same
  <2>2. OwnInv'
    BY <2>1, OwnStays, Facts
  <2>3. {} \in SUBSET Threads /\ (\A s \in {} : WorkOK(s)')
    OBVIOUS
  <2> QED
    BY <1>5, <2>1, <2>2, <2>3, RowsKeep
<1>8. CASE Start(t, p, l, "send") /\ status'[l] = "retrying"
  <2>1. /\ pc'[t] = "send" /\ kind'[t] = p /\ at'[t] = l
        /\ \A s \in Threads \ {t} : Same(s)
    BY <1>0, <1>8, Facts, Starts
  <2>2. WorkOK(t)'
    <3>1. \A m \in todo[t] : Kept(m)' /\ path'[m] # "confirmed" /\ doc'[m] # None
      BY <1>0, <1>1, <1>5, Facts, FreshFree DEF WorkOK, Moves, ThreadTypeOK
    <3> QED
      BY <1>0, <1>1, <1>8, <2>1, <3>1, Instance DEF WorkOK, Kept
  <2>3. OwnInv'
    BY <1>0, <2>1, Facts, FreshFree DEF OwnInv, Same
  <2>4. {t} \in SUBSET Threads /\ (\A s \in {t} : WorkOK(s)')
    BY <1>0, <2>2
  <2>5. \A s \in Threads \ {t} : Same(s) /\ Leaves(s)
    BY <1>6, <2>1
  <2> QED
    BY <1>5, <2>3, <2>4, <2>5, RowsKeep
<1> QED
  BY <1>7, <1>8

LEMMA CoworkRows ==
    ASSUME RInv, TInv', NEW t \in Requests, NEW d \in Docs, NEW l \in Logs, ReserveCowork(t, d, l)
    PROVE  RowInv' /\ WorkInv' /\ OwnInv'
<1>1. Fresh(l) /\ Bind(l, d, "cowork") /\ UNCHANGED <<due, touched, todo>>
  BY DEF ReserveCowork, ghostVars
<1>2. /\ \A m \in Logs \ {l} : status'[m] = status[m] /\ keyed'[m] = keyed[m]
      /\ \/ UNCHANGED <<pc, kind, at>> /\ status'[l] = "skipped_dup"
         \/ Start(t, "cowork", l, "send") /\ status'[l] = "retrying"
  BY Facts DEF ReserveCowork, Set, LogTypeOK
<1> QED
  BY <1>1, <1>2, ReservedRow

\* Settling an expired reservation.
LEMMA Settles ==
    ASSUME RInv, NEW p, NEW m \in Logs
    PROVE  \/ SettledStatus(Expired(p))[m] = status[m]
           \/ status[m] = "retrying" /\ SettledStatus(Expired(p))[m] = "manual"
BY DEF SettledStatus, Expired

\* Expired reservations are settled, and nothing else happens.
LEMMA SettledRows ==
    ASSUME RInv, NEW p, status' = SettledStatus(Expired(p)),
           UNCHANGED <<doc, path, keyed, due, threadVars, touched>>
    PROVE  RowInv' /\ WorkInv' /\ OwnInv'
<1>1. \A m \in Logs : \/ status'[m] = status[m]
                      \/ status[m] = "retrying" /\ status'[m] = "manual"
  BY Settles
<1>2. \A m \in Logs : Moves(m) /\ RowOK(m)'
  BY <1>1, Facts DEF Moves, RowOK, Kept
<1>3. \A s \in Threads \ {} : Same(s) /\ Leaves(s)
  BY <1>1, LeavesSame DEF Same, threadVars
<1>4. OwnInv'
  BY <1>3, OwnStays, Facts
<1>5. {} \in SUBSET Threads /\ (\A s \in {} : WorkOK(s)')
  OBVIOUS
<1> QED
  BY <1>2, <1>3, <1>4, <1>5, RowsKeep

LEMMA SameRows ==
    ASSUME RInv, UNCHANGED <<doc, path, status, keyed, due, threadVars, touched>>
    PROVE  RowInv' /\ WorkInv' /\ OwnInv'
<1>1. RowInv'
  BY DEF RInv, RowInv, RowOK, Kept
<1>2. WorkInv'
  BY DEF RInv, WorkInv, WorkOK, Kept, threadVars
<1>3. OwnInv'
  BY Facts DEF OwnInv, threadVars
<1> QED
  BY <1>1, <1>2, <1>3

LEMMA ConfirmedRows ==
    ASSUME RInv, TInv', NEW t \in Requests, NEW d \in Docs, NEW l \in Logs,
           ReserveConfirmed(t, d, l)
    PROVE  RowInv' /\ WorkInv' /\ OwnInv'
<1> DEFINE st == SettledStatus(Expired("confirmed"))
<1>0. UNCHANGED <<due, touched, todo>> /\ Fresh(l)
  BY DEF ReserveConfirmed, ghostVars
<1>1. st \in [Logs -> Statuses]
  BY Facts, SettledType
<1>2. \A m \in Logs : st[m] = status[m] \/ (status[m] = "retrying" /\ st[m] = "manual")
  BY Settles
<1>3. CASE status' = st /\ UNCHANGED <<doc, path, keyed, pc, kind, at>>
  <2>1. UNCHANGED <<doc, path, keyed, due, threadVars, touched>>
    BY <1>3 DEF ReserveConfirmed, threadVars, ghostVars
  <2> QED
    BY <1>3, <2>1, SettledRows
<1> HIDE DEF st
<1>4. CASE /\ Bind(l, d, "confirmed") /\ keyed' = Set(keyed, l, TRUE)
           /\ \/ status' = Set(st, l, "skipped_dup") /\ UNCHANGED <<pc, kind, at>>
              \/ status' = Set(st, l, "retrying") /\ Start(t, "confirmed", l, "send")
  <2>1. \A m \in Logs \ {l} : keyed'[m] = keyed[m]
    BY <1>4, Facts DEF LogTypeOK, Set
  <2>2. keyed'[l]
    BY <1>4, Facts DEF LogTypeOK, Set
  <2>3. \A s \in Statuses : Set(st, l, s)[l] = s /\ \A m \in Logs \ {l} : Set(st, l, s)[m] = st[m]
    BY <1>1 DEF Set
  <2>4. /\ \A m \in Logs \ {l} : \/ status'[m] = status[m]
                                 \/ status[m] = "retrying" /\ status'[m] = "manual"
        /\ \/ UNCHANGED <<pc, kind, at>> /\ status'[l] = "skipped_dup"
           \/ Start(t, "confirmed", l, "send") /\ status'[l] = "retrying"
    BY <1>2, <1>4, <2>3 DEF Statuses
  <2> QED
    BY <1>0, <1>4, <2>1, <2>2, <2>4, ReservedRow
<1> QED
  BY <1>3, <1>4 DEF ReserveConfirmed, st

\* A thread that takes a written row to push it again.
LEMMA RetryRows ==
    ASSUME RInv, NEW t \in Threads, NEW l \in Logs, NEW k \in {"hand", "tick"},
           pc'[t] = "send", kind'[t] = k, at'[t] = l, todo'[t] \subseteq todo[t],
           \A s \in Threads \ {t} : Same(s), UNCHANGED logVars, touched \subseteq touched',
           status[l] # "absent",
           k = "hand" => t \in Requests /\ l \in touched',
           k = "tick" => l \in todo[t],
           \A m \in touched' : m \in touched \/ status[m] # "absent"
    PROVE  RowInv' /\ WorkInv' /\ OwnInv'
<1>1. \A m \in Logs : Moves(m) /\ RowOK(m)'
  BY Facts DEF Moves, RowOK, Kept, logVars
<1>2. doc[l] # None /\ l # None
  BY Facts, Instance DEF RowOK
<1>3. WorkOK(t)'
  <2>1. \A m \in todo[t] : Kept(m)' /\ path'[m] # "confirmed" /\ doc'[m] # None
    BY Facts DEF WorkOK, Kept, logVars
  <2>2. k = "tick" => Kept(l)' /\ path'[l] # "confirmed"
    BY <2>1
  <2>3. status'[l] # "absent" /\ doc'[l] # None
    BY <1>2 DEF logVars
  <2>4. \A m \in todo'[t] : Kept(m)' /\ path'[m] # "confirmed" /\ doc'[m] # None
    BY <2>1
  <2> QED
    BY <1>2, <2>2, <2>3, <2>4 DEF WorkOK, Kept
<1>4. \A s \in Threads \ {t} : Same(s) /\ Leaves(s)
  BY LeavesSame DEF logVars
<1>5. OwnInv'
  BY OwnStays, Facts
<1>6. {t} \in SUBSET Threads /\ (\A s \in {t} : WorkOK(s)')
  BY <1>3
<1> QED
  BY <1>1, <1>4, <1>5, <1>6, RowsKeep

LEMMA HandRows ==
    ASSUME RInv, NEW t \in Requests, NEW l \in Logs, HandStart(t, l)
    PROVE  RowInv' /\ WorkInv' /\ OwnInv'
<1>1. t \in Threads /\ Start(t, "hand", l, "send") /\ todo' = todo
  BY DEF HandStart, Threads
<1>2. /\ pc'[t] = "send" /\ kind'[t] = "hand" /\ at'[t] = l
      /\ \A s \in Threads \ {t} : Same(s)
  BY <1>1, Facts, Starts
<1>3. UNCHANGED logVars /\ touched' = touched \cup {l} /\ status[l] # "absent"
  BY DEF HandStart
<1> QED
  BY <1>1, <1>2, <1>3, RetryRows

LEMMA TakeRows ==
    ASSUME RInv, NEW t \in Ticks, Take(t)
    PROVE  RowInv' /\ WorkInv' /\ OwnInv'
<1>0. t \in Threads
  BY DEF Threads
<1>1. PICK l \in todo[t] :
          /\ pc[t] = "listed"
          /\ pc' = Set(pc, t, "send") /\ kind' = Set(kind, t, "tick") /\ at' = Set(at, t, l)
          /\ todo' = Set(todo, t, todo[t] \ {l})
          /\ UNCHANGED <<logVars, staged, by, res, seen, count, ghostVars>>
  BY DEF Take
<1>2. /\ pc'[t] = "send" /\ kind'[t] = "tick" /\ at'[t] = l /\ todo'[t] \subseteq todo[t]
      /\ \A s \in Threads \ {t} : Same(s)
  BY <1>0, <1>1, Facts DEF ThreadTypeOK, Set, Same
<1>3. l \in Logs /\ status[l] # "absent" /\ UNCHANGED logVars /\ touched' = touched
  BY <1>0, <1>1, Facts DEF ThreadTypeOK, WorkOK, Kept, ghostVars
<1> QED
  BY <1>0, <1>1, <1>2, <1>3, RetryRows

LEMMA ListRows ==
    ASSUME RInv, NEW t \in Ticks, List(t)
    PROVE  RowInv' /\ WorkInv' /\ OwnInv'
<1>0. t \in Threads /\ UNCHANGED logVars /\ touched' = touched /\ UNCHANGED <<kind, at>>
  BY DEF Threads, List, ghostVars
<1>1. \A m \in Logs : Moves(m) /\ RowOK(m)'
  BY <1>0, Facts DEF Moves, RowOK, Kept, logVars
<1>2. pc'[t] = "listed" /\ todo'[t] \subseteq DueLogs /\ \A s \in Threads \ {t} : Same(s)
  BY <1>0, Facts DEF List, ThreadTypeOK, Set, Same
<1>3. \A m \in DueLogs : Kept(m) /\ path[m] # "confirmed" /\ doc[m] # None
  BY Facts DEF DueLogs, RowOK, Kept
<1>4. WorkOK(t)'
  <2>1. \A m \in todo'[t] : Kept(m)' /\ path'[m] # "confirmed" /\ doc'[m] # None
    BY <1>0, <1>2, <1>3 DEF logVars, Kept
  <2>2. at[t] = None /\ kind[t] = "none"
    BY <1>0, Facts DEF List, ThreadTypeOK, WorkOK
  <2> QED
    BY <1>0, <1>2, <2>1, <2>2 DEF WorkOK
<1>5. \A s \in Threads \ {t} : Same(s) /\ Leaves(s)
  BY <1>0, <1>2, LeavesSame DEF logVars
<1>6. OwnInv'
  BY <1>0, Facts DEF OwnInv
<1>7. {t} \in SUBSET Threads /\ (\A s \in {t} : WorkOK(s)')
  BY <1>0, <1>4
<1> QED
  BY <1>1, <1>5, <1>6, <1>7, RowsKeep

\* A thread that ends, or is killed, with the rows as they are.
LEMMA EndRows ==
    ASSUME RInv, NEW t \in Threads, pc'[t] \in {"idle", "listed"}, kind'[t] = "none",
           at'[t] = None, todo'[t] \subseteq todo[t], \A s \in Threads \ {t} : Same(s) /\ Leaves(s),
           \A l \in Logs : Moves(l) /\ RowOK(l)'
    PROVE  RowInv' /\ WorkInv' /\ OwnInv'
<1>1. WorkOK(t)'
  BY Facts, WorkEnds DEF RInv
<1>2. OwnInv'
  BY OwnStays, Facts
<1>3. {t} \in SUBSET Threads /\ (\A s \in {t} : WorkOK(s)')
  BY <1>1
<1> QED
  BY <1>2, <1>3, RowsKeep

LEMMA CrashRows ==
    ASSUME RInv, NEW t \in Threads, Crash(t)
    PROVE  RowInv' /\ WorkInv' /\ OwnInv'
<1>1. UNCHANGED logVars /\ touched' = touched
  BY DEF Crash
<1>2. \A m \in Logs : Moves(m) /\ RowOK(m)'
  BY <1>1, Facts DEF Moves, RowOK, Kept, logVars
<1>3. /\ pc'[t] = "idle" /\ kind'[t] = "none" /\ at'[t] = None /\ todo'[t] \subseteq todo[t]
      /\ \A s \in Threads \ {t} : Same(s)
  BY Facts DEF Crash, ThreadTypeOK, Set, Same
<1>4. \A s \in Threads \ {t} : Leaves(s)
  BY <1>1, LeavesSame DEF logVars
<1> QED
  BY <1>2, <1>3, <1>4, EndRows

\* A thread that goes on with its row: what is left to show of its step.
LEMMA GoOnRows ==
    ASSUME RInv, NEW t \in Threads, WorkOK(t)', kind' = kind, at' = at,
           \A s \in Threads \ {t} : Same(s) /\ Leaves(s), \A l \in Logs : Moves(l) /\ RowOK(l)'
    PROVE  RowInv' /\ WorkInv' /\ OwnInv'
<1>1. {t} \in SUBSET Threads /\ (\A s \in {t} : WorkOK(s)')
  OBVIOUS
<1>2. OwnInv'
  BY Facts DEF OwnInv
<1> QED
  BY <1>1, <1>2, RowsKeep

\* No two threads that wrote or reserved their rows have the same one.
LEMMA OtherRow ==
    ASSUME RInv, NEW s \in Threads, NEW t \in Threads, s # t, at[s] = at[t],
           kind[s] \in {"auto", "cowork", "confirmed"}, kind[t] \in {"auto", "cowork", "confirmed"}
    PROVE  FALSE
BY Facts DEF WorkOK, OwnInv

\* Only the status of row at[t] changes, and not below another thread.
LEMMA LeavesOther ==
    ASSUME RInv, NEW s \in Threads, NEW t \in Threads, touched \subseteq touched',
           \A l \in Logs \ {at[t]} : status'[l] = status[l],
           at[s] = at[t] => pc[s] # "checked" /\ (kind[s] = "confirmed" => at[s] \in touched')
    PROVE  Leaves(s)
<1>1. CASE at[s] = at[t]
  BY <1>1 DEF Leaves
<1>2. CASE at[s] # at[t]
  BY <1>2, LeavesSame
<1> QED
  BY <1>1, <1>2

LEMMA InsertRows ==
    ASSUME RInv, NEW t \in Threads, AutoInsert(t)
    PROVE  RowInv' /\ WorkInv' /\ OwnInv'
<1>1. /\ at[t] \in Logs /\ kind[t] = "auto" /\ status[at[t]] = "absent"
      /\ doc[at[t]] # None /\ path[at[t]] = "auto"
  BY Facts, Held DEF AutoInsert, WorkOK
<1>2. /\ UNCHANGED <<doc, path, keyed, due, touched, kind, at, todo>>
      /\ status'[at[t]] = "pending" /\ \A l \in Logs \ {at[t]} : status'[l] = status[l]
  BY <1>1, Facts DEF AutoInsert, LogTypeOK, Set, ghostVars
<1>3. pc'[t] = "send" /\ \A s \in Threads \ {t} : Same(s)
  BY <1>2, Facts DEF AutoInsert, ThreadTypeOK, Set, Same
<1>4. \A l \in Logs \ {at[t]} : Moves(l) /\ RowOK(l)'
  BY <1>2, Facts DEF Moves, RowOK, Kept
<1>5. \A l \in Logs : l = at[t] => Moves(l) /\ RowOK(l)'
  BY <1>1, <1>2, Facts DEF Moves, RowOK, Kept
<1>6. \A l \in Logs : Moves(l) /\ RowOK(l)'
  BY <1>4, <1>5
<1>7. \A s \in Threads \ {t} : Leaves(s)
  <2> SUFFICES ASSUME NEW s \in Threads \ {t} PROVE Leaves(s)
    OBVIOUS
  <2>1. at[s] = at[t] => kind[s] \notin {"auto", "confirmed"}
    BY <1>1, OtherRow
  <2> QED
    BY <1>2, <2>1, Facts, LeavesOther DEF WorkOK
<1>8. WorkOK(t)'
  <2>1. \A m \in todo[t] : Kept(m)' /\ path'[m] # "confirmed" /\ doc'[m] # None
    BY <1>6, Facts DEF ThreadTypeOK, WorkOK, Moves
  <2> QED
    BY <1>1, <1>2, <1>3, <2>1, Instance DEF WorkOK, Kept
<1> QED
  BY <1>2, <1>3, <1>6, <1>7, <1>8, GoOnRows

LEMMA SendRows ==
    ASSUME RInv, NEW t \in Threads, Send(t)
    PROVE  RowInv' /\ WorkInv' /\ OwnInv'
<1>1. /\ UNCHANGED logVars /\ touched' = touched /\ UNCHANGED <<kind, at, todo>>
      /\ pc[t] = "send" /\ pc' = Set(pc, t, "sent")
  BY DEF Send, ghostVars
<1>2. \A m \in Logs : Moves(m) /\ RowOK(m)'
  BY <1>1, Facts DEF Moves, RowOK, Kept, logVars
<1>3. pc'[t] = "sent" /\ \A s \in Threads \ {t} : Same(s) /\ Leaves(s)
  BY <1>1, Facts, LeavesSame DEF ThreadTypeOK, Set, Same, logVars
<1>4. WorkOK(t)'
  BY <1>1, <1>3, Facts DEF WorkOK, Kept, logVars
<1> QED
  BY <1>1, <1>2, <1>3, <1>4, GoOnRows

LEMMA CountRows ==
    ASSUME RInv, NEW t \in Threads, Count(t)
    PROVE  RowInv' /\ WorkInv' /\ OwnInv'
<1>1. /\ UNCHANGED <<doc, path, status, keyed, due>> /\ touched' = touched
      /\ UNCHANGED <<kind, at, todo>>
      /\ pc[t] = "sent" /\ kind[t] \in {"hand", "tick"} /\ pc' = Set(pc, t, "counted")
  BY DEF Count, ghostVars
<1>2. \A m \in Logs : Moves(m) /\ RowOK(m)'
  BY <1>1, Facts DEF Moves, RowOK, Kept
<1>3. pc'[t] = "counted" /\ \A s \in Threads \ {t} : Same(s) /\ Leaves(s)
  BY <1>1, Facts, LeavesSame DEF ThreadTypeOK, Set, Same
<1>4. WorkOK(t)'
  BY <1>1, <1>3, Facts DEF WorkOK, Kept
<1> QED
  BY <1>1, <1>2, <1>3, <1>4, GoOnRows

LEMMA UpdateRows ==
    ASSUME RInv, NEW t \in Threads, Update(t)
    PROVE  RowInv' /\ WorkInv' /\ OwnInv'
<1>1. /\ at[t] \in Logs /\ kind[t] \in {"auto", "hand", "tick"}
      /\ pc[t] \in {"sent", "counted"} /\ status[at[t]] # "absent"
      /\ doc[at[t]] # None /\ Classified(res[t]) \in {"success", "failed", "skipped_dup"}
  BY Facts, Held, ClassifiedType DEF Update, WorkOK, HasResult, ThreadTypeOK, Results
<1>2. /\ UNCHANGED <<doc, path, due, touched, kind, at, todo>>
      /\ status'[at[t]] \in {"success", "failed", "skipped_dup"}
      /\ \A l \in Logs \ {at[t]} : status'[l] = status[l]
      /\ \A l \in Logs : keyed[l] => keyed'[l]
  BY <1>1, Facts DEF Update, LogTypeOK, Set, ghostVars
<1>3. pc'[t] = "updated" /\ \A s \in Threads \ {t} : Same(s)
  BY <1>2, Facts DEF Update, ThreadTypeOK, Set, Same
<1>4. \A l \in Logs \ {at[t]} : Moves(l) /\ RowOK(l)'
  BY <1>2, Facts DEF Moves, RowOK, Kept
<1>5. \A l \in Logs : l = at[t] => Moves(l) /\ RowOK(l)'
  BY <1>1, <1>2, Facts DEF Moves, RowOK, Kept
<1>6. \A l \in Logs : Moves(l) /\ RowOK(l)'
  BY <1>4, <1>5
<1>7. \A s \in Threads \ {t} : Leaves(s)
  <2> SUFFICES ASSUME NEW s \in Threads \ {t} PROVE Leaves(s)
    OBVIOUS
  <2>1. WorkOK(s) /\ WorkOK(t)
    BY Facts
  <2>2. at[s] = at[t] => pc[s] # "checked"
    BY <1>1, <2>1 DEF WorkOK
  <2>3. at[s] = at[t] /\ kind[s] = "confirmed" => at[s] \in touched
    BY <1>1, <2>1, OtherRow DEF WorkOK
  <2> QED
    BY <1>2, <2>2, <2>3, LeavesOther
<1>8. WorkOK(t)'
  <2>1. \A m \in todo[t] : Kept(m)' /\ path'[m] # "confirmed" /\ doc'[m] # None
    BY <1>6, Facts DEF ThreadTypeOK, WorkOK, Moves
  <2>2. WorkOK(t)
    BY Facts
  <2> QED
    BY <1>1, <1>2, <1>3, <2>1, <2>2, Instance DEF WorkOK, Kept
<1> QED
  BY <1>2, <1>3, <1>6, <1>7, <1>8, GoOnRows

\* Only a row that says failed is ever scheduled, and no confirmed one.
LEMMA RescheduleRows ==
    ASSUME RInv, NEW t \in Threads, Reschedule(t)
    PROVE  RowInv' /\ WorkInv' /\ OwnInv'
<1>0. at[t] \in Logs /\ WorkOK(t) /\ Finish(t)
  BY Facts, Held DEF Reschedule
<1>1. at[t] \in Logs /\ doc[at[t]] # None /\ WorkOK(t) /\ Finish(t)
  BY <1>0, Instance DEF WorkOK
<1>2. /\ UNCHANGED <<doc, path, status, keyed, touched>>
      /\ \A l \in Logs \ {at[t]} : due'[l] = due[l]
      /\ due'[at[t]] => \/ due[at[t]]
                        \/ TryAgain(t) /\ status[at[t]] = "failed"
  BY <1>1, Facts DEF Reschedule, LogTypeOK, Set, ghostVars
<1>3. TryAgain(t) => path[at[t]] # "confirmed"
  BY <1>1 DEF TryAgain, WorkOK
<1>4. \A l \in Logs \ {at[t]} : Moves(l) /\ RowOK(l)'
  BY <1>2, Facts DEF Moves, RowOK, Kept
<1>5. \A l \in Logs : l = at[t] => Moves(l) /\ RowOK(l)'
  BY <1>1, <1>2, <1>3, Facts DEF Moves, RowOK, Kept
<1>6. \A l \in Logs : Moves(l) /\ RowOK(l)'
  BY <1>4, <1>5
<1>7. /\ pc'[t] \in {"idle", "listed"} /\ kind'[t] = "none" /\ at'[t] = None
      /\ todo'[t] \subseteq todo[t] /\ \A s \in Threads \ {t} : Same(s)
  BY <1>1, Facts, Finishes
<1>8. \A s \in Threads \ {t} : Leaves(s)
  BY <1>2, LeavesSame
<1> QED
  BY <1>6, <1>7, <1>8, EndRows

\* A reservation that stands is settled; one that does not is left as it is.
LEMMA SettleRow ==
    ASSUME RInv, NEW t \in Threads, pc[t] = "sent", kind[t] \in {"cowork", "confirmed"},
           UNCHANGED <<doc, path, due, touched>>,
           \/ UNCHANGED <<status, lease, keyed>>
           \/ Owned(at[t]) /\ \E st \in {"success", "failed", "skipped_dup", "manual"} : Settle(t, st)
    PROVE  /\ \A l \in Logs : Moves(l) /\ RowOK(l)'
           /\ \A s \in Threads \ {t} : Leaves(s)
<1>1. /\ at[t] \in Logs /\ doc[at[t]] # None /\ status[at[t]] # "absent"
      /\ path[at[t]] \in {"cowork", "confirmed"} /\ WorkOK(t)
  BY Facts, Held DEF WorkOK
<1>2. /\ \A l \in Logs \ {at[t]} : status'[l] = status[l]
      /\ \/ status'[at[t]] = status[at[t]]
         \/ /\ status[at[t]] = "retrying"
            /\ status'[at[t]] \in {"success", "failed", "skipped_dup", "manual"}
      /\ \A l \in Logs : keyed[l] => keyed'[l]
  BY <1>1, Facts DEF Settle, Owned, LogTypeOK, Set
<1>3. \A l \in Logs \ {at[t]} : Moves(l) /\ RowOK(l)'
  BY <1>2, Facts DEF Moves, RowOK, Kept
<1>4. \A l \in Logs : l = at[t] => Moves(l) /\ RowOK(l)'
  BY <1>1, <1>2, Facts DEF Moves, RowOK, Kept
<1>5. \A s \in Threads \ {t} : Leaves(s)
  <2> SUFFICES ASSUME NEW s \in Threads \ {t} PROVE Leaves(s)
    OBVIOUS
  <2>1. WorkOK(s)
    BY Facts
  <2>2. at[s] = at[t] => pc[s] # "checked" /\ kind[s] # "confirmed"
    BY <1>1, <2>1, OtherRow DEF WorkOK
  <2> QED
    BY <1>2, <2>2, LeavesOther
<1> QED
  BY <1>3, <1>4, <1>5

LEMMA FinalizeConfirmedRows ==
    ASSUME RInv, NEW t \in Threads, FinalizeConfirmed(t)
    PROVE  RowInv' /\ WorkInv' /\ OwnInv'
<1>1. Classified(res[t]) \in {"success", "failed", "skipped_dup"}
  BY Facts, ClassifiedType DEF FinalizeConfirmed, HasResult, ThreadTypeOK, Results
<1>2. /\ pc[t] = "sent" /\ kind[t] = "confirmed" /\ UNCHANGED <<doc, path, due, touched>>
      /\ \/ UNCHANGED <<status, lease, keyed>>
         \/ Owned(at[t]) /\ \E st \in {"success", "failed", "skipped_dup", "manual"} : Settle(t, st)
  BY <1>1 DEF FinalizeConfirmed, ghostVars
<1>3. /\ \A l \in Logs : Moves(l) /\ RowOK(l)'
      /\ \A s \in Threads \ {t} : Leaves(s)
  BY <1>2, SettleRow
<1>4. /\ pc'[t] \in {"idle", "listed"} /\ kind'[t] = "none" /\ at'[t] = None
      /\ todo'[t] \subseteq todo[t] /\ \A s \in Threads \ {t} : Same(s)
  BY Facts, Finishes DEF FinalizeConfirmed
<1> QED
  BY <1>3, <1>4, EndRows

LEMMA FinalizeCoworkRows ==
    ASSUME RInv, NEW t \in Threads, FinalizeCowork(t)
    PROVE  RowInv' /\ WorkInv' /\ OwnInv'
<1>1. Classified(res[t]) \in {"success", "failed", "skipped_dup"}
  BY Facts, ClassifiedType DEF FinalizeCowork, HasResult, ThreadTypeOK, Results
<1>2. /\ pc[t] = "sent" /\ kind[t] = "cowork" /\ UNCHANGED <<doc, path, due, touched>>
      /\ \/ UNCHANGED <<status, lease, keyed>>
         \/ Owned(at[t]) /\ \E st \in {"success", "failed", "skipped_dup", "manual"} : Settle(t, st)
  BY <1>1 DEF FinalizeCowork, ghostVars
<1>3. /\ \A l \in Logs : Moves(l) /\ RowOK(l)'
      /\ \A s \in Threads \ {t} : Leaves(s)
  BY <1>2, SettleRow
<1>4. CASE Finish(t)
  <2>1. /\ pc'[t] \in {"idle", "listed"} /\ kind'[t] = "none" /\ at'[t] = None
        /\ todo'[t] \subseteq todo[t] /\ \A s \in Threads \ {t} : Same(s)
    BY <1>4, Facts, Finishes
  <2> QED
    BY <1>3, <2>1, EndRows
<1>5. CASE pc' = Set(pc, t, "updated") /\ UNCHANGED <<kind, at, res, seen, count, todo>>
  <2>1. pc'[t] = "updated" /\ \A s \in Threads \ {t} : Same(s)
    BY <1>5, Facts DEF ThreadTypeOK, Set, Same
  <2>2. at[t] \in Logs /\ WorkOK(t) /\ at[t] # None
    BY <1>2, Facts, Held, Instance
  <2>3. Moves(at[t])
    BY <1>3, <2>2
  <2>4. \A m \in todo[t] : Kept(m)' /\ path'[m] # "confirmed" /\ doc'[m] # None
    BY <1>2, <1>3, Facts DEF ThreadTypeOK, WorkOK, Moves
  <2>5. WorkOK(t)'
    BY <1>2, <1>5, <2>1, <2>2, <2>3, <2>4 DEF WorkOK, Moves
  <2> QED
    BY <1>3, <1>5, <2>1, <2>5, GoOnRows
<1> QED
  BY <1>4, <1>5 DEF FinalizeCowork

LEMMA NextRows == RInv /\ [Next]_vars => RInv'
<1> SUFFICES ASSUME RInv, [Next]_vars PROVE RInv'
    OBVIOUS
<1>0. TInv'
  BY NextType DEF RInv
<1> SUFFICES RowInv' /\ WorkInv' /\ OwnInv'
  BY <1>0 DEF RInv
<1>1. ASSUME NEW t \in Requests, RequestStep(t) PROVE RowInv' /\ WorkInv' /\ OwnInv'
  BY <1>0, <1>1, AutoRows, CoworkRows, ConfirmedRows, HandRows DEF RequestStep
<1>2. ASSUME NEW t \in Ticks, TickStep(t) PROVE RowInv' /\ WorkInv' /\ OwnInv'
  BY <1>2, ListRows, TakeRows DEF TickStep
<1>3. ASSUME NEW t \in Threads, PushStep(t) PROVE RowInv' /\ WorkInv' /\ OwnInv'
  BY <1>3, InsertRows, SendRows, FinalizeCoworkRows, FinalizeConfirmedRows, CountRows,
     UpdateRows, RescheduleRows DEF PushStep
<1>4. ASSUME NEW l \in Logs, LeaseEnds(l) PROVE RowInv' /\ WorkInv' /\ OwnInv'
  BY <1>4, SameRows DEF LeaseEnds, ghostVars
<1>5. CASE SettleCowork
  BY <1>5, SettledRows DEF SettleCowork, ghostVars
<1>6. CASE UNCHANGED vars
  BY <1>6, SameRows DEF vars, logVars, ghostVars
<1> QED
  BY <1>1, <1>2, <1>3, <1>4, <1>5, <1>6, CrashRows DEF Next

-----------------------------------------------------------------------------
(* An outcome settled as unknown: a reservation that is still retrying is    *)
(* the only thing its push may answer, a tick only has rows that were        *)
(* finished before, so a retry by hand alone overwrites it.                  *)

RevealsByHand ==
    \A l \in Logs :
        status[l] = "manual" /\ status'[l] # "manual" => \E t \in Requests : ByHand(t, l)

LEMMA Reveals == RInv /\ [Next]_vars => RevealsByHand
<1> SUFFICES ASSUME RInv, [Next]_vars, NEW l \in Logs, status[l] = "manual", status'[l] # "manual"
             PROVE  \E t \in Requests : ByHand(t, l)
    BY DEF RevealsByHand
<1>1. ASSUME NEW t \in Requests, RequestStep(t) PROVE FALSE
  <2>1. ASSUME NEW d \in Docs, NEW m \in Logs, ReserveConfirmed(t, d, m) PROVE FALSE
    <3> DEFINE st == SettledStatus(Expired("confirmed"))
    <3>1. st \in [Logs -> Statuses] /\ st[l] = "manual"
      BY Facts, SettledType, Settles
    <3>2. m # l
      BY <2>1, FreshFree DEF ReserveConfirmed, Threads
    <3> HIDE DEF st
    <3>3. \A x \in Statuses : Set(st, m, x)[l] = "manual"
      BY <3>1, <3>2 DEF Set
    <3>4. status' = st \/ status' = Set(st, m, "skipped_dup") \/ status' = Set(st, m, "retrying")
      BY <2>1 DEF ReserveConfirmed, st
    <3> QED
      BY <3>1, <3>3, <3>4 DEF Statuses
  <2>2. ASSUME NEW d \in Docs, NEW m \in Logs,
               AutoSkip(t, d, m) \/ AutoCheck(t, d, m) \/ ReserveCowork(t, d, m)
        PROVE  FALSE
    <3>1. m # l
      BY <2>2, FreshFree DEF AutoSkip, AutoCheck, ReserveCowork, Threads
    <3> QED
      BY <2>2, <3>1, Facts DEF AutoSkip, AutoCheck, ReserveCowork, Set, LogTypeOK
  <2>3. ASSUME NEW m \in Logs, HandStart(t, m) PROVE FALSE
    BY <2>3 DEF HandStart, logVars
  <2> QED
    BY <1>1, <2>1, <2>2, <2>3 DEF RequestStep
<1>2. ASSUME NEW t \in Ticks, TickStep(t) PROVE FALSE
  BY <1>2 DEF TickStep, List, Take, logVars
<1>3. ASSUME NEW t \in Threads, PushStep(t) PROVE \E s \in Requests : ByHand(s, l)
  <2>1. CASE AutoInsert(t)
    BY <2>1, Facts, Held DEF AutoInsert, WorkOK, Set, LogTypeOK
  <2>2. CASE FinalizeCowork(t) \/ FinalizeConfirmed(t)
    BY <2>2, Facts, Held DEF FinalizeCowork, FinalizeConfirmed, Owned, Settle, Set, LogTypeOK
  <2>3. CASE Update(t)
    <3>1. WorkOK(t) /\ at[t] \in Logs
      BY <2>3, Facts, Held DEF Update
    <3>2. at[t] = l
      BY <2>3, <3>1, Facts DEF Update, Set, LogTypeOK
    <3>3. kind[t] = "hand"
      BY <2>3, <3>1, <3>2, Facts DEF Update, WorkOK, RowOK, Kept
    <3> QED
      BY <3>1, <3>2, <3>3 DEF WorkOK, ByHand
  <2>4. CASE Send(t) \/ Count(t) \/ Reschedule(t)
    BY <2>4 DEF Send, Count, Reschedule, logVars
  <2> QED
    BY <1>3, <2>1, <2>2, <2>3, <2>4 DEF PushStep
<1>4. ASSUME NEW t \in Threads, Crash(t) PROVE FALSE
  BY <1>4 DEF Crash, logVars
<1>5. ASSUME NEW m \in Logs, LeaseEnds(m) PROVE FALSE
  BY <1>5 DEF LeaseEnds
<1>6. CASE SettleCowork
  BY <1>6, Settles DEF SettleCowork
<1>7. CASE UNCHANGED vars
  BY <1>7 DEF vars, logVars
<1> QED
  BY <1>1, <1>2, <1>3, <1>4, <1>5, <1>6, <1>7 DEF Next

LEMMA Rows == Spec => []RInv
BY InitType, InitRows, NextRows, PTL DEF Spec, RInv

\* An outcome settled as unknown is replaced by the user alone, for any number
\* of documents, rows, threads, retries and crashes.
THEOREM UnknownStays == Spec => UnknownKept
BY Rows, Reveals, PTL DEF Spec, UnknownKept, RevealsByHand

-----------------------------------------------------------------------------
(* The confirmed push is alone: the row of a confirmed push in progress that *)
(* nobody retried by hand names its account set and is retrying or unknown,  *)
(* so that the reservation of another one, under the endpoint's lock, sees it. *)

\* Such a row blocks the reservation.
LEMMA Blocks ==
    ASSUME RInv, NEW s \in Threads, Confirming(s), at[s] \notin touched, NEW d \in Docs,
           doc[at[s]] = d, NEW t \in Threads, NEW l \in Logs, ReserveConfirmed(t, d, l)
    PROVE  UNCHANGED <<pc, kind, at>>
<1> DEFINE st == SettledStatus(Expired("confirmed"))
           ls == SettledLease(Expired("confirmed"))
<1>1. /\ at[s] \in Logs /\ keyed[at[s]] /\ path[at[s]] = "confirmed"
      /\ status[at[s]] \in {"retrying", "manual"}
  BY Facts, Held DEF Confirming, WorkOK, RowOK
<1>2. at[s] \in OfDoc(d) /\ st[at[s]] \in {"retrying", "manual"}
  BY <1>1, Settles DEF OfDoc
<1> HIDE DEF st, ls
<1>3. Active(d, st, ls) \/ Unknown(d, st)
  BY <1>1, <1>2 DEF Active, Unknown
<1> QED
  BY <1>3 DEF ReserveConfirmed, st, ls

\* A row stays bound to its document and its path; retries are not forgotten.
LEMMA Bound ==
    ASSUME RInv, [Next]_vars
    PROVE  /\ touched \subseteq touched'
           /\ \A l \in Logs : doc[l] # None => doc'[l] = doc[l] /\ path'[l] = path[l]
<1>1. ASSUME NEW m \in Logs, NEW d \in Docs, NEW p \in {"auto", "cowork", "confirmed"},
             Fresh(m), Bind(m, d, p), touched' = touched
      PROVE  /\ touched \subseteq touched'
             /\ \A l \in Logs : doc[l] # None => doc'[l] = doc[l] /\ path'[l] = path[l]
  BY <1>1, SameFresh DEF Fresh
<1>2. ASSUME UNCHANGED <<doc, path>>, touched \subseteq touched'
      PROVE  /\ touched \subseteq touched'
             /\ \A l \in Logs : doc[l] # None => doc'[l] = doc[l] /\ path'[l] = path[l]
  BY <1>2
<1>3. ASSUME NEW t \in Requests, RequestStep(t)
      PROVE  /\ touched \subseteq touched'
             /\ \A l \in Logs : doc[l] # None => doc'[l] = doc[l] /\ path'[l] = path[l]
  <2>1. ASSUME NEW d \in Docs, NEW m \in Logs, AutoSkip(t, d, m) \/ AutoCheck(t, d, m)
        PROVE  Fresh(m) /\ Bind(m, d, "auto") /\ touched' = touched
    BY <2>1 DEF AutoSkip, AutoCheck, ghostVars
  <2>2. ASSUME NEW d \in Docs, NEW m \in Logs, ReserveCowork(t, d, m)
        PROVE  Fresh(m) /\ Bind(m, d, "cowork") /\ touched' = touched
    BY <2>2 DEF ReserveCowork, ghostVars
  <2>3. ASSUME NEW d \in Docs, NEW m \in Logs, ReserveConfirmed(t, d, m)
        PROVE  Fresh(m) /\ touched' = touched
               /\ (Bind(m, d, "confirmed") \/ UNCHANGED <<doc, path>>)
    BY <2>3 DEF ReserveConfirmed, ghostVars
  <2>4. ASSUME NEW m \in Logs, HandStart(t, m)
        PROVE  UNCHANGED <<doc, path>> /\ touched \subseteq touched'
    BY <2>4 DEF HandStart, logVars
  <2> QED
    BY <1>1, <1>2, <1>3, <2>1, <2>2, <2>3, <2>4 DEF RequestStep
<1>4. ASSUME NEW t \in Ticks, TickStep(t) PROVE UNCHANGED <<doc, path, touched>>
  BY <1>4 DEF TickStep, List, Take, logVars, ghostVars
<1>5. ASSUME NEW t \in Threads, PushStep(t) PROVE UNCHANGED <<doc, path, touched>>
  BY <1>5 DEF PushStep, AutoInsert, Send, FinalizeCowork, FinalizeConfirmed, Count, Update,
     Reschedule, logVars, ghostVars
<1>6. ASSUME NEW t \in Threads, Crash(t) PROVE UNCHANGED <<doc, path, touched>>
  BY <1>6 DEF Crash, logVars
<1>7. ASSUME SettleCowork \/ UNCHANGED vars \/ \E l \in Logs : LeaseEnds(l)
      PROVE  UNCHANGED <<doc, path, touched>>
  BY <1>7 DEF SettleCowork, LeaseEnds, vars, logVars, ghostVars
<1> QED
  BY <1>2, <1>3, <1>4, <1>5, <1>6, <1>7 DEF Next

\* A thread that pushes a confirmed document did so before, or just reserved it.
LEMMA Confirms ==
    ASSUME RInv, [Next]_vars, NEW s \in Threads, Confirming(s)'
    PROVE  \/ Confirming(s) /\ at'[s] = at[s]
           \/ \E d \in Docs, l \in Logs :
                  /\ s \in Requests /\ ReserveConfirmed(s, d, l)
                  /\ Start(s, "confirmed", l, "send")
<1>1. ASSUME NEW t \in Threads, NEW k, NEW l \in Logs, NEW p, Start(t, k, l, p),
             k # "confirmed" \/ t # s, todo' = todo
      PROVE  Confirming(s) /\ at'[s] = at[s]
  BY <1>1, Facts, Starts DEF Confirming, Same
<1>2. ASSUME NEW t \in Threads, Finish(t) PROVE Confirming(s) /\ at'[s] = at[s]
  BY <1>2, Facts, Finishes DEF Confirming, Same
<1>3. ASSUME UNCHANGED <<pc, kind, at>> PROVE Confirming(s) /\ at'[s] = at[s]
  BY <1>3 DEF Confirming
<1>4. ASSUME NEW t \in Requests, RequestStep(t)
      PROVE  \/ Confirming(s) /\ at'[s] = at[s]
             \/ \E d \in Docs, l \in Logs :
                    /\ s \in Requests /\ ReserveConfirmed(s, d, l)
                    /\ Start(s, "confirmed", l, "send")
  <2>0. t \in Threads
    BY DEF Threads
  <2>1. ASSUME NEW d \in Docs, NEW l \in Logs, AutoSkip(t, d, l) PROVE UNCHANGED <<pc, kind, at>>
    BY <2>1 DEF AutoSkip, threadVars
  <2>2. ASSUME NEW d \in Docs, NEW l \in Logs, AutoCheck(t, d, l)
        PROVE  Start(t, "auto", l, "checked") /\ todo' = todo
    BY <2>2 DEF AutoCheck
  <2>3. ASSUME NEW d \in Docs, NEW l \in Logs, ReserveCowork(t, d, l)
        PROVE  \/ UNCHANGED <<pc, kind, at>>
               \/ Start(t, "cowork", l, "send") /\ todo' = todo
    BY <2>3 DEF ReserveCowork
  <2>4. ASSUME NEW d \in Docs, NEW l \in Logs, ReserveConfirmed(t, d, l)
        PROVE  \/ UNCHANGED <<pc, kind, at>>
               \/ Start(t, "confirmed", l, "send") /\ todo' = todo
    BY <2>4 DEF ReserveConfirmed
  <2>5. ASSUME NEW l \in Logs, HandStart(t, l) PROVE Start(t, "hand", l, "send") /\ todo' = todo
    BY <2>5 DEF HandStart
  <2>6. ASSUME NEW d \in Docs, NEW l \in Logs, AutoSkip(t, d, l) \/ AutoCheck(t, d, l)
                                              \/ ReserveCowork(t, d, l)
        PROVE  Confirming(s) /\ at'[s] = at[s]
    BY <1>1, <1>3, <2>0, <2>1, <2>2, <2>3, <2>6
  <2>7. ASSUME NEW l \in Logs, HandStart(t, l) PROVE Confirming(s) /\ at'[s] = at[s]
    BY <1>1, <2>0, <2>5, <2>7
  <2>8. ASSUME NEW d \in Docs, NEW l \in Logs, ReserveConfirmed(t, d, l)
        PROVE  \/ Confirming(s) /\ at'[s] = at[s]
               \/ s = t /\ Start(t, "confirmed", l, "send")
    BY <1>1, <1>3, <2>0, <2>4, <2>8
  <2> QED
    BY <1>4, <2>6, <2>7, <2>8 DEF RequestStep
<1>5. ASSUME NEW t \in Ticks, TickStep(t) PROVE Confirming(s) /\ at'[s] = at[s]
  BY <1>5, Facts DEF TickStep, List, Take, Set, ThreadTypeOK, Confirming, Threads
<1>6. ASSUME NEW t \in Threads, PushStep(t) PROVE Confirming(s) /\ at'[s] = at[s]
  <2>1. CASE FinalizeCowork(t)
    <3>1. CASE pc' = Set(pc, t, "updated") /\ UNCHANGED <<kind, at>>
      BY <3>1, Facts DEF Set, ThreadTypeOK, Confirming
    <3> QED
      BY <1>2, <2>1, <3>1 DEF FinalizeCowork
  <2>2. CASE FinalizeConfirmed(t) \/ Reschedule(t)
    BY <1>2, <2>2 DEF FinalizeConfirmed, Reschedule
  <2>3. CASE AutoInsert(t) \/ Send(t) \/ Count(t) \/ Update(t)
    <3>1. UNCHANGED <<kind, at>>
      BY <2>3 DEF AutoInsert, Send, Count, Update
    <3>2. t # s => pc'[s] = pc[s]
      BY <2>3, Facts DEF AutoInsert, Send, Count, Update, Set, ThreadTypeOK
    <3>3. t = s => pc[s] = "send" \/ kind[s] # "confirmed"
      BY <2>3, Facts DEF AutoInsert, Send, Count, Update, WorkOK
    <3> QED
      BY <3>1, <3>2, <3>3 DEF Confirming
  <2> QED
    BY <1>6, <2>1, <2>2, <2>3 DEF PushStep
<1>7. ASSUME NEW t \in Threads, Crash(t) PROVE Confirming(s) /\ at'[s] = at[s]
  BY <1>7, Facts DEF Crash, Set, ThreadTypeOK, Confirming
<1>8. ASSUME SettleCowork \/ UNCHANGED vars \/ \E l \in Logs : LeaseEnds(l)
      PROVE  UNCHANGED <<pc, kind, at>>
  BY <1>8 DEF SettleCowork, LeaseEnds, vars, threadVars
<1> QED
  BY <1>3, <1>4, <1>5, <1>6, <1>7, <1>8 DEF Next

LEMMA NextAlone == RInv /\ ConfirmedAlone /\ [Next]_vars => ConfirmedAlone'
<1> SUFFICES ASSUME RInv, ConfirmedAlone, [Next]_vars, NEW s \in Requests, NEW t \in Requests,
                    s # t, Confirming(s)', Confirming(t)', (doc[at[s]] = doc[at[t]])'
             PROVE  (at[s] \in touched \/ at[t] \in touched)'
    BY DEF ConfirmedAlone
<1>0. s \in Threads /\ t \in Threads /\ touched \subseteq touched'
  BY Bound DEF Threads
<1>1. \A x \in Threads : Confirming(x) =>
          at[x] \in Logs /\ doc[at[x]] # None /\ doc'[at[x]] = doc[at[x]]
  BY Facts, Bound, Held, Instance DEF Confirming, WorkOK
<1>2. CASE Confirming(s) /\ at'[s] = at[s] /\ Confirming(t) /\ at'[t] = at[t]
  BY <1>0, <1>1, <1>2 DEF ConfirmedAlone
<1>3. ASSUME NEW x \in Threads, NEW y \in Threads, x # y, Confirming(x), at'[x] = at[x],
             (doc[at[x]] = doc[at[y]])', NEW d \in Docs, NEW l \in Logs, y \in Requests,
             ReserveConfirmed(y, d, l), Start(y, "confirmed", l, "send")
      PROVE  (at[x] \in touched)'
  <2>1. at'[y] = l /\ at'[y] # at[y] /\ Bind(l, d, "confirmed") /\ Fresh(l)
    <3>1. todo' = todo
      BY <1>3 DEF ReserveConfirmed
    <3>2. pc[y] = "idle" /\ at'[y] = l
      BY <1>3, <3>1, Facts, Starts
    <3>3. at'[y] # at[y]
      BY <1>3, <3>2, Facts, Instance DEF ThreadTypeOK
    <3>4. Bind(l, d, "confirmed") /\ Fresh(l)
      BY <3>3 , <1>3 DEF ReserveConfirmed
    <3> QED
      BY <3>2, <3>3, <3>4
  <2>2. doc'[l] = d
    BY <2>1, SameFresh
  <2>3. doc[at[x]] = d
    BY <1>1, <1>3, <2>1, <2>2
  <2>4. at[x] \in touched
    BY <1>3, <2>1, <2>3, Blocks
  <2> QED
    BY <1>0, <1>3, <2>4
<1>4. \A x \in Threads :
          Confirming(x)' =>
              \/ Confirming(x) /\ at'[x] = at[x]
              \/ \E d \in Docs, l \in Logs :
                     /\ x \in Requests /\ ReserveConfirmed(x, d, l)
                     /\ Start(x, "confirmed", l, "send")
  BY Confirms
<1>5. ASSUME NEW d \in Docs, NEW l \in Logs, Start(s, "confirmed", l, "send"),
             NEW e \in Docs, NEW m \in Logs, ReserveConfirmed(t, e, m), Start(t, "confirmed", m, "send")
      PROVE  FALSE
  <2>1. todo' = todo
    BY <1>5 DEF ReserveConfirmed
  <2>2. at[s] = None /\ at'[s] = l /\ \A x \in Threads \ {t} : Same(x)
    BY <1>0, <1>5, <2>1, Facts, Starts DEF ThreadTypeOK
  <2> QED
    BY <1>0, <2>2, Instance DEF Same
<1> QED
  BY <1>0, <1>2, <1>3, <1>4, <1>5

\* Confirmed pushes of a document do not overlap, for any number of requests,
\* retry ticks and crashes, unless one of them was retried by hand.
THEOREM ConfirmedNeverTwice == Spec => []ConfirmedAlone
<1>1. Init => ConfirmedAlone
  BY DEF Init, ConfirmedAlone, Confirming, Threads
<1> QED
  BY <1>1, Rows, NextAlone, PTL DEF Spec

-----------------------------------------------------------------------------
(* What rows say of MR.ERP, and what the pushes in progress know of it.      *)

ByTrue == \A d \in Docs : by[d] # None => doc[by[d]] = d

RowTrue(l) ==
    doc[l] # None =>
        /\ status[l] = "success" => by[doc[l]] = l
        /\ status[l] = "skipped_dup" => by[doc[l]] # None
        /\ status[l] = "failed" /\ path[l] = "confirmed" /\ l \notin touched => by[doc[l]] # l

ThreadTrue(t) ==
    at[t] # None =>
        /\ pc[t] \in {"sent", "counted", "updated"} =>
               /\ res[t] = "success" => by[doc[at[t]]] = at[t]
               /\ res[t] = "dup" => by[doc[at[t]]] # None
        /\ kind[t] = "confirmed" /\ at[t] \notin touched
           /\ (pc[t] = "send" \/ (pc[t] = "sent" /\ res[t] = "data"))
           => by[doc[at[t]]] # at[t]

BInv == ByTrue /\ (\A l \in Logs : RowTrue(l)) /\ (\A t \in Threads : ThreadTrue(t))

LEMMA InitBooks == Init => BInv
BY Instance DEF Init, BInv, ByTrue, RowTrue, ThreadTrue, Threads

\* A step books a document for the row of the thread that pushes, or books nothing.
LEMMA Books ==
    ASSUME RInv, [Next]_vars
    PROVE  \/ by' = by
           \/ \E t \in Threads :
                  /\ Send(t) /\ at[t] \in Logs /\ doc[at[t]] \in Docs
                  /\ by[doc[at[t]]] = None /\ by' = Set(by, doc[at[t]], at[t])
<1>1. ASSUME NEW t \in Requests, RequestStep(t) PROVE by' = by
  BY <1>1 DEF RequestStep, AutoSkip, AutoCheck, ReserveCowork, ReserveConfirmed, HandStart
<1>2. ASSUME NEW t \in Ticks, TickStep(t) PROVE by' = by
  BY <1>2 DEF TickStep, List, Take
<1>3. ASSUME NEW t \in Threads, PushStep(t)
      PROVE  \/ by' = by
             \/ /\ Send(t) /\ at[t] \in Logs /\ doc[at[t]] \in Docs
                /\ by[doc[at[t]]] = None /\ by' = Set(by, doc[at[t]], at[t])
  <2>1. ASSUME Send(t) PROVE at[t] \in Logs /\ doc[at[t]] \in Docs
    <3>1. at[t] \in Logs /\ WorkOK(t) /\ doc[at[t]] \in Docs \cup {None}
      BY <2>1, Facts, Held DEF Send, LogTypeOK
    <3>2. doc[at[t]] # None
      BY <3>1, Instance DEF WorkOK
    <3> QED
      BY <3>1, <3>2
  <2>2. Send(t) \/ by' = by
    BY <1>3 DEF PushStep, AutoInsert, FinalizeCowork, FinalizeConfirmed, Count, Update, Reschedule
  <2> QED
    BY <2>1, <2>2 DEF Send
<1>4. ASSUME NEW t \in Threads, Crash(t) PROVE by' = by
  BY <1>4 DEF Crash
<1>5. ASSUME SettleCowork \/ UNCHANGED vars \/ \E l \in Logs : LeaseEnds(l) PROVE by' = by
  BY <1>5 DEF SettleCowork, LeaseEnds, vars
<1> QED
  BY <1>1, <1>2, <1>3, <1>4, <1>5 DEF Next

\* What is booked stays booked, by the row that booked it.
LEMMA Stays ==
    ASSUME RInv, [Next]_vars, NEW d \in Docs, by[d] # None
    PROVE  by'[d] = by[d]
BY Books, Facts DEF Set, LogTypeOK

\* Only its own push books a confirmed row that nobody retried, while it is
\* not settled.
LEMMA OnlyItsPush ==
    ASSUME RInv, [Next]_vars, NEW l \in Logs, path[l] = "confirmed", l \notin touched,
           doc[l] \in Docs, by[doc[l]] # l, by'[doc[l]] = l
    PROVE  \E t \in Threads :
               /\ Send(t) /\ at[t] = l /\ kind[t] = "confirmed" /\ status[l] # "failed"
<1>1. PICK t \in Threads :
          /\ Send(t) /\ at[t] \in Logs /\ doc[at[t]] \in Docs
          /\ by[doc[at[t]]] = None /\ by' = Set(by, doc[at[t]], at[t])
  BY Books
<1>2. at[t] = l
  BY <1>1, Facts DEF Set, LogTypeOK
<1>3. WorkOK(t) /\ kind[t] # "none"
  BY <1>1, Facts, Instance DEF WorkOK
<1>4. kind[t] = "confirmed"
  BY <1>2, <1>3, Facts DEF WorkOK, ThreadTypeOK
<1>5. status[l] # "failed"
  BY <1>2, <1>3, <1>4 DEF WorkOK
<1> QED
  BY <1>1, <1>2, <1>4, <1>5

\* How a row comes to say what it says.
Answers(t, l) ==
    /\ pc[t] \in {"sent", "counted"} /\ at[t] = l /\ status'[l] = Classified(res[t])
    /\ path[l] = "confirmed" /\ l \notin touched => res[t] # "failed" /\ kind[t] = "confirmed" /\ pc[t] = "sent"

Says(l) ==
    \/ doc'[l] = doc[l] /\ status'[l] = status[l]
    \/ status'[l] \in {"absent", "pending", "retrying", "manual"}
    \/ /\ status'[l] = "skipped_dup" /\ by' = by
       /\ \E m \in Logs : /\ doc[m] = doc'[l] /\ doc[m] # None
                          /\ status[m] \in {"success", "skipped_dup"}
    \/ doc'[l] = doc[l] /\ by' = by /\ \E t \in Threads : Answers(t, l)

LEMMA Reserved ==
    ASSUME RInv, NEW t \in Requests, NEW d \in Docs, NEW m \in Logs, NEW l \in Logs,
           AutoSkip(t, d, m) \/ AutoCheck(t, d, m) \/ ReserveCowork(t, d, m)
    PROVE  Says(l)
<1>1. Fresh(m) /\ (\E p \in {"auto", "cowork", "confirmed"} : Bind(m, d, p)) /\ by' = by
  BY DEF AutoSkip, AutoCheck, ReserveCowork
<1>2. doc'[m] = d /\ d # None /\ \A x \in Logs \ {m} : doc'[x] = doc[x]
  BY <1>1, SameFresh
<1>3. /\ \A x \in Logs \ {m} : status'[x] = status[x]
      /\ \/ status'[m] \in {"absent", "retrying"}
         \/ status'[m] = "skipped_dup" /\ Succeeded(d)
  <2>1. status[m] = "absent"
    BY <1>1, FreshFree DEF Threads
  <2> QED
    BY <2>1, Facts DEF AutoSkip, AutoCheck, ReserveCowork, Set, LogTypeOK
<1> QED
  BY <1>1, <1>2, <1>3 DEF Says, Succeeded

LEMMA ReservedConfirmed ==
    ASSUME RInv, NEW t \in Requests, NEW d \in Docs, NEW m \in Logs, NEW l \in Logs,
           ReserveConfirmed(t, d, m)
    PROVE  Says(l)
<1> DEFINE st == SettledStatus(Expired("confirmed"))
<1>0. by' = by /\ Fresh(m)
  BY DEF ReserveConfirmed
<1>1. st \in [Logs -> Statuses]
  BY Facts, SettledType
<1>2. \A x \in Logs : st[x] = status[x] \/ (status[x] = "retrying" /\ st[x] = "manual")
  BY Settles
<1>3. CASE status' = st /\ doc' = doc
  BY <1>2, <1>3 DEF Says
<1> HIDE DEF st
<1>4. \A x \in Statuses : Set(st, m, x)[m] = x /\ \A y \in Logs \ {m} : Set(st, m, x)[y] = st[y]
  BY <1>1 DEF Set
<1>5. ASSUME Bind(m, d, "confirmed")
      PROVE  doc'[m] = d /\ d # None /\ \A x \in Logs \ {m} : doc'[x] = doc[x]
  BY <1>0, <1>5, SameFresh
<1>6. CASE Bind(m, d, "confirmed") /\ status' = Set(st, m, "retrying")
  BY <1>2, <1>4, <1>5, <1>6 DEF Says, Statuses
<1>7. CASE Bind(m, d, "confirmed") /\ status' = Set(st, m, "skipped_dup") /\ Prior(d, st)
  <2>1. PICK x \in Logs : doc[x] = d /\ st[x] \in {"success", "skipped_dup"}
    BY <1>7 DEF Prior, OfDoc
  <2>2. status[x] \in {"success", "skipped_dup"}
    BY <1>2, <2>1
  <2>3. CASE l = m
    BY <1>0, <1>4, <1>5, <1>7, <2>1, <2>2, <2>3 DEF Says, Statuses
  <2>4. CASE l # m
    BY <1>2, <1>4, <1>5, <1>7, <2>4 DEF Says, Statuses
  <2> QED
    BY <2>3, <2>4
<1> QED
  BY <1>3, <1>6, <1>7 DEF ReserveConfirmed, st

LEMMA Tells ==
    ASSUME RInv, [Next]_vars, NEW l \in Logs
    PROVE  Says(l)
<1>1. ASSUME UNCHANGED <<doc, status>> PROVE Says(l)
  BY <1>1 DEF Says
<1>2. ASSUME NEW t \in Requests, RequestStep(t) PROVE Says(l)
  <2>1. ASSUME NEW m \in Logs, HandStart(t, m) PROVE UNCHANGED <<doc, status>>
    BY <2>1 DEF HandStart, logVars
  <2> QED
    BY <1>1, <1>2, <2>1, Reserved, ReservedConfirmed DEF RequestStep
<1>3. ASSUME NEW t \in Ticks, TickStep(t) PROVE UNCHANGED <<doc, status>>
  BY <1>3 DEF TickStep, List, Take, logVars
<1>4. ASSUME NEW t \in Threads, PushStep(t) PROVE Says(l)
  <2>0. at[t] \in Logs /\ WorkOK(t)
    BY <1>4, Facts, Held DEF PushStep, AutoInsert, Send, FinalizeCowork, FinalizeConfirmed,
       Count, Update, Reschedule
  <2>1. CASE AutoInsert(t)
    BY <2>0, <2>1, Facts DEF AutoInsert, Says, Set, LogTypeOK
  <2>2. CASE Send(t) \/ Count(t) \/ Reschedule(t)
    BY <1>1, <2>2 DEF Send, Count, Reschedule, logVars
  <2>3. CASE FinalizeCowork(t) \/ FinalizeConfirmed(t)
    <3>1. doc' = doc /\ by' = by
      BY <2>3 DEF FinalizeCowork, FinalizeConfirmed
    <3>2. CASE status' = status
      BY <1>1, <3>1, <3>2
    <3>3. CASE status' = Set(status, at[t], "manual")
      BY <2>0, <3>1, <3>3, Facts DEF Says, Set, LogTypeOK
    <3>4. CASE /\ status' = Set(status, at[t], Classified(res[t]))
               /\ \/ kind[t] = "cowork"
                  \/ ~Ambiguous(res[t]) /\ kind[t] = "confirmed"
      <4>1. at[t] # l => status'[l] = status[l]
        BY <2>0, <3>4, Facts DEF Set, LogTypeOK
      <4>2. at[t] = l => Answers(t, l)
        <5>1. pc[t] = "sent"
          BY <2>3 DEF FinalizeCowork, FinalizeConfirmed
        <5>2. at[t] = l => status'[l] = Classified(res[t])
          BY <2>0, <3>4, Facts DEF Set, LogTypeOK
        <5> QED
          BY <2>0, <3>4, <5>1, <5>2 DEF WorkOK, Answers, Ambiguous
      <4> QED
        BY <3>1, <4>1, <4>2 DEF Says
    <3> QED
      <4>1. ASSUME FinalizeCowork(t)
            PROVE  \/ status' = status
                   \/ status' = Set(status, at[t], "manual")
                   \/ status' = Set(status, at[t], Classified(res[t])) /\ kind[t] = "cowork"
        BY <4>1 DEF FinalizeCowork, Settle
      <4>2. ASSUME FinalizeConfirmed(t)
            PROVE  \/ status' = status
                   \/ status' = Set(status, at[t], "manual")
                   \/ /\ status' = Set(status, at[t], Classified(res[t]))
                      /\ ~Ambiguous(res[t]) /\ kind[t] = "confirmed"
        BY <4>2 DEF FinalizeConfirmed, Settle
      <4> QED
        BY <2>3, <3>2, <3>3, <3>4, <4>1, <4>2
  <2>4. CASE Update(t)
    <3>1. doc' = doc /\ by' = by /\ pc[t] \in {"sent", "counted"}
      BY <2>4 DEF Update
    <3>2. at[t] # l => status'[l] = status[l]
      BY <2>0, <2>4, Facts DEF Update, Set, LogTypeOK
    <3>3. at[t] = l => status'[l] = Classified(res[t])
      BY <2>0, <2>4, Facts DEF Update, Set, LogTypeOK
    <3>4. at[t] = l => path[l] # "confirmed" \/ l \in touched
      BY <2>0, <2>4, Facts DEF Update, WorkOK, ThreadTypeOK
    <3> QED
      BY <3>1, <3>2, <3>3, <3>4 DEF Says, Answers
  <2> QED
    BY <1>4, <2>1, <2>2, <2>3, <2>4 DEF PushStep
<1>5. ASSUME NEW t \in Threads, Crash(t) PROVE UNCHANGED <<doc, status>>
  BY <1>5 DEF Crash, logVars
<1>6. ASSUME NEW m \in Logs, LeaseEnds(m) PROVE UNCHANGED <<doc, status>>
  BY <1>6 DEF LeaseEnds
<1>7. CASE SettleCowork
  BY <1>7, Settles DEF SettleCowork, Says
<1>8. CASE UNCHANGED vars
  BY <1>1, <1>8 DEF vars, logVars
<1> QED
  BY <1>1, <1>2, <1>3, <1>4, <1>5, <1>6, <1>7, <1>8 DEF Next

LEMMA NextByTrue ==
    ASSUME RInv, ByTrue, [Next]_vars
    PROVE  ByTrue'
<1> SUFFICES ASSUME NEW d \in Docs, by'[d] # None PROVE doc'[by'[d]] = d
    BY DEF ByTrue
<1>1. CASE by[d] # None
  <2>1. by'[d] = by[d] /\ by[d] \in Logs /\ doc[by[d]] = d /\ d # None
    BY <1>1, Stays, Facts, Instance DEF ByTrue, LogTypeOK
  <2> QED
    BY <2>1, Bound
<1>2. CASE by[d] = None
  <2>1. PICK t \in Threads : at[t] \in Logs /\ doc[at[t]] \in Docs /\ by' = Set(by, doc[at[t]], at[t])
    BY <1>2, Books
  <2>2. d = doc[at[t]] /\ by'[d] = at[t]
    BY <1>2, <2>1, Facts DEF Set, LogTypeOK
  <2> QED
    BY <2>1, <2>2, Bound, Instance
<1> QED
  BY <1>1, <1>2

LEMMA NextRowTrue ==
    ASSUME RInv, RInv', BInv, [Next]_vars, NEW l \in Logs
    PROVE  RowTrue(l)'
<1> SUFFICES ASSUME doc'[l] # None PROVE RowTrue(l)'
    BY DEF RowTrue
<1>0. doc'[l] \in Docs
  BY DEF RInv, TInv, TypeOK, LogTypeOK
<1>1. /\ doc[l] # None => doc'[l] = doc[l] /\ path'[l] = path[l] /\ doc[l] \in Docs
      /\ touched \subseteq touched'
  BY <1>0, Bound
<1>2. doc[l] # None => RowTrue(l)
  BY DEF BInv
<1>3. by[doc'[l]] # None => by'[doc'[l]] = by[doc'[l]]
  BY <1>0, Stays
<1>4. CASE doc'[l] = doc[l] /\ status'[l] = status[l]
  <2>1. ASSUME status[l] = "failed", path[l] = "confirmed", l \notin touched' PROVE by'[doc[l]] # l
    BY <1>1, <1>2, <1>4, <2>1, OnlyItsPush DEF RowTrue
  <2>2. status[l] = "success" => by'[doc[l]] = l
    BY <1>1, <1>2, <1>3, <1>4, Instance DEF RowTrue
  <2>3. status[l] = "skipped_dup" => by'[doc[l]] # None
    BY <1>1, <1>2, <1>3, <1>4 DEF RowTrue
  <2> QED
    BY <1>1, <1>4, <2>1, <2>2, <2>3 DEF RowTrue
<1>5. CASE status'[l] \in {"absent", "pending", "retrying", "manual"}
  BY <1>5 DEF RowTrue
<1>6. CASE /\ status'[l] = "skipped_dup" /\ by' = by
           /\ \E m \in Logs : /\ doc[m] = doc'[l] /\ doc[m] # None
                              /\ status[m] \in {"success", "skipped_dup"}
  BY <1>6, Instance DEF BInv, RowTrue
<1>7. ASSUME doc'[l] = doc[l], by' = by, NEW t \in Threads, Answers(t, l) PROVE RowTrue(l)'
  <2>1. ThreadTrue(t) /\ at[t] = l /\ l # None /\ pc[t] \in {"sent", "counted"} /\ res[t] \in Results
    BY <1>7, Facts, Instance DEF BInv, Answers, HasResult, ThreadTypeOK, Results
  <2>2. res[t] = "success" => by'[doc'[l]] = l
    BY <1>7, <2>1 DEF ThreadTrue
  <2>3. res[t] = "dup" => by'[doc'[l]] # None
    BY <1>7, <2>1 DEF ThreadTrue
  <2>4. status'[l] = "failed" /\ path'[l] = "confirmed" /\ l \notin touched' => by'[doc'[l]] # l
    BY <1>1, <1>7, <2>1 DEF ThreadTrue, Answers, Classified, Results
  <2>5. status'[l] = Classified(res[t])
    BY <1>7 DEF Answers
  <2> QED
    BY <2>1, <2>2, <2>3, <2>4, <2>5 DEF RowTrue, Classified, Results
<1> QED
  BY <1>4, <1>5, <1>6, <1>7, Tells DEF Says

\* A thread at the end of a push has just ended it, or had it before.
LEMMA Pushed ==
    ASSUME RInv, [Next]_vars, NEW t \in Threads, pc'[t] \in {"sent", "counted", "updated"}
    PROVE  /\ at'[t] = at[t] /\ kind'[t] = kind[t]
           /\ \/ Send(t)
              \/ /\ pc[t] \in {"sent", "counted", "updated"} /\ res'[t] = res[t]
                 /\ pc'[t] = "sent" => pc[t] = "sent"
<1> DEFINE G == /\ at'[t] = at[t] /\ kind'[t] = kind[t]
                /\ \/ Send(t)
                   \/ /\ pc[t] \in {"sent", "counted", "updated"} /\ res'[t] = res[t]
                      /\ pc'[t] = "sent" => pc[t] = "sent"
<1>1. ASSUME UNCHANGED <<pc, kind, at, res>> PROVE G
  BY <1>1
<1>2. ASSUME NEW s \in Threads, NEW k, NEW l \in Logs, NEW p \in {"checked", "send"},
             Start(s, k, l, p), UNCHANGED <<res, todo>>
      PROVE  G
  BY <1>2, Facts, Starts DEF Same
<1>3. ASSUME NEW s \in Threads, Finish(s) PROVE G
  <2>1. s # t
    BY <1>3, Facts, Finishes
  <2>2. res'[t] = res[t]
    BY <1>3, <2>1, Facts DEF Finish, Set, ThreadTypeOK
  <2> QED
    BY <1>3, <2>1, <2>2, Facts, Finishes DEF Same
<1>4. ASSUME NEW s \in Requests, RequestStep(s) PROVE G
  <2>0. s \in Threads
    BY DEF Threads
  <2>1. ASSUME NEW d \in Docs, NEW l \in Logs, AutoSkip(s, d, l) PROVE UNCHANGED <<pc, kind, at, res>>
    BY <2>1 DEF AutoSkip, threadVars
  <2>2. ASSUME NEW d \in Docs, NEW l \in Logs, AutoCheck(s, d, l)
        PROVE  Start(s, "auto", l, "checked") /\ UNCHANGED <<res, todo>>
    BY <2>2 DEF AutoCheck
  <2>3. ASSUME NEW d \in Docs, NEW l \in Logs, ReserveCowork(s, d, l)
        PROVE  (UNCHANGED <<pc, kind, at>> \/ Start(s, "cowork", l, "send")) /\ UNCHANGED <<res, todo>>
    BY <2>3 DEF ReserveCowork
  <2>4. ASSUME NEW d \in Docs, NEW l \in Logs, ReserveConfirmed(s, d, l)
        PROVE  (UNCHANGED <<pc, kind, at>> \/ Start(s, "confirmed", l, "send")) /\ UNCHANGED <<res, todo>>
    BY <2>4 DEF ReserveConfirmed
  <2>5. ASSUME NEW l \in Logs, HandStart(s, l)
        PROVE  Start(s, "hand", l, "send") /\ UNCHANGED <<res, todo>>
    BY <2>5 DEF HandStart
  <2> HIDE DEF G
  <2>6. ASSUME NEW d \in Docs, NEW l \in Logs, AutoSkip(s, d, l) \/ AutoCheck(s, d, l) PROVE G
    BY <1>1, <1>2, <2>0, <2>1, <2>2, <2>6
  <2>7. ASSUME NEW d \in Docs, NEW l \in Logs, ReserveCowork(s, d, l) PROVE G
    BY <1>1, <1>2, <2>0, <2>3, <2>7
  <2>8. ASSUME NEW d \in Docs, NEW l \in Logs, ReserveConfirmed(s, d, l) PROVE G
    BY <1>1, <1>2, <2>0, <2>4, <2>8
  <2>9. ASSUME NEW l \in Logs, HandStart(s, l) PROVE G
    BY <1>2, <2>0, <2>5, <2>9
  <2> QED
    BY <1>4, <2>6, <2>7, <2>8, <2>9 DEF RequestStep
<1>5. ASSUME NEW s \in Ticks, TickStep(s) PROVE G
  BY <1>5, Facts DEF TickStep, List, Take, Set, ThreadTypeOK, Threads
<1>6. ASSUME NEW s \in Threads, PushStep(s) PROVE G
  <2>1. CASE FinalizeCowork(s)
    <3>1. CASE pc' = Set(pc, s, "updated") /\ UNCHANGED <<kind, at, res>> /\ pc[s] = "sent"
      BY <3>1, Facts DEF Set, ThreadTypeOK
    <3> QED
      BY <1>3, <2>1, <3>1 DEF FinalizeCowork
  <2>2. CASE FinalizeConfirmed(s) \/ Reschedule(s)
    BY <1>3, <2>2 DEF FinalizeConfirmed, Reschedule
  <2>3. CASE AutoInsert(s) \/ Count(s) \/ Update(s)
    BY <2>3, Facts DEF AutoInsert, Count, Update, Set, ThreadTypeOK
  <2>4. CASE Send(s)
    <3>1. UNCHANGED <<kind, at>> /\ pc' = Set(pc, s, "sent") /\ \E r \in Results : res' = Set(res, s, r)
      BY <2>4 DEF Send, Results
    <3>2. s # t => pc'[t] = pc[t] /\ res'[t] = res[t]
      BY <3>1, Facts DEF Set, ThreadTypeOK
    <3> QED
      BY <2>4, <3>1, <3>2
  <2> QED
    BY <1>6, <2>1, <2>2, <2>3, <2>4 DEF PushStep
<1>7. ASSUME NEW s \in Threads, Crash(s) PROVE G
  BY <1>7, Facts DEF Crash, Set, ThreadTypeOK
<1>8. ASSUME SettleCowork \/ UNCHANGED vars \/ \E l \in Logs : LeaseEnds(l)
      PROVE  UNCHANGED <<pc, kind, at, res>>
  BY <1>8 DEF SettleCowork, LeaseEnds, vars, threadVars
<1> QED
  BY <1>1, <1>4, <1>5, <1>6, <1>7, <1>8 DEF Next

\* A push that ended is not started again by its thread.
LEMMA NotAgain ==
    ASSUME RInv, [Next]_vars, NEW t \in Threads, pc[t] = "sent"
    PROVE  pc'[t] # "send"
<1>1. ASSUME pc' = pc PROVE pc'[t] # "send"
  BY <1>1
<1>2. ASSUME NEW s \in Threads, Finish(s) PROVE pc'[t] # "send"
  BY <1>2, Facts, Finishes DEF Same
<1>3. ASSUME NEW s \in Requests, RequestStep(s) PROVE pc'[t] # "send"
  <2>1. pc' = pc \/ \E p \in {"checked", "send"} : pc[s] = "idle" /\ pc' = Set(pc, s, p)
    BY <1>3 DEF RequestStep, AutoSkip, AutoCheck, ReserveCowork, ReserveConfirmed, HandStart, Start,
       threadVars
  <2> QED
    BY <1>1, <2>1, Facts DEF Set, ThreadTypeOK, Threads
<1>4. ASSUME NEW s \in Ticks, TickStep(s) PROVE pc'[t] # "send"
  BY <1>4, Facts DEF TickStep, List, Take, Set, ThreadTypeOK, Threads
<1>5. ASSUME NEW s \in Threads, PushStep(s) PROVE pc'[t] # "send"
  <2>1. CASE FinalizeConfirmed(s) \/ Reschedule(s)
    BY <1>2, <2>1 DEF FinalizeConfirmed, Reschedule
  <2>2. CASE FinalizeCowork(s)
    <3>1. CASE pc' = Set(pc, s, "updated")
      BY <3>1, Facts DEF Set, ThreadTypeOK
    <3> QED
      BY <1>2, <2>2, <3>1 DEF FinalizeCowork
  <2>3. CASE AutoInsert(s) \/ Send(s) \/ Count(s) \/ Update(s)
    BY <2>3, Facts DEF AutoInsert, Send, Count, Update, Set, ThreadTypeOK
  <2> QED
    BY <1>5, <2>1, <2>2, <2>3 DEF PushStep
<1>6. ASSUME NEW s \in Threads, Crash(s) PROVE pc'[t] # "send"
  BY <1>6, Facts DEF Crash, Set, ThreadTypeOK
<1>7. ASSUME SettleCowork \/ UNCHANGED vars \/ \E l \in Logs : LeaseEnds(l) PROVE pc' = pc
  BY <1>7 DEF SettleCowork, LeaseEnds, vars, threadVars
<1> QED
  BY <1>1, <1>3, <1>4, <1>5, <1>6, <1>7 DEF Next

\* How a push ends.
LEMMA Ends ==
    ASSUME RInv, NEW t \in Threads, Send(t), doc[at[t]] \in Docs
    PROVE  /\ pc[t] = "send" /\ pc'[t] = "sent" /\ res'[t] \in Results
           /\ res'[t] = "success" => by'[doc[at[t]]] = at[t]
           /\ res'[t] = "dup" => by'[doc[at[t]]] # None
           /\ res'[t] = "data" => by' = by
<1>1. \A r \in Results : Set(res, t, r)[t] = r
  BY Facts DEF Set, ThreadTypeOK
<1>2. Set(by, doc[at[t]], at[t])[doc[at[t]]] = at[t]
  BY Facts DEF Set, LogTypeOK
<1>3. pc'[t] = "sent"
  BY Facts DEF Send, Set, ThreadTypeOK
<1> QED
  BY <1>1, <1>2, <1>3 DEF Send, Results

LEMMA NextThreadTrue ==
    ASSUME RInv, BInv, [Next]_vars, NEW t \in Threads
    PROVE  ThreadTrue(t)'
<1>1. ASSUME at[t] # None
      PROVE  /\ at[t] \in Logs /\ doc[at[t]] \in Docs /\ doc'[at[t]] = doc[at[t]]
             /\ ThreadTrue(t) /\ WorkOK(t)
  <2>1. at[t] \in Logs /\ ThreadTrue(t) /\ WorkOK(t)
    BY <1>1, Facts DEF BInv, ThreadTypeOK
  <2>2. doc[at[t]] # None
    BY <1>1, <2>1 DEF WorkOK
  <2> QED
    BY <2>1, <2>2, Facts, Bound DEF LogTypeOK
<1>2. ASSUME at'[t] # None, pc'[t] \in {"sent", "counted", "updated"}
      PROVE  /\ res'[t] = "success" => by'[doc'[at'[t]]] = at'[t]
             /\ res'[t] = "dup" => by'[doc'[at'[t]]] # None
  <2>1. at'[t] = at[t] /\ at[t] # None
    BY <1>2, Pushed
  <2>2. CASE Send(t)
    BY <1>1, <2>1, <2>2, Ends
  <2>3. CASE pc[t] \in {"sent", "counted", "updated"} /\ res'[t] = res[t]
    <3>1. by[doc[at[t]]] # None => by'[doc[at[t]]] = by[doc[at[t]]]
      BY <1>1, <2>1, Stays
    <3> QED
      BY <1>1, <2>1, <2>3, <3>1 DEF ThreadTrue
  <2> QED
    BY <1>2, <2>2, <2>3, Pushed
<1>3. ASSUME at'[t] # None, kind'[t] = "confirmed", at'[t] \notin touched',
             pc'[t] = "send" \/ (pc'[t] = "sent" /\ res'[t] = "data")
      PROVE  by'[doc'[at'[t]]] # at'[t]
  <2>1. CASE Confirming(t) /\ at'[t] = at[t]
    <3>1. /\ at[t] # None /\ kind[t] = "confirmed" /\ at[t] \notin touched
          /\ pc[t] \in {"send", "sent"} /\ path[at[t]] = "confirmed"
      BY <1>1, <1>3, <2>1, Bound DEF Confirming, WorkOK
    <3>2. pc[t] = "send" \/ (pc[t] = "sent" /\ res[t] = "data")
      BY <1>3, <3>1, NotAgain, Pushed DEF Send
    <3>3. by[doc[at[t]]] # at[t]
      BY <1>1, <3>1, <3>2 DEF ThreadTrue
    <3>4. SUFFICES ASSUME by'[doc[at[t]]] = at[t] PROVE FALSE
      BY <1>1, <2>1, <3>1
    <3>5. PICK s \in Threads : Send(s) /\ at[s] = at[t] /\ kind[s] = "confirmed"
      BY <1>1, <3>1, <3>3, <3>4, OnlyItsPush
    <3>6. s = t
      BY <3>1, <3>5, OtherRow
    <3>7. pc'[t] = "sent" /\ (res'[t] = "data" => by' = by)
      BY <1>1, <3>1, <3>5, <3>6, Ends
    <3> QED
      BY <1>3, <3>3, <3>4, <3>7
  <2>2. ASSUME NEW d \in Docs, NEW l \in Logs, t \in Requests, ReserveConfirmed(t, d, l),
               Start(t, "confirmed", l, "send")
        PROVE  by'[doc'[at'[t]]] # at'[t]
    <3>1. todo' = todo /\ by' = by /\ Fresh(l)
      BY <2>2 DEF ReserveConfirmed
    <3>2. pc[t] = "idle" /\ at'[t] = l
      BY <2>2, <3>1, Facts, Starts
    <3>3. at'[t] # at[t]
      BY <3>2, Facts, Instance DEF ThreadTypeOK
    <3>4. Bind(l, d, "confirmed")
      BY <2>2, <3>3 DEF ReserveConfirmed
    <3>5. doc'[l] = d /\ d # None /\ doc[l] = None
      BY <3>1, <3>4, SameFresh DEF Fresh
    <3> QED
      BY <3>1, <3>2, <3>5, Instance DEF BInv, ByTrue
  <2>3. Confirming(t)'
    BY <1>3 DEF Confirming
  <2> QED
    BY <2>1, <2>2, <2>3, Confirms
<1> QED
  BY <1>2, <1>3 DEF ThreadTrue

LEMMA NextBooks == RInv /\ RInv' /\ BInv /\ [Next]_vars => BInv'
<1> SUFFICES ASSUME RInv, RInv', BInv, [Next]_vars PROVE BInv'
    OBVIOUS
<1>1. ByTrue'
  BY NextByTrue DEF BInv
<1>2. \A l \in Logs : RowTrue(l)'
  BY NextRowTrue
<1>3. \A t \in Threads : ThreadTrue(t)'
  BY NextThreadTrue
<1> QED
  BY <1>1, <1>2, <1>3 DEF BInv

LEMMA BooksTold == RInv /\ BInv => ToldIsBooked /\ FailedIsClean
<1> SUFFICES ASSUME RInv, BInv PROVE ToldIsBooked /\ FailedIsClean
    OBVIOUS
<1>1. \A l \in Logs : status[l] # "absent" => doc[l] # None
  BY Facts DEF RowOK
<1> QED
  BY <1>1 DEF BInv, RowTrue, ToldIsBooked, FailedIsClean

LEMMA BooksKept == Spec => []BInv
BY InitBooks, Rows, NextBooks, PTL DEF Spec

\* What a row says of MR.ERP is true, whatever overlaps, is retried or dies.
THEOREM ToldTrue == Spec => []ToldIsBooked
BY BooksTold, BooksKept, Rows, PTL

\* A confirmed push that nobody retried and that is called failed left nothing.
THEOREM FailedClean == Spec => []FailedIsClean
BY BooksTold, BooksKept, Rows, PTL
=============================================================================
