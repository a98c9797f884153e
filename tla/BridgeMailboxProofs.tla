------------------------ MODULE BridgeMailboxProofs ------------------------
(***************************************************************************)
(* What holds of BridgeMailbox for any number of bridges, books, jobs and  *)
(* leases, and for any size of a lease request.                            *)
(***************************************************************************)
EXTENDS BridgeMailbox, TLAPS

-----------------------------------------------------------------------------
LEMMA Bounds ==
    /\ NJobs \in Nat /\ LeasesPerTTL \in Nat /\ LeasesPerTTL > 0
    /\ Kinds \subseteq {"query", "write", "confirmed"} /\ None \notin Requests
BY BridgeMailboxAssumption DEF BridgeMailboxAssumption, Requests

(* The ORDER BY ... LIMIT of lease_jobs hands out ready jobs only, and     *)
(* ready means in the queue or just taken back, and in time.               *)
LEMMA BatchIsReady ==
    ASSUME NEW b \in Bridges, NEW n, NEW j \in Oldest(n, Ready(b))
    PROVE  /\ j \in Created /\ j \in Jobs /\ ~overdue[j]
           /\ \/ status[j] = "queued"
              \/ status[j] = "leased" /\ lapsed[j] /\ job[j].kind # "confirmed"
BY DEF Oldest, Ready, Stale, Reclaimed, Unacked, Of, Created

(* Whatever lease_jobs changes of a row, the row was in the queue or held. *)
LEMMA SweptIsOpen ==
    ASSUME NEW b \in Bridges, NEW j \in Unacked(b) \cup Stale(b) \cup Reclaimed(b)
    PROVE  /\ j \in Created /\ j \in Jobs
           /\ status[j] = "queued" \/ (status[j] = "leased" /\ lapsed[j])
BY DEF Stale, Reclaimed, Unacked, Of, Created

-----------------------------------------------------------------------------
(* Types.  A job is leased again only while it is not overdue, and every   *)
(* lease that runs out brings it nearer to that; what the bridge works on  *)
(* is bounded by the leases of a job that is still open.                   *)
LeaseRoom ==
    \A j \in Jobs :
        ~overdue[j] \/ (status[j] = "leased" /\ ~lapsed[j]) => leases[j] < LeasesPerTTL

WorkRoom ==
    \A j \in Jobs :
        status[j] \notin Final =>
            \/ running[j] <= leases[j]
            \/ status[j] = "leased" /\ ~lapsed[j] /\ running[j] <= leases[j] + 1

Numbered == \A j \in Jobs : job[j] = None <=> status[j] = "none"

NoLease == \A j \in Jobs : status[j] \in {"none", "queued"} => ~lapsed[j]

TypeInv == TypeOK /\ LeaseRoom /\ WorkRoom /\ Numbered /\ NoLease

LEMMA InitType == Init => TypeInv
<1> SUFFICES ASSUME Init PROVE TypeInv
    OBVIOUS
<1> USE Bounds DEF Init, Final
<1>1. BridgeTypeOK
  BY DEF BridgeTypeOK
<1>2. RowTypeOK
  BY DEF RowTypeOK
<1>3. WorkTypeOK
  BY DEF WorkTypeOK
<1>4. LeaseRoom /\ WorkRoom /\ Numbered /\ NoLease
  BY DEF LeaseRoom, WorkRoom, Numbered, NoLease
<1> QED
  BY <1>1, <1>2, <1>3, <1>4 DEF TypeInv, TypeOK

(* One lease_jobs transaction, row by row: where the row ends up, and what *)
(* is handed out.                                                          *)
LEMMA LeaseTickRow ==
    ASSUME NEW b \in Bridges, LeaseTick(b), NEW j \in Jobs, TypeOK, NoLease
    PROVE  /\ leases' = leases /\ overdue' = overdue /\ wrote' = wrote /\ job' = job
           /\ lapsed' \in [Jobs -> BOOLEAN] /\ lapsed'[j] => lapsed[j]
           /\ \/ /\ status'[j] = status[j] /\ running'[j] = running[j]
                 /\ lapsed'[j] = lapsed[j]
              \/ /\ status[j] = "queued" \/ (status[j] = "leased" /\ lapsed[j])
                 /\ status'[j] = "expired" /\ running'[j] = running[j]
              \/ /\ status[j] = "leased" /\ lapsed[j] /\ job[j].kind # "confirmed"
                 /\ status'[j] = "queued" /\ running'[j] = running[j] /\ ~lapsed'[j]
              \/ /\ j \in Created /\ ~overdue[j]
                 /\ \/ status[j] = "queued"
                    \/ status[j] = "leased" /\ lapsed[j] /\ job[j].kind # "confirmed"
                 /\ status'[j] = "leased" /\ running'[j] = running[j] + 1
                 /\ ~lapsed'[j]
<1>1. PICK n \in 1..MaxBatch :
        /\ status' = [i \in Jobs |->
                        IF i \in Unacked(b) \cup Stale(b) THEN "expired"
                        ELSE IF i \in Oldest(n, Ready(b)) THEN "leased"
                        ELSE IF i \in Reclaimed(b) THEN "queued"
                        ELSE status[i]]
        /\ running' = [i \in Jobs |->
                         IF i \in Oldest(n, Ready(b)) THEN running[i] + 1 ELSE running[i]]
  BY DEF LeaseTick
<1>2. lapsed' = [i \in Jobs |-> lapsed[i] /\ i \notin Unacked(b) \cup Reclaimed(b)]
  BY DEF LeaseTick
<1>3. leases' = leases /\ overdue' = overdue /\ wrote' = wrote /\ job' = job
  BY DEF LeaseTick, workVars
<1>4. lapsed' \in [Jobs -> BOOLEAN] /\ (lapsed'[j] => lapsed[j])
  BY <1>2 DEF TypeOK, RowTypeOK
<1>5. CASE j \in Unacked(b) \cup Stale(b)
  <2>1. j \notin Oldest(n, Ready(b))
    BY <1>5 DEF Oldest, Ready, Reclaimed, Unacked, Of
  <2> QED
    BY <1>1, <1>3, <1>4, <1>5, <2>1, SweptIsOpen
<1>6. CASE j \notin Unacked(b) \cup Stale(b) /\ j \in Oldest(n, Ready(b))
  <2>1. ~lapsed'[j]
    BY <1>2, <1>6, BatchIsReady DEF NoLease, Oldest, Ready, Of
  <2> QED
    BY <1>1, <1>3, <1>4, <1>6, <2>1, BatchIsReady
<1>7. CASE j \notin Unacked(b) \cup Stale(b) \cup Oldest(n, Ready(b)) /\ j \in Reclaimed(b)
  <2>1. status[j] = "leased" /\ lapsed[j] /\ job[j].kind # "confirmed"
    BY <1>7 DEF Reclaimed, Unacked, Of
  <2> QED
    BY <1>1, <1>2, <1>3, <1>4, <1>7, <2>1
<1>8. CASE j \notin Unacked(b) \cup Stale(b) \cup Oldest(n, Ready(b)) \cup Reclaimed(b)
  BY <1>1, <1>2, <1>3, <1>4, <1>8 DEF TypeOK, RowTypeOK
<1> QED
  BY <1>5, <1>6, <1>7, <1>8

(* hello, the polls and the picking of a bridge touch no job.              *)
LEMMA JobsUntouched ==
    ASSUME TypeInv, BridgeTypeOK', UNCHANGED <<rowVars, workVars, said>>
    PROVE  TypeInv'
BY DEF TypeInv, TypeOK, RowTypeOK, WorkTypeOK, LeaseRoom, WorkRoom, Numbered,
       NoLease, rowVars, workVars

LEMMA NextType == TypeInv /\ [Next]_vars => TypeInv'
<1> SUFFICES ASSUME TypeInv, [Next]_vars PROVE TypeInv'
    OBVIOUS
<1> USE Bounds
<1>0. BridgeTypeOK /\ RowTypeOK /\ WorkTypeOK /\ LeaseRoom /\ WorkRoom /\ Numbered /\ NoLease /\ TypeOK
  BY DEF TypeInv, TypeOK
<1>1. ASSUME NEW b \in Bridges, Hello(b) \/ FallSilent(b) \/ PollBegin(b) \/ PollEnd(b)
      PROVE  TypeInv'
  <2>1. BridgeTypeOK'
    <3>1. CASE Hello(b)
      BY <1>0, <3>1 DEF Hello, BridgeTypeOK
    <3>2. CASE FallSilent(b)
      BY <1>0, <3>2 DEF FallSilent, BridgeTypeOK
    <3>3. CASE PollBegin(b) \/ PollEnd(b)
      BY <1>0, <3>3 DEF PollBegin, PollEnd, BridgeTypeOK, bridgeVars
    <3> QED
      BY <1>1, <3>1, <3>2, <3>3
  <2> QED
    BY <1>1, <2>1, JobsUntouched DEF Hello, FallSilent, PollBegin, PollEnd
<1>2. ASSUME NEW b \in Bridges, NEW k \in Kinds, NEW x \in Books, PickBridge(b, k, x)
      PROVE  TypeInv'
  <2>1. BridgeTypeOK'
    BY <1>0, <1>2 DEF PickBridge, BridgeTypeOK, bridgeVars, Requests
  <2> QED
    BY <1>2, <2>1, JobsUntouched DEF PickBridge
<1>3. ASSUME NEW j \in Jobs, Enqueue(j) PROVE TypeInv'
  <2> USE DEF Enqueue, Created, Requests, Final, bridgeVars, workVars
  <2>0. status[j] = "none" /\ ~lapsed[j]
    BY <1>0, <1>3 DEF Numbered, NoLease
  <2>1. BridgeTypeOK'
    BY <1>0, <1>3 DEF BridgeTypeOK
  <2>2. RowTypeOK'
    BY <1>0, <1>3 DEF RowTypeOK, BridgeTypeOK
  <2>3. WorkTypeOK'
    BY <1>0, <1>3 DEF WorkTypeOK
  <2>4. LeaseRoom'
    BY <1>0, <1>3 DEF LeaseRoom, RowTypeOK, WorkTypeOK
  <2>5. WorkRoom'
    BY <1>0, <1>3, <2>0 DEF WorkRoom, RowTypeOK, WorkTypeOK
  <2>6. Numbered'
    BY <1>0, <1>3 DEF Numbered, RowTypeOK, WorkTypeOK
  <2>7. NoLease'
    BY <1>0, <1>3, <2>0 DEF NoLease, RowTypeOK
  <2> QED
    BY <2>1, <2>2, <2>3, <2>4, <2>5, <2>6, <2>7 DEF TypeInv, TypeOK
<1>4. ASSUME NEW j \in Jobs, GiveUp(j) PROVE TypeInv'
  <2> USE DEF GiveUp, Created, Abandonable, Final, bridgeVars, workVars
  <2>1. BridgeTypeOK'
    BY <1>0, <1>4 DEF BridgeTypeOK
  <2>2. RowTypeOK'
    BY <1>0, <1>4 DEF RowTypeOK
  <2>3. WorkTypeOK'
    BY <1>0, <1>4 DEF WorkTypeOK
  <2>4. LeaseRoom'
    BY <1>0, <1>4 DEF LeaseRoom, RowTypeOK, WorkTypeOK
  <2>5. WorkRoom'
    BY <1>0, <1>4 DEF WorkRoom, RowTypeOK, WorkTypeOK
  <2>6. Numbered'
    BY <1>0, <1>4 DEF Numbered, RowTypeOK, WorkTypeOK
  <2>7. NoLease'
    BY <1>0, <1>4 DEF NoLease, RowTypeOK
  <2> QED
    BY <2>1, <2>2, <2>3, <2>4, <2>5, <2>6, <2>7 DEF TypeInv, TypeOK
<1>5. ASSUME NEW j \in Jobs, Report(j) \/ ReportPending(j) PROVE TypeInv'
  <2> USE DEF Report, ReportPending, Verdict, bridgeVars, rowVars, workVars
  <2>1. BridgeTypeOK'
    BY <1>0, <1>5 DEF BridgeTypeOK
  <2>2. RowTypeOK'
    BY <1>0, <1>5 DEF RowTypeOK
  <2>3. WorkTypeOK'
    BY <1>0, <1>5 DEF WorkTypeOK
  <2>4. LeaseRoom'
    BY <1>0, <1>5 DEF LeaseRoom, RowTypeOK, WorkTypeOK
  <2>5. WorkRoom'
    BY <1>0, <1>5 DEF WorkRoom, RowTypeOK, WorkTypeOK
  <2>6. Numbered'
    BY <1>0, <1>5 DEF Numbered, RowTypeOK, WorkTypeOK
  <2>7. NoLease'
    BY <1>0, <1>5 DEF NoLease, RowTypeOK
  <2> QED
    BY <2>1, <2>2, <2>3, <2>4, <2>5, <2>6, <2>7 DEF TypeInv, TypeOK
<1>6. ASSUME NEW j \in Jobs, Work(j) \/ WorkLost(j) PROVE TypeInv'
  <2> USE DEF Work, WorkLost, bridgeVars, rowVars, workVars
  <2>1. BridgeTypeOK'
    BY <1>0, <1>6 DEF BridgeTypeOK
  <2>2. RowTypeOK'
    BY <1>0, <1>6 DEF RowTypeOK
  <2>3. WorkTypeOK'
    BY <1>0, <1>6 DEF WorkTypeOK
  <2>4. LeaseRoom'
    BY <1>0, <1>6 DEF LeaseRoom, RowTypeOK, WorkTypeOK
  <2>5. WorkRoom'
    BY <1>0, <1>6 DEF WorkRoom, RowTypeOK, WorkTypeOK
  <2>6. Numbered'
    BY <1>0, <1>6 DEF Numbered, RowTypeOK, WorkTypeOK
  <2>7. NoLease'
    BY <1>0, <1>6 DEF NoLease, RowTypeOK
  <2> QED
    BY <2>1, <2>2, <2>3, <2>4, <2>5, <2>6, <2>7 DEF TypeInv, TypeOK
<1>7. ASSUME NEW j \in Jobs, Lapse(j) PROVE TypeInv'
  <2> USE DEF Lapse, Final, bridgeVars, workVars
  <2>1. BridgeTypeOK'
    BY <1>0, <1>7 DEF BridgeTypeOK
  <2>2. RowTypeOK'
    <3>1. leases[j] + 1 \in 0..LeasesPerTTL
      BY <1>0, <1>7 DEF LeaseRoom, RowTypeOK
    <3>2. leases' \in [Jobs -> 0..LeasesPerTTL]
      BY <1>0, <1>7, <3>1 DEF RowTypeOK
    <3>3. overdue' \in [Jobs -> BOOLEAN] /\ lapsed' \in [Jobs -> BOOLEAN]
      BY <1>0, <1>7 DEF RowTypeOK
    <3> QED
      BY <1>0, <1>7, <3>2, <3>3 DEF RowTypeOK
  <2>3. WorkTypeOK'
    BY <1>0, <1>7 DEF WorkTypeOK
  <2>4. LeaseRoom'
    <3>1. lapsed'[j] /\ leases'[j] = leases[j] + 1
          /\ (leases[j] + 1 >= LeasesPerTTL => overdue'[j])
      BY <1>0, <1>7 DEF RowTypeOK
    <3>2. ~overdue'[j] => leases'[j] < LeasesPerTTL
      BY <1>0, <3>1 DEF RowTypeOK
    <3>3. \A i \in Jobs : i # j => /\ lapsed'[i] = lapsed[i] /\ leases'[i] = leases[i]
                                   /\ overdue'[i] = overdue[i]
      BY <1>0, <1>7 DEF RowTypeOK
    <3> QED
      BY <1>0, <1>7, <3>1, <3>2, <3>3 DEF LeaseRoom
  <2>5. WorkRoom'
    BY <1>0, <1>7 DEF WorkRoom, RowTypeOK, WorkTypeOK
  <2>6. Numbered'
    BY <1>0, <1>7 DEF Numbered, RowTypeOK, WorkTypeOK
  <2>7. NoLease'
    BY <1>0, <1>7 DEF NoLease, RowTypeOK
  <2> QED
    BY <2>1, <2>2, <2>3, <2>4, <2>5, <2>6, <2>7 DEF TypeInv, TypeOK
<1>8. ASSUME NEW j \in Jobs, GrowOld(j) PROVE TypeInv'
  <2> USE DEF GrowOld, bridgeVars, workVars
  <2>1. BridgeTypeOK'
    BY <1>0, <1>8 DEF BridgeTypeOK
  <2>2. RowTypeOK'
    BY <1>0, <1>8 DEF RowTypeOK
  <2>3. WorkTypeOK'
    BY <1>0, <1>8 DEF WorkTypeOK
  <2>4. LeaseRoom'
    BY <1>0, <1>8 DEF LeaseRoom, RowTypeOK, WorkTypeOK
  <2>5. WorkRoom'
    BY <1>0, <1>8 DEF WorkRoom, RowTypeOK, WorkTypeOK
  <2>6. Numbered'
    BY <1>0, <1>8 DEF Numbered, RowTypeOK, WorkTypeOK
  <2>7. NoLease'
    BY <1>0, <1>8 DEF NoLease, RowTypeOK
  <2> QED
    BY <2>1, <2>2, <2>3, <2>4, <2>5, <2>6, <2>7 DEF TypeInv, TypeOK
<1>9. ASSUME NEW j \in Jobs, NEW a \in {"ok", "err"}, FinishJob(j, a) PROVE TypeInv'
  <2> USE DEF FinishJob, Final, bridgeVars
  <2>1. BridgeTypeOK'
    BY <1>0, <1>9 DEF BridgeTypeOK
  <2>2. RowTypeOK'
    <3>1. CASE status[j] = "leased"
      BY <1>0, <1>9, <3>1 DEF RowTypeOK
    <3>2. CASE status[j] # "leased"
      BY <1>0, <1>9, <3>2 DEF RowTypeOK
    <3> QED
      BY <3>1, <3>2
  <2>3. WorkTypeOK'
    BY <1>0, <1>9 DEF WorkTypeOK
  <2>4. LeaseRoom'
    BY <1>0, <1>9 DEF LeaseRoom, RowTypeOK, WorkTypeOK
  <2>5. WorkRoom'
    BY <1>0, <1>9 DEF WorkRoom, RowTypeOK, WorkTypeOK
  <2>6. Numbered'
    BY <1>0, <1>9 DEF Numbered, RowTypeOK, WorkTypeOK
  <2>7. NoLease'
    BY <1>0, <1>9 DEF NoLease, RowTypeOK
  <2> QED
    BY <2>1, <2>2, <2>3, <2>4, <2>5, <2>6, <2>7 DEF TypeInv, TypeOK
<1>10. ASSUME NEW j \in Jobs, NEW a \in {"ok", "err"}, AckLost(j, a) PROVE TypeInv'
  <2> USE DEF AckLost, bridgeVars, rowVars
  <2>1. BridgeTypeOK'
    BY <1>0, <1>10 DEF BridgeTypeOK
  <2>2. RowTypeOK'
    BY <1>0, <1>10 DEF RowTypeOK
  <2>3. WorkTypeOK'
    BY <1>0, <1>10 DEF WorkTypeOK
  <2>4. LeaseRoom'
    BY <1>0, <1>10 DEF LeaseRoom, RowTypeOK, WorkTypeOK
  <2>5. WorkRoom'
    BY <1>0, <1>10 DEF WorkRoom, RowTypeOK, WorkTypeOK
  <2>6. Numbered'
    BY <1>0, <1>10 DEF Numbered, RowTypeOK, WorkTypeOK
  <2>7. NoLease'
    BY <1>0, <1>10 DEF NoLease, RowTypeOK
  <2> QED
    BY <2>1, <2>2, <2>3, <2>4, <2>5, <2>6, <2>7 DEF TypeInv, TypeOK
<1>11. ASSUME NEW b \in Bridges, LeaseTick(b) PROVE TypeInv'
  <2>1. BridgeTypeOK'
    BY <1>0, <1>11 DEF LeaseTick, BridgeTypeOK, bridgeVars
  <2>2. RowTypeOK'
    <3>1. status' \in [Jobs -> {"none", "queued", "leased"} \cup Final]
      BY <1>0, <1>11 DEF LeaseTick, RowTypeOK, Final
    <3>2. lapsed' \in [Jobs -> BOOLEAN]
      BY <1>11 DEF LeaseTick
    <3>3. answer' \in [Jobs -> {"none", "ok", "err", "unacked"}]
      BY <1>0, <1>11 DEF LeaseTick, RowTypeOK
    <3> QED
      BY <1>0, <1>11, <3>1, <3>2, <3>3 DEF LeaseTick, RowTypeOK
  <2>3. LeaseRoom'
    BY <1>0, <1>11, LeaseTickRow DEF LeaseRoom, RowTypeOK
  <2>4. WorkRoom'
    <3> SUFFICES ASSUME NEW j \in Jobs, status'[j] \notin Final
                 PROVE  \/ running'[j] <= leases'[j]
                        \/ /\ status'[j] = "leased" /\ ~lapsed'[j]
                           /\ running'[j] <= leases'[j] + 1
      BY DEF WorkRoom
    <3>1. running[j] \in Nat /\ leases[j] \in Nat
      BY <1>0 DEF RowTypeOK, WorkTypeOK
    <3>2. CASE running'[j] = running[j]
      BY <1>0, <1>11, <3>1, <3>2, LeaseTickRow DEF WorkRoom, Final
    <3>3. CASE running'[j] # running[j]
      <4>1. /\ status[j] = "queued" \/ (status[j] = "leased" /\ lapsed[j])
            /\ status'[j] = "leased" /\ running'[j] = running[j] + 1
            /\ leases' = leases
        BY <1>0, <1>11, <3>3, LeaseTickRow
      <4>2. running[j] <= leases[j]
        BY <1>0, <4>1 DEF WorkRoom, Final
      <4>3. ~lapsed'[j]
        BY <1>0, <1>11, <3>1, <3>3, LeaseTickRow
      <4> QED
        BY <3>1, <4>1, <4>2, <4>3
    <3> QED
      BY <3>2, <3>3
  <2>5. WorkTypeOK'
    <3>1. ASSUME NEW j \in Jobs PROVE running'[j] \in 0..LeasesPerTTL
      BY <1>0, <1>11, LeaseTickRow
         DEF LeaseRoom, WorkRoom, RowTypeOK, WorkTypeOK, Final
    <3>2. running' \in [Jobs -> 0..LeasesPerTTL]
      BY <1>11, <3>1 DEF LeaseTick
    <3> QED
      BY <1>0, <1>11, <3>2 DEF LeaseTick, WorkTypeOK
  <2>6. Numbered'
    BY <1>0, <1>11, LeaseTickRow DEF Numbered, Created
  <2>7. NoLease'
    BY <1>0, <1>11, LeaseTickRow DEF NoLease
  <2> QED
    BY <2>1, <2>2, <2>3, <2>4, <2>5, <2>6, <2>7 DEF TypeInv, TypeOK
<1>12. CASE UNCHANGED vars
  BY <1>0, <1>12, JobsUntouched DEF vars, bridgeVars, BridgeTypeOK
<1> QED
  BY <1>1, <1>2, <1>3, <1>4, <1>5, <1>6, <1>7, <1>8, <1>9, <1>10, <1>11, <1>12 DEF Next

LEMMA TypeInvariant == Spec => []TypeInv
BY InitType, NextType, PTL DEF Spec

(* Every variable keeps its type: register_hello, lease_jobs, finish_job   *)
(* and expire_job leave rows the tables allow, and what a job is leased or *)
(* worked on never exceeds what its time to live has room for.             *)
THEOREM TypeCorrect == Spec => []TypeOK
<1>1. TypeInv => TypeOK
  BY DEF TypeInv
<1> QED
  BY TypeInvariant, <1>1, PTL

-----------------------------------------------------------------------------
(* At most one online bridge may write a book: the property is inductive,  *)
(* because register_hello looks at every other row under the lock of all.  *)
LEMMA InitOneWriter == Init => OneWriter
BY DEF Init, OneWriter

LEMMA NextOneWriter == BridgeTypeOK /\ OneWriter /\ [Next]_vars => OneWriter'
<1> SUFFICES ASSUME BridgeTypeOK, OneWriter, [Next]_vars PROVE OneWriter'
    OBVIOUS
<1>1. ASSUME NEW b \in Bridges, Hello(b) PROVE OneWriter'
  <2>1. PICK bs \in SUBSET Books, wanted \in BOOLEAN :
          /\ writer' = [writer EXCEPT ![b] = wanted /\ ~Held(b, bs)]
          /\ books' = [books EXCEPT ![b] = bs]
    BY <1>1 DEF Hello
  <2>2. /\ online' = [online EXCEPT ![b] = TRUE]
        /\ \A h \in Bridges \ {b} : /\ online'[h] = online[h] /\ writer'[h] = writer[h]
                                  /\ books'[h] = books[h]
    BY <1>1, <2>1 DEF Hello, BridgeTypeOK
  <2>3. books'[b] = bs /\ (writer'[b] => ~Held(b, bs))
    BY <2>1 DEF BridgeTypeOK
  <2>4. \A h \in Bridges \ {b} :
          writer'[b] /\ online'[h] /\ writer'[h] => books'[h] \cap books'[b] = {}
    BY <2>2, <2>3 DEF Held
  <2> QED
    BY <2>2, <2>4 DEF OneWriter
<1>2. ASSUME NEW b \in Bridges, FallSilent(b) PROVE OneWriter'
  BY <1>2 DEF FallSilent, OneWriter, BridgeTypeOK
<1>3. ASSUME UNCHANGED bridgeVars PROVE OneWriter'
  BY <1>3 DEF bridgeVars, OneWriter
<1>4. ASSUME NEW b \in Bridges,
             PollBegin(b) \/ PollEnd(b) \/ LeaseTick(b)
               \/ \E k \in Kinds, x \in Books : PickBridge(b, k, x)
      PROVE  UNCHANGED bridgeVars
  BY <1>4 DEF PollBegin, PollEnd, LeaseTick, PickBridge
<1>5. ASSUME NEW j \in Jobs,
             \/ Enqueue(j) \/ GiveUp(j) \/ Report(j) \/ ReportPending(j)
             \/ Work(j) \/ WorkLost(j) \/ Lapse(j) \/ GrowOld(j)
             \/ \E a \in {"ok", "err"} : FinishJob(j, a) \/ AckLost(j, a)
      PROVE  UNCHANGED bridgeVars
  BY <1>5 DEF Enqueue, GiveUp, Report, ReportPending, Work, WorkLost, Lapse, GrowOld,
              FinishJob, AckLost
<1> QED
  BY <1>1, <1>2, <1>3, <1>4, <1>5 DEF Next, vars

(* Whatever books the bridges report and in whatever order they come, go   *)
(* and say hello, no book has two online write bridges.                    *)
THEOREM BookHasOneWriter == Spec => []OneWriter
<1>1. TypeInv => BridgeTypeOK
  BY DEF TypeInv, TypeOK
<1> QED
  BY TypeInvariant, InitOneWriter, NextOneWriter, <1>1, PTL DEF Spec

-----------------------------------------------------------------------------
(* What became of a job.  A confirmed write that nobody fetched has no     *)
(* trace; fetched, it is worked on or in the book, once.  An answer that   *)
(* says ok, and so the success the accountant is told, has a document      *)
(* behind it.                                                              *)
Fresh(j) == running[j] = 0 /\ wrote[j] = 0

Once ==
    \A j \in Jobs :
        /\ job[j] = None => Fresh(j)
        /\ job[j] # None /\ job[j].kind = "confirmed" =>
              /\ running[j] + wrote[j] <= 1
              /\ status[j] = "queued" => Fresh(j)

Truthful ==
    \A j \in Jobs :
        /\ job[j] = None => acks[j] = {} /\ answer[j] = "none" /\ said[j] = "none"
        /\ job[j] # None /\ IsWrite(j) =>
              ("ok" \in acks[j] \/ answer[j] = "ok" => wrote[j] > 0)
        /\ said[j] = "success" => wrote[j] > 0

LEMMA InitOutcome == Init => Once /\ Truthful
BY DEF Init, Once, Truthful, Fresh

LEMMA NextOnce == TypeInv /\ Once /\ [Next]_vars => Once'
<1> SUFFICES ASSUME TypeInv, Once, [Next]_vars PROVE Once'
    OBVIOUS
<1>0. RowTypeOK /\ WorkTypeOK /\ BridgeTypeOK /\ Numbered /\ TypeOK /\ NoLease
  BY DEF TypeInv, TypeOK
<1>1. ASSUME NEW b \in Bridges, LeaseTick(b) PROVE Once'
  <2> SUFFICES ASSUME NEW j \in Jobs
               PROVE  /\ job'[j] = None => Fresh(j)'
                      /\ job'[j] # None /\ job'[j].kind = "confirmed" =>
                            /\ running'[j] + wrote'[j] <= 1
                            /\ status'[j] = "queued" => Fresh(j)'
    BY DEF Once
  <2>1. running[j] \in Nat /\ wrote[j] \in Nat /\ job' = job /\ wrote' = wrote
    BY <1>0, <1>1, LeaseTickRow DEF WorkTypeOK
  <2>2. CASE running'[j] = running[j]
    BY <1>0, <1>1, <2>1, <2>2, LeaseTickRow DEF Once, Fresh
  <2>3. CASE running'[j] # running[j]
    <3>1. /\ job[j] # None /\ status'[j] = "leased" /\ running'[j] = running[j] + 1
          /\ status[j] = "queued" \/ job[j].kind # "confirmed"
      BY <1>0, <1>1, <2>3, LeaseTickRow DEF Created
    <3> QED
      BY <2>1, <3>1 DEF Once, Fresh
  <2> QED
    BY <2>2, <2>3
<1>2. ASSUME NEW j \in Jobs, Enqueue(j) PROVE Once'
  <2>1. job[j] = None /\ running' = running /\ wrote' = wrote
    BY <1>2 DEF Enqueue, Created, workVars
  <2>2. \A i \in Jobs \ {j} : job'[i] = job[i] /\ status'[i] = status[i]
    BY <1>0, <1>2 DEF Enqueue, RowTypeOK
  <2> QED
    BY <2>1, <2>2 DEF Once, Fresh
<1>3. ASSUME NEW j \in Jobs, Work(j) \/ WorkLost(j) PROVE Once'
  <2>1. job' = job /\ status' = status
    BY <1>3 DEF Work, WorkLost, rowVars
  <2>2. \A i \in Jobs \ {j} : running'[i] = running[i] /\ wrote'[i] = wrote[i]
    BY <1>0, <1>3 DEF Work, WorkLost, WorkTypeOK
  <2>3. /\ running[j] > 0 /\ running'[j] = running[j] - 1
        /\ running[j] \in Nat /\ wrote[j] \in Nat
        /\ wrote'[j] \in {wrote[j], wrote[j] + 1}
    BY <1>0, <1>3 DEF Work, WorkLost, WorkTypeOK
  <2> QED
    BY <2>1, <2>2, <2>3 DEF Once, Fresh
<1>4. ASSUME NEW j \in Jobs, GiveUp(j) PROVE Once'
  BY <1>0, <1>4 DEF GiveUp, Once, Fresh, RowTypeOK, workVars
<1>5. ASSUME NEW j \in Jobs, NEW a \in {"ok", "err"}, FinishJob(j, a) PROVE Once'
  <2>1. \A i \in Jobs : status'[i] = "queued" => status[i] = "queued"
    BY <1>0, <1>5 DEF FinishJob, RowTypeOK
  <2> QED
    BY <1>5, <2>1 DEF FinishJob, Once, Fresh
<1>6. ASSUME UNCHANGED <<job, status, running, wrote>> PROVE Once'
  BY <1>6 DEF Once, Fresh
<1>7. ASSUME NEW b \in Bridges,
             Hello(b) \/ FallSilent(b) \/ PollBegin(b) \/ PollEnd(b)
               \/ \E k \in Kinds, x \in Books : PickBridge(b, k, x)
      PROVE  UNCHANGED <<job, status, running, wrote>>
  BY <1>7 DEF Hello, FallSilent, PollBegin, PollEnd, PickBridge, rowVars, workVars
<1>8. ASSUME NEW j \in Jobs,
             \/ Report(j) \/ ReportPending(j) \/ Lapse(j) \/ GrowOld(j)
             \/ \E a \in {"ok", "err"} : AckLost(j, a)
      PROVE  UNCHANGED <<job, status, running, wrote>>
  BY <1>8 DEF Report, ReportPending, Lapse, GrowOld, AckLost, rowVars, workVars
<1>9. UNCHANGED vars => UNCHANGED <<job, status, running, wrote>>
  BY DEF vars, rowVars, workVars
<1> QED
  BY <1>1, <1>2, <1>3, <1>4, <1>5, <1>6, <1>7, <1>8, <1>9 DEF Next

LEMMA OnceInvariant == Spec => []Once
<1>1. Init => Once
  BY InitOutcome
<1> QED
  BY TypeInvariant, <1>1, NextOnce, PTL DEF Spec

(* A confirmed write reaches the book at most once: once it was fetched,   *)
(* lease_jobs closes it instead of taking it back.                         *)
THEOREM ConfirmedAtMostOnce == Spec => []ConfirmedOnce
<1>1. Once => ConfirmedOnce
  BY DEF Once, ConfirmedOnce, Created
<1> QED
  BY OnceInvariant, <1>1, PTL

LEMMA NextTruthful == TypeInv /\ Once /\ Truthful /\ [Next]_vars => Truthful'
<1> SUFFICES ASSUME TypeInv, Once, Truthful, [Next]_vars PROVE Truthful'
    OBVIOUS
<1> USE DEF IsWrite
<1>0. RowTypeOK /\ WorkTypeOK /\ TypeOK /\ BridgeTypeOK
  BY DEF TypeInv, TypeOK
<1>1. ASSUME NEW b \in Bridges, LeaseTick(b) PROVE Truthful'
  <2>1. job' = job /\ acks' = acks /\ wrote' = wrote /\ said' = said
    BY <1>1 DEF LeaseTick
  <2>2. \A j \in Jobs : answer'[j] = answer[j] \/ (answer'[j] = "unacked" /\ job[j] # None)
    BY <1>1, SweptIsOpen DEF LeaseTick, Created
  <2> QED
    BY <2>1, <2>2 DEF Truthful
<1>2. ASSUME NEW j \in Jobs, Enqueue(j) PROVE Truthful'
  <2>1. job[j] = None /\ UNCHANGED <<acks, answer, wrote, said>>
    BY <1>2 DEF Enqueue, Created, workVars
  <2>2. \A i \in Jobs \ {j} : job'[i] = job[i]
    BY <1>0, <1>2 DEF Enqueue, RowTypeOK
  <2> QED
    BY <2>1, <2>2 DEF Truthful
<1>3. ASSUME NEW j \in Jobs, Work(j) PROVE Truthful'
  <2>1. UNCHANGED <<job, answer, said>>
    BY <1>3 DEF Work, rowVars
  <2>2. \A i \in Jobs \ {j} : acks'[i] = acks[i] /\ wrote'[i] = wrote[i]
    BY <1>0, <1>3 DEF Work, WorkTypeOK
  <2>3. wrote[j] \in Nat /\ wrote'[j] \in {wrote[j], wrote[j] + 1}
    BY <1>0, <1>3 DEF Work, WorkTypeOK
  <2>4. job[j] # None
    BY <1>3 DEF Work, Once, Fresh
  <2>5. job[j].kind # "query" /\ "ok" \in acks'[j] => "ok" \in acks[j] \/ wrote'[j] > 0
    BY <1>0, <1>3 DEF Work, WorkTypeOK
  <2> QED
    BY <2>1, <2>2, <2>3, <2>4, <2>5 DEF Truthful
<1>4. ASSUME NEW j \in Jobs, NEW a \in {"ok", "err"}, FinishJob(j, a) PROVE Truthful'
  <2>1. a \in acks[j] /\ UNCHANGED <<job, wrote, said>>
    BY <1>4 DEF FinishJob
  <2>2. \A i \in Jobs : acks'[i] \subseteq acks[i]
    BY <1>0, <1>4 DEF FinishJob, WorkTypeOK
  <2>3. \A i \in Jobs : answer'[i] = answer[i] \/ (i = j /\ answer'[i] = a)
    BY <1>0, <1>4 DEF FinishJob, RowTypeOK
  <2> QED
    BY <2>1, <2>2, <2>3 DEF Truthful
<1>5. ASSUME NEW j \in Jobs, NEW a \in {"ok", "err"}, AckLost(j, a) PROVE Truthful'
  <2>1. UNCHANGED <<job, answer, wrote, said>>
    BY <1>5 DEF AckLost, rowVars
  <2>2. \A i \in Jobs : acks'[i] \subseteq acks[i]
    BY <1>0, <1>5 DEF AckLost, WorkTypeOK
  <2> QED
    BY <2>1, <2>2 DEF Truthful
<1>6. ASSUME NEW j \in Jobs, Report(j) \/ ReportPending(j) PROVE Truthful'
  <2>1. j \in Created /\ job[j] # None /\ UNCHANGED <<job, answer, acks, wrote>>
    BY <1>6 DEF Report, ReportPending, Created, rowVars, workVars
  <2>2. \A i \in Jobs \ {j} : said'[i] = said[i]
    BY <1>0, <1>6 DEF Report, ReportPending, WorkTypeOK
  <2>3. said'[j] = "success" => answer[j] = "ok" /\ job[j].kind # "query"
    BY <1>0, <1>6 DEF Report, ReportPending, Verdict, WorkTypeOK
  <2> QED
    BY <2>1, <2>2, <2>3 DEF Truthful
<1>7. ASSUME UNCHANGED <<job, answer, acks, wrote, said>> PROVE Truthful'
  BY <1>7 DEF Truthful
<1>8. ASSUME NEW b \in Bridges,
             Hello(b) \/ FallSilent(b) \/ PollBegin(b) \/ PollEnd(b)
               \/ \E k \in Kinds, x \in Books : PickBridge(b, k, x)
      PROVE  UNCHANGED <<job, answer, acks, wrote, said>>
  BY <1>8 DEF Hello, FallSilent, PollBegin, PollEnd, PickBridge, rowVars, workVars
<1>9. ASSUME NEW j \in Jobs, WorkLost(j) \/ GiveUp(j) \/ Lapse(j) \/ GrowOld(j)
      PROVE  UNCHANGED <<job, answer, acks, wrote, said>>
  BY <1>9 DEF WorkLost, GiveUp, Lapse, GrowOld, rowVars, workVars
<1>10. UNCHANGED vars => UNCHANGED <<job, answer, acks, wrote, said>>
  BY DEF vars, rowVars, workVars
<1> QED
  BY <1>1, <1>2, <1>3, <1>4, <1>5, <1>6, <1>7, <1>8, <1>9, <1>10 DEF Next

LEMMA TruthInvariant == Spec => []Truthful
<1>1. Init => Truthful
  BY InitOutcome
<1> QED
  BY TypeInvariant, OnceInvariant, NextTruthful, <1>1, PTL DEF Spec

(* The steward reports a success only if the document is in the book: the  *)
(* answer of a done job is read, not its status alone.                     *)
THEOREM SuccessMeansWritten == Spec => []SuccessIsWritten
<1>1. Truthful => SuccessIsWritten
  BY DEF Truthful, SuccessIsWritten
<1> QED
  BY TruthInvariant, <1>1, PTL

-----------------------------------------------------------------------------
(* What a step may never do.                                               *)

(* lease_jobs alone hands out jobs, and only those in time.                *)
LEMMA StartInTime ==
    ASSUME TypeInv, [Next]_vars, NEW j \in Jobs, running'[j] > running[j]
    PROVE  ~overdue[j]
<1>0. TypeOK /\ NoLease /\ WorkTypeOK /\ running[j] \in Nat
  BY DEF TypeInv, TypeOK, WorkTypeOK
<1>1. PICK b \in Bridges : LeaseTick(b)
  <2>1. running' # running
    BY <1>0
  <2>2. ASSUME NEW i \in Jobs, Work(i) \/ WorkLost(i) PROVE FALSE
    <3>1. running' = [running EXCEPT ![i] = @ - 1]
      BY <2>2 DEF Work, WorkLost
    <3> QED
      BY <1>0, <3>1 DEF WorkTypeOK
  <2> QED
    BY <2>1, <2>2 DEF Next, vars, workVars, Hello, FallSilent, PollBegin, PollEnd,
       PickBridge, Enqueue, GiveUp, Report, ReportPending, Lapse, GrowOld, FinishJob, AckLost
<1> QED
  BY <1>0, <1>1, LeaseTickRow

(* Nothing past its time to live is handed to a bridge, not even by the    *)
(* transaction that takes it back from another delivery.                   *)
THEOREM NothingStartsLate == Spec => NoLateStart
<1>1. TypeInv /\ [Next]_vars => [\A j \in Jobs : running'[j] > running[j] => ~overdue[j]]_vars
  BY StartInTime
<1> QED
  BY TypeInvariant, <1>1, PTL DEF Spec, NoLateStart

LEMMA FinalIsFinal ==
    ASSUME TypeInv, [Next]_vars, NEW j \in Jobs, status[j] \in Final
    PROVE  status'[j] = status[j]
<1> USE DEF Final
<1>0. TypeOK /\ NoLease /\ RowTypeOK /\ Numbered
  BY DEF TypeInv, TypeOK
<1>1. ASSUME NEW b \in Bridges, LeaseTick(b) PROVE status'[j] = status[j]
  BY <1>0, <1>1, LeaseTickRow
<1>2. ASSUME NEW i \in Jobs, Enqueue(i) PROVE status'[j] = status[j]
  BY <1>0, <1>2 DEF Enqueue, Created, Numbered, RowTypeOK
<1>3. ASSUME NEW i \in Jobs, GiveUp(i) PROVE status'[j] = status[j]
  BY <1>0, <1>3 DEF GiveUp, Abandonable, RowTypeOK
<1>4. ASSUME NEW i \in Jobs, NEW a \in {"ok", "err"}, FinishJob(i, a)
      PROVE  status'[j] = status[j]
  BY <1>0, <1>4 DEF FinishJob, RowTypeOK
<1> QED
  BY <1>1, <1>2, <1>3, <1>4 DEF Next, vars, rowVars, Hello, FallSilent, PollBegin, PollEnd,
     PickBridge, Report, ReportPending, Work, WorkLost, Lapse, GrowOld, AckLost

(* A closed job stays closed: no late answer, sweep or impatient caller    *)
(* moves it again.                                                         *)
THEOREM ClosedForGood == Spec => ClosedStaysClosed
<1>1. TypeInv /\ [Next]_vars
        => [\A j \in Jobs : status[j] \in Final => status'[j] = status[j]]_vars
  BY FinalIsFinal
<1> QED
  BY TypeInvariant, <1>1, PTL DEF Spec, ClosedStaysClosed

-----------------------------------------------------------------------------
(* Every job is a delivery.                                                *)

LEMMA InitDelivery == ASSUME Init, NEW j \in Jobs PROVE Job(j)!Init
BY DEF Init, Job!Init, StateOf, ToldOf, Created

\* A step that leaves the row of j and the work on it alone does not show.
LEMMA Hidden ==
    ASSUME NEW j \in Jobs,
           UNCHANGED <<status[j], job[j], overdue[j], running[j], wrote[j], said[j]>>
    PROVE  UNCHANGED Job(j)!vars
BY DEF Job!vars, StateOf, ToldOf, Created

LEMMA SubmitShows ==
    ASSUME TypeInv, NEW j \in Jobs, NEW i \in Jobs, Enqueue(i)
    PROVE  UNCHANGED Job(j)!vars \/ Job(j)!Next
<1>0. RowTypeOK /\ Numbered
  BY DEF TypeInv, TypeOK
<1>1. CASE i # j
  <2>1. UNCHANGED <<status[j], job[j], overdue[j], running[j], wrote[j], said[j]>>
    BY <1>0, <1>1 DEF Enqueue, RowTypeOK, workVars
  <2> QED
    BY <2>1, Hidden
<1>2. CASE i = j
  <2>1. status[j] = "none" /\ status'[j] = "queued" /\ j \notin Created
    BY <1>0, <1>2 DEF Enqueue, Numbered, RowTypeOK, Created
  <2>2. UNCHANGED <<overdue, running, wrote, said>>
    BY DEF Enqueue, workVars
  <2>3. Job(j)!Submit
    BY <2>1, <2>2 DEF Job!Submit, StateOf, ToldOf
  <2> QED
    BY <2>3 DEF Job!Next
<1> QED
  BY <1>1, <1>2

LEMMA WorkShows ==
    ASSUME TypeInv, NEW j \in Jobs, NEW i \in Jobs, Work(i) \/ WorkLost(i)
    PROVE  UNCHANGED Job(j)!vars \/ Job(j)!Next
<1>0. WorkTypeOK
  BY DEF TypeInv, TypeOK
<1>1. UNCHANGED <<status, job, overdue, said>>
  BY DEF Work, WorkLost, rowVars
<1>2. CASE i # j
  <2>1. UNCHANGED <<running[j], wrote[j]>>
    BY <1>0, <1>2 DEF Work, WorkLost, WorkTypeOK
  <2> QED
    BY <1>1, <2>1, Hidden
<1>3. CASE i = j
  <2>1. running[j] > 0 /\ running'[j] = running[j] - 1
    BY <1>0, <1>3 DEF Work, WorkLost, WorkTypeOK
  <2>2. wrote'[j] \in {wrote[j], wrote[j] + 1}
    BY <1>0, <1>3 DEF Work, WorkLost, WorkTypeOK
  <2>3. Job(j)!End
    BY <1>1, <2>1, <2>2 DEF Job!End, StateOf, ToldOf, Created
  <2> QED
    BY <2>3 DEF Job!Next
<1> QED
  BY <1>2, <1>3

LEMMA CloseShows ==
    ASSUME TypeInv, NEW j \in Jobs, NEW i \in Jobs,
           GiveUp(i) \/ \E a \in {"ok", "err"} : FinishJob(i, a) \/ AckLost(i, a)
    PROVE  UNCHANGED Job(j)!vars \/ Job(j)!Next
<1>0. RowTypeOK
  BY DEF TypeInv, TypeOK
<1>1. UNCHANGED <<job, overdue, running, wrote, said>>
  BY DEF GiveUp, FinishJob, AckLost, workVars, rowVars
<1>2. CASE status'[j] = status[j]
  BY <1>1, <1>2, Hidden
<1>3. CASE status'[j] # status[j]
  <2>1. status[j] \in {"queued", "leased"} /\ status'[j] \in Final
    <3>1. CASE GiveUp(i)
      BY <1>0, <1>3, <3>1 DEF GiveUp, Abandonable, RowTypeOK, Final
    <3>2. ASSUME NEW a \in {"ok", "err"}, FinishJob(i, a)
          PROVE  status[j] \in {"queued", "leased"} /\ status'[j] \in Final
      BY <1>0, <1>3, <3>2 DEF FinishJob, RowTypeOK, Final
    <3>3. ASSUME NEW a \in {"ok", "err"}, AckLost(i, a) PROVE FALSE
      BY <1>3, <3>3 DEF AckLost, rowVars
    <3> QED
      BY <3>1, <3>2, <3>3
  <2>2. Job(j)!Close
    BY <1>1, <2>1 DEF Job!Close, Job!Closed, StateOf, ToldOf, Created, Final
  <2> QED
    BY <2>2 DEF Job!Next
<1> QED
  BY <1>2, <1>3

LEMMA AgeShows ==
    ASSUME TypeInv, NEW j \in Jobs, NEW i \in Jobs, Lapse(i) \/ GrowOld(i)
    PROVE  UNCHANGED Job(j)!vars \/ Job(j)!Next
<1>0. RowTypeOK
  BY DEF TypeInv, TypeOK
<1>1. UNCHANGED <<status, job, running, wrote, said>>
  BY DEF Lapse, GrowOld, workVars
<1>2. CASE overdue'[j] = overdue[j]
  BY <1>1, <1>2, Hidden
<1>3. CASE overdue'[j] # overdue[j]
  <2>1. i = j /\ status[j] \in {"queued", "leased"}
    BY <1>0, <1>3 DEF Lapse, GrowOld, RowTypeOK
  <2>2. ~overdue[j] /\ overdue'[j] = TRUE
    BY <1>0, <1>3, <2>1 DEF Lapse, GrowOld, RowTypeOK
  <2>3. Job(j)!GrowLate
    BY <1>1, <2>1, <2>2 DEF Job!GrowLate, StateOf, ToldOf, Created
  <2> QED
    BY <2>3 DEF Job!Next
<1> QED
  BY <1>2, <1>3

LEMMA ReportShows ==
    ASSUME TypeInv, Truthful, NEW j \in Jobs, NEW i \in Jobs, Report(i) \/ ReportPending(i)
    PROVE  UNCHANGED Job(j)!vars \/ Job(j)!Next
<1>0. RowTypeOK /\ WorkTypeOK
  BY DEF TypeInv, TypeOK
<1>1. UNCHANGED <<status, job, overdue, running, wrote>>
  BY DEF Report, ReportPending, rowVars, workVars
<1>2. CASE i # j
  <2>1. said'[j] = said[j]
    BY <1>0, <1>2 DEF Report, ReportPending, WorkTypeOK
  <2> QED
    BY <1>1, <2>1, Hidden
<1>3. CASE i = j
  <2>1. said[j] = "none" /\ job[j] # None /\ IsWrite(j)
    BY <1>3 DEF Report, ReportPending, Created
  <2>2. CASE Report(i)
    <3>1. said'[j] = Verdict(j) /\ status[j] \in Final
      BY <1>0, <1>3, <2>2 DEF Report, WorkTypeOK
    <3>2. Verdict(j) \in {"success", "uncertain", "expired", "failed"}
      BY DEF Verdict
    <3>3. Verdict(j) = "success" => status[j] = "done" /\ wrote[j] > 0
      BY <2>1 DEF Verdict, Truthful
    <3>4. Job(j)!Tell
      BY <1>1, <2>1, <3>1, <3>2, <3>3
         DEF Job!Tell, Job!Closed, StateOf, ToldOf, Created, Final
    <3> QED
      BY <3>4 DEF Job!Next
  <2>3. CASE ReportPending(i)
    <3>1. /\ said'[j] = "pending" /\ overdue[j]
          /\ status[j] \in {"queued", "leased"}
      <4>1. said'[j] = "pending" /\ overdue[j] /\ status[j] \notin Final
        BY <1>0, <1>3, <2>3 DEF ReportPending, WorkTypeOK
      <4>2. status[j] # "none"
        BY <2>1 DEF TypeInv, Numbered
      <4> QED
        BY <1>0, <4>1, <4>2 DEF RowTypeOK
    <3>2. Job(j)!Tell
      BY <1>1, <2>1, <3>1 DEF Job!Tell, StateOf, ToldOf, Created
    <3> QED
      BY <3>2 DEF Job!Next
  <2> QED
    BY <2>2, <2>3
<1> QED
  BY <1>2, <1>3

LEMMA LeaseShows ==
    ASSUME TypeInv, Once, NEW j \in Jobs, NEW b \in Bridges, LeaseTick(b)
    PROVE  UNCHANGED Job(j)!vars \/ Job(j)!Next
<1>0. TypeOK /\ NoLease
  BY DEF TypeInv
<1>1. UNCHANGED <<job, overdue, wrote, said>>
  BY DEF LeaseTick
<1> DEFINE open == status[j] \in {"queued", "leased"}
<1>2. CASE status'[j] = status[j] /\ running'[j] = running[j]
  BY <1>1, <1>2, Hidden
<1>3. CASE open /\ status'[j] = "expired" /\ running'[j] = running[j]
  <2>1. Job(j)!Close
    BY <1>1, <1>3 DEF Job!Close, Job!Closed, StateOf, ToldOf, Created
  <2> QED
    BY <2>1 DEF Job!Next
<1>4. CASE open /\ status'[j] = "queued" /\ running'[j] = running[j]
  BY <1>1, <1>4 DEF Job!vars, StateOf, ToldOf, Created
<1>5. CASE /\ j \in Created /\ ~overdue[j] /\ status'[j] = "leased"
           /\ status[j] = "queued" \/ (status[j] = "leased" /\ job[j].kind # "confirmed")
           /\ running'[j] = running[j] + 1
  <2>1. job[j].kind = "confirmed" => running[j] = 0 /\ wrote[j] = 0
    BY <1>5 DEF Once, Fresh, Created
  <2>2. Job(j)!Start
    BY <1>1, <1>5, <2>1 DEF Job!Start, StateOf, ToldOf, Created
  <2> QED
    BY <2>2 DEF Job!Next
<1> QED
  BY <1>0, <1>2, <1>3, <1>4, <1>5, LeaseTickRow

LEMMA DeliveryStep ==
    ASSUME TypeInv, Once, Truthful, [Next]_vars, NEW j \in Jobs
    PROVE  UNCHANGED Job(j)!vars \/ Job(j)!Next
<1>1. ASSUME \/ UNCHANGED vars
             \/ \E b \in Bridges :
                   \/ Hello(b) \/ FallSilent(b) \/ PollBegin(b) \/ PollEnd(b)
                   \/ \E k \in Kinds, x \in Books : PickBridge(b, k, x)
      PROVE  UNCHANGED Job(j)!vars
  <2>1. UNCHANGED <<rowVars, workVars, said>>
    BY <1>1 DEF Hello, FallSilent, PollBegin, PollEnd, PickBridge, vars
  <2> QED
    BY <2>1, Hidden DEF rowVars, workVars
<1> QED
  BY <1>1, SubmitShows, WorkShows, CloseShows, AgeShows, ReportShows, LeaseShows DEF Next

(* To its submitter every job is a delivery, whatever the bridges do and   *)
(* whatever is lost, late, repeated, swept or given up.                    *)
THEOREM JobIsDelivery == ASSUME NEW j \in Jobs PROVE Spec => Job(j)!Spec
<1>1. Init => Job(j)!Init
  BY InitDelivery
<1>2. TypeInv /\ Once /\ Truthful /\ [Next]_vars => [Job(j)!Next]_(Job(j)!vars)
  BY DeliveryStep
<1> QED
  BY <1>1, <1>2, TypeInvariant, OnceInvariant, TruthInvariant, PTL DEF Spec, Job!Spec

(* The same of all the jobs of one behaviour, in the form TLC checks: a    *)
(* step that shows in some jobs is a step of the delivery of each of them. *)
THEOREM DeliveriesKept == Spec => JobsAreDeliveries
<1>1. Init => \A j \in Jobs : Job(j)!Init
  BY InitDelivery
<1>2. TypeInv /\ Once /\ Truthful /\ [Next]_vars
        => [\A j \in Jobs : UNCHANGED Job(j)!vars \/ Job(j)!Next]_vars
  BY DeliveryStep
<1> QED
  BY <1>1, <1>2, TypeInvariant, OnceInvariant, TruthInvariant, PTL DEF Spec, JobsAreDeliveries

=============================================================================
