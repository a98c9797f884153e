--------------------------- MODULE JobQueueProofs ---------------------------
(***************************************************************************)
(* What holds of JobQueue for any jobs, threads, processes and number of   *)
(* attempts.  Only PausedKept and OutcomeStands need max_attempts = 1, the *)
(* value every caller of enqueue gives.                                    *)
(***************************************************************************)
EXTENDS JobQueue, FiniteSetTheorems, TLAPS

LEMMA Instance ==
    /\ IsFiniteSet(Workers) /\ ProcOf \in [Workers -> Procs]
    /\ MaxAttempts \in Nat \ {0} /\ MaxFaults \in Nat
    /\ MayPause \in BOOLEAN /\ DbErrors \in BOOLEAN /\ None \notin Jobs
BY QueueAssumption DEF QueueAssumption

-----------------------------------------------------------------------------
(* Types.  A row that may be claimed has attempts left. *)

Claimable ==
    \A j \in Jobs :
        /\ status[j] = "absent" => attempts[j] = 0
        /\ status[j] = "queued" => attempts[j] < MaxAttempts

TInv == TypeOK /\ Claimable

LEMMA TypeParts == TypeOK <=> RowTypeOK /\ DirTypeOK /\ RunTypeOK /\ WorkTypeOK
BY DEF TypeOK

LEMMA Held ==
    ASSUME RunTypeOK, NEW w \in Workers, pc[w] # "idle" PROVE at[w] \in Jobs
BY DEF RunTypeOK

LEMMA GotoRuns ==
    ASSUME RunTypeOK, NEW w \in Workers, NEW from, NEW to \in Pc \ {"idle"},
           "idle" \notin from, Goto(w, from, to), faults' = faults
    PROVE  RunTypeOK'
BY DEF Goto, Set, RunTypeOK

LEMMA InitType == Init => TInv
<1> SUFFICES ASSUME Init PROVE TInv
    OBVIOUS
<1>1. RowTypeOK /\ DirTypeOK /\ RunTypeOK /\ WorkTypeOK
  BY Instance DEF Init, RowTypeOK, DirTypeOK, RunTypeOK, WorkTypeOK, Pc, Closed, Terminal
<1>2. Claimable
  BY Instance DEF Init, Claimable
<1> QED
  BY <1>1, <1>2 DEF TInv, TypeOK

\* What a statement on the row of a job leaves in order.
LEMMA RowStep ==
    ASSUME RowTypeOK, Claimable, NEW j \in Jobs,
           NEW s \in {"running"} \cup Closed \cup {"queued"},
           s = "queued" => attempts[j] < MaxAttempts,
           NEW l \in {"none", "live", "over"},
           status' = Set(status, j, s), lease' = Set(lease, j, l),
           UNCHANGED <<attempts, created>>
    PROVE  RowTypeOK' /\ Claimable'
<1>1. \A i \in Jobs : status'[i] = IF i = j THEN s ELSE status[i]
  BY DEF RowTypeOK, Set
<1>2. RowTypeOK'
  BY DEF RowTypeOK, Set
<1> QED
  BY <1>1, <1>2 DEF Claimable, Closed, Terminal

LEMMA LeaseStep ==
    ASSUME RowTypeOK, Claimable, NEW j \in Jobs, lease' = Renewed(j),
           UNCHANGED <<status, attempts, created>>
    PROVE  RowTypeOK' /\ Claimable'
BY DEF RowTypeOK, Claimable, Renewed, Set

LEMMA InsertStep ==
    ASSUME RowTypeOK, Claimable, NEW j \in Jobs, status[j] = "absent", Insert(j),
           UNCHANGED <<attempts, lease>>
    PROVE  RowTypeOK' /\ Claimable'
<1>1. RowTypeOK'
  BY DEF RowTypeOK, Insert, Set
<1>2. \A i \in Jobs : status'[i] = IF i = j THEN "queued" ELSE status[i]
  BY DEF RowTypeOK, Insert, Set
<1> QED
  BY <1>1, <1>2, Instance DEF Claimable

LEMMA SameRow ==
    ASSUME RowTypeOK, Claimable, UNCHANGED rowVars PROVE RowTypeOK' /\ Claimable'
BY DEF RowTypeOK, Claimable, rowVars

LEMMA SameRuns ==
    ASSUME RunTypeOK, UNCHANGED <<at, pc>>, faults' \in 0..MaxFaults PROVE RunTypeOK'
BY DEF RunTypeOK

LEMMA NextType == TInv /\ [Next]_vars => TInv'
<1> SUFFICES ASSUME TInv, [Next]_vars PROVE TInv'
    OBVIOUS
<1>0. RowTypeOK /\ Claimable /\ DirTypeOK /\ RunTypeOK /\ WorkTypeOK
  BY DEF TInv, TypeOK
<1> SUFFICES /\ RowTypeOK' /\ Claimable'
             /\ DirTypeOK' /\ RunTypeOK' /\ WorkTypeOK'
    BY DEF TInv, TypeOK
<1> USE <1>0, Instance DEF dirVars, sweepVars, runVars, workVars
<1> DEFINE TGoal == RowTypeOK' /\ Claimable' /\ DirTypeOK' /\ RunTypeOK' /\ WorkTypeOK'
<1>1. ASSUME NEW j \in Jobs, RouteStep(j) PROVE TGoal
  <2>1. CASE Submit(j)
    <3>1. RowTypeOK' /\ Claimable'
      BY <2>1, InsertStep DEF Submit, Fresh
    <3> QED
      BY <2>1, <3>1 DEF Submit, Set, DirTypeOK, RunTypeOK, WorkTypeOK
  <2>2. CASE SubmitLost(j)
    <3>1. RowTypeOK' /\ Claimable'
      BY <2>2, SameRow DEF SubmitLost
    <3>2. DirTypeOK' /\ WorkTypeOK'
      BY <2>2 DEF SubmitLost, Set, DirTypeOK, WorkTypeOK
    <3>3. RunTypeOK'
      BY <2>2 DEF SubmitLost, RunTypeOK
    <3> QED
      BY <3>1, <3>2, <3>3
  <2>3. CASE Confirm(j)
    <3>1. RowTypeOK' /\ Claimable'
      BY <2>3, InsertStep DEF Confirm
    <3> QED
      BY <2>3, <3>1 DEF Confirm, Set, DirTypeOK, RunTypeOK, WorkTypeOK
  <2>4. CASE ConfirmFails(j)
    <3>1. RowTypeOK' /\ Claimable'
      BY <2>4, SameRow DEF ConfirmFails
    <3> QED
      BY <2>4, <3>1 DEF ConfirmFails, Set, DirTypeOK, RunTypeOK, WorkTypeOK
  <2>5. ASSUME NEW k \in Jobs, CopyFiles(j, k) PROVE TGoal
    <3>1. RowTypeOK' /\ Claimable'
      BY <2>5, SameRow DEF CopyFiles
    <3> QED
      BY <2>5, <3>1 DEF CopyFiles, Set, DirTypeOK, RunTypeOK, WorkTypeOK
  <2> QED
    BY <1>1, <2>1, <2>2, <2>3, <2>4, <2>5 DEF RouteStep
<1>2. ASSUME NEW j \in Jobs, LeaseEnds(j) PROVE TGoal
  BY <1>2 DEF LeaseEnds, Set, RowTypeOK, Claimable, DirTypeOK, RunTypeOK, WorkTypeOK
<1>3. ASSUME NEW j \in Jobs, Sweep(j) PROVE TGoal
  <2>1. RowTypeOK' /\ Claimable'
    BY <1>3, SameRow DEF Sweep
  <2> QED
    BY <1>3, <2>1 DEF Sweep, Set, DirTypeOK, RunTypeOK, WorkTypeOK
<1>4. ASSUME NEW w \in Workers, Claim(w) PROVE TGoal
  <2>1. PICK j \in Jobs :
            /\ pc[w] = "idle" /\ Oldest(j)
            /\ status' = Set(status, j, "running") /\ lease' = Set(lease, j, "live")
            /\ attempts' = Count(attempts, j)
            /\ at' = Set(at, w, j) /\ pc' = Set(pc, w, "claimed")
            /\ UNCHANGED <<created, dirVars, workVars, faults>>
    BY <1>4 DEF Claim
  <2>2. attempts[j] < MaxAttempts
    BY <2>1 DEF Oldest, Claimable
  <2>3. RowTypeOK'
    BY <2>1, <2>2 DEF RowTypeOK, Set, Count
  <2>4. \A i \in Jobs : i # j => attempts'[i] = attempts[i] /\ status'[i] = status[i]
    BY <2>1 DEF RowTypeOK, Set, Count
  <2>5. status'[j] = "running"
    BY <2>1 DEF RowTypeOK, Set
  <2>6. Claimable'
    BY <2>4, <2>5 DEF Claimable
  <2>7. RunTypeOK'
    BY <2>1 DEF RunTypeOK, Set, Pc
  <2> QED
    BY <2>1, <2>3, <2>6, <2>7 DEF DirTypeOK, WorkTypeOK
<1>5. ASSUME NEW w \in Workers, Begin(w) PROVE TGoal
  <2>1. pc[w] = "claimed"
    BY <1>5 DEF Begin, Goto
  <2>2. at[w] \in Jobs
    BY <2>1, Held
  <2>3. RowTypeOK' /\ Claimable'
    BY <1>5, <2>2, LeaseStep DEF Begin
  <2>4. RunTypeOK'
    BY <1>5, GotoRuns DEF Begin, Pc
  <2> QED
    BY <1>5, <2>2, <2>3, <2>4 DEF Begin, Count, DirTypeOK, WorkTypeOK
<1>6. ASSUME NEW w \in Workers, Progress(w) PROVE TGoal
  <2>1. at[w] \in Jobs
    BY <1>6, Held DEF Progress
  <2>2. RowTypeOK' /\ Claimable'
    BY <1>6, <2>1, LeaseStep DEF Progress
  <2> QED
    BY <1>6, <2>2 DEF Progress, DirTypeOK, RunTypeOK, WorkTypeOK
<1>7. ASSUME NEW w \in Workers, Parse(w) PROVE TGoal
  <2>1. at[w] \in Jobs
    BY <1>7, Held DEF Parse, Goto
  <2>2. RowTypeOK' /\ Claimable'
    BY <1>7, SameRow DEF Parse
  <2>3. RunTypeOK'
    BY <1>7, GotoRuns DEF Parse, Pc
  <2> QED
    BY <1>7, <2>1, <2>2, <2>3 DEF Parse, Count, DirTypeOK, WorkTypeOK
<1>8. ASSUME NEW w \in Workers, Store(w) PROVE TGoal
  <2>1. at[w] \in Jobs
    BY <1>8, Held DEF Store, Goto
  <2>2. RowTypeOK' /\ Claimable'
    BY <1>8, SameRow DEF Store
  <2>3. RunTypeOK'
    BY <1>8, GotoRuns DEF Store, Pc
  <2> QED
    BY <1>8, <2>1, <2>2, <2>3 DEF Store, Count, DirTypeOK, WorkTypeOK
<1>9. ASSUME NEW w \in Workers, Return(w) PROVE TGoal
  <2>1. RowTypeOK' /\ Claimable'
    BY <1>9, SameRow DEF Return
  <2>2. RunTypeOK'
    BY <1>9, GotoRuns DEF Return, Pc
  <2> QED
    BY <1>9, <2>1, <2>2 DEF Return, DirTypeOK, WorkTypeOK
<1>10. ASSUME NEW w \in Workers, Report(w) PROVE TGoal
  <2>1. pc[w] \in {"saved", "refused", "raised", "review", "mapping"}
    BY <1>10 DEF Report, Goto
  <2>2. at[w] \in Jobs
    BY <2>1, Held
  <2>3. /\ Written(w) \in {"running"} \cup Closed \cup {"queued"}
        /\ Written(w) = "queued" => attempts[at[w]] < MaxAttempts
    BY <2>1 DEF Written, Requeued, Closed, Terminal
  <2>4. RowTypeOK' /\ Claimable'
    <3>1. CASE /\ status' = Set(status, at[w], Written(w))
               /\ lease' = Set(lease, at[w], "none")
      BY <3>1, <1>10, <2>2, <2>3, RowStep DEF Report
    <3>2. CASE UNCHANGED <<status, lease>>
      BY <3>2, <1>10, SameRow DEF Report, rowVars
    <3> QED
      BY <1>10, <3>1, <3>2 DEF Report
  <2>5. RunTypeOK'
    BY <1>10, GotoRuns DEF Report, After, Pc
  <2> QED
    BY <1>10, <2>4, <2>5 DEF Report, DirTypeOK, WorkTypeOK
<1>11. ASSUME NEW w \in Workers, Leave(w) PROVE TGoal
  <2>1. at[w] \in Jobs
    BY <1>11, Held DEF Leave
  <2>2. RowTypeOK' /\ Claimable'
    BY <1>11, SameRow DEF Leave
  <2>3. DirTypeOK'
    BY <1>11, <2>1 DEF Leave, Set, DirTypeOK
  <2>4. RunTypeOK'
    BY <1>11 DEF Leave, Set, RunTypeOK, Pc
  <2> QED
    BY <1>11, <2>2, <2>3, <2>4 DEF Leave, WorkTypeOK
<1>12. ASSUME NEW p \in Procs, Crash(p) PROVE TGoal
  <2>1. RowTypeOK' /\ Claimable'
    BY <1>12, SameRow DEF Crash
  <2>2. RunTypeOK'
    BY <1>12 DEF Crash, RunTypeOK, Pc
  <2> QED
    BY <1>12, <2>1, <2>2 DEF Crash, DirTypeOK, WorkTypeOK
<1>13. ASSUME ReclaimStale PROVE TGoal
  <2>1. \A j \in Jobs : \/ status'[j] = status[j]
                        \/ status'[j] = "queued" /\ attempts[j] < MaxAttempts
                        \/ status'[j] = "failed"
    BY <1>13 DEF ReclaimStale, Requeued
  <2>2. RowTypeOK'
    BY <1>13 DEF ReclaimStale, Requeued, RowTypeOK, Closed, Terminal
  <2>3. Claimable'
    BY <1>13, <2>1 DEF ReclaimStale, Claimable
  <2> QED
    BY <1>13, <2>2, <2>3 DEF ReclaimStale, DirTypeOK, RunTypeOK, WorkTypeOK
<1>14. ASSUME UNCHANGED vars PROVE TGoal
  <2>1. RowTypeOK' /\ Claimable'
    BY <1>14, SameRow DEF vars
  <2> QED
    BY <1>14, <2>1 DEF vars, DirTypeOK, RunTypeOK, WorkTypeOK
<1>15. ASSUME NEW j \in Jobs, Look(j) PROVE TGoal
  <2>1. RowTypeOK' /\ Claimable'
    BY <1>15, SameRow DEF Look, Doom
  <2> QED
    BY <1>15, <2>1 DEF Look, Doom, Old, Needed, DirTypeOK, RunTypeOK, WorkTypeOK
<1>16. ASSUME LookFails PROVE TGoal
  <2>1. PICK dirs \in SUBSET Old : Doom(dirs) /\ faults < MaxFaults /\ faults' = faults + 1
    BY <1>16 DEF LookFails
  <2>2. RowTypeOK' /\ Claimable'
    BY <2>1, SameRow DEF Doom
  <2>3. dirs \subseteq Jobs
    BY DEF Old
  <2>4. RunTypeOK'
    BY <2>1 DEF Doom, RunTypeOK
  <2> QED
    BY <2>1, <2>2, <2>3, <2>4 DEF Doom, DirTypeOK, WorkTypeOK
<1> QED
  BY <1>1, <1>2, <1>3, <1>4, <1>5, <1>6, <1>7, <1>8, <1>9, <1>10, <1>11, <1>12, <1>13, <1>14,
     <1>15, <1>16
     DEF Next, ThreadStep

\* (TypeOK.)  No row is claimed more often than max_attempts allows, however
\* often leases end and threads return late (claim_next, fail, reclaim_stale).
THEOREM TypeCorrect == Spec => []TypeOK
<1>1. TInv => TypeOK
  BY DEF TInv
<1> QED
  BY <1>1, InitType, NextType, PTL DEF Spec

-----------------------------------------------------------------------------
(* Counting.  Every claim is one run at most, every run one charge and one *)
(* stored result at most: the threads between the two are counted with     *)
(* the smaller side.                                                       *)

Holders(j, stages) == {w \in Workers : at[w] = j /\ pc[w] \in stages}
Number(j, stages)  == Cardinality(Holders(j, stages))

Counted ==
    \A j \in Jobs :
        /\ runs[j] + Number(j, {"claimed"}) <= attempts[j]
        /\ charged[j] + Number(j, {"working"}) <= runs[j]
        /\ saved[j] + Number(j, {"working", "parsed"}) <= runs[j]

LEMMA HoldersFinite ==
    \A j, stages : IsFiniteSet(Holders(j, stages)) /\ Number(j, stages) \in Nat
<1> SUFFICES ASSUME NEW j, NEW stages
             PROVE  IsFiniteSet(Holders(j, stages)) /\ Number(j, stages) \in Nat
    OBVIOUS
<1>1. Holders(j, stages) \in SUBSET Workers
  BY DEF Holders
<1> QED
  BY <1>1, Instance, FS_Subset, FS_CardinalityType DEF Number

LEMMA HoldersFinitePrimed ==
    \A j, stages : IsFiniteSet(Holders(j, stages)') /\ Number(j, stages)' \in Nat
<1> SUFFICES ASSUME NEW j, NEW stages
             PROVE  IsFiniteSet(Holders(j, stages)') /\ Number(j, stages)' \in Nat
    OBVIOUS
<1>1. Holders(j, stages)' \in SUBSET Workers
  BY DEF Holders
<1> QED
  BY <1>1, Instance, FS_Subset, FS_CardinalityType DEF Number

\* Threads that only leave the stages, one that leaves, one that enters.
LEMMA NoMore ==
    ASSUME NEW j, NEW stages, Holders(j, stages)' \subseteq Holders(j, stages)
    PROVE  Number(j, stages)' <= Number(j, stages)
BY HoldersFinite, FS_Subset DEF Number

LEMMA OneLess ==
    ASSUME NEW j, NEW stages, NEW w, w \in Holders(j, stages),
           Holders(j, stages)' \subseteq Holders(j, stages) \ {w}
    PROVE  Number(j, stages)' + 1 <= Number(j, stages)
<1>1. /\ IsFiniteSet(Holders(j, stages) \ {w})
      /\ Cardinality(Holders(j, stages) \ {w}) = Number(j, stages) - 1
  BY HoldersFinite, FS_RemoveElement DEF Number
<1>2. Number(j, stages)' <= Number(j, stages) - 1
  BY <1>1, FS_Subset DEF Number
<1> QED
  BY <1>2, HoldersFinite, HoldersFinitePrimed

LEMMA OneMore ==
    ASSUME NEW j, NEW stages, NEW w,
           Holders(j, stages)' \subseteq Holders(j, stages) \cup {w}
    PROVE  Number(j, stages)' <= Number(j, stages) + 1
<1>1. /\ IsFiniteSet(Holders(j, stages) \cup {w})
      /\ \/ Cardinality(Holders(j, stages) \cup {w}) = Number(j, stages)
         \/ Cardinality(Holders(j, stages) \cup {w}) = Number(j, stages) + 1
  BY HoldersFinite, FS_AddElement DEF Number
<1>2. Number(j, stages)' <= Cardinality(Holders(j, stages) \cup {w})
  BY <1>1, FS_Subset DEF Number
<1> QED
  BY <1>1, <1>2, HoldersFinite, HoldersFinitePrimed

LEMMA InitCounted == Init => Counted
<1> SUFFICES ASSUME Init PROVE Counted
    OBVIOUS
<1>1. ASSUME NEW j \in Jobs, NEW stages PROVE Number(j, stages) = 0
  <2>1. Holders(j, stages) = {}
    BY <1>1, Instance DEF Init, Holders
  <2> QED
    BY <2>1, FS_EmptySet DEF Number
<1> QED
  BY <1>1 DEF Init, Counted

\* A step that starts no run, claims, charges and stores nothing, and in
\* which threads only leave their stages.
LEMMA CountedKept ==
    ASSUME TypeOK, Counted, UNCHANGED <<attempts, workVars>>,
           \A j \in Jobs : \A stages \in {{"claimed"}, {"working"}, {"working", "parsed"}} :
               Holders(j, stages)' \subseteq Holders(j, stages)
    PROVE  Counted'
<1> SUFFICES ASSUME NEW j \in Jobs
             PROVE  /\ runs'[j] + Number(j, {"claimed"})' <= attempts'[j]
                    /\ charged'[j] + Number(j, {"working"})' <= runs'[j]
                    /\ saved'[j] + Number(j, {"working", "parsed"})' <= runs'[j]
    BY DEF Counted
<1>1. /\ Number(j, {"claimed"})' <= Number(j, {"claimed"})
      /\ Number(j, {"working"})' <= Number(j, {"working"})
      /\ Number(j, {"working", "parsed"})' <= Number(j, {"working", "parsed"})
  BY NoMore
<1>2. /\ attempts[j] \in Nat /\ runs[j] \in Nat /\ charged[j] \in Nat /\ saved[j] \in Nat
  BY Instance DEF TypeOK, RowTypeOK, WorkTypeOK
<1> QED
  BY <1>1, <1>2, HoldersFinite, HoldersFinitePrimed DEF Counted, workVars

LEMMA NextCounted == TypeOK /\ Counted /\ [Next]_vars => Counted'
<1> SUFFICES ASSUME TypeOK, Counted, [Next]_vars PROVE Counted'
    OBVIOUS
<1>0. \A j \in Jobs : attempts[j] \in Nat /\ runs[j] \in Nat /\ charged[j] \in Nat /\ saved[j] \in Nat
  BY Instance DEF TypeOK, RowTypeOK, WorkTypeOK
<1>r. RunTypeOK
  BY DEF TypeOK
<1>1. ASSUME NEW w \in Workers, Claim(w) PROVE Counted'
  <2>1. PICK j \in Jobs :
            /\ pc[w] = "idle"
            /\ attempts' = Count(attempts, j)
            /\ at' = Set(at, w, j) /\ pc' = Set(pc, w, "claimed")
            /\ UNCHANGED workVars
    BY <1>1 DEF Claim
  <2> SUFFICES ASSUME NEW i \in Jobs
               PROVE  /\ runs'[i] + Number(i, {"claimed"})' <= attempts'[i]
                      /\ charged'[i] + Number(i, {"working"})' <= runs'[i]
                      /\ saved'[i] + Number(i, {"working", "parsed"})' <= runs'[i]
      BY DEF Counted
  <2>2. /\ Holders(i, {"working"})' \subseteq Holders(i, {"working"})
        /\ Holders(i, {"working", "parsed"})' \subseteq Holders(i, {"working", "parsed"})
    BY <2>1, <1>r DEF Holders, Set, RunTypeOK
  <2>3. /\ Number(i, {"working"})' <= Number(i, {"working"})
        /\ Number(i, {"working", "parsed"})' <= Number(i, {"working", "parsed"})
    BY <2>2, NoMore
  <2>4. runs'[i] + Number(i, {"claimed"})' <= attempts'[i]
    <3>1. CASE i = j
      <4>1. Holders(i, {"claimed"})' \subseteq Holders(i, {"claimed"}) \cup {w}
        BY <2>1, <1>r DEF Holders, Set, RunTypeOK
      <4>2. Number(i, {"claimed"})' <= Number(i, {"claimed"}) + 1
        BY <4>1, OneMore
      <4>3. attempts'[i] = attempts[i] + 1
        BY <2>1, <3>1 DEF Count, TypeOK, RowTypeOK
      <4> QED
        BY <1>0, <2>1, <4>2, <4>3, HoldersFinite, HoldersFinitePrimed DEF Counted, workVars
    <3>2. CASE i # j
      <4>1. Holders(i, {"claimed"})' \subseteq Holders(i, {"claimed"})
        BY <2>1, <3>2, <1>r DEF Holders, Set, RunTypeOK
      <4>2. Number(i, {"claimed"})' <= Number(i, {"claimed"})
        BY <4>1, NoMore
      <4>3. attempts'[i] = attempts[i]
        BY <2>1, <3>2 DEF Count, TypeOK, RowTypeOK
      <4> QED
        BY <1>0, <2>1, <4>2, <4>3, HoldersFinite, HoldersFinitePrimed DEF Counted, workVars
    <3> QED
      BY <3>1, <3>2
  <2> QED
    BY <1>0, <2>1, <2>3, <2>4, HoldersFinite, HoldersFinitePrimed DEF Counted, workVars
<1>2. ASSUME NEW w \in Workers, Begin(w) PROVE Counted'
  <2>1. PICK to \in {"working", "refused", "raised"} :
            pc[w] = "claimed" /\ pc' = Set(pc, w, to) /\ at' = at
    BY <1>2 DEF Begin, Goto
  <2>2. at[w] \in Jobs /\ runs' = Count(runs, at[w]) /\ UNCHANGED <<attempts, charged, saved>>
    BY <1>2, <1>r, <2>1, Held DEF Begin
  <2> SUFFICES ASSUME NEW i \in Jobs
               PROVE  /\ runs'[i] + Number(i, {"claimed"})' <= attempts'[i]
                      /\ charged'[i] + Number(i, {"working"})' <= runs'[i]
                      /\ saved'[i] + Number(i, {"working", "parsed"})' <= runs'[i]
      BY DEF Counted
  <2>3. CASE i = at[w]
    <3>1. w \in Holders(i, {"claimed"})
      BY <2>1, <2>3 DEF Holders
    <3>2. Holders(i, {"claimed"})' \subseteq Holders(i, {"claimed"}) \ {w}
      BY <2>1, <1>r DEF Holders, Set, RunTypeOK
    <3>3. Number(i, {"claimed"})' + 1 <= Number(i, {"claimed"})
      BY <3>1, <3>2, OneLess
    <3>4. /\ Holders(i, {"working"})' \subseteq Holders(i, {"working"}) \cup {w}
          /\ Holders(i, {"working", "parsed"})' \subseteq Holders(i, {"working", "parsed"}) \cup {w}
      BY <2>1, <1>r DEF Holders, Set, RunTypeOK
    <3>5. /\ Number(i, {"working"})' <= Number(i, {"working"}) + 1
          /\ Number(i, {"working", "parsed"})' <= Number(i, {"working", "parsed"}) + 1
      BY <3>4, OneMore
    <3>6. runs'[i] = runs[i] + 1
      BY <2>2, <2>3 DEF Count, TypeOK, WorkTypeOK
    <3> QED
      BY <1>0, <2>2, <3>3, <3>5, <3>6, HoldersFinite, HoldersFinitePrimed DEF Counted
  <2>4. CASE i # at[w]
    <3>1. \A stages : Holders(i, stages)' \subseteq Holders(i, stages)
      BY <2>1, <2>4, <1>r DEF Holders, Set, RunTypeOK
    <3>2. \A stages : Number(i, stages)' <= Number(i, stages)
      BY <3>1, NoMore
    <3>3. runs'[i] = runs[i]
      BY <2>2, <2>4 DEF Count, TypeOK, WorkTypeOK
    <3> QED
      BY <1>0, <2>2, <3>2, <3>3, HoldersFinite, HoldersFinitePrimed DEF Counted
  <2> QED
    BY <2>3, <2>4
<1>3. ASSUME NEW w \in Workers, Parse(w) PROVE Counted'
  <2>1. pc[w] = "working" /\ pc' = Set(pc, w, "parsed") /\ at' = at
    BY <1>3 DEF Parse, Goto
  <2>2. /\ at[w] \in Jobs /\ UNCHANGED <<attempts, runs, saved>>
        /\ charged' = charged \/ charged' = Count(charged, at[w])
    BY <1>3, <1>r, <2>1, Held DEF Parse, rowVars
  <2> SUFFICES ASSUME NEW i \in Jobs
               PROVE  /\ runs'[i] + Number(i, {"claimed"})' <= attempts'[i]
                      /\ charged'[i] + Number(i, {"working"})' <= runs'[i]
                      /\ saved'[i] + Number(i, {"working", "parsed"})' <= runs'[i]
      BY DEF Counted
  <2>3. /\ Holders(i, {"claimed"})' \subseteq Holders(i, {"claimed"})
        /\ Holders(i, {"working"})' \subseteq Holders(i, {"working"})
        /\ Holders(i, {"working", "parsed"})' \subseteq Holders(i, {"working", "parsed"})
    BY <2>1, <1>r DEF Holders, Set, RunTypeOK
  <2>4. /\ Number(i, {"claimed"})' <= Number(i, {"claimed"})
        /\ Number(i, {"working"})' <= Number(i, {"working"})
        /\ Number(i, {"working", "parsed"})' <= Number(i, {"working", "parsed"})
    BY <2>3, NoMore
  <2>5. charged'[i] + Number(i, {"working"})' <= runs'[i]
    <3>1. CASE i = at[w]
      <4>1. w \in Holders(i, {"working"})
        BY <2>1, <3>1 DEF Holders
      <4>2. Holders(i, {"working"})' \subseteq Holders(i, {"working"}) \ {w}
        BY <2>1, <1>r DEF Holders, Set, RunTypeOK
      <4>3. Number(i, {"working"})' + 1 <= Number(i, {"working"})
        BY <4>1, <4>2, OneLess
      <4>4. charged'[i] \in Nat /\ charged'[i] <= charged[i] + 1
        BY <2>2, <1>0 DEF Count, TypeOK, WorkTypeOK
      <4> QED
        BY <1>0, <2>2, <4>3, <4>4, HoldersFinite, HoldersFinitePrimed DEF Counted
    <3>2. CASE i # at[w]
      <4>1. charged'[i] = charged[i]
        BY <2>2, <3>2 DEF Count, TypeOK, WorkTypeOK
      <4> QED
        BY <1>0, <2>2, <2>4, <4>1, HoldersFinite, HoldersFinitePrimed DEF Counted
    <3> QED
      BY <3>1, <3>2
  <2> QED
    BY <1>0, <2>2, <2>4, <2>5, HoldersFinite, HoldersFinitePrimed DEF Counted
<1>4. ASSUME NEW w \in Workers, Store(w) PROVE Counted'
  <2>1. pc[w] = "parsed" /\ pc' = Set(pc, w, "saved") /\ at' = at
    BY <1>4 DEF Store, Goto
  <2>2. /\ at[w] \in Jobs /\ UNCHANGED <<attempts, runs, charged>>
        /\ saved' = Count(saved, at[w])
    BY <1>4, <1>r, <2>1, Held DEF Store, rowVars
  <2> SUFFICES ASSUME NEW i \in Jobs
               PROVE  /\ runs'[i] + Number(i, {"claimed"})' <= attempts'[i]
                      /\ charged'[i] + Number(i, {"working"})' <= runs'[i]
                      /\ saved'[i] + Number(i, {"working", "parsed"})' <= runs'[i]
      BY DEF Counted
  <2>3. /\ Holders(i, {"claimed"})' \subseteq Holders(i, {"claimed"})
        /\ Holders(i, {"working"})' \subseteq Holders(i, {"working"})
        /\ Holders(i, {"working", "parsed"})' \subseteq Holders(i, {"working", "parsed"})
    BY <2>1, <1>r DEF Holders, Set, RunTypeOK
  <2>4. /\ Number(i, {"claimed"})' <= Number(i, {"claimed"})
        /\ Number(i, {"working"})' <= Number(i, {"working"})
        /\ Number(i, {"working", "parsed"})' <= Number(i, {"working", "parsed"})
    BY <2>3, NoMore
  <2>5. saved'[i] + Number(i, {"working", "parsed"})' <= runs'[i]
    <3>1. CASE i = at[w]
      <4>1. w \in Holders(i, {"working", "parsed"})
        BY <2>1, <3>1 DEF Holders
      <4>2. Holders(i, {"working", "parsed"})' \subseteq Holders(i, {"working", "parsed"}) \ {w}
        BY <2>1, <1>r DEF Holders, Set, RunTypeOK
      <4>3. Number(i, {"working", "parsed"})' + 1 <= Number(i, {"working", "parsed"})
        BY <4>1, <4>2, OneLess
      <4>4. saved'[i] = saved[i] + 1
        BY <2>2, <3>1 DEF Count, TypeOK, WorkTypeOK
      <4> QED
        BY <1>0, <2>2, <4>3, <4>4, HoldersFinite, HoldersFinitePrimed DEF Counted
    <3>2. CASE i # at[w]
      <4>1. saved'[i] = saved[i]
        BY <2>2, <3>2 DEF Count, TypeOK, WorkTypeOK
      <4> QED
        BY <1>0, <2>2, <2>4, <4>1, HoldersFinite, HoldersFinitePrimed DEF Counted
    <3> QED
      BY <3>1, <3>2
  <2> QED
    BY <1>0, <2>2, <2>4, <2>5, HoldersFinite, HoldersFinitePrimed DEF Counted
<1>5. ASSUME NEW w \in Workers, Return(w) \/ Report(w) \/ Leave(w) PROVE Counted'
  <2>1. UNCHANGED <<attempts, workVars>>
    BY <1>5 DEF Return, Report, Leave, rowVars
  <2>2. PICK to \in {"refused", "raised", "mapping", "review", "kept", "cleanup", "idle"} :
            pc' = Set(pc, w, to) /\ (at' = at \/ at' = Set(at, w, None))
    BY <1>5 DEF Return, Report, Leave, Goto, After
  <2>3. \A j \in Jobs : \A stages \in {{"claimed"}, {"working"}, {"working", "parsed"}} :
            Holders(j, stages)' \subseteq Holders(j, stages)
    BY <2>2, <1>r DEF Holders, Set, RunTypeOK
  <2> QED
    BY <2>1, <2>3, CountedKept
<1>6. ASSUME NEW p \in Procs, Crash(p) PROVE Counted'
  <2>1. UNCHANGED <<attempts, workVars>>
    BY <1>6 DEF Crash, rowVars
  <2>2. \A j \in Jobs : \A stages \in {{"claimed"}, {"working"}, {"working", "parsed"}} :
            Holders(j, stages)' \subseteq Holders(j, stages)
    BY <1>6, Instance DEF Crash, Holders
  <2> QED
    BY <2>1, <2>2, CountedKept
<1>7. ASSUME UNCHANGED <<attempts, runVars, workVars>> PROVE Counted'
  BY <1>7, CountedKept DEF Holders, runVars
<1>8. ASSUME NEW j \in Jobs, RouteStep(j) \/ LeaseEnds(j) \/ Look(j) \/ Sweep(j)
      PROVE  Counted'
  BY <1>7, <1>8 DEF RouteStep, Submit, SubmitLost, Confirm, ConfirmFails, CopyFiles,
                    LeaseEnds, Look, Doom, Sweep, rowVars
<1>9. ASSUME NEW w \in Workers, Progress(w) PROVE Counted'
  BY <1>7, <1>9 DEF Progress
<1>10. ASSUME ReclaimStale PROVE Counted'
  BY <1>7, <1>10 DEF ReclaimStale
<1>11. ASSUME UNCHANGED vars PROVE Counted'
  BY <1>7, <1>11 DEF vars, rowVars
<1>12. ASSUME LookFails PROVE Counted'
  BY <1>7, <1>12 DEF LookFails, Doom, rowVars
<1> QED
  BY <1>1, <1>2, <1>3, <1>4, <1>5, <1>6, <1>8, <1>9, <1>10, <1>11, <1>12 DEF Next, ThreadStep

LEMMA CountedBounds == TypeOK /\ Counted => RunsAtMost
<1> SUFFICES ASSUME TypeOK, Counted, NEW j \in Jobs
             PROVE  runs[j] <= MaxAttempts /\ charged[j] <= runs[j] /\ saved[j] <= runs[j]
    BY DEF RunsAtMost
<1>1. /\ attempts[j] \in Nat /\ attempts[j] <= MaxAttempts
      /\ runs[j] \in Nat /\ charged[j] \in Nat /\ saved[j] \in Nat
  BY Instance DEF TypeOK, RowTypeOK, WorkTypeOK
<1> QED
  BY <1>1, HoldersFinite, Instance DEF Counted

\* (RunsAtMost.)  A job runs at most max_attempts times, and each run charges
\* and stores at most once, whatever threads outlive their lease.
THEOREM RunsBounded == Spec => []RunsAtMost
<1>1. TInv => TypeOK
  BY DEF TInv
<1>2. Init => TInv /\ Counted
  BY InitType, InitCounted
<1>3. TInv /\ Counted /\ [Next]_vars => TInv' /\ Counted'
  BY <1>1, NextType, NextCounted
<1> QED
  BY <1>1, <1>2, <1>3, CountedBounds, PTL DEF Spec

-----------------------------------------------------------------------------
(* What is true of a job once its handler was started. *)

ThreadsRan ==
    \A w \in Workers :
        /\ pc[w] \notin {"idle", "claimed"} => runs[at[w]] > 0
        /\ pc[w] = "saved" => saved[at[w]] > 0

JobsRan ==
    \A j \in Jobs :
        /\ status[j] = "needs_review" => runs[j] > 0
        /\ origin[j] # None => runs[origin[j]] > 0

Ran == ThreadsRan /\ JobsRan

LEMMA InitRan == Init => Ran
BY Instance DEF Init, Ran, ThreadsRan, JobsRan

LEMMA CountsGrow ==
    TypeOK /\ [Next]_vars =>
        \A j \in Jobs : (runs[j] > 0 => runs'[j] > 0) /\ (saved[j] > 0 => saved'[j] > 0)
<1> SUFFICES ASSUME TypeOK, [Next]_vars
             PROVE  \A j \in Jobs : (runs[j] > 0 => runs'[j] > 0) /\ (saved[j] > 0 => saved'[j] > 0)
    OBVIOUS
<1>1. ASSUME NEW w \in Workers, Begin(w) \/ Store(w)
      PROVE  \A j \in Jobs : (runs[j] > 0 => runs'[j] > 0) /\ (saved[j] > 0 => saved'[j] > 0)
  BY <1>1 DEF Begin, Store, Count, TypeOK, WorkTypeOK
<1>2. CASE UNCHANGED <<runs, saved>>
  BY <1>2
<1>3. \/ \E w \in Workers : Begin(w) \/ Store(w)
      \/ UNCHANGED <<runs, saved>>
  BY DEF Next, vars, workVars, RouteStep, Submit, SubmitLost, Confirm, ConfirmFails, CopyFiles,
         LeaseEnds, Look, LookFails, Doom, Sweep, ThreadStep, Claim, Progress, Parse, Return,
         Report, Leave, Crash, ReclaimStale
<1> QED
  BY <1>1, <1>2, <1>3

LEMMA NextThreadsRan == TypeOK /\ Ran /\ [Next]_vars => ThreadsRan'
<1> SUFFICES ASSUME TypeOK, Ran, [Next]_vars, NEW v \in Workers
             PROVE  /\ pc'[v] \notin {"idle", "claimed"} => runs'[at'[v]] > 0
                    /\ pc'[v] = "saved" => saved'[at'[v]] > 0
    BY DEF ThreadsRan
<1>0. RunTypeOK /\ WorkTypeOK /\ ThreadsRan
  BY DEF TypeOK, Ran
<1> DEFINE ThreadGoal ==
      /\ pc'[v] \notin {"idle", "claimed"} => runs'[at'[v]] > 0
      /\ pc'[v] = "saved" => saved'[at'[v]] > 0
<1>1. ASSUME at'[v] = at[v], pc'[v] = pc[v] PROVE ThreadGoal
  <2>1. CASE pc[v] = "idle"
    BY <1>1, <2>1
  <2>2. CASE pc[v] # "idle"
    BY <1>0, <1>1, <2>2, Held, CountsGrow DEF ThreadsRan
  <2> QED
    BY <2>1, <2>2
<1>2. ASSUME NEW w \in Workers, w # v,
             \/ Claim(w) \/ Begin(w) \/ Parse(w) \/ Store(w)
             \/ Return(w) \/ Report(w) \/ Leave(w)
      PROVE  ThreadGoal
  BY <1>0, <1>1, <1>2 DEF Claim, Begin, Parse, Store, Return, Report, Leave, Goto, Set, RunTypeOK
<1>3. CASE Claim(v)
  BY <1>0, <1>3 DEF Claim, Set, RunTypeOK
<1>4. CASE Begin(v)
  <2>1. at[v] \in Jobs
    BY <1>0, <1>4, Held DEF Begin, Goto
  <2>2. runs'[at[v]] = runs[at[v]] + 1 /\ runs[at[v]] \in Nat
    BY <1>0, <1>4, <2>1 DEF Begin, Count, WorkTypeOK
  <2> QED
    BY <1>0, <1>4, <2>2 DEF Begin, Goto, Set, RunTypeOK
<1>5. CASE Store(v)
  <2>1. at[v] \in Jobs /\ runs[at[v]] > 0
    BY <1>0, <1>5, Held DEF Store, Goto, ThreadsRan
  <2>2. saved'[at[v]] = saved[at[v]] + 1 /\ saved[at[v]] \in Nat
    BY <1>0, <1>5, <2>1 DEF Store, Count, WorkTypeOK
  <2> QED
    BY <1>0, <1>5, <2>1, <2>2 DEF Store, Goto, Set, RunTypeOK
<1>6. CASE Parse(v) \/ Return(v) \/ Report(v)
  <2>1. /\ pc[v] \notin {"idle", "claimed"} /\ at' = at
        /\ pc'[v] # "saved"
    BY <1>0, <1>6 DEF Parse, Return, Report, After, Goto, Set, RunTypeOK
  <2>2. at[v] \in Jobs
    BY <1>0, <2>1, Held
  <2> QED
    BY <1>0, <2>1, <2>2, CountsGrow DEF ThreadsRan
<1>7. CASE Leave(v)
  BY <1>0, <1>7 DEF Leave, Set, RunTypeOK
<1>8. ASSUME NEW p \in Procs, Crash(p) PROVE ThreadGoal
  <2>1. CASE ProcOf[v] = p
    BY <1>8, <2>1 DEF Crash
  <2>2. CASE ProcOf[v] # p
    BY <1>1, <1>8, <2>2 DEF Crash
  <2> QED
    BY <2>1, <2>2
<1>9. ASSUME UNCHANGED runVars PROVE ThreadGoal
  BY <1>1, <1>9 DEF runVars
<1>10. ASSUME NEW j \in Jobs, RouteStep(j) \/ LeaseEnds(j) \/ Look(j) \/ Sweep(j)
       PROVE  ThreadGoal
  BY <1>9, <1>10 DEF RouteStep, Submit, SubmitLost, Confirm, ConfirmFails, CopyFiles, LeaseEnds,
                     Look, Doom, Sweep
<1>11. ASSUME NEW w \in Workers, Progress(w) PROVE ThreadGoal
  BY <1>9, <1>11 DEF Progress
<1>12. ASSUME ReclaimStale PROVE ThreadGoal
  BY <1>9, <1>12 DEF ReclaimStale
<1>13. ASSUME UNCHANGED vars PROVE ThreadGoal
  BY <1>9, <1>13 DEF vars
<1>14. ASSUME NEW w \in Workers, ThreadStep(w) PROVE ThreadGoal
  <2>1. CASE Progress(w)
    BY <2>1, <1>11
  <2>2. CASE w # v
    BY <2>1, <2>2, <1>2, <1>14 DEF ThreadStep
  <2>3. CASE w = v
    BY <2>1, <2>3, <1>3, <1>4, <1>5, <1>6, <1>7, <1>14 DEF ThreadStep
  <2> QED
    BY <2>1, <2>2, <2>3
<1>15. ASSUME LookFails PROVE ThreadGoal
  BY <1>9, <1>15 DEF LookFails, Doom
<1> HIDE DEF ThreadGoal
<1>16. ThreadGoal
  BY <1>8, <1>10, <1>12, <1>13, <1>14, <1>15 DEF Next
<1> QED
  BY <1>16 DEF ThreadGoal

\* The status of a job changes as its row is inserted or claimed, as a thread
\* that ran it reports, or as its lease is over.
LEMMA StatusSteps ==
    ASSUME TypeOK, Ran, [Next]_vars, NEW j \in Jobs, status'[j] # status[j]
    PROVE  \/ status[j] = "absent" /\ status'[j] = "queued" /\ (Submit(j) \/ Confirm(j))
           \/ status[j] = "queued" /\ status'[j] = "running" /\ staged' = staged
           \/ \E w \in Workers : Report(w) /\ at[w] = j /\ runs[j] > 0 /\ status'[j] = Written(w)
           \/ status[j] = "running" /\ ReclaimStale /\ status'[j] \in {"queued", "failed"}
<1>0. RowTypeOK /\ RunTypeOK /\ ThreadsRan
  BY DEF TypeOK, Ran
<1>1. ASSUME NEW i \in Jobs, RouteStep(i)
      PROVE  status[j] = "absent" /\ status'[j] = "queued" /\ (Submit(j) \/ Confirm(j))
  <2>1. CASE Submit(i) \/ Confirm(i)
    <3>1. i = j /\ status[i] = "absent" /\ status'[i] = "queued"
      BY <1>0, <2>1 DEF Submit, Confirm, Fresh, Insert, Set, RowTypeOK
    <3> QED
      BY <2>1, <3>1
  <2>2. CASE ~(Submit(i) \/ Confirm(i))
    BY <1>1, <2>2 DEF RouteStep, SubmitLost, ConfirmFails, CopyFiles, rowVars
  <2> QED
    BY <2>1, <2>2
<1>2. ASSUME NEW w \in Workers, Claim(w)
      PROVE  status[j] = "queued" /\ status'[j] = "running" /\ staged' = staged
  BY <1>0, <1>2 DEF Claim, Oldest, Set, RowTypeOK, dirVars
<1>3. ASSUME NEW w \in Workers, Report(w)
      PROVE  at[w] = j /\ runs[j] > 0 /\ status'[j] = Written(w)
  <2>1. status' = Set(status, at[w], Written(w))
    BY <1>3 DEF Report
  <2>2. at[w] = j /\ status'[j] = Written(w)
    BY <1>0, <2>1 DEF Set, RowTypeOK
  <2>3. pc[w] \notin {"idle", "claimed"}
    BY <1>3 DEF Report, Goto
  <2> QED
    BY <1>0, <2>2, <2>3 DEF ThreadsRan
<1>4. ASSUME ReclaimStale
      PROVE  status[j] = "running" /\ status'[j] \in {"queued", "failed"}
  BY <1>0, <1>4 DEF ReclaimStale, Stale, Requeued
<1>5. \/ \E i \in Jobs : RouteStep(i)
      \/ \E w \in Workers : Claim(w) \/ Report(w)
      \/ ReclaimStale
      \/ status' = status
  BY DEF Next, vars, rowVars, LeaseEnds, Look, LookFails, Doom, Sweep, ThreadStep, Begin,
         Progress, Parse, Store, Return, Leave, Crash
<1> QED
  BY <1>1, <1>2, <1>3, <1>4, <1>5

\* The directory and the origin of a job change in a confirmation, as a thread
\* that ran it leaves, or as the janitor sweeps it.
LEMMA OriginSteps ==
    ASSUME TypeOK, [Next]_vars, NEW k \in Jobs, origin'[k] # origin[k]
    PROVE  /\ status[k] = "absent"
           /\ \/ origin'[k] = None
              \/ \E j \in Jobs : status[j] = "needs_review" /\ origin'[k] = j
<1>0. DirTypeOK
  BY DEF TypeOK
<1>1. \/ \E i, j \in Jobs : ConfirmFails(i) \/ CopyFiles(j, i)
      \/ origin' = origin
  BY DEF Next, vars, rowVars, dirVars, RouteStep, Submit, SubmitLost, Confirm, LeaseEnds, Look,
         LookFails, Doom, Sweep, ThreadStep, Claim, Begin, Progress, Parse, Store, Return,
         Report, Leave, Crash, ReclaimStale
<1> QED
  BY <1>0, <1>1 DEF ConfirmFails, CopyFiles, Fresh, Set, DirTypeOK

LEMMA NextJobsRan == TypeOK /\ Ran /\ [Next]_vars => JobsRan'
<1> SUFFICES ASSUME TypeOK, Ran, [Next]_vars, NEW j \in Jobs
             PROVE  /\ status'[j] = "needs_review" => runs'[j] > 0
                    /\ origin'[j] # None => runs'[origin'[j]] > 0
    BY DEF JobsRan
<1>0. JobsRan /\ DirTypeOK
  BY DEF TypeOK, Ran
<1>1. status'[j] = "needs_review" => runs[j] > 0
  <2>1. CASE status'[j] = status[j]
    BY <1>0, <2>1 DEF JobsRan
  <2>2. CASE status'[j] # status[j]
    BY <2>2, StatusSteps
  <2> QED
    BY <2>1, <2>2
<1>2. origin'[j] # None => origin'[j] \in Jobs /\ runs[origin'[j]] > 0
  <2>1. CASE origin'[j] = origin[j]
    BY <1>0, <2>1 DEF JobsRan, DirTypeOK
  <2>2. CASE origin'[j] # origin[j]
    BY <1>0, <2>2, OriginSteps DEF JobsRan
  <2> QED
    BY <2>1, <2>2
<1> QED
  BY <1>1, <1>2, CountsGrow

-----------------------------------------------------------------------------
(* The properties that follow *)

LEMMA NextDone == TypeOK /\ Ran /\ DoneIsStored /\ [Next]_vars => DoneIsStored'
<1> SUFFICES ASSUME TypeOK, Ran, DoneIsStored, [Next]_vars,
                    NEW j \in Jobs, status'[j] = "done"
             PROVE  saved'[j] > 0
    BY DEF DoneIsStored
<1>1. CASE status'[j] = status[j]
  BY <1>1, CountsGrow DEF DoneIsStored
<1>2. CASE status'[j] # status[j]
  <2>1. PICK w \in Workers : Report(w) /\ at[w] = j /\ Written(w) = "done"
    BY <1>2, StatusSteps
  <2>2. pc[w] = "saved"
    BY <2>1 DEF Report, Goto, Written, Requeued
  <2>3. saved[j] > 0
    BY <2>1, <2>2 DEF Ran, ThreadsRan
  <2> QED
    BY <2>3, CountsGrow
<1> QED
  BY <1>1, <1>2

LEMMA NextFree ==
    TInv /\ Counted /\ CorrectedIsFree /\ [Next]_vars => CorrectedIsFree'
<1> SUFFICES ASSUME TInv, Counted, CorrectedIsFree, [Next]_vars,
                    NEW j \in Jobs, origin'[j] # None
             PROVE  charged'[j] = 0
    BY DEF CorrectedIsFree
<1>0. TypeOK /\ Claimable /\ RunsAtMost
  BY CountedBounds DEF TInv
<1>1. \A i \in Jobs : /\ attempts[i] \in Nat /\ runs[i] \in Nat /\ charged[i] \in Nat
  BY <1>0, Instance DEF TypeOK, RowTypeOK, WorkTypeOK
<1>2. status[j] = "absent" => charged[j] = 0
  <2>1. runs[j] <= attempts[j]
    BY <1>1, HoldersFinite DEF Counted
  <2> QED
    BY <1>0, <1>1, <2>1 DEF Claimable, RunsAtMost
<1>3. charged[j] = 0
  <2>1. CASE origin[j] # None
    BY <2>1 DEF CorrectedIsFree
  <2>2. CASE origin[j] = None
    BY <1>0, <1>2, <2>2, OriginSteps
  <2> QED
    BY <2>1, <2>2
<1>4. ASSUME NEW w \in Workers, Parse(w) PROVE charged'[j] = charged[j]
  <2>1. UNCHANGED origin
    BY <1>4 DEF Parse, dirVars
  <2> QED
    BY <1>0, <1>4, <2>1 DEF Parse, Count, TypeOK, WorkTypeOK
<1>5. (\E w \in Workers : Parse(w)) \/ charged' = charged
  BY DEF Next, vars, workVars, RouteStep, Submit, SubmitLost, Confirm, ConfirmFails, CopyFiles,
         LeaseEnds, Look, LookFails, Doom, Sweep, ThreadStep, Claim, Begin, Progress, Store,
         Return, Report, Leave, Crash, ReclaimStale
<1> QED
  BY <1>3, <1>4, <1>5

\* Who takes the files of a job away.
LEMMA Unstaging ==
    ASSUME TypeOK, [Next]_vars, NEW j \in Jobs, staged[j], ~staged'[j]
    PROVE  \/ \E k \in Jobs : CopyFiles(k, j)
           \/ \E k \in Jobs : (Confirm(k) \/ ConfirmFails(k)) /\ (k = j \/ origin[k] = j)
           \/ \E w \in Workers : Leave(w) /\ pc[w] = "cleanup" /\ at[w] = j
           \/ Sweep(j)
<1>0. DirTypeOK
  BY DEF TypeOK
<1>1. \/ \E i, k \in Jobs : \/ Submit(i) \/ SubmitLost(i) \/ Confirm(i) \/ ConfirmFails(i)
                           \/ CopyFiles(k, i) \/ Sweep(i)
      \/ \E w \in Workers : Leave(w)
      \/ staged' = staged
  BY DEF Next, vars, dirVars, RouteStep, LeaseEnds, Look, LookFails, Doom,
         ThreadStep, Claim, Begin, Progress, Parse, Store, Return, Report, Crash, ReclaimStale
<1>2. ASSUME NEW i \in Jobs, Submit(i) \/ SubmitLost(i) PROVE FALSE
  BY <1>0, <1>2 DEF Submit, SubmitLost, Set, DirTypeOK
<1>3. ASSUME NEW i \in Jobs, NEW k \in Jobs, CopyFiles(k, i) PROVE i = j
  BY <1>0, <1>3 DEF CopyFiles, Set, DirTypeOK
<1>4. ASSUME NEW i \in Jobs, Confirm(i) \/ ConfirmFails(i) PROVE i = j \/ origin[i] = j
  BY <1>0, <1>4 DEF Confirm, ConfirmFails, Set, DirTypeOK
<1>5. ASSUME NEW i \in Jobs, Sweep(i) PROVE i = j
  BY <1>0, <1>5 DEF Sweep, Set, DirTypeOK
<1>6. ASSUME NEW w \in Workers, Leave(w) PROVE pc[w] = "cleanup" /\ at[w] = j
  BY <1>0, <1>6 DEF Leave, Set, DirTypeOK
<1> QED
  BY <1>1, <1>2, <1>3, <1>4, <1>5, <1>6

\* A job without a row was never run.
LEMMA NeverRun ==
    ASSUME TInv, Counted, Ran, NEW j \in Jobs, status[j] = "absent"
    PROVE  /\ \A k \in Jobs : origin[k] # j
           /\ \A w \in Workers : at[w] = j => pc[w] \in {"idle", "claimed"}
<1>1. attempts[j] = 0 /\ runs[j] \in Nat
  BY DEF TInv, Claimable, TypeOK, WorkTypeOK
<1>2. ~(runs[j] > 0)
  BY <1>1, HoldersFinite DEF Counted
<1> QED
  BY <1>2, Instance DEF Ran, ThreadsRan, JobsRan

\* A directory that is to be removed, and that nobody needed when its job was
\* looked up, is needed by nobody until it is gone.
DoomedIsOver ==
    \A j \in doomed \ rash :
        /\ \A w \in Workers : at[w] = j => pc[w] \in {"cleanup", "kept"}
        /\ \/ status[j] \in Terminal
           \/ status[j] = "absent" /\ origin[j] = None /\ staged[j]

LEMMA InitDoomed == Init => DoomedIsOver
BY DEF Init, DoomedIsOver

\* What is to be removed changes as a job is looked up, or its directory goes.
LEMMA DoomSteps ==
    ASSUME [Next]_vars
    PROVE  \/ \E dirs \in SUBSET Old : Doom(dirs)
           \/ rash' = rash /\ doomed' \subseteq doomed
<1>1. ASSUME NEW j \in Jobs, Look(j) PROVE \E dirs \in SUBSET Old : Doom(dirs)
  BY <1>1 DEF Look
<1>2. ASSUME LookFails PROVE \E dirs \in SUBSET Old : Doom(dirs)
  BY <1>2 DEF LookFails
<1>3. \/ \E j \in Jobs : Look(j)
      \/ LookFails
      \/ rash' = rash /\ doomed' \subseteq doomed
  BY DEF Next, vars, dirVars, sweepVars, RouteStep, Submit, SubmitLost, Confirm, ConfirmFails,
         CopyFiles, LeaseEnds, Sweep, ThreadStep, Claim, Begin, Progress, Parse, Store, Return,
         Report, Leave, Crash, ReclaimStale
<1> QED
  BY <1>1, <1>2, <1>3

LEMMA RashGrows == [Next]_vars => rash \subseteq rash'
BY DoomSteps DEF Doom

LEMMA NextDoomed == TInv /\ Counted /\ Ran /\ DoomedIsOver /\ [Next]_vars => DoomedIsOver'
<1> SUFFICES ASSUME TInv, Counted, Ran, DoomedIsOver, [Next]_vars, NEW j \in doomed' \ rash'
             PROVE  /\ \A w \in Workers : at'[w] = j => pc'[w] \in {"cleanup", "kept"}
                    /\ \/ status'[j] \in Terminal
                       \/ status'[j] = "absent" /\ origin'[j] = None /\ staged'[j]
    BY DEF DoomedIsOver
<1>0. /\ TypeOK /\ RowTypeOK /\ DirTypeOK /\ RunTypeOK
      /\ TypeOK' /\ DirTypeOK' /\ RunTypeOK'
  BY NextType DEF TInv, TypeOK
<1>j. j \in Jobs
  BY <1>0 DEF DirTypeOK
<1>1. ASSUME NEW dirs \in SUBSET Old, Doom(dirs)
      PROVE  /\ \A w \in Workers : at[w] = j => pc[w] \in {"cleanup", "kept"}
             /\ \/ status[j] \in Terminal
                \/ status[j] = "absent" /\ origin[j] = None /\ staged[j]
             /\ UNCHANGED <<at, pc, status, origin, staged>>
  <2>1. UNCHANGED <<at, pc, status, origin, staged>>
    BY <1>1 DEF Doom, rowVars, runVars
  <2>2. CASE j \in doomed \ rash
    BY <2>1, <2>2 DEF DoomedIsOver
  <2>3. CASE j \notin doomed \ rash
    <3>1. j \in dirs /\ ~Needed(j)
      BY <1>1, <2>3 DEF Doom
    <3> QED
      BY <2>1, <3>1 DEF Needed, Answering, Sweepable, Old
  <2> QED
    BY <2>2, <2>3
<1>2. CASE j \in doomed \ rash /\ ~\E dirs \in SUBSET Old : Doom(dirs)
  <2>1. /\ \A w \in Workers : at[w] = j => pc[w] \in {"cleanup", "kept"}
        /\ \/ status[j] \in Terminal
           \/ status[j] = "absent" /\ origin[j] = None /\ staged[j]
    BY <1>2 DEF DoomedIsOver
  <2>2. ASSUME NEW w \in Workers, at'[w] = j PROVE pc'[w] \in {"cleanup", "kept"}
    <3>1. at[w] = j
      BY <1>0, <1>j, <2>1, <2>2, Instance
         DEF Next, vars, runVars, RouteStep, Submit, SubmitLost, Confirm, ConfirmFails, CopyFiles,
             LeaseEnds, Look, LookFails, Doom, Sweep, ThreadStep, Claim, Oldest, Begin, Progress,
             Parse, Store, Return, Report, Leave, Crash, ReclaimStale, Goto, Set, RunTypeOK,
             Terminal
    <3>2. pc'[w] \in {pc[w], "idle"}
      BY <1>0, <2>1, <3>1
         DEF Next, vars, runVars, RouteStep, Submit, SubmitLost, Confirm, ConfirmFails, CopyFiles,
             LeaseEnds, Look, LookFails, Doom, Sweep, ThreadStep, Claim, Begin, Progress, Parse,
             Store, Return, Report, Leave, Crash, ReclaimStale, Goto, Set, RunTypeOK
    <3> QED
      BY <1>0, <1>j, <2>1, <2>2, <3>1, <3>2, Instance DEF RunTypeOK
  <2>3. status'[j] = status[j]
    <3> SUFFICES ASSUME status'[j] # status[j] PROVE FALSE
        OBVIOUS
    <3>1. status[j] \in Terminal \cup {"absent"}
      BY <2>1
    <3>2. \/ status[j] = "absent" /\ (Submit(j) \/ Confirm(j))
          \/ \E w \in Workers : Report(w) /\ at[w] = j
      BY <1>0, <1>j, <3>1, StatusSteps DEF Terminal
    <3>3. CASE \E w \in Workers : Report(w) /\ at[w] = j
      BY <2>1, <3>3 DEF Report, Goto
    <3>4. CASE status[j] = "absent" /\ (Submit(j) \/ Confirm(j))
      BY <2>1, <3>4 DEF Submit, Fresh, Confirm, Terminal
    <3> QED
      BY <3>2, <3>3, <3>4
  <2>4. ASSUME status[j] = "absent" PROVE origin'[j] = None /\ staged'[j]
    <3>1. origin[j] = None /\ staged[j]
      BY <2>1, <2>4 DEF Terminal
    <3>2. /\ \A k \in Jobs : origin[k] # j
          /\ \A w \in Workers : at[w] = j => pc[w] # "cleanup"
      BY <1>j, <2>4, NeverRun
    <3>3. staged'[j]
      <4>1. ~\E k \in Jobs : CopyFiles(k, j)
        BY <3>1 DEF CopyFiles, Fresh
      <4>2. ~(Confirm(j) \/ ConfirmFails(j))
        BY <3>1 DEF Confirm, ConfirmFails
      <4>3. ~Sweep(j)
        BY DEF Sweep
      <4> QED
        BY <1>0, <1>j, <3>1, <3>2, <4>1, <4>2, <4>3, Unstaging DEF DirTypeOK
    <3>4. origin'[j] = None
      <4>1. \/ \E i, k \in Jobs : ConfirmFails(i) \/ CopyFiles(k, i)
            \/ origin' = origin
        BY DEF Next, vars, dirVars, RouteStep, Submit, SubmitLost, Confirm, LeaseEnds, Look,
               LookFails, Doom, Sweep, ThreadStep, Claim, Begin, Progress, Parse, Store, Return,
               Report, Leave, Crash, ReclaimStale
      <4> QED
        BY <1>0, <1>j, <3>1, <4>1 DEF ConfirmFails, CopyFiles, Fresh, Set, DirTypeOK
    <3> QED
      BY <3>3, <3>4
  <2> QED
    BY <2>1, <2>2, <2>3, <2>4
<1> QED
  BY <1>1, <1>2, DoomSteps

LEMMA StagedSteps ==
    ASSUME TypeOK, DoomedIsOver, [Next]_vars, NEW j \in Jobs, staged[j], ~staged'[j], j \notin rash
    PROVE  \/ status[j] = "absent"
           \/ \E k \in Jobs : status[k] = "absent" /\ origin[k] = j
           \/ \E w \in Workers : pc[w] = "cleanup" /\ at[w] = j
           \/ /\ status[j] \in Terminal
              /\ \A w \in Workers : at[w] = j => pc[w] \in {"cleanup", "kept"}
<1>1. CASE Sweep(j)
  BY <1>1 DEF Sweep, DoomedIsOver
<1>2. CASE ~Sweep(j)
  BY <1>2, Unstaging DEF CopyFiles, Fresh, Confirm, ConfirmFails
<1> QED
  BY <1>1, <1>2

LEMMA NextUpload ==
    TypeOK /\ Ran /\ DoomedIsOver /\ UploadKept /\ [Next]_vars => UploadKept'
<1> SUFFICES ASSUME TypeOK, Ran, DoomedIsOver, UploadKept, [Next]_vars, NEW j \in Jobs,
                    status'[j] \in {"queued", "running"}, runs'[j] = 0, origin'[j] = None,
                    j \notin rash'
             PROVE  staged'[j]
    BY DEF UploadKept
<1>0. RowTypeOK /\ DirTypeOK /\ RunTypeOK /\ WorkTypeOK
  BY DEF TypeOK
<1>1. ~(runs[j] > 0) /\ runs[j] = 0
  BY <1>0, CountsGrow DEF WorkTypeOK
<1>r. j \notin rash
  BY RashGrows
<1>2. CASE status[j] = "absent"
  <2>1. Submit(j) \/ Confirm(j)
    BY <1>1, <1>2, StatusSteps
  <2>2. CASE Submit(j)
    BY <1>0, <2>2 DEF Submit, Set, DirTypeOK
  <2>3. CASE Confirm(j)
    BY <2>3 DEF Confirm
  <2> QED
    BY <2>1, <2>2, <2>3
<1>3. CASE status[j] # "absent"
  <2>1. origin[j] = None
    BY <1>3, OriginSteps
  <2>2. status[j] \in {"queued", "running"}
    BY <1>1, <1>3, StatusSteps
  <2>3. staged[j]
    BY <1>1, <1>r, <2>1, <2>2 DEF UploadKept
  <2>4. \A k \in Jobs : origin[k] # j
    BY <1>1, Instance DEF Ran, JobsRan
  <2>5. \A w \in Workers : at[w] = j => pc[w] # "cleanup"
    BY <1>1 DEF Ran, ThreadsRan
  <2>6. status[j] \notin Terminal
    BY <2>2 DEF Terminal
  <2> QED
    BY <1>0, <1>r, <1>3, <2>3, <2>4, <2>5, <2>6, StagedSteps DEF DirTypeOK
<1> QED
  BY <1>2, <1>3

JInv ==
    /\ TInv /\ Counted /\ Ran /\ DoomedIsOver
    /\ DoneIsStored /\ CorrectedIsFree /\ UploadKept

LEMMA InitJ == Init => JInv
<1>1. Init => DoneIsStored /\ CorrectedIsFree /\ UploadKept
  BY DEF Init, DoneIsStored, CorrectedIsFree, UploadKept
<1> QED
  BY <1>1, InitType, InitCounted, InitRan, InitDoomed DEF JInv

LEMMA NextJ == JInv /\ [Next]_vars => JInv'
BY NextType, NextCounted, NextThreadsRan, NextJobsRan, NextDoomed, NextDone, NextFree, NextUpload
   DEF JInv, TInv, Ran

LEMMA Always == Spec => []JInv
BY InitJ, NextJ, PTL DEF Spec

\* (DoneIsStored.)  A job is done only when its result was stored, though the
\* answer may come from a thread that was given up.
THEOREM DoneStored == Spec => []DoneIsStored
<1>1. JInv => DoneIsStored
  BY DEF JInv
<1> QED
  BY <1>1, Always, PTL

\* (CorrectedIsFree.)  The job of corrected rows never charges.
THEOREM CorrectionFree == Spec => []CorrectedIsFree
<1>1. JInv => CorrectedIsFree
  BY DEF JInv
<1> QED
  BY <1>1, Always, PTL

\* (UploadKept.)  Files that were uploaded are there when their job starts,
\* unless a janitor could not look their job up (get_status_map, which returns
\* no row when its SELECT fails).
THEOREM UploadsKept == Spec => []UploadKept
<1>1. JInv => UploadKept
  BY DEF JInv
<1> QED
  BY <1>1, Always, PTL

-----------------------------------------------------------------------------
(* With one attempt a job has one thread in its life: what that thread did *)
(* not remove, only a confirmation may.                                    *)

Alone ==
    /\ \A v, w \in Workers : at[v] = at[w] /\ at[v] # None => v = w
    /\ \A w \in Workers : at[w] # None => attempts[at[w]] = 1
    /\ \A w \in Workers :
           pc[w] \in {"working", "parsed", "review"} => at[w] \in rash \/ staged[at[w]]
    /\ \A j \in Jobs :
           status[j] = "needs_review" \/ (\E k \in Jobs : origin[k] = j) =>
               \A w \in Workers : at[w] = j => pc[w] = "kept"

LEMMA InitAlone == Init => Alone
BY Instance DEF Init, Alone

\* A job whose row may still be claimed, or is not there, has no thread.
LEMMA NoThreadYet ==
    ASSUME MaxAttempts = 1, JInv, Alone, NEW j \in Jobs, status[j] \in {"absent", "queued"}
    PROVE  /\ attempts[j] = 0
           /\ \A w \in Workers : at[w] # j
           /\ \A k \in Jobs : origin[k] # j
<1>0. RowTypeOK /\ WorkTypeOK /\ Claimable /\ Counted /\ JobsRan
  BY DEF JInv, TInv, TypeOK, Ran
<1>1. attempts[j] = 0
  BY <1>0 DEF RowTypeOK, Claimable
<1>2. ~(runs[j] > 0)
  BY <1>0, <1>1, HoldersFinite DEF Counted, WorkTypeOK
<1> QED
  BY <1>0, <1>1, <1>2, Instance DEF Alone, JobsRan

LEMMA NextAlone == MaxAttempts = 1 /\ JInv /\ Alone /\ [Next]_vars => Alone'
<1> SUFFICES ASSUME MaxAttempts = 1, JInv, Alone, [Next]_vars PROVE Alone'
    OBVIOUS
<1>0. /\ TypeOK /\ RowTypeOK /\ DirTypeOK /\ RunTypeOK /\ Ran /\ DoomedIsOver
  BY DEF JInv, TInv, TypeOK
<1>1. \A v, w \in Workers : at'[v] = at'[w] /\ at'[v] # None => v = w
  <2>1. ASSUME NEW u \in Workers, Claim(u)
        PROVE  \A v, w \in Workers : at'[v] = at'[w] /\ at'[v] # None => v = w
    <3>1. PICK j \in Jobs : status[j] = "queued" /\ at' = Set(at, u, j)
      BY <2>1 DEF Claim, Oldest
    <3>2. \A w \in Workers : at[w] # j
      BY <3>1, NoThreadYet
    <3> QED
      BY <1>0, <3>1, <3>2 DEF Set, RunTypeOK, Alone
  <2>2. \/ \E u \in Workers : Claim(u)
        \/ \A w \in Workers : at'[w] = at[w] \/ at'[w] = None
    BY <1>0 DEF Next, vars, runVars, RouteStep, Submit, SubmitLost, Confirm, ConfirmFails, CopyFiles,
           LeaseEnds, Look, LookFails, Doom, Sweep, ThreadStep, Begin, Progress, Parse, Store,
           Return, Report, Leave, Crash, ReclaimStale, Goto, Set, RunTypeOK
  <2> QED
    BY <2>1, <2>2 DEF Alone
<1>2. \A w \in Workers : at'[w] # None => attempts'[at'[w]] = 1
  <2>1. ASSUME NEW u \in Workers, Claim(u)
        PROVE  \A w \in Workers : at'[w] # None => attempts'[at'[w]] = 1
    <3>1. PICK j \in Jobs : /\ status[j] = "queued" /\ at' = Set(at, u, j)
                           /\ attempts' = Count(attempts, j)
      BY <2>1 DEF Claim, Oldest
    <3>2. attempts[j] = 0 /\ \A w \in Workers : at[w] # j
      BY <3>1, NoThreadYet
    <3> QED
      BY <1>0, <3>1, <3>2 DEF Set, Count, RunTypeOK, RowTypeOK, Alone
  <2>2. \/ \E u \in Workers : Claim(u)
        \/ /\ \A w \in Workers : at'[w] = at[w] \/ at'[w] = None
           /\ attempts' = attempts
    BY <1>0 DEF Next, vars, rowVars, runVars, RouteStep, Submit, SubmitLost, Confirm, ConfirmFails,
           CopyFiles, LeaseEnds, Look, LookFails, Doom, Sweep, ThreadStep, Begin, Progress,
           Parse, Store, Return, Report, Leave, Crash, ReclaimStale, Goto, Set, RunTypeOK
  <2> QED
    BY <2>1, <2>2 DEF Alone
<1>3. ASSUME NEW w \in Workers, pc'[w] \in {"working", "parsed", "review"}
      PROVE  at'[w] \in rash' \/ staged'[at'[w]]
  <2>1. /\ at'[w] = at[w] /\ (at[w] \in rash \/ staged[at[w]])
        /\ pc[w] \in {"claimed", "working", "parsed", "review"}
    <3>1. ASSUME NEW u \in Workers, ThreadStep(u) \/ UNCHANGED runVars
          PROVE  /\ at'[w] = at[w] /\ (at[w] \in rash \/ staged[at[w]])
                 /\ pc[w] \in {"claimed", "working", "parsed", "review"}
      BY <1>0, <1>3, <3>1 DEF ThreadStep, Claim, Begin, Progress, Parse, Store, Return, Report,
             Leave, After, Goto, Set, RunTypeOK, Alone, runVars
    <3>2. ASSUME NEW p \in Procs, Crash(p)
          PROVE  /\ at'[w] = at[w] /\ (at[w] \in rash \/ staged[at[w]])
                 /\ pc[w] \in {"claimed", "working", "parsed", "review"}
      BY <1>3, <3>2 DEF Crash, Alone
    <3>3. \/ \E u \in Workers : ThreadStep(u) \/ UNCHANGED runVars
          \/ \E p \in Procs : Crash(p)
      BY <1>3 DEF Next, vars, RouteStep, Submit, SubmitLost, Confirm, ConfirmFails, CopyFiles,
             LeaseEnds, Look, LookFails, Doom, Sweep, ReclaimStale
    <3> QED
      BY <3>1, <3>2, <3>3
  <2>2. at[w] \in Jobs
    BY <1>0, <2>1, Held
  <2>3. status[at[w]] # "absent"
    BY <2>2, NoThreadYet
  <2>4. \A k \in Jobs : origin[k] # at[w]
    BY <2>1, <2>2 DEF Alone
  <2>5. \A v \in Workers : at[v] = at[w] => v = w
    BY <1>0, <2>1, <2>2, Instance DEF Alone
  <2>6. CASE at[w] \in rash
    BY <2>1, <2>6, RashGrows
  <2>7. CASE at[w] \notin rash
    BY <1>0, <2>1, <2>2, <2>3, <2>4, <2>5, <2>7, StagedSteps DEF DirTypeOK
  <2> QED
    BY <2>6, <2>7
<1>4. ASSUME NEW j \in Jobs, NEW w \in Workers, at'[w] = j,
             status'[j] = "needs_review" \/ (\E k \in Jobs : origin'[k] = j)
      PROVE  pc'[w] = "kept"
  <2>1. CASE status[j] = "needs_review" \/ (\E k \in Jobs : origin[k] = j)
    <3>1. status[j] # "queued"
      BY <2>1, NoThreadYet
    <3>2. at[w] = j
      BY <1>0, <1>4, <3>1, Instance DEF Next, vars, runVars, RouteStep, Submit, SubmitLost, Confirm, ConfirmFails,
           CopyFiles, LeaseEnds, Look, LookFails, Doom, Sweep, ThreadStep, Claim, Oldest,
           Begin, Progress, Parse, Store, Return, Report, Leave, Crash, ReclaimStale, Goto,
           Set, RunTypeOK
    <3>3. pc[w] = "kept"
      BY <2>1, <3>2 DEF Alone
    <3> QED
      BY <1>0, <1>4, <3>2, <3>3, Instance DEF Next, vars, runVars, RouteStep, Submit, SubmitLost, Confirm, ConfirmFails,
           CopyFiles, LeaseEnds, Look, LookFails, Doom, Sweep, ThreadStep, Claim, Begin,
           Progress, Parse, Store, Return, Report, Leave, Crash, ReclaimStale, Goto, Set,
           RunTypeOK
  <2>2. CASE ~(status[j] = "needs_review" \/ (\E k \in Jobs : origin[k] = j))
    <3>1. \A k \in Jobs : origin'[k] # j
      BY <1>0, <2>2, Instance, OriginSteps
    <3>2. status'[j] = "needs_review" /\ status[j] # "needs_review"
      BY <1>4, <2>2, <3>1
    <3>3. PICK u \in Workers : Report(u) /\ at[u] = j /\ Written(u) = "needs_review"
      BY <1>0, <3>2, StatusSteps
    <3>4. pc[u] = "review" /\ at' = at /\ pc' = Set(pc, u, "kept")
      BY <3>3 DEF Report, Goto, Written, Requeued, After
    <3>5. u = w
      BY <1>4, <3>3, <3>4, Instance DEF Alone
    <3> QED
      BY <1>0, <3>4, <3>5 DEF Set, RunTypeOK
  <2> QED
    BY <2>1, <2>2
<1> QED
  BY <1>1, <1>2, <1>3, <1>4 DEF Alone

LEMMA PausedStep ==
    ASSUME MaxAttempts = 1, JInv, Alone, [Next]_vars, NEW j \in Jobs,
           status'[j] = "needs_review", ~staged'[j], j \notin rash
    PROVE  /\ status[j] = "needs_review"
           /\ staged[j] => \E k \in Jobs : origin[k] = j /\ status[k] = "absent"
<1>0. TypeOK /\ Ran /\ DoomedIsOver
  BY DEF JInv, TInv
<1>1. status[j] = "needs_review"
  <2> SUFFICES ASSUME status[j] # "needs_review" PROVE FALSE
      OBVIOUS
  <2>1. PICK w \in Workers : Report(w) /\ at[w] = j /\ Written(w) = "needs_review"
    BY <1>0, StatusSteps
  <2>2. pc[w] = "review" /\ staged' = staged
    BY <2>1 DEF Report, Goto, Written, Requeued, dirVars
  <2> QED
    BY <2>1, <2>2 DEF Alone
<1>2. ASSUME staged[j] PROVE \E k \in Jobs : origin[k] = j /\ status[k] = "absent"
  <2>1. \A w \in Workers : at[w] = j => pc[w] # "cleanup"
    BY <1>1 DEF Alone
  <2>2. status[j] \notin Terminal
    BY <1>1 DEF Terminal
  <2> QED
    BY <1>0, <1>1, <1>2, <2>1, <2>2, StagedSteps DEF Terminal
<1> QED
  BY <1>1, <1>2

\* (PausedKept.)  The files of a job put before the user are taken away by a
\* confirmation alone, for callers that ask for one attempt, and unless a
\* janitor could not look the job up or found it written off too early.
THEOREM PausesKept == MaxAttempts = 1 => (Spec => PausedKept)
<1> SUFFICES ASSUME MaxAttempts = 1 PROVE Spec => PausedKept
    OBVIOUS
<1>1. Init => JInv /\ Alone
  BY InitJ, InitAlone
<1>2. JInv /\ Alone /\ [Next]_vars => JInv' /\ Alone'
  BY NextJ, NextAlone
<1>3. JInv /\ Alone /\ [Next]_vars =>
          [\A j \in Jobs :
              status'[j] = "needs_review" /\ ~staged'[j] /\ j \notin rash =>
                  /\ status[j] = "needs_review"
                  /\ staged[j] => \E k \in Jobs : origin[k] = j /\ status[k] = "absent"]_vars
  BY PausedStep
<1> QED
  BY <1>1, <1>2, <1>3, PTL DEF Spec, PausedKept

-----------------------------------------------------------------------------
(* With one attempt nobody is left to answer again for a job that came to  *)
(* an outcome: its one thread is at its end.                               *)

Answered ==
    \A w \in Workers :
        at[w] # None /\ status[at[w]] \in Closed \ {"failed"} => pc[w] \in {"cleanup", "kept"}

LEMMA InitAnswered == Init => Answered
BY DEF Init, Answered

LEMMA NextAnswered ==
    MaxAttempts = 1 /\ JInv /\ Alone /\ Answered /\ [Next]_vars => Answered'
<1> SUFFICES ASSUME MaxAttempts = 1, JInv, Alone, Answered, [Next]_vars,
                    NEW w \in Workers, at'[w] # None,
                    status'[at'[w]] \in Closed \ {"failed"}
             PROVE  pc'[w] \in {"cleanup", "kept"}
    BY DEF Answered
<1>0. TypeOK /\ RowTypeOK /\ RunTypeOK /\ Ran /\ Alone'
  BY NextAlone DEF JInv, TInv, TypeOK
<1> DEFINE j == at'[w]
<1>1. j \in Jobs
  <2>1. RunTypeOK'
    BY NextJ DEF JInv, TInv, TypeOK
  <2> QED
    BY <2>1 DEF RunTypeOK
<1>2. CASE status'[j] # status[j]
  <2>1. status'[j] \notin {"queued", "running", "failed"}
    BY DEF Closed, Terminal
  <2>2. PICK v \in Workers : Report(v) /\ at[v] = j
    BY <1>0, <1>1, <1>2, <2>1, StatusSteps
  <2>3. at' = at /\ pc' = Set(pc, v, After(v))
    BY <2>2 DEF Report, Goto
  <2>4. v = w
    BY <2>2, <2>3 DEF Alone
  <2> QED
    BY <1>0, <2>3, <2>4 DEF Set, After, RunTypeOK
<1>3. CASE status'[j] = status[j]
  <2>1. at[w] = j
    <3>1. CASE Claim(w)
      <4>1. status'[j] = "running"
        BY <1>0, <3>1 DEF Claim, Set, RunTypeOK, RowTypeOK
      <4> QED
        BY <4>1 DEF Closed, Terminal
    <3>2. CASE ~Claim(w)
      <4>1. at'[w] \in {at[w], None}
        BY <1>0, <3>2 DEF Next, vars, runVars, RouteStep, Submit, SubmitLost, CopyFiles, Confirm,
           ConfirmFails, LeaseEnds, Look, LookFails, Doom, Sweep, ThreadStep, Claim, Begin,
           Progress, Parse, Store, Return, Report, Leave, Goto, Set, RunTypeOK, Crash,
           ReclaimStale
      <4> QED
        BY <4>1
    <3> QED
      BY <3>1, <3>2
  <2>2. pc[w] \in {"cleanup", "kept"}
    BY <1>3, <2>1 DEF Answered
  <2>3. pc'[w] \in {pc[w], "idle"}
    BY <1>0, <2>2 DEF Next, vars, runVars, RouteStep, Submit, SubmitLost, CopyFiles, Confirm,
       ConfirmFails, LeaseEnds, Look, LookFails, Doom, Sweep, ThreadStep, Claim, Begin,
       Progress, Parse, Store, Return, Report, Leave, Goto, Set, RunTypeOK, Crash, ReclaimStale
  <2>4. pc'[w] # "idle"
    BY NextJ DEF JInv, TInv, TypeOK, RunTypeOK
  <2> QED
    BY <2>2, <2>3, <2>4
<1> QED
  BY <1>2, <1>3

LEMMA OutcomeStep ==
    ASSUME MaxAttempts = 1, JInv, Answered, [Next]_vars, NEW j \in Jobs,
           status[j] \in Closed \ {"failed"}
    PROVE  status'[j] = status[j]
<1> SUFFICES ASSUME status'[j] # status[j] PROVE FALSE
    OBVIOUS
<1>1. TypeOK /\ Ran /\ status[j] \notin {"absent", "queued", "running"}
  BY DEF JInv, TInv, Closed, Terminal
<1>2. PICK w \in Workers : Report(w) /\ at[w] = j
  BY <1>1, StatusSteps
<1>3. pc[w] \in {"cleanup", "kept"}
  BY <1>2, Instance DEF Answered
<1> QED
  BY <1>2, <1>3 DEF Report, Goto

\* (OutcomeStands.)  A job that is done, or was put before the user, stays so:
\* no reclaim and no late thread answers for it again.
THEOREM OutcomesStand == MaxAttempts = 1 => (Spec => OutcomeStands)
<1> SUFFICES ASSUME MaxAttempts = 1 PROVE Spec => OutcomeStands
    OBVIOUS
<1>1. Init => JInv /\ Alone /\ Answered
  BY InitJ, InitAlone, InitAnswered
<1>2. JInv /\ Alone /\ Answered /\ [Next]_vars => JInv' /\ Alone' /\ Answered'
  BY NextJ, NextAlone, NextAnswered
<1>3. JInv /\ Answered /\ [Next]_vars =>
          [\A j \in Jobs :
              status[j] \in Closed \ {"failed"} => status'[j] = status[j]]_vars
  BY OutcomeStep
<1> QED
  BY <1>1, <1>2, <1>3, PTL DEF Spec, OutcomeStands
=============================================================================
