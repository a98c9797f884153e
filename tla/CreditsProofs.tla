--------------------------- MODULE CreditsProofs ---------------------------
(***************************************************************************)
(* What holds of Credits for any number of charges, uploads and requests,  *)
(* any prices, quota and fee, and whether or not statements fail.          *)
(***************************************************************************)
EXTENDS Credits, FiniteSetTheorems, TLAPS

-----------------------------------------------------------------------------
(* Arithmetic of the prices *)

LEMMA Prices ==
    /\ Exempt \subseteq Charges /\ NoOne \notin Charges
    /\ IsPdf \in [Charges -> BOOLEAN]
    /\ Pages \in [Charges -> Nat] /\ CharCost \in [Charges -> Nat]
    /\ RequestOf \in [Uploads -> Requests] /\ Amounts \subseteq Nat \ {0}
    /\ Tier1Pages \in Nat /\ Tier1Price \in Nat \ {0} /\ Tier2Price \in Nat \ {0}
    /\ Quota \in Nat /\ OverRate \in Nat \ {0} /\ Fee \in Nat \ {0}
    /\ MaxFees \in Nat /\ MaxLapses \in Nat /\ MaxMonth \in Nat
    /\ DbErrors \in BOOLEAN
BY CreditsAssumption DEF CreditsAssumption

LEMMA ProductInt == \A a, b \in Int : a * b \in Int
OBVIOUS

LEMMA EstimateInt == \A used, n \in Int : EstimatePdf(used, n) \in Int
<1> SUFFICES ASSUME NEW used \in Int, NEW n \in Int PROVE EstimatePdf(used, n) \in Int
    OBVIOUS
<1>1. Lower(n, AtLeast0(Tier1Pages - used)) \in Int
  BY Prices DEF Lower, AtLeast0
<1>2. Tier1Price \in Int /\ Tier2Price \in Int
  BY Prices
<1> DEFINE t == Lower(n, AtLeast0(Tier1Pages - used))
<1>3. Tier1Price * t \in Int /\ Tier2Price * (n - t) \in Int
  <2>1. t \in Int /\ n - t \in Int
    BY <1>1
  <2> HIDE DEF t
  <2> QED
    BY <1>2, <2>1, ProductInt
<1> HIDE DEF t
<1>4. Tier1Price * t + Tier2Price * (n - t) \in Int
  BY <1>3
<1> QED
  BY <1>4 DEF EstimatePdf, t

LEMMA CostInt == ASSUME TypeOK, NEW c \in Charges PROVE Cost(c) \in Int
BY Prices, EstimateInt DEF Cost, TypeOK, ChargeTypeOK

LEMMA OverageInt ==
    ASSUME TypeOK, NEW c \in Charges PROVE Billable(c) \in Int /\ OverRate * Billable(c) \in Int
<1>1. Billable(c) \in Int
  BY Prices DEF Billable, AtLeast0, TypeOK, PlanTypeOK
<1> QED
  BY <1>1, Prices, ProductInt

-----------------------------------------------------------------------------
(* Types *)

LEMMA InitType == Init => TypeOK
BY Prices DEF Init, TypeOK, WalletTypeOK, PlanTypeOK, ChargeTypeOK, TopupTypeOK, Entry,
              ChargePc, NoSub

LEMMA PostType ==
    ASSUME WalletTypeOK, NEW via \in {"pages", "plan", "fee", "renewal", "admin", "slip"},
           NEW of \in Charges \cup Requests \cup {NoOne}, NEW amount \in Int,
           NEW pages \in Nat, Post(via, of, amount, pages)
    PROVE  WalletTypeOK'
<1>1. balance + amount \in Int
  BY DEF WalletTypeOK
<1>2. [via |-> via, of |-> of, amount |-> amount, pages |-> pages,
       after |-> balance + amount] \in Entry
  BY <1>1 DEF Entry
<1> QED
  BY <1>1, <1>2 DEF Post, WalletTypeOK

LEMMA GotoType ==
    ASSUME ChargeTypeOK, NEW c \in Charges, NEW from, NEW to \in ChargePc,
           Goto(c, from, to)
    PROVE  charge' \in [Charges -> ChargePc]
BY DEF Goto, ChargeTypeOK

LEMMA RenewType ==
    ASSUME WalletTypeOK, PlanTypeOK, RenewOrExpire PROVE WalletTypeOK' /\ PlanTypeOK'
<1>1. CASE ~sub.row \/ sub.inCycle
  BY <1>1 DEF RenewOrExpire, walletVars, WalletTypeOK, PlanTypeOK
<1>2. CASE ~(~sub.row \/ sub.inCycle) /\ (sub.cancelled \/ balance < Fee)
  <2>1. UNCHANGED <<balance, ledger, subLock, lapses>> /\ sub' = NoSub
    BY <1>2 DEF RenewOrExpire, walletVars
  <2>2. NoSub \in [row : BOOLEAN, inCycle : BOOLEAN, cancelled : BOOLEAN, used : Nat]
    BY DEF NoSub
  <2> QED
    BY <2>1, <2>2 DEF WalletTypeOK, PlanTypeOK
<1>3. CASE ~(~sub.row \/ sub.inCycle) /\ ~(sub.cancelled \/ balance < Fee)
  <2>1. Post("renewal", NoOne, -Fee, 0) /\ sub' = NewCycle /\ UNCHANGED <<subLock, lapses>>
    BY <1>3 DEF RenewOrExpire
  <2>2. WalletTypeOK'
    BY <2>1, PostType, Prices
  <2>3. PlanTypeOK'
    BY <2>1 DEF PlanTypeOK, NewCycle
  <2> QED
    BY <2>2, <2>3
<1> QED
  BY <1>1, <1>2, <1>3

LEMMA NextType == TypeOK /\ [Next]_vars => TypeOK'
<1> SUFFICES ASSUME TypeOK, [Next]_vars PROVE TypeOK'
    OBVIOUS
<1>0. WalletTypeOK /\ PlanTypeOK /\ ChargeTypeOK /\ TopupTypeOK
  BY DEF TypeOK
<1> USE Prices DEF walletVars, planVars, topupVars, chargeVars
<1>1. ASSUME NEW c \in Charges, Admit(c) PROVE TypeOK'
  BY <1>0, <1>1 DEF Admit, Goto, TypeOK, WalletTypeOK, PlanTypeOK, ChargeTypeOK, TopupTypeOK, ChargePc
<1>2. ASSUME NEW c \in Charges, ReadSubscription(c) PROVE TypeOK'
  BY <1>0, <1>2 DEF ReadSubscription, Goto, TypeOK, WalletTypeOK, PlanTypeOK, ChargeTypeOK, TopupTypeOK, ChargePc
<1>3. ASSUME NEW c \in Charges, RenewForCharge(c) PROVE TypeOK'
  <2>1. charge' \in [Charges -> ChargePc] /\ UNCHANGED <<topupVars, seen, usage, month>>
    BY <1>0, <1>3 DEF RenewForCharge, Goto, ChargeTypeOK, ChargePc
  <2>2. WalletTypeOK' /\ PlanTypeOK'
    <3>1. CASE RenewOrExpire
      BY <3>1, <1>0, RenewType
    <3>2. CASE UNCHANGED <<walletVars, planVars>>
      BY <3>2, <1>0 DEF WalletTypeOK, PlanTypeOK
    <3> QED
      BY <3>1, <3>2, <1>3 DEF RenewForCharge
  <2> QED
    BY <1>0, <2>1, <2>2 DEF TypeOK, ChargeTypeOK, TopupTypeOK
<1>4. ASSUME NEW c \in Charges, ConsumeQuota(c) PROVE TypeOK'
  <2>1. ChargeTypeOK'
    <3>1. charge' \in [Charges -> ChargePc]
      BY <1>0, <1>4 DEF ConsumeQuota, Goto, ChargeTypeOK, ChargePc
    <3>2. seen' \in [Charges -> Int] /\ UNCHANGED <<usage, month>>
      BY <1>0, <1>4 DEF ConsumeQuota, ChargeTypeOK, WalletTypeOK
    <3> QED
      BY <1>0, <3>1, <3>2 DEF ChargeTypeOK
  <2>2. PlanTypeOK'
    BY <1>0, <1>4 DEF ConsumeQuota, PlanTypeOK
  <2>3. WalletTypeOK'
    <3>1. CASE UNCHANGED walletVars
      BY <3>1, <1>0 DEF WalletTypeOK
    <3>2. CASE Post("plan", c, -(OverRate * Billable(c)), Pages[c])
      <4>1. -(OverRate * Billable(c)) \in Int
        BY OverageInt
      <4> QED
        BY <4>1, <3>2, <1>0, PostType
    <3> QED
      BY <3>1, <3>2, <1>4 DEF ConsumeQuota
  <2> QED
    BY <1>0, <1>4, <2>1, <2>2, <2>3 DEF ConsumeQuota, TypeOK, TopupTypeOK
<1>5. ASSUME NEW c \in Charges, PostFree(c) PROVE TypeOK'
  <2>1. ChargeTypeOK' /\ PlanTypeOK' /\ TopupTypeOK'
    <3>1. ChargeTypeOK'
      BY <1>0, <1>5 DEF PostFree, Goto, ChargeTypeOK, ChargePc
    <3>2. PlanTypeOK'
      <4>1. Pages[c] \in Nat
        OBVIOUS
      <4>2. sub' = [sub EXCEPT !.used = @ + Pages[c]] /\ subLock' = NoOne /\ lapses' = lapses
        BY <1>5 DEF PostFree
      <4> QED
        BY <1>0, <4>1, <4>2 DEF PlanTypeOK
    <3>3. TopupTypeOK'
      BY <1>0, <1>5 DEF PostFree, TopupTypeOK
    <3> QED
      BY <3>1, <3>2, <3>3
  <2>2. [via |-> "plan", of |-> c, amount |-> 0, pages |-> Pages[c], after |-> seen[c]] \in Entry
    BY <1>0 DEF Entry, ChargeTypeOK
  <2>3. WalletTypeOK'
    BY <1>0, <1>5, <2>2 DEF PostFree, WalletTypeOK
  <2> QED
    BY <2>1, <2>3 DEF TypeOK
<1>6. ASSUME NEW c \in Charges, ReadUsage(c) PROVE TypeOK'
  BY <1>0, <1>6 DEF ReadUsage, Goto, TypeOK, WalletTypeOK, PlanTypeOK, ChargeTypeOK, TopupTypeOK, ChargePc
<1>7. ASSUME NEW c \in Charges, PostCharge(c) PROVE TypeOK'
  <2>1. ChargeTypeOK' /\ PlanTypeOK' /\ TopupTypeOK'
    BY <1>0, <1>7 DEF PostCharge, Goto, ChargeTypeOK, ChargePc, PlanTypeOK, TopupTypeOK
  <2>2. WalletTypeOK'
    <3>1. CASE UNCHANGED walletVars
      BY <3>1, <1>0 DEF WalletTypeOK
    <3>2. CASE Post("pages", c, -Cost(c), IF IsPdf[c] THEN Pages[c] ELSE 0)
      <4>1. -Cost(c) \in Int /\ (IF IsPdf[c] THEN Pages[c] ELSE 0) \in Nat
        BY CostInt
      <4> QED
        BY <4>1, <3>2, <1>0, PostType
    <3> QED
      BY <3>1, <3>2, <1>7 DEF PostCharge
  <2> QED
    BY <2>1, <2>2 DEF TypeOK
<1>8. ASSUME NEW c \in Charges, ChargeFails(c) PROVE TypeOK'
  BY <1>0, <1>8 DEF ChargeFails, Goto, TypeOK, WalletTypeOK, PlanTypeOK, ChargeTypeOK, TopupTypeOK, ChargePc
<1>9. ASSUME NEW r \in Requests, RequestTopup(r) \/ RejectRead(r) \/ RejectWrite(r) PROVE TypeOK'
  BY <1>0, <1>9 DEF RequestTopup, RejectRead, RejectWrite, TypeOK, WalletTypeOK, PlanTypeOK, ChargeTypeOK, TopupTypeOK
<1>10. ASSUME NEW r \in Requests, Approve(r) PROVE TypeOK'
  <2>1. WalletTypeOK'
    BY <1>0, <1>10, PostType DEF Approve
  <2> QED
    BY <1>0, <1>10, <2>1 DEF Approve, TypeOK, PlanTypeOK, ChargeTypeOK, TopupTypeOK
<1>11. ASSUME NEW u \in Uploads, UploadSlip(u) \/ SlipUnverified(u) PROVE TypeOK'
  BY <1>0, <1>11 DEF UploadSlip, SlipUnverified, TypeOK, WalletTypeOK, PlanTypeOK, ChargeTypeOK, TopupTypeOK
<1>12. ASSUME NEW u \in Uploads, SlipVerified(u) PROVE TypeOK'
  <2>0. RequestOf[u] \in Requests
    OBVIOUS
  <2>1. WalletTypeOK'
    BY <1>0, <1>12, <2>0, PostType DEF SlipVerified
  <2> QED
    BY <1>0, <1>12, <2>0, <2>1 DEF SlipVerified, TypeOK, PlanTypeOK, ChargeTypeOK, TopupTypeOK
<1>13. CASE ViewSubscription
  BY <1>0, <1>13, RenewType DEF ViewSubscription, TypeOK, ChargeTypeOK, TopupTypeOK
<1>14. CASE Subscribe
  <2>1. WalletTypeOK'
    BY <1>0, <1>14, PostType DEF Subscribe
  <2> QED
    BY <1>0, <1>14, <2>1 DEF Subscribe, NewCycle, TypeOK, PlanTypeOK, ChargeTypeOK, TopupTypeOK
<1>15. CASE Cancel \/ CycleEnds \/ MonthEnds
  <2>1. WalletTypeOK' /\ TopupTypeOK'
    BY <1>0, <1>15 DEF Cancel, CycleEnds, MonthEnds, WalletTypeOK, TopupTypeOK
  <2>2. ChargeTypeOK'
    BY <1>0, <1>15 DEF Cancel, CycleEnds, MonthEnds, ChargeTypeOK
  <2>3. PlanTypeOK'
    <3>1. subLock' = subLock /\ lapses' \in 0..MaxLapses
      BY <1>0, <1>15 DEF Cancel, CycleEnds, MonthEnds, PlanTypeOK
    <3>2. \/ sub' = sub \/ sub' = [sub EXCEPT !.cancelled = TRUE]
          \/ sub' = [sub EXCEPT !.inCycle = FALSE]
      BY <1>15 DEF Cancel, CycleEnds, MonthEnds
    <3> QED
      BY <1>0, <3>1, <3>2 DEF PlanTypeOK
  <2> QED
    BY <2>1, <2>2, <2>3 DEF TypeOK
<1>16. CASE UNCHANGED vars
  BY <1>0, <1>16 DEF vars, TypeOK, WalletTypeOK, PlanTypeOK, ChargeTypeOK, TopupTypeOK
<1> QED
  BY <1>1, <1>2, <1>3, <1>4, <1>5, <1>6, <1>7, <1>8, <1>9, <1>10, <1>11, <1>12, <1>13,
     <1>14, <1>15, <1>16 DEF Next, ChargeStep, RequestStep, UploadStep

(* TypeOK for every value of the constants.                                *)
THEOREM CreditsTypes == Spec => []TypeOK
<1> QED
  BY InitType, NextType, PTL DEF Spec

-----------------------------------------------------------------------------
(* Every step leaves the wallet alone or adds one line to the ledger.      *)

Added(e) ==
    /\ ledger' = Append(ledger, e)
    /\ balance' = balance + e.amount
    /\ e.amount # 0 => e.after = balance'

\* What the line of each kind comes with.
Kinds(e) ==
    /\ e.via \in {"fee", "renewal"} => e.after >= 0
    /\ e.via = "renewal" =>
           /\ e.of = NoOne /\ sub.row /\ ~sub.inCycle /\ sub' = NewCycle
           /\ UNCHANGED lapses
    /\ e.via \in {"admin", "slip"} => e.of \in Requests /\ request'[e.of] = "approved"
    /\ e.via = "admin" => request[e.of] = "pending"
    /\ e.via \in {"pages", "plan"} =>
           e.of \in Charges /\ charge[e.of] # "done" /\ charge'[e.of] = "done"

OneLine(e) == e \in Entry /\ Added(e) /\ Kinds(e)

LEMMA PostLine ==
    ASSUME WalletTypeOK, NEW via \in {"pages", "plan", "fee", "renewal", "admin", "slip"},
           NEW of \in Charges \cup Requests \cup {NoOne}, NEW amount \in Int,
           NEW pages \in Nat, Post(via, of, amount, pages)
    PROVE  \E e \in Entry : /\ Added(e) /\ e.via = via /\ e.of = of
                             /\ e.after = balance + amount
<1> DEFINE e == [via |-> via, of |-> of, amount |-> amount, pages |-> pages,
                 after |-> balance + amount]
<1>1. balance + amount \in Int
  BY DEF WalletTypeOK
<1>2. e \in Entry
  BY <1>1 DEF Entry
<1>3. Added(e)
  BY DEF Added, Post
<1> QED
  BY <1>2, <1>3

LEMMA RenewLine ==
    ASSUME TypeOK, RenewOrExpire
    PROVE  UNCHANGED walletVars \/ \E e \in Entry : OneLine(e)
<1>1. CASE ~(~sub.row \/ sub.inCycle) /\ ~(sub.cancelled \/ balance < Fee)
  <2>1. Post("renewal", NoOne, -Fee, 0) /\ sub' = NewCycle /\ UNCHANGED lapses
    BY <1>1 DEF RenewOrExpire
  <2>2. PICK e \in Entry : /\ Added(e) /\ e.via = "renewal" /\ e.of = NoOne
                           /\ e.after = balance + (-Fee)
    BY <2>1, PostLine, Prices DEF TypeOK
  <2>3. e.after >= 0
    BY <2>2, <1>1, Prices DEF TypeOK, WalletTypeOK
  <2>4. Kinds(e)
    BY <1>1, <2>1, <2>2, <2>3 DEF Kinds
  <2> QED
    BY <2>2, <2>4 DEF OneLine
<1>2. CASE ~sub.row \/ sub.inCycle \/ sub.cancelled \/ balance < Fee
  BY <1>2 DEF RenewOrExpire, walletVars
<1> QED
  BY <1>1, <1>2

LEMMA StepLine ==
    ASSUME TypeOK, [Next]_vars
    PROVE  UNCHANGED walletVars \/ \E e \in Entry : OneLine(e)
<1>0. WalletTypeOK /\ PlanTypeOK /\ ChargeTypeOK /\ TopupTypeOK
  BY DEF TypeOK
<1>1. ASSUME NEW c \in Charges, RenewForCharge(c) \/ ViewSubscription
      PROVE  UNCHANGED walletVars \/ \E e \in Entry : OneLine(e)
  BY <1>1, RenewLine DEF RenewForCharge, ViewSubscription
<1>2. ASSUME NEW c \in Charges, ConsumeQuota(c)
      PROVE  UNCHANGED walletVars \/ \E e \in Entry : OneLine(e)
  <2>1. CASE Post("plan", c, -(OverRate * Billable(c)), Pages[c]) /\ Goto(c, "plan", "done")
    <3>1. -(OverRate * Billable(c)) \in Int /\ Pages[c] \in Nat
      BY OverageInt, Prices
    <3>2. PICK e \in Entry : Added(e) /\ e.via = "plan" /\ e.of = c
      BY <1>0, <2>1, <3>1, PostLine
    <3>3. charge[c] # "done" /\ charge'[c] = "done"
      BY <1>0, <2>1 DEF Goto, ChargeTypeOK
    <3> QED
      BY <3>2, <3>3 DEF OneLine, Kinds
  <2> QED
    BY <1>2, <2>1 DEF ConsumeQuota, walletVars
<1>3. ASSUME NEW c \in Charges, PostFree(c) PROVE \E e \in Entry : OneLine(e)
  <2> DEFINE e == [via |-> "plan", of |-> c, amount |-> 0, pages |-> Pages[c], after |-> seen[c]]
  <2>1. e \in Entry
    BY <1>0, Prices DEF Entry, ChargeTypeOK
  <2>2. Added(e)
    BY <1>0, <1>3 DEF PostFree, Added, WalletTypeOK
  <2>3. charge[c] # "done" /\ charge'[c] = "done"
    BY <1>0, <1>3 DEF PostFree, Goto, ChargeTypeOK
  <2>4. Kinds(e)
    BY <2>3 DEF Kinds
  <2> QED
    BY <2>1, <2>2, <2>4 DEF OneLine
<1>4. ASSUME NEW c \in Charges, PostCharge(c)
      PROVE  UNCHANGED walletVars \/ \E e \in Entry : OneLine(e)
  <2>1. CASE Post("pages", c, -Cost(c), IF IsPdf[c] THEN Pages[c] ELSE 0)
    <3>1. -Cost(c) \in Int /\ (IF IsPdf[c] THEN Pages[c] ELSE 0) \in Nat
      BY CostInt, Prices
    <3>2. PICK e \in Entry : Added(e) /\ e.via = "pages" /\ e.of = c
      BY <1>0, <2>1, <3>1, PostLine
    <3>3. charge[c] # "done" /\ charge'[c] = "done"
      BY <1>0, <1>4 DEF PostCharge, Goto, ChargeTypeOK
    <3> QED
      BY <3>2, <3>3 DEF OneLine, Kinds
  <2> QED
    BY <1>4, <2>1 DEF PostCharge, walletVars
<1>5. ASSUME NEW r \in Requests, Approve(r) PROVE \E e \in Entry : OneLine(e)
  <2>1. PICK a \in Amounts : Post("admin", r, a, 0)
    BY <1>5 DEF Approve
  <2>2. PICK e \in Entry : Added(e) /\ e.via = "admin" /\ e.of = r
    BY <1>0, <2>1, PostLine, Prices
  <2>3. request[r] = "pending" /\ request'[r] = "approved"
    BY <1>0, <1>5 DEF Approve, TopupTypeOK
  <2> QED
    BY <2>2, <2>3 DEF OneLine, Kinds
<1>6. ASSUME NEW u \in Uploads, SlipVerified(u) PROVE \E e \in Entry : OneLine(e)
  <2>0. RequestOf[u] \in Requests
    BY Prices
  <2>1. PICK a \in Amounts : Post("slip", RequestOf[u], a, 0)
    BY <1>6 DEF SlipVerified
  <2>2. PICK e \in Entry : Added(e) /\ e.via = "slip" /\ e.of = RequestOf[u]
    BY <1>0, <2>0, <2>1, PostLine, Prices
  <2>3. request'[RequestOf[u]] = "approved"
    BY <1>0, <1>6, <2>0 DEF SlipVerified, TopupTypeOK
  <2> QED
    BY <2>0, <2>2, <2>3 DEF OneLine, Kinds
<1>7. CASE Subscribe
  <2>1. PICK e \in Entry : Added(e) /\ e.via = "fee" /\ e.after = balance + (-Fee)
    BY <1>0, <1>7, PostLine, Prices DEF Subscribe
  <2>2. e.after >= 0
    BY <1>0, <1>7, <2>1, Prices DEF Subscribe, WalletTypeOK
  <2> QED
    BY <2>1, <2>2 DEF OneLine, Kinds
<1>8. CASE ViewSubscription
  BY <1>8, RenewLine DEF ViewSubscription
<1>9. CASE UNCHANGED vars
  BY <1>9 DEF vars, walletVars
<1> QED
  BY <1>1, <1>2, <1>3, <1>4, <1>5, <1>6, <1>7, <1>8, <1>9
  DEF Next, ChargeStep, RequestStep, UploadStep, Admit, ReadSubscription, ReadUsage, ChargeFails,
      RequestTopup, RejectRead, RejectWrite, UploadSlip, SlipUnverified, Cancel, CycleEnds,
      MonthEnds, walletVars
LEMMA LineAt ==
    ASSUME TypeOK, NEW e \in Entry, Added(e)
    PROVE  /\ Len(ledger) \in Nat /\ DOMAIN ledger = 1..Len(ledger)
           /\ Len(ledger') = Len(ledger) + 1 /\ DOMAIN ledger' = 1..(Len(ledger) + 1)
           /\ ledger'[Len(ledger) + 1] = e
           /\ \A i \in 1..Len(ledger) : ledger'[i] = ledger[i] /\ ledger[i] \in Entry
BY DEF Added, TypeOK, WalletTypeOK

-----------------------------------------------------------------------------
(* The ledger chains: the last line that moved money shows the balance.    *)

LastIsBalance ==
    \/ NoneMoves(1, Len(ledger)) /\ balance = 0
    \/ \E k \in 1..Len(ledger) :
           Moves(k) /\ NoneMoves(k + 1, Len(ledger)) /\ ledger[k].after = balance

ChainInv == LinesChain /\ LastIsBalance

LEMMA ChainStep == TypeOK /\ ChainInv /\ [Next]_vars => ChainInv'
<1> SUFFICES ASSUME TypeOK, ChainInv, [Next]_vars PROVE ChainInv'
    OBVIOUS
<1>1. CASE UNCHANGED walletVars
  BY <1>1 DEF ChainInv, LinesChain, LastIsBalance, Moves, NoneMoves, walletVars
<1>2. ASSUME NEW e \in Entry, OneLine(e) PROVE ChainInv'
  <2>0. Added(e)
    BY <1>2 DEF OneLine
  <2>1. PICK n \in Nat :
        /\ n = Len(ledger) /\ DOMAIN ledger = 1..n /\ DOMAIN ledger' = 1..(n + 1)
        /\ ledger'[n + 1] = e /\ \A i \in 1..n : ledger'[i] = ledger[i]
        /\ Len(ledger') = n + 1
    BY <2>0, LineAt
  <2>2. \A i \in 1..n : Moves(i)' <=> Moves(i)
    BY <2>1 DEF Moves
  <2>3. Moves(n + 1)' <=> e.amount # 0
    BY <2>1 DEF Moves
  <2>4. \A a \in Nat \ {0}, b \in 0..n : NoneMoves(a, b)' <=> NoneMoves(a, b)
    BY <2>1, <2>2 DEF NoneMoves
  <2>5. \/ NoneMoves(1, n) /\ balance = 0
        \/ \E k \in 1..n : Moves(k) /\ NoneMoves(k + 1, n) /\ ledger[k].after = balance
    BY <2>1 DEF ChainInv, LastIsBalance
  <2>6. LinesChain'
    <3> SUFFICES ASSUME NEW i \in DOMAIN ledger', Moves(i)'
        PROVE  \/ NoneMoves(1, i - 1)' /\ ledger'[i].after = ledger'[i].amount
               \/ \E k \in 1..(i - 1) :
                      /\ Moves(k)' /\ NoneMoves(k + 1, i - 1)'
                      /\ ledger'[i].after = ledger'[k].after + ledger'[i].amount
      BY DEF LinesChain
    <3>1. CASE i \in 1..n
      <4>1. \/ NoneMoves(1, i - 1) /\ ledger[i].after = ledger[i].amount
            \/ \E k \in 1..(i - 1) :
                   /\ Moves(k) /\ NoneMoves(k + 1, i - 1)
                   /\ ledger[i].after = ledger[k].after + ledger[i].amount
        BY <2>1, <2>2, <3>1 DEF ChainInv, LinesChain
      <4>2. i - 1 \in 0..n /\ i \in Nat /\ \A k \in 1..(i - 1) : k \in 1..n /\ k + 1 \in Nat \ {0}
        BY <2>1, <3>1
      <4> QED
        BY <2>1, <2>2, <2>4, <3>1, <4>1, <4>2
    <3>2. CASE i = n + 1
      <4>1. e.after = balance + e.amount /\ ledger'[i] = e /\ i - 1 = n /\ n \in 0..n
        BY <2>0, <2>1, <2>3, <3>2 DEF Added
      <4>2. CASE NoneMoves(1, n) /\ balance = 0
        <5>1. e.amount \in Int
          BY DEF Entry
        <5> QED
          BY <2>1, <2>4, <4>1, <4>2, <5>1
      <4>3. ASSUME NEW k \in 1..n, Moves(k), NoneMoves(k + 1, n), ledger[k].after = balance
            PROVE  \E m \in 1..(i - 1) :
                      /\ Moves(m)' /\ NoneMoves(m + 1, i - 1)'
                      /\ ledger'[i].after = ledger'[m].after + ledger'[i].amount
        <5>1. k \in 1..(i - 1) /\ k + 1 \in Nat \ {0}
          BY <2>1, <4>1
        <5>2. Moves(k)' /\ NoneMoves(k + 1, i - 1)'
          BY <2>2, <2>4, <4>1, <4>3, <5>1
        <5>3. ledger'[i].after = ledger'[k].after + ledger'[i].amount
          BY <2>1, <4>1, <4>3
        <5> QED
          BY <5>1, <5>2, <5>3
      <4> QED
        BY <2>5, <4>2, <4>3
    <3> QED
      BY <2>1, <3>1, <3>2
  <2>7. LastIsBalance'
    <3>1. CASE e.amount = 0
      <4>1. balance' = balance
        BY <2>0, <3>1 DEF Added, TypeOK, WalletTypeOK
      <4>2. ~Moves(n + 1)'
        BY <2>3, <3>1
      <4>3. \A a \in 1..(n + 1) : NoneMoves(a, n) => NoneMoves(a, n + 1)'
        BY <2>1, <2>2, <4>2 DEF NoneMoves
      <4>4. CASE NoneMoves(1, n) /\ balance = 0
        BY <2>1, <4>1, <4>3, <4>4 DEF LastIsBalance
      <4>5. ASSUME NEW k \in 1..n, Moves(k), NoneMoves(k + 1, n), ledger[k].after = balance
            PROVE  LastIsBalance'
        <5>1. k \in 1..(n + 1) /\ k + 1 \in 1..(n + 1)
          BY <2>1
        <5>2. Moves(k)' /\ NoneMoves(k + 1, n + 1)' /\ ledger'[k].after = balance'
          BY <2>1, <2>2, <4>1, <4>3, <4>5, <5>1
        <5> QED
          BY <2>1, <5>1, <5>2 DEF LastIsBalance
      <4> QED
        BY <2>5, <4>4, <4>5
    <3>2. CASE e.amount # 0
      <4>1. Moves(n + 1)' /\ ledger'[n + 1].after = balance' /\ n + 1 \in 1..(n + 1)
        BY <2>0, <2>1, <2>3, <3>2 DEF Added
      <4>2. NoneMoves(n + 1 + 1, n + 1)'
        BY <2>1 DEF NoneMoves
      <4> QED
        BY <2>1, <4>1, <4>2 DEF LastIsBalance
    <3> QED
      BY <3>1, <3>2
  <2> QED
    BY <2>6, <2>7 DEF ChainInv
<1> QED
  BY <1>1, <1>2, StepLine

(* Whatever runs at once, each line that moves money continues the balance *)
(* of the one before it.                                                   *)
THEOREM CreditsLinesChain == Spec => []LinesChain
<1>1. Init => ChainInv
  BY DEF Init, ChainInv, LinesChain, LastIsBalance, NoneMoves
<1>2. Init => TypeOK /\ ChainInv
  BY <1>1, InitType
<1>3. TypeOK /\ ChainInv /\ [Next]_vars => (TypeOK /\ ChainInv)'
  BY NextType, ChainStep
<1>4. ChainInv => LinesChain
  BY DEF ChainInv
<1> QED
  BY <1>2, <1>3, <1>4, PTL DEF Spec

(* Money moves only with a line that states the amount.                    *)
THEOREM CreditsIsAccount == Spec => WalletIsAccount
<1>1. Init => Wallet!Init
  BY DEF Init, Wallet!Init
<1>2. TypeOK /\ [Next]_vars => [Wallet!Next]_(<<balance, [i \in DOMAIN ledger |-> ledger[i].amount]>>)
  <2> SUFFICES ASSUME TypeOK, [Next]_vars
      PROVE  [Wallet!Next]_(<<balance, [i \in DOMAIN ledger |-> ledger[i].amount]>>)
    OBVIOUS
  <2>1. CASE UNCHANGED walletVars
    BY <2>1 DEF walletVars
  <2>2. ASSUME NEW e \in Entry, OneLine(e) PROVE Wallet!Next
    <3>1. Added(e)
      BY <2>2 DEF OneLine
    <3> DEFINE n == Len(ledger)
               p == [i \in DOMAIN ledger |-> ledger[i].amount]
               q == [i \in DOMAIN ledger' |-> ledger'[i].amount]
    <3>2. /\ n \in Nat /\ DOMAIN ledger = 1..n /\ DOMAIN ledger' = 1..(n + 1)
          /\ ledger'[n + 1] = e
          /\ \A i \in 1..n : ledger'[i] = ledger[i] /\ ledger[i] \in Entry
      BY <3>1, LineAt
    <3>3. e.amount \in Int /\ balance' - balance = e.amount
      BY <3>1 DEF Added, Entry, TypeOK, WalletTypeOK
    <3>4. p \in Seq(Int) /\ Len(p) = n
      BY <3>2 DEF Entry
    <3>5. q = Append(p, e.amount)
      <4>1. DOMAIN Append(p, e.amount) = 1..(n + 1)
        BY <3>2, <3>3, <3>4
      <4>2. \A i \in 1..(n + 1) : Append(p, e.amount)[i] = q[i]
        <5>1. ASSUME NEW i \in 1..n PROVE Append(p, e.amount)[i] = q[i]
          <6>1. Append(p, e.amount)[i] = p[i] /\ i \in 1..(n + 1)
            BY <3>2, <3>3, <3>4
          <6> QED
            BY <6>1, <3>2
        <5>2. Append(p, e.amount)[n + 1] = q[n + 1]
          <6>1. Append(p, e.amount)[n + 1] = e.amount /\ n + 1 \in 1..(n + 1)
            BY <3>2, <3>3, <3>4
          <6> QED
            BY <6>1, <3>2
        <5> QED
          BY <5>1, <5>2, <3>2
      <4>3. Append(p, e.amount) \in Seq(Int)
        BY <3>3, <3>4
      <4>4. Append(p, e.amount) = [i \in 1..(n + 1) |-> Append(p, e.amount)[i]]
        BY <4>1, <4>3, <3>2, <3>4, <3>3
      <4>5. q = [i \in 1..(n + 1) |-> q[i]]
        BY <3>2
      <4> HIDE DEF p, q, n
      <4> QED
        BY <4>2, <4>4, <4>5
    <3> QED
      BY <3>3, <3>5 DEF Wallet!Next
  <2> QED
    BY <2>1, <2>2, StepLine
<1> QED
  BY <1>1, <1>2, CreditsTypes, PTL DEF Spec, WalletIsAccount, Wallet!Spec

(* No fee is taken from money that is not there.                           *)
THEOREM CreditsFeeCovered == Spec => []FeeCovered
<1>1. Init => FeeCovered
  BY DEF Init, FeeCovered
<1>2. TypeOK /\ FeeCovered /\ [Next]_vars => FeeCovered'
  <2> SUFFICES ASSUME TypeOK, FeeCovered, [Next]_vars PROVE FeeCovered'
    OBVIOUS
  <2>1. CASE UNCHANGED walletVars
    BY <2>1 DEF walletVars, FeeCovered
  <2>2. ASSUME NEW e \in Entry, OneLine(e) PROVE FeeCovered'
    BY <2>2, LineAt DEF OneLine, Kinds, FeeCovered
  <2> QED
    BY <2>1, <2>2, StepLine
<1> QED
  BY <1>1, <1>2, CreditsTypes, PTL DEF Spec

-----------------------------------------------------------------------------
(* How many lines a request, a charge or a cycle has.                      *)

LEMMA LinesSame ==
    ASSUME UNCHANGED walletVars, NEW via, NEW of PROVE Lines(via, of)' = Lines(via, of)
BY DEF Lines, walletVars

LEMMA LinesAdded ==
    ASSUME TypeOK, NEW e \in Entry, Added(e), NEW via, NEW of
    PROVE  /\ e.via \in via /\ e.of = of =>
                  /\ Lines(via, of)' = Lines(via, of) \cup {Len(ledger) + 1}
                  /\ Len(ledger) + 1 \notin Lines(via, of)
           /\ ~(e.via \in via /\ e.of = of) => Lines(via, of)' = Lines(via, of)
           /\ Lines(via, of) \subseteq 1..Len(ledger)
<1>1. PICK n \in Nat :
        /\ n = Len(ledger) /\ DOMAIN ledger = 1..n /\ DOMAIN ledger' = 1..(n + 1)
        /\ ledger'[n + 1] = e /\ \A i \in 1..n : ledger'[i] = ledger[i]
  BY LineAt
<1>2. /\ n + 1 \notin 1..n
      /\ \A i \in 1..(n + 1) : i \in 1..n \/ i = n + 1
      /\ n + 1 \in 1..(n + 1) /\ \A i \in 1..n : i \in 1..(n + 1)
  OBVIOUS
<1> QED
  BY <1>1, <1>2 DEF Lines

LEMMA LinesFinite == ASSUME TypeOK, NEW via, NEW of PROVE IsFiniteSet(Lines(via, of))
<1>1. Len(ledger) \in Nat /\ DOMAIN ledger = 1..Len(ledger)
  BY DEF TypeOK, WalletTypeOK
<1>2. Lines(via, of) \subseteq 1..Len(ledger)
  BY <1>1 DEF Lines
<1>3. IsFiniteSet(1..Len(ledger))
  BY <1>1, FS_Interval
<1> QED
  BY <1>2, <1>3, FS_Subset

\* A line more, a set of lines counted once more.
LEMMA OneMore ==
    ASSUME TypeOK, NEW e \in Entry, Added(e), NEW via, NEW of, e.via \in via, e.of = of
    PROVE  /\ Cardinality(Lines(via, of)) \in Nat
           /\ Cardinality(Lines(via, of)') = Cardinality(Lines(via, of)) + 1
BY LinesFinite, LinesAdded, FS_AddElement, FS_CardinalityType

-----------------------------------------------------------------------------
(* Charges *)

UnpostedInv == \A c \in Charges : charge[c] # "done" => Lines({"pages", "plan"}, c) = {}

ChargedInv == UnpostedInv /\ ChargedOnce

\* done is the last place of a charge.
LEMMA DoneStays ==
    ASSUME TypeOK, [Next]_vars, NEW c \in Charges, charge[c] = "done" PROVE charge'[c] = "done"
<1>1. ASSUME NEW d \in Charges, NEW from, NEW to, from # "done", Goto(d, from, to)
      PROVE  charge'[c] = "done"
  BY <1>1 DEF Goto, TypeOK, ChargeTypeOK
<1>2. CASE charge' = charge
  BY <1>2
<1> QED
  BY <1>1, <1>2 DEF Next, vars, ChargeStep, RequestStep, UploadStep, Admit, ReadSubscription,
     RenewForCharge, ConsumeQuota, PostFree, ReadUsage, PostCharge, ChargeFails, ViewSubscription,
     Subscribe, Cancel, CycleEnds, MonthEnds, RequestTopup, Approve, RejectRead, RejectWrite,
     UploadSlip, SlipVerified, SlipUnverified, chargeVars

LEMMA ChargedStep == TypeOK /\ ChargedInv /\ [Next]_vars => ChargedInv'
<1> SUFFICES ASSUME TypeOK, ChargedInv, [Next]_vars, NEW c \in Charges
    PROVE  LET lines == Lines({"pages", "plan"}, c)'
           IN  /\ charge'[c] # "done" => lines = {}
               /\ Cardinality(lines) <= 1
               /\ lines # {} => charge'[c] = "done"
  BY DEF ChargedInv, UnpostedInv, ChargedOnce
<1> DEFINE L == Lines({"pages", "plan"}, c)
<1>0. /\ charge[c] # "done" => L = {}
      /\ Cardinality(L) <= 1
      /\ L # {} => charge[c] = "done"
  BY DEF ChargedInv, UnpostedInv, ChargedOnce
<1>1. charge'[c] # "done" => charge[c] # "done"
  BY DoneStays
<1>2. ASSUME NEW e \in Entry, OneLine(e), e.via \in {"pages", "plan"}, e.of = c
      PROVE  Cardinality(L') <= 1 /\ charge'[c] = "done"
  <2>1. charge[c] # "done" /\ charge'[c] = "done" /\ Added(e)
    BY <1>2 DEF OneLine, Kinds
  <2>2. Cardinality(L') = Cardinality(L) + 1
    BY <1>2, <2>1, OneMore
  <2>3. Cardinality(L) = 0
    BY <1>0, <2>1, FS_EmptySet
  <2> QED
    BY <2>1, <2>2, <2>3
<1>3. ASSUME NEW e \in Entry, OneLine(e), ~(e.via \in {"pages", "plan"} /\ e.of = c)
      PROVE  L' = L
  BY <1>3, LinesAdded DEF OneLine
<1>4. \/ L' = L
      \/ Cardinality(L') <= 1 /\ charge'[c] = "done"
  BY <1>2, <1>3, StepLine, LinesSame
<1>5. CASE L' = L
  BY <1>0, <1>1, <1>5
<1>6. CASE Cardinality(L') <= 1 /\ charge'[c] = "done"
  BY <1>6
<1> QED
  BY <1>4, <1>5, <1>6

(* A piece of work is charged at most once.                                *)
THEOREM CreditsChargedOnce == Spec => []ChargedOnce
<1>1. Init => ChargedInv
  BY FS_EmptySet DEF Init, ChargedInv, UnpostedInv, ChargedOnce, Lines
<1>2. ChargedInv => ChargedOnce
  BY DEF ChargedInv
<1> QED
  BY <1>1, <1>2, ChargedStep, CreditsTypes, PTL DEF Spec

-----------------------------------------------------------------------------
(* Top-ups *)

TopupInv == ApprovedIsCredited /\ ApprovedOnce

\* How a status may change.
LEMMA StatusStep ==
    ASSUME TypeOK, [Next]_vars, NEW r \in Requests
    PROVE  /\ request'[r] \in {"none", "pending"} => request[r] \in {"none", "pending"}
           /\ request'[r] = "approved" /\ request[r] # "approved" =>
                  \/ Approve(r)
                  \/ \E u \in Uploads : RequestOf[u] = r /\ SlipVerified(u)
<1>0. request \in [Requests -> {"none", "pending", "approved", "rejected"}]
  BY DEF TypeOK, TopupTypeOK
<1>1. CASE request' = request
  BY <1>1
<1>2. ASSUME NEW q \in Requests, RequestTopup(q) \/ Approve(q) \/ RejectWrite(q)
      PROVE  /\ request'[r] \in {"none", "pending"} => request[r] \in {"none", "pending"}
             /\ request'[r] = "approved" /\ request[r] # "approved" => Approve(r)
  BY <1>0, <1>2 DEF RequestTopup, Approve, RejectWrite
<1>3. ASSUME NEW u \in Uploads, SlipVerified(u)
      PROVE  /\ request'[r] \in {"none", "pending"} => request[r] \in {"none", "pending"}
             /\ request'[r] = "approved" /\ request[r] # "approved" => RequestOf[u] = r
  BY <1>0, <1>3 DEF SlipVerified
<1> QED
  BY <1>1, <1>2, <1>3 DEF Next, vars, ChargeStep, RequestStep, UploadStep, Admit, ReadSubscription,
     RenewForCharge, ConsumeQuota, PostFree, ReadUsage, PostCharge, ChargeFails, ViewSubscription,
     Subscribe, Cancel, CycleEnds, MonthEnds, RejectRead, UploadSlip, SlipUnverified, topupVars

LEMMA CreditLine ==
    ASSUME TypeOK, NEW r \in Requests,
           \/ Approve(r)
           \/ \E u \in Uploads : RequestOf[u] = r /\ SlipVerified(u)
    PROVE  \E e \in Entry : Added(e) /\ e.via \in {"admin", "slip"} /\ e.of = r
<1>1. CASE Approve(r)
  BY <1>1, PostLine, Prices DEF Approve, TypeOK
<1>2. ASSUME NEW u \in Uploads, RequestOf[u] = r, SlipVerified(u)
      PROVE  \E e \in Entry : Added(e) /\ e.via \in {"admin", "slip"} /\ e.of = r
  BY <1>2, PostLine, Prices DEF SlipVerified, TypeOK
<1> QED
  BY <1>1, <1>2

LEMMA TopupStep == TypeOK /\ TopupInv /\ [Next]_vars => TopupInv'
<1> SUFFICES ASSUME TypeOK, TopupInv, [Next]_vars, NEW r \in Requests
    PROVE  LET credits == Lines({"admin", "slip"}, r)'
           IN  /\ request'[r] = "approved" => credits # {}
               /\ credits # {} => request'[r] \notin {"none", "pending"}
               /\ Cardinality(Lines({"admin"}, r)') <= 1
  BY DEF TopupInv, ApprovedIsCredited, ApprovedOnce
<1> DEFINE C == Lines({"admin", "slip"}, r)
           A == Lines({"admin"}, r)
<1>0. /\ request[r] = "approved" => C # {}
      /\ C # {} => request[r] \notin {"none", "pending"}
      /\ Cardinality(A) <= 1 /\ A \subseteq C
  BY DEF TopupInv, ApprovedIsCredited, ApprovedOnce, Lines
<1>1. C \subseteq C' /\ (C' = C \/ request'[r] = "approved")
  <2>1. ASSUME NEW e \in Entry, OneLine(e) PROVE C \subseteq C' /\ (C' = C \/ request'[r] = "approved")
    BY <2>1, LinesAdded DEF OneLine, Kinds
  <2> QED
    BY <2>1, StepLine, LinesSame
<1>2. request'[r] = "approved" => C' # {}
  <2>1. CASE request[r] = "approved"
    BY <1>0, <1>1, <2>1
  <2>2. CASE request'[r] = "approved" /\ request[r] # "approved"
    <3>1. PICK e \in Entry : Added(e) /\ e.via \in {"admin", "slip"} /\ e.of = r
      BY <2>2, StatusStep, CreditLine
    <3>2. C' = C \cup {Len(ledger) + 1}
      BY <3>1, LinesAdded
    <3> QED
      BY <3>2
  <2> QED
    BY <2>1, <2>2
<1>3. C' # {} => request'[r] \notin {"none", "pending"}
  BY <1>0, <1>1, StatusStep
<1>4. Cardinality(A') <= 1
  <2>1. CASE A' = A
    BY <1>0, <2>1
  <2>2. ASSUME NEW e \in Entry, OneLine(e), e.via = "admin", e.of = r PROVE Cardinality(A') <= 1
    <3>1. request[r] = "pending" /\ Added(e)
      BY <2>2 DEF OneLine, Kinds
    <3>2. A = {}
      BY <1>0, <3>1
    <3>3. Cardinality(A') = Cardinality(A) + 1
      BY <2>2, <3>1, OneMore
    <3> QED
      BY <3>2, <3>3, FS_EmptySet
  <2>3. ASSUME NEW e \in Entry, OneLine(e), ~(e.via = "admin" /\ e.of = r) PROVE A' = A
    BY <2>3, LinesAdded DEF OneLine
  <2> QED
    BY <2>1, <2>2, <2>3, StepLine, LinesSame
<1> QED
  BY <1>2, <1>3, <1>4

LEMMA InitTopup == Init => TopupInv
BY FS_EmptySet DEF Init, TopupInv, ApprovedIsCredited, ApprovedOnce, Lines

(* A request is credited exactly when it has been approved, though it may  *)
(* be rejected after that.                                                 *)
THEOREM CreditsApprovedIsCredited == Spec => []ApprovedIsCredited
<1>1. TopupInv => ApprovedIsCredited
  BY DEF TopupInv
<1> QED
  BY <1>1, InitTopup, TopupStep, CreditsTypes, PTL DEF Spec

(* An administrator credits a request at most once.                        *)
THEOREM CreditsApprovedOnce == Spec => []ApprovedOnce
<1>1. TopupInv => ApprovedOnce
  BY DEF TopupInv
<1> QED
  BY <1>1, InitTopup, TopupStep, CreditsTypes, PTL DEF Spec

-----------------------------------------------------------------------------
(* Renewals: one for each cycle that came to its end, with room for the    *)
(* one that is over and not renewed yet.                                   *)

Renewals == Cardinality(Lines({"renewal"}, NoOne))

RenewInv == Renewals <= lapses /\ (sub.row /\ ~sub.inCycle => Renewals < lapses)

LEMMA SubStep ==
    ASSUME TypeOK, [Next]_vars
    PROVE  \/ UNCHANGED lapses /\ (sub'.row /\ ~sub'.inCycle => sub.row /\ ~sub.inCycle)
           \/ lapses' = lapses + 1 /\ sub.row /\ sub.inCycle /\ UNCHANGED walletVars
<1>0. sub \in [row : BOOLEAN, inCycle : BOOLEAN, cancelled : BOOLEAN, used : Nat]
  BY DEF TypeOK, PlanTypeOK
<1>1. ASSUME RenewOrExpire
      PROVE  UNCHANGED lapses /\ (sub'.row /\ ~sub'.inCycle => sub.row /\ ~sub.inCycle)
  BY <1>1 DEF RenewOrExpire, NoSub, NewCycle
<1>2. ASSUME NEW c \in Charges, ConsumeQuota(c) \/ PostFree(c)
      PROVE  UNCHANGED lapses /\ (sub'.row /\ ~sub'.inCycle => sub.row /\ ~sub.inCycle)
  BY <1>0, <1>2 DEF ConsumeQuota, PostFree
<1>3. CASE Subscribe
  BY <1>3 DEF Subscribe, NewCycle
<1>4. CASE Cancel
  BY <1>0, <1>4 DEF Cancel
<1>5. CASE CycleEnds
  BY <1>5 DEF CycleEnds
<1> QED
  BY <1>1, <1>2, <1>3, <1>4, <1>5 DEF Next, vars, ChargeStep, RequestStep, UploadStep, Admit,
     ReadSubscription, RenewForCharge, ReadUsage, PostCharge, ChargeFails, ViewSubscription,
     MonthEnds, RequestTopup, Approve, RejectRead, RejectWrite, UploadSlip, SlipVerified,
     SlipUnverified, planVars

LEMMA RenewStep == TypeOK /\ RenewInv /\ [Next]_vars => RenewInv'
<1> SUFFICES ASSUME TypeOK, RenewInv, [Next]_vars PROVE RenewInv'
    OBVIOUS
<1>0. Renewals \in Nat /\ lapses \in Nat
  BY LinesFinite, FS_CardinalityType DEF Renewals, TypeOK, PlanTypeOK
<1>1. CASE Renewals' = Renewals
  BY <1>0, <1>1, SubStep DEF RenewInv
<1>2. ASSUME NEW e \in Entry, OneLine(e), e.via = "renewal" PROVE RenewInv'
  <2>1. /\ e.of = NoOne /\ sub.row /\ ~sub.inCycle /\ sub' = NewCycle
        /\ UNCHANGED lapses /\ Added(e)
    BY <1>2 DEF OneLine, Kinds
  <2>2. Renewals' = Renewals + 1
    BY <1>2, <2>1, OneMore DEF Renewals
  <2> QED
    BY <1>0, <2>1, <2>2 DEF RenewInv, NewCycle
<1>3. ASSUME NEW e \in Entry, OneLine(e), e.via # "renewal" PROVE Renewals' = Renewals
  BY <1>3, LinesAdded DEF OneLine, Renewals
<1> QED
  BY <1>1, <1>2, <1>3, StepLine, LinesSame DEF Renewals

(* No cycle is renewed twice.                                              *)
THEOREM CreditsRenewedOnce == Spec => []RenewedOnce
<1>1. Init => RenewInv
  BY FS_EmptySet DEF Init, RenewInv, Renewals, Lines, NoSub
<1>2. RenewInv => RenewedOnce
  BY DEF RenewInv, RenewedOnce, Renewals
<1> QED
  BY <1>1, <1>2, RenewStep, CreditsTypes, PTL DEF Spec
=============================================================================
