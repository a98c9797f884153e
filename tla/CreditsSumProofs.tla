------------------------- MODULE CreditsSumProofs -------------------------
(***************************************************************************)
(* What holds of the sums over the ledger of Credits: the balance, the     *)
(* scans that a paid cycle gives away, and what the pages of a month pay.  *)
(***************************************************************************)
EXTENDS CreditsProofs, WellFoundedInduction

-----------------------------------------------------------------------------
(* Induction over the natural numbers, as a fact about sets: the least     *)
(* number missing from S is found as the least of the intervals 1..n, for  *)
(* the order of strict inclusion on finite sets.                           *)

LEMMA NatSet ==
    ASSUME NEW S, 0 \in S, \A n \in Nat : n \in S => n + 1 \in S
    PROVE  Nat \subseteq S
<1> SUFFICES ASSUME Nat \ S # {} PROVE FALSE
  OBVIOUS
<1> DEFINE T == {1..n : n \in Nat \ S}
<1>1. T \subseteq FiniteSubsetsOf(Nat)
  <2>1. ASSUME NEW n \in Nat PROVE IsFiniteSet(1..n) /\ 1..n \in SUBSET Nat
    BY FS_Interval
  <2> QED
    BY <2>1 DEF FiniteSubsetsOf
<1>2. T # {}
  OBVIOUS
<1>3. PICK x \in T : \A y \in T : ~(<<y, x>> \in StrictSubsetOrdering(Nat))
  <2> HIDE DEF T
  <2> QED
    BY <1>1, <1>2, WFMin, FS_StrictSubsetOrderingWellFounded
<1>4. PICK n \in Nat \ S : x = 1..n
  OBVIOUS
<1>5. n - 1 \in Nat \ S
  <2>1. n # 0
    OBVIOUS
  <2>2. n - 1 \in Nat /\ (n - 1) + 1 = n
    BY <2>1
  <2> QED
    BY <2>2
<1>6. 1..(n - 1) \in T
  BY <1>5
<1>7. <<1..(n - 1), 1..n>> \in StrictSubsetOrdering(Nat)
  <2>1. 1..(n - 1) \subseteq 1..n /\ 1..(n - 1) # 1..n /\ 1..n \subseteq Nat
    <3>1. n \in 1..n /\ n \notin 1..(n - 1)
      BY <1>5
    <3> QED
      BY <3>1, <1>5
  <2> QED
    BY <2>1 DEF StrictSubsetOrdering
<1> QED
  BY <1>3, <1>4, <1>6, <1>7

-----------------------------------------------------------------------------
(* A running sum is defined for every sequence, and obeys its recursion.   *)

IsSum(f, s, fresh, last) ==
    f = [n \in 0..last |-> IF n = 0 \/ n \in fresh THEN 0 ELSE f[n - 1] + s[n]]

LEMMA SumExists ==
    ASSUME NEW s, NEW fresh, NEW last \in Nat PROVE \E f : IsSum(f, s, fresh, last)
<1> DEFINE S == {m \in Nat : \E f : IsSum(f, s, fresh, m)}
<1>1. 0 \in S
  <2>1. IsSum([n \in 0..0 |-> 0], s, fresh, 0)
    BY DEF IsSum
  <2> QED
    BY <2>1
<1>2. ASSUME NEW m \in Nat, m \in S PROVE m + 1 \in S
  <2>1. PICK f : IsSum(f, s, fresh, m)
    BY <1>2
  <2> DEFINE x == IF m + 1 \in fresh THEN 0 ELSE f[m] + s[m + 1]
             g == [n \in 0..(m + 1) |-> IF n = m + 1 THEN x ELSE f[n]]
  <2>2. \A n \in 0..m : f[n] = IF n = 0 \/ n \in fresh THEN 0 ELSE f[n - 1] + s[n]
    BY <2>1 DEF IsSum
  <2>3. ASSUME NEW n \in 0..(m + 1)
        PROVE  g[n] = IF n = 0 \/ n \in fresh THEN 0 ELSE g[n - 1] + s[n]
    <3>1. CASE n = m + 1
      BY <3>1
    <3>2. CASE n \in 0..m
      <4>1. g[n] = f[n] /\ (n # 0 => g[n - 1] = f[n - 1])
        BY <3>2
      <4> HIDE DEF g
      <4> QED
        BY <4>1, <2>2, <3>2
    <3> QED
      BY <3>1, <3>2
  <2>4. IsSum(g, s, fresh, m + 1)
    <3>1. g = [n \in 0..(m + 1) |-> g[n]]
      OBVIOUS
    <3> HIDE DEF g
    <3> QED
      BY <3>1, <2>3 DEF IsSum
  <2> HIDE DEF g
  <2> QED
    BY <2>4
<1> HIDE DEF S
<1>3. Nat \subseteq S
  BY <1>1, <1>2, NatSet
<1> QED
  BY <1>3 DEF S

LEMMA SumUnique ==
    ASSUME NEW s, NEW t, NEW fresh, NEW new, NEW f, NEW g, NEW last \in Nat, NEW more \in Nat,
           last <= more, IsSum(f, s, fresh, last), IsSum(g, t, new, more),
           \A i \in 1..last : s[i] = t[i] /\ (i \in fresh <=> i \in new)
    PROVE  f[last] = g[last]
<1> DEFINE S == {m \in Nat : m <= last => f[m] = g[m]}
<1>1. /\ \A n \in 0..last : f[n] = IF n = 0 \/ n \in fresh THEN 0 ELSE f[n - 1] + s[n]
      /\ \A n \in 0..more : g[n] = IF n = 0 \/ n \in new THEN 0 ELSE g[n - 1] + t[n]
  BY DEF IsSum
<1>2. 0 \in S
  BY <1>1
<1>3. ASSUME NEW m \in Nat, m \in S PROVE m + 1 \in S
  <2>1. CASE m + 1 <= last
    <3>1. m + 1 \in 1..last /\ m + 1 \in 0..last /\ m + 1 \in 0..more /\ m + 1 # 0 /\ m + 1 - 1 = m
      BY <2>1
    <3>2. f[m] = g[m]
      BY <1>3, <2>1
    <3>3. f[m + 1] = g[m + 1]
      BY <1>1, <3>1, <3>2
    <3> QED
      BY <3>3
  <2> QED
    BY <2>1
<1> HIDE DEF S
<1>4. Nat \subseteq S
  BY <1>2, <1>3, NatSet
<1> QED
  BY <1>4 DEF S

LEMMA SumIs ==
    ASSUME NEW s, NEW fresh, NEW last \in Nat
    PROVE  \E f : IsSum(f, s, fresh, last) /\ RunningSum(s, fresh, last) = f[last]
<1> DEFINE f == CHOOSE h : IsSum(h, s, fresh, last)
<1>1. IsSum(f, s, fresh, last)
  BY SumExists
<1>2. RunningSum(s, fresh, last) = f[last]
  BY DEF RunningSum, IsSum
<1> HIDE DEF f
<1> QED
  BY <1>1, <1>2

LEMMA SumZero == ASSUME NEW s, NEW fresh PROVE RunningSum(s, fresh, 0) = 0
<1>1. PICK f : IsSum(f, s, fresh, 0) /\ RunningSum(s, fresh, 0) = f[0]
  BY SumIs
<1> QED
  BY <1>1 DEF IsSum

LEMMA SumNext ==
    ASSUME NEW s, NEW fresh, NEW n \in Nat
    PROVE  RunningSum(s, fresh, n + 1)
             = IF n + 1 \in fresh THEN 0 ELSE RunningSum(s, fresh, n) + s[n + 1]
<1>1. PICK f : IsSum(f, s, fresh, n) /\ RunningSum(s, fresh, n) = f[n]
  BY SumIs
<1>2. PICK g : IsSum(g, s, fresh, n + 1) /\ RunningSum(s, fresh, n + 1) = g[n + 1]
  BY SumIs
<1>3. f[n] = g[n]
  BY <1>1, <1>2, SumUnique
<1>4. g[n + 1] = IF n + 1 \in fresh THEN 0 ELSE g[n] + s[n + 1]
  BY <1>2 DEF IsSum
<1> QED
  BY <1>1, <1>2, <1>3, <1>4

LEMMA SumSame ==
    ASSUME NEW s, NEW t, NEW fresh, NEW new, NEW n \in Nat,
           \A i \in 1..n : s[i] = t[i] /\ (i \in fresh <=> i \in new)
    PROVE  RunningSum(s, fresh, n) = RunningSum(t, new, n)
<1>1. PICK f : IsSum(f, s, fresh, n) /\ RunningSum(s, fresh, n) = f[n]
  BY SumIs
<1>2. PICK g : IsSum(g, t, new, n) /\ RunningSum(t, new, n) = g[n]
  BY SumIs
<1> QED
  BY <1>1, <1>2, SumUnique

LEMMA SumInt ==
    ASSUME NEW s, NEW fresh, NEW n \in Nat, \A i \in 1..n : s[i] \in Int
    PROVE  RunningSum(s, fresh, n) \in Int
<1> DEFINE S == {m \in Nat : m <= n => RunningSum(s, fresh, m) \in Int}
<1>1. 0 \in S
  BY SumZero
<1>2. ASSUME NEW m \in Nat, m \in S PROVE m + 1 \in S
  BY <1>2, SumNext
<1> HIDE DEF S
<1>3. Nat \subseteq S
  BY <1>1, <1>2, NatSet
<1> QED
  BY <1>3 DEF S

-----------------------------------------------------------------------------
(* The balance is what the lines add up to.                                *)

BalanceInv == balance = RunningSum(AmountsOf(ledger), {}, Len(ledger))

LEMMA BalanceStep == TypeOK /\ BalanceInv /\ [Next]_vars => BalanceInv'
<1> SUFFICES ASSUME TypeOK, BalanceInv, [Next]_vars PROVE BalanceInv'
    OBVIOUS
<1>1. CASE UNCHANGED walletVars
  BY <1>1 DEF BalanceInv, AmountsOf, walletVars
<1>2. ASSUME NEW e \in Entry, OneLine(e) PROVE BalanceInv'
  <2>1. Added(e)
    BY <1>2 DEF OneLine
  <2>2. PICK n \in Nat :
        /\ n = Len(ledger) /\ DOMAIN ledger = 1..n /\ DOMAIN ledger' = 1..(n + 1)
        /\ ledger'[n + 1] = e /\ \A i \in 1..n : ledger'[i] = ledger[i]
        /\ Len(ledger') = n + 1
    BY <2>1, LineAt
  <2> DEFINE s == AmountsOf(ledger)
             t == AmountsOf(ledger')
  <2>3. (\A i \in 1..n : t[i] = s[i]) /\ t[n + 1] = e.amount
    BY <2>2 DEF AmountsOf
  <2>4. RunningSum(t, {}, n + 1) = RunningSum(s, {}, n) + e.amount
    <3> HIDE DEF s, t
    <3>1. RunningSum(t, {}, n) = RunningSum(s, {}, n)
      BY <2>3, SumSame
    <3>2. RunningSum(t, {}, n + 1) = RunningSum(t, {}, n) + t[n + 1]
      BY SumNext
    <3> QED
      BY <2>3, <3>1, <3>2
  <2> QED
    BY <2>1, <2>2, <2>4 DEF BalanceInv, Added
<1> QED
  BY <1>1, <1>2, StepLine

(* Whatever runs at once, the balance is the sum of the ledger, line after *)
(* line.                                                                   *)
THEOREM CreditsLedgerChains == Spec => []LedgerChains
<1>1. Init => BalanceInv
  BY SumZero DEF Init, BalanceInv
<1>2. BalanceInv /\ LinesChain => LedgerChains
  BY DEF BalanceInv, LedgerChains
<1> QED
  BY <1>1, <1>2, BalanceStep, CreditsTypes, CreditsLinesChain, PTL DEF Spec

-----------------------------------------------------------------------------
(* The quota: the scans given away in the cycle under way are the pages    *)
(* used in it, up to the quota.                                            *)

FreeNow == RunningSum(FreeOf(ledger), Fees(ledger), Len(ledger))

\* A scan within the quota keeps the subscription locked until its line is
\* written, so that what it found is still true then.
LockInv ==
    \A c \in Charges : charge[c] = "planFree" => subLock = c /\ sub.row /\ Billable(c) = 0

QuotaInv ==
    /\ FreeWithinQuota
    /\ sub.row => FreeNow = Lower(sub.used, Quota)
    /\ LockInv

LEMMA FreePagesInt == \A e \in Entry : FreePages(e) \in Int
<1> SUFFICES ASSUME NEW e \in Entry PROVE FreePages(e) \in Int
    OBVIOUS
<1>1. -e.amount \in Int /\ e.pages \in Int /\ OverRate \in Nat \ {0}
  BY Prices DEF Entry
<1>2. (-e.amount) \div OverRate \in Int
  BY <1>1
<1> QED
  BY <1>1, <1>2 DEF FreePages

LEMMA FreeBounded == ASSUME TypeOK, FreeWithinQuota PROVE FreeNow \in Int /\ FreeNow <= Quota
<1> DEFINE s == FreeOf(ledger)
           n == Len(ledger)
<1>1. n \in Nat /\ DOMAIN ledger = 1..n /\ \A i \in 1..n : s[i] \in Int
  BY FreePagesInt DEF FreeOf, TypeOK, WalletTypeOK
<1>2. FreeNow = RunningSum(s, Fees(ledger), n)
  BY DEF FreeNow
<1>3. FreeNow \in Int
  <2> HIDE DEF s, n
  <2> QED
    BY <1>1, <1>2, SumInt
<1>4. CASE n = 0
  BY <1>2, <1>4, SumZero, Prices
<1>5. CASE n # 0
  <2>1. n \in DOMAIN ledger
    BY <1>1, <1>5
  <2>2. RunningSum(s, Fees(ledger), n) <= Quota
    BY <2>1, Zenon DEF FreeWithinQuota
  <2> HIDE DEF s, n
  <2> QED
    BY <1>2, <1>3, <2>2
<1> QED
  BY <1>3, <1>4, <1>5

LEMMA FreeSame ==
    ASSUME UNCHANGED ledger PROVE FreeNow' = FreeNow /\ (FreeWithinQuota => FreeWithinQuota')
BY DEF FreeNow, FreeOf, Fees, FreeWithinQuota

LEMMA FreeAdded ==
    ASSUME TypeOK, NEW e \in Entry, Added(e)
    PROVE  /\ FreeNow' = IF e.via \in {"fee", "renewal"} THEN 0 ELSE FreeNow + FreePages(e)
           /\ FreeWithinQuota /\ FreeNow' <= Quota => FreeWithinQuota'
<1>1. PICK n \in Nat :
        /\ n = Len(ledger) /\ DOMAIN ledger = 1..n /\ DOMAIN ledger' = 1..(n + 1)
        /\ ledger'[n + 1] = e /\ \A i \in 1..n : ledger'[i] = ledger[i]
        /\ Len(ledger') = n + 1
  BY LineAt
<1> DEFINE s == FreeOf(ledger)
           t == FreeOf(ledger')
           F == Fees(ledger)
           G == Fees(ledger')
<1>2. /\ \A i \in 1..n : t[i] = s[i] /\ (i \in G <=> i \in F)
      /\ t[n + 1] = FreePages(e) /\ (n + 1 \in G <=> e.via \in {"fee", "renewal"})
  BY <1>1 DEF FreeOf, Fees
<1>3. /\ \A m \in 0..n : RunningSum(t, G, m) = RunningSum(s, F, m)
      /\ RunningSum(t, G, n + 1) = IF n + 1 \in G THEN 0 ELSE RunningSum(s, F, n) + t[n + 1]
  <2> HIDE DEF s, t, F, G
  <2>1. \A i \in 1..n : t[i] = s[i] /\ (i \in G <=> i \in F)
    BY <1>2
  <2>2. ASSUME NEW m \in 0..n PROVE RunningSum(t, G, m) = RunningSum(s, F, m)
    <3>1. m \in Nat /\ \A i \in 1..m : t[i] = s[i] /\ (i \in G <=> i \in F)
      BY <2>1
    <3> QED
      BY <3>1, SumSame
  <2>3. RunningSum(t, G, n + 1) = IF n + 1 \in G THEN 0 ELSE RunningSum(t, G, n) + t[n + 1]
    BY SumNext
  <2> QED
    BY <2>2, <2>3
<1>4. FreeNow = RunningSum(s, F, n) /\ FreeNow' = RunningSum(t, G, n + 1)
  BY <1>1 DEF FreeNow
<1>5. ASSUME FreeWithinQuota, FreeNow' <= Quota PROVE FreeWithinQuota'
  <2>1. FreeWithinQuota' <=> \A m \in 1..(n + 1) : RunningSum(t, G, m) <= Quota
    BY <1>1 DEF FreeWithinQuota
  <2>2. \A m \in 1..n : RunningSum(s, F, m) <= Quota
    BY <1>1, <1>5 DEF FreeWithinQuota
  <2> HIDE DEF s, t, F, G
  <2>3. ASSUME NEW m \in 1..(n + 1) PROVE RunningSum(t, G, m) <= Quota
    <3>1. CASE m = n + 1
      BY <1>4, <1>5, <3>1
    <3>2. CASE m \in 1..n
      BY <1>3, <2>2, <3>2
    <3> QED
      BY <3>1, <3>2
  <2> QED
    BY <2>1, <2>3
<1> QED
  BY <1>2, <1>3, <1>4, <1>5

LEMMA PostEntry ==
    ASSUME WalletTypeOK, NEW via \in {"pages", "plan", "fee", "renewal", "admin", "slip"},
           NEW of \in Charges \cup Requests \cup {NoOne}, NEW amount \in Int,
           NEW pages \in Nat, Post(via, of, amount, pages)
    PROVE  \E e \in Entry : /\ Added(e) /\ e.via = via /\ e.of = of
                            /\ e.amount = amount /\ e.pages = pages
<1> DEFINE e == [via |-> via, of |-> of, amount |-> amount, pages |-> pages,
                 after |-> balance + amount]
<1>1. balance + amount \in Int
  BY DEF WalletTypeOK
<1>2. e \in Entry
  BY <1>1 DEF Entry
<1>3. Added(e)
  BY DEF Added, Post
<1> QED
  BY <1>2, <1>3

\* A movement that is no scan of the plan leaves what was given away.
LEMMA FreePost ==
    ASSUME TypeOK, FreeWithinQuota, NEW via \in {"pages", "admin", "slip"},
           NEW of \in Charges \cup Requests \cup {NoOne}, NEW amount \in Int,
           NEW pages \in Nat, Post(via, of, amount, pages)
    PROVE  FreeWithinQuota' /\ FreeNow' = FreeNow
<1>1. PICK e \in Entry : Added(e) /\ e.via = via
  BY PostEntry DEF TypeOK
<1>2. FreePages(e) = 0
  BY <1>1 DEF FreePages
<1>3. FreeNow' = FreeNow
  BY <1>1, <1>2, FreeAdded, FreeBounded
<1> QED
  BY <1>1, <1>3, FreeAdded, FreeBounded

\* A fee begins a new cycle, of which nothing is used.
LEMMA FreeFee ==
    ASSUME TypeOK, FreeWithinQuota, NEW via \in {"fee", "renewal"}, Post(via, NoOne, -Fee, 0)
    PROVE  FreeWithinQuota' /\ FreeNow' = Lower(0, Quota)
<1>1. PICK e \in Entry : Added(e) /\ e.via = via
  BY PostEntry, Prices DEF TypeOK
<1>2. FreeNow' = 0
  BY <1>1, FreeAdded
<1> QED
  BY <1>1, <1>2, FreeAdded, Prices DEF Lower

LEMMA Division == \A n \in Nat \ {0}, m \in Int : (n * m) \div n = m
OBVIOUS

\* A scan of the plan gives away what is left of the quota, if it needs that.
LEMMA FreeScan ==
    ASSUME TypeOK, QuotaInv, sub.row, NEW c \in Charges, NEW e \in Entry, Added(e),
           e.via = "plan", e.amount = -(OverRate * Billable(c)), e.pages = Pages[c]
    PROVE  FreeWithinQuota' /\ FreeNow' = Lower(sub.used + Pages[c], Quota)
<1> DEFINE b == Billable(c)
<1>1. b \in Int /\ OverRate * b \in Int /\ OverRate \in Nat \ {0}
  BY OverageInt, Prices
<1>2. /\ sub.used \in Nat /\ Pages[c] \in Nat /\ Quota \in Nat
      /\ FreeNow = Lower(sub.used, Quota)
  BY Prices DEF TypeOK, PlanTypeOK, QuotaInv
<1>3. b = AtLeast0(Pages[c] - AtLeast0(Quota - sub.used))
  BY DEF Billable
<1>4. FreePages(e) = Pages[c] - b
  <2>1. -e.amount = OverRate * b
    BY <1>1
  <2> HIDE DEF b
  <2>2. (-e.amount) \div OverRate = b
    BY <1>1, <2>1, Division
  <2> QED
    BY <2>2 DEF FreePages
<1>5. FreeNow' = FreeNow + FreePages(e)
  BY FreeAdded
<1>6. FreeNow' = Lower(sub.used + Pages[c], Quota)
  <2> HIDE DEF b
  <2> QED
    BY <1>2, <1>3, <1>4, <1>5 DEF AtLeast0, Lower
<1>7. FreeNow' <= Quota
  BY <1>2, <1>6 DEF Lower
<1> QED
  BY <1>6, <1>7, FreeAdded DEF QuotaInv

\* A step that writes no line and leaves the subscription alone.
LEMMA QuotaSame ==
    ASSUME TypeOK, QuotaInv, UNCHANGED <<ledger, sub, subLock>>,
           \A c \in Charges : charge'[c] = "planFree" => charge[c] = "planFree"
    PROVE  QuotaInv'
BY FreeSame DEF QuotaInv, LockInv, Billable

LEMMA QuotaRenew ==
    ASSUME TypeOK, QuotaInv, RenewOrExpire,
           \A c \in Charges : charge'[c] = "planFree" => charge[c] = "planFree"
    PROVE  QuotaInv'
<1>1. subLock = NoOne /\ \A c \in Charges : c # NoOne
  BY Prices DEF RenewOrExpire
<1>2. LockInv'
  BY <1>1 DEF QuotaInv, LockInv
<1>3. CASE UNCHANGED <<sub, walletVars>>
  BY <1>2, <1>3, FreeSame DEF QuotaInv, walletVars
<1>4. CASE sub' = NoSub /\ UNCHANGED walletVars
  BY <1>2, <1>4, FreeSame DEF QuotaInv, walletVars, NoSub
<1>5. CASE sub' = NewCycle /\ Post("renewal", NoOne, -Fee, 0)
  BY <1>2, <1>5, FreeFee DEF QuotaInv, NewCycle
<1> QED
  BY <1>3, <1>4, <1>5 DEF RenewOrExpire

LEMMA QuotaConsume ==
    ASSUME TypeOK, QuotaInv, NEW c \in Charges, ConsumeQuota(c) PROVE QuotaInv'
<1>0. charge \in [Charges -> ChargePc] /\ sub \in [row : BOOLEAN, inCycle : BOOLEAN, cancelled : BOOLEAN, used : Nat]
  BY DEF TypeOK, ChargeTypeOK, PlanTypeOK
<1>1. /\ subLock = NoOne /\ \A d \in Charges : charge[d] # "planFree"
      /\ \A d \in Charges \ {c} : charge'[d] = charge[d]
  BY <1>0, Prices DEF ConsumeQuota, Goto, QuotaInv, LockInv
<1>2. CASE charge'[c] = "priced" /\ UNCHANGED <<ledger, sub, subLock>>
  BY <1>1, <1>2, QuotaSame
<1>3. CASE /\ sub.row /\ OverRate * Billable(c) = 0 /\ UNCHANGED <<ledger, sub>>
           /\ subLock' = c
  <2>1. Billable(c) \in Int /\ OverRate \in Nat \ {0}
    BY OverageInt, Prices
  <2>2. Billable(c) = 0
    <3> DEFINE b == Billable(c)
    <3>1. OverRate * b = 0
      BY <1>3
    <3> HIDE DEF b
    <3>2. (OverRate * b) \div OverRate = b /\ 0 \div OverRate = 0
      <4>1. (OverRate * b) \div OverRate = b
        BY <2>1, Division DEF b
      <4>2. 0 \div OverRate = 0
        BY <2>1
      <4> QED
        BY <4>1, <4>2
    <3> QED
      BY <3>1, <3>2 DEF b
  <2>3. LockInv'
    BY <1>1, <1>3, <2>2 DEF LockInv, Billable
  <2> QED
    BY <1>3, <2>3, FreeSame DEF QuotaInv
<1>4. CASE /\ sub.row /\ charge'[c] = "done" /\ sub' = [sub EXCEPT !.used = @ + Pages[c]]
           /\ Post("plan", c, -(OverRate * Billable(c)), Pages[c])
  <2>1. -(OverRate * Billable(c)) \in Int /\ Pages[c] \in Nat
    BY OverageInt, Prices
  <2>2. PICK e \in Entry : /\ Added(e) /\ e.via = "plan" /\ e.pages = Pages[c]
                           /\ e.amount = -(OverRate * Billable(c))
    BY <1>4, <2>1, PostEntry DEF TypeOK
  <2>3. FreeWithinQuota' /\ FreeNow' = Lower(sub.used + Pages[c], Quota)
    BY <1>4, <2>2, FreeScan
  <2>4. sub'.row /\ sub'.used = sub.used + Pages[c]
    BY <1>0, <1>4
  <2>5. LockInv'
    BY <1>1, <1>4 DEF LockInv
  <2> QED
    BY <2>3, <2>4, <2>5 DEF QuotaInv
<1>5. charge'[c] \in {"priced", "planFree", "done"}
  BY <1>0 DEF ConsumeQuota, Goto
<1> QED
  BY <1>0, <1>2, <1>3, <1>4 DEF ConsumeQuota, Goto, walletVars

LEMMA QuotaFree ==
    ASSUME TypeOK, QuotaInv, NEW c \in Charges, PostFree(c) PROVE QuotaInv'
<1>0. charge \in [Charges -> ChargePc] /\ sub \in [row : BOOLEAN, inCycle : BOOLEAN, cancelled : BOOLEAN, used : Nat]
  BY DEF TypeOK, ChargeTypeOK, PlanTypeOK
<1>1. charge[c] = "planFree" /\ charge' = [charge EXCEPT ![c] = "done"]
  BY DEF PostFree, Goto
<1>2. subLock = c /\ sub.row /\ Billable(c) = 0
  BY <1>1 DEF QuotaInv, LockInv
<1> DEFINE e == [via |-> "plan", of |-> c, amount |-> 0, pages |-> Pages[c], after |-> seen[c]]
<1>3. e \in Entry /\ Added(e)
  <2>1. e \in Entry
    BY Prices DEF Entry, TypeOK, ChargeTypeOK
  <2>2. Added(e)
    BY DEF PostFree, Added, TypeOK, WalletTypeOK
  <2> QED
    BY <2>1, <2>2
<1>4. e.amount = -(OverRate * Billable(c))
  <2>1. OverRate * 0 = 0
    BY Prices
  <2> QED
    BY <1>2, <2>1
<1>5. FreeWithinQuota' /\ FreeNow' = Lower(sub.used + Pages[c], Quota)
  <2>1. e.via = "plan" /\ e.pages = Pages[c]
    OBVIOUS
  <2> HIDE DEF e
  <2> QED
    BY <1>2, <1>3, <1>4, <2>1, FreeScan
<1>6. sub'.row /\ sub'.used = sub.used + Pages[c]
  BY <1>0, <1>2 DEF PostFree
<1>7. LockInv'
  BY <1>0, <1>1, <1>2 DEF QuotaInv, LockInv
<1> QED
  BY <1>5, <1>6, <1>7 DEF QuotaInv

LEMMA QuotaPost ==
    ASSUME TypeOK, QuotaInv, NEW via \in {"pages", "admin", "slip"},
           NEW of \in Charges \cup Requests \cup {NoOne}, NEW amount \in Int,
           NEW pages \in Nat, Post(via, of, amount, pages), UNCHANGED <<sub, subLock>>,
           \A c \in Charges : charge'[c] = "planFree" => charge[c] = "planFree"
    PROVE  QuotaInv'
<1>1. FreeWithinQuota' /\ FreeNow' = FreeNow
  BY FreePost DEF QuotaInv
<1>2. LockInv'
  BY DEF QuotaInv, LockInv, Billable
<1> QED
  BY <1>1, <1>2 DEF QuotaInv

LEMMA QuotaStep == TypeOK /\ QuotaInv /\ [Next]_vars => QuotaInv'
<1> SUFFICES ASSUME TypeOK, QuotaInv, [Next]_vars PROVE QuotaInv'
    OBVIOUS
<1>0. /\ charge \in [Charges -> ChargePc] /\ NoOne \notin Charges
      /\ sub \in [row : BOOLEAN, inCycle : BOOLEAN, cancelled : BOOLEAN, used : Nat]
  BY Prices DEF TypeOK, ChargeTypeOK, PlanTypeOK
<1>1. ASSUME NEW c \in Charges, Admit(c) \/ ReadSubscription(c) \/ ReadUsage(c) PROVE QuotaInv'
  <2>1. UNCHANGED <<ledger, sub, subLock>>
    BY <1>1 DEF Admit, ReadSubscription, ReadUsage, walletVars, planVars
  <2>2. \A d \in Charges : charge'[d] = "planFree" => charge[d] = "planFree"
    BY <1>0, <1>1 DEF Admit, ReadSubscription, ReadUsage, Goto
  <2> QED
    BY <2>1, <2>2, QuotaSame
<1>2. ASSUME NEW c \in Charges, RenewForCharge(c) PROVE QuotaInv'
  <2>1. \A d \in Charges : charge'[d] = "planFree" => charge[d] = "planFree"
    BY <1>0, <1>2 DEF RenewForCharge, Goto
  <2>2. CASE RenewOrExpire
    BY <2>1, <2>2, QuotaRenew
  <2>3. CASE UNCHANGED <<walletVars, planVars>>
    BY <2>1, <2>3, QuotaSame DEF walletVars, planVars
  <2> QED
    BY <1>2, <2>2, <2>3 DEF RenewForCharge
<1>3. ASSUME NEW c \in Charges, PostCharge(c) PROVE QuotaInv'
  <2>1. /\ UNCHANGED <<sub, subLock>>
        /\ \A d \in Charges : charge'[d] = "planFree" => charge[d] = "planFree"
    BY <1>0, <1>3 DEF PostCharge, Goto, planVars
  <2>2. CASE UNCHANGED walletVars
    BY <2>1, <2>2, QuotaSame DEF walletVars
  <2>3. CASE Post("pages", c, -Cost(c), IF IsPdf[c] THEN Pages[c] ELSE 0)
    <3>1. -Cost(c) \in Int /\ (IF IsPdf[c] THEN Pages[c] ELSE 0) \in Nat
      BY CostInt, Prices
    <3> QED
      BY <2>1, <2>3, <3>1, QuotaPost
  <2> QED
    BY <1>3, <2>2, <2>3 DEF PostCharge
<1>4. ASSUME NEW c \in Charges, ChargeFails(c) PROVE QuotaInv'
  <2>1. UNCHANGED <<ledger, sub>> /\ subLock' = IF subLock = c THEN NoOne ELSE subLock
    BY <1>4 DEF ChargeFails, walletVars
  <2>2. charge' = [charge EXCEPT ![c] = "failed"]
    BY <1>4 DEF ChargeFails, Goto
  <2>3. LockInv'
    BY <1>0, <2>1, <2>2 DEF QuotaInv, LockInv, Billable
  <2> QED
    BY <2>1, <2>3, FreeSame DEF QuotaInv
<1>5. ASSUME NEW r \in Requests, RequestTopup(r) \/ RejectRead(r) \/ RejectWrite(r) PROVE QuotaInv'
  BY <1>5, QuotaSame DEF RequestTopup, RejectRead, RejectWrite, walletVars, planVars, chargeVars
<1>6. ASSUME NEW r \in Requests, Approve(r) PROVE QuotaInv'
  <2>1. PICK amount \in Int : Post("admin", r, amount, 0)
    BY <1>6, Prices DEF Approve
  <2> QED
    BY <1>6, <2>1, QuotaPost DEF Approve, planVars, chargeVars
<1>7. ASSUME NEW u \in Uploads, UploadSlip(u) \/ SlipUnverified(u) PROVE QuotaInv'
  BY <1>7, QuotaSame DEF UploadSlip, SlipUnverified, walletVars, planVars, chargeVars
<1>8. ASSUME NEW u \in Uploads, SlipVerified(u) PROVE QuotaInv'
  <2>1. PICK amount \in Int : Post("slip", RequestOf[u], amount, 0)
    BY <1>8, Prices DEF SlipVerified
  <2>2. RequestOf[u] \in Requests
    BY Prices
  <2> QED
    BY <1>8, <2>1, <2>2, QuotaPost DEF SlipVerified, planVars, chargeVars
<1>9. CASE ViewSubscription
  BY <1>9, QuotaRenew DEF ViewSubscription, chargeVars
<1>10. CASE Subscribe
  <2>1. FreeWithinQuota' /\ FreeNow' = Lower(0, Quota)
    BY <1>10, FreeFee DEF Subscribe, QuotaInv
  <2>2. subLock = NoOne /\ sub' = NewCycle /\ charge' = charge
    BY <1>10 DEF Subscribe, chargeVars
  <2>3. LockInv'
    BY <1>0, <2>2 DEF QuotaInv, LockInv
  <2> QED
    BY <2>1, <2>2, <2>3 DEF QuotaInv, NewCycle
<1>11. CASE Cancel \/ CycleEnds
  <2>1. UNCHANGED <<ledger, subLock, charge>> /\ sub.row
    BY <1>11 DEF Cancel, CycleEnds, walletVars, chargeVars
  <2>2. sub'.row = sub.row /\ sub'.used = sub.used
    BY <1>0, <1>11 DEF Cancel, CycleEnds
  <2>3. LockInv'
    BY <2>1, <2>2 DEF QuotaInv, LockInv, Billable
  <2> QED
    BY <2>1, <2>2, <2>3, FreeSame DEF QuotaInv
<1>12. CASE MonthEnds \/ UNCHANGED vars
  BY <1>12, QuotaSame DEF MonthEnds, vars, walletVars, planVars, chargeVars
<1> QED
  BY <1>1, <1>2, <1>3, <1>4, <1>5, <1>6, <1>7, <1>8, <1>9, <1>10, <1>11, <1>12, QuotaConsume,
     QuotaFree DEF Next, ChargeStep, RequestStep, UploadStep

LEMMA InitQuota == Init => QuotaInv
<1> SUFFICES ASSUME Init PROVE QuotaInv
    OBVIOUS
<1>1. ledger = <<>> /\ Len(ledger) = 0 /\ DOMAIN ledger = {}
  BY DEF Init
<1>2. FreeWithinQuota
  BY <1>1 DEF FreeWithinQuota
<1>3. ~sub.row /\ \A c \in Charges : charge[c] # "planFree"
  BY DEF Init, NoSub
<1> QED
  BY <1>2, <1>3 DEF QuotaInv, LockInv

(* However many charges run at once and whatever of them fails, no cycle   *)
(* that was paid for gives away more pages than its quota.                 *)
THEOREM CreditsFreeWithinQuota == Spec => []FreeWithinQuota
<1>1. QuotaInv => FreeWithinQuota
  BY DEF QuotaInv
<1> QED
  BY <1>1, InitQuota, QuotaStep, CreditsTypes, PTL DEF Spec

-----------------------------------------------------------------------------
(* The prices, for any tiers (test_billing_correctness_safety_net.py).     *)

LEMMA Distribute == \A a, m, n \in Int : a * (m + n) = a * m + a * n
OBVIOUS

LEMMA ProductNat == \A a, b \in Nat : a * b \in Nat
OBVIOUS

FirstTier(used, n) == Lower(n, AtLeast0(Tier1Pages - used))

LEMMA EstimateIs ==
    ASSUME NEW used \in Nat, NEW n \in Nat
    PROVE  /\ FirstTier(used, n) \in Nat /\ FirstTier(used, n) <= n
           /\ EstimatePdf(used, n)
                = Tier1Price * FirstTier(used, n) + Tier2Price * (n - FirstTier(used, n))
BY Prices DEF FirstTier, Lower, AtLeast0, EstimatePdf

\* Pages charged in two parts pay what they would have paid at once.
THEOREM CreditsPriceAdds ==
    ASSUME NEW used \in Nat, NEW m \in Nat, NEW n \in Nat
    PROVE  EstimatePdf(used, m + n) = EstimatePdf(used, m) + EstimatePdf(used + m, n)
<1> DEFINE a == FirstTier(used, m)
           b == FirstTier(used + m, n)
           c == FirstTier(used, m + n)
<1>1. c = a + b
  BY Prices DEF FirstTier, Lower, AtLeast0
<1>2. /\ a \in Nat /\ b \in Nat
      /\ EstimatePdf(used, m) = Tier1Price * a + Tier2Price * (m - a)
      /\ EstimatePdf(used + m, n) = Tier1Price * b + Tier2Price * (n - b)
      /\ EstimatePdf(used, m + n) = Tier1Price * c + Tier2Price * (m + n - c)
  <2>1. used + m \in Nat /\ m + n \in Nat
    OBVIOUS
  <2>2. a \in Nat /\ EstimatePdf(used, m) = Tier1Price * a + Tier2Price * (m - a)
    BY EstimateIs
  <2>3. b \in Nat /\ EstimatePdf(used + m, n) = Tier1Price * b + Tier2Price * (n - b)
    BY <2>1, EstimateIs
  <2>4. EstimatePdf(used, m + n) = Tier1Price * c + Tier2Price * (m + n - c)
    BY <2>1, EstimateIs
  <2> QED
    BY <2>2, <2>3, <2>4
<1> HIDE DEF a, b, c
<1>3. Tier1Price * c = Tier1Price * a + Tier1Price * b
  BY <1>1, <1>2, Prices, Distribute
<1>4. Tier2Price * (m + n - c) = Tier2Price * (m - a) + Tier2Price * (n - b)
  <2>1. m + n - c = (m - a) + (n - b) /\ m - a \in Int /\ n - b \in Int
    BY <1>1, <1>2
  <2> QED
    BY <2>1, Prices, Distribute
<1>5. /\ Tier1Price * a \in Int /\ Tier1Price * b \in Int
      /\ Tier2Price * (m - a) \in Int /\ Tier2Price * (n - b) \in Int
  <2>1. m - a \in Int /\ n - b \in Int
    BY <1>2
  <2> QED
    BY <1>2, <2>1, Prices, ProductInt
<1> QED
  BY <1>2, <1>3, <1>4, <1>5

\* The more is used already, the less a page costs.
LEMMA PriceFalls ==
    ASSUME Tier2Price <= Tier1Price, NEW used \in Nat, NEW more \in Nat, used <= more,
           NEW n \in Nat
    PROVE  EstimatePdf(more, n) <= EstimatePdf(used, n)
<1> DEFINE a == FirstTier(used, n)
           b == FirstTier(more, n)
           d == Tier1Price - Tier2Price
<1>1. b <= a
  BY Prices DEF FirstTier, Lower, AtLeast0
<1>2. /\ a \in Nat /\ b \in Nat
      /\ EstimatePdf(used, n) = Tier1Price * a + Tier2Price * (n - a)
      /\ EstimatePdf(more, n) = Tier1Price * b + Tier2Price * (n - b)
  BY EstimateIs
<1>3. d \in Nat /\ Tier1Price \in Int /\ Tier2Price \in Int /\ Tier1Price = Tier2Price + d
  BY Prices
<1> HIDE DEF a, b, d
<1>4. a - b \in Nat /\ a = b + (a - b) /\ n - b = (n - a) + (a - b)
  BY <1>1, <1>2
<1>5. Tier1Price * a = Tier1Price * b + Tier1Price * (a - b)
  BY <1>2, <1>3, <1>4, Distribute
<1>6. Tier2Price * (n - b) = Tier2Price * (n - a) + Tier2Price * (a - b)
  BY <1>2, <1>3, <1>4, Distribute
<1>7. Tier1Price * (a - b) = Tier2Price * (a - b) + d * (a - b)
  <2>1. \A x, y, z \in Int : (x + y) * z = x * z + y * z
    OBVIOUS
  <2> QED
    BY <1>3, <1>4, <2>1
<1>8. d * (a - b) \in Nat
  BY <1>3, <1>4, ProductNat
<1>9. /\ Tier1Price * b \in Int /\ Tier2Price * (n - a) \in Int
      /\ Tier2Price * (a - b) \in Int
  BY <1>2, <1>3, <1>4, ProductInt
<1> QED
  BY <1>2, <1>5, <1>6, <1>7, <1>8, <1>9

-----------------------------------------------------------------------------
(* What the pages of the first month pay.                                  *)

PaidNow == RunningSum(PaidOf(ledger), {}, Len(ledger))

\* A charge prices itself on no more pages than have been charged.
SeenInv ==
    month = 0 => \A c \in Charges :
        charge[c] = "debit" /\ IsPdf[c] => seen[c] \in 0..usage[0]

PaidInv == SeenInv /\ PagesPaidInFull

LEMMA PaidAdded ==
    ASSUME TypeOK, NEW e \in Entry, Added(e) PROVE PaidNow' = PaidNow + PaidByPage(e)
<1>1. PICK n \in Nat :
        /\ n = Len(ledger) /\ DOMAIN ledger = 1..n /\ DOMAIN ledger' = 1..(n + 1)
        /\ ledger'[n + 1] = e /\ \A i \in 1..n : ledger'[i] = ledger[i]
        /\ Len(ledger') = n + 1
  BY LineAt
<1> DEFINE s == PaidOf(ledger)
           t == PaidOf(ledger')
<1>2. (\A i \in 1..n : t[i] = s[i]) /\ t[n + 1] = PaidByPage(e)
  BY <1>1 DEF PaidOf
<1>3. PaidNow = RunningSum(s, {}, n) /\ PaidNow' = RunningSum(t, {}, n + 1)
  BY <1>1 DEF PaidNow
<1> HIDE DEF s, t
<1>4. RunningSum(t, {}, n) = RunningSum(s, {}, n)
  BY <1>2, SumSame
<1>5. RunningSum(t, {}, n + 1) = RunningSum(t, {}, n) + t[n + 1]
  BY SumNext
<1> QED
  BY <1>2, <1>3, <1>4, <1>5

LEMMA PaidInt == ASSUME TypeOK PROVE PaidNow \in Int
<1> DEFINE s == PaidOf(ledger)
           n == Len(ledger)
<1>1. n \in Nat /\ DOMAIN ledger = 1..n
  BY DEF TypeOK, WalletTypeOK
<1>2. \A e \in Entry : PaidByPage(e) \in Int
  BY DEF PaidByPage, Entry
<1>3. \A i \in 1..n : s[i] \in Int
  BY <1>1, <1>2 DEF PaidOf, TypeOK, WalletTypeOK
<1>4. PaidNow = RunningSum(s, {}, n)
  BY DEF PaidNow
<1> HIDE DEF s, n
<1> QED
  BY <1>1, <1>3, <1>4, SumInt

LEMMA PaidPost ==
    ASSUME TypeOK, NEW via \in {"pages", "plan", "fee", "renewal", "admin", "slip"},
           NEW of \in Charges \cup Requests \cup {NoOne}, NEW amount \in Int,
           NEW pages \in Nat, Post(via, of, amount, pages), via # "pages" \/ pages = 0
    PROVE  PaidNow' = PaidNow
<1>1. PICK e \in Entry : Added(e) /\ e.via = via /\ e.pages = pages
  BY PostEntry DEF TypeOK
<1>2. PaidByPage(e) = 0
  BY <1>1 DEF PaidByPage
<1> QED
  BY <1>1, <1>2, PaidAdded, PaidInt

LEMMA PaidRenew == ASSUME TypeOK, RenewOrExpire PROVE PaidNow' = PaidNow
<1>1. CASE UNCHANGED walletVars
  BY <1>1 DEF PaidNow, PaidOf, walletVars
<1>2. CASE Post("renewal", NoOne, -Fee, 0)
  BY <1>2, PaidPost, Prices
<1> QED
  BY <1>1, <1>2 DEF RenewOrExpire

\* Whatever neither charges pages nor begins to price them.
LEMMA PaidSame ==
    ASSUME TypeOK, PaidInv, PaidNow' = PaidNow, UNCHANGED <<usage, month>>,
           \A c \in Charges : charge'[c] = "debit" =>
               charge[c] = "debit" /\ seen'[c] = seen[c]
    PROVE  PaidInv'
<1>1. SeenInv'
  BY DEF PaidInv, SeenInv
<1>2. PagesPaidInFull'
  BY DEF PaidInv, PagesPaidInFull, PaidNow, EstimatePdf
<1> QED
  BY <1>1, <1>2 DEF PaidInv

LEMMA PaidCharge ==
    ASSUME TypeOK, PaidInv, NEW c \in Charges, PostCharge(c) PROVE PaidInv'
<1>0. /\ charge \in [Charges -> ChargePc] /\ month \in 0..MaxMonth
      /\ usage \in [0..MaxMonth -> Nat] /\ Pages[c] \in Nat
  BY Prices DEF TypeOK, ChargeTypeOK
<1>1. /\ charge[c] = "debit" /\ charge' = [charge EXCEPT ![c] = "done"]
      /\ UNCHANGED <<seen, month>>
  BY DEF PostCharge, Goto
<1>2. \A d \in Charges : charge'[d] = "debit" => charge[d] = "debit"
  BY <1>0, <1>1
<1>3. CASE UNCHANGED <<walletVars, usage>>
  <2>1. PaidNow' = PaidNow
    BY <1>3 DEF PaidNow, PaidOf, walletVars
  <2> QED
    BY <1>1, <1>2, <1>3, <2>1, PaidSame
<1>4. CASE ~IsPdf[c] /\ Post("pages", c, -Cost(c), 0) /\ UNCHANGED usage
  <2>1. -Cost(c) \in Int
    BY CostInt
  <2>2. PaidNow' = PaidNow
    BY <1>4, <2>1, PaidPost
  <2> QED
    BY <1>1, <1>2, <1>4, <2>2, PaidSame
<1>5. CASE /\ IsPdf[c] /\ Cost(c) > 0 /\ Post("pages", c, -Cost(c), Pages[c])
           /\ usage' = [usage EXCEPT ![month] = @ + Pages[c]]
  <2> SUFFICES ASSUME month = 0 PROVE PaidInv'
    BY <1>1 DEF PaidInv, SeenInv, PagesPaidInFull
  <2> DEFINE n == Pages[c]
             u == usage[0]
             k == seen[c]
             x == Cost(c)
  <2>1. n \in Nat /\ u \in Nat /\ k \in Nat /\ k <= u /\ usage'[0] = u + n
    BY <1>0, <1>1, <1>5 DEF PaidInv, SeenInv
  <2>2. x \in Int /\ x = EstimatePdf(k, n)
    BY <1>5, CostInt DEF Cost
  <2>3. n # 0
    BY <1>5, <2>1, <2>2, Prices DEF EstimatePdf, Lower, AtLeast0
  <2>4. PaidNow' = PaidNow + x
    <3>1. -x \in Int /\ -(-x) = x
      BY <2>2
    <3>2. PICK e \in Entry : /\ Added(e) /\ e.via = "pages" /\ e.amount = -x
                             /\ e.pages = n
      BY <1>5, <2>1, <3>1, PostEntry DEF TypeOK
    <3> HIDE DEF n, x
    <3>3. PaidByPage(e) = x
      BY <2>1, <2>3, <3>1, <3>2 DEF PaidByPage
    <3> QED
      BY <3>2, <3>3, PaidAdded
  <2>5. SeenInv'
    <3>1. ASSUME NEW d \in Charges, charge'[d] = "debit", IsPdf[d]
          PROVE  seen'[d] \in 0..usage'[0]
      <4>1. charge[d] = "debit" /\ seen'[d] = seen[d] /\ seen[d] \in 0..u
        BY <1>1, <1>2, <3>1 DEF PaidInv, SeenInv
      <4> HIDE DEF u, n
      <4> QED
        BY <2>1, <4>1
    <3> QED
      BY <3>1 DEF SeenInv
  <2>6. ASSUME Tier2Price <= Tier1Price PROVE EstimatePdf(0, usage'[0]) <= PaidNow'
    <3>1. EstimatePdf(0, u) <= PaidNow
      BY <2>6 DEF PaidInv, PagesPaidInFull, PaidNow
    <3> HIDE DEF n, u, k, x
    <3>2. EstimatePdf(0, u + n) = EstimatePdf(0, u) + EstimatePdf(u, n)
      <4>1. EstimatePdf(0, u + n) = EstimatePdf(0, u) + EstimatePdf(0 + u, n) /\ 0 + u = u
        BY <2>1, CreditsPriceAdds
      <4> QED
        BY <4>1
    <3>3. EstimatePdf(u, n) <= x
      BY <2>1, <2>2, <2>6, PriceFalls
    <3>4. EstimatePdf(0, u) \in Int /\ EstimatePdf(u, n) \in Int /\ PaidNow \in Int
      <4>1. 0 \in Int /\ u \in Int /\ n \in Int
        BY <2>1
      <4>2. EstimatePdf(0, u) \in Int /\ EstimatePdf(u, n) \in Int
        BY <4>1, EstimateInt
      <4> QED
        BY <4>2, PaidInt
    <3> QED
      BY <2>1, <2>2, <2>4, <3>1, <3>2, <3>3, <3>4
  <2>7. PagesPaidInFull'
    BY <2>6 DEF PagesPaidInFull, PaidNow, EstimatePdf
  <2> QED
    BY <2>5, <2>7 DEF PaidInv
<1> QED
  BY <1>3, <1>4, <1>5, <1>0, CostInt DEF PostCharge

LEMMA PaidStep == TypeOK /\ PaidInv /\ [Next]_vars => PaidInv'
<1> SUFFICES ASSUME TypeOK, PaidInv, [Next]_vars PROVE PaidInv'
    OBVIOUS
<1>0. charge \in [Charges -> ChargePc] /\ month \in 0..MaxMonth /\ seen \in [Charges -> Int]
  BY DEF TypeOK, ChargeTypeOK
<1>1. ASSUME NEW c \in Charges, Admit(c) \/ ReadSubscription(c) \/ ChargeFails(c) PROVE PaidInv'
  <2>1. UNCHANGED <<ledger, seen, usage, month>>
    BY <1>1 DEF Admit, ReadSubscription, ChargeFails, walletVars
  <2>2. \A d \in Charges : charge'[d] = "debit" => charge[d] = "debit"
    BY <1>0, <1>1 DEF Admit, ReadSubscription, ChargeFails, Goto
  <2>3. PaidNow' = PaidNow
    BY <2>1 DEF PaidNow, PaidOf
  <2> QED
    BY <2>1, <2>2, <2>3, PaidSame
<1>2. ASSUME NEW c \in Charges, RenewForCharge(c) PROVE PaidInv'
  <2>1. /\ UNCHANGED <<seen, usage, month>>
        /\ \A d \in Charges : charge'[d] = "debit" => charge[d] = "debit"
    BY <1>0, <1>2 DEF RenewForCharge, Goto
  <2>2. PaidNow' = PaidNow
    <3>1. CASE UNCHANGED <<walletVars, planVars>>
      BY <3>1 DEF PaidNow, PaidOf, walletVars
    <3> QED
      BY <1>2, <3>1, PaidRenew DEF RenewForCharge
  <2> QED
    BY <2>1, <2>2, PaidSame
<1>3. ASSUME NEW c \in Charges, ConsumeQuota(c) PROVE PaidInv'
  <2>1. /\ UNCHANGED <<usage, month>>
        /\ \A d \in Charges : charge'[d] = "debit" => charge[d] = "debit" /\ seen'[d] = seen[d]
    BY <1>0, <1>3 DEF ConsumeQuota, Goto
  <2>2. PaidNow' = PaidNow
    <3>1. CASE UNCHANGED walletVars
      BY <3>1 DEF PaidNow, PaidOf, walletVars
    <3>2. CASE Post("plan", c, -(OverRate * Billable(c)), Pages[c])
      <4>1. -(OverRate * Billable(c)) \in Int /\ Pages[c] \in Nat
        BY OverageInt, Prices
      <4> QED
        BY <3>2, <4>1, PaidPost
    <3> QED
      BY <1>3, <3>1, <3>2 DEF ConsumeQuota
  <2> QED
    BY <2>1, <2>2, PaidSame
<1>4. ASSUME NEW c \in Charges, PostFree(c) PROVE PaidInv'
  <2>1. /\ UNCHANGED <<seen, usage, month>>
        /\ \A d \in Charges : charge'[d] = "debit" => charge[d] = "debit"
    BY <1>0, <1>4 DEF PostFree, Goto
  <2> DEFINE e == [via |-> "plan", of |-> c, amount |-> 0, pages |-> Pages[c], after |-> seen[c]]
  <2>2. e \in Entry /\ Added(e) /\ PaidByPage(e) = 0
    BY <1>0, <1>4, Prices DEF Entry, PostFree, Added, PaidByPage, TypeOK, WalletTypeOK
  <2>3. PaidNow' = PaidNow
    <3> HIDE DEF e
    <3> QED
      BY <2>2, PaidAdded, PaidInt
  <2> QED
    BY <2>1, <2>3, PaidSame
<1>5. ASSUME NEW c \in Charges, ReadUsage(c) PROVE PaidInv'
  <2>1. UNCHANGED <<ledger, usage, month>>
    BY <1>5 DEF ReadUsage, walletVars
  <2>2. \A d \in Charges \ {c} : charge'[d] = charge[d] /\ seen'[d] = seen[d]
    BY <1>0, <1>5 DEF ReadUsage, Goto
  <2>3. month = 0 /\ IsPdf[c] => seen'[c] \in 0..usage[0]
    <3>1. usage[month] \in Nat
      BY DEF TypeOK, ChargeTypeOK
    <3>2. seen'[c] = usage[month] \/ seen'[c] = 0 \/ ~IsPdf[c]
      BY <1>0, <1>5 DEF ReadUsage
    <3> QED
      BY <3>1, <3>2
  <2>4. SeenInv'
    BY <2>1, <2>2, <2>3 DEF PaidInv, SeenInv
  <2> QED
    BY <2>1, <2>4 DEF PaidInv, PagesPaidInFull, EstimatePdf, PaidOf
<1>6. ASSUME NEW r \in Requests, RequestTopup(r) \/ RejectRead(r) \/ RejectWrite(r) PROVE PaidInv'
  <2>1. UNCHANGED <<walletVars, chargeVars>>
    BY <1>6 DEF RequestTopup, RejectRead, RejectWrite
  <2> QED
    BY <2>1, PaidSame DEF walletVars, chargeVars, PaidNow, PaidOf
<1>7. ASSUME NEW r \in Requests, Approve(r) PROVE PaidInv'
  <2>1. PICK amount \in Int : Post("admin", r, amount, 0)
    BY <1>7, Prices DEF Approve
  <2>2. PaidNow' = PaidNow
    BY <2>1, PaidPost
  <2> QED
    BY <1>7, <2>2, PaidSame DEF Approve, chargeVars
<1>8. ASSUME NEW u \in Uploads, UploadSlip(u) \/ SlipUnverified(u) PROVE PaidInv'
  <2>1. UNCHANGED <<walletVars, chargeVars>>
    BY <1>8 DEF UploadSlip, SlipUnverified
  <2> QED
    BY <2>1, PaidSame DEF walletVars, chargeVars, PaidNow, PaidOf
<1>9. ASSUME NEW u \in Uploads, SlipVerified(u) PROVE PaidInv'
  <2>1. PICK amount \in Int : Post("slip", RequestOf[u], amount, 0)
    BY <1>9, Prices DEF SlipVerified
  <2>2. PaidNow' = PaidNow
    BY <2>1, PaidPost, Prices
  <2> QED
    BY <1>9, <2>2, PaidSame DEF SlipVerified, chargeVars
<1>10. CASE ViewSubscription
  BY <1>10, PaidRenew, PaidSame DEF ViewSubscription, chargeVars
<1>11. CASE Subscribe
  <2>1. PaidNow' = PaidNow
    <3>1. Post("fee", NoOne, -Fee, 0) /\ -Fee \in Int
      BY <1>11, Prices DEF Subscribe
    <3> QED
      BY <3>1, PaidPost
  <2> QED
    BY <1>11, <2>1, PaidSame DEF Subscribe, chargeVars
<1>12. CASE Cancel \/ CycleEnds \/ UNCHANGED vars
  <2>1. UNCHANGED <<walletVars, chargeVars>>
    BY <1>12 DEF Cancel, CycleEnds, vars
  <2> QED
    BY <2>1, PaidSame DEF walletVars, chargeVars, PaidNow, PaidOf
<1>13. CASE MonthEnds
  <2>1. month' # 0
    BY <1>0, <1>13 DEF MonthEnds
  <2> QED
    BY <2>1 DEF PaidInv, SeenInv, PagesPaidInFull
<1> QED
  BY <1>1, <1>2, <1>3, <1>4, <1>5, <1>6, <1>7, <1>8, <1>9, <1>10, <1>11, <1>12, <1>13,
     PaidCharge DEF Next, ChargeStep, RequestStep, UploadStep

LEMMA InitPaid == Init => PaidInv
<1> SUFFICES ASSUME Init PROVE PaidInv
    OBVIOUS
<1>1. ledger = <<>> /\ Len(ledger) = 0 /\ usage[0] = 0
  BY Prices DEF Init
<1>2. EstimatePdf(0, 0) = 0
  BY Prices DEF EstimatePdf, Lower, AtLeast0
<1>3. RunningSum(PaidOf(ledger), {}, Len(ledger)) = 0
  BY <1>1, SumZero
<1>4. PagesPaidInFull
  BY <1>1, <1>2, <1>3 DEF PagesPaidInFull
<1>5. SeenInv
  BY DEF Init, SeenInv
<1> QED
  BY <1>4, <1>5 DEF PaidInv

(* Charges that price themselves on what was used before others were       *)
(* charged pay, together, at least what they would have paid in turn.      *)
THEOREM CreditsPagesPaidInFull == Spec => []PagesPaidInFull
<1>1. PaidInv => PagesPaidInFull
  BY DEF PaidInv
<1> QED
  BY <1>1, InitPaid, PaidStep, CreditsTypes, PTL DEF Spec

=============================================================================
