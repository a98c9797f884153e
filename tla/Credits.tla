------------------------------ MODULE Credits ------------------------------
(***************************************************************************)
(* The prepaid wallet of one tenant (services/billing, the top-up routes): *)
(* recognition is admitted while there is money or quota and charged when  *)
(* it has been done, by the page at a price in two tiers or against the    *)
(* quota of a subscription; top-ups are credited by an administrator or by *)
(* the bank's verification of a payment slip; subscriptions are bought,    *)
(* cancelled and renewed from the balance when somebody next looks.        *)
(*                                                                         *)
(* One action is one transaction, or one statement of a transaction where  *)
(* another may commit before its next one: what is read without a lock may *)
(* be old when it is used.  Money is in units of which the prices are      *)
(* whole multiples.                                                        *)
(***************************************************************************)
EXTENDS Integers, Sequences, FiniteSets

CONSTANTS
    Charges,       \* pieces of work charged for, each by a thread of its own
    Exempt,        \* those of accounts that pay nothing
    IsPdf,         \* [Charges -> BOOLEAN]: by page; else by character
    Pages,         \* [Charges -> Nat]: pages, or characters as quota pages
    CharCost,      \* [Charges -> Nat]: price of a document by character
    Requests,      \* top-up requests
    Uploads,       \* uploads of a payment slip
    RequestOf,     \* [Uploads -> Requests]
    Amounts,       \* amounts transferred
    Tier1Pages, Tier1Price, Tier2Price,
    Quota, OverRate, Fee,
    MaxFees,       \* bound on subscriptions bought
    MaxLapses,     \* bound on cycles that come to their end
    MaxMonth,      \* bound on calendar months begun
    DbErrors,      \* whether a statement may fail
    NoOne

ASSUME CreditsAssumption ==
    /\ Exempt \subseteq Charges /\ NoOne \notin Charges
    /\ IsPdf \in [Charges -> BOOLEAN]
    /\ Pages \in [Charges -> Nat] /\ CharCost \in [Charges -> Nat]
    /\ RequestOf \in [Uploads -> Requests]
    /\ Amounts \subseteq Nat \ {0}
    /\ Tier1Pages \in Nat /\ Tier1Price \in Nat \ {0} /\ Tier2Price \in Nat \ {0}
    /\ Quota \in Nat /\ OverRate \in Nat \ {0} /\ Fee \in Nat \ {0}
    /\ MaxFees \in Nat /\ MaxLapses \in Nat /\ MaxMonth \in Nat
    /\ DbErrors \in BOOLEAN

VARIABLES
    balance,    \* tenant_credits.balance_thb
    ledger,     \* credit_transactions, in the order they commit
    usage,      \* monthly_page_usage by month
    month,      \* the calendar month in Bangkok
    sub,        \* tenant_subscriptions: the one row of the tenant
    subLock,    \* the charge whose open transaction locked that row
    lapses,     \* how many cycles have come to their end
    charge,     \* where the thread of a charge is
    seen,       \* what it read: the pages used, or the balance
    request,    \* topup_requests.status
    upload,     \* where the upload of a slip is
    rejecting   \* requests an administrator is about to reject

walletVars == <<balance, ledger>>
planVars   == <<sub, subLock, lapses>>
chargeVars == <<charge, seen, usage, month>>
topupVars  == <<request, upload, rejecting>>
vars       == <<walletVars, planVars, chargeVars, topupVars>>

NoSub == [row |-> FALSE, inCycle |-> FALSE, cancelled |-> FALSE, used |-> 0]
NewCycle == [row |-> TRUE, inCycle |-> TRUE, cancelled |-> FALSE, used |-> 0]

AtLeast0(n) == IF n > 0 THEN n ELSE 0
Lower(m, n) == IF m < n THEN m ELSE n

\* Price of n pages when used pages have been used this month.
EstimatePdf(used, n) ==
    LET tier1 == Lower(n, AtLeast0(Tier1Pages - used))
    IN  Tier1Price * tier1 + Tier2Price * (n - tier1)

Billable(c) == AtLeast0(Pages[c] - AtLeast0(Quota - sub.used))
Cost(c) == IF IsPdf[c] THEN EstimatePdf(seen[c], Pages[c]) ELSE CharCost[c]

PostBefore(via, of, amount, pages) ==  \* mutant: balance_after read before the update
    /\ balance' = balance + amount
    /\ ledger' = Append(ledger, [via |-> via, of |-> of, amount |-> amount,
                                 pages |-> pages, after |-> balance])
PostNegated(via, of, amount, pages) ==  \* mutant: pages given the sign of the amount
    /\ balance' = balance + amount
    /\ ledger' = Append(ledger, [via |-> via, of |-> of, amount |-> amount,
                                 pages |-> -pages, after |-> balance + amount])
\* A transaction that moves money: the balance and its line in the ledger.
\* The wallet has a row by then: the gate and Subscribe ask for money first.
Post(via, of, amount, pages) ==
    LET after == balance + amount
    IN  /\ balance' = after
        /\ ledger' = Append(ledger, [via |-> via, of |-> of, amount |-> amount,
                                     pages |-> pages, after |-> after])

-----------------------------------------------------------------------------
Init ==
    /\ balance = 0 /\ ledger = <<>>
    /\ usage = [m \in 0..MaxMonth |-> 0]
    /\ month = 0
    /\ sub = NoSub /\ subLock = NoOne /\ lapses = 0
    /\ charge = [c \in Charges |-> "idle"]
    /\ seen = [c \in Charges |-> 0]
    /\ request = [r \in Requests |-> "none"]
    /\ upload = [u \in Uploads |-> "idle"]
    /\ rejecting = {}

-----------------------------------------------------------------------------
(* Charges *)

Goto(c, from, to) == charge[c] = from /\ charge' = [charge EXCEPT ![c] = to]

\* The gate before the work: quota left or money, whatever is under way.
Admit(c) ==
    /\ \/ c \in Exempt
       \/ balance > 0
       \/ sub.row /\ sub.inCycle /\ sub.used < Quota
    /\ Goto(c, "idle", IF c \in Exempt THEN "done" ELSE "admitted")
    /\ UNCHANGED <<walletVars, planVars, topupVars, seen, usage, month>>

\* The work is done: is there a subscription?  An error counts as none.
ReadSubscription(c) ==
    /\ \/ Goto(c, "admitted", CASE ~sub.row     -> "priced"
                                [] sub.inCycle  -> "plan"
                                [] ~sub.inCycle -> "lapsed")
       \/ DbErrors /\ Goto(c, "admitted", "priced")
    /\ UNCHANGED <<walletVars, planVars, topupVars, seen, usage, month>>

RenewUnlocked ==  \* mutant: no second look at the cycle under the lock
    /\ subLock = NoOne
    /\ IF ~sub.row
       THEN UNCHANGED <<sub, walletVars>>
       ELSE IF sub.cancelled \/ balance < Fee
       THEN sub' = NoSub /\ UNCHANGED walletVars
       ELSE sub' = NewCycle /\ Post("renewal", NoOne, -Fee, 0)
    /\ UNCHANGED <<subLock, lapses>>
RenewOnCredit ==  \* mutant: renews without asking for the balance
    /\ subLock = NoOne
    /\ IF ~sub.row \/ sub.inCycle
       THEN UNCHANGED <<sub, walletVars>>
       ELSE IF sub.cancelled
       THEN sub' = NoSub /\ UNCHANGED walletVars
       ELSE sub' = NewCycle /\ Post("renewal", NoOne, -Fee, 0)
    /\ UNCHANGED <<subLock, lapses>>
\* The cycle is over: checked again under the row's lock, then renewed from
\* the balance or ended.
RenewOrExpire ==
    /\ subLock = NoOne
    /\ IF ~sub.row \/ sub.inCycle
       THEN UNCHANGED <<sub, walletVars>>
       ELSE IF sub.cancelled \/ balance < Fee
       THEN sub' = NoSub /\ UNCHANGED walletVars
       ELSE sub' = NewCycle /\ Post("renewal", NoOne, -Fee, 0)
    /\ UNCHANGED <<subLock, lapses>>

RenewForCharge(c) ==
    /\ \/ RenewOrExpire /\ Goto(c, "lapsed", IF sub'.row THEN "plan" ELSE "priced")
       \/ /\ DbErrors /\ Goto(c, "lapsed", "priced")
          /\ UNCHANGED <<walletVars, planVars>>
    /\ UNCHANGED <<topupVars, seen, usage, month>>

\* Any view of the billing status renews as well.
ViewSubscription ==
    /\ sub.row /\ ~sub.inCycle
    /\ RenewOrExpire
    /\ UNCHANGED <<chargeVars, topupVars>>

ConsumeUnlocked(c) ==  \* mutant: the quota is read without FOR UPDATE
    LET cost == OverRate * Billable(c)
    IN  /\ sub.row /\ sub.inCycle
        /\ IF cost = 0
           THEN Goto(c, "plan", "planFree") /\ UNCHANGED <<walletVars, sub>>
           ELSE /\ Goto(c, "plan", "done")
                /\ Post("plan", c, -cost, Pages[c])
                /\ sub' = [sub EXCEPT !.used = @ + Pages[c]]
        /\ UNCHANGED <<topupVars, subLock, lapses, seen, usage, month>>
\* The charge locks the subscription.  Ended meanwhile: pay by the page.
\* Within the quota: the balance is only read.  Beyond it: debit.
ConsumeQuota(c) ==
    LET cost == OverRate * Billable(c)
    IN  /\ subLock = NoOne
        /\ \/ /\ ~sub.row \/ ~sub.inCycle
              /\ Goto(c, "plan", "priced")
              /\ UNCHANGED <<walletVars, sub, subLock, seen>>
           \/ /\ sub.row /\ sub.inCycle /\ cost = 0
              /\ Goto(c, "plan", "planFree")
              /\ seen' = [seen EXCEPT ![c] = balance]
              /\ subLock' = c
              /\ UNCHANGED <<walletVars, sub>>
           \/ /\ sub.row /\ sub.inCycle /\ cost > 0
              /\ Goto(c, "plan", "done")
              /\ Post("plan", c, -cost, Pages[c])
              /\ sub' = [sub EXCEPT !.used = @ + Pages[c]]
              /\ UNCHANGED <<subLock, seen>>
        /\ UNCHANGED <<topupVars, lapses, usage, month>>

PostFreeAndGoOn(c) ==  \* mutant: charge_ocr goes on to charge by the page
    /\ Goto(c, "planFree", "priced")
    /\ ledger' = Append(ledger, [via |-> "plan", of |-> c, amount |-> 0,
                                 pages |-> Pages[c], after |-> seen[c]])
    /\ sub' = [sub EXCEPT !.used = @ + Pages[c]]
    /\ subLock' = NoOne
    /\ UNCHANGED <<balance, topupVars, lapses, seen, usage, month>>
\* Commit of a charge within the quota: its line shows the balance read.
PostFree(c) ==
    /\ Goto(c, "planFree", "done")
    /\ ledger' = Append(ledger, [via |-> "plan", of |-> c, amount |-> 0,
                                 pages |-> Pages[c], after |-> seen[c]])
    /\ sub' = [sub EXCEPT !.used = @ + Pages[c]]
    /\ subLock' = NoOne
    /\ UNCHANGED <<balance, topupVars, lapses, seen, usage, month>>

ReadUsageOwn(c) ==  \* mutant: the charge's own pages count as used
    /\ Goto(c, "priced", "debit")
    /\ \/ seen' = [seen EXCEPT ![c] = IF IsPdf[c] THEN usage[month] + Pages[c] ELSE 0]
       \/ DbErrors /\ seen' = [seen EXCEPT ![c] = 0]
    /\ UNCHANGED <<walletVars, planVars, topupVars, usage, month>>
\* By the page: the pages of the month are read before the transaction that
\* charges; an error counts as none used.
ReadUsage(c) ==
    /\ Goto(c, "priced", "debit")
    /\ \/ seen' = [seen EXCEPT ![c] = IF IsPdf[c] THEN usage[month] ELSE 0]
       \/ DbErrors /\ seen' = [seen EXCEPT ![c] = 0]
    /\ UNCHANGED <<walletVars, planVars, topupVars, usage, month>>

PostCharge(c) ==
    /\ Goto(c, "debit", "done")
    /\ IF Cost(c) <= 0
       THEN UNCHANGED <<walletVars, usage>>
       ELSE /\ Post("pages", c, -Cost(c), IF IsPdf[c] THEN Pages[c] ELSE 0)
            /\ usage' = IF IsPdf[c] THEN [usage EXCEPT ![month] = @ + Pages[c]]
                        ELSE usage
    /\ UNCHANGED <<planVars, topupVars, seen, month>>

\* A transaction of a charge fails: nothing of it stays, and it is only logged.
ChargeFails(c) ==
    /\ DbErrors
    /\ \E pc \in {"plan", "planFree", "debit"} :
           Goto(c, pc, "failed")
    /\ subLock' = IF subLock = c THEN NoOne ELSE subLock
    /\ UNCHANGED <<walletVars, sub, lapses, topupVars, seen, usage, month>>

-----------------------------------------------------------------------------
(* Subscriptions and time *)

SubscribeSilently ==  \* mutant: the fee is taken without a line in the ledger
    /\ subLock = NoOne /\ balance >= Fee
    /\ balance' = balance - Fee /\ sub' = NewCycle
    /\ UNCHANGED <<ledger, subLock, lapses, chargeVars, topupVars>>
\* Buying, or changing the plan: always a whole fee and a new cycle.
Subscribe ==
    /\ subLock = NoOne
    /\ Cardinality({i \in DOMAIN ledger : ledger[i].via = "fee"}) < MaxFees
    /\ balance >= Fee
    /\ Post("fee", NoOne, -Fee, 0) /\ sub' = NewCycle
    /\ UNCHANGED <<subLock, lapses, chargeVars, topupVars>>

Cancel ==
    /\ subLock = NoOne /\ sub.row
    /\ sub' = [sub EXCEPT !.cancelled = TRUE]
    /\ UNCHANGED <<walletVars, subLock, lapses, chargeVars, topupVars>>

CycleEnds ==
    /\ lapses < MaxLapses /\ sub.row /\ sub.inCycle
    /\ sub' = [sub EXCEPT !.inCycle = FALSE]
    /\ lapses' = lapses + 1
    /\ UNCHANGED <<walletVars, subLock, chargeVars, topupVars>>

MonthEnds ==
    /\ month < MaxMonth
    /\ month' = month + 1
    /\ UNCHANGED <<walletVars, planVars, topupVars, charge, seen, usage>>

-----------------------------------------------------------------------------
(* Top-ups *)

RequestTopup(r) ==
    /\ request[r] = "none"
    /\ request' = [request EXCEPT ![r] = "pending"]
    /\ UNCHANGED <<walletVars, planVars, chargeVars, upload, rejecting>>

\* The upload looks at the status and then waits for the bank's answer.
UploadSlip(u) ==
    /\ upload[u] = "idle" /\ request[RequestOf[u]] # "none"
    /\ upload' = [upload EXCEPT ![u] = IF request[RequestOf[u]] = "pending"
                                       THEN "verifying" ELSE "refused"]
    /\ UNCHANGED <<walletVars, planVars, chargeVars, request, rejecting>>

\* Verified: approved without another look at the status, and credited.
SlipVerified(u) ==
    LET r == RequestOf[u]
    IN  /\ upload[u] = "verifying"
        /\ upload' = [upload EXCEPT ![u] = "approved"]
        /\ request' = [request EXCEPT ![r] = "approved"]
        /\ \E amount \in Amounts : Post("slip", r, amount, 0)
        /\ UNCHANGED <<planVars, chargeVars, rejecting>>

\* Not verified, no answer, or the transaction failed: left to a person.
SlipUnverified(u) ==
    /\ upload[u] = "verifying"
    /\ upload' = [upload EXCEPT ![u] = "manual"]
    /\ UNCHANGED <<walletVars, planVars, chargeVars, request, rejecting>>

ApproveOnly(r) ==  \* mutant: approved in one transaction, credited in none
    /\ request[r] = "pending"
    /\ request' = [request EXCEPT ![r] = "approved"]
    /\ UNCHANGED <<walletVars, planVars, chargeVars, upload, rejecting>>
\* The administrator's approval locks the request.
Approve(r) ==
    /\ request[r] = "pending"
    /\ request' = [request EXCEPT ![r] = "approved"]
    /\ \E amount \in Amounts : Post("admin", r, amount, 0)
    /\ UNCHANGED <<planVars, chargeVars, upload, rejecting>>

\* The rejection reads the status without a lock, and then writes.
RejectRead(r) ==
    /\ request[r] = "pending" /\ r \notin rejecting
    /\ rejecting' = rejecting \cup {r}
    /\ UNCHANGED <<walletVars, planVars, chargeVars, request, upload>>

RejectWrite(r) ==
    /\ r \in rejecting
    /\ rejecting' = rejecting \ {r}
    /\ request' = [request EXCEPT ![r] = "rejected"]
    /\ UNCHANGED <<walletVars, planVars, chargeVars, upload>>

-----------------------------------------------------------------------------
ChargeStep(c) ==
    \/ Admit(c) \/ ReadSubscription(c) \/ RenewForCharge(c) \/ ConsumeQuota(c)
    \/ PostFree(c) \/ ReadUsage(c) \/ PostCharge(c) \/ ChargeFails(c)

RequestStep(r) == RequestTopup(r) \/ Approve(r) \/ RejectRead(r) \/ RejectWrite(r)

UploadStep(u) == UploadSlip(u) \/ SlipVerified(u) \/ SlipUnverified(u)

Next ==
    \/ \E c \in Charges : ChargeStep(c)
    \/ \E r \in Requests : RequestStep(r)
    \/ \E u \in Uploads : UploadStep(u)
    \/ ViewSubscription \/ Subscribe \/ Cancel \/ CycleEnds \/ MonthEnds

Spec == Init /\ [][Next]_vars

-----------------------------------------------------------------------------
(* Properties *)

Entry == [via : {"pages", "plan", "fee", "renewal", "admin", "slip"},
          of : Charges \cup Requests \cup {NoOne},
          amount : Int, pages : Nat, after : Int]
ChargePc == {"idle", "admitted", "lapsed", "plan", "planFree", "priced", "debit",
             "done", "failed"}

WalletTypeOK ==
    /\ balance \in Int
    /\ ledger \in Seq(Entry)

PlanTypeOK ==
    /\ sub \in [row : BOOLEAN, inCycle : BOOLEAN, cancelled : BOOLEAN, used : Nat]
    /\ subLock \in Charges \cup {NoOne}
    /\ lapses \in 0..MaxLapses

ChargeTypeOK ==
    /\ charge \in [Charges -> ChargePc] /\ seen \in [Charges -> Int]
    /\ month \in 0..MaxMonth /\ usage \in [0..MaxMonth -> Nat]

TopupTypeOK ==
    /\ request \in [Requests -> {"none", "pending", "approved", "rejected"}]
    /\ upload \in [Uploads -> {"idle", "refused", "verifying", "approved", "manual"}]
    /\ rejecting \subseteq Requests

\* Types: no balance outside the integers, no state outside the columns' CHECKs.
TypeOK == WalletTypeOK /\ PlanTypeOK /\ ChargeTypeOK /\ TopupTypeOK

Moves(i) == ledger[i].amount # 0
NoneMoves(m, n) == \A k \in m..n : ~Moves(k)

\* The sum of s[1] to s[last], counted anew from each index in fresh.
RunningSum(s, fresh, last) ==
    LET sum[n \in 0..last] == IF n = 0 \/ n \in fresh THEN 0 ELSE sum[n - 1] + s[n]
    IN  sum[last]

AmountsOf(l) == [i \in DOMAIN l |-> l[i].amount]

\* Each line that moves money shows the balance of the one before it plus its
\* own amount.  Lines of nothing (scans within the quota) show a balance that
\* was read unlocked.
LinesChain ==
    \A i \in DOMAIN ledger :
        Moves(i) =>
            \/ NoneMoves(1, i - 1) /\ ledger[i].after = ledger[i].amount
            \/ \E k \in 1..(i - 1) :
                   /\ Moves(k) /\ NoneMoves(k + 1, i - 1)
                   /\ ledger[i].after = ledger[k].after + ledger[i].amount

\* The ledger accounts for the balance (grant_credits, _debit_balance): the
\* balance is what its lines add up to, and they chain, whatever committed
\* between the statements of a transaction.
LedgerChains ==
    balance = RunningSum(AmountsOf(ledger), {}, Len(ledger)) /\ LinesChain

\* Money moves only with a line in the ledger, and lines stay as they are.
Wallet == INSTANCE Account WITH
    posted <- [i \in DOMAIN ledger |-> ledger[i].amount]
WalletIsAccount == Wallet!Spec

Lines(via, of) == {i \in DOMAIN ledger : ledger[i].via \in via /\ ledger[i].of = of}

\* A subscription is never paid with money that is not there, though charges
\* may take the balance below zero at any time.
FeeCovered ==
    \A i \in DOMAIN ledger :
        ledger[i].via \in {"fee", "renewal"} => ledger[i].after >= 0

\* However many charges and views find a cycle over, it is renewed once.
RenewedOnce ==
    Cardinality(Lines({"renewal"}, NoOne)) <= lapses

\* A request is credited no sooner than it is approved, and an approved one is
\* credited, even if an upload, an approval and a rejection run at once.
ApprovedIsCredited ==
    \A r \in Requests :
        LET credits == Lines({"admin", "slip"}, r)
        IN  /\ request[r] = "approved" => credits # {}
            /\ credits # {} => request[r] \notin {"none", "pending"}

\* An administrator's approval credits a request at most once.
ApprovedOnce == \A r \in Requests : Cardinality(Lines({"admin"}, r)) <= 1

\* A piece of work is charged at most once, by the page or by the plan, and
\* a charge that failed half-way left nothing behind.
ChargedOnce ==
    \A c \in Charges :
        LET lines == Lines({"pages", "plan"}, c)
        IN  /\ Cardinality(lines) <= 1
            /\ lines # {} => charge[c] = "done"

\* What a scan takes of the quota without paying the plan's rate for it.
FreePages(e) == IF e.via = "plan" THEN e.pages - ((-e.amount) \div OverRate) ELSE 0
FreeOf(l) == [i \in DOMAIN l |-> FreePages(l[i])]
Fees(l)   == {i \in DOMAIN l : l[i].via \in {"fee", "renewal"}}

\* The scans of one paid cycle that cost nothing fit in its quota, however
\* many charges run at once and whatever of them fails: added up from the fee
\* or the renewal that paid for the cycle.
FreeWithinQuota ==
    \A n \in DOMAIN ledger : RunningSum(FreeOf(ledger), Fees(ledger), n) <= Quota

\* What was paid for a line of pages charged at the prices of the month.
PaidByPage(e) == IF e.via = "pages" /\ e.pages > 0 THEN -e.amount ELSE 0
PaidOf(l) == [i \in DOMAIN l |-> PaidByPage(l[i])]

\* Charges that price themselves on the pages read before others were charged
\* may pay too much, but never too little: as long as no month ends while
\* they run, and the second price is the lower one, the pages of a month pay
\* at least what they would have paid one after the other.
PagesPaidInFull ==
    month = 0 /\ Tier2Price <= Tier1Price =>
        EstimatePdf(0, usage[0]) <= RunningSum(PaidOf(ledger), {}, Len(ledger))

\* (Divergence.)  One decision on a request: credited at most once, and not at all when it
\* ends rejected (an answered request is refused with already_reviewed).
DecidedOnce ==
    \A r \in Requests :
        LET credits == Lines({"admin", "slip"}, r)
        IN  /\ Cardinality(credits) <= 1
            /\ request[r] = "rejected" => credits = {}
=============================================================================
