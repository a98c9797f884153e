\* A page document and one by character, a slip and an administrator, a
\* subscription that lapses once; any statement may fail.
SPECIFICATION Spec
CONSTANTS
    c1 = c1
    c2 = c2
    c3 = c3
    r1 = r1
    u1 = u1
    NoOne = NoOne
    RequestOf <- Slip
    Requests = {r1}
    Uploads = {u1}
    Pages <- TwoPages
    CharCost <- DocCost
    Tier1Price = 2
    Tier2Price = 1
    OverRate = 1
    Charges = {c1, c2, c3}
    Exempt = {}
    IsPdf <- PdfAndDoc
    Amounts = {12}
    Tier1Pages = 1
    Quota = 3
    Fee = 5
    MaxFees = 1
    MaxLapses = 1
    MaxMonth = 1
    DbErrors = TRUE
CHECK_DEADLOCK FALSE
INVARIANTS TypeOK LedgerChains FeeCovered RenewedOnce ApprovedIsCredited ChargedOnce
    FreeWithinQuota PagesPaidInFull
PROPERTIES WalletIsAccount
