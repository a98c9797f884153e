\* One slip and one administrator.
SPECIFICATION Spec
CONSTANTS
    c1 = c1
    c2 = c2
    c3 = c3
    r1 = r1
    u1 = u1
    NoOne = NoOne
    RequestOf <- Slip
    Requests = {r1}
    Uploads = {u1}
    Pages <- TwoPages
    CharCost <- DocCost
    Tier1Price = 2
    Tier2Price = 1
    OverRate = 1
    Charges = {c1}
    Exempt = {}
    IsPdf <- PdfAndDoc
    Amounts = {6}
    Tier1Pages = 1
    Quota = 3
    Fee = 5
    MaxFees = 0
    MaxLapses = 0
    MaxMonth = 0
    DbErrors = FALSE
CHECK_DEADLOCK FALSE
INVARIANTS DecidedOnce
