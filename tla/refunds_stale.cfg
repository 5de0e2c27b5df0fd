\* Nothing goes wrong: two admins refund the same charge.
SPECIFICATION RefundSpec
CONSTANTS
    Amount = 3
    Refunds = {r1, r2}
    MayGoWrong = {}
    MaxFailures = 0
CHECK_DEADLOCK FALSE
INVARIANT AskedWithinBalance
