\* Two admins refund a charge of three units, whole or in part; something may
\* go wrong twice.
SPECIFICATION RefundFairSpec
CONSTANTS
    Amount = 3
    Refunds = {r1, r2}
    MayGoWrong = {"begin", "answer", "rollback", "finish", "crash"}
    MaxFailures = 2
CHECK_DEADLOCK FALSE
INVARIANTS
    OneRefundAtATime
    BooksWithinRefunds
    RefundedIsWhole
PROPERTY ReservationEnds
