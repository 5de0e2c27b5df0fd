------------------------------ MODULE CardRefund ------------------------------
(***************************************************************************)
(* handleRefundCard of payments-go: several admins refund the same card    *)
(* charge, whole or in part. A request reads the charge, reserves its row  *)
(* ('paid' -> 'refunding'), asks the gateway, and records the outcome or   *)
(* gives the reservation back. Amounts are in some unit of money.          *)
(*                                                                         *)
(* Definitions whose comment begins with "Mutant" are wrong on purpose, to *)
(* see that a property notices.                                            *)
(***************************************************************************)
EXTENDS ChargeTable, Integers

CONSTANTS
    Amount,     \* amount_cents of the charge
    Refunds,    \* the refund requests served at the same time
    MayGoWrong, \* what may go wrong, see RefundFailPoints
    MaxFailures \* how many times something may go wrong

RefundFailPoints == {"begin", "answer", "rollback", "finish", "crash"}

ASSUME RefundAssumption ==
    /\ Amount \in Nat \ {0}
    /\ MayGoWrong \subseteq RefundFailPoints
    /\ MaxFailures \in Nat

\* A request without a body: no amount is sent to the gateway.
Whole == 0

VARIABLES
    status,    \* pay_charges.status
    refunded,  \* pay_charges.refunded_cents
    back,      \* what the gateway has given back, up to MaxBack
    pc,        \* where each request is
    remaining, \* the balance it has read
    want,      \* the amount it asks for, or Whole
    failures   \* how many times something went wrong

rowVars == <<status, refunded>>
askVars == <<remaining, want>>
refundVars == <<status, refunded, back, pc, remaining, want, failures>>

\* The bound of back: a gateway that does not look at the balance may give back
\* what a request asks for on top of the whole amount.
MaxBack == 2 * Amount

\* The requests that hold the reservation.
Holding == {"reserved", "refunded", "refused"}

RefundTypeOK ==
    /\ status \in {"paid", "refunding", "refunded"}
    /\ refunded \in 0 .. Amount
    /\ back \in 0 .. MaxBack
    /\ pc \in [Refunds -> {"idle", "read"} \cup Holding]
    /\ remaining \in [Refunds -> 0 .. Amount]
    /\ want \in [Refunds -> 0 .. Amount]
    /\ failures \in 0 .. MaxFailures
    /\ \A r \in Refunds : pc[r] # "idle" => remaining[r] > 0 /\ want[r] <= remaining[r]

RefundInit ==
    /\ status = "paid" /\ refunded = 0 /\ back = 0
    /\ pc = [r \in Refunds |-> "idle"]
    /\ remaining = [r \in Refunds |-> 0]
    /\ want = [r \in Refunds |-> 0]
    /\ failures = 0

Goes(r, from, to) == pc[r] = from /\ pc' = [pc EXCEPT ![r] = to]

GoesWrong(fail) ==
    /\ fail \in MayGoWrong /\ failures < MaxFailures
    /\ failures' = failures + 1

\* GetCharge, and the amount checked against the balance that was read.
ReadCharge(r, a) ==
    /\ status = "paid" /\ a <= Amount - refunded /\ refunded < Amount
    /\ Goes(r, "idle", "read")
    /\ remaining' = [remaining EXCEPT ![r] = Amount - refunded]
    /\ want' = [want EXCEPT ![r] = a]
    /\ UNCHANGED <<rowVars, back, failures>>

\* Mutant: the row is reserved however it is found.
ReserveAnyway(r) ==
    /\ Goes(r, "read", "reserved") /\ status' = "refunding"
    /\ UNCHANGED <<refunded, back, askVars, failures>>

\* BeginChargeRefund: only the request that changed the row goes on.
Begin(r) ==
    /\ \/ status = "paid" /\ Goes(r, "read", "reserved")
          /\ status' = BeginChargeRefund(status) /\ UNCHANGED failures
       \/ status # "paid" /\ Goes(r, "read", "idle") /\ UNCHANGED <<status, failures>>
       \/ GoesWrong("begin") /\ Goes(r, "read", "idle") /\ UNCHANGED status
    /\ UNCHANGED <<refunded, back, askVars>>

\* What the request believes it refunds.
Value(r) == IF want[r] = Whole THEN remaining[r] ELSE want[r]

\* The gateway gives back an amount, or all that is left; it may look at the
\* balance, and then refuses, or not.
GivesBack(r) ==
    /\ back' = IF want[r] = Whole THEN (IF back < Amount THEN Amount ELSE back)
                                  ELSE back + want[r]
    /\ back' <= MaxBack

\* provider.RefundCard succeeds.
GatewayRefunds(r) ==
    /\ Goes(r, "reserved", "refunded") /\ GivesBack(r)
    /\ UNCHANGED <<rowVars, askVars, failures>>

\* Mutant: an error of the gateway is recorded like a refund.
RefusalIsRefund(r) ==
    /\ Goes(r, "reserved", "refunded")
    /\ UNCHANGED <<rowVars, back, askVars, failures>>

\* provider.RefundCard fails: the gateway refused, or the answer was lost.
GatewayRefuses(r) ==
    /\ Goes(r, "reserved", "refused")
    /\ \/ UNCHANGED <<back, failures>>
       \/ GivesBack(r) /\ GoesWrong("answer")
    /\ UNCHANGED <<rowVars, askVars>>

\* Mutant: the reservation is not given back.
RefuseOnly(r) ==
    /\ Goes(r, "refused", "idle")
    /\ UNCHANGED <<rowVars, back, askVars, failures>>

\* RollbackChargeRefund; its error is only logged.
Rollback(r) ==
    /\ Goes(r, "refused", "idle")
    /\ \/ status' = RollbackChargeRefund(status) /\ UNCHANGED failures
       \/ GoesWrong("rollback") /\ UNCHANGED status
    /\ UNCHANGED <<refunded, back, askVars>>

\* Mutant: the refund that completes the amount does not close the charge.
FinishOffByOne(r) ==
    /\ Goes(r, "refunded", "idle")
    /\ status' = FinishChargeRefund(status, refunded + Value(r) > Amount)
    /\ refunded' = IF refunded + Value(r) > Amount THEN Amount ELSE refunded + Value(r)
    /\ UNCHANGED <<back, askVars, failures>>

\* FinishChargeRefund; its error is only logged, for the money is gone.
Finish(r) ==
    /\ Goes(r, "refunded", "idle")
    /\ LET sum == refunded + Value(r)
       IN \/ /\ status' = FinishChargeRefund(status, sum >= Amount)
             /\ refunded' = IF status # "refunding" THEN refunded
                            ELSE IF sum > Amount THEN Amount ELSE sum
             /\ UNCHANGED failures
          \/ GoesWrong("finish") /\ UNCHANGED rowVars
    /\ UNCHANGED <<back, askVars>>

\* The process dies and its requests with it.
RefundCrash ==
    /\ GoesWrong("crash")
    /\ pc' = [r \in Refunds |-> "idle"]
    /\ UNCHANGED <<rowVars, back, askVars>>

RefundStep(r) ==
    \/ Begin(r) \/ GatewayRefunds(r) \/ GatewayRefuses(r) \/ Rollback(r) \/ Finish(r)

RefundNext ==
    \/ \E r \in Refunds : RefundStep(r) \/ \E a \in 0 .. Amount : ReadCharge(r, a)
    \/ RefundCrash

RefundSpec == RefundInit /\ [][RefundNext]_refundVars

\* A request that has begun ends: its calls time out.
RefundFairSpec == RefundSpec /\ \A r \in Refunds : WF_refundVars(RefundStep(r))

-----------------------------------------------------------------------------
(* Properties *)

\* BeginChargeRefund "e o que fecha o double-refund de verdade": no two requests
\* are between the reservation and its end, though all of them have read 'paid'.
OneRefundAtATime ==
    \A q, r \in Refunds : q # r => ~(pc[q] \in Holding /\ pc[r] \in Holding)

\* The books never say that more was given back than the gateway gave back,
\* whatever balance a request had read when it recorded its refund.
BooksWithinRefunds == refunded <= back

\* A charge is 'refunded' exactly when the recorded refunds add up to it, so
\* that a charge with nothing left to refund is never offered for a refund.
RefundedIsWhole == status = "refunded" <=> refunded = Amount

\* As long as nothing goes wrong, a reservation ends: the row does not stay
\* 'refunding', in which no handler and no job would touch it.
ReservationEnds ==
    status = "refunding" /\ failures = 0 ~> status # "refunding" \/ failures > 0

-----------------------------------------------------------------------------
(* What a comment of the code promises and the code does not keep *)

\* handlers_cards.go, handleRefundCard: the ceiling keeps a refund within what
\* is left ("sem ele dava para pedir a Efi um estorno maior do que a cobranca").
\* The balance was read before the row was reserved.
AskedWithinBalance ==
    \A r \in Refunds : pc[r] = "reserved" => Value(r) <= Amount - refunded

-----------------------------------------------------------------------------
(* The inductive invariant behind OneRefundAtATime and BooksWithinRefunds *)

\* A request that holds the reservation finds it in the row.
HoldingInv == \A r \in Refunds : pc[r] \in Holding => status = "refunding"

\* What a request is about to record has been given back.
RecordInv ==
    \A r \in Refunds : pc[r] = "refunded" =>
        IF refunded + Value(r) > Amount THEN back >= Amount ELSE refunded + Value(r) <= back

RefundInv == RefundTypeOK /\ OneRefundAtATime /\ HoldingInv /\ RecordInv /\ BooksWithinRefunds
            /\ RefundedIsWhole

=============================================================================
