----------------------------- MODULE ChargeTable -----------------------------
(***************************************************************************)
(* The statements payments-go runs on the status column of pay_charges.    *)
(* Each is one SQL statement, so each is atomic: a conditional UPDATE is   *)
(* the function from the status a row has to the status it is left with.   *)
(* A row that does not match the WHERE clause is left alone, and most      *)
(* callers do not look at the number of rows affected.                     *)
(*                                                                         *)
(* Definitions whose comment begins with "Mutant" are wrong on purpose:    *)
(* they are put in the place of the definition that follows them to see    *)
(* that a property notices.                                                *)
(***************************************************************************)

\* The CHECK constraint of the column; "none" is a row not inserted yet.
Status == {"none", "creating", "pending", "paid", "expired", "canceled",
           "refunding", "refunded"}

\* UPDATE ... SET status = to WHERE status IN (from)
Update(s, from, to) == IF s \in from THEN to ELSE s

\* The gateway answered: the reservation becomes a payable charge.
ActivateCharge(s) == Update(s, {"creating"}, "pending")

\* The gateway refused: the reservation is given up.
AbandonCharge(s) == Update(s, {"creating"}, "canceled")

\* Mutant: the age of the reservation is not looked at.
CancelAnyCreating(s, stale) == Update(s, {"creating"}, "canceled")

\* Mutant: the wrong status is cleaned up.
CancelStalePending(s, stale) ==
    IF stale THEN Update(s, {"pending"}, "canceled") ELSE s

\* The hourly job: a reservation whose creator died.
CancelStaleCreating(s, stale) ==
    IF stale THEN Update(s, {"creating"}, "canceled") ELSE s

\* The hourly job: a PIX charge whose QR code is past its validity.
ExpireOverdue(s, isPix, overdue) ==
    IF isPix /\ overdue THEN Update(s, {"pending"}, "expired") ELSE s

\* A confirmed payment, matched by correlation_id or by provider_charge_id.
Payable == {"pending", "expired"}

\* Mutant: a payment that crosses with the expiry job is not booked.
MarkPendingPaid(s) == Update(s, {"pending"}, "paid")

\* Mutant: a payment brings a canceled charge back.
MarkOrRevivePaid(s) == Update(s, Payable \cup {"canceled"}, "paid")

MarkChargePaid(s) == Update(s, Payable, "paid")

\* The payer's cancel button.
CancelByToken(s) == Update(s, {"pending"}, "canceled")

\* Refund: reserve, give the reservation back, or record the outcome.
BeginChargeRefund(s) == Update(s, {"paid"}, "refunding")
RollbackChargeRefund(s) == Update(s, {"refunding"}, "paid")
FinishChargeRefund(s, full) ==
    Update(s, {"refunding"}, IF full THEN "refunded" ELSE "paid")

=============================================================================
