------------------------ MODULE ChargeLifecycle_proofs ------------------------
(***************************************************************************)
(* Proofs about ChargeLifecycle, for every set of charges and handlers:    *)
(* type correctness, the inductive invariant behind the safety properties  *)
(* of the payment webhooks, what becomes of a row while and after its      *)
(* charge is created, and the refinement of Settlement.                    *)
(***************************************************************************)
EXTENDS ChargeLifecycle, TLAPS

(* The groups of variables and the helpers every action is written with. *)
USE DEF rowVars, requestVars, gatewayVars, eventVars, SetStatus, CreatorGoes,
        HandlerGoes, HandlerEnds, Serves, Charge, Notifies

-----------------------------------------------------------------------------
(* Type correctness *)

\* Every statement leaves a status of the column's CHECK constraint.
LEMMA TableTypes ==
    \A s \in Status :
        /\ ActivateCharge(s) \in Status
        /\ AbandonCharge(s) \in Status
        /\ MarkChargePaid(s) \in Status
        /\ CancelByToken(s) \in Status
        /\ \A x, y : ExpireOverdue(s, x, y) \in Status /\ CancelStaleCreating(s, x) \in Status
BY DEF Status, Update, Payable, ActivateCharge, AbandonCharge, MarkChargePaid,
       CancelByToken, ExpireOverdue, CancelStaleCreating

LEMMA InitType == Init => TypeOK
BY ConstantsAssumption DEF Init, TypeOK, Status, CreatorPC, HandlerStates, HandlerPC, Idle, Notified

LEMMA NextType == TypeOK /\ [Next]_vars => TypeOK'
<1> SUFFICES ASSUME TypeOK, [Next]_vars PROVE TypeOK'
  OBVIOUS
<1> USE DEF TypeOK, CreatorPC, HandlerStates, HandlerPC, Idle, Notified
<1>1. ASSUME NEW c \in Charges, ReserveCharge(c) PROVE TypeOK'
  BY <1>1 DEF ReserveCharge, Status
<1>2. ASSUME NEW c \in Charges, GatewayCreates(c) PROVE TypeOK'
  BY <1>2 DEF GatewayCreates, GatewayIsPaid, Calling
<1>3. ASSUME NEW c \in Charges, GatewayRefuses(c) PROVE TypeOK'
  BY <1>3 DEF GatewayRefuses, GatewayIsPaid, Calling
<1>4. ASSUME NEW c \in Charges, Abandon(c) PROVE TypeOK'
  BY <1>4, TableTypes DEF Abandon
<1>5. ASSUME NEW c \in Charges, Activate(c) PROVE TypeOK'
  BY <1>5, TableTypes DEF Activate
<1>6. ASSUME NEW c \in Charges, InsertCreated(c) PROVE TypeOK'
  BY <1>6 DEF InsertCreated, Status
<1>7. ASSUME NEW c \in Charges, MarkCardPaid(c) PROVE TypeOK'
  BY <1>7, TableTypes DEF MarkCardPaid
<1>8. ASSUME NEW c \in Charges, PayerPays(c) PROVE TypeOK'
  BY <1>8 DEF PayerPays, GatewayIsPaid
<1>9. ASSUME NEW c \in Charges, DueDatePasses(c) PROVE TypeOK'
  BY <1>9 DEF DueDatePasses
<1>10. ASSUME NEW c \in Charges, GatewayExpires(c) PROVE TypeOK'
  BY <1>10 DEF GatewayExpires
<1>11. ASSUME NEW c \in Charges, WebhookAlreadySeen(c) PROVE TypeOK'
  BY <1>11 DEF WebhookAlreadySeen
<1>12. ASSUME NEW c \in Charges, ClaimAges(c) PROVE TypeOK'
  BY <1>12 DEF ClaimAges
<1>13. ASSUME NEW c \in Charges, ReservationAges(c) PROVE TypeOK'
  BY <1>13 DEF ReservationAges
<1>14. ASSUME NEW c \in Charges, CancelChargeByToken(c) PROVE TypeOK'
  BY <1>14, TableTypes DEF CancelChargeByToken
<1>15. ASSUME NEW c \in Charges, RemoveAtGateway(c) PROVE TypeOK'
  BY <1>15 DEF RemoveAtGateway
<1>16. ASSUME NEW h \in Handlers, NEW c \in Charges, ClaimWebhookEvent(h, c) PROVE TypeOK'
  BY <1>16 DEF ClaimWebhookEvent
<1>17. ASSUME NEW h \in Handlers, NEW c \in Charges, UnbackedNotification(h, c) PROVE TypeOK'
  BY <1>17 DEF UnbackedNotification
<1>18. ASSUME NEW h \in Handlers, ConfirmAtGateway(h) PROVE TypeOK'
  <2>1. handler[h].charge \in Charges /\ handler[h] \in HandlerStates
    BY <1>18 DEF ConfirmAtGateway
  <2>2. CASE handler' = [handler EXCEPT ![h].pc = "mark"] /\ UNCHANGED outbox
    BY <1>18, <2>1, <2>2 DEF ConfirmAtGateway
  <2>3. CASE handler' = [handler EXCEPT ![h] = Idle] /\ outbox' \in {outbox, Acked(h)}
    BY <1>18, <2>1, <2>3 DEF ConfirmAtGateway, Acked
  <2>4. QED
    BY <1>18, <2>2, <2>3 DEF ConfirmAtGateway
<1>19. ASSUME NEW h \in Handlers, MarkPaid(h) PROVE TypeOK'
  <2>1. handler[h].charge \in Charges /\ handler[h] \in HandlerStates
    BY <1>19 DEF MarkPaid
  <2>2. CASE "mark" \in MayFail /\ HandlerEnds(h) /\ UNCHANGED status
    BY <1>19, <2>2 DEF MarkPaid
  <2>3. CASE /\ SetStatus(Charge(h), MarkChargePaid(status[Charge(h)]))
             /\ \E pc \in {"notify", "finish"} : HandlerGoes(h, pc)
    <3>1. status' \in [Charges -> Status]
      BY <2>1, <2>3, TableTypes
    <3>2. handler' \in [Handlers -> HandlerStates]
      BY <2>1, <2>3
    <3>3. \A g \in Handlers : handler'[g].pc # "idle" => handler'[g].charge \in Charges
      BY <2>1, <2>3
    <3>4. QED
      BY <1>19, <3>1, <3>2, <3>3 DEF MarkPaid
  <2>4. QED
    BY <1>19, <2>2, <2>3 DEF MarkPaid
<1>20. ASSUME NEW h \in Handlers, NotifyPaid(h) PROVE TypeOK'
  <2>1. handler[h].charge \in Charges /\ handler[h] \in HandlerStates
    BY <1>20 DEF NotifyPaid
  <2>2. handler' \in [Handlers -> HandlerStates]
    BY <1>20, <2>1 DEF NotifyPaid
  <2>3. \A g \in Handlers : handler'[g].pc # "idle" => handler'[g].charge \in Charges
    BY <1>20, <2>1 DEF NotifyPaid
  <2>4. notified' \in [Charges -> Notified]
    BY <1>20, <2>1 DEF NotifyPaid
  <2>5. QED
    BY <1>20, <2>2, <2>3, <2>4 DEF NotifyPaid
<1>27. ASSUME NEW c \in Charges, NotifyInline(c) PROVE TypeOK'
  BY <1>27 DEF NotifyInline
<1>21. ASSUME NEW h \in Handlers, MarkWebhookDone(h) PROVE TypeOK'
  BY <1>21 DEF MarkWebhookDone, Acked
<1>22. CASE ExpireOverdueCharges
  BY <1>22, TableTypes DEF ExpireOverdueCharges
<1>23. CASE CancelStaleCreatingCharges
  <2>1. \A c \in Charges : CancelStaleCreating(status[c], stale[c]) \in Status
    BY TableTypes
  <2>2. status' \in [Charges -> Status]
    BY <1>23, <2>1 DEF CancelStaleCreatingCharges
  <2>3. QED
    BY <1>23, <2>2 DEF CancelStaleCreatingCharges
<1>24. CASE Crash
  <2>1. crashes' \in 0 .. MaxCrashes
    BY <1>24, ConstantsAssumption DEF Crash
  <2>2. creator' \in [Charges -> CreatorPC]
    BY <1>24 DEF Crash, InFlight
  <2>3. handler' \in [Handlers -> HandlerStates] /\ \A h \in Handlers : handler'[h].pc = "idle"
    BY <1>24 DEF Crash
  <2>4. canceler' \in [Charges -> {"idle", "removing"}] /\ job' \in {"idle", "cleanup"}
    BY <1>24 DEF Crash
  <2>5. UNCHANGED <<status, stale, overdue, gw, outbox, event, fresh>>
    BY <1>24 DEF Crash
  <2>7. notified' \in [Charges -> Notified]
    BY <1>24 DEF Crash
  <2>6. QED
    BY <2>1, <2>2, <2>3, <2>4, <2>5, <2>7
<1>25. CASE UNCHANGED vars
  BY <1>25 DEF vars
<1>26. QED
  BY <1>1, <1>2, <1>3, <1>4, <1>5, <1>6, <1>7, <1>8, <1>9, <1>10, <1>11, <1>12, <1>13, <1>14, <1>15, <1>16, <1>17, <1>18, <1>19, <1>20, <1>21, <1>22, <1>23, <1>24, <1>25, <1>27 DEF Next, CreateStep, WebhookStep

\* Every variable keeps its type.
THEOREM TypeCorrect == Spec => []TypeOK
<1>1. Init => TypeOK
  BY InitType
<1>2. TypeOK /\ [Next]_vars => TypeOK'
  BY NextType
<1>3. QED
  BY <1>1, <1>2, PTL DEF Spec

-----------------------------------------------------------------------------
(* The inductive invariant *)

LEMMA NextInductive == IInv /\ [Next]_vars => IInv'
<1> SUFFICES ASSUME IInv, [Next]_vars PROVE IInv'
  OBVIOUS
<1>0. TypeOK /\ TypeOK'
  BY NextType DEF IInv
<1> USE DEF IInv, GatewayInv, PixInv, PaidOnlyIfConfirmed, DoneEventIsBooked, Payable, Pix
<1>1. ASSUME NEW c \in Charges, ReserveCharge(c) PROVE IInv'
  BY <1>0, <1>1 DEF TypeOK, ReserveCharge
<1>2. ASSUME NEW c \in Charges, GatewayCreates(c) PROVE IInv'
  BY <1>0, <1>2 DEF TypeOK, GatewayCreates, Calling, GatewayIsPaid
<1>3. ASSUME NEW c \in Charges, GatewayRefuses(c) PROVE IInv'
  BY <1>0, <1>3 DEF TypeOK, GatewayRefuses, Calling, GatewayIsPaid
<1>4. ASSUME NEW c \in Charges, Abandon(c) PROVE IInv'
  BY <1>0, <1>4 DEF TypeOK, Abandon, AbandonCharge, Update
<1>5. ASSUME NEW c \in Charges, Activate(c) PROVE IInv'
  BY <1>0, <1>5 DEF TypeOK, Activate, ActivateCharge, Update
<1>6. ASSUME NEW c \in Charges, InsertCreated(c) PROVE IInv'
  BY <1>0, <1>6 DEF TypeOK, InsertCreated
<1>7. ASSUME NEW c \in Charges, MarkCardPaid(c) PROVE IInv'
  BY <1>0, <1>7 DEF TypeOK, MarkCardPaid, MarkChargePaid, Update
<1>8. ASSUME NEW c \in Charges, PayerPays(c) PROVE IInv'
  BY <1>0, <1>8 DEF TypeOK, PayerPays, GatewayIsPaid
<1>9. ASSUME NEW c \in Charges, DueDatePasses(c) PROVE IInv'
  BY <1>0, <1>9 DEF TypeOK, DueDatePasses
<1>10. ASSUME NEW c \in Charges, GatewayExpires(c) PROVE IInv'
  BY <1>0, <1>10 DEF TypeOK, GatewayExpires
<1>11. ASSUME NEW c \in Charges, WebhookAlreadySeen(c) PROVE IInv'
  BY <1>0, <1>11 DEF TypeOK, WebhookAlreadySeen
<1>12. ASSUME NEW c \in Charges, ClaimAges(c) PROVE IInv'
  BY <1>0, <1>12 DEF TypeOK, ClaimAges
<1>13. ASSUME NEW c \in Charges, ReservationAges(c) PROVE IInv'
  BY <1>0, <1>13 DEF TypeOK, ReservationAges
<1>14. ASSUME NEW c \in Charges, CancelChargeByToken(c) PROVE IInv'
  BY <1>0, <1>14 DEF TypeOK, CancelChargeByToken, CancelByToken, Update
<1>15. ASSUME NEW c \in Charges, RemoveAtGateway(c) PROVE IInv'
  BY <1>0, <1>15 DEF TypeOK, RemoveAtGateway
<1>16. ASSUME NEW h \in Handlers, NEW c \in Charges, ClaimWebhookEvent(h, c) PROVE IInv'
  BY <1>0, <1>16 DEF TypeOK, ClaimWebhookEvent
<1>17. ASSUME NEW h \in Handlers, NEW c \in Charges, UnbackedNotification(h, c) PROVE IInv'
  BY <1>0, <1>17 DEF TypeOK, UnbackedNotification
<1>18. ASSUME NEW h \in Handlers, ConfirmAtGateway(h) PROVE IInv'
  <2>1. handler[h].charge \in Charges /\ handler[h] \in HandlerStates
    BY <1>0, <1>18 DEF TypeOK, ConfirmAtGateway
  <2>2. CASE /\ gw[Charge(h)] = "paid" /\ UNCHANGED outbox
             /\ handler' = [handler EXCEPT ![h].pc = "mark"]
    <3>1. \A g \in Handlers :
            /\ handler'[g].charge = handler[g].charge
            /\ handler'[g].backed = handler[g].backed
            /\ handler'[g].pc = IF g = h THEN "mark" ELSE handler[g].pc
      BY <1>0, <2>1, <2>2 DEF TypeOK, HandlerStates
    <3>2. QED
      BY <1>0, <1>18, <2>2, <3>1 DEF TypeOK, ConfirmAtGateway
  <2>3. CASE /\ handler' = [handler EXCEPT ![h] = Idle]
             /\ outbox' = outbox \/ outbox' = Acked(h)
    <3>1. \A g \in Handlers : handler'[g].pc # "idle" => handler'[g] = handler[g]
      BY <1>0, <2>3 DEF TypeOK, Idle
    <3>2. \A c \in Charges : outbox'[c] # "none" => outbox[c] # "none" \/ gw[c] = "paid"
      <4>1. handler[h].backed => gw[Charge(h)] = "paid"
        BY <1>18 DEF ConfirmAtGateway
      <4>2. QED
        BY <1>0, <2>1, <2>3, <4>1 DEF TypeOK, Acked
    <3>3. QED
      BY <1>0, <1>18, <2>3, <3>1, <3>2 DEF TypeOK, ConfirmAtGateway
  <2>4. QED
    BY <1>18, <2>2, <2>3 DEF ConfirmAtGateway
<1>19. ASSUME NEW h \in Handlers, MarkPaid(h) PROVE IInv'
  <2>1. handler[h].charge \in Charges /\ handler[h] \in HandlerStates
    BY <1>0, <1>19 DEF TypeOK, MarkPaid
  <2>2. gw[Charge(h)] = "paid"
    BY <1>19 DEF MarkPaid
  <2>3. CASE "mark" \in MayFail /\ HandlerEnds(h) /\ UNCHANGED status
    <3>1. \A g \in Handlers : handler'[g].pc # "idle" => handler'[g] = handler[g]
      BY <1>0, <2>3 DEF TypeOK, Idle
    <3>2. QED
      BY <1>0, <1>19, <2>3, <3>1 DEF TypeOK, MarkPaid
  <2>4. CASE /\ status' = [status EXCEPT ![Charge(h)] = MarkChargePaid(status[Charge(h)])]
             /\ \E pc \in {"notify", "finish"} : HandlerGoes(h, pc)
    <3>1. \A g \in Handlers :
            /\ handler'[g].charge = handler[g].charge
            /\ handler'[g].backed = handler[g].backed
            /\ g # h => handler'[g].pc = handler[g].pc
      BY <1>0, <2>1, <2>4 DEF TypeOK, HandlerStates
    <3>2. \A c \in Charges :
            status'[c] = IF c = Charge(h) /\ status[c] \in Payable THEN "paid" ELSE status[c]
      BY <1>0, <2>1, <2>4 DEF TypeOK, MarkChargePaid, Update
    <3>3. UNCHANGED <<creator, gw, outbox, event>>
      BY <1>19 DEF MarkPaid
    <3>4. QED
      BY <1>0, <2>1, <2>2, <3>1, <3>2, <3>3 DEF TypeOK
  <2>5. QED
    BY <1>19, <2>3, <2>4 DEF MarkPaid
<1>20. ASSUME NEW h \in Handlers, NotifyPaid(h) PROVE IInv'
  BY <1>0, <1>20 DEF TypeOK, NotifyPaid
<1>27. ASSUME NEW c \in Charges, NotifyInline(c) PROVE IInv'
  BY <1>0, <1>27 DEF TypeOK, NotifyInline
<1>21. ASSUME NEW h \in Handlers, MarkWebhookDone(h) PROVE IInv'
  BY <1>0, <1>21 DEF TypeOK, MarkWebhookDone, Acked, Idle
<1>22. CASE ExpireOverdueCharges
  BY <1>0, <1>22 DEF TypeOK, ExpireOverdueCharges, ExpireOverdue, Update
<1>23. CASE CancelStaleCreatingCharges
  BY <1>0, <1>23 DEF TypeOK, CancelStaleCreatingCharges, CancelStaleCreating, Update
<1>24. CASE Crash
  BY <1>0, <1>24 DEF TypeOK, Crash, InFlight, Idle
<1>25. CASE UNCHANGED vars
  BY <1>0, <1>25 DEF vars
<1>26. QED
  BY <1>1, <1>2, <1>3, <1>4, <1>5, <1>6, <1>7, <1>8, <1>9, <1>10, <1>11, <1>12, <1>13, <1>14, <1>15, <1>16, <1>17, <1>18, <1>19, <1>20, <1>21, <1>22, <1>23, <1>24, <1>25, <1>27 DEF Next, CreateStep, WebhookStep

LEMMA InitInductive == Init => IInv
<1>1. ASSUME Init PROVE TypeOK
  BY <1>1, InitType
<1>2. ASSUME Init PROVE GatewayInv /\ PixInv /\ PaidOnlyIfConfirmed /\ DoneEventIsBooked
  BY <1>2 DEF Init, GatewayInv, PixInv, PaidOnlyIfConfirmed, DoneEventIsBooked, Pix, Idle
<1>3. QED
  BY <1>1, <1>2 DEF IInv

\* The invariant the two theorems below are read off.
THEOREM Inductive == Spec => []IInv
<1>1. Init => IInv
  BY InitInductive
<1>2. IInv /\ [Next]_vars => IInv'
  BY NextInductive
<1>3. QED
  BY <1>1, <1>2, PTL DEF Spec

\* A charge is booked as paid only when the gateway holds the money.
THEOREM PaidIsConfirmed == Spec => []PaidOnlyIfConfirmed
<1>1. IInv => PaidOnlyIfConfirmed
  BY DEF IInv
<1>2. QED
  BY <1>1, Inductive, PTL

\* A PIX event is consumed only after its effect.
THEOREM DoneIsBooked == Spec => []DoneEventIsBooked
<1>1. IInv => DoneEventIsBooked
  BY DEF IInv
<1>2. QED
  BY <1>1, Inductive, PTL

-----------------------------------------------------------------------------
(* The row while its charge is created, and once it is closed *)

LEMMA NextRow == TypeOK /\ RowInv /\ [Next]_vars => RowInv'
<1> SUFFICES ASSUME TypeOK, RowInv, [Next]_vars PROVE RowInv'
  OBVIOUS
<1>0. TypeOK /\ TypeOK' /\ Cards \subseteq GatewayFirst /\ GatewayFirst \subseteq Charges
  BY NextType, ConstantsAssumption
<1> USE DEF RowInv
<1>1. ASSUME NEW c \in Charges, ReserveCharge(c) PROVE RowInv'
  BY <1>0, <1>1 DEF TypeOK, ReserveCharge
<1>2. ASSUME NEW c \in Charges, GatewayCreates(c) PROVE RowInv'
  BY <1>0, <1>2 DEF TypeOK, GatewayCreates, GatewayIsPaid, Calling
<1>3. ASSUME NEW c \in Charges, GatewayRefuses(c) PROVE RowInv'
  BY <1>0, <1>3 DEF TypeOK, GatewayRefuses, GatewayIsPaid, Calling
<1>4. ASSUME NEW c \in Charges, Abandon(c) PROVE RowInv'
  BY <1>0, <1>4 DEF TypeOK, Abandon, AbandonCharge, Update
<1>5. ASSUME NEW c \in Charges, Activate(c) PROVE RowInv'
  BY <1>0, <1>5 DEF TypeOK, Activate, ActivateCharge, Update
<1>6. ASSUME NEW c \in Charges, InsertCreated(c) PROVE RowInv'
  BY <1>0, <1>6 DEF TypeOK, InsertCreated
<1>7. ASSUME NEW c \in Charges, MarkCardPaid(c) PROVE RowInv'
  BY <1>0, <1>7 DEF TypeOK, MarkCardPaid, MarkChargePaid, Update, Payable
<1>8. ASSUME NEW c \in Charges, PayerPays(c) PROVE RowInv'
  BY <1>0, <1>8 DEF TypeOK, PayerPays, GatewayIsPaid
<1>9. ASSUME NEW c \in Charges, DueDatePasses(c) PROVE RowInv'
  BY <1>0, <1>9 DEF TypeOK, DueDatePasses
<1>10. ASSUME NEW c \in Charges, GatewayExpires(c) PROVE RowInv'
  BY <1>0, <1>10 DEF TypeOK, GatewayExpires
<1>11. ASSUME NEW c \in Charges, WebhookAlreadySeen(c) PROVE RowInv'
  BY <1>0, <1>11 DEF TypeOK, WebhookAlreadySeen
<1>12. ASSUME NEW c \in Charges, ClaimAges(c) PROVE RowInv'
  BY <1>0, <1>12 DEF TypeOK, ClaimAges
<1>13. ASSUME NEW c \in Charges, ReservationAges(c) PROVE RowInv'
  BY <1>0, <1>13 DEF TypeOK, ReservationAges
<1>14. ASSUME NEW c \in Charges, CancelChargeByToken(c) PROVE RowInv'
  BY <1>0, <1>14 DEF TypeOK, CancelChargeByToken, CancelByToken, Update
<1>15. ASSUME NEW c \in Charges, RemoveAtGateway(c) PROVE RowInv'
  BY <1>0, <1>15 DEF TypeOK, RemoveAtGateway
<1>16. ASSUME NEW h \in Handlers, NEW c \in Charges, ClaimWebhookEvent(h, c) PROVE RowInv'
  BY <1>0, <1>16 DEF TypeOK, ClaimWebhookEvent
<1>17. ASSUME NEW h \in Handlers, NEW c \in Charges, UnbackedNotification(h, c) PROVE RowInv'
  BY <1>0, <1>17 DEF TypeOK, UnbackedNotification
<1>18. ASSUME NEW h \in Handlers, ConfirmAtGateway(h) PROVE RowInv'
  BY <1>0, <1>18 DEF TypeOK, ConfirmAtGateway
<1>19. ASSUME NEW h \in Handlers, MarkPaid(h) PROVE RowInv'
  BY <1>0, <1>19 DEF TypeOK, MarkPaid, MarkChargePaid, Update, Payable
<1>20. ASSUME NEW h \in Handlers, NotifyPaid(h) PROVE RowInv'
  BY <1>0, <1>20 DEF TypeOK, NotifyPaid
<1>27. ASSUME NEW c \in Charges, NotifyInline(c) PROVE RowInv'
  BY <1>0, <1>27 DEF TypeOK, NotifyInline
<1>21. ASSUME NEW h \in Handlers, MarkWebhookDone(h) PROVE RowInv'
  BY <1>0, <1>21 DEF TypeOK, MarkWebhookDone, Acked
<1>22. CASE ExpireOverdueCharges
  BY <1>0, <1>22 DEF TypeOK, ExpireOverdueCharges, ExpireOverdue, Update
<1>23. CASE CancelStaleCreatingCharges
  BY <1>0, <1>23 DEF TypeOK, CancelStaleCreatingCharges, CancelStaleCreating, Update
<1>24. CASE Crash
  BY <1>0, <1>24 DEF TypeOK, Crash, InFlight
<1>25. CASE UNCHANGED vars
  BY <1>0, <1>25 DEF TypeOK, vars
<1>26. QED
  BY <1>1, <1>2, <1>3, <1>4, <1>5, <1>6, <1>7, <1>8, <1>9, <1>10, <1>11, <1>12, <1>13, <1>14, <1>15, <1>16, <1>17, <1>18, <1>19, <1>20, <1>21, <1>22, <1>23, <1>24, <1>25, <1>27 DEF Next, CreateStep, WebhookStep

LEMMA InitRow == Init => RowInv
BY ConstantsAssumption DEF Init, RowInv

\* createAndPersistCharge and its cards and links: where the row of a charge is
\* while a request creates it, in every reachable state.
THEOREM RowInductive == Spec => [](IInv /\ RowInv)
<1>1. TypeOK /\ RowInv /\ [Next]_vars => RowInv'
  BY NextRow
<1>2. Init => RowInv
  BY InitRow
<1>3. IInv => TypeOK
  BY DEF IInv
<1>4. QED
  BY <1>1, <1>2, <1>3, Inductive, PTL DEF Spec

\* Neither the expiry job nor a cancel takes a reservation from under the
\* request that made it.
THEOREM ReservationIsKept == Spec => []ReservationOutlivesRequest
<1>1. RowInv => ReservationOutlivesRequest
  BY DEF RowInv, ReservationOutlivesRequest
<1>2. QED
  BY <1>1, RowInductive, PTL

\* A charge that is reserved first is not payable anywhere without a row.
THEOREM ChargeHasRow == Spec => []NoChargeWithoutRow
<1>1. RowInv => NoChargeWithoutRow
  BY DEF RowInv, NoChargeWithoutRow
<1>2. QED
  BY <1>1, RowInductive, PTL

LEMMA ClosedStep ==
    TypeOK /\ RowInv /\ [Next]_vars =>
      \A c \in Charges : status[c] \in {"paid", "canceled"} => status'[c] = status[c]
<1> SUFFICES ASSUME TypeOK, RowInv, [Next]_vars, NEW d \in Charges, status[d] \in {"paid", "canceled"}
             PROVE status'[d] = status[d]
  OBVIOUS
<1>0. TypeOK /\ RowInv /\ GatewayFirst \subseteq Charges
  BY ConstantsAssumption
<1> USE DEF RowInv
<1>1. ASSUME NEW c \in Charges, ReserveCharge(c) PROVE status'[d] = status[d]
  BY <1>0, <1>1 DEF TypeOK, ReserveCharge
<1>2. ASSUME NEW c \in Charges, GatewayCreates(c) PROVE status'[d] = status[d]
  BY <1>0, <1>2 DEF TypeOK, GatewayCreates
<1>3. ASSUME NEW c \in Charges, GatewayRefuses(c) PROVE status'[d] = status[d]
  BY <1>0, <1>3 DEF TypeOK, GatewayRefuses
<1>4. ASSUME NEW c \in Charges, Abandon(c) PROVE status'[d] = status[d]
  BY <1>0, <1>4 DEF TypeOK, Abandon, AbandonCharge, Update
<1>5. ASSUME NEW c \in Charges, Activate(c) PROVE status'[d] = status[d]
  BY <1>0, <1>5 DEF TypeOK, Activate, ActivateCharge, Update
<1>6. ASSUME NEW c \in Charges, InsertCreated(c) PROVE status'[d] = status[d]
  BY <1>0, <1>6 DEF TypeOK, InsertCreated
<1>7. ASSUME NEW c \in Charges, MarkCardPaid(c) PROVE status'[d] = status[d]
  BY <1>0, <1>7 DEF TypeOK, MarkCardPaid, MarkChargePaid, Update, Payable
<1>8. ASSUME NEW c \in Charges, PayerPays(c) PROVE status'[d] = status[d]
  BY <1>0, <1>8 DEF TypeOK, PayerPays
<1>9. ASSUME NEW c \in Charges, DueDatePasses(c) PROVE status'[d] = status[d]
  BY <1>0, <1>9 DEF TypeOK, DueDatePasses
<1>10. ASSUME NEW c \in Charges, GatewayExpires(c) PROVE status'[d] = status[d]
  BY <1>0, <1>10 DEF TypeOK, GatewayExpires
<1>11. ASSUME NEW c \in Charges, WebhookAlreadySeen(c) PROVE status'[d] = status[d]
  BY <1>0, <1>11 DEF TypeOK, WebhookAlreadySeen
<1>12. ASSUME NEW c \in Charges, ClaimAges(c) PROVE status'[d] = status[d]
  BY <1>0, <1>12 DEF TypeOK, ClaimAges
<1>13. ASSUME NEW c \in Charges, ReservationAges(c) PROVE status'[d] = status[d]
  BY <1>0, <1>13 DEF TypeOK, ReservationAges
<1>14. ASSUME NEW c \in Charges, CancelChargeByToken(c) PROVE status'[d] = status[d]
  BY <1>0, <1>14 DEF TypeOK, CancelChargeByToken, CancelByToken, Update
<1>15. ASSUME NEW c \in Charges, RemoveAtGateway(c) PROVE status'[d] = status[d]
  BY <1>0, <1>15 DEF TypeOK, RemoveAtGateway
<1>16. ASSUME NEW h \in Handlers, NEW c \in Charges, ClaimWebhookEvent(h, c) PROVE status'[d] = status[d]
  BY <1>0, <1>16 DEF TypeOK, ClaimWebhookEvent
<1>17. ASSUME NEW h \in Handlers, NEW c \in Charges, UnbackedNotification(h, c) PROVE status'[d] = status[d]
  BY <1>0, <1>17 DEF TypeOK, UnbackedNotification
<1>18. ASSUME NEW h \in Handlers, ConfirmAtGateway(h) PROVE status'[d] = status[d]
  BY <1>0, <1>18 DEF TypeOK, ConfirmAtGateway
<1>19. ASSUME NEW h \in Handlers, MarkPaid(h) PROVE status'[d] = status[d]
  BY <1>0, <1>19 DEF TypeOK, MarkPaid, MarkChargePaid, Update, Payable
<1>20. ASSUME NEW h \in Handlers, NotifyPaid(h) PROVE status'[d] = status[d]
  BY <1>0, <1>20 DEF TypeOK, NotifyPaid
<1>27. ASSUME NEW c \in Charges, NotifyInline(c) PROVE status'[d] = status[d]
  BY <1>0, <1>27 DEF TypeOK, NotifyInline
<1>21. ASSUME NEW h \in Handlers, MarkWebhookDone(h) PROVE status'[d] = status[d]
  BY <1>0, <1>21 DEF TypeOK, MarkWebhookDone
<1>22. CASE ExpireOverdueCharges
  BY <1>0, <1>22 DEF TypeOK, ExpireOverdueCharges, ExpireOverdue, Update
<1>23. CASE CancelStaleCreatingCharges
  BY <1>0, <1>23 DEF TypeOK, CancelStaleCreatingCharges, CancelStaleCreating, Update
<1>24. CASE Crash
  BY <1>0, <1>24 DEF TypeOK, Crash
<1>25. CASE UNCHANGED vars
  BY <1>0, <1>25 DEF TypeOK, vars
<1>26. QED
  BY <1>1, <1>2, <1>3, <1>4, <1>5, <1>6, <1>7, <1>8, <1>9, <1>10, <1>11, <1>12, <1>13, <1>14, <1>15, <1>16, <1>17, <1>18, <1>19, <1>20, <1>21, <1>22, <1>23, <1>24, <1>25, <1>27 DEF Next, CreateStep, WebhookStep

\* A booked payment is never lost again and a canceled charge never comes back.
THEOREM ClosedStays == Spec => ClosedForGood
<1>1. IInv => TypeOK
  BY DEF IInv
<1>2. QED
  BY <1>1, ClosedStep, RowInductive, PTL DEF Spec, ClosedForGood

-----------------------------------------------------------------------------
(* The e-mails of a PIX payment *)

LEMMA NextNotify ==
    "lookup" \notin MayFail /\ IInv /\ RowInv /\ NotifyInv /\ [Next]_vars => NotifyInv'
<1> SUFFICES ASSUME "lookup" \notin MayFail, IInv, RowInv, NotifyInv, [Next]_vars
             PROVE NotifyInv'
  OBVIOUS
<1>0. /\ "lookup" \notin MayFail /\ TypeOK /\ GatewayInv /\ PixInv /\ RowInv /\ NotifyInv
      /\ Cards \subseteq GatewayFirst /\ GatewayFirst \subseteq Charges
  BY ConstantsAssumption DEF IInv
<1> USE DEF NotifyInv, GatewayInv, PixInv, RowInv, Pix, Cared
<1>1. ASSUME NEW c \in Charges, ReserveCharge(c) PROVE NotifyInv'
  BY <1>0, <1>1 DEF TypeOK, ReserveCharge
<1>2. ASSUME NEW c \in Charges, GatewayCreates(c) PROVE NotifyInv'
  BY <1>0, <1>2 DEF TypeOK, GatewayCreates, Calling, GatewayIsPaid
<1>3. ASSUME NEW c \in Charges, GatewayRefuses(c) PROVE NotifyInv'
  BY <1>0, <1>3 DEF TypeOK, GatewayRefuses, Calling, GatewayIsPaid
<1>4. ASSUME NEW c \in Charges, Abandon(c) PROVE NotifyInv'
  BY <1>0, <1>4 DEF TypeOK, Abandon, AbandonCharge, Update
<1>5. ASSUME NEW c \in Charges, Activate(c) PROVE NotifyInv'
  BY <1>0, <1>5 DEF TypeOK, Activate, ActivateCharge, Update
<1>6. ASSUME NEW c \in Charges, InsertCreated(c) PROVE NotifyInv'
  BY <1>0, <1>6 DEF TypeOK, InsertCreated
<1>7. ASSUME NEW c \in Charges, MarkCardPaid(c) PROVE NotifyInv'
  BY <1>0, <1>7 DEF TypeOK, MarkCardPaid, MarkChargePaid, Update, Payable
<1>8. ASSUME NEW c \in Charges, PayerPays(c) PROVE NotifyInv'
  BY <1>0, <1>8 DEF TypeOK, PayerPays, GatewayIsPaid
<1>9. ASSUME NEW c \in Charges, DueDatePasses(c) PROVE NotifyInv'
  BY <1>0, <1>9 DEF TypeOK, DueDatePasses
<1>10. ASSUME NEW c \in Charges, GatewayExpires(c) PROVE NotifyInv'
  BY <1>0, <1>10 DEF TypeOK, GatewayExpires
<1>11. ASSUME NEW c \in Charges, WebhookAlreadySeen(c) PROVE NotifyInv'
  BY <1>0, <1>11 DEF TypeOK, WebhookAlreadySeen
<1>12. ASSUME NEW c \in Charges, ClaimAges(c) PROVE NotifyInv'
  BY <1>0, <1>12 DEF TypeOK, ClaimAges
<1>13. ASSUME NEW c \in Charges, ReservationAges(c) PROVE NotifyInv'
  BY <1>0, <1>13 DEF TypeOK, ReservationAges
<1>14. ASSUME NEW c \in Charges, CancelChargeByToken(c) PROVE NotifyInv'
  BY <1>0, <1>14 DEF TypeOK, CancelChargeByToken, CancelByToken, Update
<1>15. ASSUME NEW c \in Charges, RemoveAtGateway(c) PROVE NotifyInv'
  BY <1>0, <1>15 DEF TypeOK, RemoveAtGateway
<1>16. ASSUME NEW h \in Handlers, NEW c \in Charges, ClaimWebhookEvent(h, c) PROVE NotifyInv'
  BY <1>0, <1>16 DEF TypeOK, ClaimWebhookEvent
<1>17. ASSUME NEW h \in Handlers, NEW c \in Charges, UnbackedNotification(h, c) PROVE NotifyInv'
  BY <1>0, <1>17 DEF TypeOK, UnbackedNotification
<1>18. ASSUME NEW h \in Handlers, ConfirmAtGateway(h) PROVE NotifyInv'
  BY <1>0, <1>18 DEF TypeOK, HandlerStates, ConfirmAtGateway, Idle
<1>19. ASSUME NEW h \in Handlers, MarkPaid(h) PROVE NotifyInv'
  BY <1>0, <1>19 DEF TypeOK, HandlerStates, Idle, MarkPaid, MarkChargePaid, Update, Payable
<1>20. ASSUME NEW h \in Handlers, NotifyPaid(h) PROVE NotifyInv'
  <2>1. handler[h].charge \in Charges /\ handler[h] \in HandlerStates
    BY <1>0, <1>20 DEF TypeOK, NotifyPaid
  <2>2. \A g \in Handlers :
          /\ handler'[g].charge = handler[g].charge
          /\ g # h => handler'[g].pc = handler[g].pc
    BY <1>0, <1>20, <2>1 DEF TypeOK, HandlerStates, NotifyPaid
  <2>3. UNCHANGED <<status, event>>
    BY <1>20 DEF NotifyPaid
  <2>4. \A c \in Charges : Cared(c) => Cared(c)'
    BY <1>0, <1>20, <2>1 DEF TypeOK, NotifyPaid
  <2>5. Cared(handler[h].charge)'
    BY <1>0, <1>20, <2>1, <2>2 DEF TypeOK, NotifyPaid
  <2>6. \A c \in Charges : notified'[c] \in {notified[c], "safe"} \/ "enqueue" \in MayFail
    BY <1>0, <1>20, <2>1 DEF TypeOK, NotifyPaid
  <2> HIDE DEF Cared
  <2>7. ASSUME NEW g \in Handlers, handler'[g].pc = "finish", handler'[g].charge \in Pix
        PROVE  Cared(handler[g].charge)'
    BY <1>0, <2>2, <2>4, <2>5, <2>7
  <2>8. Cared(handler[h].charge)' /\ \A g \in Handlers : handler'[g].charge = handler[g].charge
    BY <2>2, <2>5
  <2>9. QED
    BY <1>0, <2>3, <2>4, <2>6, <2>7, <2>8
<1>27. ASSUME NEW c \in Charges, NotifyInline(c) PROVE NotifyInv'
  BY <1>0, <1>27 DEF TypeOK, NotifyInline
<1>21. ASSUME NEW h \in Handlers, MarkWebhookDone(h) PROVE NotifyInv'
  BY <1>0, <1>21 DEF TypeOK, MarkWebhookDone, Idle
<1>22. CASE ExpireOverdueCharges
  BY <1>0, <1>22 DEF TypeOK, ExpireOverdueCharges, ExpireOverdue, Update
<1>23. CASE CancelStaleCreatingCharges
  BY <1>0, <1>23 DEF TypeOK, CancelStaleCreatingCharges, CancelStaleCreating, Update
<1>24. CASE Crash
  BY <1>0, <1>24 DEF TypeOK, Idle, Crash
<1>25. CASE UNCHANGED vars
  BY <1>0, <1>25 DEF TypeOK, vars
<1>26. QED
  BY <1>1, <1>2, <1>3, <1>4, <1>5, <1>6, <1>7, <1>8, <1>9, <1>10, <1>11, <1>12, <1>13, <1>14, <1>15, <1>16, <1>17, <1>18, <1>19, <1>20, <1>21, <1>22, <1>23, <1>24, <1>25, <1>27 DEF Next, CreateStep, WebhookStep

\* If the token lookup does not fail, the e-mails of a paid PIX charge whose
\* event is closed were taken care of, whatever else fails, dies or is delivered
\* twice; while the queue takes its tasks, asynq has them.
THEOREM PixIsNotified == "lookup" \notin MayFail => (Spec => []PixPaymentIsNotified)
<1> SUFFICES ASSUME "lookup" \notin MayFail PROVE Spec => []PixPaymentIsNotified
  OBVIOUS
<1>1. Init => NotifyInv
  BY DEF Init, NotifyInv, Cared, Idle, Pix
<1>2. IInv /\ RowInv /\ NotifyInv /\ [Next]_vars => NotifyInv'
  BY NextNotify
<1>3. NotifyInv => PixPaymentIsNotified
  BY DEF NotifyInv, Cared, Pix, PixPaymentIsNotified
<1>4. QED
  BY <1>1, <1>2, <1>3, RowInductive, PTL DEF Spec

-----------------------------------------------------------------------------
(* Refinement of Settlement *)

\* A statement that moves one row moves the books of its charge.
LEMMA RowMoves ==
    ASSUME TypeOK, NEW c \in Charges, NEW s, status' = [status EXCEPT ![c] = s], UNCHANGED gw
    PROVE  /\ books' = [books EXCEPT ![c] = BooksOf(s)]
           /\ books[c] = BooksOf(status[c])
           /\ money' = money
<1>1. \A d \in Charges : status'[d] = IF d = c THEN s ELSE status[d]
  BY DEF TypeOK
<1>2. books' = [d \in Charges |-> BooksOf(status'[d])]
  BY DEF books
<1>3. books' = [books EXCEPT ![c] = BooksOf(s)]
  <2>1. \A d \in Charges : BooksOf(status'[d]) = IF d = c THEN BooksOf(s) ELSE books[d]
    BY <1>1 DEF books
  <2>2. books' = [d \in Charges |-> IF d = c THEN BooksOf(s) ELSE books[d]]
    BY <1>2, <2>1
  <2>3. books = [d \in Charges |-> books[d]]
    BY DEF books
  <2>4. QED
    BY <2>2, <2>3
<1>4. money' = money
  BY DEF money
<1>5. QED
  BY <1>3, <1>4 DEF books

\* A step that leaves both sides alone is a stutter.
LEMMA Stutters ==
    ASSUME UNCHANGED <<status, gw>>
    PROVE  UNCHANGED Abstract!vars
BY DEF Abstract!vars, books, money

\* What the gateway does to a charge it does not hold money for: it receives
\* the payment, or nothing that the books know of.
LEMMA GatewayMoves ==
    ASSUME TypeOK, NEW c \in Charges, NEW g, gw' = [gw EXCEPT ![c] = g], UNCHANGED status,
           gw[c] # "paid"
    PROVE  Abstract!Receive(c) \/ UNCHANGED Abstract!vars
<1>1. \A d \in Charges : gw'[d] = IF d = c THEN g ELSE gw[d]
  BY DEF TypeOK
<1>2. books' = books
  BY DEF books
<1>3. money' = [d \in Charges |-> gw'[d] = "paid"]
  BY DEF money
<1>4. CASE g = "paid"
  <2>1. ~money[c]
    BY DEF money
  <2>2. money' = [money EXCEPT ![c] = TRUE]
    BY <1>1, <1>3, <1>4 DEF money
  <2>3. QED
    BY <1>2, <2>1, <2>2 DEF Abstract!Receive
<1>5. CASE g # "paid"
  <2>1. money' = money
    BY <1>1, <1>3, <1>5 DEF money
  <2>2. QED
    BY <1>2, <2>1 DEF Abstract!vars
<1>6. QED
  BY <1>4, <1>5

\* A job that moves every row it matches moves their books together.
LEMMA JobMoves ==
    ASSUME TypeOK, NEW S \in SUBSET Charges, NEW s,
           status' = [c \in Charges |-> IF c \in S THEN s ELSE status[c]], UNCHANGED gw
    PROVE  /\ books' = [c \in Charges |-> IF c \in S THEN BooksOf(s) ELSE books[c]]
           /\ money' = money
<1>1. books' = [c \in Charges |-> BooksOf(status'[c])]
  BY DEF books
<1>2. QED
  BY <1>1 DEF books, money

\* What a statement may do to one row, and what that is to the books.
LEMMA RowRefines ==
    ASSUME TypeOK, NEW c \in Charges, NEW s, status' = [status EXCEPT ![c] = s], UNCHANGED gw,
           \/ s = status[c]
           \/ status[c] = "none" /\ s = "creating"
           \/ status[c] \in {"none", "creating"} /\ s = "pending"
           \/ status[c] \in {"creating", "pending"} /\ s = "canceled"
           \/ status[c] \in Payable /\ s = "paid" /\ gw[c] = "paid"
    PROVE  Abstract!Offer(c) \/ Abstract!Void(c) \/ Abstract!Book(c) \/ UNCHANGED Abstract!vars
<1>1. /\ books' = [books EXCEPT ![c] = BooksOf(s)]
      /\ books[c] = BooksOf(status[c])
      /\ money' = money
  BY RowMoves
<1>2. CASE BooksOf(s) = BooksOf(status[c])
  <2>1. books' = books
    BY <1>1, <1>2 DEF books
  <2>2. QED
    BY <1>1, <2>1 DEF Abstract!vars
<1>3. CASE status[c] \in {"none", "creating"} /\ s = "pending"
  <2>1. books[c] = "unborn" /\ books' = [books EXCEPT ![c] = "open"]
    BY <1>1, <1>3 DEF BooksOf
  <2>2. QED
    BY <1>1, <2>1 DEF Abstract!Offer, Abstract!Moves
<1>4. CASE status[c] \in {"creating", "pending"} /\ s = "canceled"
  <2>1. books[c] \in {"unborn", "open"} /\ books' = [books EXCEPT ![c] = "void"]
    BY <1>1, <1>4 DEF BooksOf
  <2>2. QED
    BY <1>1, <2>1 DEF Abstract!Void, Abstract!Moves
<1>5. CASE status[c] \in Payable /\ s = "paid" /\ gw[c] = "paid"
  <2>1. books[c] \in {"open", "lapsed"} /\ books' = [books EXCEPT ![c] = "booked"]
    BY <1>1, <1>5 DEF BooksOf, Payable
  <2>2. money[c]
    BY <1>5 DEF money
  <2>3. QED
    BY <1>1, <2>1, <2>2 DEF Abstract!Book, Abstract!Moves
<1>6. QED
  BY <1>2, <1>3, <1>4, <1>5 DEF BooksOf

LEMMA InitRefines == Init => Abstract!Init
<1> SUFFICES ASSUME Init PROVE Abstract!Init
  OBVIOUS
<1>1. status = [c \in Charges |-> "none"] /\ gw = [c \in Charges |-> "none"]
  BY DEF Init
<1>2. QED
  BY <1>1 DEF Abstract!Init, books, money, BooksOf

LEMMA NextRefines == IInv /\ RowInv /\ [Next]_vars => [Abstract!Next]_(Abstract!vars)
<1> SUFFICES ASSUME IInv, RowInv, [Next]_vars
             PROVE Abstract!Next \/ UNCHANGED Abstract!vars
  OBVIOUS
<1>0. TypeOK /\ GatewayInv /\ RowInv
  BY DEF IInv
<1>1. ASSUME NEW c \in Charges, ReserveCharge(c)
      PROVE  Abstract!Offer(c) \/ Abstract!Void(c) \/ Abstract!Book(c) \/ UNCHANGED Abstract!vars
  <2>1. CASE UNCHANGED status
    BY <1>1, <2>1, Stutters DEF ReserveCharge
  <2>2. CASE status' = [status EXCEPT ![c] = "creating"] /\ creator[c] = "idle"
    BY <1>0, <1>1, <2>2, RowRefines DEF ReserveCharge, RowInv
  <2>3. QED
    BY <1>1, <2>1, <2>2 DEF ReserveCharge
<1>2. ASSUME NEW c \in Charges, GatewayCreates(c) PROVE Abstract!Receive(c) \/ UNCHANGED Abstract!vars
  <2>1. gw[c] # "paid" /\ UNCHANGED status /\ \E g : gw' = [gw EXCEPT ![c] = g]
    BY <1>0, <1>2 DEF GatewayInv, GatewayCreates, Calling, GatewayIsPaid
  <2>2. QED
    BY <1>0, <2>1, GatewayMoves
<1>3. ASSUME NEW c \in Charges, GatewayRefuses(c) PROVE Abstract!Receive(c) \/ UNCHANGED Abstract!vars
  <2>1. gw[c] # "paid" /\ UNCHANGED status
    BY <1>0, <1>3 DEF GatewayInv, GatewayRefuses, Calling
  <2>2. CASE UNCHANGED gw
    BY <2>1, <2>2, Stutters
  <2>3. CASE \E g : gw' = [gw EXCEPT ![c] = g]
    BY <1>0, <2>1, <2>3, GatewayMoves
  <2>4. QED
    BY <1>3, <2>2, <2>3 DEF GatewayRefuses, GatewayIsPaid
<1>4. ASSUME NEW c \in Charges, PayerPays(c) PROVE Abstract!Receive(c) \/ UNCHANGED Abstract!vars
  <2>1. gw[c] # "paid" /\ UNCHANGED status /\ \E g : gw' = [gw EXCEPT ![c] = g]
    BY <1>4 DEF PayerPays, GatewayIsPaid
  <2>2. QED
    BY <1>0, <2>1, GatewayMoves
<1>5. ASSUME NEW c \in Charges, GatewayExpires(c) \/ RemoveAtGateway(c)
      PROVE  Abstract!Receive(c) \/ UNCHANGED Abstract!vars
  <2>1. CASE UNCHANGED <<status, gw>>
    BY <2>1, Stutters
  <2>2. CASE gw[c] # "paid" /\ UNCHANGED status /\ \E g : gw' = [gw EXCEPT ![c] = g]
    BY <1>0, <2>2, GatewayMoves
  <2>3. QED
    BY <1>5, <2>1, <2>2 DEF GatewayExpires, RemoveAtGateway
<1>6. ASSUME NEW c \in Charges, Abandon(c)
      PROVE  Abstract!Offer(c) \/ Abstract!Void(c) \/ Abstract!Book(c) \/ UNCHANGED Abstract!vars
  <2>1. CASE UNCHANGED status
    BY <1>6, <2>1, Stutters DEF Abandon
  <2>2. CASE status' = [status EXCEPT ![c] = AbandonCharge(status[c])]
    BY <1>0, <1>6, <2>2, RowRefines DEF Abandon, AbandonCharge, Update
  <2>3. QED
    BY <1>6, <2>1, <2>2 DEF Abandon
<1>7. ASSUME NEW c \in Charges, Activate(c)
      PROVE  Abstract!Offer(c) \/ Abstract!Void(c) \/ Abstract!Book(c) \/ UNCHANGED Abstract!vars
  <2>1. CASE UNCHANGED status
    BY <1>7, <2>1, Stutters DEF Activate
  <2>2. CASE status' = [status EXCEPT ![c] = ActivateCharge(status[c])]
    BY <1>0, <1>7, <2>2, RowRefines DEF Activate, ActivateCharge, Update
  <2>3. QED
    BY <1>7, <2>1, <2>2 DEF Activate
<1>8. ASSUME NEW c \in Charges, InsertCreated(c)
      PROVE  Abstract!Offer(c) \/ Abstract!Void(c) \/ Abstract!Book(c) \/ UNCHANGED Abstract!vars
  <2>1. CASE UNCHANGED status
    BY <1>8, <2>1, Stutters DEF InsertCreated
  <2>2. CASE status' = [status EXCEPT ![c] = "pending"] /\ creator[c] \in {"answered", "approved"}
    BY <1>0, <1>8, <2>2, RowRefines DEF InsertCreated, RowInv
  <2>3. QED
    BY <1>8, <2>1, <2>2 DEF InsertCreated
<1>9. ASSUME NEW c \in Charges, MarkCardPaid(c)
      PROVE  Abstract!Offer(c) \/ Abstract!Void(c) \/ Abstract!Book(c) \/ UNCHANGED Abstract!vars
  <2>1. CASE UNCHANGED status
    BY <1>9, <2>1, Stutters DEF MarkCardPaid
  <2>2. CASE status' = [status EXCEPT ![c] = MarkChargePaid(status[c])] /\ creator[c] = "marking"
    BY <1>0, <1>9, <2>2, RowRefines DEF MarkCardPaid, MarkChargePaid, Update, GatewayInv
  <2>3. QED
    BY <1>9, <2>1, <2>2 DEF MarkCardPaid
<1>10. ASSUME NEW c \in Charges, CancelChargeByToken(c)
       PROVE  Abstract!Offer(c) \/ Abstract!Void(c) \/ Abstract!Book(c) \/ UNCHANGED Abstract!vars
  BY <1>0, <1>10, RowRefines DEF CancelChargeByToken, CancelByToken, Update
<1>11. ASSUME NEW h \in Handlers, MarkPaid(h)
       PROVE  Abstract!Next \/ UNCHANGED Abstract!vars
  <2>1. CASE UNCHANGED status
    BY <1>11, <2>1, Stutters DEF MarkPaid
  <2>2. CASE status' = [status EXCEPT ![Charge(h)] = MarkChargePaid(status[Charge(h)])]
    <3>1. Charge(h) \in Charges /\ gw[Charge(h)] = "paid" /\ UNCHANGED gw
      BY <1>0, <1>11 DEF TypeOK, GatewayInv, MarkPaid
    <3>2. QED
      BY <1>0, <2>2, <3>1, RowRefines DEF MarkChargePaid, Update, Abstract!Next
  <2>3. QED
    BY <1>11, <2>1, <2>2 DEF MarkPaid
<1>12. CASE ExpireOverdueCharges
  <2> DEFINE S == {c \in Charges : status[c] = "pending" /\ c \in Pix /\ overdue[c]}
  <2>1. status' = [c \in Charges |-> IF c \in S THEN "expired" ELSE status[c]] /\ UNCHANGED gw
    BY <1>12 DEF ExpireOverdueCharges, ExpireOverdue, Update
  <2>2. S \in SUBSET {c \in Charges : books[c] = "open"}
    BY DEF books, BooksOf
  <2>3. books' = [c \in Charges |-> IF c \in S THEN "lapsed" ELSE books[c]] /\ money' = money
    <3>1. S \in SUBSET Charges /\ BooksOf("expired") = "lapsed"
      BY DEF BooksOf
    <3> HIDE DEF S
    <3>2. books' = [c \in Charges |-> IF c \in S THEN BooksOf("expired") ELSE books[c]] /\ money' = money
      BY <1>0, <2>1, <3>1, JobMoves
    <3>3. QED
      BY <3>1, <3>2
  <2>4. QED
    BY <2>2, <2>3 DEF Abstract!Next, Abstract!LapseAll, Abstract!MoveAll
<1>13. CASE CancelStaleCreatingCharges
  <2>1. CASE UNCHANGED status
    BY <1>13, <2>1, Stutters DEF CancelStaleCreatingCharges
  <2>2. CASE status' = [c \in Charges |-> CancelStaleCreating(status[c], stale[c])]
    <3> DEFINE S == {c \in Charges : status[c] = "creating" /\ stale[c]}
    <3>1. status' = [c \in Charges |-> IF c \in S THEN "canceled" ELSE status[c]] /\ UNCHANGED gw
      BY <1>13, <2>2 DEF CancelStaleCreatingCharges, CancelStaleCreating, Update
    <3>2. S \in SUBSET {c \in Charges : books[c] = "unborn"}
      BY DEF books, BooksOf
    <3>3. books' = [c \in Charges |-> IF c \in S THEN "void" ELSE books[c]] /\ money' = money
      <4>1. S \in SUBSET Charges /\ BooksOf("canceled") = "void"
        BY DEF BooksOf
      <4> HIDE DEF S
      <4>2. books' = [c \in Charges |-> IF c \in S THEN BooksOf("canceled") ELSE books[c]] /\ money' = money
        BY <1>0, <3>1, <4>1, JobMoves
      <4>3. QED
        BY <4>1, <4>2
    <3>4. QED
      BY <3>2, <3>3 DEF Abstract!Next, Abstract!VoidUnborn, Abstract!MoveAll
  <2>3. QED
    BY <1>13, <2>1, <2>2 DEF CancelStaleCreatingCharges
<1>14. ASSUME UNCHANGED <<status, gw>> PROVE UNCHANGED Abstract!vars
  BY <1>14, Stutters
<1>15. ASSUME NEW c \in Charges, 
              \/ DueDatePasses(c) \/ WebhookAlreadySeen(c) \/ ClaimAges(c)
              \/ ReservationAges(c) \/ NotifyInline(c)
       PROVE  UNCHANGED <<status, gw>>
  BY <1>15 DEF DueDatePasses, WebhookAlreadySeen, ClaimAges, ReservationAges, NotifyInline
<1>16. ASSUME NEW h \in Handlers,
              \/ \E c \in Charges : ClaimWebhookEvent(h, c) \/ UnbackedNotification(h, c)
              \/ ConfirmAtGateway(h) \/ NotifyPaid(h) \/ MarkWebhookDone(h)
       PROVE  UNCHANGED <<status, gw>>
  BY <1>16 DEF ClaimWebhookEvent, UnbackedNotification, ConfirmAtGateway, NotifyPaid, MarkWebhookDone
<1>17. CASE Crash \/ UNCHANGED vars
  BY <1>14, <1>17 DEF Crash, vars
<1>18. CASE \E c \in Charges :
              \/ CreateStep(c) \/ PayerPays(c) \/ GatewayExpires(c) \/ CancelChargeByToken(c) \/ RemoveAtGateway(c)
  BY <1>1, <1>2, <1>3, <1>4, <1>5, <1>6, <1>7, <1>8, <1>9, <1>10, <1>18 DEF CreateStep, Abstract!Next
<1>19. QED
  BY <1>11, <1>12, <1>13, <1>14, <1>15, <1>16, <1>17, <1>18 DEF Next, WebhookStep

\* Reservations, two-phase webhooks, jobs and crashes add up to the promise of
\* Settlement: the books follow the money, and closed is closed.
THEOREM RefinesSettlement == Spec => ImplementsSettlement
<1>1. Init => Abstract!Init
  BY InitRefines
<1>2. IInv /\ RowInv /\ [Next]_vars => [Abstract!Next]_(Abstract!vars)
  BY NextRefines
<1>3. QED
  BY <1>1, <1>2, RowInductive, PTL DEF Spec, ImplementsSettlement, Abstract!Spec

=============================================================================
