--------------------------- MODULE ChargeLifecycle ---------------------------
(***************************************************************************)
(* One payments-go instance, its pay_charges and pay_webhook_events        *)
(* tables, and the Efi gateway: how a charge is created on both sides, how *)
(* its payment is confirmed by a two-phase webhook, and how the hourly job *)
(* and the payer's cancel button close it.                                 *)
(*                                                                         *)
(* Every SQL statement and every call of the gateway is an action of its   *)
(* own, so the handlers interleave exactly where the code awaits.          *)
(***************************************************************************)
EXTENDS ChargeTable, Naturals

CONSTANTS
    Charges,        \* the charges, one correlation_id and one token each
    Boletos,        \* those paid by boleto (API Cobrancas)
    Cards,          \* those paid by card (API Cobrancas); the others are PIX
    GatewayFirst,   \* those created at the gateway before the row is inserted
    NoCharge,       \* the charge of a handler that is not serving any
    Handlers,       \* webhook requests served at the same time
    MayFail,        \* the calls that may fail, see FailPoints
    MaxCrashes      \* how many times the process may die

Pix == Charges \ (Boletos \cup Cards)

FailPoints == {"insert", "gateway", "abandon", "activate", "markCard",
               "confirm", "mark", "lookup", "enqueue", "mail", "done", "expire",
               "remove"}

ASSUME ConstantsAssumption ==
    /\ Boletos \subseteq Charges
    /\ Cards \subseteq Charges
    /\ Boletos \cap Cards = {}
    /\ NoCharge \notin Charges
    /\ GatewayFirst \subseteq Charges
    /\ Cards \subseteq GatewayFirst
    /\ MayFail \subseteq FailPoints
    /\ MaxCrashes \in Nat

VARIABLES
    status,    \* pay_charges.status of each charge
    stale,     \* the reservation is older than 15 minutes
    overdue,   \* due_date + 23h is in the past
    creator,   \* where the request that creates the charge is
    canceler,  \* where the payer's cancel request is
    gw,        \* the charge at the gateway
    outbox,    \* the gateway's notification of the payment
    event,     \* pay_webhook_events.status of that notification
    fresh,     \* the event was claimed less than a minute ago
    handler,   \* each webhook request being served
    notified,  \* what became of the payment's e-mails, see Notified
    job,       \* where the hourly expiry job is
    crashes    \* how many times the process died

rowVars == <<status, stale>>
requestVars == <<creator, canceler>>
gatewayVars == <<gw, outbox, overdue>>
eventVars == <<event, fresh>>
vars == <<status, stale, overdue, creator, canceler, gw, outbox, event,
          fresh, handler, notified, job, crashes>>

CreatorPC == {"idle", "reserved", "answered", "approved", "refused", "marking",
              "ok", "failed"}
\* "safe": asynq has the task and retries it, or the e-mails went. "inline": only
\* a loose goroutine of this process is sending them. "lost": it did not.
Notified == {"none", "safe", "inline", "lost"}
HandlerPC == {"idle", "confirm", "mark", "notify", "finish"}
Idle == [pc |-> "idle", charge |-> NoCharge, backed |-> FALSE]
HandlerStates ==
    [pc : HandlerPC, charge : Charges \cup {NoCharge}, backed : BOOLEAN]

TypeOK ==
    /\ status \in [Charges -> Status]
    /\ stale \in [Charges -> BOOLEAN]
    /\ overdue \in [Charges -> BOOLEAN]
    /\ creator \in [Charges -> CreatorPC]
    /\ canceler \in [Charges -> {"idle", "removing"}]
    /\ gw \in [Charges -> {"none", "open", "paid", "removed", "lapsed"}]
    /\ outbox \in [Charges -> {"none", "owed", "acked"}]
    /\ event \in [Charges -> {"none", "pending", "done"}]
    /\ fresh \in [Charges -> BOOLEAN]
    /\ handler \in [Handlers -> HandlerStates]
    /\ \A h \in Handlers : handler[h].pc # "idle" => handler[h].charge \in Charges
    /\ notified \in [Charges -> Notified]
    /\ job \in {"idle", "cleanup"}
    /\ crashes \in 0 .. MaxCrashes

Init ==
    /\ status = [c \in Charges |-> "none"]
    /\ stale = [c \in Charges |-> FALSE]
    /\ overdue = [c \in Charges |-> FALSE]
    /\ creator = [c \in Charges |-> "idle"]
    /\ canceler = [c \in Charges |-> "idle"]
    /\ gw = [c \in Charges |-> "none"]
    /\ outbox = [c \in Charges |-> "none"]
    /\ event = [c \in Charges |-> "none"]
    /\ fresh = [c \in Charges |-> FALSE]
    /\ handler = [h \in Handlers |-> Idle]
    /\ notified = [c \in Charges |-> "none"]
    /\ job = "idle"
    /\ crashes = 0

-----------------------------------------------------------------------------
(* Creating a charge *)

SetStatus(c, s) == status' = [status EXCEPT ![c] = s]
CreatorGoes(c, from, to) == creator[c] = from /\ creator' = [creator EXCEPT ![c] = to]

\* reserveCharge: the row exists before the gateway hears of the charge.
ReserveCharge(c) ==
    /\ c \notin GatewayFirst
    /\ \/ CreatorGoes(c, "idle", "reserved") /\ SetStatus(c, "creating")
       \/ "insert" \in MayFail /\ CreatorGoes(c, "idle", "failed") /\ UNCHANGED status
    /\ UNCHANGED <<stale, canceler, gatewayVars, eventVars, handler, notified, job, crashes>>

\* Mutant: every charge is created at the gateway before its row exists.
CallingFirst(c) == "idle"

\* The state in which the request calls the gateway.
Calling(c) == IF c \in GatewayFirst THEN "idle" ELSE "reserved"

\* The payment of a charge is notified; that of a card need not be, since
\* ChargeCardOneStep sends no notification_url.
GatewayIsPaid(c) ==
    /\ gw' = [gw EXCEPT ![c] = "paid"]
    /\ \/ outbox' = [outbox EXCEPT ![c] = "owed"]
       \/ c \in Cards /\ UNCHANGED outbox

\* provider.CreateCharge, CreateBoleto or ChargeCardOneStep succeeded; a card
\* may be approved on the spot.
GatewayCreates(c) ==
    /\ \/ /\ CreatorGoes(c, Calling(c), "answered")
          /\ gw' = [gw EXCEPT ![c] = "open"] /\ UNCHANGED outbox
       \/ c \in Cards /\ CreatorGoes(c, Calling(c), "approved") /\ GatewayIsPaid(c)
    /\ UNCHANGED <<rowVars, canceler, overdue, eventVars, handler, notified, job, crashes>>

\* The call failed: the gateway refused, or it acted and the answer was lost.
GatewayRefuses(c) ==
    /\ CreatorGoes(c, Calling(c), IF c \in GatewayFirst THEN "failed" ELSE "refused")
    /\ \/ UNCHANGED <<gw, outbox>>
       \/ "gateway" \in MayFail /\ gw' = [gw EXCEPT ![c] = "open"] /\ UNCHANGED outbox
       \/ "gateway" \in MayFail /\ c \in Cards /\ GatewayIsPaid(c)
    /\ UNCHANGED <<rowVars, canceler, overdue, eventVars, handler, notified, job, crashes>>

\* abandonCharge; its error is only logged.
Abandon(c) ==
    /\ CreatorGoes(c, "refused", "failed")
    /\ \/ SetStatus(c, AbandonCharge(status[c]))
       \/ "abandon" \in MayFail /\ UNCHANGED status
    /\ UNCHANGED <<stale, canceler, gatewayVars, eventVars, handler, notified, job, crashes>>

\* activateCharge; the caller gets the QR code even if no row was promoted.
Activate(c) ==
    /\ c \notin GatewayFirst
    /\ \/ CreatorGoes(c, "answered", "ok") /\ SetStatus(c, ActivateCharge(status[c]))
       \/ "activate" \in MayFail /\ CreatorGoes(c, "answered", "failed") /\ UNCHANGED status
    /\ UNCHANGED <<stale, canceler, gatewayVars, eventVars, handler, notified, job, crashes>>

\* InsertCharge of a card, or InsertChargeWithLink of a payment link: the row
\* is inserted once the gateway has the charge. A card approved on the spot is
\* marked paid by a statement of its own.
InsertCreated(c) ==
    /\ c \in GatewayFirst
    /\ \/ CreatorGoes(c, "answered", "ok") /\ SetStatus(c, "pending")
       \/ CreatorGoes(c, "approved", "marking") /\ SetStatus(c, "pending")
       \/ /\ "insert" \in MayFail /\ creator[c] \in {"answered", "approved"}
          /\ CreatorGoes(c, creator[c], "failed") /\ UNCHANGED status
    /\ UNCHANGED <<stale, canceler, gatewayVars, eventVars, handler, notified, job, crashes>>

\* MarkChargePaid after a synchronous approval; its error is only logged.
MarkCardPaid(c) ==
    /\ CreatorGoes(c, "marking", "ok")
    /\ \/ SetStatus(c, MarkChargePaid(status[c]))
       \/ "markCard" \in MayFail /\ UNCHANGED status
    /\ UNCHANGED <<stale, canceler, gatewayVars, eventVars, handler, notified, job, crashes>>

CreateStep(c) ==
    \/ ReserveCharge(c) \/ GatewayCreates(c) \/ GatewayRefuses(c)
    \/ Abandon(c) \/ Activate(c) \/ InsertCreated(c) \/ MarkCardPaid(c)

-----------------------------------------------------------------------------
(* The gateway, modelled from how the code uses it *)

\* The payer pays. A PIX QR code is known to nobody before the request that
\* creates it ends; a boleto or a card is settled without our response.
PayerPays(c) ==
    /\ gw[c] = "open"
    /\ c \in Pix => creator[c] \in {"ok", "failed"}
    /\ GatewayIsPaid(c)
    /\ UNCHANGED <<rowVars, requestVars, overdue, eventVars, handler, notified, job, crashes>>

\* due_date + 23h goes by.
DueDatePasses(c) ==
    /\ ~overdue[c] /\ status[c] # "none"
    /\ overdue' = [overdue EXCEPT ![c] = TRUE]
    /\ UNCHANGED <<rowVars, requestVars, gw, outbox, eventVars, handler, notified, job, crashes>>

\* The gateway drops the QR code, on its own clock.
GatewayExpires(c) ==
    /\ c \in Pix /\ overdue[c] /\ gw[c] = "open"
    /\ gw' = [gw EXCEPT ![c] = "lapsed"]
    /\ UNCHANGED <<rowVars, requestVars, outbox, overdue, eventVars, handler, notified, job, crashes>>

-----------------------------------------------------------------------------
(* The payment webhooks: handleWebhook (PIX) and handleCobrWebhook *)

HandlerGoes(h, pc) == handler' = [handler EXCEPT ![h].pc = pc]
HandlerEnds(h) == handler' = [handler EXCEPT ![h] = Idle]
Serves(h, pc) == handler[h].pc = pc
Charge(h) == handler[h].charge

\* A 2xx answer: the gateway will not send this notification again.
Acked(h) ==
    IF handler[h].backed THEN [outbox EXCEPT ![Charge(h)] = "acked"] ELSE outbox

\* Mutant: an event left pending is never claimed again.
ClaimableOnce(c) == event[c] = "none"

\* ClaimWebhookEvent matched: no row yet, or one left pending for a minute.
Claimable(c) == event[c] = "none" \/ (event[c] = "pending" /\ ~fresh[c])

\* A delivery of the notification that claims the event.
ClaimWebhookEvent(h, c) ==
    /\ Serves(h, "idle") /\ outbox[c] = "owed" /\ Claimable(c)
    /\ event' = [event EXCEPT ![c] = "pending"]
    /\ fresh' = [fresh EXCEPT ![c] = TRUE]
    /\ handler' = [handler EXCEPT ![h] =
                      [pc |-> "confirm", charge |-> c, backed |-> TRUE]]
    /\ UNCHANGED <<rowVars, requestVars, gatewayVars, notified, job, crashes>>

\* A delivery that claims nothing is answered 200: done, or taken to be in
\* flight because the last claim is less than a minute old.
WebhookAlreadySeen(c) ==
    /\ outbox[c] = "owed" /\ ~Claimable(c)
    /\ outbox' = [outbox EXCEPT ![c] = "acked"]
    /\ UNCHANGED <<rowVars, requestVars, gw, overdue, eventVars, handler, notified, job, crashes>>

\* A notification of a PIX charge that no payment backs, with an event id of
\* its own: the body of a webhook is not to be trusted.
UnbackedNotification(h, c) ==
    /\ Serves(h, "idle") /\ c \in Pix /\ gw[c] # "none"
    /\ handler' = [handler EXCEPT ![h] =
                      [pc |-> "confirm", charge |-> c, backed |-> FALSE]]
    /\ UNCHANGED <<rowVars, requestVars, gatewayVars, eventVars, notified, job, crashes>>

\* Mutant: the body of the webhook is trusted.
TrustTheBody(h) ==
    /\ Serves(h, "confirm") /\ HandlerGoes(h, "mark")
    /\ UNCHANGED <<rowVars, requestVars, gatewayVars, eventVars, notified, job, crashes>>

\* provider.GetCharge or GetCobrancaNotification: the status is asked of the
\* gateway. An error answers 5xx, another status 200; the event stays pending.
ConfirmAtGateway(h) ==
    /\ Serves(h, "confirm")
    /\ \/ gw[Charge(h)] = "paid" /\ HandlerGoes(h, "mark") /\ UNCHANGED outbox
       \/ gw[Charge(h)] # "paid" /\ HandlerEnds(h) /\ outbox' = Acked(h)
       \/ "confirm" \in MayFail /\ HandlerEnds(h) /\ UNCHANGED outbox
    /\ UNCHANGED <<rowVars, requestVars, gw, overdue, eventVars, notified, job, crashes>>

\* Mutant: the e-mails are enqueued only by the delivery that marks the row.
MarkPaidOrSkip(h) ==
    /\ Serves(h, "mark")
    /\ SetStatus(Charge(h), MarkChargePaid(status[Charge(h)]))
    /\ HandlerGoes(h, IF status[Charge(h)] \in Payable THEN "notify" ELSE "finish")
    /\ UNCHANGED <<stale, requestVars, gatewayVars, eventVars, notified, job, crashes>>

\* MarkChargePaid, which ignores how many rows it changed, or
\* MarkChargePaidByProviderID, which skips the rest when it changed none.
MarkPaid(h) ==
    /\ Serves(h, "mark")
    /\ LET c == Charge(h)
           marked == status[c] \in Payable
       IN \/ /\ SetStatus(c, MarkChargePaid(status[c]))
             /\ HandlerGoes(h, IF c \in Pix \/ marked THEN "notify" ELSE "finish")
          \/ "mark" \in MayFail /\ HandlerEnds(h) /\ UNCHANGED status
    /\ UNCHANGED <<stale, requestVars, gatewayVars, eventVars, notified, job, crashes>>

Notifies(c, n) == notified' = [notified EXCEPT ![c] = n]

\* The public token is looked up and enqueueNotifyPaid runs; when the queue
\* refuses the task a goroutine nobody waits for is started in its place. When
\* the lookup fails, or there is no row, nobody is notified and nothing is said.
NotifyPaid(h) ==
    /\ Serves(h, "notify") /\ HandlerGoes(h, "finish")
    /\ LET c == Charge(h)
           hasRow == status[c] # "none"
       IN \/ hasRow /\ Notifies(c, "safe")
          \/ /\ hasRow /\ "enqueue" \in MayFail
             /\ Notifies(c, IF notified[c] = "safe" THEN "safe" ELSE "inline")
          \/ (hasRow => "lookup" \in MayFail) /\ UNCHANGED notified
    /\ UNCHANGED <<rowVars, requestVars, gatewayVars, eventVars, job, crashes>>

\* notifyPaidInline: one attempt, whose error or panic is only logged. (When two
\* such goroutines are at it, the worse of their ends is recorded.)
NotifyInline(c) ==
    /\ notified[c] = "inline"
    /\ Notifies(c, "safe") \/ ("mail" \in MayFail /\ Notifies(c, "lost"))
    /\ UNCHANGED <<rowVars, requestVars, gatewayVars, eventVars, handler, job, crashes>>

\* MarkWebhookDone, whose error is only logged, and the 200 answer.
MarkWebhookDone(h) ==
    /\ Serves(h, "finish") /\ HandlerEnds(h) /\ outbox' = Acked(h)
    /\ \/ /\ handler[h].backed
          /\ event' = [event EXCEPT ![Charge(h)] = "done"]
       \/ (handler[h].backed => "done" \in MayFail) /\ UNCHANGED event
    /\ UNCHANGED <<rowVars, requestVars, gw, overdue, fresh, notified, job, crashes>>

\* A minute goes by since the claim.
ClaimAges(c) ==
    /\ event[c] = "pending" /\ fresh[c]
    /\ fresh' = [fresh EXCEPT ![c] = FALSE]
    /\ UNCHANGED <<rowVars, requestVars, gatewayVars, event, handler, notified, job, crashes>>

WebhookStep(h) ==
    \/ \E c \in Charges : ClaimWebhookEvent(h, c) \/ UnbackedNotification(h, c)
    \/ ConfirmAtGateway(h) \/ MarkPaid(h) \/ NotifyPaid(h) \/ MarkWebhookDone(h)

-----------------------------------------------------------------------------
(* Closing a charge *)

\* expireOverdueCharges, first statement. An error skips the second one.
ExpireOverdueCharges ==
    /\ job = "idle" /\ job' = "cleanup"
    /\ status' = [c \in Charges |-> ExpireOverdue(status[c], c \in Pix, overdue[c])]
    /\ UNCHANGED <<stale, requestVars, gatewayVars, eventVars, handler, notified, crashes>>

\* expireOverdueCharges, second statement.
CancelStaleCreatingCharges ==
    /\ job = "cleanup" /\ job' = "idle"
    /\ \/ status' = [c \in Charges |-> CancelStaleCreating(status[c], stale[c])]
       \/ "expire" \in MayFail /\ UNCHANGED status
    /\ UNCHANGED <<stale, requestVars, gatewayVars, eventVars, handler, notified, crashes>>

\* Fifteen minutes go by. The gateway client times out after 20s and a request
\* after 60s, so the request that made the reservation has ended by then.
ReservationAges(c) ==
    /\ status[c] = "creating" /\ ~stale[c] /\ creator[c] = "failed"
    /\ stale' = [stale EXCEPT ![c] = TRUE]
    /\ UNCHANGED <<status, requestVars, gatewayVars, eventVars, handler, notified, job, crashes>>

\* Mutant: the statement forgets AND status = 'pending'.
CancelWhatever(c) ==
    /\ canceler[c] = "idle" /\ status[c] \notin {"none", "canceled"}
    /\ SetStatus(c, "canceled")
    /\ canceler' = [canceler EXCEPT ![c] = "removing"]
    /\ UNCHANGED <<stale, creator, gatewayVars, eventVars, handler, notified, job, crashes>>

\* handleCancelPay: the row first...
CancelChargeByToken(c) ==
    /\ canceler[c] = "idle" /\ status[c] = "pending"
    /\ SetStatus(c, CancelByToken(status[c]))
    /\ canceler' = [canceler EXCEPT ![c] = "removing"]
    /\ UNCHANGED <<stale, creator, gatewayVars, eventVars, handler, notified, job, crashes>>

\* ...then the gateway, best-effort: it refuses to remove a charge that is
\* paid, and a card is not a charge of the API that is asked.
RemoveAtGateway(c) ==
    /\ canceler[c] = "removing"
    /\ canceler' = [canceler EXCEPT ![c] = "idle"]
    /\ \/ gw[c] = "open" /\ c \notin Cards /\ gw' = [gw EXCEPT ![c] = "removed"]
       \/ (gw[c] = "open" /\ c \notin Cards => "remove" \in MayFail) /\ UNCHANGED gw
    /\ UNCHANGED <<rowVars, creator, outbox, overdue, eventVars, handler, notified, job, crashes>>

-----------------------------------------------------------------------------
(* The process dies and restarts: every request and every loose goroutine in *)
(* flight is lost.                                                           *)

InFlight == {"reserved", "answered", "approved", "refused", "marking"}

Crash ==
    /\ crashes < MaxCrashes /\ crashes' = crashes + 1
    /\ creator' = [c \in Charges |-> IF creator[c] \in InFlight THEN "failed" ELSE creator[c]]
    /\ canceler' = [c \in Charges |-> "idle"]
    /\ handler' = [h \in Handlers |-> Idle]
    /\ job' = "idle"
    /\ notified' = [c \in Charges |-> IF notified[c] = "inline" THEN "lost" ELSE notified[c]]
    /\ UNCHANGED <<rowVars, gatewayVars, eventVars>>

Next ==
    \/ \E c \in Charges :
          \/ CreateStep(c) \/ PayerPays(c) \/ DueDatePasses(c) \/ GatewayExpires(c)
          \/ WebhookAlreadySeen(c) \/ ClaimAges(c) \/ ReservationAges(c)
          \/ NotifyInline(c)
          \/ CancelChargeByToken(c) \/ RemoveAtGateway(c)
    \/ \E h \in Handlers : WebhookStep(h)
    \/ ExpireOverdueCharges \/ CancelStaleCreatingCharges
    \/ Crash

Spec == Init /\ [][Next]_vars

-----------------------------------------------------------------------------
(* Fairness: requests end (their calls time out), the gateway redelivers    *)
(* what was not answered 2xx, a transient failure does not repeat for ever, *)
(* and time passes.                                                         *)

Backed(h, c) == handler[h].backed /\ Charge(h) = c

Fairness ==
    /\ \A c \in Charges :
         /\ WF_vars(creator[c] # "idle" /\ CreateStep(c))
         /\ WF_vars(ClaimAges(c))
         /\ WF_vars(ReservationAges(c))
         /\ WF_vars(NotifyInline(c))
         /\ SF_vars(\E h \in Handlers : ClaimWebhookEvent(h, c))
         /\ SF_vars(\E h \in Handlers :
                      Backed(h, c) /\ ConfirmAtGateway(h) /\ Serves(h, "mark")')
         /\ SF_vars(\E h \in Handlers :
                      Backed(h, c) /\ MarkPaid(h) /\ ~Serves(h, "idle")')
    /\ \A h \in Handlers :
         /\ WF_vars(ConfirmAtGateway(h)) /\ WF_vars(MarkPaid(h))
         /\ WF_vars(NotifyPaid(h)) /\ WF_vars(MarkWebhookDone(h))
    /\ WF_vars(ExpireOverdueCharges)
    /\ SF_vars(CancelStaleCreatingCharges
                  /\ status' = [c \in Charges |-> CancelStaleCreating(status[c], stale[c])])

FairSpec == Spec /\ Fairness

-----------------------------------------------------------------------------
(* Properties *)

\* A charge is booked as paid only when the gateway holds the money: the
\* status is confirmed there before MarkChargePaid (applyPixEvent), whatever
\* the body of the webhook said and whatever else closed the row meanwhile.
PaidOnlyIfConfirmed ==
    \A c \in Charges : status[c] = "paid" => gw[c] = "paid"

\* Two-phase processing: a PIX event is closed ('done') only after its effect.
\* No PIX charge stays pending or expired once its payment was consumed, in
\* spite of crashes, failures, duplicated deliveries and the expiry job.
DoneEventIsBooked ==
    \A c \in Pix : event[c] = "done" => status[c] \notin Payable

\* The row reserved for a charge is still reserved when the gateway answers:
\* neither the expiry job nor a cancel takes it from under the live request.
ReservationOutlivesRequest ==
    \A c \in Charges \ GatewayFirst :
        creator[c] \in {"reserved", "answered"} => status[c] = "creating"

\* createAndPersistCharge reserves first, so that nothing payable exists at
\* the gateway without a row, even when the process dies half way. (Cards and
\* payment links do not go through it.)
NoChargeWithoutRow ==
    \A c \in Charges \ GatewayFirst : gw[c] # "none" => status[c] # "none"

\* enqueueNotifyPaid runs before the event is closed: the e-mails of a paid PIX
\* charge whose event is done are with asynq or went, or (only if the queue
\* refused them) were given to a goroutine, the one thing that can lose them.
PixPaymentIsNotified ==
    \A c \in Pix : event[c] = "done" /\ status[c] = "paid" =>
        /\ notified[c] # "none"
        /\ "enqueue" \notin MayFail => notified[c] = "safe"

\* A booked payment is never lost again and a canceled charge never comes back
\* to life, whoever acts late: jobs, payers, webhooks, creating requests.
ClosedForGood ==
    [][\A c \in Charges : status[c] \in {"paid", "canceled"} => status'[c] = status[c]]_vars

\* A PIX payment whose row is still open is booked in the end (or the payer
\* canceled it first): failed deliveries are delivered again and reclaimed,
\* unless one is answered 200 less than a minute after the claim it retries.
PixPaymentIsBooked ==
    \A c \in Pix :
        outbox[c] = "owed" /\ status[c] \in Payable
            ~> status[c] \notin Payable \/ (outbox[c] = "acked" /\ fresh[c])

\* A reservation whose request is over does not stay 'creating' for ever.
StaleReservationIsClosed ==
    \A c \in Charges : status[c] = "creating" ~> status[c] # "creating"

-----------------------------------------------------------------------------
(* The inductive invariant behind PaidOnlyIfConfirmed and DoneEventIsBooked *)

\* The gateway's side: nothing exists there before the call, and a payment is
\* what a notification, an event or a confirmed handler tells of.
GatewayInv ==
    /\ \A c \in Charges :
         /\ creator[c] \in {"idle", "reserved"} => gw[c] = "none"
         /\ creator[c] \in {"approved", "marking"} => gw[c] = "paid"
         /\ outbox[c] # "none" \/ event[c] # "none" => gw[c] = "paid"
    /\ \A h \in Handlers :
         /\ handler[h].pc \in {"mark", "notify", "finish"} => gw[handler[h].charge] = "paid"
         /\ handler[h].pc # "idle" /\ handler[h].backed => gw[handler[h].charge] = "paid"

\* A PIX charge is paid only once the request that creates it is over, so no
\* such request opens the row again after its payment was consumed.
PixInv ==
    /\ \A c \in Pix : gw[c] = "paid" => creator[c] \in {"ok", "failed"}
    /\ \A h \in Handlers :
         handler[h].pc \in {"notify", "finish"} /\ handler[h].charge \in Pix
           => status[handler[h].charge] \notin Payable

\* What a payment leaves behind, on both sides and in every handler, while the
\* charge is created, confirmed, closed or interrupted by a crash.
IInv == TypeOK /\ GatewayInv /\ PixInv /\ PaidOnlyIfConfirmed /\ DoneEventIsBooked

\* Where the row is while a request creates the charge. A reservation is not
\* old enough to be cleaned up before its request is over, and a charge that is
\* created at the gateway first has no row until the request inserts it.
RowInv ==
    /\ \A c \in Charges :
         /\ creator[c] = "idle" => status[c] = "none"
         /\ stale[c] => creator[c] = "failed"
    /\ \A c \in Charges \ GatewayFirst :
         /\ creator[c] \notin {"approved", "marking"}
         /\ creator[c] \in {"reserved", "answered", "refused"} => status[c] = "creating"
         /\ gw[c] # "none" => status[c] # "none"
    /\ \A c \in GatewayFirst :
         /\ creator[c] \notin {"reserved", "refused"}
         /\ creator[c] \in {"answered", "approved"} => status[c] = "none"

\* A PIX delivery that is about to close the event, or has closed it, took care
\* of the e-mails or found no row, and will never have one.
Cared(c) == notified[c] # "none" \/ status[c] = "none"
NotifyInv ==
    /\ \A h \in Handlers :
         handler[h].pc = "finish" /\ handler[h].charge \in Pix => Cared(handler[h].charge)
    /\ \A c \in Pix : event[c] = "done" => Cared(c)
    /\ "enqueue" \notin MayFail => \A c \in Charges : notified[c] \in {"none", "safe"}

-----------------------------------------------------------------------------
(* What comments of the code promise and the code does not keep *)

\* handlers_webhook.go, handleWebhook: a 5xx "e o que faz a Efi reentregar de
\* verdade". Redelivered within a minute, the event is not claimed, the answer
\* is 200 and nobody processes it any more.
FailedEventIsRetried ==
    \A c \in Pix :
        outbox[c] = "owed" /\ status[c] \in Payable ~> status[c] \notin Payable

\* workers.go, HandleNotifyPaid: better notify twice than never. For a boleto
\* the retry of a half-processed event finds the row paid and skips the e-mails.
PaymentIsNotified ==
    \A c \in Charges : event[c] = "done" /\ status[c] = "paid" => notified[c] = "safe"

-----------------------------------------------------------------------------
(* Refinement *)

BooksOf(s) ==
    CASE s \in {"none", "creating"} -> "unborn"
      [] s = "pending" -> "open"
      [] s = "expired" -> "lapsed"
      [] s = "canceled" -> "void"
      [] OTHER -> "booked"

books == [c \in Charges |-> BooksOf(status[c])]
money == [c \in Charges |-> gw[c] = "paid"]

Abstract == INSTANCE Settlement WITH books <- books, money <- money

\* Reservations, two-phase webhooks, jobs and crashes add up to the promise of
\* Settlement: the books follow the money and closed is closed.
ImplementsSettlement == Abstract!Spec

=============================================================================
