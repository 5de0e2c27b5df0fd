-------------------------------- MODULE Payout --------------------------------
(***************************************************************************)
(* Payouts of payments-go: handlePayout sends money out of the Efi account *)
(* (PIX Envio) and registers the withdrawal afterwards; the outcome comes  *)
(* in a notification, claimed and applied by handleWebhook. Nothing else   *)
(* ever changes a withdrawal.                                              *)
(*                                                                         *)
(* A key stands for the idempotency key as sanitizeIdEnvio leaves it, and  *)
(* so for the transfer of that idEnvio too. All notifications of a         *)
(* transfer carry the same e2eId and therefore the same event id. The      *)
(* guards of the handler that change no state (sudo, rate limit, amounts,  *)
(* PAYOUT_ENABLED) are passed by every request here.                       *)
(*                                                                         *)
(* Definitions whose comment begins with "Mutant" are wrong on purpose, to *)
(* see that a property notices.                                            *)
(***************************************************************************)
EXTENDS Naturals

CONSTANTS
    Keys,       \* idempotency keys
    Requests,   \* the POSTs served at the same time
    Hooks,      \* the webhook requests served at the same time
    MayFail,    \* what may go wrong, see FailPoints
    MaxFaults   \* how many times something may go wrong

FailPoints == {"answer", "insert", "apply", "done", "crash"}

ASSUME ConstantsAssumption ==
    /\ MayFail \subseteq FailPoints
    /\ MaxFaults \in Nat

Final == {"completed", "failed"}

VARIABLES
    row,     \* pay_withdrawals.status, by key
    sent,    \* the transfer at the gateway, by key
    owed,    \* the notifications the gateway goes on delivering, by key
    event,   \* pay_webhook_events.status, by key
    fresh,   \* whether the event was claimed less than a minute ago
    posts,   \* the POST requests: where, for which key, and the status to register
    hooks,   \* the webhook requests: where, for which key, and the status to apply
    faults   \* how many times something went wrong

gatewayVars == <<sent, owed>>
eventVars == <<event, fresh>>
vars == <<row, sent, owed, event, fresh, posts, hooks, faults>>

Idle == [at |-> "idle"]
Posts == {Idle} \cup [at : {"checked"}, key : Keys]
                \cup [at : {"sent"}, key : Keys, status : Final \cup {"processing"}]
Claims == {Idle} \cup [at : {"claimed"}, key : Keys, notice : {"interim", "final"},
                       status : Final \cup {""}]
                 \cup [at : {"applied"}, key : Keys, notice : {"interim", "final"}]

TypeOK ==
    /\ row \in [Keys -> {"none", "processing"} \cup Final]
    /\ sent \in [Keys -> {"none", "sent", "realizado", "nao_realizado"}]
    /\ owed \in [Keys -> SUBSET {"interim", "final"}]
    /\ event \in [Keys -> {"none", "pending", "done"}]
    /\ fresh \in [Keys -> BOOLEAN]
    /\ posts \in [Requests -> Posts]
    /\ hooks \in [Hooks -> Claims]
    /\ faults \in 0 .. MaxFaults

Init ==
    /\ row = [k \in Keys |-> "none"] /\ sent = [k \in Keys |-> "none"]
    /\ owed = [k \in Keys |-> {}]
    /\ event = [k \in Keys |-> "none"] /\ fresh = [k \in Keys |-> FALSE]
    /\ posts = [r \in Requests |-> Idle] /\ hooks = [h \in Hooks |-> Idle]
    /\ faults = 0

May(fail) ==
    /\ fail \in MayFail /\ faults < MaxFaults
    /\ faults' = faults + 1

\* Mutant: what is not a success is a failure.
StatusOrFailed(envio) == IF envio = "realizado" THEN "completed" ELSE "failed"

\* "" for a status that is not final.
efiEnvioStatusToApp(envio) ==
    CASE envio = "realizado" -> "completed" [] envio = "nao_realizado" -> "failed"
      [] OTHER -> ""

-----------------------------------------------------------------------------
(* POST /efi/payout *)

\* GetWithdrawalByIdempotencyKey finds nothing, and the balance is enough.
\* A key with a row is answered with that row, and nothing changes.
Dedupe(r, k) ==
    /\ posts[r] = Idle /\ row[k] = "none"
    /\ posts' = [posts EXCEPT ![r] = [at |-> "checked", key |-> k]]
    /\ UNCHANGED <<row, gatewayVars, eventVars, hooks, faults>>

\* The gateway accepts a transfer and may tell of it before it is final; an
\* idEnvio it has seen is not transferred again.
Transfers(k) ==
    /\ sent' = [sent EXCEPT ![k] = IF @ = "none" THEN "sent" ELSE @]
    /\ \/ UNCHANGED owed
       \/ sent[k] = "none" /\ owed' = [owed EXCEPT ![k] = {"interim"}]

\* Mutant: an error of the gateway is registered too.
SendAnyway(r) ==
    /\ posts[r].at = "checked"
    /\ posts' = [posts EXCEPT ![r] =
           [at |-> "sent", key |-> posts[r].key, status |-> "processing"]]
    /\ UNCHANGED <<row, gatewayVars, eventVars, hooks, faults>>

\* SendPix answers: with the transfer, or, for an idEnvio it knows, with what
\* has become of it.
SendPix(r) ==
    /\ posts[r].at = "checked"
    /\ LET k == posts[r].key
           mapped == efiEnvioStatusToApp(sent[k])
       IN /\ Transfers(k)
          /\ posts' = [posts EXCEPT ![r] =
                 [at |-> "sent", key |-> k,
                  status |-> IF mapped = "" THEN "processing" ELSE mapped]]
    /\ UNCHANGED <<row, eventVars, hooks, faults>>

\* SendPix fails: the gateway refused, or its answer was lost.
SendFails(r) ==
    /\ posts[r].at = "checked"
    /\ posts' = [posts EXCEPT ![r] = Idle]
    /\ \/ UNCHANGED <<gatewayVars, faults>>
       \/ Transfers(posts[r].key) /\ May("answer")
    /\ UNCHANGED <<row, eventVars, hooks>>

\* Mutant: the INSERT overwrites the row of the same key.
UpsertWithdrawal(r) ==
    /\ posts[r].at = "sent"
    /\ row' = [row EXCEPT ![posts[r].key] = posts[r].status]
    /\ posts' = [posts EXCEPT ![r] = Idle]
    /\ UNCHANGED <<gatewayVars, eventVars, hooks, faults>>

\* CreateWithdrawal: the key is UNIQUE, and an error is only logged and answered.
CreateWithdrawal(r) ==
    /\ posts[r].at = "sent"
    /\ LET k == posts[r].key
       IN \/ row[k] = "none" /\ row' = [row EXCEPT ![k] = posts[r].status] /\ UNCHANGED faults
          \/ row[k] # "none" /\ UNCHANGED <<row, faults>>
          \/ May("insert") /\ UNCHANGED row
    /\ posts' = [posts EXCEPT ![r] = Idle]
    /\ UNCHANGED <<gatewayVars, eventVars, hooks>>

\* The gateway executes or rejects a transfer and owes the notification of it.
GatewaySettles(k) ==
    /\ sent[k] = "sent"
    /\ \E outcome \in {"realizado", "nao_realizado"} : sent' = [sent EXCEPT ![k] = outcome]
    /\ owed' = [owed EXCEPT ![k] = @ \cup {"final"}]
    /\ UNCHANGED <<row, eventVars, posts, hooks, faults>>

-----------------------------------------------------------------------------
(* The webhook *)

\* Mutant: an event is taken once (INSERT ... ON CONFLICT DO NOTHING).
ClaimableOnce(k) == event[k] = "none"

Claimable(k) == event[k] = "none" \/ (event[k] = "pending" /\ ~fresh[k])

\* The PayoutStatus of a notification.
Says(k, notice) == IF notice = "interim" THEN "" ELSE efiEnvioStatusToApp(sent[k])

\* ClaimWebhookEvent: the event is claimed by this delivery.
ClaimWebhookEvent(h, k, notice) ==
    /\ hooks[h] = Idle /\ notice \in owed[k] /\ Claimable(k)
    /\ event' = [event EXCEPT ![k] = "pending"]
    /\ fresh' = [fresh EXCEPT ![k] = TRUE]
    /\ hooks' = [hooks EXCEPT ![h] =
           [at |-> "claimed", key |-> k, notice |-> notice, status |-> Says(k, notice)]]
    /\ UNCHANGED <<row, gatewayVars, posts, faults>>

\* A 2xx: the gateway does not deliver the notification again.
Acked(k, notice) == owed' = [owed EXCEPT ![k] = @ \ {notice}]

\* The event is done, or in the hands of another delivery: answered 200.
NotClaimed(h, k, notice) ==
    /\ hooks[h] = Idle /\ notice \in owed[k] /\ ~Claimable(k)
    /\ Acked(k, notice)
    /\ UNCHANGED <<row, sent, eventVars, posts, hooks, faults>>

\* whSkip: nothing to apply yet; the event stays pending and 200 is answered.
SkipInterim(h) ==
    /\ hooks[h].at = "claimed" /\ hooks[h].status = ""
    /\ Acked(hooks[h].key, hooks[h].notice)
    /\ hooks' = [hooks EXCEPT ![h] = Idle]
    /\ UNCHANGED <<row, sent, eventVars, posts, faults>>

\* SetWithdrawalStatus: a row that is not there, or already final, is left
\* alone, without an error. A failed UPDATE is answered 5xx.
SetWithdrawalStatus(h) ==
    /\ hooks[h].at = "claimed" /\ hooks[h].status # ""
    /\ LET k == hooks[h].key
       IN \/ /\ row' = [row EXCEPT ![k] = IF @ = "processing" THEN hooks[h].status ELSE @]
             /\ hooks' = [hooks EXCEPT ![h] = [at |-> "applied", key |-> k,
                                               notice |-> hooks[h].notice]]
             /\ UNCHANGED faults
          \/ May("apply") /\ hooks' = [hooks EXCEPT ![h] = Idle] /\ UNCHANGED row
    /\ UNCHANGED <<gatewayVars, eventVars, posts>>

\* MarkWebhookDone: its error is only logged, and 200 is answered.
MarkWebhookDone(h) ==
    /\ hooks[h].at = "applied"
    /\ \/ /\ event' = [event EXCEPT ![hooks[h].key] = "done"]
          /\ fresh' = [fresh EXCEPT ![hooks[h].key] = FALSE]
          /\ UNCHANGED faults
       \/ May("done") /\ UNCHANGED eventVars
    /\ Acked(hooks[h].key, hooks[h].notice)
    /\ hooks' = [hooks EXCEPT ![h] = Idle]
    /\ UNCHANGED <<row, sent, posts>>

\* A minute goes by.
ClaimAges(k) ==
    /\ fresh[k] /\ fresh' = [fresh EXCEPT ![k] = FALSE]
    /\ UNCHANGED <<row, gatewayVars, event, posts, hooks, faults>>

\* The process dies and its requests with it.
Crash ==
    /\ May("crash")
    /\ posts' = [r \in Requests |-> Idle] /\ hooks' = [h \in Hooks |-> Idle]
    /\ UNCHANGED <<row, gatewayVars, eventVars>>

-----------------------------------------------------------------------------
PostStep(r) == SendPix(r) \/ SendFails(r) \/ CreateWithdrawal(r)
Delivery(h, k, notice) == ClaimWebhookEvent(h, k, notice) \/ NotClaimed(h, k, notice)
HookStep(h) == SkipInterim(h) \/ SetWithdrawalStatus(h) \/ MarkWebhookDone(h)

Next ==
    \/ \E r \in Requests : PostStep(r) \/ \E k \in Keys : Dedupe(r, k)
    \/ \E h \in Hooks : HookStep(h) \/ \E k \in Keys, n \in {"interim", "final"} :
           Delivery(h, k, n)
    \/ \E k \in Keys : GatewaySettles(k) \/ ClaimAges(k)
    \/ Crash

Spec == Init /\ [][Next]_vars

\* The gateway delivers what it owes until it is answered 2xx, a request that
\* has begun ends, and the minute of a claim passes. The gateway may take
\* as long as it likes to settle, and nobody has to repeat a POST.
FairSpec ==
    /\ Spec
    /\ \A h \in Hooks : WF_vars(HookStep(h))
    /\ \A k \in Keys : WF_vars(\E h \in Hooks : Delivery(h, k, "final")) /\ WF_vars(ClaimAges(k))
    /\ \A r \in Requests : WF_vars(PostStep(r))

-----------------------------------------------------------------------------
(* Properties *)

\* What a status says of the transfer of key k.
TrueOf(status, k) ==
    /\ status = "completed" => sent[k] = "realizado"
    /\ status = "failed" => sent[k] = "nao_realizado"

\* "O saque NAO e registrado ... nao houve transferencia confirmada": a row
\* belongs to a transfer the gateway accepted.
RowHasTransfer == \A k \in Keys : row[k] # "none" => sent[k] # "none"

\* A row is completed or failed only if that is what became of the transfer,
\* through whichever of the answer, the notifications and the retries.
RowTellsTheTruth == \A k \in Keys : TrueOf(row[k], k)

\* A final row is never changed: not by a second POST of its key that was
\* already past the dedupe, nor by a notification applied again.
FinalIsKept == [][\A k \in Keys : row[k] \in Final => row'[k] = row[k]]_vars

\* A row that waits, and whose event nobody has touched when the result is
\* notified, ends with the result, through failures and retries; except when
\* the notification came within a minute of a claim and was answered 200.
PayoutIsSettled ==
    \A k \in Keys :
        /\ row[k] = "processing" /\ "final" \in owed[k] /\ event[k] = "none"
        ~> row[k] \in Final \/ ("final" \notin owed[k] /\ fresh[k])

\* The payouts implement Withdrawal: whichever of the answer, the notifications
\* and the retries writes a withdrawal, it follows the money and stops at its end.
whereabouts == [k \in Keys |->
    CASE sent[k] = "none" -> "kept" [] sent[k] = "sent" -> "away"
      [] sent[k] = "realizado" -> "arrived" [] sent[k] = "nao_realizado" -> "returned"]
withdrawals == [k \in Keys |-> IF row[k] = "processing" THEN "waiting" ELSE row[k]]
Promise == INSTANCE Withdrawal WITH money <- whereabouts, book <- withdrawals
ImplementsWithdrawal == Promise!Spec

-----------------------------------------------------------------------------
(* What a comment of the code promises and the code does not keep *)

\* handlers_payout.go, handlePayout, where the INSERT fails: "o webhook ainda
\* dara o status final". An event that is done has given it to no row.
WebhookGivesFinalStatus ==
    \A k \in Keys : event[k] = "done" => row[k] \in Final

-----------------------------------------------------------------------------
(* The inductive invariant behind RowHasTransfer and RowTellsTheTruth *)

\* What a POST is about to register is true of the transfer.
PostInv ==
    \A r \in Requests : posts[r].at = "sent" =>
        sent[posts[r].key] # "none" /\ TrueOf(posts[r].status, posts[r].key)

\* What a delivery is about to apply is what the gateway decided.
HookInv ==
    \A h \in Hooks : hooks[h].at = "claimed" => TrueOf(hooks[h].status, hooks[h].key)

\* A result is notified only when there is one.
OwedInv == \A k \in Keys : "final" \in owed[k] => sent[k] \in {"realizado", "nao_realizado"}

IInv == TypeOK /\ PostInv /\ HookInv /\ OwedInv /\ RowHasTransfer /\ RowTellsTheTruth

=============================================================================
