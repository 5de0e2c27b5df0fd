--------------------------- MODULE MoneyOut_proofs ---------------------------
(***************************************************************************)
(* Proofs about the two ways money leaves, Payout and CardRefund.          *)
(*                                                                         *)
(* Payout: a withdrawal says of its transfer what became of it, for any    *)
(* number of keys, requests, deliveries and faults. The argument: a        *)
(* notification is owed only for a transfer that is settled (OwedInv), so  *)
(* what a delivery carries is true when it is claimed (HookInv) and,       *)
(* because a settled transfer stays as it is, when it is applied, however  *)
(* much later; the same holds of the answer a POST registers (PostInv).    *)
(* With that the payouts implement Withdrawal.                             *)
(*                                                                         *)
(* CardRefund: for every amount and every set of requests, one refund at a *)
(* time, and books that never outrun the gateway.                          *)
(***************************************************************************)
EXTENDS CardRefund, Payout, TLAPS

Truths == PostInv /\ HookInv /\ OwedInv /\ RowHasTransfer /\ RowTellsTheTruth

\* The fields of a request that is under way.
LEMMA PostFields ==
  ASSUME NEW p \in Posts
  PROVE  /\ p.at \in {"checked", "sent"} => p.key \in Keys
         /\ p.at = "sent" => p.status \in Final \cup {"processing"}
BY DEF Posts, Idle

LEMMA ClaimFields ==
  ASSUME NEW c \in Claims
  PROVE  /\ c.at \in {"claimed", "applied"} =>
                c.key \in Keys /\ c.notice \in {"interim", "final"}
         /\ c.at = "claimed" => c.status \in Final \cup {""}
<1>1. CASE c = Idle
  BY <1>1 DEF Idle
<1>2. CASE c \in [at : {"claimed"}, key : Keys, notice : {"interim", "final"},
                  status : Final \cup {""}]
  BY <1>2
<1>3. CASE c \in [at : {"applied"}, key : Keys, notice : {"interim", "final"}]
  BY <1>3
<1> QED BY <1>1, <1>2, <1>3 DEF Claims

LEMMA TypeStep == ASSUME TypeOK, [Next]_vars PROVE TypeOK'
<1> USE ConstantsAssumption DEF TypeOK, Final
<1>1. ASSUME NEW r \in Requests, NEW k \in Keys, Dedupe(r, k) PROVE TypeOK'
  BY <1>1 DEF Dedupe, gatewayVars, eventVars, Posts, Idle
<1>2. ASSUME NEW r \in Requests, SendPix(r) PROVE TypeOK'
  <2>1. posts[r].key \in Keys
    BY <1>2, PostFields DEF SendPix
  <2>2. sent' \in [Keys -> {"none", "sent", "realizado", "nao_realizado"}]
        /\ owed' \in [Keys -> SUBSET {"interim", "final"}]
    <3>1. Transfers(posts[r].key)
      BY <1>2 DEF SendPix
    <3> QED BY <2>1, <3>1 DEF Transfers
  <2>3. posts' \in [Requests -> Posts]
    <3>1. PICK s \in Final \cup {"processing"} :
             posts' = [posts EXCEPT ![r] = [at |-> "sent", key |-> posts[r].key, status |-> s]]
      BY <1>2 DEF SendPix, efiEnvioStatusToApp
    <3> QED BY <2>1, <3>1 DEF Posts
  <2> QED BY <1>2, <2>2, <2>3 DEF SendPix, eventVars
<1>3. ASSUME NEW r \in Requests, SendFails(r) PROVE TypeOK'
  <2>1. posts[r].key \in Keys
    BY <1>3, PostFields DEF SendFails
  <2>2. posts' \in [Requests -> Posts]
    BY <1>3 DEF SendFails, Posts
  <2>3. /\ sent' \in [Keys -> {"none", "sent", "realizado", "nao_realizado"}]
        /\ owed' \in [Keys -> SUBSET {"interim", "final"}]
        /\ faults' \in 0 .. MaxFaults
    BY <1>3, <2>1 DEF SendFails, Transfers, May, gatewayVars
  <2> QED BY <1>3, <2>2, <2>3 DEF SendFails, eventVars
<1>4. ASSUME NEW r \in Requests, CreateWithdrawal(r) PROVE TypeOK'
  <2>1. posts[r].key \in Keys /\ posts[r].status \in Final \cup {"processing"}
    BY <1>4, PostFields DEF CreateWithdrawal
  <2>2. posts' \in [Requests -> Posts]
    BY <1>4 DEF CreateWithdrawal, Posts
  <2> QED BY <1>4, <2>1, <2>2 DEF CreateWithdrawal, May, gatewayVars, eventVars
<1>5. ASSUME NEW k \in Keys, GatewaySettles(k) PROVE TypeOK'
  BY <1>5 DEF GatewaySettles, eventVars
<1>6. ASSUME NEW h \in Hooks, NEW k \in Keys, NEW n \in {"interim", "final"},
             ClaimWebhookEvent(h, k, n)
      PROVE TypeOK'
  <2>1. Says(k, n) \in Final \cup {""}
    BY DEF Says, efiEnvioStatusToApp
  <2>2. hooks' \in [Hooks -> Claims]
    BY <1>6, <2>1 DEF ClaimWebhookEvent, Claims
  <2> QED BY <1>6, <2>2 DEF ClaimWebhookEvent, gatewayVars
<1>7. ASSUME NEW h \in Hooks, NEW k \in Keys, NEW n \in {"interim", "final"},
             NotClaimed(h, k, n)
      PROVE TypeOK'
  BY <1>7 DEF NotClaimed, Acked, eventVars
<1>8. ASSUME NEW h \in Hooks, SkipInterim(h) PROVE TypeOK'
  <2>1. hooks[h].key \in Keys
    BY <1>8, ClaimFields DEF SkipInterim
  <2>2. hooks' \in [Hooks -> Claims]
    BY <1>8 DEF SkipInterim, Claims
  <2> QED BY <1>8, <2>1, <2>2 DEF SkipInterim, Acked, eventVars
<1>9. ASSUME NEW h \in Hooks, SetWithdrawalStatus(h) PROVE TypeOK'
  <2>1. /\ hooks[h].key \in Keys /\ hooks[h].status \in Final
        /\ hooks[h].notice \in {"interim", "final"}
    BY <1>9, ClaimFields DEF SetWithdrawalStatus
  <2>2. hooks' \in [Hooks -> Claims]
    <3>1. \/ hooks' = [hooks EXCEPT ![h] = Idle]
          \/ hooks' = [hooks EXCEPT ![h] = [at |-> "applied", key |-> hooks[h].key,
                                            notice |-> hooks[h].notice]]
      BY <1>9 DEF SetWithdrawalStatus
    <3>2. Idle \in Claims /\ [at |-> "applied", key |-> hooks[h].key,
                              notice |-> hooks[h].notice] \in Claims
      BY <2>1 DEF Claims
    <3> QED BY <3>1, <3>2
  <2>3. row' \in [Keys -> {"none", "processing"} \cup Final] /\ faults' \in 0 .. MaxFaults
    <3>1. \/ /\ row' = [row EXCEPT ![hooks[h].key] =
                           IF @ = "processing" THEN hooks[h].status ELSE @]
             /\ faults' = faults
          \/ row' = row /\ May("apply")
      BY <1>9 DEF SetWithdrawalStatus
    <3> QED BY <2>1, <3>1 DEF May
  <2> QED BY <1>9, <2>2, <2>3 DEF SetWithdrawalStatus, gatewayVars, eventVars
<1>10. ASSUME NEW h \in Hooks, MarkWebhookDone(h) PROVE TypeOK'
  <2>1. hooks[h].key \in Keys
    BY <1>10, ClaimFields DEF MarkWebhookDone
  <2>2. hooks' \in [Hooks -> Claims]
    BY <1>10 DEF MarkWebhookDone, Claims
  <2>3. /\ event' \in [Keys -> {"none", "pending", "done"}]
        /\ fresh' \in [Keys -> BOOLEAN] /\ faults' \in 0 .. MaxFaults
    <3>1. \/ /\ event' = [event EXCEPT ![hooks[h].key] = "done"]
             /\ fresh' = [fresh EXCEPT ![hooks[h].key] = FALSE]
             /\ faults' = faults
          \/ event' = event /\ fresh' = fresh /\ May("done")
      BY <1>10 DEF MarkWebhookDone, eventVars
    <3>2. event' \in [Keys -> {"none", "pending", "done"}]
      BY <2>1, <3>1
    <3>3. fresh' \in [Keys -> BOOLEAN]
      BY <2>1, <3>1
    <3>4. faults' \in 0 .. MaxFaults
      BY <3>1 DEF May
    <3> QED BY <3>2, <3>3, <3>4
  <2>4. owed' \in [Keys -> SUBSET {"interim", "final"}]
    BY <1>10, <2>1 DEF MarkWebhookDone, Acked
  <2> QED BY <1>10, <2>2, <2>3, <2>4 DEF MarkWebhookDone
<1>11. ASSUME NEW k \in Keys, ClaimAges(k) PROVE TypeOK'
  BY <1>11 DEF ClaimAges, gatewayVars
<1>12. ASSUME Crash PROVE TypeOK'
  <2>1. posts' \in [Requests -> Posts] /\ hooks' \in [Hooks -> Claims]
    BY <1>12 DEF Crash, Posts, Claims
  <2> QED BY <1>12, <2>1 DEF Crash, May, gatewayVars, eventVars
<1>13. CASE UNCHANGED vars
  BY <1>13 DEF vars, gatewayVars, eventVars
<1> QED
  BY <1>1, <1>2, <1>3, <1>4, <1>5, <1>6, <1>7, <1>8, <1>9, <1>10, <1>11, <1>12, <1>13
  DEF Next, PostStep, HookStep, Delivery

\* What the gateway has decided it does not take back, and what it has
\* accepted stays accepted: a status that is true of a transfer stays true.
LEMMA TransfersOnlyMoveOn ==
  ASSUME TypeOK, [Next]_vars, NEW k \in Keys
  PROVE  /\ sent[k] # "none" => sent'[k] # "none"
         /\ sent[k] \in {"realizado", "nao_realizado"} => sent'[k] = sent[k]
<1> USE DEF TypeOK
<1>1. ASSUME NEW j \in Keys, Transfers(j)
      PROVE  sent[k] # "none" => sent'[k] = sent[k]
  BY <1>1 DEF Transfers
<1>2. ASSUME NEW r \in Requests, SendPix(r) PROVE sent[k] # "none" => sent'[k] = sent[k]
  <2>1. posts[r].key \in Keys
    BY <1>2, PostFields DEF SendPix
  <2> QED BY <1>1, <1>2, <2>1 DEF SendPix
<1>3. ASSUME NEW r \in Requests, SendFails(r) PROVE sent[k] # "none" => sent'[k] = sent[k]
  <2>1. posts[r].key \in Keys
    BY <1>3, PostFields DEF SendFails
  <2> QED BY <1>1, <1>3, <2>1 DEF SendFails, gatewayVars
<1>4. ASSUME NEW j \in Keys, GatewaySettles(j)
      PROVE  /\ sent[k] # "none" => sent'[k] # "none"
             /\ sent[k] \in {"realizado", "nao_realizado"} => sent'[k] = sent[k]
  BY <1>4 DEF GatewaySettles
<1>5. CASE UNCHANGED sent
  BY <1>5
<1> QED
  BY <1>2, <1>3, <1>4, <1>5
  DEF Next, PostStep, HookStep, Delivery, Dedupe, CreateWithdrawal, ClaimWebhookEvent,
      NotClaimed, SkipInterim, SetWithdrawalStatus, MarkWebhookDone, ClaimAges, Crash,
      vars, gatewayVars

COROLLARY TruthStays ==
  ASSUME TypeOK, [Next]_vars, NEW k \in Keys, NEW s, TrueOf(s, k)
  PROVE  TrueOf(s, k)'
BY TransfersOnlyMoveOn DEF TrueOf

LEMMA PostStepKeeps == ASSUME TypeOK, PostInv, [Next]_vars PROVE PostInv'
<1> USE DEF TypeOK
<1> SUFFICES ASSUME NEW r \in Requests, (posts[r].at)' = "sent"
             PROVE  /\ (posts[r].key)' \in Keys
                    /\ sent'[(posts[r].key)'] # "none"
                    /\ TrueOf(posts[r].status, posts[r].key)'
  BY DEF PostInv
<1>1. CASE posts'[r] = posts[r]
  <2>1. posts[r].key \in Keys /\ posts[r].at = "sent"
    BY <1>1, PostFields
  <2>2. sent[posts[r].key] # "none" /\ TrueOf(posts[r].status, posts[r].key)
    BY <2>1 DEF PostInv
  <2>3. sent'[posts[r].key] # "none" /\ TrueOf(posts[r].status, posts[r].key)'
    BY <1>1, <2>1, <2>2, TransfersOnlyMoveOn DEF TrueOf
  <2> QED BY <1>1, <2>1, <2>3
<1>2. CASE SendPix(r)
  <2>1. posts[r].key \in Keys
    BY <1>2, PostFields DEF SendPix
  <2>2. /\ posts'[r].key = posts[r].key
        /\ posts'[r].status \in {"processing", efiEnvioStatusToApp(sent[posts[r].key])}
    BY <1>2 DEF SendPix
  <2>3. sent'[posts[r].key] = IF sent[posts[r].key] = "none" THEN "sent"
                              ELSE sent[posts[r].key]
    BY <1>2, <2>1 DEF SendPix, Transfers
  <2> QED BY <2>1, <2>2, <2>3 DEF TrueOf, efiEnvioStatusToApp
<1>3. posts'[r] = posts[r] \/ SendPix(r) \/ (posts[r].at)' # "sent"
  <2>1. ASSUME NEW q \in Requests, SendPix(q) PROVE posts'[r] = posts[r] \/ SendPix(r)
    BY <2>1 DEF SendPix
  <2>2. ASSUME NEW q \in Requests, NEW k \in Keys, Dedupe(q, k)
        PROVE  posts'[r] = posts[r] \/ (posts[r].at)' # "sent"
    BY <2>2 DEF Dedupe
  <2>3. ASSUME NEW q \in Requests, SendFails(q) \/ CreateWithdrawal(q)
        PROVE  posts'[r] = posts[r] \/ (posts[r].at)' # "sent"
    <3>1. posts' = [posts EXCEPT ![q] = Idle]
      BY <2>3 DEF SendFails, CreateWithdrawal
    <3> QED BY <3>1 DEF Idle
  <2>4. CASE Crash
    BY <2>4 DEF Crash, Idle
  <2>5. CASE UNCHANGED posts
    BY <2>5
  <2> QED
    BY <2>1, <2>2, <2>3, <2>4, <2>5
    DEF Next, PostStep, HookStep, Delivery, GatewaySettles, ClaimWebhookEvent, NotClaimed,
        SkipInterim, SetWithdrawalStatus, MarkWebhookDone, ClaimAges, vars
<1> QED BY <1>1, <1>2, <1>3

LEMMA OwedStepKeeps == ASSUME TypeOK, OwedInv, [Next]_vars PROVE OwedInv'
<1> USE DEF TypeOK
<1> SUFFICES ASSUME NEW k \in Keys, "final" \in owed'[k]
             PROVE  sent'[k] \in {"realizado", "nao_realizado"}
  BY DEF OwedInv
<1>1. CASE "final" \in owed[k]
  BY <1>1, TransfersOnlyMoveOn DEF OwedInv
<1>2. CASE "final" \notin owed[k]
  <2>1. ASSUME NEW j \in Keys, Transfers(j) PROVE "final" \notin owed'[k]
    BY <1>2, <2>1 DEF Transfers
  <2>2. ASSUME NEW r \in Requests, SendPix(r) PROVE FALSE
    <3>1. posts[r].key \in Keys
      BY <2>2, PostFields DEF SendPix
    <3> QED BY <2>1, <2>2, <3>1 DEF SendPix
  <2>3. ASSUME NEW r \in Requests, SendFails(r) PROVE FALSE
    <3>1. posts[r].key \in Keys
      BY <2>3, PostFields DEF SendFails
    <3> QED BY <1>2, <2>1, <2>3, <3>1 DEF SendFails, gatewayVars
  <2>4. ASSUME NEW j \in Keys, GatewaySettles(j)
        PROVE  sent'[k] \in {"realizado", "nao_realizado"}
    BY <1>2, <2>4 DEF GatewaySettles
  <2>5. ASSUME NEW j \in Keys, NEW n, Acked(j, n) PROVE FALSE
    BY <1>2, <2>5 DEF Acked
  <2>6. ASSUME NEW h \in Hooks, SkipInterim(h) \/ MarkWebhookDone(h) PROVE FALSE
    <3>1. hooks[h].key \in Keys
      BY <2>6, ClaimFields DEF SkipInterim, MarkWebhookDone
    <3> QED BY <2>5, <2>6, <3>1 DEF SkipInterim, MarkWebhookDone
  <2>7. CASE UNCHANGED owed
    BY <1>2, <2>7
  <2> QED
    BY <2>2, <2>3, <2>4, <2>5, <2>6, <2>7
    DEF Next, PostStep, HookStep, Delivery, Dedupe, CreateWithdrawal, ClaimWebhookEvent,
        NotClaimed, SetWithdrawalStatus, ClaimAges, Crash, vars, gatewayVars
<1> QED BY <1>1, <1>2

LEMMA HookStepKeeps == ASSUME TypeOK, HookInv, OwedInv, [Next]_vars PROVE HookInv'
<1> USE DEF TypeOK
<1> SUFFICES ASSUME NEW h \in Hooks, (hooks[h].at)' = "claimed"
             PROVE  TrueOf(hooks[h].status, hooks[h].key)'
  BY DEF HookInv
<1>1. CASE hooks'[h] = hooks[h]
  <2>1. hooks[h].key \in Keys /\ hooks[h].at = "claimed"
    BY <1>1, ClaimFields
  <2>2. TrueOf(hooks[h].status, hooks[h].key)
    BY <2>1 DEF HookInv
  <2> QED BY <1>1, <2>1, <2>2, TransfersOnlyMoveOn DEF TrueOf
<1>2. ASSUME NEW k \in Keys, NEW n \in {"interim", "final"}, ClaimWebhookEvent(h, k, n)
      PROVE  TrueOf(hooks[h].status, hooks[h].key)'
  <2>1. hooks'[h].status = Says(k, n) /\ hooks'[h].key = k /\ sent' = sent
    BY <1>2 DEF ClaimWebhookEvent, gatewayVars
  <2> QED BY <2>1 DEF TrueOf, Says, efiEnvioStatusToApp
<1>3. \/ hooks'[h] = hooks[h] \/ (hooks[h].at)' # "claimed"
      \/ \E k \in Keys, n \in {"interim", "final"} : ClaimWebhookEvent(h, k, n)
  <2>1. ASSUME NEW g \in Hooks, NEW k \in Keys, NEW n \in {"interim", "final"},
               ClaimWebhookEvent(g, k, n)
        PROVE  hooks'[h] = hooks[h] \/ ClaimWebhookEvent(h, k, n)
    BY <2>1 DEF ClaimWebhookEvent
  <2>2. ASSUME NEW g \in Hooks, SkipInterim(g) \/ MarkWebhookDone(g)
        PROVE  hooks'[h] = hooks[h] \/ (hooks[h].at)' # "claimed"
    <3>1. hooks' = [hooks EXCEPT ![g] = Idle]
      BY <2>2 DEF SkipInterim, MarkWebhookDone
    <3> QED BY <3>1 DEF Idle
  <2>3. ASSUME NEW g \in Hooks, SetWithdrawalStatus(g)
        PROVE  hooks'[h] = hooks[h] \/ (hooks[h].at)' # "claimed"
    <3>1. \/ hooks' = [hooks EXCEPT ![g] = Idle]
          \/ hooks' = [hooks EXCEPT ![g] = [at |-> "applied", key |-> hooks[g].key,
                                            notice |-> hooks[g].notice]]
      BY <2>3 DEF SetWithdrawalStatus
    <3> QED BY <3>1 DEF Idle
  <2>4. CASE Crash
    BY <2>4 DEF Crash, Idle
  <2>5. CASE UNCHANGED hooks
    BY <2>5
  <2> QED
    BY <2>1, <2>2, <2>3, <2>4, <2>5
    DEF Next, PostStep, HookStep, Delivery, Dedupe, SendPix, SendFails, CreateWithdrawal,
        GatewaySettles, NotClaimed, ClaimAges, vars
<1> QED BY <1>1, <1>2, <1>3

\* A row changes by the INSERT of a POST or by the UPDATE of a delivery.
LEMMA RowStepKeeps ==
  ASSUME TypeOK, PostInv, HookInv, RowHasTransfer, RowTellsTheTruth, [Next]_vars
  PROVE  RowHasTransfer' /\ RowTellsTheTruth'
<1> USE DEF TypeOK
<1> SUFFICES ASSUME NEW k \in Keys
             PROVE  /\ row'[k] # "none" => sent'[k] # "none"
                    /\ TrueOf(row[k], k)'
  BY DEF RowHasTransfer, RowTellsTheTruth
<1>0. /\ row[k] # "none" => sent'[k] # "none"
      /\ row'[k] = row[k] => TrueOf(row[k], k)'
  BY TransfersOnlyMoveOn DEF RowHasTransfer, RowTellsTheTruth, TrueOf
<1>1. CASE row'[k] = row[k]
  BY <1>0, <1>1
<1>2. ASSUME NEW r \in Requests, CreateWithdrawal(r), row'[k] # row[k]
      PROVE  sent'[k] # "none" /\ TrueOf(row[k], k)'
  <2>1. posts[r].key = k /\ row'[k] = posts[r].status /\ posts[r].at = "sent" /\ sent' = sent
    BY <1>2 DEF CreateWithdrawal, gatewayVars
  <2> QED BY <2>1 DEF PostInv, TrueOf
<1>3. ASSUME NEW h \in Hooks, SetWithdrawalStatus(h), row'[k] # row[k]
      PROVE  sent'[k] # "none" /\ TrueOf(row[k], k)'
  <2>1. /\ hooks[h].key = k /\ row'[k] = hooks[h].status /\ hooks[h].at = "claimed"
        /\ row[k] = "processing" /\ sent' = sent
    BY <1>3 DEF SetWithdrawalStatus, gatewayVars
  <2> QED BY <2>1 DEF HookInv, RowHasTransfer, TrueOf
<1>4. \/ row' = row \/ \E r \in Requests : CreateWithdrawal(r)
      \/ \E h \in Hooks : SetWithdrawalStatus(h)
  BY DEF Next, PostStep, HookStep, Delivery, Dedupe, SendPix, SendFails,
         GatewaySettles, ClaimWebhookEvent, NotClaimed, SkipInterim,
         MarkWebhookDone, ClaimAges, Crash, vars
<1> QED BY <1>1, <1>2, <1>3, <1>4

\* The inductive invariant of the payouts: handlePayout and handleWebhook,
\* any number of them, with every fault.
THEOREM Inductive == Spec => []IInv
<1>1. Init => IInv
  BY ConstantsAssumption
  DEF Init, IInv, TypeOK, PostInv, HookInv, OwedInv, RowHasTransfer, RowTellsTheTruth,
      TrueOf, Idle, Posts, Claims
<1>2. IInv /\ [Next]_vars => IInv'
  BY TypeStep, PostStepKeeps, OwedStepKeeps, HookStepKeeps, RowStepKeeps DEF IInv
<1> QED BY <1>1, <1>2, PTL DEF Spec

\* Every variable of handlePayout and handleWebhook keeps its type.
THEOREM TypeCorrect == Spec => []TypeOK
BY Inductive, PTL DEF IInv

\* A row exists only for a transfer the gateway accepted.
THEOREM RowsAreBacked == Spec => []RowHasTransfer
BY Inductive, PTL DEF IInv

\* A final row says what became of the transfer.
THEOREM RowsAreTrue == Spec => []RowTellsTheTruth
BY Inductive, PTL DEF IInv

\* No step changes a final row: CreateWithdrawal inserts a key once, and
\* SetWithdrawalStatus touches rows that are processing.
THEOREM FinalStays == Spec => FinalIsKept
<1>1. ASSUME TypeOK, [Next]_vars, NEW k \in Keys, row[k] \in Final
      PROVE  row'[k] = row[k]
  BY <1>1
  DEF Next, PostStep, HookStep, Delivery, Dedupe, SendPix, SendFails, CreateWithdrawal,
      GatewaySettles, ClaimWebhookEvent, NotClaimed, SkipInterim, SetWithdrawalStatus,
      MarkWebhookDone, ClaimAges, Crash, vars, Final, TypeOK
<1>2. TypeOK /\ [Next]_vars => [\A k \in Keys : row[k] \in Final => row'[k] = row[k]]_vars
  BY <1>1
<1> QED BY <1>2, Inductive, PTL DEF IInv, Spec, FinalIsKept

-----------------------------------------------------------------------------
(* Payouts implement Withdrawal *)

\* A transfer that is accepted is money that leaves; one that is known stays
\* where it is.
LEMMA TransferIsLeaving ==
  ASSUME TypeOK, NEW k \in Keys, Transfers(k), row' = row
  PROVE  Promise!Leave(k) \/ UNCHANGED <<whereabouts, withdrawals>>
<1>1. withdrawals' = withdrawals
  BY DEF withdrawals
<1>2. CASE sent[k] = "none"
  <2>1. sent' = [sent EXCEPT ![k] = "sent"]
    BY <1>2 DEF Transfers, TypeOK
  <2>2. whereabouts[k] = "kept"
    BY <1>2 DEF whereabouts
  <2>3. whereabouts' = [whereabouts EXCEPT ![k] = "away"]
    BY <2>1 DEF whereabouts, TypeOK
  <2> QED BY <1>1, <2>2, <2>3 DEF Promise!Leave
<1>3. CASE sent[k] # "none"
  <2>1. sent' = sent
    BY <1>3 DEF Transfers, TypeOK
  <2> QED BY <1>1, <2>1 DEF whereabouts
<1> QED BY <1>2, <1>3

LEMMA SettlingSettles ==
  ASSUME TypeOK, NEW k \in Keys, GatewaySettles(k)
  PROVE  Promise!Settle(k)
<1>1. withdrawals' = withdrawals
  BY DEF withdrawals, GatewaySettles
<1>2. PICK outcome \in {"realizado", "nao_realizado"} : sent' = [sent EXCEPT ![k] = outcome]
  BY DEF GatewaySettles
<1>3. whereabouts[k] = "away"
  BY DEF GatewaySettles, whereabouts
<1>4. whereabouts' = [whereabouts EXCEPT ![k] =
                         IF outcome = "realizado" THEN "arrived" ELSE "returned"]
  BY <1>2 DEF whereabouts, TypeOK
<1> QED BY <1>1, <1>3, <1>4 DEF Promise!Settle

\* A row that is written with a status that is true of its transfer says what
\* may be said of the money.
LEMMA TrueSayings ==
  ASSUME TypeOK, NEW k \in Keys, NEW s \in Final \cup {"processing"},
         sent[k] # "none", TrueOf(s, k), row' = [row EXCEPT ![k] = s], sent' = sent
  PROVE  /\ whereabouts[k] # "kept" /\ whereabouts' = whereabouts
         /\ \E said \in Promise!Sayings(k) : withdrawals' = [withdrawals EXCEPT ![k] = said]
<1> DEFINE said == IF s = "processing" THEN "waiting" ELSE s
<1>1. whereabouts[k] # "kept" /\ whereabouts' = whereabouts
  BY DEF whereabouts, TypeOK
<1>2. withdrawals' = [withdrawals EXCEPT ![k] = said]
  BY DEF withdrawals, TypeOK
<1>3. said \in Promise!Sayings(k)
  BY DEF Promise!Sayings, whereabouts, TrueOf, Final
<1> HIDE DEF said
<1> QED BY <1>1, <1>2, <1>3

LEMMA StepRefinesWithdrawal ==
  ASSUME IInv, [Next]_vars
  PROVE  [Promise!Next]_(Promise!vars)
<1>0. TypeOK /\ PostInv /\ HookInv /\ RowHasTransfer
  BY DEF IInv
<1> DEFINE Same == UNCHANGED <<whereabouts, withdrawals>>
<1>1. ASSUME NEW r \in Requests, SendPix(r) \/ SendFails(r)
      PROVE  Same \/ \E k \in Keys : Promise!Leave(k)
  <2>1. posts[r].key \in Keys /\ row' = row
    BY <1>0, <1>1, PostFields DEF SendPix, SendFails, TypeOK
  <2>2. Transfers(posts[r].key) \/ sent' = sent
    BY <1>1 DEF SendPix, SendFails, gatewayVars
  <2>3. CASE sent' = sent
    BY <2>1, <2>3 DEF whereabouts, withdrawals
  <2> QED BY <1>0, <2>1, <2>2, <2>3, TransferIsLeaving
<1>2. ASSUME NEW r \in Requests, CreateWithdrawal(r)
      PROVE  Same \/ \E k \in Keys : Promise!Register(k)
  <2> DEFINE k == posts[r].key
  <2>1. /\ k \in Keys /\ posts[r].status \in Final \cup {"processing"}
        /\ sent[k] # "none" /\ TrueOf(posts[r].status, k) /\ sent' = sent
    BY <1>0, <1>2, PostFields DEF CreateWithdrawal, TypeOK, PostInv, gatewayVars
  <2>2. CASE row' = row
    BY <2>1, <2>2 DEF whereabouts, withdrawals
  <2>3. CASE row[k] = "none" /\ row' = [row EXCEPT ![k] = posts[r].status]
    <3>1. withdrawals[k] = "none"
      BY <2>1, <2>3 DEF withdrawals
    <3>2. Promise!Register(k)
      BY <1>0, <2>1, <2>3, <3>1, TrueSayings DEF Promise!Register
    <3> QED BY <2>1, <3>2
  <2> QED BY <1>2, <2>2, <2>3 DEF CreateWithdrawal
<1>3. ASSUME NEW h \in Hooks, SetWithdrawalStatus(h)
      PROVE  Same \/ \E k \in Keys : Promise!Learn(k)
  <2> DEFINE k == hooks[h].key
  <2>1. /\ k \in Keys /\ hooks[h].status \in Final
        /\ TrueOf(hooks[h].status, k) /\ sent' = sent
    BY <1>0, <1>3, ClaimFields DEF SetWithdrawalStatus, TypeOK, HookInv, gatewayVars
  <2>2. CASE row' = row
    BY <2>1, <2>2 DEF whereabouts, withdrawals
  <2>3. CASE row[k] = "processing" /\ row' = [row EXCEPT ![k] = hooks[h].status]
    <3>1. withdrawals[k] = "waiting" /\ sent[k] # "none"
      BY <1>0, <2>1, <2>3 DEF withdrawals, RowHasTransfer
    <3>2. Promise!Learn(k)
      BY <1>0, <2>1, <2>3, <3>1, TrueSayings DEF Promise!Learn
    <3> QED BY <2>1, <3>2
  <2>4. row' = row \/ (row[k] = "processing" /\ row' = [row EXCEPT ![k] = hooks[h].status])
    <3>1. row' = row \/ row' = [row EXCEPT ![k] =
                                   IF @ = "processing" THEN hooks[h].status ELSE @]
      BY <1>3 DEF SetWithdrawalStatus
    <3> QED BY <1>0, <2>1, <3>1 DEF TypeOK
  <2> QED BY <2>2, <2>3, <2>4
<1>4. ASSUME NEW k \in Keys, GatewaySettles(k) PROVE Promise!Settle(k)
  BY <1>0, <1>4, SettlingSettles
<1>5. ASSUME row' = row /\ sent' = sent PROVE Same
  BY <1>5 DEF whereabouts, withdrawals
<1>6. \/ row' = row /\ sent' = sent
      \/ \E r \in Requests : SendPix(r) \/ SendFails(r) \/ CreateWithdrawal(r)
      \/ \E h \in Hooks : SetWithdrawalStatus(h)
      \/ \E k \in Keys : GatewaySettles(k)
  BY DEF Next, PostStep, HookStep, Delivery, Dedupe, ClaimWebhookEvent, NotClaimed,
         SkipInterim, MarkWebhookDone, ClaimAges, Crash, vars, gatewayVars
<1>7. Same \/ \E k \in Keys : \/ Promise!Leave(k) \/ Promise!Settle(k)
                              \/ Promise!Register(k) \/ Promise!Learn(k)
  BY <1>1, <1>2, <1>3, <1>4, <1>5, <1>6
<1> QED BY <1>7 DEF Promise!Next, Promise!vars

\* The payouts keep what Withdrawal promises: handlePayout lets the money of a
\* key leave once, and a withdrawal, whenever CreateWithdrawal or
\* SetWithdrawalStatus writes it, follows the money and stops where it ends.
THEOREM RefinesWithdrawal == Spec => ImplementsWithdrawal
<1>1. Init => Promise!Init
  BY DEF Init, Promise!Init, whereabouts, withdrawals
<1>2. IInv /\ [Next]_vars => [Promise!Next]_(Promise!vars)
  BY StepRefinesWithdrawal
<1> QED BY <1>1, <1>2, Inductive, PTL DEF Spec, ImplementsWithdrawal, Promise!Spec

-----------------------------------------------------------------------------
(* Card refunds: type correctness *)

USE DEF Goes, GoesWrong, Holding, rowVars, askVars, Whole, MaxBack, Value, GivesBack

LEMMA RefundNextType == RefundTypeOK /\ [RefundNext]_refundVars => RefundTypeOK'
<1> SUFFICES ASSUME RefundTypeOK, [RefundNext]_refundVars PROVE RefundTypeOK'
  OBVIOUS
<1> USE RefundAssumption DEF RefundTypeOK
<1>1. ASSUME NEW r \in Refunds, NEW a \in 0 .. Amount, ReadCharge(r, a) PROVE RefundTypeOK'
  BY <1>1 DEF ReadCharge
<1>2. ASSUME NEW r \in Refunds, Begin(r) PROVE RefundTypeOK'
  BY <1>2 DEF Begin, BeginChargeRefund, Update
<1>3. ASSUME NEW r \in Refunds, GatewayRefunds(r) PROVE RefundTypeOK'
  BY <1>3 DEF GatewayRefunds
<1>4. ASSUME NEW r \in Refunds, GatewayRefuses(r) PROVE RefundTypeOK'
  BY <1>4 DEF GatewayRefuses
<1>5. ASSUME NEW r \in Refunds, Rollback(r) PROVE RefundTypeOK'
  BY <1>5 DEF Rollback, RollbackChargeRefund, Update
<1>6. ASSUME NEW r \in Refunds, Finish(r) PROVE RefundTypeOK'
  BY <1>6 DEF Finish, FinishChargeRefund, Update
<1>7. ASSUME RefundCrash PROVE RefundTypeOK'
  BY <1>7 DEF RefundCrash
<1>8. CASE UNCHANGED refundVars
  BY <1>8 DEF refundVars
<1>9. QED
  BY <1>1, <1>2, <1>3, <1>4, <1>5, <1>6, <1>7, <1>8 DEF RefundNext, RefundStep

-----------------------------------------------------------------------------
(* Card refunds: the inductive invariant *)

LEMMA RefundInitInductive == RefundInit => RefundInv
BY RefundAssumption DEF RefundInit, RefundInv, RefundTypeOK, OneRefundAtATime, HoldingInv, RecordInv,
   BooksWithinRefunds, RefundedIsWhole

\* The row is reserved for one request: nobody else holds it.
LEMMA Alone ==
    ASSUME RefundTypeOK, OneRefundAtATime, NEW r \in Refunds, pc[r] \in Holding
    PROVE  \A q \in Refunds \ {r} : pc[q] \notin Holding
BY DEF OneRefundAtATime

LEMMA RefundNextInductive == RefundInv /\ [RefundNext]_refundVars => RefundInv'
<1> SUFFICES ASSUME RefundInv, [RefundNext]_refundVars PROVE RefundInv'
  OBVIOUS
<1>0. RefundTypeOK /\ RefundTypeOK'
  BY RefundNextType DEF RefundInv
<1> USE <1>0, RefundAssumption
    DEF RefundInv, OneRefundAtATime, HoldingInv, RecordInv, BooksWithinRefunds, RefundedIsWhole
<1>1. ASSUME NEW r \in Refunds, NEW a \in 0 .. Amount, ReadCharge(r, a) PROVE RefundInv'
  BY <1>1 DEF ReadCharge, RefundTypeOK
<1>2. ASSUME NEW r \in Refunds, Begin(r) PROVE RefundInv'
  BY <1>2 DEF Begin, BeginChargeRefund, Update, RefundTypeOK
<1>3. ASSUME NEW r \in Refunds, GatewayRefunds(r) PROVE RefundInv'
  <2>1. \A q \in Refunds \ {r} : pc[q] \notin Holding
    BY <1>3, Alone DEF GatewayRefunds
  <2>2. RecordInv'
    <3>1. back' >= Amount \/ refunded + Value(r) <= back'
      BY <1>3 DEF GatewayRefunds, RefundTypeOK
    <3>2. QED
      BY <1>3, <2>1, <3>1 DEF GatewayRefunds, RefundTypeOK
  <2>3. BooksWithinRefunds' /\ RefundedIsWhole'
    BY <1>3 DEF GatewayRefunds, RefundTypeOK
  <2>4. OneRefundAtATime' /\ HoldingInv'
    BY <1>3, <2>1 DEF GatewayRefunds, RefundTypeOK
  <2>5. QED
    BY <2>2, <2>3, <2>4
<1>4. ASSUME NEW r \in Refunds, GatewayRefuses(r) PROVE RefundInv'
  <2>1. \A q \in Refunds \ {r} : pc[q] \notin Holding
    BY <1>4, Alone DEF GatewayRefuses
  <2>2. back <= back'
    BY <1>4 DEF GatewayRefuses, RefundTypeOK
  <2>3. QED
    BY <1>4, <2>1, <2>2 DEF GatewayRefuses, RefundTypeOK
<1>5. ASSUME NEW r \in Refunds, Rollback(r) PROVE RefundInv'
  <2>1. \A q \in Refunds \ {r} : pc[q] \notin Holding
    BY <1>5, Alone DEF Rollback
  <2>2. QED
    BY <1>5, <2>1 DEF Rollback, RollbackChargeRefund, Update, RefundTypeOK
<1>6. ASSUME NEW r \in Refunds, Finish(r) PROVE RefundInv'
  <2>1. \A q \in Refunds \ {r} : pc[q] \notin Holding
    BY <1>6, Alone DEF Finish
  <2>2. status = "refunding" /\ pc[r] = "refunded"
    BY <1>6 DEF Finish
  <2>3. /\ pc' = [pc EXCEPT ![r] = "idle"] /\ UNCHANGED <<back, remaining, want>>
        /\ \/ UNCHANGED <<status, refunded>>
           \/ /\ refunded + Value(r) >= Amount
              /\ status' = "refunded" /\ refunded' = Amount
           \/ /\ refunded + Value(r) < Amount
              /\ status' = "paid" /\ refunded' = refunded + Value(r)
    BY <1>6, <2>2 DEF Finish, FinishChargeRefund, Update, RefundTypeOK
  <2>4. BooksWithinRefunds'
    BY <2>2, <2>3 DEF RefundTypeOK
  <2>5. RefundedIsWhole'
    BY <2>2, <2>3 DEF RefundTypeOK
  <2>6. \A q \in Refunds : pc'[q] \notin Holding
    BY <2>1, <2>3 DEF RefundTypeOK
  <2>7. QED
    BY <2>4, <2>5, <2>6
<1>7. ASSUME RefundCrash PROVE RefundInv'
  BY <1>7 DEF RefundCrash, RefundTypeOK
<1>8. CASE UNCHANGED refundVars
  BY <1>8 DEF refundVars, RefundTypeOK
<1>9. QED
  BY <1>1, <1>2, <1>3, <1>4, <1>5, <1>6, <1>7, <1>8 DEF RefundNext, RefundStep

-----------------------------------------------------------------------------
(* Card refunds: theorems *)

\* Every reachable state of handleRefundCard satisfies the inductive invariant:
\* who holds the reservation, what it is about to record and what was recorded.
THEOREM RefundInductive == RefundSpec => []RefundInv
<1>1. RefundInit => RefundInv
  BY RefundInitInductive
<1>2. RefundInv /\ [RefundNext]_refundVars => RefundInv'
  BY RefundNextInductive
<1>3. QED
  BY <1>1, <1>2, PTL DEF RefundSpec

\* Every variable of handleRefundCard keeps its type.
THEOREM RefundTypeCorrect == RefundSpec => []RefundTypeOK
<1>1. RefundInv => RefundTypeOK
  BY DEF RefundInv
<1>2. QED
  BY <1>1, RefundInductive, PTL

\* BeginChargeRefund closes the double refund: however many requests have read
\* 'paid', one at a time asks the gateway.
THEOREM OneRefund == RefundSpec => []OneRefundAtATime
<1>1. RefundInv => OneRefundAtATime
  BY DEF RefundInv
<1>2. QED
  BY <1>1, RefundInductive, PTL

\* refunded_cents never exceeds what the gateway has given back.
THEOREM BooksAreCovered == RefundSpec => []BooksWithinRefunds
<1>1. RefundInv => BooksWithinRefunds
  BY DEF RefundInv
<1>2. QED
  BY <1>1, RefundInductive, PTL

\* A charge is closed as refunded exactly when its refunds add up to it.
THEOREM WholeIsClosed == RefundSpec => []RefundedIsWhole
<1>1. RefundInv => RefundedIsWhole
  BY DEF RefundInv
<1>2. QED
  BY <1>1, RefundInductive, PTL
=============================================================================
