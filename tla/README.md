# Verification of santos-tech-infra

TLA+ specifications of the parts of this repository whose correctness depends
on more than one actor: the charges, refunds and payouts of `payments-go`, the
job scheduler `cron-go`, the live sessions of `agent-go`, the prepaid hours of
`api-go` and the inbound messages of `bot-go`. Each specification is
model-checked with TLC on small instances; every safety property that the runs
check but one, and the refinement of `Settlement`, are proved with TLAPS for every
value of the constants. Paths below are relative to `src/apps/` unless they say otherwise.

- [The system](#the-system): what the repository is made of, and what is hard
- [The modules](#the-modules): how state and actions correspond to the code
- [The runs](#the-runs): what is checked, with which bounds and fairness
- [The proofs](#the-proofs): what is proved, from what, along which argument
- [What the checks found](#what-the-checks-found)
- [What is not modelled](#what-is-not-modelled)
- [Plan](#plan): the next modules

## The system

Nine Go services, a TypeScript one and their front ends, deployed side by side
over PostgreSQL and Redis; they call one another over HTTP.

### payments-go

Billing with Efi, a Brazilian payment gateway that has two interfaces: PIX
(instant transfers identified by `correlation_id`) and Cobrancas (boletos and
cards identified by `provider_charge_id`).

| part | state it keeps | operations | hard behaviour | correct when |
|---|---|---|---|---|
| charges | `pay_charges.status`, `pay_webhook_events` | create, confirm by webhook, expire (hourly), cancel by the payer | a charge lives in the table and at the gateway; three kinds of actor move its row; notifications are duplicated, late, lost, forged; the process dies anywhere | the books follow the money, closed is closed, a payment is booked in the end |
| card refunds | `status`, `refunded_cents` | reserve, ask the gateway, record or give back | a balance read before the reservation; lost answers | one refund at a time; never more in the books than given back |
| payouts | `pay_withdrawals` | dedupe, transfer, register; settle by webhook | money leaves before the row exists; the result may come first | a row is that of a transfer, and says what became of it |
| links, coupons | `pay_payment_links`, `pay_coupons.used_count` | reserve a use, charge, give the use back | the charge exists though the request failed | no use counted twice or never |
| subscriptions | `pay_recurrences`, `pay_subscriptions` | monthly cycle, contract status by webhook | one charge a month in spite of failures | a month is billed once and not skipped |
| live status | Redis cache and channel | publish, invalidate, serve events | cache filled with a status read before it changed | the payer sees the payment in the end |

A handler runs as a goroutine of `net/http`; each SQL statement is a transaction
of its own, and between two of them, or a statement and a call of the gateway,
anything may happen. `runRecurrenceLoop` is one ticker goroutine. E-mails
go through an asynq queue (`workers.go`).

### cron-go

Keeps jobs (`cron_jobs`: expression, time zone, target, retries, `enabled`,
`next_run_at`) and executions (`cron_runs`). Every 30 s a tick claims due jobs with
`FOR UPDATE SKIP LOCKED`, computes the next run in the same transaction and, after the commit, when
its rows are no longer locked, fires one goroutine per job. The goroutine takes the job's slot under an
advisory lock, calls the target with retries and quadratic backoff, and closes
the row. "Run now", edits, pauses and deletions come over HTTP meanwhile. Hard:
several replicas, goroutines that outlive requests and shutdowns, rows left by a
crash, instants that a crash or an unheard commit loses, schedules that never match. Correct when an
instant is fired at most once, a job is never executed twice at the same time, and a due job is executed.

### agent-go

Conversations with a coding agent, each with a live `claude` process while it is
in use. Two parts, under two kinds of mutex:

- the pool (`livepool.go`): a map from conversations to sessions, with a hard
  limit. `ensureLive` finds a session, or makes room and starts a process
  *outside* the lock; a reaper hibernates idle sessions, requests evict them, and
  the goroutine that reads a process removes it when it ends. Hard: what a request
  was given may be gone before it is used, and Stop, evictions and the end of the server meet turns
  that run and prompts that wait. Correct when the limit holds, no process is left running where
  nobody finds it, and no prompt is lost in silence that nobody gave up.
- the turns of a session (`livesession.go`, `question.go`): a queue of prompts,
  a watchdog on the running turn, and a question to a human during which the watchdog
  rests, answered by the panel, skipped, timed out, withdrawn by the process or
  refused by Stop. Correct when a turn is always under some timer, a question is
  answered once, a prompt never waits for nothing, and every turn ends.

### api-go

Accounts and everything else. Modelled here: prepaid hour sessions
(`hour_sessions.go`). Clients buy minutes; a session is scheduled or started,
paused, resumed, adjusted and ended, and its end debits the time it ran, which is
never stored but derived from its events. No worker watches the clock: whoever reads a
session starts or ends it when it is due. Hard: requests that interleave between
statements, of which only those on the client's row are locked, and events that
are said to have happened earlier. Correct when every minute is accounted
for once, the derived time is the time it ran, and a due session ends.

Other protocols in it: refresh-token rotation with a grace period in Redis
(`refresh_grace.go`), claim and publication of scheduled posts
(`social_agendador.go`), reward claims, QR login.

### bot-go

A WhatsApp assistant. A notification is recorded in `webhook_events`; its message
joins the burst of its conversation (`burstBuffer` of `server.go`), which a goroutine hands to
`ConversationEngine.Handle` as one message when the debounce timer fires. A failed row
is retried by two paths, a Redis stream and the polling of the table
(`retry_stream.go`, `worker.go`), and a message of the quiet hours is held for the latter. Hard: the
burst lives in memory, rows and entries outlive it, and the two paths take the
same rows. Correct when bursts of a conversation are serialised and none is left behind, a
row is closed only when its text was answered, and what failed is retried to its end. Beside it: an
outbox, follow-ups, reminders, bookings, and a pool of background tasks (`bgpool.go`).

### The rest

`auto-fixer` (one incident per application, in Redis), `secrets-go` (a crawler of
leaked credentials), `cameras-go` (ffmpeg and uploads), `mcp-go` (proxies), `whats`
(an adapter), the TypeScript and Rust front ends, `src/infra`, `src/docs`.

The full list, with what is modelled of each, is `components` of `PROJECT.json`;
`hazards` there lists what is hard to test, at the line where it bites.

## The modules

| module | models | used by |
|---|---|---|
| `ChargeTable` | the conditional UPDATEs on `pay_charges.status` (`store.go`, `db/query/charges.sql`), as functions on the status | `ChargeLifecycle`, `CardRefund` |
| `ChargeLifecycle` | charges from both sides, the two payment webhooks, the hourly job, the cancel button | |
| `Settlement` | the abstract promise of the charges, refined by `ChargeLifecycle` | |
| `CardRefund` | `handleRefundCard` | |
| `Payout` | `handlePayout` and the payout branch of the PIX webhook | |
| `Withdrawal` | the abstract promise of the payouts, refined by `Payout` | |
| `CronRuns` | `claimRunSlot`, `executeRun`, shutdown, purge (`scheduler.go`, `dispatch.go`, `main.go`) | `MCCronRuns` |
| `CronTick` | `tick` and every handler that edits `cron_jobs` | |
| `HourSession` | sessions, events and balances of `hour_sessions.go` | `MCHourSession` |
| `Account` | the prepaid minutes of a client as if an ending were one step, refined by `HourSession` | |
| `LivePool` | `ensureLive`, `Send`, `Stop`, reaper, `Evict`, the end of a process and of the server (`livepool.go`, `livesession.go`, `main.go`) | |
| `LiveTurn` | queue, watchdog, questions and Stop of one session (`livesession.go`, `question.go`) | |
| `BotInbound` | the path of a message from the webhook to the answered row (`server.go`, `engine.go`, `repos.go`, `worker.go`, `retry_stream.go`) | |
| `MoneyOut_proofs` | the theorems about `CardRefund` and `Payout` | |
| `X_proofs` | the theorems about each other `X` | |

Conventions. One SQL statement or one call of another system is one action, so
handlers interleave where the code awaits. Where a goroutine is, is a `pc` that
names the last thing it did. Under a mutex of the program, a critical section is one action and
what follows the unlock is another. Whatever may fail is named in the constant `MayFail`; an action that fails
does what the code does then, which is often to log. A definition whose comment
begins with "Mutant" is a plausible mistake and is used by no specification: put in
the place of the definition that follows, it must break a property.

**ChargeLifecycle.** `status` is the column; `creator`, `canceler`, `handler`, `job` are
the goroutines; `gw`, `outbox` are the gateway's side, external, modelled from what
the code relies on: it may act and lose the answer, it delivers a notification until
it is answered 2xx, and it refuses to remove a paid charge.
`notified` is what became of the e-mails of a payment. `enqueueNotifyPaid` hands them to asynq (`safe`); when that
fails, a goroutine nobody waits for sends them (`inline`), once, and a crash or a failed e-mail loses them (`lost`)
though the event may be done by then.
`event` and `fresh` are a row of `pay_webhook_events` and whether it was claimed within the
minute `ClaimWebhookEvent` respects. The charges in `GatewayFirst` (cards,
payment links) are created at the gateway before the row is inserted; the others
are reserved first (`createAndPersistCharge`). `UnbackedNotification` is a
notification without a payment behind it: the code does not trust the body and asks
the gateway. `ReservationAges` says that 15 minutes pass only after the request that made
the reservation ended: the gateway's client has a timeout of 20 s and the server
one of 60 s. A payer can pay a PIX charge only once its creating request is
over, because nobody has seen the QR code before; a boleto or card may be settled earlier.

**Settlement.** `books` and `money`, per charge: money arrives once; the books are
opened, lapse, are voided, or are booked, and only when the money is there. The
mapping of `status` is `BooksOf`; that of `gw` is `gw = "paid"`.

**CardRefund.** One charge in units of money, several requests. `back` is what the
gateway has given back; it may look at the balance or not, since the code does not
rely on it. A request that reads the charge keeps the balance it read, `remaining`,
until it records the outcome, as the code does. Its names (`RefundInit`, `Refunds`, `failures`) are
apart from those of `Payout`, so that one module can hold the proofs of both.

**Payout.** A key is an idempotency key and the transfer that carries it (`idEnvio` is
the sanitised key). All notifications of one transfer share an event id, because the id is built
from `e2eId`: this is what makes an interim notice able to shadow the final one.

**Withdrawal.** `money` and `book`, per key: money leaves once, and arrives or comes back; what our side says of it may
come late or never, but is never ahead of the money and never changes once it names an end. The mappings are
`whereabouts` of `sent` and `withdrawals` of `row`.

**CronRuns.** Time is discrete. A worker is a goroutine of `claimRunSlot` and
`executeRun`; `Replicas` partitions the workers into processes. `age` of a row is
`now() - started_at`, and `HasRunningRun` believes a row younger than `Window`.
`Pass` advances the clock and is not enabled while a timer that has run out waits.

**CronTick.** `next` is `next_run_at` against the clock (null, future, due, or the zero
time); `nextOf` remembers the schedule it was computed from, `batch` what a tick has read and is yet to fire.
`CommitTick` moves the claimed rows on and releases them, and `Fire` starts the goroutines one by one, without a
look at the rows, which may be edited, paused or deleted meanwhile. The commit may take effect and report an error
(`CommitUnheard`), and the process may die before or in the middle of the firing (`Crash`). Of the instant a job has
come due for, `serves` remembers the replicas that took it on, `fired` how often it was fired for, and `fate` whether it was
lost or an edit has taken its place. That a tick fires a job without moving it on when its schedule cannot be parsed
(`scheduler.go:57`) is left out: the handlers refuse such a schedule.

**HourSession.** `session`, `events` and `balance` are the rows of `hour_sessions`,
`hour_session_events` (in the order of `created_at`) and `hour_clients`. A request goes
statement by statement: the status is read, without a lock, then the events, then the
client is locked (`LockClient`, `FOR UPDATE`) and the transaction commits. `Poll` is any read
of a session, which goes through `autoStartIfDue` and `autoEndIfDue`. A purchase and a new
session wait for the lock of the client, as its foreign key and its UPDATE do. `Count` is the
body of the loop of `computeElapsedSeconds` and `Replay` what it knows after each event; minutes are whole, ticks are
what time is made of. An event that is said to have happened earlier takes its place in the order (`Insert`).
`bill` is `billable_minutes` of each session, which the last of two racing endings overwrites; `billed` is its sum, and
`credits`, `charged` and `debits` (the endings of each session) are histories.

**Account.** `balance`, `credits` and `charged` of a client and the `bill` of each session. A step is a credit or a charge, and
a charge takes from the balance what there is *then* and writes the rest on the bill of its session, over what was there, in
one step. The four names are variables of `HourSession` too, so that the mapping is the identity; everything else there is hidden.

**LivePool.** `live` is the map. An instance is a `liveSession` and its process, whose
life `proc` follows from start to the end of `readLoop`; `fate` is a session that somebody has
taken from the map and is yet to end outside the lock. A request keeps the
session it was given (`have`) until it writes, whatever happens to it meanwhile. The turn is reduced to whether
it runs and how many prompts wait; `resetToIdle`, `Stop` and the end of `readLoop` drop those that wait. `lost` remembers
how prompts were dropped that have no event of their own: by Stop, with a turn of which an event says that it failed, or in
silence. A process ends at any moment, and the pipe accepts a prompt until it does. `ShutdownLive` takes every session,
running or not, and is not the end: `Halt` is, the return of `main` or the death of agent-go, after which only the processes
go on, to the end of their input.

**LiveTurn.** The variables in `lockVars` are the fields behind `ls.mu`. The generation counter is
kept as what it decides: whether the callback of a timer that has fired is `current` or
`stale`; `killing` is a callback that has compared the generation and is about to kill, `late` one whose turn has
ended since. `writers`, `reader`, `stop`, `reap` and `respond` are goroutines
between the lock and the pipe. The process is external: it reads its input in order, may hang
at any point, ask a second question or withdraw one, and exits when it was signalled or
its input has ended.

**BotInbound.** One conversation. `row`, `nextRetry`, `attempts` are columns of `webhook_events`,
`respondida` is the mark on `inbound_message`; `buffer`, `processing` and `timers` are the burst
buffer; `stream` and `pel` the Redis stream and its entries read but not acknowledged. `job` holds, per
goroutine, what `Handle` was given: the texts, the id that stands for the burst and the rows to
close. `Restart` loses the memory and nothing else. A retry rebuilds its message from the row
(`rebuildInbound`), with a time of reception that depends on the channel (`ReceivedAtNight`).
The text of a message, the model and the bubbles are left out; the write of the mark, of the row, of the stream
and of the acknowledgement may each fail, as they do in the code, without anybody noticing.

## The runs

| run | instance | shows |
|---|---|---|
| `charges_pix` | 1 PIX charge, 2 webhook requests, every call may fail but the token lookup, 2 crashes | the row and the gateway never contradict each other; the payment is booked in the end; when its event is done its e-mails were handed to the queue or, if the queue refused them, to a goroutine; reservations end |
| `charges_mixed` | a boleto and a card, 1 webhook request, failures, 1 crash | `ChargeLifecycle` implements `Settlement` |
| `refunds` | 2 requests, 3 units, 2 faults | one refund at a time, books within refunds, reservations end |
| `payouts` | 1 key, 2 POSTs, 2 deliveries, 2 faults | rows belong to transfers and tell the truth; `Payout` implements `Withdrawal`; results are applied |
| `cron_runs` | 1 job, 2 replicas of one worker, 3 rows, 2 calls per execution, 1 fault, 1 shutdown | one live execution; no vain skip; a crash does not block a job for ever |
| `cron_tick` | 2 jobs, 2 replicas, 2 schedules of which one never matches, batches of one, failing and unheard commits, crashes | an instant is fired at most once; what a tick writes is of the current schedule; no tick takes on a paused job; a due job is fired in the end, unless its instant is lost between commit and firing |
| `hours` | 1 client, 1 session, 2 requests at a time, 2 operations, 1 fault, scheduled and retroactive starts | no charged minute counts twice, and none is lost unless two endings of one session race; the derived time is the time it ran, or less if two racing requests open it twice; `HourSession` implements `Account`; a due session ends |
| `pool` | a limit of 1, 2 conversations, 2 processes, 3 prompts, 1 crash, Stop, shutdown and the end of the server | the limit holds; no orphan; a prompt is dropped in silence only by an eviction or the end of the server; a dead session settles |
| `turns` | 2 prompts, 2 questions, 1 Stop; the process may hang, crash, withdraw | always watched, answered once, no prompt waits for nothing, every turn ends |
| `inbound` | 2 messages, 2 goroutines of bursts, stream and polling, 2 failures, restarts or nights | bursts serialised, none stranded, closed means answered, failed is retried |

`charges_window` and `inbound_quiet` end in the violation that a finding describes; see below.
Types and inductive invariants (`TypeOK`, `IInv`, `AskInv`, `RecordInv`) and `FinalIsKept` were checked with TLC before they were
proved; since they are proved for every instance, the runs do not list them again.

**Bounds, and why they are enough.** Rows of different charges, keys or jobs do not
touch each other, except in the jobs that move all of them in one statement
and in batches of a tick: hence one charge for the races on a row, two charges
for the job, two jobs with batches of one so that a tick leaves a due job behind (a batch of several, fired in part, is covered
by the proofs only). Two
concurrent handlers are the fewest that race; the proofs do not bound
them. Three units allow a whole refund, two partial ones that complete the amount and two that exceed it.
Two faults allow a failure and a crash in the recovery from it. `MaxCrashes`,
`MaxFaults`, `MaxShutdowns` bound how often; `Often`, `MaxBack` and `Window` cap counters beyond
which nothing changes. In `cron_runs`, timeouts 1, retries 2 and window 5 keep the
order of the real 300 s, 10 and 3600 s: the longest execution just fits (`WindowAssumption`).
Three rows suffice for one running, one skipped and one left by a crash; `PurgeOldRuns` frees them.
In `hours`, sessions of a client meet only in its balance: two requests on one session already
race for it, and the proof of `NothingLost` is for any number of sessions. Three instants and two ticks to the minute
leave remainders, and let a start or a pause lie before, at and after the scheduled end; `MaxElapsed`
is beyond what can be reached. In `pool`, a limit of one and two conversations make every request fight for
a place; two processes are a first one and its replacement or twin. In `turns`, two prompts are one
that runs and one that waits, two questions one pending and one refused. In `inbound`, two messages make a burst, or a burst and
what arrives behind it; two faults are a failure and a restart or a night on the way of its retry.

**Deadlock** is checked except where the system may really stop: all money refunded, all
transfers settled and the faults used up, all jobs deleted; sessions of hours ended, and every prompt or
message settled with no more of them to come.

**Fairness.** Weak fairness of the steps of a request that has begun: its calls time
out and its goroutine runs on. Strong fairness where an attempt may fail: the gateway delivers
again, and a transient failure does not repeat for ever (`ConfirmAtGateway`,
`MarkPaid`); a job competes for a lock (`LockJobForRun`) or for rows other ticks
skip (`ClaimDueJobs`), and the loop that starts the goroutines (`Fire`), which nothing blocks, is not overtaken by
an edit or the next instant of a job every time. Time passes (`ClaimAges`, `ReservationAges`, `Pass`) and the hourly job runs.
In `HourSession`, statements of a request go on, and a session is read again and again
(`Poll`: the admin's panel lists the sessions and the client's program polls its own). In `LivePool`, goroutines go
on and a process that was signalled or has lost its input exits; a turn need not end, and nobody need
reap, evict, stop or shut down.
In `LiveTurn`, goroutines go on and timers fire (the watchdog, and the timer that gives up a question); of
the process only that it exits as in the pool, never that it answers. In `BotInbound`, goroutines go on,
timers fire, a backoff and a night end.
No fairness is assumed of payers, admins, users, messages, new POSTs, failures or crashes. Each liveness property
excuses exactly what the code does not promise: a delivery answered 200 within a minute of
the claim it retries, a deleted job, an instant lost between the commit and the firing of a tick, a fault in the rollback of a refund.

## The proofs

Proved with TLAPS for every value of the constants that satisfies the ASSUMEs:

| theorem | says |
|---|---|
| `ChargeLifecycle_proofs!TypeCorrect`, `Inductive`, `PaidIsConfirmed`, `DoneIsBooked` | types; a row is paid only if the gateway holds the money; a PIX event that is done left no open row |
| `ChargeLifecycle_proofs!RowInductive`, `ReservationIsKept`, `ChargeHasRow`, `ClosedStays` | a reservation waits for its request; nothing payable without a row; paid and canceled are for good |
| `ChargeLifecycle_proofs!PixIsNotified` | if the lookup of the token does not fail, the e-mails of a PIX payment whose event is done were handed over: to the queue, as long as it takes its tasks, or else to a goroutine that may lose them |
| `ChargeLifecycle_proofs!RefinesSettlement` | the charges implement `Settlement` |
| `MoneyOut_proofs!RefundTypeCorrect`, `RefundInductive`, `OneRefund`, `BooksAreCovered`, `WholeIsClosed` | one refund at a time; `refunded_cents` is covered; refunded means whole |
| `MoneyOut_proofs!TypeCorrect`, `Inductive`, `RowsAreBacked`, `RowsAreTrue`, `FinalStays` | a row has a transfer, tells its outcome, and stays once final |
| `MoneyOut_proofs!RefinesWithdrawal` | the payouts implement `Withdrawal` |
| `CronRuns_proofs!TypeCorrect`, `Inductive`, `OneExecution`, `RunningIsBacked` | no job is executed twice at the same time; while nothing fails, a running row is that of an execution that will close it |
| `CronTick_proofs!TypeCorrect`, `Inductive`, `FiredOnce`, `TickIsCurrent`, `PausedIsLeftAlone` | at most one firing per instant; a tick writes the next run of the current schedule; it takes on no paused or deleted job |
| `HourSession_proofs!Inductive`, `MinutesAreKept` | no minute an ending charges is both taken and billed; each is one of the two unless two endings of one session race |
| `HourSession_proofs!RefinesAccount` | the sessions implement `Account` |
| `HourSession_proofs!ElapsedIsExact` | the loop of `computeElapsedSeconds` counts, of any history of events in order, the ticks the session ran; never more, and less only if it opens twice in a row |
| `HourSession_proofs!TypeCorrect`, `RecordInductive`, `ElapsedIsTrue` | types; histories are in order; the derived time is the time the session ran, with the same exception |
| `LivePool_proofs!TypeCorrect`, `Inductive`, `LimitIsHard`, `NoProcessIsForgotten`, `LossIsReported` | the limit, no orphan process, no silent loss but by eviction or the end of the server |
| `LiveTurn_proofs!TypeCorrect`, `Inductive`, `TurnsAreWatched`, `AnsweredAtMostOnce`, `QueuesAreServed` | a living turn has a timer, a question has one answer, a queue has a turn |
| `BotInbound_proofs!TypesAndBursts`, `TypeCorrect`, `OneBurst`, `NobodyIsStranded` | types and counts; one goroutine per burst; no message is left in a burst |
| `BotInbound_proofs!ClosedIsHandled` | a row is closed only when its message was handled, if a notification carries one message |

The arguments, each an invariant `IInv` that TLC has checked too:

- *Charges.* "Paid means confirmed" is not inductive: a handler about to mark a row
  must know that the gateway is paid. `GatewayInv` carries the payment through
  notification, event and every handler's `pc`, and says that the gateway knows nothing of a charge before it is called.
  "Done means booked" needs that no creating request opens the row again after the
  event was consumed: `PixInv` has that a paid PIX charge has no creating
  request, and that a handler past `MarkPaid` leaves a row that is not open.
  `RowInv` follows the row through the goroutine that creates the charge: it is reserved until that goroutine
  moves it, since the hourly job only closes reservations whose request is over (`stale`), and a charge
  created at the gateway first has none until it is inserted. `ClosedForGood` is one step from it: the
  actions that write a status start from one that is open. `NotifyInv` is the order of `handleWebhook`: a
  handler past `NotifyPaid` has handed the e-mails over before it closes the event, and what is `safe` stays so. What was handed to
  the goroutine of the fallback may be lost in a crash or with the e-mail; only while the queue takes its tasks
  (`"enqueue" \notin MayFail`) are they safe. The failure of the token lookup is swallowed by the code, hence the hypothesis.
- *Refinement of `Settlement`.* Three lemmas, by what a step touches: `RowMoves` (it changes one row, in a way
  `Settlement` allows), `GatewayMoves` (money arrives at one charge), `JobMoves` (the hourly jobs change many rows at once,
  which is a `MoveAll` of `Settlement`); every other action leaves `books` and `money` alone (`Stutters`). That a row is booked
  only when the money is there is `GatewayInv` again.
- *Refunds.* `HoldingInv`: who holds the reservation finds `refunding` in the row, and
  therefore no other request can reserve it. `RecordInv`: what is about to be recorded has
  been given back, or would complete an amount that has been given back whole.
- *Payouts.* `PostInv` and `HookInv` say that the status a goroutine is about to write is true
  of the transfer; `OwedInv` that a result is notified only when there is one. A
  transfer that is final stays final, so truth is kept.
- *Refinement of `Withdrawal`.* By what a step touches: `Transfers` is money that leaves, or nothing
  (`TransferIsLeaving`); `GatewaySettles` is its end; the INSERT and the UPDATE write a status that is true of the
  transfer by `PostInv` and `HookInv`, and only what is true may be said (`TrueSayings`). That money has left when a
  row is written is `PostInv` for the INSERT and `RowHasTransfer` for the UPDATE. Everything else stutters.
- *Executions.* `ClaimInv`: who looks for a running row holds the advisory lock, and what it
  found stays true until it commits. `LiveInv`: the row of a live execution says running and its age plus the
  timer is within the budget of the calls made so far. With `WindowAssumption` (`TxTime + Spent[n] +
  Timeout < Window`; in the code 3285 s plus the transaction against 3600 s) the row is not
  taken for an orphan, and no second claim succeeds. `BackedInv` adds, to the statement that a running row has its execution,
  that this execution is for the job of the row: the purge and the deletion of a job would take the row away otherwise.
- *Tick.* `ClaimInv`: a row claimed in an open transaction is locked, due, and as it was read; one of a batch that has
  committed is not, and whoever owes the firing of an instant has it in such a batch. `InstantInv`: an instant that is reached and
  not claimed was neither taken on nor fired for, one replica at a time owes its firing, and none once it was fired for.
  `PausedIsNotTaken` is the lock of `ClaimInv`; a pause that comes after the commit does not hold back the firing.
- *Hours.* `NothingLost` compares the balance with history, but a commit subtracts from the balance what it
  bills against the balance *it has read*. `LockInv` says that they are the same: one ending at a time is past
  the lock of the client, and nothing else writes the balance meanwhile. But the bill is written over: when two endings of one
  session have both read it as not ended, the second debits again and its bill replaces the first one, so that a minute may be
  charged and neither taken nor billed. `NothingLost` is therefore an inequality, and an equation as long as no session was
  debited twice (`debits`); it needs that a session never debited has no bill (`MoneyInv`).
  `LockInv` is also the refinement of `Account`: a commit bills against the balance it has read, an abstract charge against the
  balance there is.
- *Time of a session.* What a loop computes of every history needs induction, and the induction rules of the
  library cannot be used. Two facts stand in for them, about sets and not about operators: a set of
  naturals that is not empty has a least element (`LeastNumber`, from the well-foundedness of `<`), so that a set with 0 that
  is closed under successor has every number (`UpTo`); and the function that `Replay` defines exists (`Recursion`), since each
  of its beginnings extends to the next. The invariant of the loop (`Exact`) has that, after `i` events, the total with what has
  run since is the number of ticks in which the history was running, plus corrections, or less after two openings in a row: the
  second of two racing resumes moves `since` forward (`ExactStep`, case by case on
  `Count`; `TicksStep` counts the ticks an event adds). `HistoryInv` supplies what it assumes of
  a history, that it is in order, and is kept because an event is inserted where it belongs (`InsertPlaces`,
  `InsertKeepsHistory`); that no event lies ahead of the clock makes the count of now well defined.
- *Pool.* `WithinLimit` is inductive once a request inserts only under the lock that counts; the finite sets
  need `Convs` to be finite. `NoOrphan` needs `StartedInv`: the process about to enter the pool has the conversation of its
  request. `NoSilentLoss` needs `QueueInv`: a session that is idle has nothing waiting, so that the end of
  its process has nothing to report, and what waits for a turn is dropped with it. `Lose` names each way in which the code
  drops prompts, and `LossIsTyped` what it does to the history: before the server ends, only an unreported end of a process loses in silence.
- *Turns.* `IInv` is about what the lock protects and is inductive as it stands, whatever the process says; it
  needs no types of the pipes. `AskInv` is the argument for single answers: a question is not asked, unread in the
  output (once), pending, or in the hands of whoever answers it, and never in two of these places; what is
  taken from the output or appended to it keeps the order (`ReadShifts`, `SaysKeeps`).
- *Inbound messages.* Types need two counts (`CountInv`): attempts, and the failures that are yet to be written in a row, are
  paid for by faults; timers were started by messages recorded, each once (`RecordCounts`). `OneBurstAtATime` is what
  makes the first count work, for two bursts that fail would be one. `NothingStranded` is then inductive.
  `DoneIsHandled` is not: a duplicate closes its row because `respondida` says so, and of a burst it would close them all.
  `PlaceInv` says that a message is in the burst, or pending with the goroutine that took it, or settled and
  left to the retries, so that nobody marks what another is about to begin; `HandledInv` that what is about to be closed with
  success was handled. Both need that a retry rebuilds the message of its own row, which is what a notification
  with several messages breaks (`inbound_batch` below): hence the hypothesis `Batch \subseteq {Lead}`.

The theorems rest on the ASSUMEs of the modules, all about constants: sets are apart from the model values
that stand for none, counts are naturals, `WindowAssumption`, and `Convs` and `Msgs` are finite. Two theorems have a
hypothesis of their own, each true of a run and of a way the program is used: `"lookup" \notin MayFail` (`PixIsNotified`,
as in `charges_pix`) and `Batch \subseteq {Lead}` (`ClosedIsHandled`: Evolution sends a notification per message, as in `inbound`).

Only model-checked: the liveness properties (`PixPaymentIsBooked`, `StaleReservationIsClosed`, `ReservationEnds`,
`PayoutIsSettled`, `JobIsExecutedAgain`, `DueJobIsFired`, `DueSessionEnds`, `DeadSessionSettles`, `TurnsEnd`, `FailedIsRetried`), since
fairness is out of the prover's reach. Every safety property and action property of a run that passes is a theorem.

## What the checks found

Two runs end in a counterexample and are entries of `findings`:

| run | the code says | the counterexample |
|---|---|---|
| `charges_window` | a 5xx makes the gateway redeliver "de verdade" (`handlers_webhook.go:82`) | the redelivery comes within a minute of the claim, is answered 200, and the payment is not booked |
| `inbound_quiet` | the polling hands a held message to the engine, which used to disappear (`bot-go/worker.go:485`) | the official number rebuilds a message with the time it was received at, so that every retry is in the quiet hours again |

The configurations below are kept beside the runs, are not among them and are run by hand, e.g.
`tlc -config pool_dead.cfg LivePool`. Each checks one thing a comment of the code says, and
TLC finds it violated:

| configuration, module | property | the code says | the counterexample |
|---|---|---|---|
| `charges_notify`, `ChargeLifecycle` | `PaymentIsNotified` | better notify twice than lose it (`workers.go:15`) | a crash between the UPDATE and the enqueue: the retry of a boleto event finds the row paid and skips the e-mails |
| `refunds_stale`, `CardRefund` | `AskedWithinBalance` | the ceiling keeps a refund within the charge (`handlers_cards.go:349`) | the balance was read before the row was reserved |
| `payouts_lost`, `Payout` | `WebhookGivesFinalStatus` | the webhook will still give the final status (`handlers_payout.go:196`) | there is no row to give it to, and the event is closed |
| `cron_runs_shutdown`, `MCCronRuns` | `ShutdownLetsRunsComplete` | a run in progress must complete during the shutdown (`scheduler.go:77`) | `WaitDrain` gives up after 15 s |
| `cron_tick_never`, `CronTick` | `TickMovesOn` | recomputing in the transaction avoids a second claim (`scheduler.go:55`) | a schedule that never matches has the zero time as its next run and is due at every tick |
| `hours_twice`, `HourSession` | `DebitedOnce` | a session is debited a single time (`hour_sessions.go:37`) | two reads of one overdue session have both seen it active; the second waits for the lock of the client, debits again and writes its bill over the first |
| `pool_dead`, `LivePool` | `DeadIsRemoved` | a process that ends is removed from the pool, so that the next message revives it (`livesession.go:313`) | it ends between `start` and the insertion: the removal finds nothing, and the dead session is inserted |
| `turns_watchdog`, `LiveTurn` | `OldWatchdogSpares` | an old watchdog cannot kill the process of a later turn (`livesession.go:76`) | it has compared its generation and released the lock; the turn ends and the next begins before it kills |
| `inbound_told`, `BotInbound` | `ThirdFailureIsTold` | at the third failure somebody has to know (`bot-go/worker.go:590`) | stream and polling have both read one attempt: both fail, the row has three, and neither of them counted the third |
| `inbound_burst`, `BotInbound` | `PendingIsInMemory` | a held message is rescheduled for its time (`bot-go/engine.go:372`) | of a burst that is held only the last message gets its row changed: the others stay pending and nothing retries them |
| `inbound_batch`, `BotInbound` | `DoneIsHandled` | | a notification with several messages is kept whole in the row of each: a retry rebuilds the first of them in the place of the one that failed, finds it answered, and closes the row |

Seen on the way, and part of the models: the retries call `Handle` without the burst buffer, so that one
conversation may be answered twice at the same time in spite of `OneBurstAtATime`; a restart leaves rows
`pending` that no path retries; an end that is asked twice leaves two `end` events; resuming a job in
`cron-go` computes the next run outside the UPDATE that writes it (`handlers_runs.go:43`), so that a job whose
schedule changes in between may fire once by the old one, and the tick that fires it sets it right.

## What is not modelled

Of the modelled components: changes an admin makes to a charge by hand; the recurrence
webhooks; the cache and events of the pay page; the wording of e-mails;
rate limits, authentication and validation, which change no modelled state. Values and
names are abstracted to what the properties tell apart: no amounts in charges, no
expressions in schedules.

Charges: asynq itself, which retries a task a number of times and then gives it up.
Hour sessions: what a client asks of the admin, pairing and tokens, lists and reports.
Pool and turns: what a turn says and costs, subscribers, which session is the least recently used.
Inbound messages: media and audio, conversations of administrators, hand-over to a person, the
content of answers; a conversation whose first messages create it; a retry that cannot rebuild its row and discards it as
done (`bot-go/worker.go:571`), which does not happen to a row that was read once; a panic in a burst run by `bgPool`,
which would leave `processing` set; the transcript of a voice message, which a retry does not have.

Other components are out because they have not been reached yet (see the
plan), or because they hold no protocol. The repository is large and most of it is the latter:
handlers that read and write single rows for the panels (`portal_store.go`, `handlers_dash.go`, `repos.go`, the
catalogue and reports of payments), user interfaces in TypeScript and Rust, proxies and
crawlers of external services, external processes, deployment files, generated code. A model of them
would repeat their SQL. The map therefore covers a small share of the lines, those where actors meet.
`components` gives the reason for each part.

## Plan

What is left, in this order. Each comes with a run, mutants and, where the invariant is
inductive within reach, a proof module.

1. `RefreshRotation` (api-go): two concurrent refreshes, the grace period, reuse, expiry. The second of two
   refreshes may look for the cached answer before it is there (`refresh_grace.go:83`).
2. `CouponUse` (payments-go): a use is reserved, the charge created and the use given back; a failure in
   between keeps it (`handlers_links.go:358`).
3. `RecurrenceCycle` (payments-go): one charge a month in spite of failures (`recurring.go:168`).
4. `ChargeEvents` (payments-go): a cache filled with a status read before it changed (`cache.go:55`).
5. `SocialPublish` (api-go): a post is claimed and the process dies before it is published
   (`social_agendador.go:87`).
6. `BotOutbox` (bot-go): follow-ups, reminders and the outbox, and the pool of background
   tasks with its shutdown.
7. `CronService`: `CronTick` and `CronRuns` composed, so that a due instant becomes an
   execution or a skipped row; a job deleted while it is executed (`handlers_jobs.go:182`).
8. `LiveService`: `LivePool` with `LiveTurn` in the place of its reduced turn.

Proofs planned, each with its module: one successor per refresh token; a coupon's uses are covered by charges or requests under
way; one charge per recurrence and month; a post is claimed by one replica; `CronService` keeps `OneLiveExecution` and
`FiredOncePerInstant` of its parts.
