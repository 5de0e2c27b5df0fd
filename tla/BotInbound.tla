----------------------------- MODULE BotInbound -----------------------------
(***************************************************************************)
(* bot-go: how the messages of one conversation reach the model and are    *)
(* answered.  A notification is recorded in webhook_events and its message *)
(* joins the burst of the conversation; when the debounce timer fires one  *)
(* goroutine takes the burst, has ConversationEngine.Handle answer it as   *)
(* one message and goes on with what arrived meanwhile.  A burst that      *)
(* fails leaves its rows 'failed': the Redis stream retries them at once   *)
(* and the polling of the table retries them when next_retry_at is past.   *)
(* A message received in the quiet hours is held for the polling.  The     *)
(* memory of the process (burst, timers, goroutines) dies with it; the     *)
(* tables and the stream do not.                                           *)
(*                                                                         *)
(* Messages are texts.  The conversation, its contact and its lead exist,  *)
(* and no person has taken it over: bot_enabled is on, or forced, as it is *)
(* for Evolution.                                                          *)
(*                                                                         *)
(* Definitions whose comment begins with "Mutant" are wrong on purpose, to *)
(* see that a property notices.                                            *)
(***************************************************************************)
EXTENDS Integers, SequencesExt

CONSTANTS
    Msgs,        \* messages of the conversation
    NoMsg,       \* no message
    Loops,       \* goroutines that may run flushBurst
    Channel,     \* "whatsapp" (Meta) or "evolution"
    Batch,       \* messages that came in one notification
    Lead,        \* the first message of that notification
    MayFail,     \* steps that may fail, and "restart" and "night" if they may come
    MaxFaults    \* bound on the failures, restarts and nights of a behaviour

Workers == {"stream", "poll"}
Executors == Loops \cup Workers
Steps == {"begin", "model", "mark", "done", "failed", "xadd", "load", "ack", "restart",
          "night"}

ASSUME InboundAssumption ==
    /\ Channel \in {"whatsapp", "evolution"}
    /\ IsFiniteSet(Msgs) /\ NoMsg \notin Msgs /\ Loops \cap Workers = {}
    /\ Batch \subseteq Msgs /\ Lead \in Msgs
    /\ MayFail \subseteq Steps
    /\ MaxFaults \in Nat

VARIABLES
    row,         \* webhook_events.processing_status ("none": no row yet)
    nextRetry,   \* webhook_events.next_retry_at: "backoff", "dawn" (both ahead) or "past"
    attempts,    \* webhook_events.attempts
    respondida,  \* messages whose inbound_message.respondida_em is set
    buffer,      \* burstBuffer.items of the conversation
    processing,  \* burstBuffer.processing of the conversation
    timers,      \* calls of flushBurst that a timer, or a message, has yet to make
    stream,      \* entries of the stream nobody has read
    pel,         \* entries read and not acknowledged
    job,         \* what each goroutine is handling
    todo,        \* rows the polling has read and not taken up yet
    night,       \* now is in the quiet hours
    nightAt,     \* a message was received in the quiet hours
    handled,     \* history: messages a call of Handle brought to its end
    told,        \* history: messages the administrators were told about
    faults

table == <<row, nextRetry, attempts>>
burst == <<buffer, processing, timers>>
queue == <<stream, pel>>
time == <<night, nightAt>>
history == <<handled, told>>
vars == <<table, respondida, burst, queue, job, todo, time, history, faults>>

Idle == [pc |-> "idle", texts |-> {}, wamid |-> NoMsg, rows |-> {}, read |-> 0, out |-> "ok"]

Job(texts, wamid, rows, read) ==
    [pc |-> "begin", texts |-> texts, wamid |-> wamid, rows |-> rows, read |-> read, out |-> "ok"]

\* combineInbound: the texts of the burst, under the id of its last message.
combineInbound(items) == Job(ToSet(items), Last(items), ToSet(items), 0)

\* rebuildInbound: the first message of the notification the row keeps.
rebuildInbound(m, read) ==
    LET first == IF m \in Batch THEN Lead ELSE m
    IN  Job({first}, first, {m}, read)

Init ==
    /\ row = [m \in Msgs |-> "none"]
    /\ nextRetry = [m \in Msgs |-> "past"]
    /\ attempts = [m \in Msgs |-> 0]
    /\ respondida = {}
    /\ buffer = <<>>
    /\ processing = FALSE /\ timers = 0
    /\ stream = {} /\ pel = {}
    /\ job = [w \in Executors |-> Idle]
    /\ todo = {}
    /\ night = FALSE
    /\ nightAt = [m \in Msgs |-> FALSE]
    /\ handled = {} /\ told = {}
    /\ faults = 0

At(w, pc) == job[w].pc = pc
Goto(w, pc) == job' = [job EXCEPT ![w].pc = pc]
End(w, out) == job' = [job EXCEPT ![w].pc = "close", ![w].out = out]

Fails(step) ==
    /\ step \in MayFail
    /\ faults < MaxFaults
    /\ faults' = faults + 1

\* The writes of a set of rows: those in lost fail, if any may.
Writes(step, rows, lost) ==
    /\ lost \subseteq rows
    /\ IF lost = {} THEN UNCHANGED faults ELSE Fails(step)

-----------------------------------------------------------------------------
(* The webhook: processInbound, captureEvolutionLead.                      *)

\* The row is inserted (a row that exists is a redelivery, which is ignored)
\* and the message joins the burst.  The debounce timer of the conversation
\* starts again in place of the one that ran, unless that one has fired or the
\* tenant has no window, in which case flushBurst is called at once.
Record(m) ==
    /\ row[m] = "none"
    /\ row' = [row EXCEPT ![m] = "pending"]
    /\ buffer' = Append(buffer, m)
    /\ timers' \in {timers + 1} \cup ({timers} \ {0})
    /\ nightAt' = [nightAt EXCEPT ![m] = night]
    /\ UNCHANGED <<nextRetry, attempts, respondida, processing, queue, job, todo, night, history,
                   faults>>

-----------------------------------------------------------------------------
(* flushBurst: the burst is taken, and what arrives meanwhile after it.    *)

\* Mutant: whoever finds a burst takes it.
beginAtOnce ==
    /\ timers > 0 /\ buffer # <<>>
    /\ timers' = timers - 1
    /\ processing' = TRUE
    /\ buffer' = <<>>
    /\ \E l \in Loops :
        At(l, "idle") /\ job' = [job EXCEPT ![l] = combineInbound(buffer)]
    /\ UNCHANGED <<table, respondida, queue, todo, time, history, faults>>

beginOrQueue ==
    /\ timers > 0
    /\ timers' = timers - 1
    /\ IF processing \/ buffer = <<>>
       THEN UNCHANGED <<buffer, processing, job>>
       ELSE /\ \E l \in Loops : At(l, "idle")
            /\ processing' = TRUE
            /\ buffer' = <<>>
            /\ job' = [job EXCEPT ![CHOOSE l \in Loops : At(l, "idle")] = combineInbound(buffer)]
    /\ UNCHANGED <<table, respondida, queue, todo, time, history, faults>>

\* Mutant: the conversation is released without another look at the burst.
nextReleases(l) ==
    /\ At(l, "next")
    /\ processing' = FALSE /\ job' = [job EXCEPT ![l] = Idle]
    /\ UNCHANGED <<table, respondida, buffer, timers, queue, todo, time, history, faults>>

next(l) ==
    /\ At(l, "next")
    /\ IF buffer = <<>>
       THEN processing' = FALSE /\ job' = [job EXCEPT ![l] = Idle]
       ELSE processing' = processing /\ job' = [job EXCEPT ![l] = combineInbound(buffer)]
    /\ buffer' = <<>>
    /\ UNCHANGED <<table, respondida, timers, queue, todo, time, history, faults>>

-----------------------------------------------------------------------------
(* ConversationEngine.Handle.                                              *)

\* The time the quiet hours are looked up for: a message of Meta keeps its own
\* timestamp when it is rebuilt, one of Evolution gets the time of the retry.
ReceivedAtNight(w) ==
    IF w \in Loops \/ Channel = "whatsapp" THEN nightAt[job[w].wamid] ELSE night

\* Mutant: a message recorded by an attempt that failed counts as answered.
SeenOnRecord(m) == m \in respondida \/ attempts[m] > 0

Seen(m) == m \in respondida

\* RecordInbound: the message was answered already.
Duplicate(w) ==
    /\ At(w, "begin")
    /\ Seen(job[w].wamid)
    /\ End(w, "ok")
    /\ UNCHANGED <<table, history>>

\* SetNextRetryAt, on the row of the message that stands for the burst.
Hold(w) ==
    /\ At(w, "begin")
    /\ ~Seen(job[w].wamid)
    /\ ReceivedAtNight(w)
    /\ End(w, "held")
    /\ row' = [row EXCEPT ![job[w].wamid] = "failed"]
    /\ nextRetry' = [nextRetry EXCEPT ![job[w].wamid] = IF night THEN "dawn" ELSE "past"]
    /\ UNCHANGED <<attempts, history>>

TakeUp(w) ==
    /\ At(w, "begin")
    /\ ~Seen(job[w].wamid)
    /\ ~ReceivedAtNight(w)
    /\ Goto(w, "model")
    /\ UNCHANGED <<table, history>>

Begin(w) ==
    /\ Duplicate(w) \/ Hold(w) \/ TakeUp(w)
    /\ UNCHANGED <<respondida, burst, queue, todo, time, faults>>

\* The model answers, its bubbles are sent and the last transaction keeps
\* them; or it has nothing to say and the message is left unmarked.
Respond(w) ==
    /\ At(w, "model")
    /\ Goto(w, "mark") \/ End(w, "ok")
    /\ handled' = handled \cup job[w].texts
    /\ UNCHANGED <<table, respondida, burst, queue, todo, time, told, faults>>

\* MarcaRespondida, whose failure nobody sees.
MarcaRespondida(w) ==
    /\ At(w, "mark")
    /\ End(w, "ok")
    /\ \/ respondida' = respondida \cup {job[w].wamid} /\ UNCHANGED faults
       \/ respondida' = respondida /\ Fails("mark")
    /\ UNCHANGED <<table, burst, queue, todo, time, history>>

HandleFails(w) ==
    /\ job[w].pc \in {"begin", "model"}
    /\ Fails(job[w].pc)
    /\ End(w, "error")
    /\ UNCHANGED <<table, respondida, burst, queue, todo, time, history>>

Handle(w) ==
    Begin(w) \/ Respond(w) \/ MarcaRespondida(w) \/ HandleFails(w)

-----------------------------------------------------------------------------
(* What flushBurst and processRetry do with the result.                    *)

MarkDone(w) ==
    /\ At(w, "close") /\ job[w].out = "ok"
    /\ \E lost \in SUBSET job[w].rows :
        /\ Writes("done", job[w].rows, lost)
        /\ row' = [m \in Msgs |-> IF m \in job[w].rows \ lost THEN "done" ELSE row[m]]
    /\ UNCHANGED <<nextRetry, attempts, stream, told>>

\* The engine has set the row: it is left alone.
KeepHeld(w) ==
    /\ At(w, "close") /\ job[w].out = "held"
    /\ UNCHANGED <<table, stream, told, faults>>

\* Only a burst is published in the stream; the administrators are told when
\* the retry that fails had read two attempts.
MarkFailed(w) ==
    /\ At(w, "close") /\ job[w].out = "error"
    /\ \E lost \in SUBSET job[w].rows :
        LET marked == job[w].rows \ lost
        IN  /\ Writes("failed", job[w].rows, lost)
            /\ row' = [m \in Msgs |-> IF m \in marked THEN "failed" ELSE row[m]]
            /\ nextRetry' = [m \in Msgs |-> IF m \in marked THEN "backoff" ELSE nextRetry[m]]
            /\ attempts' = [m \in Msgs |-> IF m \in marked THEN attempts[m] + 1 ELSE attempts[m]]
            /\ \/ stream' = IF w \in Loops THEN stream \cup marked ELSE stream
               \/ w \in Loops /\ "xadd" \in MayFail /\ stream' = stream
    /\ told' = IF w \in Workers /\ job[w].read + 1 = 3 THEN told \cup job[w].rows ELSE told

Close(w) ==
    /\ MarkDone(w) \/ KeepHeld(w) \/ MarkFailed(w)
    /\ Goto(w, "next")
    /\ UNCHANGED <<respondida, burst, pel, todo, time, handled>>

-----------------------------------------------------------------------------
(* The retries: the consumer of the stream and the polling of the table.   *)

\* handleStreamRetry: an entry whose row is not 'failed' has nothing to do, one
\* whose row cannot be read is not acknowledged.
Consume(m) ==
    /\ At("stream", "idle") /\ m \in stream
    /\ stream' = stream \ {m}
    /\ pel' = pel \cup {m}
    /\ \/ /\ row[m] = "failed"
          /\ job' = [job EXCEPT !["stream"] = rebuildInbound(m, attempts[m])]
          /\ UNCHANGED faults
       \/ /\ row[m] # "failed"
          /\ job' = [job EXCEPT !["stream"] = [Idle EXCEPT !.pc = "next", !.rows = {m}]]
          /\ UNCHANGED faults
       \/ Fails("load") /\ UNCHANGED job
    /\ UNCHANGED <<table, respondida, burst, todo, time, history>>

Ack ==
    /\ At("stream", "next")
    /\ job' = [job EXCEPT !["stream"] = Idle]
    /\ \/ pel' = pel \ job["stream"].rows /\ UNCHANGED faults
       \/ pel' = pel /\ Fails("ack")
    /\ UNCHANGED <<table, respondida, burst, stream, todo, time, history>>

\* Mutant: a ceiling on the attempts.
PendingOnce(m) == row[m] = "failed" /\ nextRetry[m] = "past" /\ attempts[m] = 0

Pending(m) == row[m] = "failed" /\ nextRetry[m] = "past"

PendingRetries ==
    LET due == {m \in Msgs : Pending(m)}
    IN  /\ At("poll", "idle") /\ due # {}
        /\ todo' = {<<m, attempts[m]>> : m \in due}
        /\ Goto("poll", "next")
        /\ UNCHANGED <<table, respondida, burst, queue, time, history, faults>>

NextRetry ==
    /\ At("poll", "next")
    /\ \/ todo = {} /\ job' = [job EXCEPT !["poll"] = Idle] /\ UNCHANGED todo
       \/ \E e \in todo :
            /\ todo' = todo \ {e}
            /\ job' = [job EXCEPT !["poll"] = rebuildInbound(e[1], e[2])]
    /\ UNCHANGED <<table, respondida, burst, queue, time, history, faults>>

-----------------------------------------------------------------------------
(* The process and the clock.                                              *)

\* The process dies and starts again: the consumer reads first the entries it
\* had not acknowledged.
Restart ==
    /\ Fails("restart")
    /\ buffer' = <<>> /\ processing' = FALSE /\ timers' = 0
    /\ job' = [w \in Executors |-> Idle]
    /\ todo' = {}
    /\ stream' = stream \cup pel /\ pel' = {}
    /\ UNCHANGED <<table, respondida, time, history>>

BackoffEnds(m) ==
    /\ nextRetry[m] = "backoff"
    /\ nextRetry' = [nextRetry EXCEPT ![m] = "past"]
    /\ UNCHANGED <<row, attempts, respondida, burst, queue, job, todo, time, history, faults>>

Dusk ==
    /\ ~night
    /\ Fails("night")
    /\ night' = TRUE
    /\ UNCHANGED <<table, respondida, burst, queue, job, todo, nightAt, history>>

Dawn ==
    /\ night
    /\ night' = FALSE
    /\ nextRetry' = [m \in Msgs |-> IF nextRetry[m] = "dawn" THEN "past" ELSE nextRetry[m]]
    /\ UNCHANGED <<row, attempts, respondida, burst, queue, job, todo, nightAt, history, faults>>

Engine(w) == Handle(w) \/ Close(w)
Flush(l) == Engine(l) \/ next(l)
Consumer == Engine("stream") \/ (\E m \in Msgs : Consume(m)) \/ Ack
Poller == Engine("poll") \/ PendingRetries \/ NextRetry

Next ==
    \/ \E m \in Msgs : Record(m) \/ BackoffEnds(m)
    \/ beginOrQueue
    \/ \E l \in Loops : Flush(l)
    \/ Consumer \/ Poller
    \/ Restart \/ Dusk \/ Dawn

Spec == Init /\ [][Next]_vars

\* Every goroutine goes on, timers fire and time passes.
Fairness ==
    /\ \A m \in Msgs : WF_vars(BackoffEnds(m))
    /\ WF_vars(beginOrQueue)
    /\ \A l \in Loops : WF_vars(Flush(l))
    /\ WF_vars(Consumer) /\ WF_vars(Poller) /\ WF_vars(Dawn)

FairSpec == Spec /\ Fairness

-----------------------------------------------------------------------------
(* What must hold.                                                         *)

Outcomes == {"ok", "held", "error"}
Jobs == [pc : {"idle", "begin", "model", "mark", "close", "next"},
         texts : SUBSET Msgs, wamid : Msgs \cup {NoMsg}, rows : SUBSET Msgs,
         read : 0..MaxFaults, out : Outcomes]

\* Types; the two executors that are not goroutines of a burst never hold more
\* than one row, and a message is in the burst once (burstBuffer, processRetry).
TypeOK ==
    /\ row \in [Msgs -> {"none", "pending", "failed", "done"}]
    /\ nextRetry \in [Msgs -> {"backoff", "dawn", "past"}]
    /\ attempts \in [Msgs -> 0..MaxFaults]
    /\ UNION {respondida, stream, pel, handled, told} \subseteq Msgs
    /\ buffer \in Seq(Msgs) /\ IsInjective(buffer)
    /\ {processing, night} \subseteq BOOLEAN
    /\ timers \in 0..(Cardinality(Msgs))
    /\ job \in [Executors -> Jobs]
    /\ \A w \in Workers : \A m1, m2 \in job[w].rows : m1 = m2
    /\ todo \subseteq Msgs \X (0..MaxFaults)

\* "Só um Handle roda por conversa de cada vez", as far as the bursts go: the
\* conversation is marked as being processed exactly while one goroutine runs
\* flushBurst for it, and no two do (burstBuffer.beginOrQueue, next).
OneBurstAtATime ==
    /\ processing <=> \E l \in Loops : ~At(l, "idle")
    /\ \A k, l \in Loops : At(k, "idle") \/ At(l, "idle") \/ k = l

\* No message is left in the burst: whatever goroutine took or missed it, one
\* that will look at the burst again runs, or a timer will start one
\* (beginOrQueue returns nil while another goroutine processes the conversation).
NothingStranded ==
    buffer # <<>> => processing \/ timers > 0

\* A row is closed only when its text reached the end of a call of Handle: a
\* failed, held or duplicated message is never taken for an answered one, which
\* is what lost the message of the incident RecordInbound tells of.
DoneIsHandled == \A m \in Msgs : row[m] = "done" => m \in handled

\* A row left 'failed' is brought to its end in spite of restarts, of entries of
\* the stream that are lost or read twice and of writes that fail: the polling
\* of the table is the safety net (retryLoop).  Such a row can only become
\* 'done', so that each is if none is left again and again.
FailedIsRetried == []<>(\A m \in Msgs : row[m] # "failed")

\* The comment of retryLoop: the message retained outside the hours is handed
\* to the engine when its time comes, and no longer disappears for ever.
HeldIsAnswered == \A m \in Msgs : (row[m] = "failed" /\ nightAt[m]) ~> (m \in handled)

\* While the process lives, a row that is still 'pending' is in its memory: the
\* engine has left the rows of a held burst to the polling (flushBurst).
PendingIsInMemory ==
    \A m \in Msgs : row[m] = "pending" =>
        \/ m \in ToSet(buffer)
        \/ \E l \in Loops : m \in job[l].rows

\* On the third failure somebody has to know (processRetry).
ThirdFailureIsTold == \A m \in Msgs : attempts[m] >= 3 => m \in told

-----------------------------------------------------------------------------
(* The inductive invariants behind what must hold.                         *)

Handling == {"begin", "model", "mark"}

\* The failures that are still to be written in the rows.
FailedAt(w) == At(w, "close") /\ job[w].out = "error"
Failing(W) == IF \E w \in W : FailedAt(w) THEN 1 ELSE 0
Failures == Failing(Loops) + Failing({"stream"}) + Failing({"poll"})

Recorded == {m \in Msgs : row[m] # "none"}

\* What the counters count: an attempt of a row was a failure of its own, and a
\* timer was started by a message that was recorded, once.
CountInv ==
    /\ faults \in 0..MaxFaults
    /\ \A m \in Msgs : attempts[m] + Failures <= faults
    /\ timers <= Cardinality(Recorded)
    /\ ToSet(buffer) \subseteq Recorded
    /\ \A w \in Executors : job[w].pc \in Handling => job[w].wamid \in Msgs

TypeInv == TypeOK /\ CountInv /\ OneBurstAtATime

Settled(m) == row[m] \in {"failed", "done"}

\* A message is in one place: in the burst, in the hands of the goroutine that
\* took it, or settled and left to the retries; until it is settled nobody else
\* answers it. (One message in each notification.)
PlaceInv ==
    /\ \A m \in ToSet(buffer) : row[m] = "pending" /\ m \notin respondida
    /\ \A l \in Loops :
         /\ job[l].pc \in Handling => \A m \in job[l].rows : row[m] = "pending"
         /\ At(l, "begin") => job[l].rows \cap respondida = {}
         /\ job[l].pc \in Handling \cup {"close"} =>
              job[l].rows \cap ToSet(buffer) = {} /\ job[l].rows \subseteq Recorded
    /\ respondida \subseteq Recorded
    /\ \A m \in stream \cup pel : Settled(m)
    /\ \A e \in todo : Settled(e[1])
    /\ \A w \in Workers : \A m \in job[w].rows : Settled(m)

\* What a goroutine is about to close with success was handled.
HandledInv ==
    /\ respondida \subseteq handled
    /\ \A w \in Executors :
         /\ job[w].pc \in Handling => job[w].texts = job[w].rows /\ job[w].wamid \in job[w].rows
         /\ At(w, "mark") => job[w].rows \subseteq handled
         /\ At(w, "close") /\ job[w].out = "ok" => job[w].rows \subseteq handled

IInv == TypeInv /\ PlaceInv /\ HandledInv /\ DoneIsHandled

=============================================================================
