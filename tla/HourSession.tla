------------------------------ MODULE HourSession ------------------------------
(***************************************************************************)
(* Hour sessions of api-go (hour_sessions.go): a client holds prepaid      *)
(* minutes, a session counts the time it runs, and its end debits that     *)
(* time from the balance. The time is never stored: computeElapsedSeconds  *)
(* derives it from the events of the session. No worker starts or ends     *)
(* the sessions with a schedule: whoever reads one does, when it is due.   *)
(*                                                                         *)
(* All sessions here belong to one client. A request is the sequence of    *)
(* the statements of its handler, each of which sees what was committed    *)
(* before it (READ COMMITTED); only the row of the client is ever locked.  *)
(* Time advances in ticks, TicksPerMinute to the minute the balance is     *)
(* kept in; events of one tick keep the order they were inserted in.       *)
(*                                                                         *)
(* Definitions whose comment begins with "Mutant" are wrong on purpose, to *)
(* see that a property notices.                                            *)
(***************************************************************************)
EXTENDS Integers, FiniteSets, SequencesExt

CONSTANTS
    Sessions,        \* the sessions of the client
    Requests,        \* the requests served at the same time
    TicksPerMinute,  \* how fine time is
    MaxNow,          \* how far time goes
    Starts,          \* the starts asked for, beside at once
    Ends,            \* the scheduled ends, beside none at all
    Credits,         \* what a purchase adds, or a correction takes, in minutes
    Adjusts,         \* what an adjustment of a session adds, in ticks
    MaxElapsed,      \* more than any session can run or be adjusted to
    MaxOps,          \* how many things people ask for
    MaxFaults        \* how many requests may die before they commit

ASSUME ConstantsAssumption ==
    /\ TicksPerMinute \in Nat \ {0} /\ MaxNow \in Nat
    /\ Starts \subseteq 0 .. MaxNow /\ Ends \subseteq Nat
    /\ Credits \subseteq Int \ {0} /\ Adjusts \subseteq Int \ {0}
    /\ MaxElapsed \in Nat /\ MaxOps \in Nat /\ MaxFaults \in Nat

Times == 0 .. MaxNow
Never == MaxNow + 1   \* the scheduled end of a session that has none

VARIABLES
    now,      \* the clock
    session,  \* the rows of hour_sessions: status and schedule
    events,   \* hour_session_events, by session, ORDER BY created_at
    balance,  \* hour_clients.balance_minutes
    req,      \* the requests: where they are and what they have read
    credits,  \* history: the sum of hour_purchases.minutes_added
    charged,  \* history: the minutes all endings have charged
    bill,     \* hour_sessions.billable_minutes
    billed,   \* SUM(billable_minutes) of the client, see listHourBilling
    debits,   \* history: how many endings have debited each session
    ops,      \* how many things were asked for
    faults    \* how many requests died

money == <<balance, credits, charged, bill, billed, debits>>
vars == <<now, session, events, money, req, ops, faults>>

Statuses == {"none", "scheduled", "active", "paused", "ended"}
Opens == {"start", "resume"}
Closes == {"pause", "end"}
Event(type, at, delta) == [type |-> type, at |-> at, delta |-> delta]
Idle == [pc |-> "idle"]
InSession(pcs) == [pc : pcs, s : Sessions, at : Times]
Reqs ==
    {Idle} \cup [pc : {"due"}, s : Sessions] \cup InSession({"starting", "ending", "endable"})
    \cup [pc : {"asked", "allowed"}, op : {"pause", "resume"}, s : Sessions, at : Times]
    \cup [pc : {"timed"}, s : Sessions, at : Times, elapsed : 0 .. MaxElapsed]
    \cup [pc : {"locked"}, s : Sessions, at : Times, elapsed : 0 .. MaxElapsed, balance : Int]

TypeOK ==
    /\ now \in Times
    /\ session \in [Sessions -> [status : Statuses, start : Times, end : Ends \cup {Never}]]
    /\ \A s \in Sessions : \A e \in ToSet(events[s]) :
           e.type \in Opens \cup Closes \cup {"adjust"} /\ e.at \in 0 .. now /\ e.delta \in Int
    /\ req \in [Requests -> Reqs]
    /\ balance \in Int /\ credits \in Int /\ charged \in Nat /\ billed \in Int
    /\ bill \in [Sessions -> Nat] /\ debits \in [Sessions -> Nat]
    /\ ops \in 0 .. MaxOps /\ faults \in 0 .. MaxFaults

Init ==
    /\ now = 0
    /\ session = [s \in Sessions |-> [status |-> "none", start |-> 0, end |-> Never]]
    /\ events = [s \in Sessions |-> <<>>]
    /\ balance = 0 /\ credits = 0 /\ charged = 0 /\ billed = 0
    /\ bill = [s \in Sessions |-> 0] /\ debits = [s \in Sessions |-> 0]
    /\ req = [r \in Requests |-> Idle]
    /\ ops = 0 /\ faults = 0

-----------------------------------------------------------------------------
(* The time a session has run *)

Floor(n) == IF n < 0 THEN 0 ELSE n

\* An event takes its place in ORDER BY created_at, after those of its tick.
Insert(ev, e) == InsertAt(ev, 1 + Cardinality({i \in DOMAIN ev : ev[i].at <= e.at}), e)

\* Mutant: an end that finds the session paused counts from the last start.
CountPaused(acc, e) ==
    CASE e.type \in Opens -> [acc EXCEPT !.running = TRUE, !.since = e.at]
      [] e.type \in Closes -> [acc EXCEPT !.total = @ + e.at - acc.since, !.running = FALSE]
      [] e.type = "adjust" -> [acc EXCEPT !.total = @ + e.delta]

\* The body of the loop of computeElapsedSeconds.
Count(acc, e) ==
    CASE e.type \in Opens -> [acc EXCEPT !.running = TRUE, !.since = e.at]
      [] e.type \in Closes /\ acc.running ->
             [acc EXCEPT !.total = @ + e.at - acc.since, !.running = FALSE]
      [] e.type \in Closes /\ ~acc.running -> acc
      [] e.type = "adjust" -> [acc EXCEPT !.total = @ + e.delta]

\* What the loop knows after i events.
Replay(ev) ==
    LET acc[i \in 0 .. Len(ev)] ==
            IF i = 0 THEN [total |-> 0, running |-> FALSE, since |-> 0]
            ELSE Count(acc[i - 1], ev[i])
    IN  acc

computeElapsed(ev, at) ==
    LET last == Replay(ev)[Len(ev)]
    IN  Floor(last.total + IF last.running THEN at - last.since ELSE 0)

elapsedMinutes(elapsed) == elapsed \div TicksPerMinute
computeBillableMinutes(minutes, before) == Floor(minutes - before)

\* The last start or resume, or the clock when there is none.
CurrentSegmentStart(s) ==
    LET opens == {e.at : e \in {x \in ToSet(events[s]) : x.type \in Opens}}
    IN  IF opens = {} THEN now ELSE CHOOSE t \in opens : \A u \in opens : u <= t

-----------------------------------------------------------------------------
(* What people ask for *)

\* Mutant: SELECT balance_minutes without FOR UPDATE.
NeverLocked == TRUE

\* The row of the client is locked from LockClient to the commit, and rows
\* that refer to it wait.
Unlocked == \A r \in Requests : req[r].pc # "locked"

Ask == ops < MaxOps /\ ops' = ops + 1

\* A start in the future makes a scheduled session; one that is not, an
\* active session whose start may lie in the past.
startHourSession(s, start, end) ==
    /\ session[s].status = "none" /\ Unlocked
    /\ end > now /\ end > start
    /\ session' = [session EXCEPT ![s] =
           [status |-> IF start > now THEN "scheduled" ELSE "active", start |-> start, end |-> end]]
    /\ events' = [events EXCEPT ![s] = IF start > now THEN @ ELSE <<Event("start", start, 0)>>]
    /\ UNCHANGED <<now, money, req, ops, faults>>

addHourPurchase(minutes) ==
    /\ Ask /\ Unlocked
    /\ balance' = balance + minutes /\ credits' = credits + minutes
    /\ UNCHANGED <<now, session, events, req, charged, bill, billed, debits, faults>>

\* A correction of the time is an event too, in whatever state the session is.
adjustHourSession(s, delta) ==
    /\ Ask /\ session[s].status # "none"
    /\ events' = [events EXCEPT ![s] = Insert(@, Event("adjust", now, delta))]
    /\ UNCHANGED <<now, session, money, req, faults>>

\* Pause and end may say when; the hour is checked before the transaction.
\* A resume is always now.
AskTransition(r, s, op, at) ==
    /\ req[r] = Idle /\ Ask /\ session[s].status # "none"
    /\ \/ at = now
       \/ op = "pause" /\ CurrentSegmentStart(s) <= at /\ at <= now
    /\ req' = [req EXCEPT ![r] = [pc |-> "asked", op |-> op, s |-> s, at |-> at]]
    /\ UNCHANGED <<now, session, events, money, faults>>

AskEnd(r, s, at) ==
    /\ req[r] = Idle /\ Ask /\ session[s].status # "none"
    /\ CurrentSegmentStart(s) <= at /\ at <= now
    /\ req' = [req EXCEPT ![r] = [pc |-> "ending", s |-> s, at |-> at]]
    /\ UNCHANGED <<now, session, events, money, faults>>

-----------------------------------------------------------------------------
(* transitionHourSession: pause and resume *)

From(op) == IF op = "pause" THEN "active" ELSE "paused"
To(op) == IF op = "pause" THEN "paused" ELSE "active"

\* SELECT status, without a lock; another state than the one to leave is 409.
ReadTransition(r) ==
    /\ req[r].pc = "asked"
    /\ req' = [req EXCEPT ![r] =
           IF session[@.s].status = From(@.op) THEN [@ EXCEPT !.pc = "allowed"] ELSE Idle]
    /\ UNCHANGED <<now, session, events, money, ops, faults>>

CommitTransition(r) ==
    /\ req[r].pc = "allowed"
    /\ session' = [session EXCEPT ![req[r].s].status = To(req[r].op)]
    /\ events' = [events EXCEPT ![req[r].s] = Insert(@, Event(req[r].op, req[r].at, 0))]
    /\ req' = [req EXCEPT ![r] = Idle]
    /\ UNCHANGED <<now, money, ops, faults>>

-----------------------------------------------------------------------------
(* endHourSession *)

\* SELECT status, without a lock; only an ended session is refused.
ReadEnd(r) ==
    /\ req[r].pc = "ending"
    /\ req' = [req EXCEPT ![r] =
           IF session[@.s].status = "ended" THEN Idle ELSE [@ EXCEPT !.pc = "endable"]]
    /\ UNCHANGED <<now, session, events, money, ops, faults>>

\* The events are read outside the transaction, up to the hour of the end.
ReadElapsed(r) ==
    /\ req[r].pc = "endable"
    /\ \E elapsed \in 0 .. MaxElapsed :
           /\ elapsed = computeElapsed(events[req[r].s], req[r].at)
           /\ req' = [req EXCEPT ![r] =
                  [pc |-> "timed", s |-> @.s, at |-> @.at, elapsed |-> elapsed]]
    /\ UNCHANGED <<now, session, events, money, ops, faults>>

\* SELECT balance_minutes ... FOR UPDATE.
LockClient(r) ==
    /\ req[r].pc = "timed" /\ Unlocked
    /\ req' = [req EXCEPT ![r] =
           [pc |-> "locked", s |-> @.s, at |-> @.at, elapsed |-> @.elapsed, balance |-> balance]]
    /\ UNCHANGED <<now, session, events, money, ops, faults>>

\* The row keeps the bill of its last ending: that of an ending before it, which
\* a race of two on one session allows, is overwritten.
CommitEnd(r) ==
    /\ req[r].pc = "locked"
    /\ LET s == req[r].s
           minutes == elapsedMinutes(req[r].elapsed)
           billable == computeBillableMinutes(minutes, req[r].balance)
       IN  /\ session' = [session EXCEPT ![s].status = "ended"]
           /\ events' = [events EXCEPT ![s] = Insert(@, Event("end", req[r].at, 0))]
           /\ balance' = Floor(balance - minutes)
           /\ charged' = charged + minutes
           /\ bill' = [bill EXCEPT ![s] = billable]
           /\ billed' = billed - bill[s] + billable
           /\ debits' = [debits EXCEPT ![s] = @ + 1]
    /\ req' = [req EXCEPT ![r] = Idle]
    /\ UNCHANGED <<now, credits, ops, faults>>

-----------------------------------------------------------------------------
(* The reads: autoStartIfDue, then autoEndIfDue *)

AutoEnd(s, status) ==
    IF status = "active" /\ session[s].end <= now
    THEN [pc |-> "ending", s |-> s, at |-> now] ELSE Idle

\* Mutant: the read forgets to end what is due.
PollStartsOnly(r, s) ==
    /\ req[r] = Idle
    /\ session[s].status = "scheduled" /\ session[s].start <= now
    /\ req' = [req EXCEPT ![r] = [pc |-> "due", s |-> s]]
    /\ UNCHANGED <<now, session, events, money, ops, faults>>

\* A read of a session for which nothing is due changes nothing.
Poll(r, s) ==
    /\ req[r] = Idle
    /\ \/ /\ session[s].status = "scheduled" /\ session[s].start <= now
          /\ req' = [req EXCEPT ![r] = [pc |-> "due", s |-> s]]
       \/ /\ AutoEnd(s, session[s].status) # Idle
          /\ req' = [req EXCEPT ![r] = AutoEnd(s, session[s].status)]
    /\ UNCHANGED <<now, session, events, money, ops, faults>>

\* The status is read again, without a lock; another read may have started it.
ReadAutoStart(r) ==
    /\ req[r].pc = "due"
    /\ req' = [req EXCEPT ![r] =
           IF session[@.s].status = "scheduled" THEN [pc |-> "starting", s |-> @.s, at |-> now]
           ELSE AutoEnd(@.s, session[@.s].status)]
    /\ UNCHANGED <<now, session, events, money, ops, faults>>

\* created_at is the time the transaction began.
CommitAutoStart(r) ==
    /\ req[r].pc = "starting"
    /\ LET s == req[r].s
       IN  /\ session' = [session EXCEPT ![s].status = "active"]
           /\ events' = [events EXCEPT ![s] = Insert(@, Event("start", req[r].at, 0))]
           /\ req' = [req EXCEPT ![r] = AutoEnd(s, "active")]
    /\ UNCHANGED <<now, money, ops, faults>>

\* Whatever a request has not committed is rolled back, its lock with it.
Abort(r) ==
    /\ req[r] # Idle /\ faults < MaxFaults
    /\ faults' = faults + 1
    /\ req' = [req EXCEPT ![r] = Idle]
    /\ UNCHANGED <<now, session, events, money, ops>>

Tick ==
    /\ now < MaxNow /\ now' = now + 1
    /\ UNCHANGED <<session, events, money, req, ops, faults>>

-----------------------------------------------------------------------------
Step(r) ==
    \/ ReadTransition(r) \/ CommitTransition(r)
    \/ ReadEnd(r) \/ ReadElapsed(r) \/ LockClient(r) \/ CommitEnd(r)
    \/ ReadAutoStart(r) \/ CommitAutoStart(r)

Next ==
    \/ Tick
    \/ \E m \in Credits : addHourPurchase(m)
    \/ \E s \in Sessions :
           \/ \E start \in Starts \cup {now}, end \in Ends \cup {Never} : startHourSession(s, start, end)
           \/ \E d \in Adjusts : adjustHourSession(s, d)
           \/ \E r \in Requests :
                  \/ \E op \in {"pause", "resume"}, at \in Times : AskTransition(r, s, op, at)
                  \/ \E at \in Times : AskEnd(r, s, at)
                  \/ Poll(r, s)
    \/ \E r \in Requests : Step(r) \/ Abort(r)

Spec == Init /\ [][Next]_vars

\* Requests that are served go on, and every session is read again and again
\* (the panel of the admin, the poll of the client's program). Time, people
\* and faults owe nothing.
FairSpec ==
    /\ Spec
    /\ \A r \in Requests : WF_vars(Step(r))
    /\ \A s \in Sessions : WF_vars(\E r \in Requests : Poll(r, s))

-----------------------------------------------------------------------------
(* Properties *)

\* Minute for minute: no charged minute has both left the balance and been
\* billed as loose time, however endings and purchases interleave, and a balance
\* that a correction made negative included; and unless two endings of one
\* session race, each has done one of the two.
NothingLost ==
    /\ balance >= credits - charged + billed
    /\ (\A s \in Sessions : debits[s] <= 1) => balance = credits - charged + billed

\* The last start, resume, pause or end at or before t leaves it running.
RunsAt(ev, t) ==
    \E i \in DOMAIN ev :
        /\ ev[i].at <= t /\ ev[i].type \in Opens
        /\ \A j \in i + 1 .. Len(ev) : ev[j].at <= t => ev[j].type = "adjust"

OpenedTwice(ev) ==
    \E i, j \in DOMAIN ev :
        /\ i < j /\ ev[i].type \in Opens /\ ev[j].type \in Opens
        /\ \A k \in i + 1 .. j - 1 : ev[k].type = "adjust"

AdjustedBy(ev) ==
    LET sum[i \in 0 .. Len(ev)] == IF i = 0 THEN 0 ELSE sum[i - 1] + ev[i].delta
    IN  sum[Len(ev)]

\* What computeElapsedSeconds derives from a history, endings and pauses said
\* to have happened earlier included, is the time the session was running and
\* the adjustments, floored at zero. A history that opens twice in a row (two
\* racing resumes or automatic starts) may lose time but never invents any.
ElapsedIsRunningTime ==
    \A s \in Sessions :
        LET ev == events[s]
            reference == Floor(Cardinality({t \in 0 .. now - 1 : RunsAt(ev, t)}) + AdjustedBy(ev))
        IN  /\ computeElapsed(ev, now) <= reference
            /\ OpenedTwice(ev) \/ computeElapsed(ev, now) = reference

\* An ending reads the balance in one statement and debits it in another,
\* and other endings and purchases come in between: each of them has charged
\* and billed as if it had done so in one step, the second of two endings of one
\* session by writing its bill over that of the first.
Prepaid == INSTANCE Account
ImplementsAccount == Prepaid!Spec

\* A session whose scheduled end has passed does not go on running, whether
\* or not anybody read it while it should have started, through requests that
\* die and races with the admin.
DueSessionEnds ==
    \A s \in Sessions :
        /\ session[s].status \in {"scheduled", "active"}
        /\ session[s].start <= now /\ session[s].end <= now
        ~> session[s].status \in {"paused", "ended"}

-----------------------------------------------------------------------------
(* The inductive invariant behind NothingLost and ImplementsAccount *)

\* One ending at a time is past the lock, and the balance it has read is the
\* balance until it commits.
LockInv ==
    \A r \in Requests : req[r].pc = "locked" =>
        /\ req[r].balance = balance
        /\ \A q \in Requests : req[q].pc = "locked" => q = r

MoneyInv ==
    /\ now \in Times
    /\ balance \in Int /\ credits \in Int /\ charged \in Int /\ billed \in Int
    /\ bill \in [Sessions -> Nat] /\ debits \in [Sessions -> Nat]
    /\ \A s \in Sessions : debits[s] = 0 => bill[s] = 0
    /\ req \in [Requests -> Reqs]

IInv == MoneyInv /\ LockInv /\ NothingLost

-----------------------------------------------------------------------------
(* The inductive invariant behind TypeOK and ElapsedIsRunningTime *)

\* A history is in order, and only an adjustment carries one.
EventSet == [type : Opens \cup Closes \cup {"adjust"}, at : Nat, delta : Int]
Histories ==
    {ev \in Seq(EventSet) :
        /\ \A i, j \in DOMAIN ev : i <= j => ev[i].at <= ev[j].at
        /\ \A i \in DOMAIN ev : ev[i].type # "adjust" => ev[i].delta = 0}

\* Nothing in a history lies in the future, nor does the hour a request that
\* is going to write to one has taken.
HistoryInv ==
    /\ events \in [Sessions -> Histories]
    /\ \A s \in Sessions : \A i \in DOMAIN events[s] : events[s][i].at <= now
    /\ \A r \in Requests : req[r].pc \notin {"idle", "due"} => req[r].at <= now

RecordInv == TypeOK /\ HistoryInv

-----------------------------------------------------------------------------
(* What a comment of the code promises and the code does not keep *)

\* hour_sessions.go, HourClient: "o debito de verdade continua acontecendo uma
\* unica vez, no encerramento".
DebitedOnce == \A s \in Sessions : debits[s] <= 1

=============================================================================
