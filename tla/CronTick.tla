------------------------------- MODULE CronTick -------------------------------
(***************************************************************************)
(* The table cron_jobs of cron-go: the tick of each replica, which claims  *)
(* the jobs that are due in a transaction and, once it has committed and   *)
(* released its rows, fires them one after the other; and the handlers     *)
(* that create, update, pause, resume and delete jobs meanwhile. What a    *)
(* fired goroutine does is in CronRuns.                                    *)
(*                                                                         *)
(* Definitions whose comment begins with "Mutant" are wrong on purpose, to *)
(* see that a property notices.                                            *)
(***************************************************************************)
EXTENDS Naturals, FiniteSets

CONSTANTS
    Jobs,
    Replicas, NoReplica,
    Schedules, NoSchedule,
    Unsatisfiable,  \* schedules that never match, like February 30
    Limit,          \* jobs a tick claims at most
    MayFail         \* the calls that may fail, see FailPoints

FailPoints == {"tick", "commit"}

ASSUME ConstantsAssumption ==
    /\ NoReplica \notin Replicas
    /\ NoSchedule \notin Schedules
    /\ Unsatisfiable \subseteq Schedules
    /\ Limit \in Nat \ {0}
    /\ MayFail \subseteq FailPoints

VARIABLES
    row,       \* whether the row of each job exists: "new", "live" or "deleted"
    enabled,   \* cron_jobs.enabled
    schedule,  \* cron_jobs.schedule_cron and timezone
    next,      \* cron_jobs.next_run_at, against the clock
    nextOf,    \* the schedule next_run_at was computed from
    rowLock,   \* the replica whose transaction holds FOR UPDATE on the row
    batch,     \* the schedule a replica read in each row it claimed
    resuming,  \* the schedule a resume request has read
    committed, \* the replica's transaction is over, and its batch is being fired
    serves,    \* history: the replicas that took the job's instant and owe its firing
    fired,     \* history: how often the job's instant was fired for, up to Often
    fate       \* history: what else became of that instant, see Fates

jobVars == <<row, enabled, schedule, next, nextOf>>
history == <<serves, fired, fate>>
vars == <<row, enabled, schedule, next, nextOf, rowLock, batch, resuming,
          committed, serves, fired, fate>>

\* "lost": taken in a transaction that took effect and then not fired for.
\* "gone": the job was edited, paused, resumed or deleted, and owes it no more.
Fates == {"open", "lost", "gone"}

\* The bound of the count: more than once is all that matters.
Often == 2

\* "zero" is the zero time, which is in the past of any clock.
NextRunAt == {"null", "future", "due", "zero"}

TypeOK ==
    /\ row \in [Jobs -> {"new", "live", "deleted"}]
    /\ enabled \in [Jobs -> BOOLEAN]
    /\ schedule \in [Jobs -> Schedules \cup {NoSchedule}]
    /\ next \in [Jobs -> NextRunAt]
    /\ nextOf \in [Jobs -> Schedules \cup {NoSchedule}]
    /\ rowLock \in [Jobs -> Replicas \cup {NoReplica}]
    /\ batch \in [Replicas -> [Jobs -> Schedules \cup {NoSchedule}]]
    /\ resuming \in [Jobs -> Schedules \cup {NoSchedule}]
    /\ committed \in [Replicas -> BOOLEAN]
    /\ serves \in [Jobs -> SUBSET Replicas]
    /\ fired \in [Jobs -> 0 .. Often]
    /\ fate \in [Jobs -> Fates]
    /\ \A j \in Jobs : row[j] = "live" => schedule[j] \in Schedules

NoRows == [j \in Jobs |-> NoSchedule]

Init ==
    /\ row = [j \in Jobs |-> "new"]
    /\ enabled = [j \in Jobs |-> FALSE]
    /\ schedule = [j \in Jobs |-> NoSchedule]
    /\ next = [j \in Jobs |-> "null"]
    /\ nextOf = [j \in Jobs |-> NoSchedule]
    /\ rowLock = [j \in Jobs |-> NoReplica]
    /\ batch = [R \in Replicas |-> NoRows]
    /\ resuming = [j \in Jobs |-> NoSchedule]
    /\ committed = [R \in Replicas |-> FALSE]
    /\ serves = [j \in Jobs |-> {}]
    /\ fired = [j \in Jobs |-> 0]
    /\ fate = [j \in Jobs |-> "open"]

\* nextRun: the next match after now. The parser accepts a schedule that never
\* matches, and its Next is the zero time, stored as a valid timestamp.
NextRun(s) == IF s \in Unsatisfiable THEN "zero" ELSE "future"

-----------------------------------------------------------------------------
(* The clock *)

\* A new instant takes the place of the one the histories are about.
NewInstant(j, f) ==
    /\ serves' = [serves EXCEPT ![j] = {}]
    /\ fired' = [fired EXCEPT ![j] = 0]
    /\ fate' = [fate EXCEPT ![j] = f]

\* The instant of next_run_at is reached.
ComesDue(j) ==
    /\ row[j] = "live" /\ next[j] = "future"
    /\ next' = [next EXCEPT ![j] = "due"]
    /\ NewInstant(j, "open")
    /\ UNCHANGED <<row, enabled, schedule, nextOf, rowLock, batch, resuming, committed>>

-----------------------------------------------------------------------------
(* The tick. A schedule or time zone that nextRun refuses, which the tick   *)
(* would fire without moving its next run, is refused by the handlers.      *)

Due(j) == row[j] = "live" /\ enabled[j] /\ next[j] \in {"due", "zero"}

\* ORDER BY next_run_at LIMIT Limit
Oldest(S, D) ==
    /\ S \subseteq D
    /\ IF Cardinality(D) <= Limit THEN S = D ELSE Cardinality(S) = Limit
    /\ \A j \in S, k \in D \ S : next[k] = "zero" => next[j] = "zero"

Claimed(R) == {j \in Jobs : batch[R][j] # NoSchedule}
Ticking(R) == Claimed(R) # {}
Open(R) == Ticking(R) /\ ~committed[R]
ToFire(R) == {j \in Claimed(R) : committed[R]}

Claim(R, S) ==
    batch' = [batch EXCEPT ![R] = [j \in Jobs |-> IF j \in S THEN schedule[j] ELSE NoSchedule]]

\* Mutant: the rows are read without FOR UPDATE.
ClaimUnlocked(R) ==
    /\ ~Ticking(R)
    /\ LET D == {j \in Jobs : Due(j)}
       IN \E S \in SUBSET D :
            /\ S # {} /\ Oldest(S, D) /\ Claim(R, S)
    /\ UNCHANGED <<jobVars, rowLock, resuming, committed, history>>

\* ClaimDueJobs: FOR UPDATE SKIP LOCKED.
ClaimDueJobs(R) ==
    /\ ~Ticking(R)
    /\ LET D == {j \in Jobs : Due(j) /\ rowLock[j] = NoReplica}
       IN \E S \in SUBSET D :
            /\ S # {} /\ Oldest(S, D) /\ Claim(R, S)
            /\ rowLock' = [j \in Jobs |-> IF j \in S THEN R ELSE rowLock[j]]
    /\ UNCHANGED <<jobVars, resuming, committed, history>>

\* The transaction of the tick ends and releases its rows.
ReleaseRows(R) == rowLock' = [j \in Jobs |-> IF rowLock[j] = R THEN NoReplica ELSE rowLock[j]]
ForgetBatch(R) == batch' = [batch EXCEPT ![R] = NoRows]

\* UpdateJobAfterRun for every claimed row, and the COMMIT.
MoveOn(R) ==
    /\ Open(R) /\ ReleaseRows(R)
    /\ LET claimed == Claimed(R)
       IN /\ next' = [j \in Jobs |-> IF j \in claimed THEN NextRun(batch[R][j]) ELSE next[j]]
          /\ nextOf' = [j \in Jobs |-> IF j \in claimed THEN batch[R][j] ELSE nextOf[j]]
    /\ UNCHANGED <<row, enabled, schedule, resuming>>

\* The claimed jobs are about to be fired.
TakesOn(R) ==
    /\ committed' = [committed EXCEPT ![R] = TRUE]
    /\ serves' = [j \in Jobs |-> IF j \in Claimed(R) THEN serves[j] \cup {R} ELSE serves[j]]
    /\ UNCHANGED <<batch, fired, fate>>

\* Mutant: next_run_at is left for the end of the execution to recompute.
FireOnly(R) ==
    /\ Open(R) /\ ReleaseRows(R) /\ TakesOn(R)
    /\ UNCHANGED <<jobVars, resuming>>

CommitTick(R) == MoveOn(R) /\ TakesOn(R)

\* The commit takes effect but reports an error, and nothing is fired.
CommitUnheard(R) ==
    /\ "commit" \in MayFail /\ MoveOn(R) /\ ForgetBatch(R)
    /\ fate' = [j \in Jobs |-> IF j \in Claimed(R) THEN "lost" ELSE fate[j]]
    /\ UNCHANGED <<committed, serves, fired>>

\* Mutant: the failed transaction is not rolled back.
FailAndLeak(R) ==
    /\ "tick" \in MayFail /\ Open(R) /\ ForgetBatch(R)
    /\ UNCHANGED <<jobVars, rowLock, resuming, committed, history>>

\* An UPDATE fails, so the commit does, and nothing is fired.
FailTick(R) ==
    /\ "tick" \in MayFail /\ Open(R) /\ ReleaseRows(R) /\ ForgetBatch(R)
    /\ UNCHANGED <<jobVars, resuming, committed, history>>

OnceMore(n) == IF n < Often THEN n + 1 ELSE Often

\* A goroutine is started for a job of the batch. It holds no lock, and nobody
\* looks at the row again: it may have been edited, paused or deleted since.
Fire(R, j) ==
    /\ j \in ToFire(R)
    /\ batch' = [batch EXCEPT ![R][j] = NoSchedule]
    /\ committed' = [committed EXCEPT ![R] = ToFire(R) # {j}]
    /\ serves' = [serves EXCEPT ![j] = serves[j] \ {R}]
    /\ fired' = [fired EXCEPT ![j] = IF R \in serves[j] THEN OnceMore(fired[j]) ELSE fired[j]]
    /\ UNCHANGED <<jobVars, rowLock, resuming, fate>>

\* The process dies in a tick. PostgreSQL rolls back a transaction that is
\* open; one that has committed stays, and what is left of its batch is lost.
Crash(R) ==
    /\ Ticking(R) /\ ReleaseRows(R) /\ ForgetBatch(R)
    /\ committed' = [committed EXCEPT ![R] = FALSE]
    /\ serves' = [j \in Jobs |-> serves[j] \ {R}]
    /\ fate' = [j \in Jobs |-> IF R \in serves[j] THEN "lost" ELSE fate[j]]
    /\ UNCHANGED <<jobVars, resuming, fired>>

-----------------------------------------------------------------------------
(* The API. A statement that writes a row waits for the tick that locked it. *)

Writable(j) == row[j] = "live" /\ rowLock[j] = NoReplica

SetNext(j, at, s) ==
    /\ next' = [next EXCEPT ![j] = at]
    /\ nextOf' = [nextOf EXCEPT ![j] = s]
    /\ NewInstant(j, "gone")

\* handleCreateJob
CreateJob(j, s) ==
    /\ row[j] = "new" /\ row' = [row EXCEPT ![j] = "live"]
    /\ enabled' = [enabled EXCEPT ![j] = TRUE]
    /\ schedule' = [schedule EXCEPT ![j] = s]
    /\ SetNext(j, NextRun(s), s)
    /\ UNCHANGED <<rowLock, batch, resuming, committed>>

\* handleUpdateJob, which computes next_run_at even for a paused job
UpdateJob(j, s) ==
    /\ Writable(j)
    /\ schedule' = [schedule EXCEPT ![j] = s]
    /\ SetNext(j, NextRun(s), s)
    /\ UNCHANGED <<row, enabled, rowLock, batch, resuming, committed>>

\* handlePauseJob
PauseJob(j) ==
    /\ Writable(j)
    /\ enabled' = [enabled EXCEPT ![j] = FALSE]
    /\ SetNext(j, "null", NoSchedule)
    /\ UNCHANGED <<row, schedule, rowLock, batch, resuming, committed>>

\* handleResumeJob reads the job...
ResumeReads(j) ==
    /\ row[j] = "live" /\ resuming[j] = NoSchedule
    /\ resuming' = [resuming EXCEPT ![j] = schedule[j]]
    /\ UNCHANGED <<jobVars, rowLock, batch, committed, history>>

\* ...and then writes the next run of the schedule it has read.
ResumeWrites(j) ==
    /\ resuming[j] # NoSchedule /\ rowLock[j] = NoReplica
    /\ resuming' = [resuming EXCEPT ![j] = NoSchedule]
    /\ IF row[j] = "live"
       THEN enabled' = [enabled EXCEPT ![j] = TRUE]
            /\ SetNext(j, NextRun(resuming[j]), resuming[j])
       ELSE UNCHANGED <<enabled, next, nextOf, history>>
    /\ UNCHANGED <<row, schedule, rowLock, batch, committed>>

\* handleDeleteJob: what the row said is gone with it.
DeleteJob(j) ==
    /\ Writable(j)
    /\ row' = [row EXCEPT ![j] = "deleted"]
    /\ enabled' = [enabled EXCEPT ![j] = FALSE]
    /\ schedule' = [schedule EXCEPT ![j] = NoSchedule]
    /\ SetNext(j, "null", NoSchedule)
    /\ UNCHANGED <<rowLock, batch, resuming, committed>>

EditStep(j) ==
    \/ \E s \in Schedules : CreateJob(j, s) \/ UpdateJob(j, s)
    \/ PauseJob(j) \/ ResumeReads(j) \/ ResumeWrites(j) \/ DeleteJob(j)

TickStep(R) ==
    \/ ClaimDueJobs(R) \/ CommitTick(R) \/ CommitUnheard(R) \/ FailTick(R) \/ Crash(R)
    \/ \E j \in Jobs : Fire(R, j)

Next ==
    \/ \E j \in Jobs : ComesDue(j) \/ EditStep(j)
    \/ \E R \in Replicas : TickStep(R)

Spec == Init /\ [][Next]_vars

\* The ticker of every replica keeps ticking, ORDER BY next_run_at gives a job
\* that stays due its turn, a transient failure does not repeat for ever, the
\* loop that starts the goroutines goes on and is not overtaken by the next
\* instant every time, and requests end.
Fairness ==
    /\ \A R \in Replicas : WF_vars(CommitTick(R) \/ CommitUnheard(R) \/ FailTick(R))
    /\ \A R \in Replicas : WF_vars(\E j \in Jobs : Fire(R, j))
    /\ \A j \in Jobs :
         /\ SF_vars(\E R \in Replicas : ClaimDueJobs(R) /\ j \in Claimed(R)')
         /\ SF_vars(\E R \in Replicas : j \in Claimed(R) /\ CommitTick(R))
         /\ SF_vars(\E R \in Replicas : R \in serves[j] /\ Fire(R, j))
         /\ WF_vars(ResumeWrites(j))

FairSpec == Spec /\ Fairness

-----------------------------------------------------------------------------
(* Properties *)

\* SKIP LOCKED and the recomputation inside the transaction: however replicas,
\* edits and crashes interleave, an instant that comes due is fired once at
\* most ("no maximo 1 disparo ao voltar"), unless the schedule never matches.
FiredOncePerInstant ==
    \A j \in Jobs : nextOf[j] \notin Unsatisfiable => fired[j] <= 1

\* FOR UPDATE keeps the schedule from changing under a tick: what the tick
\* writes is the next run of the schedule the job has when it commits.
TickFollowsSchedule ==
    [][\A R \in Replicas, j \in Jobs :
          j \in Claimed(R) /\ MoveOn(R) => nextOf'[j] = schedule'[j]]_vars

\* No tick takes on a job that is paused or deleted: a pause waits for the tick
\* that holds the row, and a tick that comes later does not see the job. (What
\* was taken on before is still fired after the pause: Fire looks at nothing.)
PausedIsNotTaken ==
    [][\A R \in Replicas, j \in Jobs :
          j \in ToFire(R)' \ ToFire(R) => enabled[j] /\ row[j] = "live"]_vars

\* A job that is due is fired in the end, or edited, though ticks fail, claim
\* no more than Limit jobs and skip the rows of one another. Its instant is lost
\* only if a replica dies between the commit and the firing, or the commit takes
\* effect and says it failed. (Unless a schedule that never matches takes its
\* place in every tick.)
DueJobIsFired ==
    [](\A j \in Jobs : next[j] # "zero") =>
        \A j \in Jobs : Due(j) /\ next[j] = "due" ~> fired[j] > 0 \/ fate[j] # "open"

\* scheduler.go, tick: the recomputation inside the transaction "evita
\* re-claim no proximo tick". It does not for a schedule that never matches.
TickMovesOn ==
    [][\A R \in Replicas : CommitTick(R) => \A j \in Claimed(R) : ~Due(j)']_vars

-----------------------------------------------------------------------------
(* The inductive invariant behind FiredOncePerInstant and PausedIsNotTaken *)

\* A row claimed in an open transaction is locked by the replica that claimed
\* it and stays as it was read. The firing goes on while there is a batch.
ClaimInv ==
    /\ \A R \in Replicas : committed[R] => Ticking(R)
    /\ \A R \in Replicas : ~committed[R] =>
         \A j \in Claimed(R) : rowLock[j] = R /\ Due(j) /\ batch[R][j] = schedule[j]
    /\ \A R \in Replicas, j \in Jobs : R \in serves[j] => j \in ToFire(R)

\* The instant of a job was taken on, by R or by anybody, or fired for.
Taken(j) == fired[j] > 0 \/ serves[j] # {}

\* An instant that is reached but not claimed was not taken on, and after a
\* tick next_run_at is that of the schedule the job has. One replica at a time
\* owes the firing of an instant, and none when it was fired for.
InstantInv ==
    \A j \in Jobs :
        /\ row[j] = "live" /\ next[j] = "due" => ~Taken(j)
        /\ row[j] = "live" /\ next[j] = "zero" => nextOf[j] \in Unsatisfiable
        /\ row[j] = "live" /\ Taken(j) => nextOf[j] = schedule[j]
        /\ nextOf[j] \notin Unsatisfiable =>
              /\ fired[j] > 0 => serves[j] = {}
              /\ \A R, Q \in serves[j] : R = Q

IInv == TypeOK /\ ClaimInv /\ InstantInv /\ FiredOncePerInstant

=============================================================================
