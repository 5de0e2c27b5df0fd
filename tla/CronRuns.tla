------------------------------- MODULE CronRuns -------------------------------
(***************************************************************************)
(* The executions of cron-go: claimRunSlot, which reserves the one slot a  *)
(* job has, and executeRun, which calls the target with retries and closes *)
(* the row of cron_runs. A worker is one goroutine that runs them, whether *)
(* the tick or "run now" started it; the workers of a replica die with it. *)
(*                                                                         *)
(* One unit of time passes in Pass. A timer that has run out is served     *)
(* before time goes on, which is what the timeout of http.Client and       *)
(* time.Sleep give. Definitions whose comment begins with "Mutant" are     *)
(* wrong on purpose, to see that a property notices.                       *)
(***************************************************************************)
EXTENDS Naturals, FiniteSets

CONSTANTS
    Jobs, NoJob,
    Workers, NoWorker,
    Replicas,      \* a partition of the workers
    Runs, NoRun,   \* the rows cron_runs has room for
    Timeout,       \* timeout of one call of the target
    MaxRetries,    \* calls of an execution
    Backoff,       \* Backoff[n]: the wait after the n-th failed call
    Spent,         \* Spent[n]: the time n failed calls and their waits take
    TxTime,        \* how long the transaction of claimRunSlot may take
    Window,        \* how long HasRunningRun believes a row that says running
    DrainTime,     \* how long a shutdown waits for the executions
    MayFail,       \* what may go wrong, see FailPoints
    MaxFaults,     \* how many times something may go wrong
    MaxShutdowns   \* how many times a replica may be shut down

FailPoints == {"tx", "commit", "panic", "finish", "crash"}

\* In the code Timeout <= 300, MaxRetries <= 10 (handlers_jobs.go) and
\* Backoff[n] = min(n * n, 300), so Spent[9] + Timeout = 3285 < Window = 3600.
ASSUME ConstantsAssumption ==
    /\ NoJob \notin Jobs /\ NoWorker \notin Workers /\ NoRun \notin Runs
    /\ Replicas \subseteq SUBSET Workers
    /\ Timeout \in Nat /\ TxTime \in Nat /\ Window \in Nat /\ DrainTime \in Nat
    /\ MaxRetries \in Nat \ {0}
    /\ Backoff \in [1 .. MaxRetries -> Nat]
    /\ Spent \in [0 .. MaxRetries -> Nat]
    /\ Spent[0] = 0
    /\ \A n \in 1 .. MaxRetries : Spent[n] = Spent[n - 1] + Timeout + Backoff[n]
    /\ MayFail \subseteq FailPoints
    /\ MaxFaults \in Nat /\ MaxShutdowns \in Nat

\* The longest execution ends before its row is taken for an orphan.
ASSUME WindowAssumption ==
    \A n \in 0 .. MaxRetries - 1 : TxTime + Spent[n] + Timeout < Window

VARIABLES
    status,     \* cron_runs.status of each row, "free" if there is no such row
    jobOf,      \* cron_runs.job_id
    age,        \* now() - started_at of a row that says running, up to Window
    deleted,    \* the jobs deleted from cron_jobs
    lock,       \* who holds pg_advisory_xact_lock of each job
    pc,         \* where each worker is
    job,        \* the job it executes
    run,        \* the row it reserved
    attempt,    \* the call it is making
    left,       \* what is left of its timer
    draining,   \* the replicas that are shutting down
    drain,      \* what is left of WaitDrain
    faults,     \* how many times something went wrong
    shutdowns

rowVars == <<status, jobOf, age, deleted>>
workVars == <<job, run, attempt>>
replicaVars == <<draining, drain, faults, shutdowns>>
vars == <<status, jobOf, age, deleted, lock, pc, job, run, attempt, left,
          draining, drain, faults, shutdowns>>

InTx == {"begun", "locked", "vacant", "occupied"}
Calling == {"dispatch", "backoff"}
Live(w) == pc[w] \in Calling

RowsOK ==
    /\ status \in [Runs -> {"free", "running", "finished", "skipped_overlap"}]
    /\ jobOf \in [Runs -> Jobs \cup {NoJob}]
    /\ age \in [Runs -> 0 .. Window]
    /\ deleted \subseteq Jobs

WorkersOK ==
    /\ pc \in [Workers -> {"idle", "finish"} \cup InTx \cup Calling]
    /\ job \in [Workers -> Jobs \cup {NoJob}]
    /\ run \in [Workers -> Runs \cup {NoRun}]
    /\ attempt \in [Workers -> 0 .. MaxRetries]
    /\ left \in [Workers -> Nat]
    /\ \A w \in Workers :
         /\ pc[w] # "idle" => job[w] \in Jobs
         /\ pc[w] \in Calling \cup {"finish"} => run[w] \in Runs /\ attempt[w] > 0
         /\ pc[w] = "backoff" => attempt[w] < MaxRetries
         /\ pc[w] \in InTx => left[w] <= TxTime

ReplicasOK ==
    /\ draining \subseteq Replicas
    /\ drain \in [Replicas -> 0 .. DrainTime]
    /\ faults \in 0 .. MaxFaults /\ shutdowns \in 0 .. MaxShutdowns

TypeOK ==
    /\ RowsOK /\ WorkersOK /\ ReplicasOK
    /\ lock \in [Jobs -> Workers \cup {NoWorker}]

Init ==
    /\ status = [r \in Runs |-> "free"]
    /\ jobOf = [r \in Runs |-> NoJob]
    /\ age = [r \in Runs |-> 0]
    /\ deleted = {}
    /\ lock = [j \in Jobs |-> NoWorker]
    /\ pc = [w \in Workers |-> "idle"]
    /\ job = [w \in Workers |-> NoJob]
    /\ run = [w \in Workers |-> NoRun]
    /\ attempt = [w \in Workers |-> 0]
    /\ left = [w \in Workers |-> 0]
    /\ draining = {}
    /\ drain = [R \in Replicas |-> 0]
    /\ faults = 0 /\ shutdowns = 0

-----------------------------------------------------------------------------
(* claimRunSlot: one transaction *)

May(fail) ==
    /\ fail \in MayFail /\ faults < MaxFaults
    /\ faults' = faults + 1
    /\ UNCHANGED <<draining, drain, shutdowns>>

Goes(w, from, to) == pc[w] = from /\ pc' = [pc EXCEPT ![w] = to]

\* A worker that is done forgets the execution.
Rest(W) ==
    /\ pc' = [w \in Workers |-> IF w \in W THEN "idle" ELSE pc[w]]
    /\ job' = [w \in Workers |-> IF w \in W THEN NoJob ELSE job[w]]
    /\ run' = [w \in Workers |-> IF w \in W THEN NoRun ELSE run[w]]
    /\ attempt' = [w \in Workers |-> IF w \in W THEN 0 ELSE attempt[w]]
    /\ left' = [w \in Workers |-> IF w \in W THEN 0 ELSE left[w]]

Unlock(W) == lock' = [j \in Jobs |-> IF lock[j] \in W THEN NoWorker ELSE lock[j]]

\* The tick or handleRunJob wants the job executed, and Begin starts the
\* transaction, whose start is what started_at will say.
BeginClaim(w, j) ==
    /\ Goes(w, "idle", "begun")
    /\ \A R \in draining : w \notin R
    /\ job' = [job EXCEPT ![w] = j]
    /\ left' = [left EXCEPT ![w] = TxTime]
    /\ UNCHANGED <<rowVars, lock, run, attempt, replicaVars>>

\* LockJobForRun waits for the transaction that holds the lock of the job.
LockJobForRun(w) ==
    /\ Goes(w, "begun", "locked") /\ lock[job[w]] = NoWorker
    /\ lock' = [lock EXCEPT ![job[w]] = w]
    /\ UNCHANGED <<rowVars, workVars, left, replicaVars>>

\* Mutant: the window does not leave room for the retries.
RunningBriefly(j) ==
    \E r \in Runs : status[r] = "running" /\ jobOf[r] = j /\ age[r] <= Timeout

\* Mutant: the row of a crashed execution is believed for ever.
RunningForEver(j) == \E r \in Runs : status[r] = "running" /\ jobOf[r] = j

\* HasRunningRun: the job has a row that says running and is younger than Window.
Running(j) ==
    \E r \in Runs : status[r] = "running" /\ jobOf[r] = j /\ age[r] < Window

HasRunningRun(w) ==
    /\ Goes(w, "locked", IF Running(job[w]) THEN "occupied" ELSE "vacant")
    /\ UNCHANGED <<rowVars, lock, workVars, left, replicaVars>>

\* Ids are never used again, not even those of deleted rows.
Unused(r) == status[r] = "free" /\ \A w \in Workers : run[w] # r

\* CreateRun, with FinishRun 'skipped_overlap' when there is an overlap, and
\* Commit, which may report an error though it took effect; the foreign key
\* refuses the row of a deleted job.
CommitClaim(w, r) ==
    /\ pc[w] \in {"vacant", "occupied"} /\ job[w] \notin deleted /\ Unused(r)
    /\ status' = [status EXCEPT ![r] =
                     IF pc[w] = "vacant" THEN "running" ELSE "skipped_overlap"]
    /\ jobOf' = [jobOf EXCEPT ![r] = job[w]]
    /\ age' = IF pc[w] = "vacant" THEN [age EXCEPT ![r] = TxTime - left[w]] ELSE age
    /\ Unlock({w})
    /\ \/ /\ Goes(w, "vacant", "dispatch")
          /\ run' = [run EXCEPT ![w] = r]
          /\ attempt' = [attempt EXCEPT ![w] = 1]
          /\ left' = [left EXCEPT ![w] = Timeout]
          /\ UNCHANGED <<job, replicaVars>>
       \/ pc[w] = "occupied" /\ Rest({w}) /\ UNCHANGED replicaVars
       \/ pc[w] = "vacant" /\ Rest({w}) /\ May("commit")
    /\ UNCHANGED deleted

RefusedByForeignKey(w) == pc[w] \in {"vacant", "occupied"} /\ job[w] \in deleted

\* A statement fails, and the deferred Rollback releases the lock.
AbortClaim(w) ==
    /\ pc[w] \in InTx
    /\ May("tx") \/ (RefusedByForeignKey(w) /\ UNCHANGED replicaVars)
    /\ Unlock({w}) /\ Rest({w})
    /\ UNCHANGED rowVars

ClaimStep(w) ==
    \/ LockJobForRun(w) \/ HasRunningRun(w) \/ AbortClaim(w)
    \/ \E r \in Runs : CommitClaim(w, r)

-----------------------------------------------------------------------------
(* executeRun *)

\* The target answered, or the call timed out; a failure is tried again.
DispatchEnds(w) ==
    /\ \/ Goes(w, "dispatch", "finish") /\ left' = [left EXCEPT ![w] = 0]
       \/ /\ attempt[w] < MaxRetries /\ Goes(w, "dispatch", "backoff")
          /\ left' = [left EXCEPT ![w] = Backoff[attempt[w]]]
    /\ UNCHANGED <<rowVars, lock, workVars, replicaVars>>

BackoffEnds(w) ==
    /\ Goes(w, "backoff", "dispatch") /\ left[w] = 0
    /\ attempt' = [attempt EXCEPT ![w] = attempt[w] + 1]
    /\ left' = [left EXCEPT ![w] = Timeout]
    /\ UNCHANGED <<rowVars, lock, job, run, replicaVars>>

Close(r) ==
    /\ status' = [status EXCEPT ![r] = "finished"]
    /\ age' = [age EXCEPT ![r] = 0]

\* Mutant: the row is closed under the context of the request that ran the
\* job, which WriteTimeout has cancelled by the second attempt.
FinishUnderRequest(w) ==
    /\ pc[w] = "finish" /\ Rest({w})
    /\ IF attempt[w] = 1 THEN Close(run[w]) ELSE UNCHANGED <<status, age>>
    /\ UNCHANGED <<jobOf, deleted, lock, replicaVars>>

\* FinishRun, whose error is only logged; no row is left if the job was deleted.
FinishRun(w) ==
    /\ pc[w] = "finish" /\ Rest({w})
    /\ \/ job[w] \notin deleted /\ Close(run[w]) /\ UNCHANGED replicaVars
       \/ job[w] \in deleted /\ UNCHANGED <<status, age, replicaVars>>
       \/ job[w] \notin deleted /\ May("finish") /\ UNCHANGED <<status, age>>
    /\ UNCHANGED <<jobOf, deleted, lock>>

\* A panic is recovered by executeRun, past FinishRun.
Panic(w) ==
    /\ May("panic") /\ Live(w) /\ Rest({w})
    /\ UNCHANGED <<rowVars, lock>>

ExecuteStep(w) == DispatchEnds(w) \/ BackoffEnds(w) \/ FinishRun(w) \/ Panic(w)

-----------------------------------------------------------------------------
(* The tables, the replicas and time *)

Free(S) ==
    /\ status' = [r \in Runs |-> IF r \in S THEN "free" ELSE status[r]]
    /\ jobOf' = [r \in Runs |-> IF r \in S THEN NoJob ELSE jobOf[r]]
    /\ age' = [r \in Runs |-> IF r \in S THEN 0 ELSE age[r]]

\* handleDeleteJob; the rows go with the job.
DeleteJob(j) ==
    /\ j \notin deleted /\ deleted' = deleted \cup {j}
    /\ Free({r \in Runs : jobOf[r] = j})
    /\ UNCHANGED <<lock, pc, workVars, left, replicaVars>>

\* purgeOldRuns deletes old rows in batches, but none that says running.
PurgeOldRuns ==
    /\ \E S \in SUBSET {r \in Runs : status[r] \in {"finished", "skipped_overlap"}} :
         S # {} /\ Free(S)
    /\ UNCHANGED <<deleted, lock, pc, workVars, left, replicaVars>>

\* The process ends: its workers stop where they are and PostgreSQL rolls
\* their transactions back. It is started again at once.
Dies(R) ==
    /\ Rest(R) /\ Unlock(R)
    /\ draining' = draining \ {R} /\ drain' = [drain EXCEPT ![R] = 0]
    /\ UNCHANGED <<rowVars, shutdowns>>

Crash(R) ==
    /\ "crash" \in MayFail /\ faults < MaxFaults
    /\ faults' = faults + 1
    /\ Dies(R)

\* SIGTERM: the scheduler and the HTTP server accept nothing more.
Shutdown(R) ==
    /\ R \notin draining /\ shutdowns < MaxShutdowns
    /\ shutdowns' = shutdowns + 1
    /\ draining' = draining \cup {R} /\ drain' = [drain EXCEPT ![R] = DrainTime]
    /\ UNCHANGED <<rowVars, lock, pc, workVars, left, faults>>

\* WaitDrain returns when every execution has ended, or after DrainTime.
Exit(R) ==
    /\ R \in draining
    /\ drain[R] = 0 \/ \A w \in R : pc[w] = "idle"
    /\ Dies(R) /\ UNCHANGED faults

Timed(w) == pc[w] \in InTx \cup Calling

Pass ==
    /\ \A w \in Workers : Timed(w) => left[w] > 0
    /\ \A R \in draining : drain[R] > 0
    /\ left' = [w \in Workers |-> IF Timed(w) THEN left[w] - 1 ELSE left[w]]
    /\ age' = [r \in Runs |-> IF status[r] = "running" /\ age[r] < Window
                              THEN age[r] + 1 ELSE age[r]]
    /\ drain' = [R \in Replicas |-> IF R \in draining THEN drain[R] - 1 ELSE drain[R]]
    /\ UNCHANGED <<status, jobOf, deleted, lock, pc, workVars, draining, faults, shutdowns>>

Next ==
    \/ \E w \in Workers :
          (\E j \in Jobs : BeginClaim(w, j)) \/ ClaimStep(w) \/ ExecuteStep(w)
    \/ \E j \in Jobs : DeleteJob(j)
    \/ \E R \in Replicas : Crash(R) \/ Shutdown(R) \/ Exit(R)
    \/ PurgeOldRuns \/ Pass

Spec == Init /\ [][Next]_vars

\* Goroutines run, old rows are purged and time passes.
Fairness ==
    /\ \A w \in Workers :
         /\ WF_vars(ClaimStep(w)) /\ SF_vars(LockJobForRun(w))
         /\ WF_vars(ExecuteStep(w))
    /\ \A R \in Replicas : WF_vars(Exit(R))
    /\ WF_vars(PurgeOldRuns) /\ WF_vars(Pass)

FairSpec == Spec /\ Fairness

-----------------------------------------------------------------------------
(* Properties *)

\* However the tick, "run now" and other replicas interleave, and whatever
\* crashes left behind, a job is never executed twice at the same time.
OneLiveExecution ==
    \A v, w \in Workers : v # w /\ Live(v) /\ Live(w) => job[v] # job[w]

\* As long as nothing goes wrong and no replica is shut down, a row that says
\* running is that of an execution that will close it, though requests end and
\* jobs are deleted meanwhile: nobody is skipped in vain.
RunningRowIsBacked ==
    faults = 0 /\ shutdowns = 0 =>
        \A r \in Runs : status[r] = "running" =>
            \E w \in Workers : pc[w] \in Calling \cup {"finish"} /\ run[w] = r

\* A job that is asked for again and again is executed again and again: the
\* orphan row of a crashed execution blocks it for a while, not for ever.
JobIsExecutedAgain ==
    \A j \in Jobs :
        []<>(\E w \in Workers : pc[w] = "begun" /\ job[w] = j)
            => []<>(\E w \in Workers : Live(w) /\ job[w] = j) \/ <>(j \in deleted)

\* scheduler.go, tick: a run in progress "deve COMPLETAR (gravar o cron_run)
\* mesmo durante o shutdown". WaitDrain gives it 15 seconds.
ShutdownLetsRunsComplete ==
    \A R \in draining : drain[R] = 0 => \A w \in R : ~Live(w)

-----------------------------------------------------------------------------
(* The inductive invariant behind OneLiveExecution *)

Locked == {"locked", "vacant", "occupied"}

\* Whoever checks the slot of a job holds its lock, and a slot found vacant
\* stays vacant until the lock is released.
ClaimInv ==
    \A w \in Workers :
        /\ pc[w] \in Locked => lock[job[w]] = w
        /\ pc[w] = "vacant" => ~Running(job[w])

\* How old the row of a worker is when its timer runs out, at most.
Budget(w) == TxTime + IF pc[w] = "dispatch" THEN Spent[attempt[w] - 1] + Timeout
                                            ELSE Spent[attempt[w]]

\* The row of a live execution says so and is younger than the window.
LiveInv ==
    \A w \in Workers : Live(w) =>
        /\ job[w] \notin deleted => status[run[w]] = "running" /\ jobOf[run[w]] = job[w]
        /\ age[run[w]] + left[w] <= Budget(w)

\* No two workers share a row.
RunInv ==
    \A v, w \in Workers : v # w /\ run[v] # NoRun => run[v] # run[w]

IInv == TypeOK /\ ClaimInv /\ LiveInv /\ RunInv /\ OneLiveExecution

\* The execution behind a row is of the job the row is of, which still exists;
\* with no failure and no shutdown nothing else ends an execution.
BackedInv ==
    faults = 0 /\ shutdowns = 0 =>
        /\ draining = {}
        /\ \A r \in Runs : status[r] = "running" =>
              /\ jobOf[r] \notin deleted
              /\ \E w \in Workers :
                    pc[w] \in Calling \cup {"finish"} /\ run[w] = r /\ job[w] = jobOf[r]

=============================================================================
