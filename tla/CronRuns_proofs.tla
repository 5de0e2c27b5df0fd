---------------------------- MODULE CronRuns_proofs ----------------------------
(***************************************************************************)
(* Proofs about CronRuns, for every number of jobs, workers, replicas and  *)
(* rows, every timeout and every schedule of retries that fits the window: *)
(* a job is never executed twice at the same time, and a row that says     *)
(* running is that of an execution unless something went wrong.            *)
(***************************************************************************)
EXTENDS CronRuns, TLAPS

USE DEF rowVars, workVars, replicaVars, InTx, Calling, Goes, Live, Timed

-----------------------------------------------------------------------------
(* Type correctness *)

LEMMA InitType == Init => TypeOK
BY ConstantsAssumption DEF Init, TypeOK, RowsOK, WorkersOK, ReplicasOK

\* What the assumptions say of the timers.
LEMMA Timers ==
    /\ TxTime \in Nat /\ Timeout \in Nat /\ Window \in Nat /\ DrainTime \in Nat
    /\ TxTime < Window
    /\ MaxRetries \in Nat /\ MaxRetries > 0
    /\ \A n \in 1 .. MaxRetries : Backoff[n] \in Nat
    /\ MaxFaults \in Nat /\ MaxShutdowns \in Nat
<1>1. Spent[0] = 0 /\ 0 \in 0 .. MaxRetries - 1
  BY ConstantsAssumption
<1>2. TxTime + 0 + Timeout < Window
  BY <1>1, WindowAssumption
<1>3. QED
  BY <1>2, ConstantsAssumption

\* Resting, unlocking and closing or freeing rows keep the types.
LEMMA RestTypes == ASSUME WorkersOK, NEW W, Rest(W) PROVE WorkersOK'
BY Timers DEF WorkersOK, Rest

LEMMA UnlockTypes ==
    ASSUME TypeOK, NEW W, Unlock(W) PROVE lock' \in [Jobs -> Workers \cup {NoWorker}]
BY DEF TypeOK, Unlock

LEMMA FreeTypes == ASSUME RowsOK, NEW S, Free(S), deleted' \subseteq Jobs PROVE RowsOK'
BY Timers DEF RowsOK, Free

LEMMA CloseTypes ==
    ASSUME RowsOK, NEW r \in Runs, Close(r), UNCHANGED <<jobOf, deleted>> PROVE RowsOK'
BY Timers DEF RowsOK, Close

LEMMA NextType == TypeOK /\ [Next]_vars => TypeOK'
<1> SUFFICES ASSUME TypeOK, [Next]_vars PROVE TypeOK'
  OBVIOUS
<1> USE Timers DEF TypeOK
<1>1. ASSUME NEW w \in Workers, NEW j \in Jobs, BeginClaim(w, j) PROVE TypeOK'
  <2>1. RowsOK'
    BY <1>1 DEF BeginClaim, RowsOK
  <2>2. WorkersOK'
    BY <1>1 DEF BeginClaim, WorkersOK
  <2>3. ReplicasOK'
    BY <1>1 DEF BeginClaim, ReplicasOK
  <2>4. lock' \in [Jobs -> Workers \cup {NoWorker}]
    BY <1>1 DEF BeginClaim
  <2>5. QED
    BY <2>1, <2>2, <2>3, <2>4
<1>2. ASSUME NEW w \in Workers, LockJobForRun(w) PROVE TypeOK'
  <2>1. RowsOK'
    BY <1>2 DEF LockJobForRun, RowsOK
  <2>2. WorkersOK'
    BY <1>2 DEF LockJobForRun, WorkersOK
  <2>3. ReplicasOK'
    BY <1>2 DEF LockJobForRun, ReplicasOK
  <2>4. lock' \in [Jobs -> Workers \cup {NoWorker}]
    BY <1>2 DEF LockJobForRun
  <2>5. QED
    BY <2>1, <2>2, <2>3, <2>4
<1>3. ASSUME NEW w \in Workers, HasRunningRun(w) PROVE TypeOK'
  <2>1. RowsOK'
    BY <1>3 DEF HasRunningRun, RowsOK
  <2>2. WorkersOK'
    BY <1>3 DEF HasRunningRun, WorkersOK
  <2>3. ReplicasOK'
    BY <1>3 DEF HasRunningRun, ReplicasOK
  <2>4. lock' \in [Jobs -> Workers \cup {NoWorker}]
    BY <1>3 DEF HasRunningRun
  <2>5. QED
    BY <2>1, <2>2, <2>3, <2>4
<1>4. ASSUME NEW w \in Workers, AbortClaim(w) PROVE TypeOK'
  <2>1. RowsOK'
    BY <1>4 DEF AbortClaim, RowsOK
  <2>2. WorkersOK'
    BY <1>4, RestTypes DEF AbortClaim, WorkersOK
  <2>3. ReplicasOK'
    BY <1>4 DEF AbortClaim, May, ReplicasOK
  <2>4. lock' \in [Jobs -> Workers \cup {NoWorker}]
    BY <1>4, UnlockTypes DEF AbortClaim
  <2>5. QED
    BY <2>1, <2>2, <2>3, <2>4
<1>5. ASSUME NEW w \in Workers, NEW r \in Runs, CommitClaim(w, r) PROVE TypeOK'
  <2>1. RowsOK'
    <3>1. TxTime - left[w] \in 0 .. Window
      BY <1>5 DEF CommitClaim, WorkersOK
    <3>2. job[w] \in Jobs
      BY <1>5 DEF CommitClaim, WorkersOK
    <3>3. QED
      BY <1>5, <3>1, <3>2 DEF CommitClaim, RowsOK
  <2>2. WorkersOK'
    BY <1>5, RestTypes DEF CommitClaim, WorkersOK
  <2>3. ReplicasOK'
    BY <1>5 DEF CommitClaim, May, ReplicasOK
  <2>4. lock' \in [Jobs -> Workers \cup {NoWorker}]
    BY <1>5, UnlockTypes DEF CommitClaim
  <2>5. QED
    BY <2>1, <2>2, <2>3, <2>4
<1>6. ASSUME NEW w \in Workers, DispatchEnds(w) PROVE TypeOK'
  <2>1. RowsOK'
    BY <1>6 DEF DispatchEnds, RowsOK
  <2>2. WorkersOK'
    BY <1>6 DEF DispatchEnds, WorkersOK
  <2>3. ReplicasOK'
    BY <1>6 DEF DispatchEnds, ReplicasOK
  <2>4. lock' \in [Jobs -> Workers \cup {NoWorker}]
    BY <1>6 DEF DispatchEnds
  <2>5. QED
    BY <2>1, <2>2, <2>3, <2>4
<1>7. ASSUME NEW w \in Workers, BackoffEnds(w) PROVE TypeOK'
  <2>1. RowsOK'
    BY <1>7 DEF BackoffEnds, RowsOK
  <2>2. WorkersOK'
    BY <1>7 DEF BackoffEnds, WorkersOK
  <2>3. ReplicasOK'
    BY <1>7 DEF BackoffEnds, ReplicasOK
  <2>4. lock' \in [Jobs -> Workers \cup {NoWorker}]
    BY <1>7 DEF BackoffEnds
  <2>5. QED
    BY <2>1, <2>2, <2>3, <2>4
<1>8. ASSUME NEW w \in Workers, FinishRun(w) PROVE TypeOK'
  <2>1. RowsOK'
    <3>1. run[w] \in Runs
      BY <1>8 DEF FinishRun, WorkersOK
    <3>2. QED
      BY <1>8, <3>1, CloseTypes DEF FinishRun, RowsOK
  <2>2. WorkersOK'
    BY <1>8, RestTypes DEF FinishRun, WorkersOK
  <2>3. ReplicasOK'
    BY <1>8 DEF FinishRun, May, ReplicasOK
  <2>4. lock' \in [Jobs -> Workers \cup {NoWorker}]
    BY <1>8 DEF FinishRun
  <2>5. QED
    BY <2>1, <2>2, <2>3, <2>4
<1>9. ASSUME NEW w \in Workers, Panic(w) PROVE TypeOK'
  <2>1. RowsOK'
    BY <1>9 DEF Panic, RowsOK
  <2>2. WorkersOK'
    BY <1>9, RestTypes DEF Panic, WorkersOK
  <2>3. ReplicasOK'
    BY <1>9 DEF Panic, May, ReplicasOK
  <2>4. lock' \in [Jobs -> Workers \cup {NoWorker}]
    BY <1>9 DEF Panic
  <2>5. QED
    BY <2>1, <2>2, <2>3, <2>4
<1>10. ASSUME NEW j \in Jobs, DeleteJob(j) PROVE TypeOK'
  <2>1. RowsOK'
    BY <1>10, FreeTypes DEF DeleteJob, RowsOK
  <2>2. WorkersOK'
    BY <1>10 DEF DeleteJob, WorkersOK
  <2>3. ReplicasOK'
    BY <1>10 DEF DeleteJob, ReplicasOK
  <2>4. lock' \in [Jobs -> Workers \cup {NoWorker}]
    BY <1>10 DEF DeleteJob
  <2>5. QED
    BY <2>1, <2>2, <2>3, <2>4
<1>11. ASSUME NEW R \in Replicas, Crash(R) PROVE TypeOK'
  <2>1. RowsOK'
    BY <1>11 DEF Crash, Dies, RowsOK
  <2>2. WorkersOK'
    BY <1>11, RestTypes DEF Crash, Dies, WorkersOK
  <2>3. ReplicasOK'
    BY <1>11 DEF Crash, Dies, ReplicasOK
  <2>4. lock' \in [Jobs -> Workers \cup {NoWorker}]
    BY <1>11, UnlockTypes DEF Crash, Dies
  <2>5. QED
    BY <2>1, <2>2, <2>3, <2>4
<1>12. ASSUME NEW R \in Replicas, Shutdown(R) PROVE TypeOK'
  <2>1. RowsOK'
    BY <1>12 DEF Shutdown, RowsOK
  <2>2. WorkersOK'
    BY <1>12 DEF Shutdown, WorkersOK
  <2>3. ReplicasOK'
    BY <1>12 DEF Shutdown, ReplicasOK
  <2>4. lock' \in [Jobs -> Workers \cup {NoWorker}]
    BY <1>12 DEF Shutdown
  <2>5. QED
    BY <2>1, <2>2, <2>3, <2>4
<1>13. ASSUME NEW R \in Replicas, Exit(R) PROVE TypeOK'
  <2>1. RowsOK'
    BY <1>13 DEF Exit, Dies, RowsOK
  <2>2. WorkersOK'
    BY <1>13, RestTypes DEF Exit, Dies, WorkersOK
  <2>3. ReplicasOK'
    BY <1>13 DEF Exit, Dies, ReplicasOK
  <2>4. lock' \in [Jobs -> Workers \cup {NoWorker}]
    BY <1>13, UnlockTypes DEF Exit, Dies
  <2>5. QED
    BY <2>1, <2>2, <2>3, <2>4
<1>14. CASE PurgeOldRuns
  <2>1. RowsOK'
    BY <1>14, FreeTypes DEF PurgeOldRuns, RowsOK
  <2>2. WorkersOK'
    BY <1>14 DEF PurgeOldRuns, WorkersOK
  <2>3. ReplicasOK'
    BY <1>14 DEF PurgeOldRuns, ReplicasOK
  <2>4. lock' \in [Jobs -> Workers \cup {NoWorker}]
    BY <1>14 DEF PurgeOldRuns
  <2>5. QED
    BY <2>1, <2>2, <2>3, <2>4
<1>15. CASE Pass
  <2>1. RowsOK'
    BY <1>15 DEF Pass, RowsOK
  <2>2. WorkersOK'
    BY <1>15 DEF Pass, WorkersOK
  <2>3. ReplicasOK'
    BY <1>15 DEF Pass, ReplicasOK
  <2>4. lock' \in [Jobs -> Workers \cup {NoWorker}]
    BY <1>15 DEF Pass
  <2>5. QED
    BY <2>1, <2>2, <2>3, <2>4
<1>16. CASE UNCHANGED vars
  BY <1>16 DEF vars, RowsOK, WorkersOK, ReplicasOK
<1>17. QED
  BY <1>1, <1>2, <1>3, <1>4, <1>5, <1>6, <1>7, <1>8, <1>9, <1>10, <1>11, <1>12,
     <1>13, <1>14, <1>15, <1>16 DEF Next, ClaimStep, ExecuteStep

\* Every variable keeps its type; no execution makes a call too many.
THEOREM TypeCorrect == Spec => []TypeOK
<1>1. Init => TypeOK
  BY InitType
<1>2. TypeOK /\ [Next]_vars => TypeOK'
  BY NextType
<1>3. QED
  BY <1>1, <1>2, PTL DEF Spec

-----------------------------------------------------------------------------
(* The inductive invariant *)

LEMMA Nulls == NoJob \notin Jobs /\ NoWorker \notin Workers /\ NoRun \notin Runs
BY ConstantsAssumption

\* The time n calls and their waits take, at any n an execution can reach.
LEMMA SpentTime ==
    \A n \in 1 .. MaxRetries :
        /\ Spent[n - 1] \in Nat /\ Spent[n] \in Nat /\ Backoff[n] \in Nat
        /\ Spent[n] = Spent[n - 1] + Timeout + Backoff[n]
        /\ TxTime + Spent[n - 1] + Timeout < Window
        /\ n < MaxRetries => TxTime + Spent[n] < Window
<1> TAKE n \in 1 .. MaxRetries
<1>1. n \in Nat /\ n - 1 \in 0 .. MaxRetries - 1 /\ n \in 0 .. MaxRetries /\ n - 1 \in 0 .. MaxRetries
  BY Timers
<1>2. Spent[n - 1] \in Nat /\ Spent[n] \in Nat /\ Backoff[n] \in Nat
  BY <1>1, ConstantsAssumption
<1>3. Spent[n] = Spent[n - 1] + Timeout + Backoff[n]
  BY ConstantsAssumption
<1>4. TxTime + Spent[n - 1] + Timeout < Window
  BY <1>1, WindowAssumption
<1>5. ASSUME n < MaxRetries PROVE TxTime + Spent[n] < Window
  <2>1. n \in 0 .. MaxRetries - 1
    BY <1>1, <1>5, Timers
  <2>2. TxTime + Spent[n] + Timeout < Window
    BY <2>1, WindowAssumption
  <2>3. QED
    BY <1>2, <2>2, Timers
<1>6. QED
  BY <1>2, <1>3, <1>4, <1>5

\* The row of a live execution is what HasRunningRun looks for.
LEMMA LiveIsRunning ==
    ASSUME TypeOK, LiveInv, NEW w \in Workers, Live(w), job[w] \notin deleted
    PROVE  Running(job[w])
<1>1. attempt[w] \in 1 .. MaxRetries /\ run[w] \in Runs /\ left[w] \in Nat
  BY Timers DEF TypeOK, WorkersOK
<1>2. pc[w] = "backoff" => attempt[w] < MaxRetries
  BY DEF TypeOK, WorkersOK
<1>3. Budget(w) < Window /\ Budget(w) \in Nat
  BY <1>1, <1>2, SpentTime, Timers DEF Budget
<1>4. age[run[w]] \in Nat /\ age[run[w]] + left[w] <= Budget(w)
  BY <1>1, Timers DEF TypeOK, RowsOK, LiveInv
<1>5. age[run[w]] < Window
  BY <1>1, <1>3, <1>4, Timers
<1>6. QED
  BY <1>1, <1>5 DEF LiveInv, Running

LEMMA NextInductive == IInv /\ [Next]_vars => IInv'
<1> SUFFICES ASSUME IInv, [Next]_vars PROVE IInv'
  OBVIOUS
<1>0. TypeOK /\ TypeOK'
  BY NextType DEF IInv
<1> USE <1>0, Timers DEF IInv, TypeOK, RowsOK, WorkersOK
<1>1. ASSUME NEW w \in Workers, NEW j \in Jobs, BeginClaim(w, j) PROVE IInv'
  <2>1. ClaimInv'
    BY <1>1 DEF BeginClaim, ClaimInv, Locked, Running
  <2>2. LiveInv'
    BY <1>1 DEF BeginClaim, LiveInv, Budget
  <2>3. RunInv'
    BY <1>1 DEF BeginClaim, RunInv
  <2>4. OneLiveExecution'
    BY <1>1 DEF BeginClaim, OneLiveExecution
  <2>5. QED
    BY <2>1, <2>2, <2>3, <2>4
<1>2. ASSUME NEW w \in Workers, LockJobForRun(w) PROVE IInv'
  <2>1. ClaimInv'
    BY <1>2, Nulls DEF LockJobForRun, ClaimInv, Locked, Running
  <2>2. LiveInv'
    BY <1>2 DEF LockJobForRun, LiveInv, Budget
  <2>3. RunInv'
    BY <1>2 DEF LockJobForRun, RunInv
  <2>4. OneLiveExecution'
    BY <1>2 DEF LockJobForRun, OneLiveExecution
  <2>5. QED
    BY <2>1, <2>2, <2>3, <2>4
<1>3. ASSUME NEW w \in Workers, HasRunningRun(w) PROVE IInv'
  <2>1. ClaimInv'
    BY <1>3 DEF HasRunningRun, ClaimInv, Locked, Running
  <2>2. LiveInv'
    BY <1>3 DEF HasRunningRun, LiveInv, Budget
  <2>3. RunInv'
    BY <1>3 DEF HasRunningRun, RunInv
  <2>4. OneLiveExecution'
    BY <1>3 DEF HasRunningRun, OneLiveExecution
  <2>5. QED
    BY <2>1, <2>2, <2>3, <2>4
<1>4. ASSUME NEW w \in Workers, AbortClaim(w) PROVE IInv'
  <2>1. ClaimInv'
    BY <1>4 DEF AbortClaim, Rest, Unlock, ClaimInv, Locked, Running
  <2>2. LiveInv'
    BY <1>4 DEF AbortClaim, Rest, Unlock, LiveInv, Budget
  <2>3. RunInv'
    BY <1>4 DEF AbortClaim, Rest, Unlock, RunInv
  <2>4. OneLiveExecution'
    BY <1>4 DEF AbortClaim, Rest, Unlock, OneLiveExecution
  <2>5. QED
    BY <2>1, <2>2, <2>3, <2>4
<1>5. ASSUME NEW w \in Workers, NEW r \in Runs, CommitClaim(w, r) PROVE IInv'
  <2>1. ClaimInv'
    BY <1>5 DEF CommitClaim, Rest, Unlock, ClaimInv, Locked, Running
  <2>2. LiveInv'
    <3> SUFFICES ASSUME NEW v \in Workers, Live(v)'
                 PROVE  /\ job'[v] \notin deleted' =>
                               status'[run'[v]] = "running" /\ jobOf'[run'[v]] = job'[v]
                        /\ age'[run'[v]] + left'[v] <= Budget(v)'
      BY DEF LiveInv
    <3>1. CASE v = w
      <4>1. /\ run'[v] = r /\ status'[r] = "running" /\ jobOf'[r] = job[w]
            /\ age'[r] = TxTime - left[w] /\ left'[v] = Timeout /\ attempt'[v] = 1
            /\ pc'[v] = "dispatch" /\ job'[v] = job[w]
        BY <1>5, <3>1 DEF CommitClaim, Rest
      <4>2. left[w] \in 0 .. TxTime
        BY <1>5 DEF CommitClaim
      <4>3. 1 \in 1 .. MaxRetries
        OBVIOUS
      <4>4. QED
        BY <4>1, <4>2, <4>3, SpentTime DEF Budget
    <3>2. CASE v # w
      <4>1. /\ pc'[v] = pc[v] /\ job'[v] = job[v] /\ run'[v] = run[v]
            /\ attempt'[v] = attempt[v] /\ left'[v] = left[v]
        BY <1>5, <3>2 DEF CommitClaim, Rest
      <4>2. run[v] # r /\ run[v] \in Runs
        BY <1>5, <4>1 DEF CommitClaim, Unused
      <4>3. /\ status'[run[v]] = status[run[v]] /\ jobOf'[run[v]] = jobOf[run[v]]
            /\ age'[run[v]] = age[run[v]] /\ deleted' = deleted
        BY <1>5, <4>2 DEF CommitClaim
      <4>4. QED
        BY <4>1, <4>3 DEF LiveInv, Budget
    <3>3. QED
      BY <3>1, <3>2
  <2>3. RunInv'
    BY <1>5, Nulls DEF CommitClaim, Unused, Rest, RunInv
  <2>4. OneLiveExecution'
    <3>1. ASSUME NEW v \in Workers, v # w
          PROVE  /\ pc'[v] = pc[v] /\ job'[v] = job[v]
                 /\ Live(v) /\ pc[w] = "vacant" => job[v] # job[w]
      <4>1. pc'[v] = pc[v] /\ job'[v] = job[v]
        BY <1>5, <3>1 DEF CommitClaim, Rest
      <4>2. Live(v) /\ pc[w] = "vacant" => job[v] # job[w]
        BY <1>5, LiveIsRunning DEF CommitClaim, ClaimInv
      <4>3. QED
        BY <4>1, <4>2
    <3>2. Live(w)' => pc[w] = "vacant" /\ job'[w] = job[w]
      BY <1>5 DEF CommitClaim, Rest
    <3>3. ASSUME NEW u \in Workers, NEW v \in Workers, u # v, Live(u)', Live(v)'
          PROVE  job'[u] # job'[v]
      <4>1. CASE u # w /\ v # w
        BY <3>1, <3>3, <4>1 DEF OneLiveExecution
      <4>2. CASE u = w \/ v = w
        BY <3>1, <3>2, <3>3, <4>2
      <4>3. QED
        BY <4>1, <4>2
    <3>4. QED
      BY <3>3 DEF OneLiveExecution
  <2>5. QED
    BY <2>1, <2>2, <2>3, <2>4
<1>6. ASSUME NEW w \in Workers, DispatchEnds(w) PROVE IInv'
  <2>1. ClaimInv'
    BY <1>6 DEF DispatchEnds, ClaimInv, Locked, Running
  <2>2. LiveInv'
    <3> SUFFICES ASSUME NEW v \in Workers, Live(v)'
                 PROVE  /\ job'[v] \notin deleted' =>
                               status'[run'[v]] = "running" /\ jobOf'[run'[v]] = job'[v]
                        /\ age'[run'[v]] + left'[v] <= Budget(v)'
      BY DEF LiveInv
    <3>1. /\ UNCHANGED <<status, jobOf, age, deleted, job, run, attempt>>
          /\ v # w => pc'[v] = pc[v] /\ left'[v] = left[v]
      BY <1>6 DEF DispatchEnds
    <3>2. CASE v # w
      BY <3>1, <3>2 DEF LiveInv, Budget
    <3>3. CASE v = w
      <4>1. /\ pc[w] = "dispatch" /\ pc'[w] = "backoff" /\ left'[w] = Backoff[attempt[w]]
            /\ attempt[w] \in 1 .. MaxRetries
        BY <1>6, <3>3 DEF DispatchEnds
      <4>2. age[run[w]] \in Nat /\ left[w] \in Nat
        BY <4>1
      <4>3. age[run[w]] + left[w] <= TxTime + (Spent[attempt[w] - 1] + Timeout)
        BY <4>1 DEF LiveInv, Budget
      <4>4. Budget(w)' = TxTime + Spent[attempt[w]]
        BY <3>1, <4>1 DEF Budget
      <4>5. age[run[w]] + Backoff[attempt[w]] <= Budget(w)'
        BY <4>1, <4>2, <4>3, <4>4, SpentTime
      <4>6. QED
        BY <3>1, <3>3, <4>1, <4>5 DEF LiveInv
    <3>4. QED
      BY <3>2, <3>3
  <2>3. RunInv'
    BY <1>6 DEF DispatchEnds, RunInv
  <2>4. OneLiveExecution'
    BY <1>6 DEF DispatchEnds, OneLiveExecution
  <2>5. QED
    BY <2>1, <2>2, <2>3, <2>4
<1>7. ASSUME NEW w \in Workers, BackoffEnds(w) PROVE IInv'
  <2>1. ClaimInv'
    BY <1>7 DEF BackoffEnds, ClaimInv, Locked, Running
  <2>2. LiveInv'
    <3> SUFFICES ASSUME NEW v \in Workers, Live(v)'
                 PROVE  /\ job'[v] \notin deleted' =>
                               status'[run'[v]] = "running" /\ jobOf'[run'[v]] = job'[v]
                        /\ age'[run'[v]] + left'[v] <= Budget(v)'
      BY DEF LiveInv
    <3>1. /\ UNCHANGED <<status, jobOf, age, deleted, job, run>>
          /\ v # w => pc'[v] = pc[v] /\ left'[v] = left[v] /\ attempt'[v] = attempt[v]
      BY <1>7 DEF BackoffEnds
    <3>2. CASE v # w
      BY <3>1, <3>2 DEF LiveInv, Budget
    <3>3. CASE v = w
      <4>1. /\ pc[w] = "backoff" /\ left[w] = 0 /\ pc'[w] = "dispatch" /\ left'[w] = Timeout
            /\ attempt[w] \in 1 .. MaxRetries /\ attempt'[w] = attempt[w] + 1
            /\ age[run[w]] \in Nat
        BY <1>7 DEF BackoffEnds
      <4>2. age[run[w]] <= TxTime + Spent[attempt[w]]
        BY <4>1 DEF LiveInv, Budget
      <4>3. attempt'[w] - 1 = attempt[w]
        BY <4>1
      <4>4. Budget(w)' = TxTime + (Spent[attempt[w]] + Timeout)
        BY <4>1, <4>3 DEF Budget
      <4>5. age[run[w]] + Timeout <= Budget(w)'
        BY <4>1, <4>2, <4>4, SpentTime
      <4>6. QED
        BY <3>1, <3>3, <4>1, <4>5 DEF LiveInv
    <3>4. QED
      BY <3>2, <3>3
  <2>3. RunInv'
    BY <1>7 DEF BackoffEnds, RunInv
  <2>4. OneLiveExecution'
    BY <1>7 DEF BackoffEnds, OneLiveExecution
  <2>5. QED
    BY <2>1, <2>2, <2>3, <2>4
<1>8. ASSUME NEW w \in Workers, FinishRun(w) PROVE IInv'
  <2>1. ClaimInv'
    BY <1>8 DEF FinishRun, Rest, Close, ClaimInv, Locked, Running
  <2>2. LiveInv'
    <3> SUFFICES ASSUME NEW v \in Workers, Live(v)'
                 PROVE  /\ job'[v] \notin deleted' =>
                               status'[run'[v]] = "running" /\ jobOf'[run'[v]] = job'[v]
                        /\ age'[run'[v]] + left'[v] <= Budget(v)'
      BY DEF LiveInv
    <3>1. /\ v # w /\ pc'[v] = pc[v] /\ job'[v] = job[v] /\ run'[v] = run[v]
          /\ attempt'[v] = attempt[v] /\ left'[v] = left[v] /\ deleted' = deleted
      BY <1>8 DEF FinishRun, Rest
    <3>2. run[v] \in Runs /\ run[v] # run[w]
      BY <1>8, <3>1, Nulls DEF FinishRun, RunInv
    <3>3. /\ status'[run[v]] = status[run[v]] /\ jobOf'[run[v]] = jobOf[run[v]]
          /\ age'[run[v]] = age[run[v]]
      BY <1>8, <3>2 DEF FinishRun, Close
    <3>4. QED
      BY <3>1, <3>3 DEF LiveInv, Budget
  <2>3. RunInv'
    BY <1>8 DEF FinishRun, Rest, Close, RunInv
  <2>4. OneLiveExecution'
    BY <1>8 DEF FinishRun, Rest, Close, OneLiveExecution
  <2>5. QED
    BY <2>1, <2>2, <2>3, <2>4
<1>9. ASSUME NEW w \in Workers, Panic(w) PROVE IInv'
  <2>1. ClaimInv'
    BY <1>9 DEF Panic, Rest, ClaimInv, Locked, Running
  <2>2. LiveInv'
    BY <1>9 DEF Panic, Rest, LiveInv, Budget
  <2>3. RunInv'
    BY <1>9 DEF Panic, Rest, RunInv
  <2>4. OneLiveExecution'
    BY <1>9 DEF Panic, Rest, OneLiveExecution
  <2>5. QED
    BY <2>1, <2>2, <2>3, <2>4
<1>10. ASSUME NEW j \in Jobs, DeleteJob(j) PROVE IInv'
  <2>1. ClaimInv'
    BY <1>10 DEF DeleteJob, Free, ClaimInv, Locked, Running
  <2>2. LiveInv'
    <3> SUFFICES ASSUME NEW v \in Workers, Live(v)'
                 PROVE  /\ job'[v] \notin deleted' =>
                               status'[run'[v]] = "running" /\ jobOf'[run'[v]] = job'[v]
                        /\ age'[run'[v]] + left'[v] <= Budget(v)'
      BY DEF LiveInv
    <3>1. /\ UNCHANGED <<pc, job, run, attempt, left>>
          /\ run[v] \in Runs /\ left[v] \in Nat
      BY <1>10 DEF DeleteJob
    <3>2. job[v] \notin deleted' => status'[run[v]] = "running" /\ jobOf'[run[v]] = job[v]
      BY <1>10, <3>1 DEF DeleteJob, Free, LiveInv
    <3>3. age'[run[v]] <= age[run[v]] /\ age[run[v]] \in Nat /\ age'[run[v]] \in Nat
      BY <1>10, <3>1 DEF DeleteJob, Free
    <3>4. age[run[v]] + left[v] <= Budget(v) /\ Budget(v)' = Budget(v) /\ Budget(v) \in Nat
      <4>1. attempt[v] \in 1 .. MaxRetries
        BY <3>1
      <4>2. QED
        BY <3>1, <4>1, SpentTime DEF LiveInv, Budget
    <3>5. QED
      BY <3>1, <3>2, <3>3, <3>4
  <2>3. RunInv'
    BY <1>10 DEF DeleteJob, Free, RunInv
  <2>4. OneLiveExecution'
    BY <1>10 DEF DeleteJob, Free, OneLiveExecution
  <2>5. QED
    BY <2>1, <2>2, <2>3, <2>4
<1>11. ASSUME NEW R \in Replicas, Crash(R) PROVE IInv'
  <2>1. ClaimInv'
    BY <1>11 DEF Crash, Dies, Rest, Unlock, ClaimInv, Locked, Running
  <2>2. LiveInv'
    BY <1>11 DEF Crash, Dies, Rest, Unlock, LiveInv, Budget
  <2>3. RunInv'
    BY <1>11 DEF Crash, Dies, Rest, Unlock, RunInv
  <2>4. OneLiveExecution'
    BY <1>11 DEF Crash, Dies, Rest, Unlock, OneLiveExecution
  <2>5. QED
    BY <2>1, <2>2, <2>3, <2>4
<1>12. ASSUME NEW R \in Replicas, Shutdown(R) PROVE IInv'
  <2>1. ClaimInv'
    BY <1>12 DEF Shutdown, ClaimInv, Locked, Running
  <2>2. LiveInv'
    BY <1>12 DEF Shutdown, LiveInv, Budget
  <2>3. RunInv'
    BY <1>12 DEF Shutdown, RunInv
  <2>4. OneLiveExecution'
    BY <1>12 DEF Shutdown, OneLiveExecution
  <2>5. QED
    BY <2>1, <2>2, <2>3, <2>4
<1>13. ASSUME NEW R \in Replicas, Exit(R) PROVE IInv'
  <2>1. ClaimInv'
    BY <1>13 DEF Exit, Dies, Rest, Unlock, ClaimInv, Locked, Running
  <2>2. LiveInv'
    BY <1>13 DEF Exit, Dies, Rest, Unlock, LiveInv, Budget
  <2>3. RunInv'
    BY <1>13 DEF Exit, Dies, Rest, Unlock, RunInv
  <2>4. OneLiveExecution'
    BY <1>13 DEF Exit, Dies, Rest, Unlock, OneLiveExecution
  <2>5. QED
    BY <2>1, <2>2, <2>3, <2>4
<1>14. CASE PurgeOldRuns
  <2>1. ClaimInv'
    BY <1>14 DEF PurgeOldRuns, Free, ClaimInv, Locked, Running
  <2>2. LiveInv'
    <3> SUFFICES ASSUME NEW v \in Workers, Live(v)'
                 PROVE  /\ job'[v] \notin deleted' =>
                               status'[run'[v]] = "running" /\ jobOf'[run'[v]] = job'[v]
                        /\ age'[run'[v]] + left'[v] <= Budget(v)'
      BY DEF LiveInv
    <3>1. /\ UNCHANGED <<pc, job, run, attempt, left>>
          /\ run[v] \in Runs /\ left[v] \in Nat
      BY <1>14 DEF PurgeOldRuns
    <3>2. job[v] \notin deleted' => status'[run[v]] = "running" /\ jobOf'[run[v]] = job[v]
      BY <1>14, <3>1 DEF PurgeOldRuns, Free, LiveInv
    <3>3. age'[run[v]] <= age[run[v]] /\ age[run[v]] \in Nat /\ age'[run[v]] \in Nat
      BY <1>14, <3>1 DEF PurgeOldRuns, Free
    <3>4. age[run[v]] + left[v] <= Budget(v) /\ Budget(v)' = Budget(v) /\ Budget(v) \in Nat
      <4>1. attempt[v] \in 1 .. MaxRetries
        BY <3>1
      <4>2. QED
        BY <3>1, <4>1, SpentTime DEF LiveInv, Budget
    <3>5. QED
      BY <3>1, <3>2, <3>3, <3>4
  <2>3. RunInv'
    BY <1>14 DEF PurgeOldRuns, Free, RunInv
  <2>4. OneLiveExecution'
    BY <1>14 DEF PurgeOldRuns, Free, OneLiveExecution
  <2>5. QED
    BY <2>1, <2>2, <2>3, <2>4
<1>15. CASE Pass
  <2>1. ClaimInv'
    BY <1>15 DEF Pass, ClaimInv, Locked, Running
  <2>2. LiveInv'
    <3> SUFFICES ASSUME NEW v \in Workers, Live(v)'
                 PROVE  /\ job'[v] \notin deleted' =>
                               status'[run'[v]] = "running" /\ jobOf'[run'[v]] = job'[v]
                        /\ age'[run'[v]] + left'[v] <= Budget(v)'
      BY DEF LiveInv
    <3>1. /\ UNCHANGED <<pc, job, run, attempt, status, jobOf, deleted>>
          /\ run[v] \in Runs /\ left[v] \in Nat /\ left[v] > 0 /\ left'[v] = left[v] - 1
          /\ attempt[v] \in 1 .. MaxRetries
      BY <1>15 DEF Pass
    <3>2. age'[run[v]] <= age[run[v]] + 1 /\ age[run[v]] \in Nat /\ age'[run[v]] \in Nat
      BY <1>15, <3>1 DEF Pass
    <3>3. age[run[v]] + left[v] <= Budget(v) /\ Budget(v)' = Budget(v) /\ Budget(v) \in Nat
      BY <3>1, SpentTime DEF LiveInv, Budget
    <3>4. QED
      BY <3>1, <3>2, <3>3 DEF LiveInv
  <2>3. RunInv'
    BY <1>15 DEF Pass, RunInv
  <2>4. OneLiveExecution'
    BY <1>15 DEF Pass, OneLiveExecution
  <2>5. QED
    BY <2>1, <2>2, <2>3, <2>4
<1>16. CASE UNCHANGED vars
  BY <1>16 DEF vars, ClaimInv, LiveInv, RunInv, OneLiveExecution, Locked, Running, Budget
<1>17. QED
  BY <1>1, <1>2, <1>3, <1>4, <1>5, <1>6, <1>7, <1>8, <1>9, <1>10, <1>11, <1>12,
     <1>13, <1>14, <1>15, <1>16 DEF Next, ClaimStep, ExecuteStep

LEMMA InitInductive == Init => IInv
<1>1. Init => TypeOK
  BY InitType
<1>2. ASSUME Init PROVE ClaimInv /\ LiveInv /\ RunInv /\ OneLiveExecution
  BY <1>2 DEF Init, ClaimInv, LiveInv, RunInv, OneLiveExecution, Locked
<1>3. QED
  BY <1>1, <1>2 DEF IInv

\* The slot of a job is checked under its lock, the row of a live execution is
\* younger than the window, and no two workers share a row.
THEOREM Inductive == Spec => []IInv
<1>1. Init => IInv
  BY InitInductive
<1>2. IInv /\ [Next]_vars => IInv'
  BY NextInductive
<1>3. QED
  BY <1>1, <1>2, PTL DEF Spec

\* A job is never executed twice at the same time.
THEOREM OneExecution == Spec => []OneLiveExecution
<1>1. IInv => OneLiveExecution
  BY DEF IInv
<1>2. QED
  BY <1>1, Inductive, PTL

-----------------------------------------------------------------------------
(* Rows that say running *)

LEMMA NextBacked == TypeOK /\ BackedInv /\ [Next]_vars => BackedInv'
<1> SUFFICES ASSUME TypeOK, BackedInv, [Next]_vars PROVE BackedInv'
  OBVIOUS
<1> USE Timers DEF TypeOK, RowsOK, WorkersOK, ReplicasOK, BackedInv
<1>1. ASSUME NEW w \in Workers, NEW j \in Jobs, BeginClaim(w, j) PROVE BackedInv'
  BY <1>1 DEF BeginClaim
<1>2. ASSUME NEW w \in Workers, LockJobForRun(w) PROVE BackedInv'
  BY <1>2 DEF LockJobForRun
<1>3. ASSUME NEW w \in Workers, HasRunningRun(w) PROVE BackedInv'
  BY <1>3 DEF HasRunningRun
<1>4. ASSUME NEW w \in Workers, AbortClaim(w) PROVE BackedInv'
  BY <1>4 DEF AbortClaim, Rest, May
<1>5. ASSUME NEW w \in Workers, NEW r \in Runs, CommitClaim(w, r) PROVE BackedInv'
  BY <1>5 DEF CommitClaim, Rest, May, Unused
<1>6. ASSUME NEW w \in Workers, DispatchEnds(w) PROVE BackedInv'
  BY <1>6 DEF DispatchEnds
<1>7. ASSUME NEW w \in Workers, BackoffEnds(w) PROVE BackedInv'
  BY <1>7 DEF BackoffEnds
<1>8. ASSUME NEW w \in Workers, FinishRun(w) PROVE BackedInv'
  BY <1>8 DEF FinishRun, Rest, May, Close
<1>9. ASSUME NEW w \in Workers, Panic(w) PROVE BackedInv'
  BY <1>9 DEF Panic, Rest, May
<1>10. ASSUME NEW j \in Jobs, DeleteJob(j) PROVE BackedInv'
  BY <1>10 DEF DeleteJob, Free
<1>11. ASSUME NEW R \in Replicas, Crash(R) PROVE BackedInv'
  BY <1>11 DEF Crash, Dies
<1>12. ASSUME NEW R \in Replicas, Shutdown(R) PROVE BackedInv'
  BY <1>12 DEF Shutdown
<1>13. ASSUME NEW R \in Replicas, Exit(R) PROVE BackedInv'
  BY <1>13 DEF Exit, Dies
<1>14. CASE PurgeOldRuns
  BY <1>14 DEF PurgeOldRuns, Free
<1>15. CASE Pass
  BY <1>15 DEF Pass
<1>16. CASE UNCHANGED vars
  BY <1>16 DEF vars
<1>17. QED
  BY <1>1, <1>2, <1>3, <1>4, <1>5, <1>6, <1>7, <1>8, <1>9, <1>10, <1>11, <1>12,
     <1>13, <1>14, <1>15, <1>16 DEF Next, ClaimStep, ExecuteStep

\* As long as nothing goes wrong and no replica is shut down, a row that says
\* running is that of an execution that will close it.
THEOREM RunningIsBacked == Spec => []RunningRowIsBacked
<1>1. Init => BackedInv
  BY DEF Init, BackedInv
<1>2. TypeOK /\ BackedInv /\ [Next]_vars => BackedInv'
  BY NextBacked
<1>3. BackedInv => RunningRowIsBacked
  BY DEF BackedInv, RunningRowIsBacked
<1>4. QED
  BY <1>1, <1>2, <1>3, TypeCorrect, PTL DEF Spec

=============================================================================
