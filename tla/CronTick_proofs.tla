---------------------------- MODULE CronTick_proofs ----------------------------
(***************************************************************************)
(* Proofs about CronTick, for every set of jobs, replicas and schedules:   *)
(* an instant that comes due is fired once at most, whatever replicas tick *)
(* at the same time and whatever the API edits meanwhile.                  *)
(***************************************************************************)
EXTENDS CronTick, TLAPS

USE DEF jobVars, history, NextRunAt, NextRun, Often, Fates, Claimed, Ticking, Open,
        ToFire, NoRows, ReleaseRows, ForgetBatch, MoveOn, TakesOn, OnceMore, Claim,
        Writable, NewInstant, SetNext

LEMMA InitInductive == Init => IInv
BY ConstantsAssumption DEF Init, IInv, TypeOK, ClaimInv, InstantInv, Taken, FiredOncePerInstant

LEMMA NextType == TypeOK /\ [Next]_vars => TypeOK'
<1> SUFFICES ASSUME TypeOK, [Next]_vars PROVE TypeOK'
  OBVIOUS
<1> USE DEF TypeOK
<1>1. ASSUME NEW j \in Jobs, ComesDue(j) PROVE TypeOK'
  BY <1>1 DEF ComesDue
<1>2. ASSUME NEW j \in Jobs, NEW s \in Schedules, CreateJob(j, s) PROVE TypeOK'
  BY <1>2 DEF CreateJob
<1>3. ASSUME NEW j \in Jobs, NEW s \in Schedules, UpdateJob(j, s) PROVE TypeOK'
  BY <1>3 DEF UpdateJob
<1>4. ASSUME NEW j \in Jobs, PauseJob(j) PROVE TypeOK'
  BY <1>4 DEF PauseJob
<1>5. ASSUME NEW j \in Jobs, ResumeReads(j) PROVE TypeOK'
  BY <1>5 DEF ResumeReads
<1>6. ASSUME NEW j \in Jobs, ResumeWrites(j) PROVE TypeOK'
  <2>1. resuming[j] \in Schedules
    BY <1>6 DEF ResumeWrites
  <2>2. CASE row[j] = "live"
    <3>1. /\ enabled' = [enabled EXCEPT ![j] = TRUE]
          /\ SetNext(j, NextRun(resuming[j]), resuming[j])
      BY <1>6, <2>2 DEF ResumeWrites
    <3>2. /\ UNCHANGED <<row, schedule, rowLock, batch, committed>>
          /\ resuming' = [resuming EXCEPT ![j] = NoSchedule]
      BY <1>6 DEF ResumeWrites
    <3>3. QED
      BY <2>1, <3>1, <3>2
  <2>3. CASE row[j] # "live"
    BY <1>6, <2>3 DEF ResumeWrites
  <2>4. QED
    BY <2>2, <2>3
<1>7. ASSUME NEW j \in Jobs, DeleteJob(j) PROVE TypeOK'
  BY <1>7 DEF DeleteJob
<1>8. ASSUME NEW R \in Replicas, ClaimDueJobs(R) PROVE TypeOK'
  BY <1>8 DEF ClaimDueJobs
<1>9. ASSUME NEW R \in Replicas, CommitTick(R) PROVE TypeOK'
  BY <1>9 DEF CommitTick
<1>10. ASSUME NEW R \in Replicas, FailTick(R) PROVE TypeOK'
  BY <1>10 DEF FailTick
<1>11. ASSUME NEW R \in Replicas, Crash(R) PROVE TypeOK'
  BY <1>11 DEF Crash
<1>14. ASSUME NEW R \in Replicas, CommitUnheard(R) PROVE TypeOK'
  BY <1>14 DEF CommitUnheard
<1>15. ASSUME NEW R \in Replicas, NEW j \in Jobs, Fire(R, j) PROVE TypeOK'
  BY <1>15 DEF Fire
<1>12. CASE UNCHANGED vars
  BY <1>12 DEF vars
<1>13. QED
  BY <1>1, <1>2, <1>3, <1>4, <1>5, <1>6, <1>7, <1>8, <1>9, <1>10, <1>11, <1>12, <1>14, <1>15
     DEF Next, EditStep, TickStep

LEMMA NextInductive == IInv /\ [Next]_vars => IInv'
<1> SUFFICES ASSUME IInv, [Next]_vars PROVE IInv'
  OBVIOUS
<1>0. TypeOK /\ TypeOK'
  BY NextType DEF IInv
<1> USE <1>0, ConstantsAssumption DEF IInv, ClaimInv, InstantInv, Taken, FiredOncePerInstant, Due
<1>1. ASSUME NEW j \in Jobs, ComesDue(j) PROVE IInv'
  BY <1>1 DEF ComesDue, TypeOK
<1>2. ASSUME NEW j \in Jobs, NEW s \in Schedules, CreateJob(j, s) PROVE IInv'
  BY <1>2 DEF CreateJob, TypeOK
<1>3. ASSUME NEW j \in Jobs, NEW s \in Schedules, UpdateJob(j, s) PROVE IInv'
  BY <1>3 DEF UpdateJob, TypeOK
<1>4. ASSUME NEW j \in Jobs, PauseJob(j) PROVE IInv'
  BY <1>4 DEF PauseJob, TypeOK
<1>5. ASSUME NEW j \in Jobs, ResumeReads(j) PROVE IInv'
  BY <1>5 DEF ResumeReads, TypeOK
<1>6. ASSUME NEW j \in Jobs, ResumeWrites(j) PROVE IInv'
  <2>1. /\ rowLock[j] = NoReplica
        /\ UNCHANGED <<row, schedule, rowLock, batch, committed>>
    BY <1>6 DEF ResumeWrites
  <2>2. CASE row[j] = "live"
    <3>1. /\ enabled' = [enabled EXCEPT ![j] = TRUE]
          /\ SetNext(j, NextRun(resuming[j]), resuming[j])
      BY <1>6, <2>2 DEF ResumeWrites
    <3>2. \A k \in Jobs : k # j =>
            /\ enabled'[k] = enabled[k] /\ next'[k] = next[k] /\ nextOf'[k] = nextOf[k]
            /\ serves'[k] = serves[k] /\ fired'[k] = fired[k]
      BY <3>1 DEF TypeOK
    <3>3. /\ next'[j] = NextRun(resuming[j]) /\ nextOf'[j] = resuming[j]
          /\ serves'[j] = {} /\ fired'[j] = 0
      BY <3>1 DEF TypeOK
    <3>4. ClaimInv'
      BY <2>1, <3>2, <3>3 DEF TypeOK
    <3>5. InstantInv'
      BY <2>1, <3>2, <3>3
    <3>6. FiredOncePerInstant'
      BY <3>2, <3>3
    <3>7. QED
      BY <3>4, <3>5, <3>6
  <2>3. CASE row[j] # "live"
    BY <1>6, <2>1, <2>3 DEF ResumeWrites
  <2>4. QED
    BY <2>2, <2>3
<1>7. ASSUME NEW j \in Jobs, DeleteJob(j) PROVE IInv'
  BY <1>7 DEF DeleteJob, TypeOK
<1>8. ASSUME NEW R \in Replicas, ClaimDueJobs(R) PROVE IInv'
  BY <1>8 DEF ClaimDueJobs, TypeOK
<1>9. ASSUME NEW R \in Replicas, CommitTick(R) PROVE IInv'
  <2>1. /\ UNCHANGED <<row, enabled, schedule, batch, fired>>
        /\ ~committed[R] /\ committed' = [committed EXCEPT ![R] = TRUE]
        /\ \A j \in Jobs : rowLock'[j] = IF rowLock[j] = R THEN NoReplica ELSE rowLock[j]
    BY <1>9 DEF CommitTick
  <2>2. \A j \in Jobs : IF j \in Claimed(R)
          THEN /\ row[j] = "live" /\ next[j] \in {"due", "zero"} /\ batch[R][j] = schedule[j]
               /\ next'[j] = NextRun(schedule[j]) /\ nextOf'[j] = schedule[j]
               /\ serves'[j] = serves[j] \cup {R} /\ rowLock[j] = R
          ELSE next'[j] = next[j] /\ nextOf'[j] = nextOf[j] /\ serves'[j] = serves[j]
    BY <1>9 DEF CommitTick
  <2>3. ClaimInv'
    <3>1. ASSUME NEW Q \in Replicas, ~committed'[Q], NEW j \in Claimed(Q)'
          PROVE  rowLock'[j] = Q /\ Due(j)' /\ batch'[Q][j] = schedule'[j]
      <4>1. Q # R /\ ~committed[Q] /\ j \in Claimed(Q) /\ j \in Jobs
        BY <2>1, <3>1 DEF TypeOK
      <4>2. rowLock[j] = Q /\ Due(j) /\ batch[Q][j] = schedule[j]
        BY <4>1
      <4>3. j \notin Claimed(R)
        BY <2>2, <4>1, <4>2
      <4>4. QED
        BY <2>1, <2>2, <4>1, <4>2, <4>3
    <3>2. ASSUME NEW Q \in Replicas, NEW j \in Jobs, Q \in serves'[j]
          PROVE  j \in ToFire(Q)'
      <4>1. CASE Q = R
        <5>1. j \in Claimed(R)
          BY <2>1, <2>2, <3>2, <4>1
        <5>2. QED
          BY <2>1, <4>1, <5>1 DEF TypeOK
      <4>2. CASE Q # R
        <5>1. Q \in serves[j]
          BY <2>2, <3>2, <4>2
        <5>2. QED
          BY <2>1, <4>2, <5>1 DEF TypeOK
      <4>3. QED
        BY <4>1, <4>2
    <3>3. ASSUME NEW Q \in Replicas, committed'[Q] PROVE Ticking(Q)'
      BY <1>9, <2>1, <3>3 DEF CommitTick, TypeOK
    <3>4. QED
      BY <3>1, <3>2, <3>3
  <2>4. \A j \in Jobs : j \in Claimed(R) /\ schedule[j] \notin Unsatisfiable => ~Taken(j)
    BY <2>2
  <2>5. \A j \in Jobs : fired[j] \in 0 .. Often
    BY DEF TypeOK
  <2>6. InstantInv'
    <3>1. SUFFICES ASSUME NEW j \in Jobs
                   PROVE  /\ row'[j] = "live" /\ next'[j] = "due" => ~Taken(j)'
                          /\ row'[j] = "live" /\ next'[j] = "zero" => nextOf'[j] \in Unsatisfiable
                          /\ row'[j] = "live" /\ Taken(j)' => nextOf'[j] = schedule'[j]
                          /\ nextOf'[j] \notin Unsatisfiable =>
                                /\ fired'[j] > 0 => serves'[j] = {}
                                /\ \A P, Q \in serves'[j] : P = Q
      BY Zenon
    <3>2. CASE j \in Claimed(R)
      BY <2>1, <2>2, <2>4, <2>5, <3>2
    <3>3. CASE j \notin Claimed(R)
      BY <2>1, <2>2, <2>5, <3>3
    <3>4. QED
      BY <3>2, <3>3
  <2>7. FiredOncePerInstant'
    BY <2>1, <2>2, <2>4, <2>5
  <2>8. QED
    BY <2>3, <2>6, <2>7
<1>10. ASSUME NEW R \in Replicas, FailTick(R) PROVE IInv'
  BY <1>10 DEF FailTick, TypeOK
<1>11. ASSUME NEW R \in Replicas, Crash(R) PROVE IInv'
  BY <1>11 DEF Crash, TypeOK
<1>14. ASSUME NEW R \in Replicas, CommitUnheard(R) PROVE IInv'
  <2>1. /\ UNCHANGED <<row, enabled, schedule, committed, serves, fired>> /\ ~committed[R]
        /\ batch' = [batch EXCEPT ![R] = NoRows]
        /\ \A j \in Jobs : rowLock'[j] = IF rowLock[j] = R THEN NoReplica ELSE rowLock[j]
    BY <1>14 DEF CommitUnheard
  <2>2. \A j \in Jobs : IF j \in Claimed(R)
          THEN /\ row[j] = "live" /\ next[j] \in {"due", "zero"} /\ batch[R][j] = schedule[j]
               /\ next'[j] = NextRun(schedule[j]) /\ nextOf'[j] = schedule[j]
               /\ rowLock[j] = R
          ELSE next'[j] = next[j] /\ nextOf'[j] = nextOf[j]
    BY <1>14 DEF CommitUnheard
  <2>3. \A Q \in Replicas : Q # R => batch'[Q] = batch[Q]
    BY <2>1 DEF TypeOK
  <2>4. Claimed(R)' = {}
    BY <2>1 DEF TypeOK
  <2>5. ClaimInv'
    <3>1. ASSUME NEW Q \in Replicas, ~committed'[Q], NEW j \in Claimed(Q)'
          PROVE  rowLock'[j] = Q /\ Due(j)' /\ batch'[Q][j] = schedule'[j]
      <4>1. Q # R /\ ~committed[Q] /\ j \in Claimed(Q) /\ j \in Jobs
        BY <2>1, <2>3, <2>4, <3>1
      <4>2. rowLock[j] = Q /\ Due(j) /\ batch[Q][j] = schedule[j]
        BY <4>1
      <4>3. QED
        BY <2>1, <2>2, <2>3, <4>1, <4>2
    <3>2. \A Q \in Replicas, j \in Jobs : Q \in serves'[j] => j \in ToFire(Q)'
      BY <2>1, <2>3
    <3>3. \A Q \in Replicas : committed'[Q] => Ticking(Q)'
      BY <2>1, <2>3
    <3>4. QED
      BY <3>1, <3>2, <3>3
  <2>6. InstantInv'
    BY <2>1, <2>2 DEF TypeOK
  <2>7. FiredOncePerInstant'
    <3>1. \A j \in Jobs : j \in Claimed(R) /\ schedule[j] \notin Unsatisfiable => ~Taken(j)
      BY <2>2
    <3>2. \A j \in Jobs : fired[j] \in 0 .. Often
      BY DEF TypeOK
    <3>3. QED
      BY <2>1, <2>2, <3>1, <3>2
  <2>8. QED
    BY <2>5, <2>6, <2>7
<1>15. ASSUME NEW R \in Replicas, NEW j \in Jobs, Fire(R, j) PROVE IInv'
  <2>1. /\ UNCHANGED <<row, enabled, schedule, next, nextOf, rowLock>>
        /\ committed[R] /\ j \in Claimed(R)
        /\ \A Q \in Replicas : Q # R => batch'[Q] = batch[Q] /\ committed'[Q] = committed[Q]
        /\ batch'[R] = [batch[R] EXCEPT ![j] = NoSchedule]
        /\ committed'[R] = (ToFire(R) # {j})
    BY <1>15 DEF Fire, TypeOK
  <2>2. /\ \A k \in Jobs : k # j => serves'[k] = serves[k] /\ fired'[k] = fired[k]
        /\ serves'[j] = serves[j] \ {R}
        /\ fired'[j] = IF R \in serves[j] THEN OnceMore(fired[j]) ELSE fired[j]
    BY <1>15 DEF Fire, TypeOK
  <2>3. Claimed(R)' = Claimed(R) \ {j} /\ ToFire(R) = Claimed(R)
    BY <2>1 DEF TypeOK
  <2>4. \A k \in Jobs : serves[k] \subseteq Replicas /\ fired[k] \in 0 .. Often
    BY DEF TypeOK
  <2>5. ClaimInv'
    <3>1. \A Q \in Replicas : Q # R => Claimed(Q)' = Claimed(Q)
      BY <2>1
    <3>2. \A Q \in Replicas : Q # R => (committed'[Q] <=> committed[Q])
      BY <2>1
    <3>3. ~committed'[R] => Claimed(R)' = {}
      BY <2>1, <2>3
    <3>4. committed'[R] => Ticking(R)'
      <4>1. CASE Claimed(R) \ {j} = {}
        <5>1. Claimed(R) = {j}
          BY <2>1, <4>1
        <5>2. QED
          BY <2>1, <2>3, <5>1
      <4>2. CASE Claimed(R) \ {j} # {}
        BY <2>3, <4>2
      <4>3. QED
        BY <4>1, <4>2
    <3>5. ASSUME NEW Q \in Replicas, committed'[Q] PROVE Ticking(Q)'
      BY <3>1, <3>2, <3>4, <3>5
    <3>6. ASSUME NEW Q \in Replicas, ~committed'[Q], NEW k \in Claimed(Q)'
          PROVE  rowLock'[k] = Q /\ Due(k)' /\ batch'[Q][k] = schedule'[k]
      <4>1. Q # R /\ k \in Claimed(Q) /\ ~committed[Q]
        BY <3>1, <3>2, <3>3, <3>6
      <4>2. QED
        BY <2>1, <4>1
    <3>7. ASSUME NEW Q \in Replicas, NEW k \in Jobs, Q \in serves'[k] PROVE k \in ToFire(Q)'
      <4>1. Q \in serves[k] /\ ~(Q = R /\ k = j)
        BY <2>2, <3>7
      <4>2. k \in Claimed(Q) /\ committed[Q]
        BY <4>1
      <4>3. CASE Q = R
        <5>1. k \in Claimed(R)'
          BY <2>3, <4>1, <4>2, <4>3
        <5>2. committed'[R]
          BY <3>3, <5>1
        <5>3. QED
          BY <4>3, <5>1, <5>2
      <4>4. CASE Q # R
        BY <3>1, <3>2, <4>2, <4>4
      <4>5. QED
        BY <4>3, <4>4
    <3>8. QED
      BY <3>5, <3>6, <3>7
  <2>6. nextOf[j] \notin Unsatisfiable /\ R \in serves[j] => fired[j] = 0 /\ serves'[j] = {}
    BY <2>2, <2>4
  <2>7. Taken(j)' => Taken(j)
    BY <2>2, <2>4
  <2>8. InstantInv'
    BY <2>1, <2>2, <2>4, <2>6, <2>7
  <2>9. FiredOncePerInstant'
    BY <2>1, <2>2, <2>4, <2>6
  <2>10. QED
    BY <2>5, <2>8, <2>9
<1>12. CASE UNCHANGED vars
  BY <1>12 DEF vars
<1>13. QED
  BY <1>1, <1>2, <1>3, <1>4, <1>5, <1>6, <1>7, <1>8, <1>9, <1>10, <1>11, <1>12, <1>14, <1>15
     DEF Next, EditStep, TickStep

\* A claimed row is locked and stays as the tick read it.
THEOREM Inductive == Spec => []IInv
<1>1. Init => IInv
  BY InitInductive
<1>2. IInv /\ [Next]_vars => IInv'
  BY NextInductive
<1>3. QED
  BY <1>1, <1>2, PTL DEF Spec

\* Every variable of the tick keeps its type.
THEOREM TypeCorrect == Spec => []TypeOK
<1>1. IInv => TypeOK
  BY DEF IInv
<1>2. QED
  BY <1>1, Inductive, PTL

\* An instant that comes due is fired once at most.
THEOREM FiredOnce == Spec => []FiredOncePerInstant
<1>1. IInv => FiredOncePerInstant
  BY DEF IInv
<1>2. QED
  BY <1>1, Inductive, PTL

\* What a tick writes is the next run of the schedule the job has by then.
THEOREM TickIsCurrent == Spec => TickFollowsSchedule
<1>1. ASSUME IInv, [Next]_vars
      PROVE  [\A R \in Replicas, j \in Jobs :
                j \in Claimed(R) /\ MoveOn(R) => nextOf'[j] = schedule'[j]]_vars
  BY <1>1 DEF IInv, TypeOK, ClaimInv
<1>2. QED
  BY <1>1, Inductive, PTL DEF Spec, TickFollowsSchedule

\* No tick takes on a job that is paused or deleted when its transaction commits.
THEOREM PausedIsLeftAlone == Spec => PausedIsNotTaken
<1>1. ASSUME IInv, [Next]_vars
      PROVE  [\A R \in Replicas, j \in Jobs :
                j \in ToFire(R)' \ ToFire(R) => enabled[j] /\ row[j] = "live"]_vars
  <2> SUFFICES ASSUME NEW R \in Replicas, NEW j \in Jobs, j \in ToFire(R)' \ ToFire(R)
               PROVE  enabled[j] /\ row[j] = "live"
    OBVIOUS
  <2>1. TypeOK /\ ClaimInv
    BY <1>1 DEF IInv
  <2>2. ASSUME NEW Q \in Replicas, CommitTick(Q) PROVE enabled[j] /\ row[j] = "live"
    BY <2>1, <2>2 DEF CommitTick, TypeOK, ClaimInv, Due
  <2>3. ASSUME NEW Q \in Replicas,
               \/ ClaimDueJobs(Q) \/ CommitUnheard(Q) \/ FailTick(Q) \/ Crash(Q)
               \/ \E k \in Jobs : Fire(Q, k)
        PROVE  FALSE
    <3>1. CASE ClaimDueJobs(Q)
      BY <2>1, <3>1 DEF ClaimDueJobs, TypeOK, ClaimInv
    <3>2. CASE CommitUnheard(Q) \/ FailTick(Q) \/ Crash(Q)
      BY <2>1, <3>2 DEF CommitUnheard, FailTick, Crash, TypeOK
    <3>3. CASE \E k \in Jobs : Fire(Q, k)
      BY <2>1, <3>3 DEF Fire, TypeOK
    <3>4. QED
      BY <2>3, <3>1, <3>2, <3>3
  <2>4. ASSUME NEW k \in Jobs, ComesDue(k) \/ EditStep(k) PROVE FALSE
    BY <2>4 DEF ComesDue, EditStep, CreateJob, UpdateJob, PauseJob, ResumeReads, ResumeWrites, DeleteJob
  <2>5. CASE UNCHANGED vars
    BY <2>5 DEF vars
  <2>6. QED
    BY <1>1, <2>2, <2>3, <2>4, <2>5 DEF Next, TickStep
<1>2. QED
  BY <1>1, Inductive, PTL DEF Spec, PausedIsNotTaken

=============================================================================
