---------------------------- MODULE LivePool_proofs ----------------------------
(***************************************************************************)
(* The limit of the pool, that no process is forgotten, and that only an   *)
(* eviction or the end of the server drops a prompt in silence, for any    *)
(* number of conversations, processes and requests.                        *)
(***************************************************************************)
EXTENDS LivePool, FiniteSetTheorems, TLAPS

LEMMA InitInv == Init => IInv
  <1> SUFFICES ASSUME Init PROVE IInv
    OBVIOUS
  <1> USE ConstantsAssumption
  <1>1. TypeOK
    <2>1. lost \in [Instances -> SUBSET {"stopped", "failed", "silent"}]
      BY DEF Init
    <2>2. req \in [Requests -> Reqs]
      BY DEF Init, Reqs
    <2>3. asked \in 0 .. MaxPrompts /\ crashes \in 0 .. MaxCrashes
      BY DEF Init
    <2>4. live \in [Convs -> Instances \cup {None}] /\ conv \in [Instances -> Convs \cup {None}]
      BY DEF Init
    <2>5. /\ proc \in [Instances -> {"unborn", "alive", "doomed", "exited", "removing", "gone"}]
          /\ turn \in [Instances -> {"idle", "writing", "written"}]
          /\ queue \in [Instances -> Nat] /\ evicted \in [Instances -> BOOLEAN]
          /\ fate \in [Instances -> {"none", "reaped", "evicting", "tombed"}]
          /\ down \in BOOLEAN
      BY DEF Init
    <2> QED
      BY <2>1, <2>2, <2>3, <2>4, <2>5 DEF TypeOK
  <1>2. WithinLimit
    <2>1. Pooled = {}
      BY DEF Init, Pooled
    <2> QED
      BY <2>1, FS_EmptySet DEF WithinLimit
  <1>3. StartedInv /\ NoOrphan /\ QueueInv /\ NoSilentLoss
    BY DEF Init, StartedInv, NoOrphan, QueueInv, NoSilentLoss, Running, Idle
  <1> QED
    BY <1>1, <1>2, <1>3 DEF IInv

\* The pool grows by the one conversation whose entry is set.
LEMMA PoolGrows ==
    ASSUME TypeOK, ~Full, NEW c \in Convs, NEW i, live' = [live EXCEPT ![c] = i]
    PROVE  WithinLimit'
  <1> USE ConstantsAssumption
  <1>1. IsFiniteSet(Pooled) /\ Cardinality(Pooled) \in Nat
    BY FS_Subset, FS_CardinalityType DEF Pooled
  <1>2. IsFiniteSet(Pooled \cup {c}) /\ Cardinality(Pooled \cup {c}) <= Cardinality(Pooled) + 1
    BY <1>1, FS_AddElement
  <1>3. Pooled' \subseteq Pooled \cup {c}
    BY DEF Pooled, TypeOK
  <1>4. Cardinality(Pooled') <= Cardinality(Pooled \cup {c}) /\ Cardinality(Pooled') \in Nat
    BY <1>2, <1>3, FS_Subset, FS_CardinalityType
  <1>5. Cardinality(Pooled \cup {c}) \in Nat
    BY <1>2, FS_CardinalityType
  <1>6. Cardinality(Pooled) < MaxLive
    BY <1>1 DEF Full
  <1> QED
    BY <1>1, <1>2, <1>4, <1>5, <1>6 DEF WithinLimit

\* The pool shrinks, or stays as it is.
LEMMA PoolShrinks ==
    ASSUME TypeOK, WithinLimit, \A c \in Convs : live'[c] # None => live[c] # None
    PROVE  WithinLimit'
  <1> USE ConstantsAssumption
  <1>1. Pooled' \subseteq Pooled /\ IsFiniteSet(Pooled)
    BY FS_Subset DEF Pooled
  <1>2. Cardinality(Pooled') <= Cardinality(Pooled) /\ Cardinality(Pooled') \in Nat
        /\ Cardinality(Pooled) \in Nat
    BY <1>1, FS_Subset, FS_CardinalityType
  <1> QED
    BY <1>2 DEF WithinLimit

\* What Lose leaves is a history, and another one of the loss of one instance only.
LEMMA LossIsTyped ==
    ASSUME TypeOK, NEW i \in Instances, NEW some, NEW how \in {"stopped", "failed", "silent"},
           Lose(i, some, how)
    PROVE  /\ lost' \in [Instances -> SUBSET {"stopped", "failed", "silent"}]
           /\ \A j \in Instances : "silent" \in lost'[j] =>
                  \/ "silent" \in lost[j]
                  \/ j = i /\ some /\ how = "silent"
  BY DEF Lose, TypeOK

\* No action of a request breaks the invariant.
LEMMA ServeKeepsInv ==
    ASSUME IInv, NEW r \in Requests, Serve(r)
    PROVE  IInv'
  <1> USE ConstantsAssumption DEF IInv
  <1>1. CASE KillVictim(r)
    <2>0. req[r] \in [pc : {"victim"}, c : Convs, i : Instances]
      BY <1>1 DEF KillVictim, TypeOK, Reqs, Idle
    <2>1. TypeOK'
      BY <1>1, <2>0 DEF KillVictim, TypeOK, Kill, Goto, Reqs, turnVars
    <2>2. WithinLimit'
      BY <1>1, PoolShrinks DEF KillVictim
    <2>3. StartedInv' /\ QueueInv' /\ NoSilentLoss'
      BY <1>1 DEF KillVictim, TypeOK, Kill, Goto, StartedInv, QueueInv, NoSilentLoss, Running, turnVars
    <2>4. NoOrphan'
      BY <1>1 DEF KillVictim, TypeOK, Kill, Goto, NoOrphan
    <2> QED
      BY <2>1, <2>2, <2>3, <2>4
  <1>2. CASE StartFails(r)
    <2>1. TypeOK'
      BY <1>2 DEF StartFails, TypeOK, Goto, Reqs, Idle, procVars, turnVars
    <2>2. WithinLimit'
      BY <1>2, PoolShrinks DEF StartFails
    <2>3. StartedInv' /\ QueueInv' /\ NoSilentLoss' /\ NoOrphan'
      BY <1>2 DEF StartFails, TypeOK, Goto, StartedInv, QueueInv, NoSilentLoss, NoOrphan,
                  Running, Idle, procVars, turnVars
    <2> QED
      BY <2>1, <2>2, <2>3
  <1>3. ASSUME NEW i \in Instances, Start(r, i) PROVE IInv'
    <2>0. proc[i] = "unborn" /\ req[r] \in [pc : {"spawn"}, c : Convs]
      BY <1>3 DEF Start, NextInstance, Unborn, TypeOK, Reqs, Idle
    <2>1. TypeOK'
      BY <1>3, <2>0 DEF Start, TypeOK, Goto, Reqs, turnVars
    <2>2. WithinLimit'
      BY <1>3, PoolShrinks DEF Start
    <2>3. StartedInv'
      BY <1>3, <2>0 DEF Start, TypeOK, Goto, StartedInv
    <2>4. QueueInv' /\ NoSilentLoss'
      BY <1>3 DEF Start, QueueInv, NoSilentLoss, Running, turnVars
    <2>5. NoOrphan'
      BY <1>3, <2>0 DEF Start, TypeOK, Goto, NoOrphan
    <2> QED
      BY <2>1, <2>2, <2>3, <2>4, <2>5
  <1>4. CASE InsertLive(r)
    <2>0. req[r] \in [pc : {"started"}, c : Convs, i : Instances] /\ conv[req[r].i] = req[r].c
      BY <1>4 DEF InsertLive, TypeOK, Reqs, Idle, StartedInv
    <2>1. TypeOK'
      BY <1>4, <2>0 DEF InsertLive, TypeOK, Goto, Reqs, procVars, turnVars
    <2>2. WithinLimit'
      <3>1. CASE live' = live
        BY <3>1, PoolShrinks
      <3>2. CASE ~Full /\ live' = [live EXCEPT ![req[r].c] = req[r].i]
        BY <3>2, <2>0, PoolGrows
      <3> QED
        BY <1>4, <3>1, <3>2 DEF InsertLive
    <2>3. StartedInv' /\ QueueInv' /\ NoSilentLoss'
      BY <1>4, <2>0 DEF InsertLive, TypeOK, Goto, StartedInv, QueueInv, NoSilentLoss, Running,
                        procVars, turnVars
    <2>4. NoOrphan'
      <3> SUFFICES ASSUME NEW i \in Instances, proc'[i] = "alive"
                   PROVE  \/ live'[conv'[i]] = i
                          \/ fate'[i] # "none"
                          \/ \E q \in Requests :
                                 /\ req'[q].pc \in {"victim", "started", "twin", "surplus"}
                                 /\ req'[q].i = i
        BY DEF NoOrphan
      <3>0. proc' = proc /\ conv' = conv /\ fate' = fate
        BY <1>4 DEF InsertLive, procVars
      <3>1. CASE live[conv[i]] = i
        BY <1>4, <2>0, <3>0, <3>1 DEF InsertLive, TypeOK, StartedInv
      <3>2. CASE \E q \in Requests : q # r /\ req[q].pc \in {"victim", "started", "twin", "surplus"}
                                     /\ req[q].i = i
        <4>1. \A q \in Requests : q # r => req'[q] = req[q]
          BY <1>4 DEF InsertLive, Goto, TypeOK
        <4> QED
          BY <3>2, <4>1
      <3>3. CASE req[r].i = i
        BY <1>4, <2>0, <3>0, <3>3 DEF InsertLive, Goto, TypeOK
      <3> QED
        BY <3>0, <3>1, <3>2, <3>3 DEF NoOrphan
    <2> QED
      BY <2>1, <2>2, <2>3, <2>4
  <1>5. CASE KillTwin(r)
    <2>1. TypeOK'
      BY <1>5 DEF KillTwin, TypeOK, Kill, Goto, Reqs, Idle, turnVars
    <2>2. WithinLimit'
      BY <1>5, PoolShrinks DEF KillTwin
    <2>3. StartedInv' /\ QueueInv' /\ NoSilentLoss'
      BY <1>5 DEF KillTwin, TypeOK, Kill, Goto, StartedInv, QueueInv, NoSilentLoss, Running, turnVars
    <2>4. NoOrphan'
      BY <1>5 DEF KillTwin, TypeOK, Kill, Goto, NoOrphan
    <2> QED
      BY <2>1, <2>2, <2>3, <2>4
  <1>6. CASE KillSurplus(r)
    <2>1. TypeOK'
      BY <1>6 DEF KillSurplus, TypeOK, Kill, Goto, Reqs, Idle, turnVars
    <2>2. WithinLimit'
      BY <1>6, PoolShrinks DEF KillSurplus
    <2>3. StartedInv' /\ QueueInv' /\ NoSilentLoss'
      BY <1>6 DEF KillSurplus, TypeOK, Kill, Goto, StartedInv, QueueInv, NoSilentLoss, Running,
                  Idle, turnVars
    <2>4. NoOrphan'
      BY <1>6 DEF KillSurplus, TypeOK, Kill, Goto, NoOrphan
    <2> QED
      BY <2>1, <2>2, <2>3, <2>4
  <1>7. CASE Queue(r) \/ BeginTurn(r) \/ Write(r) \/ WriteFails(r)
    <2>0. req[r].i \in Instances /\ req[r].pc \in {"have", "writing"}
      BY <1>7 DEF Queue, BeginTurn, Write, WriteFails, TypeOK, Reqs, Idle
    <2>1. TypeOK'
      <3>1. CASE WriteFails(r)
        <4>1. lost' \in [Instances -> SUBSET {"stopped", "failed", "silent"}]
          BY <3>1, <2>0, LossIsTyped DEF WriteFails, AbortTurn, TypeOK
        <4> QED
          BY <3>1, <4>1, <2>0 DEF WriteFails, AbortTurn, TypeOK, Goto, Reqs, Idle, procVars
      <3>2. CASE Queue(r) \/ BeginTurn(r) \/ Write(r)
        BY <3>2, <2>0 DEF Queue, BeginTurn, Write, TypeOK, Goto, Reqs, Idle, procVars
      <3> QED
        BY <1>7, <3>1, <3>2
    <2>2. WithinLimit'
      BY <1>7, PoolShrinks DEF Queue, BeginTurn, Write, WriteFails
    <2>3. QueueInv'
      BY <1>7, <2>0 DEF Queue, BeginTurn, Write, WriteFails, AbortTurn, TypeOK, QueueInv, Running
    <2>4. StartedInv'
      BY <1>7, <2>0 DEF Queue, BeginTurn, Write, WriteFails, TypeOK, Goto, StartedInv,
                        Idle, procVars
    <2>5. NoOrphan'
      <3>1. /\ live' = live /\ proc' = proc /\ conv' = conv /\ fate' = fate
            /\ \A q \in Requests : q # r => req'[q] = req[q]
        BY <1>7 DEF Queue, BeginTurn, Write, WriteFails, TypeOK, Goto, procVars
      <3> QED
        BY <2>0, <3>1 DEF NoOrphan
    <2>6. NoSilentLoss'
      <3>1. \A i \in Instances : "silent" \in lost'[i] => "silent" \in lost[i]
        BY <1>7, <2>0, LossIsTyped DEF Queue, BeginTurn, Write, WriteFails, AbortTurn
      <3>2. evicted' = evicted /\ down' = down
        BY <1>7 DEF Queue, BeginTurn, Write, WriteFails, procVars
      <3> QED
        BY <3>1, <3>2 DEF NoSilentLoss
    <2> QED
      BY <2>1, <2>2, <2>3, <2>4, <2>5, <2>6
  <1> QED
    BY <1>1, <1>2, <1>3, <1>4, <1>5, <1>6, <1>7 DEF Serve

\* No other action breaks it.
LEMMA OthersKeepInv ==
    ASSUME IInv,
           \/ \E r \in Requests, c \in Convs : Lookup(r, c)
           \/ \E i \in Instances : TurnEnds(i) \/ Stop(i) \/ Exit(i) \/ End(i)
           \/ \E c \in Convs : Reap(c) \/ Evict(c)
           \/ ShutdownLive \/ Halt
           \/ UNCHANGED vars
    PROVE  IInv'
  <1> USE ConstantsAssumption DEF IInv
  <1>1. ASSUME NEW r \in Requests, NEW c \in Convs, Lookup(r, c) PROVE IInv'
    <2>1. TypeOK'
      BY <1>1 DEF Lookup, TypeOK, Goto, Reqs, Pooled, procVars, turnVars
    <2>2. WithinLimit'
      <3>1. \A d \in Convs : live'[d] # None => live[d] # None
        BY <1>1 DEF Lookup, TypeOK
      <3> QED
        BY <3>1, PoolShrinks
    <2>3. StartedInv' /\ QueueInv' /\ NoSilentLoss'
      BY <1>1 DEF Lookup, TypeOK, Goto, StartedInv, QueueInv, NoSilentLoss, Running,
                  procVars, turnVars
    <2>4. NoOrphan'
      <3>0. /\ proc' = proc /\ conv' = conv /\ fate' = fate /\ req[r] = Idle
            /\ \A q \in Requests : q # r => req'[q] = req[q]
        BY <1>1 DEF Lookup, Goto, TypeOK, procVars
      <3>1. CASE live' = live
        BY <3>0, <3>1 DEF NoOrphan, Idle
      <3>2. CASE \E v \in Pooled : /\ live' = [live EXCEPT ![v] = None]
                                   /\ Goto(r, [pc |-> "victim", c |-> c, i |-> live[v]])
        <4> PICK v \in Pooled : /\ live' = [live EXCEPT ![v] = None]
                                /\ Goto(r, [pc |-> "victim", c |-> c, i |-> live[v]])
          BY <3>2
        <4>1. req'[r].pc = "victim" /\ req'[r].i = live[v]
          BY DEF Goto, TypeOK
        <4>2. \A d \in Convs : d # v => live'[d] = live[d]
          BY DEF TypeOK
        <4> QED
          BY <3>0, <4>1, <4>2 DEF NoOrphan, Idle, TypeOK
      <3> QED
        BY <1>1, <3>1, <3>2 DEF Lookup
    <2> QED
      BY <2>1, <2>2, <2>3, <2>4
  <1>2. ASSUME NEW i \in Instances, TurnEnds(i) \/ Stop(i) PROVE IInv'
    <2>1. /\ lost' \in [Instances -> SUBSET {"stopped", "failed", "silent"}]
          /\ \A j \in Instances : "silent" \in lost'[j] => "silent" \in lost[j]
      <3>1. CASE lost' = lost
        BY <3>1 DEF TypeOK
      <3>2. CASE Lose(i, queue[i] > 1, "failed")
        BY <3>2, LossIsTyped
      <3>3. CASE Lose(i, TRUE, "stopped")
        BY <3>3, LossIsTyped
      <3> QED
        BY <1>2, <3>1, <3>2, <3>3 DEF TurnEnds, Stop
    <2>2. turn' \in [Instances -> {"idle", "writing", "written"}] /\ queue' \in [Instances -> Nat]
      <3>1. turn \in [Instances -> {"idle", "writing", "written"}] /\ queue \in [Instances -> Nat]
        BY DEF TypeOK
      <3>2. CASE TurnEnds(i)
        <4>1. queue[i] > 0 => queue[i] - 1 \in Nat
          BY <3>1
        <4> QED
          BY <3>1, <3>2, <4>1 DEF TurnEnds
      <3>3. CASE Stop(i)
        BY <3>1, <3>3 DEF Stop
      <3> QED
        BY <1>2, <3>2, <3>3
    <2>3. UNCHANGED <<live, procVars, fate, down, req, asked, crashes>>
      BY <1>2 DEF TurnEnds, Stop
    <2>4. TypeOK'
      BY <2>1, <2>2, <2>3 DEF TypeOK, procVars
    <2>5. WithinLimit'
      BY <2>3, PoolShrinks
    <2>6. StartedInv' /\ NoOrphan'
      BY <2>3 DEF StartedInv, NoOrphan, procVars
    <2>7. QueueInv'
      BY <1>2 DEF TurnEnds, Stop, TypeOK, QueueInv, Running
    <2>8. NoSilentLoss'
      BY <2>1, <2>3 DEF NoSilentLoss, procVars
    <2> QED
      BY <2>4, <2>5, <2>6, <2>7, <2>8
  <1>3. ASSUME NEW i \in Instances, Exit(i) PROVE IInv'
    <2>1. TypeOK'
      BY <1>3 DEF Exit, TypeOK, turnVars
    <2>2. WithinLimit'
      BY <1>3, PoolShrinks DEF Exit
    <2>3. StartedInv' /\ QueueInv' /\ NoSilentLoss' /\ NoOrphan'
      BY <1>3 DEF Exit, TypeOK, StartedInv, QueueInv, NoSilentLoss, NoOrphan, Running, turnVars
    <2> QED
      BY <2>1, <2>2, <2>3
  <1>4. ASSUME NEW i \in Instances, ClearTurn(i) PROVE IInv'
    <2>1. /\ lost' \in [Instances -> SUBSET {"stopped", "failed", "silent"}]
          /\ \A j \in Instances : "silent" \in lost'[j] =>
                 "silent" \in lost[j] \/ (j = i /\ evicted[i])
      <3>1. CASE Running(i) /\ ~evicted[i]
        BY <1>4, <3>1, LossIsTyped DEF ClearTurn, ClearAndTell
      <3>2. CASE ~Running(i) \/ evicted[i]
        <4>1. Lose(i, turn[i] = "written" \/ queue[i] > 0, "silent")
          BY <1>4, <3>2 DEF ClearTurn, ClearAndTell
        <4>2. turn[i] = "written" \/ queue[i] > 0 => Running(i)
          BY DEF QueueInv, Running
        <4> QED
          BY <3>2, <4>1, <4>2, LossIsTyped
      <3> QED
        BY <3>1, <3>2
    <2>2. TypeOK'
      BY <1>4, <2>1 DEF ClearTurn, ClearAndTell, TypeOK
    <2>3. WithinLimit'
      BY <1>4, PoolShrinks DEF ClearTurn, ClearAndTell
    <2>4. StartedInv' /\ QueueInv' /\ NoOrphan'
      BY <1>4 DEF ClearTurn, ClearAndTell, TypeOK, StartedInv, QueueInv, NoOrphan, Running
    <2>5. NoSilentLoss'
      BY <1>4, <2>1 DEF ClearTurn, ClearAndTell, NoSilentLoss
    <2> QED
      BY <2>2, <2>3, <2>4, <2>5
  <1>5. ASSUME NEW i \in Instances, removeLive(i) PROVE IInv'
    <2>1. TypeOK'
      BY <1>5 DEF removeLive, TypeOK, turnVars
    <2>2. WithinLimit'
      <3>1. \A d \in Convs : live'[d] # None => live[d] # None
        BY <1>5 DEF removeLive, TypeOK
      <3> QED
        BY <3>1, PoolShrinks
    <2>3. StartedInv' /\ QueueInv' /\ NoSilentLoss'
      BY <1>5 DEF removeLive, TypeOK, StartedInv, QueueInv, NoSilentLoss, Running, turnVars
    <2>4. NoOrphan'
      <3>1. \A j \in Instances : proc'[j] = "alive" =>
                j # i /\ proc[j] = "alive" /\ (live[conv[j]] = j => live'[conv[j]] = j)
        BY <1>5 DEF removeLive, TypeOK
      <3>2. conv' = conv /\ fate' = fate /\ req' = req
        BY <1>5 DEF removeLive
      <3> QED
        BY <3>1, <3>2 DEF NoOrphan
    <2> QED
      BY <2>1, <2>2, <2>3, <2>4
  <1>6. ASSUME NEW i \in Instances, Close(i) \/ Tomb(i) \/ Terminate(i) PROVE IInv'
    <2>1. TypeOK'
      BY <1>6 DEF Close, Tomb, Terminate, Kill, TypeOK, turnVars
    <2>2. WithinLimit'
      BY <1>6, PoolShrinks DEF Close, Tomb, Terminate
    <2>3. StartedInv' /\ QueueInv' /\ NoSilentLoss'
      <3>1. StartedInv'
        <4>1. conv' = conv /\ req' = req
          BY <1>6 DEF Close, Tomb, Terminate
        <4>2. \A j \in Instances : proc'[j] = "unborn" <=> proc[j] = "unborn"
          BY <1>6 DEF Close, Tomb, Terminate, Kill, TypeOK
        <4>3. \A q \in Requests : req[q].pc = "started" => req[q].i \in Instances
          BY DEF TypeOK, Reqs, Idle
        <4> QED
          BY <4>1, <4>2, <4>3 DEF StartedInv
      <3>2. QueueInv'
        BY <1>6 DEF Close, Tomb, Terminate, QueueInv, Running, turnVars
      <3>3. NoSilentLoss'
        BY <1>6 DEF Close, Tomb, Terminate, TypeOK, NoSilentLoss, turnVars
      <3> QED
        BY <3>1, <3>2, <3>3
    <2>4. NoOrphan'
      BY <1>6 DEF Close, Tomb, Terminate, Kill, TypeOK, NoOrphan
    <2> QED
      BY <2>1, <2>2, <2>3, <2>4
  <1>7. ASSUME NEW c \in Convs, NEW how \in {"reaped", "evicting"}, Take(c, how) PROVE IInv'
    <2>0. live[c] \in Instances
      BY <1>7 DEF Take, TypeOK
    <2>1. TypeOK'
      BY <1>7, <2>0 DEF Take, TypeOK, procVars, turnVars
    <2>2. WithinLimit'
      <3>1. \A d \in Convs : live'[d] # None => live[d] # None
        BY <1>7 DEF Take, TypeOK
      <3> QED
        BY <3>1, PoolShrinks
    <2>3. StartedInv' /\ QueueInv' /\ NoSilentLoss'
      BY <1>7 DEF Take, TypeOK, StartedInv, QueueInv, NoSilentLoss, Running, procVars, turnVars
    <2>4. NoOrphan'
      <3>1. fate'[live[c]] # "none" /\ \A j \in Instances : j # live[c] => fate'[j] = fate[j]
        BY <1>7, <2>0 DEF Take, TypeOK
      <3>2. \A d \in Convs : d # c => live'[d] = live[d]
        BY <1>7 DEF Take, TypeOK
      <3>3. proc' = proc /\ conv' = conv /\ req' = req
        BY <1>7 DEF Take, procVars
      <3> QED
        BY <2>0, <3>1, <3>2, <3>3 DEF NoOrphan, TypeOK, StartedInv
    <2> QED
      BY <2>1, <2>2, <2>3, <2>4
  <1>8. ASSUME UNCHANGED vars PROVE IInv'
    <2>1. TypeOK' /\ StartedInv' /\ QueueInv' /\ NoSilentLoss' /\ NoOrphan'
      BY <1>8 DEF vars, procVars, turnVars, TypeOK, StartedInv, QueueInv, NoSilentLoss, NoOrphan,
                  Running
    <2>2. WithinLimit'
      BY <1>8, PoolShrinks DEF vars
    <2> QED
      BY <2>1, <2>2
  <1>9. CASE ShutdownLive
    <2>1. TypeOK'
      BY <1>9 DEF ShutdownLive, TypeOK, procVars, turnVars
    <2>2. WithinLimit'
      BY <1>9, PoolShrinks DEF ShutdownLive
    <2>3. StartedInv' /\ QueueInv' /\ NoSilentLoss'
      BY <1>9 DEF ShutdownLive, StartedInv, QueueInv, NoSilentLoss, Running, procVars, turnVars
    <2>4. NoOrphan'
      BY <1>9 DEF ShutdownLive, TypeOK, StartedInv, NoOrphan, procVars
    <2> QED
      BY <2>1, <2>2, <2>3, <2>4
  <1>10. CASE Halt
    <2>1. TypeOK'
      BY <1>10 DEF Halt, TypeOK, Reqs
    <2>2. WithinLimit'
      BY <1>10, PoolShrinks DEF Halt
    <2>3. StartedInv' /\ QueueInv' /\ NoSilentLoss' /\ NoOrphan'
      BY <1>10 DEF Halt, TypeOK, StartedInv, QueueInv, NoSilentLoss, NoOrphan, Running, Idle
    <2> QED
      BY <2>1, <2>2, <2>3
  <1> QED
    BY <1>1, <1>2, <1>3, <1>4, <1>5, <1>6, <1>7, <1>8, <1>9, <1>10 DEF End, Reap, Evict

\* The invariant of the pool is inductive.
THEOREM Inductive == Spec => []IInv
  <1>1. IInv /\ [Next]_vars => IInv'
    <2> SUFFICES ASSUME IInv, [Next]_vars PROVE IInv'
      OBVIOUS
    <2>1. CASE \E r \in Requests : Serve(r)
      BY <2>1, ServeKeepsInv
    <2> QED
      BY <2>1, OthersKeepInv DEF Next
  <1> QED
    BY InitInv, <1>1, PTL DEF Spec

\* livepool.go: "cap rigido".
THEOREM LimitIsHard == Spec => []WithinLimit
  <1>1. IInv => WithinLimit
    BY DEF IInv
  <1> QED
    BY Inductive, <1>1, PTL

\* Every process that runs is found by somebody who uses or ends it.
THEOREM NoProcessIsForgotten == Spec => []NoOrphan
  <1>1. IInv => NoOrphan
    BY DEF IInv
  <1> QED
    BY Inductive, <1>1, PTL

\* A prompt is dropped in silence only by an eviction or the end of the server:
\* of any other that is given up, an event says that it or the turn it waited
\* for has failed, or Stop was asked.
THEOREM LossIsReported == Spec => []NoSilentLoss
  <1>1. IInv => NoSilentLoss
    BY DEF IInv
  <1> QED
    BY Inductive, <1>1, PTL

\* Type correctness.
THEOREM TypeCorrect == Spec => []TypeOK
  <1>1. IInv => TypeOK
    BY DEF IInv
  <1> QED
    BY Inductive, <1>1, PTL

=============================================================================
