--------------------------- MODULE BotInbound_proofs ---------------------------
(***************************************************************************)
(* Proofs about BotInbound, for every number of messages and goroutines:   *)
(* types, one burst at a time, none left behind, and, when a notification  *)
(* carries one message, that a row is closed only when it was handled.     *)
(***************************************************************************)
EXTENDS BotInbound, FiniteSetTheorems, TLAPS

USE DEF table, burst, queue, time, history, At, Workers, Executors

-----------------------------------------------------------------------------
(* What the steps do to the job of a goroutine *)

Same(v, w) ==
    /\ job'[v].texts = job[w].texts /\ job'[v].wamid = job[w].wamid
    /\ job'[v].rows = job[w].rows /\ job'[v].read = job[w].read

LEMMA GotoFacts ==
    ASSUME job \in [Executors -> Jobs], NEW w \in Executors,
           NEW pc \in {"model", "mark", "next"}, Goto(w, pc)
    PROVE  /\ job' \in [Executors -> Jobs]
           /\ \A v \in Executors \ {w} : job'[v] = job[v]
           /\ job'[w].pc = pc /\ job'[w].out = job[w].out /\ Same(w, w)
BY DEF Goto, Jobs, Same

LEMMA EndFacts ==
    ASSUME job \in [Executors -> Jobs], NEW w \in Executors, NEW out \in Outcomes, End(w, out)
    PROVE  /\ job' \in [Executors -> Jobs]
           /\ \A v \in Executors \ {w} : job'[v] = job[v]
           /\ job'[w].pc = "close" /\ job'[w].out = out /\ Same(w, w)
BY DEF End, Jobs, Same

LEMMA GivenFacts ==
    ASSUME job \in [Executors -> Jobs], NEW w \in Executors, NEW j \in Jobs,
           job' = [job EXCEPT ![w] = j]
    PROVE  /\ job' \in [Executors -> Jobs]
           /\ \A v \in Executors \ {w} : job'[v] = job[v]
           /\ job'[w] = j
OBVIOUS

LEMMA JobFacts ==
    ASSUME NEW t \in SUBSET Msgs, NEW m \in Msgs, NEW r \in SUBSET Msgs, NEW k \in 0..MaxFaults
    PROVE  /\ Job(t, m, r, k) \in Jobs
           /\ Job(t, m, r, k).pc = "begin" /\ Job(t, m, r, k).texts = t
           /\ Job(t, m, r, k).wamid = m /\ Job(t, m, r, k).rows = r
           /\ Job(t, m, r, k).read = k /\ Job(t, m, r, k).out = "ok"
BY DEF Job, Jobs, Outcomes

LEMMA RestFacts ==
    ASSUME job \in [Executors -> Jobs], NEW w \in Executors, job' = [job EXCEPT ![w] = Idle]
    PROVE  /\ job' \in [Executors -> Jobs]
           /\ \A v \in Executors \ {w} : job'[v] = job[v]
           /\ job'[w].pc = "idle" /\ job'[w].rows = {} /\ job'[w].out = "ok"
BY InboundAssumption DEF Idle, Jobs, Outcomes

LEMMA BurstFacts ==
    ASSUME buffer \in Seq(Msgs), buffer # <<>>
    PROVE  /\ ToSet(buffer) \in SUBSET Msgs /\ Last(buffer) \in ToSet(buffer)
           /\ combineInbound(buffer) = Job(ToSet(buffer), Last(buffer), ToSet(buffer), 0)
<1>1. Len(buffer) \in DOMAIN buffer
  OBVIOUS
<1>2. QED
  BY <1>1 DEF ToSet, Last, combineInbound

LEMMA AppendFacts ==
    ASSUME buffer \in Seq(Msgs), IsInjective(buffer), NEW m \in Msgs, m \notin ToSet(buffer),
           buffer' = Append(buffer, m)
    PROVE  /\ buffer' \in Seq(Msgs) /\ IsInjective(buffer')
           /\ ToSet(buffer') = ToSet(buffer) \cup {m}
<1>1. /\ buffer' \in Seq(Msgs) /\ Len(buffer') = Len(buffer) + 1 /\ Len(buffer) \in Nat
      /\ \A i \in 1 .. Len(buffer) : buffer'[i] = buffer[i]
      /\ buffer'[Len(buffer) + 1] = m
  OBVIOUS
<1>2. DOMAIN buffer' = 1 .. Len(buffer) + 1 /\ DOMAIN buffer = 1 .. Len(buffer)
  BY <1>1
<1>3. IsInjective(buffer')
  <2> SUFFICES ASSUME NEW i \in 1 .. Len(buffer) + 1, NEW j \in 1 .. Len(buffer) + 1,
                      buffer'[i] = buffer'[j]
               PROVE  i = j
    BY <1>2 DEF IsInjective
  <2>1. \A k \in 1 .. Len(buffer) : buffer[k] # m
    BY <1>2 DEF ToSet
  <2>2. QED
    BY <1>1, <1>2, <2>1 DEF IsInjective
<1>4. ToSet(buffer') = ToSet(buffer) \cup {m}
  <2>1. \A x : x \in ToSet(buffer') => x \in ToSet(buffer) \cup {m}
    BY <1>1, <1>2 DEF ToSet
  <2>2. \A x : x \in ToSet(buffer) \cup {m} => x \in ToSet(buffer')
    BY <1>1, <1>2 DEF ToSet
  <2>3. QED
    BY <2>1, <2>2
<1>5. QED
  BY <1>1, <1>3, <1>4

LEMMA NoBurst == ToSet(<<>>) = {} /\ IsInjective(<<>>) /\ <<>> \in Seq(Msgs)
BY DEF ToSet, IsInjective

-----------------------------------------------------------------------------
(* Types, counters and bursts *)

\* Recorded messages stay recorded, and are counted by a natural number.
LEMMA RecordedGrows ==
    ASSUME Recorded \subseteq Recorded'
    PROVE  /\ Cardinality(Recorded) \in Nat /\ Cardinality(Recorded)' \in Nat
           /\ Cardinality(Recorded) <= Cardinality(Recorded)'
           /\ Cardinality(Recorded)' <= Cardinality(Msgs)
<1>1. IsFiniteSet(Msgs) /\ Recorded \subseteq Msgs /\ Recorded' \subseteq Msgs
  BY InboundAssumption DEF Recorded
<1>2. IsFiniteSet(Recorded')
  BY <1>1, FS_Subset
<1>3. QED
  BY <1>1, <1>2, FS_Subset, FS_CardinalityType

LEMMA RecordCounts ==
    ASSUME NEW m \in Msgs, Recorded' = Recorded \cup {m}, m \notin Recorded
    PROVE  Cardinality(Recorded)' = Cardinality(Recorded) + 1
<1>1. IsFiniteSet(Recorded)
  BY InboundAssumption, FS_Subset DEF Recorded
<1>2. QED
  BY <1>1, FS_AddElement

\* Handle and Close: the goroutine keeps what it was given, the burst is left alone.
LEMMA EngineFacts ==
    ASSUME TypeOK, CountInv, NEW w \in Executors, Engine(w)
    PROVE  /\ job' \in [Executors -> Jobs]
           /\ \A v \in Executors \ {w} : job'[v] = job[v]
           /\ Same(w, w) /\ ~At(w, "idle") /\ ~At(w, "idle")'
           /\ job'[w].pc \in Handling => job[w].pc \in Handling
           /\ UNCHANGED <<burst, pel, todo, time>>
           /\ Recorded \subseteq Recorded'
<1> USE DEF Outcomes, Handling, Recorded
<1>0. job \in [Executors -> Jobs]
  BY DEF TypeOK
<1>1. CASE Duplicate(w) /\ Begin(w)
  BY <1>0, <1>1, EndFacts DEF Duplicate, Begin
<1>2. CASE Hold(w) /\ Begin(w)
  <2>1. job[w].wamid \in Msgs /\ row \in [Msgs -> {"none", "pending", "failed", "done"}]
    BY <1>2 DEF Hold, CountInv, TypeOK
  <2>2. QED
    BY <1>0, <1>2, <2>1, EndFacts DEF Hold, Begin
<1>3. CASE TakeUp(w) /\ Begin(w)
  BY <1>0, <1>3, GotoFacts DEF TakeUp, Begin
<1>4. CASE Respond(w)
  BY <1>0, <1>4, EndFacts, GotoFacts DEF Respond
<1>5. CASE MarcaRespondida(w)
  BY <1>0, <1>5, EndFacts DEF MarcaRespondida
<1>6. CASE HandleFails(w)
  BY <1>0, <1>6, EndFacts DEF HandleFails
<1>7. CASE Close(w)
  <2>1. Recorded \subseteq Recorded'
    BY <1>7 DEF Close, MarkDone, KeepHeld, MarkFailed
  <2>2. job[w].pc = "close" /\ Goto(w, "next") /\ UNCHANGED <<burst, pel, todo, time>>
    BY <1>7 DEF Close, MarkDone, KeepHeld, MarkFailed
  <2>3. QED
    BY <1>0, <2>1, <2>2, GotoFacts
<1>8. QED
  BY <1>1, <1>2, <1>3, <1>4, <1>5, <1>6, <1>7 DEF Engine, Handle, Begin

\* A goroutine that is at work goes on: bursts stay with whom they were.
LEMMA EngineKeepsBurst ==
    ASSUME TypeInv, NEW w \in Executors, Engine(w)
    PROVE  OneBurstAtATime'
<1>1. /\ \A v \in Executors \ {w} : job'[v] = job[v]
      /\ ~At(w, "idle") /\ ~At(w, "idle")' /\ processing' = processing
  BY EngineFacts DEF TypeInv
<1>2. \A v \in Executors : At(v, "idle")' = At(v, "idle")
  BY <1>1
<1>3. QED
  BY <1>1, <1>2 DEF TypeInv, OneBurstAtATime

\* What must be shown of a step of the engine, beside its jobs.
LEMMA EngineTypes ==
    ASSUME TypeInv, NEW w \in Executors, Engine(w),
           /\ row' \in [Msgs -> {"none", "pending", "failed", "done"}]
           /\ nextRetry' \in [Msgs -> {"backoff", "dawn", "past"}]
           /\ attempts' \in [Msgs -> Nat]
           /\ UNION {respondida', stream', handled', told'} \subseteq Msgs,
           /\ faults' \in 0..MaxFaults
           /\ \A m \in Msgs :
                (attempts[m] + Failures <= faults)'
    PROVE  TypeInv'
<1>1. /\ job' \in [Executors -> Jobs]
      /\ \A v \in Executors \ {w} : job'[v] = job[v]
      /\ Same(w, w)
      /\ job'[w].pc \in Handling => job[w].pc \in Handling
      /\ UNCHANGED <<burst, pel, todo, time>>
      /\ Recorded \subseteq Recorded'
  BY EngineFacts DEF TypeInv
<1>2. \A W : Failing(W)' \in {0, 1}
  BY DEF Failing
<1>b. Failures' \in Nat
  <2> HIDE DEF Failing
  <2>1. QED
    BY <1>2 DEF Failures
<1>3. MaxFaults \in Nat
  BY InboundAssumption
<1>4. attempts' \in [Msgs -> 0..MaxFaults]
  BY <1>b, <1>3
<1>5. \A v \in Workers : \A m1, m2 \in job'[v].rows : m1 = m2
  BY <1>1 DEF TypeInv, TypeOK, Same
<1>6. pel' \subseteq Msgs /\ timers' \in 0..Cardinality(Msgs) /\ {processing', night'} \subseteq BOOLEAN
  BY <1>1 DEF TypeInv, TypeOK
<1>7. TypeOK'
  BY <1>1, <1>4, <1>5, <1>6 DEF TypeInv, TypeOK
<1>8. timers' <= Cardinality(Recorded)'
  BY <1>1, RecordedGrows DEF TypeInv, TypeOK, CountInv
<1>9. \A v \in Executors : job'[v].pc \in Handling => job'[v].wamid \in Msgs
  BY <1>1 DEF TypeInv, CountInv, Same
<1>10. CountInv'
  BY <1>1, <1>8, <1>9 DEF TypeInv, CountInv
<1>11. QED
  BY <1>7, <1>10, EngineKeepsBurst DEF TypeInv

\* How many failures are waiting to be written, when one goroutine moves on.
LEMMA FailuresStep ==
    ASSUME NEW w \in Executors, \A v \in Executors \ {w} : job'[v] = job[v]
    PROVE  /\ Failures \in Nat /\ Failures' \in Nat
           /\ Failures' <= Failures + 1
           /\ (FailedAt(w)' => FailedAt(w)) => Failures' <= Failures
           /\ OneBurstAtATime /\ FailedAt(w) /\ ~FailedAt(w)' => Failures' + 1 <= Failures
<1> USE DEF FailedAt, Failing
<1>0. Loops \cap {"stream", "poll"} = {}
  BY InboundAssumption
<1>a. \A W : Failing(W) \in {0, 1} /\ Failing(W)' \in {0, 1}
  OBVIOUS
<1>1. CASE w = "stream"
  <2>1. Failing(Loops)' = Failing(Loops) /\ Failing({"poll"})' = Failing({"poll"})
    BY <1>0, <1>1
  <2>2. /\ (FailedAt(w)' => FailedAt(w)) => Failing({"stream"})' <= Failing({"stream"})
        /\ FailedAt(w) /\ ~FailedAt(w)' => Failing({"stream"})' = 0 /\ Failing({"stream"}) = 1
    BY <1>1
  <2> HIDE DEF Failing
  <2>3. QED
    BY <1>a, <2>1, <2>2 DEF Failures
<1>2. CASE w = "poll"
  <2>1. Failing(Loops)' = Failing(Loops) /\ Failing({"stream"})' = Failing({"stream"})
    BY <1>0, <1>2
  <2>2. /\ (FailedAt(w)' => FailedAt(w)) => Failing({"poll"})' <= Failing({"poll"})
        /\ FailedAt(w) /\ ~FailedAt(w)' => Failing({"poll"})' = 0 /\ Failing({"poll"}) = 1
    BY <1>2
  <2> HIDE DEF Failing
  <2>3. QED
    BY <1>a, <2>1, <2>2 DEF Failures
<1>3. CASE w \in Loops
  <2>1. Failing({"stream"})' = Failing({"stream"}) /\ Failing({"poll"})' = Failing({"poll"})
    BY <1>0, <1>3
  <2>2. (FailedAt(w)' => FailedAt(w)) => Failing(Loops)' <= Failing(Loops)
    BY <1>3
  <2>3. OneBurstAtATime /\ FailedAt(w) /\ ~FailedAt(w)' => Failing(Loops)' = 0 /\ Failing(Loops) = 1
    BY <1>3 DEF OneBurstAtATime
  <2> HIDE DEF Failing
  <2>4. QED
    BY <1>a, <2>1, <2>2, <2>3 DEF Failures
<1>4. QED
  BY <1>1, <1>2, <1>3

\* Writing a failure moves it from one side of the count to the other.
LEMMA WrittenFailure ==
    ASSUME NEW a \in Nat, NEW b \in Nat, NEW f \in Nat, NEW g \in Nat, NEW x \in Nat, NEW y \in Nat,
           b <= a + 1, g + 1 <= f, a + f <= x, x <= y
    PROVE  b + g <= y
OBVIOUS

LEMMA EngineTypeInv ==
    ASSUME TypeInv, NEW w \in Executors, Engine(w)
    PROVE  TypeInv'
<1>0. /\ job \in [Executors -> Jobs] /\ job' \in [Executors -> Jobs]
      /\ \A v \in Executors \ {w} : job'[v] = job[v]
      /\ row \in [Msgs -> {"none", "pending", "failed", "done"}]
      /\ nextRetry \in [Msgs -> {"backoff", "dawn", "past"}]
      /\ attempts \in [Msgs -> 0..MaxFaults]
      /\ UNION {respondida, stream, pel, handled, told} \subseteq Msgs
      /\ faults \in 0..MaxFaults /\ MaxFaults \in Nat /\ OneBurstAtATime
      /\ \A m \in Msgs : attempts[m] + Failures <= faults
  BY EngineFacts, InboundAssumption DEF TypeInv, TypeOK, CountInv
<1>a. attempts \in [Msgs -> Nat] /\ job[w].texts \subseteq Msgs /\ job[w].rows \subseteq Msgs
  BY <1>0 DEF Jobs
<1>f. /\ Failures \in Nat /\ Failures' \in Nat /\ Failures' <= Failures + 1
      /\ (FailedAt(w)' => FailedAt(w)) => Failures' <= Failures
      /\ FailedAt(w) /\ ~FailedAt(w)' => Failures' + 1 <= Failures
  BY <1>0, FailuresStep
<1>1. CASE Duplicate(w) /\ Begin(w)
  <2>1. ~FailedAt(w)' /\ UNCHANGED <<table, respondida, stream, handled, told, faults>>
    BY <1>0, <1>1, EndFacts DEF Duplicate, Begin, FailedAt, Outcomes
  <2>2. QED
    BY <1>0, <1>a, <1>f, <2>1, EngineTypes
<1>2. CASE Hold(w) /\ Begin(w)
  <2>1. /\ ~FailedAt(w)' /\ UNCHANGED <<attempts, respondida, stream, handled, told, faults>>
        /\ row' \in [Msgs -> {"none", "pending", "failed", "done"}]
        /\ nextRetry' \in [Msgs -> {"backoff", "dawn", "past"}]
    BY <1>0, <1>2, EndFacts DEF Hold, Begin, FailedAt, Outcomes
  <2>2. QED
    BY <1>0, <1>a, <1>f, <2>1, EngineTypes
<1>3. CASE TakeUp(w) /\ Begin(w)
  <2>1. ~FailedAt(w)' /\ UNCHANGED <<table, respondida, stream, handled, told, faults>>
    BY <1>0, <1>3, GotoFacts DEF TakeUp, Begin, FailedAt
  <2>2. QED
    BY <1>0, <1>a, <1>f, <2>1, EngineTypes
<1>4. CASE Respond(w)
  <2>1. /\ ~FailedAt(w)' /\ UNCHANGED <<table, respondida, stream, told, faults>>
        /\ handled' = handled \cup job[w].texts
    BY <1>0, <1>4, EndFacts, GotoFacts DEF Respond, FailedAt, Outcomes
  <2>2. UNION {respondida', stream', handled', told'} \subseteq Msgs
    BY <1>0, <1>a, <2>1
  <2>3. QED
    BY <1>0, <1>a, <1>f, <2>1, <2>2, EngineTypes
<1>5. CASE MarcaRespondida(w)
  <2>1. /\ ~FailedAt(w)' /\ UNCHANGED <<table, stream, handled, told>>
        /\ respondida' \in {respondida, respondida \cup {job[w].wamid}}
        /\ faults' \in 0..MaxFaults /\ faults <= faults'
    BY <1>0, <1>5, EndFacts DEF MarcaRespondida, FailedAt, Outcomes, Fails
  <2>2. job[w].wamid \in Msgs
    BY <1>5 DEF MarcaRespondida, TypeInv, CountInv, Handling
  <2>3. UNION {respondida', stream', handled', told'} \subseteq Msgs
    BY <1>0, <1>a, <2>1, <2>2
  <2>4. \A m \in Msgs : (attempts[m] + Failures <= faults)'
    BY <1>0, <1>a, <1>f, <2>1
  <2>5. QED
    BY <1>0, <1>a, <2>1, <2>3, <2>4, EngineTypes
<1>6. CASE HandleFails(w)
  <2>1. /\ UNCHANGED <<table, respondida, stream, handled, told>>
        /\ faults' \in 0..MaxFaults /\ faults' = faults + 1
    BY <1>0, <1>6 DEF HandleFails, Fails
  <2>2. QED
    BY <1>0, <1>a, <1>f, <2>1, EngineTypes
<1>7. CASE MarkDone(w) /\ Close(w)
  <2>1. /\ ~FailedAt(w)' /\ UNCHANGED <<nextRetry, attempts, respondida, stream, handled, told>>
        /\ faults' \in 0..MaxFaults /\ faults <= faults'
    BY <1>0, <1>7, GotoFacts DEF MarkDone, Close, Writes, Fails, FailedAt
  <2>2. row' \in [Msgs -> {"none", "pending", "failed", "done"}]
    BY <1>0, <1>7 DEF MarkDone
  <2>3. QED
    BY <1>0, <1>a, <1>f, <2>1, <2>2, EngineTypes
<1>8. CASE KeepHeld(w) /\ Close(w)
  <2>1. ~FailedAt(w)' /\ UNCHANGED <<table, respondida, stream, handled, told, faults>>
    BY <1>0, <1>8, GotoFacts DEF KeepHeld, Close, FailedAt
  <2>2. QED
    BY <1>0, <1>a, <1>f, <2>1, EngineTypes
<1>9. CASE MarkFailed(w) /\ Close(w)
  <2>1. FailedAt(w) /\ ~FailedAt(w)'
    BY <1>0, <1>9, GotoFacts DEF MarkFailed, Close, FailedAt
  <2>2. PICK lost \in SUBSET job[w].rows :
          LET marked == job[w].rows \ lost
          IN  /\ Writes("failed", job[w].rows, lost)
              /\ row' = [m \in Msgs |-> IF m \in marked THEN "failed" ELSE row[m]]
              /\ nextRetry' = [m \in Msgs |-> IF m \in marked THEN "backoff" ELSE nextRetry[m]]
              /\ attempts' = [m \in Msgs |-> IF m \in marked THEN attempts[m] + 1 ELSE attempts[m]]
              /\ stream' \in {stream, stream \cup marked}
    BY <1>9 DEF MarkFailed
  <2>3. /\ row' \in [Msgs -> {"none", "pending", "failed", "done"}]
        /\ nextRetry' \in [Msgs -> {"backoff", "dawn", "past"}]
        /\ attempts' \in [Msgs -> Nat]
        /\ \A m \in Msgs : attempts'[m] <= attempts[m] + 1
    BY <1>0, <1>a, <2>2
  <2>4. stream' \subseteq Msgs
    BY <1>0, <1>a, <2>2
  <2>5. UNCHANGED <<respondida, handled>> /\ told' \subseteq told \cup job[w].rows
    BY <1>9 DEF Close, MarkFailed
  <2>6. faults' \in 0..MaxFaults /\ faults <= faults'
    BY <1>0, <2>2 DEF Writes, Fails
  <2>7. ASSUME NEW m \in Msgs PROVE attempts'[m] + Failures' <= faults'
    <3>1. attempts'[m] <= attempts[m] + 1 /\ attempts'[m] \in Nat /\ attempts[m] \in Nat
      BY <1>a, <2>3
    <3>2. Failures' + 1 <= Failures /\ attempts[m] + Failures <= faults
      BY <1>0, <1>f, <2>1
    <3>3. faults' \in Nat /\ faults \in Nat /\ faults <= faults'
      BY <1>0, <2>6
    <3>4. Failures \in Nat /\ Failures' \in Nat
      BY <1>f
    <3>5. QED
      BY <3>1, <3>2, <3>3, <3>4, WrittenFailure
  <2>8. QED
    BY <1>0, <1>a, <2>3, <2>4, <2>5, <2>6, <2>7, EngineTypes
<1>10. QED
  BY <1>1, <1>2, <1>3, <1>4, <1>5, <1>6, <1>7, <1>8, <1>9 DEF Engine, Handle, Begin, Close

LEMMA InitTypeInv == Init => TypeInv
<1> SUFFICES ASSUME Init PROVE TypeInv
  OBVIOUS
<1>1. IsFiniteSet(Msgs) /\ MaxFaults \in Nat
  BY InboundAssumption
<1>2. Cardinality(Msgs) \in Nat /\ Cardinality(Recorded) = 0
  BY <1>1, FS_CardinalityType, FS_EmptySet DEF Init, Recorded
<1>3. Failures = 0
  BY DEF Init, Failures, Failing, FailedAt, Idle
<1>a. job \in [Executors -> Jobs] /\ \A w \in Executors : job[w].rows = {}
  BY <1>1 DEF Init, Idle, Jobs, Outcomes
<1>b. /\ row \in [Msgs -> {"none", "pending", "failed", "done"}]
      /\ nextRetry \in [Msgs -> {"backoff", "dawn", "past"}]
      /\ attempts \in [Msgs -> 0..MaxFaults] /\ timers \in 0..Cardinality(Msgs)
  BY <1>1, <1>2 DEF Init
<1>c. /\ buffer \in Seq(Msgs) /\ IsInjective(buffer)
      /\ UNION {respondida, stream, pel, handled, told} \subseteq Msgs
      /\ {processing, night} \subseteq BOOLEAN
      /\ todo \subseteq Msgs \X (0..MaxFaults)
  BY NoBurst DEF Init
<1>4. TypeOK
  BY <1>a, <1>b, <1>c DEF TypeOK
<1>5. CountInv
  BY <1>1, <1>2, <1>3, NoBurst DEF Init, CountInv, Idle, Handling
<1>6. OneBurstAtATime
  BY DEF Init, OneBurstAtATime, Idle
<1>7. QED
  BY <1>4, <1>5, <1>6 DEF TypeInv

\* A goroutine that is not failing begins or rests: no failure is left to write.
LEMMA NoNewFailure ==
    ASSUME CountInv, attempts \in [Msgs -> 0..MaxFaults], NEW w \in Executors,
           \A v \in Executors \ {w} : job'[v] = job[v], ~FailedAt(w)',
           attempts' = attempts, faults' \in 0..MaxFaults, faults <= faults'
    PROVE  \A m \in Msgs : attempts'[m] + Failures' <= faults'
<1>1. /\ Failures \in Nat /\ Failures' \in Nat /\ Failures' <= Failures
      /\ faults \in Nat /\ faults' \in Nat
  BY FailuresStep, InboundAssumption DEF CountInv
<1>2. ASSUME NEW m \in Msgs PROVE attempts[m] + Failures' <= faults'
  <2>1. attempts[m] \in Nat /\ attempts[m] + Failures <= faults
    BY InboundAssumption DEF CountInv
  <2>2. QED
    BY <1>1, <2>1
<1>3. QED
  BY <1>2

\* What must be shown of a step that gives a goroutine something to do, or rest.
LEMMA MoveTypes ==
    ASSUME TypeInv, NEW w \in Executors,
           job' \in [Executors -> Jobs], \A v \in Executors \ {w} : job'[v] = job[v],
           ~FailedAt(w)', job'[w].pc \in Handling => job'[w].wamid \in Msgs,
           w \in Workers => \A m1, m2 \in job'[w].rows : m1 = m2,
           UNCHANGED <<table, respondida, time, history>>,
           buffer' \in {buffer, <<>>}, processing' \in BOOLEAN, timers' \in 0..timers,
           stream' \subseteq Msgs, pel' \subseteq Msgs, todo' \subseteq Msgs \X (0..MaxFaults),
           faults' \in 0..MaxFaults, faults <= faults'
    PROVE  TypeOK' /\ CountInv'
<1>0. TypeOK /\ CountInv
  BY DEF TypeInv
<1>1. /\ buffer' \in Seq(Msgs) /\ IsInjective(buffer') /\ ToSet(buffer') \subseteq Recorded
  BY <1>0, NoBurst DEF TypeOK, CountInv
<1>2. timers' <= timers /\ timers' \in Nat /\ timers \in Nat /\ Cardinality(Msgs) \in Nat
  BY <1>0, InboundAssumption, FS_CardinalityType DEF TypeOK
<1>3. \A v \in Workers : \A m1, m2 \in job'[v].rows : m1 = m2
  BY <1>0 DEF TypeOK
<1>4. Recorded' = Recorded /\ Cardinality(Recorded) \in Nat
  BY RecordedGrows DEF Recorded
<1>5. timers' \in 0..Cardinality(Msgs) /\ timers' <= Cardinality(Recorded)
  <2>1. timers \in 0..Cardinality(Msgs) /\ timers <= Cardinality(Recorded)
    BY <1>0 DEF TypeOK, CountInv
  <2>2. QED
    BY <1>2, <1>4, <2>1
<1>6. TypeOK'
  BY <1>0, <1>1, <1>3, <1>5 DEF TypeOK
<1>7. attempts \in [Msgs -> 0..MaxFaults]
  BY <1>0 DEF TypeOK
<1>8. \A m \in Msgs : attempts'[m] + Failures' <= faults'
  BY <1>0, <1>7, NoNewFailure
<1>9. \A v \in Executors : job'[v].pc \in Handling => job'[v].wamid \in Msgs
  BY <1>0 DEF CountInv
<1>10. CountInv'
  BY <1>1, <1>4, <1>5, <1>8, <1>9 DEF CountInv
<1>11. QED
  BY <1>6, <1>10

\* A worker that takes something up, or rests, leaves the burst alone.
LEMMA WorkerTypes ==
    ASSUME TypeInv, NEW w \in Workers,
           job' \in [Executors -> Jobs], \A v \in Executors \ {w} : job'[v] = job[v],
           ~FailedAt(w)', job'[w].pc \in Handling => job'[w].wamid \in Msgs,
           \A m1, m2 \in job'[w].rows : m1 = m2,
           UNCHANGED <<table, respondida, burst, time, history>>,
           stream' \subseteq Msgs, pel' \subseteq Msgs, todo' \subseteq Msgs \X (0..MaxFaults),
           faults' \in 0..MaxFaults, faults <= faults'
    PROVE  TypeInv'
<1>1. processing' \in BOOLEAN /\ timers' \in 0..timers
  BY DEF TypeInv, TypeOK
<1>2. TypeOK' /\ CountInv'
  BY <1>1, MoveTypes
<1>3. \A l \in Loops : job'[l] = job[l]
  BY InboundAssumption
<1>4. OneBurstAtATime'
  BY <1>3 DEF TypeInv, OneBurstAtATime
<1>5. QED
  BY <1>2, <1>4 DEF TypeInv

\* The burst goes to a goroutine that was idle.
LEMMA BeginFacts ==
    ASSUME TypeInv, beginOrQueue, ~(processing \/ buffer = <<>>)
    PROVE  \E l \in Loops :
             /\ At(l, "idle") /\ processing' = TRUE /\ buffer' = <<>>
             /\ job' = [job EXCEPT ![l] = combineInbound(buffer)]
BY DEF beginOrQueue

LEMMA NextTypeInv == TypeInv /\ [Next]_vars => TypeInv'
<1> SUFFICES ASSUME TypeInv, [Next]_vars PROVE TypeInv'
  OBVIOUS
<1>0. TypeOK /\ CountInv /\ OneBurstAtATime /\ IsFiniteSet(Msgs) /\ MaxFaults \in Nat
  BY InboundAssumption DEF TypeInv
<1> USE <1>0
<1>1. ASSUME NEW m \in Msgs, Record(m) PROVE TypeInv'
  <2>1. Recorded' = Recorded \cup {m} /\ m \notin Recorded
    BY <1>1 DEF Record, Recorded, TypeOK
  <2>2. /\ Cardinality(Recorded)' = Cardinality(Recorded) + 1 /\ Cardinality(Recorded) \in Nat
        /\ Cardinality(Recorded)' <= Cardinality(Msgs)
    BY <2>1, RecordCounts, RecordedGrows
  <2>3. /\ buffer' \in Seq(Msgs) /\ IsInjective(buffer')
        /\ ToSet(buffer') = ToSet(buffer) \cup {m}
    BY <1>1, <2>1, AppendFacts DEF Record, TypeOK, CountInv
  <2>4. timers' \in Nat /\ timers' <= timers + 1 /\ timers \in Nat
    BY <1>1 DEF Record, TypeOK
  <2>a. row' \in [Msgs -> {"none", "pending", "failed", "done"}]
    BY <1>1 DEF Record, TypeOK
  <2>b. timers' \in 0..Cardinality(Msgs) /\ timers' <= Cardinality(Recorded)'
    <3>1. timers <= Cardinality(Recorded)
      BY DEF CountInv
    <3>2. Cardinality(Msgs) \in Nat
      BY FS_CardinalityType
    <3>3. QED
      BY <2>2, <2>4, <3>1, <3>2
  <2>5. TypeOK'
    BY <1>1, <2>3, <2>a, <2>b DEF Record, TypeOK
  <2>6. CountInv'
    BY <1>1, <2>1, <2>3, <2>b DEF Record, CountInv, Failures, Failing, FailedAt
  <2>7. OneBurstAtATime'
    BY <1>1 DEF Record, OneBurstAtATime
  <2>8. QED
    BY <2>5, <2>6, <2>7 DEF TypeInv
<1>2. ASSUME NEW m \in Msgs, BackoffEnds(m) PROVE TypeInv'
  <2>1. nextRetry' \in [Msgs -> {"backoff", "dawn", "past"}]
    BY <1>2 DEF BackoffEnds, TypeOK
  <2>2. TypeOK'
    BY <1>2, <2>1 DEF BackoffEnds, TypeOK
  <2>3. CountInv' /\ OneBurstAtATime'
    BY <1>2 DEF BackoffEnds, CountInv, OneBurstAtATime, Recorded, Failures, Failing, FailedAt
  <2>4. QED
    BY <2>2, <2>3 DEF TypeInv
<1>3. CASE Dusk \/ Dawn
  <2>1. nextRetry' \in [Msgs -> {"backoff", "dawn", "past"}] /\ night' \in BOOLEAN
    BY <1>3 DEF Dusk, Dawn, TypeOK
  <2>2. faults' \in 0..MaxFaults /\ faults <= faults'
    BY <1>3 DEF Dusk, Dawn, Fails, CountInv
  <2>3. UNCHANGED <<row, attempts, respondida, burst, queue, job, todo, nightAt, history>>
    BY <1>3 DEF Dusk, Dawn
  <2>4. TypeOK'
    BY <2>1, <2>3 DEF TypeOK
  <2>5. Failures' = Failures /\ Recorded' = Recorded /\ Failures \in Nat
    BY <2>3 DEF Failures, Failing, FailedAt, Recorded
  <2>6. \A m \in Msgs : attempts[m] + Failures <= faults'
    <3> TAKE m \in Msgs
    <3>1. attempts[m] \in Nat /\ attempts[m] + Failures <= faults /\ faults \in Nat
      BY DEF TypeOK, CountInv
    <3>2. QED
      BY <2>2, <2>5, <3>1
  <2>7. CountInv'
    BY <2>2, <2>3, <2>5, <2>6 DEF CountInv
  <2>8. OneBurstAtATime'
    BY <2>3 DEF OneBurstAtATime
  <2>9. QED
    BY <2>4, <2>7, <2>8 DEF TypeInv
<1>4. CASE beginOrQueue
  <2>0. timers' \in 0..timers /\ buffer \in Seq(Msgs) /\ job \in [Executors -> Jobs]
    BY <1>4 DEF beginOrQueue, TypeOK
  <2>a. /\ UNCHANGED <<table, respondida, queue, todo, time, history, faults>>
        /\ stream' \subseteq Msgs /\ pel' \subseteq Msgs /\ todo' \subseteq Msgs \X (0..MaxFaults)
        /\ faults' \in 0..MaxFaults /\ faults <= faults'
    BY <1>4 DEF beginOrQueue, TypeOK, CountInv
  <2>1. CASE processing \/ buffer = <<>>
    <3>1. UNCHANGED <<buffer, processing, job>>
      BY <1>4, <2>1 DEF beginOrQueue
    <3>2. TypeOK' /\ CountInv'
      <4>1. timers' \in Nat /\ timers' <= timers /\ timers \in Nat
        BY <2>0 DEF TypeOK
      <4>2. Cardinality(Msgs) \in Nat /\ Cardinality(Recorded) \in Nat
        <5>1. Recorded \subseteq Recorded'
          BY <2>a DEF Recorded
        <5>2. QED
          BY <5>1, FS_CardinalityType, RecordedGrows
      <4>3. timers' \in 0..Cardinality(Msgs) /\ timers' <= Cardinality(Recorded)
        BY <4>1, <4>2 DEF TypeOK, CountInv
      <4>4. TypeOK'
        BY <2>a, <3>1, <4>3 DEF TypeOK
      <4>5. Recorded' = Recorded /\ Failures' = Failures
        BY <2>a, <3>1 DEF Recorded, Failures, Failing, FailedAt
      <4>6. QED
        BY <2>a, <3>1, <4>3, <4>4, <4>5 DEF CountInv
    <3>3. OneBurstAtATime'
      BY <3>1 DEF OneBurstAtATime
    <3>4. QED
      BY <3>2, <3>3 DEF TypeInv
  <2>2. CASE ~(processing \/ buffer = <<>>)
    <3>1. PICK l \in Loops :
            /\ At(l, "idle") /\ processing' = TRUE /\ buffer' = <<>>
            /\ job' = [job EXCEPT ![l] = combineInbound(buffer)]
      BY <1>4, <2>2, BeginFacts
    <3>2. /\ ToSet(buffer) \in SUBSET Msgs /\ Last(buffer) \in Msgs /\ 0 \in 0..MaxFaults
          /\ combineInbound(buffer) = Job(ToSet(buffer), Last(buffer), ToSet(buffer), 0)
      BY <2>0, <2>2, BurstFacts
    <3>3. /\ job' \in [Executors -> Jobs] /\ \A v \in Executors \ {l} : job'[v] = job[v]
          /\ job'[l].pc = "begin" /\ job'[l].wamid \in Msgs
      <4>1. job' = [job EXCEPT ![l] = Job(ToSet(buffer), Last(buffer), ToSet(buffer), 0)]
        BY <3>1, <3>2
      <4>2. QED
        BY <2>0, <3>2, <4>1, JobFacts, GivenFacts
    <3>4. l \notin Workers /\ ~FailedAt(l)'
      BY <3>3, InboundAssumption DEF FailedAt
    <3>5. TypeOK' /\ CountInv'
      BY <2>0, <2>a, <3>1, <3>3, <3>4, MoveTypes
    <3>6. \A k \in Loops \ {l} : At(k, "idle")'
      BY <2>2, <3>3 DEF OneBurstAtATime
    <3>7. OneBurstAtATime'
      BY <3>1, <3>3, <3>6 DEF OneBurstAtATime
    <3>8. QED
      BY <3>5, <3>7 DEF TypeInv
  <2>3. QED
    BY <2>1, <2>2
<1>5. ASSUME NEW l \in Loops, next(l) PROVE TypeInv'
  <2>0. timers' \in 0..timers /\ buffer \in Seq(Msgs) /\ job \in [Executors -> Jobs]
    BY <1>5 DEF next, TypeOK
  <2>a. /\ UNCHANGED <<table, respondida, queue, todo, time, history, faults>>
        /\ stream' \subseteq Msgs /\ pel' \subseteq Msgs /\ todo' \subseteq Msgs \X (0..MaxFaults)
        /\ faults' \in 0..MaxFaults /\ faults <= faults' /\ buffer' = <<>>
    BY <1>5 DEF next, TypeOK, CountInv
  <2>b. l \notin Workers /\ processing /\ \A k \in Loops \ {l} : At(k, "idle")
    BY <1>5, InboundAssumption DEF next, OneBurstAtATime
  <2>1. CASE buffer = <<>>
    <3>1. processing' = FALSE /\ job' = [job EXCEPT ![l] = Idle]
      BY <1>5, <2>1 DEF next
    <3>2. /\ job' \in [Executors -> Jobs] /\ \A v \in Executors \ {l} : job'[v] = job[v]
          /\ job'[l].pc = "idle"
      BY <2>0, <3>1, RestFacts
    <3>3. ~FailedAt(l)' /\ job'[l].pc \notin Handling
      BY <3>2 DEF FailedAt, Handling
    <3>4. TypeOK' /\ CountInv'
      BY <2>0, <2>a, <2>b, <3>1, <3>2, <3>3, MoveTypes
    <3>5. OneBurstAtATime'
      BY <2>b, <3>1, <3>2 DEF OneBurstAtATime
    <3>6. QED
      BY <3>4, <3>5 DEF TypeInv
  <2>2. CASE buffer # <<>>
    <3>1. processing' = processing /\ job' = [job EXCEPT ![l] = combineInbound(buffer)]
      BY <1>5, <2>2 DEF next
    <3>2. /\ ToSet(buffer) \in SUBSET Msgs /\ Last(buffer) \in Msgs /\ 0 \in 0..MaxFaults
          /\ combineInbound(buffer) = Job(ToSet(buffer), Last(buffer), ToSet(buffer), 0)
      BY <2>0, <2>2, BurstFacts
    <3>3. /\ job' \in [Executors -> Jobs] /\ \A v \in Executors \ {l} : job'[v] = job[v]
          /\ job'[l].pc = "begin" /\ job'[l].wamid \in Msgs
      <4>1. job' = [job EXCEPT ![l] = Job(ToSet(buffer), Last(buffer), ToSet(buffer), 0)]
        BY <3>1, <3>2
      <4>2. QED
        BY <2>0, <3>2, <4>1, JobFacts, GivenFacts
    <3>4. ~FailedAt(l)' /\ processing' \in BOOLEAN
      BY <3>1, <3>3 DEF FailedAt, TypeOK
    <3>5. TypeOK' /\ CountInv'
      BY <2>0, <2>a, <2>b, <3>3, <3>4, MoveTypes
    <3>6. OneBurstAtATime'
      BY <2>b, <3>1, <3>3 DEF OneBurstAtATime
    <3>7. QED
      BY <3>5, <3>6 DEF TypeInv
  <2>3. QED
    BY <2>1, <2>2
<1>6. ASSUME NEW m \in Msgs, Consume(m) PROVE TypeInv'
  <2>0. /\ job \in [Executors -> Jobs] /\ attempts[m] \in 0..MaxFaults /\ m \in Msgs
        /\ UNCHANGED <<table, respondida, burst, time, history>>
        /\ stream' \subseteq Msgs /\ pel' \subseteq Msgs /\ todo' \subseteq Msgs \X (0..MaxFaults)
    BY <1>6 DEF Consume, TypeOK
  <2>a. faults' \in 0..MaxFaults /\ faults <= faults'
    BY <1>6 DEF Consume, Fails, CountInv
  <2>1. CASE job' = [job EXCEPT !["stream"] = rebuildInbound(m, attempts[m])]
    <3> DEFINE first == IF m \in Batch THEN Lead ELSE m
    <3>1. first \in Msgs /\ rebuildInbound(m, attempts[m]) = Job({first}, first, {m}, attempts[m])
      BY InboundAssumption DEF rebuildInbound
    <3>2. /\ job' \in [Executors -> Jobs] /\ \A v \in Executors \ {"stream"} : job'[v] = job[v]
          /\ job'["stream"].pc = "begin" /\ job'["stream"].wamid = first
          /\ job'["stream"].rows = {m}
      <4> HIDE DEF first
      <4>1. /\ job' = [job EXCEPT !["stream"] = Job({first}, first, {m}, attempts[m])]
            /\ "stream" \in Executors /\ {first} \in SUBSET Msgs /\ {m} \in SUBSET Msgs
        BY <2>0, <2>1, <3>1
      <4>2. QED
        BY <2>0, <3>1, <4>1, JobFacts, GivenFacts
    <3>3. ~FailedAt("stream")'
      BY <3>2 DEF FailedAt
    <3>4. QED
      BY <2>0, <2>a, <3>1, <3>2, <3>3, WorkerTypes
  <2>2. CASE job' = [job EXCEPT !["stream"] = [Idle EXCEPT !.pc = "next", !.rows = {m}]]
    <3>1. /\ job' \in [Executors -> Jobs] /\ \A v \in Executors \ {"stream"} : job'[v] = job[v]
          /\ job'["stream"].pc = "next" /\ job'["stream"].rows = {m}
      <4> DEFINE j == [Idle EXCEPT !.pc = "next", !.rows = {m}]
      <4>1. Idle \in Jobs
        BY InboundAssumption DEF Idle, Jobs, Outcomes
      <4>2. j \in Jobs
        BY <2>0, <4>1 DEF Jobs
      <4>3. j.pc = "next" /\ j.rows = {m}
        BY <4>1 DEF Jobs
      <4> HIDE DEF j
      <4>4. job' = [job EXCEPT !["stream"] = j]
        BY <2>2 DEF j
      <4>5. QED
        BY <2>0, <4>2, <4>3, <4>4, GivenFacts
    <3>2. ~FailedAt("stream")' /\ job'["stream"].pc \notin Handling
      BY <3>1 DEF FailedAt, Handling
    <3>3. QED
      BY <2>0, <2>a, <3>1, <3>2, WorkerTypes
  <2>3. CASE UNCHANGED job
    <3>1. At("stream", "idle")
      BY <1>6 DEF Consume
    <3>2. ~FailedAt("stream")' /\ job'["stream"].pc \notin Handling
      BY <2>3, <3>1 DEF FailedAt, Handling
    <3>3. \A m1, m2 \in job'["stream"].rows : m1 = m2
      BY <2>3 DEF TypeOK
    <3>4. QED
      BY <2>0, <2>a, <2>3, <3>2, <3>3, WorkerTypes
  <2>4. QED
    BY <1>6, <2>1, <2>2, <2>3 DEF Consume
<1>7. CASE Ack
  <2>0. job \in [Executors -> Jobs] /\ job' = [job EXCEPT !["stream"] = Idle]
    BY <1>7 DEF Ack, TypeOK
  <2>1. /\ UNCHANGED <<table, respondida, burst, time, history>>
        /\ stream' \subseteq Msgs /\ pel' \subseteq Msgs /\ todo' \subseteq Msgs \X (0..MaxFaults)
    BY <1>7 DEF Ack, TypeOK
  <2>2. faults' \in 0..MaxFaults /\ faults <= faults'
    BY <1>7 DEF Ack, Fails, CountInv
  <2>3. /\ job' \in [Executors -> Jobs] /\ \A v \in Executors \ {"stream"} : job'[v] = job[v]
        /\ job'["stream"].pc = "idle" /\ job'["stream"].rows = {}
    BY <2>0, RestFacts
  <2>4. ~FailedAt("stream")' /\ job'["stream"].pc \notin Handling
    BY <2>3 DEF FailedAt, Handling
  <2>5. QED
    BY <2>1, <2>2, <2>3, <2>4, WorkerTypes
<1>8. CASE PendingRetries
  <2>0. job \in [Executors -> Jobs] /\ Goto("poll", "next")
    BY <1>8 DEF PendingRetries, TypeOK
  <2>1. /\ UNCHANGED <<table, respondida, burst, time, history>>
        /\ stream' \subseteq Msgs /\ pel' \subseteq Msgs /\ todo' \subseteq Msgs \X (0..MaxFaults)
        /\ faults' \in 0..MaxFaults /\ faults <= faults'
    BY <1>8 DEF PendingRetries, TypeOK, CountInv
  <2>2. /\ job' \in [Executors -> Jobs] /\ \A v \in Executors \ {"poll"} : job'[v] = job[v]
        /\ job'["poll"].pc = "next" /\ job'["poll"].rows = job["poll"].rows
    BY <2>0, GotoFacts DEF Same
  <2>3. ~FailedAt("poll")' /\ job'["poll"].pc \notin Handling
    BY <2>2 DEF FailedAt, Handling
  <2>4. \A m1, m2 \in job'["poll"].rows : m1 = m2
    BY <2>2 DEF TypeOK
  <2>5. QED
    BY <2>1, <2>2, <2>3, <2>4, WorkerTypes
<1>9. CASE NextRetry
  <2>0. job \in [Executors -> Jobs]
    BY DEF TypeOK
  <2>1. /\ UNCHANGED <<table, respondida, burst, time, history>>
        /\ stream' \subseteq Msgs /\ pel' \subseteq Msgs /\ todo' \subseteq Msgs \X (0..MaxFaults)
        /\ faults' \in 0..MaxFaults /\ faults <= faults'
    BY <1>9 DEF NextRetry, TypeOK, CountInv
  <2>2. CASE job' = [job EXCEPT !["poll"] = Idle]
    <3>1. /\ job' \in [Executors -> Jobs] /\ \A v \in Executors \ {"poll"} : job'[v] = job[v]
          /\ job'["poll"].pc = "idle" /\ job'["poll"].rows = {}
      BY <2>0, <2>2, RestFacts
    <3>2. ~FailedAt("poll")' /\ job'["poll"].pc \notin Handling
      BY <3>1 DEF FailedAt, Handling
    <3>3. QED
      BY <2>1, <3>1, <3>2, WorkerTypes
  <2>3. ASSUME NEW e \in todo, job' = [job EXCEPT !["poll"] = rebuildInbound(e[1], e[2])]
        PROVE  TypeInv'
    <3> DEFINE first == IF e[1] \in Batch THEN Lead ELSE e[1]
    <3>0. e[1] \in Msgs /\ e[2] \in 0..MaxFaults
      BY DEF TypeOK
    <3>1. first \in Msgs /\ rebuildInbound(e[1], e[2]) = Job({first}, first, {e[1]}, e[2])
      BY <3>0, InboundAssumption DEF rebuildInbound
    <3>2. /\ job' \in [Executors -> Jobs] /\ \A v \in Executors \ {"poll"} : job'[v] = job[v]
          /\ job'["poll"].pc = "begin" /\ job'["poll"].wamid = first
          /\ job'["poll"].rows = {e[1]}
      <4> HIDE DEF first
      <4>1. /\ job' = [job EXCEPT !["poll"] = Job({first}, first, {e[1]}, e[2])]
            /\ "poll" \in Executors /\ {first} \in SUBSET Msgs /\ {e[1]} \in SUBSET Msgs
        BY <2>3, <3>0, <3>1
      <4>2. QED
        BY <2>0, <3>0, <3>1, <4>1, JobFacts, GivenFacts
    <3>3. ~FailedAt("poll")'
      BY <3>2 DEF FailedAt
    <3>4. QED
      BY <2>1, <3>1, <3>2, <3>3, WorkerTypes
  <2>4. QED
    BY <1>9, <2>2, <2>3 DEF NextRetry
<1>10. CASE Restart
  <2>1. /\ buffer' = <<>> /\ processing' = FALSE /\ timers' = 0 /\ todo' = {}
        /\ stream' = stream \cup pel /\ pel' = {} /\ job' = [w \in Executors |-> Idle]
        /\ UNCHANGED <<table, respondida, time, history>>
    BY <1>10 DEF Restart
  <2>2. faults' \in 0..MaxFaults /\ faults <= faults' /\ faults \in Nat
    BY <1>10 DEF Restart, Fails, CountInv
  <2>3. \A w \in Executors : At(w, "idle")' /\ job'[w].rows = {}
    BY <2>1 DEF Idle
  <2>4. job' \in [Executors -> Jobs]
    BY <2>1 DEF Idle, Jobs, Outcomes
  <2>5. Cardinality(Msgs) \in Nat /\ Cardinality(Recorded) \in Nat /\ Recorded' = Recorded
    BY <2>1, FS_CardinalityType, RecordedGrows DEF Recorded
  <2>a. /\ UNION {respondida', stream', pel', handled', told'} \subseteq Msgs
        /\ todo' \subseteq Msgs \X (0..MaxFaults) /\ timers' \in 0..Cardinality(Msgs)
        /\ buffer' \in Seq(Msgs) /\ IsInjective(buffer') /\ {processing', night'} \subseteq BOOLEAN
    <3>1. /\ UNION {respondida, stream, pel, handled, told} \subseteq Msgs
          /\ {processing, night} \subseteq BOOLEAN
      BY DEF TypeOK
    <3>2. UNION {respondida', stream', pel', handled', told'} \subseteq Msgs
      BY <2>1, <3>1
    <3>3. timers' \in 0..Cardinality(Msgs)
      BY <2>1, <2>5
    <3>4. buffer' \in Seq(Msgs) /\ IsInjective(buffer') /\ todo' \subseteq Msgs \X (0..MaxFaults)
      BY <2>1, NoBurst
    <3>5. {processing', night'} \subseteq BOOLEAN
      BY <2>1, <3>1
    <3>6. QED
      BY <3>2, <3>3, <3>4, <3>5
  <2>6. TypeOK'
    BY <2>1, <2>3, <2>4, <2>a DEF TypeOK
  <2>7. Failures' = 0 /\ Failures \in Nat
    BY <2>3 DEF Failures, Failing, FailedAt
  <2>8. \A m \in Msgs : attempts[m] + Failures' <= faults'
    <3> TAKE m \in Msgs
    <3>1. attempts[m] \in Nat /\ attempts[m] + Failures <= faults
      BY DEF TypeOK, CountInv
    <3>2. QED
      BY <2>2, <2>7, <3>1
  <2>9. CountInv'
    BY <2>1, <2>2, <2>3, <2>5, <2>8, NoBurst DEF CountInv, Handling
  <2>10. OneBurstAtATime'
    BY <2>1, <2>3 DEF OneBurstAtATime
  <2>11. QED
    BY <2>6, <2>9, <2>10 DEF TypeInv
<1>20. CASE UNCHANGED vars
  BY <1>20 DEF vars, TypeInv, TypeOK, CountInv, OneBurstAtATime, Recorded, Failures, Failing, FailedAt
<1>21. QED
  BY <1>1, <1>2, <1>3, <1>4, <1>5, <1>6, <1>7, <1>8, <1>9, <1>10, <1>20, EngineTypeInv
  DEF Next, Flush, Consumer, Poller


\* Every reachable state of the path of a message has its types, counts no more
\* than what happened, and hands the burst to one goroutine: the invariant below.
THEOREM TypesAndBursts == Spec => []TypeInv
<1>1. Init => TypeInv
  BY InitTypeInv
<1>2. TypeInv /\ [Next]_vars => TypeInv'
  BY NextTypeInv
<1>3. QED
  BY <1>1, <1>2, PTL DEF Spec

\* The types hold: a message is in the burst once, a retry holds one row, and
\* what is counted stays within its bound (burstBuffer, processRetry).
THEOREM TypeCorrect == Spec => []TypeOK
<1>1. TypeInv => TypeOK
  BY DEF TypeInv
<1>2. QED
  BY <1>1, TypesAndBursts, PTL

\* One goroutine at most runs flushBurst for the conversation, and the mark says
\* so (burstBuffer.beginOrQueue, next).
THEOREM OneBurst == Spec => []OneBurstAtATime
<1>1. TypeInv => OneBurstAtATime
  BY DEF TypeInv
<1>2. QED
  BY <1>1, TypesAndBursts, PTL

-----------------------------------------------------------------------------
(* Nobody is left in the burst *)

LEMMA NextStranded ==
    ASSUME TypeInv, NothingStranded, [Next]_vars
    PROVE  NothingStranded'
<1> USE DEF NothingStranded
<1>1. ASSUME NEW m \in Msgs, Record(m) PROVE NothingStranded'
  <2>1. timers' > 0
    BY <1>1 DEF Record, TypeInv, TypeOK
  <2>2. QED
    BY <2>1
<1>2. CASE beginOrQueue
  BY <1>2 DEF beginOrQueue
<1>3. ASSUME NEW l \in Loops, next(l) PROVE NothingStranded'
  BY <1>3 DEF next
<1>4. CASE Restart
  BY <1>4 DEF Restart
<1>5. ASSUME NEW w \in Executors, Engine(w) PROVE NothingStranded'
  BY <1>5, EngineFacts DEF TypeInv
<1>6. ASSUME UNCHANGED burst PROVE NothingStranded'
  BY <1>6
<1>7. QED
  BY <1>1, <1>2, <1>3, <1>4, <1>5, <1>6
  DEF Next, Flush, Consumer, Poller, BackoffEnds, Consume, Ack, PendingRetries, NextRetry, Dusk,
      Dawn, vars

\* A message in the burst has a goroutine that will look again, or a timer
\* (beginOrQueue returns nil while another goroutine is at it).
THEOREM NobodyIsStranded == Spec => []NothingStranded
<1>1. Init => NothingStranded
  BY DEF Init, NothingStranded
<1>2. QED
  BY <1>1, NextStranded, TypesAndBursts, PTL DEF Spec


-----------------------------------------------------------------------------
(* A row is closed only when its message was handled *)

Places == PlaceInv /\ HandledInv /\ DoneIsHandled

\* What a step of the engine does to the rows it has, and to nobody else's.
LEMMA EngineRows ==
    ASSUME TypeInv, Places, NEW w \in Executors, Engine(w)
    PROVE  /\ job[w].pc \in Handling \cup {"close"} /\ job'[w].pc # "begin"
           /\ \A m \in Msgs : row'[m] # row[m] =>
                m \in job[w].rows /\ Settled(m)' /\ job'[w].pc \notin Handling
           /\ respondida \subseteq respondida' /\ respondida' \subseteq respondida \cup job[w].rows
           /\ handled \subseteq handled' /\ respondida' \subseteq handled'
           /\ \A m \in stream' : m \in stream \/ Settled(m)'
           /\ \A m \in Msgs : row'[m] = "done" => row[m] = "done" \/ m \in handled
           /\ job'[w].pc = "mark" => job[w].rows \subseteq handled'
           /\ job'[w].pc = "close" /\ job'[w].out = "ok" => job[w].rows \subseteq handled'
<1> USE DEF Handling, Settled
<1>0. /\ job \in [Executors -> Jobs]
      /\ row \in [Msgs -> {"none", "pending", "failed", "done"}]
      /\ respondida \subseteq handled
      /\ job[w].rows \subseteq Msgs
      /\ job[w].pc \in Handling =>
           job[w].texts = job[w].rows /\ job[w].wamid \in job[w].rows /\ job[w].wamid \in Msgs
      /\ At(w, "mark") => job[w].rows \subseteq handled
      /\ At(w, "close") /\ job[w].out = "ok" => job[w].rows \subseteq handled
  BY DEF TypeInv, TypeOK, CountInv, Places, HandledInv, Jobs
<1>1. CASE Duplicate(w) /\ Begin(w)
  <2>1. /\ At(w, "begin") /\ job[w].wamid \in respondida /\ UNCHANGED <<table, history, respondida, queue>>
        /\ job'[w].pc = "close"
    BY <1>0, <1>1, EndFacts DEF Duplicate, Begin, Seen, Outcomes
  <2>2. job[w].rows \subseteq handled
    <3>1. w \notin Loops
      BY <1>0, <2>1 DEF Places, PlaceInv
    <3>2. \A m1, m2 \in job[w].rows : m1 = m2
      BY <3>1 DEF TypeInv, TypeOK
    <3>3. QED
      BY <1>0, <2>1, <3>2
  <2>3. QED
    BY <1>0, <2>1, <2>2
<1>2. CASE Hold(w) /\ Begin(w)
  <2>1. /\ At(w, "begin") /\ UNCHANGED <<history, respondida, queue>>
        /\ job'[w].pc = "close" /\ job'[w].out = "held"
        /\ row' = [row EXCEPT ![job[w].wamid] = "failed"]
    BY <1>0, <1>2, EndFacts DEF Hold, Begin, Outcomes
  <2>2. QED
    BY <1>0, <2>1
<1>3. CASE TakeUp(w) /\ Begin(w)
  <2>1. At(w, "begin") /\ UNCHANGED <<table, history, respondida, queue>> /\ job'[w].pc = "model"
    BY <1>0, <1>3, GotoFacts DEF TakeUp, Begin
  <2>2. QED
    BY <1>0, <2>1
<1>4. CASE Respond(w)
  <2>1. /\ At(w, "model") /\ UNCHANGED <<table, respondida, queue>>
        /\ handled' = handled \cup job[w].texts /\ job'[w].pc \in {"mark", "close"}
    BY <1>0, <1>4, EndFacts, GotoFacts DEF Respond, Outcomes
  <2>2. QED
    BY <1>0, <2>1
<1>5. CASE MarcaRespondida(w)
  <2>1. /\ At(w, "mark") /\ UNCHANGED <<table, queue, history>> /\ job'[w].pc = "close"
        /\ respondida' \in {respondida, respondida \cup {job[w].wamid}}
    BY <1>0, <1>5, EndFacts DEF MarcaRespondida, Outcomes
  <2>2. QED
    BY <1>0, <2>1
<1>6. CASE HandleFails(w)
  <2>1. /\ job[w].pc \in {"begin", "model"} /\ UNCHANGED <<table, respondida, queue, history>>
        /\ job'[w].pc = "close" /\ job'[w].out = "error"
    BY <1>0, <1>6, EndFacts DEF HandleFails, Outcomes
  <2>2. QED
    BY <1>0, <2>1
<1>7. CASE MarkDone(w) /\ Close(w)
  <2>1. /\ At(w, "close") /\ job[w].out = "ok" /\ job'[w].pc = "next"
        /\ UNCHANGED <<respondida, stream, handled>>
    BY <1>0, <1>7, GotoFacts DEF MarkDone, Close
  <2>2. PICK lost \in SUBSET job[w].rows :
          row' = [m \in Msgs |-> IF m \in job[w].rows \ lost THEN "done" ELSE row[m]]
    BY <1>7 DEF MarkDone
  <2>3. QED
    BY <1>0, <2>1, <2>2
<1>8. CASE KeepHeld(w) /\ Close(w)
  <2>1. /\ At(w, "close") /\ job'[w].pc = "next"
        /\ UNCHANGED <<table, respondida, stream, handled>>
    BY <1>0, <1>8, GotoFacts DEF KeepHeld, Close
  <2>2. QED
    BY <1>0, <2>1
<1>9. CASE MarkFailed(w) /\ Close(w)
  <2>1. At(w, "close") /\ job'[w].pc = "next" /\ UNCHANGED <<respondida, handled>>
    BY <1>0, <1>9, GotoFacts DEF MarkFailed, Close
  <2>2. PICK lost \in SUBSET job[w].rows :
          /\ row' = [m \in Msgs |-> IF m \in job[w].rows \ lost THEN "failed" ELSE row[m]]
          /\ stream' \in {stream, stream \cup (job[w].rows \ lost)}
    BY <1>9 DEF MarkFailed
  <2>3. QED
    BY <1>0, <2>1, <2>2
<1>10. QED
  BY <1>1, <1>2, <1>3, <1>4, <1>5, <1>6, <1>7, <1>8, <1>9 DEF Engine, Handle, Begin, Close

LEMMA EnginePlaces ==
    ASSUME TypeInv, Places, NEW w \in Executors, Engine(w)
    PROVE  Places'
<1>0. /\ job[w].pc \in Handling \cup {"close"} /\ job'[w].pc # "begin"
      /\ \A m \in Msgs : row'[m] # row[m] =>
           m \in job[w].rows /\ Settled(m)' /\ job'[w].pc \notin Handling
      /\ respondida \subseteq respondida' /\ respondida' \subseteq respondida \cup job[w].rows
      /\ handled \subseteq handled' /\ respondida' \subseteq handled'
      /\ \A m \in stream' : m \in stream \/ Settled(m)'
      /\ \A m \in Msgs : row'[m] = "done" => row[m] = "done" \/ m \in handled
      /\ job'[w].pc = "mark" => job[w].rows \subseteq handled'
      /\ job'[w].pc = "close" /\ job'[w].out = "ok" => job[w].rows \subseteq handled'
  BY EngineRows
<1>1. /\ \A v \in Executors \ {w} : job'[v] = job[v]
      /\ Same(w, w)
      /\ job'[w].pc \in Handling => job[w].pc \in Handling
      /\ UNCHANGED <<burst, pel, todo>>
      /\ Recorded \subseteq Recorded'
  BY EngineFacts DEF TypeInv
<1>2. /\ \A m \in ToSet(buffer) : m \in Msgs /\ row[m] = "pending" /\ m \notin respondida
      /\ \A v \in Executors : job[v].rows \subseteq Msgs
      /\ stream \subseteq Msgs /\ pel \subseteq Msgs /\ stream' \subseteq Msgs
      /\ \A e \in todo : e[1] \in Msgs
  <2>1. ToSet(buffer) \subseteq Msgs
    BY DEF TypeInv, CountInv, Recorded
  <2>2. stream' \subseteq Msgs
    BY EngineTypeInv DEF TypeInv, TypeOK
  <2>3. QED
    BY <2>1, <2>2 DEF TypeInv, TypeOK, Jobs, Places, PlaceInv
<1>3. \A m \in Msgs : Settled(m) => Settled(m)'
  BY <1>0 DEF Settled
<1>4. w \in Workers => \A m \in job[w].rows : Settled(m) /\ row[m] # "pending"
  BY DEF Places, PlaceInv, Settled
<1>5. w \in Loops => \A l \in Loops \ {w} : At(l, "idle")
  BY <1>0 DEF TypeInv, OneBurstAtATime, Handling
<1>6. job[w].rows \cap ToSet(buffer) = {} /\ job[w].rows \subseteq Recorded
  <2>1. CASE w \in Loops
    BY <1>0, <2>1 DEF Places, PlaceInv
  <2>2. CASE w \in Workers
    BY <1>2, <1>4, <2>2 DEF Recorded, Settled
  <2>3. QED
    BY <2>1, <2>2
<1>7. \A m \in ToSet(buffer') : row'[m] = "pending" /\ m \notin respondida'
  BY <1>0, <1>1, <1>2, <1>6
<1>8. ASSUME NEW l \in Loops
      PROVE  /\ job'[l].pc \in Handling => \A m \in job'[l].rows : row'[m] = "pending"
             /\ job'[l].pc = "begin" => job'[l].rows \cap respondida' = {}
             /\ job'[l].pc \in Handling \cup {"close"} =>
                  job'[l].rows \cap ToSet(buffer') = {} /\ job'[l].rows \subseteq Recorded'
  <2>0. /\ job[l].pc \in Handling => \A m \in job[l].rows : row[m] = "pending"
        /\ job[l].pc = "begin" => job[l].rows \cap respondida = {}
        /\ job[l].pc \in Handling \cup {"close"} =>
             job[l].rows \cap ToSet(buffer) = {} /\ job[l].rows \subseteq Recorded
    BY DEF Places, PlaceInv
  <2>1. CASE l = w
    BY <1>0, <1>1, <1>2, <2>0, <2>1 DEF Same
  <2>2. CASE l # w /\ w \in Loops
    BY <1>1, <1>5, <2>2 DEF Handling
  <2>3. CASE l # w /\ w \in Workers
    <3>1. job'[l] = job[l] /\ buffer' = buffer
      BY <1>1, <2>3
    <3>2. job[l].pc \in Handling => job[l].rows \cap job[w].rows = {}
      BY <1>4, <2>0, <2>3
    <3>3. job[l].pc \in Handling => \A m \in job[l].rows : row'[m] = "pending"
      BY <1>0, <1>2, <2>0, <3>2
    <3>4. QED
      BY <1>0, <1>1, <2>0, <3>1, <3>2, <3>3 DEF Handling
  <2>4. QED
    BY <2>1, <2>2, <2>3
<1>9. respondida' \subseteq Recorded'
  BY <1>0, <1>1, <1>6 DEF Places, PlaceInv
<1>10. /\ \A m \in stream' \cup pel' : Settled(m)'
       /\ \A e \in todo' : Settled(e[1])'
       /\ \A v \in Workers : \A m \in job'[v].rows : Settled(m)'
  <2>1. \A m \in stream' \cup pel' : Settled(m)'
    BY <1>0, <1>1, <1>2, <1>3 DEF Places, PlaceInv
  <2>2. \A e \in todo' : Settled(e[1])'
    BY <1>1, <1>2, <1>3 DEF Places, PlaceInv
  <2>3. \A v \in Workers : \A m \in job[v].rows : Settled(m)'
    BY <1>2, <1>3 DEF Places, PlaceInv
  <2>4. \A v \in Workers : job'[v].rows = job[v].rows
    BY <1>1 DEF Same
  <2>5. QED
    BY <2>1, <2>2, <2>3, <2>4
<1>11. PlaceInv'
  BY <1>7, <1>8, <1>9, <1>10 DEF PlaceInv
<1>12. ASSUME NEW v \in Executors
       PROVE  /\ job'[v].pc \in Handling =>
                   job'[v].texts = job'[v].rows /\ job'[v].wamid \in job'[v].rows
              /\ job'[v].pc = "mark" => job'[v].rows \subseteq handled'
              /\ job'[v].pc = "close" /\ job'[v].out = "ok" => job'[v].rows \subseteq handled'
  <2>0. /\ job[v].pc \in Handling =>
             job[v].texts = job[v].rows /\ job[v].wamid \in job[v].rows
        /\ job[v].pc = "mark" => job[v].rows \subseteq handled
        /\ job[v].pc = "close" /\ job[v].out = "ok" => job[v].rows \subseteq handled
    BY DEF Places, HandledInv
  <2>1. CASE v = w
    BY <1>0, <1>1, <2>0, <2>1 DEF Same
  <2>2. CASE v # w
    BY <1>0, <1>1, <2>0, <2>2
  <2>3. QED
    BY <2>1, <2>2
<1>13. HandledInv'
  BY <1>0, <1>12 DEF HandledInv
<1>14. DoneIsHandled'
  BY <1>0 DEF Places, DoneIsHandled
<1>15. QED
  BY <1>11, <1>13, <1>14 DEF Places


\* What must be shown of a step that leaves the rows and the answers alone and
\* gives one goroutine something else to do.
LEMMA MovePlaces ==
    ASSUME TypeInv, Places, NEW w \in Executors,
           \A v \in Executors \ {w} : job'[v] = job[v],
           UNCHANGED <<row, respondida, handled>>,
           ToSet(buffer') \subseteq ToSet(buffer),
           job'[w].pc \in Handling =>
             job'[w].texts = job'[w].rows /\ job'[w].wamid \in job'[w].rows,
           job'[w].pc \notin {"mark", "close"},
           w \in Loops /\ job'[w].pc \in Handling =>
             job'[w].rows \subseteq ToSet(buffer) /\ buffer' = <<>>,
           \A m \in stream' \cup pel' : Settled(m),
           \A e \in todo' : Settled(e[1]),
           w \in Workers => \A m \in job'[w].rows : Settled(m)
    PROVE  Places'
<1> USE DEF Handling
<1>1. Recorded' = Recorded /\ \A m : Settled(m)' = Settled(m)
  BY DEF Recorded, Settled
<1>2. \A m \in ToSet(buffer) : row[m] = "pending" /\ m \notin respondida /\ m \in Recorded
  BY DEF Places, PlaceInv, TypeInv, CountInv
<1>3. ASSUME NEW l \in Loops
      PROVE  /\ job'[l].pc \in Handling => \A m \in job'[l].rows : row'[m] = "pending"
             /\ job'[l].pc = "begin" => job'[l].rows \cap respondida' = {}
             /\ job'[l].pc \in Handling \cup {"close"} =>
                  job'[l].rows \cap ToSet(buffer') = {} /\ job'[l].rows \subseteq Recorded'
  <2>1. CASE l = w
    BY <1>1, <1>2, <2>1, NoBurst
  <2>2. CASE l # w
    <3>1. job'[l] = job[l]
      BY <2>2
    <3>2. QED
      BY <1>1, <3>1 DEF Places, PlaceInv
  <2>3. QED
    BY <2>1, <2>2
<1>4. \A v \in Workers : \A m \in job'[v].rows : Settled(m)'
  BY <1>1 DEF Places, PlaceInv
<1>5. PlaceInv'
  <2>1. \A m \in ToSet(buffer') : row'[m] = "pending" /\ m \notin respondida'
    BY <1>2
  <2>2. /\ \A m \in stream' \cup pel' : Settled(m)'
        /\ \A e \in todo' : Settled(e[1])'
        /\ respondida' \subseteq Recorded'
    BY <1>1 DEF Places, PlaceInv
  <2>3. QED
    BY <1>3, <1>4, <2>1, <2>2 DEF PlaceInv
<1>6. ASSUME NEW v \in Executors
      PROVE  /\ job'[v].pc \in Handling =>
                  job'[v].texts = job'[v].rows /\ job'[v].wamid \in job'[v].rows
             /\ job'[v].pc = "mark" => job'[v].rows \subseteq handled'
             /\ job'[v].pc = "close" /\ job'[v].out = "ok" => job'[v].rows \subseteq handled'
  <2>1. CASE v = w
    BY <2>1
  <2>2. CASE v # w
    <3>1. job'[v] = job[v]
      BY <2>2
    <3>2. QED
      BY <3>1 DEF Places, HandledInv
  <2>3. QED
    BY <2>1, <2>2
<1>7. HandledInv' /\ DoneIsHandled'
  <2>1. respondida' \subseteq handled' /\ DoneIsHandled'
    BY DEF Places, HandledInv, DoneIsHandled
  <2>2. QED
    BY <1>6, <2>1 DEF HandledInv
<1>8. QED
  BY <1>5, <1>7 DEF Places

LEMMA InitPlaces == Init => Places
BY NoBurst DEF Init, Places, PlaceInv, HandledInv, DoneIsHandled, Idle, Handling, Recorded

LEMMA NextPlaces ==
    ASSUME Batch \subseteq {Lead}, TypeInv, Places, [Next]_vars
    PROVE  Places'
<1>0. /\ job \in [Executors -> Jobs] /\ buffer \in Seq(Msgs)
      /\ attempts \in [Msgs -> 0..MaxFaults] /\ todo \subseteq Msgs \X (0..MaxFaults)
  BY DEF TypeInv, TypeOK
<1>1. ASSUME NEW m \in Msgs, Record(m) PROVE Places'
  <2>0. /\ m \notin Recorded /\ Recorded' = Recorded \cup {m} /\ row'[m] = "pending"
        /\ row[m] = "none" /\ \A n \in Msgs \ {m} : row'[n] = row[n]
        /\ UNCHANGED <<respondida, job, handled, queue, todo>>
    BY <1>1 DEF Record, Recorded, TypeInv, TypeOK
  <2>1. ToSet(buffer') = ToSet(buffer) \cup {m} /\ ToSet(buffer) \subseteq Recorded
    BY <1>1, <2>0, AppendFacts DEF Record, TypeInv, TypeOK, CountInv
  <2>2. \A n \in ToSet(buffer') : row'[n] = "pending" /\ n \notin respondida'
    BY <2>0, <2>1 DEF Places, PlaceInv, Recorded
  <2>3. \A n \in Msgs : Settled(n) => Settled(n)'
    BY <2>0 DEF Settled
  <2>4. /\ stream \cup pel \subseteq Msgs /\ \A e \in todo : e[1] \in Msgs
        /\ \A v \in Executors : job[v].rows \subseteq Msgs
    BY <1>0 DEF TypeInv, TypeOK, Jobs
  <2>5. /\ \A n \in stream' \cup pel' : Settled(n)'
        /\ \A e \in todo' : Settled(e[1])'
        /\ \A v \in Workers : \A n \in job'[v].rows : Settled(n)'
        /\ respondida' \subseteq Recorded'
    BY <2>0, <2>3, <2>4 DEF Places, PlaceInv
  <2>6. ASSUME NEW l \in Loops
        PROVE  /\ job'[l].pc \in Handling => \A n \in job'[l].rows : row'[n] = "pending"
               /\ job'[l].pc = "begin" => job'[l].rows \cap respondida' = {}
               /\ job'[l].pc \in Handling \cup {"close"} =>
                    job'[l].rows \cap ToSet(buffer') = {} /\ job'[l].rows \subseteq Recorded'
    BY <2>0, <2>1, <2>4 DEF Places, PlaceInv
  <2>7. PlaceInv'
    BY <2>2, <2>5, <2>6 DEF PlaceInv
  <2>8. HandledInv' /\ DoneIsHandled'
    BY <2>0 DEF Places, HandledInv, DoneIsHandled
  <2>9. QED
    BY <2>7, <2>8 DEF Places
<1>2. ASSUME UNCHANGED <<row, respondida, handled, buffer, queue, todo, job>> PROVE Places'
  BY <1>2 DEF Places, PlaceInv, HandledInv, DoneIsHandled, Settled, Recorded
<1>3. CASE beginOrQueue
  <2>0. UNCHANGED <<table, respondida, queue, todo, handled>>
    BY <1>3 DEF beginOrQueue
  <2>1. CASE processing \/ buffer = <<>>
    BY <1>2, <1>3, <2>0, <2>1 DEF beginOrQueue
  <2>2. CASE ~(processing \/ buffer = <<>>)
    <3>1. PICK l \in Loops :
            /\ At(l, "idle") /\ processing' = TRUE /\ buffer' = <<>>
            /\ job' = [job EXCEPT ![l] = combineInbound(buffer)]
      BY <1>3, <2>2, BeginFacts
    <3>2. /\ ToSet(buffer) \in SUBSET Msgs /\ Last(buffer) \in ToSet(buffer)
          /\ combineInbound(buffer) = Job(ToSet(buffer), Last(buffer), ToSet(buffer), 0)
          /\ 0 \in 0..MaxFaults
      BY <1>0, <2>2, BurstFacts, InboundAssumption
    <3>3. /\ \A v \in Executors \ {l} : job'[v] = job[v]
          /\ job'[l] = combineInbound(buffer)
      BY <1>0, <3>1, <3>2, JobFacts, GivenFacts
    <3>4. /\ job'[l].pc = "begin" /\ job'[l].texts = ToSet(buffer)
          /\ job'[l].wamid = Last(buffer) /\ job'[l].rows = ToSet(buffer)
      BY <3>2, <3>3, JobFacts
    <3>5. l \notin Workers
      BY InboundAssumption
    <3>6. \A m \in stream' \cup pel' : Settled(m)
      BY <2>0 DEF Places, PlaceInv
    <3>7. \A e \in todo' : Settled(e[1])
      BY <2>0 DEF Places, PlaceInv
    <3>8. QED
      BY <2>0, <3>1, <3>2, <3>3, <3>4, <3>5, <3>6, <3>7, NoBurst, MovePlaces
  <2>3. QED
    BY <2>1, <2>2
<1>4. ASSUME NEW l \in Loops, next(l) PROVE Places'
  <2>0. UNCHANGED <<table, respondida, queue, todo, handled>> /\ buffer' = <<>> /\ l \notin Workers
    BY <1>4, InboundAssumption DEF next
  <2>a. /\ \A m \in stream' \cup pel' : Settled(m)
        /\ \A e \in todo' : Settled(e[1])
    BY <2>0 DEF Places, PlaceInv
  <2>1. CASE buffer = <<>>
    <3>1. job' = [job EXCEPT ![l] = Idle]
      BY <1>4, <2>1 DEF next
    <3>2. \A v \in Executors \ {l} : job'[v] = job[v] /\ job'[l].pc = "idle"
      BY <1>0, <3>1, RestFacts
    <3>3. job'[l].pc = "idle"
      BY <1>0, <3>1, RestFacts
    <3>4. QED
      BY <2>0, <2>a, <3>2, <3>3, NoBurst, MovePlaces DEF Handling
  <2>2. CASE buffer # <<>>
    <3>1. job' = [job EXCEPT ![l] = combineInbound(buffer)]
      BY <1>4, <2>2 DEF next
    <3>2. /\ ToSet(buffer) \in SUBSET Msgs /\ Last(buffer) \in ToSet(buffer)
          /\ combineInbound(buffer) = Job(ToSet(buffer), Last(buffer), ToSet(buffer), 0)
          /\ 0 \in 0..MaxFaults
      BY <1>0, <2>2, BurstFacts, InboundAssumption
    <3>3. /\ \A v \in Executors \ {l} : job'[v] = job[v]
          /\ job'[l] = combineInbound(buffer)
      BY <1>0, <3>1, <3>2, JobFacts, GivenFacts
    <3>4. /\ job'[l].pc = "begin" /\ job'[l].texts = ToSet(buffer)
          /\ job'[l].wamid = Last(buffer) /\ job'[l].rows = ToSet(buffer)
      BY <3>2, <3>3, JobFacts
    <3>5. QED
      BY <2>0, <2>a, <3>2, <3>3, <3>4, NoBurst, MovePlaces
  <2>3. QED
    BY <2>1, <2>2
<1>5. ASSUME NEW m \in Msgs, Consume(m) PROVE Places'
  <2>0. /\ UNCHANGED <<table, respondida, buffer, todo, handled>> /\ "stream" \notin Loops
        /\ m \in stream /\ stream' = stream \ {m} /\ pel' = pel \cup {m}
    BY <1>5, InboundAssumption DEF Consume
  <2>a. /\ \A n \in stream' \cup pel' : Settled(n)
        /\ \A e \in todo' : Settled(e[1])
        /\ Settled(m)
    BY <2>0 DEF Places, PlaceInv
  <2>1. CASE job' = [job EXCEPT !["stream"] = rebuildInbound(m, attempts[m])]
    <3>1. /\ rebuildInbound(m, attempts[m]) = Job({m}, m, {m}, attempts[m])
          /\ attempts[m] \in 0..MaxFaults
      BY <1>0 DEF rebuildInbound
    <3>2. /\ \A v \in Executors \ {"stream"} : job'[v] = job[v]
          /\ job'["stream"] = Job({m}, m, {m}, attempts[m])
      BY <1>0, <2>1, <3>1, JobFacts, GivenFacts
    <3>3. /\ job'["stream"].pc = "begin" /\ job'["stream"].texts = {m}
          /\ job'["stream"].wamid = m /\ job'["stream"].rows = {m}
      BY <3>1, <3>2, JobFacts
    <3>4. QED
      BY <2>0, <2>a, <3>2, <3>3, MovePlaces
  <2>2. CASE job' = [job EXCEPT !["stream"] = [Idle EXCEPT !.pc = "next", !.rows = {m}]]
    <3>1. \A v \in Executors \ {"stream"} : job'[v] = job[v]
      BY <1>0, <2>2
    <3>2. job'["stream"].pc = "next" /\ job'["stream"].rows = {m}
      BY <1>0, <2>2 DEF Idle
    <3>3. QED
      BY <2>0, <2>a, <3>1, <3>2, MovePlaces DEF Handling
  <2>3. CASE UNCHANGED job
    <3>1. At("stream", "idle")
      BY <1>5 DEF Consume
    <3>2. \A n \in job["stream"].rows : Settled(n)
      BY DEF Places, PlaceInv
    <3>3. QED
      BY <2>0, <2>a, <2>3, <3>1, <3>2, MovePlaces DEF Handling
  <2>4. QED
    BY <1>5, <2>1, <2>2, <2>3 DEF Consume
<1>6. CASE Ack
  <2>1. /\ UNCHANGED <<table, respondida, buffer, stream, todo, handled>> /\ "stream" \notin Loops
        /\ pel' \subseteq pel
    BY <1>6, InboundAssumption DEF Ack
  <2>2. /\ \A v \in Executors \ {"stream"} : job'[v] = job[v]
        /\ job'["stream"].pc = "idle" /\ job'["stream"].rows = {}
    BY <1>0, <1>6, RestFacts DEF Ack
  <2>3. /\ \A m \in stream' \cup pel' : Settled(m)
        /\ \A e \in todo' : Settled(e[1])
    BY <2>1 DEF Places, PlaceInv
  <2>4. QED
    BY <2>1, <2>2, <2>3, MovePlaces DEF Handling
<1>7. CASE PendingRetries
  <2>1. /\ UNCHANGED <<table, respondida, buffer, queue, handled>> /\ "poll" \notin Loops
        /\ Goto("poll", "next") /\ todo' = {<<m, attempts[m]>> : m \in {n \in Msgs : Pending(n)}}
    BY <1>7, InboundAssumption DEF PendingRetries
  <2>2. /\ \A v \in Executors \ {"poll"} : job'[v] = job[v]
        /\ job'["poll"].pc = "next" /\ job'["poll"].rows = job["poll"].rows
    BY <1>0, <2>1, GotoFacts DEF Same
  <2>3. \A m \in stream' \cup pel' : Settled(m)
    BY <2>1 DEF Places, PlaceInv
  <2>4. \A e \in todo' : Settled(e[1])
    BY <2>1 DEF Pending, Settled
  <2>5. \A m \in job'["poll"].rows : Settled(m)
    BY <2>2 DEF Places, PlaceInv
  <2>6. QED
    BY <2>1, <2>2, <2>3, <2>4, <2>5, MovePlaces DEF Handling
<1>8. CASE NextRetry
  <2>0. /\ UNCHANGED <<table, respondida, buffer, queue, handled>> /\ "poll" \notin Loops
        /\ todo' \subseteq todo
    BY <1>8, InboundAssumption DEF NextRetry
  <2>a. /\ \A m \in stream' \cup pel' : Settled(m)
        /\ \A e \in todo : Settled(e[1])
    BY <2>0 DEF Places, PlaceInv
  <2>1. CASE job' = [job EXCEPT !["poll"] = Idle]
    <3>1. /\ \A v \in Executors \ {"poll"} : job'[v] = job[v]
          /\ job'["poll"].pc = "idle" /\ job'["poll"].rows = {}
      BY <1>0, <2>1, RestFacts
    <3>2. QED
      BY <2>0, <2>a, <3>1, MovePlaces DEF Handling
  <2>2. ASSUME NEW e \in todo, job' = [job EXCEPT !["poll"] = rebuildInbound(e[1], e[2])]
        PROVE  Places'
    <3>0. e[1] \in Msgs /\ e[2] \in 0..MaxFaults
      BY <1>0
    <3>1. rebuildInbound(e[1], e[2]) = Job({e[1]}, e[1], {e[1]}, e[2])
      BY DEF rebuildInbound
    <3>2. /\ \A v \in Executors \ {"poll"} : job'[v] = job[v]
          /\ job'["poll"] = Job({e[1]}, e[1], {e[1]}, e[2])
      BY <1>0, <2>2, <3>0, <3>1, JobFacts, GivenFacts
    <3>3. /\ job'["poll"].pc = "begin" /\ job'["poll"].texts = {e[1]}
          /\ job'["poll"].wamid = e[1] /\ job'["poll"].rows = {e[1]}
      BY <3>0, <3>2, JobFacts
    <3>4. /\ \A d \in todo' : Settled(d[1])
          /\ \A m \in job'["poll"].rows : Settled(m)
      BY <2>0, <2>a, <3>3
    <3>5. /\ job'["poll"].texts = job'["poll"].rows /\ job'["poll"].wamid \in job'["poll"].rows
          /\ job'["poll"].pc \notin {"mark", "close"} /\ ToSet(buffer') \subseteq ToSet(buffer)
      BY <2>0, <3>3
    <3>6. QED
      BY <2>0, <2>a, <3>2, <3>4, <3>5, MovePlaces
  <2>3. QED
    BY <1>8, <2>1, <2>2 DEF NextRetry
<1>9. CASE Restart
  <2>1. /\ buffer' = <<>> /\ todo' = {} /\ stream' = stream \cup pel /\ pel' = {}
        /\ UNCHANGED <<row, respondida, handled>>
        /\ \A w \in Executors : job'[w].pc = "idle" /\ job'[w].rows = {}
    BY <1>9 DEF Restart, Idle
  <2>2. PlaceInv'
    BY <2>1, NoBurst DEF Places, PlaceInv, Handling, Settled, Recorded
  <2>3. HandledInv' /\ DoneIsHandled'
    BY <2>1 DEF Places, HandledInv, DoneIsHandled, Handling
  <2>4. QED
    BY <2>2, <2>3 DEF Places
<1>10. CASE Dusk \/ Dawn \/ UNCHANGED vars \/ \E m \in Msgs : BackoffEnds(m)
  BY <1>2, <1>10 DEF Dusk, Dawn, BackoffEnds, vars
<1>11. QED
  BY <1>1, <1>3, <1>4, <1>5, <1>6, <1>7, <1>8, <1>9, <1>10, EnginePlaces
  DEF Next, Flush, Consumer, Poller

\* When every notification carries one message, as those of Evolution do, a row
\* is closed only when its own text reached the end of a call of Handle.
THEOREM ClosedIsHandled == Batch \subseteq {Lead} => (Spec => []DoneIsHandled)
<1> SUFFICES ASSUME Batch \subseteq {Lead} PROVE Spec => []DoneIsHandled
  OBVIOUS
<1>1. Init => TypeInv /\ Places
  BY InitTypeInv, InitPlaces
<1>2. TypeInv /\ Places /\ [Next]_vars => (TypeInv /\ Places)'
  BY NextTypeInv, NextPlaces
<1>3. Places => DoneIsHandled
  BY DEF Places
<1>4. QED
  BY <1>1, <1>2, <1>3, PTL DEF Spec

=============================================================================
