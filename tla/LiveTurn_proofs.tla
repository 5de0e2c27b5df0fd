---------------------------- MODULE LiveTurn_proofs ----------------------------
(***************************************************************************)
(* A running turn is always under some timer, a prompt never waits for a   *)
(* turn that does not run, and no question is answered twice: for any      *)
(* number of prompts, questions and stops, and whatever the process does.  *)
(***************************************************************************)
EXTENDS LiveTurn, TLAPS

LEMMA InitInv == Init => IInv
  BY DEF Init, IInv, LockOK, RunningIsWatched, QueueHasTurn

\* Senders, and the read loop as it ends, begins and aborts turns.
LEMMA TurnsKeepInv ==
    ASSUME IInv, Send \/ WritePrompt \/ AbortTurn \/ onTurnEnd \/ dropQuestion \/ EndReadLoop
    PROVE  IInv'
  <1>1. CASE Send
    BY <1>1 DEF Send, Arm, Stale,
                 IInv, LockOK, RunningIsWatched, QueueHasTurn, lockVars, cliVars, bounds
  <1>2. CASE WritePrompt
    BY <1>2 DEF WritePrompt,
                 IInv, LockOK, RunningIsWatched, QueueHasTurn, lockVars, cliVars, bounds
  <1>3. CASE AbortTurn
    BY <1>3 DEF AbortTurn, EndTurn, Over,
                 IInv, LockOK, RunningIsWatched, QueueHasTurn, lockVars, cliVars, bounds
  <1>4. CASE onTurnEnd
    BY <1>4 DEF onTurnEnd, EndTurn, Over,
                 IInv, LockOK, RunningIsWatched, QueueHasTurn, lockVars, cliVars, bounds
  <1>5. CASE dropQuestion
    BY <1>5 DEF dropQuestion,
                 IInv, LockOK, RunningIsWatched, QueueHasTurn, lockVars, cliVars, bounds
  <1>6. CASE EndReadLoop
    BY <1>6 DEF EndReadLoop, EndTurn, Over,
                 IInv, LockOK, RunningIsWatched, QueueHasTurn, lockVars, cliVars, bounds
  <1> QED
    BY <1>1, <1>2, <1>3, <1>4, <1>5, <1>6

\* Questions, from the control request to its answer, and Stop.
LEMMA QuestionsKeepInv ==
    ASSUME IInv,
           \/ \E q \in Questions : \/ handleControlRequest(q) \/ handleControlCancel(q)
                                   \/ resolveQuestion(q) \/ WriteResponse(q)
           \/ BeginStop \/ StopResolves \/ StopInterrupts
    PROVE  IInv'
  <1> USE ConstantsAssumption
  <1>1. ASSUME NEW q \in Questions, handleControlRequest(q) PROVE IInv'
    BY <1>1 DEF handleControlRequest, Disarm, Stale,
                 IInv, LockOK, RunningIsWatched, QueueHasTurn, lockVars, cliVars, bounds
  <1>2. ASSUME NEW q \in Questions, handleControlCancel(q) PROVE IInv'
    BY <1>2 DEF handleControlCancel, ArmIfRunning, Arm, Stale,
                 IInv, LockOK, RunningIsWatched, QueueHasTurn, lockVars, cliVars, bounds
  <1>3. ASSUME NEW q \in Questions, resolveQuestion(q) PROVE IInv'
    BY <1>3 DEF resolveQuestion, Resolve, ArmIfRunning, Arm, Stale,
                 IInv, LockOK, RunningIsWatched, QueueHasTurn, lockVars, cliVars, bounds
  <1>4. ASSUME NEW q \in Questions, WriteResponse(q) PROVE IInv'
    BY <1>4 DEF WriteResponse,
                 IInv, LockOK, RunningIsWatched, QueueHasTurn, lockVars, cliVars, bounds
  <1>5. ASSUME BeginStop PROVE IInv'
    BY <1>5 DEF BeginStop,
                 IInv, LockOK, RunningIsWatched, QueueHasTurn, lockVars, cliVars, bounds
  <1>6. ASSUME StopResolves PROVE IInv'
    BY <1>6 DEF StopResolves, Resolve, ArmIfRunning, Arm, Stale,
                 IInv, LockOK, RunningIsWatched, QueueHasTurn, lockVars, cliVars, bounds
  <1>7. ASSUME StopInterrupts PROVE IInv'
    BY <1>7 DEF StopInterrupts,
                 IInv, LockOK, RunningIsWatched, QueueHasTurn, lockVars, cliVars, bounds
  <1> QED
    BY <1>1, <1>2, <1>3, <1>4, <1>5, <1>6, <1>7

\* The watchdog, the reaper, evictions and the process.
LEMMA TimersKeepInv ==
    ASSUME IInv,
           \/ Fire \/ CheckGeneration \/ KillByWatchdog
           \/ ChooseVictim \/ CloseDisarms \/ CloseInput \/ Terminate
           \/ CliStep \/ Exit \/ UNCHANGED vars
    PROVE  IInv'
  <1>1. CASE Fire
    BY <1>1 DEF Fire, IInv, LockOK, RunningIsWatched, QueueHasTurn, lockVars, cliVars, bounds
  <1>2. CASE CheckGeneration
    BY <1>2 DEF CheckGeneration, IInv, LockOK, RunningIsWatched, QueueHasTurn, lockVars, cliVars, bounds
  <1>3. CASE KillByWatchdog
    BY <1>3 DEF KillByWatchdog, IInv, LockOK, RunningIsWatched, QueueHasTurn, lockVars, cliVars, bounds
  <1>4. CASE ChooseVictim
    BY <1>4 DEF ChooseVictim, IInv, LockOK, RunningIsWatched, QueueHasTurn, lockVars, cliVars, bounds
  <1>5. CASE CloseDisarms
    BY <1>5 DEF CloseDisarms, Disarm, Stale, IInv, LockOK, RunningIsWatched, QueueHasTurn, lockVars, cliVars, bounds
  <1>6. CASE CloseInput
    BY <1>6 DEF CloseInput, IInv, LockOK, RunningIsWatched, QueueHasTurn, lockVars, cliVars, bounds
  <1>7. CASE Terminate
    BY <1>7 DEF Terminate, IInv, LockOK, RunningIsWatched, QueueHasTurn, lockVars, cliVars, bounds
  <1>8. CASE CliStep
    BY <1>8 DEF CliStep, IInv, LockOK, RunningIsWatched, QueueHasTurn, lockVars, cliVars, bounds
  <1>9. CASE Exit
    BY <1>9 DEF Exit, IInv, LockOK, RunningIsWatched, QueueHasTurn, lockVars, cliVars, bounds
  <1>10. CASE UNCHANGED vars
    BY <1>10 DEF vars, IInv, LockOK, RunningIsWatched, QueueHasTurn, lockVars, cliVars, bounds
  <1> QED
    BY <1>1, <1>2, <1>3, <1>4, <1>5, <1>6, <1>7, <1>8, <1>9, <1>10

\* What the lock protects stays consistent: the inductive invariant.
THEOREM Inductive == Spec => []IInv
  <1>1. IInv /\ [Next]_vars => IInv'
    BY TurnsKeepInv, QuestionsKeepInv, TimersKeepInv DEF Next, ReadLoop
  <1> QED
    BY InitInv, <1>1, PTL DEF Spec

\* armWatchdogLocked and disarmWatchdogLocked are called in pairs that never
\* leave a living turn without a timer.
THEOREM TurnsAreWatched == Spec => []RunningIsWatched
  <1>1. IInv => RunningIsWatched
    BY DEF IInv
  <1> QED
    BY Inductive, <1>1, PTL

\* Whoever makes the session idle has emptied its queue.
THEOREM QueuesAreServed == Spec => []QueueHasTurn
  <1>1. IInv => QueueHasTurn
    BY DEF IInv
  <1> QED
    BY Inductive, <1>1, PTL

-----------------------------------------------------------------------------
(* Types, and the questions *)

LEMMA InitType == Init => TypeOK
  BY ConstantsAssumption DEF Init, TypeOK

LEMMA ResolveTypes ==
    ASSUME TypeOK, NEW q \in Questions, Resolve(q)
    PROVE  /\ question' \in Questions \cup {None} /\ respond' \in [Questions -> Nat]
           /\ watchdog' \in {"off", "armed", "fired"}
           /\ callback' \in {"none", "current", "stale", "killing", "late"}
  BY DEF Resolve, ArmIfRunning, Arm, Stale, TypeOK

\* What a step of the process says is a sequence of events.
LEMMA SaysTypes ==
    ASSUME TypeOK, CliStep
    PROVE  /\ out' \in Seq(Events) /\ inbox' \in Seq(Lines)
           /\ cli' \in {"waiting", "working"} \cup Questions /\ posed' \subseteq Questions
  <1>1. Result \in Events /\ \A q \in Questions : Ask(q) \in Events /\ Cancel(q) \in Events
    BY DEF Result, Ask, Cancel, Events
  <1>2. \A e \in Events, f \in Events : <<e>> \in Seq(Events) /\ <<e, f>> \in Seq(Events)
    OBVIOUS
  <1>3. \A s \in Seq(Events) : Says(s) => out' \in Seq(Events)
    BY DEF Says, TypeOK
  <1>4. CASE TakeLine /\ UNCHANGED posed
    <2>1. inbox' \in Seq(Lines) /\ cli' \in {"waiting", "working"} \cup Questions /\ posed' = posed
      BY <1>4 DEF TakeLine, TypeOK, Lines
    <2>2. \/ out' = out \/ Says(<<Result>>)
          \/ cli \in Questions /\ Says(<<Cancel(cli), Result>>)
      BY <1>4 DEF TakeLine
    <2> QED
      BY <1>1, <1>2, <1>3, <2>1, <2>2 DEF TypeOK
  <1>5. CASE Work /\ UNCHANGED inbox
    <2>1. cli' \in {"waiting", "working"} \cup Questions /\ posed' \subseteq Questions /\ inbox' = inbox
      BY <1>5 DEF Work, TypeOK
    <2>2. \/ Says(<<Result>>) \/ \E q \in Questions : Says(<<Ask(q)>>)
          \/ cli \in Questions /\ Says(<<Cancel(cli)>>)
      BY <1>5 DEF Work
    <2> QED
      BY <1>1, <1>2, <1>3, <2>1, <2>2 DEF TypeOK
  <1> QED
    BY <1>4, <1>5 DEF CliStep

LEMMA NextType == TypeOK /\ [Next]_vars => TypeOK'
  <1> SUFFICES ASSUME TypeOK, [Next]_vars PROVE TypeOK'
    OBVIOUS
  <1> USE ConstantsAssumption DEF lockVars, cliVars, bounds
  <1>1. CASE Send
    BY <1>1 DEF Send, Arm, Stale, TypeOK
  <1>2. CASE WritePrompt
    BY <1>2 DEF WritePrompt, Written, Write, TypeOK, Lines
  <1>3. CASE AbortTurn
    BY <1>3 DEF AbortTurn, Written, EndTurn, Over, TypeOK
  <1>4. CASE onTurnEnd
    BY <1>4 DEF onTurnEnd, Read, EndTurn, Over, TypeOK
  <1>5. CASE dropQuestion
    BY <1>5 DEF dropQuestion, TypeOK
  <1>6. CASE EndReadLoop
    BY <1>6 DEF EndReadLoop, EndTurn, Over, TypeOK
  <1>7. ASSUME NEW q \in Questions, handleControlRequest(q) PROVE TypeOK'
    BY <1>7 DEF handleControlRequest, Read, Disarm, Stale, TypeOK
  <1>8. ASSUME NEW q \in Questions, handleControlCancel(q) PROVE TypeOK'
    BY <1>8 DEF handleControlCancel, Read, ArmIfRunning, Arm, Stale, TypeOK
  <1>9. ASSUME NEW q \in Questions, resolveQuestion(q) PROVE TypeOK'
    BY <1>9, ResolveTypes DEF resolveQuestion, TypeOK
  <1>10. ASSUME NEW q \in Questions, WriteResponse(q) PROVE TypeOK'
    BY <1>10 DEF WriteResponse, WriteIfOpen, TypeOK, Lines
  <1>11. CASE BeginStop
    BY <1>11 DEF BeginStop, TypeOK
  <1>12. CASE StopResolves
    BY <1>12, ResolveTypes DEF StopResolves, TypeOK
  <1>13. CASE StopInterrupts
    BY <1>13 DEF StopInterrupts, WriteIfOpen, TypeOK, Lines
  <1>14. CASE Fire \/ CheckGeneration \/ KillByWatchdog
    BY <1>14 DEF Fire, CheckGeneration, KillByWatchdog, TypeOK
  <1>15. CASE ChooseVictim \/ CloseDisarms \/ CloseInput \/ Terminate
    BY <1>15 DEF ChooseVictim, CloseDisarms, CloseInput, Terminate, Disarm, Stale, TypeOK
  <1>16. CASE CliStep
    <2>1. UNCHANGED <<lockVars, respond, answered, writers, reader, stop, reap, proc, bounds>>
      BY <1>16 DEF CliStep
    <2> QED
      BY <1>16, <2>1, SaysTypes DEF TypeOK
  <1>17. CASE Exit
    BY <1>17 DEF Exit, TypeOK
  <1>18. CASE UNCHANGED vars
    BY <1>18 DEF vars, TypeOK
  <1> QED
    BY <1>1, <1>2, <1>3, <1>4, <1>5, <1>6, <1>7, <1>8, <1>9, <1>10, <1>11, <1>12, <1>13, <1>14,
       <1>15, <1>16, <1>17, <1>18 DEF Next, ReadLoop

\* Every variable keeps its type.
THEOREM TypeCorrect == Spec => []TypeOK
  BY InitType, NextType, PTL DEF Spec

LEMMA InitAsked == Init => AskInv
  <1> SUFFICES ASSUME Init PROVE AskInv
    OBVIOUS
  <1>1. DOMAIN out = {}
    BY DEF Init
  <1>2. \A q \in Questions : ~Unread(q)
    BY <1>1 DEF Unread
  <1>3. \A q \in Questions : question # q
    BY ConstantsAssumption DEF Init
  <1>4. \A q \in Questions : answered[q] = 0 /\ respond[q] = 0
    BY DEF Init
  <1>5. ASSUME NEW q \in Questions PROVE answered[q] + respond[q] = 0 /\ answered[q] + respond[q] <= 1
    <2>1. answered[q] = 0 /\ respond[q] = 0
      BY <1>4
    <2>2. 0 + 0 = 0 /\ 0 <= 1
      OBVIOUS
    <2> QED
      BY <2>1, <2>2, Zenon
  <1>6. ASSUME NEW q \in Questions, NEW i \in DOMAIN out, NEW j \in DOMAIN out PROVE FALSE
    BY <1>1, <1>6
  <1> QED
    BY <1>2, <1>3, <1>5, <1>6 DEF AskInv, Untouched

\* Reading takes the first event away and keeps the order of the others.
LEMMA ReadShifts ==
    ASSUME TypeOK, NEW event, Read(event)
    PROVE  /\ Len(out) \in Nat /\ Len(out) > 0 /\ out[1] = event
           /\ DOMAIN out = 1 .. Len(out) /\ DOMAIN out' = 1 .. Len(out) - 1
           /\ \A i \in DOMAIN out' : i + 1 \in DOMAIN out /\ out'[i] = out[i + 1]
  BY DEF Read, TypeOK

LEMMA ReadKeeps ==
    ASSUME TypeOK, NEW event, Read(event), NEW q \in Questions,
           \A i, j \in DOMAIN out : out[i] = Ask(q) /\ out[j] = Ask(q) => i = j
    PROVE  /\ Unread(q)' => Unread(q)
           /\ event = Ask(q) => Unread(q) /\ ~Unread(q)'
           /\ (\A i, j \in DOMAIN out : out[i] = Ask(q) /\ out[j] = Ask(q) => i = j)'
  <1>1. Unread(q)' => Unread(q)
    BY ReadShifts DEF Unread
  <1>2. ASSUME event = Ask(q) PROVE Unread(q) /\ ~Unread(q)'
    <2>1. 1 \in DOMAIN out /\ out[1] = Ask(q)
      BY <1>2, ReadShifts
    <2>2. ASSUME NEW i \in DOMAIN out', out'[i] = Ask(q) PROVE FALSE
      <3>1. i + 1 \in DOMAIN out /\ out[i + 1] = Ask(q) /\ i + 1 # 1
        BY <2>2, ReadShifts
      <3> QED
        BY <2>1, <3>1
    <2> QED
      BY <2>1, <2>2 DEF Unread, Ask
  <1>3. ASSUME NEW i \in DOMAIN out', NEW j \in DOMAIN out', out'[i] = Ask(q), out'[j] = Ask(q)
        PROVE  i = j
    <2>1. i + 1 = j + 1
      BY <1>3, ReadShifts
    <2> QED
      BY <2>1, ReadShifts
  <1> QED
    BY <1>1, <1>2, <1>3 DEF Ask

\* A step that asks nothing, and answers at most what was pending.
LEMMA AskedUntouched ==
    ASSUME AskInv, UNCHANGED <<out, question, respond, answered, posed>>
    PROVE  AskInv'
  BY DEF AskInv, Unread, Untouched, Ask

LEMMA ResolveKeepsAsked ==
    ASSUME TypeOK, AskInv, NEW p \in Questions, Resolve(p), UNCHANGED <<out, answered, posed>>
    PROVE  AskInv'
  <1> SUFFICES ASSUME NEW q \in Questions
               PROVE  /\ q \notin posed => Untouched(q)' /\ ~Unread(q)
                      /\ Unread(q) => Untouched(q)'
                      /\ question' = q => answered[q] + respond'[q] = 0
                      /\ answered[q] + respond'[q] <= 1
    BY DEF AskInv, Unread, Ask
  <1>1. question = p /\ question' = None /\ question' # q
    BY ConstantsAssumption DEF Resolve
  <1>2. respond'[q] = IF q = p THEN respond[q] + 1 ELSE respond[q]
    BY DEF Resolve, TypeOK
  <1>3. respond[q] \in Nat /\ answered[q] \in Nat
    BY DEF TypeOK
  <1> QED
    BY <1>1, <1>2, <1>3 DEF AskInv, Untouched

\* What the process says is appended: a question is in it only if it is new.
LEMMA SaysKeeps ==
    ASSUME TypeOK, AskInv, NEW s \in Seq(Events), Says(s), NEW q \in Questions,
           \A i, j \in DOMAIN s : s[i] = Ask(q) /\ s[j] = Ask(q) => i = j,
           (\E i \in DOMAIN s : s[i] = Ask(q)) => q \notin posed
    PROVE  /\ Unread(q)' => Unread(q) \/ \E i \in DOMAIN s : s[i] = Ask(q)
           /\ (\A i, j \in DOMAIN out : out[i] = Ask(q) /\ out[j] = Ask(q) => i = j)'
  <1>1. /\ DOMAIN out = 1 .. Len(out) /\ DOMAIN s = 1 .. Len(s)
        /\ DOMAIN out' = 1 .. Len(out) + Len(s)
        /\ Len(out) \in Nat /\ Len(s) \in Nat
    BY DEF Says, TypeOK
  <1>2. \A i \in DOMAIN out' :
            \/ i \in DOMAIN out /\ out'[i] = out[i]
            \/ i - Len(out) \in DOMAIN s /\ out'[i] = s[i - Len(out)]
    BY <1>1 DEF Says, TypeOK
  <1>3. Unread(q)' => Unread(q) \/ \E i \in DOMAIN s : s[i] = Ask(q)
    BY <1>2 DEF Unread, Ask
  <1>4. ASSUME NEW i \in DOMAIN out', NEW j \in DOMAIN out', out'[i] = Ask(q), out'[j] = Ask(q)
        PROVE  i = j
    <2>1. q \notin posed => ~Unread(q)
      BY DEF AskInv
    <2>2. CASE i \in DOMAIN out /\ out'[i] = out[i] /\ j \in DOMAIN out /\ out'[j] = out[j]
      BY <1>4, <2>2 DEF AskInv
    <2>3. CASE /\ i - Len(out) \in DOMAIN s /\ out'[i] = s[i - Len(out)]
               /\ j - Len(out) \in DOMAIN s /\ out'[j] = s[j - Len(out)]
      <3>1. i - Len(out) = j - Len(out)
        BY <1>4, <2>3
      <3> QED
        BY <3>1, <1>1
    <2> QED
      BY <1>2, <1>4, <2>1, <2>2, <2>3 DEF Unread
  <1> QED
    BY <1>3, <1>4 DEF Ask

LEMMA CliKeepsAsked ==
    ASSUME TypeOK, AskInv, CliStep
    PROVE  AskInv'
  <1>1. UNCHANGED <<question, respond, answered>>
    BY DEF CliStep, lockVars
  <1>2. \A q \in Questions : /\ Ask(q) \in Events /\ Cancel(q) \in Events /\ Result \in Events
                            /\ Ask(q) # Result
                            /\ \A p \in Questions : Ask(q) # Cancel(p) /\ (p # q => Ask(q) # Ask(p))
    BY DEF Ask, Cancel, Result, Events
  <1>3. CASE out' = out /\ posed' = posed
    BY <1>1, <1>3, AskedUntouched
  <1>4. ASSUME NEW s \in Seq(Events), Says(s), posed' = posed,
               \A q \in Questions : \A i \in DOMAIN s : s[i] # Ask(q)
        PROVE  AskInv'
    <2>1. \A q \in Questions :
              /\ Unread(q)' => Unread(q)
              /\ (\A i, j \in DOMAIN out : out[i] = Ask(q) /\ out[j] = Ask(q) => i = j)'
      BY <1>4, SaysKeeps
    <2> QED
      BY <1>1, <1>4, <2>1 DEF AskInv, Untouched, Ask
  <1>5. ASSUME NEW p \in Questions \ posed, Says(<<Ask(p)>>), posed' = posed \cup {p}
        PROVE  AskInv'
    <2>1. <<Ask(p)>> \in Seq(Events) /\ DOMAIN <<Ask(p)>> = {1} /\ <<Ask(p)>>[1] = Ask(p)
      BY <1>2
    <2>2. \A q \in Questions :
              /\ Unread(q)' => Unread(q) \/ q = p
              /\ (\A i, j \in DOMAIN out : out[i] = Ask(q) /\ out[j] = Ask(q) => i = j)'
      <3>1. /\ \A i, j \in DOMAIN <<Ask(p)>> : i = j
            /\ \A q \in Questions : (\E i \in DOMAIN <<Ask(p)>> : <<Ask(p)>>[i] = Ask(q)) => q = p
        BY <1>2, <2>1
      <3>2. p \notin posed /\ p \in Questions /\ Says(<<Ask(p)>>)
        BY <1>5
      <3> QED
        BY <2>1, <3>1, <3>2, SaysKeeps
    <2>3. Untouched(p)
      BY DEF AskInv
    <2> QED
      BY <1>1, <1>5, <2>2, <2>3 DEF AskInv, Untouched, Ask
  <1>6. \A q \in Questions :
            /\ <<Result>> \in Seq(Events) /\ <<Cancel(q)>> \in Seq(Events)
            /\ <<Cancel(q), Result>> \in Seq(Events)
    <2>1. \A e \in Events, f \in Events : <<e>> \in Seq(Events) /\ <<e, f>> \in Seq(Events)
      OBVIOUS
    <2> QED
      BY <1>2, <2>1
  <1>7. \A q \in Questions : \A p \in Questions :
            /\ \A i \in DOMAIN <<Result>> : <<Result>>[i] # Ask(p)
            /\ \A i \in DOMAIN <<Cancel(q)>> : <<Cancel(q)>>[i] # Ask(p)
            /\ \A i \in DOMAIN <<Cancel(q), Result>> : <<Cancel(q), Result>>[i] # Ask(p)
    BY <1>2
  <1>8. \/ out' = out /\ posed' = posed
        \/ Says(<<Result>>) /\ posed' = posed
        \/ cli \in Questions /\ Says(<<Cancel(cli)>>) /\ posed' = posed
        \/ cli \in Questions /\ Says(<<Cancel(cli), Result>>) /\ posed' = posed
        \/ \E p \in Questions \ posed : Says(<<Ask(p)>>) /\ posed' = posed \cup {p}
    BY DEF CliStep, TakeLine, Work
  <1>9. <<Result>> \in Seq(Events) /\ \A p \in Questions : \A i \in DOMAIN <<Result>> : <<Result>>[i] # Ask(p)
    BY DEF Result, Events, Ask
  <1> QED
    BY <1>3, <1>4, <1>5, <1>6, <1>7, <1>8, <1>9

LEMMA NextAsked == TypeOK /\ AskInv /\ [Next]_vars => AskInv'
  <1> SUFFICES ASSUME TypeOK, AskInv, [Next]_vars PROVE AskInv'
    OBVIOUS
  <1> USE ConstantsAssumption DEF lockVars, cliVars, bounds
  <1>1. CASE Send \/ WritePrompt \/ AbortTurn \/ EndReadLoop
    BY <1>1, AskedUntouched DEF Send, WritePrompt, AbortTurn, EndReadLoop, Arm, EndTurn
  <1>2. CASE onTurnEnd
    <2>1. UNCHANGED <<question, respond, answered, posed>>
      BY <1>2 DEF onTurnEnd, EndTurn
    <2>2. \A q \in Questions : Unread(q)' => Unread(q)
      BY <1>2, ReadKeeps DEF onTurnEnd, AskInv
    <2>3. \A q \in Questions :
              (\A i, j \in DOMAIN out : out[i] = Ask(q) /\ out[j] = Ask(q) => i = j)'
      BY <1>2, ReadKeeps DEF onTurnEnd, AskInv
    <2> QED
      BY <2>1, <2>2, <2>3 DEF AskInv, Untouched, Ask
  <1>3. CASE dropQuestion
    BY <1>3 DEF dropQuestion, AskInv, Unread, Untouched, Ask
  <1>4. ASSUME NEW p \in Questions, handleControlRequest(p) PROVE AskInv'
    <2>1. Read(Ask(p)) /\ UNCHANGED <<answered, posed>>
      BY <1>4 DEF handleControlRequest
    <2>2. \A q \in Questions :
              /\ Unread(q)' => Unread(q)
              /\ (\A i, j \in DOMAIN out : out[i] = Ask(q) /\ out[j] = Ask(q) => i = j)'
      BY <2>1, ReadKeeps DEF AskInv
    <2>3. Unread(p) /\ ~Unread(p)'
      BY <2>1, ReadKeeps DEF AskInv
    <2>4. Untouched(p) /\ p \in posed
      BY <2>3 DEF AskInv
    <2>5. \/ question' = p /\ question = None /\ respond' = respond
          \/ question' = question /\ respond' = [respond EXCEPT ![p] = @ + 1]
      BY <1>4 DEF handleControlRequest
    <2>6. \A q \in Questions : respond[q] \in Nat /\ answered[q] \in Nat
      BY DEF TypeOK
    <2>7. \A q \in Questions : q # p => respond'[q] = respond[q] /\ (question' = q => question = q)
      BY <2>5 DEF TypeOK
    <2>8. answered[p] + respond'[p] <= 1 /\ (question' = p => answered[p] + respond'[p] = 0)
      BY <2>4, <2>5, <2>6 DEF Untouched, TypeOK
    <2> QED
      BY <2>1, <2>2, <2>3, <2>4, <2>7, <2>8 DEF AskInv, Untouched, Ask
  <1>5. ASSUME NEW p \in Questions, handleControlCancel(p) PROVE AskInv'
    <2>1. Read(Cancel(p)) /\ UNCHANGED <<respond, answered, posed>> /\ question' \in {question, None}
      BY <1>5 DEF handleControlCancel
    <2>2. \A q \in Questions :
              /\ Unread(q)' => Unread(q)
              /\ (\A i, j \in DOMAIN out : out[i] = Ask(q) /\ out[j] = Ask(q) => i = j)'
      BY <2>1, ReadKeeps DEF AskInv
    <2> QED
      BY <2>1, <2>2 DEF AskInv, Untouched, Ask
  <1>6. ASSUME NEW p \in Questions, resolveQuestion(p) PROVE AskInv'
    BY <1>6, ResolveKeepsAsked DEF resolveQuestion
  <1>7. ASSUME NEW p \in Questions, WriteResponse(p) PROVE AskInv'
    <2>1. UNCHANGED <<question, out, posed>>
      BY <1>7 DEF WriteResponse
    <2>2. \A q \in Questions : answered'[q] + respond'[q] = answered[q] + respond[q]
      BY <1>7 DEF WriteResponse, TypeOK
    <2> QED
      BY <2>1, <2>2 DEF AskInv, Unread, Untouched, Ask
  <1>8. CASE BeginStop \/ StopInterrupts
    BY <1>8, AskedUntouched DEF BeginStop, StopInterrupts
  <1>9. CASE StopResolves
    <2>1. CASE Resolve(stop)
      BY <1>9, <2>1, ResolveKeepsAsked DEF StopResolves
    <2>2. CASE UNCHANGED <<question, watchdog, callback, respond>>
      BY <1>9, <2>2, AskedUntouched DEF StopResolves
    <2> QED
      BY <1>9, <2>1, <2>2 DEF StopResolves
  <1>10. CASE Fire \/ CheckGeneration \/ KillByWatchdog
    BY <1>10, AskedUntouched DEF Fire, CheckGeneration, KillByWatchdog
  <1>11. CASE ChooseVictim \/ CloseDisarms \/ CloseInput \/ Terminate \/ Exit
    BY <1>11, AskedUntouched DEF ChooseVictim, CloseDisarms, CloseInput, Terminate, Exit
  <1>12. CASE CliStep
    BY <1>12, CliKeepsAsked
  <1>13. CASE UNCHANGED vars
    BY <1>13, AskedUntouched DEF vars
  <1> QED
    BY <1>1, <1>2, <1>3, <1>4, <1>5, <1>6, <1>7, <1>8, <1>9, <1>10, <1>11, <1>12, <1>13
       DEF Next, ReadLoop

\* The user, the timer of the question, Stop and the refusal of a second
\* question never answer the same control request twice.
THEOREM AnsweredAtMostOnce == Spec => []AnsweredOnce
  <1>1. AskInv => AnsweredOnce
    BY DEF AskInv, AnsweredOnce
  <1> QED
    BY InitType, NextType, InitAsked, NextAsked, <1>1, PTL DEF Spec

=============================================================================
