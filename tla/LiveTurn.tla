------------------------------- MODULE LiveTurn -------------------------------
(***************************************************************************)
(* The turns of one live session of agent-go (livesession.go, question.go):*)
(* prompts that wait for the turn before them, the watchdog that kills a   *)
(* turn which takes too long, and the question the process asks the user,  *)
(* during which the watchdog rests. Senders, the panel, the timers, the    *)
(* reaper and the read loop share the state under one lock, and write to   *)
(* the process and kill it after they have released it.                    *)
(*                                                                         *)
(* A timer that fires runs as a callback of its own. The generation        *)
(* counter of the watchdog is kept as what it decides: whether the         *)
(* callback in flight is the current one or a stale one. The `claude`      *)
(* process is external: it is modelled from what the session expects of    *)
(* it, and may hang at any point.                                          *)
(*                                                                         *)
(* Definitions whose comment begins with "Mutant" are wrong on purpose, to *)
(* see that a property notices.                                            *)
(***************************************************************************)
EXTENDS Naturals, Sequences

CONSTANTS
    Questions,   \* the control requests the process ever makes
    MaxPrompts,  \* how many prompts are ever sent
    MaxStops,    \* how many times Stop is called
    None

ASSUME ConstantsAssumption == MaxPrompts \in Nat /\ MaxStops \in Nat /\ None \notin Questions

VARIABLES
    state,     \* liveSession.state
    queue,     \* how many prompts wait
    watchdog,  \* its timer: off, armed, or fired
    callback,  \* the callback of the watchdog: none, current or stale, killing
               \* once it has seen that it is current, late when its turn ends then
    question,  \* liveSession.question
    respond,   \* responses about to be written, by question
    answered,  \* responses written, by question
    posed,     \* the questions the process has asked
    writers,   \* prompts between the lock and the pipe: senders
    reader,    \* the read loop: reading, writing (a prompt), dropped, gone
    stop,      \* Stop: none, a question it is about to refuse, or interrupting
    reap,      \* the reaper: none, chosen, disarmed, closed
    proc,      \* the process: alive, doomed, exited
    cli,       \* what it does: waiting, working, or the question it has asked
    inbox,     \* its stdin
    out,       \* its stdout
    prompts,   \* how many prompts were sent
    stops      \* how many times Stop was called

lockVars == <<state, queue, watchdog, callback, question>>
bounds == <<prompts, stops>>
cliVars == <<proc, cli, inbox, out, posed>>
vars == <<lockVars, respond, answered, writers, reader, stop, reap, cliVars, bounds>>

Lines == {"prompt", "interrupt"} \cup Questions
Events == [type : {"result"}] \cup [type : {"ask", "cancel"}, q : Questions]
Result == [type |-> "result"]
Ask(q) == [type |-> "ask", q |-> q]
Cancel(q) == [type |-> "cancel", q |-> q]

TypeOK ==
    /\ state \in {"idle", "running"} /\ queue \in Nat
    /\ watchdog \in {"off", "armed", "fired"}
    /\ callback \in {"none", "current", "stale", "killing", "late"}
    /\ question \in Questions \cup {None}
    /\ respond \in [Questions -> Nat] /\ answered \in [Questions -> Nat]
    /\ posed \subseteq Questions
    /\ writers \in Nat /\ reader \in {"reading", "writing", "dropped", "gone"}
    /\ stop \in {"none", "interrupt"} \cup Questions
    /\ reap \in {"none", "chosen", "disarmed", "closed"}
    /\ proc \in {"alive", "doomed", "exited"}
    /\ cli \in {"waiting", "working"} \cup Questions
    /\ inbox \in Seq(Lines) /\ out \in Seq(Events)
    /\ prompts \in 0 .. MaxPrompts /\ stops \in 0 .. MaxStops

Init ==
    /\ state = "idle" /\ queue = 0 /\ watchdog = "off" /\ callback = "none"
    /\ question = None
    /\ respond = [q \in Questions |-> 0] /\ answered = [q \in Questions |-> 0]
    /\ posed = {} /\ writers = 0 /\ reader = "reading" /\ stop = "none" /\ reap = "none"
    /\ proc = "alive" /\ cli = "waiting" /\ inbox = <<>> /\ out = <<>>
    /\ prompts = 0 /\ stops = 0

-----------------------------------------------------------------------------
(* Under the lock *)

\* armWatchdogLocked and disarmWatchdogLocked both begin a new generation.
Stale == IF callback = "current" THEN "stale" ELSE callback
Arm == watchdog' = "armed" /\ callback' = Stale
Disarm == watchdog' = "off" /\ callback' = Stale

\* What a new generation or an idle session makes of a callback whose turn is over.
Over == CASE callback = "current" -> "stale" [] callback = "killing" -> "late" [] OTHER -> callback

EndTurn == state' = "idle" /\ watchdog' = "off" /\ callback' = Over

Open == proc # "exited" /\ reap # "closed"
Write(line) == inbox' = Append(inbox, line)
WriteIfOpen(line) == inbox' = IF Open THEN Append(inbox, line) ELSE inbox

-----------------------------------------------------------------------------
(* Send and persistAndWrite *)

Send ==
    /\ prompts < MaxPrompts /\ prompts' = prompts + 1
    /\ \/ /\ state = "running"
          /\ queue' = queue + 1 /\ UNCHANGED <<state, watchdog, callback, writers>>
       \/ /\ state = "idle"
          /\ state' = "running" /\ Arm /\ writers' = writers + 1 /\ UNCHANGED queue
    /\ UNCHANGED <<question, respond, answered, reader, stop, reap, cliVars, stops>>

\* Who is between the lock and the pipe: a sender, or the read loop.
Written ==
    \/ writers > 0 /\ writers' = writers - 1 /\ UNCHANGED reader
    \/ reader = "writing" /\ reader' = "reading" /\ UNCHANGED writers

WritePrompt ==
    /\ Written /\ Open /\ Write("prompt")
    /\ UNCHANGED <<lockVars, respond, answered, stop, reap, proc, cli, out, posed, bounds>>

\* Mutant: the queue survives a turn that could not begin.
AbortKeepsQueue ==
    /\ Written
    /\ EndTurn
    /\ UNCHANGED <<queue, question, respond, answered, stop, reap, cliVars, bounds>>

\* A bad attachment, or a pipe that is closed: resetToIdle.
AbortTurn ==
    /\ Written
    /\ EndTurn /\ queue' = 0
    /\ UNCHANGED <<question, respond, answered, stop, reap, cliVars, bounds>>

-----------------------------------------------------------------------------
(* The read loop *)

Read(event) == reader = "reading" /\ out # <<>> /\ Head(out) = event /\ out' = Tail(out)

onTurnEnd ==
    /\ Read(Result)
    /\ \/ /\ queue > 0
          /\ queue' = queue - 1 /\ watchdog' = "armed" /\ callback' = Over
          /\ reader' = "writing" /\ UNCHANGED state
       \/ queue = 0 /\ EndTurn /\ UNCHANGED <<queue, reader>>
    /\ UNCHANGED <<question, respond, answered, writers, stop, reap, proc, cli, inbox, posed, bounds>>

\* One question at a time: a second one is refused at once.
handleControlRequest(q) ==
    /\ Read(Ask(q))
    /\ \/ /\ question = None
          /\ question' = q /\ Disarm /\ UNCHANGED respond
       \/ /\ question # None
          /\ respond' = [respond EXCEPT ![q] = @ + 1] /\ UNCHANGED <<question, watchdog, callback>>
    /\ UNCHANGED <<state, queue, answered, writers, reader, stop, reap, proc, cli, inbox, posed,
                   bounds>>

ArmIfRunning ==
    \/ state = "running" /\ Arm
    \/ state = "idle" /\ UNCHANGED <<watchdog, callback>>

handleControlCancel(q) ==
    /\ Read(Cancel(q))
    /\ \/ question = q /\ question' = None /\ ArmIfRunning
       \/ question # q /\ UNCHANGED <<question, watchdog, callback>>
    /\ UNCHANGED <<state, queue, respond, answered, writers, reader, stop, reap, proc, cli, inbox,
                   posed, bounds>>

\* The process has exited and everything it wrote is read: dropQuestion.
dropQuestion ==
    /\ reader = "reading" /\ proc = "exited" /\ out = <<>>
    /\ reader' = "dropped" /\ question' = None
    /\ UNCHANGED <<state, queue, watchdog, callback, respond, answered, writers, stop, reap, cliVars,
                   bounds>>

\* The end of readLoop.
EndReadLoop ==
    /\ reader = "dropped" /\ reader' = "gone"
    /\ EndTurn /\ queue' = 0
    /\ UNCHANGED <<question, respond, answered, writers, stop, reap, cliVars, bounds>>

-----------------------------------------------------------------------------
(* Questions *)

\* Mutant: the question is taken away only once the response is written.
ResolveLater(q) ==
    /\ question = q /\ q # None
    /\ ArmIfRunning
    /\ respond' = [respond EXCEPT ![q] = @ + 1]
    /\ UNCHANGED question

\* Mutant: the watchdog rests until the end of the turn.
ResolveUnwatched(q) ==
    /\ question = q /\ q # None
    /\ question' = None
    /\ respond' = [respond EXCEPT ![q] = @ + 1]
    /\ UNCHANGED <<watchdog, callback>>

\* The panel, the timer of the question and Stop all come here; whoever finds
\* another question, or none, changes nothing.
Resolve(q) ==
    /\ question = q /\ q # None
    /\ question' = None /\ ArmIfRunning
    /\ respond' = [respond EXCEPT ![q] = @ + 1]

\* The panel answers or skips, or the time for it is over.
resolveQuestion(q) ==
    /\ Resolve(q)
    /\ UNCHANGED <<state, queue, answered, writers, reader, stop, reap, cliVars, bounds>>

WriteResponse(q) ==
    /\ respond[q] > 0 /\ respond' = [respond EXCEPT ![q] = @ - 1]
    /\ answered' = [answered EXCEPT ![q] = @ + 1]
    /\ WriteIfOpen(q)
    /\ UNCHANGED <<lockVars, writers, reader, stop, reap, proc, cli, out, posed, bounds>>

-----------------------------------------------------------------------------
(* Stop *)

BeginStop ==
    /\ stop = "none" /\ stops < MaxStops /\ stops' = stops + 1
    /\ queue' = 0
    /\ stop' = IF state = "idle" THEN "none" ELSE IF question # None THEN question ELSE "interrupt"
    /\ UNCHANGED <<state, watchdog, callback, question, respond, answered, writers, reader, reap,
                   cliVars, prompts>>

StopResolves ==
    /\ stop \in Questions /\ stop' = "interrupt"
    /\ \/ Resolve(stop)
       \/ question # stop /\ UNCHANGED <<question, watchdog, callback, respond>>
    /\ UNCHANGED <<state, queue, answered, writers, reader, reap, cliVars, bounds>>

StopInterrupts ==
    /\ stop = "interrupt" /\ stop' = "none"
    /\ WriteIfOpen("interrupt")
    /\ UNCHANGED <<lockVars, respond, answered, writers, reader, reap, proc, cli, out, posed, bounds>>

-----------------------------------------------------------------------------
(* The watchdog *)

Fire ==
    /\ watchdog = "armed" /\ callback \in {"none", "stale"}
    /\ watchdog' = "fired" /\ callback' = "current"
    /\ UNCHANGED <<state, queue, question, respond, answered, writers, reader, stop, reap, cliVars,
                   bounds>>

\* The callback compares the generation under the lock, and kills after it.
CheckGeneration ==
    /\ callback \in {"current", "stale"}
    /\ callback' = IF callback = "current" THEN "killing" ELSE "none"
    /\ UNCHANGED <<state, queue, watchdog, question, respond, answered, writers, reader, stop, reap,
                   cliVars, bounds>>

KillByWatchdog ==
    /\ callback \in {"killing", "late"} /\ callback' = "none"
    /\ proc' = IF proc = "alive" THEN "doomed" ELSE proc
    /\ UNCHANGED <<state, queue, watchdog, question, respond, answered, writers, reader, stop, reap,
                   cli, inbox, out, posed, bounds>>

-----------------------------------------------------------------------------
(* The reaper and evictions *)

\* reapIdle finds the session idle; close disarms the watchdog and then ends
\* the input of the process, whatever was sent in between.
ChooseVictim ==
    /\ reap = "none" /\ state = "idle" /\ reap' = "chosen"
    /\ UNCHANGED <<lockVars, respond, answered, writers, reader, stop, cliVars, bounds>>

CloseDisarms ==
    /\ reap = "chosen" /\ reap' = "disarmed" /\ Disarm
    /\ UNCHANGED <<state, queue, question, respond, answered, writers, reader, stop, cliVars, bounds>>

CloseInput ==
    /\ reap = "disarmed" /\ reap' = "closed"
    /\ UNCHANGED <<lockVars, respond, answered, writers, reader, stop, cliVars, bounds>>

\* Evict, or ensureLive for another conversation.
Terminate ==
    /\ proc = "alive" /\ proc' = "doomed"
    /\ UNCHANGED <<lockVars, respond, answered, writers, reader, stop, reap, cli, inbox, out, posed,
                   bounds>>

-----------------------------------------------------------------------------
(* The process *)

Says(events) == out' = out \o events

\* It reads its input in order; what does not fit what it does is ignored.
TakeLine ==
    /\ proc = "alive" /\ inbox # <<>> /\ inbox' = Tail(inbox)
    /\ LET line == Head(inbox)
       IN  \/ line = "prompt" /\ cli = "waiting" /\ cli' = "working" /\ UNCHANGED out
           \/ line = "interrupt" /\ cli = "working" /\ cli' = "waiting" /\ Says(<<Result>>)
           \/ /\ line = "interrupt" /\ cli \in Questions
              /\ cli' = "waiting" /\ Says(<<Cancel(cli), Result>>)
           \/ line \in Questions /\ cli = line /\ cli' = "working" /\ UNCHANGED out
           \/ line = "interrupt" /\ cli = "waiting" /\ UNCHANGED <<cli, out>>
           \/ line \in Questions /\ cli # line /\ UNCHANGED <<cli, out>>

\* It ends a turn, asks (perhaps before the last question is answered), or gives
\* up a question.
Work ==
    /\ proc = "alive"
    /\ \/ cli = "working" /\ cli' = "waiting" /\ Says(<<Result>>) /\ UNCHANGED posed
       \/ \E q \in Questions \ posed :
              cli # "waiting" /\ cli' = q /\ Says(<<Ask(q)>>) /\ posed' = posed \cup {q}
       \/ cli \in Questions /\ cli' = "working" /\ Says(<<Cancel(cli)>>) /\ UNCHANGED posed

CliStep ==
    /\ (TakeLine /\ UNCHANGED posed) \/ (Work /\ UNCHANGED inbox)
    /\ UNCHANGED <<lockVars, respond, answered, writers, reader, stop, reap, proc, bounds>>

\* A signal or the end of its input makes it exit, and it may crash.
Exit ==
    /\ proc # "exited" /\ proc' = "exited"
    /\ UNCHANGED <<lockVars, respond, answered, writers, reader, stop, reap, cli, inbox, out, posed,
                   bounds>>

-----------------------------------------------------------------------------
ReadLoop ==
    \/ onTurnEnd \/ dropQuestion \/ EndReadLoop
    \/ \E q \in Questions : handleControlRequest(q) \/ handleControlCancel(q)

Next ==
    \/ Send \/ WritePrompt \/ AbortTurn
    \/ ReadLoop
    \/ \E q \in Questions : resolveQuestion(q) \/ WriteResponse(q)
    \/ BeginStop \/ StopResolves \/ StopInterrupts
    \/ Fire \/ CheckGeneration \/ KillByWatchdog
    \/ ChooseVictim \/ CloseDisarms \/ CloseInput \/ Terminate
    \/ CliStep \/ Exit

Spec == Init /\ [][Next]_vars

\* Goroutines go on and timers fire. Of the process only this: it exits when it
\* was signalled or its input has ended. It may hang otherwise.
FairSpec ==
    /\ Spec
    /\ WF_vars(WritePrompt \/ AbortTurn) /\ WF_vars(ReadLoop)
    /\ \A q \in Questions : WF_vars(resolveQuestion(q)) /\ WF_vars(WriteResponse(q))
    /\ WF_vars(StopResolves \/ StopInterrupts)
    /\ WF_vars(Fire) /\ WF_vars(CheckGeneration) /\ WF_vars(KillByWatchdog)
    /\ WF_vars(CloseDisarms \/ CloseInput)
    /\ WF_vars((proc = "doomed" \/ reap = "closed") /\ Exit)

-----------------------------------------------------------------------------
(* Properties *)

\* A turn that runs in a living process is under the watchdog, or waits for the
\* user under the timer of its question; or close has taken over.
RunningIsWatched ==
    state = "running" /\ proc = "alive" /\ reap \in {"none", "chosen"} =>
        \/ watchdog = "armed" \/ question # None
        \/ callback \in {"current", "killing", "late"}

\* The user, the timer, Stop and the refusal of a second question never answer
\* the same control request twice.
AnsweredOnce == \A q \in Questions : answered[q] + respond[q] <= 1

\* A prompt waits only while a turn runs: nothing but the end of a turn takes
\* it from the queue.
QueueHasTurn == queue > 0 => state = "running"

\* No turn runs for ever: not when the process hangs, nobody answers, the
\* session is hibernated under it, or the process is already gone.
TurnsEnd == state = "running" ~> state = "idle"

-----------------------------------------------------------------------------
(* The inductive invariant of what the lock protects *)

LockOK ==
    /\ state \in {"idle", "running"} /\ queue \in Nat
    /\ watchdog \in {"off", "armed", "fired"}
    /\ callback \in {"none", "current", "stale", "killing", "late"}
    /\ reap \in {"none", "chosen", "disarmed", "closed"}
    /\ proc \in {"alive", "doomed", "exited"}

IInv == LockOK /\ RunningIsWatched /\ QueueHasTurn

\* The inductive invariant of the questions: one that the read loop has not
\* read yet was asked once, and one that is not answered yet is at one place:
\* not asked, in the output, pending, or in the hands of whoever answers it.
Unread(q) == \E i \in DOMAIN out : out[i] = Ask(q)
Untouched(q) == question # q /\ answered[q] + respond[q] = 0

AskInv ==
    \A q \in Questions :
        /\ q \notin posed => Untouched(q) /\ ~Unread(q)
        /\ Unread(q) => Untouched(q)
        /\ \A i, j \in DOMAIN out : out[i] = Ask(q) /\ out[j] = Ask(q) => i = j
        /\ question = q => answered[q] + respond[q] = 0
        /\ answered[q] + respond[q] <= 1

-----------------------------------------------------------------------------
(* What a comment of the code promises and the code does not keep *)

\* livesession.go, armWatchdogLocked: "impedindo que um watchdog antigo mate o
\* processo de um turno posterior".
OldWatchdogSpares == ~(callback = "late" /\ state = "running" /\ proc = "alive")

=============================================================================
