------------------------------- MODULE LivePool -------------------------------
(***************************************************************************)
(* The pool of live `claude` processes of agent-go (livepool.go): one      *)
(* process per conversation, at most MaxLive of them, found or started by  *)
(* ensureLive and then given the prompt by Send. The pool is a map under   *)
(* one lock; starting, killing and closing a process happen outside it.    *)
(*                                                                         *)
(* An instance is one liveSession and its process. Of its turn the model   *)
(* keeps whether it runs and how many prompts wait for it (LiveTurn has    *)
(* the rest). Whether an idle session has been idle for long enough and    *)
(* without a subscriber, and which idle session is the least recently      *)
(* used, is left open. A prompt written to the pipe of a process that is   *)
(* about to end is accepted; one written to a closed pipe is an error. The *)
(* server ends when its connections are done or by force: ShutdownLive     *)
(* closes the sessions, the ones that run too, and main returns.           *)
(*                                                                         *)
(* Definitions whose comment begins with "Mutant" are wrong on purpose, to *)
(* see that a property notices.                                            *)
(***************************************************************************)
EXTENDS Naturals, FiniteSets

CONSTANTS
    Convs,       \* conversations
    Instances,   \* the processes that are ever started
    Requests,    \* the prompts served at the same time
    MaxLive,     \* the limit of the pool
    MaxPrompts,  \* how many prompts are ever sent
    MaxCrashes,  \* how many processes end by themselves
    None

ASSUME ConstantsAssumption ==
    /\ MaxLive \in Nat \ {0} /\ MaxPrompts \in Nat /\ MaxCrashes \in Nat
    /\ IsFiniteSet(Convs) /\ None \notin Instances

VARIABLES
    live,     \* SessionManager.live
    proc,     \* the process: unborn, alive, doomed (signalled or its stdin closed),
              \* exited (the read loop is ending), removing (out of its turn), gone
    conv,     \* liveSession.conv
    turn,     \* idle, or running: before (writing) and after (written) the
              \* prompt is in the pipe
    queue,    \* how many prompts wait for the end of the turn
    evicted,  \* liveSession.evicted
    fate,     \* who has taken it from the map and is yet to end it
    down,     \* main has returned, or agent-go was killed
    req,      \* the requests: where they are and the instance they hold
    lost,     \* history: prompts it dropped that have no event of their own: by Stop,
              \* with a turn that is said to have failed, or in silence
    asked,    \* how many prompts were sent
    crashes   \* how many processes ended by themselves

procVars == <<proc, conv, evicted>>
turnVars == <<turn, queue, lost>>
vars == <<live, procVars, turnVars, fate, down, req, asked, crashes>>

Idle == [pc |-> "idle"]
Reqs ==
    {Idle} \cup [pc : {"victim"}, c : Convs, i : Instances] \cup [pc : {"spawn"}, c : Convs]
    \cup [pc : {"started", "have", "surplus"}, c : Convs, i : Instances]
    \cup [pc : {"writing"}, i : Instances]
    \cup [pc : {"twin"}, c : Convs, i : Instances, existing : Instances]

TypeOK ==
    /\ live \in [Convs -> Instances \cup {None}]
    /\ proc \in [Instances -> {"unborn", "alive", "doomed", "exited", "removing", "gone"}]
    /\ conv \in [Instances -> Convs \cup {None}]
    /\ turn \in [Instances -> {"idle", "writing", "written"}]
    /\ queue \in [Instances -> Nat]
    /\ evicted \in [Instances -> BOOLEAN]
    /\ lost \in [Instances -> SUBSET {"stopped", "failed", "silent"}]
    /\ fate \in [Instances -> {"none", "reaped", "evicting", "tombed"}]
    /\ down \in BOOLEAN
    /\ req \in [Requests -> Reqs]
    /\ asked \in 0 .. MaxPrompts /\ crashes \in 0 .. MaxCrashes

Init ==
    /\ live = [c \in Convs |-> None]
    /\ proc = [i \in Instances |-> "unborn"] /\ conv = [i \in Instances |-> None]
    /\ turn = [i \in Instances |-> "idle"] /\ queue = [i \in Instances |-> 0]
    /\ evicted = [i \in Instances |-> FALSE] /\ lost = [i \in Instances |-> {}]
    /\ fate = [i \in Instances |-> "none"] /\ down = FALSE
    /\ req = [r \in Requests |-> Idle]
    /\ asked = 0 /\ crashes = 0

Pooled == {c \in Convs : live[c] # None}
Full == Cardinality(Pooled) >= MaxLive
Kill(i) == proc' = [proc EXCEPT ![i] = IF @ = "alive" THEN "doomed" ELSE @]
Goto(r, q) == req' = [req EXCEPT ![r] = q]
Running(i) == turn[i] # "idle"


\* Prompts are dropped, if there are any, that have no event of their own.
Lose(i, some, how) == lost' = [lost EXCEPT ![i] = IF some THEN @ \cup {how} ELSE @]

-----------------------------------------------------------------------------
(* ensureLive *)

\* Under the lock: the session there is, a free place, or the place of an idle
\* session; SPAWN_FAILED when there is none.
Lookup(r, c) ==
    /\ ~down /\ req[r] = Idle /\ asked < MaxPrompts /\ asked' = asked + 1
    /\ \/ live[c] # None
          /\ Goto(r, [pc |-> "have", c |-> c, i |-> live[c]]) /\ UNCHANGED live
       \/ live[c] = None /\ ~Full
          /\ Goto(r, [pc |-> "spawn", c |-> c]) /\ UNCHANGED live
       \/ /\ live[c] = None /\ Full
          /\ \E v \in Pooled :
                 /\ ~Running(live[v])
                 /\ live' = [live EXCEPT ![v] = None]
                 /\ Goto(r, [pc |-> "victim", c |-> c, i |-> live[v]])
       \/ /\ live[c] = None /\ Full
          /\ \A v \in Pooled : Running(live[v])
          /\ UNCHANGED <<live, req>>
    /\ UNCHANGED <<procVars, turnVars, fate, down, crashes>>

KillVictim(r) ==
    /\ req[r].pc = "victim"
    /\ Kill(req[r].i) /\ Goto(r, [pc |-> "spawn", c |-> req[r].c])
    /\ UNCHANGED <<live, conv, evicted, turnVars, fate, down, asked, crashes>>

Unborn == {i \in Instances : proc[i] = "unborn"}
NextInstance == CHOOSE i \in Unborn : TRUE

\* start, outside the lock.
Start(r, i) ==
    /\ req[r].pc = "spawn" /\ Unborn # {} /\ i = NextInstance
    /\ proc' = [proc EXCEPT ![i] = "alive"] /\ conv' = [conv EXCEPT ![i] = req[r].c]
    /\ Goto(r, [pc |-> "started", c |-> req[r].c, i |-> i])
    /\ UNCHANGED <<live, evicted, turnVars, fate, down, asked, crashes>>

StartFails(r) ==
    /\ req[r].pc = "spawn"
    /\ Goto(r, Idle)
    /\ UNCHANGED <<live, procVars, turnVars, fate, down, asked, crashes>>

\* Mutant: the pool is not looked at again after the process has started.
PutInPool(r) ==
    /\ req[r].pc = "started"
    /\ live' = [live EXCEPT ![req[r].c] = req[r].i]
    /\ Goto(r, [req[r] EXCEPT !.pc = "have"])
    /\ UNCHANGED <<procVars, turnVars, fate, down, asked, crashes>>

\* Mutant: the race for the conversation is checked, the limit is not.
PutUnlessTwin(r) ==
    /\ req[r].pc = "started"
    /\ LET c == req[r].c
           i == req[r].i
       IN  \/ /\ live[c] # None
              /\ Goto(r, [pc |-> "twin", c |-> c, i |-> i, existing |-> live[c]])
              /\ UNCHANGED live
           \/ /\ live[c] = None
              /\ live' = [live EXCEPT ![c] = i] /\ Goto(r, [pc |-> "have", c |-> c, i |-> i])
    /\ UNCHANGED <<procVars, turnVars, fate, down, asked, crashes>>

\* Under the lock again: another request may have started the conversation, or
\* filled the pool; the process just started is one too many then.
InsertLive(r) ==
    /\ req[r].pc = "started"
    /\ LET c == req[r].c
           i == req[r].i
       IN  \/ /\ live[c] # None
              /\ Goto(r, [pc |-> "twin", c |-> c, i |-> i, existing |-> live[c]])
              /\ UNCHANGED live
           \/ /\ live[c] = None /\ Full
              /\ Goto(r, [pc |-> "surplus", c |-> c, i |-> i]) /\ UNCHANGED live
           \/ /\ live[c] = None /\ ~Full
              /\ live' = [live EXCEPT ![c] = i] /\ Goto(r, [pc |-> "have", c |-> c, i |-> i])
    /\ UNCHANGED <<procVars, turnVars, fate, down, asked, crashes>>

KillTwin(r) ==
    /\ req[r].pc = "twin"
    /\ Kill(req[r].i) /\ Goto(r, [pc |-> "have", c |-> req[r].c, i |-> req[r].existing])
    /\ UNCHANGED <<live, conv, evicted, turnVars, fate, down, asked, crashes>>

KillSurplus(r) ==
    /\ req[r].pc = "surplus"
    /\ Kill(req[r].i) /\ Goto(r, Idle)
    /\ UNCHANGED <<live, conv, evicted, turnVars, fate, down, asked, crashes>>

-----------------------------------------------------------------------------
(* Send, on the session ensureLive has returned, whatever became of it *)

Queue(r) ==
    /\ req[r].pc = "have" /\ Running(req[r].i)
    /\ queue' = [queue EXCEPT ![req[r].i] = @ + 1] /\ Goto(r, Idle)
    /\ UNCHANGED <<live, procVars, turn, lost, fate, down, asked, crashes>>

BeginTurn(r) ==
    /\ req[r].pc = "have" /\ ~Running(req[r].i)
    /\ turn' = [turn EXCEPT ![req[r].i] = "writing"]
    /\ Goto(r, [pc |-> "writing", i |-> req[r].i])
    /\ UNCHANGED <<live, procVars, queue, lost, fate, down, asked, crashes>>

\* The pipe takes the prompt, though the process may be about to end.
Write(r) ==
    /\ req[r].pc = "writing" /\ proc[req[r].i] \in {"alive", "doomed"}
    /\ turn' = [turn EXCEPT ![req[r].i] = "written"] /\ Goto(r, Idle)
    /\ UNCHANGED <<live, procVars, queue, lost, fate, down, asked, crashes>>

\* resetToIdle, and an event for the one prompt that was not written.
AbortTurn(i) ==
    /\ turn' = [turn EXCEPT ![i] = "idle"] /\ queue' = [queue EXCEPT ![i] = 0]
    /\ Lose(i, queue[i] > 0, "failed")

\* Mutant: the error of the write is logged and the session left as it is.
WriteFailsLogged(r) ==
    /\ req[r].pc = "writing"
    /\ Goto(r, Idle)
    /\ UNCHANGED <<live, procVars, turnVars, fate, down, asked, crashes>>

\* An attachment is refused (BAD_ATTACHMENT), or the pipe is closed (WRITE_FAILED).
WriteFails(r) ==
    /\ req[r].pc = "writing"
    /\ AbortTurn(req[r].i) /\ Goto(r, Idle)
    /\ UNCHANGED <<live, procVars, fate, down, asked, crashes>>

\* onTurnEnd, which the session reads before the end of its process: the next
\* prompt of the queue is written, or that fails, or the session is idle.
TurnEnds(i) ==
    /\ proc[i] \in {"alive", "doomed"} /\ turn[i] = "written"
    /\ \/ /\ queue[i] > 0
          /\ queue' = [queue EXCEPT ![i] = @ - 1] /\ UNCHANGED <<turn, lost>>
       \/ /\ queue[i] > 0
          /\ turn' = [turn EXCEPT ![i] = "idle"] /\ queue' = [queue EXCEPT ![i] = 0]
          /\ Lose(i, queue[i] > 1, "failed")
       \/ /\ queue[i] = 0
          /\ turn' = [turn EXCEPT ![i] = "idle"] /\ UNCHANGED <<queue, lost>>
    /\ UNCHANGED <<live, procVars, fate, down, req, asked, crashes>>

\* Stop, through the pointer its handler took from the map a while ago. What
\* waits is dropped; the turn that runs is interrupted, and TurnEnds ends it.
Stop(i) ==
    /\ queue[i] > 0
    /\ queue' = [queue EXCEPT ![i] = 0] /\ Lose(i, TRUE, "stopped")
    /\ UNCHANGED <<live, procVars, turn, fate, down, req, asked, crashes>>

-----------------------------------------------------------------------------
(* The end of a process *)

Exit(i) ==
    /\ \/ proc[i] = "doomed" /\ UNCHANGED crashes
       \/ proc[i] = "alive" /\ crashes < MaxCrashes /\ crashes' = crashes + 1
    /\ proc' = [proc EXCEPT ![i] = "exited"]
    /\ UNCHANGED <<live, conv, evicted, turnVars, fate, down, req, asked>>

ClearAndTell(i, told) ==
    /\ ~down /\ proc[i] = "exited"
    /\ proc' = [proc EXCEPT ![i] = "removing"]
    /\ turn' = [turn EXCEPT ![i] = "idle"] /\ queue' = [queue EXCEPT ![i] = 0]
    /\ IF told THEN Lose(i, queue[i] > 0, "failed")
       ELSE Lose(i, turn[i] = "written" \/ queue[i] > 0, "silent")
    /\ UNCHANGED <<live, conv, evicted, fate, down, req, asked, crashes>>

\* Mutant: the state is read after it was reset, and never says running.
ClearTurnFirst(i) == ClearAndTell(i, FALSE)

\* The end of readLoop, under the lock of the session: a turn that was running
\* is reported as TURN_FAILED, unless the session was evicted.
ClearTurn(i) == ClearAndTell(i, Running(i) /\ ~evicted[i])

\* Only if the map still points to this instance.
removeLive(i) ==
    /\ ~down /\ proc[i] = "removing"
    /\ proc' = [proc EXCEPT ![i] = "gone"]
    /\ live' = [live EXCEPT ![conv[i]] = IF @ = i THEN None ELSE @]
    /\ UNCHANGED <<conv, evicted, turnVars, fate, req, down, asked, crashes>>

-----------------------------------------------------------------------------
(* Hibernation and eviction *)

Take(c, how) ==
    /\ live[c] # None
    /\ live' = [live EXCEPT ![c] = None]
    /\ fate' = [fate EXCEPT ![live[c]] = how]
    /\ UNCHANGED <<procVars, turnVars, req, down, asked, crashes>>

\* reapIdle, under the lock.
Reap(c) == live[c] # None /\ ~Running(live[c]) /\ Take(c, "reaped")

Evict(c) == Take(c, "evicting")

\* close, after the lock, of what reapIdle or ShutdownLive took: the end of its
\* input makes the process save and exit.
Close(i) ==
    /\ fate[i] = "reaped"
    /\ fate' = [fate EXCEPT ![i] = "none"] /\ Kill(i)
    /\ UNCHANGED <<live, conv, evicted, turnVars, req, down, asked, crashes>>

Tomb(i) ==
    /\ fate[i] = "evicting"
    /\ fate' = [fate EXCEPT ![i] = "tombed"] /\ evicted' = [evicted EXCEPT ![i] = TRUE]
    /\ UNCHANGED <<live, proc, conv, turnVars, req, down, asked, crashes>>

Terminate(i) ==
    /\ fate[i] = "tombed"
    /\ fate' = [fate EXCEPT ![i] = "none"] /\ Kill(i)
    /\ UNCHANGED <<live, conv, evicted, turnVars, req, down, asked, crashes>>

-----------------------------------------------------------------------------
(* The end of the server *)

\* Under the lock: every session, running or not. main calls it before it returns,
\* while hijacked connections (the WebSockets) are served on; here it may come
\* at any time, and again, which only adds behaviours.
ShutdownLive ==
    /\ ~down
    /\ live' = [c \in Convs |-> None]
    /\ fate' = [i \in Instances |-> IF \E c \in Convs : live[c] = i THEN "reaped" ELSE fate[i]]
    /\ UNCHANGED <<procVars, turnVars, down, req, asked, crashes>>

\* main returns, whether or not the sessions have ended, or agent-go is killed:
\* memory and goroutines are lost, and the input of every process ends.
Halt ==
    /\ ~down /\ down' = TRUE
    /\ live' = [c \in Convs |-> None]
    /\ proc' = [i \in Instances |-> IF proc[i] = "alive" THEN "doomed" ELSE proc[i]]
    /\ turn' = [i \in Instances |-> "idle"] /\ queue' = [i \in Instances |-> 0]
    /\ lost' = [i \in Instances |-> IF Running(i) THEN lost[i] \cup {"silent"} ELSE lost[i]]
    /\ fate' = [i \in Instances |-> "none"]
    /\ req' = [r \in Requests |-> Idle]
    /\ UNCHANGED <<conv, evicted, asked, crashes>>

-----------------------------------------------------------------------------
Serve(r) ==
    \/ KillVictim(r) \/ StartFails(r) \/ (\E i \in Instances : Start(r, i))
    \/ InsertLive(r) \/ KillTwin(r) \/ KillSurplus(r)
    \/ Queue(r) \/ BeginTurn(r) \/ Write(r) \/ WriteFails(r)

End(i) == ClearTurn(i) \/ removeLive(i) \/ Close(i) \/ Tomb(i) \/ Terminate(i)

Next ==
    \/ \E r \in Requests : Serve(r) \/ \E c \in Convs : Lookup(r, c)
    \/ \E i \in Instances : TurnEnds(i) \/ Stop(i) \/ Exit(i) \/ End(i)
    \/ \E c \in Convs : Reap(c) \/ Evict(c)
    \/ ShutdownLive \/ Halt

Spec == Init /\ [][Next]_vars

\* Goroutines go on, and a process that was signalled or whose input has ended
\* exits. A turn need not end, and nobody need reap, evict, stop or shut down.
FairSpec ==
    /\ Spec
    /\ \A r \in Requests : WF_vars(Serve(r))
    /\ \A i \in Instances : WF_vars(End(i)) /\ WF_vars(proc[i] = "doomed" /\ Exit(i))

-----------------------------------------------------------------------------
(* Properties *)

\* The limit is hard, though places are made, processes started and the map
\* filled by several requests outside its lock.
WithinLimit == Cardinality(Pooled) <= MaxLive

\* A process that runs is in the map, or somebody who took it from the map or
\* kept it out is about to end it: none is left alive where nobody finds it.
NoOrphan ==
    \A i \in Instances : proc[i] = "alive" =>
        \/ live[conv[i]] = i
        \/ fate[i] # "none"
        \/ \E r \in Requests :
               req[r].pc \in {"victim", "started", "twin", "surplus"} /\ req[r].i = i

\* Send holds a session that may have been hibernated, evicted or removed since
\* ensureLive returned it, and the end of a process meets turns and prompts that
\* wait. A prompt is dropped in silence only by the eviction of its session or
\* the end of the server: of any other that is given up, an event says that it
\* or the turn it waited for has failed, or somebody asked to stop.
NoSilentLoss ==
    \A i \in Instances : "silent" \in lost[i] => evicted[i] \/ down

\* A session whose process is gone does not stay running on a prompt that came
\* too late: it says WRITE_FAILED and is idle again.
DeadSessionSettles ==
    \A i \in Instances : proc[i] = "gone" /\ Running(i) ~> ~Running(i)

-----------------------------------------------------------------------------
(* The inductive invariant *)

\* A process has a conversation, and the one that is about to enter the pool
\* has that of its request.
StartedInv ==
    /\ \A i \in Instances : proc[i] # "unborn" => conv[i] \in Convs
    /\ \A r \in Requests : req[r].pc = "started" =>
           conv[req[r].i] = req[r].c /\ proc[req[r].i] # "unborn"

\* A prompt waits only for a turn that runs.
QueueInv == \A i \in Instances : ~Running(i) => queue[i] = 0

IInv == TypeOK /\ WithinLimit /\ StartedInv /\ NoOrphan /\ QueueInv /\ NoSilentLoss

-----------------------------------------------------------------------------
(* What a comment of the code promises and the code does not keep *)

\* livesession.go, readLoop: "remove esta sessao do pool para que a PROXIMA
\* mensagem a ressuscite". A dead session is not in the map.
DeadIsRemoved == \A c \in Pooled : proc[live[c]] # "gone"

=============================================================================
