---------------------------- MODULE CodexRuntime ----------------------------
(***************************************************************************)
(* The gateway's supervisor of the Codex app-server process: start, stop   *)
(* and restart of the transport, and the turns that callers run on it.     *)
(*                                                                         *)
(* The gateway is one asyncio event loop: what a coroutine does between    *)
(* two awaits is one action, and everything else may run at the await.     *)
(***************************************************************************)
EXTENDS FiniteSets

CONSTANTS
    Transports,    \* transport objects; one nothing refers to may be reused
    Calls,         \* calls of complete()
    Timeouts,      \* is request_timeout_seconds set?
    None           \* no transport

VARIABLES
    current,   \* _transport
    ready,     \* _ready
    stopping,  \* _stopping
    lock,      \* _lifecycle_lock: the coroutine that holds it
    pc,        \* what the start() calls, the restart loop and stop() await
    mine,      \* the transport that coroutine is stopping or starting
    cut,       \* stop() cancelled the restart loop inside suppress(BaseException)
    proc,      \* the app-server process of a transport
    exit,      \* the exit handler of a transport
    call       \* the calls of complete(), with what the app-server does for them

lifecycle == <<stopping, lock, pc, mine, cut>>
vars == <<current, ready, lifecycle, proc, exit, call>>

\* The gateway's lifespan calls start() once, and stop() when it ends.
Starter == "start"
Restart == "restart"
Stopper == "stop"
Actors == {Starter, Restart, Stopper}

\* A call of complete(): the await it is at, the transport _run_turn captured,
\* the response it waits for, the future of its _TurnState, what the app-server
\* does with its turn, the turn/completed notification queued for it, and what
\* its caller got.
Call == [phase : {"idle", "accepted", "config", "thread", "turn", "awaiting",
                  "interrupting", "done"},
         on : Transports \cup {None},
         reply : {"none", "waiting", "ok", "failed"},
         future : {"none", "open", "answer", "error", "lost"},
         served : {"none", "asked", "running", "interrupted"},
         note : {"none", "answer", "error", "unauthorized"},
         outcome : {"none", "answer", "failure", "timeout"}]

\* A round of the restart loop finds no previous transport to stop: whoever
\* scheduled it has cleared _transport.
TypeOK ==
    /\ current \in Transports \cup {None}
    /\ ready \in BOOLEAN /\ stopping \in BOOLEAN /\ cut \in BOOLEAN
    /\ lock \in Actors \cup {None}
    /\ pc \in [Actors -> {"off", "validate", "sleep", "launch",
                          "initialize", "undo", "join", "closing", "done"}]
    /\ mine \in [Actors -> Transports \cup {None}]
    /\ proc \in [Transports -> {"absent", "up", "dying", "stopping"}]
    /\ exit \in [Transports -> {"none", "scheduled", "closing"}]
    /\ call \in [Calls -> Call]
    /\ pc[Restart] = "sleep" => current = None

Fresh == [phase |-> "idle", on |-> None, reply |-> "none", future |-> "none",
          served |-> "none", note |-> "none", outcome |-> "none"]

Init ==
    /\ current = None /\ ready = FALSE /\ stopping = FALSE /\ lock = None
    /\ pc = [a \in Actors |-> "off"] /\ mine = [a \in Actors |-> None]
    /\ cut = FALSE
    /\ proc = [t \in Transports |-> "absent"]
    /\ exit = [t \in Transports |-> "none"]
    /\ call = [c \in Calls |-> Fresh]

Up(t) == t # None /\ proc[t] = "up"
Waits(c) == call[c].future = "open"

-----------------------------------------------------------------------------
(* Helpers of the runtime and of the transport *)

\* _fail_turns: the futures that are not done get the exception.
FailTurnsOverwriting(cs) ==
    [c \in Calls |-> IF cs[c].future # "none"
                     THEN [cs[c] EXCEPT !.future = "lost"] ELSE cs[c]]

FailTurns(cs) ==
    [c \in Calls |-> IF cs[c].future = "open"
                     THEN [cs[c] EXCEPT !.future = "lost"] ELSE cs[c]]

\* The process of t is given up: its pending requests fail, and what it was
\* doing for its callers ends with it.
FailPending(t, cs) ==
    [c \in Calls |-> IF cs[c].on # t THEN cs[c]
                     ELSE [cs[c] EXCEPT !.served = "none",
                                        !.reply = IF @ = "waiting" THEN "failed" ELSE @]]

\* Transport.stop() up to its await: a terminal transition is joined.
StopProcess(t) ==
    proc' = [proc EXCEPT ![t] = IF @ = "up" THEN "stopping" ELSE @]

Finished(r, outcome) ==
    [r EXCEPT !.phase = "done", !.reply = "none", !.future = "none",
              !.outcome = outcome]

\* A request is refused at once when the transport is not running.
Asked(r, phase) ==
    IF Up(r.on) THEN [r EXCEPT !.phase = phase, !.reply = "waiting"]
                ELSE Finished(r, "failure")

\* A transport object nothing refers to any more stands for a new one.
Unused(t) ==
    /\ t # current /\ proc[t] = "absent" /\ exit[t] = "none"
    /\ \A a \in Actors : mine[a] # t
    /\ \A c \in Calls : call[c].on = t => call[c].phase = "done"

\* _schedule_restart with the restart loop in state p, to p'
Scheduled(p) ==
    IF ~stopping /\ p[Restart] = "off" THEN [p EXCEPT ![Restart] = "sleep"] ELSE p

-----------------------------------------------------------------------------
(* start() and the restart loop *)

\* _start_transport, with no previous transport (see TypeOK).
StartTransport(a) ==
    /\ \E t \in Transports :
          /\ Unused(t)
          /\ current' = t
          /\ mine' = [mine EXCEPT ![a] = t]
    /\ pc' = [pc EXCEPT ![a] = "launch"]
    /\ UNCHANGED <<proc, call>>

\* What is queued in the event loop runs long before a restart delay of half a
\* second is over.
LoopHasTurned ==
    /\ \A t \in Transports : exit[t] = "none"
    /\ \A c \in Calls : call[c].phase # "accepted"

\* start(): nothing runs yet, so the environment is checked.
Start ==
    /\ pc[Starter] = "off"
    /\ pc' = [pc EXCEPT ![Starter] = "validate"] /\ lock' = Starter
    /\ UNCHANGED <<current, ready, stopping, mine, cut, proc, exit, call>>

\* No login: not ready, and no restart either.  A bad CLI version: start raises.
ValidationFails ==
    /\ pc[Starter] = "validate"
    /\ pc' = [pc EXCEPT ![Starter] = "done"] /\ lock' = None
    /\ UNCHANGED <<current, ready, stopping, mine, cut, proc, exit, call>>

Validated ==
    /\ pc[Starter] = "validate"
    /\ StartTransport(Starter)
    /\ UNCHANGED <<ready, stopping, lock, cut, exit>>

\* One round of the restart loop after its sleep.
RestartWakes ==
    /\ pc[Restart] = "sleep" /\ lock = None /\ LoopHasTurned
    /\ IF stopping \/ (ready /\ Up(current))
       THEN /\ pc' = [pc EXCEPT ![Restart] = "off"]
            /\ UNCHANGED <<current, lock, mine, proc, call>>
       ELSE lock' = Restart /\ StartTransport(Restart)
    /\ UNCHANGED <<ready, stopping, cut, exit>>

Launch(a) ==
    /\ pc[a] = "launch"
    /\ pc' = [pc EXCEPT ![a] = "initialize"]
    /\ proc' = [proc EXCEPT ![mine[a]] = "up"]
    /\ UNCHANGED <<current, ready, stopping, lock, mine, cut, exit, call>>

Initialized(a) ==
    /\ pc[a] = "initialize" /\ Up(mine[a]) /\ current = mine[a]
    /\ ready' = TRUE
    /\ pc' = [pc EXCEPT ![a] = IF a = Restart THEN "off" ELSE "done"]
    /\ mine' = [mine EXCEPT ![a] = None] /\ lock' = None
    /\ UNCHANGED <<current, stopping, cut, proc, exit, call>>

StartFailsLeavingProcess(a) ==
    /\ pc[a] \in {"launch", "initialize"}
    /\ current' = None /\ ready' = FALSE /\ lock' = None
    /\ mine' = [mine EXCEPT ![a] = None]
    /\ pc' = Scheduled([pc EXCEPT ![a] = IF a = Restart THEN "off" ELSE "done"])
    /\ UNCHANGED <<stopping, cut, proc, exit, call>>

\* The spawn or the handshake fails, or the process exits under it.
StartFails(a) ==
    /\ pc[a] \in {"launch", "initialize"}
    /\ pc' = [pc EXCEPT ![a] = "undo"]
    /\ StopProcess(mine[a])
    /\ call' = FailPending(mine[a], call)
    /\ UNCHANGED <<current, ready, stopping, lock, mine, cut, exit>>

NotStartedGivingUp(a) ==
    /\ pc[a] = "undo"
    /\ proc[mine[a]] = "absent" \/ (a = Restart /\ cut)
    /\ current' = IF current = mine[a] THEN None ELSE current
    /\ mine' = [mine EXCEPT ![a] = None] /\ lock' = None
    /\ pc' = IF a = Restart THEN [pc EXCEPT ![a] = "off"]
             ELSE Scheduled([pc EXCEPT ![a] = "done"])
    /\ ready' = (ready /\ a = Restart)
    /\ UNCHANGED <<stopping, cut, proc, exit, call>>

\* The failed transport is stopped.  start() schedules a restart, the restart
\* loop sleeps again unless the runtime is stopping.
NotStarted(a) ==
    /\ pc[a] = "undo"
    /\ proc[mine[a]] = "absent" \/ (a = Restart /\ cut)
    /\ current' = IF current = mine[a] THEN None ELSE current
    /\ mine' = [mine EXCEPT ![a] = None] /\ lock' = None
    /\ IF a = Restart
       THEN /\ pc' = [pc EXCEPT ![a] = IF stopping THEN "off" ELSE "sleep"]
            /\ UNCHANGED ready
       ELSE /\ pc' = Scheduled([pc EXCEPT ![a] = "done"])
            /\ ready' = FALSE
    /\ UNCHANGED <<stopping, cut, proc, exit, call>>

-----------------------------------------------------------------------------
(* stop() *)

\* The restart loop is cancelled: asleep it ends, starting a transport it undoes
\* that, and inside suppress(BaseException) it goes on where it was.
Stop ==
    /\ pc[Stopper] = "off" /\ pc[Starter] = "done"
    /\ stopping' = TRUE
    /\ cut' = (pc[Restart] = "undo")
    /\ \/ /\ pc[Restart] \in {"off", "undo"}
          /\ pc' = [pc EXCEPT ![Stopper] = "join"]
          /\ UNCHANGED <<proc, call>>
       \/ /\ pc[Restart] = "sleep"
          /\ pc' = [pc EXCEPT ![Stopper] = "join", ![Restart] = "off"]
          /\ UNCHANGED <<proc, call>>
       \/ /\ pc[Restart] \in {"launch", "initialize"}
          /\ pc' = [pc EXCEPT ![Stopper] = "join", ![Restart] = "undo"]
          /\ StopProcess(mine[Restart])
          /\ call' = FailPending(mine[Restart], call)
    /\ UNCHANGED <<current, ready, lock, mine, exit>>

\* The restart loop has ended and the lock is free.
StopTransport ==
    /\ pc[Stopper] = "join" /\ pc[Restart] = "off" /\ lock = None
    /\ ready' = FALSE /\ current' = None
    /\ IF current = None
       THEN /\ pc' = [pc EXCEPT ![Stopper] = "done"]
            /\ call' = FailTurns(call)
            /\ UNCHANGED <<lock, mine, proc>>
       ELSE /\ pc' = [pc EXCEPT ![Stopper] = "closing"]
            /\ lock' = Stopper
            /\ mine' = [mine EXCEPT ![Stopper] = current]
            /\ StopProcess(current)
            /\ call' = FailPending(current, call)
    /\ UNCHANGED <<stopping, cut, exit>>

Stopped ==
    /\ pc[Stopper] = "closing" /\ proc[mine[Stopper]] = "absent"
    /\ pc' = [pc EXCEPT ![Stopper] = "done"] /\ lock' = None
    /\ mine' = [mine EXCEPT ![Stopper] = None]
    /\ call' = FailTurns(call)
    /\ UNCHANGED <<current, ready, stopping, cut, proc, exit>>

-----------------------------------------------------------------------------
(* The transport's process *)

\* stdout closes, the protocol or a pipe breaks: _begin_terminal.
ProcessExits(t) ==
    /\ proc[t] = "up"
    /\ proc' = [proc EXCEPT ![t] = "dying"]
    /\ call' = FailPending(t, call)
    /\ UNCHANGED <<current, ready, lifecycle, exit>>

\* _cleanup_process reaps the process; a terminal transition then schedules the
\* exit handler, after the dispatcher has drained what the reader had queued.
\* A stop cancels the dispatcher with its queue.
CleanedUp(t) ==
    /\ proc[t] \in {"dying", "stopping"}
    /\ proc[t] = "dying" => \A c \in Calls : call[c].on = t => call[c].note = "none"
    /\ proc' = [proc EXCEPT ![t] = "absent"]
    /\ exit' = IF proc[t] = "dying" THEN [exit EXCEPT ![t] = "scheduled"] ELSE exit
    /\ call' = [c \in Calls |-> IF call[c].on = t
                                THEN [call[c] EXCEPT !.note = "none"] ELSE call[c]]
    /\ UNCHANGED <<current, ready, lifecycle>>

ExitKeepingTurns(t) ==
    /\ exit[t] = "scheduled"
    /\ IF current = t
       THEN /\ current' = None /\ ready' = FALSE
            /\ exit' = [exit EXCEPT ![t] = "closing"]
       ELSE /\ exit' = [exit EXCEPT ![t] = "none"]
            /\ UNCHANGED <<current, ready>>
    /\ UNCHANGED <<lifecycle, proc, call>>

\* on_exit and _handle_exit up to the await: only the current transport counts.
HandleExit(t) ==
    /\ exit[t] = "scheduled"
    /\ IF current = t
       THEN /\ current' = None /\ ready' = FALSE
            /\ call' = FailTurns(call)
            /\ exit' = [exit EXCEPT ![t] = "closing"]
       ELSE /\ exit' = [exit EXCEPT ![t] = "none"]
            /\ UNCHANGED <<current, ready, call>>
    /\ UNCHANGED <<lifecycle, proc>>

\* The rest of _handle_exit after `await transport.stop()`.
ScheduleRestart(t) ==
    /\ exit[t] = "closing"
    /\ exit' = [exit EXCEPT ![t] = "none"]
    /\ pc' = Scheduled(pc)
    /\ UNCHANGED <<current, ready, stopping, lock, mine, cut, proc, call>>

-----------------------------------------------------------------------------
(* complete() and _run_turn *)

Set(c, r) == call' = [call EXCEPT ![c] = r] /\ UNCHANGED <<current, lifecycle, proc, exit>>

\* The first step of _run_turn takes the transport there is.  A pinned
\* configuration saves the config/read, which asks again for a gateway that is
\* ready.
TakeTransport(c) ==
    \/ /\ current = None \/ ~ready
       /\ Set(c, Finished(call[c], "failure"))
    \/ /\ current # None
       /\ \E phase \in {"config", "thread"} :
             /\ phase = "config" => ready
             /\ Set(c, Asked([call[c] EXCEPT !.on = current], phase))

\* _require_transport lets the call in.  With a timeout, wait_for runs the turn
\* in a task of its own, which starts later.
Complete(c) ==
    /\ call[c].phase = "idle" /\ ready /\ current # None
    /\ IF Timeouts THEN Set(c, [call[c] EXCEPT !.phase = "accepted"])
                   ELSE TakeTransport(c)
    /\ UNCHANGED ready

RunTurn(c) ==
    /\ call[c].phase = "accepted"
    /\ TakeTransport(c)
    /\ UNCHANGED ready

\* A response or a JSON-RPC error is read.  turn/start is answered once the turn
\* is there.
Responds(c) ==
    /\ call[c].reply = "waiting" /\ Up(call[c].on)
    /\ call[c].served # "asked"
    /\ \E reply \in {"ok", "failed"} : Set(c, [call[c] EXCEPT !.reply = reply])
    /\ UNCHANGED ready

RefusesTurn(c) ==
    /\ call[c].served = "asked" /\ Up(call[c].on)
    /\ Set(c, [call[c] EXCEPT !.served = "none",
                              !.reply = IF @ = "waiting" THEN "failed" ELSE @])
    /\ UNCHANGED ready

TakesTurn(c) ==
    /\ call[c].served = "asked" /\ Up(call[c].on)
    /\ Set(c, [call[c] EXCEPT !.served = "running"])
    /\ UNCHANGED ready

\* The thread exists: its _TurnState is registered, then turn/start is sent.
StartTurn(c) ==
    LET r == Asked([call[c] EXCEPT !.future = "open"], "turn")
    IN  Set(c, IF r.phase = "turn" THEN [r EXCEPT !.served = "asked"] ELSE r)

Resume(c) ==
    /\ call[c].phase \in {"config", "thread", "turn"}
    /\ \/ call[c].reply = "failed" /\ Set(c, Finished(call[c], "failure"))
       \/ call[c].reply = "ok" /\ call[c].phase = "config"
          /\ Set(c, Asked(call[c], "thread"))
       \/ call[c].reply = "ok" /\ call[c].phase = "thread" /\ StartTurn(c)
       \/ call[c].reply = "ok" /\ call[c].phase = "turn"
          /\ Set(c, [call[c] EXCEPT !.phase = "awaiting", !.reply = "none"])
    /\ UNCHANGED ready

\* The app-server ends the turn, and the reader queues turn/completed.
TurnCompletes(c) ==
    /\ call[c].served \in {"running", "interrupted"} /\ Up(call[c].on)
    /\ \E note \in {"answer", "error", "unauthorized"} :
          Set(c, [call[c] EXCEPT !.served = "none", !.note = note])
    /\ UNCHANGED ready

\* on_notification of the current transport, for a thread that is registered.
Dispatch(c) ==
    LET kind == call[c].note
        taken == current = call[c].on /\ Waits(c)
    IN  /\ kind # "none" /\ proc[call[c].on] \in {"up", "dying"}
        /\ Set(c, [call[c] EXCEPT !.note = "none",
                     !.future = IF ~taken THEN @
                                ELSE IF kind = "answer" THEN "answer" ELSE "error"])
        /\ ready' = (ready /\ ~(taken /\ kind = "unauthorized"))

\* `await state.future` is over.
Return(c) ==
    /\ call[c].phase = "awaiting" /\ call[c].future # "open"
    /\ Set(c, Finished(call[c], IF call[c].future = "answer" THEN "answer" ELSE "failure"))
    /\ UNCHANGED ready

\* The deadline: the turn is cancelled, and interrupted when its id is known.
TimesOut(c) ==
    /\ Timeouts
    /\ \/ /\ call[c].phase \in {"accepted", "config", "thread", "turn"}
          /\ Set(c, Finished(call[c], "timeout"))
       \/ /\ call[c].phase = "awaiting"
          /\ LET r == Asked(call[c], "interrupting")
             IN  Set(c, IF r.phase = "done" THEN [r EXCEPT !.outcome = "timeout"]
                        ELSE [r EXCEPT !.served = IF @ = "running" THEN "interrupted"
                                                  ELSE @])
    /\ UNCHANGED ready

\* turn/interrupt is answered, or two seconds are over.
Interrupted(c) ==
    /\ call[c].phase = "interrupting"
    /\ Set(c, Finished(call[c], "timeout"))
    /\ UNCHANGED ready

-----------------------------------------------------------------------------
StarterStep == Start \/ ValidationFails \/ Validated
TransportStep(a) == Launch(a) \/ Initialized(a) \/ StartFails(a) \/ NotStarted(a)
StopStep == Stop \/ StopTransport \/ Stopped
ProcessStep(t) == ProcessExits(t) \/ CleanedUp(t) \/ HandleExit(t) \/ ScheduleRestart(t)
CallStep(c) ==
    \/ Complete(c) \/ RunTurn(c) \/ Resume(c) \/ Return(c) \/ TimesOut(c)
    \/ Interrupted(c) \/ Dispatch(c)
ServerStep(c) == Responds(c) \/ RefusesTurn(c) \/ TakesTurn(c) \/ TurnCompletes(c)

Next ==
    \/ StarterStep
    \/ \E a \in {Starter, Restart} : TransportStep(a)
    \/ RestartWakes \/ StopStep
    \/ \E t \in Transports : ProcessStep(t)
    \/ \E c \in Calls : CallStep(c) \/ ServerStep(c)

Spec == Init /\ [][Next]_vars

-----------------------------------------------------------------------------
(* Safety *)

\* At most one app-server process is left to run: one is only launched after
\* the one before it was told to end, whoever launches it and whatever is
\* cancelled meanwhile (_lifecycle_lock, transport.stop()).
OneServer == \A t, u \in Transports : Up(t) /\ Up(u) => t = u

\* While the gateway reports ready, its transport has been initialized and was
\* not given up, or its exit is about to be noticed: no call is let in on a
\* transport that is being started or stopped.
ReadyIsInitialized ==
    ready => /\ current # None
             /\ \A a \in Actors : mine[a] # current
             /\ \/ proc[current] \in {"up", "dying"}
                \/ exit[current] = "scheduled"

\* No caller waits for a process that is gone without somebody left to fail its
\* future: its transport is the current one and runs, or its exit handler is
\* still to come, or stop() is about to fail it.
NoWaiterIsStranded ==
    \A c \in Calls : Waits(c) =>
        LET t == call[c].on
        IN  \/ t = current /\ (proc[t] \in {"up", "dying"} \/ exit[t] = "scheduled")
            \/ pc[Stopper] = "closing"

\* When stop() returns nothing goes on: no process, no restart that would bring
\* one back, no waiting caller, and the gateway does not report ready.
StoppedIsQuiet ==
    pc[Stopper] = "done" =>
        /\ \A t \in Transports : ~Up(t)
        /\ pc[Restart] = "off" /\ \A a \in Actors : mine[a] = None
        /\ ~ready /\ \A c \in Calls : ~Waits(c)

\* The two ends of the gateway's life: ready with a transport that serves, and
\* stopped with nothing left; and in between, one app-server at a time.
ReadyOrQuiet == TypeOK /\ OneServer /\ ReadyIsInitialized /\ StoppedIsQuiet

-----------------------------------------------------------------------------
(* Action properties *)

\* What a caller is to get is decided once: an answer that has arrived is not
\* replaced by the failure of an exit or a stop that follows it.
OutcomeIsKept ==
    [][\A c \in Calls : call[c].future \in {"answer", "error", "lost"} =>
          call'[c].future \in {call[c].future, "none"}]_vars

-----------------------------------------------------------------------------
(* Liveness *)

\* The event loop runs every coroutine that can go on; processes that are told
\* to end do; the app-server answers requests and ends its turns; and a launch
\* and a handshake succeed when the restart loop tries them again and again.
Fairness ==
    /\ \A a \in {Starter, Restart} :
          /\ WF_vars(NotStarted(a))
          /\ WF_vars(TransportStep(a))
    /\ SF_vars(Launch(Restart)) /\ SF_vars(Initialized(Restart))
    /\ WF_vars(ValidationFails \/ Validated)
    /\ WF_vars(RestartWakes) /\ WF_vars(StopTransport) /\ WF_vars(Stopped)
    /\ \A t \in Transports :
          WF_vars(CleanedUp(t)) /\ WF_vars(HandleExit(t)) /\ WF_vars(ScheduleRestart(t))
    /\ \A c \in Calls :
          /\ WF_vars(RunTurn(c)) /\ WF_vars(Resume(c)) /\ WF_vars(Return(c))
          /\ WF_vars(Interrupted(c)) /\ WF_vars(Dispatch(c))
          /\ WF_vars(Responds(c)) /\ WF_vars(TakesTurn(c) \/ RefusesTurn(c))
          /\ WF_vars(TurnCompletes(c))

FairSpec == Spec /\ Fairness

\* A call that was let in returns to its caller, whatever exits or
\* is stopped while it waits.
CallReturns ==
    \A c \in Calls : call[c].phase \notin {"idle", "done"} ~> call[c].phase = "done"

\* The exit of the process in use is made good: the gateway becomes ready again
\* with a new one, unless it is being stopped.
ExitIsRecovered ==
    \A t \in Transports :
        (t = current /\ proc[t] = "dying") ~> ((ready /\ Up(current)) \/ stopping)

\* Neither a call nor the gateway itself waits for ever for a process that is
\* gone.
GatewayGoesOn == CallReturns /\ ExitIsRecovered
=============================================================================
