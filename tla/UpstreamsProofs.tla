--------------------------- MODULE UpstreamsProofs ---------------------------
(***************************************************************************)
(* Theorems about what stands between the platform and the world outside:  *)
(* the supervisor of the app-server process, for any number of transports  *)
(* and calls, with and without a request timeout, and the names of         *)
(* instruments, for any number of them and whatever SEC may list.          *)
(***************************************************************************)
EXTENDS MCUpstreams, Sequences, TLAPS

-----------------------------------------------------------------------------
(* The gateway *)

\* No transport and no lock are values of their own.
NoneIsApart == None \notin Transports /\ None \notin Actors

Starting == {"launch", "initialize", "undo"}
Starts(a) == pc[a] \in Starting

\* Where each coroutine can be; before start() has checked the environment
\* there is nothing, and a restart loop that was cancelled starts nothing more.
Places ==
    /\ pc[Starter] \in {"off", "validate", "done"} \cup Starting
    /\ pc[Restart] \in {"off", "sleep"} \cup Starting
    /\ pc[Stopper] \in {"off", "join", "closing", "done"}
    /\ pc[Starter] \in {"off", "validate"} =>
          /\ current = None /\ pc[Restart] = "off" /\ pc[Stopper] = "off"
          /\ \A t \in Transports : proc[t] = "absent" /\ exit[t] = "none"
          /\ \A c \in Calls : call[c].phase = "idle"
    /\ stopping <=> pc[Stopper] # "off"
    /\ stopping => pc[Starter] = "done" /\ pc[Restart] \in {"off", "undo"}
    /\ pc[Stopper] \in {"closing", "done"} => pc[Restart] = "off" /\ current = None

\* _lifecycle_lock is held by the one coroutine that starts or stops a transport.
LockHolds ==
    \A a \in Actors :
        /\ lock = a <=> pc[a] \in {"validate", "closing"} \cup Starting
        /\ mine[a] # None <=> pc[a] \in {"closing"} \cup Starting

\* A transport that is being started is in use by nobody, and is the current one
\* until its exit is noticed.
StartsAlone ==
    \A a \in Actors : Starts(a) =>
        /\ current \in {mine[a], None}
        /\ pc[a] = "launch" =>
              current = mine[a] /\ proc[mine[a]] = "absent" /\ exit[mine[a]] = "none"
        /\ pc[a] = "undo" => proc[mine[a]] # "up"
        /\ \A c \in Calls :
              /\ call[c].phase # "accepted"
              /\ call[c].on = mine[a] => call[c].phase = "done"

\* Only the current transport serves, and an exit handler runs after the process.
CurrentServes ==
    \A t \in Transports :
        /\ Up(t) => t = current
        /\ exit[t] # "none" => proc[t] = "absent"
        /\ exit[t] = "closing" => current = None

WaitsInTurn ==
    \A c \in Calls :
        /\ call[c].phase = "idle" => call[c] = Fresh
        /\ call[c].future # "none" => call[c].phase \in {"turn", "awaiting", "interrupting"}
        /\ Waits(c) => call[c].on # None

IInv ==
    /\ TypeOK /\ Places /\ LockHolds /\ StartsAlone /\ CurrentServes /\ WaitsInTurn
    /\ ReadyIsInitialized /\ NoWaiterIsStranded
    /\ pc[Stopper] = "done" => \A c \in Calls : ~Waits(c)

\* A future that is done stays as it is until its caller takes it.
Kept ==
    \A c \in Calls : call[c].future \in {"answer", "error", "lost"} =>
        call'[c].future \in {call[c].future, "none"}

LEMMA InitInv == ASSUME NoneIsApart, Init PROVE IInv
BY DEF Init, IInv, TypeOK, Places, LockHolds, StartsAlone, Starts, Starting, CurrentServes,
       WaitsInTurn, ReadyIsInitialized, NoWaiterIsStranded, NoneIsApart, Actors, Starter,
       Restart, Stopper, Fresh, Call, Waits, Up

-----------------------------------------------------------------------------
(* The calls while the life cycle moves *)

\* Nobody begins, ends or begins to wait.
CallsStay ==
    /\ call' \in [Calls -> Call]
    /\ \A c \in Calls :
          /\ call'[c].phase = call[c].phase /\ call'[c].on = call[c].on
          /\ Waits(c)' => Waits(c)
          /\ call[c].future = "none" => call'[c].future = "none"
          /\ call[c].phase = "idle" => call'[c] = call[c]

LEMMA SameCalls == ASSUME IInv, call' = call PROVE CallsStay
BY DEF CallsStay, IInv, TypeOK, Waits

LEMMA FailedPending ==
    ASSUME IInv, NEW t \in Transports, NoneIsApart, call' = FailPending(t, call)
    PROVE  CallsStay
<1>1. ASSUME NEW c \in Calls
      PROVE  /\ call'[c] \in Call
             /\ call'[c].phase = call[c].phase /\ call'[c].on = call[c].on
             /\ call'[c].future = call[c].future
             /\ call[c].on # t => call'[c] = call[c]
  <2> DEFINE failed == [call[c] EXCEPT !.served = "none",
                                       !.reply = IF @ = "waiting" THEN "failed" ELSE @]
  <2>1. call[c] \in Call
    BY DEF IInv, TypeOK
  <2>2. /\ failed \in Call /\ failed.phase = call[c].phase
        /\ failed.on = call[c].on /\ failed.future = call[c].future
    BY <2>1 DEF Call
  <2>3. call'[c] = IF call[c].on # t THEN call[c] ELSE failed
    BY DEF FailPending
  <2> HIDE DEF failed
  <2> QED
    BY <2>1, <2>2, <2>3
<1>2. \A c \in Calls : call[c].phase = "idle" => call[c].on # t
  BY DEF IInv, WaitsInTurn, Fresh, NoneIsApart
<1>3. call' \in [Calls -> Call]
  BY <1>1 DEF FailPending
<1> QED
  BY <1>1, <1>2, <1>3 DEF CallsStay, Waits

LEMMA FailedTurns ==
    ASSUME IInv, call' = FailTurns(call)
    PROVE  CallsStay /\ \A c \in Calls : ~Waits(c)'
<1>1. ASSUME NEW c \in Calls
      PROVE  /\ call'[c] \in Call
             /\ call'[c].phase = call[c].phase /\ call'[c].on = call[c].on
             /\ call'[c].future # "open"
             /\ call[c].future # "open" => call'[c] = call[c]
  BY DEF FailTurns, IInv, TypeOK, Call
<1>2. \A c \in Calls : call[c].phase = "idle" => call[c].future # "open"
  BY DEF IInv, WaitsInTurn, Fresh
<1>3. call' \in [Calls -> Call]
  BY <1>1 DEF FailTurns
<1> QED
  BY <1>1, <1>2, <1>3 DEF CallsStay, Waits

LEMMA StayingCalls == ASSUME IInv, CallsStay PROVE WaitsInTurn'
BY DEF IInv, WaitsInTurn, CallsStay, Waits

LEMMA StoppedProcess ==
    ASSUME IInv, NEW t \in Transports, StopProcess(t)
    PROVE  /\ proc' \in [Transports -> {"absent", "up", "dying", "stopping"}]
           /\ proc'[t] = IF proc[t] = "up" THEN "stopping" ELSE proc[t]
           /\ \A u \in Transports \ {t} : proc'[u] = proc[u]
BY DEF StopProcess, IInv, TypeOK

\* While a transport is started or undone the gateway is not ready.
LEMMA NotReady == ASSUME IInv, NEW a \in Actors, Starts(a) PROVE ~ready
BY DEF IInv, ReadyIsInitialized, StartsAlone, LockHolds, Starts, Starting

\* The transport an actor has is one, and the only one that is being handled.
LEMMA OneIsBusy ==
    ASSUME IInv, NoneIsApart, NEW a \in Actors, mine[a] # None
    PROVE  /\ mine[a] \in Transports /\ lock = a
           /\ \A b \in Actors : b # a => mine[b] = None /\ ~Starts(b)
BY DEF IInv, TypeOK, LockHolds, Starts, Starting, NoneIsApart
-----------------------------------------------------------------------------
(* start() and the restart loop *)

\* Steps that take a coroutine to a place that is neither a start nor the end
\* of stop(), and touch no transport.
LEMMA StartInv == ASSUME NoneIsApart, IInv, Start PROVE IInv'
<1>1. /\ pc[Starter] = "off" /\ lock' = Starter
      /\ pc' = [pc EXCEPT ![Starter] = "validate"]
      /\ UNCHANGED <<current, ready, stopping, mine, cut, proc, exit, call>>
  BY DEF Start
<1>2. TypeOK' /\ Places' /\ WaitsInTurn'
  BY <1>1, SameCalls, StayingCalls
  DEF IInv, TypeOK, Places, Actors, Starter, Restart, Stopper, Starting
<1>3. LockHolds' /\ StartsAlone'
  BY <1>1 DEF IInv, TypeOK, Places, LockHolds, StartsAlone, Starts, Starting, Actors,
              Starter, Restart, Stopper, NoneIsApart
<1>4. CurrentServes' /\ ReadyIsInitialized' /\ NoWaiterIsStranded'
  BY <1>1 DEF IInv, TypeOK, CurrentServes, ReadyIsInitialized, NoWaiterIsStranded, Up, Waits,
              Actors, Starter, Restart, Stopper
<1>5. pc'[Stopper] # "done"
  BY <1>1 DEF IInv, Places, TypeOK, Actors, Starter, Restart, Stopper
<1> QED
  BY <1>2, <1>3, <1>4, <1>5 DEF IInv

LEMMA ValidationFailsInv == ASSUME NoneIsApart, IInv, ValidationFails PROVE IInv'
<1>1. /\ pc[Starter] = "validate" /\ lock' = None
      /\ pc' = [pc EXCEPT ![Starter] = "done"]
      /\ UNCHANGED <<current, ready, stopping, mine, cut, proc, exit, call>>
  BY DEF ValidationFails
<1>2. TypeOK' /\ Places' /\ WaitsInTurn'
  BY <1>1, SameCalls, StayingCalls
  DEF IInv, TypeOK, Places, Actors, Starter, Restart, Stopper, Starting
<1>3. LockHolds' /\ StartsAlone'
  BY <1>1 DEF IInv, TypeOK, Places, LockHolds, StartsAlone, Starts, Starting, Actors,
              Starter, Restart, Stopper, NoneIsApart
<1>4. CurrentServes' /\ ReadyIsInitialized' /\ NoWaiterIsStranded'
  BY <1>1 DEF IInv, TypeOK, CurrentServes, ReadyIsInitialized, NoWaiterIsStranded, Up, Waits,
              Actors, Starter, Restart, Stopper
<1>5. pc'[Stopper] # "done"
  BY <1>1 DEF IInv, Places, TypeOK, Actors, Starter, Restart, Stopper
<1> QED
  BY <1>2, <1>3, <1>4, <1>5 DEF IInv

\* A start on a transport nothing refers to, when nothing goes on elsewhere.
LEMMA StartTransportInv ==
    ASSUME NoneIsApart, IInv, NEW a \in {Starter, Restart}, StartTransport(a),
           a = Starter => pc[a] = "validate",
           a = Restart => pc[a] = "sleep" /\ lock = None /\ LoopHasTurned,
           lock' = a, UNCHANGED <<ready, stopping, cut, exit>>, ~stopping
    PROVE  IInv'
<1>1. PICK t \in Transports :
         /\ Unused(t) /\ current' = t
         /\ mine' = [mine EXCEPT ![a] = t]
         /\ pc' = [pc EXCEPT ![a] = "launch"]
         /\ UNCHANGED <<proc, call>>
  BY DEF StartTransport
<1>2. current = None /\ ~ready /\ \A b \in Actors : mine[b] = None /\ ~Starts(b)
  BY DEF IInv, TypeOK, Places, LockHolds, ReadyIsInitialized, Starts, Starting, Actors,
         Starter, Restart, Stopper, NoneIsApart
<1>3. t # None /\ proc[t] = "absent" /\ exit[t] = "none"
  BY <1>1 DEF Unused, NoneIsApart
<1>4. \A c \in Calls : call[c].on = t => call[c].phase = "done"
  BY <1>1 DEF Unused
<1>5. /\ \A c \in Calls : call[c].phase # "accepted"
      /\ \A u \in Transports : exit[u] = "none" /\ ~Up(u)
  BY <1>2 DEF IInv, Places, CurrentServes, LoopHasTurned, Up, NoneIsApart, TypeOK
<1>6. TypeOK' /\ Places' /\ WaitsInTurn'
  BY <1>1, SameCalls, StayingCalls
  DEF IInv, TypeOK, Places, Actors, Starter, Restart, Stopper, Starting
<1>7. LockHolds'
  BY <1>1, <1>2, <1>3 DEF IInv, TypeOK, Places, LockHolds, Starts, Starting, Actors,
              Starter, Restart, Stopper, NoneIsApart
<1>8. StartsAlone'
  BY <1>1, <1>2, <1>3, <1>4, <1>5 DEF IInv, TypeOK, StartsAlone, Starts, Starting, Actors
<1>9. CurrentServes' /\ ReadyIsInitialized' /\ NoWaiterIsStranded'
  BY <1>1, <1>2, <1>5 DEF IInv, TypeOK, CurrentServes, ReadyIsInitialized,
      NoWaiterIsStranded, WaitsInTurn, Up, Waits, Actors, Starter, Restart, Stopper
<1>10. pc'[Stopper] # "done"
  BY <1>1 DEF IInv, Places, TypeOK, Actors, Starter, Restart, Stopper
<1> QED
  BY <1>6, <1>7, <1>8, <1>9, <1>10 DEF IInv

LEMMA ValidatedInv == ASSUME NoneIsApart, IInv, Validated PROVE IInv'
<1>1. pc[Starter] = "validate" /\ StartTransport(Starter)
      /\ UNCHANGED <<ready, stopping, lock, cut, exit>>
  BY DEF Validated
<1>2. lock = Starter /\ ~stopping
  BY <1>1 DEF IInv, LockHolds, Places, Actors, Starter, Restart, Stopper
<1> QED
  BY <1>1, <1>2, StartTransportInv DEF Starter, Restart

LEMMA RestartWakesInv == ASSUME NoneIsApart, IInv, RestartWakes PROVE IInv'
<1>1. /\ pc[Restart] = "sleep" /\ lock = None /\ LoopHasTurned
      /\ UNCHANGED <<ready, stopping, cut, exit>>
  BY DEF RestartWakes
<1>2. ~stopping /\ ~ready
  BY <1>1 DEF IInv, TypeOK, Places, ReadyIsInitialized
<1>3. lock' = Restart /\ StartTransport(Restart)
  BY <1>1, <1>2 DEF RestartWakes
<1> QED
  BY <1>1, <1>2, <1>3, StartTransportInv DEF Starter, Restart

LEMMA LaunchInv ==
    ASSUME NoneIsApart, IInv, NEW a \in {Starter, Restart}, Launch(a)
    PROVE  IInv'
<1>1. /\ pc[a] = "launch" /\ pc' = [pc EXCEPT ![a] = "initialize"]
      /\ proc' = [proc EXCEPT ![mine[a]] = "up"]
      /\ UNCHANGED <<current, ready, stopping, lock, mine, cut, exit, call>>
  BY DEF Launch
<1>2. a \in Actors /\ Starts(a)
  BY <1>1 DEF Actors, Starts, Starting
<1>3. mine[a] \in Transports /\ lock = a
  BY <1>1, <1>2, OneIsBusy DEF IInv, LockHolds, Starting
<1>4. ~ready /\ current = mine[a] /\ exit[mine[a]] = "none"
  BY <1>1, <1>2, NotReady DEF IInv, StartsAlone
<1>5. TypeOK' /\ WaitsInTurn'
  BY <1>1, <1>3, SameCalls, StayingCalls DEF IInv, TypeOK, Actors, Starter, Restart, Stopper
<1>6. Places'
  BY <1>1 DEF IInv, TypeOK, Places, Starting, Actors, Starter, Restart, Stopper
<1>7. LockHolds'
  BY <1>1 DEF IInv, TypeOK, LockHolds, Starting, Actors, Starter, Restart, Stopper
<1>8. StartsAlone'
  BY <1>1, <1>2, <1>3, OneIsBusy DEF IInv, TypeOK, LockHolds, StartsAlone, Starts, Starting,
      Actors, Starter, Restart, Stopper
<1>9. CurrentServes' /\ ReadyIsInitialized'
  BY <1>1, <1>3, <1>4 DEF IInv, TypeOK, CurrentServes, ReadyIsInitialized, Up
<1>10. NoWaiterIsStranded'
  BY <1>1, <1>3, <1>4 DEF IInv, TypeOK, NoWaiterIsStranded, WaitsInTurn, Waits,
      Actors, Starter, Restart, Stopper
<1>11. pc'[Stopper] = "done" => \A c \in Calls : ~Waits(c)'
  BY <1>1 DEF IInv, TypeOK, Waits, Actors, Starter, Restart, Stopper
<1> QED
  BY <1>5, <1>6, <1>7, <1>8, <1>9, <1>10, <1>11 DEF IInv
LEMMA InitializedInv ==
    ASSUME NoneIsApart, IInv, NEW a \in {Starter, Restart}, Initialized(a)
    PROVE  IInv'
<1>1. /\ pc[a] = "initialize" /\ Up(mine[a]) /\ current = mine[a]
      /\ ready' = TRUE /\ lock' = None
      /\ pc' = [pc EXCEPT ![a] = IF a = Restart THEN "off" ELSE "done"]
      /\ mine' = [mine EXCEPT ![a] = None]
      /\ UNCHANGED <<current, stopping, cut, proc, exit, call>>
  BY DEF Initialized
<1>2. a \in Actors /\ Starts(a)
  BY <1>1 DEF Actors, Starts, Starting
<1>3. /\ mine[a] \in Transports /\ mine[a] # None /\ lock = a
      /\ \A b \in Actors : b # a => mine[b] = None /\ ~Starts(b)
  BY <1>1, <1>2, OneIsBusy DEF IInv, LockHolds, Starting
<1>4. TypeOK' /\ WaitsInTurn'
  BY <1>1, SameCalls, StayingCalls DEF IInv, TypeOK, Actors, Starter, Restart, Stopper
<1>5. Places'
  BY <1>1 DEF IInv, TypeOK, Places, Starting, Actors, Starter, Restart, Stopper
<1>6. LockHolds'
  BY <1>1, <1>3 DEF IInv, TypeOK, Places, LockHolds, Starting, Actors, Starter, Restart,
      Stopper, NoneIsApart
<1>7. StartsAlone'
  BY <1>1, <1>3 DEF IInv, TypeOK, StartsAlone, Starts, Starting, Actors, Starter, Restart,
      Stopper
<1>8. CurrentServes' /\ ReadyIsInitialized'
  BY <1>1, <1>3 DEF IInv, TypeOK, CurrentServes, ReadyIsInitialized, Up
<1>9. NoWaiterIsStranded'
  BY <1>1 DEF IInv, TypeOK, NoWaiterIsStranded, Waits, Actors, Starter, Restart, Stopper
<1>10. pc'[Stopper] = "done" => \A c \in Calls : ~Waits(c)'
  BY <1>1 DEF IInv, TypeOK, Waits, Actors, Starter, Restart, Stopper
<1> QED
  BY <1>4, <1>5, <1>6, <1>7, <1>8, <1>9, <1>10 DEF IInv

\* The failed transport is told to end: nobody was let in on it.
LEMMA UndoInv ==
    ASSUME NoneIsApart, IInv, NEW a \in {Starter, Restart}, Starts(a),
           StopProcess(mine[a]), call' = FailPending(mine[a], call),
           pc'[a] = "undo", \A b \in {Starter, Restart} \ {a} : pc'[b] = pc[b],
           pc' \in [Actors -> {"off", "validate", "sleep", "launch",
                               "initialize", "undo", "join", "closing", "done"}],
           \/ pc'[Stopper] = pc[Stopper] /\ stopping' = stopping
           \/ /\ a = Restart /\ pc[Starter] = "done" /\ pc[Stopper] = "off"
              /\ pc'[Stopper] = "join" /\ stopping' = TRUE,
           cut' \in BOOLEAN, UNCHANGED <<current, ready, lock, mine, exit>>
    PROVE  IInv'
<1>1. a \in Actors /\ pc[a] \in Starting
  BY DEF Actors, Starts
<1>2. /\ mine[a] \in Transports /\ mine[a] # None /\ lock = a
      /\ \A b \in Actors : b # a => mine[b] = None /\ ~Starts(b)
  BY <1>1, OneIsBusy DEF IInv, LockHolds, Starting
<1>3. /\ proc' \in [Transports -> {"absent", "up", "dying", "stopping"}]
      /\ proc'[mine[a]] # "up"
      /\ proc[mine[a]] = "absent" => proc'[mine[a]] = "absent"
      /\ \A u \in Transports : u # mine[a] => proc'[u] = proc[u]
  BY <1>2, StoppedProcess DEF IInv, TypeOK
<1>4. CallsStay /\ ~ready
  BY <1>1, <1>2, FailedPending, NotReady
<1>5. stopping' \in BOOLEAN
  BY DEF IInv, TypeOK
<1>6. TypeOK' /\ WaitsInTurn'
  <2>1. WaitsInTurn'
    BY <1>4, StayingCalls
  <2>2. call' \in [Calls -> Call]
    BY <1>4 DEF CallsStay
  <2>3. pc'[Restart] = "sleep" => current' = None
    BY DEF IInv, TypeOK, Starter, Restart
  <2> QED
    BY <1>3, <1>5, <2>1, <2>2, <2>3 DEF IInv, TypeOK
<1>7. Places'
  BY <1>1, <1>4 DEF IInv, Places, Starting, Starter, Restart, Stopper
<1>8. LockHolds'
  BY <1>1, <1>2 DEF IInv, Places, LockHolds, Starting, Actors, Starter, Restart, Stopper,
      NoneIsApart
<1>9. StartsAlone'
  <2>1. \A b \in Actors : Starts(b)' => b = a
    BY <1>2, <1>8 DEF LockHolds, Starts, Starting
  <2>2. current \in {mine[a], None}
    BY <1>1 DEF IInv, StartsAlone
  <2>3. \A c \in Calls : /\ call'[c].phase # "accepted"
                         /\ call'[c].on = mine[a] => call'[c].phase = "done"
    BY <1>1, <1>4 DEF IInv, StartsAlone, CallsStay
  <2> QED
    BY <1>3, <2>1, <2>2, <2>3 DEF StartsAlone
<1>10. CurrentServes'
  BY <1>2, <1>3 DEF IInv, CurrentServes, Up
<1>11. ReadyIsInitialized'
  BY <1>4 DEF ReadyIsInitialized
<1>12. NoWaiterIsStranded'
  <2>1. ASSUME NEW c \in Calls, Waits(c)'
        PROVE  call'[c].on = call[c].on /\ call[c].on # mine[a] /\ Waits(c)
    BY <1>1, <1>4, <2>1 DEF IInv, StartsAlone, WaitsInTurn, CallsStay, Waits
  <2>2. \A c \in Calls : call[c].on \in Transports \cup {None}
    BY DEF IInv, TypeOK, Call
  <2>3. pc[Stopper] # "closing"
    BY <1>1, <1>2 DEF IInv, LockHolds, Actors, Starter, Restart, Stopper
  <2>4. \A c \in Calls : Waits(c) => call[c].on # None
    BY DEF IInv, WaitsInTurn
  <2> QED
    BY <1>2, <1>3, <2>1, <2>2, <2>3, <2>4 DEF IInv, NoWaiterIsStranded
<1>13. pc'[Stopper] = "done" => \A c \in Calls : ~Waits(c)'
  BY <1>4 DEF IInv, CallsStay
<1> QED
  BY <1>6, <1>7, <1>8, <1>9, <1>10, <1>11, <1>12, <1>13 DEF IInv

LEMMA StartFailsInv ==
    ASSUME NoneIsApart, IInv, NEW a \in {Starter, Restart}, StartFails(a)
    PROVE  IInv'
<1>1. /\ Starts(a) /\ StopProcess(mine[a]) /\ call' = FailPending(mine[a], call)
      /\ pc' = [pc EXCEPT ![a] = "undo"]
      /\ UNCHANGED <<current, ready, stopping, lock, mine, cut, exit>>
  BY DEF StartFails, Starts, Starting
<1>2. /\ pc'[a] = "undo" /\ \A b \in {Starter, Restart} \ {a} : pc'[b] = pc[b]
      /\ pc'[Stopper] = pc[Stopper] /\ cut' \in BOOLEAN
      /\ pc' \in [Actors -> {"off", "validate", "sleep", "launch",
                             "initialize", "undo", "join", "closing", "done"}]
  BY <1>1 DEF IInv, TypeOK, Actors, Starter, Restart, Stopper
<1> QED
  BY <1>1, <1>2, UndoInv

LEMMA NotStartedInv ==
    ASSUME NoneIsApart, IInv, NEW a \in {Starter, Restart}, NotStarted(a)
    PROVE  IInv'
<1>1. /\ pc[a] = "undo" /\ lock' = None
      /\ current' = IF current = mine[a] THEN None ELSE current
      /\ mine' = [mine EXCEPT ![a] = None]
      /\ UNCHANGED <<stopping, cut, proc, exit, call>>
  BY DEF NotStarted
<1>2. a \in Actors /\ Starts(a)
  BY <1>1 DEF Actors, Starts, Starting
<1>3. /\ mine[a] \in Transports /\ mine[a] # None /\ lock = a
      /\ \A b \in Actors : b # a => mine[b] = None /\ ~Starts(b)
  BY <1>1, <1>2, OneIsBusy DEF IInv, LockHolds, Starting
<1>4. current' = None /\ ~ready /\ ready' = FALSE
  BY <1>1, <1>2, NotReady DEF IInv, StartsAlone, TypeOK, NotStarted
<1>5. /\ pc' \in [Actors -> {"off", "validate", "sleep", "launch",
                             "initialize", "undo", "join", "closing", "done"}]
      /\ pc'[Stopper] = pc[Stopper]
      /\ pc'[Starter] = IF a = Starter THEN "done" ELSE pc[Starter]
      /\ \/ pc'[Restart] = pc[Restart] /\ a # Restart
         \/ ~stopping /\ pc'[Restart] = "sleep" /\ pc[Restart] \in {"off", "undo"}
         \/ stopping /\ a = Restart /\ pc'[Restart] = "off"
  <2>1. CASE a = Restart
    BY <1>1, <2>1 DEF NotStarted, IInv, TypeOK, Actors, Starter, Restart, Stopper
  <2>2. CASE a = Starter
    <3> DEFINE p == [pc EXCEPT ![a] = "done"]
    <3>1. pc' = IF ~stopping /\ p[Restart] = "off" THEN [p EXCEPT ![Restart] = "sleep"] ELSE p
      BY <2>2 DEF NotStarted, Scheduled, Starter, Restart
    <3> QED
      BY <2>2, <3>1 DEF IInv, TypeOK, Actors, Starter, Restart, Stopper
  <2> QED
    BY <2>1, <2>2
<1>6. TypeOK' /\ WaitsInTurn'
  BY <1>1, <1>4, <1>5, SameCalls, StayingCalls DEF IInv, TypeOK
<1>7. Places'
  BY <1>1, <1>2, <1>4, <1>5 DEF IInv, TypeOK, Places, Starts, Starting, Actors, Starter,
      Restart, Stopper
<1>8. LockHolds' /\ StartsAlone'
  BY <1>1, <1>3, <1>5 DEF IInv, TypeOK, Places, LockHolds, StartsAlone, Starts, Starting,
      Actors, Starter, Restart, Stopper, NoneIsApart
<1>9. CurrentServes' /\ ReadyIsInitialized'
  BY <1>1, <1>2, <1>4 DEF IInv, TypeOK, StartsAlone, CurrentServes, ReadyIsInitialized, Up
<1>10. NoWaiterIsStranded'
  BY <1>1, <1>2, <1>3, <1>5 DEF IInv, StartsAlone, NoWaiterIsStranded, WaitsInTurn, Waits
<1>11. pc'[Stopper] = "done" => \A c \in Calls : ~Waits(c)'
  BY <1>1, <1>5 DEF IInv, Waits
<1> QED
  BY <1>6, <1>7, <1>8, <1>9, <1>10, <1>11 DEF IInv
-----------------------------------------------------------------------------
(* stop() *)

LEMMA StopInv == ASSUME NoneIsApart, IInv, Stop PROVE IInv'
<1>1. /\ pc[Stopper] = "off" /\ pc[Starter] = "done" /\ stopping' = TRUE
      /\ cut' \in BOOLEAN /\ UNCHANGED <<current, ready, lock, mine, exit>>
  BY DEF Stop
<1>2. CASE /\ pc[Restart] \in {"off", "undo", "sleep"} /\ UNCHANGED <<proc, call>>
           /\ pc' = [pc EXCEPT ![Stopper] = "join",
                               ![Restart] = IF @ = "sleep" THEN "off" ELSE @]
  <2>1. /\ pc' \in [Actors -> {"off", "validate", "sleep", "launch",
                               "initialize", "undo", "join", "closing", "done"}]
        /\ pc'[Starter] = pc[Starter] /\ pc'[Stopper] = "join"
        /\ pc'[Restart] = IF pc[Restart] = "sleep" THEN "off" ELSE pc[Restart]
    BY <1>2 DEF IInv, TypeOK, Actors, Starter, Restart, Stopper
  <2>2. TypeOK' /\ WaitsInTurn'
    BY <1>1, <1>2, <2>1, SameCalls, StayingCalls DEF IInv, TypeOK
  <2>3. Places'
    BY <1>1, <1>2, <2>1 DEF IInv, Places, Starting
  <2>4. LockHolds' /\ StartsAlone'
    BY <1>1, <1>2, <2>1 DEF IInv, LockHolds, StartsAlone, Starts, Starting, Actors
  <2>5. CurrentServes' /\ ReadyIsInitialized' /\ NoWaiterIsStranded'
    BY <1>1, <1>2, <2>1 DEF IInv, CurrentServes, ReadyIsInitialized, NoWaiterIsStranded,
        Up, Waits
  <2> QED
    BY <2>1, <2>2, <2>3, <2>4, <2>5 DEF IInv
<1>3. CASE /\ pc[Restart] \in {"launch", "initialize"}
           /\ pc' = [pc EXCEPT ![Stopper] = "join", ![Restart] = "undo"]
           /\ StopProcess(mine[Restart]) /\ call' = FailPending(mine[Restart], call)
  <2>1. /\ pc' \in [Actors -> {"off", "validate", "sleep", "launch",
                               "initialize", "undo", "join", "closing", "done"}]
        /\ pc'[Restart] = "undo" /\ pc'[Stopper] = "join" /\ pc'[Starter] = pc[Starter]
    BY <1>3 DEF IInv, TypeOK, Actors, Starter, Restart, Stopper
  <2>2. Starts(Restart) /\ \A b \in {Starter, Restart} \ {Restart} : pc'[b] = pc[b]
    BY <1>3, <2>1 DEF Starts, Starting
  <2> QED
    BY <1>1, <1>3, <2>1, <2>2, UndoInv
<1>4. \/ pc[Restart] \in {"off", "undo"} /\ UNCHANGED <<proc, call>>
         /\ pc' = [pc EXCEPT ![Stopper] = "join"]
      \/ pc[Restart] = "sleep" /\ UNCHANGED <<proc, call>>
         /\ pc' = [pc EXCEPT ![Stopper] = "join", ![Restart] = "off"]
      \/ /\ pc[Restart] \in {"launch", "initialize"}
         /\ pc' = [pc EXCEPT ![Stopper] = "join", ![Restart] = "undo"]
         /\ StopProcess(mine[Restart]) /\ call' = FailPending(mine[Restart], call)
  BY DEF Stop
<1>5. /\ pc[Restart] \in {"off", "undo"} /\ pc' = [pc EXCEPT ![Stopper] = "join"]
            => pc' = [pc EXCEPT ![Stopper] = "join",
                                ![Restart] = IF @ = "sleep" THEN "off" ELSE @]
      /\ pc[Restart] = "sleep" /\ pc' = [pc EXCEPT ![Stopper] = "join", ![Restart] = "off"]
            => pc' = [pc EXCEPT ![Stopper] = "join",
                                ![Restart] = IF @ = "sleep" THEN "off" ELSE @]
  BY DEF IInv, TypeOK, Actors, Restart, Stopper
<1> QED
  BY <1>2, <1>3, <1>4, <1>5

LEMMA StopTransportInv == ASSUME NoneIsApart, IInv, StopTransport PROVE IInv'
<1>1. /\ pc[Stopper] = "join" /\ pc[Restart] = "off" /\ lock = None
      /\ ready' = FALSE /\ current' = None /\ UNCHANGED <<stopping, cut, exit>>
      /\ stopping /\ pc[Starter] = "done"
      /\ \A a \in Actors : mine[a] = None /\ ~Starts(a)
  BY DEF StopTransport, IInv, Places, LockHolds, Starts, Starting, NoneIsApart
<1>2. CASE /\ current = None /\ pc' = [pc EXCEPT ![Stopper] = "done"]
           /\ call' = FailTurns(call) /\ UNCHANGED <<lock, mine, proc>>
  <2>1. CallsStay /\ \A c \in Calls : ~Waits(c)'
    BY <1>2, FailedTurns
  <2>2. TypeOK' /\ Places' /\ WaitsInTurn'
    BY <1>1, <1>2, <2>1, StayingCalls
    DEF IInv, TypeOK, Places, CallsStay, Actors, Starter, Restart, Stopper, Starting
  <2>3. LockHolds' /\ StartsAlone'
    BY <1>1, <1>2 DEF IInv, TypeOK, LockHolds, StartsAlone, Starts, Starting, Actors,
        Starter, Restart, Stopper, NoneIsApart
  <2>4. CurrentServes' /\ ReadyIsInitialized' /\ NoWaiterIsStranded'
    BY <1>1, <1>2, <2>1 DEF IInv, CurrentServes, ReadyIsInitialized, NoWaiterIsStranded, Up
  <2> QED
    BY <2>1, <2>2, <2>3, <2>4 DEF IInv
<1>3. CASE /\ current # None /\ pc' = [pc EXCEPT ![Stopper] = "closing"]
           /\ lock' = Stopper /\ mine' = [mine EXCEPT ![Stopper] = current]
           /\ StopProcess(current) /\ call' = FailPending(current, call)
  <2>1. current \in Transports
    BY <1>3 DEF IInv, TypeOK
  <2>2. CallsStay
    BY <1>3, <2>1, FailedPending
  <2>3. /\ proc' \in [Transports -> {"absent", "up", "dying", "stopping"}]
        /\ \A t \in Transports : ~Up(t)' /\ (proc[t] = "absent" => proc'[t] = "absent")
    BY <1>3, <2>1, StoppedProcess DEF IInv, CurrentServes, Up
  <2>4. TypeOK' /\ Places' /\ WaitsInTurn'
    BY <1>1, <1>3, <2>1, <2>2, <2>3, StayingCalls
    DEF IInv, TypeOK, Places, CallsStay, Actors, Starter, Restart, Stopper, Starting
  <2>5. LockHolds' /\ StartsAlone'
    BY <1>1, <1>3, <2>1 DEF IInv, TypeOK, LockHolds, StartsAlone, Starts, Starting, Actors,
        Starter, Restart, Stopper, NoneIsApart
  <2>6. CurrentServes' /\ ReadyIsInitialized'
    BY <1>1, <2>3 DEF IInv, CurrentServes, ReadyIsInitialized
  <2>7. pc'[Stopper] = "closing"
    BY <1>3 DEF IInv, TypeOK, Actors
  <2> QED
    BY <2>4, <2>5, <2>6, <2>7 DEF IInv, NoWaiterIsStranded
<1> QED
  BY <1>2, <1>3 DEF StopTransport

LEMMA StoppedInv == ASSUME NoneIsApart, IInv, Stopped PROVE IInv'
<1>1. /\ pc[Stopper] = "closing" /\ lock' = None
      /\ pc' = [pc EXCEPT ![Stopper] = "done"]
      /\ mine' = [mine EXCEPT ![Stopper] = None] /\ call' = FailTurns(call)
      /\ UNCHANGED <<current, ready, stopping, cut, proc, exit>>
  BY DEF Stopped
<1>2. CallsStay /\ \A c \in Calls : ~Waits(c)'
  BY <1>1, FailedTurns
<1>3. /\ mine[Stopper] \in Transports /\ lock = Stopper
      /\ \A b \in Actors : b # Stopper => mine[b] = None /\ ~Starts(b)
  BY <1>1, OneIsBusy DEF IInv, LockHolds, Actors
<1>4. TypeOK' /\ Places' /\ WaitsInTurn'
  BY <1>1, <1>2, StayingCalls
  DEF IInv, TypeOK, Places, CallsStay, Actors, Starter, Restart, Stopper, Starting
<1>5. LockHolds' /\ StartsAlone'
  BY <1>1, <1>3 DEF IInv, TypeOK, LockHolds, StartsAlone, Starts, Starting, Actors,
      Starter, Restart, Stopper, NoneIsApart
<1>6. CurrentServes' /\ ReadyIsInitialized' /\ NoWaiterIsStranded'
  BY <1>1, <1>2, <1>3 DEF IInv, TypeOK, Places, CurrentServes, ReadyIsInitialized,
      NoWaiterIsStranded, Up
<1> QED
  BY <1>2, <1>4, <1>5, <1>6 DEF IInv

-----------------------------------------------------------------------------
(* The transport's process *)

LEMMA ProcessExitsInv ==
    ASSUME NoneIsApart, IInv, NEW t \in Transports, ProcessExits(t)
    PROVE  IInv'
<1>1. /\ proc[t] = "up" /\ proc' = [proc EXCEPT ![t] = "dying"]
      /\ call' = FailPending(t, call)
      /\ UNCHANGED <<current, ready, stopping, lock, pc, mine, cut, exit>>
  BY DEF ProcessExits, lifecycle
<1>2. CallsStay
  BY <1>1, FailedPending
<1>3. /\ proc' \in [Transports -> {"absent", "up", "dying", "stopping"}]
      /\ proc'[t] = "dying" /\ \A u \in Transports \ {t} : proc'[u] = proc[u]
  BY <1>1 DEF IInv, TypeOK
<1>4. TypeOK' /\ Places' /\ WaitsInTurn'
  BY <1>1, <1>2, <1>3, StayingCalls DEF IInv, TypeOK, Places, CallsStay
<1>5. LockHolds' /\ StartsAlone'
  BY <1>1, <1>2, <1>3, OneIsBusy DEF IInv, TypeOK, LockHolds, StartsAlone, Starts, Starting,
      CallsStay
<1>6. CurrentServes' /\ ReadyIsInitialized'
  BY <1>1, <1>3 DEF IInv, TypeOK, CurrentServes, ReadyIsInitialized, Up
<1>7. NoWaiterIsStranded'
  BY <1>1, <1>2, <1>3 DEF IInv, TypeOK, Call, NoWaiterIsStranded, WaitsInTurn, CallsStay
<1> QED
  BY <1>1, <1>2, <1>4, <1>5, <1>6, <1>7 DEF IInv, CallsStay

LEMMA CleanedUpInv ==
    ASSUME NoneIsApart, IInv, NEW t \in Transports, CleanedUp(t)
    PROVE  IInv'
<1>1. /\ proc[t] \in {"dying", "stopping"} /\ proc' = [proc EXCEPT ![t] = "absent"]
      /\ exit' = IF proc[t] = "dying" THEN [exit EXCEPT ![t] = "scheduled"] ELSE exit
      /\ call' = [c \in Calls |-> IF call[c].on = t
                                  THEN [call[c] EXCEPT !.note = "none"] ELSE call[c]]
      /\ UNCHANGED <<current, ready, stopping, lock, pc, mine, cut>>
  BY DEF CleanedUp, lifecycle
<1>2. CallsStay
  <2>1. ASSUME NEW c \in Calls
        PROVE  /\ call'[c] \in Call
               /\ call'[c].phase = call[c].phase /\ call'[c].on = call[c].on
               /\ call'[c].future = call[c].future
               /\ call[c].on # t => call'[c] = call[c]
    <3> DEFINE silent == [call[c] EXCEPT !.note = "none"]
    <3>1. call[c] \in Call
      BY DEF IInv, TypeOK
    <3>2. /\ silent \in Call /\ silent.phase = call[c].phase
          /\ silent.on = call[c].on /\ silent.future = call[c].future
      BY <3>1 DEF Call
    <3>3. call'[c] = IF call[c].on = t THEN silent ELSE call[c]
      BY <1>1
    <3> HIDE DEF silent
    <3> QED
      BY <3>1, <3>2, <3>3
  <2>2. \A c \in Calls : call[c].phase = "idle" => call[c].on # t
    BY DEF IInv, WaitsInTurn, Fresh, NoneIsApart
  <2>3. call' \in [Calls -> Call]
    BY <1>1, <2>1
  <2> QED
    BY <2>1, <2>2, <2>3 DEF CallsStay, Waits
<1>3. /\ proc' \in [Transports -> {"absent", "up", "dying", "stopping"}]
      /\ proc'[t] = "absent" /\ \A u \in Transports \ {t} : proc'[u] = proc[u]
  BY <1>1 DEF IInv, TypeOK
<1>4. /\ exit' \in [Transports -> {"none", "scheduled", "closing"}]
      /\ exit[t] = "none"
      /\ exit'[t] = IF proc[t] = "dying" THEN "scheduled" ELSE "none"
      /\ \A u \in Transports \ {t} : exit'[u] = exit[u]
  BY <1>1 DEF IInv, TypeOK, CurrentServes
<1>5. TypeOK' /\ Places' /\ WaitsInTurn'
  BY <1>1, <1>2, <1>3, <1>4, StayingCalls DEF IInv, TypeOK, Places, CallsStay
<1>6. LockHolds'
  BY <1>1 DEF IInv, LockHolds
<1>7. StartsAlone'
  BY <1>1, <1>2, <1>3, <1>4, OneIsBusy DEF IInv, TypeOK, LockHolds, StartsAlone, Starts,
      Starting, CallsStay
<1>8. CurrentServes' /\ ReadyIsInitialized'
  BY <1>1, <1>3, <1>4 DEF IInv, TypeOK, CurrentServes, ReadyIsInitialized, Up
<1>9. NoWaiterIsStranded'
  BY <1>1, <1>2, <1>3, <1>4 DEF IInv, TypeOK, Call, NoWaiterIsStranded, WaitsInTurn, CallsStay
<1> QED
  BY <1>1, <1>2, <1>5, <1>6, <1>7, <1>8, <1>9 DEF IInv, CallsStay

LEMMA HandleExitInv ==
    ASSUME NoneIsApart, IInv, NEW t \in Transports, HandleExit(t)
    PROVE  IInv'
<1>1. /\ exit[t] = "scheduled" /\ proc[t] = "absent"
      /\ UNCHANGED <<stopping, lock, pc, mine, cut, proc>>
  BY DEF HandleExit, lifecycle, IInv, CurrentServes
<1>2. CASE /\ current = t /\ current' = None /\ ready' = FALSE
           /\ call' = FailTurns(call) /\ exit' = [exit EXCEPT ![t] = "closing"]
  <2>1. CallsStay /\ \A c \in Calls : ~Waits(c)'
    BY <1>2, FailedTurns
  <2>2. /\ exit' \in [Transports -> {"none", "scheduled", "closing"}]
        /\ \A u \in Transports : exit'[u] # "none" => exit[u] # "none"
    BY <1>1, <1>2 DEF IInv, TypeOK
  <2>3. TypeOK' /\ WaitsInTurn'
    BY <1>1, <1>2, <2>1, <2>2, StayingCalls DEF IInv, TypeOK, CallsStay
  <2>4. Places' /\ LockHolds'
    BY <1>1, <1>2, <2>1 DEF IInv, TypeOK, Places, LockHolds, CallsStay
  <2>5. StartsAlone'
    BY <1>1, <1>2, <2>1, <2>2 DEF IInv, StartsAlone, Starts, CallsStay, NoneIsApart
  <2>6. CurrentServes' /\ ReadyIsInitialized' /\ NoWaiterIsStranded'
    BY <1>1, <1>2, <2>1, <2>2 DEF IInv, CurrentServes, ReadyIsInitialized,
        NoWaiterIsStranded, Up
  <2> QED
    BY <2>1, <2>3, <2>4, <2>5, <2>6 DEF IInv
<1>3. CASE /\ current # t /\ exit' = [exit EXCEPT ![t] = "none"]
           /\ UNCHANGED <<current, ready, call>>
  <2>1. /\ exit' \in [Transports -> {"none", "scheduled", "closing"}]
        /\ \A u \in Transports : exit'[u] \in {exit[u], "none"} /\ (u # t => exit'[u] = exit[u])
    BY <1>3 DEF IInv, TypeOK
  <2>2. TypeOK' /\ WaitsInTurn'
    BY <1>1, <1>3, <2>1, SameCalls, StayingCalls DEF IInv, TypeOK
  <2>3. Places' /\ LockHolds'
    BY <1>1, <1>3, <2>1 DEF IInv, Places, LockHolds
  <2>4. StartsAlone'
    BY <1>1, <1>3, <2>1, OneIsBusy DEF IInv, LockHolds, StartsAlone, Starts, Starting
  <2>5. CurrentServes' /\ ReadyIsInitialized'
    BY <1>1, <1>3, <2>1 DEF IInv, TypeOK, CurrentServes, ReadyIsInitialized, Up
  <2>6. NoWaiterIsStranded'
    BY <1>1, <1>3, <2>1 DEF IInv, TypeOK, Call, NoWaiterIsStranded, WaitsInTurn, Waits
  <2> QED
    BY <1>1, <1>3, <2>2, <2>3, <2>4, <2>5, <2>6 DEF IInv, Waits
<1> QED
  BY <1>2, <1>3 DEF HandleExit

LEMMA ScheduleRestartInv ==
    ASSUME NoneIsApart, IInv, NEW t \in Transports, ScheduleRestart(t)
    PROVE  IInv'
<1>1. /\ exit[t] = "closing" /\ exit' = [exit EXCEPT ![t] = "none"]
      /\ UNCHANGED <<current, ready, stopping, lock, mine, cut, proc, call>>
      /\ pc' = IF ~stopping /\ pc[Restart] = "off" THEN [pc EXCEPT ![Restart] = "sleep"] ELSE pc
  BY DEF ScheduleRestart, Scheduled
<1>2. current = None /\ ~ready
  BY <1>1 DEF IInv, CurrentServes, ReadyIsInitialized
<1>3. /\ exit' \in [Transports -> {"none", "scheduled", "closing"}]
      /\ \A u \in Transports : exit'[u] \in {exit[u], "none"}
  BY <1>1 DEF IInv, TypeOK
<1>4. /\ pc' \in [Actors -> {"off", "validate", "sleep", "launch",
                             "initialize", "undo", "join", "closing", "done"}]
      /\ pc'[Starter] = pc[Starter] /\ pc'[Stopper] = pc[Stopper]
      /\ pc'[Restart] \in {pc[Restart], "sleep"}
      /\ pc'[Restart] # pc[Restart] => ~stopping /\ pc[Restart] = "off"
  BY <1>1 DEF IInv, TypeOK, Actors, Starter, Restart, Stopper
<1>5. TypeOK' /\ WaitsInTurn'
  BY <1>1, <1>2, <1>3, <1>4, SameCalls, StayingCalls DEF IInv, TypeOK
<1>6. Places'
  BY <1>1, <1>3, <1>4 DEF IInv, Places, Starting
<1>7. LockHolds' /\ StartsAlone'
  BY <1>1, <1>2, <1>3, <1>4 DEF IInv, LockHolds, StartsAlone, Starts, Starting, Actors,
      NoneIsApart
<1>8. CurrentServes' /\ ReadyIsInitialized'
  BY <1>1, <1>2, <1>3 DEF IInv, CurrentServes, ReadyIsInitialized, Up
<1>9. NoWaiterIsStranded'
  BY <1>1, <1>2, <1>4 DEF IInv, NoWaiterIsStranded, WaitsInTurn, Waits
<1> QED
  BY <1>1, <1>4, <1>5, <1>6, <1>7, <1>8, <1>9 DEF IInv, Waits
-----------------------------------------------------------------------------
(* Calls *)

\* What a step may do to the record of a call: a call that begins is let in while
\* the gateway is ready, one takes the transport there is while it is ready or
\* was accepted then, and one begins to wait on a transport that is up.
Allowed(old, new) ==
    /\ new \in Call
    /\ new.phase # "idle"
    /\ old.phase = "idle" => ready
    /\ old.phase = "done" => new.phase = "done"
    /\ new.phase = "accepted" => old.phase = "accepted" \/ ready
    /\ new.on # old.on => old.phase = "accepted" \/ ready
    /\ new.future # "none" => new.phase \in {"turn", "awaiting", "interrupting"}
    /\ old.future \in {"answer", "error", "lost"} => new.future \in {old.future, "none"}
    /\ new.future = "open" =>
          /\ new.on # None
          /\ (old.future = "open" /\ new.on = old.on) \/ Up(new.on)

LEMMA CallInv ==
    ASSUME NoneIsApart, IInv, NEW c \in Calls, NEW r, Set(c, r), Allowed(call[c], r),
           ready' = ready \/ ready' = FALSE
    PROVE  IInv' /\ Kept
<1>1. /\ call' \in [Calls -> Call] /\ call'[c] = r
      /\ \A d \in Calls \ {c} : call'[d] = call[d]
      /\ UNCHANGED <<current, stopping, lock, pc, mine, cut, proc, exit>>
  BY DEF Set, lifecycle, IInv, TypeOK, Allowed
<1>0. ready' \in BOOLEAN /\ (ready' => ready)
  <2>1. ready \in BOOLEAN
    BY DEF IInv, TypeOK
  <2>2. CASE ready' = ready
    BY <2>1, <2>2
  <2>3. CASE ready' = FALSE
    BY <2>3
  <2> QED
    BY <2>2, <2>3
<1>2. \A a \in Actors : Starts(a) => ~ready /\ call[c].phase # "accepted"
  BY NotReady DEF IInv, StartsAlone
<1>3. TypeOK'
  BY <1>0, <1>1 DEF IInv, TypeOK
<1>4. Places'
  BY <1>1 DEF IInv, Places, ReadyIsInitialized, Allowed
<1>5. LockHolds'
  BY <1>1 DEF IInv, LockHolds
<1>6. StartsAlone'
  <2>1. ASSUME NEW a \in Actors, Starts(a)
        PROVE  \A d \in Calls : /\ call'[d].phase # "accepted"
                                /\ call'[d].on = mine[a] => call'[d].phase = "done"
    BY <1>1, <1>2, <2>1 DEF IInv, StartsAlone, Allowed
  <2> QED
    BY <1>1, <2>1 DEF IInv, StartsAlone, Starts
<1>7. CurrentServes' /\ ReadyIsInitialized'
  BY <1>0, <1>1 DEF IInv, CurrentServes, ReadyIsInitialized, Up
<1>8. WaitsInTurn'
  BY <1>1 DEF IInv, WaitsInTurn, Waits, Allowed
<1>9. NoWaiterIsStranded'
  BY <1>1 DEF IInv, NoWaiterIsStranded, Waits, Allowed, CurrentServes, Up, TypeOK, Call
<1>10. pc'[Stopper] = "done" => \A d \in Calls : ~Waits(d)'
  <2>1. pc[Stopper] = "done" => \A t \in Transports : ~Up(t)
    BY DEF IInv, Places, CurrentServes, Up
  <2> QED
    BY <1>1, <2>1 DEF IInv, Waits, Allowed, Up, Call
<1>11. Kept
  BY <1>1 DEF Kept, Allowed
<1> QED
  BY <1>3, <1>4, <1>5, <1>6, <1>7, <1>8, <1>9, <1>10, <1>11 DEF IInv

\* The records the steps of a call write.
LEMMA FinishedIs ==
    ASSUME NEW r \in Call, NEW outcome \in {"answer", "failure", "timeout"}
    PROVE  /\ Finished(r, outcome) \in Call
           /\ Finished(r, outcome).phase = "done" /\ Finished(r, outcome).on = r.on
           /\ Finished(r, outcome).future = "none"
BY DEF Finished, Call

LEMMA AskedIs ==
    ASSUME NEW r \in Call, NEW phase \in {"config", "thread", "turn", "interrupting"}
    PROVE  /\ Asked(r, phase) \in Call /\ Asked(r, phase).on = r.on
           /\ \/ /\ Up(r.on) /\ Asked(r, phase).phase = phase
                 /\ Asked(r, phase).future = r.future
              \/ ~Up(r.on) /\ Asked(r, phase).phase = "done" /\ Asked(r, phase).future = "none"
<1>1. CASE Up(r.on)
  BY <1>1 DEF Asked, Call
<1>2. CASE ~Up(r.on)
  BY <1>2, FinishedIs DEF Asked
<1> QED
  BY <1>1, <1>2

LEMMA KnownCall ==
    ASSUME IInv, NEW c \in Calls
    PROVE  /\ call[c] \in Call /\ ready \in BOOLEAN
           /\ call[c].phase = "idle" => call[c] = Fresh
           /\ call[c].future # "none" =>
                 call[c].phase \in {"turn", "awaiting", "interrupting"}
           /\ Waits(c) => call[c].on # None
BY DEF IInv, TypeOK, WaitsInTurn

\* A call that ends, in whatever way, is allowed to.
LEMMA EndsInv ==
    ASSUME NoneIsApart, IInv, NEW c \in Calls, call[c].phase # "idle" \/ ready,
           NEW outcome \in {"answer", "failure", "timeout"},
           Set(c, Finished(call[c], outcome)), UNCHANGED ready
    PROVE  IInv' /\ Kept
<1> DEFINE r == Finished(call[c], outcome)
<1>1. Allowed(call[c], r)
  BY KnownCall, FinishedIs DEF Allowed
<1>2. Set(c, r) /\ ready' = ready
  BY KnownCall
<1> HIDE DEF r
<1> QED
  BY <1>1, <1>2, CallInv

\* A request of a call that goes on on the transport it has, or ends.
LEMMA AsksInv ==
    ASSUME NoneIsApart, IInv, NEW c \in Calls, call[c].phase # "idle" /\ call[c].phase # "done",
           NEW phase \in {"config", "thread"}, call[c].phase \notin {"turn", "awaiting", "interrupting"},
           Set(c, Asked(call[c], phase)), UNCHANGED ready
    PROVE  IInv' /\ Kept
<1> DEFINE r == Asked(call[c], phase)
<1>1. Allowed(call[c], r)
  BY KnownCall, AskedIs DEF Allowed, Waits
<1>2. Set(c, r) /\ ready' = ready
  BY KnownCall
<1> HIDE DEF r
<1> QED
  BY <1>1, <1>2, CallInv

LEMMA TakeTransportInv ==
    ASSUME NoneIsApart, IInv, NEW c \in Calls, TakeTransport(c), UNCHANGED ready,
           \/ call[c].phase = "idle" /\ ready
           \/ call[c].phase = "accepted"
    PROVE  IInv' /\ Kept
<1>1. CASE Set(c, Finished(call[c], "failure"))
  BY <1>1, EndsInv
<1>2. CASE /\ current # None
           /\ \E phase \in {"config", "thread"} :
                 Set(c, Asked([call[c] EXCEPT !.on = current], phase))
  <2> DEFINE onIt == [call[c] EXCEPT !.on = current]
  <2>1. PICK phase \in {"config", "thread"} : Set(c, Asked(onIt, phase))
    BY <1>2
  <2>2. current \in Transports /\ call[c] \in Call
    BY <1>2, KnownCall DEF IInv, TypeOK
  <2>3. onIt \in Call /\ onIt.on = current /\ onIt.future = call[c].future
    BY <2>2 DEF Call
  <2>4. call[c].future = "none"
    BY KnownCall
  <2> HIDE DEF onIt
  <2> DEFINE r == Asked(onIt, phase)
  <2>5. Allowed(call[c], r)
    BY <2>3, <2>4, AskedIs DEF Allowed
  <2>6. Set(c, r) /\ ready' = ready
    BY <2>1, KnownCall
  <2> HIDE DEF r
  <2> QED
    BY <2>5, <2>6, CallInv
<1> QED
  BY <1>1, <1>2 DEF TakeTransport

LEMMA CompleteInv ==
    ASSUME NoneIsApart, IInv, NEW c \in Calls, Complete(c)
    PROVE  IInv' /\ Kept
<1>1. call[c].phase = "idle" /\ ready /\ UNCHANGED ready
  BY DEF Complete
<1>2. CASE Timeouts
  <2> DEFINE r == [call[c] EXCEPT !.phase = "accepted"]
  <2>1. r \in Call /\ r.phase = "accepted" /\ r.on = call[c].on /\ r.future = call[c].future
    BY KnownCall DEF Call
  <2>2. Set(c, r)
    BY <1>2 DEF Complete
  <2> HIDE DEF r
  <2>3. Allowed(call[c], r)
    BY <1>1, <2>1, KnownCall DEF Allowed, Waits
  <2> QED
    BY <1>1, <2>2, <2>3, KnownCall, CallInv
<1>3. CASE ~Timeouts
  BY <1>1, <1>3, TakeTransportInv DEF Complete
<1> QED
  BY <1>2, <1>3

LEMMA RunTurnInv ==
    ASSUME NoneIsApart, IInv, NEW c \in Calls, RunTurn(c)
    PROVE  IInv' /\ Kept
BY TakeTransportInv DEF RunTurn

LEMMA ResumeInv ==
    ASSUME NoneIsApart, IInv, NEW c \in Calls, Resume(c)
    PROVE  IInv' /\ Kept
<1>1. call[c].phase \in {"config", "thread", "turn"} /\ UNCHANGED ready /\ call[c] \in Call
  BY KnownCall DEF Resume
<1>2. CASE Set(c, Finished(call[c], "failure"))
  BY <1>1, <1>2, EndsInv
<1>3. CASE call[c].phase = "config" /\ Set(c, Asked(call[c], "thread"))
  BY <1>1, <1>3, AsksInv
<1>4. CASE call[c].phase = "thread" /\ StartTurn(c)
  <2> DEFINE waiting == [call[c] EXCEPT !.future = "open"]
             asked == Asked(waiting, "turn")
             r == IF asked.phase = "turn" THEN [asked EXCEPT !.served = "asked"] ELSE asked
  <2>1. waiting \in Call /\ waiting.on = call[c].on /\ waiting.future = "open"
    BY <1>1 DEF Call
  <2>2. Set(c, r)
    BY <1>4 DEF StartTurn
  <2> HIDE DEF waiting
  <2>3. /\ asked \in Call /\ asked.on = call[c].on
        /\ \/ Up(call[c].on) /\ asked.phase = "turn" /\ asked.future = "open"
           \/ asked.phase = "done" /\ asked.future = "none"
    BY <2>1, AskedIs
  <2> HIDE DEF asked
  <2>4. r \in Call /\ r.phase = asked.phase /\ r.on = asked.on /\ r.future = asked.future
    BY <2>3 DEF Call
  <2> HIDE DEF r
  <2>5. Allowed(call[c], r)
    BY <1>1, <1>4, <2>3, <2>4, KnownCall DEF Allowed, Up
  <2> QED
    BY <1>1, <2>2, <2>5, KnownCall, CallInv
<1>5. CASE /\ call[c].phase = "turn"
           /\ Set(c, [call[c] EXCEPT !.phase = "awaiting", !.reply = "none"])
  <2> DEFINE r == [call[c] EXCEPT !.phase = "awaiting", !.reply = "none"]
  <2>1. r \in Call /\ r.phase = "awaiting" /\ r.on = call[c].on /\ r.future = call[c].future
    BY <1>1 DEF Call
  <2>2. Set(c, r)
    BY <1>5
  <2> HIDE DEF r
  <2>3. Allowed(call[c], r)
    BY <1>1, <2>1, KnownCall DEF Allowed, Waits
  <2> QED
    BY <1>1, <2>2, <2>3, KnownCall, CallInv
<1> QED
  BY <1>2, <1>3, <1>4, <1>5 DEF Resume

LEMMA ReturnInv ==
    ASSUME NoneIsApart, IInv, NEW c \in Calls, Return(c)
    PROVE  IInv' /\ Kept
<1> DEFINE outcome == IF call[c].future = "answer" THEN "answer" ELSE "failure"
<1>1. /\ call[c].phase = "awaiting" /\ Set(c, Finished(call[c], outcome)) /\ UNCHANGED ready
      /\ outcome \in {"answer", "failure", "timeout"}
  BY DEF Return
<1> HIDE DEF outcome
<1> QED
  BY <1>1, EndsInv

LEMMA InterruptedInv ==
    ASSUME NoneIsApart, IInv, NEW c \in Calls, Interrupted(c)
    PROVE  IInv' /\ Kept
BY EndsInv DEF Interrupted

LEMMA TimesOutInv ==
    ASSUME NoneIsApart, IInv, NEW c \in Calls, TimesOut(c)
    PROVE  IInv' /\ Kept
<1>1. UNCHANGED ready /\ call[c] \in Call
  BY KnownCall DEF TimesOut
<1>2. CASE /\ call[c].phase \in {"accepted", "config", "thread", "turn"}
           /\ Set(c, Finished(call[c], "timeout"))
  BY <1>1, <1>2, EndsInv
<1>3. CASE call[c].phase = "awaiting"
  <2> DEFINE asked == Asked(call[c], "interrupting")
             late == [asked EXCEPT !.outcome = "timeout"]
             cancelled == [asked EXCEPT !.served = IF @ = "running" THEN "interrupted" ELSE @]
             r == IF asked.phase = "done" THEN late ELSE cancelled
  <2>1. Set(c, r)
    BY <1>3 DEF TimesOut
  <2>2. /\ asked \in Call /\ asked.on = call[c].on
        /\ \/ asked.phase = "interrupting" /\ asked.future = call[c].future
           \/ asked.phase = "done" /\ asked.future = "none"
    BY <1>1, AskedIs
  <2> HIDE DEF asked
  <2>3. late \in Call /\ late.phase = asked.phase /\ late.on = asked.on /\ late.future = asked.future
    BY <2>2 DEF Call
  <2>4. /\ cancelled \in Call /\ cancelled.phase = asked.phase
        /\ cancelled.on = asked.on /\ cancelled.future = asked.future
    BY <2>2 DEF Call
  <2> HIDE DEF late, cancelled
  <2>5. r \in Call /\ r.phase = asked.phase /\ r.on = asked.on /\ r.future = asked.future
    BY <2>3, <2>4
  <2> HIDE DEF r
  <2>6. Allowed(call[c], r)
    BY <1>3, <2>2, <2>5, KnownCall DEF Allowed, Waits
  <2> QED
    BY <1>1, <2>1, <2>6, KnownCall, CallInv
<1> QED
  BY <1>2, <1>3 DEF TimesOut

LEMMA DispatchInv ==
    ASSUME NoneIsApart, IInv, NEW c \in Calls, Dispatch(c)
    PROVE  IInv' /\ Kept
<1> DEFINE taken == current = call[c].on /\ Waits(c)
           future == IF ~taken THEN call[c].future
                     ELSE IF call[c].note = "answer" THEN "answer" ELSE "error"
           r == [call[c] EXCEPT !.note = "none", !.future = future]
<1>0. call[c] \in Call /\ ready \in BOOLEAN
  BY KnownCall
<1>1. call[c].note # "none" /\ Set(c, r) /\ (ready' = ready \/ ready' = FALSE)
  <2>1. /\ call[c].note # "none" /\ Set(c, r)
        /\ ready' = (ready /\ ~(taken /\ call[c].note = "unauthorized"))
    BY DEF Dispatch
  <2> HIDE DEF taken, r
  <2>2. CASE taken /\ call[c].note = "unauthorized"
    BY <2>1, <2>2
  <2>3. CASE ~(taken /\ call[c].note = "unauthorized")
    BY <1>0, <2>1, <2>3
  <2> QED
    BY <2>1, <2>2, <2>3
<1>2. PICK f \in {"none", "open", "answer", "error", "lost"} :
         f = future /\ (f = "open" => call[c].future = "open")
  BY <1>0 DEF Call
<1>3. r \in Call /\ r.phase = call[c].phase /\ r.on = call[c].on /\ r.future = f
  <2> DEFINE new == [call[c] EXCEPT !.note = "none", !.future = f]
  <2>1. r = new
    BY <1>2
  <2>2. /\ new \in Call /\ new.phase = call[c].phase /\ new.on = call[c].on
        /\ new.future = f
    BY <1>0 DEF Call
  <2> HIDE DEF new, r
  <2> QED
    BY <2>1, <2>2
<1> HIDE DEF r
<1>4. call[c].phase # "idle"
  BY <1>1, KnownCall DEF Fresh
<1>5. Allowed(call[c], r)
  BY <1>0, <1>2, <1>3, <1>4, KnownCall DEF Allowed, Waits
<1> QED
  BY <1>1, <1>5, CallInv

\* What the app-server does is about calls that have begun, and lets nobody in.
LEMMA ServerInv ==
    ASSUME NoneIsApart, IInv, NEW c \in Calls, ServerStep(c)
    PROVE  IInv' /\ Kept
<1>1. PICK r : /\ Set(c, r) /\ UNCHANGED ready /\ call[c].phase # "idle"
               /\ r \in Call /\ r.phase = call[c].phase /\ r.on = call[c].on
               /\ r.future = call[c].future
  <2>1. call[c] \in Call /\ (call[c].phase = "idle" => call[c].reply = "none" /\ call[c].served = "none")
    BY KnownCall DEF Fresh
  <2>2. CASE Responds(c)
    <3>1. PICK reply \in {"ok", "failed"} : Set(c, [call[c] EXCEPT !.reply = reply])
      BY <2>2 DEF Responds
    <3>2. call[c].reply = "waiting" /\ UNCHANGED ready
      BY <2>2 DEF Responds
    <3> DEFINE r == [call[c] EXCEPT !.reply = reply]
    <3>3. r \in Call /\ r.phase = call[c].phase /\ r.on = call[c].on /\ r.future = call[c].future
      BY <2>1 DEF Call
    <3>4. Set(c, r)
      BY <3>1
    <3> HIDE DEF r
    <3> QED
      BY <2>1, <3>2, <3>3, <3>4
  <2>3. CASE RefusesTurn(c)
    <3> DEFINE r == [call[c] EXCEPT !.served = "none",
                                    !.reply = IF @ = "waiting" THEN "failed" ELSE @]
    <3>1. Set(c, r) /\ call[c].served = "asked" /\ UNCHANGED ready
      BY <2>3 DEF RefusesTurn
    <3>2. r \in Call /\ r.phase = call[c].phase /\ r.on = call[c].on /\ r.future = call[c].future
      BY <2>1 DEF Call
    <3> HIDE DEF r
    <3> QED
      BY <2>1, <3>1, <3>2
  <2>4. CASE TakesTurn(c)
    <3> DEFINE r == [call[c] EXCEPT !.served = "running"]
    <3>1. Set(c, r) /\ call[c].served = "asked" /\ UNCHANGED ready
      BY <2>4 DEF TakesTurn
    <3>2. r \in Call /\ r.phase = call[c].phase /\ r.on = call[c].on /\ r.future = call[c].future
      BY <2>1 DEF Call
    <3> HIDE DEF r
    <3> QED
      BY <2>1, <3>1, <3>2
  <2>5. CASE TurnCompletes(c)
    <3>1. PICK note \in {"answer", "error", "unauthorized"} :
             Set(c, [call[c] EXCEPT !.served = "none", !.note = note])
      BY <2>5 DEF TurnCompletes
    <3>2. call[c].served # "none" /\ UNCHANGED ready
      BY <2>5 DEF TurnCompletes
    <3> DEFINE r == [call[c] EXCEPT !.served = "none", !.note = note]
    <3>3. r \in Call /\ r.phase = call[c].phase /\ r.on = call[c].on /\ r.future = call[c].future
      BY <2>1 DEF Call
    <3>4. Set(c, r)
      BY <3>1
    <3> HIDE DEF r
    <3> QED
      BY <2>1, <3>2, <3>3, <3>4
  <2> QED
    BY <2>2, <2>3, <2>4, <2>5 DEF ServerStep
<1>2. Allowed(call[c], r)
  BY <1>1, KnownCall DEF Allowed, Waits
<1> QED
  BY <1>1, <1>2, KnownCall, CallInv

-----------------------------------------------------------------------------
(* Theorems *)

\* Exits and stops fail only the turns that are open.
LEMMA LifecycleKeeps ==
    ASSUME IInv,
           \/ call' = call
           \/ \E t \in Transports \cup {None} : call' = FailPending(t, call)
           \/ call' = FailTurns(call)
           \/ \E t \in Transports : CleanedUp(t)
    PROVE  Kept
<1>1. \A c \in Calls : call[c] \in Call
  BY DEF IInv, TypeOK
<1>2. CASE call' = call
  BY <1>2 DEF Kept
<1>3. ASSUME NEW t \in Transports \cup {None}, call' = FailPending(t, call) PROVE Kept
  <2>1. ASSUME NEW c \in Calls PROVE call'[c].future = call[c].future
    BY <1>1, <1>3 DEF FailPending, Call
  <2> QED
    BY <2>1 DEF Kept
<1>4. CASE call' = FailTurns(call)
  BY <1>1, <1>4 DEF FailTurns, Call, Kept
<1>5. ASSUME NEW t \in Transports, CleanedUp(t) PROVE Kept
  <2>1. ASSUME NEW c \in Calls PROVE call'[c].future = call[c].future
    BY <1>1, <1>5 DEF CleanedUp, Call
  <2> QED
    BY <2>1 DEF Kept
<1> QED
  BY <1>2, <1>3, <1>4, <1>5

LEMMA NextKeeps == ASSUME NoneIsApart, IInv, [Next]_vars PROVE Kept
<1>1. CASE UNCHANGED vars
  BY <1>1, LifecycleKeeps DEF vars
<1>2. CASE StarterStep
  BY <1>2, LifecycleKeeps DEF StarterStep, Start, ValidationFails, Validated, StartTransport
<1>3. ASSUME NEW a \in {Starter, Restart}, TransportStep(a) PROVE Kept
  <2>1. mine[a] \in Transports \cup {None}
    BY DEF IInv, TypeOK, Actors
  <2> QED
    BY <1>3, <2>1, LifecycleKeeps DEF TransportStep, Launch, Initialized, StartFails, NotStarted
<1>4. CASE RestartWakes \/ StopStep
  <2>1. mine[Restart] \in Transports \cup {None} /\ current \in Transports \cup {None}
    BY DEF IInv, TypeOK, Actors
  <2> QED
    BY <1>4, <2>1, LifecycleKeeps
    DEF RestartWakes, StartTransport, StopStep, Stop, StopTransport, Stopped
<1>5. ASSUME NEW t \in Transports, ProcessStep(t) PROVE Kept
  BY <1>5, LifecycleKeeps DEF ProcessStep, ProcessExits, HandleExit, ScheduleRestart
<1>6. ASSUME NEW c \in Calls, CallStep(c) PROVE Kept
  BY <1>6, CompleteInv, RunTurnInv, ResumeInv, ReturnInv, TimesOutInv, InterruptedInv,
     DispatchInv DEF CallStep
<1>7. ASSUME NEW c \in Calls, ServerStep(c) PROVE Kept
  BY <1>7, ServerInv
<1> QED
  BY <1>1, <1>2, <1>3, <1>4, <1>5, <1>6, <1>7 DEF Next

LEMMA NextInv == ASSUME NoneIsApart, IInv, [Next]_vars PROVE IInv'
<1>1. CASE UNCHANGED vars
  BY <1>1 DEF vars, lifecycle, IInv, TypeOK, Places, LockHolds, StartsAlone, Starts,
      CurrentServes, WaitsInTurn, ReadyIsInitialized, NoWaiterIsStranded, Up, Waits
<1>2. CASE StarterStep
  BY <1>2, StartInv, ValidationFailsInv, ValidatedInv DEF StarterStep
<1>3. ASSUME NEW a \in {Starter, Restart}, TransportStep(a) PROVE IInv'
  BY <1>3, LaunchInv, InitializedInv, StartFailsInv, NotStartedInv DEF TransportStep
<1>4. CASE RestartWakes \/ StopStep
  BY <1>4, RestartWakesInv, StopInv, StopTransportInv, StoppedInv DEF StopStep
<1>5. ASSUME NEW t \in Transports, ProcessStep(t) PROVE IInv'
  BY <1>5, ProcessExitsInv, CleanedUpInv, HandleExitInv, ScheduleRestartInv DEF ProcessStep
<1>6. ASSUME NEW c \in Calls, CallStep(c) PROVE IInv'
  BY <1>6, CompleteInv, RunTurnInv, ResumeInv, ReturnInv, TimesOutInv, InterruptedInv,
     DispatchInv DEF CallStep
<1>7. ASSUME NEW c \in Calls, ServerStep(c) PROVE IInv'
  BY <1>7, ServerInv
<1> QED
  BY <1>1, <1>2, <1>3, <1>4, <1>5, <1>6, <1>7 DEF Next

\* At every time at most one app-server is left to run, the gateway reports ready
\* with the initialized transport only, and a stopped one has left nothing behind:
\* whatever start(), the restart loop, stop() and the exits do to each other.
THEOREM Supervision == ASSUME NoneIsApart PROVE Spec => []ReadyOrQuiet
<1>1. IInv => ReadyOrQuiet
  <2>1. IInv => OneServer
    BY DEF IInv, CurrentServes, OneServer
  <2>2. IInv => StoppedIsQuiet
    BY DEF IInv, Places, LockHolds, CurrentServes, ReadyIsInitialized, StoppedIsQuiet,
           Starting, Up, Actors, Starter, Restart, Stopper, NoneIsApart, TypeOK
  <2> QED
    BY <2>1, <2>2 DEF IInv, ReadyOrQuiet
<1> QED
  BY <1>1, InitInv, NextInv, PTL DEF Spec

\* Whoever waits for a turn has somebody left to answer or to fail it.
THEOREM Waiters == ASSUME NoneIsApart PROVE Spec => []NoWaiterIsStranded
<1>1. IInv => NoWaiterIsStranded
  BY DEF IInv
<1> QED
  BY <1>1, InitInv, NextInv, PTL DEF Spec

\* What a caller is to get is decided once: the failure of an exit or of stop()
\* never takes the place of an answer that has arrived.
THEOREM Outcomes == ASSUME NoneIsApart PROVE Spec => OutcomeIsKept
<1>1. IInv /\ [Next]_vars =>
         [\A c \in Calls : call[c].future \in {"answer", "error", "lost"} =>
              call'[c].future \in {call[c].future, "none"}]_vars
  BY NextKeeps DEF Kept
<1> QED
  BY <1>1, InitInv, NextInv, PTL DEF Spec, OutcomeIsKept

-----------------------------------------------------------------------------
(* The names of instruments *)

\* A row that bears a name says whose it is, one that SEC was asked about says what
\* came of it, and a name of SEC was given to a filer on the row's exchange.
NamedRow(r) ==
    /\ r.status = "unresolved" => r.name = None /\ r.retry # "none"
    /\ r.by = "sec_edgar" /\ r.status = "resolved" => r.name # None /\ r.refresh # "none"
    /\ r.by = "sec_edgar" => r.status # "none"
    /\ r.name # None => r.by # "nobody"
    /\ r.by = "sec_edgar" /\ r.name # None =>
          \E f \in Names!Filers : f.name = r.name /\ f.exchange \in {None, r.exchange}

Pass == [pc : {"idle", "asking", "found"}, on : Instruments \cup {None},
         exchange : Exchanges \cup {f.exchange : f \in Names!Filers},
         found : SUBSET Names!Filers, failed : BOOLEAN]

Existing == {created[n] : n \in DOMAIN created}

\* An enricher is at work on an instrument that exists, with filers SEC has listed at
\* some time, and a row without its instrument has no name yet.
NamesInv ==
    /\ created \in Seq(Instruments)
    /\ row \in [Instruments -> Names!Row]
    /\ \A i \in Instruments : NamedRow(row[i])
    /\ \A i \in Instruments \ Existing : row[i].name = None
    /\ sec \in [Instruments -> Filings]
    /\ document \in [Instruments -> [filers : Filings \cup {None}, fresh : BOOLEAN]]
    /\ pass \in [Names!Enrichers -> Pass]
    /\ \A e \in Names!Enrichers : pass[e].pc # "idle" => pass[e].on \in Existing
    /\ changes \in 0 .. MaxChanges

\* What no enricher may do to a row, of which NamesAreReplacedOnly speaks.
Replaced(r, s) ==
    s.name # r.name =>
       /\ r.by = "sec_edgar" /\ r.name # None => s.name # None
       /\ r.name # None => r.name \in s.history

LEMMA NamesInvKeeps ==
    ASSUME NamesInv PROVE Names!TypeOK /\ Names!NamesAreVerified
<1>1. Names!TypeOK
  BY DEF NamesInv, NamedRow, Pass, Names!TypeOK
<1>2. Names!NamesAreVerified
  BY DEF NamesInv, NamedRow, Names!NamesAreVerified
<1> QED
  BY <1>1, <1>2

LEMMA NamesInit == ASSUME Names!Init PROVE NamesInv
<1> USE NamesAssumption
<1>1. created \in Seq(Instruments)
  <2>1. CASE created = <<>>
    BY <2>1
  <2>2. ASSUME NEW i \in Instruments, created = <<i>> PROVE created \in Seq(Instruments)
    BY <2>2
  <2> QED
    BY <2>1, <2>2 DEF Names!Init
<1>2. ASSUME NEW i \in Instruments PROVE row[i] \in Names!Row /\ NamedRow(row[i])
  <2> DEFINE old == Names!Created(i)
  <2>1. row[i] = [name |-> IF old THEN "eastmoney" ELSE None, exchange |-> None,
                  by |-> IF old THEN "eastmoney" ELSE "nobody",
                  status |-> IF old THEN "resolved" ELSE "none",
                  retry |-> "none", refresh |-> "none", history |-> {}]
    BY DEF Names!Init
  <2> HIDE DEF old
  <2>2. row[i] \in Names!Row
    BY <2>1 DEF Names!Row
  <2> QED
    BY <2>1, <2>2 DEF NamedRow
<1>3. row \in [Instruments -> Names!Row]
  BY <1>2 DEF Names!Init
<1>4. \A i \in Instruments \ Existing : row[i].name = None
  BY DEF Names!Init, Names!Created, Existing
<1>5. document \in [Instruments -> [filers : Filings \cup {None}, fresh : BOOLEAN]]
  BY DEF Names!Init
<1>6. pass \in [Names!Enrichers -> Pass] /\ \A e \in Names!Enrichers : pass[e].pc = "idle"
  BY DEF Names!Init, Pass, Names!Unasked
<1> QED
  BY <1>1, <1>2, <1>3, <1>4, <1>5, <1>6 DEF NamesInv, Names!Init

\* mark_resolved: the name of a filer on the exchange of the row.
LEMMA ResolvedRow ==
    ASSUME NEW r \in Names!Row, NamedRow(r), NEW f \in Names!Filers
    PROVE  /\ Names!Resolved(r, f) \in Names!Row
           /\ NamedRow(Names!Resolved(r, f)) /\ Replaced(r, Names!Resolved(r, f))
<1> DEFINE s == Names!Resolved(r, f)
<1>1. /\ s.name = f.name /\ s.by = "sec_edgar" /\ s.status = "resolved"
      /\ s.retry = "none" /\ s.refresh = "waiting"
      /\ s.exchange = IF f.exchange = None THEN r.exchange ELSE f.exchange
      /\ s.history = IF r.by # "nobody" /\ (r.name # f.name \/ r.by # "sec_edgar")
                     THEN r.history \cup {r.name} ELSE r.history
  BY DEF Names!Resolved, Names!Row, Names!Archived
<1>2. s \in Names!Row
  BY DEF Names!Resolved, Names!Row, Names!Archived
<1>3. f.name # None
  BY NamesAssumption
<1>4. NamedRow(s)
  BY <1>1, <1>3 DEF NamedRow
<1>5. Replaced(r, s)
  BY <1>1, <1>3 DEF NamedRow, Replaced
<1> QED
  BY <1>2, <1>4, <1>5

\* mark_unresolved: a name SEC gave stays.
LEMMA UnresolvedRow ==
    ASSUME NEW r \in Names!Row, NamedRow(r)
    PROVE  /\ Names!Unresolved(r) \in Names!Row
           /\ NamedRow(Names!Unresolved(r)) /\ Replaced(r, Names!Unresolved(r))
<1> DEFINE s == Names!Unresolved(r)
<1>1. CASE r.by = "sec_edgar" /\ r.status = "resolved" /\ r.name # None
  <2>1. s = [r EXCEPT !.retry = "waiting"]
    BY <1>1 DEF Names!Unresolved
  <2>2. s \in Names!Row
    BY <2>1 DEF Names!Row
  <2> QED
    BY <1>1, <2>1, <2>2 DEF NamedRow, Replaced, Names!Row
<1>2. CASE ~(r.by = "sec_edgar" /\ r.status = "resolved" /\ r.name # None)
  <2>1. /\ s.name = None /\ s.by = "sec_edgar" /\ s.status = "unresolved"
        /\ s.retry = "waiting"
        /\ s.history = IF r.by # "nobody" THEN r.history \cup {r.name} ELSE r.history
    BY <1>2 DEF Names!Unresolved, Names!Row, Names!Archived
  <2>2. s \in Names!Row
    BY <1>2 DEF Names!Unresolved, Names!Row, Names!Archived
  <2>3. r.by = "sec_edgar" => r.name = None
    BY <1>2 DEF NamedRow, Names!Row
  <2> QED
    BY <2>1, <2>2, <2>3 DEF NamedRow, Replaced
<1> QED
  BY <1>1, <1>2

\* One row of an instrument is written.
LEMMA RowWritten ==
    ASSUME NamesInv, NEW i \in Instruments, NEW s \in Names!Row,
           NamedRow(s), Replaced(row[i], s),
           row' = [row EXCEPT ![i] = s],
           i \in Existing \/ s.name = row[i].name, UNCHANGED created
    PROVE  /\ row' \in [Instruments -> Names!Row]
           /\ \A j \in Instruments : NamedRow(row'[j]) /\ Replaced(row[j], row'[j])
           /\ \A j \in Instruments \ Existing : row'[j].name = None
<1>1. row \in [Instruments -> Names!Row]
  BY DEF NamesInv
<1>2. row' \in [Instruments -> Names!Row]
  BY <1>1
<1>3. \A j \in Instruments : row'[j] = IF j = i THEN s ELSE row[j]
  BY <1>1
<1>4. \A j \in Instruments : NamedRow(row[j])
  BY DEF NamesInv
<1>5. \A j \in Instruments : NamedRow(row'[j])
  BY <1>3, <1>4
<1>6. \A j \in Instruments : Replaced(row[j], row'[j])
  BY <1>3 DEF Replaced
<1>7. \A j \in Instruments \ Existing : row'[j].name = None
  BY <1>3 DEF NamesInv
<1> QED
  BY <1>2, <1>5, <1>6, <1>7

\* What the enrichers leave alone in every step but MarkResolved and MarkUnresolved.
RowsAreKept ==
    \A i \in Instruments : Replaced(row[i], row'[i])

LEMMA GetOrCreateStep ==
    ASSUME NamesInv, NEW i \in Instruments, Names!GetOrCreateInstrument(i)
    PROVE  NamesInv' /\ RowsAreKept
<1>1. PICK x \in Exchanges : row' = [row EXCEPT ![i].exchange = x]
  BY DEF Names!GetOrCreateInstrument
<1>2. created' \in Seq(Instruments) /\ Existing \subseteq Existing'
  <2>1. CASE Names!Created(i)
    BY <2>1 DEF Names!GetOrCreateInstrument, NamesInv, Existing
  <2>2. CASE ~Names!Created(i)
    <3>1. created' = Append(created, i) /\ created \in Seq(Instruments)
      BY <2>2 DEF Names!GetOrCreateInstrument, NamesInv
    <3>2. \A n \in DOMAIN created : n \in DOMAIN created' /\ created'[n] = created[n]
      BY <3>1
    <3> QED
      BY <3>1, <3>2 DEF Existing
  <2> QED
    BY <2>1, <2>2
<1>3. row[i] \in Names!Row /\ NamedRow(row[i]) /\ (~Names!Created(i) => row[i].name = None)
  BY DEF NamesInv, Names!Created, Existing
<1> DEFINE s == [row[i] EXCEPT !.exchange = x]
<1>4. s \in Names!Row
  BY <1>3 DEF Names!Row
<1>5. /\ s.name = row[i].name /\ s.by = row[i].by /\ s.status = row[i].status
      /\ s.retry = row[i].retry /\ s.refresh = row[i].refresh
  BY <1>3 DEF Names!Row
<1>6. row[i].name # None => row[i].exchange = None
  BY <1>3 DEF Names!GetOrCreateInstrument
<1>7. NamedRow(s)
  BY <1>3, <1>5, <1>6 DEF NamedRow
<1>8. row' = [row EXCEPT ![i] = s]
  BY <1>1
<1> HIDE DEF s
<1>9. row' \in [Instruments -> Names!Row] /\ \A j \in Instruments : NamedRow(row'[j])
  BY <1>4, <1>7, <1>8 DEF NamesInv
<1>10. \A j \in Instruments : row'[j].name = row[j].name
  BY <1>5, <1>8 DEF NamesInv
<1>11. \A e \in Names!Enrichers : pass'[e].pc # "idle" => pass'[e].on \in Existing'
  BY <1>2 DEF NamesInv, Names!GetOrCreateInstrument
<1>12. RowsAreKept
  BY <1>10 DEF RowsAreKept, Replaced
<1> QED
  BY <1>2, <1>9, <1>10, <1>11, <1>12 DEF NamesInv, Names!GetOrCreateInstrument

LEMMA SecStep ==
    ASSUME NamesInv, NEW i \in Instruments, Names!SecChanges(i) \/ Names!CacheExpires(i)
    PROVE  NamesInv' /\ UNCHANGED row
<1> USE NamesAssumption
<1>1. UNCHANGED <<created, row, pass>>
  BY DEF Names!SecChanges, Names!CacheExpires
<1>2. sec' \in [Instruments -> Filings] /\ changes' \in 0 .. MaxChanges
  BY DEF Names!SecChanges, Names!CacheExpires, NamesInv
<1>3. document' \in [Instruments -> [filers : Filings \cup {None}, fresh : BOOLEAN]]
  BY DEF Names!SecChanges, Names!CacheExpires, NamesInv
<1> QED
  BY <1>1, <1>2, <1>3 DEF NamesInv, Existing

LEMMA TimeStep ==
    ASSUME NamesInv, NEW i \in Instruments, Names!RetryComes(i) \/ Names!RefreshComes(i)
    PROVE  NamesInv' /\ RowsAreKept
<1>1. PICK s : row' = [row EXCEPT ![i] = s] /\
               \/ row[i].retry = "waiting" /\ s = [row[i] EXCEPT !.retry = "passed"]
               \/ row[i].refresh = "waiting" /\ s = [row[i] EXCEPT !.refresh = "passed"]
  BY DEF Names!RetryComes, Names!RefreshComes, NamesInv
<1>2. row[i] \in Names!Row /\ NamedRow(row[i])
  BY DEF NamesInv
<1>3. s \in Names!Row
  BY <1>1, <1>2 DEF Names!Row
<1>4. s.name = row[i].name /\ NamedRow(s)
  BY <1>1, <1>2 DEF Names!Row, NamedRow
<1>5. Replaced(row[i], s)
  BY <1>4 DEF Replaced
<1>6. UNCHANGED <<created, sec, document, pass, changes>>
  BY DEF Names!RetryComes, Names!RefreshComes
<1>7. /\ row' \in [Instruments -> Names!Row]
      /\ \A j \in Instruments : NamedRow(row'[j]) /\ Replaced(row[j], row'[j])
      /\ \A j \in Instruments \ Existing : row'[j].name = None
  BY <1>1, <1>3, <1>4, <1>5, <1>6, RowWritten
<1> QED
  BY <1>6, <1>7 DEF NamesInv, RowsAreKept, Existing

\* next_due reads an instrument and the exchange it has.
LEMMA NextDueStep ==
    ASSUME NamesInv, NEW e \in Names!Enrichers, Names!NextDue(e)
    PROVE  NamesInv' /\ UNCHANGED row
<1>1. PICK n \in DOMAIN created :
         pass' = [pass EXCEPT ![e] = [Names!Unasked EXCEPT !.pc = "asking",
                                          !.on = created[n],
                                          !.exchange = row[created[n]].exchange]]
  BY DEF Names!NextDue
<1>2. UNCHANGED <<created, row, sec, document, changes>>
  BY DEF Names!NextDue
<1>3. created[n] \in Instruments /\ created[n] \in Existing
  BY DEF NamesInv, Existing
<1>4. row[created[n]].exchange \in Exchanges \cup {f.exchange : f \in Names!Filers}
  BY <1>3 DEF NamesInv, Names!Row
<1> DEFINE p == [Names!Unasked EXCEPT !.pc = "asking", !.on = created[n],
                                      !.exchange = row[created[n]].exchange]
<1>5. p \in Pass /\ p.on = created[n]
  BY <1>3, <1>4 DEF Pass, Names!Unasked
<1> HIDE DEF p
<1>6. pass' \in [Names!Enrichers -> Pass]
  BY <1>1, <1>5 DEF NamesInv, p
<1>7. \A d \in Names!Enrichers : pass'[d].pc # "idle" => pass'[d].on \in Existing'
  BY <1>1, <1>2, <1>3, <1>5 DEF NamesInv, p, Existing
<1> QED
  BY <1>2, <1>6, <1>7 DEF NamesInv, Existing

\* What a pass finds is what SEC lists or has listed.
LEMMA AskStep ==
    ASSUME NamesInv, NEW e \in Names!Enrichers, Names!Ask(e)
    PROVE  NamesInv' /\ UNCHANGED row
<1>1. UNCHANGED <<created, row, sec, changes>> /\ pass[e].pc = "asking"
  BY DEF Names!Ask, Names!FromCache, Names!FromSec, Names!FromNowhere
<1>2. pass[e] \in Pass /\ pass[e].on \in Instruments /\ pass[e].on \in Existing
  BY <1>1 DEF NamesInv, Existing
<1>3. \A filing \in Filings : filing \in SUBSET Names!Filers
  BY DEF Names!Filers
<1>4. PICK filers \in SUBSET Names!Filers, failed \in BOOLEAN :
         pass' = [pass EXCEPT ![e] = [pass[e] EXCEPT !.pc = "found", !.found = filers,
                                                     !.failed = failed]]
  <2>1. CASE Names!FromCache(e)
    <3>1. document[pass[e].on].filers \in Filings
      BY <2>1, <1>2 DEF NamesInv, Names!FromCache
    <3>2. pass' = [pass EXCEPT ![e] = [pass[e] EXCEPT !.pc = "found",
                       !.found = document[pass[e].on].filers, !.failed = pass[e].failed]]
      BY <2>1, <1>2 DEF NamesInv, Names!FromCache, Names!Finds, Pass
    <3>3. pass[e].failed \in BOOLEAN
      BY <1>2 DEF Pass
    <3> QED
      BY <3>1, <3>2, <3>3, <1>3
  <2>2. CASE Names!FromSec(e)
    <3>1. sec[pass[e].on] \in Filings
      BY <1>2 DEF NamesInv
    <3>2. pass' = [pass EXCEPT ![e] = [pass[e] EXCEPT !.pc = "found",
                       !.found = sec[pass[e].on], !.failed = pass[e].failed]]
      BY <2>2, <1>2 DEF NamesInv, Names!FromSec, Names!Finds, Pass
    <3>3. pass[e].failed \in BOOLEAN
      BY <1>2 DEF Pass
    <3> QED
      BY <3>1, <3>2, <3>3, <1>3
  <2>3. CASE Names!FromNowhere(e)
    <3>1. pass' = [pass EXCEPT ![e] = [pass[e] EXCEPT !.pc = "found",
                       !.found = pass[e].found, !.failed = TRUE]]
      BY <2>3, <1>2 DEF NamesInv, Names!FromNowhere, Pass
    <3>2. pass[e].found \in SUBSET Names!Filers
      BY <1>2 DEF Pass
    <3> QED
      BY <3>1, <3>2
  <2> QED
    BY <2>1, <2>2, <2>3 DEF Names!Ask
<1> DEFINE p == [pass[e] EXCEPT !.pc = "found", !.found = filers, !.failed = failed]
<1>5. p \in Pass /\ p.on = pass[e].on
  BY <1>2 DEF Pass
<1> HIDE DEF p
<1>6. pass' \in [Names!Enrichers -> Pass]
  BY <1>4, <1>5 DEF NamesInv, p
<1>7. \A d \in Names!Enrichers : pass'[d].pc # "idle" => pass'[d].on \in Existing'
  BY <1>1, <1>2, <1>4, <1>5 DEF NamesInv, p, Existing
<1>8. document' \in [Instruments -> [filers : Filings \cup {None}, fresh : BOOLEAN]]
  <2>1. CASE UNCHANGED document
    BY <2>1 DEF NamesInv
  <2>2. CASE document' = [document EXCEPT ![pass[e].on] =
                             [filers |-> sec[pass[e].on], fresh |-> TRUE]]
    <3>1. sec[pass[e].on] \in Filings
      BY <1>2 DEF NamesInv
    <3> QED
      BY <2>2, <3>1 DEF NamesInv
  <2> QED
    BY <2>1, <2>2 DEF Names!Ask, Names!FromCache, Names!FromSec, Names!FromNowhere
<1> QED
  BY <1>1, <1>6, <1>7, <1>8 DEF NamesInv, Existing

LEMMA PassEnds ==
    ASSUME NamesInv, NEW e \in Names!Enrichers, Names!Ends(e), UNCHANGED created
    PROVE  /\ pass' \in [Names!Enrichers -> Pass]
           /\ \A d \in Names!Enrichers : pass'[d].pc # "idle" => pass'[d].on \in Existing'
<1>1. Names!Unasked \in Pass /\ Names!Unasked.pc = "idle"
  BY NamesAssumption DEF Names!Unasked, Pass
<1>2. pass' = [pass EXCEPT ![e] = Names!Unasked]
  BY DEF Names!Ends
<1>3. Existing' = Existing
  BY DEF Existing
<1> QED
  BY <1>1, <1>2, <1>3 DEF NamesInv

LEMMA MarkStep ==
    ASSUME NamesInv, NEW e \in Names!Enrichers, Names!Mark(e)
    PROVE  NamesInv' /\ RowsAreKept
<1>1. UNCHANGED <<created, sec, document, changes>> /\ Names!Ends(e) /\ pass[e].pc = "found"
  BY DEF Names!Mark, Names!MarkResolved, Names!MarkUnresolved
<1> DEFINE i == pass[e].on
<1>2. pass[e] \in Pass /\ i \in Instruments /\ i \in Existing
  BY <1>1 DEF NamesInv, Existing
<1>3. row[i] \in Names!Row /\ NamedRow(row[i])
  BY <1>2 DEF NamesInv
<1>4. PICK s \in Names!Row :
         NamedRow(s) /\ Replaced(row[i], s) /\ row' = [row EXCEPT ![i] = s]
  <2>1. CASE Names!MarkResolved(e)
    <3>1. PICK f \in Names!Matches(e) : row' = [row EXCEPT ![i] = Names!Resolved(@, f)]
      BY <2>1 DEF Names!MarkResolved
    <3>2. f \in Names!Filers
      BY <1>2 DEF Names!Matches, Pass
    <3>3. row' = [row EXCEPT ![i] = Names!Resolved(row[i], f)]
      BY <3>1, <1>2 DEF NamesInv
    <3> QED
      BY <3>2, <3>3, <1>3, ResolvedRow
  <2>2. CASE Names!MarkUnresolved(e)
    <3>1. row' = [row EXCEPT ![i] = Names!Unresolved(row[i])]
      BY <2>2, <1>2 DEF NamesInv, Names!MarkUnresolved
    <3> QED
      BY <3>1, <1>3, UnresolvedRow
  <2> QED
    BY <2>1, <2>2 DEF Names!Mark
<1> HIDE DEF i
<1>5. /\ row' \in [Instruments -> Names!Row]
      /\ \A j \in Instruments : NamedRow(row'[j]) /\ Replaced(row[j], row'[j])
      /\ \A j \in Instruments \ Existing : row'[j].name = None
  BY <1>1, <1>2, <1>4, RowWritten
<1>6. /\ pass' \in [Names!Enrichers -> Pass]
      /\ \A d \in Names!Enrichers : pass'[d].pc # "idle" => pass'[d].on \in Existing'
  BY <1>1, PassEnds
<1> QED
  BY <1>1, <1>5, <1>6 DEF NamesInv, RowsAreKept, Existing

LEMMA PassFailsStep ==
    ASSUME NamesInv, NEW e \in Names!Enrichers, Names!PassFails(e)
    PROVE  NamesInv' /\ UNCHANGED row
<1>1. UNCHANGED <<created, row, sec, document, changes>> /\ Names!Ends(e)
  BY DEF Names!PassFails
<1> QED
  BY <1>1, PassEnds DEF NamesInv, Existing

LEMMA NamesStep ==
    ASSUME NamesInv, [Names!Next]_Names!vars PROVE NamesInv' /\ RowsAreKept
<1>1. UNCHANGED row => RowsAreKept
  BY DEF RowsAreKept, Replaced
<1>2. CASE UNCHANGED Names!vars
  BY <1>1, <1>2 DEF Names!vars, NamesInv, Existing
<1>3. ASSUME NEW i \in Instruments,
             \/ Names!GetOrCreateInstrument(i) \/ Names!SecChanges(i)
             \/ Names!CacheExpires(i) \/ Names!RetryComes(i) \/ Names!RefreshComes(i)
      PROVE  NamesInv' /\ RowsAreKept
  BY <1>1, <1>3, GetOrCreateStep, SecStep, TimeStep
<1>4. ASSUME NEW e \in Names!Enrichers,
             Names!NextDue(e) \/ Names!Ask(e) \/ Names!Mark(e) \/ Names!PassFails(e)
      PROVE  NamesInv' /\ RowsAreKept
  BY <1>1, <1>4, NextDueStep, AskStep, MarkStep, PassFailsStep
<1> QED
  BY <1>2, <1>3, <1>4 DEF Names!Next

\* Whatever the scheduler's enricher and the backfill do to each other: a name of SEC
\* was given by SEC to a filer on the exchange of the instrument, it is replaced by
\* another one only and never cleared, and what it replaced is in the history.
THEOREM OfficialNames == Names!Spec => NamesAreKept
<1>1. NamesInv /\ [Names!Next]_Names!vars =>
         [\A i \in Instruments : row'[i].name # row[i].name =>
             /\ row[i].by = "sec_edgar" /\ row[i].name # None => row'[i].name # None
             /\ row[i].name # None => row[i].name \in row'[i].history]_Names!vars
  BY NamesStep DEF RowsAreKept, Replaced
<1>2. NamesInv => Names!TypeOK /\ Names!NamesAreVerified
  BY NamesInvKeeps
<1>3. NamesInv /\ [Names!Next]_Names!vars => NamesInv'
  BY NamesStep
<1> QED
  BY <1>1, <1>2, <1>3, NamesInit, PTL
     DEF Names!Spec, NamesAreKept, Names!NamesAreKept, Names!NamesAreReplacedOnly

-----------------------------------------------------------------------------
(* Side by side *)

\* The gateway and the enrichers share no state: together they do what each does alone,
\* so that what is proved of each holds of both.
THEOREM SideBySide == UpstreamsSpec => Spec /\ Names!Spec
<1>1. UpstreamsInit => Init /\ Names!Init
  BY DEF UpstreamsInit
<1>2. [UpstreamsNext]_all => [Next]_vars /\ [Names!Next]_Names!vars
  BY DEF UpstreamsNext, OnGateway, OnNames, all, gateway, names, Names!vars
<1> QED
  BY <1>1, <1>2, PTL DEF UpstreamsSpec, Spec, Names!Spec
==============================================================================
